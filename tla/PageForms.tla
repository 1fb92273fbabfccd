----------------------------- MODULE PageForms -----------------------------
(***************************************************************************)
(* What the forms of the web application let through, and what the routers     *)
(* take: the inputs and the disabled buttons of apps/web/src/pages and admin,    *)
(* against the strict zod schemas of apps/api/src/modules and the checks of the   *)
(* services behind them.                                                          *)
(*                                                                         *)
(* A form is filled in and submitted once. A text is its length without the      *)
(* blanks around it: 0, 1, the most the input holds, and where the input has no    *)
(* maxLength more than the router takes. A choice among values both sides list     *)
(* is left out, and so is what depends on the moment (a limit per store, a row      *)
(* that is gone): what can be refused here is the form itself.                       *)
(***************************************************************************)
EXTENDS Integers, TLC

VARIABLES
  form,     \* the dialog or panel on screen
  filled,   \* what its inputs hold
  verdict   \* "none" before it is submitted, then "taken", "refused", or "altered":
            \* taken, but what was typed is not what is kept

formsVars == <<form, filled, verdict>>

\* The lengths an input with this maxLength can hold.
Text(most) == {0, 1, most}

\* The values a number input is left with that is meant to hold lo..hi, counted in
\* halves: min and max stop the arrows and not the keys.
Typed(lo, hi) == {2 * lo - 2, 2 * lo, 2 * lo + 1, 2 * hi, 2 * hi + 2}
Rounded(lo, hi) == {lo - 1, lo, hi, hi + 1}
Whole(x, lo, hi) == x % 2 = 0 /\ (x \div 2) \in lo .. hi

\* A key that is sent only then, and z.object(...).strict().
When(c, part) == IF c THEN part ELSE << >>
Strict(body, must, may) == must \subseteq DOMAIN body /\ DOMAIN body \subseteq must \cup may

Open(f, drafts) ==
  /\ form = "none" /\ form' = f
  /\ filled' \in drafts
  /\ UNCHANGED verdict

\* The button of the form is enabled; the router answers.
Submit(f, ready, outcome) ==
  /\ form = f /\ verdict = "none" /\ ready
  /\ verdict' = outcome
  /\ UNCHANGED <<form, filled>>

Answer(taken) == IF taken THEN "taken" ELSE "refused"

-----------------------------------------------------------------------------
(* Campaigns.                                                               *)

Channel == {"EMAIL", "SMS"}

\* VariantFields: from scratch; or from a template, whose texts fit its channel, and
\* which keeps its id when they are edited; or from scratch after all, when the
\* template's texts stay, and its html, which no input shows. words: whose they are;
\* html: bodyHtml is a template's; known: no unknown {{variable}}.
Variant ==
  [template : {"none", "EMAIL"}, words : {"typed"}, html : BOOLEAN,
   subject : {0, 200}, body : {0, 5000}, known : BOOLEAN]
  \cup [template : {"none", "EMAIL"}, words : {"template"}, html : BOOLEAN,
        subject : {200}, body : {5000}, known : {TRUE}]
  \cup [template : {"SMS"}, words : {"typed"}, html : {FALSE},
        subject : {0, 200}, body : {0, 5000}, known : BOOLEAN]
  \cup [template : {"SMS"}, words : {"template"}, html : {FALSE},
        subject : {0}, body : {5000}, known : {TRUE}]

EmptyVariant == [template |-> "none", words |-> "typed", html |-> FALSE,
                 subject |-> 0, body |-> 0, known |-> TRUE]

Written(v, channel) == v.body > 0 /\ (channel = "EMAIL" => v.subject > 0)

\* toVariant.
Sent(v, channel) ==
  [bodyText |-> v.body, known |-> v.known, words |-> v.words]
  @@ When(v.template # "none", [templateId |-> v.template])
  @@ When(channel = "EMAIL", [subject |-> v.subject])
  @@ When(channel = "EMAIL" /\ v.html, [bodyHtml |-> "template"])

\* variantSchema, resolveVariant and validateVariantPayload: a template's own texts
\* are valid since its creation, and are taken instead of those sent along.
Resolved(v, channel) ==
  /\ v.bodyText \in 1 .. 5000
  /\ "subject" \in DOMAIN v => v.subject <= 200
  /\ IF "templateId" \in DOMAIN v THEN v.templateId = channel
     ELSE /\ v.known /\ ("subject" \in DOMAIN v <=> channel = "EMAIL")
          /\ "bodyHtml" \in DOMAIN v => channel = "EMAIL"

\* Whose words the recipients read: a template is taken as it is, and an html body is
\* shown in the place of the text.
Read(v) == IF {"templateId", "bodyHtml"} \cap DOMAIN v # {} THEN "template" ELSE v.words

CampaignDrafts ==
  [name : Text(140), channel : Channel, a : Variant, useB : {FALSE}, b : {EmptyVariant}, split : {50}]
  \cup [name : {140}, channel : Channel, a : Variant, useB : {TRUE}, b : Variant, split : {1}]

CampaignReady(d) ==
  /\ d.name > 0 /\ Written(d.a, d.channel)
  /\ d.useB => Written(d.b, d.channel)

CampaignBody(d) ==
  [name |-> d.name, channel |-> d.channel, variantA |-> Sent(d.a, d.channel)]
  @@ When(d.useB, [variantB |-> Sent(d.b, d.channel), splitBPercent |-> d.split])

VariantsOf(b) == {b.variantA} \cup (IF "variantB" \in DOMAIN b THEN {b.variantB} ELSE {})

\* campaignCreateSchema, createCampaign.
CampaignTakes(b) ==
  /\ b.name \in 1 .. 140
  /\ \A v \in VariantsOf(b) : Resolved(v, b.channel)
  /\ "splitBPercent" \in DOMAIN b => b.splitBPercent \in 0 .. 100

CampaignOutcome(b) ==
  IF CampaignTakes(b) /\ \E v \in VariantsOf(b) : Read(v) # v.words THEN "altered"
  ELSE Answer(CampaignTakes(b))

SubmitCampaign ==
  Submit("campaign", CampaignReady(filled), CampaignOutcome(CampaignBody(filled)))

\* TemplatesPanel: the same editor creates and edits.
TemplateDrafts ==
  [name : Text(140), channel : Channel, subject : Text(200), body : Text(5000), known : BOOLEAN]
\* Mutant: the subject of an e-mail template may be missing.
TemplateAnyReady(d) == d.name > 0 /\ d.body > 0
TemplateReady(d) == d.name > 0 /\ d.body > 0 /\ (d.channel = "EMAIL" => d.subject > 0)
TemplateBody(d) ==
  [name |-> d.name, channel |-> d.channel, bodyText |-> d.body]
  @@ When(d.channel = "EMAIL", [subject |-> d.subject])

\* templateCreateSchema, validateTemplateInput.
TemplateTakes(b, known) ==
  /\ Strict(b, {"name", "channel", "bodyText"}, {"subject", "bodyHtml"})
  /\ b.name \in 1 .. 140 /\ b.bodyText \in 1 .. 5000
  /\ IF b.channel = "EMAIL" THEN "subject" \in DOMAIN b /\ b.subject \in 1 .. 200
     ELSE "subject" \notin DOMAIN b
  /\ known

SubmitTemplate ==
  Submit("template", TemplateReady(filled), Answer(TemplateTakes(TemplateBody(filled), filled.known)))

\* PUT /templates/:id takes templateCreateSchema.partial().omit({channel}).
TemplateEditTakes(b) == Strict(b, {}, {"name", "subject", "bodyText", "bodyHtml"})
SubmitTemplateEdit ==
  Submit("template edit", TemplateReady(filled), Answer(TemplateEditTakes(TemplateBody(filled))))

\* The page posts to /templates/:id/delete, the router has DELETE /templates/:id.
TemplateRoutes == {<<"PUT", "id">>, <<"DELETE", "id">>}
SubmitTemplateDelete ==
  Submit("template delete", TRUE, Answer(<<"POST", "id/delete">> \in TemplateRoutes))

CampaignForms ==
  \/ Open("campaign", CampaignDrafts) \/ SubmitCampaign
  \/ Open("template", TemplateDrafts) \/ SubmitTemplate
  \/ Open("template edit", TemplateDrafts) \/ SubmitTemplateEdit
  \/ Open("template delete", {[confirmed |-> TRUE]}) \/ SubmitTemplateDelete

-----------------------------------------------------------------------------
(* Workflows: the dialog that makes one, the panel that saves one, and the     *)
(* configuration of a node, which is saved with the graph.                       *)

\* A trigger: a cron expression is a text of five fields that parseCron reads or not.
Triggers ==
  [kind : {"MANUAL"}] \cup [kind : {"EVENT"}, topic : {"listed", "other"}]
  \cup [kind : {"SCHEDULE"}, cron : {0, 9, 65}, parses : BOOLEAN]

\* triggerConfigSchema; the cron check of validateWorkflowDefinition.
TriggerTakes(t) ==
  /\ t.kind = "SCHEDULE" => t.cron \in 9 .. 64 /\ t.parses
  /\ t.kind = "EVENT" => t.topic = "listed"

WorkflowDrafts == [name : Text(140), description : Text(500), trigger : Triggers]
WorkflowBody(d) ==
  [name |-> d.name, definition |-> d.trigger]
  @@ When(d.description > 0, [description |-> d.description])
WorkflowTakes(b) ==
  /\ b.name \in 1 .. 120
  /\ "description" \in DOMAIN b => b.description <= 500
  /\ TriggerTakes(b.definition)

SubmitWorkflow ==
  Submit("workflow", filled.name > 0, Answer(WorkflowTakes(WorkflowBody(filled))))

\* "Save version": whatever differs from what the page was given. renamed: metadataDirty.
SaveDrafts == [name : Text(140), description : Text(500), renamed : BOOLEAN, redrawn : BOOLEAN]
SaveReady(d) == d.renamed \/ d.redrawn
SaveBody(d) == When(d.renamed, [name |-> d.name, description |-> d.description])
SaveTakes(b) ==
  /\ "name" \in DOMAIN b => b.name \in 1 .. 120
  /\ "description" \in DOMAIN b => b.description <= 500

SubmitSave == Submit("workflow save", SaveReady(filled), Answer(SaveTakes(SaveBody(filled))))

\* NodeConfigForm: what its inputs leave in the configuration of a node.
NodeDrafts ==
  [kind : {"TRIGGER"}, trigger : {t \in Triggers : t.kind = "EVENT" => t.topic = "listed"}]
  \cup [kind : {"CONDITION"}, value : {0, 1, 201}]
  \cup [kind : {"DELAY"}, minutes : {1, 43200, 43201}]
  \cup [kind : {"SEND_EMAIL"}, subject : Text(200), body : Text(5000), html : {0, 20000}, known : BOOLEAN]
  \cup [kind : {"SEND_SMS"}, body : Text(1000), known : BOOLEAN]
  \cup [kind : {"TAG_CUSTOMER"}, tag : Text(40), comma : BOOLEAN]
  \cup [kind : {"CREATE_DISCOUNT"}, code : {0, 4, 33}, plain : BOOLEAN, percent : Rounded(1, 50),
        days : Rounded(1, 60)]

\* The schema of each kind, and the unknown variables validateWorkflowDefinition finds.
NodeTakes(c) ==
  /\ c.kind = "TRIGGER" => TriggerTakes(c.trigger)
  /\ c.kind = "CONDITION" => c.value <= 200
  /\ c.kind = "DELAY" => c.minutes \in 1 .. 43200
  /\ c.kind = "SEND_EMAIL" =>
       c.subject \in 1 .. 200 /\ c.body \in 1 .. 5000 /\ c.html <= 20000 /\ c.known
  /\ c.kind = "SEND_SMS" => c.body \in 1 .. 1000 /\ c.known
  /\ c.kind = "TAG_CUSTOMER" => c.tag \in 1 .. 40 /\ ~c.comma
  /\ c.kind = "CREATE_DISCOUNT" =>
       c.code \in 4 .. 32 /\ c.plain /\ c.percent \in 1 .. 50 /\ c.days \in 1 .. 60

SubmitNode == Submit("node", TRUE, Answer(NodeTakes(filled)))

WorkflowForms ==
  \/ Open("workflow", WorkflowDrafts) \/ SubmitWorkflow
  \/ Open("workflow save", SaveDrafts) \/ SubmitSave
  \/ Open("node", NodeDrafts) \/ SubmitNode

-----------------------------------------------------------------------------
(* The other forms of a store's pages.                                      *)

\* The reason of a rejection may be left out, on either page.
RejectionDrafts == {<< >>} \cup [reason : {1, 500}]
SubmitRejection ==
  Submit("rejection", TRUE, Answer("reason" \in DOMAIN filled => filled.reason <= 500))

TicketDrafts == [subject : Text(200), body : Text(10000)]
TicketTakes(b) == b.subject \in 1 .. 200 /\ b.body \in 1 .. 10000
SubmitTicket ==
  Submit("ticket", filled.subject > 0 /\ filled.body > 0, Answer(TicketTakes(filled)))

\* The reply of the merchant and the reply of the operator.
SubmitReply == Submit("reply", filled.body > 0, Answer(filled.body \in 1 .. 10000))

\* RequestExportDialog and useRequestExportMutation: a date not given is not sent.
ExportDrafts == [from : BOOLEAN, to : BOOLEAN]
ExportBody(d) ==
  [kind |-> "ORDERS", format |-> "CSV"]
  @@ When(d.from \/ d.to, [params |-> When(d.from, [from |-> "date"]) @@ When(d.to, [to |-> "date"])])
ExportTakes(b) ==
  /\ Strict(b, {"kind", "format"}, {"params"})
  /\ "params" \in DOMAIN b => Strict(b.params, {}, {"from", "to"})
SubmitExport == Submit("export", TRUE, Answer(ExportTakes(ExportBody(filled))))

\* The schedule of the reports: an empty recipient is sent as null.
ScheduleDrafts == [recipient : {0, 1, 320, 321}, address : BOOLEAN]
ScheduleTakes(d) == d.recipient > 0 => d.address /\ d.recipient <= 320
SubmitSchedule == Submit("report schedule", TRUE, Answer(ScheduleTakes(filled)))

\* BrandingTab and PreferencesStep: the colour, which only the first one sends, and
\* the modes of @profit/types, where the router lists two others.
PageModes == {"MANUAL", "SEMI_AUTOMATIC", "FULLY_AUTOMATIC"}
RouterModes == {"SUGGEST", "AUTO_WITH_APPROVAL"}
PreferenceDrafts == [colour : {"none", "empty", "#rgb", "#rrggbb", "other"}, mode : PageModes]
PreferenceReady(d) == d.colour # "other"
PreferenceTakes(d) == d.colour \in {"none", "#rrggbb"} /\ d.mode \in RouterModes
SubmitPreferences ==
  Submit("preferences", PreferenceReady(filled), Answer(PreferenceTakes(filled)))

\* AiGuardrailsPanel: the policy as the numbers typed, against the one in force.
PolicyDrafts ==
  [delay : Typed(1, 72), cart : {-1, 0, 100000000, 100000001}, discount : Typed(0, 50),
   cap : Typed(5, 50), revenue : {-1, 0, 1000000000, 1000000001}]
InForce == [delay |-> 2, cart |-> 0, discount |-> 0, cap |-> 10, revenue |-> 0]
PolicyTakes(d) ==
  /\ Whole(d.delay, 1, 72) /\ d.cart \in 0 .. 100000000 /\ Whole(d.discount, 0, 50)
  /\ Whole(d.cap, 5, 50) /\ d.revenue \in 0 .. 1000000000
SubmitPolicy == Submit("policy", filled # InForce, Answer(PolicyTakes(filled)))

\* A question to the copilot.
SubmitQuestion ==
  Submit("question", filled.length >= 2, Answer(filled.length \in 2 .. 500))

StoreForms ==
  \/ Open("rejection", RejectionDrafts) \/ SubmitRejection
  \/ Open("ticket", TicketDrafts) \/ SubmitTicket
  \/ Open("reply", [body : Text(10000)]) \/ SubmitReply
  \/ Open("export", ExportDrafts) \/ SubmitExport
  \/ Open("report schedule", ScheduleDrafts) \/ SubmitSchedule
  \/ Open("preferences", PreferenceDrafts) \/ SubmitPreferences
  \/ Open("policy", PolicyDrafts) \/ SubmitPolicy
  \/ Open("question", [length : {0, 1, 2, 500, 501}]) \/ SubmitQuestion

-----------------------------------------------------------------------------
(* The operator's console, every write of which has a reason.                *)

Reasons == {0, 2, 3, 500}
ReasonOk(r) == r >= 3
Reasoned(b) == "reason" \in DOMAIN b /\ b.reason \in 1 .. 500

SubmitSession ==
  Submit("session", filled.operatorId > 0 /\ ReasonOk(filled.reason),
         Answer(filled.operatorId \in 1 .. 200 /\ Reasoned(filled)))

\* The mutation of an extension and of a grant posts its whole input, the store's id
\* included, which is in the path.
ExtensionDrafts == [additionalDays : Rounded(1, 90), reason : Reasons]
ExtensionBody(d) == [storeId |-> "store"] @@ d
ExtensionTakes(b) ==
  Strict(b, {"additionalDays", "reason"}, {}) /\ b.additionalDays \in 1 .. 90 /\ Reasoned(b)
SubmitExtension ==
  Submit("extension", ReasonOk(filled.reason), Answer(ExtensionTakes(ExtensionBody(filled))))

GrantDrafts == [until : BOOLEAN, reason : Reasons]
GrantBody(d) ==
  [storeId |-> "store", kind |-> "COMP_ACCESS", accessUntil |-> d.until, reason |-> d.reason]
GrantTakes(b) == Strict(b, {"kind", "accessUntil", "reason"}, {}) /\ Reasoned(b)
SubmitGrant ==
  Submit("grant", filled.until /\ ReasonOk(filled.reason), Answer(GrantTakes(GrantBody(filled))))

\* Of a revocation only the reason is sent.
SubmitRevocation == Submit("revocation", ReasonOk(filled.reason), Answer(Reasoned(filled)))

\* An empty message is sent as null.
SubmitMaintenance ==
  Submit("maintenance", ReasonOk(filled.reason), Answer(filled.message <= 500 /\ Reasoned(filled)))

\* Both flags are sent, whatever was ticked.
FlagsBody(d) ==
  [flags |-> [aiDisabled |-> d.ai, automationDisabled |-> d.automation], reason |-> d.reason]
FlagsTake(b) ==
  /\ Strict(b.flags, {}, {"aiDisabled", "automationDisabled"}) /\ DOMAIN b.flags # {}
  /\ Reasoned(b)
SubmitFlags == Submit("flags", ReasonOk(filled.reason), Answer(FlagsTake(FlagsBody(filled))))

ConsoleForms ==
  \/ Open("session", [operatorId : Text(200), reason : Reasons]) \/ SubmitSession
  \/ Open("extension", ExtensionDrafts) \/ SubmitExtension
  \/ Open("grant", GrantDrafts) \/ SubmitGrant
  \/ Open("revocation", [reason : Reasons]) \/ SubmitRevocation
  \/ Open("maintenance", [message : Text(500), reason : Reasons]) \/ SubmitMaintenance
  \/ Open("flags", [ai : BOOLEAN, automation : BOOLEAN, reason : Reasons]) \/ SubmitFlags

Close == form # "none" /\ form' = "none" /\ filled' = << >> /\ verdict' = "none"

-----------------------------------------------------------------------------

Init == form = "none" /\ filled = << >> /\ verdict = "none"

FormsNext == CampaignForms \/ WorkflowForms \/ StoreForms \/ ConsoleForms \/ Close

FormsSpec == Init /\ [][FormsNext]_formsVars

-----------------------------------------------------------------------------
(* Where the pages and the routers disagree.                                 *)

\* What these send has a key or a value the router's schema does not have, or no route.
NeverTaken == {"template edit", "template delete", "preferences", "extension", "grant"}

\* A trigger's cron and topic are typed freely; a node's texts may stay empty, and its
\* numbers, code and tag are what was typed.
Misfit(t) ==
  \/ t.kind = "SCHEDULE" /\ (t.cron # 9 \/ ~t.parses)
  \/ t.kind = "EVENT" /\ t.topic = "other"
LeftUnfit(c) ==
  \/ c.kind = "TRIGGER" /\ Misfit(c.trigger)
  \/ c.kind = "CONDITION" /\ c.value = 201
  \/ c.kind = "DELAY" /\ c.minutes = 43201
  \/ c.kind = "SEND_EMAIL" /\ (0 \in {c.subject, c.body} \/ ~c.known)
  \/ c.kind = "SEND_SMS" /\ (c.body = 0 \/ ~c.known)
  \/ c.kind = "TAG_CUSTOMER" /\ (c.tag = 0 \/ c.comma)
  \/ c.kind = "CREATE_DISCOUNT" /\ (c.code # 4 \/ ~c.plain \/ {c.percent, c.days} \cap {0, 51, 61} # {})

Variants(d) == {d.a} \cup IF d.useB THEN {d.b} ELSE {}

\* What the form lets through and the server does not.
Unchecked(f, d) ==
  \/ f = "campaign" /\ \E v \in Variants(d) :
       IF v.template = "none" THEN ~v.known ELSE v.template # d.channel
  \/ f = "template" /\ ~d.known
  \/ f = "workflow" /\ (d.name > 120 \/ Misfit(d.trigger))
  \/ f = "workflow save" /\ d.renamed /\ d.name \notin 1 .. 120
  \/ f = "node" /\ LeftUnfit(d)
  \/ f = "report schedule" /\ d.recipient > 0 /\ (~d.address \/ d.recipient > 320)
  \/ f = "policy" /\ (d.delay \notin {2, 144} \/ d.cart \notin {0, 100000000}
                       \/ d.discount \notin {0, 100} \/ d.cap \notin {10, 100}
                       \/ d.revenue \notin {0, 1000000000})
  \/ f = "question" /\ d.length > 500

\* A form that lets its button be pressed is refused for nothing but what it is known
\* not to check, and five forms are refused whatever they hold: all texts, bounds and
\* keys of the pages and of the routers, two lists kept by hand, otherwise agree. And
\* what is taken says what was typed, except a campaign with a text typed over a
\* template's: under its id, or, for an e-mail, after "Write from scratch" under its
\* html; with the id of another channel's template it would have been refused.
RefusedOnlyUnchecked ==
  /\ verdict = "refused" <=> verdict # "none" /\ (form \in NeverTaken \/ Unchecked(form, filled))
  /\ verdict = "altered" <=>
       /\ form = "campaign" /\ verdict \notin {"none", "refused"}
       /\ \E v \in Variants(filled) :
            /\ v.words = "typed"
            /\ v.template # "none" \/ (v.html /\ filled.channel = "EMAIL")

=============================================================================
