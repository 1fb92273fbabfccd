---------------------------- MODULE CampaignDesk ----------------------------
(***************************************************************************)
(* What surrounds the sending of a campaign: the template it is drafted from,  *)
(* the drafts and their limit, the variant each recipient is written with, the   *)
(* clicks on the links in the messages, the statistics and the declared winner     *)
(* (packages/automation/src/campaign.service.ts, campaign.sender.ts, tracking.ts,   *)
(* tracking.service.ts, apps/api/src/modules/automation-center/campaigns.router.ts). *)
(*                                                                         *)
(* The chain of batches is CampaignSend's: here a recipient is attempted until    *)
(* an attempt has recorded its outcome.  Texts are numbers, 0 is none.             *)
(***************************************************************************)
EXTENDS Naturals, Sequences, FiniteSets

CONSTANTS Members,     \* requests that may be going on
          Texts,       \* contents whose template variables are all known
          Recipients, Bucket,  \* customers, and assignVariant's hash of each
          MaxActive,   \* CAMPAIGN_LIMITS.maxActivePerStore
          MaxDrafts, MaxRevisions, MaxLosses  \* bounds: campaigns, template edits, lost records

VARIABLES
  template,  \* text of the message_templates row, 0 when there is none
  drafts,    \* campaigns
  request,   \* each request: where it is, the texts it has resolved
  chosen,    \* recipients' variant, once campaign 1 is dispatched
  fate,      \* recipients' status
  got,       \* texts a recipient has been sent
  opened, parted,  \* OPENED and UNSUBSCRIBED events, by recipient
  barred,    \* suppressed, and told so
  overlaps,  \* ghost: drafts inserted while another request had counted too
  revisions, losses

campaignVars == <<template, drafts, request, chosen, fate, got, opened, parted, barred,
                  overlaps, revisions, losses>>
sending == <<chosen, fate, got, losses>>
links   == <<opened, parted, barred>>

NoRequest == [at |-> "idle", a |-> 0, b |-> 0]

Init ==
  /\ template = 0 /\ drafts = <<>>
  /\ request = [m \in Members |-> NoRequest]
  /\ chosen = [r \in Recipients |-> "none"] /\ fate = [r \in Recipients |-> "NONE"]
  /\ got = [r \in Recipients |-> {}]
  /\ opened = {} /\ parted = {} /\ barred = {}
  /\ overlaps = 0 /\ revisions = 0 /\ losses = 0

At(m, where) == request[m].at = where
Answered(m)  == request' = [request EXCEPT ![m] = NoRequest]

-----------------------------------------------------------------------------
(* Templates.                                                               *)

CreateTemplate(text) ==
  /\ template = 0 /\ revisions < MaxRevisions
  /\ template' = text /\ revisions' = revisions + 1
  /\ UNCHANGED <<drafts, request, sending, links, overlaps>>

UpdateTemplate(text) ==
  /\ template \notin {0, text} /\ revisions < MaxRevisions
  /\ template' = text /\ revisions' = revisions + 1
  /\ UNCHANGED <<drafts, request, sending, links, overlaps>>

DeleteTemplate ==
  /\ template # 0
  /\ template' = 0
  /\ UNCHANGED <<drafts, request, sending, links, overlaps, revisions>>

-----------------------------------------------------------------------------
(* createCampaign: a transaction for each variant that comes from a template,     *)
(* then one that counts and inserts.                                         *)

\* Bound: nothing is drafted once campaign 1 goes out.
Drafting == \A i \in DOMAIN drafts : drafts[i].status \in {"DRAFT", "CANCELLED"}

\* resolveVariant: the text given, or the template's as it is now.
Resolvable == (Texts \cup {template}) \ {0}

Draft(m, text) ==
  /\ At(m, "idle") /\ Len(drafts) < MaxDrafts /\ Drafting /\ text \in Resolvable
  /\ request' = [request EXCEPT ![m] = [NoRequest EXCEPT !.at = "second", !.a = text]]
  /\ UNCHANGED <<template, drafts, sending, links, overlaps, revisions>>

Second(m, text) ==
  /\ At(m, "second") /\ text \in Resolvable \cup {0}
  /\ request' = [request EXCEPT ![m].at = "count", ![m].b = text]
  /\ UNCHANGED <<template, drafts, sending, links, overlaps, revisions>>

Active == {i \in DOMAIN drafts : drafts[i].status # "CANCELLED"}

Room == Cardinality(Active) < MaxActive

Count(m) ==
  /\ At(m, "count")
  /\ IF Room THEN request' = [request EXCEPT ![m].at = "insert"] ELSE Answered(m)
  /\ UNCHANGED <<template, drafts, sending, links, overlaps, revisions>>

\* splitBPercent counts only with a variant B.
Insert(m, split) ==
  /\ At(m, "insert") /\ Len(drafts) < MaxDrafts /\ Answered(m)
  /\ drafts' = Append(drafts, [a |-> request[m].a, b |-> request[m].b, status |-> "DRAFT",
                               split |-> IF request[m].b = 0 THEN 0 ELSE split, winner |-> "none"])
  /\ overlaps' = IF \E n \in Members \ {m} : At(n, "insert") THEN overlaps + 1 ELSE overlaps
  /\ UNCHANGED <<template, sending, links, revisions>>

Cancel(i) ==
  /\ drafts[i].status = "DRAFT"
  /\ drafts' = [drafts EXCEPT ![i].status = "CANCELLED"]
  /\ UNCHANGED <<template, request, sending, links, overlaps, revisions>>

-----------------------------------------------------------------------------
(* Campaign 1 is sent.                                                      *)

AssignVariant(r, split) == IF Bucket[r] < split THEN "B" ELSE "A"

\* scheduleCampaign, dispatch and materializeAudience.  Bound: there is no other.
Dispatch ==
  /\ Len(drafts) = 1 /\ drafts[1].status = "DRAFT" /\ \A m \in Members : At(m, "idle")
  /\ drafts' = [drafts EXCEPT ![1].status = "SENDING"]
  /\ chosen' = [r \in Recipients |-> AssignVariant(r, drafts[1].split)]
  /\ fate' = [r \in Recipients |-> "PENDING"]
  /\ UNCHANGED <<template, request, got, losses, links, overlaps, revisions>>

\* Mutant: what the template says now.
TextOfTemplate(r) == IF template # 0 THEN template ELSE drafts[1].a

\* variantFor.
TextFor(r) == IF chosen[r] = "B" /\ drafts[1].b # 0 THEN drafts[1].b ELSE drafts[1].a

Attempting(r) == 1 \in DOMAIN drafts /\ drafts[1].status = "SENDING" /\ fate[r] = "PENDING"

\* deliverOne: skipped, refused by the provider, or accepted and recorded.  The record
\* may fail, which is recorded as a failure, or the worker dies before it.
Attempt(r, accepted, outcome) ==
  /\ Attempting(r) /\ fate' = [fate EXCEPT ![r] = outcome]
  /\ r \in barred => outcome = "SKIPPED" /\ ~accepted
  /\ r \notin barred => outcome # "SKIPPED"
  /\ outcome = "SENT" => accepted
  /\ got' = IF accepted THEN [got EXCEPT ![r] = @ \cup {TextFor(r)}] ELSE got
  /\ IF accepted = (outcome = "SENT") /\ outcome # "PENDING" THEN UNCHANGED losses
     ELSE losses < MaxLosses /\ losses' = losses + 1
  /\ UNCHANGED <<template, drafts, request, chosen, links, overlaps, revisions>>

Complete ==
  /\ 1 \in DOMAIN drafts /\ drafts[1].status = "SENDING"
  /\ \A r \in Recipients : fate[r] # "PENDING"
  /\ drafts' = [drafts EXCEPT ![1].status = "SENT"]
  /\ UNCHANGED <<template, request, sending, links, overlaps, revisions>>

\* declareWinner.
DeclareWinner(i, v) ==
  /\ drafts[i].status = "SENT" /\ (v = "B" => drafts[i].b # 0)
  /\ drafts' = [drafts EXCEPT ![i].winner = v]
  /\ UNCHANGED <<template, request, sending, links, overlaps, revisions>>

-----------------------------------------------------------------------------
(* The links: whoever has a message has its tokens, and the endpoints do not ask     *)
(* for the recipient's status.  Only tokens to open and click are put in; one to     *)
(* unsubscribe is taken to be obtained for whoever has a message.                    *)

Linked(r) == got[r] # {}

RecordOpen(r) ==
  /\ Linked(r) /\ opened' = opened \cup {r}
  /\ UNCHANGED <<template, drafts, request, sending, parted, barred, overlaps, revisions>>

\* recordUnsubscribe: two statements, and the answer.
RecordUnsubscribe(r) ==
  /\ Linked(r) /\ parted' = parted \cup {r}
  /\ UNCHANGED <<template, drafts, request, sending, opened, barred, overlaps, revisions>>

Suppress(r) ==
  /\ r \in parted /\ barred' = barred \cup {r}
  /\ UNCHANGED <<template, drafts, request, sending, opened, parted, overlaps, revisions>>

CampaignNext ==
  \/ DeleteTemplate \/ Dispatch \/ Complete
  \/ \E text \in Texts : CreateTemplate(text) \/ UpdateTemplate(text)
  \/ \E m \in Members :
       \/ \E text \in Texts \cup {0} : Draft(m, text) \/ Second(m, text)
       \/ Count(m) \/ \E split \in {50} : Insert(m, split)
  \/ \E i \in DOMAIN drafts : Cancel(i) \/ \E v \in {"A", "B"} : DeclareWinner(i, v)
  \/ \E r \in Recipients : \/ RecordOpen(r) \/ RecordUnsubscribe(r) \/ Suppress(r)
                           \/ \E accepted \in BOOLEAN,
                                outcome \in {"SENT", "FAILED", "SKIPPED", "PENDING"} : Attempt(r, accepted, outcome)

CampaignSpec == Init /\ [][CampaignNext]_campaignVars

-----------------------------------------------------------------------------
(* Properties.                                                              *)

\* getStats, of one variant.
SentOf(v)  == Cardinality({r \in Recipients : chosen[r] = v /\ fate[r] = "SENT"})
OpensOf(v) == Cardinality({r \in opened : chosen[r] = v})

\* "Variant payloads are immutable snapshots": whatever becomes of the template and
\* however often the worker dies, a recipient never gets two different texts, nor one
\* of another variant than the campaign was drafted with; the opens exceed the messages
\* sent by no more than the records lost on the way; and the drafts keep to their limit, but for those
\* counted at the same time.
SnapshotsHold ==
  /\ \A r \in Recipients : got[r] # {} => got[r] = {IF chosen[r] = "B" THEN drafts[1].b ELSE drafts[1].a}
  /\ OpensOf("A") + OpensOf("B") <= SentOf("A") + SentOf("B") + losses
  /\ \A i \in DOMAIN drafts : drafts[i].winner = "B" => drafts[i].b # 0
  /\ Cardinality(Active) <= MaxActive + overlaps

=============================================================================
