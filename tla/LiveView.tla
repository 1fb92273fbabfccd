------------------------------ MODULE LiveView ------------------------------
(***************************************************************************)
(* What a page shows and what the server holds: one entry of the browser's     *)
(* query cache, against one act that changes what the entry was read from       *)
(* (apps/web/src/lib/query-client.ts, query-keys.ts, *-queries.ts, realtime.ts;   *)
(* the routers and worker handlers the acts reach).                                *)
(*                                                                         *)
(* An act is a mutation of the page or a job of the worker. Its answer, or its   *)
(* event, names prefixes of keys; the entries below them are marked and, when     *)
(* on screen, fetched again. The entry's content is the number of acts it knows.  *)
(* Views of one root that are read and named alike are one view, rows are one     *)
(* row, and the server's own cache is StoreCache.                                  *)
(***************************************************************************)
EXTENDS Integers, Sequences, TLC

CONSTANT MaxActs  \* bound: times the act is done

VARIABLES
  act, view,  \* what is done, and what is looked at
  written,    \* times the act was done
  due,        \* those whose answer or event is on its way
  known,      \* the latest the page was told of
  shown,      \* what the entry holds, None before its first answer
  marked,     \* isInvalidated
  aged,       \* staleTime has passed
  fetch,      \* Idle, Asked, or what the server has read for the answer
  mounted,
  outrun      \* history: "answer" when a mark came after what it was read from,
              \* "entry" when the entry holds it, or "no"

entry    == <<shown, marked, aged, fetch, outrun>>
liveVars == <<act, view, written, due, known, mounted, entry>>

None  == -1
Idle  == -1
Asked == -2

-----------------------------------------------------------------------------
(* The keys of the views. The search and the audit log are left out: no act names  *)
(* them, and they live for their staleTime.                                     *)

StoreKeys == [store |-> <<"store">>, subscription |-> <<"subscription">>]

SyncKeys == [syncStatus |-> <<"sync", "status">>, syncHistory |-> <<"sync", "history">>]

AnalyticsKeys == [analytics |-> <<"analytics", "summary">>]

CatalogKeys == [catalog |-> <<"catalog", "products">>]

BellKeys ==
  [notifications |-> <<"notifications", "page">>, badge |-> <<"notifications", "badge">>]

AdviceKeys ==
  [recommendations |-> <<"recommendations">>,
   recommendation |-> <<"recommendations", "detail", "r">>,
   aiOverview |-> <<"ai", "overview">>, automation |-> <<"automation", "overview">>]

BillingKeys ==
  [billing |-> <<"billing", "overview">>, plans |-> <<"billing", "plans">>,
   billingHistory |-> <<"billing", "history">>, roi |-> <<"billing", "roi">>]

AdminKeys ==
  [adminOverview |-> <<"admin", "overview">>, merchants |-> <<"admin", "merchants">>]

InboxKeys ==
  [adminTickets |-> <<"admin", "tickets">>, adminTicket |-> <<"admin", "tickets", "detail", "t">>,
   actions |-> <<"admin", "actions">>, overrides |-> <<"admin", "overrides", "s">>,
   review |-> <<"admin", "access-review", "s">>,
   reviewSessions |-> <<"admin", "access-review", "sessions">>]

OpsKeys ==
  [opsFlags |-> <<"admin", "ops", "flags">>, opsJobs |-> <<"admin", "ops", "jobs">>,
   featureFlags |-> <<"admin", "ops", "feature-flags", "s">>]

WorkflowKeys ==
  [workflows |-> <<"workflows">>, workflow |-> <<"workflows", "w">>,
   workflowRuns |-> <<"workflows", "w", "runs">>, runSteps |-> <<"workflows", "w", "run", "r">>]

CampaignKeys ==
  [campaigns |-> <<"campaigns">>, campaignStats |-> <<"campaigns", "c", "stats">>,
   templates |-> <<"campaigns", "templates">>, suppressions |-> <<"campaigns", "suppressions">>]

ExportKeys == [exports |-> <<"exports">>]

TicketKeys == [tickets |-> <<"support", "tickets">>, ticket |-> <<"support", "tickets", "t">>]

CopilotKeys ==
  [conversations |-> <<"copilot", "conversations">>,
   conversation |-> <<"copilot", "conversations", "c">>]

ReportKeys == [reports |-> <<"reports", "any">>, report |-> <<"reports", "detail", "r">>]

OperatorKeys == AdminKeys @@ InboxKeys @@ OpsKeys

Keys ==
  StoreKeys @@ SyncKeys @@ AnalyticsKeys @@ CatalogKeys @@ BellKeys @@ AdviceKeys @@ BillingKeys
    @@ WorkflowKeys @@ CampaignKeys @@ ExportKeys @@ TicketKeys @@ CopilotKeys @@ ReportKeys
    @@ OperatorKeys

-----------------------------------------------------------------------------
(* The tables each view is read from.                                       *)

StoreReads == [store |-> {"settings", "onboarding", "subscription"}]

SubscriptionReads == [subscription |-> {"subscription"}]

SyncReads == [syncStatus |-> {"syncRuns"}, syncHistory |-> {"syncRuns"}]

AnalyticsReads == [analytics |-> {"analytics"}]

CatalogReads == [catalog |-> {"catalog"}]

BellReads == [notifications |-> {"notifications"}, badge |-> {"notifications"}]

AdviceReads ==
  [recommendations |-> {"recommendations"},
   recommendation |-> {"recommendations", "executions", "outcomes"}]

OverviewReads ==
  [aiOverview |-> {"aiRuns", "recommendations", "outcomes"},
   automation |-> {"settings", "executions", "outcomes"}]

\* usageSummary counts the AI calls, mails and executions of the window.
BillingReads ==
  [billing |-> {"subscription", "aiRuns", "executions"}, plans |-> {"subscription"},
   billingHistory |-> {"billingEvents"}]

RoiReads == [roi |-> {"outcomes", "recommendations", "aiRuns"}]

\* The console's overview and its list of merchants.
GrowthReads ==
  [adminOverview |-> {"subscription", "aiRuns", "jobs"},
   merchants |-> {"subscription", "outcomes", "aiRuns"}]

InboxReads == [adminTickets |-> {"tickets"}, adminTicket |-> {"tickets"}]

ActionReads == [actions |-> {"actions"}, overrides |-> {"overrides"}]

\* The operator actions with a store, and the sessions that were opened.
ReviewReads ==
  [review |-> {"overrides", "storeActions"}, reviewSessions |-> {"operatorSessions"}]

OpsReads == [opsFlags |-> {"opsFlags"}, opsJobs |-> {"jobs"}, featureFlags |-> {"featureFlags"}]

WorkflowReads ==
  [workflows |-> {"workflowList", "workflows"}, workflow |-> {"workflows"},
   workflowRuns |-> {"workflowRuns"}, runSteps |-> {"workflowRuns"}]

CampaignReads ==
  [campaigns |-> {"campaigns"}, campaignStats |-> {"campaigns", "messages"},
   templates |-> {"templates"}, suppressions |-> {"suppressions"}]

ExportReads == [exports |-> {"exports"}]

TicketReads == [tickets |-> {"ticketList", "tickets"}, ticket |-> {"tickets"}]

CopilotReads == [conversations |-> {"conversations"}, conversation |-> {"conversations"}]

ReportReads == [reports |-> {"reports"}, report |-> {"reports"}]

Reads ==
  StoreReads @@ SubscriptionReads @@ SyncReads @@ AnalyticsReads @@ CatalogReads @@ BellReads
    @@ AdviceReads @@ OverviewReads @@ BillingReads @@ RoiReads @@ GrowthReads @@ InboxReads
    @@ ActionReads @@ ReviewReads @@ OpsReads @@ WorkflowReads @@ CampaignReads @@ ExportReads
    @@ TicketReads @@ CopilotReads @@ ReportReads

-----------------------------------------------------------------------------
(* The tables each act changes. Three mutations of the page are no acts, for the  *)
(* API refuses each of them always: deleteTemplate posts where only DELETE is      *)
(* served, extendTrial and grantOverride send a storeId that a strict schema lacks. *)

SettingsChanges == [patchSettings |-> {"settings"}]

OnboardingChanges == [completeOnboarding |-> {"onboarding"}]

TrialChanges == [startTrial |-> {"subscription"}]

CancelChanges == [cancelSubscription |-> {"subscription", "billingEvents"}]

AdviceChanges ==
  [approve |-> {"recommendations", "executions"}, reject |-> {"recommendations"}]

BellChanges == [markRead |-> {"notifications"}, markAllRead |-> {"notifications"}]

TemplateChanges == [createTemplate |-> {"templates"}, updateTemplate |-> {"templates"}]

CampaignChanges ==
  [createCampaign |-> {"campaigns"}, scheduleCampaign |-> {"campaigns"},
   cancelCampaign |-> {"campaigns"}, declareWinner |-> {"campaigns"}]

\* workflowAction: activate, pause, archive or run.
WorkflowChanges ==
  [createWorkflow |-> {"workflowList"}, saveWorkflow |-> {"workflows"},
   workflowAction |-> {"workflows", "workflowRuns"}]

ExportChanges == [requestExport |-> {"exports"}]

TicketChanges ==
  [createTicket |-> {"ticketList"}, replyTicket |-> {"tickets"}, closeTicket |-> {"tickets"}]

CopilotChanges == [askCopilot |-> {"conversations"}]

ReportChanges == [generateReport |-> {"reports"}, emailReport |-> {"reports"}]

SessionChanges == [openSession |-> {"actions", "operatorSessions"}]

DeskChanges ==
  [replyAsOperator |-> {"tickets", "actions", "storeActions", "jobs"},
   transitionTicket |-> {"tickets", "actions", "storeActions"}]

OverrideChanges == [revokeOverride |-> {"overrides", "actions", "storeActions"}]

OpsChanges ==
  [setMaintenance |-> {"opsFlags", "actions"},
   setFeatureFlags |-> {"featureFlags", "actions", "storeActions"}]

\* Of the jobs, what they write before they publish.
SyncJobChanges ==
  [syncModule |-> {"syncRuns", "catalog"}, syncFails |-> {"syncRuns", "notifications"},
   fullSync |-> {"notifications"}]

AnalyticsJobChanges == [refreshAnalytics |-> {"analytics"}]

AiJobChanges ==
  [aiRun |-> {"recommendations", "aiRuns"}, quietAiRun |-> {"aiRuns"},
   measure |-> {"recommendations", "outcomes"}]

ExecutionChanges ==
  [execute |-> {"recommendations", "executions"},
   executeFails |-> {"recommendations", "executions", "notifications"}]

NotifyChanges == [notify |-> {"notifications"}]

Changes ==
  SettingsChanges @@ OnboardingChanges @@ TrialChanges @@ CancelChanges @@ AdviceChanges
    @@ BellChanges @@ TemplateChanges @@ CampaignChanges @@ WorkflowChanges @@ ExportChanges
    @@ TicketChanges @@ CopilotChanges @@ ReportChanges @@ SessionChanges @@ DeskChanges
    @@ OverrideChanges @@ OpsChanges @@ SyncJobChanges @@ AnalyticsJobChanges @@ AiJobChanges
    @@ ExecutionChanges @@ NotifyChanges

-----------------------------------------------------------------------------
(* The prefixes each act names.                                             *)

StoreNames ==
  [patchSettings |-> {<<"store">>, <<"automation">>, <<"ai">>}, completeOnboarding |-> {<<"store">>},
   startTrial |-> {<<"subscription">>}]

BellNames == [markRead |-> {<<"notifications">>}, markAllRead |-> {<<"notifications">>}]

AdviceNames ==
  [approve |-> {<<"recommendations">>, <<"ai">>, <<"automation">>},
   reject |-> {<<"recommendations">>, <<"ai">>}]

BillingNames == [cancelSubscription |-> {<<"billing">>, <<"subscription">>, <<"store">>}]

CampaignNames ==
  [a \in DOMAIN TemplateChanges |-> {<<"campaigns", "templates">>}] @@
  [a \in DOMAIN CampaignChanges |-> {<<"campaigns">>}]

\* The entry of a workflow just made is put there by the answer: it has no past.
WorkflowNames == [a \in DOMAIN WorkflowChanges |-> {<<"workflows">>}]

ExportNames == [requestExport |-> {<<"exports">>}]

TicketNames == [a \in DOMAIN TicketChanges |-> {<<"support", "tickets">>}]

ReportNames ==
  [generateReport |-> {<<"reports">>}, emailReport |-> {<<"reports", "detail", "r">>}]

CopilotNames == [askCopilot |-> {<<"copilot", "conversations">>}]

OperatorNames ==
  [openSession |-> {}, replyAsOperator |-> {<<"admin", "tickets">>},
   transitionTicket |-> {<<"admin", "tickets">>, <<"admin", "actions">>},
   revokeOverride |-> {<<"admin", "overrides", "s">>, <<"admin", "actions">>}]

OpsNames ==
  [setMaintenance |-> {<<"admin", "ops", "flags">>, <<"admin", "actions">>},
   setFeatureFlags |-> {<<"admin", "ops", "feature-flags", "s">>, <<"admin", "actions">>}]

\* The events a job publishes, itself or through NotificationService.create.
Events ==
  [syncModule |-> {"SyncModuleCompleted"},
   syncFails |-> {"NotificationCreated", "SyncModuleFailed"},
   fullSync |-> {"NotificationCreated", "SyncFullRunCompleted"}, refreshAnalytics |-> {},
   aiRun |-> {"RecommendationCreated"}, quietAiRun |-> {}, execute |-> {"RecommendationExecuted"},
   executeFails |-> {"NotificationCreated", "RecommendationExecuted"}, measure |-> {},
   notify |-> {"NotificationCreated"}]

\* QUERY_KEY_BY_KIND; nothing publishes AnalyticsRefreshed.
KeysByKind ==
  [NotificationCreated |-> {<<"notifications">>},
   SyncModuleCompleted |-> {<<"sync">>, <<"notifications">>},
   SyncModuleFailed |-> {<<"sync">>, <<"notifications">>},
   SyncFullRunCompleted |-> {<<"sync">>, <<"analytics">>, <<"catalog">>, <<"dashboard">>},
   AnalyticsRefreshed |-> {<<"analytics">>, <<"dashboard">>},
   RecommendationCreated |-> {<<"recommendations">>, <<"ai">>, <<"dashboard">>},
   RecommendationExecuted |-> {<<"recommendations">>, <<"ai">>, <<"automation">>, <<"dashboard">>}]

JobNames == [j \in DOMAIN Events |-> UNION {KeysByKind[e] : e \in Events[j]}]

Names ==
  StoreNames @@ BellNames @@ AdviceNames @@ BillingNames @@ CampaignNames @@ WorkflowNames
    @@ ExportNames @@ TicketNames @@ ReportNames @@ CopilotNames @@ OperatorNames @@ OpsNames
    @@ JobNames

\* The operator's console is a page of its own, without a socket.
OneTree(a, v) ==
  (v \in DOMAIN OperatorKeys) = (a \in DOMAIN OperatorNames \cup DOMAIN OpsNames)

Touches(a, v) == OneTree(a, v) /\ Changes[a] \cap Reads[v] # {}

\* invalidateQueries takes every key below a prefix.
Named(a, v) == \E p \in Names[a] : Len(p) <= Len(Keys[v]) /\ p = SubSeq(Keys[v], 1, Len(p))

-----------------------------------------------------------------------------
(* The entry.                                                               *)

Init ==
  /\ \E a \in DOMAIN Changes, v \in DOMAIN Keys :
       Touches(a, v) /\ act = a /\ view = v
  /\ written = 0 /\ due = {} /\ known = 0
  /\ shown = None /\ marked = FALSE /\ aged = FALSE
  /\ fetch = Idle /\ mounted = FALSE /\ outrun = "no"

Forgets == outrun' = IF outrun = "answer" THEN "no" ELSE outrun

Begins == fetch' = Asked /\ Forgets

Stale == shown = None \/ marked \/ aged

\* A component reads the view: a stale entry is fetched, a fetch under way joined.
Shows ==
  /\ ~mounted /\ mounted' = TRUE
  /\ IF Stale /\ fetch = Idle THEN Begins ELSE UNCHANGED <<fetch, outrun>>
  /\ UNCHANGED <<act, view, written, due, known, shown, marked, aged>>

\* The last component goes; a fetch under way goes on.
Hides ==
  /\ mounted /\ mounted' = FALSE
  /\ UNCHANGED <<act, view, written, due, known, entry>>

\* gcTime.
Collects ==
  /\ ~mounted /\ fetch = Idle /\ shown # None
  /\ shown' = None /\ marked' = FALSE /\ aged' = FALSE /\ outrun' = "no"
  /\ UNCHANGED <<act, view, written, due, known, fetch, mounted>>

\* staleTime.
Ages ==
  /\ shown # None /\ ~aged /\ aged' = TRUE
  /\ UNCHANGED <<act, view, written, due, known, shown, marked, fetch, mounted, outrun>>

\* refetchInterval: always, or while a row is on its way.
Polled == {"syncStatus", "badge", "exports", "reports", "workflowRuns"}

\* The window gains focus, or the interval is over.
Looks ==
  /\ mounted /\ fetch = Idle
  /\ Stale \/ view \in Polled
  /\ Begins
  /\ UNCHANGED <<act, view, written, due, known, shown, marked, aged, mounted>>

\* The server reads for the answer.
Answers ==
  /\ fetch = Asked /\ fetch' = written
  /\ UNCHANGED <<act, view, written, due, known, shown, marked, aged, mounted, outrun>>

\* The answer replaces the content and takes the mark off.
Lands ==
  /\ fetch >= 0
  /\ shown' = fetch /\ marked' = FALSE /\ aged' = FALSE /\ fetch' = Idle
  /\ outrun' = IF outrun = "answer" THEN "entry" ELSE "no"
  /\ UNCHANGED <<act, view, written, due, known, mounted>>

\* The request fails: it is retried, or given up with the entry as it was.
Fails ==
  /\ fetch # Idle /\ fetch' \in {Asked, Idle} /\ Forgets
  /\ UNCHANGED <<act, view, written, due, known, shown, marked, aged, mounted>>

-----------------------------------------------------------------------------
(* The act.                                                                 *)

\* The server commits; the answer, or the job's events, are to come.
Commits ==
  /\ written < MaxActs /\ written' = written + 1
  /\ due' = due \cup {written + 1}
  /\ UNCHANGED <<act, view, known, mounted, entry>>

\* Mutant: a fetch under way is joined.
MarksJoining ==
  /\ marked' = TRUE
  /\ IF mounted /\ fetch = Idle THEN Begins ELSE UNCHANGED <<fetch, outrun>>
  /\ UNCHANGED <<shown, aged>>

\* invalidateQueries on the entry: on screen it is fetched anew, over a fetch
\* under way unless that is its first.
Marks ==
  /\ marked' = TRUE
  /\ IF mounted /\ (fetch = Idle \/ shown # None) THEN Begins
     ELSE fetch' = fetch /\ outrun' = IF fetch >= 0 THEN "answer" ELSE outrun
  /\ UNCHANGED <<shown, aged>>

Cached == mounted \/ shown # None \/ fetch # Idle

\* onSuccess, or route(event).
Told ==
  /\ \E n \in due :
       /\ due' = due \ {n}
       /\ known' = IF n > known THEN n ELSE known
  /\ IF Named(act, view) /\ Cached THEN Marks ELSE UNCHANGED entry
  /\ UNCHANGED <<act, view, written, mounted>>

\* The answer is lost, and the page reports an error; or the event is.
Lost ==
  /\ \E n \in due : due' = due \ {n}
  /\ UNCHANGED <<act, view, written, known, mounted, entry>>

LiveNext ==
  \/ Shows \/ Hides \/ Collects \/ Ages \/ Looks \/ Answers \/ Lands \/ Fails
  \/ Commits \/ Told \/ Lost

LiveSpec == Init /\ [][LiveNext]_liveVars

-----------------------------------------------------------------------------
(* Properties.                                                              *)

\* The views an act changes without naming them.
Unheard(a, v) ==
  \/ a = "startTrial" /\ v \in {"store", "billing", "plans"}
  \/ a \in {"approve", "aiRun", "quietAiRun", "execute", "executeFails"} /\ v \in {"billing", "roi"}
  \/ a = "reject" /\ v = "roi"
  \/ a = "quietAiRun" /\ v = "aiOverview"
  \/ a = "emailReport" /\ v = "reports"
  \/ a = "syncModule" /\ v = "catalog"
  \/ a \in {"refreshAnalytics", "measure", "openSession"}
  \/ a = "replyAsOperator" /\ v \in {"adminOverview", "actions", "opsJobs"}
  \/ a \in {"replyAsOperator", "transitionTicket", "revokeOverride", "setFeatureFlags"} /\
     v = "review"

\* Of all the views it changed, the page shows an act it was told of in each that
\* it takes for current, but for those listed above and a fetch that a mark could
\* not stop: whatever was read before the act, and whenever its answer came
\* (realtime.ts "a reason to refetch", notifications/service.ts "always finds the row").
ShowsWhatItKnows ==
  (shown # None /\ fetch = Idle /\ ~marked /\ outrun = "no" /\ ~Unheard(act, view)) => shown >= known

=============================================================================
