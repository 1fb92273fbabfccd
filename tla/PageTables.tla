----------------------------- MODULE PageTables -----------------------------
(***************************************************************************)
(* The tables of PageOffers: the roles and their permissions, the statuses the rows *)
(* go through, what the pages offer and read, and what the routes require and take.    *)
(***************************************************************************)
EXTENDS FiniteSets, TLC

Loading == "loading"

-----------------------------------------------------------------------------
(* Roles.                                                                   *)

Syncing ==
  {"products:sync", "customers:sync", "orders:sync", "inventory:sync", "checkouts:sync",
   "collections:sync", "discounts:sync", "metafields:sync"}

CatalogReading == {"products:read", "customers:read", "orders:read", "inventory:read"}

Permissions ==
  Syncing \cup CatalogReading
  \cup {"store:read", "store:update", "settings:update", "analytics:read",
        "recommendations:read", "recommendations:approve", "recommendations:reject",
        "automation:read", "automation:manage", "notifications:read", "notifications:update",
        "billing:read", "billing:manage", "audit:read", "users:read", "users:manage",
        "apikeys:manage", "campaigns:read", "campaigns:manage", "support:read",
        "support:manage", "exports:read", "exports:manage", "copilot:read", "copilot:ask",
        "reports:read", "reports:manage"}

\* ROLE_MATRIX.
Support == {"store:read", "support:read", "support:manage"}

Grants ==
  [OWNER   |-> Permissions,
   ADMIN   |-> Permissions,
   MANAGER |-> Permissions \ {"store:update", "settings:update", "billing:manage",
                              "users:manage", "apikeys:manage"},
   STAFF   |-> Support \cup CatalogReading
               \cup {"analytics:read", "recommendations:read", "notifications:read",
                     "notifications:update", "exports:read", "copilot:read", "copilot:ask",
                     "reports:read"},
   ANALYST |-> Support \cup CatalogReading
               \cup {"analytics:read", "recommendations:read", "audit:read",
                     "campaigns:read", "exports:read", "exports:manage", "copilot:read",
                     "reports:read"},
   SUPPORT |-> Support \cup {"customers:read", "orders:read", "audit:read"},
   VIEWER  |-> Support \cup {"analytics:read", "recommendations:read", "notifications:read"}]

Roles == DOMAIN Grants
Granted(u, ps) == ps \subseteq Grants[u]

-----------------------------------------------------------------------------
(* What the rows go through, whoever moves them.                            *)

\* WON: SENT, with a winner.
CampaignCourse ==
  {<<"DRAFT", "SCHEDULED">>, <<"SCHEDULED", "SENDING">>, <<"SENDING", "SENT">>,
   <<"SENDING", "FAILED">>, <<"SENT", "WON">>}
  \cup ({"DRAFT", "SCHEDULED"} \X {"CANCELLED"})

SubscriptionCourse ==
  ({"absent", "TRIALING", "TRIAL_EXPIRED", "SUSPENDED", "CANCELLED"} \X {"CHARGE_PENDING"})
  \cup ({"CHARGE_PENDING"} \X {"ACTIVE", "TRIALING", "TRIAL_EXPIRED", "CANCELLED"})
  \cup {<<"absent", "TRIALING">>, <<"TRIALING", "TRIAL_EXPIRED">>,
        <<"TRIAL_EXPIRED", "TRIALING">>, <<"TRIAL_EXPIRED", "SUSPENDED">>,
        <<"ACTIVE", "CANCELLED">>}

\* activate, pause and archive look at no status.
WorkflowCourse ==
  {"DRAFT", "ACTIVE", "PAUSED", "ARCHIVED"} \X {"ACTIVE", "PAUSED", "ARCHIVED"}

\* TRANSITIONS; nothing makes a recommendation SCHEDULED.
RecommendationCourse ==
  ({"PENDING_APPROVAL"} \X {"APPROVED", "REJECTED", "EXPIRED"})
  \cup ({"APPROVED"} \X {"EXECUTING", "EXECUTED", "FAILED", "EXPIRED"})
  \cup ({"EXECUTING"} \X {"EXECUTED", "FAILED"})
  \cup {<<"FAILED", "EXECUTED">>, <<"EXECUTED", "MEASURED">>}

\* An operator resolves and closes whatever the status is.
TicketCourse ==
  ({"OPEN", "RESOLVED"} \X {"WAITING_ON_CUSTOMER"})
  \cup ({"RESOLVED", "WAITING_ON_CUSTOMER"} \X {"OPEN"})
  \cup ({"OPEN", "WAITING_ON_CUSTOMER", "RESOLVED", "CLOSED"} \X {"RESOLVED", "CLOSED"})

\* SWEPT: READY, its file gone.
ExportCourse ==
  {<<"QUEUED", "RUNNING">>, <<"RUNNING", "READY">>, <<"RUNNING", "FAILED">>,
   <<"READY", "SWEPT">>}

\* REBUILDING and REFAILED: BUILDING and FAILED, with the file of an earlier build.
ReportCourse ==
  {<<"BUILDING", "READY">>, <<"BUILDING", "FAILED">>, <<"FAILED", "BUILDING">>,
   <<"READY", "REBUILDING">>, <<"REBUILDING", "READY">>, <<"REBUILDING", "REFAILED">>,
   <<"REFAILED", "REBUILDING">>}

ModuleCourse ==
  ({"PENDING", "COMPLETED", "FAILED"} \X {"RUNNING"})
  \cup ({"RUNNING"} \X {"COMPLETED", "FAILED"})

\* What needs no status: it is there.
Courses ==
  [campaign |-> CampaignCourse, subscription |-> SubscriptionCourse,
   workflow |-> WorkflowCourse, recommendation |-> RecommendationCourse,
   ticket |-> TicketCourse, export |-> ExportCourse, report |-> ReportCourse,
   module |-> ModuleCourse, none |-> {<<"there", "there">>}]

Statuses(subject) == UNION {{step[1], step[2]} : step \in Courses[subject]}
Known   == UNION {Statuses(s) : s \in DOMAIN Courses}
Anytime == Known \cup {Loading}

\* What the rows say of it.
Look(status) ==
  CASE status = "SWEPT" -> "READY"
    [] status = "REBUILDING" -> "BUILDING"
    [] status = "REFAILED" -> "FAILED"
    [] OTHER -> status

-----------------------------------------------------------------------------
(* What the pages offer: the permissions a component looks for, the statuses shown  *)
(* at which its button is there and enabled, and whether a dialog asks first.       *)

Offer(asks, at, dialog) == [asks |-> asks, at |-> at, dialog |-> dialog]
Button(permission) == Offer({permission}, Anytime, FALSE)

CampaignDrawer ==
  [schedule       |-> Offer({"campaigns:manage"}, {"DRAFT"}, FALSE),
   cancelCampaign |-> Offer({"campaigns:manage"}, {"DRAFT", "SCHEDULED"}, TRUE),
   declareWinner  |-> Offer({"campaigns:manage"}, {"SENDING", "SENT"}, FALSE)]

NewCampaign == [newCampaign |-> Button("campaigns:manage")]

\* Without a subscription, or before the overview is there.
TrialCard == [startTrial |-> Offer({"billing:manage"}, {"absent", Loading}, TRUE)]

\* The card of a plan that is not the current one; whoever may not is told so.
PlanCard == [choosePlan |-> Offer({"billing:manage"}, Anytime, TRUE)]

BillingHeader == [cancelPlan |-> Offer({"billing:manage"}, {"ACTIVE"}, TRUE)]

ActivateStep == [startTrialAtOnce |-> Offer({"billing:manage"}, {"absent"}, FALSE)]

\* Of those who may finish, everyone may start the trial: nothing blocks them.
FinishStep == [finish |-> Button("settings:update")]

WorkflowWorkspace ==
  [saveVersion |-> Offer({"automation:manage"}, {"DRAFT", "ACTIVE", "PAUSED"}, FALSE),
   activate    |-> Offer({"automation:manage"}, {"DRAFT", "PAUSED"}, FALSE),
   runOnce     |-> Offer({"automation:manage"}, {"ACTIVE"}, FALSE),
   pause       |-> Offer({"automation:manage"}, {"ACTIVE"}, FALSE),
   archive     |-> Offer({"automation:manage"}, {"DRAFT", "ACTIVE", "PAUSED"}, TRUE)]

NewWorkflow == [newWorkflow |-> Button("automation:manage")]

DecisionControls ==
  [approve |-> Offer({"recommendations:approve"}, {"PENDING_APPROVAL"}, TRUE),
   reject  |-> Offer({"recommendations:reject"}, {"PENDING_APPROVAL"}, TRUE)]

RunAnalysis == [runAnalysis |-> Button("recommendations:approve")]

TicketThread ==
  [reply       |-> Offer({"support:manage"}, {"OPEN", "WAITING_ON_CUSTOMER", "RESOLVED"}, FALSE),
   closeTicket |-> Offer({"support:manage"}, {"OPEN", "WAITING_ON_CUSTOMER", "RESOLVED"}, TRUE)]

NewTicket == [newTicket |-> Button("support:manage")]

ExportRow == [downloadExport |-> Offer({}, {"READY"}, FALSE)]

RequestExport == [requestExport |-> Button("exports:manage")]

ReportFooter ==
  [emailReport    |-> Offer({"reports:manage"}, {"READY"}, FALSE),
   downloadReport |-> Offer({}, {"READY"}, FALSE)]

Generate == [generate |-> Button("reports:manage")]

ScheduleCard == [saveSchedule |-> Button("reports:manage")]

SavePreferences == [savePreferences |-> Button("settings:update")]

\* The row of one module; PENDING before its first run.
ModuleRow == [syncModule |-> Offer({"products:sync"}, {"PENDING", "COMPLETED", "FAILED"}, FALSE)]

\* Every module's permission, of the modules listed: of none before the status is there.
SyncEverything ==
  [fullSync      |-> Offer(Syncing, Anytime, TRUE),
   fullSyncEarly |-> Offer({}, {Loading}, TRUE)]

PaletteActions ==
  [fullSyncAtOnce |-> Button("products:sync"), markAllRead |-> Button("notifications:update")]

Bell == [markRead |-> Button("notifications:update"), markAllRead |-> Button("notifications:update")]

AskButton == [ask |-> Button("copilot:ask")]

None == [r \in {} |-> {}]

PageButtons ==
  [dashboard |-> RunAnalysis, analytics |-> None, ai |-> RunAnalysis,
   recommendations |-> DecisionControls @@ RunAnalysis, recommendation |-> DecisionControls,
   automation |-> WorkflowWorkspace @@ NewWorkflow, guardrails |-> SavePreferences,
   copilot |-> AskButton, campaigns |-> CampaignDrawer @@ NewCampaign,
   reports |-> ReportFooter @@ Generate @@ ScheduleCard,
   products |-> None, product |-> None, customers |-> None, customer |-> None,
   orders |-> None, order |-> None, inventory |-> None, notifications |-> Bell, bell |-> Bell,
   auditLogs |-> RequestExport, exports |-> ExportRow @@ RequestExport,
   billing |-> TrialCard @@ PlanCard @@ BillingHeader,
   settings |-> ModuleRow @@ SyncEverything, preferences |-> SavePreferences,
   support |-> TicketThread @@ NewTicket,
   onboarding |-> ModuleRow @@ SyncEverything, activation |-> ActivateStep @@ FinishStep,
   palette |-> PaletteActions]

Subjects ==
  [recommendations |-> "recommendation", recommendation |-> "recommendation",
   automation |-> "workflow", campaigns |-> "campaign", reports |-> "report",
   exports |-> "export", billing |-> "subscription", activation |-> "subscription",
   settings |-> "module", onboarding |-> "module", support |-> "ticket"]
  @@ [p \in DOMAIN PageButtons |-> "none"]

-----------------------------------------------------------------------------
(* What the routes do: the permissions they require, and the status that each      *)
(* status they take becomes. The others are refused.                               *)

Serve(permission, becomes) == [requires |-> {permission}, becomes |-> becomes]
To(statuses, status) == [s \in statuses |-> status]
Same(statuses) == [s \in statuses |-> s]
Takes(permission) == Serve(permission, Same(Known))

CampaignRoutes ==
  [schedule       |-> Serve("campaigns:manage", To({"DRAFT"}, "SCHEDULED")),
   cancelCampaign |-> Serve("campaigns:manage", To({"DRAFT", "SCHEDULED"}, "CANCELLED")),
   declareWinner  |-> Serve("campaigns:manage", To({"SENT", "WON"}, "WON")),
   newCampaign    |-> Takes("campaigns:manage")]

\* A trial once started is answered as if it had just been.
TrialRoute == Serve("billing:manage", To({"absent"}, "TRIALING") @@ Same(Known))

BillingRoutes ==
  [startTrial |-> TrialRoute, startTrialAtOnce |-> TrialRoute,
   choosePlan |-> Serve("billing:manage",
                        To(Statuses("subscription") \ {"ACTIVE"}, "CHARGE_PENDING")),
   cancelPlan |-> Serve("billing:manage", To({"ACTIVE", "CHARGE_PENDING"}, "CANCELLED"))]

WorkflowRoutes ==
  [saveVersion |-> Serve("automation:manage", Same({"DRAFT", "ACTIVE", "PAUSED"})),
   activate    |-> Serve("automation:manage", To(Statuses("workflow"), "ACTIVE")),
   runOnce     |-> Takes("automation:manage"),
   pause       |-> Serve("automation:manage", To(Statuses("workflow"), "PAUSED")),
   archive     |-> Serve("automation:manage", To(Statuses("workflow"), "ARCHIVED")),
   newWorkflow |-> Takes("automation:manage")]

RecommendationRoutes ==
  [approve     |-> Serve("recommendations:approve", To({"PENDING_APPROVAL"}, "APPROVED")),
   reject      |-> Serve("recommendations:reject", To({"PENDING_APPROVAL"}, "REJECTED")),
   runAnalysis |-> Takes("recommendations:approve")]

TicketRoutes ==
  [reply       |-> Serve("support:manage", To({"OPEN", "WAITING_ON_CUSTOMER", "RESOLVED"}, "OPEN")),
   closeTicket |-> Serve("support:manage", To(Statuses("ticket"), "CLOSED")),
   newTicket   |-> Takes("support:manage")]

ExportRoutes ==
  [downloadExport |-> Serve("exports:read", Same({"READY"})),
   requestExport  |-> Takes("exports:manage")]

\* The file is asked for, and not the status; a report that is not READY is not sent.
ReportRoutes ==
  [emailReport    |-> Serve("reports:manage", Same({"READY"})),
   downloadReport |-> Serve("reports:read", Same({"READY", "REBUILDING", "REFAILED"})),
   generate       |-> Takes("reports:manage")]

StoreRoutes ==
  [savePreferences |-> Takes("settings:update"), saveSchedule |-> Takes("settings:update"),
   finish |-> Takes("settings:update")]

\* A job is queued; the module's row follows when a worker takes it.
FullSync == [requires |-> Syncing, becomes |-> Same(Known)]

SyncRoutes ==
  [syncModule |-> Takes("products:sync"), fullSync |-> FullSync, fullSyncEarly |-> FullSync,
   fullSyncAtOnce |-> FullSync]

NotificationRoutes ==
  [markRead |-> Takes("notifications:update"), markAllRead |-> Takes("notifications:update")]

CopilotRoutes == [ask |-> Takes("copilot:ask")]

Routes == CampaignRoutes @@ BillingRoutes @@ WorkflowRoutes @@ RecommendationRoutes
          @@ TicketRoutes @@ ExportRoutes @@ ReportRoutes @@ StoreRoutes @@ SyncRoutes
          @@ NotificationRoutes @@ CopilotRoutes

-----------------------------------------------------------------------------
(* Who gets to a page, and what it reads.                                   *)

\* App.tsx; what is part of another page, or of the shell, is there with it.
Guards ==
  [dashboard |-> {"analytics:read"}, analytics |-> {"analytics:read"},
   ai |-> {"recommendations:read"}, recommendations |-> {"recommendations:read"},
   recommendation |-> {"recommendations:read"}, automation |-> {"automation:read"},
   guardrails |-> {"automation:read"}, copilot |-> {"copilot:read"},
   campaigns |-> {"campaigns:read"}, reports |-> {"reports:read"},
   products |-> {"products:read"}, product |-> {"products:read"},
   customers |-> {"customers:read"}, customer |-> {"customers:read"},
   orders |-> {"orders:read"}, order |-> {"orders:read"}, inventory |-> {"inventory:read"},
   notifications |-> {"notifications:read"}, bell |-> {"notifications:read"},
   auditLogs |-> {"audit:read"}, exports |-> {"exports:read"}, billing |-> {"billing:read"},
   settings |-> {"store:read"}, preferences |-> {"store:read"}, support |-> {},
   onboarding |-> {}, activation |-> {}, palette |-> {}]

Opens(u, p) == Granted(u, Guards[p])

\* sections.ts: the permissions of the entries of the navigation and the palette.
Sections ==
  [dashboard |-> {"analytics:read"}, ai |-> {"recommendations:read"},
   recommendations |-> {"recommendations:read"}, customers |-> {"customers:read"},
   products |-> {"products:read"}, orders |-> {"orders:read"},
   inventory |-> {"inventory:read"}, copilot |-> {"copilot:read"},
   automation |-> {"automation:read"}, analytics |-> {"analytics:read"},
   campaigns |-> {"campaigns:read"}, reports |-> {"reports:read"}]

SystemSections ==
  [notifications |-> {"notifications:read"}, auditLogs |-> {"audit:read"},
   billing |-> {"billing:read"}, settings |-> {"store:read"}, exports |-> {"exports:read"},
   support |-> {}]

AllSections == Sections @@ SystemSections
VisibleSections(u) == {p \in DOMAIN AllSections : Granted(u, AllSections[p])}

\* The permission each read requires: requirePermission of its route.
Reading ==
  [store |-> "store:read", syncStatus |-> "store:read", syncHistory |-> "store:read",
   unread |-> "notifications:read", notifications |-> "notifications:read",
   summary |-> "analytics:read", topProducts |-> "analytics:read",
   topCustomers |-> "analytics:read", roi |-> "analytics:read",
   recommendations |-> "recommendations:read", recommendation |-> "recommendations:read",
   aiOverview |-> "recommendations:read", automation |-> "automation:read",
   workflows |-> "automation:read", workflow |-> "automation:read", runs |-> "automation:read",
   conversations |-> "copilot:read", conversation |-> "copilot:read",
   campaigns |-> "campaigns:read", stats |-> "campaigns:read", templates |-> "campaigns:read",
   suppressions |-> "campaigns:read", reports |-> "reports:read", report |-> "reports:read",
   products |-> "products:read", product |-> "products:read", variants |-> "products:read",
   customers |-> "customers:read", customer |-> "customers:read", orders |-> "orders:read",
   order |-> "orders:read", levels |-> "inventory:read", auditLogs |-> "audit:read",
   exports |-> "exports:read", overview |-> "billing:read", plans |-> "billing:read",
   history |-> "billing:read", subscription |-> "billing:read", tickets |-> "support:read",
   ticket |-> "support:read"]

\* Only for whom hasPermission answers.
If(u, permission, reads) == IF Granted(u, {permission}) THEN reads ELSE {}

StoreHealth     == {"syncStatus"}
RecentActivity  == {"auditLogs"}
InventoryAlerts == {"levels"}
AiInsights      == {"aiOverview", "recommendations"}

TopLists        == {"topProducts", "topCustomers"}

DashboardReads(u) ==
  {"summary"} \cup TopLists \cup StoreHealth
  \cup If(u, "recommendations:read", AiInsights) \cup If(u, "audit:read", RecentActivity)
  \cup If(u, "inventory:read", InventoryAlerts)

AnalyticsReads == {"summary"} \cup TopLists
AiReads == {"aiOverview"}
RecommendationsReads == {"recommendations"}
RecommendationReads == {"recommendation"}
WorkflowsReads == {"workflows", "workflow", "runs"}
GuardrailsReads == {"automation"}
CopilotReads == {"conversations", "conversation"}
CampaignsReads == {"campaigns", "stats", "templates", "suppressions"}
ReportsReads == {"reports", "report", "store"}
ProductsReads == {"products"}
ProductReads == {"product", "variants", "store"}
CustomersReads == {"customers", "store"}
CustomerReads == {"customer", "store"}
OrdersReads == {"orders"}
OrderReads == {"order"}
InventoryReads == {"levels"}
NotificationsReads == {"notifications"}
AuditReads == {"auditLogs"}
ExportsReads == {"exports"}
PlanState   == {"overview"}
UsageCard   == {"overview"}
PlansCard   == {"plans"}
RoiCard     == {"roi"}
HistoryCard == {"history"}
BillingReads == {"store"} \cup PlanState \cup UsageCard \cup PlansCard \cup RoiCard \cup HistoryCard
SyncReads == {"syncStatus", "syncHistory"}
PreferencesReads == {"store"}
SupportReads(u) == {"store"} \cup If(u, "support:read", {"tickets", "ticket"})
OnboardingReads == {"store", "subscription"} \cup SyncReads
\* The search asks for no permission: it finds what its reader may see.
PaletteReads == {}

PageReads == [u \in Roles |->
  [dashboard |-> DashboardReads(u), analytics |-> AnalyticsReads, ai |-> AiReads,
   recommendations |-> RecommendationsReads, recommendation |-> RecommendationReads,
   automation |-> WorkflowsReads, guardrails |-> GuardrailsReads, copilot |-> CopilotReads,
   campaigns |-> CampaignsReads, reports |-> ReportsReads, products |-> ProductsReads,
   product |-> ProductReads, customers |-> CustomersReads, customer |-> CustomerReads,
   orders |-> OrdersReads, order |-> OrderReads, inventory |-> InventoryReads,
   notifications |-> NotificationsReads, bell |-> NotificationsReads, auditLogs |-> AuditReads,
   exports |-> ExportsReads, billing |-> BillingReads, settings |-> SyncReads,
   preferences |-> PreferencesReads, support |-> SupportReads(u),
   onboarding |-> OnboardingReads, activation |-> OnboardingReads, palette |-> PaletteReads]]

\* AppLayout, around every page but the onboarding.
ShellReads == {"store", "syncStatus", "unread"}

Reads(u, p) ==
  PageReads[u][p] \cup (IF p \in {"onboarding", "activation"} THEN {} ELSE ShellReads)

=============================================================================
