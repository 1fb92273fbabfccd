# A verification project for Profit Agent

Profit Agent (the repository beside this directory) is a multi-tenant Shopify
application. It mirrors a merchant's store into PostgreSQL, lets rules and a
language model propose actions, has a human (or the merchant's autopilot)
approve them, carries them out in Shopify and by email, runs the merchant's own
workflows and campaigns, and bills for it. This directory holds TLA+ models of
the parts whose correctness depends on the order in which things happen, TLC
configurations that check them on small instances, and TLAPS proofs for every
instance.

    tlc -config MCActionExecution_pipeline.cfg MCActionExecution   # one run
    tlapm ActionExecution_proofs.tla                               # one set of proofs

`PROJECT.json` is the index: each component and its status, each run with the
properties it checks, for each definition the source lines it translates, for
each property a mutant of the code that breaks it, the findings, the hazards
and the theorems.

- [1. The system](#1-the-system)
- [2. The modules](#2-the-modules)
- [3. The runs](#3-the-runs)
- [4. Fairness](#4-fairness)
- [5. The proofs](#5-the-proofs)
- [6. Where the code and its words disagree](#6-where-the-code-and-its-words-disagree)
- [7. What is not modelled](#7-what-is-not-modelled)
- [8. The plan](#8-the-plan)

## 1. The system

Processes: an Express API server (`apps/api`), a background worker
(`apps/worker`), a React client (`apps/web`), PostgreSQL (every package, through
`packages/db`), optionally Redis (BullMQ, cache, pub/sub), and outside them
Shopify, an email provider and an LLM provider. Any number of servers and
workers may run. They share nothing but the database, the queue and the cache.

Four facts shape every model:

- **Transactions are READ COMMITTED and short.** `withStoreScope` opens one
  transaction, sets the tenant, runs its body. Code that reads in one scope and
  writes in another has read stale data; code that writes "by id" overwrites
  whatever is there. Compare-and-swap on `stateVersion`, conditional
  `UPDATE ... WHERE status = ...` and unique keys are the only locks.
- **The queue is at-least-once.** A job has an id that is refused while it is
  in flight, a number of attempts, a back-off, and a timeout that *abandons* the
  handler without stopping it: the retry runs beside it. A worker may die
  anywhere and the job is then delivered again (BullMQ) or lost (memory driver).
- **Effects outside the database cannot be rolled back** and their responses can
  be lost: a price rule, an email, a recurring charge.
- **The browser holds copies.** What a page shows is what an endpoint answered
  some time ago; its buttons, forms and checks repeat by hand what the server
  decides.

| Component (source) | State it keeps | Operations | What is hard | What makes it correct |
|---|---|---|---|---|
| Recommendations and execution (`packages/ai/src/service`, `tools`, `execution.handlers.ts`, `recommendations.router.ts`) | `recommendations` (status, stateVersion), `recommendation_events`, `action_executions` (status, toolRef) | propose, auto-approve, approve, reject, enqueue, execute with checkpoints, final failure, deny, expire, measure | CAS against stale reads; one transaction around external effects; retries beside abandoned attempts; crash before the enqueue | nothing acts unapproved; a decision stands; EXECUTED means done; nothing stays open |
| Decision engine (`decision.ts`, rules, scoring, LLM) | `agent_runs`, token budget | look, ask the agents, insert, approve, hand off, notify | overlapping runs of one store; a policy read long before it is applied | one open advice per fingerprint |
| Workflows (`packages/automation`, `automation.handlers.ts`) | `workflows` (status, nextFireAt), `workflow_runs`, `workflow_run_steps` | validate, activate, pause, archive, tick, start, resume, walk | overlapping ticks and workers; a step claimed by insert; delay as a suspended walk; crash between effect and checkpoint | a saved graph can be walked; one walker per run; a node acts once; a completed run left out only what a delay dropped; delays end |
| Campaigns (`campaign.service.ts`, `campaign.sender.ts`, `tracking.service.ts`) | `campaigns`, `campaign_recipients`, `message_events`, `message_suppressions`, templates | draft, schedule, cancel, dispatch, materialize, send in batches with a cursor, open, click, unsubscribe, declare a winner | crash between send and record; retry of an old cursor; two chains | SENT means served; a duplicate costs a fault; suppressions hold; a campaign ends; statistics do not invent |
| Billing (`packages/billing`) | `subscriptions`, overrides, usage buckets, Shopify's charges | trial, subscribe, callback, cancel, extend, daily expiry, suspension, reconcile, quota gate, rollup | read and write in different transactions, a slow provider between them; a gate that reserves nothing | no unpaid access; ACTIVE only by acceptance; no state that never ends; quotas hold up to what is under way |
| Queue (`packages/queue`) | memory driver's maps; `background_jobs`, `job_retries`, `failed_jobs` | enqueue, schedule, dispatch, settle, time out, close; mirror | replays, late results, concurrency slots, unordered mirror updates | in flight is exact; slots hold; one outcome per acceptance; the mirror invents nothing |
| Webhooks (`modules/shopify/webhooks`, `webhook.handlers.ts`) | `webhook_logs`, cache version | intake, process, apply, mark, bump, refresh, fan out, uninstall | duplicate deliveries; retries beside abandoned attempts; reordering; uninstall in the middle | PROCESSED means applied and followed up; errors strand nothing |
| Store sync (`packages/sync`) | `sync_history` with cursors, replica rows | fan-out, page, checkpoint, resume, fan-in, upsert, delete | two workers at one row, a cursor of another collection, last finishers, writers in any order | COMPLETED means every page; a full sync ends in a refresh; the copy is of the shop |
| Installation (`modules/shopify/oauth.service.ts`) | `shopify_oauth_states`, `shopify_sessions`, `stores` | begin, callback, provision, uninstall | replayed callback, concurrent reinstall | one provisioning per state, one trial per store |
| Auth and sessions (`modules/auth`, the web client's `auth-context.tsx`) | `sessions`, `refresh_tokens`, memberships; the browser's storage | login, rotate, revoke, boot, sign out | two rotations of one token; lost answers; tabs that share a storage | one chain per session; no false alarm |
| Cache (`packages/cache`) | version counters, entries | get/set through a version, bump | a value computed before a bump is stored after it | a hit is fresh otherwise |
| Realtime (`modules/realtime`, `redis.pubsub.ts`, the client's `realtime.ts`) | sockets, counts, handlers, Redis subscriptions | open, close, reconnect, subscribe, unsubscribe | sockets come and go while Redis has not answered; an old socket closes after a restart | each event once to an open socket; nobody falls silent; no more sockets than starts |
| Exports (`export.service.ts`) | `exports` | request, claim, build, save, sweep | a job that dies midway; overlapping attempts | READY or FAILED in the end |
| Reports (`packages/reporting`) | `reports`, delivery marks | tick, build, mail, regenerate | an attempt beside its retry and a merchant's click | a mail per report |
| Support (`support.service.ts`) | `support_tickets`, messages | reply, resolve, close | replies of both sides at once | the count is the thread's length |
| Web application (`apps/web`) | query cache, forms, canvas, what a dialog was opened at | read, mark, fetch again, fill in, submit, draw, press | hand-written lists of what to read again; checks repeated on both sides; rows that move on | what is shown is what was told; what is offered is what the server does |
| HTTP edge, admin, kits | little | request plumbing, reads | - | - |

How they interact: the API writes a row and enqueues a job; the worker's
handlers write the row back and publish an event, on which the pages read
again. The decision engine feeds recommendations; webhooks feed the replica, the
cache version, daily analytics and the event triggers of workflows; billing's
access decision gates executions and workflows; the queue carries all of it, and
the queue's promises (`port.ts`) are what the handlers are written against.

## 2. The modules

| Module | Models | Promise or theorems |
|---|---|---|
| `ActionExecution` | recommendation, approval, hand-off, execution, expiry | implements `HumanApproval`; `ActionExecution_proofs` |
| `MemoryQueue` | memory driver, `enqueuePersistent`, mirror | implements `JobLifecycle`; `MemoryQueue_proofs` |
| `WorkflowRun` | one workflow: schedule, tick, jobs, walk | `WorkflowRun_proofs` |
| `Subscription` | one store's subscription and its charges | `ShopifySide_proofs` |
| `WebhookIntake` | business webhooks of one object, intake to follow-up | `ShopifySide_proofs` |
| `CampaignSend` | one campaign: dispatch, audience, chain of batches, ledger | `CampaignSend_proofs` |
| `SyncRun` | full, daily and manual syncs of one store | `SyncRun_proofs` |
| `AuthSessions` | sessions, refresh tokens, browser tabs | `MCPlatformData_proofs` |
| `RealtimeFanout` | pages, sockets, the gateway, the Redis driver | `MCPlatform_proofs` |
| `SupportDesk`, `OauthInstall`, `StoreCache`, `ExportFile`, `ReportRun`, `DecisionRun`, `StoreMirror`, `CampaignDesk`, `LiveView` | one small component each | `MCPlatform_proofs` |
| `WorkflowGraph` | the validator of a drawn workflow, against a definition of what can be walked | `MCPlatformData_proofs` |
| `CronSchedule` | the search for the next firing, against the least time that fits | `MCPlatformData_proofs` |
| `UsageMeter`, `UsageRollup` | the quota gate with its ledgers; the daily buckets | `MCPlatformData_proofs` |
| `PageForms` | every form against the schema of its router | TLC |
| `GraphEditor` | the canvas and its checks against the server's validator | `MCPlatformData_proofs` |
| `PageTables`, `PageOffers` | roles, pages, buttons and reads against routes, permissions and statuses | TLC |
| `MCX` + `MCX_*.cfg` | small instances of `X` for TLC | |

In all of them **an action is one step whose place among the steps of others
matters**: one database statement or transaction, one call to a provider, one
synchronous stretch of JavaScript. A value read in one step and used in a later
one is kept in the caller's record (`request`, `sweep`, `att`, `call`, `exec`),
so it can be stale by then. Payloads, texts, amounts and addresses are left
out; what remains of a message is what the code tells apart.

**ActionExecution.** `status/version/kind/trail` are the recommendation and its
events, `exec/ref` its execution as committed, `att[r][k]` the handler call of
attempt `k`, whose `ref` and `work` are the checkpoint it read and the copy a
tool fills in. `executeAction` is one transaction from `Lock` to
`Succeed`/`Fail` (`executor.ts:86`), so its checkpoints stay in `att` until
then and a crash loses them, while `rules/code/mails`, the world outside, keep
what was done. `handoff` is the window between the commit of the approval and
the enqueue. `Propose`/`AutoApprove` are the last step of the decision engine;
`SweepRead`/`SweepWrite` the expiry sweep of `attribution.ts`, split because it
reads a batch and writes row by row.

**MemoryQueue.** `pending/due/ahead/inFlight/running` are the driver's maps
(`ahead` stands for the order of `runAtMs`), `late` the handlers that outlived
their timeout, `chains` and `intervals` the timers. `Dispatch` is one whole
turn of the dispatcher: it takes due jobs in order while their queue has a
slot. An error the handler throws may be an `InvalidJobPayloadError`, which ends
the job at once (`memory.driver.ts:248`). `producer` is a call of `enqueuePersistent` between its row and its
enqueue. `updates` holds the mirror's statements, started by an event and
applied in any order.

**WorkflowRun.** `workflow/nextFire/disabled` are the row and the store's flag;
`beat/fire/found` each run of the tick; `jobs/fails/spent` the queue;
`pc/job/todo/node` each worker's walk with its local queue of nodes;
`run/at/ready/step` the rows; `done` the side effects; `dropped` is a ghost, what
was queued when a walk came to a DELAY and forgot it. `held` says whether the
queue still awaits the handler: `TimesOut` clears it and the walk goes on.
`Remembers` is the difference between the drivers: BullMQ refuses an id that
has ended.

**Subscription.** `sub` is the row, `charges` Shopify's state of each charge,
`call[a]` what a member's or a daily job's call has read and not yet written.
Dates are days left, so that time is a step (`Day`) that brings every date, in
the row and in a call's hands, a day closer, and no clock grows without bound.
`promise` is the latest trial end the store was ever granted: what unpaid access
is measured against.

**WebhookIntake.** `shop` numbers the versions of the object, `sent[d]` is the
version a delivery shows, `log` the `webhook_logs` row, `exec[d][k]` the
handler call, `replica/applied/dirty/refreshed/event` what the processing
leaves. `cut` marks deliveries a handler of which ended without its catch block
(a death, or a throw outside the try), the one case where a PROCESSED row may
lack a follow-up.

**CampaignSend.** Recipients are numbered in the order the cursor follows.
`status/due/tally` are the campaign, `rec` its recipients, `noted` the SENT
events the quota counts, `mails` what the provider has accepted; `pc/job/held/
todo/last` a handler call: its batch as selected and its cursor. Every statement
and every provider call is an action, so that a crash or timeout may come between
the message and its record. The audience is resolved to one of `Audiences`.

**SyncRun.** `rows` is `sync_history`, in the order in which `findResumable`
looks; `run` each worker with its row, the position of its pages and what it
still has to do. A cursor is a page of a pass; a module of two passes keeps one
cursor for both, which is how a cursor of another collection comes in
(Shopify refuses it, or reads it as any place of this one). Two ghosts of a row
say which pages its runs have written (`seen`) and which lie before a place a
strange cursor was taken for (`skipped`); `Exposed` names the collections this
can happen to, by the code's own structure (`modules/index.ts:171-178`).

**The server's small components** keep one question each.

- `AuthSessions` has the server's statements of a login and of a rotation, and
  the tabs with the storage those of one browser share (the run has one browser);
  `crossed` marks sessions a token of which was in two hands.
- `RealtimeFanout` keeps both ends of each socket, the gateway's count and
  handler, and the commands on the subscriber connection that Redis has not
  answered. `starts` is a ghost that counts how often a page was started.
- `StoreCache` splits `remember` at its awaits. `ExportFile` has attempts that
  outlive their timeout beside the next. `SupportDesk` sets the merchant's
  transaction against the operator's three statements. `OauthInstall` splits the
  provisioning transaction at its statements, with the row lock the upsert takes.
- `ReportRun` has the tick, its job with overlapping attempts, and the merchant's
  own requests. `again` counts what `lastEmailedOn` cannot tell a delivery: another
  that is past the same read and has yet to write it, or has died before that; `tangled`
  marks a report two of whose parties met at its delivery, or whose mail was not sent.
- `DecisionRun` splits a run at the look for blocking rows, the agents, the
  transaction that inserts, the hand-off and the notice; `raced` marks
  fingerprints two open transactions were about to insert.
- `StoreMirror` has one object for each family of writers and what the families
  refer to; `transit` are payloads that were true once and are written in any
  order, `sound` the objects last written with their latest state.
- `CampaignDesk` is what surrounds the sending: drafts and their limit, the
  template's snapshot, the variants, opens and unsubscriptions, the winner.
- `UsageMeter` is the gate (a count, then an act) with the windows and the
  overrides it reads; `UsageRollup` the buckets the daily job writes from ledgers
  that grow meanwhile.
- `WorkflowGraph` is `validateWorkflowDefinition` as sets and a recursive function
  against an independent definition of a graph that can be walked; `CronSchedule`
  the cursor of `nextCronFireAfter` as steps, over every start of a small
  calendar with months of different lengths, against the least later time that
  fits the fields.

**The web application** has five modules. `LiveView` sets one entry of the query
cache against one act: tables `Reads`, `Changes` and `Names` say what each view
is computed from, what each act writes, and which prefixes of keys its answer
and its event name; the actions are the fetch, the mark, the answer that lands
late, mounting and ageing. `PageForms` has for each form what it can hold, when
its button is enabled, the body it sends and what the strict schema and the
service take. `GraphEditor` has the canvas (`addNode`, `removeNode`,
`canConnect`, `disconnect`, `lintGraph`) and instantiates `WorkflowGraph` as the
server. `PageTables` holds the tables of `PageOffers`: the role matrix, the
guards of the routes, what every page reads and which buttons it offers at which
status of its row, and what the router of each request requires and makes of
each status; `PageOffers` is a visit, with the row moving on behind the page and
dialogs that keep what they were opened at. They are apart because the tables
are constants.

**MCPlatform** puts the small components side by side: its variable `part` never
changes, a behaviour belongs to one component, and the variables of the others
hold 0. Nothing is composed by it; it is one run, and one module of proofs, in
place of eighteen.

**Abstract specifications.** `HumanApproval` has two actions: decide an open
recommendation, and act for an approved one. `ActionExecution` implements it
with the decision read off the row (an expiry after an approval is still an
approval) and the effects off the world. `JobLifecycle` is the life of a job id
as `port.ts` promises it to a handler: out, waiting for attempt n, running
attempt n. `MemoryQueue` implements it, whatever timeouts, late results and
replays do. Both refinements are checked by TLC and proved.


## 3. The runs

| Run | Instance | What it shows |
|---|---|---|
| `ae_pipeline` | 1 recommendation (advisory, or email with discount), 2 users, 2 recipients, 2 attempts; 1 crash, 1 timeout; users and recipients symmetric | nothing acts before an approval (`ActsOnlyOnApproval`); EXECUTED means every effect took place (`ExecutedIsComplete`); `HumanApproval` is implemented |
| `ae_liveness` | 1 user, 1 address, 1 crash, 1 timeout, 1 response lost after the effect | an open recommendation is closed in the end (`OpenSettles`) |
| `ae_crash` | email only, 1 crash | finding: a customer is written to twice (`SentOnce` violated) |
| `mq_driver` | 2 jobs of one queue with one slot, a scheduled job without handler, 2 attempts, 2 acceptances per id, 1 timeout, 1 crash, 1 interval | `inFlightIds` is exact, slots hold, `JobLifecycle` is implemented |
| `mq_mirror` | the 2 jobs, mirror attached, 1 acceptance, 1 crash | the mirror reports only outcomes that happened; every job in flight leaves |
| `wf_walk` | 6 nodes: a trigger with three successors (a condition and two actions, the first with a successor of its own), a delay under NO, a join under YES and behind the delay; two manual events, one of which meets the condition; 2 workers, 1 tick, 2 attempts, 1 fault, 1 change | one walker per run, no node acts twice or off the branch, a completed run lacks only what a delay made it forget (the delay is reached with an action queued), an ended run stays ended |
| `wf_liveness` | trigger, delay, action; 1 scheduled instant, 1 fault, 3 changes | a delayed run goes on or is cancelled |
| `sub_lifecycle` | 2 charges, 1 member, 1 daily job; trial, grace, cycle and limit of a day; 1 fault | no unpaid access beyond the grace, no active row without an acceptance, a pending charge and an expired trial do not stay |
| `wh_intake` | 1 delivery, 2 listening workflows, 3 attempts, 3 errors, 2 timeouts or deaths, 1 uninstall | PROCESSED means applied and followed up; errors alone strand nothing |
| `camp_chain` | an audience of none or three, batches of two, a quota of three, one malformed number, one who may unsubscribe, 2 workers, 2 attempts, 1 fault | SENT means everybody was served; a second message costs a fault; nobody is written to once suppressed; a chain that has begun ends |
| `sync_groups` | two modules, one of two collections (two pages and one), one group, a daily and a manual run, 2 requests, 2 workers, 2 attempts, 1 fault | COMPLETED means every page but those Shopify skips at the cursor of another collection; a full sync ends in the refresh |
| `platform` | one of eighteen components, see below | one property each |

The components of `platform` and their instances:

| Component | Instance | Property |
|---|---|---|
| AuthSessions | 2 tabs, 2 requests, 2 sessions, 3 tokens, 1 fault; tabs and requests symmetric | one chain of tokens, no false alarm but for tokens in two hands (`ReuseIsTheft`) |
| RealtimeFanout | 2 pages, 3 sockets, 1 failed SUBSCRIBE | each event once to each open socket, no page silent, none with more sockets than starts (`EventsArrive`) |
| StoreCache | 2 readers, 2 writers, 3 changes, 2 bumps | a hit is fresh unless it crossed a bump (`FreshUnlessCrossed`) |
| ExportFile | 2 exports, 2 attempts, limit 1, 2 mishaps | an export ends but for the named mishaps (`NoneStranded`) |
| SupportDesk | 2 merchants, 2 operators, 3 messages, 1 crash | the count is the thread's length (`CountsMessages`) |
| OauthInstall | 3 states, 2 callbacks, 2 troubles | one provisioning per state, one trial (`ProvisionedOnce`) |
| ReportRun | a scheduled and a requested report, 2 handlers, 1 click, 2 tries, 1 tick, 1 flaw | a mail per report, and one more at most for each overlap or death its mark cannot show (`MailedOnce`) |
| DecisionRun | 2 callers, 1 provider call, 3 rows, 2 runs, 1 death | an insight is open once (`AdvisedOnce`) |
| StoreMirror | 6 families, 2 pieces, 3 edits, 2 reads | the copy is of the shop (`MirrorsShop`) |
| CampaignDesk | 2 members, 2 texts, 2 recipients, limit 1, 2 drafts, 2 revisions, 1 loss | snapshots, statistics and limit hold (`SnapshotsHold`) |
| LiveView | 2 acts, over every act and every view | a page shows what it was told (`ShowsWhatItKnows`) |
| UsageMeter, UsageRollup | 2 senders, quota of 1, 4 units, 1 deed; 3 days, 3 deeds a day | the quota, and a day's bucket (`MetersTrue`) |
| WorkflowGraph | five sets of nodes (a condition, a delay, two triggers, two conditions, no trigger), with every set of up to 3 edges | a saved graph can be walked, and a rejected one cannot (`GraphsAgree`) |
| GraphEditor | 4 nodes, 3 links | what the canvas lets through, the server takes (`GraphsAgree`) |
| PageForms, PageOffers | every form with every content; all 7 roles, 27 pages, all statuses | what is offered is taken, but for the listed offers (`PagesTrue`) |
| CronSchedule | a calendar of 2 hours of 3 minutes, 2 weekdays, months of 3 and 2 or 1 days; starts 2, 3, 6 and 8 | the least later time that fits (`FiresNext`) |

**Why these bounds.** Interference in this code is between two parties over one
row: two members, a member and a sweep, an attempt and its retry, a tick and a
merchant. One row with two of each is therefore the case that matters, and
stores, recommendations and runs do not touch each other's rows (WorkflowRun
has two runs because workers move between them). Two attempts give "a first, a
last, and both at once"; `wh_intake` has three, because the catch block writes
RECEIVED on all but the last and a middle attempt differs from both. One fault
of each kind reaches every window, for a fault leaves the windows of the next
one as they were; `wh_intake` allows as many errors as attempts, so that a job
may die of errors alone. Lengths of time are one day each because only the
order of dates matters and `Day` may come between any two steps; with `Limit`
and `Grace` equal and small every order of their ends is met. Two lives of a
job id give a replay after the end. Two charges give "the old one and the new
one" (`cancelCharge` before the new request), two recipients "one served, one
not". In `camp_chain` three recipients in batches of two are the least audience
with a batch that is full, one that is not, and one that is empty. In
`sync_groups` the module of two collections has two pages in the first, so that
a cursor of the first is there to be met by the second, which may then be skipped. `platform` takes two of
each party and one message, token or socket more, so that a third can come
between; its limits are 1 where the code has 5 or 100, because a count is
compared with them in the same way. Its tables (roles, permissions, pages,
forms, views, acts) are the whole ones. The calendar has a short month, a leap
one and weekdays out of step with days, which is what the search has to skip.
The bounds are the `Max...` constants, checked in the guards of the actions that
count, and most of them are gone in the theorems, which hold for any value.

`CHECK_DEADLOCK FALSE` is set everywhere: each of these systems may come to
rest, with the recommendation measured, the bounded ids used up, the delivery
processed, the page left.

## 4. Fairness

Weak fairness means that a step that stays possible is taken; it stands for a
process that is up and a timer that fires. Nothing is assumed of merchants,
customers, Shopify's changes or faults.

- ActionExecution: the enqueue after the approval, delivery, each handler step,
  and the daily sweep with the passing of `expires_at`. A crash in the hand-off
  window loses the job for good; the recommendation is then closed by the sweep
  only, which is what `OpenSettles` says and why it needs the sweep's fairness.
- MemoryQueue: `start()`, dispatch timers, due dates and a handler that settles.
  The last is justified by `executeWithTimeout`, which ends an attempt that
  does not (`port.ts:135`).
- WorkflowRun: the heartbeat and its scans, delays, and each walk. Taking a job
  is strongly fair per job: a worker of the pool is free again and again and
  the queue is served in order, so that no job is passed over for ever,
  although between its chances no worker is free.
- Subscription: days pass, the daily jobs run and go on with what they read, a
  member's call that is not lost goes on. `NothingLingers` rests on the daily
  jobs alone.
- WebhookIntake: a started request and a delivered job run on and the queue
  delivers. Shopify owes no change, the merchant no reinstallation, so that
  `Settles` must exclude an uninstalled store.
- CampaignSend: the heartbeat goes on, the scheduled time comes, a handler that
  runs goes on, an idle worker takes a waiting job. A crash between the claim
  and the first enqueue strands the campaign, so that `Ends` speaks of campaigns
  whose chain has begun.
- SyncRun: a handler that runs goes on, an idle worker takes a waiting job.
  Nobody owes a request; a job may die for good, which `FullSyncRefreshes` names.
- The components of MCPlatform have no fairness and no liveness property: their
  "in the end" is an invariant of the states in which all is quiet.

## 5. The proofs

TLC shows a property on the instances above; the theorems show it for every
value of the constants that meets the modules' assumptions (`...Assumption`,
evaluated by TLC in every run). Most of those type constants. The others say
that operators, recipients and the calls that deliver reports are finitely many; that no callback is called
"none", no tab and no call "nobody"; that each tab is in some user's browser; that
the references of the shop's objects are among the mirrored ones; that a workflow has
one trigger, its root; that a calendar has a month, an hour and a minute at least, and
each of its months a day; that a sender asks for at least one mail and a plan has a
quota; that the nodes of a drawing are finitely many and of the four kinds; and, in
`LiveAssumption`, which entries of `LiveView`'s constant tables are related, a ground fact that TLC evaluates.
Each theorem rests on an inductive invariant: a stronger formula true at first
and kept by every action.

- **ActionExecution_proofs** — `TypeCorrect`, `NoActionUnapproved`,
  `RejectionIsFinal`, `ExecutedIsWhole`, `Refinement`. `ActsOnlyOnApproval` is not
  inductive: a handler call could act if one existed for an undecided row.
  `IInv` is `TypeOK /\ Sound`. `Sound` says that `stateVersion` is 0 exactly before
  the row exists and 1 exactly while it is PENDING, that a loaded request holds
  version 1 and a sweep or a handler in its hands one of at least 1, and that
  there is no execution row unless a decision was taken, hence no hand-off, job,
  handler call or effect. Versions do *not* only grow: the executor writes
  `stateVersion + 1` of what it read minutes ago. What saves the decision is
  that nobody ever writes version 1 again, so that a compare-and-swap that read
  1 can only hit a PENDING row. That is also why a rejection is final.
  `ExecutedIsWhole` adds `Whole`: every claim of the committed checkpoint, of a
  success, and of the copy each call under way works on is backed by what Shopify
  and the customers have seen. It is kept because the world forgets nothing
  (`Grows`) and a tool changes its copy after the effect. The refinement maps each
  action to `Decide`, `Act` or a stutter.
- **MemoryQueue_proofs** — `TypeCorrect`, `ExactlyInFlight`, `EndsOnce`,
  `SlotsAreBounded`, `MirrorIsTrue`, `Refinement`. `IInv` is
  `TypeOK /\ DuePending /\ InFlightExact /\ OneOutcome`: what is due is pending,
  so that a turn of the dispatcher starts only jobs that wait, and a job in
  flight has an outcome yet to come, so that counting outcomes and the job
  itself against acceptances is kept by each step. `SlotInv` adds that `ahead`
  orders the due jobs totally: a turn starts many at once, and the last of them
  has counted all the others. For the mirror, a row never claims what has not been
  told (`Told`), and failed rows and dead letters on their way are no more than the
  deaths (`DeathsCounted`), in whatever order the updates land.
- **WorkflowRun_proofs** — `TypeCorrect`, `WalkedByOne`, `EffectsOnce`,
  `EndIsFinal`, `BranchesAreGated`, `WalksAreWhole`, for any graph, workers, ticks and
  faults. `IInv` adds to the first properties what the unguarded writes rely on: a
  job the queue still waits for has one holder and attempts left (`Carried`); at
  a node, the step row of the walk's own action is RUNNING and all others are
  absent or COMPLETED (`Visits`); a run without a row, or one that waits, has no
  action under way (`Rests`); a side effect leaves its step row behind
  (`Traces`). `suspendRun` and `failStepAndRun` write without comparing; that they
  never overwrite an end follows from `OneWalker`, hence from the insert and the
  claim of the run, not from guards of their own. `GuideInv` says that whatever is
  queued, walked to or suspended at was reached by gates that let the subject
  through. `WholeInv` is the converse, that what follows a completed node has been
  visited, is still to be, or was dropped when the walk came to a DELAY, which
  happens for the reason section 6 gives. For a workflow whose trigger has one
  successor the walk's queue is never longer than one node (`SingleFile`), and
  nothing is dropped. There is no hypothesis on the graph beyond `GraphAssumption`.
- **ShopifySide_proofs** — the two modules that Shopify drives, whose names are
  disjoint. *Subscription*: `SubTypeCorrect`, `NothingGivenAway`, `ActiveIsPaid`. The
  invariant is that the row, the shop and each call are sound: what a call has read
  may be stale, but every date it holds was granted, so that whichever write comes
  last, access ends within the grace of `promise`; a call that holds a paid period has
  seen a charge active, and a charge is active only after an acceptance (`PaidInv`).
  *WebhookIntake*: `TypeCorrect`, `EffectBeforeMark`, `FollowUpComplete`. Per delivery,
  `IInv` has four parts beside `TypeOK`: `IntakeInv` (row, request, topic and job
  agree), `QueueInv` (a handler at work belongs to an attempt the queue has started,
  so that no delivery replaces it), `EffectInv` (a handler past `apply`, and a
  PROCESSED row, imply the effect) and `FollowInv`: what a PROCESSED row still lacks,
  some handler is about to do, or is about to take the row back in its catch block,
  unless the delivery is `cut`. The last is where interleavings bite: an abandoned
  attempt may be that handler, and may write after its retry has finished.
- **CampaignSend_proofs** — `TypeCorrect`, `SentWhole`, `SuppressedHolds`. Nobody is
  pending behind the cursor of a link (`Behind`), nor once the campaign has been
  closed (`Ended`). Duplicates are paid for: the messages to a recipient and
  the handlers that may yet write to him (`Threats`, a cardinality) are at most one
  and the faults (`Paid`). The induction needs that a batch job is in one pair of
  hands (`Carried`) and that the chain was opened once (`OneOpening`).
- **SyncRun_proofs** — `CompletionIsWhole`. `RowsTrue`: a cursor names a page with all
  before it read, a COMPLETED row has them all; `Knows` says the same of what a
  worker holds, however stale. Before a page lie pages that were read or that
  Shopify skipped, and a strange cursor is only ever brought to a collection that is
  `Exposed`: that this is all the code loses there is what the theorem says, without
  an assumption about what Shopify makes of such a cursor.
- **MCPlatform_proofs** — one theorem each for ten small components, of the form
  `part = "x" => XInv`, where `XInv` adds to the property of the run:
  - *desk*, `MessagesCounted`: the count, the messages an operator has yet to count and
    those he died before counting add up to the thread;
  - *install*, `ProvisionedOnceOnly`: a transaction's reads hold while it has the
    lock of the store, and a state is in the hands of one callback;
  - *cache*, `HitsAreFresh`: an entry was computed from the data of its version, or
    its reader missed before a bump;
  - *export*, `NoneLeftBehind`: a row that is not at its end waits for a claim or is
    in the hands of an attempt, unless one of the named mishaps has happened;
  - *report*, `MailedOnceOnly`: mails sent and about to be sent exceed `again` by no
    more than one, and only while the report is marked or in somebody's hands (`Paid`);
    unless two parties met at its marks, its mails are told by who holds it
    (`DeliveredByOne`);
  - *decision*, `AdvisedOnceOnly`: a run that has looked still sees what blocks
    (`Clear`), or its fingerprint is marked as raced; runs write disjoint rows;
  - *mirror*, `ShopIsMirrored`: payloads on their way were true once, and a row last
    written with the latest has exactly its pieces (`Exact`);
  - *campaign*, `SnapshotsHoldAlways`: opens recorded without a record of the
    message are at most the lost records, active drafts at most the limit and the
    overlaps;
  - *events*, `EventsArriveAlways`: the gateway counts the open sockets and has a handler
    exactly while there is one, alone in a set of listeners made for it
    (`OneHandler`); unless a SUBSCRIBE failed, what Redis will have been told in the
    end (`Told`) is whether there is a handler, and the handler is in its set or its
    SUBSCRIBE is on its way (`WillHear`); the socket a page knows is its own, so
    that no `stop` closes another's; and the sockets a page holds together with
    the timers about to open one are at most its starts (`Few`);
  - *live*, `ShowsWhatItWasTold`: an act a page was told of is in what an entry taken
    for current shows, by an argument over the tables that says which names cover
    which views.

- **MCPlatformData_proofs** — the components whose invariants are about data of any
  size, in a module of their own because they take most of the provers' time. The
  installed provers have no induction over data; in its place stand least elements:
  of a non-empty set of naturals (`LeastNat`, from the library's well-founded order
  on Nat) and of a set of finite sets (`LeastSet`, by their cardinality). What a sum, a round or a search does for
  every input is then shown by taking the least input for which it does otherwise.
  - *sessions*, `ReuseIsTheftAlways`: of a session that is live and not crossed, a token
    is in one hand (`OneHand`: in one call, out of the one browser that keeps it), a
    burned one is kept by none but the browser whose call burned it and does not come
    back (`Spent`), a new one is known to nobody before its answer (`Unknown`), and of
    the tokens and the calls about to mint the next, one goes on (`GoesOn`);
  - *meter and rollup*, `MetersTrueAlways`: sums are folds, and `SumOver` is shown to be
    taken one element at a time in any order, and monotone. `MeterInv` says that the
    mails handed out in the window are in its ledgers (`Held`), and that with those the
    senders may still hand out on the answer they have read (`Due`) they pass the
    quota by less than all their hands: many senders may have read the same answer,
    so nothing less is true. `RollupInv` says that a bucket holds at most what the
    ledgers do and exactly that unless a unit has come since (`behind`), and that the
    partial sum of a rollup under way is of the ledgers it has read, as they were or are;
  - *cron*, `FiresNextAlways`: days and hours are sums over a calendar of any months,
    and `CronInv` says that no minute between the start and the cursor fires, and that
    each turn has taken the cursor a day further at least, so that a search that gives up
    has passed over the whole horizon;
  - *graph and canvas*, `GraphsAgreeAlways`: both searches of the validation (Kahn's
    `topologicalOrder` and the walk from the trigger) are rounds of a monotone function
    and end, after as many rounds as there are nodes, at its least fixed point
    (`ReachLeast`, `FreeLeast`). What Kahn's rounds leave over is fed by itself,
    hence has a cycle (`SomeCycle`), and a cycle is never removed (`NoCycle`). That a walkable
    graph is accepted is the harder half: a condition is reached under either of its own
    answers (`Switch`), so that each edge is taken on some walk (`OnTheWay`); and
    from what Kahn's rounds leave over each node would go on to another (`Knot`), so
    that the answers that lead there would make a walk with a cycle
    (`WalkableOrdered`). `EditorInv` says what drawing keeps:
    ids are free when taken, the links join drawn nodes, never into the trigger,
    a condition's have different branches and all others none (`NewBranch`); the
    searches of the page and of the server are then the same two.

**Only model-checked.** Liveness and everything that needs fairness (`OpenSettles`,
`JobEnds`, `DelayEnds`, `NothingLingers`, `Settles`, `Ends`, `FullSyncRefreshes`):
the proof system has no rule for ENABLED here. `PagesTrue` is a statement about
finite tables without parameters, which TLC evaluates in full, so that a proof
would only repeat the run. Every other property of a passing run is stated by a theorem.

## 6. Where the code and its words disagree

Found by a run (TLC prints the trace; `PROJECT.json` quotes the lines):
`ae_crash` — `executor.ts:148` and `execution.handlers.ts:24` promise that a
retry after a crash never sends twice. The checkpoint is inside the transaction
the crash rolls back.

Met while modelling. The models behave this way; the properties either hold in
spite of it or name it as their exception:

- *Execution.* Addresses served before a later send of the same step throws are
  forgotten (`email.ts:145,157`), and so is a price rule whose code fails
  (`discount.ts:46,77`). The final FAILED has no audit event
  (`execution.handlers.ts:87`) and may overwrite EXECUTED of another attempt. An
  approval that expired is still executed (`executor.ts:159`). A denial of a
  redelivered, finished job fails a succeeded execution.
- *Decisions.* The "hard cap on provider calls per run" (`decision.ts:71`) counts
  successes only. "No partial recommendation set" holds only when the first agent
  fails. The autopilot's policy may be stale when it is applied; EXECUTED and FAILED
  advice is not remembered; two runs at once notify nobody; a crash between the
  commit and `enqueueExecutions` strands the approvals.
- *Queue.* A mirror update applied late leaves a row RUNNING for ever; a crash
  between row and enqueue leaves QUEUED; the dead letters of scheduled jobs
  have no row to hang on and are lost (`persistence.ts:73,63,136`).
  `upsertSchedule` adds a second timer, where `port.ts:71` says it replaces.
  Abandoned handlers are not counted against the concurrency. Each enqueue
  adds a dispatch timer that re-arms itself (`memory.driver.ts:187`): more
  scans, no other effect. Read only: the BullMQ driver emits no "active" event, each
  worker mirrors every event (duplicate `failed_jobs`), and a handler that enqueues
  while `close` waits for it burns an attempt; the API's shutdown awaits its
  server before it closes the sockets, which hangs while a browser is
  connected; without Redis, API and worker have a memory queue each.
- *Workflows.* `workflow.executor.ts:244` says that the tick resumes the walk; it
  resumes after the delay, and siblings queued beside the delay are dropped
  (`:239`), while `dag.ts:120` lets a trigger fan out: of trigger → delay and
  trigger → action, the action may never be performed and the run is COMPLETED
  ("fail-fast beats silent partial automation", `:55`). The canvas forbids the shape,
  the server does not. A run whose walker dies stays RUNNING: the redelivered start
  sees the row and returns. A tick that dies between `TickAdvance` and
  `TickEnqueue` loses the firing. A walk under way during a pause suspends
  afterwards and is resumed under the paused workflow. With BullMQ, a resume job
  that died for good blocks its id (`Remembers = TRUE` shows it). "Archiving ... is
  permanent" (`WorkflowsPanel.tsx:447`), but activation and pause do not look at the
  status (`workflow.service.ts:304`).
- *Billing.* `reconcile.service.ts:7` promises convergence to Shopify; the sweep
  looks at three states only, and a charge accepted in another is billed and
  never served. PAST_DUE and EXPIRED are never written. A cancelled store that
  declines a new charge loses the time it paid for. `subscriptions.storeId` has
  no unique index, and nudges are checked, sent, then recorded.
- *Quotas.* `currentPeriodStart` and `currentPeriodEnd` are set at activation only
  (`billing.service.ts:412`) and usage is counted up to the end of that window, so that
  after the first period no quota is enforced (`:167`, `:484`,
  `access-override.service.ts:7`). What was created before a period began is counted on
  its day of creation; the mails of a failed attempt are in no ledger; a campaign asks
  for a whole batch although fewer recipients are left, and fails with quota to
  spare; automation runs are checked at approval and counted at the start.
- *Webhooks.* A request that dies after the insert strands the row, because
  Shopify's next call is a duplicate (`webhook.service.ts:139`; `registry.ts:25`
  promises at-least-once). A read outside the try on the last attempt leaves
  RECEIVED with a dead job, and a stale catch block writes over PROCESSED.
  `checkouts/*` are subscribed to and have an applier but no registry entry, so they
  are marked PROCESSED and never applied. All listening workflows share one job id,
  so only the first starts, and `findEventTriggered` does not filter by store.
- *The copy of the store.* `writers.ts:40` calls it a true reflection; upserts do
  not compare `shopifyUpdatedAt`, so that the older of two payloads may stay and a
  late one revives a deleted object. An empty list of variants or items deletes
  nothing. "Products before orders (FK resolution)" is not guaranteed.
- *Campaigns.* No code outside the tests mints unsubscribe tokens or passes an
  `unsubscribeUrl`, although `legal/content/privacy.ts:81` and
  `acceptable-use.ts:23` promise the link. A crash or timeout between a send and its
  record sends again. A dispatch that dies after its claim leaves SENDING for ever;
  a batch that dies after the enqueue of the next link forks two chains, and the
  "convergent counters" (`campaign.sender.ts:154`) do not converge then.
  `failCampaign` writes by id and may overwrite SENT. `recordFailure` may overwrite
  the SENT of another attempt. `return this.recordSend(...)` is not awaited inside the
  try, so that its error escapes the catch block of `deliverOne`. An open after a
  failed send is "impossible by construction" (`tracking.service.ts:17`), but not
  after a lost record. Texts are copied at creation, not "at schedule/dispatch time"
  (`automation.ts:279`). The limit on active campaigns is counted, then inserted.
- *Sync.* A resumed row keeps its old `runGroupId`, so that the fan-in of the new
  group never completes, although `fanin.ts:6` calls it race-free. Two workers may
  share one RUNNING row, and the slower one flips COMPLETED to FAILED or back to
  RUNNING. Modules of several collections resume one with the cursor of another:
  refused, the row is FAILED with a cursor that every later full run meets
  again; accepted, pages are skipped. No code requests INCREMENTAL, so that the
  watermark is never used. The failure notification says that the next scheduled
  pass resumes, but scheduled and manual runs never do.
- *Sessions.* A refresh that fails for any reason, a broken connection included,
  removes the stored token, even one that another tab has just stored. Two tabs
  that refresh at once have their session revoked or their chain forked
  unnoticed. A tab closed during a refresh trips the reuse alarm at its next boot.
  `signOut` neither revokes at the server nor stops a refresh on its way, whose
  answer signs in again. A login that read ACTIVE before an uninstallation issues a
  session after it. Two first logins at once both become OWNER.
- *Realtime.* `stop()` and `start()` follow one another at every change of the
  access token; the old socket's `onclose` then forgets the new one and schedules
  a further one, so that sockets accumulate, events are shown twice, and
  `isConnected` is false beside an open socket (`realtime.test.ts` has it
  reflect the live socket). A failed SUBSCRIBE leaves the store deaf until all its
  sockets have gone. `SyncFullRunCompleted` is published before the refresh it
  announces is enqueued, and `AnalyticsRefreshed` is never published.
- *Exports.* A crash between the claim and the last write, or a failed enqueue,
  leaves RUNNING or QUEUED for ever; five of them block the store's exports. A lost
  answer of the READY write ends in FAILED with a file. `exports.router.ts:24`
  says that repeated clicks never build twice; each click has a row and a job.
- *Reports.* A crash leaves a BUILDING row that counts as existing
  (`preferences.ts:10`). "Never re-send" (`service.ts:291`) fails for two deliveries at
  once; a refused mail is not retried; a late FAILED overwrites READY.
- *Support.* "CLOSED is terminal" (`support.service.ts:187`): an operator may resolve
  a closed ticket, which a reply reopens, and a reply that read the row before it
  was closed writes its old status back. An operator's update clears the attention
  a merchant's message has just asked for.
- *Cache.* "freshness after data change is immediate" (`analytics.router.ts:27`),
  except for a value read before a bump and stored after it.
- *Installation.* If the audit row fails, or the process dies, after the commit,
  webhooks and the initial sync wait for the merchant: the maintenance job a comment
  relies on does not drive them again. A late `app/uninstalled` after a reinstallation
  deletes the new token. That a store has one trial rests on the lock of its row, for
  no unique index forbids another.
- *Administration.* "Last-write-wins per key" (`feature-flags.ts:53`,
  `admin.router.ts:466`) fails for overlapping patches, which read and write the whole
  map. After a failed read the operators' page may write one store's flags to another
  (`AdminOpsView.tsx:233`). The settings lose one of two concurrent saves.
- *Cron.* `a/n` in a field means `a` alone, because the part before the slash is taken
  for a number (`cron.ts:76`). The horizon of the search counts turns, not days.
- *Pages* (the exceptions `PagesTrue` and `ShowsWhatItKnows` list by name). Offered and
  always refused: the edit and the deletion of a template, a winner declared while
  sending, grants and extensions of the operators' console, the autonomy mode of
  onboarding, a manager's report schedule. Refused although the guard promises "a
  surface every role can load": the dashboard, to SUPPORT. Roles without
  `settings:update` cannot leave the onboarding. Every activated workflow's page throws,
  because `activeDefinition` is `{workflow, version}` on one side
  (`workflows.router.ts:96`) and a definition on the other (`WorkflowsPanel.tsx:142`).
  A template that is deselected leaves its `bodyHtml` in the draft
  (`CampaignsPage.tsx:336`), so that the recipients of "Write from scratch" read the
  template's page in the place of the words typed.
  A name may have 140 characters in the editor and 120 at the server. Some views
  are read again at no event (`query-client.ts:6`), the catalog among them.

## 7. What is not modelled

- *Within the modelled components:* plan changes and the provider's GraphQL calls in
  Subscription; workflow versions in WorkflowRun (a run keeps the definition it
  started with); webhook signatures, GDPR topics and subscription
  reconciliation in WebhookIntake; the insert without effect of a duplicate delivery
  is a stutter there. Clicks, token signatures and the SMS provider in the
  campaigns; metafields and the incremental watermark in the sync; the expiry of
  sessions in AuthSessions; engagement milestones and churn scores beside the meters.
- *Pure I/O, layout, text or floating point:* exports' file formats, PDF and
  mail texts, LLM prompts, forecasting, the SQL of the daily analytics, charts and
  formatting in the client.
- *Outside:* Shopify, the email provider and BullMQ appear as the code in `src/`
  sees them: an answer, an error, or an effect whose answer is lost. The retries of
  the Shopify client happen inside one call and are part of its outcome.
- Several hazards are covered in part: where the code itself allows the bad end (an
  update of the mirror that lands last, a charge accepted too late, two tabs with one
  token), the property names the case as its exception, or bounds it (two deliveries of
  a report at once), and the hazard's `note` says so.
- Two hazards are listed without a property: an approval that expires on its way to the
  executor, and a process that dies between a row and its enqueue (`executor.ts:159`,
  `persistence.ts:63`). No document promises anything there that the models could
  be held to; what happens is described in section 6.
- Everything with status `not_modelled` in `PROJECT.json`.

## 8. The plan

Done: all modules of section 2, their runs, and the theorems of section 5.

Left, in this order:

1. `BullQueue` as another implementation of `JobLifecycle`, with the ids that stay
   refused after their end.
2. Compositions: `WebhookIntake`'s follow-up as the source of `WorkflowRun`'s event
   trigger, `Subscription`'s access as the guard of `ActionExecution`'s denial.
