---------------------------- MODULE WebhookIntake ----------------------------
(***************************************************************************)
(* Business webhooks of one store, from Shopify's change of an object to   *)
(* the replica row and what hangs on it: the intake of the API server      *)
(* (modules/shopify/webhooks/webhook.service.ts), the job webhook.process  *)
(* of the worker (handlers/webhook.handlers.ts), the appliers and writers  *)
(* (packages/sync), and the uninstall that takes the token away.           *)
(*                                                                         *)
(* All deliveries are about one Shopify object; a version of it is the     *)
(* number of the change that made it, a deletion being a change too.       *)
(* What a full or incremental sync writes to the same row is left out.     *)
(***************************************************************************)
EXTENDS Naturals

CONSTANTS Deliveries,    \* webhook deliveries (X-Shopify-Webhook-Id)
          Listeners,     \* ACTIVE workflows with an EVENT trigger on the topic
          MaxAttempts,   \* WebhookProcessJob.attempts
          MaxErrors,     \* bound: calls inside the handler's try block that throw
          MaxOverruns,   \* bound: timeouts, deaths, and errors no catch block sees
          MaxUninstalls  \* bound: times the merchant removes the app

ASSUME BoundsAssumption == /\ MaxAttempts \in Nat \ {0}
                           /\ MaxErrors \in Nat
                           /\ MaxOverruns \in Nat
                           /\ MaxUninstalls \in Nat

VARIABLES
  shop,      \* the version of the object at Shopify
  sent,      \* sent[d]: the topic of d and the version its payload shows
  req,       \* req[d]: the intake request that inserted d's row
  log,       \* webhook_logs.status
  job,       \* the job webhook:<logId>
  exec,      \* exec[d][k]: the handler call running attempt k of d's job
  replica,   \* the version the replica row shows
  applied,   \* deliveries whose effect has been written
  dirty,     \* deliveries written with no cache bump since
  refreshed, \* deliveries whose analytics refresh is enqueued
  event,     \* event[d]: the workflow started by the job wf-event:webhook:..:d
  installed, \* stores.status is ACTIVE and an OFFLINE session is stored
  cut,       \* deliveries a handler of which ended without its catch block
  errors, overruns, uninstalls  \* faults so far, per kind

vars == <<shop, sent, req, log, job, exec, replica, applied, dirty, refreshed,
          event, installed, cut, errors, overruns, uninstalls>>

faults == <<errors, overruns, uninstalls>>
follow  == <<applied, dirty, refreshed, event>>
data    == <<replica, follow>>
outside == <<shop, sent, req>>

Attempts == 1 .. MaxAttempts

\* Topics by what becomes of them: the payload is written; refunds/create
\* reads the order again and writes that; checkouts/* have an applier and a
\* subscription but no entry in the intake's registry.
Topics == {"payload", "refetch", "checkout"}

NotSent    == [topic |-> "payload", ver |-> 0]
NoJob      == [st |-> "none", n |-> 0]
Gone       == [pc |-> "gone", ver |-> 0, todo |-> {}]
NoWorkflow == "none"

ASSUME ListenersAssumption == NoWorkflow \notin Listeners

Init ==
  /\ shop = 0
  /\ sent = [d \in Deliveries |-> NotSent]
  /\ req = [d \in Deliveries |-> "none"]
  /\ log = [d \in Deliveries |-> "NONE"]
  /\ job = [d \in Deliveries |-> NoJob]
  /\ exec = [d \in Deliveries |-> [k \in Attempts |-> Gone]]
  /\ replica = 0
  /\ applied = {} /\ dirty = {} /\ refreshed = {}
  /\ event = [d \in Deliveries |-> NoWorkflow]
  /\ installed = TRUE
  /\ cut = {}
  /\ errors = 0 /\ overruns = 0 /\ uninstalls = 0

-----------------------------------------------------------------------------
(* Shopify and the merchant.                                                *)

\* The object changes: Shopify owes the delivery d of the new version.
Change(d, topic) ==
  /\ sent[d].ver = 0
  /\ shop' = shop + 1
  /\ sent' = [sent EXCEPT ![d] = [topic |-> topic, ver |-> shop + 1]]
  /\ UNCHANGED <<req, log, job, exec, data, installed, cut, faults>>

\* app/uninstalled: handled inline, the tokens are deleted with the status.
Uninstall ==
  /\ installed
  /\ uninstalls < MaxUninstalls
  /\ installed' = FALSE
  /\ uninstalls' = uninstalls + 1
  /\ UNCHANGED <<outside, log, job, exec, data, cut, errors, overruns>>

\* provisionStore: the row is ACTIVE and the session stored again.
Reinstall ==
  /\ ~installed
  /\ installed' = TRUE
  /\ UNCHANGED <<outside, log, job, exec, data, cut, faults>>

-----------------------------------------------------------------------------
(* The intake.  Deliveries arrive in any order.                             *)

\* The insert, unique on (store, topic, delivery).  Every later request for
\* the same delivery finds the row and answers "duplicate": a stutter.
Insert(d) ==
  /\ sent[d].ver > 0
  /\ log[d] = "NONE"
  /\ log' = [log EXCEPT ![d] = "RECEIVED"]
  /\ req' = [req EXCEPT ![d] = IF sent[d].topic = "checkout" THEN "mark" ELSE "enqueue"]
  /\ UNCHANGED <<shop, sent, job, exec, data, installed, cut, faults>>

\* A durable topic: enqueuePersistent.
Enqueue(d) ==
  /\ req[d] = "enqueue"
  /\ req' = [req EXCEPT ![d] = "done"]
  /\ job' = [job EXCEPT ![d] = [st |-> "ready", n |-> 1]]
  /\ UNCHANGED <<shop, sent, log, exec, data, installed, cut, faults>>

\* A topic without an entry is marked PROCESSED.
MarkUnknown(d) ==
  /\ req[d] = "mark"
  /\ req' = [req EXCEPT ![d] = "done"]
  /\ log' = [log EXCEPT ![d] = "PROCESSED"]
  /\ UNCHANGED <<shop, sent, job, exec, data, installed, cut, faults>>

\* The request fails after its insert.  Shopify calls again, a duplicate.
IntakeDies(d) ==
  /\ req[d] \in {"enqueue", "mark"}
  /\ overruns < MaxOverruns
  /\ overruns' = overruns + 1
  /\ req' = [req EXCEPT ![d] = "done"]
  /\ UNCHANGED <<shop, sent, log, job, exec, data, installed, cut, errors, uninstalls>>

-----------------------------------------------------------------------------
(* The queue.                                                               *)

Becomes(d, k, c) == exec' = [exec EXCEPT ![d][k] = c]
Goes(d, k, pc)   == Becomes(d, k, [exec[d][k] EXCEPT !.pc = pc])

Current(d, k) == job[d].st = "active" /\ job[d].n = k

Deliver(d) ==
  /\ job[d].st = "ready"
  /\ job' = [job EXCEPT ![d].st = "active"]
  /\ Becomes(d, job[d].n, [Gone EXCEPT !.pc = "read"])
  /\ UNCHANGED <<outside, log, data, installed, cut, faults>>

\* The attempt the queue waits for throws or times out.
Rescheduled(d, k) ==
  job' = IF Current(d, k)
           THEN [job EXCEPT ![d] = IF k < MaxAttempts
                                     THEN [st |-> "ready", n |-> k + 1]
                                     ELSE [st |-> "dead", n |-> k]]
           ELSE job

\* executeWithTimeout stops waiting; the handler itself runs on.
TimesOut(d, k) ==
  /\ exec[d][k].pc # "gone"
  /\ Current(d, k)
  /\ overruns < MaxOverruns
  /\ overruns' = overruns + 1
  /\ Rescheduled(d, k)
  /\ UNCHANGED <<outside, log, exec, data, installed, cut, errors, uninstalls>>

\* The worker dies: BullMQ redelivers the attempt, or fails a job that
\* stalled before; the memory driver forgets it.
WorkerDies(d, k) ==
  /\ exec[d][k].pc # "gone"
  /\ overruns < MaxOverruns
  /\ overruns' = overruns + 1
  /\ Becomes(d, k, Gone)
  /\ \/ job' = IF Current(d, k) THEN [job EXCEPT ![d].st = "ready"] ELSE job
     \/ Current(d, k) /\ job' = [job EXCEPT ![d].st = "lost"]
  /\ cut' = cut \cup {d}
  /\ UNCHANGED <<outside, log, data, installed, errors, uninstalls>>

-----------------------------------------------------------------------------
(* webhookProcessHandler.                                                   *)

Read(d, k) ==
  /\ exec[d][k].pc = "read"
  /\ Goes(d, k, IF log[d] = "RECEIVED" THEN "resolve" ELSE "return")
  /\ UNCHANGED <<outside, log, job, data, installed, cut, faults>>

\* Mutant: the row is marked before the effect is written.
ResolveMarksFirst(d, k) ==
  /\ exec[d][k].pc = "resolve"
  /\ Goes(d, k, IF installed THEN "mark" ELSE "throw")
  /\ UNCHANGED <<outside, log, job, data, installed, cut, faults>>

\* resolveStoreAdminContext, outside the try block: without a token the
\* attempt fails and the row is not told.
Resolve(d, k) ==
  /\ exec[d][k].pc = "resolve"
  /\ IF installed
       THEN Becomes(d, k, [pc |-> IF sent[d].topic = "refetch" THEN "fetch" ELSE "apply",
                           ver |-> sent[d].ver, todo |-> {}])
       ELSE Goes(d, k, "throw")
  /\ UNCHANGED <<outside, log, job, data, installed, cut, faults>>

\* applyRefund reads the order from Shopify ...
Fetch(d, k) ==
  /\ exec[d][k].pc = "fetch"
  /\ Becomes(d, k, [exec[d][k] EXCEPT !.pc = "apply", !.ver = shop])
  /\ UNCHANGED <<outside, log, job, data, installed, cut, faults>>

\* ... and the writer upserts or deletes by id, whatever the row shows.
Apply(d, k) ==
  /\ exec[d][k].pc = "apply"
  /\ replica' = exec[d][k].ver
  /\ applied' = applied \cup {d}
  /\ dirty' = dirty \cup {d}
  /\ Goes(d, k, "mark")
  /\ UNCHANGED <<outside, log, job, refreshed, event, installed, cut, faults>>

Mark(d, k) ==
  /\ exec[d][k].pc = "mark"
  /\ log' = [log EXCEPT ![d] = "PROCESSED"]
  /\ Goes(d, k, "bump")
  /\ UNCHANGED <<outside, job, data, installed, cut, faults>>

Bump(d, k) ==
  /\ exec[d][k].pc = "bump"
  /\ dirty' = dirty \ {d}
  /\ Goes(d, k, "refresh")
  /\ UNCHANGED <<outside, log, job, replica, applied, refreshed, event, installed,
                 cut, faults>>

\* The refresh job the payload calls for, one per log row; then
\* findEventTriggered.
Refresh(d, k) ==
  /\ exec[d][k].pc = "refresh"
  /\ refreshed' = refreshed \cup {d}
  /\ Becomes(d, k, [exec[d][k] EXCEPT !.pc = "fan", !.todo = Listeners])
  /\ UNCHANGED <<outside, log, job, replica, applied, dirty, event, installed, cut, faults>>

\* One enqueue per listener, all under one job id: the first one stays.
Fan(d, k, w) ==
  /\ exec[d][k].pc = "fan"
  /\ w \in exec[d][k].todo
  /\ event' = [event EXCEPT ![d] = IF @ = NoWorkflow THEN w ELSE @]
  /\ Becomes(d, k, [exec[d][k] EXCEPT !.todo = @ \ {w}])
  /\ UNCHANGED <<outside, log, job, replica, applied, dirty, refreshed, installed,
                 cut, faults>>

FanDone(d, k) ==
  /\ exec[d][k].pc = "fan"
  /\ exec[d][k].todo = {}
  /\ Goes(d, k, "return")
  /\ UNCHANGED <<outside, log, job, data, installed, cut, faults>>

\* A read before the try block throws: the row is not told either.
FailsOutside(d, k) ==
  /\ exec[d][k].pc \in {"read", "resolve"}
  /\ overruns < MaxOverruns
  /\ overruns' = overruns + 1
  /\ Goes(d, k, "throw")
  /\ UNCHANGED <<outside, log, job, data, installed, cut, errors, uninstalls>>

\* A call inside the try block throws.
Fails(d, k) ==
  /\ exec[d][k].pc \in {"fetch", "apply", "mark", "bump", "refresh", "fan"}
  /\ exec[d][k].pc = "fan" => exec[d][k].todo # {} \/ Listeners = {}
  /\ errors < MaxErrors
  /\ errors' = errors + 1
  /\ Goes(d, k, "catch")
  /\ UNCHANGED <<outside, log, job, data, installed, cut, overruns, uninstalls>>

\* Mutant: the last attempt does not know it is the last.
CatchOffByOne(d, k) ==
  /\ exec[d][k].pc = "catch"
  /\ log' = [log EXCEPT ![d] = IF k > MaxAttempts THEN "FAILED" ELSE "RECEIVED"]
  /\ Goes(d, k, "throw")
  /\ UNCHANGED <<outside, job, data, installed, cut, faults>>

\* Mutant: a row already marked is left alone.
CatchLeavesProcessed(d, k) ==
  /\ exec[d][k].pc = "catch"
  /\ log' = [log EXCEPT ![d] = IF @ = "PROCESSED" THEN @
                               ELSE IF k >= MaxAttempts THEN "FAILED" ELSE "RECEIVED"]
  /\ Goes(d, k, "throw")
  /\ UNCHANGED <<outside, job, data, installed, cut, faults>>

\* The row goes back to RECEIVED for the next attempt, or FAILED after the
\* last, whatever it says by now.
Catch(d, k) ==
  /\ exec[d][k].pc = "catch"
  /\ log' = [log EXCEPT ![d] = IF k >= MaxAttempts THEN "FAILED" ELSE "RECEIVED"]
  /\ Goes(d, k, "throw")
  /\ UNCHANGED <<outside, job, data, installed, cut, faults>>

\* The catch block's own UPDATE throws.
CatchFails(d, k) ==
  /\ exec[d][k].pc = "catch"
  /\ overruns < MaxOverruns
  /\ overruns' = overruns + 1
  /\ cut' = cut \cup {d}
  /\ Goes(d, k, "throw")
  /\ UNCHANGED <<outside, log, job, data, installed, errors, uninstalls>>

Throw(d, k) ==
  /\ exec[d][k].pc = "throw"
  /\ Becomes(d, k, Gone)
  /\ Rescheduled(d, k)
  /\ UNCHANGED <<outside, log, data, installed, cut, faults>>

Return(d, k) ==
  /\ exec[d][k].pc = "return"
  /\ Becomes(d, k, Gone)
  /\ job' = IF Current(d, k) THEN [job EXCEPT ![d].st = "completed"] ELSE job
  /\ UNCHANGED <<outside, log, data, installed, cut, faults>>

-----------------------------------------------------------------------------

Intake(d) == Insert(d) \/ Enqueue(d) \/ MarkUnknown(d)

Step(d, k) ==
  \/ Read(d, k) \/ Resolve(d, k) \/ Fetch(d, k) \/ Apply(d, k) \/ Mark(d, k)
  \/ Bump(d, k) \/ Refresh(d, k) \/ (\E w \in Listeners : Fan(d, k, w)) \/ FanDone(d, k)
  \/ Catch(d, k) \/ Throw(d, k) \/ Return(d, k)

Fault(d) ==
  \/ IntakeDies(d)
  \/ \E k \in Attempts : \/ TimesOut(d, k) \/ WorkerDies(d, k)
                         \/ Fails(d, k) \/ FailsOutside(d, k) \/ CatchFails(d, k)

Next ==
  \/ Uninstall \/ Reinstall
  \/ \E d \in Deliveries :
       \/ \E topic \in Topics : Change(d, topic)
       \/ Intake(d) \/ Deliver(d) \/ Fault(d)
       \/ \E k \in Attempts : Step(d, k)

Spec == Init /\ [][Next]_vars

\* A started request and a delivered job run on, and the queue delivers.
\* Nothing makes Shopify change an object or a merchant install again.
Fairness == \A d \in Deliveries :
              /\ WF_vars(Enqueue(d)) /\ WF_vars(MarkUnknown(d)) /\ WF_vars(Deliver(d))
              /\ \A k \in Attempts : WF_vars(Step(d, k))

FairSpec == Spec /\ Fairness

-----------------------------------------------------------------------------
(* Properties.                                                              *)

Places == {"gone", "read", "resolve", "fetch", "apply", "mark", "bump", "refresh",
           "fan", "catch", "throw", "return"}

\* Every variable stays in its type: statuses of the source's enums, attempt
\* numbers between 1 and MaxAttempts.
TypeOK ==
  /\ shop \in Nat /\ replica \in Nat
  /\ sent \in [Deliveries -> [topic : Topics, ver : Nat]]
  /\ req \in [Deliveries -> {"none", "enqueue", "mark", "done"}]
  /\ log \in [Deliveries -> {"NONE", "RECEIVED", "PROCESSED", "FAILED"}]
  /\ job \in [Deliveries -> [st : {"none", "ready", "active", "completed", "dead", "lost"},
                             n : 0 .. MaxAttempts]]
  /\ exec \in [Deliveries -> [Attempts -> [pc : Places, ver : Nat, todo : SUBSET Listeners]]]
  /\ applied \subseteq Deliveries /\ dirty \subseteq Deliveries
  /\ refreshed \subseteq Deliveries /\ cut \subseteq Deliveries
  /\ event \in [Deliveries -> Listeners \cup {NoWorkflow}]
  /\ installed \in BOOLEAN
  /\ errors \in Nat /\ overruns \in Nat /\ uninstalls \in Nat

\* A row of a durable topic that says PROCESSED has had its effect written,
\* however many attempts raced, timed out or died (webhook.handlers.ts:28).
ProcessedIsApplied ==
  \A d \in Deliveries :
    log[d] = "PROCESSED" /\ sent[d].topic # "checkout" => d \in applied

Idle(d) == \A k \in Attempts : exec[d][k].pc = "gone"

\* When a durable row says PROCESSED and nobody works on it, the store's
\* cache has been bumped after the last write, the analytics refresh is
\* enqueued and a listening workflow started; the exception is a handler
\* that ended without its catch block (webhook.handlers.ts:86-124).
FollowedUp ==
  \A d \in Deliveries :
    log[d] = "PROCESSED" /\ sent[d].topic # "checkout" /\ Idle(d) /\ d \notin cut
      => /\ d \notin dirty
         /\ d \in refreshed
         /\ Listeners # {} => event[d] # NoWorkflow

\* A delivery handed to the queue ends PROCESSED or FAILED: no series of
\* errors leaves it RECEIVED with a dead job, as long as the app stays
\* installed, no attempt is cut short or left running, and only calls inside
\* the try block throw (webhook.handlers.ts:17-18).
Settles ==
  \A d \in Deliveries :
    job[d].st = "ready" ~> \/ log[d] \in {"PROCESSED", "FAILED"}
                           \/ ~installed \/ overruns > 0

==============================================================================
