----------------------------- MODULE MemoryQueue -----------------------------
(***************************************************************************)
(* The in-process queue driver (packages/queue/src/memory.driver.ts), its  *)
(* producers (JobPersistence.enqueuePersistent) and the PostgreSQL mirror   *)
(* its listener writes (packages/queue/src/persistence.ts).                *)
(*                                                                         *)
(* JavaScript runs each synchronous stretch undivided, so an action is one *)
(* stretch: an enqueue, a turn of the dispatcher, the settling of one      *)
(* handler attempt.  Mirror updates are promises nobody awaits: each is    *)
(* pending from the event that starts it until the database has run it,    *)
(* and two of them may be run in either order.                             *)
(***************************************************************************)
EXTENDS Naturals, FiniteSets

CONSTANTS Ids,          \* job ids
          Queues,       \* named queues
          QueueOf,      \* the queue of each job
          Unhandled,    \* jobs whose name no handler is registered for
          Invalid,      \* jobs whose payload their schema refuses
          Fired,        \* the ids schedules make up, one per firing
          Attached,     \* JobPersistence.attach was called on this queue
          Producers,    \* concurrent calls of enqueuePersistent
          Schedules,    \* scheduler identities
          Concurrency,  \* attempts a queue runs at a time
          MaxAttempts,  \* JobDefinition.attempts
          MaxLives,     \* bound: times a job id is accepted
          MaxTimeouts,  \* bound: attempts that exceed their timeout
          MaxCrashes,   \* bound: process crashes
          MaxIntervals  \* bound: calls of upsertSchedule per identity

None == "none"

ASSUME QueueAssumption == QueueOf \in [Ids -> Queues] /\ None \notin Ids
ASSUME AttachedAssumption == Attached \in BOOLEAN
ASSUME LimitsAssumption == Concurrency \in Nat \ {0} /\ MaxAttempts \in Nat \ {0}
ASSUME BoundsAssumption == MaxLives \in Nat /\ MaxTimeouts \in Nat /\ MaxCrashes \in Nat
                           /\ MaxIntervals \in Nat

VARIABLES
  mode,       \* "stopped" before start(), "running", "closing", "closed"
  pending,    \* pending[i]: the attempt job i waits for, 0 if it is not pending
  due,        \* the pending jobs whose runAtMs has come
  ahead,      \* ahead[i]: the due jobs with an earlier runAtMs than i
  inFlight,   \* inFlightIds
  running,    \* running[i]: the attempt executeWithTimeout awaits, 0 if none
  late,       \* late[i]: handlers of i that outlived their timeout
  chains,     \* dispatch timers that re-arm themselves
  intervals,  \* setInterval timers per schedule
  producer,   \* producer[p]: the id p has recorded and not enqueued, or "none"
  row,        \* the background_jobs row of each id
  retried,    \* its job_retries rows
  failed,     \* its failed_jobs rows
  updates,    \* mirror updates under way
  completed,  \* completed events of each job
  dead,       \* dead events of each job
  lives,      \* times i was accepted
  timeouts,   \* attempts that exceeded their timeout
  crashes     \* process crashes

driver == <<pending, due, ahead, inFlight, running>>
mirror == <<row, retried, failed, updates>>
ended  == <<completed, dead>>
faults == <<timeouts, crashes>>
vars == <<mode, pending, due, ahead, inFlight, running, late, chains, intervals, producer,
          row, retried, failed, updates, ended, lives, faults>>

NoRow == [st |-> "NONE", attempts |-> 0]
Zero  == [i \in Ids |-> 0]
Nobody == [i \in Ids |-> {}]

Init ==
  /\ mode = "stopped"
  /\ pending = Zero /\ due = {} /\ ahead = Nobody /\ inFlight = {} /\ running = Zero /\ late = Zero
  /\ chains = 0 /\ intervals = [s \in Schedules |-> 0]
  /\ producer = [p \in Producers |-> None]
  /\ row = [i \in Ids |-> NoRow] /\ retried = Zero /\ failed = Zero /\ updates = {}
  /\ completed = Zero /\ dead = Zero /\ lives = Zero
  /\ timeouts = 0 /\ crashes = 0

\* The listener's reaction to an event of the jobs is: UPDATEs nobody awaits.
Emits(type, is, n) ==
  {[type |-> type, id |-> i, n |-> n[i], life |-> lives[i]] : i \in {j \in is : Attached}}

-----------------------------------------------------------------------------
(* Producers.                                                               *)

\* recordQueued: the row first, onConflictDoNothing on the job id.
RecordQueued(p, i) ==
  /\ producer[p] = None
  /\ i \notin Fired
  /\ lives[i] + Cardinality({q \in Producers : producer[q] = i}) < MaxLives
  /\ producer' = [producer EXCEPT ![p] = i]
  /\ row' = [row EXCEPT ![i] = IF @ = NoRow THEN [st |-> "QUEUED", attempts |-> 0] ELSE @]
  /\ UNCHANGED <<mode, driver, late, chains, intervals, retried, failed, updates,
                 ended, lives, faults>>

\* Job i joins the due ones behind those that already are.
Joins(i) == /\ due'   = due \cup {i}
            /\ ahead' = [ahead EXCEPT ![i] = due]

\* A new job is pending, due at once or after its delay; the enqueue starts
\* a dispatch timer of its own.
Accepts(i, delayed) ==
  /\ pending'  = [pending EXCEPT ![i] = 1]
  /\ inFlight' = inFlight \cup {i}
  /\ IF delayed THEN UNCHANGED <<due, ahead>> ELSE Joins(i)
  /\ lives'    = [lives EXCEPT ![i] = @ + 1]
  /\ chains'   = IF mode = "running" THEN chains + 1 ELSE chains

\* Mutant: the duplicate check looks at the waiting jobs alone.
EnqueueWhileRunning(p, delayed) ==
  /\ producer[p] \notin {None} \cup Invalid
  /\ mode \in {"stopped", "running"}
  /\ IF pending[producer[p]] > 0
       THEN UNCHANGED <<pending, inFlight, due, ahead, lives, chains>>
       ELSE Accepts(producer[p], delayed)
  /\ producer' = [producer EXCEPT ![p] = None]
  /\ UNCHANGED <<mode, running, late, intervals, mirror, ended, faults>>

\* MemoryJobQueue.enqueue: an id in flight is a no-op.
Enqueue(p, delayed) ==
  /\ producer[p] \notin {None} \cup Invalid
  /\ mode \in {"stopped", "running"}
  /\ IF producer[p] \in inFlight
       THEN UNCHANGED <<pending, inFlight, due, ahead, lives, chains>>
       ELSE Accepts(producer[p], delayed)
  /\ producer' = [producer EXCEPT ![p] = None]
  /\ UNCHANGED <<mode, running, late, intervals, mirror, ended, faults>>

\* ... which throws once the queue is closed, or for an invalid payload.
EnqueueRefused(p) ==
  /\ producer[p] # None
  /\ mode \in {"closing", "closed"} \/ producer[p] \in Invalid
  /\ producer' = [producer EXCEPT ![p] = None]
  /\ UNCHANGED <<mode, driver, late, chains, intervals, mirror, ended, lives, faults>>

-----------------------------------------------------------------------------
(* The driver.                                                              *)

Start == /\ mode = "stopped"
         /\ mode' = "running"
         /\ chains' = chains + 1
         /\ UNCHANGED <<driver, late, intervals, producer, mirror, ended, lives, faults>>

\* A delay or a backoff elapses.
BecomesDue(i) ==
  /\ pending[i] > 0
  /\ i \notin due
  /\ Joins(i)
  /\ UNCHANGED <<mode, pending, inFlight, running, late, chains, intervals, producer,
                 mirror, ended, lives, faults>>

Slots(q) == Cardinality({i \in Ids : running[i] > 0 /\ QueueOf[i] = q})

\* Mutant: the slots taken in this turn are not counted.
StartsAll(i) == Slots(QueueOf[i]) < Concurrency

\* Due job i starts if its queue has a slot left when the loop of
\* dispatchDue, which takes the due jobs in their order, comes to it.
Starts(i) == Slots(QueueOf[i]) + Cardinality({j \in ahead[i] : QueueOf[j] = QueueOf[i]})
               < Concurrency

Started == {i \in due : Starts(i)}

\* A turn of the dispatcher: every job it starts leaves pending and emits
\* "active"; one without a handler is dead on the spot.
Dispatch ==
  /\ mode = "running"
  /\ chains > 0
  /\ Started # {}
  /\ LET refused == Started \cap Unhandled
     IN /\ pending'  = [i \in Ids |-> IF i \in Started THEN 0 ELSE pending[i]]
        /\ due'      = due \ Started
        /\ ahead'    = [i \in Ids |-> IF i \in Started THEN {} ELSE ahead[i] \ Started]
        /\ running'  = [i \in Ids |-> IF i \in Started \ refused THEN pending[i] ELSE running[i]]
        /\ inFlight' = inFlight \ refused
        /\ dead'     = [i \in Ids |-> IF i \in refused THEN dead[i] + 1 ELSE dead[i]]
        /\ updates'  = updates
             \cup Emits("active", Started \ refused, pending)
             \cup Emits("dead", refused, pending)
  /\ UNCHANGED <<mode, late, chains, intervals, producer, row, retried, failed,
                 completed, lives, faults>>

\* The handler returns in time.
Completes(i) ==
  /\ running[i] > 0
  /\ running'  = [running EXCEPT ![i] = 0]
  /\ inFlight' = inFlight \ {i}
  /\ completed' = [completed EXCEPT ![i] = @ + 1]
  /\ updates'  = updates \cup Emits("completed", {i}, running)
  /\ UNCHANGED <<mode, pending, due, ahead, late, chains, intervals, producer, row, retried,
                 failed, dead, lives, faults>>

\* Mutant: a dead job stays in flight.
FailsForEver(i, hopeless) ==
  /\ running' = [running EXCEPT ![i] = 0]
  /\ IF hopeless \/ running[i] >= MaxAttempts
       THEN /\ dead'    = [dead EXCEPT ![i] = @ + 1]
            /\ updates' = updates \cup Emits("dead", {i}, running)
            /\ UNCHANGED <<pending, inFlight>>
       ELSE /\ pending' = [pending EXCEPT ![i] = running[i] + 1]
            /\ updates' = updates \cup Emits("retry", {i}, running)
            /\ UNCHANGED <<dead, inFlight>>

\* Mutant: one attempt too many.
FailedOnceMore(i, hopeless) ==
  /\ running' = [running EXCEPT ![i] = 0]
  /\ IF hopeless \/ running[i] > MaxAttempts
       THEN /\ inFlight' = inFlight \ {i}
            /\ dead'     = [dead EXCEPT ![i] = @ + 1]
            /\ updates'  = updates \cup Emits("dead", {i}, running)
            /\ UNCHANGED pending
       ELSE /\ pending'  = [pending EXCEPT ![i] = running[i] + 1]
            /\ updates'  = updates \cup Emits("retry", {i}, running)
            /\ UNCHANGED <<dead, inFlight>>

\* The attempt has failed: dead after the last one or for a hopeless error, else
\* pending again, to be due after its backoff.
Failed(i, hopeless) ==
  /\ running' = [running EXCEPT ![i] = 0]
  /\ IF hopeless \/ running[i] >= MaxAttempts
       THEN /\ inFlight' = inFlight \ {i}
            /\ dead'     = [dead EXCEPT ![i] = @ + 1]
            /\ updates'  = updates \cup Emits("dead", {i}, running)
            /\ UNCHANGED pending
       ELSE /\ pending'  = [pending EXCEPT ![i] = running[i] + 1]
            /\ updates'  = updates \cup Emits("retry", {i}, running)
            /\ UNCHANGED <<dead, inFlight>>

\* The handler throws; an InvalidJobPayloadError, its own payload's or that of a
\* job it tried to enqueue, ends the job whatever attempts are left.
Throws(i) ==
  /\ running[i] > 0
  /\ \E hopeless \in BOOLEAN : Failed(i, hopeless)
  /\ UNCHANGED <<mode, due, ahead, late, chains, intervals, producer, row, retried, failed,
                 completed, lives, faults>>

\* executeWithTimeout gives up on the handler, which goes on.
TimesOut(i) ==
  /\ running[i] > 0
  /\ timeouts < MaxTimeouts
  /\ timeouts' = timeouts + 1
  /\ late' = [late EXCEPT ![i] = @ + 1]
  /\ Failed(i, FALSE)
  /\ UNCHANGED <<mode, due, ahead, chains, intervals, producer, row, retried, failed,
                 completed, lives, crashes>>

\* Its result, when it comes, settles a promise that is already settled.
LateResult(i) ==
  /\ late[i] > 0
  /\ late' = [late EXCEPT ![i] = @ - 1]
  /\ UNCHANGED <<mode, driver, chains, intervals, producer, mirror, ended, lives, faults>>

\* upsertSchedule in this driver: one more setInterval.
UpsertSchedule(s) ==
  /\ mode \in {"stopped", "running"}
  /\ intervals[s] < MaxIntervals
  /\ intervals' = [intervals EXCEPT ![s] = @ + 1]
  /\ UNCHANGED <<mode, driver, late, chains, producer, mirror, ended, lives, faults>>

\* A schedule fires: a job with an id of its own, and no row.
Fires(s, i) ==
  /\ mode \in {"stopped", "running"}
  /\ intervals[s] > 0
  /\ i \in Fired
  /\ lives[i] = 0
  /\ Accepts(i, FALSE)
  /\ UNCHANGED <<mode, running, late, intervals, producer, mirror, ended, faults>>

Close == /\ mode \in {"stopped", "running"}
         /\ mode' = "closing"
         /\ chains' = 0
         /\ intervals' = [s \in Schedules |-> 0]
         /\ UNCHANGED <<driver, late, producer, mirror, ended, lives, faults>>

\* The drain ends with the last attempt, or after its ten seconds.
Closed == /\ mode = "closing"
          /\ mode' = "closed"
          /\ pending' = Zero /\ due' = {} /\ ahead' = Nobody /\ inFlight' = {}
          /\ UNCHANGED <<running, late, chains, intervals, producer, mirror, ended,
                         lives, faults>>

\* The process dies and comes up again, with what the database holds.
Crash ==
  /\ mode # "closed"
  /\ crashes < MaxCrashes
  /\ crashes' = crashes + 1
  /\ mode' = "stopped"
  /\ pending' = Zero /\ due' = {} /\ ahead' = Nobody /\ inFlight' = {} /\ running' = Zero /\ late' = Zero
  /\ chains' = 0 /\ intervals' = [s \in Schedules |-> 0]
  /\ producer' = [p \in Producers |-> None]
  /\ updates' = {}
  /\ UNCHANGED <<row, retried, failed, ended, lives, timeouts>>

-----------------------------------------------------------------------------
(* The mirror: applyEvent, one statement at a time.                         *)

Becomes(i, st, n) == row' = [row EXCEPT ![i] = IF @.st = "NONE" THEN @
                                               ELSE [st |-> st, attempts |-> n]]

\* What is left to do for u: an INSERT of the type given, if there is a row.
Then(u, type) == IF row[u.id].st = "NONE" THEN {} ELSE {[type |-> type, id |-> u.id, n |-> u.n, life |-> u.life]}

\* An UPDATE by the job id, whatever the row says by now.
Applies(u) ==
  /\ u \in updates
  /\ \/ u.type = "active" /\ Becomes(u.id, "RUNNING", u.n) /\ updates' = updates \ {u}
     \/ u.type = "completed" /\ Becomes(u.id, "COMPLETED", u.n) /\ updates' = updates \ {u}
     \/ /\ u.type = "retry" /\ Becomes(u.id, row[u.id].st, u.n)
        /\ updates' = (updates \ {u}) \cup Then(u, "retryRow")
     \/ /\ u.type = "dead" /\ Becomes(u.id, "DEAD_LETTERED", u.n)
        /\ updates' = (updates \ {u}) \cup Then(u, "deadRow")
  /\ UNCHANGED <<mode, driver, late, chains, intervals, producer, retried, failed,
                 ended, lives, faults>>

\* Mutant: every failed attempt is a dead letter.
InsertsAny(u) ==
  /\ u \in updates
  /\ u.type \in {"retryRow", "deadRow"}
  /\ failed' = [failed EXCEPT ![u.id] = @ + 1]
  /\ updates' = updates \ {u}
  /\ UNCHANGED <<mode, driver, late, chains, intervals, producer, row, retried,
                 ended, lives, faults>>

\* The INSERT that follows, when the UPDATE has returned a row.
Inserts(u) ==
  /\ u \in updates
  /\ \/ u.type = "retryRow" /\ retried' = [retried EXCEPT ![u.id] = @ + 1] /\ UNCHANGED failed
     \/ u.type = "deadRow" /\ failed' = [failed EXCEPT ![u.id] = @ + 1] /\ UNCHANGED retried
  /\ updates' = updates \ {u}
  /\ UNCHANGED <<mode, driver, late, chains, intervals, producer, row, ended, lives, faults>>

-----------------------------------------------------------------------------
Produce(p) == \/ \E i \in Ids : RecordQueued(p, i)
              \/ \E delayed \in BOOLEAN : Enqueue(p, delayed)
              \/ EnqueueRefused(p)

Settles(i) == Completes(i) \/ Throws(i)

Driver == \/ Start \/ Dispatch \/ Close \/ Closed \/ Crash
          \/ \E i \in Ids : BecomesDue(i) \/ Settles(i) \/ TimesOut(i) \/ LateResult(i)
          \/ \E s \in Schedules : UpsertSchedule(s) \/ \E i \in Ids : Fires(s, i)

Mirror == \E u \in updates : Applies(u) \/ Inserts(u)

Next == (\E p \in Producers : Produce(p)) \/ Driver \/ Mirror

Spec == Init /\ [][Next]_vars

\* The worker starts its queue, its timers fire, and an attempt returns,
\* throws or is given up by executeWithTimeout (which ends it as a throw does).
Fairness == /\ WF_vars(Start) /\ WF_vars(Dispatch) /\ WF_vars(Closed)
            /\ \A i \in Ids : WF_vars(BecomesDue(i)) /\ WF_vars(Settles(i))

FairSpec == Spec /\ Fairness

-----------------------------------------------------------------------------
(* Properties.                                                              *)

RowStates == {"NONE", "QUEUED", "RUNNING", "COMPLETED", "DEAD_LETTERED"}
UpdateType == [type : {"active", "completed", "retry", "dead", "retryRow", "deadRow"},
               id : Ids, n : 1 .. MaxAttempts, life : Nat]

\* Every variable keeps its type.
TypeOK ==
  /\ mode \in {"stopped", "running", "closing", "closed"}
  /\ pending \in [Ids -> 0 .. MaxAttempts]
  /\ due \subseteq Ids
  /\ ahead \in [Ids -> SUBSET Ids]
  /\ inFlight \subseteq Ids
  /\ running \in [Ids -> 0 .. MaxAttempts]
  /\ late \in [Ids -> Nat]
  /\ chains \in Nat
  /\ intervals \in [Schedules -> Nat]
  /\ producer \in [Producers -> Ids \cup {None}]
  /\ row \in [Ids -> [st : RowStates, attempts : 0 .. MaxAttempts]]
  /\ retried \in [Ids -> Nat]
  /\ failed \in [Ids -> Nat]
  /\ updates \subseteq UpdateType
  /\ completed \in [Ids -> Nat] /\ dead \in [Ids -> Nat]
  /\ lives \in [Ids -> Nat]
  /\ timeouts \in Nat /\ crashes \in Nat

\* inFlightIds, the idempotency key of every trigger, is exact: it names the
\* jobs that wait and those that run, and no job does both -- through retries,
\* timeouts, dead letters and replays of an id that has ended.
InFlightExact ==
  mode # "closed" =>
    /\ \A i \in Ids : i \in inFlight <=> (pending[i] > 0 \/ running[i] > 0)
    /\ \A i \in Ids : pending[i] = 0 \/ running[i] = 0

\* activeByQueue bounds the attempts the driver awaits, although a turn of the
\* dispatcher starts several and retries come back in between.
SlotsBounded == \A q \in Queues : Slots(q) <= Concurrency

\* "a job never reports both failure and success": each acceptance of an id
\* ends at most once, completed or dead, late results included.
OneOutcome ==
  mode # "closed" =>
    \A i \in Ids : completed[i] + dead[i]
                     + (IF i \in inFlight THEN 1 ELSE 0) <= lives[i]

\* The mirror invents nothing: a row is COMPLETED or DEAD_LETTERED, and a
\* failed_jobs row exists, only for an outcome the queue has reported.
MirrorInventsNothing ==
  \A i \in Ids : /\ (row[i].st = "COMPLETED" => completed[i] > 0)
                  /\ (row[i].st = "DEAD_LETTERED" => dead[i] > 0)
                  /\ failed[i] <= dead[i]

\* A job in flight does not stay there: it completes, dies or is dropped by
\* close() or a crash, however the queue is loaded.
JobEnds == \A i \in Ids : i \in inFlight ~> i \notin inFlight

\* The port's lifecycle contract.
Stage == [i \in Ids |->
  IF mode = "closed" \/ i \notin inFlight THEN [at |-> "out", n |-> 0]
  ELSE IF running[i] > 0 THEN [at |-> "running", n |-> running[i]]
  ELSE [at |-> "waiting", n |-> pending[i]]]

Lifecycle == INSTANCE JobLifecycle WITH stage <- Stage
ImplementsLifecycle == Lifecycle!Spec
=============================================================================
