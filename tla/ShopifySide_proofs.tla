-------------------------- MODULE ShopifySide_proofs --------------------------
(***************************************************************************)
(* What holds of the two components that follow a truth kept at Shopify,   *)
(* the webhooks it sends and the charges it holds, for every value of      *)
(* their constants.                                                        *)
(*                                                                         *)
(* WebhookIntake, for every set of deliveries, of listening workflows and  *)
(* every bound: the types, that PROCESSED means applied, and that what     *)
(* follows a processed delivery is done or under way.                      *)
(*                                                                         *)
(* Subscription, for any number of charges, callers, days and failures:    *)
(* access without an acceptance ends with the grace of a granted trial,    *)
(* and nothing but an acceptance makes a store a paying one.  The row is   *)
(* written from what a call read before, so the invariant says of every    *)
(* call in progress what the row it will leave must satisfy.               *)
(***************************************************************************)
EXTENDS WebhookIntake, Subscription, TLAPS

(* ------------------------------ WebhookIntake ----------------------------- *)

Call == [pc : Places, ver : Nat, todo : SUBSET Listeners]
Job  == [st : {"none", "ready", "active", "completed", "dead", "lost"}, n : 0 .. MaxAttempts]

\* What Becomes does, pointwise.
LEMMA BecomesCall ==
  ASSUME TypeOK, NEW d \in Deliveries, NEW k \in Attempts, NEW c \in Call,
         Becomes(d, k, c)
  PROVE  /\ exec' \in [Deliveries -> [Attempts -> Call]]
         /\ exec'[d][k] = c
         /\ \A d1 \in Deliveries, k1 \in Attempts :
              d1 # d \/ k1 # k => exec'[d1][k1] = exec[d1][k1]
BY DEF TypeOK, Becomes, Call

\* A handler call of a well-typed state.
LEMMA CallType ==
  ASSUME TypeOK, NEW d \in Deliveries, NEW k \in Attempts
  PROVE  exec[d][k] \in Call
BY DEF TypeOK, Call

\* The ended call has its type.
LEMMA GoneType == Gone \in Call
BY DEF Gone, Call, Places

\* What Goes does, pointwise: only the place of the call changes.
LEMMA GoesCall ==
  ASSUME TypeOK, NEW d \in Deliveries, NEW k \in Attempts, NEW pc \in Places,
         Goes(d, k, pc)
  PROVE  /\ exec' \in [Deliveries -> [Attempts -> Call]]
         /\ exec'[d][k] \in Call
         /\ exec'[d][k].pc = pc
         /\ exec'[d][k].ver = exec[d][k].ver
         /\ exec'[d][k].todo = exec[d][k].todo
         /\ \A d1 \in Deliveries, k1 \in Attempts :
              d1 # d \/ k1 # k => exec'[d1][k1] = exec[d1][k1]
<1> DEFINE c == [exec[d][k] EXCEPT !.pc = pc]
<1>1. exec[d][k] \in Call
  BY CallType
<1>2. /\ c \in Call /\ c.pc = pc /\ c.ver = exec[d][k].ver /\ c.todo = exec[d][k].todo
  BY <1>1 DEF Call
<1>3. Becomes(d, k, c)
  BY DEF Goes
<1> HIDE DEF c
<1> QED BY <1>2, <1>3, BecomesCall

\* What the queue does with a job whose attempt failed: nothing unless it waits
\* for that attempt, else the next attempt or the end.
LEMMA RescheduledType ==
  ASSUME TypeOK, NEW d \in Deliveries, NEW k \in Attempts, Rescheduled(d, k)
  PROVE  /\ job' \in [Deliveries -> Job]
         /\ \A d1 \in Deliveries : d1 # d => job'[d1] = job[d1]
         /\ ~Current(d, k) => job' = job
         /\ Current(d, k) => \/ job'[d].st = "ready" /\ job'[d].n = k + 1
                             \/ job'[d].st = "dead" /\ job'[d].n = k
<1> USE DEF Attempts, Job
<1>1. /\ k \in Nat /\ k >= 1 /\ k <= MaxAttempts /\ MaxAttempts \in Nat
      /\ job \in [Deliveries -> Job]
  BY BoundsAssumption DEF TypeOK
<1>2. CASE ~Current(d, k)
  BY <1>1, <1>2 DEF Rescheduled
<1>3. CASE Current(d, k) /\ k < MaxAttempts
  <2>1. [st |-> "ready", n |-> k + 1] \in Job
    BY <1>1, <1>3
  <2> QED BY <1>1, <1>3, <2>1 DEF Rescheduled
<1>4. CASE Current(d, k) /\ ~(k < MaxAttempts)
  <2>1. [st |-> "dead", n |-> k] \in Job
    BY <1>1
  <2> QED BY <1>1, <1>4, <2>1 DEF Rescheduled
<1> QED BY <1>2, <1>3, <1>4

-----------------------------------------------------------------------------
(* Type correctness.                                                        *)

\* The initial state is well typed.
LEMMA TypeInit == Init => TypeOK
BY BoundsAssumption DEF Init, TypeOK, NotSent, NoJob, Gone, NoWorkflow, Topics, Places

\* Uninstalling and reinstalling keep the types.
LEMMA TypeOutside ==
  ASSUME TypeOK, Uninstall \/ Reinstall
  PROVE  TypeOK'
<1> USE DEF TypeOK, outside, data, follow, faults
<1>1. CASE Uninstall
  <2>1. installed' \in BOOLEAN
    BY <1>1, Zenon DEF Uninstall
  <2>2. uninstalls' \in Nat
    BY <1>1 DEF Uninstall
  <2> QED BY <1>1, <2>1, <2>2, Zenon DEF Uninstall
<1>2. CASE Reinstall
  BY <1>2 DEF Reinstall
<1> QED BY <1>1, <1>2

\* A change at Shopify and the intake of its delivery keep the types.
LEMMA TypeIntake ==
  ASSUME TypeOK, NEW d \in Deliveries,
         (\E topic \in Topics : Change(d, topic)) \/ Intake(d) \/ IntakeDies(d)
  PROVE  TypeOK'
<1> USE DEF outside, data, follow, faults
<1>1. ASSUME NEW topic \in Topics, Change(d, topic)
      PROVE  TypeOK'
  <2>1. [topic |-> topic, ver |-> shop + 1] \in [topic : Topics, ver : Nat]
    BY DEF TypeOK
  <2> QED BY <1>1, <2>1 DEF Change, TypeOK
<1>2. CASE Insert(d)
  BY <1>2 DEF Insert, TypeOK
<1>3. CASE MarkUnknown(d)
  BY <1>3 DEF MarkUnknown, TypeOK
<1>4. CASE IntakeDies(d)
  BY <1>4 DEF IntakeDies, TypeOK
<1>5. CASE Enqueue(d)
  <2>1. [st |-> "ready", n |-> 1] \in Job
    BY BoundsAssumption DEF Job
  <2> QED BY <1>5, <2>1 DEF Enqueue, TypeOK, Job
<1> QED BY <1>1, <1>2, <1>3, <1>4, <1>5 DEF Intake

\* A job's status changes alone.
LEMMA JobStatus ==
  ASSUME TypeOK, NEW d \in Deliveries,
         NEW st \in {"none", "ready", "active", "completed", "dead", "lost"},
         job' = [job EXCEPT ![d].st = st]
  PROVE  /\ job' \in [Deliveries -> Job]
         /\ job'[d].st = st /\ job'[d].n = job[d].n
         /\ \A d1 \in Deliveries : d1 # d => job'[d1] = job[d1]
<1> DEFINE j == [job[d] EXCEPT !.st = st]
<1>1. job[d] \in Job /\ job \in [Deliveries -> Job]
  BY DEF TypeOK, Job
<1>2. j \in Job /\ j.st = st /\ j.n = job[d].n
  BY <1>1 DEF Job
<1>3. job' = [job EXCEPT ![d] = j]
  OBVIOUS
<1> HIDE DEF j
<1> QED BY <1>1, <1>2, <1>3

\* A delivered job starts one handler call and leaves the others alone.
LEMMA DeliverCall ==
  ASSUME TypeOK, NEW d \in Deliveries, Deliver(d)
  PROVE  /\ exec' \in [Deliveries -> [Attempts -> Call]]
         /\ \A d1 \in Deliveries, k1 \in Attempts :
              IF d1 = d /\ k1 = job[d].n THEN exec'[d1][k1].pc = "read"
                                         ELSE exec'[d1][k1] = exec[d1][k1]
<1> DEFINE c == [Gone EXCEPT !.pc = "read"]
           n == job[d].n
<1>1. c \in Call /\ c.pc = "read"
  BY DEF Gone, Call, Places
<1>2. exec' = [exec EXCEPT ![d][n] = c] /\ exec \in [Deliveries -> [Attempts -> Call]]
  BY DEF Deliver, Becomes, TypeOK, Call
<1> HIDE DEF c, n
<1>3. CASE n \in Attempts
  BY <1>1, <1>2, <1>3 DEF n
<1>4. CASE n \notin Attempts
  BY <1>1, <1>2, <1>4 DEF n
<1> QED BY <1>3, <1>4

\* Delivery, timeout and the death of a worker keep the types.
LEMMA TypeQueue ==
  ASSUME TypeOK, NEW d \in Deliveries, NEW k \in Attempts,
         Deliver(d) \/ TimesOut(d, k) \/ WorkerDies(d, k)
  PROVE  TypeOK'
<1> USE DEF outside, data, follow, faults
<1>1. CASE TimesOut(d, k)
  <2>1. job' \in [Deliveries -> Job]
    BY <1>1, RescheduledType DEF TimesOut
  <2> QED BY <1>1, <2>1 DEF TimesOut, TypeOK, Job
<1>2. CASE WorkerDies(d, k)
  <2>1. exec' \in [Deliveries -> [Attempts -> Call]]
    BY <1>2, BecomesCall, GoneType DEF WorkerDies
  <2>2. job' \in [Deliveries -> Job]
    <3>1. job \in [Deliveries -> Job]
      BY DEF TypeOK, Job
    <3> QED BY <1>2, <3>1, JobStatus DEF WorkerDies
  <2> QED BY <1>2, <2>1, <2>2 DEF WorkerDies, TypeOK, Call, Job
<1>3. CASE Deliver(d)
  <2>1. job' \in [Deliveries -> Job]
    BY <1>3, JobStatus DEF Deliver
  <2> QED BY <1>3, <2>1, DeliverCall DEF Deliver, TypeOK, Call, Job
<1> QED BY <1>1, <1>2, <1>3

\* Every step of a handler keeps the types.
LEMMA TypeStep ==
  ASSUME TypeOK, NEW d \in Deliveries, NEW k \in Attempts,
         Step(d, k) \/ Fails(d, k) \/ FailsOutside(d, k) \/ CatchFails(d, k)
  PROVE  TypeOK'
<1> USE DEF outside, data, follow, faults
<1>1. exec[d][k] \in Call
  BY CallType
<1>2. CASE Read(d, k)
  <2>1. \E pc \in Places : Goes(d, k, pc)
    BY <1>2 DEF Read, Places
  <2> QED BY <1>2, <2>1, GoesCall DEF Read, TypeOK, Call
<1>3. CASE Resolve(d, k)
  <2>1. exec' \in [Deliveries -> [Attempts -> Call]]
    <3>1. CASE installed
      <4>1. [pc |-> IF sent[d].topic = "refetch" THEN "fetch" ELSE "apply",
             ver |-> sent[d].ver, todo |-> {}] \in Call
        BY DEF TypeOK, Call, Places
      <4> QED BY <1>3, <3>1, <4>1, BecomesCall DEF Resolve
    <3>2. CASE ~installed
      <4>1. "throw" \in Places
        BY DEF Places
      <4> QED BY <1>3, <3>2, <4>1, GoesCall DEF Resolve
    <3> QED BY <3>1, <3>2
  <2> QED BY <1>3, <2>1 DEF Resolve, TypeOK, Call
<1>4. CASE Fetch(d, k)
  <2>1. [exec[d][k] EXCEPT !.pc = "apply", !.ver = shop] \in Call
    BY <1>1 DEF TypeOK, Call, Places
  <2> QED BY <1>4, <2>1, BecomesCall DEF Fetch, TypeOK, Call
<1>5. CASE Apply(d, k)
  <2>1. exec' \in [Deliveries -> [Attempts -> Call]]
    BY <1>5, GoesCall DEF Apply, Places
  <2> QED BY <1>1, <1>5, <2>1 DEF Apply, TypeOK, Call
<1>6. CASE Mark(d, k)
  <2>1. exec' \in [Deliveries -> [Attempts -> Call]]
    BY <1>6, GoesCall DEF Mark, Places
  <2> QED BY <1>6, <2>1 DEF Mark, TypeOK, Call
<1>7. CASE Bump(d, k)
  <2>1. exec' \in [Deliveries -> [Attempts -> Call]]
    BY <1>7, GoesCall DEF Bump, Places
  <2> QED BY <1>7, <2>1 DEF Bump, TypeOK, Call
<1>8. CASE Refresh(d, k)
  <2>1. [exec[d][k] EXCEPT !.pc = "fan", !.todo = Listeners] \in Call
    BY <1>1 DEF Call, Places
  <2>2. exec' \in [Deliveries -> [Attempts -> Call]]
    BY <1>8, <2>1, BecomesCall DEF Refresh
  <2> QED BY <1>8, <2>2 DEF Refresh, TypeOK, Call
<1>9. ASSUME NEW w \in Listeners, Fan(d, k, w)
      PROVE  TypeOK'
  <2>1. [exec[d][k] EXCEPT !.todo = exec[d][k].todo \ {w}] \in Call
    BY <1>1 DEF Call
  <2>2. exec' \in [Deliveries -> [Attempts -> Call]]
    BY <1>9, <2>1, BecomesCall DEF Fan
  <2> QED BY <1>9, <2>2 DEF Fan, TypeOK, Call
<1>10. CASE FanDone(d, k)
  <2>1. exec' \in [Deliveries -> [Attempts -> Call]]
    BY <1>10, GoesCall DEF FanDone, Places
  <2> QED BY <1>10, <2>1 DEF FanDone, TypeOK, Call
<1>11. CASE Catch(d, k) \/ CatchFails(d, k)
  <2>1. exec' \in [Deliveries -> [Attempts -> Call]]
    BY <1>11, GoesCall DEF Catch, CatchFails, Places
  <2> QED BY <1>11, <2>1 DEF Catch, CatchFails, TypeOK, Call
<1>12. CASE Fails(d, k)
  <2>1. exec' \in [Deliveries -> [Attempts -> Call]]
    BY <1>12, GoesCall DEF Fails, Places
  <2> QED BY <1>12, <2>1 DEF Fails, TypeOK, Call
<1>13. CASE FailsOutside(d, k)
  <2>1. exec' \in [Deliveries -> [Attempts -> Call]]
    BY <1>13, GoesCall DEF FailsOutside, Places
  <2> QED BY <1>13, <2>1 DEF FailsOutside, TypeOK, Call
<1>14. CASE Throw(d, k)
  <2>1. exec' \in [Deliveries -> [Attempts -> Call]]
    BY <1>14, BecomesCall, GoneType DEF Throw
  <2> QED BY <1>14, <2>1, RescheduledType DEF Throw, TypeOK, Call, Job
<1>15. CASE Return(d, k)
  <2>1. exec' \in [Deliveries -> [Attempts -> Call]]
    BY <1>15, BecomesCall, GoneType DEF Return
  <2>2. job' \in [Deliveries -> Job]
    <3>1. job \in [Deliveries -> Job]
      BY DEF TypeOK, Job
    <3> QED BY <1>15, <3>1, JobStatus DEF Return
  <2> QED BY <1>15, <2>1, <2>2 DEF Return, TypeOK, Call, Job
<1> QED BY <1>2, <1>3, <1>4, <1>5, <1>6, <1>7, <1>8, <1>9, <1>10, <1>11, <1>12, <1>13,
           <1>14, <1>15 DEF Step

\* Every step keeps the types.
LEMMA TypeNext == TypeOK /\ [Next]_vars => TypeOK'
<1> SUFFICES ASSUME TypeOK, [Next]_vars PROVE TypeOK'
  OBVIOUS
<1>1. CASE UNCHANGED vars
  BY <1>1 DEF vars, TypeOK
<1>2. CASE Next
  <2>1. ASSUME NEW d \in Deliveries, Deliver(d)
        PROVE  TypeOK'
    <3>1. 1 \in Attempts
      BY BoundsAssumption DEF Attempts
    <3> QED BY <2>1, <3>1, TypeQueue
  <2> QED BY <1>2, <2>1, TypeOutside, TypeIntake, TypeQueue, TypeStep DEF Next, Fault
<1> QED BY <1>1, <1>2

\* Every reachable state is well typed: no attempt beyond WebhookProcessJob's
\* attempts is ever scheduled or run.
THEOREM TypeCorrect == Spec => []TypeOK
<1>1. Init => TypeOK
  BY TypeInit
<1>2. TypeOK /\ [Next]_vars => TypeOK'
  BY TypeNext
<1> QED BY <1>1, <1>2, PTL DEF Spec

-----------------------------------------------------------------------------
(* The invariant behind PROCESSED, delivery by delivery.                    *)

\* Some handler of d is at one of the places.
At(d, places) == \E k \in Attempts : exec[d][k].pc \in places

\* A row that arrived was sent, and has one request; only that request
\* creates the job.
IntakeInv(d) ==
  /\ sent[d].ver = 0 => log[d] = "NONE"
  /\ log[d] = "NONE" => req[d] = "none"
  /\ req[d] = "mark" => sent[d].topic = "checkout"
  /\ req[d] # "done" => job[d].st = "none"

\* A running handler belongs to an attempt the queue has started, so that a
\* delivery never replaces a handler at work.
QueueInv(d) ==
  \A k \in Attempts : exec[d][k].pc # "gone" =>
    /\ job[d].st # "none"
    /\ k < job[d].n \/ (k = job[d].n /\ job[d].st # "ready")

EffectInv(d) ==
  /\ At(d, {"mark", "bump", "refresh", "fan"}) => d \in applied
  /\ log[d] = "PROCESSED" /\ sent[d].topic # "checkout" => d \in applied

\* What a processed delivery still lacks, a handler is about to do, or is
\* about to take the row back in its catch block.
FollowInv(d) ==
  log[d] = "PROCESSED" /\ sent[d].topic # "checkout" /\ d \notin cut =>
    /\ d \in dirty => At(d, {"mark", "bump", "catch"})
    /\ d \notin refreshed => At(d, {"bump", "refresh", "catch"})
    /\ Listeners # {} /\ event[d] = NoWorkflow =>
         \/ At(d, {"bump", "refresh", "catch"})
         \/ \E k \in Attempts : exec[d][k].pc = "fan" /\ exec[d][k].todo # {}

DInv(d) == IntakeInv(d) /\ QueueInv(d) /\ EffectInv(d) /\ FollowInv(d)

IInv == TypeOK /\ \A d \in Deliveries : DInv(d)

\* Nothing has been sent in the initial state, so the invariant holds.
LEMMA InitInv == Init => IInv
<1> SUFFICES ASSUME Init, NEW d \in Deliveries PROVE DInv(d)
  BY TypeInit DEF IInv
<1> QED BY DEF Init, DInv, IntakeInv, QueueInv, EffectInv, FollowInv, At, NotSent, NoJob, Gone

\* What DInv(d) looks at.
Same(d) ==
  /\ sent'[d] = sent[d] /\ req'[d] = req[d] /\ log'[d] = log[d] /\ job'[d] = job[d]
  /\ \A k \in Attempts : exec'[d][k] = exec[d][k]
  /\ event'[d] = event[d]
  /\ (d \in applied') = (d \in applied) /\ (d \in dirty') = (d \in dirty)
  /\ (d \in refreshed') = (d \in refreshed) /\ (d \in cut') = (d \in cut)

\* A delivery a step leaves alone keeps its part of the invariant.
LEMMA SameInv ==
  ASSUME NEW d \in Deliveries, DInv(d), Same(d)
  PROVE  DInv(d)'
BY DEF Same, DInv, IntakeInv, QueueInv, EffectInv, FollowInv, At

\* All but one delivery are left as they are.
Only(d) == \A d1 \in Deliveries : d1 # d => Same(d1)

\* A step that touches one delivery need only restore that one.
LEMMA OnlyInv ==
  ASSUME IInv, TypeOK', NEW d \in Deliveries, Only(d), DInv(d)'
  PROVE  IInv'
BY SameInv DEF Only, IInv

\* A change and its intake: no handler is at work yet.
LEMMA IntakeStep ==
  ASSUME IInv, NEW d \in Deliveries,
         (\E topic \in Topics : Change(d, topic)) \/ Intake(d) \/ IntakeDies(d)
  PROVE  Only(d) /\ DInv(d)'
<1> USE DEF outside, data, follow, faults, Only, Same
<1>1. DInv(d) /\ TypeOK
  BY DEF IInv
<1> USE DEF DInv, IntakeInv, QueueInv, EffectInv, FollowInv, At
<1>2. ASSUME NEW topic \in Topics, Change(d, topic)
      PROVE  Only(d) /\ DInv(d)'
  <2>1. /\ log[d] = "NONE" /\ req[d] = "none"
        /\ log' = log /\ req' = req /\ job' = job /\ exec' = exec
    BY <1>1, <1>2 DEF Change
  <2>2. sent'[d].ver # 0 /\ \A d1 \in Deliveries : d1 # d => sent'[d1] = sent[d1]
    BY <1>1, <1>2 DEF Change, TypeOK
  <2> QED BY <1>1, <1>2, <2>1, <2>2 DEF Change
<1>3. CASE Insert(d)
  BY <1>1, <1>3 DEF Insert, TypeOK
<1>4. CASE Enqueue(d)
  <2>1. /\ job'[d].st = "ready" /\ \A d1 \in Deliveries : d1 # d => job'[d1] = job[d1]
        /\ req'[d] = "done" /\ \A d1 \in Deliveries : d1 # d => req'[d1] = req[d1]
    BY <1>1, <1>4 DEF Enqueue, TypeOK
  <2>2. \A k \in Attempts : exec[d][k].pc = "gone"
    BY <1>1, <1>4 DEF Enqueue
  <2> QED BY <1>1, <1>4, <2>1, <2>2 DEF Enqueue
<1>5. CASE MarkUnknown(d)
  BY <1>1, <1>5 DEF MarkUnknown, TypeOK
<1>6. CASE IntakeDies(d)
  BY <1>1, <1>6 DEF IntakeDies, TypeOK
<1> QED BY <1>2, <1>3, <1>4, <1>5, <1>6 DEF Intake

\* Delivery, timeout and death: no follow-up is forgotten, for the handler of
\* an attempt the queue gave up runs on, and one that died is cut.
LEMMA QueueStep ==
  ASSUME IInv, NEW d \in Deliveries, NEW k \in Attempts,
         Deliver(d) \/ TimesOut(d, k) \/ WorkerDies(d, k)
  PROVE  Only(d) /\ DInv(d)'
<1> USE DEF outside, data, follow, faults, Only, Same
<1>1. DInv(d) /\ TypeOK /\ k \in Nat
  BY DEF IInv, Attempts
<1> USE DEF DInv, IntakeInv, QueueInv, EffectInv, FollowInv, At
<1>2. CASE Deliver(d)
  <2>1. /\ job'[d].st = "active" /\ job'[d].n = job[d].n
        /\ \A d1 \in Deliveries : d1 # d => job'[d1] = job[d1]
    BY <1>1, <1>2, JobStatus DEF Deliver
  <2>2. \A d1 \in Deliveries, k1 \in Attempts :
          IF d1 = d /\ k1 = job[d].n THEN exec'[d1][k1].pc = "read"
                                     ELSE exec'[d1][k1] = exec[d1][k1]
    BY <1>1, <1>2, DeliverCall
  <2>3. \A k1 \in Attempts : k1 = job[d].n => exec[d][k1].pc = "gone"
    <3>1. SUFFICES ASSUME NEW k1 \in Attempts, k1 = job[d].n, exec[d][k1].pc # "gone"
                   PROVE  FALSE
      OBVIOUS
    <3>2. k1 \in Nat
      BY DEF Attempts
    <3> QED BY <1>1, <1>2, <3>1, <3>2 DEF Deliver
  <2>4. QueueInv(d)' /\ IntakeInv(d)'
    BY <1>1, <1>2, <2>1, <2>2 DEF Deliver
  <2>5. EffectInv(d)'
    BY <1>1, <1>2, <2>2, <2>3 DEF Deliver
  <2>6. FollowInv(d)'
    BY <1>1, <1>2, <2>2, <2>3 DEF Deliver
  <2> QED BY <1>2, <2>1, <2>2, <2>4, <2>5, <2>6 DEF Deliver
<1>3. CASE TimesOut(d, k)
  <2>1. /\ \A d1 \in Deliveries : d1 # d => job'[d1] = job[d1]
        /\ job[d].n = k
        /\ \/ job'[d].st = "ready" /\ job'[d].n = k + 1
           \/ job'[d].st = "dead" /\ job'[d].n = k
    BY <1>1, <1>3, RescheduledType DEF TimesOut, Current
  <2>2. QueueInv(d)'
    <3> SUFFICES ASSUME NEW k1 \in Attempts, exec'[d][k1].pc # "gone"
                 PROVE  /\ job'[d].st # "none"
                        /\ k1 < job'[d].n \/ (k1 = job'[d].n /\ job'[d].st # "ready")
      OBVIOUS
    <3>1. exec' = exec /\ k1 \in Nat
      BY <1>3 DEF TimesOut, Attempts
    <3>2. k1 <= k
      BY <1>1, <2>1, <3>1
    <3> QED BY <1>1, <2>1, <3>1, <3>2
  <2>3. req[d] = "done"
    BY <1>1, <1>3 DEF TimesOut, Current, TypeOK
  <2> QED BY <1>1, <1>3, <2>1, <2>2, <2>3 DEF TimesOut
<1>4. CASE WorkerDies(d, k)
  <2>1. /\ exec'[d][k].pc = "gone"
        /\ \A d1 \in Deliveries, k1 \in Attempts :
             d1 # d \/ k1 # k => exec'[d1][k1] = exec[d1][k1]
    BY <1>1, <1>4, BecomesCall, GoneType DEF WorkerDies, Gone
  <2>2. /\ \A d1 \in Deliveries : d1 # d => job'[d1] = job[d1]
        /\ job'[d].n = job[d].n
        /\ job'[d] = job[d] \/ (Current(d, k) /\ job'[d].st \in {"ready", "lost"})
    BY <1>1, <1>4, JobStatus DEF WorkerDies
  <2>3. QueueInv(d)'
    <3> SUFFICES ASSUME NEW k1 \in Attempts, exec'[d][k1].pc # "gone"
                 PROVE  /\ job'[d].st # "none"
                        /\ k1 < job'[d].n \/ (k1 = job'[d].n /\ job'[d].st # "ready")
      OBVIOUS
    <3>1. k1 # k /\ exec[d][k1].pc # "gone" /\ k1 \in Nat
      BY <2>1 DEF Attempts
    <3> QED BY <1>1, <2>2, <3>1 DEF Current
  <2>4. IntakeInv(d)'
    <3>1. req[d] = "done"
      BY <1>1, <1>4 DEF WorkerDies, TypeOK
    <3> QED BY <1>1, <1>4, <3>1 DEF WorkerDies
  <2>5. EffectInv(d)'
    BY <1>1, <1>4, <2>1 DEF WorkerDies
  <2>6. FollowInv(d)'
    BY <1>4 DEF WorkerDies
  <2> QED BY <1>4, <2>1, <2>2, <2>3, <2>4, <2>5, <2>6 DEF WorkerDies
<1> QED BY <1>2, <1>3, <1>4

\* A step of handler k of d that stays at work: it leaves the queue alone.
Works(d, k) ==
  /\ Only(d)
  /\ sent' = sent /\ req' = req /\ job' = job
  /\ log'[d] = log[d] \/ log'[d] \in {"RECEIVED", "PROCESSED", "FAILED"}
  /\ \A k1 \in Attempts : k1 # k => exec'[d][k1] = exec[d][k1]

\* Such a step disturbs neither the intake's nor the queue's invariant.
LEMMA WorksInv ==
  ASSUME IInv, NEW d \in Deliveries, NEW k \in Attempts,
         Works(d, k), exec[d][k].pc # "gone"
  PROVE  IntakeInv(d)' /\ QueueInv(d)'
<1>1. DInv(d) /\ req[d] = "done" /\ log[d] # "NONE"
  BY DEF IInv, DInv, IntakeInv, QueueInv, TypeOK
<1>2. IntakeInv(d)'
  BY <1>1 DEF Works, DInv, IntakeInv
<1>3. QueueInv(d)'
  BY <1>1 DEF Works, DInv, QueueInv
<1> QED BY <1>2, <1>3

\* A step of a handler: the effect comes before the mark, and each follow-up
\* before the next.
LEMMA HandlerStep ==
  ASSUME IInv, NEW d \in Deliveries, NEW k \in Attempts,
         Step(d, k) \/ Fails(d, k) \/ FailsOutside(d, k) \/ CatchFails(d, k)
  PROVE  Only(d) /\ DInv(d)'
<1> USE DEF outside, data, follow, faults
<1>1. DInv(d) /\ TypeOK /\ exec[d][k] \in Call
  BY CallType DEF IInv
<1>2. exec[d][k].pc # "gone"
  BY DEF Step, Read, Resolve, Fetch, Apply, Mark, Bump, Refresh, Fan, FanDone, Catch, Throw,
         Return, Fails, FailsOutside, CatchFails
<1>3. ASSUME Works(d, k), EffectInv(d)', FollowInv(d)'
      PROVE  Only(d) /\ DInv(d)'
  BY <1>2, <1>3, WorksInv DEF Works, DInv
<1> USE DEF Only, Same, Works, DInv, EffectInv, FollowInv, At
\* Places a handler goes to without a write of its own.
<1>4. ASSUME NEW pc \in {"resolve", "return", "throw", "fetch", "apply"},
             exec'[d][k].pc = pc,
             exec[d][k].pc \notin {"mark", "bump", "refresh", "catch"},
             exec[d][k].pc = "fan" => exec[d][k].todo = {},
             \A d1 \in Deliveries, k1 \in Attempts :
               d1 # d \/ k1 # k => exec'[d1][k1] = exec[d1][k1],
             UNCHANGED <<outside, log, job, data, installed, cut>>
      PROVE  Only(d) /\ DInv(d)'
  BY <1>1, <1>3, <1>4
<1>5. CASE Read(d, k)
  <2>1. PICK pc \in {"resolve", "return"} : Goes(d, k, pc)
    BY <1>5 DEF Read
  <2>2. pc \in Places
    BY DEF Places
  <2> QED BY <1>1, <1>4, <1>5, <2>1, <2>2, GoesCall DEF Read
<1>6. CASE Resolve(d, k)
  <2>1. CASE installed
    <3> DEFINE c == [pc |-> IF sent[d].topic = "refetch" THEN "fetch" ELSE "apply",
                     ver |-> sent[d].ver, todo |-> {}]
    <3>1. c \in Call /\ c.pc \in {"fetch", "apply"}
      BY <1>1 DEF TypeOK, Call, Places
    <3>2. Becomes(d, k, c)
      BY <1>6, <2>1 DEF Resolve
    <3> HIDE DEF c
    <3> QED BY <1>1, <1>4, <1>6, <3>1, <3>2, BecomesCall DEF Resolve
  <2>2. CASE ~installed
    <3>1. Goes(d, k, "throw") /\ "throw" \in Places
      BY <1>6, <2>2 DEF Resolve, Places
    <3> QED BY <1>1, <1>4, <1>6, <3>1, GoesCall DEF Resolve
  <2> QED BY <2>1, <2>2
<1>7. CASE Fetch(d, k)
  <2> DEFINE c == [exec[d][k] EXCEPT !.pc = "apply", !.ver = shop]
  <2>1. c \in Call /\ c.pc = "apply"
    BY <1>1 DEF TypeOK, Call, Places
  <2>2. Becomes(d, k, c)
    BY <1>7 DEF Fetch
  <2> HIDE DEF c
  <2> QED BY <1>1, <1>4, <1>7, <2>1, <2>2, BecomesCall DEF Fetch
<1>8. CASE FanDone(d, k)
  <2>1. Goes(d, k, "return") /\ "return" \in Places
    BY <1>8 DEF FanDone, Places
  <2> QED BY <1>1, <1>4, <1>8, <2>1, GoesCall DEF FanDone
<1>9. CASE Apply(d, k)
  <2>1. Goes(d, k, "mark") /\ "mark" \in Places
    BY <1>9 DEF Apply, Places
  <2> QED BY <1>1, <1>3, <1>9, <2>1, GoesCall DEF Apply
<1>10. CASE Mark(d, k)
  <2>1. Goes(d, k, "bump") /\ "bump" \in Places
    BY <1>10 DEF Mark, Places
  <2>2. log'[d] = "PROCESSED" /\ \A d1 \in Deliveries : d1 # d => log'[d1] = log[d1]
    BY <1>1, <1>10 DEF Mark, TypeOK
  <2> QED BY <1>1, <1>3, <1>10, <2>1, <2>2, GoesCall DEF Mark
<1>11. CASE Bump(d, k)
  <2>1. Goes(d, k, "refresh") /\ "refresh" \in Places
    BY <1>11 DEF Bump, Places
  <2> QED BY <1>1, <1>3, <1>11, <2>1, GoesCall DEF Bump
<1>12. CASE Refresh(d, k)
  <2> DEFINE c == [exec[d][k] EXCEPT !.pc = "fan", !.todo = Listeners]
  <2>1. c \in Call /\ c.pc = "fan" /\ c.todo = Listeners
    BY <1>1 DEF Call, Places
  <2>2. Becomes(d, k, c)
    BY <1>12 DEF Refresh
  <2> HIDE DEF c
  <2> QED BY <1>1, <1>3, <1>12, <2>1, <2>2, BecomesCall DEF Refresh
<1>13. ASSUME NEW w \in Listeners, Fan(d, k, w)
       PROVE  Only(d) /\ DInv(d)'
  <2> DEFINE c == [exec[d][k] EXCEPT !.todo = exec[d][k].todo \ {w}]
  <2>1. c \in Call /\ c.pc = "fan"
    BY <1>1, <1>13 DEF Fan, Call
  <2>2. Becomes(d, k, c)
    BY <1>13 DEF Fan
  <2>3. event'[d] # NoWorkflow /\ \A d1 \in Deliveries : d1 # d => event'[d1] = event[d1]
    BY <1>1, <1>13, ListenersAssumption DEF Fan, TypeOK
  <2> HIDE DEF c
  <2> QED BY <1>1, <1>3, <1>13, <2>1, <2>2, <2>3, BecomesCall DEF Fan
<1>14. CASE Fails(d, k)
  <2>1. Goes(d, k, "catch") /\ "catch" \in Places
    BY <1>14 DEF Fails, Places
  <2> QED BY <1>1, <1>3, <1>14, <2>1, GoesCall DEF Fails
<1>15. CASE Catch(d, k)
  <2>1. Goes(d, k, "throw") /\ "throw" \in Places
    BY <1>15 DEF Catch, Places
  <2>2. /\ log'[d] \in {"RECEIVED", "FAILED"}
        /\ \A d1 \in Deliveries : d1 # d => log'[d1] = log[d1]
    BY <1>1, <1>15 DEF Catch, TypeOK
  <2> QED BY <1>1, <1>3, <1>15, <2>1, <2>2, GoesCall DEF Catch
<1>16. CASE CatchFails(d, k)
  <2>1. Goes(d, k, "throw") /\ "throw" \in Places
    BY <1>16 DEF CatchFails, Places
  <2> QED BY <1>1, <1>3, <1>16, <2>1, GoesCall DEF CatchFails
<1>17. CASE FailsOutside(d, k)
  <2>1. Goes(d, k, "throw") /\ "throw" \in Places
    BY <1>17 DEF FailsOutside, Places
  <2> QED BY <1>1, <1>4, <1>17, <2>1, GoesCall DEF FailsOutside
\* A handler that ends: the queue may move on, and gives up on this attempt.
<1>18. ASSUME Becomes(d, k, Gone),
              exec[d][k].pc \in {"throw", "return"},
              \A d1 \in Deliveries : d1 # d => job'[d1] = job[d1],
              \/ job'[d] = job[d]
              \/ job'[d].n = k /\ job'[d].st \in {"completed", "dead"}
              \/ job'[d].n = k + 1 /\ job'[d].st = "ready",
              job'[d] # job[d] => job[d].n = k,
              UNCHANGED <<outside, log, data, installed, cut>>
       PROVE  Only(d) /\ DInv(d)'
  <2>1. /\ exec'[d][k].pc = "gone" /\ k \in Nat
        /\ \A d1 \in Deliveries, k1 \in Attempts :
             d1 # d \/ k1 # k => exec'[d1][k1] = exec[d1][k1]
    BY <1>1, <1>18, BecomesCall, GoneType DEF Gone, Attempts
  <2>2. req[d] = "done"
    BY <1>1, <1>2 DEF IntakeInv, QueueInv, TypeOK
  <2>3. QueueInv(d)'
    <3> SUFFICES ASSUME NEW k1 \in Attempts, exec'[d][k1].pc # "gone"
                 PROVE  /\ job'[d].st # "none"
                        /\ k1 < job'[d].n \/ (k1 = job'[d].n /\ job'[d].st # "ready")
      BY DEF QueueInv
    <3>1. k1 # k /\ exec[d][k1].pc # "gone" /\ k1 \in Nat
      BY <2>1 DEF Attempts
    <3> QED BY <1>1, <1>18, <2>1, <3>1 DEF QueueInv
  <2>4. IntakeInv(d)'
    BY <1>1, <1>18, <2>2 DEF IntakeInv
  <2>5. EffectInv(d)'
    BY <1>1, <1>18, <2>1
  <2>6. FollowInv(d)'
    BY <1>1, <1>18, <2>1
  <2> QED BY <1>18, <2>1, <2>3, <2>4, <2>5, <2>6
<1>19. CASE Throw(d, k)
  BY <1>1, <1>18, <1>19, RescheduledType DEF Throw, Current
<1>20. CASE Return(d, k)
  <2>1. \/ job' = job
        \/ Current(d, k) /\ job' = [job EXCEPT ![d].st = "completed"]
    BY <1>20 DEF Return
  <2> QED BY <1>1, <1>18, <1>20, <2>1, JobStatus DEF Return, Current
<1> QED BY <1>5, <1>6, <1>7, <1>8, <1>9, <1>10, <1>11, <1>12, <1>13, <1>14, <1>15, <1>16,
           <1>17, <1>19, <1>20 DEF Step

\* Every step keeps the invariant.
LEMMA IInvNext == IInv /\ [Next]_vars => IInv'
<1> SUFFICES ASSUME IInv, [Next]_vars PROVE IInv'
  OBVIOUS
<1>1. TypeOK'
  BY TypeNext DEF IInv
<1>2. CASE Uninstall \/ Reinstall \/ UNCHANGED vars
  <2>1. \A d \in Deliveries : Same(d)
    BY <1>2 DEF Uninstall, Reinstall, vars, Same, outside, data, follow
  <2> QED BY <1>1, <2>1, SameInv DEF IInv
<1>3. ASSUME NEW d \in Deliveries, Deliver(d)
      PROVE  IInv'
  <2>1. 1 \in Attempts
    BY BoundsAssumption DEF Attempts
  <2> QED BY <1>1, <1>3, <2>1, QueueStep, OnlyInv
<1>4. ASSUME NEW d \in Deliveries, (\E topic \in Topics : Change(d, topic)) \/ Intake(d)
      PROVE  IInv'
  BY <1>1, <1>4, IntakeStep, OnlyInv
<1>5. ASSUME NEW d \in Deliveries, NEW k \in Attempts, Step(d, k)
      PROVE  IInv'
  BY <1>1, <1>5, HandlerStep, OnlyInv
<1>6. ASSUME NEW d \in Deliveries, Fault(d)
      PROVE  IInv'
  BY <1>1, <1>6, IntakeStep, QueueStep, HandlerStep, OnlyInv DEF Fault
<1> QED BY <1>2, <1>3, <1>4, <1>5, <1>6 DEF Next

\* The invariant holds in every reachable state of the webhook pipeline.
THEOREM Invariance == Spec => []IInv
<1>1. Init => IInv
  BY InitInv
<1>2. IInv /\ [Next]_vars => IInv'
  BY IInvNext
<1> QED BY <1>1, <1>2, PTL DEF Spec

\* A durable row says PROCESSED only once its effect has been written.
THEOREM EffectBeforeMark == Spec => []ProcessedIsApplied
<1>1. IInv => ProcessedIsApplied
  BY DEF IInv, DInv, EffectInv, ProcessedIsApplied
<1> QED BY <1>1, Invariance, PTL

\* A processed delivery nobody works on has been followed up, unless one of
\* its handlers ended without its catch block.
THEOREM FollowUpComplete == Spec => []FollowedUp
<1>1. IInv => FollowedUp
  <2> SUFFICES ASSUME IInv, NEW d \in Deliveries, log[d] = "PROCESSED",
                      sent[d].topic # "checkout", Idle(d), d \notin cut
               PROVE  /\ d \notin dirty
                      /\ d \in refreshed
                      /\ Listeners # {} => event[d] # NoWorkflow
    BY DEF FollowedUp
  <2>1. FollowInv(d)
    BY DEF IInv, DInv
  <2> QED BY <2>1 DEF FollowInv, Idle, At
<1> QED BY <1>1, Invariance, PTL

(* ------------------------------- Subscription ----------------------------- *)

RowType  == [st : Statuses, charge : Charges \cup {NoCharge}, trial : Dates,
             grace : Dates, period : Dates, age : 0 .. Limit + 1]
RequestType == [pc : Steps, to : Statuses, charge : Charges \cup {NoCharge},
                trial : Dates, grace : Dates, period : Dates, stale : BOOLEAN]

\* A row that waits for a decision knows its charge, and its grace runs from a
\* trial end that was granted.
Waiting(grace, charge) ==
  charge # NoCharge /\ grace # Null /\ grace <= promise + Grace

\* What a call has in hand is well typed; its trial end was granted; what it
\* will write opens no decision but a proper one, and activates only if the
\* merchant has accepted.
Sound(w) ==
  /\ w \in RequestType
  /\ w.pc = "create" => w.trial # Null /\ w.trial <= promise
  /\ w.pc \in {"live", "cancel", "drift"} => w.charge # NoCharge
  /\ w.pc \in {"transition", "live"} => w.to \notin {"ACTIVE", "CHARGE_PENDING"}
  /\ w.pc = "write" /\ w.to = "CHARGE_PENDING" => Waiting(w.grace, w.charge)
  /\ w.pc = "write" /\ (w.to = "ACTIVE" \/ w.period # Null) => accepted

\* The same of the row and of the charges.
RowSound ==
  /\ sub \in RowType
  /\ sub.trial # Null /\ sub.trial <= promise
  /\ sub.st = "CHARGE_PENDING" => Waiting(sub.grace, sub.charge)
  /\ PaidByAcceptance

ShopSound ==
  /\ charges \in [Charges -> {"NONE", "CREATED", "PENDING", "ACTIVE", "OVER"}]
  /\ accepted \in BOOLEAN /\ promise \in Dates /\ failures \in Nat
  /\ \A c \in Charges : charges[c] = "ACTIVE" => accepted

PaidInv == /\ RowSound /\ ShopSound
           /\ call \in [Callers -> RequestType] /\ \A a \in Callers : Sound(call[a])

\* The invariant is at least the type invariant.
LEMMA InvType == PaidInv => SubTypeOK
  BY DEF PaidInv, RowSound, ShopSound, Sound, SubTypeOK, RowType, RequestType

\* Installation leaves a sound row and no call.
LEMMA PaidInit == SubInit => PaidInv
<1> SUFFICES ASSUME SubInit PROVE PaidInv
  OBVIOUS
<1>1. TrialDays \in Dates /\ Null \in Dates /\ TrialDays # Null
  BY DaysAssumption DEF Dates, Null
<1>2. RowSound
  <2>1. sub \in RowType
    BY <1>1, DaysAssumption DEF SubInit, Row, RowType, Statuses
  <2> QED BY <1>1, <2>1, DaysAssumption DEF SubInit, Row, RowSound, PaidByAcceptance, Dates
<1>3. ShopSound
  BY <1>1 DEF SubInit, ShopSound
<1>4. Sound(NoCall) /\ NoCall \in RequestType
  BY <1>1 DEF Sound, RequestType, NoCall, Does, Reads, Steps, Statuses
<1> QED BY <1>2, <1>3, <1>4 DEF SubInit, PaidInv

\* One caller moves, to something sound, and leaves the row and the charges
\* sound: a granted trial end and an acceptance are not taken back.
LEMMA MovesInv ==
  ASSUME PaidInv, NEW a \in Callers, NEW next, CallGoes(a, next), RowSound', ShopSound',
         promise <= promise', accepted => accepted', Sound(next)'
  PROVE  PaidInv'
<1>1. next \in RequestType
  BY DEF Sound, RequestType
<1>2. call' \in [Callers -> RequestType]
  BY <1>1 DEF CallGoes, PaidInv
<1>3. promise \in Dates /\ promise' \in Dates
  BY DEF PaidInv, ShopSound
<1>4. ASSUME NEW b \in Callers PROVE Sound(call[b])'
  <2>1. CASE b = a
    BY <2>1 DEF CallGoes, PaidInv, Sound, RequestType, Waiting
  <2>2. CASE b # a
    <3>1. call'[b] = call[b] /\ Sound(call[b])
      BY <2>2 DEF CallGoes, PaidInv
    <3> QED BY <3>1, <1>3, DaysAssumption DEF Sound, Waiting, RequestType, Dates, Null
  <2> QED BY <2>1, <2>2
<1> QED BY <1>2, <1>4 DEF PaidInv, RequestType

\* The same for a call that only reads, or speaks to Shopify.
LEMMA ReadsInv ==
  ASSUME PaidInv, NEW a \in Callers, NEW next, CallGoes(a, next), Sound(next),
         UNCHANGED <<sub, accepted, promise>>, ShopSound'
  PROVE  PaidInv'
<1>1. promise \in Int
  BY DEF PaidInv, ShopSound, Dates
<1>2. RowSound'
  BY DEF PaidInv, RowSound, RowType, PaidByAcceptance, Waiting
<1>3. Sound(next)'
  BY DEF Sound, RequestType, Waiting
<1> QED BY <1>1, <1>2, <1>3, MovesInv

\* A plan to write a status that needs neither charge nor acceptance.
LEMMA PlainSound ==
  ASSUME PaidInv, NEW pc \in Steps, NEW to \in Statuses \ {"ACTIVE", "CHARGE_PENDING"},
         NEW trial \in Dates, NEW grace \in Dates,
         pc \in {"idle", "resolve", "giveUp", "transition", "write"}
  PROVE  Sound(Does(pc, to, NoCharge, trial, grace, Null))
<1>1. Null \in Dates
  BY DaysAssumption DEF Null, Dates
<1> QED BY <1>1 DEF Does, Reads, Sound, RequestType

\* A day: every date keeps its order to the others.
LEMMA EarlierMonotone ==
  ASSUME NEW d \in Dates, NEW e \in Dates
  PROVE  /\ Earlier(d) \in Dates
         /\ d # Null <=> Earlier(d) # Null
         /\ d <= e => Earlier(d) <= Earlier(e)
         /\ d <= e + Grace => Earlier(d) <= Earlier(e) + Grace
  BY DaysAssumption DEF Earlier, Dates, Null

\* A day brings every date and the promise closer alike.
LEMMA DayInv == PaidInv /\ Day => PaidInv'
<1> SUFFICES ASSUME PaidInv, Day PROVE PaidInv'
  OBVIOUS
<1>1. promise \in Dates /\ promise' = Earlier(promise) /\ promise' \in Dates
  BY EarlierMonotone DEF PaidInv, ShopSound, Day
<1>2. ShopSound'
  BY <1>1 DEF PaidInv, ShopSound, Day
<1>3. RowSound'
  <2>1. /\ sub \in RowType /\ sub' = Row(sub.st, sub.charge, Earlier(sub.trial),
                Earlier(sub.grace), Earlier(sub.period),
                IF sub.age <= Limit THEN sub.age + 1 ELSE sub.age)
    BY DEF PaidInv, RowSound, Day
  <2>2. /\ sub.trial \in Dates /\ sub.grace \in Dates /\ sub.period \in Dates
        /\ sub.st \in Statuses /\ sub.charge \in Charges \cup {NoCharge} /\ sub.age \in 0 .. Limit + 1
    BY <2>1 DEF RowType
  <2>3. (IF sub.age <= Limit THEN sub.age + 1 ELSE sub.age) \in 0 .. Limit + 1
    BY <2>2, DaysAssumption
  <2>4. sub' \in RowType
    BY <2>1, <2>2, <2>3, EarlierMonotone DEF Row, RowType
  <2>5. sub'.trial # Null /\ sub'.trial <= promise'
    BY <2>1, <2>2, <1>1, EarlierMonotone DEF Row, PaidInv, RowSound
  <2>6. sub'.st = "CHARGE_PENDING" => Waiting(sub.grace, sub.charge)'
    BY <2>1, <2>2, <1>1, EarlierMonotone DEF Row, PaidInv, RowSound, Waiting
  <2>7. PaidByAcceptance'
    BY <2>1, <2>2, EarlierMonotone DEF Row, PaidInv, RowSound, PaidByAcceptance, Day
  <2> QED BY <2>4, <2>5, <2>6, <2>7 DEF RowSound
<1>4. ASSUME NEW a \in Callers PROVE call'[a] \in RequestType /\ Sound(call[a])'
  <2>1. /\ call[a] \in RequestType /\ Sound(call[a])
        /\ call'[a] = Reads(call[a].pc, call[a].to, call[a].charge, Earlier(call[a].trial),
                            Earlier(call[a].grace), Earlier(call[a].period), call[a].stale)
    BY DEF PaidInv, Day
  <2>2. /\ call[a].trial \in Dates /\ call[a].grace \in Dates /\ call[a].period \in Dates
        /\ call[a].pc \in Steps /\ call[a].to \in Statuses
        /\ call[a].charge \in Charges \cup {NoCharge} /\ call[a].stale \in BOOLEAN
    BY <2>1 DEF RequestType
  <2>3. call'[a] \in RequestType
    BY <2>1, <2>2, EarlierMonotone DEF Reads, RequestType
  <2>4. call'[a].pc = "create" => call'[a].trial # Null /\ call'[a].trial <= promise'
    BY <2>1, <2>2, <1>1, EarlierMonotone DEF Reads, Sound
  <2>5. call'[a].pc = "write" /\ call'[a].to = "CHARGE_PENDING"
          => Waiting(call[a].grace, call[a].charge)'
    BY <2>1, <2>2, <1>1, EarlierMonotone DEF Reads, Sound, Waiting
  <2>6. call'[a].pc = "write" /\ (call'[a].to = "ACTIVE" \/ call'[a].period # Null) => accepted'
    BY <2>1, <2>2, EarlierMonotone DEF Reads, Sound, Day
  <2>7. /\ call'[a].pc \in {"live", "cancel", "drift"} => call'[a].charge # NoCharge
        /\ call'[a].pc \in {"transition", "live"} => call'[a].to \notin {"ACTIVE", "CHARGE_PENDING"}
    BY <2>1 DEF Reads, Sound
  <2> QED BY <2>3, <2>4, <2>5, <2>6, <2>7 DEF Sound
<1>5. call' \in [Callers -> RequestType]
  BY <1>4 DEF Day
<1> QED BY <1>2, <1>3, <1>4, <1>5 DEF PaidInv, RequestType

\* Shopify's side: an acceptance is recorded, other decisions only end charges.
LEMMA DecisionsInv ==
  ASSUME PaidInv, NEW c \in Charges, Accept(c) \/ Decline(c) \/ Revoke(c)
  PROVE  PaidInv'
<1>1. accepted' \in BOOLEAN /\ (accepted => accepted') /\ UNCHANGED <<sub, promise, call, failures>>
  BY DEF PaidInv, ShopSound, Accept, Decline, Revoke
<1>2. ShopSound'
  BY <1>1 DEF PaidInv, ShopSound, Accept, Decline, Revoke
<1>3. RowSound'
  BY <1>1 DEF PaidInv, RowSound, RowType, PaidByAcceptance, Waiting
<1>4. ASSUME NEW a \in Callers PROVE Sound(call[a])'
  BY <1>1 DEF PaidInv, Sound, RequestType, Waiting
<1> QED BY <1>1, <1>2, <1>3, <1>4 DEF PaidInv, RequestType

\* What is written was sound in hand, and is sound in the row.
LEMMA CommitInv ==
  ASSUME PaidInv, NEW a \in Callers, Commit(a)
  PROVE  PaidInv'
<1> DEFINE w == call[a]
<1>1. /\ Sound(w) /\ w.pc = "write" /\ w.to \in Statuses
      /\ w.charge \in Charges \cup {NoCharge}
      /\ w.trial \in Dates /\ w.grace \in Dates /\ w.period \in Dates
  BY DEF PaidInv, Sound, RequestType, Commit
<1>2. /\ sub.charge \in Charges \cup {NoCharge} /\ sub.trial \in Dates /\ sub.trial # Null
      /\ sub.grace \in Dates /\ sub.period \in Dates /\ sub.trial <= promise
      /\ promise \in Dates /\ Null \in Dates
  BY DaysAssumption DEF PaidInv, RowSound, RowType, ShopSound, Null, Dates
<1>3. promise' \in Dates /\ promise <= promise' /\ accepted' = accepted
  BY <1>1, <1>2 DEF Commit, Dates
<1>4. sub' = Row(w.to, IF w.charge = NoCharge THEN sub.charge ELSE w.charge,
                 Set(w.trial, sub.trial), Set(w.grace, sub.grace),
                 Set(w.period, sub.period), 0)
  BY DEF Commit
<1>5. RowSound'
  <2>1. sub' \in RowType
    BY <1>1, <1>2, <1>4, DaysAssumption DEF Row, RowType, Set
  <2>2. sub'.trial # Null /\ sub'.trial <= promise'
    BY <1>1, <1>2, <1>3, <1>4 DEF Row, Set, Commit, Dates
  <2>3. sub'.st = "CHARGE_PENDING" => Waiting(sub.grace, sub.charge)'
    <3>1. promise <= promise' /\ promise \in Int /\ promise' \in Int /\ Grace \in Int
          /\ w.grace \in Int
      BY <1>1, <1>2, <1>3, DaysAssumption DEF Dates
    <3>2. w.to = "CHARGE_PENDING" => /\ w.charge # NoCharge /\ w.grace # Null
                                     /\ w.grace <= promise + Grace
      BY <1>1 DEF Sound, Waiting
    <3> QED BY <1>4, <3>1, <3>2 DEF Row, Set, Waiting
  <2>4. PaidByAcceptance'
    BY <1>1, <1>3, <1>4 DEF Row, Set, Sound, PaidByAcceptance, PaidInv, RowSound
  <2> QED BY <2>1, <2>2, <2>3, <2>4 DEF RowSound
<1>6. ShopSound'
  BY <1>1, <1>3 DEF Commit, PaidInv, ShopSound
<1>7. Sound(NoCall)'
  BY <1>2 DEF Sound, RequestType, NoCall, Does, Reads, Steps, Statuses
<1> QED BY <1>3, <1>5, <1>6, <1>7, MovesInv DEF Commit

\* Requests: what they take in hand is sound.
LEMMA RequestInv ==
  ASSUME PaidInv, NEW a \in Callers, Request(a)
  PROVE  PaidInv'
<1>1. /\ sub.st \in Statuses /\ sub.charge \in Charges \cup {NoCharge}
      /\ sub.trial \in Dates /\ sub.trial # Null /\ sub.trial <= promise
      /\ Null \in Dates /\ promise \in Int
  BY DaysAssumption DEF PaidInv, RowSound, RowType, ShopSound, Null, Dates
<1>2. ASSUME UNCHANGED <<charges, accepted, promise, failures>> PROVE ShopSound'
  BY <1>2 DEF PaidInv, ShopSound
<1>3. ASSUME NEW days \in 1 .. MaxTrial, ExtendTrial(a, days)
      PROVE  PaidInv'
  <2> DEFINE end == IF sub.st = "TRIALING" /\ Future(sub.trial) THEN sub.trial + days ELSE days
  <2>1. end \in Dates
    BY <1>1, DaysAssumption DEF Dates, Null, Future
  <2>2. Sound(Does("write", "TRIALING", NoCharge, end, Null, Null))
    BY <1>1, <2>1, PlainSound DEF Steps, Statuses
  <2>3. CallGoes(a, Does("write", "TRIALING", NoCharge, end, Null, Null))
    BY <1>3 DEF ExtendTrial
  <2> HIDE DEF end
  <2> QED BY <1>2, <1>3, <2>2, <2>3, ReadsInv DEF ExtendTrial
<1>4. CASE Subscribe(a)
  <2>1. Sound(Does("create", "CHARGE_PENDING", NoCharge, sub.trial, Null, Null))
    BY <1>1 DEF Sound, RequestType, Does, Reads, Steps, Statuses
  <2> QED BY <1>2, <1>4, <2>1, ReadsInv DEF Subscribe
<1>5. CASE Cancel(a)
  <2>1. Sound(Does("cancel", "CANCELLED", sub.charge, Null, Null, Null))
    BY <1>1, <1>5 DEF Sound, RequestType, Does, Reads, Steps, Statuses, Cancel
  <2> QED BY <1>2, <1>5, <2>1, ReadsInv DEF Cancel
<1>6. CASE Callback(a)
  <2>1. Sound(Does("resolve", "TRIALING", NoCharge, Null, Null, Null))
    BY <1>1, PlainSound DEF Steps, Statuses
  <2> QED BY <1>2, <1>6, <2>1, ReadsInv DEF Callback
<1> QED BY <1>3, <1>4, <1>5, <1>6 DEF Request

\* The daily jobs: the same.
LEMMA TickInv ==
  ASSUME PaidInv, NEW a \in Callers, Tick(a)
  PROVE  PaidInv'
<1>1. /\ Null \in Dates /\ Grace \in Dates /\ sub.charge \in Charges \cup {NoCharge}
      /\ sub.age \in Int /\ Limit \in Int
  BY DaysAssumption DEF Null, Dates, PaidInv, RowSound, RowType
<1>2. ASSUME UNCHANGED <<charges, accepted, promise, failures>> PROVE ShopSound'
  BY <1>2 DEF PaidInv, ShopSound
<1>3. CASE ReconcilePending(a)
  <2>1. (sub.age > Limit) \in BOOLEAN
    BY <1>1
  <2>2. Sound(Reads("resolve", "TRIALING", NoCharge, Null, Null, Null, sub.age > Limit))
    BY <1>1, <2>1 DEF Sound, RequestType, Reads, Steps, Statuses
  <2> QED BY <1>2, <1>3, <2>2, ReadsInv DEF ReconcilePending
<1>4. CASE ReconcileActive(a)
  <2>1. Sound(Does("drift", "CANCELLED", sub.charge, Null, Null, Null))
    BY <1>1, <1>4 DEF Sound, RequestType, Does, Reads, Steps, Statuses, ReconcileActive
  <2> QED BY <1>2, <1>4, <2>1, ReadsInv DEF ReconcileActive
<1>5. CASE ExpireTrial(a)
  <2>1. Sound(Does("transition", "TRIAL_EXPIRED", NoCharge, Null, Grace, Null))
    BY <1>1, PlainSound DEF Steps, Statuses
  <2> QED BY <1>2, <1>5, <2>1, ReadsInv DEF ExpireTrial
<1>6. CASE Suspend(a)
  <2>1. Sound(Does("transition", "SUSPENDED", NoCharge, Null, Null, Null))
    BY <1>1, PlainSound DEF Steps, Statuses
  <2> QED BY <1>2, <1>6, <2>1, ReadsInv DEF Suspend
<1> QED BY <1>3, <1>4, <1>5, <1>6 DEF Tick

\* The steps between a call's first read and its write.
LEMMA ContinueInv ==
  ASSUME PaidInv, NEW a \in Callers, Continue(a)
  PROVE  PaidInv'
<1>1. /\ Null \in Dates /\ Grace \in Dates /\ Grace \in Int /\ promise \in Int
      /\ sub.charge \in Charges \cup {NoCharge} /\ sub.st \in Statuses
      /\ sub.trial \in Dates /\ sub.trial # Null /\ sub.grace \in Dates
      /\ sub.st = "CHARGE_PENDING" => Waiting(sub.grace, sub.charge)
  BY DaysAssumption DEF Null, Dates, PaidInv, RowSound, RowType, ShopSound
<1>2. /\ Sound(call[a]) /\ call[a].charge \in Charges \cup {NoCharge}
      /\ call[a].trial \in Dates /\ call[a].grace \in Dates /\ call[a].period \in Dates
      /\ call[a].to \in Statuses /\ call[a].stale \in BOOLEAN
  BY DEF PaidInv, Sound, RequestType
<1>3. ASSUME UNCHANGED <<charges, accepted, promise, failures>> PROVE ShopSound'
  BY <1>3 DEF PaidInv, ShopSound
<1>4. Sound(NoCall)
  BY <1>1, PlainSound DEF NoCall, Steps, Statuses
<1>5. Fallback(sub) \in Statuses \ {"ACTIVE", "CHARGE_PENDING"}
  BY DEF Fallback, Statuses
<1>6. ASSUME NEW c \in Charges, CreateCharge(a, c) PROVE PaidInv'
  <2>1. ShopSound'
    BY <1>6 DEF CreateCharge, PaidInv, ShopSound
  <2>2. call[a].trial # Null /\ call[a].trial <= promise /\ call[a].trial \in Int
    BY <1>2, <1>6 DEF CreateCharge, Sound, Dates
  <2>3. call[a].trial + Grace \in Dates /\ Waiting(call[a].trial + Grace, c)
    BY <1>1, <1>2, <2>2, DaysAssumption, ChargeAssumption DEF Waiting, Dates, Null
  <2>4. Sound(Does("write", "CHARGE_PENDING", c, Null, call[a].trial + Grace, Null))
    BY <1>1, <2>3 DEF Sound, RequestType, Does, Reads, Steps, Statuses
  <2> QED BY <1>6, <2>1, <2>4, ReadsInv DEF CreateCharge
<1>7. CASE CancelCharge(a)
  <2>1. call[a].charge \in Charges
    BY <1>2, <1>7 DEF CancelCharge, Sound
  <2>2. ShopSound'
    BY <1>7, <2>1 DEF CancelCharge, PaidInv, ShopSound
  <2>3. Sound(Does("write", "CANCELLED", NoCharge, Null, Null, Null))
    BY <1>1, PlainSound DEF Steps, Statuses
  <2>4. CASE CallGoes(a, NoCall)
    BY <1>4, <1>7, <2>2, <2>4, ReadsInv DEF CancelCharge
  <2>5. CASE CallGoes(a, Does("write", "CANCELLED", NoCharge, Null, Null, Null))
    BY <1>7, <2>2, <2>3, <2>5, ReadsInv DEF CancelCharge
  <2> QED BY <1>7, <2>4, <2>5 DEF CancelCharge
<1>8. CASE ResolveCharge(a)
  <2>1. PaidUntil(sub) \in Dates
    BY <1>1, DaysAssumption DEF PaidUntil, Future, Dates, Null
  <2>2. CASE sub.st = "CHARGE_PENDING"
    <3>1. Sound(Reads("live", Fallback(sub), sub.charge, Null, Null, PaidUntil(sub),
                      call[a].stale))
      BY <1>1, <1>2, <1>5, <2>1, <2>2 DEF Sound, RequestType, Reads, Steps, Waiting
    <3>2. CallGoes(a, Reads("live", Fallback(sub), sub.charge, Null, Null, PaidUntil(sub),
                            call[a].stale))
      BY <1>8, <2>2 DEF ResolveCharge
    <3> QED BY <1>3, <1>8, <3>1, <3>2, ReadsInv DEF ResolveCharge
  <2>3. CASE sub.st # "CHARGE_PENDING"
    <3>1. CallGoes(a, NoCall)
      BY <1>8, <2>3 DEF ResolveCharge
    <3> QED BY <1>3, <1>4, <1>8, <3>1, ReadsInv DEF ResolveCharge
  <2> QED BY <2>2, <2>3
<1>9. CASE Settle(a)
  <2>1. call[a].charge \in Charges /\ call[a].to \notin {"ACTIVE", "CHARGE_PENDING"}
    BY <1>2, <1>9 DEF Settle, Sound
  <2>2. charges[call[a].charge] = "ACTIVE" =>
             Sound(Does("write", "ACTIVE", NoCharge, Null, Null, call[a].period))
    <3>1. charges[call[a].charge] = "ACTIVE" => accepted
      BY <2>1 DEF PaidInv, ShopSound
    <3> QED BY <1>1, <1>2, <3>1 DEF Sound, RequestType, Does, Reads, Steps, Statuses
  <2>3. Sound(Does("giveUp", "TRIALING", NoCharge, Null, Null, Null))
    BY <1>1, PlainSound DEF Steps, Statuses
  <2>4. Sound(Does("write", call[a].to, NoCharge, Null, Null, Null))
    BY <1>1, <1>2, <2>1, PlainSound DEF Steps
  <2>5. \/ /\ charges[call[a].charge] = "ACTIVE"
           /\ CallGoes(a, Does("write", "ACTIVE", NoCharge, Null, Null, call[a].period))
        \/ CallGoes(a, Does("giveUp", "TRIALING", NoCharge, Null, Null, Null))
        \/ CallGoes(a, NoCall)
        \/ CallGoes(a, Does("write", call[a].to, NoCharge, Null, Null, Null))
    BY <1>9 DEF Settle
  <2>6. UNCHANGED <<sub, charges, accepted, promise, failures>>
    BY <1>9 DEF Settle
  <2> QED BY <1>3, <1>4, <2>2, <2>3, <2>4, <2>5, <2>6, ReadsInv
<1>10. CASE GiveUp(a)
  <2>1. Sound(Does("transition", Fallback(sub), NoCharge, Null, Null, Null))
    BY <1>1, <1>5, PlainSound DEF Steps
  <2>2. \/ CallGoes(a, NoCall)
        \/ CallGoes(a, Does("transition", Fallback(sub), NoCharge, Null, Null, Null))
    BY <1>10 DEF GiveUp
  <2> QED BY <1>3, <1>4, <1>10, <2>1, <2>2, ReadsInv DEF GiveUp
<1>11. CASE Drift(a)
  <2>1. Sound(Does("transition", "CANCELLED", NoCharge, Null, Null, Null))
    BY <1>1, PlainSound DEF Steps, Statuses
  <2>2. CallGoes(a, NoCall) \/ CallGoes(a, Does("transition", "CANCELLED", NoCharge, Null, Null, Null))
    BY <1>11 DEF Drift
  <2> QED BY <1>3, <1>4, <1>11, <2>1, <2>2, ReadsInv DEF Drift
<1>12. CASE Transition(a)
  <2>1. call[a].to \notin {"ACTIVE", "CHARGE_PENDING"}
    BY <1>2, <1>12 DEF Transition, Sound
  <2>2. Sound(Does("write", call[a].to, NoCharge, Null, call[a].grace, Null))
    BY <1>1, <1>2, <2>1, PlainSound DEF Steps
  <2>3. \/ CallGoes(a, NoCall)
        \/ CallGoes(a, Does("write", call[a].to, NoCharge, Null, call[a].grace, Null))
    BY <1>12 DEF Transition
  <2> QED BY <1>3, <1>4, <1>12, <2>2, <2>3, ReadsInv DEF Transition
<1>13. CASE Commit(a)
  BY <1>13, CommitInv
<1> QED BY <1>6, <1>7, <1>8, <1>9, <1>10, <1>11, <1>12, <1>13 DEF Continue

\* A lost call leaves nothing in hand.
LEMMA DiesInv ==
  ASSUME PaidInv, NEW a \in Callers, Dies(a)
  PROVE  PaidInv'
<1>1. Null \in Dates
  BY DaysAssumption DEF Null, Dates
<1>2. Sound(NoCall)
  BY <1>1, PlainSound DEF NoCall, Steps, Statuses
<1>3. ShopSound'
  BY DEF Dies, PaidInv, ShopSound
<1> QED BY <1>2, <1>3, ReadsInv DEF Dies

\* Every step keeps the invariant.
LEMMA StepInv == PaidInv /\ [SubNext]_subVars => PaidInv'
<1> SUFFICES ASSUME PaidInv, [SubNext]_subVars PROVE PaidInv'
  OBVIOUS
<1>1. CASE UNCHANGED subVars
  BY <1>1 DEF subVars, PaidInv, RowSound, ShopSound, Sound, Waiting, RowType, RequestType, PaidByAcceptance
<1>2. CASE SubNext
  <2>1. Members \subseteq Callers /\ Ticks \subseteq Callers
    BY DEF Callers
  <2> QED BY <1>2, <2>1, DayInv, DecisionsInv, RequestInv, TickInv, ContinueInv, DiesInv DEF SubNext
<1> QED BY <1>1, <1>2

\* The invariant holds in every reachable state of the subscription.
LEMMA Inductive == SubSpec => []PaidInv
  BY PaidInit, StepInv, PTL DEF SubSpec

\* Every variable keeps its type, in every order of calls, days and failures.
THEOREM SubTypeCorrect == SubSpec => []SubTypeOK
  BY Inductive, InvType, PTL

\* A store that accepted no charge has no access beyond the grace of the
\* latest trial end it was granted (evaluateAccess, subscribe).
THEOREM NothingGivenAway == SubSpec => []UnpaidAccessEnds
<1>1. PaidInv => UnpaidAccessEnds
  <2> SUFFICES ASSUME PaidInv, Access, ~accepted PROVE promise + Grace > 0
    BY DEF UnpaidAccessEnds
  <2>1. /\ sub.trial \in Int /\ sub.grace \in Int /\ promise \in Int /\ Grace \in Nat
        /\ sub.trial <= promise
    BY DaysAssumption DEF PaidInv, RowSound, ShopSound, RowType, Dates
  <2>2. sub.st # "ACTIVE" /\ ~Future(sub.period)
    BY DaysAssumption DEF PaidInv, RowSound, PaidByAcceptance, Future, Null
  <2>3. CASE Future(sub.trial)
    BY <2>1, <2>3 DEF Future
  <2>4. CASE sub.st = "CHARGE_PENDING" /\ Future(sub.grace)
    BY <2>1, <2>4 DEF PaidInv, RowSound, Waiting, Future
  <2> QED BY <2>2, <2>3, <2>4 DEF Access
<1> QED BY <1>1, Inductive, PTL

\* A row is active, or carries a paid period, only after the merchant accepted
\* a charge ("the ONLY path to ACTIVE", resolveChargeOutcome).
THEOREM ActiveIsPaid == SubSpec => []PaidByAcceptance
<1>1. PaidInv => PaidByAcceptance
  BY DEF PaidInv, RowSound
<1> QED BY <1>1, Inductive, PTL
===============================================================================
