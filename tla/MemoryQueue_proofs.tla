------------------------- MODULE MemoryQueue_proofs -------------------------
(***************************************************************************)
(* What MemoryQueue guarantees for any jobs, queues, producers and bounds: *)
(* the in-flight set is exact, a job ends once per acceptance, and the     *)
(* driver implements the lifecycle its port promises.                      *)
(***************************************************************************)
EXTENDS MemoryQueue, TLAPS, FiniteSetTheorems, WellFoundedInduction

\* The dispatcher only sees pending jobs.
DuePending == \A i \in due : pending[i] > 0

IInv == TypeOK /\ DuePending /\ InFlightExact /\ OneOutcome

\* A fresh process has no job in flight and an empty mirror.
LEMMA InitInv == Init => IInv
  BY LimitsAssumption, QueueAssumption
  DEF Init, IInv, TypeOK, DuePending, InFlightExact, OneOutcome, Zero, Nobody, NoRow,
      RowStates

\* What the listener starts are well-formed mirror updates.
LEMMA EmitsType ==
  ASSUME TypeOK, NEW type \in {"active", "completed", "retry", "dead"},
         NEW is \in SUBSET Ids, NEW n \in [Ids -> 0 .. MaxAttempts],
         \A i \in is : n[i] > 0
  PROVE  Emits(type, is, n) \subseteq UpdateType
  BY LimitsAssumption DEF TypeOK, Emits, UpdateType

\* Producers: an accepted id was not in flight, so it starts its life pending.
LEMMA EnqueueInv ==
  ASSUME IInv, NEW p \in Producers, NEW delayed \in BOOLEAN, Enqueue(p, delayed)
  PROVE  IInv'
<1> DEFINE i == producer[p]
<1>1. i \in Ids
  BY DEF IInv, TypeOK, Enqueue
<1>2. CASE i \in inFlight
  BY <1>1, <1>2, QueueAssumption
  DEF IInv, TypeOK, DuePending, InFlightExact, OneOutcome, Enqueue, mirror, ended, faults
<1>3. CASE i \notin inFlight
  <2>1. Accepts(i, delayed)
    BY <1>3 DEF Enqueue
  <2>2. TypeOK'
    BY <2>1, <1>1, LimitsAssumption DEF IInv, TypeOK, Enqueue, Accepts, Joins, mirror, ended, faults
  <2>3. DuePending'
    BY <2>1, <1>1 DEF IInv, TypeOK, DuePending, Accepts, Joins
  <2>4. InFlightExact'
    BY <2>1, <1>1, <1>3 DEF IInv, TypeOK, InFlightExact, Enqueue, Accepts
  <2>5. OneOutcome'
    BY <2>1, <1>1, <1>3 DEF IInv, TypeOK, OneOutcome, Enqueue, Accepts, ended
  <2> QED BY <2>2, <2>3, <2>4, <2>5 DEF IInv
<1> QED BY <1>2, <1>3

\* A firing is an acceptance of an id of its own.
LEMMA FiresInv ==
  ASSUME IInv, NEW s \in Schedules, NEW i \in Ids, Fires(s, i)
  PROVE  IInv'
<1>1. Accepts(i, FALSE)
  BY DEF Fires
<1>2. i \notin inFlight
  BY DEF Fires, IInv, TypeOK, OneOutcome
<1>3. TypeOK'
  BY <1>1, LimitsAssumption DEF IInv, TypeOK, Fires, Accepts, Joins, mirror, ended, faults
<1>4. DuePending'
  BY <1>1 DEF IInv, TypeOK, DuePending, Accepts, Joins
<1>5. InFlightExact'
  BY <1>1, <1>2 DEF IInv, TypeOK, InFlightExact, Fires, Accepts
<1>6. OneOutcome'
  BY <1>1, <1>2 DEF IInv, TypeOK, OneOutcome, Fires, Accepts, ended
<1> QED BY <1>3, <1>4, <1>5, <1>6 DEF IInv

\* A turn of the dispatcher moves pending jobs to running, or to their end.
LEMMA DispatchInv ==
  ASSUME IInv, Dispatch
  PROVE  IInv'
<1> DEFINE refused == Started \cap Unhandled
<1>1. Started \subseteq due /\ due \subseteq Ids /\ \A i \in Started : pending[i] > 0
  BY DEF Started, IInv, TypeOK, DuePending
<1>2. /\ Emits("active", Started \ refused, pending) \subseteq UpdateType
      /\ Emits("dead", refused, pending) \subseteq UpdateType
  <2>1. TypeOK /\ pending \in [Ids -> 0 .. MaxAttempts]
    BY DEF IInv, TypeOK
  <2> QED BY <2>1, <1>1, EmitsType
<1>3. TypeOK'
  <2>1. updates' \subseteq UpdateType
    BY <1>2 DEF IInv, TypeOK, Dispatch
  <2>2. /\ pending' \in [Ids -> 0 .. MaxAttempts] /\ running' \in [Ids -> 0 .. MaxAttempts]
        /\ ahead' \in [Ids -> SUBSET Ids] /\ due' \subseteq Ids /\ inFlight' \subseteq Ids
    BY LimitsAssumption DEF IInv, TypeOK, Dispatch
  <2>3. dead' \in [Ids -> Nat]
    BY DEF IInv, TypeOK, Dispatch
  <2> QED BY <2>1, <2>2, <2>3 DEF IInv, TypeOK, Dispatch, faults
<1>4. DuePending'
  BY <1>1 DEF IInv, TypeOK, DuePending, Dispatch
<1>5. InFlightExact'
  <2>1. mode = "running" /\ mode' = "running"
    BY DEF Dispatch
  <2>2. ASSUME NEW i \in Ids
        PROVE  (i \in inFlight' <=> pending'[i] > 0 \/ running'[i] > 0)
               /\ (pending'[i] = 0 \/ running'[i] = 0)
    <3>1. /\ (i \in inFlight <=> pending[i] > 0 \/ running[i] > 0)
          /\ pending[i] = 0 \/ running[i] = 0
          /\ pending[i] \in Nat /\ running[i] \in Nat
      BY <2>1 DEF IInv, TypeOK, InFlightExact
    <3>2. /\ pending'[i] = IF i \in Started THEN 0 ELSE pending[i]
          /\ running'[i] = IF i \in Started \ refused THEN pending[i] ELSE running[i]
          /\ inFlight' = inFlight \ refused
      BY DEF Dispatch
    <3> QED BY <1>1, <3>1, <3>2
  <2> QED BY <2>2 DEF InFlightExact
<1>6. OneOutcome'
  BY <1>1 DEF IInv, TypeOK, OneOutcome, InFlightExact, Dispatch
<1> QED BY <1>3, <1>4, <1>5, <1>6 DEF IInv

\* A completed attempt ends its job.
LEMMA CompletesInv ==
  ASSUME IInv, NEW i \in Ids, Completes(i)
  PROVE  IInv'
<1>1. Emits("completed", {i}, running) \subseteq UpdateType
  BY EmitsType DEF IInv, TypeOK, Completes, faults
<1>2. TypeOK'
  <2>1. updates' \subseteq UpdateType
    BY <1>1 DEF IInv, TypeOK, Completes
  <2>2. /\ running' \in [Ids -> 0 .. MaxAttempts] /\ completed' \in [Ids -> Nat]
        /\ inFlight' \subseteq Ids
    BY LimitsAssumption DEF IInv, TypeOK, Completes
  <2> QED BY <2>1, <2>2 DEF IInv, TypeOK, Completes, faults
<1>3. DuePending'
  BY DEF IInv, DuePending, Completes
<1>4. InFlightExact'
  BY SMTT(30) DEF IInv, TypeOK, InFlightExact, Completes
<1>5. OneOutcome'
  BY DEF IInv, TypeOK, OneOutcome, InFlightExact, Completes
<1> QED BY <1>2, <1>3, <1>4, <1>5 DEF IInv

\* A failed attempt ends its job or leaves it pending, never both.
LEMMA FailedInv ==
  ASSUME IInv, NEW i \in Ids, running[i] > 0, NEW hopeless \in BOOLEAN, Failed(i, hopeless),
         UNCHANGED <<mode, due, ahead, chains, intervals, producer, row, retried,
                     failed, completed, lives, crashes>>,
         late' \in [Ids -> Nat], timeouts' \in Nat
  PROVE  IInv'
<1>1. /\ Emits("dead", {i}, running) \subseteq UpdateType
      /\ Emits("retry", {i}, running) \subseteq UpdateType
  BY EmitsType DEF IInv, TypeOK
<1>2. TypeOK'
  <2>1. updates' \subseteq UpdateType
    BY <1>1 DEF IInv, TypeOK, Failed
  <2>2. running' \in [Ids -> 0 .. MaxAttempts] /\ pending' \in [Ids -> 0 .. MaxAttempts]
    BY LimitsAssumption DEF IInv, TypeOK, Failed
  <2>3. dead' \in [Ids -> Nat] /\ inFlight' \subseteq Ids
    BY DEF IInv, TypeOK, Failed
  <2> QED BY <2>1, <2>2, <2>3 DEF IInv, TypeOK
<1>3. DuePending'
  <2>1. /\ pending \in [Ids -> 0 .. MaxAttempts] /\ due \subseteq Ids /\ due' = due
        /\ running[i] \in 0 .. MaxAttempts /\ DuePending
    BY DEF IInv, TypeOK
  <2>2. pending' = pending \/ pending' = [pending EXCEPT ![i] = running[i] + 1]
    BY DEF Failed
  <2>3. running[i] + 1 > 0
    BY <2>1, LimitsAssumption
  <2> QED BY <2>1, <2>2, <2>3 DEF DuePending
<1>4. InFlightExact'
  BY DEF IInv, TypeOK, InFlightExact, Failed
<1>5. OneOutcome'
  <2>1. i \in inFlight \/ mode = "closed"
    BY DEF IInv, TypeOK, InFlightExact
  <2>2. CASE hopeless \/ running[i] >= MaxAttempts
    <3>1. /\ dead' = [dead EXCEPT ![i] = @ + 1] /\ inFlight' = inFlight \ {i}
          /\ running' = [running EXCEPT ![i] = 0] /\ UNCHANGED pending
      BY <2>2 DEF Failed
    <3> QED BY <2>1, <3>1 DEF IInv, TypeOK, OneOutcome, InFlightExact
  <2>3. CASE ~(hopeless \/ running[i] >= MaxAttempts)
    <3>1. /\ UNCHANGED <<dead, inFlight>>
          /\ running' = [running EXCEPT ![i] = 0] /\ pending' = [pending EXCEPT ![i] = running[i] + 1]
      BY <2>3 DEF Failed
    <3> QED BY <2>1, <3>1 DEF IInv, TypeOK, OneOutcome, InFlightExact
  <2> QED BY <2>2, <2>3
<1> QED BY <1>2, <1>3, <1>4, <1>5 DEF IInv

\* The mirror touches nothing the driver decides by.
LEMMA MirrorInv ==
  ASSUME IInv, Mirror
  PROVE  IInv'
<1> PICK u \in updates : Applies(u) \/ Inserts(u)
  BY DEF Mirror
<1>1. u \in UpdateType /\ u.id \in Ids /\ u.n \in 1 .. MaxAttempts
  BY DEF IInv, TypeOK, UpdateType
<1>2. Then(u, "retryRow") \subseteq UpdateType /\ Then(u, "deadRow") \subseteq UpdateType
  BY <1>1 DEF Then, UpdateType
<1>3. TypeOK'
  <2>1. CASE Applies(u)
    <3>1. row' \in [Ids -> [st : RowStates, attempts : 0 .. MaxAttempts]]
      <4>1. PICK st \in RowStates : Becomes(u.id, st, u.n)
        BY <1>1, <2>1 DEF IInv, TypeOK, Applies, RowStates
      <4>2. u.n \in 0 .. MaxAttempts
        BY <1>1, LimitsAssumption
      <4> QED BY <1>1, <4>1, <4>2 DEF IInv, TypeOK, Becomes
    <3>2. updates' \subseteq UpdateType
      BY <1>2, <2>1 DEF IInv, TypeOK, Applies
    <3> QED BY <2>1, <3>1, <3>2 DEF IInv, TypeOK, Applies, driver, ended, faults
  <2>2. CASE Inserts(u)
    <3>1. /\ updates' \subseteq UpdateType
          /\ retried' \in [Ids -> Nat] /\ failed' \in [Ids -> Nat]
      BY <1>1, <2>2 DEF IInv, TypeOK, Inserts
    <3> QED BY <2>2, <3>1 DEF IInv, TypeOK, Inserts, driver, ended, faults
  <2> QED BY <2>1, <2>2
<1>4. UNCHANGED <<mode, driver, ended, lives>>
  BY DEF Applies, Inserts
<1> QED BY <1>3, <1>4 DEF IInv, DuePending, InFlightExact, OneOutcome, driver, ended

\* Every step preserves the invariant.
LEMMA StepInv == IInv /\ [Next]_vars => IInv'
<1> SUFFICES ASSUME IInv, [Next]_vars PROVE IInv'
  OBVIOUS
<1>1. ASSUME NEW p \in Producers, Produce(p) PROVE IInv'
  <2>1. ASSUME NEW i \in Ids, RecordQueued(p, i) PROVE IInv'
    BY <2>1 DEF IInv, TypeOK, DuePending, InFlightExact, OneOutcome, RecordQueued, driver, ended, faults, NoRow,
                RowStates
  <2>2. ASSUME EnqueueRefused(p) PROVE IInv'
    BY <2>2 DEF IInv, TypeOK, DuePending, InFlightExact, OneOutcome, EnqueueRefused, 
                driver, mirror, ended, faults
  <2> QED BY <1>1, <2>1, <2>2, EnqueueInv DEF Produce
<1>2. ASSUME Driver PROVE IInv'
  <2>1. CASE Start
    BY <2>1 DEF IInv, TypeOK, DuePending, InFlightExact, OneOutcome, Start, driver, mirror, ended, faults
  <2>2. CASE Close
    BY <2>2 DEF IInv, TypeOK, DuePending, InFlightExact, OneOutcome, Close, driver, mirror, ended, faults
  <2>3. CASE Closed
    BY <2>3, LimitsAssumption DEF IInv, TypeOK, DuePending, InFlightExact, OneOutcome, Closed, mirror, ended, faults,
                Zero, Nobody
  <2>4. CASE Crash
    BY <2>4, LimitsAssumption DEF IInv, TypeOK, DuePending, InFlightExact, OneOutcome, Crash, ended, Zero, Nobody
  <2>5. ASSUME NEW i \in Ids, BecomesDue(i) PROVE IInv'
    BY <2>5 DEF IInv, TypeOK, DuePending, InFlightExact, OneOutcome, BecomesDue, Joins, ended, faults,
                mirror
  <2>6. ASSUME NEW i \in Ids, Throws(i) PROVE IInv'
    BY <2>6, FailedInv DEF Throws, faults, IInv, TypeOK
  <2>7. ASSUME NEW i \in Ids, TimesOut(i) PROVE IInv'
    <3>1. late' \in [Ids -> Nat] /\ timeouts' \in Nat
      BY <2>7 DEF TimesOut, IInv, TypeOK
    <3> QED BY <2>7, <3>1, FailedInv DEF TimesOut
  <2>8. ASSUME NEW i \in Ids, LateResult(i) PROVE IInv'
    BY <2>8 DEF IInv, TypeOK, DuePending, InFlightExact, OneOutcome, LateResult, driver, ended, faults,
                mirror
  <2>9. ASSUME NEW s \in Schedules, UpsertSchedule(s) PROVE IInv'
    BY <2>9 DEF IInv, TypeOK, DuePending, InFlightExact, OneOutcome, UpsertSchedule,
                driver, mirror, ended, faults
  <2> QED BY <1>2, <2>1, <2>2, <2>3, <2>4, <2>5, <2>6, <2>7, <2>8, <2>9, DispatchInv,
             CompletesInv, FiresInv DEF Driver, Settles
<1>3. CASE UNCHANGED vars
  BY <1>3 DEF vars, ended, faults, driver, IInv, TypeOK, DuePending, InFlightExact, OneOutcome
<1> QED BY <1>1, <1>2, <1>3, MirrorInv DEF Next

\* IInv is an invariant: the in-flight set names exactly the jobs that wait or
\* run, and the jobs the dispatcher sees are pending.
THEOREM Invariance == Spec => []IInv
  BY InitInv, StepInv, PTL DEF Spec

\* Every variable keeps its type, for any number of attempts and jobs.
THEOREM TypeCorrect == Spec => []TypeOK
<1>1. IInv => TypeOK
  BY DEF IInv
<1> QED BY <1>1, Invariance, PTL

\* inFlightIds, which makes a replayed trigger a no-op, is exact.
THEOREM ExactlyInFlight == Spec => []InFlightExact
<1>1. IInv => InFlightExact
  BY DEF IInv
<1> QED BY <1>1, Invariance, PTL

\* Each acceptance of a job id reports at most one outcome.
THEOREM EndsOnce == Spec => []OneOutcome
<1>1. IInv => OneOutcome
  BY DEF IInv
<1> QED BY <1>1, Invariance, PTL

-----------------------------------------------------------------------------
(* The slots of a queue.                                                    *)

\* ahead orders the due jobs: nobody is ahead of himself, of two jobs one is
\* ahead of the other, and whoever is ahead of i is ahead of those behind i.
DueInOrder ==
  \A i \in due : /\ ahead[i] \subseteq due /\ i \notin ahead[i]
                 /\ \A j \in due : j = i \/ i \in ahead[j] \/ j \in ahead[i]
                 /\ \A j \in due : i \in ahead[j] => ahead[i] \subseteq ahead[j]

Busy == {i \in Ids : running[i] > 0}
Served(q) == {i \in Ids : running[i] > 0 /\ QueueOf[i] = q}

\* Only so many jobs are due or run as have been enqueued one by one.
Finite == IsFiniteSet(due) /\ IsFiniteSet(Busy)

SlotInv == Finite /\ DueInOrder /\ SlotsBounded

\* An element more, and a set more.
LEMMA OneMore ==
  ASSUME NEW S, IsFiniteSet(S), NEW x
  PROVE  /\ IsFiniteSet(S \cup {x}) /\ Cardinality(S) \in Nat
         /\ Cardinality(S \cup {x}) \in Nat
         /\ Cardinality(S \cup {x}) <= Cardinality(S) + 1
<1>1. IsFiniteSet(S \cup {x}) /\ Cardinality(S) \in Nat /\ Cardinality(S \cup {x}) \in Nat
  BY FS_AddElement, FS_CardinalityType
<1>2. \/ Cardinality(S \cup {x}) = Cardinality(S)
      \/ Cardinality(S \cup {x}) = Cardinality(S) + 1
  BY FS_AddElement
<1> QED BY <1>1, <1>2

LEMMA NoMoreThanBoth ==
  ASSUME NEW S, IsFiniteSet(S), NEW T, IsFiniteSet(T)
  PROVE  /\ IsFiniteSet(S \cup T) /\ Cardinality(S \cup T) \in Nat
         /\ Cardinality(S \cup T) <= Cardinality(S) + Cardinality(T)
<1>1. /\ IsFiniteSet(S \cup T) /\ Cardinality(S \cup T) \in Nat
      /\ Cardinality(S) \in Nat /\ Cardinality(T) \in Nat
  BY FS_Union, FS_CardinalityType
<1>2. Cardinality(S \cap T) \in Nat
  BY FS_Intersection, FS_CardinalityType
<1>3. Cardinality(S \cup T) = Cardinality(S) + Cardinality(T) - Cardinality(S \cap T)
  BY FS_Union
<1> QED BY <1>1, <1>2, <1>3

\* Of a finite set of due jobs one is behind all the others.
LEMMA SomeoneIsLast ==
  ASSUME Finite, DueInOrder, NEW S, S \subseteq due, S # {}
  PROVE  \E i \in S : S \ {i} \subseteq ahead[i]
<1>. DEFINE Behind(i) == S \ ahead[i]
            B == {Behind(i) : i \in S}
<1>1. IsFiniteSet(S)
  BY FS_Subset DEF Finite
<1>2. B # {} /\ B \subseteq FiniteSubsetsOf(S)
  <2>1. ASSUME NEW i \in S
        PROVE  Behind(i) \subseteq S /\ IsFiniteSet(Behind(i))
    <3>1. Behind(i) \in SUBSET S
      OBVIOUS
    <3> QED BY <1>1, <3>1, FS_Subset
  <2> QED BY <2>1 DEF FiniteSubsetsOf
<1>3. IsWellFoundedOn(StrictSubsetOrdering(S), FiniteSubsetsOf(S))
  BY FS_StrictSubsetOrderingWellFounded
<1>4. PICK b \in B : \A c \in B : <<c, b>> \notin StrictSubsetOrdering(S)
  <2>. HIDE DEF B
  <2> QED BY <1>2, <1>3, WFMin
<1>5. PICK i \in S : b = Behind(i)
  BY <1>4
<1>6. ASSUME NEW j \in S, j # i, j \notin ahead[i]
      PROVE  FALSE
  <2>1. i \in ahead[j] /\ ahead[i] \subseteq ahead[j] /\ i \notin ahead[i]
    BY <1>6 DEF DueInOrder
  <2>2. Behind(j) \subseteq Behind(i) /\ i \in Behind(i) /\ i \notin Behind(j)
    BY <1>5, <2>1
  <2>3. <<Behind(j), Behind(i)>> \in StrictSubsetOrdering(S)
    BY <2>2 DEF StrictSubsetOrdering
  <2> QED BY <1>4, <1>5, <1>6, <2>3
<1> QED BY <1>6

\* A turn of the dispatcher takes no more jobs of a queue than it has slots
\* left: the last one it takes has counted all the others.
LEMMA TurnFits ==
  ASSUME IInv, SlotInv, NEW q \in Queues
  PROVE  Cardinality(Served(q) \cup {i \in Started : QueueOf[i] = q}) <= Concurrency
<1>. DEFINE S == {i \in Started : QueueOf[i] = q}
<1>1. /\ S \subseteq due /\ IsFiniteSet(due) /\ IsFiniteSet(Busy) /\ due \subseteq Ids
      /\ Served(q) \subseteq Busy /\ Concurrency \in Nat
  BY LimitsAssumption DEF Started, SlotInv, Finite, Served, Busy, IInv, TypeOK
<1>2. /\ IsFiniteSet(Served(q)) /\ IsFiniteSet(S)
      /\ Cardinality(Served(q)) \in Nat /\ Cardinality(S) \in Nat
  BY <1>1, FS_Subset, FS_CardinalityType
<1>3. Cardinality(Served(q)) = Slots(q) /\ Slots(q) <= Concurrency
  BY DEF Served, Slots, SlotInv, SlotsBounded
<1>4. CASE S = {}
  <2>1. Served(q) \cup S = Served(q)
    BY <1>4
  <2> QED BY <1>3, <2>1
<1>5. CASE S # {}
  <2>1. PICK i \in S : S \ {i} \subseteq ahead[i]
    BY <1>1, <1>5, SomeoneIsLast DEF SlotInv
  <2>. DEFINE A == {j \in ahead[i] : QueueOf[j] = QueueOf[i]}
  <2>2. Slots(q) + Cardinality(A) < Concurrency
    BY <2>1 DEF Started, Starts
  <2>3. IsFiniteSet(A) /\ Cardinality(A) \in Nat
    <3>1. A \subseteq due
      BY <1>1, <2>1 DEF SlotInv, DueInOrder
    <3> QED BY <1>1, <3>1, FS_Subset, FS_CardinalityType
  <2>4. S \ {i} \subseteq A
    BY <2>1
  <2>5. Cardinality(S \ {i}) <= Cardinality(A) /\ Cardinality(S \ {i}) = Cardinality(S) - 1
    BY <1>2, <2>1, <2>3, <2>4, FS_Subset, FS_RemoveElement
  <2>6. /\ Cardinality(Served(q) \cup S) <= Cardinality(Served(q)) + Cardinality(S)
        /\ Cardinality(Served(q) \cup S) \in Nat
    BY <1>2, NoMoreThanBoth
  <2>7. QueueOf[i] = q
    BY <2>1
  <2>. HIDE DEF S, A
  <2>8. Cardinality(Served(q)) + Cardinality(A) < Concurrency
    BY <1>3, <2>2, <2>7
  <2>9. Cardinality(Served(q) \cup S) <= Concurrency
    BY <1>1, <1>2, <2>3, <2>5, <2>6, <2>8
  <2> QED BY <2>9 DEF S
<1> QED BY <1>4, <1>5

\* A queue serves no more jobs than before, or than fit.
LEMMA ServesFewer ==
  ASSUME Finite, NEW q, NEW T, T \subseteq Served(q), Slots(q) <= Concurrency,
         Concurrency \in Nat
  PROVE  Cardinality(T) <= Concurrency
<1>1. IsFiniteSet(Served(q))
  BY FS_Subset DEF Finite, Served, Busy
<1>2. Cardinality(T) <= Cardinality(Served(q)) /\ Cardinality(T) \in Nat /\ Cardinality(Served(q)) \in Nat
  BY <1>1, FS_Subset, FS_CardinalityType
<1> QED BY <1>2 DEF Slots, Served

\* A job that joins the due ones is behind them all.
LEMMA JoinsInOrder ==
  ASSUME TypeOK, SlotInv, NEW i \in Ids, i \notin due, Joins(i)
  PROVE  IsFiniteSet(due') /\ DueInOrder'
<1>1. IsFiniteSet(due')
  BY FS_AddElement DEF SlotInv, Finite, Joins
<1>2. /\ due' = due \cup {i} /\ ahead'[i] = due
      /\ \A j \in due : ahead'[j] = ahead[j] /\ ahead[j] \subseteq due
  BY DEF TypeOK, Joins, SlotInv, DueInOrder
<1>3. ASSUME NEW j \in due'
      PROVE  /\ ahead'[j] \subseteq due' /\ j \notin ahead'[j]
             /\ \A k \in due' : k = j \/ j \in ahead'[k] \/ k \in ahead'[j]
             /\ \A k \in due' : j \in ahead'[k] => ahead'[j] \subseteq ahead'[k]
  BY <1>2 DEF SlotInv, DueInOrder
<1> QED BY <1>1, <1>3 DEF DueInOrder

\* A step that starts no attempt and lets jobs join one by one keeps the slots.
LEMMA SlotKept ==
  ASSUME IInv, SlotInv, Busy' \subseteq Busy,
         \/ UNCHANGED <<due, ahead>>
         \/ \E i \in Ids : i \notin due /\ Joins(i)
         \/ due' = {}
  PROVE  SlotInv'
<1>1. IsFiniteSet(Busy')
  BY FS_Subset DEF SlotInv, Finite
<1>2. IsFiniteSet(due') /\ DueInOrder'
  <2>1. CASE UNCHANGED <<due, ahead>>
    BY <2>1 DEF SlotInv, Finite, DueInOrder
  <2>2. CASE \E i \in Ids : i \notin due /\ Joins(i)
    BY <2>2, JoinsInOrder DEF IInv
  <2>3. CASE due' = {}
    BY <2>3, FS_EmptySet DEF DueInOrder
  <2> QED BY <2>1, <2>2, <2>3
<1>3. ASSUME NEW q \in Queues
      PROVE  Slots(q)' <= Concurrency
  <2>. DEFINE T == {i \in Ids : running'[i] > 0 /\ QueueOf[i] = q}
  <2>1. T \subseteq Served(q)
    BY DEF Busy, Served
  <2>2. Slots(q) <= Concurrency /\ Concurrency \in Nat
    BY LimitsAssumption DEF SlotInv, SlotsBounded
  <2>3. Cardinality(T) <= Concurrency
    BY <2>1, <2>2, ServesFewer DEF SlotInv
  <2> QED BY <2>3 DEF Slots
<1> QED BY <1>1, <1>2, <1>3 DEF SlotInv, Finite, SlotsBounded

\* The dispatcher's turn.
LEMMA DispatchSlots ==
  ASSUME IInv, SlotInv, Dispatch
  PROVE  SlotInv'
<1>1. /\ Started \subseteq due /\ due \subseteq Ids /\ due' = due \ Started
      /\ \A i \in Ids : ahead'[i] = IF i \in Started THEN {} ELSE ahead[i] \ Started
      /\ \A i \in Ids : running'[i] = IF i \in Started \ Unhandled THEN pending[i] ELSE running[i]
  BY DEF IInv, TypeOK, Started, Dispatch
<1>2. IsFiniteSet(due') /\ IsFiniteSet(Busy')
  <2>1. Busy' \subseteq Busy \cup due
    BY <1>1 DEF Busy
  <2> QED BY <1>1, <2>1, FS_Subset, FS_Union DEF SlotInv, Finite
<1>3. DueInOrder'
  <2>1. \A i \in due' : i \in due /\ ahead'[i] = ahead[i] \ Started
    BY <1>1
  <2>2. ASSUME NEW j \in due'
        PROVE  /\ ahead'[j] \subseteq due' /\ j \notin ahead'[j]
               /\ \A k \in due' : k = j \/ j \in ahead'[k] \/ k \in ahead'[j]
               /\ \A k \in due' : j \in ahead'[k] => ahead'[j] \subseteq ahead'[k]
    BY <1>1, <2>1 DEF SlotInv, DueInOrder
  <2> QED BY <2>2 DEF DueInOrder
<1>4. ASSUME NEW q \in Queues
      PROVE  Slots(q)' <= Concurrency
  <2>. DEFINE T == {i \in Ids : running'[i] > 0 /\ QueueOf[i] = q}
              U == Served(q) \cup {i \in Started : QueueOf[i] = q}
  <2>1. T \subseteq U
    BY <1>1 DEF Served
  <2>2. IsFiniteSet(U)
    <3>1. U \subseteq Busy \cup due
      BY <1>1 DEF Served, Busy
    <3> QED BY <3>1, FS_Subset, FS_Union DEF SlotInv, Finite
  <2>3. /\ Cardinality(T) <= Cardinality(U) /\ Cardinality(T) \in Nat
        /\ Cardinality(U) \in Nat /\ Cardinality(U) <= Concurrency
    BY <2>1, <2>2, TurnFits, FS_Subset, FS_CardinalityType
  <2>. HIDE DEF T, U
  <2>4. Cardinality(T) <= Concurrency
    BY <2>3, LimitsAssumption
  <2> QED BY <2>4 DEF T, Slots
<1> QED BY <1>2, <1>3, <1>4 DEF SlotInv, Finite, SlotsBounded

\* Every step keeps the slots.
LEMMA SlotNext == IInv /\ SlotInv /\ [Next]_vars => SlotInv'
<1>. SUFFICES ASSUME IInv, SlotInv, [Next]_vars PROVE SlotInv'
  OBVIOUS
<1>1. CASE Dispatch
  BY <1>1, DispatchSlots
<1>2. CASE \/ \E p \in Producers, i \in Ids : RecordQueued(p, i)
           \/ \E p \in Producers : EnqueueRefused(p)
           \/ Start \/ Close
           \/ \E i \in Ids : LateResult(i)
           \/ \E s \in Schedules : UpsertSchedule(s)
           \/ Mirror
           \/ UNCHANGED vars
  <2>1. UNCHANGED <<due, ahead, running>>
    BY <1>2 DEF RecordQueued, EnqueueRefused, Start, Close, LateResult, UpsertSchedule, Mirror,
       Applies, Inserts, driver, vars
  <2> QED BY <2>1, SlotKept DEF Busy
<1>3. ASSUME NEW i \in Ids, Completes(i) \/ Throws(i) \/ TimesOut(i)
      PROVE  SlotInv'
  <2>1. UNCHANGED <<due, ahead>> /\ running' = [running EXCEPT ![i] = 0]
    BY <1>3 DEF Completes, Throws, TimesOut, Failed
  <2>2. Busy' \subseteq Busy
    BY <2>1 DEF Busy, IInv, TypeOK
  <2> QED BY <2>1, <2>2, SlotKept
<1>4. CASE Closed \/ Crash
  <2>1. due' = {} /\ Busy' \subseteq Busy
    BY <1>4 DEF Closed, Crash, Busy, Zero
  <2> QED BY <2>1, SlotKept
<1>5. ASSUME NEW i \in Ids, BecomesDue(i)
      PROVE  SlotInv'
  BY <1>5, SlotKept DEF BecomesDue, Busy
<1>6. ASSUME NEW i \in Ids, NEW delayed \in BOOLEAN, Accepts(i, delayed), i \notin inFlight,
             mode # "closed", UNCHANGED running
      PROVE  SlotInv'
  <2>1. i \notin due
    BY <1>6 DEF IInv, TypeOK, DuePending, InFlightExact
  <2>2. UNCHANGED <<due, ahead>> \/ Joins(i)
    BY <1>6 DEF Accepts
  <2> QED BY <1>6, <2>1, <2>2, SlotKept DEF Busy
<1>7. ASSUME NEW p \in Producers, NEW delayed \in BOOLEAN, Enqueue(p, delayed)
      PROVE  SlotInv'
  <2>1. UNCHANGED running /\ producer[p] \in Ids /\ mode # "closed"
    BY <1>7 DEF Enqueue, IInv, TypeOK
  <2>2. CASE producer[p] \in inFlight
    BY <1>7, <2>1, <2>2, SlotKept DEF Enqueue, Busy
  <2>3. CASE producer[p] \notin inFlight
    BY <1>6, <1>7, <2>1, <2>3 DEF Enqueue
  <2> QED BY <2>2, <2>3
<1>8. ASSUME NEW s \in Schedules, NEW i \in Ids, Fires(s, i)
      PROVE  SlotInv'
  <2>1. i \notin inFlight /\ mode # "closed" /\ UNCHANGED running
    BY <1>8 DEF Fires, IInv, TypeOK, OneOutcome
  <2> QED BY <1>6, <1>8, <2>1 DEF Fires
<1> QED BY <1>1, <1>2, <1>3, <1>4, <1>5, <1>7, <1>8 DEF Next, Produce, Driver, Settles

\* However many jobs are due at once, and whatever comes back in between, a
\* queue awaits no more attempts than its concurrency.
THEOREM SlotsAreBounded == Spec => []SlotsBounded
<1>1. Init => SlotInv
  <2>. SUFFICES ASSUME Init PROVE SlotInv
    OBVIOUS
  <2>1. due = {} /\ Busy = {} /\ \A q \in Queues : Served(q) = {}
    BY DEF Init, Busy, Served, Zero
  <2>2. \A q \in Queues : Slots(q) = 0
    BY <2>1, FS_EmptySet DEF Slots, Served
  <2> QED BY <2>1, <2>2, FS_EmptySet, LimitsAssumption
          DEF SlotInv, Finite, DueInOrder, SlotsBounded
<1>2. IInv /\ SlotInv /\ [Next]_vars => SlotInv'
  BY SlotNext
<1>3. SlotInv => SlotsBounded
  BY DEF SlotInv
<1> QED BY <1>1, <1>2, <1>3, Invariance, PTL DEF Spec

-----------------------------------------------------------------------------
(* The mirror.                                                              *)

\* An update under way tells of an outcome the queue has reported; a dead letter
\* that is still to be written, and those written, have a death each.
Letters(i) == {u \in updates : u.id = i /\ u.type \in {"dead", "deadRow"}}

Told == \A u \in updates : /\ u.type = "completed" => completed[u.id] > 0
                           /\ u.type \in {"dead", "deadRow"} => dead[u.id] > 0

DeathsCounted == \A i \in Ids : /\ IsFiniteSet(Letters(i))
                                /\ failed[i] + Cardinality(Letters(i)) <= dead[i]

MirrorTrue == Told /\ DeathsCounted /\ MirrorInventsNothing

\* A step after which the queue has reported no less, the rows are as they were,
\* and what it tells the mirror it has reported.
LEMMA TellsTruth ==
  ASSUME IInv, IInv', MirrorTrue, UNCHANGED <<row, failed>>,
         \A i \in Ids : completed'[i] >= completed[i] /\ dead'[i] >= dead[i],
         \A u \in updates' \ updates :
           /\ u.type = "completed" => completed'[u.id] > 0
           /\ u.type \in {"dead", "deadRow"} => dead'[u.id] > 0,
         \A i \in Ids : \/ Letters(i)' \subseteq Letters(i)
                        \/ /\ dead'[i] = dead[i] + 1
                           /\ \E u : Letters(i)' \subseteq Letters(i) \cup {u}
  PROVE  MirrorTrue'
<1>1. /\ completed \in [Ids -> Nat] /\ dead \in [Ids -> Nat] /\ failed \in [Ids -> Nat]
      /\ completed' \in [Ids -> Nat] /\ dead' \in [Ids -> Nat]
      /\ updates \subseteq UpdateType /\ updates' \subseteq UpdateType
  BY DEF IInv, TypeOK
<1>2. Told'
  <2>1. ASSUME NEW u \in updates'
        PROVE  /\ u.type = "completed" => completed'[u.id] > 0
               /\ u.type \in {"dead", "deadRow"} => dead'[u.id] > 0
    <3>1. u.id \in Ids
      BY <1>1 DEF UpdateType
    <3>2. CASE u \in updates
      BY <1>1, <3>1, <3>2 DEF MirrorTrue, Told
    <3> QED BY <3>2
  <2> QED BY <2>1 DEF Told
<1>3. ASSUME NEW i \in Ids
      PROVE  IsFiniteSet(Letters(i)') /\ failed'[i] + Cardinality(Letters(i)') <= dead'[i]
  <2>. DEFINE L == Letters(i)
              M == Letters(i)'
  <2>1. /\ IsFiniteSet(L) /\ failed[i] + Cardinality(L) <= dead[i]
        /\ failed[i] \in Nat /\ dead[i] \in Nat /\ dead'[i] \in Nat /\ dead'[i] >= dead[i]
        /\ failed'[i] = failed[i]
    BY <1>1 DEF MirrorTrue, DeathsCounted
  <2>2. CASE M \subseteq L
    <3>1. IsFiniteSet(M) /\ Cardinality(M) <= Cardinality(L)
          /\ Cardinality(M) \in Nat /\ Cardinality(L) \in Nat
      BY <2>1, <2>2, FS_Subset, FS_CardinalityType
    <3>. HIDE DEF L, M
    <3>2. failed[i] + Cardinality(M) <= dead[i]
      BY <2>1, <3>1
    <3>3. failed'[i] + Cardinality(M) <= dead'[i]
      BY <2>1, <3>1, <3>2
    <3> QED BY <3>1, <3>3 DEF M
  <2>3. ASSUME NEW u, M \subseteq L \cup {u}, dead'[i] = dead[i] + 1
        PROVE  IsFiniteSet(M) /\ failed'[i] + Cardinality(M) <= dead'[i]
    <3>1. /\ IsFiniteSet(L \cup {u}) /\ Cardinality(L) \in Nat
          /\ Cardinality(L \cup {u}) <= Cardinality(L) + 1
          /\ Cardinality(L \cup {u}) \in Nat
      BY <2>1, OneMore
    <3>2. IsFiniteSet(M) /\ Cardinality(M) <= Cardinality(L \cup {u}) /\ Cardinality(M) \in Nat
      BY <2>3, <3>1, FS_Subset, FS_CardinalityType
    <3>. HIDE DEF L, M
    <3> QED BY <2>1, <2>3, <3>1, <3>2
  <2> QED BY <2>2, <2>3
<1>4. MirrorInventsNothing'
  <2>1. ASSUME NEW i \in Ids
        PROVE  /\ row'[i].st = "COMPLETED" => completed'[i] > 0
               /\ row'[i].st = "DEAD_LETTERED" => dead'[i] > 0
               /\ failed'[i] <= dead'[i]
    BY <1>1 DEF MirrorTrue, MirrorInventsNothing
  <2> QED BY <2>1 DEF MirrorInventsNothing
<1> QED BY <1>2, <1>3, <1>4 DEF MirrorTrue, DeathsCounted

\* What Emits of one type adds to the letters of a job.
LEMMA EmitsLetters ==
  ASSUME NEW type, NEW is, NEW n, NEW u \in Emits(type, is, n)
  PROVE  /\ u.type = type /\ u.id \in is
         /\ u = [type |-> type, id |-> u.id, n |-> n[u.id], life |-> lives[u.id]]
  BY DEF Emits

\* A turn of the dispatcher tells of the jobs it finds no handler for.
LEMMA DispatchTells ==
  ASSUME IInv, IInv', MirrorTrue, Dispatch
  PROVE  MirrorTrue'
<1>. DEFINE refused == Started \cap Unhandled
            A == Emits("active", Started \ refused, pending)
            D == Emits("dead", refused, pending)
<1>1. /\ updates' = updates \cup A \cup D /\ UNCHANGED <<row, failed, completed>>
      /\ refused \subseteq Ids
      /\ \A i \in Ids : dead'[i] = IF i \in refused THEN dead[i] + 1 ELSE dead[i]
      /\ dead \in [Ids -> Nat] /\ completed \in [Ids -> Nat]
  BY DEF Dispatch, Started, IInv, TypeOK
<1>2. \A u \in A : u.type = "active"
  BY EmitsLetters
<1>3. \A u \in D : /\ u.type = "dead" /\ u.id \in refused
                   /\ u = [type |-> "dead", id |-> u.id, n |-> pending[u.id], life |-> lives[u.id]]
  BY EmitsLetters
<1>. HIDE DEF A, D, refused
<1>4. \A i \in Ids : completed'[i] >= completed[i] /\ dead'[i] >= dead[i]
  BY <1>1
<1>5. \A u \in updates' \ updates : /\ u.type = "completed" => completed'[u.id] > 0
                                    /\ u.type \in {"dead", "deadRow"} => dead'[u.id] > 0
  BY <1>1, <1>2, <1>3
<1>6. ASSUME NEW i \in Ids
      PROVE  \/ Letters(i)' \subseteq Letters(i)
             \/ /\ dead'[i] = dead[i] + 1
                /\ \E u : Letters(i)' \subseteq Letters(i) \cup {u}
  <2>1. CASE i \in refused
    <3>. DEFINE u == [type |-> "dead", id |-> i, n |-> pending[i], life |-> lives[i]]
    <3>1. Letters(i)' \subseteq Letters(i) \cup {u}
      BY <1>1, <1>2, <1>3 DEF Letters
    <3> QED BY <1>1, <2>1, <3>1
  <2>2. CASE i \notin refused
    BY <1>1, <1>2, <1>3, <2>2 DEF Letters
  <2> QED BY <2>1, <2>2
<1> QED BY <1>1, <1>4, <1>5, <1>6, TellsTruth

\* An attempt that ends tells of its own job.
LEMMA SettlesTells ==
  ASSUME IInv, IInv', MirrorTrue, NEW i \in Ids,
         NEW hopeless \in BOOLEAN, UNCHANGED <<row, failed>>,
         \/ Completes(i)
         \/ Failed(i, hopeless) /\ UNCHANGED completed
  PROVE  MirrorTrue'
<1>1. dead \in [Ids -> Nat] /\ completed \in [Ids -> Nat]
  BY DEF IInv, TypeOK
<1>2. CASE Completes(i)
  <2>. DEFINE E == Emits("completed", {i}, running)
  <2>1. /\ updates' = updates \cup E /\ UNCHANGED dead
        /\ completed' = [completed EXCEPT ![i] = @ + 1]
    BY <1>2 DEF Completes
  <2>2. \A u \in E : u.type = "completed" /\ u.id = i
    BY EmitsLetters
  <2>. HIDE DEF E
  <2>3. \A j \in Ids : Letters(j)' \subseteq Letters(j)
    BY <2>1, <2>2 DEF Letters
  <2>4. /\ completed'[i] > 0
        /\ \A j \in Ids : completed'[j] >= completed[j] /\ dead'[j] >= dead[j]
    BY <1>1, <2>1
  <2>5. \A u \in updates' \ updates : /\ u.type = "completed" => completed'[u.id] > 0
                                      /\ u.type \in {"dead", "deadRow"} => dead'[u.id] > 0
    BY <2>1, <2>2, <2>4
  <2> QED BY <2>3, <2>4, <2>5, TellsTruth
<1>3. CASE Failed(i, hopeless) /\ UNCHANGED completed /\ (hopeless \/ running[i] >= MaxAttempts)
  <2>. DEFINE E == Emits("dead", {i}, running)
              v == [type |-> "dead", id |-> i, n |-> running[i], life |-> lives[i]]
  <2>1. /\ updates' = updates \cup E /\ UNCHANGED completed
        /\ dead' = [dead EXCEPT ![i] = @ + 1]
    BY <1>3 DEF Failed
  <2>2. \A u \in E : u.type = "dead" /\ u.id = i /\ u = v
    BY EmitsLetters
  <2>. HIDE DEF E, v
  <2>3. Letters(i)' \subseteq Letters(i) \cup {v} /\ \A j \in Ids \ {i} : Letters(j)' \subseteq Letters(j)
    BY <2>1, <2>2 DEF Letters
  <2>4. /\ dead'[i] > 0 /\ dead'[i] = dead[i] + 1
        /\ \A j \in Ids : completed'[j] >= completed[j] /\ dead'[j] >= dead[j]
    BY <1>1, <2>1
  <2>5. \A u \in updates' \ updates : /\ u.type = "completed" => completed'[u.id] > 0
                                      /\ u.type \in {"dead", "deadRow"} => dead'[u.id] > 0
    BY <2>1, <2>2, <2>4
  <2> QED BY <2>3, <2>4, <2>5, TellsTruth
<1>4. CASE Failed(i, hopeless) /\ UNCHANGED completed /\ ~(hopeless \/ running[i] >= MaxAttempts)
  <2>. DEFINE E == Emits("retry", {i}, running)
  <2>1. updates' = updates \cup E /\ UNCHANGED <<completed, dead>>
    BY <1>4 DEF Failed
  <2>2. \A u \in E : u.type = "retry"
    BY EmitsLetters
  <2>. HIDE DEF E
  <2>3. \A j \in Ids : Letters(j)' \subseteq Letters(j)
    BY <2>1, <2>2 DEF Letters
  <2>4. \A j \in Ids : completed'[j] >= completed[j] /\ dead'[j] >= dead[j]
    BY <1>1, <2>1
  <2>5. \A u \in updates' \ updates : u.type = "retry"
    BY <2>1, <2>2
  <2> QED BY <2>3, <2>4, <2>5, TellsTruth
<1> QED BY <1>2, <1>3, <1>4

\* The mirror writes what it was told.
LEMMA MirrorWrites ==
  ASSUME IInv, IInv', MirrorTrue, NEW u \in updates, Applies(u) \/ Inserts(u)
  PROVE  MirrorTrue'
<1>1. /\ completed \in [Ids -> Nat] /\ dead \in [Ids -> Nat] /\ failed \in [Ids -> Nat]
      /\ row \in [Ids -> [st : RowStates, attempts : 0 .. MaxAttempts]]
      /\ updates \subseteq UpdateType /\ u \in UpdateType /\ u.id \in Ids
      /\ UNCHANGED <<completed, dead>>
  BY DEF IInv, TypeOK, UpdateType, Applies, Inserts, ended
<1>2. /\ u.type = "completed" => completed[u.id] > 0
      /\ u.type \in {"dead", "deadRow"} => dead[u.id] > 0
  BY DEF MirrorTrue, Told
<1>3. CASE Applies(u)
  <2>. DEFINE w(type) == [type |-> type, id |-> u.id, n |-> u.n, life |-> u.life]
  <2>1. UNCHANGED failed
    BY <1>3 DEF Applies
  <2>2. \/ u.type \in {"active", "completed", "retry"} /\ updates' \subseteq (updates \ {u}) \cup {w("retryRow")}
        \/ u.type = "dead" /\ updates' \subseteq (updates \ {u}) \cup {w("deadRow")}
    BY <1>3 DEF Applies, Then
  <2>3. Told'
    BY <1>1, <1>2, <2>2 DEF MirrorTrue, Told
  <2>4. ASSUME NEW i \in Ids
        PROVE  IsFiniteSet(Letters(i)') /\ failed'[i] + Cardinality(Letters(i)') <= dead'[i]
    <3>. DEFINE L == Letters(i)
                M == Letters(i)'
    <3>1. IsFiniteSet(L) /\ failed[i] + Cardinality(L) <= dead[i] /\ failed'[i] = failed[i]
          /\ dead'[i] = dead[i] /\ failed[i] \in Nat /\ dead[i] \in Nat
      BY <1>1, <2>1 DEF MirrorTrue, DeathsCounted
    <3>2. \/ M \subseteq L
          \/ u \in L /\ M \subseteq (L \ {u}) \cup {w("deadRow")}
      BY <2>2 DEF Letters
    <3>3. IsFiniteSet(M) /\ Cardinality(M) <= Cardinality(L)
      <4>1. CASE M \subseteq L
        BY <3>1, <4>1, FS_Subset
      <4>2. CASE u \in L /\ M \subseteq (L \ {u}) \cup {w("deadRow")}
        <5>. DEFINE N == (L \ {u}) \cup {w("deadRow")}
        <5>1. IsFiniteSet(L \ {u}) /\ Cardinality(L \ {u}) = Cardinality(L) - 1
              /\ Cardinality(L) \in Nat /\ Cardinality(L \ {u}) \in Nat
          BY <3>1, <4>2, FS_RemoveElement, FS_CardinalityType
        <5>2. IsFiniteSet(N) /\ Cardinality(N) <= Cardinality(L \ {u}) + 1
          BY <5>1, OneMore
        <5>3. IsFiniteSet(M) /\ Cardinality(M) <= Cardinality(N)
              /\ Cardinality(M) \in Nat /\ Cardinality(N) \in Nat
          BY <4>2, <5>2, FS_Subset, FS_CardinalityType
        <5>. HIDE DEF L, M, N
        <5> QED BY <5>1, <5>2, <5>3
      <4> QED BY <3>2, <4>1, <4>2
    <3>4. Cardinality(M) \in Nat /\ Cardinality(L) \in Nat
      BY <3>1, <3>3, FS_CardinalityType
    <3>. HIDE DEF L, M
    <3>5. failed'[i] + Cardinality(M) <= dead'[i]
      BY <3>1, <3>3, <3>4
    <3> QED BY <3>3, <3>5 DEF M
  <2>5. \A i \in Ids : \/ row'[i].st = row[i].st
                       \/ i = u.id /\ row'[i].st \in {"RUNNING"}
                       \/ i = u.id /\ row'[i].st = "COMPLETED" /\ u.type = "completed"
                       \/ i = u.id /\ row'[i].st = "DEAD_LETTERED" /\ u.type = "dead"
    BY <1>1, <1>3 DEF Applies, Becomes
  <2>6. MirrorInventsNothing'
    BY <1>1, <1>2, <2>1, <2>5 DEF MirrorTrue, MirrorInventsNothing
  <2> QED BY <2>3, <2>4, <2>6 DEF MirrorTrue, DeathsCounted
<1>4. CASE Inserts(u)
  <2>1. updates' = updates \ {u} /\ UNCHANGED row
    BY <1>4 DEF Inserts
  <2>2. Told'
    BY <1>1, <2>1 DEF MirrorTrue, Told
  <2>3. ASSUME NEW i \in Ids
        PROVE  IsFiniteSet(Letters(i)') /\ failed'[i] + Cardinality(Letters(i)') <= dead'[i]
               /\ failed'[i] \in Nat
    <3>. DEFINE L == Letters(i)
                M == Letters(i)'
    <3>1. IsFiniteSet(L) /\ failed[i] + Cardinality(L) <= dead[i]
          /\ dead'[i] = dead[i] /\ failed[i] \in Nat /\ dead[i] \in Nat
      BY <1>1 DEF MirrorTrue, DeathsCounted
    <3>2. M = L \ {u}
      BY <2>1 DEF Letters
    <3>3. /\ IsFiniteSet(M) /\ Cardinality(M) \in Nat /\ Cardinality(L) \in Nat
          /\ Cardinality(M) = IF u \in L THEN Cardinality(L) - 1 ELSE Cardinality(L)
      BY <3>1, <3>2, FS_RemoveElement, FS_CardinalityType
    <3>4. \/ failed'[i] = failed[i]
          \/ failed'[i] = failed[i] + 1 /\ u \in L
      BY <1>1, <1>4 DEF Inserts, Letters
    <3>. HIDE DEF L, M
    <3>5. failed'[i] + Cardinality(M) <= dead'[i] /\ failed'[i] \in Nat
      BY <3>1, <3>3, <3>4
    <3> QED BY <3>3, <3>5 DEF M
  <2>4. MirrorInventsNothing'
    <3>1. ASSUME NEW i \in Ids
          PROVE  failed'[i] <= dead'[i]
      <4>1. Cardinality(Letters(i)') \in Nat /\ dead'[i] \in Nat
        BY <1>1, <2>3, FS_CardinalityType
      <4>2. failed'[i] + Cardinality(Letters(i)') <= dead'[i] /\ failed'[i] \in Nat
        BY <2>3
      <4> QED BY <4>1, <4>2
    <3> QED BY <1>1, <2>1, <3>1 DEF MirrorTrue, MirrorInventsNothing
  <2> QED BY <2>2, <2>3, <2>4 DEF MirrorTrue, DeathsCounted
<1> QED BY <1>3, <1>4

\* Every step keeps the mirror true.
LEMMA MirrorNext == IInv /\ MirrorTrue /\ [Next]_vars => MirrorTrue'
<1>. SUFFICES ASSUME IInv, IInv', MirrorTrue, [Next]_vars PROVE MirrorTrue'
  BY StepInv
<1>1. CASE Dispatch
  BY <1>1, DispatchTells
<1>2. ASSUME NEW i \in Ids, Completes(i) \/ Throws(i) \/ TimesOut(i)
      PROVE  MirrorTrue'
  <2>1. /\ UNCHANGED <<row, failed>>
        /\ \E hopeless \in BOOLEAN : Completes(i) \/ (Failed(i, hopeless) /\ UNCHANGED completed)
    BY <1>2 DEF Completes, Throws, TimesOut
  <2> QED BY <2>1, SettlesTells
<1>3. CASE Mirror
  BY <1>3, MirrorWrites DEF Mirror
\* A row that is new says QUEUED.
<1>4. ASSUME UNCHANGED <<failed, completed, dead>>, UNCHANGED updates \/ updates' = {},
             \A i \in Ids : row'[i].st = row[i].st \/ row'[i].st = "QUEUED"
      PROVE  MirrorTrue'
  <2>1. Told'
    BY <1>4 DEF MirrorTrue, Told
  <2>2. ASSUME NEW i \in Ids
        PROVE  IsFiniteSet(Letters(i)') /\ failed'[i] + Cardinality(Letters(i)') <= dead'[i]
    <3>1. IsFiniteSet(Letters(i)) /\ failed[i] + Cardinality(Letters(i)) <= dead[i]
          /\ failed[i] \in Nat /\ dead[i] \in Nat /\ failed[i] <= dead[i]
      BY DEF MirrorTrue, DeathsCounted, MirrorInventsNothing, IInv, TypeOK
    <3>2. CASE UNCHANGED updates
      <4>1. Letters(i)' = Letters(i)
        BY <3>2 DEF Letters
      <4> QED BY <1>4, <3>1, <4>1
    <3>3. CASE updates' = {}
      <4>1. Letters(i)' = {}
        BY <3>3 DEF Letters
      <4> QED BY <1>4, <3>1, <4>1, FS_EmptySet
    <3> QED BY <1>4, <3>2, <3>3
  <2>3. MirrorInventsNothing'
    BY <1>4 DEF MirrorTrue, MirrorInventsNothing
  <2> QED BY <2>1, <2>2, <2>3 DEF MirrorTrue, DeathsCounted
<1>5. ASSUME NEW p \in Producers, NEW i \in Ids, RecordQueued(p, i)
      PROVE  MirrorTrue'
  <2>1. \A j \in Ids : row'[j].st = row[j].st \/ row'[j].st = "QUEUED"
    BY <1>5 DEF RecordQueued, IInv, TypeOK
  <2> QED BY <1>4, <1>5, <2>1 DEF RecordQueued, ended
<1>6. CASE UNCHANGED <<row, failed, completed, dead>> /\ (UNCHANGED updates \/ updates' = {})
  BY <1>4, <1>6
<1> QED BY <1>1, <1>2, <1>3, <1>5, <1>6
    DEF Next, Produce, Enqueue, EnqueueRefused, Driver, Start, Close, Closed, Crash, BecomesDue,
        Settles, LateResult, UpsertSchedule, Fires, mirror, ended, vars

\* However updates are delayed, lost with the process or run in another order,
\* no row claims an outcome the queue has not reported, and there are no more
\* dead letters than deaths.
THEOREM MirrorIsTrue == Spec => []MirrorInventsNothing
<1>1. Init => MirrorTrue
  <2>. SUFFICES ASSUME Init PROVE MirrorTrue
    OBVIOUS
  <2>1. \A i \in Ids : Letters(i) = {}
    BY DEF Init, Letters
  <2> QED BY <2>1, FS_EmptySet DEF Init, MirrorTrue, Told, DeathsCounted,
             MirrorInventsNothing, Zero, NoRow
<1>2. IInv /\ MirrorTrue /\ [Next]_vars => MirrorTrue'
  BY MirrorNext
<1>3. MirrorTrue => MirrorInventsNothing
  BY DEF MirrorTrue
<1> QED BY <1>1, <1>2, <1>3, Invariance, PTL DEF Spec

-----------------------------------------------------------------------------
(* MemoryQueue implements JobLifecycle.                                     *)

\* Nothing is in flight in a fresh process.
LEMMA InitRefines == Init => Lifecycle!Init
  BY DEF Init, Stage, Lifecycle!Init, Lifecycle!Out

\* An acceptance of a job that is not in flight.
LEMMA AcceptRefines ==
  ASSUME IInv, IInv', NEW i \in Ids, Accepts(i, FALSE) \/ Accepts(i, TRUE), i \notin inFlight,
         mode \in {"stopped", "running"}, UNCHANGED <<mode, running>>
  PROVE  Lifecycle!Accept(i)
<1>1. /\ pending' = [pending EXCEPT ![i] = 1]
      /\ inFlight' = inFlight \cup {i}
  BY DEF Accepts
<1>2. running[i] = 0
  BY DEF IInv, TypeOK, InFlightExact
<1>3. Stage' = [Stage EXCEPT ![i] = [at |-> "waiting", n |-> 1]]
  <2>1. ASSUME NEW j \in Ids
        PROVE  Stage'[j] = IF j = i THEN [at |-> "waiting", n |-> 1] ELSE Stage[j]
    <3>1. CASE j = i
      <4>1. j \in inFlight' /\ mode' # "closed" /\ ~(running'[j] > 0) /\ pending'[j] = 1
        BY <1>1, <1>2, <3>1 DEF IInv, TypeOK
      <4> QED BY <3>1, <4>1 DEF Stage
    <3>2. CASE j # i
      <4>1. /\ j \in inFlight' <=> j \in inFlight
            /\ running'[j] = running[j] /\ pending'[j] = pending[j] /\ mode' = mode
        BY <1>1, <3>2 DEF IInv, TypeOK
      <4> QED BY <3>2, <4>1 DEF Stage
    <3> QED BY <3>1, <3>2
  <2> QED BY <2>1 DEF Stage
<1> QED BY <1>3 DEF Lifecycle!Accept, Lifecycle!Waits, Lifecycle!Out, Stage

\* A turn of the dispatcher starts some waiting jobs and refuses others.
LEMMA TurnRefines ==
  ASSUME IInv, Dispatch
  PROVE  \E started, refused \in SUBSET Ids : Lifecycle!Turn(started, refused)
<1> DEFINE refused == Started \cap Unhandled
           started == Started \ refused
<1>1. Started \subseteq Ids /\ \A i \in Started : pending[i] > 0
  BY DEF Started, IInv, TypeOK, DuePending
<1>2. mode = "running" /\ mode' = "running"
  BY DEF Dispatch
<1>3. \A i \in Started : Stage[i] = [at |-> "waiting", n |-> pending[i]]
  BY <1>1, <1>2, SMTT(30) DEF Stage, IInv, TypeOK, InFlightExact
<1>4. Stage' = [i \in Ids |-> IF i \in refused THEN [at |-> "out", n |-> 0]
                             ELSE IF i \in started THEN [at |-> "running", n |-> Stage[i].n]
                             ELSE Stage[i]]
  <2>1. ASSUME NEW i \in Ids
        PROVE  Stage'[i] = IF i \in refused THEN [at |-> "out", n |-> 0]
                           ELSE IF i \in started THEN [at |-> "running", n |-> Stage[i].n]
                           ELSE Stage[i]
    <3>1. /\ pending'[i] = IF i \in Started THEN 0 ELSE pending[i]
          /\ running'[i] = IF i \in Started \ refused THEN pending[i] ELSE running[i]
          /\ inFlight' = inFlight \ refused
      BY DEF Dispatch
    <3>2. i \in Started => pending[i] > 0 /\ i \in inFlight
      BY <1>1, <1>2 DEF IInv, TypeOK, InFlightExact
    <3> QED BY <3>1, <3>2, <1>2, <1>3 DEF Stage
  <2> QED BY <2>1 DEF Stage
<1>5. Lifecycle!Turn(started, refused)
  <2>1. ASSUME NEW i \in started \cup refused PROVE Stage[i].at = "waiting"
    <3>1. Stage[i] = [at |-> "waiting", n |-> pending[i]]
      BY <1>3
    <3> QED BY <3>1
  <2> QED BY <1>4, <2>1 DEF Lifecycle!Turn, Lifecycle!Out, Lifecycle!Runs
<1> QED BY <1>1, <1>5

\* A completed attempt ends its job, unless close() has dropped it already.
LEMMA CompletesRefines ==
  ASSUME IInv, NEW i \in Ids, Completes(i)
  PROVE  Lifecycle!End(i) \/ Stage' = Stage
<1>1. CASE mode = "closed"
  BY <1>1 DEF Completes, Stage
<1>2. CASE mode # "closed"
  <2>1. i \in inFlight /\ running[i] > 0
    BY <1>2 DEF IInv, TypeOK, InFlightExact, Completes
  <2>2. Stage' = [Stage EXCEPT ![i] = [at |-> "out", n |-> 0]]
    BY <1>2 DEF Stage, Completes, IInv, TypeOK
  <2>3. Stage[i].at = "running"
    BY <1>2, <2>1 DEF Stage
  <2> QED BY <2>2, <2>3 DEF Lifecycle!End, Lifecycle!Out
<1> QED BY <1>1, <1>2

\* A failed attempt is retried within its limit, or ends its job.
LEMMA FailedRefines ==
  ASSUME IInv, NEW i \in Ids, running[i] > 0, NEW hopeless \in BOOLEAN, Failed(i, hopeless), mode' = mode
  PROVE  Lifecycle!End(i) \/ Lifecycle!Retry(i) \/ Stage' = Stage
<1>1. CASE mode = "closed"
  BY <1>1 DEF Stage
<1>2. CASE mode # "closed"
  <2>1. i \in inFlight /\ Stage[i] = [at |-> "running", n |-> running[i]]
    BY <1>2 DEF IInv, TypeOK, InFlightExact, Stage
  <2>2. CASE hopeless \/ running[i] >= MaxAttempts
    <3>1. Stage' = [Stage EXCEPT ![i] = [at |-> "out", n |-> 0]]
      BY <1>2, <2>2 DEF Stage, Failed, IInv, TypeOK
    <3> QED BY <2>1, <3>1 DEF Lifecycle!End, Lifecycle!Out
  <2>3. CASE ~(hopeless \/ running[i] >= MaxAttempts)
    <3>1. running[i] \in Nat /\ running[i] < MaxAttempts
      BY <2>3, LimitsAssumption DEF IInv, TypeOK
    <3>2. Stage' = [Stage EXCEPT ![i] = [at |-> "waiting", n |-> running[i] + 1]]
      <4>1. ASSUME NEW j \in Ids
            PROVE  Stage'[j] = IF j = i THEN [at |-> "waiting", n |-> running[i] + 1]
                               ELSE Stage[j]
        <5>1. CASE j = i
          <6>1. /\ j \in inFlight' /\ mode' # "closed" /\ ~(running'[j] > 0)
                /\ pending'[j] = running[i] + 1
            BY <1>2, <2>1, <2>3, <5>1 DEF Failed, IInv, TypeOK
          <6> QED BY <5>1, <6>1 DEF Stage
        <5>2. CASE j # i
          <6>1. /\ j \in inFlight' <=> j \in inFlight
                /\ running'[j] = running[j] /\ pending'[j] = pending[j] /\ mode' = mode
            BY <2>3, <5>2 DEF Failed, IInv, TypeOK
          <6> QED BY <5>2, <6>1 DEF Stage
        <5> QED BY <5>1, <5>2
      <4> QED BY <4>1 DEF Stage
    <3> QED BY <2>1, <3>1, <3>2 DEF Lifecycle!Retry, Lifecycle!Waits
  <2> QED BY <2>2, <2>3
<1> QED BY <1>1, <1>2

\* Every step of the queue is a step of the lifecycle or leaves it alone.
LEMMA StepRefines == IInv /\ IInv' /\ [Next]_vars => [Lifecycle!Next]_Stage
<1> SUFFICES ASSUME IInv, IInv', [Next]_vars PROVE Lifecycle!Next \/ Stage' = Stage
  OBVIOUS
<1>1. ASSUME NEW p \in Producers, Produce(p) PROVE Lifecycle!Next \/ Stage' = Stage
  <2>1. ASSUME NEW delayed \in BOOLEAN, Enqueue(p, delayed)
        PROVE  Lifecycle!Next \/ Stage' = Stage
    <3>1. producer[p] \in Ids
      BY <2>1 DEF IInv, TypeOK, Enqueue
    <3>2. CASE producer[p] \in inFlight
      BY <2>1, <3>2 DEF Enqueue, Stage
    <3>3. CASE producer[p] \notin inFlight
      BY <2>1, <3>1, <3>3, AcceptRefines DEF Enqueue, Lifecycle!Next
    <3> QED BY <3>2, <3>3
  <2>2. CASE EnqueueRefused(p)
    BY <2>2 DEF EnqueueRefused, driver, Stage
  <2>3. ASSUME NEW i \in Ids, RecordQueued(p, i) PROVE Stage' = Stage
    BY <2>3 DEF RecordQueued, driver, Stage
  <2> QED BY <1>1, <2>1, <2>2, <2>3 DEF Produce
<1>2. ASSUME Driver PROVE Lifecycle!Next \/ Stage' = Stage
  <2>1. CASE Start
    BY <2>1 DEF Start, driver, Stage
  <2>2. CASE Dispatch
    BY <2>2, TurnRefines DEF Lifecycle!Next
  <2>3. CASE Close
    BY <2>3 DEF Close, driver, Stage
  <2>4. CASE Closed
    BY <2>4 DEF Closed, Stage, Lifecycle!Next, Lifecycle!Drop, Lifecycle!Out
  <2>5. CASE Crash
    BY <2>5 DEF Crash, Stage, Lifecycle!Next, Lifecycle!Drop, Lifecycle!Out
  <2>6. ASSUME NEW i \in Ids, BecomesDue(i) \/ LateResult(i) PROVE Stage' = Stage
    BY <2>6 DEF BecomesDue, LateResult, driver, Stage
  <2>7. ASSUME NEW i \in Ids, Completes(i) PROVE Lifecycle!Next \/ Stage' = Stage
    BY <2>7, CompletesRefines DEF Lifecycle!Next
  <2>8. ASSUME NEW i \in Ids, Throws(i) \/ TimesOut(i)
        PROVE  Lifecycle!Next \/ Stage' = Stage
    BY <2>8, FailedRefines DEF Throws, TimesOut, Lifecycle!Next
  <2>9. ASSUME NEW s \in Schedules, UpsertSchedule(s) PROVE Stage' = Stage
    BY <2>9 DEF UpsertSchedule, driver, Stage
  <2>10. ASSUME NEW s \in Schedules, NEW i \in Ids, Fires(s, i)
         PROVE  Lifecycle!Next
    <3>1. i \notin inFlight
      BY <2>10 DEF Fires, IInv, TypeOK, OneOutcome
    <3> QED BY <2>10, <3>1, AcceptRefines DEF Fires, Lifecycle!Next
  <2> QED BY <1>2, <2>1, <2>2, <2>3, <2>4, <2>5, <2>6, <2>7, <2>8, <2>9, <2>10
          DEF Driver, Settles
<1>3. CASE Mirror
  BY <1>3 DEF Mirror, Applies, Inserts, driver, Stage
<1>4. CASE UNCHANGED vars
  BY <1>4 DEF vars, driver, Stage
<1> QED BY <1>1, <1>2, <1>3, <1>4 DEF Next

\* The driver implements the port's lifecycle: one life at a time per job id,
\* attempts in sequence and within their limit, one end, through crashes.
THEOREM Refinement == Spec => ImplementsLifecycle
  BY InitRefines, Invariance, StepRefines, PTL DEF Spec, ImplementsLifecycle, Lifecycle!Spec
=============================================================================
