------------------------- MODULE CampaignSend_proofs -------------------------
(***************************************************************************)
(* For any audience, batch size, number of workers and attempts, and any       *)
(* faults: a campaign that reads SENT has served everybody, a recipient is      *)
(* written to once and once more at most for each fault, and nobody is sent to   *)
(* once suppressed.                                                              *)
(***************************************************************************)
EXTENDS CampaignSend, FiniteSetTheorems, TLAPS

\* Where a handler is: opening the campaign, or at a batch of recipients.
Opening == {"materialize", "failEmpty", "kick"}
InBatch == {"gate", "send"} \cup Verdicts
Walking == InBatch \cup {"read", "quota", "select", "count", "remaining", "complete", "fail", "chain"}

IsBatch(j) == j.kind = "batch"
Unserved(r) == rec[r] \in {"NONE", "PENDING"}
Pending(r) == rec[r] = "PENDING"

\* What a handler carries is of a piece with where it stands.
CarriedBy(w) ==
  /\ held[w] => pc[w] # "idle"
  /\ pc[w] \in InBatch <=> todo[w] # {}
  /\ pc[w] \in {"idle", "claim"} \cup Opening => ~IsBatch(job[w])
  /\ pc[w] \in Walking => IsBatch(job[w])
Carried == \A w \in Workers : CarriedBy(w)

\* Before the one claim of the campaign nothing has happened, and while its audience is
\* made and its first batch named there is no batch yet, and no other such handler.
BatchAbroad == (\E j \in jobs : IsBatch(j)) \/ (\E w \in Workers : IsBatch(job[w]))
OneOpening ==
  /\ status \in {"DRAFT", "SCHEDULED"} =>
       /\ ~BatchAbroad /\ \A w \in Workers : pc[w] \notin Opening
       /\ \A r \in Recipients : rec[r] = "NONE" /\ mails[r] = 0
  /\ \A w \in Workers : pc[w] \in Opening =>
       /\ status = "SENDING" /\ ~BatchAbroad
       /\ \A v \in Workers : pc[v] \in Opening => v = w
       /\ pc[w] = "materialize" => \A r \in Recipients : rec[r] = "NONE"

\* Nobody waits behind a cursor: neither that of a job, nor a handler's.
BehindJob(j) == IsBatch(j) => \A r \in Recipients : Pending(r) => r > j.after
BehindAt(w) ==
  /\ IsBatch(job[w]) => \A r \in Recipients : Pending(r) => r > job[w].after /\ r > last[w]
  /\ pc[w] \in InBatch =>
       \A r \in Recipients : Pending(r) => r \in todo[w] \/ \A q \in todo[w] : q < r
Behind == (\A j \in jobs : BehindJob(j)) /\ \A w \in Workers : BehindAt(w)

\* Who completes the campaign found nobody, or found it over.
Over == status \notin {"DRAFT", "SCHEDULED", "SENDING"}
Done(w) == pc[w] = "complete" => Over \/ \A r \in Recipients : ~Pending(r)
Ended == NobodyLeftOut /\ \A w \in Workers : Done(w)

\* Who may yet write to r: a batch that waits, and a handler that has r before it.
MayServe(w, r) ==
  \/ /\ pc[w] \in {"materialize", "kick", "read", "quota", "select", "count", "remaining", "chain"}
     /\ Unserved(r)
  \/ pc[w] \in {"gate", "send"} /\ (r \in todo[w] \/ Unserved(r))
  \/ pc[w] \in Verdicts /\ r # cur(w) /\ (r \in todo[w] \/ Unserved(r))
Threats(r) ==
  {<<"job", j>> : j \in {k \in jobs : IsBatch(k) /\ Unserved(r)}}
    \cup {<<"worker", w>> : w \in {v \in Workers : MayServe(v, r)}}

\* What was written and what may yet be is paid for: the first by the campaign, the
\* others by a fault each.
Paid == \A r \in Recipients :
  IsFiniteSet(Threats(r)) /\ mails[r] + Cardinality(Threats(r)) <= 1 + faults

IInv == TypeOK /\ Carried /\ OneOpening /\ Behind /\ Ended /\ Paid

-----------------------------------------------------------------------------
(* Numbers.                                                                 *)

\* Of a finite set of numbers one is the greatest, and of some numbers one is the
\* least: finite sets are well founded, and the numbers above (below) each of them
\* are some.
LEMMA GreatestOf ==
  ASSUME NEW S \in SUBSET Nat, IsFiniteSet(S), S # {}
  PROVE  \E n \in S : \A k \in S : k <= n
<1> DEFINE Above(n) == {k \in S : n < k}
           F == {Above(n) : n \in S}
<1>1. IsWellFoundedOn(StrictSubsetOrdering(S), FiniteSubsetsOf(S))
  BY FS_StrictSubsetOrderingWellFounded
<1>2. F \subseteq FiniteSubsetsOf(S)
  <2>1. ASSUME NEW n \in S PROVE Above(n) \subseteq S /\ IsFiniteSet(Above(n))
    <3>1. Above(n) \in SUBSET S
      OBVIOUS
    <3> QED BY <3>1, FS_Subset
  <2> QED BY <2>1 DEF FiniteSubsetsOf
<1>3. F # {}
  OBVIOUS
<1>4. PICK x \in F : \A y \in F : ~(<<y, x>> \in StrictSubsetOrdering(S))
  <2> HIDE DEF F
  <2> QED BY <1>1, <1>2, <1>3, WFMin
<1>5. PICK n \in S : x = Above(n)
  OBVIOUS
<1>6. ASSUME NEW k \in S, n < k PROVE FALSE
  <2>1. Above(k) \in F /\ Above(k) \subseteq Above(n)
    <3>1. ASSUME NEW q \in Above(k) PROVE q \in Above(n)
      <4>1. n \in Nat /\ k \in Nat /\ q \in Nat
        OBVIOUS
      <4> QED BY <1>6, <4>1
    <3> QED BY <3>1
  <2>2. k \in Above(n) /\ k \notin Above(k)
    BY <1>6
  <2>3. Above(k) # Above(n)
    BY <2>2
  <2>4. Above(k) \subseteq S /\ Above(n) \subseteq S
    OBVIOUS
  <2> QED BY <1>4, <1>5, <2>1, <2>3, <2>4 DEF StrictSubsetOrdering
<1> QED BY <1>6

LEMMA LeastOf ==
  ASSUME NEW S \in SUBSET Nat, IsFiniteSet(S), S # {}
  PROVE  \E n \in S : \A k \in S : n <= k
<1> DEFINE Below(n) == {k \in S : k < n}
           F == {Below(n) : n \in S}
<1>1. IsWellFoundedOn(StrictSubsetOrdering(S), FiniteSubsetsOf(S))
  BY FS_StrictSubsetOrderingWellFounded
<1>2. F \subseteq FiniteSubsetsOf(S)
  <2>1. ASSUME NEW n \in S PROVE Below(n) \subseteq S /\ IsFiniteSet(Below(n))
    <3>1. Below(n) \in SUBSET S
      OBVIOUS
    <3> QED BY <3>1, FS_Subset
  <2> QED BY <2>1 DEF FiniteSubsetsOf
<1>3. F # {}
  OBVIOUS
<1>4. PICK x \in F : \A y \in F : ~(<<y, x>> \in StrictSubsetOrdering(S))
  <2> HIDE DEF F
  <2> QED BY <1>1, <1>2, <1>3, WFMin
<1>5. PICK n \in S : x = Below(n)
  OBVIOUS
<1>6. ASSUME NEW k \in S, k < n PROVE FALSE
  <2>1. Below(k) \in F /\ Below(k) \subseteq Below(n)
    <3>1. ASSUME NEW q \in Below(k) PROVE q \in Below(n)
      <4>1. n \in Nat /\ k \in Nat /\ q \in Nat
        OBVIOUS
      <4> QED BY <1>6, <4>1
    <3> QED BY <3>1
  <2>2. k \in Below(n) /\ k \notin Below(k)
    BY <1>6
  <2>3. Below(k) # Below(n)
    BY <2>2
  <2>4. Below(k) \subseteq S /\ Below(n) \subseteq S
    OBVIOUS
  <2> QED BY <1>4, <1>5, <2>1, <2>3, <2>4 DEF StrictSubsetOrdering
<1> QED BY <1>6

\* The greatest audience there may be.
LEMMA SizeFacts ==
  /\ Size \in Nat /\ \A n \in Audiences : n \in Nat /\ n <= Size
  /\ IsFiniteSet(Recipients) /\ Cardinality(Recipients) = Size
<1>1. \E n \in Audiences : \A m \in Audiences : m <= n
  BY SizeAssumption, GreatestOf
<1>2. Size \in Audiences /\ \A n \in Audiences : n <= Size
  BY <1>1 DEF Size
<1>3. Size \in Nat
  BY <1>2, SizeAssumption
<1>4. IsFiniteSet(1 .. Size) /\ Cardinality(1 .. Size) = Size
  BY <1>3, FS_Interval
<1> QED BY <1>2, <1>3, <1>4, SizeAssumption DEF Recipients

\* Some recipients are as many as they are, and the least of them is at hand.
LEMMA SomeFacts ==
  ASSUME NEW S \in SUBSET Recipients
  PROVE  /\ IsFiniteSet(S) /\ Cardinality(S) \in 0 .. Size
         /\ S # {} => \E r \in S : \A q \in S : r <= q
         /\ Cardinality(S) = 0 => S = {}
<1>1. IsFiniteSet(S) /\ Cardinality(S) <= Size /\ Cardinality(S) \in Nat
  BY SizeFacts, FS_Subset, FS_CardinalityType
<1>2. S # {} => \E r \in S : \A q \in S : r <= q
  BY <1>1, LeastOf, SizeFacts DEF Recipients
<1> QED BY <1>1, <1>2, FS_EmptySet, SizeFacts

\* The recipient a handler is at is the least of those before it.
LEMMA CurFacts ==
  ASSUME TypeOK, NEW w \in Workers, todo[w] # {}
  PROVE  cur(w) \in todo[w] /\ cur(w) \in Recipients /\ \A q \in todo[w] : cur(w) <= q
<1>1. todo[w] \subseteq Recipients
  BY DEF TypeOK
<1>2. \E r \in todo[w] : \A q \in todo[w] : r <= q
  BY <1>1, SomeFacts
<1> QED BY <1>1, <1>2 DEF cur

\* A batch is not empty if somebody is left, and leaves out only those after it.
LEMMA BatchFacts ==
  ASSUME NEW S \in SUBSET Recipients
  PROVE  /\ FirstOf(S) \subseteq S
         /\ FirstOf(S) = {} => S = {}
         /\ \A r \in S \ FirstOf(S) : \A q \in FirstOf(S) : q < r
<1> DEFINE Below(r) == {q \in S : q < r}
<1>1. \A r \in S : r \in FirstOf(S) <=> Cardinality(Below(r)) < BatchSize
  BY DEF FirstOf
<1>2. FirstOf(S) \subseteq S
  BY DEF FirstOf
<1>3. ASSUME S # {} PROVE FirstOf(S) # {}
  <2>1. PICK r \in S : \A q \in S : r <= q
    BY <1>3, SomeFacts
  <2>2. \A q \in S : ~(q < r)
    BY <2>1, SizeFacts DEF Recipients
  <2>3. Below(r) = {}
    BY <2>2
  <2>4. Cardinality(Below(r)) < BatchSize
    BY <2>3, FS_EmptySet, SizeAssumption
  <2> QED BY <1>1, <2>4
<1>4. ASSUME NEW r \in S \ FirstOf(S), NEW q \in FirstOf(S), ~(q < r) PROVE FALSE
  <2>1. r \in S /\ q \in S
    BY <1>2
  <2>2. ASSUME NEW k \in Below(r) PROVE k \in Below(q)
    <3>1. r \in Nat /\ q \in Nat /\ k \in Nat
      BY <2>1, SizeFacts DEF Recipients
    <3> QED BY <1>4, <3>1
  <2>3. Below(q) \in SUBSET Recipients /\ Below(r) \in SUBSET Recipients
    OBVIOUS
  <2>4. /\ IsFiniteSet(Below(q)) /\ Cardinality(Below(q)) \in Nat
        /\ Cardinality(Below(r)) \in Nat /\ Cardinality(Below(r)) <= Cardinality(Below(q))
    <3> HIDE DEF Below
    <3>1. Below(r) \in SUBSET Below(q)
      BY <2>2
    <3>2. IsFiniteSet(Below(q)) /\ IsFiniteSet(Below(r))
      BY <2>3, SomeFacts
    <3> QED BY <3>1, <3>2, FS_Subset, FS_CardinalityType
  <2>5. Cardinality(Below(q)) < BatchSize /\ ~(Cardinality(Below(r)) < BatchSize)
    BY <1>1, <1>2, <1>4
  <2> HIDE DEF Below
  <2> QED BY <2>4, <2>5, SizeAssumption
<1> QED BY <1>2, <1>3, <1>4

\* The two kinds of jobs, and the numbers they carry.
LEMMA JobFacts ==
  /\ Size \in Nat /\ 0 \in Cursors /\ Recipients \subseteq Cursors
  /\ \A r \in Recipients : r \in Nat /\ r > 0
  /\ DispatchJob \in Jobs /\ ~IsBatch(DispatchJob) /\ DispatchJob.after = 0
  /\ \A c \in Cursors : /\ BatchJob(c) \in Jobs /\ IsBatch(BatchJob(c))
                        /\ BatchJob(c).after = c
  /\ \A j \in Jobs : /\ j.after \in Cursors
                     /\ j.kind = "dispatch" <=> ~IsBatch(j)
<1>1. Size \in Nat
  BY SizeFacts
<1>2. 0 \in Cursors /\ Recipients \subseteq Cursors /\ \A r \in Recipients : r \in Nat /\ r > 0
  BY <1>1 DEF Cursors, Recipients
<1>3. DispatchJob \in Jobs /\ ~IsBatch(DispatchJob) /\ DispatchJob.after = 0
  BY DEF Jobs, DispatchJob, IsBatch
<1>4. ASSUME NEW c \in Cursors
      PROVE  BatchJob(c) \in Jobs /\ IsBatch(BatchJob(c)) /\ BatchJob(c).after = c
  BY DEF Jobs, BatchJob, IsBatch
<1>5. ASSUME NEW j \in Jobs PROVE j.after \in Cursors /\ (j.kind = "dispatch" <=> ~IsBatch(j))
  <2>1. CASE j = DispatchJob
    BY <1>2, <2>1 DEF DispatchJob, IsBatch
  <2>2. CASE \E c \in Cursors : j = BatchJob(c)
    BY <2>2 DEF BatchJob, IsBatch
  <2> QED BY <2>1, <2>2 DEF Jobs
<1> QED BY <1>1, <1>2, <1>3, <1>4, <1>5

-----------------------------------------------------------------------------
(* Types.                                                                   *)

Places == {"idle", "claim", "materialize", "failEmpty", "kick", "read", "quota",
           "select", "gate", "send", "count", "remaining", "complete", "fail",
           "chain", "leave"} \cup Verdicts
Statuses == {"DRAFT", "SCHEDULED", "SENDING", "SENT", "FAILED", "CANCELLED"}

\* The queue keeps its type whatever is asked of it.
QueueOK == jobs \subseteq Jobs /\ spent \subseteq Jobs /\ fails \in [Jobs -> Nat]

LEMMA EnqueueType ==
  ASSUME QueueOK, NEW j \in Jobs, Enqueue(j) PROVE QueueOK' /\ jobs' \subseteq jobs \cup {j}
BY DEF QueueOK, Enqueue

LEMMA JobFailsType ==
  ASSUME QueueOK, NEW j \in Jobs, JobFails(j) PROVE QueueOK' /\ jobs' \subseteq jobs \cup {j}
BY DEF QueueOK, JobFails

\* The handlers' variables keep theirs.
HandlersOK ==
  /\ pc \in [Workers -> Places] /\ job \in [Workers -> Jobs]
  /\ held \in [Workers -> BOOLEAN]
  /\ todo \in [Workers -> SUBSET Recipients] /\ last \in [Workers -> Cursors]

LEMMA GoesType ==
  ASSUME HandlersOK, NEW w \in Workers, NEW to \in Places, Goes(w, to),
         UNCHANGED <<job, held, todo, last>>
  PROVE  HandlersOK'
BY DEF HandlersOK, Goes

LEMMA ForgetsType ==
  ASSUME HandlersOK, NEW w \in Workers, Goes(w, "idle"), Forgets(w),
         held' = [held EXCEPT ![w] = FALSE]
  PROVE  HandlersOK'
<1>1. "idle" \in Places /\ 0 \in Cursors /\ DispatchJob \in Jobs
  BY JobFacts DEF Places
<1> QED BY <1>1 DEF HandlersOK, Goes, Forgets

LEMMA ReturnsType ==
  ASSUME QueueOK, HandlersOK, NEW w \in Workers, Returns(w)
  PROVE  QueueOK' /\ HandlersOK'
<1>1. HandlersOK'
  BY ForgetsType DEF Returns
<1>2. job[w] \in Jobs
  BY DEF HandlersOK
<1>3. QueueOK'
  BY <1>2 DEF QueueOK, Returns
<1> QED BY <1>1, <1>3

\* The rest of the state.
RestOK ==
  /\ status \in Statuses /\ due \in BOOLEAN
  /\ rec \in [Recipients -> {"NONE", "PENDING"} \cup Verdicts]
  /\ tally \in [Verdicts -> 0 .. Size]
  /\ noted \in [Recipients -> Nat] /\ mails \in [Recipients -> Nat]
  /\ suppressed \subseteq Recipients
  /\ callers \subseteq {"tick", "route"}
  /\ faults \in Nat

LEMMA TypeParts == /\ TypeOK <=> QueueOK /\ HandlersOK /\ RestOK
                   /\ TypeOK' <=> QueueOK' /\ HandlersOK' /\ RestOK'
BY DEF TypeOK, QueueOK, HandlersOK, RestOK, Places, Statuses

\* What the merchant, the tick and the world do.
Outside ==
  \/ \E now \in BOOLEAN : Schedule(now)
  \/ Cancel \/ Clock \/ TickScan
  \/ \E a \in {"tick", "route"} : CallDispatch(a) \/ CallerDies(a)
  \/ \E r \in Recipients : Suppress(r)

LEMMA OutsideType == ASSUME TypeOK, Outside PROVE TypeOK'
<1> USE DEF campaign, ledger, queue, worker
<1>1. QueueOK /\ HandlersOK /\ RestOK
  BY TypeParts
<1>2. ASSUME NEW now \in BOOLEAN, Schedule(now) PROVE QueueOK' /\ HandlersOK' /\ RestOK'
  BY <1>1, <1>2 DEF Schedule, QueueOK, HandlersOK, RestOK, Statuses
<1>3. ASSUME Cancel \/ Clock \/ TickScan PROVE QueueOK' /\ HandlersOK' /\ RestOK'
  BY <1>1, <1>3 DEF Cancel, Clock, TickScan, QueueOK, HandlersOK, RestOK, Statuses
<1>4. ASSUME NEW a \in {"tick", "route"}, CallDispatch(a) PROVE QueueOK' /\ HandlersOK' /\ RestOK'
  <2>1. QueueOK'
    BY <1>1, <1>4, JobFacts, EnqueueType DEF CallDispatch
  <2> QED BY <1>1, <1>4, <2>1 DEF CallDispatch, HandlersOK, RestOK
<1>5. ASSUME NEW a \in {"tick", "route"}, CallerDies(a) PROVE QueueOK' /\ HandlersOK' /\ RestOK'
  BY <1>1, <1>5 DEF CallerDies, QueueOK, HandlersOK, RestOK
<1>6. ASSUME NEW r \in Recipients, Suppress(r) PROVE QueueOK' /\ HandlersOK' /\ RestOK'
  BY <1>1, <1>6 DEF Suppress, QueueOK, HandlersOK, RestOK
<1> QED BY <1>2, <1>3, <1>4, <1>5, <1>6, TypeParts DEF Outside

\* A handler with a batch before it is at one of it.
LEMMA AtOne ==
  ASSUME TypeOK, Carried, NEW w \in Workers, pc[w] \in InBatch
  PROVE  cur(w) \in todo[w] /\ cur(w) \in Recipients /\ \A q \in todo[w] : cur(w) <= q
BY CurFacts DEF Carried, CarriedBy

LEMMA HandlerType ==
  ASSUME TypeOK, Carried, NEW w \in Workers, Works(w) PROVE TypeOK'
<1> USE DEF campaign, ledger, queue
<1>1. QueueOK /\ HandlersOK /\ RestOK
  BY TypeParts
<1>2. /\ {"materialize", "failEmpty", "kick", "leave", "quota", "complete", "select", "fail",
          "gate", "send", "SENT", "FAILED", "SKIPPED", "count", "remaining", "chain"}
            \subseteq Places
  BY DEF Places, Verdicts
<1> DEFINE Goal == QueueOK' /\ HandlersOK' /\ RestOK'
<1>3. ASSUME Claim(w) PROVE Goal
  <2>1. CASE status = "SCHEDULED"
    <3>1. HandlersOK'
      BY <1>1, <1>2, <1>3, <2>1, GoesType DEF Claim
    <3> QED BY <1>1, <1>3, <2>1, <3>1 DEF Claim, QueueOK, RestOK, Statuses
  <2>2. CASE status # "SCHEDULED"
    <3>1. QueueOK' /\ HandlersOK'
      BY <1>1, <1>3, <2>2, ReturnsType DEF Claim
    <3> QED BY <1>1, <1>3, <2>2, <3>1 DEF Claim, RestOK
  <2> QED BY <2>1, <2>2
<1>4. ASSUME Materialize(w) PROVE Goal
  <2>1. PICK n \in Audiences :
          /\ rec' = [r \in Recipients |-> IF r <= n /\ rec[r] = "NONE" THEN "PENDING" ELSE rec[r]]
          /\ Goes(w, IF n = 0 THEN "failEmpty" ELSE "kick")
    BY <1>4 DEF Materialize
  <2>2. HandlersOK'
    BY <1>1, <1>2, <1>4, <2>1, GoesType DEF Materialize
  <2> QED BY <1>1, <1>4, <2>1, <2>2 DEF Materialize, QueueOK, RestOK
<1>5. ASSUME FailEmpty(w) \/ Complete(w) \/ Fail(w) \/ Leave(w) PROVE Goal
  <2>1. QueueOK' /\ HandlersOK'
    BY <1>1, <1>5, ReturnsType DEF FailEmpty, Complete, Fail, Leave
  <2> QED BY <1>1, <1>5, <2>1 DEF FailEmpty, Complete, Fail, Leave, RestOK, Statuses
<1>6. ASSUME Kick(w) PROVE Goal
  <2>1. QueueOK' /\ HandlersOK'
    BY <1>1, <1>2, <1>6, EnqueueType, JobFacts, GoesType DEF Kick
  <2> QED BY <1>1, <1>6, <2>1 DEF Kick, RestOK
<1>7. ASSUME ReadCampaign(w) \/ CheckQuota(w) \/ Gate(w) \/ Remaining(w) PROVE Goal
  <2>1. HandlersOK'
    BY <1>1, <1>2, <1>7, GoesType DEF ReadCampaign, CheckQuota, Gate, Remaining
  <2> QED
    BY <1>1, <1>7, <2>1 DEF ReadCampaign, CheckQuota, Gate, Remaining, QueueOK, RestOK
<1>8. ASSUME Select(w) PROVE Goal
  <2> DEFINE S == {r \in Recipients : rec[r] = "PENDING" /\ r > job[w].after}
  <2>1. FirstOf(S) \subseteq Recipients
    BY DEF FirstOf
  <2>2. /\ todo' = [todo EXCEPT ![w] = FirstOf(S)]
        /\ Goes(w, IF FirstOf(S) = {} THEN "complete" ELSE "gate")
        /\ UNCHANGED <<campaign, ledger, suppressed, mails, callers, queue, job, held, last,
                       faults>>
    BY <1>8 DEF Select
  <2>3. HandlersOK'
    BY <1>1, <1>2, <2>1, <2>2 DEF HandlersOK, Goes
  <2> QED BY <1>1, <2>2, <2>3 DEF QueueOK, RestOK
<1>9. ASSUME Send(w) PROVE Goal
  <2>1. cur(w) \in Recipients
    BY <1>9, AtOne DEF Send, InBatch
  <2>2. HandlersOK'
    BY <1>1, <1>2, <1>9, GoesType DEF Send
  <2> QED BY <1>1, <1>9, <2>1, <2>2 DEF Send, QueueOK, RestOK
<1>10. ASSUME Record(w) PROVE Goal
  <2>1. cur(w) \in Recipients /\ cur(w) \in Cursors /\ pc[w] \in Verdicts
    BY <1>10, AtOne, JobFacts DEF Record, InBatch, Verdicts
  <2>2. HandlersOK'
    BY <1>1, <1>2, <1>10, <2>1 DEF Record, HandlersOK, Goes
  <2>3. rec' \in [Recipients -> {"NONE", "PENDING"} \cup Verdicts]
    BY <1>1, <1>10, <2>1 DEF Record, RestOK
  <2>4. noted' \in [Recipients -> Nat]
    BY <1>1, <1>10, <2>1 DEF Record, RestOK
  <2> QED BY <1>1, <1>10, <2>2, <2>3, <2>4 DEF Record, QueueOK, RestOK
<1>11. ASSUME Count(w) PROVE Goal
  <2>1. HandlersOK'
    BY <1>1, <1>2, <1>11, GoesType DEF Count
  <2>2. \A s \in Verdicts : CountOf(s) \in 0 .. Size
    BY SomeFacts DEF CountOf
  <2>3. DOMAIN Nobody = Verdicts
    BY DEF Nobody, Verdicts
  <2>4. tally' = [s \in DOMAIN Nobody |-> CountOf(s)]
    BY <1>11 DEF Count
  <2>5. tally' \in [Verdicts -> 0 .. Size]
    BY <2>2, <2>3, <2>4
  <2> QED BY <1>1, <1>11, <2>1, <2>5 DEF Count, QueueOK, RestOK
<1>12. ASSUME Chain(w) PROVE Goal
  <2>1. last[w] \in Cursors
    BY <1>1 DEF HandlersOK
  <2>2. QueueOK' /\ HandlersOK'
    BY <1>1, <1>2, <1>12, <2>1, EnqueueType, JobFacts, GoesType DEF Chain
  <2> QED BY <1>1, <1>12, <2>2 DEF Chain, RestOK
<1> QED BY <1>3, <1>4, <1>5, <1>6, <1>7, <1>8, <1>9, <1>10, <1>11, <1>12, TypeParts DEF Works

LEMMA QueueType ==
  ASSUME TypeOK, NEW w \in Workers,
         TimesOut(w) \/ Dies(w) \/ \E j \in Jobs : Take(w, j)
  PROVE  TypeOK'
<1> USE DEF campaign, ledger, queue
<1>1. QueueOK /\ HandlersOK /\ RestOK /\ job[w] \in Jobs
  BY TypeParts DEF HandlersOK
<1>2. ASSUME TimesOut(w) PROVE QueueOK' /\ HandlersOK' /\ RestOK'
  <2>1. QueueOK'
    BY <1>1, <1>2, JobFailsType DEF TimesOut
  <2> QED BY <1>1, <1>2, <2>1 DEF TimesOut, HandlersOK, RestOK
<1>3. ASSUME Dies(w) PROVE QueueOK' /\ HandlersOK' /\ RestOK'
  <2>1. QueueOK'
    <3>1. CASE held[w]
      BY <1>1, <1>3, <3>1, JobFailsType DEF Dies
    <3>2. CASE ~held[w]
      BY <1>1, <1>3, <3>2 DEF Dies, QueueOK
    <3> QED BY <3>1, <3>2
  <2>2. HandlersOK'
    BY <1>1, <1>3, ForgetsType DEF Dies
  <2> QED BY <1>1, <1>3, <2>1, <2>2 DEF Dies, RestOK
<1>4. ASSUME NEW j \in Jobs, Take(w, j) PROVE QueueOK' /\ HandlersOK' /\ RestOK'
  <2>1. j.after \in Cursors
    BY JobFacts
  <2>2. HandlersOK'
    BY <1>1, <1>4, <2>1 DEF Take, HandlersOK, Places
  <2> QED BY <1>1, <1>4, <2>2 DEF Take, QueueOK, RestOK
<1> QED BY <1>2, <1>3, <1>4, TypeParts

-----------------------------------------------------------------------------
(* What a step leaves alone.                                                *)

\* No handler but w moves.
Alone(w) == \A v \in Workers \ {w} :
  /\ pc'[v] = pc[v] /\ job'[v] = job[v] /\ held'[v] = held[v]
  /\ todo'[v] = todo[v] /\ last'[v] = last[v] /\ cur(v)' = cur(v)

LEMMA GoesAlone ==
  ASSUME TypeOK, NEW w \in Workers, NEW to, Goes(w, to), UNCHANGED <<job, held, todo, last>>
  PROVE  /\ Alone(w) /\ pc'[w] = to /\ cur(w)' = cur(w)
         /\ job'[w] = job[w] /\ todo'[w] = todo[w] /\ last'[w] = last[w]
<1>1. pc'[w] = to /\ \A v \in Workers \ {w} : pc'[v] = pc[v]
  BY TypeParts DEF Goes, HandlersOK
<1>2. \A v \in Workers : cur(v)' = cur(v)
  BY DEF cur
<1> QED BY <1>1, <1>2 DEF Alone

LEMMA ForgetsAlone ==
  ASSUME TypeOK, NEW w \in Workers, Goes(w, "idle"), Forgets(w),
         held' = [held EXCEPT ![w] = FALSE]
  PROVE  /\ Alone(w) /\ pc'[w] = "idle" /\ job'[w] = DispatchJob
         /\ held'[w] = FALSE /\ todo'[w] = {} /\ last'[w] = 0
<1>1. HandlersOK
  BY TypeParts
<1>2. /\ pc'[w] = "idle" /\ job'[w] = DispatchJob
      /\ held'[w] = FALSE /\ todo'[w] = {} /\ last'[w] = 0
  BY <1>1 DEF Goes, Forgets, HandlersOK
<1>3. ASSUME NEW v \in Workers \ {w}
      PROVE  /\ pc'[v] = pc[v] /\ job'[v] = job[v] /\ held'[v] = held[v]
             /\ todo'[v] = todo[v] /\ last'[v] = last[v]
  BY <1>1 DEF Goes, Forgets, HandlersOK
<1>4. ASSUME NEW v \in Workers \ {w} PROVE cur(v)' = cur(v)
  BY <1>3 DEF cur
<1> QED BY <1>2, <1>3, <1>4 DEF Alone

\* Nobody comes to wait, and nobody comes to be unserved.
Fewer == \A r \in Recipients : (Pending(r)' => Pending(r)) /\ (Unserved(r)' => Unserved(r))

LEMMA FewerIfSame == ASSUME rec' = rec PROVE Fewer
BY DEF Fewer, Pending, Unserved

LEMMA CarriedRest ==
  ASSUME Carried, NEW w \in Workers, Alone(w), CarriedBy(w)' PROVE Carried'
<1>1. ASSUME NEW v \in Workers \ {w} PROVE CarriedBy(v)'
  BY DEF Carried, CarriedBy, Alone
<1> QED BY <1>1 DEF Carried

\* A batch is abroad where a handler walks: the campaign is past its claim, and nobody
\* opens it any more.
LEMMA WalkOpening ==
  ASSUME OneOpening, NEW w \in Workers, IsBatch(job[w]), Alone(w), pc'[w] \notin Opening,
         status' = status \/ status' \notin {"DRAFT", "SCHEDULED"}
  PROVE  OneOpening'
<1>1. BatchAbroad
  BY DEF BatchAbroad
<1>2. status \notin {"DRAFT", "SCHEDULED"} /\ \A v \in Workers : pc[v] \notin Opening
  BY <1>1 DEF OneOpening
<1>3. status' \notin {"DRAFT", "SCHEDULED"} /\ \A v \in Workers : pc'[v] \notin Opening
  BY <1>2 DEF Alone
<1> QED BY <1>3 DEF OneOpening

\* A handler that does not come to open, and brings no batch.
LEMMA RestOpening ==
  ASSUME OneOpening, NEW w \in Workers, Alone(w), pc'[w] \notin Opening,
         BatchAbroad' => BatchAbroad, UNCHANGED <<status, rec, mails>>
  PROVE  OneOpening'
<1>1. ASSUME status' \in {"DRAFT", "SCHEDULED"}
      PROVE  /\ ~BatchAbroad' /\ \A v \in Workers : pc'[v] \notin Opening
             /\ \A r \in Recipients : rec'[r] = "NONE" /\ mails'[r] = 0
  BY <1>1 DEF OneOpening, Alone
<1>2. ASSUME NEW v \in Workers, pc'[v] \in Opening
      PROVE  /\ status' = "SENDING" /\ ~BatchAbroad'
             /\ \A u \in Workers : pc'[u] \in Opening => u = v
             /\ pc'[v] = "materialize" => \A r \in Recipients : rec'[r] = "NONE"
  <2>1. v # w /\ pc[v] \in Opening /\ pc[v] = pc'[v]
    BY <1>2 DEF Alone
  <2> QED BY <2>1 DEF OneOpening, Alone
<1> QED BY <1>1, <1>2 DEF OneOpening

LEMMA BehindRest ==
  ASSUME Behind, NEW w \in Workers, Alone(w), Fewer, BehindAt(w)',
         \A j \in jobs' : j \in jobs \/ BehindJob(j)'
  PROVE  Behind'
<1>1. ASSUME NEW j \in jobs' PROVE BehindJob(j)'
  <2>1. CASE j \in jobs
    BY <2>1 DEF Behind, BehindJob, Fewer
  <2> QED BY <2>1
<1>2. ASSUME NEW v \in Workers \ {w} PROVE BehindAt(v)'
  <2>1. BehindAt(v)
    BY DEF Behind
  <2> QED BY <2>1 DEF BehindAt, Fewer, Alone
<1> QED BY <1>1, <1>2 DEF Behind

LEMMA EndedRest ==
  ASSUME Ended, NEW w \in Workers, Alone(w), Fewer, Done(w)', Over => Over',
         status' = status \/ status' # "SENT" \/ \A r \in Recipients : ~Pending(r)
  PROVE  Ended'
<1>1. NobodyLeftOut'
  BY DEF Ended, NobodyLeftOut, Fewer, Pending
<1>2. ASSUME NEW v \in Workers \ {w} PROVE Done(v)'
  BY DEF Ended, Done, Fewer, Alone
<1> QED BY <1>1, <1>2 DEF Ended

-----------------------------------------------------------------------------
(* What is paid for.                                                        *)

\* A set that loses, exchanges or gains an element.
LEMMA Exchange ==
  ASSUME NEW T, IsFiniteSet(T), NEW U, NEW a, NEW b
  PROVE  /\ Cardinality(T) \in Nat
         /\ U \subseteq T => IsFiniteSet(U) /\ Cardinality(U) \in Nat /\ Cardinality(U) <= Cardinality(T)
         /\ U \subseteq T \cup {b} =>
              IsFiniteSet(U) /\ Cardinality(U) \in Nat /\ Cardinality(U) <= Cardinality(T) + 1
         /\ a \in T /\ U \subseteq T \ {a} =>
              IsFiniteSet(U) /\ Cardinality(U) \in Nat /\ Cardinality(U) + 1 <= Cardinality(T)
         /\ a \in T /\ U \subseteq (T \ {a}) \cup {b} =>
              IsFiniteSet(U) /\ Cardinality(U) \in Nat /\ Cardinality(U) <= Cardinality(T)
<1>1. Cardinality(T) \in Nat
  BY FS_CardinalityType
<1>2. ASSUME NEW V, IsFiniteSet(V), U \subseteq V
      PROVE  IsFiniteSet(U) /\ Cardinality(U) \in Nat /\ Cardinality(U) <= Cardinality(V)
  BY <1>2, FS_Subset, FS_CardinalityType
<1>3. /\ IsFiniteSet(T \cup {b}) /\ Cardinality(T \cup {b}) \in Nat
      /\ Cardinality(T \cup {b}) <= Cardinality(T) + 1
  BY <1>1, FS_AddElement
<1>4. a \in T => /\ IsFiniteSet(T \ {a}) /\ Cardinality(T \ {a}) \in Nat
                 /\ Cardinality(T \ {a}) = Cardinality(T) - 1
  BY <1>1, FS_RemoveElement, FS_CardinalityType
<1>5. ASSUME a \in T
      PROVE  /\ IsFiniteSet((T \ {a}) \cup {b}) /\ Cardinality((T \ {a}) \cup {b}) \in Nat
             /\ Cardinality((T \ {a}) \cup {b}) <= Cardinality(T)
  <2> DEFINE D == T \ {a}
  <2>1. IsFiniteSet(D) /\ Cardinality(D) \in Nat /\ Cardinality(D) = Cardinality(T) - 1
    BY <1>4, <1>5
  <2> HIDE DEF D
  <2>2. /\ IsFiniteSet(D \cup {b}) /\ Cardinality(D \cup {b}) \in Nat
        /\ Cardinality(D \cup {b}) <= Cardinality(T)
    <3>1. /\ IsFiniteSet(D \cup {b})
          /\ Cardinality(D \cup {b}) = IF b \in D THEN Cardinality(D) ELSE Cardinality(D) + 1
      BY <2>1, FS_AddElement
    <3> QED BY <1>1, <2>1, <3>1
  <2> QED BY <2>2 DEF D
<1>6. U \subseteq T => IsFiniteSet(U) /\ Cardinality(U) \in Nat /\ Cardinality(U) <= Cardinality(T)
  BY <1>2
<1>7. U \subseteq T \cup {b} =>
        IsFiniteSet(U) /\ Cardinality(U) \in Nat /\ Cardinality(U) <= Cardinality(T) + 1
  BY <1>1, <1>2, <1>3
<1>8. a \in T /\ U \subseteq T \ {a} =>
        IsFiniteSet(U) /\ Cardinality(U) \in Nat /\ Cardinality(U) + 1 <= Cardinality(T)
  BY <1>1, <1>2, <1>4
<1>9. a \in T /\ U \subseteq (T \ {a}) \cup {b} =>
        IsFiniteSet(U) /\ Cardinality(U) \in Nat /\ Cardinality(U) <= Cardinality(T)
  BY <1>1, <1>2, <1>5
<1> QED BY <1>1, <1>6, <1>7, <1>8, <1>9

\* The threats that a step of w leaves: those of others, of jobs, and its own.
LEMMA ThreatsRest ==
  ASSUME NEW w \in Workers, Alone(w), Fewer, NEW r \in Recipients
  PROVE  Threats(r)' \subseteq (Threats(r) \ {<<"worker", w>>})
           \cup {x \in {<<"worker", w>>} : MayServe(w, r)'}
           \cup {<<"job", j>> : j \in {k \in jobs' \ jobs : IsBatch(k) /\ Unserved(r)'}}
<1> SUFFICES ASSUME NEW x \in Threats(r)'
             PROVE  \/ x \in Threats(r) \ {<<"worker", w>>}
                    \/ x = <<"worker", w>> /\ MayServe(w, r)'
                    \/ \E k \in jobs' \ jobs : x = <<"job", k>> /\ IsBatch(k) /\ Unserved(r)'
  OBVIOUS
<1>1. CASE \E j \in jobs' : x = <<"job", j>> /\ IsBatch(j) /\ Unserved(r)'
  <2>1. PICK j \in jobs' : x = <<"job", j>> /\ IsBatch(j) /\ Unserved(r)'
    BY <1>1
  <2>2. CASE j \in jobs
    <3>1. Unserved(r)
      BY <2>1 DEF Fewer
    <3>2. x \in Threats(r)
      BY <2>1, <2>2, <3>1 DEF Threats
    <3>3. x # <<"worker", w>>
      BY <2>1
    <3> QED BY <3>2, <3>3
  <2> QED BY <2>1, <2>2
<1>2. CASE \E v \in Workers : x = <<"worker", v>> /\ MayServe(v, r)'
  <2>1. PICK v \in Workers : x = <<"worker", v>> /\ MayServe(v, r)'
    BY <1>2
  <2>2. CASE v # w
    <3>1. pc'[v] = pc[v] /\ todo'[v] = todo[v] /\ cur(v)' = cur(v)
      BY <2>2 DEF Alone
    <3>2. Unserved(r)' => Unserved(r)
      BY DEF Fewer
    <3>3. MayServe(v, r)
      BY <2>1, <3>1, <3>2 DEF MayServe
    <3>4. x \in Threats(r)
      BY <2>1, <3>3 DEF Threats
    <3> QED BY <2>1, <2>2, <3>4
  <2> QED BY <2>1, <2>2
<1> QED BY <1>1, <1>2 DEF Threats

\* A step that adds no job and no threat of its own costs nothing.
LEMMA PaidRest ==
  ASSUME TypeOK, TypeOK', Paid, NEW w \in Workers, Alone(w), Fewer,
         \A j \in jobs' : j \in jobs \/ ~IsBatch(j), UNCHANGED mails, faults' >= faults,
         \A r \in Recipients : MayServe(w, r)' => MayServe(w, r)
  PROVE  Paid'
<1> SUFFICES ASSUME NEW r \in Recipients
             PROVE  IsFiniteSet(Threats(r)') /\ mails'[r] + Cardinality(Threats(r)') <= 1 + faults'
  BY DEF Paid
<1>1. Threats(r)' \subseteq Threats(r)
  <2>1. MayServe(w, r)' => <<"worker", w>> \in Threats(r)
    BY DEF Threats
  <2> QED BY <2>1, ThreatsRest
<1>2. IsFiniteSet(Threats(r)) /\ mails[r] + Cardinality(Threats(r)) <= 1 + faults
  BY DEF Paid
<1>3. mails[r] \in Nat /\ faults \in Nat /\ faults' \in Nat
  BY TypeParts DEF RestOK
<1> HIDE DEF Threats
<1>4. /\ Cardinality(Threats(r)) \in Nat /\ IsFiniteSet(Threats(r)') /\ Cardinality(Threats(r)') \in Nat
      /\ Cardinality(Threats(r)') <= Cardinality(Threats(r))
  BY <1>1, <1>2, Exchange
<1> QED BY <1>2, <1>3, <1>4

-----------------------------------------------------------------------------
(* The steps of a handler that walks the audience.                           *)

Settled == Carried /\ OneOpening /\ Behind /\ Ended

\* A step from one place of the walk to another, with the same batch before it.
LEMMA Strolls ==
  ASSUME IInv, NEW w \in Workers, NEW to \in Walking, Goes(w, to), pc[w] \in Walking,
         UNCHANGED <<job, held, todo, last, jobs, status, rec>>,
         pc[w] \in InBatch <=> to \in InBatch,
         to = "complete" => Over \/ \A r \in Recipients : ~Pending(r)
  PROVE  Settled' /\ Alone(w) /\ Fewer
<1>1. /\ Alone(w) /\ pc'[w] = to
      /\ job'[w] = job[w] /\ todo'[w] = todo[w] /\ last'[w] = last[w] /\ held'[w] = held[w]
  BY GoesAlone DEF IInv
<1>2. Fewer
  BY FewerIfSame
<1>3. CarriedBy(w) /\ BehindAt(w) /\ IsBatch(job[w])
  BY DEF IInv, Carried, CarriedBy, Behind
<1>4. to \notin Opening /\ to \notin {"idle", "claim"}
  BY DEF Walking, Opening, InBatch, Verdicts
<1>5. CarriedBy(w)'
  BY <1>1, <1>3, <1>4 DEF CarriedBy
<1>6. Carried'
  BY <1>1, <1>5, CarriedRest DEF IInv
<1>7. OneOpening'
  BY <1>1, <1>3, <1>4, WalkOpening DEF IInv
<1>8. BehindAt(w)'
  BY <1>1, <1>2, <1>3 DEF BehindAt, Fewer
<1>9. Behind'
  BY <1>1, <1>2, <1>8, BehindRest DEF IInv
<1>10. Done(w)' /\ (Over => Over')
  BY <1>1, <1>2 DEF Done, Over, Fewer
<1>11. Ended'
  BY <1>1, <1>2, <1>10, EndedRest DEF IInv
<1> QED BY <1>1, <1>2, <1>6, <1>7, <1>9, <1>11 DEF Settled

\* Of those that write nothing.
LEMMA QuietStep ==
  ASSUME IInv, TypeOK', NEW w \in Workers,
         ReadCampaign(w) \/ CheckQuota(w) \/ Gate(w) \/ Count(w) \/ Remaining(w)
  PROVE  Settled' /\ Paid'
<1> USE DEF campaign, ledger, queue
<1>1. PICK to \in Walking :
        /\ Goes(w, to) /\ pc[w] \in Walking
        /\ pc[w] \in InBatch <=> to \in InBatch
        /\ to = "complete" => Over \/ \A r \in Recipients : ~Pending(r)
        /\ pc[w] \in {"read", "quota", "gate", "count", "remaining"}
        /\ pc[w] = "gate" => to \in {"SKIPPED", "send"}
        /\ pc[w] # "gate" => to \in {"quota", "select", "fail", "remaining", "complete", "chain"}
  <2> USE DEF Walking, InBatch, Verdicts
  <2>1. CASE ReadCampaign(w)
    <3>1. IsBatch(job[w]) /\ BatchAbroad
      BY <2>1 DEF ReadCampaign, IInv, Carried, CarriedBy, BatchAbroad
    <3>2. status # "SENDING" => Over
      BY <3>1 DEF IInv, OneOpening, Over
    <3> QED BY <2>1, <3>2 DEF ReadCampaign
  <2>2. CASE CheckQuota(w)
    BY <2>2 DEF CheckQuota
  <2>3. CASE Gate(w)
    BY <2>3 DEF Gate
  <2>4. CASE Count(w)
    BY <2>4 DEF Count
  <2>5. CASE Remaining(w)
    <3>1. {r \in Recipients : rec[r] = "PENDING"} \in SUBSET Recipients
      OBVIOUS
    <3>2. CountOf("PENDING") = 0 => \A r \in Recipients : ~Pending(r)
      BY <3>1, SomeFacts DEF CountOf, Pending
    <3> QED BY <2>5, <3>2 DEF Remaining
  <2> QED BY <2>1, <2>2, <2>3, <2>4, <2>5
<1>2. UNCHANGED <<job, held, todo, last, jobs, status, rec, mails, faults>>
  BY DEF ReadCampaign, CheckQuota, Gate, Count, Remaining
<1>3. Settled' /\ Alone(w) /\ Fewer
  BY <1>1, <1>2, Strolls
<1>4. pc'[w] = to /\ cur(w)' = cur(w) /\ todo'[w] = todo[w]
  BY <1>1, <1>2, GoesAlone DEF IInv
<1>5. ASSUME NEW r \in Recipients, MayServe(w, r)' PROVE MayServe(w, r)
  <2>1. Unserved(r)' => Unserved(r)
    BY <1>3 DEF Fewer
  <2>2. CASE pc[w] = "gate"
    BY <1>1, <1>4, <1>5, <2>1, <2>2 DEF MayServe, Verdicts
  <2>3. CASE pc[w] # "gate"
    BY <1>1, <1>4, <1>5, <2>1, <2>3 DEF MayServe, Verdicts
  <2> QED BY <2>2, <2>3
<1>6. faults' >= faults
  BY <1>2, TypeParts DEF IInv, RestOK
<1>7. Paid'
  BY <1>2, <1>3, <1>5, <1>6, PaidRest DEF IInv
<1> QED BY <1>3, <1>7

\* A message the provider takes was a threat, and is one no more.
LEMMA SendStep ==
  ASSUME IInv, TypeOK', NEW w \in Workers, Send(w) PROVE Settled' /\ Paid'
<1> USE DEF campaign, ledger, queue
<1>1. /\ pc[w] = "send" /\ UNCHANGED <<job, held, todo, last, jobs, status, rec, faults>>
      /\ \/ Goes(w, "SENT") /\ mails' = [mails EXCEPT ![cur(w)] = @ + 1]
         \/ Goes(w, "FAILED") /\ mails' = mails
  BY DEF Send
<1>2. PICK to \in {"SENT", "FAILED"} :
        /\ Goes(w, to)
        /\ mails' = IF to = "SENT" THEN [mails EXCEPT ![cur(w)] = @ + 1] ELSE mails
  BY <1>1
<1>3. Settled' /\ Alone(w) /\ Fewer
  BY <1>1, <1>2, Strolls DEF Walking, InBatch, Verdicts
<1>4. pc'[w] = to /\ cur(w)' = cur(w) /\ todo'[w] = todo[w]
  BY <1>1, <1>2, GoesAlone DEF IInv
<1>5. cur(w) \in todo[w] /\ cur(w) \in Recipients
  BY <1>1, AtOne DEF IInv, InBatch
<1>6. ASSUME NEW r \in Recipients, MayServe(w, r)' PROVE MayServe(w, r) /\ r # cur(w)
  <2>1. Unserved(r)' => Unserved(r)
    BY <1>3 DEF Fewer
  <2> QED BY <1>1, <1>2, <1>4, <1>6, <2>1 DEF MayServe, Verdicts
<1>7. faults' >= faults
  BY <1>1, TypeParts DEF IInv, RestOK
<1>8. CASE to = "FAILED"
  BY <1>1, <1>2, <1>3, <1>6, <1>7, <1>8, PaidRest DEF IInv
<1>9. CASE to = "SENT"
  <2> SUFFICES ASSUME NEW r \in Recipients
               PROVE  IsFiniteSet(Threats(r)') /\ mails'[r] + Cardinality(Threats(r)') <= 1 + faults'
    BY <1>3 DEF Paid
  <2>1. MayServe(w, r) => <<"worker", w>> \in Threats(r)
    BY DEF Threats
  <2>2. Threats(r)' \subseteq Threats(r)
    BY <1>1, <1>3, <1>6, <2>1, ThreatsRest
  <2>3. r = cur(w) => /\ <<"worker", w>> \in Threats(r)
                      /\ Threats(r)' \subseteq Threats(r) \ {<<"worker", w>>}
    <3>1. MayServe(w, cur(w))
      BY <1>1, <1>5 DEF MayServe
    <3> QED BY <1>1, <1>3, <1>6, <2>1, <3>1, ThreatsRest
  <2>4. IsFiniteSet(Threats(r)) /\ mails[r] + Cardinality(Threats(r)) <= 1 + faults
    BY DEF Paid, IInv
  <2>5. /\ mails[r] \in Nat /\ faults \in Nat /\ faults' = faults
        /\ mails'[r] = IF r = cur(w) THEN mails[r] + 1 ELSE mails[r]
    BY <1>1, <1>2, <1>5, <1>9, TypeParts DEF IInv, RestOK
  <2> HIDE DEF Threats
  <2>6. /\ Cardinality(Threats(r)) \in Nat
        /\ IsFiniteSet(Threats(r)') /\ Cardinality(Threats(r)') \in Nat
        /\ Cardinality(Threats(r)') <= Cardinality(Threats(r))
        /\ r = cur(w) => Cardinality(Threats(r)') + 1 <= Cardinality(Threats(r))
    BY <2>2, <2>3, <2>4, Exchange
  <2> QED BY <2>4, <2>5, <2>6
<1> QED BY <1>3, <1>8, <1>9

\* The next batch leaves nobody behind, and an empty one means that nobody waits.
LEMMA SelectStep ==
  ASSUME IInv, TypeOK', NEW w \in Workers, Select(w) PROVE Settled' /\ Paid'
<1> USE DEF campaign, ledger, queue
<1> DEFINE S == {r \in Recipients : rec[r] = "PENDING" /\ r > job[w].after}
           batch == FirstOf(S)
           to == IF batch = {} THEN "complete" ELSE "gate"
<1>1. /\ pc[w] = "select" /\ todo' = [todo EXCEPT ![w] = batch] /\ Goes(w, to)
      /\ UNCHANGED <<job, held, last, jobs, status, rec, mails, faults>>
  BY DEF Select
<1>2. TypeOK /\ HandlersOK /\ CarriedBy(w) /\ BehindAt(w) /\ IsBatch(job[w])
  BY <1>1, TypeParts DEF IInv, Carried, CarriedBy, Behind, Walking
<1>3. /\ batch \subseteq S /\ (batch = {} => S = {})
      /\ \A r \in S \ batch : \A q \in batch : q < r
  <2>1. S \in SUBSET Recipients
    OBVIOUS
  <2> HIDE DEF S
  <2> QED BY <2>1, BatchFacts
<1>4. \A r \in Recipients : Pending(r) => r \in S
  BY <1>2 DEF BehindAt, Pending
<1>5. \A r \in batch : Pending(r)
  BY <1>3 DEF Pending
<1> HIDE DEF batch, S
<1>6. /\ pc'[w] = to /\ job'[w] = job[w] /\ held'[w] = held[w] /\ todo'[w] = batch
      /\ last'[w] = last[w]
  BY <1>1, <1>2 DEF Goes, HandlersOK
<1>7. Alone(w)
  <2>1. ASSUME NEW v \in Workers \ {w}
        PROVE  /\ pc'[v] = pc[v] /\ job'[v] = job[v] /\ held'[v] = held[v]
               /\ todo'[v] = todo[v] /\ last'[v] = last[v]
    BY <1>1, <1>2 DEF Goes, HandlersOK
  <2>2. ASSUME NEW v \in Workers \ {w} PROVE cur(v)' = cur(v)
    BY <2>1 DEF cur
  <2> QED BY <2>1, <2>2 DEF Alone
<1>8. Fewer
  BY <1>1, FewerIfSame
<1>9. CarriedBy(w)'
  BY <1>2, <1>6 DEF CarriedBy, InBatch, Verdicts, Opening
<1>10. Carried'
  BY <1>7, <1>9, CarriedRest DEF IInv
<1>11. to \notin Opening
  BY DEF Opening
<1>12. OneOpening'
  BY <1>1, <1>2, <1>6, <1>7, <1>11, WalkOpening DEF IInv
<1>13. BehindAt(w)'
  BY <1>2, <1>3, <1>4, <1>6, <1>8 DEF BehindAt, Fewer
<1>14. Behind'
  BY <1>1, <1>7, <1>8, <1>13, BehindRest DEF IInv
<1>15. Done(w)' /\ (Over => Over')
  BY <1>1, <1>3, <1>4, <1>6, <1>8 DEF Done, Over, Fewer
<1>16. Ended'
  BY <1>1, <1>7, <1>8, <1>15, EndedRest DEF IInv
<1>17. ASSUME NEW r \in Recipients, MayServe(w, r)' PROVE MayServe(w, r)
  <2>1. Unserved(r)
    BY <1>5, <1>6, <1>8, <1>17 DEF MayServe, Fewer, Verdicts, Pending, Unserved
  <2> QED BY <1>1, <2>1 DEF MayServe
<1>18. faults' >= faults
  BY <1>1, <1>2, TypeParts DEF RestOK
<1>19. Paid'
  BY <1>1, <1>2, <1>7, <1>8, <1>17, <1>18, PaidRest DEF IInv
<1> QED BY <1>10, <1>12, <1>14, <1>16, <1>19 DEF Settled

\* The recipient a verdict is recorded of is the least of the batch: the cursor passes
\* nobody that waits.
LEMMA RecordStep ==
  ASSUME IInv, TypeOK', NEW w \in Workers, Record(w) PROVE Settled' /\ Paid'
<1> USE DEF campaign, ledger, queue
<1> DEFINE c == cur(w)
           to == IF todo[w] = {c} THEN "count" ELSE "gate"
<1>1. /\ pc[w] \in Verdicts /\ rec' = [rec EXCEPT ![c] = pc[w]]
      /\ todo' = [todo EXCEPT ![w] = todo[w] \ {c}] /\ last' = [last EXCEPT ![w] = c]
      /\ Goes(w, to) /\ UNCHANGED <<job, held, jobs, status, mails, faults>>
  BY DEF Record, Verdicts
<1>2. TypeOK /\ HandlersOK /\ RestOK /\ CarriedBy(w) /\ BehindAt(w) /\ IsBatch(job[w])
  BY <1>1, TypeParts DEF IInv, Carried, CarriedBy, Behind, Walking, InBatch
<1>3. c \in todo[w] /\ c \in Recipients /\ \A q \in todo[w] : c <= q
  BY <1>1, <1>2, AtOne DEF IInv, InBatch
<1> HIDE DEF c
<1>4. rec'[c] = pc[w] /\ \A r \in Recipients \ {c} : rec'[r] = rec[r]
  BY <1>1, <1>2, <1>3 DEF RestOK
<1>5. /\ pc'[w] = to /\ job'[w] = job[w] /\ held'[w] = held[w] /\ todo'[w] = todo[w] \ {c}
      /\ last'[w] = c
  BY <1>1, <1>2 DEF Goes, HandlersOK
<1>6. Alone(w)
  <2>1. ASSUME NEW v \in Workers \ {w}
        PROVE  /\ pc'[v] = pc[v] /\ job'[v] = job[v] /\ held'[v] = held[v]
               /\ todo'[v] = todo[v] /\ last'[v] = last[v]
    BY <1>1, <1>2 DEF Goes, HandlersOK
  <2>2. ASSUME NEW v \in Workers \ {w} PROVE cur(v)' = cur(v)
    BY <2>1 DEF cur
  <2> QED BY <2>1, <2>2 DEF Alone
<1>7. \A r \in Recipients : r = c => ~Pending(r)' /\ ~Unserved(r)'
  BY <1>1, <1>4 DEF Verdicts, Pending, Unserved
<1>8. Fewer
  BY <1>4, <1>7 DEF Fewer, Pending, Unserved
<1>9. CarriedBy(w)'
  <2>1. to \in {"count", "gate"} /\ (to = "gate" <=> todo[w] \ {c} # {})
    BY <1>3
  <2> QED BY <1>1, <1>2, <1>5, <2>1 DEF CarriedBy, InBatch, Verdicts, Opening, Walking
<1>10. Carried'
  BY <1>6, <1>9, CarriedRest DEF IInv
<1>11. to \notin Opening
  BY DEF Opening
<1>12. OneOpening'
  BY <1>1, <1>2, <1>5, <1>6, <1>11, WalkOpening DEF IInv
<1>13. ASSUME NEW r \in Recipients, Pending(r)'
       PROVE  /\ r > job[w].after /\ r > c
              /\ r \in todo[w] \ {c} \/ \A q \in todo[w] \ {c} : q < r
  <2>1. r # c /\ Pending(r)
    BY <1>7, <1>8, <1>13 DEF Fewer
  <2>2. r > job[w].after /\ (r \in todo[w] \/ \A q \in todo[w] : q < r)
    BY <1>1, <1>2, <2>1 DEF BehindAt, InBatch
  <2>3. r \in Nat /\ c \in Nat
    BY <1>3, JobFacts
  <2> QED BY <1>3, <2>1, <2>2, <2>3
<1>14. BehindAt(w)'
  BY <1>5, <1>13 DEF BehindAt
<1>15. Behind'
  BY <1>1, <1>6, <1>8, <1>14, BehindRest DEF IInv
<1>16. Done(w)' /\ (Over => Over')
  BY <1>1, <1>5 DEF Done, Over
<1>17. Ended'
  BY <1>1, <1>6, <1>8, <1>16, EndedRest DEF IInv
<1>18. ASSUME NEW r \in Recipients, MayServe(w, r)' PROVE MayServe(w, r)
  <2>1. r # c /\ (r \in todo[w] \/ Unserved(r))
    BY <1>5, <1>7, <1>8, <1>18 DEF MayServe, Fewer, Verdicts
  <2> QED BY <1>1, <2>1 DEF MayServe, c
<1>19. faults' >= faults
  BY <1>1, <1>2 DEF RestOK
<1>20. Paid'
  BY <1>1, <1>2, <1>6, <1>8, <1>18, <1>19, PaidRest DEF IInv
<1> QED BY <1>10, <1>12, <1>15, <1>17, <1>20 DEF Settled

-----------------------------------------------------------------------------
(* The steps that end a handler, and those between it and the queue.         *)

\* A handler that forgets what it had leaves nothing behind it.
LEMMA Forgotten ==
  ASSUME IInv, NEW w \in Workers, Goes(w, "idle"), Forgets(w),
         held' = [held EXCEPT ![w] = FALSE], UNCHANGED rec
  PROVE  /\ Alone(w) /\ Fewer /\ Carried' /\ BehindAt(w)' /\ Done(w)'
         /\ pc'[w] = "idle" /\ pc'[w] \notin Opening /\ ~IsBatch(job'[w])
         /\ \A r \in Recipients : ~MayServe(w, r)'
<1>1. /\ Alone(w) /\ pc'[w] = "idle" /\ job'[w] = DispatchJob
      /\ held'[w] = FALSE /\ todo'[w] = {} /\ last'[w] = 0
  BY ForgetsAlone DEF IInv
<1>2. ~IsBatch(job'[w])
  BY <1>1, JobFacts
<1>3. CarriedBy(w)'
  BY <1>1, <1>2 DEF CarriedBy, InBatch, Verdicts, Walking
<1>4. Carried'
  BY <1>1, <1>3, CarriedRest DEF IInv
<1>5. BehindAt(w)' /\ Done(w)'
  BY <1>1, <1>2 DEF BehindAt, Done, InBatch, Verdicts
<1>6. \A r \in Recipients : ~MayServe(w, r)'
  BY <1>1 DEF MayServe, Verdicts
<1> QED BY <1>1, <1>2, <1>4, <1>5, <1>6, FewerIfSame DEF Opening

\* One that returns, with the campaign as it was or ended by it.
LEMMA ReturnStep ==
  ASSUME IInv, TypeOK', NEW w \in Workers, Returns(w), UNCHANGED <<rec, mails, faults>>,
         \/ status' = status
         \/ /\ Over' /\ (IsBatch(job[w]) \/ pc[w] \in Opening)
            /\ status' = "SENT" => \A r \in Recipients : ~Pending(r)
  PROVE  Settled' /\ Paid'
<1>1. /\ Alone(w) /\ Fewer /\ Carried' /\ BehindAt(w)' /\ Done(w)'
      /\ pc'[w] = "idle" /\ pc'[w] \notin Opening /\ ~IsBatch(job'[w])
      /\ \A r \in Recipients : ~MayServe(w, r)'
  BY Forgotten DEF Returns
<1>2. jobs' = jobs
  BY DEF Returns
<1>3. BatchAbroad' => BatchAbroad
  BY <1>1, <1>2 DEF BatchAbroad, Alone
<1>4. OneOpening'
  <2>1. CASE IsBatch(job[w])
    BY <1>1, <2>1, WalkOpening DEF IInv, Over
  <2>2. CASE status' = status
    BY <1>1, <1>3, <2>2, RestOpening DEF IInv
  <2>3. CASE Over' /\ pc[w] \in Opening
    <3>1. \A v \in Workers : pc'[v] \notin Opening
      BY <1>1, <2>3 DEF IInv, OneOpening, Alone
    <3> QED BY <2>3, <3>1 DEF OneOpening, Over
  <2> QED BY <2>1, <2>2, <2>3
<1>5. Behind'
  BY <1>1, <1>2, BehindRest DEF IInv
<1>6. Ended'
  <2>1. Over => Over'
    BY DEF Over
  <2> QED BY <1>1, <2>1, EndedRest DEF IInv
<1>7. faults' >= faults
  BY TypeParts DEF IInv, RestOK
<1>8. Paid'
  BY <1>1, <1>2, <1>7, PaidRest DEF IInv
<1> QED BY <1>1, <1>4, <1>5, <1>6, <1>8 DEF Settled

LEMMA EndStep ==
  ASSUME IInv, TypeOK', NEW w \in Workers,
         \/ Claim(w) /\ status # "SCHEDULED"
         \/ FailEmpty(w) \/ Complete(w) \/ Fail(w) \/ Leave(w)
  PROVE  Settled' /\ Paid'
<1> USE DEF campaign, ledger
<1>1. Returns(w) /\ UNCHANGED <<rec, mails, faults>>
  BY DEF Claim, FailEmpty, Complete, Fail, Leave
<1>2. CASE status' = status
  BY <1>1, <1>2, ReturnStep
<1>3. CASE FailEmpty(w)
  BY <1>1, <1>3, ReturnStep DEF FailEmpty, Opening, Over
<1>4. CASE Fail(w)
  <2>1. IsBatch(job[w]) /\ status' = "FAILED"
    BY <1>4 DEF Fail, IInv, Carried, CarriedBy, Walking
  <2> QED BY <1>1, <2>1, ReturnStep DEF Over
<1>5. CASE Complete(w)
  <2>1. IsBatch(job[w]) /\ Done(w) /\ pc[w] = "complete"
    BY <1>5 DEF Complete, IInv, Carried, CarriedBy, Walking, Ended
  <2>2. status' = IF status = "SENDING" THEN "SENT" ELSE status
    BY <1>5 DEF Complete
  <2>3. CASE status = "SENDING"
    BY <1>1, <2>1, <2>2, <2>3, ReturnStep DEF Over, Done
  <2> QED BY <1>2, <2>2, <2>3
<1>6. CASE (Claim(w) /\ status # "SCHEDULED") \/ Leave(w)
  BY <1>2, <1>6 DEF Claim, Leave
<1> QED BY <1>3, <1>4, <1>5, <1>6

\* A threat handed from a handler to a job, or from a job to a handler.
LEMMA PaidHandedOn ==
  ASSUME TypeOK, TypeOK', Paid, NEW r \in Recipients, NEW a, NEW b,
         \/ a \in Threats(r) /\ Threats(r)' \subseteq (Threats(r) \ {a}) \cup {b}
         \/ Threats(r)' \subseteq Threats(r),
         UNCHANGED <<mails, faults>>
  PROVE  IsFiniteSet(Threats(r)') /\ mails'[r] + Cardinality(Threats(r)') <= 1 + faults'
<1>1. IsFiniteSet(Threats(r)) /\ mails[r] + Cardinality(Threats(r)) <= 1 + faults
  BY DEF Paid
<1>2. mails[r] \in Nat /\ faults \in Nat
  BY TypeParts DEF RestOK
<1> HIDE DEF Threats
<1>3. /\ Cardinality(Threats(r)) \in Nat
      /\ IsFiniteSet(Threats(r)') /\ Cardinality(Threats(r)') \in Nat
      /\ Cardinality(Threats(r)') <= Cardinality(Threats(r))
  <2>1. CASE a \in Threats(r) /\ Threats(r)' \subseteq (Threats(r) \ {a}) \cup {b}
    BY <1>1, <2>1, Exchange
  <2>2. CASE Threats(r)' \subseteq Threats(r)
    BY <1>1, <2>2, Exchange
  <2> QED BY <2>1, <2>2
<1> QED BY <1>1, <1>2, <1>3

\* The next link of the chain, named after a cursor that nobody waits behind.
LEMMA LinkStep ==
  ASSUME IInv, TypeOK', NEW w \in Workers, NEW c \in Cursors,
         \/ pc[w] = "kick" /\ c = 0
         \/ pc[w] = "chain" /\ c = last[w],
         Enqueue(BatchJob(c)), Goes(w, "leave"),
         UNCHANGED <<status, rec, mails, job, held, todo, last, faults>>
  PROVE  Settled' /\ Paid'
<1>1. /\ Alone(w) /\ pc'[w] = "leave"
      /\ job'[w] = job[w] /\ todo'[w] = todo[w] /\ last'[w] = last[w] /\ held'[w] = held[w]
  BY GoesAlone DEF IInv
<1>2. Fewer
  BY FewerIfSame
<1>3. TypeOK /\ jobs \subseteq Jobs /\ CarriedBy(w) /\ BehindAt(w)
  BY DEF IInv, Carried, Behind, TypeOK
<1>4. jobs' \subseteq jobs \cup {BatchJob(c)}
  BY DEF Enqueue
<1>5. pc[w] = "chain" => IsBatch(job[w])
  BY <1>3 DEF CarriedBy, Walking
<1>6. CarriedBy(w)'
  BY <1>1, <1>3 DEF CarriedBy, InBatch, Verdicts, Opening, Walking
<1>7. Carried'
  BY <1>1, <1>6, CarriedRest DEF IInv
<1>8. OneOpening'
  <2>1. CASE pc[w] = "chain"
    BY <1>1, <1>5, <2>1, WalkOpening DEF IInv, Opening
  <2>2. CASE pc[w] = "kick"
    <3>1. status' = "SENDING" /\ \A v \in Workers : pc'[v] \notin Opening
      BY <1>1, <2>2 DEF IInv, OneOpening, Alone, Opening
    <3> QED BY <3>1 DEF OneOpening
  <2> QED BY <2>1, <2>2
<1>9. \A r \in Recipients : Pending(r)' => r > c
  <2>1. CASE pc[w] = "chain"
    BY <1>2, <1>3, <1>5, <2>1 DEF BehindAt, Fewer
  <2>2. CASE pc[w] = "kick"
    BY <2>2, JobFacts
  <2> QED BY <2>1, <2>2
<1>10. BehindAt(w)'
  BY <1>1, <1>2, <1>3 DEF BehindAt, Fewer, InBatch, Verdicts
<1>11. BehindJob(BatchJob(c))'
  BY <1>9, JobFacts DEF BehindJob
<1>12. Behind'
  BY <1>1, <1>2, <1>4, <1>10, <1>11, BehindRest DEF IInv, BehindJob
<1>13. Ended'
  BY <1>1, <1>2, EndedRest DEF IInv, Done, Over
<1>14. Paid'
  <2> SUFFICES ASSUME NEW r \in Recipients
               PROVE  IsFiniteSet(Threats(r)') /\ mails'[r] + Cardinality(Threats(r)') <= 1 + faults'
    BY DEF Paid
  <2>1. ~MayServe(w, r)'
    BY <1>1 DEF MayServe, Verdicts
  <2>2. Threats(r)' \subseteq (Threats(r) \ {<<"worker", w>>})
          \cup {<<"job", j>> : j \in {k \in jobs' \ jobs : IsBatch(k) /\ Unserved(r)'}}
    BY <1>1, <1>2, <2>1, ThreatsRest
  <2>3. CASE Unserved(r)
    <3>1. <<"worker", w>> \in Threats(r)
      BY <2>3 DEF Threats, MayServe
    <3>2. Threats(r)' \subseteq (Threats(r) \ {<<"worker", w>>}) \cup {<<"job", BatchJob(c)>>}
      BY <1>4, <2>2
    <3> QED BY <3>1, <3>2, PaidHandedOn DEF IInv
  <2>4. CASE ~Unserved(r)
    <3>1. Threats(r)' \subseteq Threats(r)
      BY <1>2, <2>2, <2>4 DEF Fewer
    <3> QED BY <3>1, PaidHandedOn DEF IInv
  <2> QED BY <2>3, <2>4
<1> QED BY <1>7, <1>8, <1>12, <1>13, <1>14 DEF Settled

LEMMA KickOrChainStep ==
  ASSUME IInv, TypeOK', NEW w \in Workers, Kick(w) \/ Chain(w) PROVE Settled' /\ Paid'
<1> USE DEF campaign, ledger
<1>1. CASE Kick(w)
  BY <1>1, JobFacts, LinkStep DEF Kick
<1>2. CASE Chain(w)
  <2>1. last[w] \in Cursors
    BY DEF IInv, TypeOK
  <2> QED BY <1>2, <2>1, LinkStep DEF Chain
<1> QED BY <1>1, <1>2

\* A job taken hands its cursor, and its threats, to who takes it.
LEMMA TakeStep ==
  ASSUME IInv, TypeOK', NEW w \in Workers, NEW j \in Jobs, Take(w, j)
  PROVE  Settled' /\ Paid'
<1> USE DEF campaign, ledger
<1> DEFINE to == IF j.kind = "dispatch" THEN "claim" ELSE "read"
<1>1. /\ pc[w] = "idle" /\ j \in jobs /\ jobs' = jobs \ {j} /\ Goes(w, to)
      /\ job' = [job EXCEPT ![w] = j] /\ held' = [held EXCEPT ![w] = TRUE]
      /\ last' = [last EXCEPT ![w] = j.after]
      /\ UNCHANGED <<status, rec, mails, faults, todo>>
  BY DEF Take, Goes
<1>2. TypeOK /\ HandlersOK /\ CarriedBy(w)
  BY TypeParts DEF IInv, Carried
<1>3. /\ pc'[w] = to /\ job'[w] = j /\ held'[w] = TRUE /\ todo'[w] = todo[w]
      /\ last'[w] = j.after
  BY <1>1, <1>2 DEF Goes, HandlersOK
<1>4. Alone(w)
  <2>1. ASSUME NEW v \in Workers \ {w}
        PROVE  /\ pc'[v] = pc[v] /\ job'[v] = job[v] /\ held'[v] = held[v]
               /\ todo'[v] = todo[v] /\ last'[v] = last[v]
    BY <1>1, <1>2 DEF Goes, HandlersOK
  <2>2. ASSUME NEW v \in Workers \ {w} PROVE cur(v)' = cur(v)
    BY <2>1 DEF cur
  <2> QED BY <2>1, <2>2 DEF Alone
<1>5. Fewer
  BY <1>1, FewerIfSame
<1>6. to = "claim" <=> ~IsBatch(j)
  BY JobFacts
<1>7. to \in {"claim", "read"}
  OBVIOUS
<1> HIDE DEF to
<1>8. CarriedBy(w)'
  BY <1>1, <1>2, <1>3, <1>6, <1>7 DEF CarriedBy, InBatch, Verdicts, Opening, Walking
<1>9. Carried'
  BY <1>4, <1>8, CarriedRest DEF IInv
<1>10. BatchAbroad' => BatchAbroad
  BY <1>1, <1>3, <1>4 DEF BatchAbroad, Alone
<1>11. pc'[w] \notin Opening
  BY <1>3, <1>7 DEF Opening
<1>12. OneOpening'
  BY <1>1, <1>4, <1>10, <1>11, RestOpening DEF IInv
<1>13. BehindAt(w)'
  <2>1. BehindJob(j)
    BY <1>1 DEF IInv, Behind
  <2> QED BY <1>3, <1>5, <1>7, <2>1 DEF BehindAt, BehindJob, Fewer, InBatch, Verdicts
<1>14. Behind'
  BY <1>1, <1>4, <1>5, <1>13, BehindRest DEF IInv
<1>15. Done(w)' /\ (Over => Over')
  BY <1>1, <1>3, <1>7 DEF Done, Over
<1>16. Ended'
  BY <1>1, <1>4, <1>5, <1>15, EndedRest DEF IInv
<1>17. Paid'
  <2> SUFFICES ASSUME NEW r \in Recipients
               PROVE  IsFiniteSet(Threats(r)') /\ mails'[r] + Cardinality(Threats(r)') <= 1 + faults'
    BY DEF Paid
  <2>1. Threats(r)' \subseteq (Threats(r) \ {<<"worker", w>>})
          \cup {x \in {<<"worker", w>>} : MayServe(w, r)'}
    BY <1>1, <1>4, <1>5, ThreatsRest
  <2>2. MayServe(w, r)' => to = "read" /\ Unserved(r)
    BY <1>3, <1>5, <1>7 DEF MayServe, Fewer, Verdicts
  <2>3. CASE MayServe(w, r)'
    <3>1. <<"job", j>> \in Threats(r)
      BY <1>1, <1>6, <2>2, <2>3 DEF Threats
    <3>2. <<"job", j>> \notin Threats(r)'
      BY <1>1 DEF Threats
    <3>3. Threats(r)' \subseteq (Threats(r) \ {<<"job", j>>}) \cup {<<"worker", w>>}
      <4> HIDE DEF Threats
      <4> QED BY <2>1, <3>2
    <3> QED BY <1>1, <1>2, <3>1, <3>3, PaidHandedOn DEF IInv
  <2>4. CASE ~MayServe(w, r)'
    BY <1>1, <1>2, <2>1, <2>4, PaidHandedOn DEF IInv
  <2> QED BY <2>3, <2>4
<1> QED BY <1>9, <1>12, <1>14, <1>16, <1>17 DEF Settled

\* A fault pays for the job that is queued again.
LEMMA PaidByFault ==
  ASSUME IInv, NEW w \in Workers, Alone(w), Fewer, jobs' \subseteq jobs \cup {job[w]},
         UNCHANGED mails, faults' = faults + 1,
         \A r \in Recipients : MayServe(w, r)' => MayServe(w, r)
  PROVE  Paid'
<1> SUFFICES ASSUME NEW r \in Recipients
             PROVE  IsFiniteSet(Threats(r)') /\ mails'[r] + Cardinality(Threats(r)') <= 1 + faults'
  BY DEF Paid
<1> DEFINE b == <<"job", job[w]>>
<1>1. Threats(r)' \subseteq Threats(r) \cup {b}
  <2>1. MayServe(w, r)' => <<"worker", w>> \in Threats(r)
    BY DEF Threats
  <2> QED BY <2>1, ThreatsRest
<1>2. IsFiniteSet(Threats(r)) /\ mails[r] + Cardinality(Threats(r)) <= 1 + faults
  BY DEF Paid, IInv
<1>3. mails[r] \in Nat /\ faults \in Nat
  BY TypeParts DEF IInv, RestOK
<1> HIDE DEF Threats, b
<1>4. /\ Cardinality(Threats(r)) \in Nat /\ IsFiniteSet(Threats(r)') /\ Cardinality(Threats(r)') \in Nat
      /\ Cardinality(Threats(r)') <= Cardinality(Threats(r)) + 1
  <2>1. /\ IsFiniteSet(Threats(r) \cup {b}) /\ Cardinality(Threats(r)) \in Nat
        /\ Cardinality(Threats(r) \cup {b}) <= Cardinality(Threats(r)) + 1
        /\ Cardinality(Threats(r) \cup {b}) \in Nat
    <3>1. Cardinality(Threats(r)) \in Nat /\ IsFiniteSet(Threats(r) \cup {b})
      BY <1>2, FS_AddElement, FS_CardinalityType
    <3>2. Cardinality(Threats(r) \cup {b})
            = IF b \in Threats(r) THEN Cardinality(Threats(r)) ELSE Cardinality(Threats(r)) + 1
      BY <1>2, FS_AddElement
    <3> QED BY <3>1, <3>2
  <2> QED BY <1>1, <2>1, FS_Subset, FS_CardinalityType
<1> QED BY <1>2, <1>3, <1>4

\* The queue gives up on an attempt whose handler runs on.
LEMMA TimesOutStep ==
  ASSUME IInv, TypeOK', NEW w \in Workers, TimesOut(w) PROVE Settled' /\ Paid'
<1> USE DEF campaign, ledger
<1>1. /\ held' = [held EXCEPT ![w] = FALSE] /\ faults' = faults + 1
      /\ UNCHANGED <<status, rec, mails, pc, job, todo, last>>
  BY DEF TimesOut
<1>2. TypeOK /\ HandlersOK /\ QueueOK /\ job[w] \in Jobs
  BY TypeParts DEF IInv, HandlersOK
<1>3. jobs' \subseteq jobs \cup {job[w]}
  BY <1>2, JobFailsType DEF TimesOut
<1>4. (\A v \in Workers : cur(v)' = cur(v)) /\ \A v \in Workers \ {w} : held'[v] = held[v]
  BY <1>1, <1>2 DEF cur, HandlersOK
<1>5. Alone(w) /\ Fewer
  BY <1>1, <1>4, FewerIfSame DEF Alone
<1>6. CarriedBy(w)'
  BY <1>1, <1>2 DEF IInv, Carried, CarriedBy, HandlersOK
<1>7. Carried'
  BY <1>5, <1>6, CarriedRest DEF IInv
<1>8. BatchAbroad' => BatchAbroad
  BY <1>1, <1>3 DEF BatchAbroad
<1>9. OneOpening'
  BY <1>1, <1>8 DEF IInv, OneOpening
<1>10. BehindAt(w)' /\ BehindJob(job[w])'
  BY <1>1, <1>5 DEF IInv, Behind, BehindAt, BehindJob, Fewer
<1>11. Behind'
  <2>1. ASSUME NEW j \in jobs', j \notin jobs PROVE BehindJob(j)'
    <3>1. j = job[w] /\ job' = job
      BY <1>1, <1>3, <2>1
    <3> QED BY <1>1, <1>10, <3>1 DEF BehindJob
  <2> QED BY <1>5, <1>10, <2>1, BehindRest DEF IInv
<1>12. Ended'
  BY <1>1 DEF IInv, Ended, NobodyLeftOut, Done, Over, Pending
<1>13. \A r \in Recipients : MayServe(w, r)' => MayServe(w, r)
  BY <1>1, <1>4 DEF MayServe, Unserved
<1>14. Paid'
  BY <1>1, <1>3, <1>5, <1>13, PaidByFault
<1> QED BY <1>7, <1>9, <1>11, <1>12, <1>14 DEF Settled

LEMMA DiesStep ==
  ASSUME IInv, TypeOK', NEW w \in Workers, Dies(w) PROVE Settled' /\ Paid'
<1> USE DEF campaign, ledger, queue
<1>1. /\ Goes(w, "idle") /\ Forgets(w) /\ held' = [held EXCEPT ![w] = FALSE]
      /\ faults' = faults + 1 /\ UNCHANGED <<status, rec, mails>>
  BY DEF Dies
<1>2. QueueOK /\ job[w] \in Jobs
  BY TypeParts DEF IInv, HandlersOK
<1>3. jobs' \subseteq jobs \cup {job[w]}
  BY <1>2, JobFailsType DEF Dies
<1>4. /\ Alone(w) /\ Fewer /\ Carried' /\ BehindAt(w)' /\ Done(w)'
      /\ pc'[w] = "idle" /\ pc'[w] \notin Opening /\ ~IsBatch(job'[w])
      /\ \A r \in Recipients : ~MayServe(w, r)'
  BY <1>1, Forgotten
<1>5. BatchAbroad' => BatchAbroad
  BY <1>3, <1>4 DEF BatchAbroad, Alone
<1>6. OneOpening'
  BY <1>1, <1>4, <1>5, RestOpening DEF IInv
<1>7. Behind'
  <2>1. BehindAt(w)
    BY DEF IInv, Behind
  <2>2. ASSUME NEW j \in jobs', j \notin jobs PROVE BehindJob(j)'
    <3>1. j = job[w]
      BY <1>3, <2>2
    <3> QED BY <1>4, <2>1, <3>1 DEF BehindJob, BehindAt, Fewer
  <2> QED BY <1>4, <2>2, BehindRest DEF IInv
<1>8. Ended'
  <2>1. Over => Over'
    BY <1>1 DEF Over
  <2> QED BY <1>1, <1>4, <2>1, EndedRest DEF IInv
<1>9. Paid'
  BY <1>1, <1>3, <1>4, PaidByFault
<1> QED BY <1>4, <1>6, <1>7, <1>8, <1>9 DEF Settled

-----------------------------------------------------------------------------
(* The opening of a campaign, and what happens outside its handlers.         *)

\* Without a batch abroad, and nobody opening the campaign, nobody is written to.
LEMMA NobodyThreatens ==
  ASSUME TypeOK, Carried, ~BatchAbroad, NEW v \in Workers, NEW r \in Recipients,
         MayServe(v, r)
  PROVE  pc[v] \in {"materialize", "kick"}
<1>1. ~IsBatch(job[v]) /\ CarriedBy(v)
  BY DEF BatchAbroad, Carried
<1>2. pc[v] \notin Walking
  BY <1>1 DEF CarriedBy
<1> QED BY <1>2 DEF MayServe, Walking, InBatch

\* The one claim of the campaign is the first threat to anybody.
LEMMA ClaimStep ==
  ASSUME IInv, TypeOK', NEW w \in Workers, Claim(w), status = "SCHEDULED"
  PROVE  Settled' /\ Paid'
<1> USE DEF ledger, queue
<1>1. /\ pc[w] = "claim" /\ status' = "SENDING" /\ Goes(w, "materialize")
      /\ UNCHANGED <<jobs, held, job, todo, last, rec, mails, faults>>
  BY DEF Claim
<1>2. /\ ~BatchAbroad /\ \A v \in Workers : pc[v] \notin Opening
      /\ \A r \in Recipients : rec[r] = "NONE" /\ mails[r] = 0
  BY DEF IInv, OneOpening
<1>3. /\ Alone(w) /\ pc'[w] = "materialize"
      /\ job'[w] = job[w] /\ todo'[w] = todo[w] /\ last'[w] = last[w] /\ held'[w] = held[w]
  BY <1>1, GoesAlone DEF IInv
<1>4. Fewer
  BY <1>1, FewerIfSame
<1>5. CarriedBy(w) /\ BehindAt(w)
  BY DEF IInv, Carried, Behind
<1>6. CarriedBy(w)'
  BY <1>1, <1>3, <1>5 DEF CarriedBy, InBatch, Verdicts, Opening, Walking
<1>7. Carried'
  BY <1>3, <1>6, CarriedRest DEF IInv
<1>8. OneOpening'
  <2>1. ~BatchAbroad' /\ \A v \in Workers : pc'[v] \in Opening => v = w
    BY <1>1, <1>2, <1>3 DEF BatchAbroad, Alone
  <2> QED BY <1>1, <1>2, <1>3, <2>1 DEF OneOpening
<1>9. BehindAt(w)'
  BY <1>3, <1>4, <1>5 DEF BehindAt, Fewer, InBatch, Verdicts
<1>10. Behind'
  BY <1>1, <1>3, <1>4, <1>9, BehindRest DEF IInv
<1>11. Done(w)' /\ (Over => Over')
  BY <1>3 DEF Done, Over
<1>12. Ended'
  BY <1>1, <1>3, <1>4, <1>11, EndedRest DEF IInv
<1>13. Paid'
  <2> SUFFICES ASSUME NEW r \in Recipients
               PROVE  IsFiniteSet(Threats(r)') /\ mails'[r] + Cardinality(Threats(r)') <= 1 + faults'
    BY DEF Paid
  <2>1. \A v \in Workers : ~MayServe(v, r)
    BY <1>2, NobodyThreatens DEF IInv, Opening
  <2>2. Threats(r) = {}
    BY <1>2, <2>1 DEF Threats, BatchAbroad
  <2>3. Threats(r)' \subseteq {<<"worker", w>>}
    BY <1>1, <1>3, <1>4, <2>2, ThreatsRest
  <2>4. mails'[r] = 0 /\ faults' \in Nat
    BY <1>1, <1>2, TypeParts DEF RestOK
  <2> DEFINE b == {<<"worker", w>>}
  <2>5. IsFiniteSet(b) /\ Cardinality(b) = 1
    BY FS_Singleton
  <2> HIDE DEF Threats, b
  <2>6. Threats(r)' \in SUBSET b
    BY <2>3 DEF b
  <2>7. /\ IsFiniteSet(Threats(r)') /\ Cardinality(Threats(r)') <= 1
        /\ Cardinality(Threats(r)') \in Nat
    BY <2>5, <2>6, FS_Subset, FS_CardinalityType
  <2> QED BY <2>4, <2>7
<1> QED BY <1>7, <1>8, <1>10, <1>12, <1>13 DEF Settled

\* The audience is made before there is a batch, by the one that opens the campaign.
LEMMA MaterializeStep ==
  ASSUME IInv, TypeOK', NEW w \in Workers, Materialize(w) PROVE Settled' /\ Paid'
<1> USE DEF campaign, queue
<1>1. PICK n \in Audiences :
        /\ rec' = [r \in Recipients |-> IF r <= n /\ rec[r] = "NONE" THEN "PENDING" ELSE rec[r]]
        /\ Goes(w, IF n = 0 THEN "failEmpty" ELSE "kick")
  BY DEF Materialize
<1>2. pc[w] = "materialize" /\ UNCHANGED <<status, jobs, held, job, todo, last, mails, faults>>
  BY DEF Materialize
<1>3. /\ status = "SENDING" /\ ~BatchAbroad
      /\ \A v \in Workers : pc[v] \in Opening => v = w
  BY <1>2 DEF IInv, OneOpening, Opening
<1>4. /\ Alone(w) /\ pc'[w] \in {"failEmpty", "kick"}
      /\ job'[w] = job[w] /\ todo'[w] = todo[w] /\ last'[w] = last[w] /\ held'[w] = held[w]
  BY <1>1, <1>2, GoesAlone DEF IInv
<1>5. \A r \in Recipients : Unserved(r)' => Unserved(r)
  BY <1>1 DEF Unserved
<1>6. ~BatchAbroad'
  BY <1>2, <1>3 DEF BatchAbroad
<1>7. CarriedBy(w)'
  BY <1>2, <1>4 DEF IInv, Carried, CarriedBy, InBatch, Verdicts, Opening, Walking
<1>8. Carried'
  BY <1>4, <1>7, CarriedRest DEF IInv
<1>9. OneOpening'
  <2>1. \A v \in Workers : pc'[v] \in Opening => v = w
    BY <1>3, <1>4 DEF Alone
  <2> QED BY <1>2, <1>3, <1>4, <1>6, <2>1 DEF OneOpening
<1>10. \A v \in Workers : ~IsBatch(job'[v]) /\ pc'[v] \notin Walking
  BY <1>6, <1>8 DEF BatchAbroad, Carried, CarriedBy
<1>11. Behind'
  <2>1. \A j \in jobs' : ~IsBatch(j)
    BY <1>6 DEF BatchAbroad
  <2> QED BY <1>10, <2>1 DEF Behind, BehindJob, BehindAt, Walking
<1>12. Ended'
  BY <1>2, <1>3, <1>10 DEF Ended, NobodyLeftOut, Done, Walking
<1>13. Paid'
  <2> SUFFICES ASSUME NEW r \in Recipients
               PROVE  IsFiniteSet(Threats(r)') /\ mails'[r] + Cardinality(Threats(r)') <= 1 + faults'
    BY DEF Paid
  <2>1. ASSUME NEW v \in Workers, MayServe(v, r)' PROVE MayServe(v, r)
    <3>1. pc'[v] \in {"materialize", "kick"} /\ Unserved(r)'
      BY <1>10, <2>1 DEF MayServe, Walking, InBatch
    <3>2. v = w
      BY <1>3, <1>4, <3>1 DEF Alone, Opening
    <3> QED BY <1>2, <1>5, <3>1, <3>2 DEF MayServe
  <2>2. Threats(r)' \subseteq Threats(r)
    BY <1>2, <1>5, <2>1 DEF Threats
  <2> QED BY <1>2, <2>2, PaidHandedOn DEF IInv
<1> QED BY <1>8, <1>9, <1>11, <1>12, <1>13 DEF Settled

\* The merchant, the tick and the world bring no batch, and open no campaign twice.
LEMMA OutsideStep == ASSUME IInv, TypeOK', Outside PROVE Settled' /\ Paid'
<1> USE DEF campaign, ledger, queue, worker
<1>1. /\ UNCHANGED <<rec, mails, pc, job, held, todo, last>>
      /\ faults' >= faults /\ jobs' \subseteq jobs \cup {DispatchJob}
      /\ \/ status' = status
         \/ status \in {"DRAFT", "SCHEDULED"} /\ status' \in {"SCHEDULED", "CANCELLED"}
  <2>1. QueueOK /\ faults \in Nat
    BY TypeParts DEF IInv, RestOK
  <2>2. CASE \E now \in BOOLEAN : Schedule(now)
    BY <2>1, <2>2 DEF Schedule
  <2>3. CASE Cancel \/ Clock \/ TickScan
    BY <2>1, <2>3 DEF Cancel, Clock, TickScan
  <2>4. CASE \E a \in {"tick", "route"} : CallDispatch(a)
    BY <2>1, <2>4, JobFacts, EnqueueType DEF CallDispatch
  <2>5. CASE \E a \in {"tick", "route"} : CallerDies(a)
    BY <2>1, <2>5 DEF CallerDies
  <2>6. CASE \E r \in Recipients : Suppress(r)
    BY <2>1, <2>6 DEF Suppress
  <2> QED BY <2>2, <2>3, <2>4, <2>5, <2>6 DEF Outside
<1>2. Carried'
  BY <1>1 DEF IInv, Carried, CarriedBy
<1>3. BatchAbroad' => BatchAbroad
  BY <1>1, JobFacts DEF BatchAbroad
<1>4. OneOpening'
  BY <1>1, <1>3 DEF IInv, OneOpening
<1>5. Behind'
  <2>1. \A j \in jobs' : BehindJob(j)'
    BY <1>1, JobFacts DEF IInv, Behind, BehindJob, Pending
  <2>2. \A w \in Workers : BehindAt(w)'
    BY <1>1 DEF IInv, Behind, BehindAt, Pending
  <2> QED BY <2>1, <2>2 DEF Behind
<1>6. Ended'
  BY <1>1 DEF IInv, Ended, NobodyLeftOut, Done, Over, Pending
<1>7. Paid'
  <2> SUFFICES ASSUME NEW r \in Recipients
               PROVE  IsFiniteSet(Threats(r)') /\ mails'[r] + Cardinality(Threats(r)') <= 1 + faults'
    BY DEF Paid
  <2>1. \A w \in Workers : MayServe(w, r)' => MayServe(w, r)
    BY <1>1 DEF MayServe, Unserved, cur
  <2>2. Unserved(r)' => Unserved(r)
    BY <1>1 DEF Unserved
  <2>3. Threats(r)' \subseteq Threats(r)
    BY <1>1, <2>1, <2>2, JobFacts DEF Threats
  <2>4. IsFiniteSet(Threats(r)) /\ mails[r] + Cardinality(Threats(r)) <= 1 + faults
    BY DEF IInv, Paid
  <2>5. mails[r] \in Nat /\ faults \in Nat /\ faults' \in Nat
    BY TypeParts DEF IInv, RestOK
  <2> HIDE DEF Threats
  <2>6. /\ Cardinality(Threats(r)) \in Nat
        /\ IsFiniteSet(Threats(r)') /\ Cardinality(Threats(r)') \in Nat
        /\ Cardinality(Threats(r)') <= Cardinality(Threats(r))
    BY <2>3, <2>4, Exchange
  <2> QED BY <1>1, <2>4, <2>5, <2>6
<1> QED BY <1>2, <1>4, <1>5, <1>6, <1>7 DEF Settled

LEMMA InitHolds == Init => IInv
<1> SUFFICES ASSUME Init PROVE IInv
  OBVIOUS
<1>1. TypeOK
  <2>1. tally \in [Verdicts -> 0 .. Size]
    BY JobFacts DEF Init, Nobody, Verdicts
  <2>2. QueueOK /\ HandlersOK
    BY JobFacts DEF Init, QueueOK, HandlersOK, Places
  <2>3. RestOK
    BY <2>1 DEF Init, RestOK, Statuses
  <2> QED BY <2>2, <2>3, TypeParts
<1>2. Carried /\ OneOpening
  BY JobFacts DEF Init, Carried, CarriedBy, OneOpening, BatchAbroad, InBatch, Verdicts,
                  Opening, Walking
<1>3. Behind
  BY JobFacts DEF Init, Behind, BehindAt, Pending
<1>4. Ended
  BY DEF Init, Ended, NobodyLeftOut, Done, Pending
<1>5. ASSUME NEW r \in Recipients
      PROVE  IsFiniteSet(Threats(r)) /\ mails[r] + Cardinality(Threats(r)) <= 1 + faults
  <2>1. Threats(r) = {}
    BY DEF Init, Threats, MayServe, Verdicts
  <2>2. mails[r] = 0 /\ faults = 0
    BY DEF Init
  <2> QED BY <2>1, <2>2, FS_EmptySet
<1> QED BY <1>1, <1>2, <1>3, <1>4, <1>5 DEF IInv, Paid

LEMMA NextHolds == IInv /\ [Next]_vars => IInv'
<1> SUFFICES ASSUME IInv, [Next]_vars PROVE IInv'
  OBVIOUS
<1>1. TypeOK /\ Carried
  BY DEF IInv
<1>2. CASE Outside
  BY <1>1, <1>2, OutsideType, OutsideStep DEF IInv, Settled
<1>3. ASSUME NEW w \in Workers, Works(w) PROVE IInv'
  <2>1. TypeOK'
    BY <1>1, <1>3, HandlerType
  <2>2. CASE ReadCampaign(w) \/ CheckQuota(w) \/ Gate(w) \/ Count(w) \/ Remaining(w)
    BY <2>1, <2>2, QuietStep DEF IInv, Settled
  <2>3. CASE Claim(w) /\ status = "SCHEDULED"
    BY <2>1, <2>3, ClaimStep DEF IInv, Settled
  <2>4. CASE \/ Claim(w) /\ status # "SCHEDULED"
             \/ FailEmpty(w) \/ Complete(w) \/ Fail(w) \/ Leave(w)
    BY <2>1, <2>4, EndStep DEF IInv, Settled
  <2>5. CASE Materialize(w)
    BY <2>1, <2>5, MaterializeStep DEF IInv, Settled
  <2>6. CASE Kick(w) \/ Chain(w)
    BY <2>1, <2>6, KickOrChainStep DEF IInv, Settled
  <2>7. CASE Select(w)
    BY <2>1, <2>7, SelectStep DEF IInv, Settled
  <2>8. CASE Send(w)
    BY <2>1, <2>8, SendStep DEF IInv, Settled
  <2>9. CASE Record(w)
    BY <2>1, <2>9, RecordStep DEF IInv, Settled
  <2> QED BY <1>3, <2>2, <2>3, <2>4, <2>5, <2>6, <2>7, <2>8, <2>9 DEF Works
<1>4. ASSUME NEW w \in Workers, TimesOut(w) PROVE IInv'
  BY <1>1, <1>4, QueueType, TimesOutStep DEF IInv, Settled
<1>5. ASSUME NEW w \in Workers, Dies(w) PROVE IInv'
  BY <1>1, <1>5, QueueType, DiesStep DEF IInv, Settled
<1>6. ASSUME NEW w \in Workers, NEW j \in Jobs, Take(w, j) PROVE IInv'
  BY <1>1, <1>6, QueueType, TakeStep DEF IInv, Settled
<1>7. CASE UNCHANGED vars
  <2>1. UNCHANGED <<status, due, tally, rec, noted, suppressed, mails, callers, jobs, fails,
                    spent, pc, job, held, todo, last, faults>>
    BY <1>7 DEF vars, campaign, ledger, queue, worker
  <2>2. TypeOK'
    BY <1>1, <2>1 DEF TypeOK
  <2>3. Carried' /\ OneOpening'
    BY <2>1 DEF IInv, Carried, CarriedBy, OneOpening, BatchAbroad
  <2>4. Behind' /\ Ended'
    BY <2>1 DEF IInv, Behind, BehindJob, BehindAt, Ended, NobodyLeftOut, Done, Over, Pending
  <2>5. \A r \in Recipients : Threats(r)' = Threats(r)
    BY <2>1 DEF Threats, MayServe, Unserved, cur
  <2>6. Paid'
    <3> HIDE DEF Threats
    <3> QED BY <2>1, <2>5 DEF IInv, Paid
  <2> QED BY <2>2, <2>3, <2>4, <2>6 DEF IInv
<1> QED BY <1>2, <1>3, <1>4, <1>5, <1>6, <1>7 DEF Next, Outside

THEOREM InvariantHolds == Spec => []IInv
<1> QED BY InitHolds, NextHolds, PTL DEF Spec

-----------------------------------------------------------------------------
(* The results.                                                             *)

\* Every variable keeps its type.
THEOREM TypeCorrect == Spec => []TypeOK
<1>1. IInv => TypeOK
  BY DEF IInv
<1> QED BY <1>1, InvariantHolds, PTL

\* A campaign that reads SENT has served everybody, and nobody is written to more than
\* once, and once more for each crash or timeout: for every audience, batch size, number of
\* workers and of attempts, whether or not the queue remembers the ids that have ended.
THEOREM SentWhole == Spec => []SentIsComplete
<1>1. ASSUME IInv PROVE SentIsComplete
  <2>1. NobodyLeftOut
    BY <1>1 DEF IInv, Ended
  <2>2. ASSUME NEW r \in Recipients PROVE mails[r] <= 1 + faults
    <3>1. IsFiniteSet(Threats(r)) /\ mails[r] + Cardinality(Threats(r)) <= 1 + faults
      BY <1>1 DEF IInv, Paid
    <3>2. mails[r] \in Nat /\ faults \in Nat
      BY <1>1, TypeParts DEF IInv, RestOK
    <3> HIDE DEF Threats
    <3>3. Cardinality(Threats(r)) \in Nat
      BY <3>1, FS_CardinalityType
    <3> QED BY <3>1, <3>2, <3>3
  <2> QED BY <2>1, <2>2 DEF SentIsComplete, DuplicatesCostFaults
<1> QED BY <1>1, InvariantHolds, PTL

\* Only the check of the list leads a handler to send.
LEMMA GoesElsewhere ==
  ASSUME TypeOK, NEW w \in Workers, NEW to, to # "send", Goes(w, to),
         todo' = todo \/ \E S : todo' = [todo EXCEPT ![w] = S],
         NEW v \in Workers, pc'[v] = "send"
  PROVE  pc[v] = "send" /\ todo'[v] = todo[v]
<1>1. HandlersOK
  BY TypeParts
<1>2. v # w
  BY <1>1 DEF Goes, HandlersOK
<1> QED BY <1>1, <1>2 DEF Goes, HandlersOK

LEMMA ToSend ==
  ASSUME IInv, Next, NEW v \in Workers, pc'[v] = "send"
  PROVE  /\ todo'[v] = todo[v]
         /\ pc[v] = "send" \/ (Gate(v) /\ cur(v) \notin suppressed)
<1>1. TypeOK /\ HandlersOK
  BY TypeParts DEF IInv
<1>2. CASE Outside
  BY <1>2 DEF Outside, Schedule, Cancel, Clock, TickScan, CallDispatch, CallerDies, Suppress,
              worker
<1>3. ASSUME NEW w \in Workers, TimesOut(w)
      PROVE  pc[v] = "send" /\ todo'[v] = todo[v]
  BY <1>3 DEF TimesOut
<1>4. ASSUME NEW w \in Workers, Dies(w)
      PROVE  pc[v] = "send" /\ todo'[v] = todo[v]
  BY <1>1, <1>4, GoesElsewhere DEF Dies, Forgets
<1>5. ASSUME NEW w \in Workers, NEW j \in Jobs, Take(w, j)
      PROVE  pc[v] = "send" /\ todo'[v] = todo[v]
  <2>1. Goes(w, IF j.kind = "dispatch" THEN "claim" ELSE "read") /\ todo' = todo
    BY <1>5 DEF Take, Goes
  <2> QED BY <1>1, <2>1, GoesElsewhere
<1>6. ASSUME NEW w \in Workers, Works(w), ~Gate(w)
      PROVE  pc[v] = "send" /\ todo'[v] = todo[v]
  <2>1. CASE Claim(w) \/ Materialize(w) \/ FailEmpty(w) \/ Kick(w)
    BY <1>1, <2>1, GoesElsewhere
       DEF Claim, Materialize, FailEmpty, Kick, Returns, Forgets
  <2>2. CASE ReadCampaign(w) \/ CheckQuota(w) \/ Count(w) \/ Remaining(w)
    BY <1>1, <2>2, GoesElsewhere DEF ReadCampaign, CheckQuota, Count, Remaining
  <2>3. CASE Select(w)
    BY <1>1, <2>3, GoesElsewhere DEF Select
  <2>4. CASE Send(w)
    BY <1>1, <2>4, GoesElsewhere DEF Send
  <2>5. CASE Record(w)
    BY <1>1, <2>5, GoesElsewhere DEF Record
  <2>6. CASE Complete(w) \/ Fail(w) \/ Chain(w) \/ Leave(w)
    BY <1>1, <2>6, GoesElsewhere DEF Complete, Fail, Chain, Leave, Returns, Forgets
  <2> QED BY <1>6, <2>1, <2>2, <2>3, <2>4, <2>5, <2>6 DEF Works
<1>7. ASSUME NEW w \in Workers, Gate(w)
      PROVE  /\ todo'[v] = todo[v]
             /\ pc[v] = "send" \/ (Gate(v) /\ cur(v) \notin suppressed)
  <2>1. /\ todo' = todo
        /\ Goes(w, IF cur(w) \in Malformed \cup suppressed THEN "SKIPPED" ELSE "send")
    BY <1>7 DEF Gate
  <2>2. CASE v = w
    BY <1>1, <1>7, <2>1, <2>2 DEF Goes, HandlersOK
  <2>3. CASE v # w
    BY <1>1, <2>1, <2>3 DEF Goes, HandlersOK
  <2> QED BY <2>2, <2>3
<1> QED BY <1>2, <1>3, <1>4, <1>5, <1>6, <1>7 DEF Next, Outside

\* Once a destination is suppressed no handler comes to send to it, and none is turned
\* to it by another's step.
THEOREM SuppressedHolds == Spec => SuppressionHolds
<1>1. ASSUME IInv, [Next]_vars
      PROVE  [\A r \in suppressed : PastGate(r)' \subseteq PastGate(r)]_vars
  <2> SUFFICES ASSUME Next PROVE \A r \in suppressed : PastGate(r)' \subseteq PastGate(r)
    BY <1>1
  <2> SUFFICES ASSUME NEW r \in suppressed, NEW v \in Workers, pc'[v] = "send", cur(v)' = r
               PROVE  pc[v] = "send" /\ cur(v) = r
    BY DEF PastGate
  <2>1. /\ todo'[v] = todo[v]
        /\ pc[v] = "send" \/ (Gate(v) /\ cur(v) \notin suppressed)
    BY <1>1, ToSend
  <2>2. cur(v)' = cur(v)
    BY <2>1 DEF cur
  <2> QED BY <2>1, <2>2
<1> QED BY <1>1, InvariantHolds, PTL DEF Spec, SuppressionHolds
=============================================================================
