----------------------- MODULE ActionExecution_proofs -----------------------
(***************************************************************************)
(* Theorems about ActionExecution, for every set of recommendations,       *)
(* users and recipients and every bound.                                   *)
(*                                                                         *)
(* The inductive invariant is TypeOK and Sound: the version is 1 exactly   *)
(* while the row is PENDING (so the compare-and-swap of a decision that    *)
(* read version 1 can only hit a PENDING row, although the sweep and the   *)
(* executor write versions out of order), and no execution exists, hence   *)
(* no job, handler call or effect, unless a decision has been taken.       *)
(***************************************************************************)
EXTENDS ActionExecution, TLAPS

Event == Statuses \X Statuses
Call  == [pc : Places, ver : Nat, ref : Refs, work : Refs, again : BOOLEAN]

-----------------------------------------------------------------------------
(* Types.                                                                   *)

\* The initial state is well typed.
LEMMA TypeInit == Init => TypeOK
  BY BoundsAssumption DEF Init, TypeOK, Statuses, AllKinds, Requests, NoRequest, NoRef, Refs,
     NoJob, Gone, Places, InTransaction, NoSweep, Attempts

\* What Becomes does, pointwise.
LEMMA BecomesCall ==
  ASSUME att \in [Recs -> [Attempts -> Call]], NEW r \in Recs, NEW k \in Attempts,
         NEW c \in Call, Becomes(r, k, c)
  PROVE  /\ att' \in [Recs -> [Attempts -> Call]]
         /\ att'[r][k] = c
         /\ \A q \in Recs, j \in Attempts : q # r \/ j # k => att'[q][j] = att[q][j]
  BY DEF Becomes

\* A call of a well-typed state, and its fields.
LEMMA CallType ==
  ASSUME TypeOK, NEW r \in Recs, NEW k \in Attempts
  PROVE  /\ att \in [Recs -> [Attempts -> Call]]
         /\ att[r][k] \in Call
         /\ att[r][k].ref \in Refs /\ att[r][k].work \in Refs
         /\ att[r][k].pc \in Places /\ att[r][k].ver \in Nat
  BY DEF TypeOK, Call

\* The idle call and the empty checkpoint have their types.
LEMMA GoneType == Gone \in Call /\ NoRef \in Refs
  BY DEF Gone, Call, NoRef, Refs, Places

\* A call that only moves on keeps its type.
LEMMA GoesType ==
  ASSUME TypeOK, NEW r \in Recs, NEW k \in Attempts, NEW pc \in Places, Goes(r, k, pc)
  PROVE  att' \in [Recs -> [Attempts -> Call]]
  BY CallType, BecomesCall DEF Goes, Call

\* A call that ends keeps the type of att.
LEMMA LeavesType ==
  ASSUME TypeOK, NEW r \in Recs, NEW k \in Attempts, Leaves(r, k)
  PROVE  att' \in [Recs -> [Attempts -> Call]]
  BY CallType, GoneType, BecomesCall DEF Leaves

\* A failing call keeps the types of the three variables it writes.
LEMMA FailsType ==
  ASSUME TypeOK, NEW r \in Recs, NEW k \in Attempts, NEW again \in BOOLEAN,
         Fails(r, k, again)
  PROVE  /\ att' \in [Recs -> [Attempts -> Call]]
         /\ exec' \in [Recs -> {"NONE", "PENDING", "SUCCEEDED", "FAILED"}]
         /\ ref' \in [Recs -> Refs]
<1>1. [att[r][k] EXCEPT !.pc = "failed", !.again = again] \in Call
  BY CallType DEF Call, Places
<1>2. att' \in [Recs -> [Attempts -> Call]]
  BY <1>1, CallType, BecomesCall DEF Fails
<1> QED BY <1>2, CallType DEF Fails, TypeOK

\* A step that writes one recommendation, with a status and a version of
\* their types.
LEMMA MovedType ==
  ASSUME TypeOK, NEW r \in Recs, NEW to \in Statuses, NEW v \in Nat, Moved(r, to, v)
  PROVE  status' \in [Recs -> Statuses] /\ version' \in [Recs -> Nat]
  BY DEF TypeOK, Moved

\* One event appended to a trail.
LEMMA LoggedType ==
  ASSUME TypeOK, NEW r \in Recs, NEW from \in Statuses, NEW to \in Statuses,
         Logged(r, from, to)
  PROVE  trail' \in [Recs -> Seq(Event)]
<1>1. trail \in [Recs -> Seq(Event)] /\ <<from, to>> \in Event
  BY DEF TypeOK, Event
<1>2. Append(trail[r], <<from, to>>) \in Seq(Event)
  BY <1>1
<1> QED BY <1>1, <1>2 DEF Logged

\* Two and three events appended to a trail.
LEMMA EventsType ==
  ASSUME trail \in [Recs -> Seq(Event)], NEW r \in Recs, NEW s \in Seq(Event),
         trail' = [trail EXCEPT ![r] = @ \o s]
  PROVE  trail' \in [Recs -> Seq(Event)]
<1>1. trail[r] \o s \in Seq(Event)
  OBVIOUS
<1> QED BY <1>1

\* The decision engine keeps the types.
LEMMA TypeAgent ==
  ASSUME TypeOK, NEW r \in Recs, Agent(r)
  PROVE  TypeOK'
<1>1. PICK kd \in AllKinds : Propose(r, kd) \/ AutoApprove(r, kd)
  BY KindsAssumption DEF Agent
<1>. USE DEF execVars, queueVars, world
<1>2. CASE Propose(r, kd)
  <2>1. status' \in [Recs -> Statuses] /\ version' \in [Recs -> Nat]
    BY <1>2, MovedType DEF Propose, Statuses
  <2>2. trail' \in [Recs -> Seq(Event)]
    BY <1>2, LoggedType DEF Propose, Statuses
  <2>3. kind' \in [Recs -> AllKinds]
    BY <1>2 DEF Propose, TypeOK
  <2> QED BY <1>2, <2>1, <2>2, <2>3 DEF Propose, TypeOK, Event
<1>3. CASE AutoApprove(r, kd)
  <2>1. status' \in [Recs -> Statuses] /\ version' \in [Recs -> Nat]
    BY <1>3, MovedType DEF AutoApprove, Statuses
  <2>2. trail' \in [Recs -> Seq(Event)]
    <3>1. trail \in [Recs -> Seq(Event)]
      BY DEF TypeOK, Event
    <3>2. /\ << <<"NONE", "PENDING">>, <<"PENDING", "APPROVED">>, <<"APPROVED", "EXECUTED">> >>
               \in Seq(Event)
          /\ << <<"NONE", "PENDING">>, <<"PENDING", "APPROVED">>, <<"APPROVED", "APPROVED">> >>
               \in Seq(Event)
      BY DEF Event, Statuses
    <3>3. \/ trail' = [trail EXCEPT ![r] = @ \o << <<"NONE", "PENDING">>,
                         <<"PENDING", "APPROVED">>, <<"APPROVED", "EXECUTED">> >>]
          \/ trail' = [trail EXCEPT ![r] = @ \o << <<"NONE", "PENDING">>,
                         <<"PENDING", "APPROVED">>, <<"APPROVED", "APPROVED">> >>]
      BY <1>3 DEF AutoApprove
    <3>4. PICK s \in Seq(Event) : trail' = [trail EXCEPT ![r] = @ \o s]
      BY <3>2, <3>3, Zenon
    <3> QED BY <3>1, <3>4, EventsType
  <2>3. kind' \in [Recs -> AllKinds]
    BY <1>3 DEF AutoApprove, TypeOK
  <2>4. /\ exec' \in [Recs -> {"NONE", "PENDING", "SUCCEEDED", "FAILED"}]
        /\ handoff' \subseteq Recs
    <3>1. \/ UNCHANGED <<exec, handoff>>
          \/ exec' = [exec EXCEPT ![r] = "PENDING"] /\ handoff' = handoff \cup {r}
      BY <1>3 DEF AutoApprove
    <3> QED BY <3>1 DEF TypeOK
  <2> QED BY <1>3, <2>1, <2>2, <2>3, <2>4 DEF AutoApprove, TypeOK, Event
<1> QED BY <1>1, <1>2, <1>3

\* What a loaded request holds.
LEMMA RequestType ==
  ASSUME TypeOK, NEW u \in Users, request[u].pc = "loaded"
  PROVE  request[u].rec \in Recs /\ request[u].ver \in Nat
  BY DEF TypeOK, Requests, NoRequest

\* Approving, rejecting and conflicting requests keep the types.
LEMMA TypeMerchant ==
  ASSUME TypeOK, NEW u \in Users, Merchant(u)
  PROVE  TypeOK'
<1>. USE DEF recVars, execVars, queueVars, world
<1>1. ASSUME NEW r \in Recs, NEW op \in {"approve", "reject"}, Load(u, op, r)
      PROVE  TypeOK'
  <2>1. request' \in [Users -> Requests]
    BY <1>1 DEF Load, TypeOK, Requests
  <2> QED BY <1>1, <2>1 DEF Load, TypeOK
<1>2. CASE Approve(u)
  <2>. DEFINE r == request[u].rec
              v == request[u].ver
  <2>1. r \in Recs /\ v \in Nat
    BY <1>2, RequestType DEF Approve, Swaps
  <2>2. status' \in [Recs -> Statuses] /\ version' \in [Recs -> Nat]
    BY <1>2, <2>1, MovedType DEF Approve, Statuses
  <2>3. trail' \in [Recs -> Seq(Event)]
    <3>1. trail \in [Recs -> Seq(Event)]
      BY DEF TypeOK, Event
    <3>2. /\ << <<"PENDING", "APPROVED">>, <<"APPROVED", "EXECUTED">> >> \in Seq(Event)
          /\ << <<"PENDING", "APPROVED">>, <<"APPROVED", "APPROVED">> >> \in Seq(Event)
      BY DEF Event, Statuses
    <3>3. \/ trail' = [trail EXCEPT ![r] = @ \o
                         << <<"PENDING", "APPROVED">>, <<"APPROVED", "EXECUTED">> >>]
          \/ trail' = [trail EXCEPT ![r] = @ \o
                         << <<"PENDING", "APPROVED">>, <<"APPROVED", "APPROVED">> >>]
      BY <1>2 DEF Approve
    <3>4. PICK s \in Seq(Event) : trail' = [trail EXCEPT ![r] = @ \o s]
      BY <3>2, <3>3, Zenon
    <3> QED BY <2>1, <3>1, <3>4, EventsType
  <2>4. /\ exec' \in [Recs -> {"NONE", "PENDING", "SUCCEEDED", "FAILED"}]
        /\ handoff' \subseteq Recs
    <3>1. \/ UNCHANGED <<exec, handoff>>
          \/ exec' = [exec EXCEPT ![r] = "PENDING"] /\ handoff' = handoff \cup {r}
      BY <1>2 DEF Approve
    <3> QED BY <2>1, <3>1 DEF TypeOK
  <2>5. request' \in [Users -> Requests]
    BY <1>2 DEF Approve, TypeOK, Requests
  <2> QED BY <1>2, <2>2, <2>3, <2>4, <2>5 DEF Approve, TypeOK, Event
<1>3. CASE Reject(u)
  <2>1. request[u].rec \in Recs /\ request[u].ver \in Nat
    BY <1>3, RequestType DEF Reject, Swaps
  <2>2. status' \in [Recs -> Statuses] /\ version' \in [Recs -> Nat]
    BY <1>3, <2>1, MovedType DEF Reject, Statuses
  <2>3. trail' \in [Recs -> Seq(Event)]
    BY <1>3, <2>1, LoggedType DEF Reject, Statuses
  <2>4. request' \in [Users -> Requests]
    BY <1>3 DEF Reject, TypeOK, Requests
  <2> QED BY <1>3, <2>2, <2>3, <2>4 DEF Reject, TypeOK, Event
<1>4. CASE Conflict(u)
  <2>1. request' \in [Users -> Requests]
    BY <1>4 DEF Conflict, TypeOK, Requests
  <2> QED BY <1>4, <2>1 DEF Conflict, TypeOK
<1> QED BY <1>1, <1>2, <1>3, <1>4 DEF Merchant

JobType == [Recs -> [st : {"none", "ready", "active", "done", "dead", "lost"},
                     n : 0 .. MaxAttempts]]
JobOK   == job \in JobType /\ \A r \in Recs : job[r].st = "ready" => job[r].n \in Attempts

\* The queue keeps the job record typed: it never counts past MaxAttempts.
LEMMA RescheduledType ==
  ASSUME TypeOK, NEW r \in Recs, NEW k \in Attempts, Rescheduled(r, k)
  PROVE  JobOK'
<1>1. JobOK /\ k \in 1 .. MaxAttempts
  BY DEF TypeOK, JobOK, JobType, Attempts
<1>2. CASE UNCHANGED job
  BY <1>1, <1>2 DEF JobOK
<1>3. CASE k < MaxAttempts /\ job' = [job EXCEPT ![r] = [st |-> "ready", n |-> k + 1]]
  <2>1. k + 1 \in Attempts /\ k + 1 \in 0 .. MaxAttempts
    BY <1>1, <1>3, BoundsAssumption DEF Attempts
  <2> QED BY <1>1, <1>3, <2>1 DEF JobOK, JobType
<1>4. CASE job' = [job EXCEPT ![r] = [st |-> "dead", n |-> k]]
  <2>1. k \in 0 .. MaxAttempts
    BY <1>1, BoundsAssumption
  <2> QED BY <1>1, <1>4, <2>1 DEF JobOK, JobType
<1> QED BY <1>2, <1>3, <1>4 DEF Rescheduled

\* A job whose state alone changes keeps its type.
LEMMA JobStType ==
  ASSUME NEW f \in JobType, NEW r \in Recs,
         NEW s \in {"none", "ready", "active", "done", "dead", "lost"}
  PROVE  [f EXCEPT ![r].st = s] \in JobType
  BY DEF JobType

\* An attempt the queue waits for is redelivered, completed or lost.
LEMMA JobStOK ==
  ASSUME TypeOK, NEW r \in Recs, NEW s \in {"ready", "active", "done", "lost"},
         job' = [job EXCEPT ![r].st = s],
         s = "ready" => job[r].n \in Attempts
  PROVE  JobOK'
<1>1. job \in JobType /\ \A q \in Recs : job[q].st = "ready" => job[q].n \in Attempts
  BY DEF TypeOK, JobType
<1>2. job' \in JobType
  BY <1>1, JobStType
<1>3. ASSUME NEW q \in Recs, job'[q].st = "ready"
      PROVE  job'[q].n \in Attempts
  <2>1. CASE q = r
    BY <1>1, <1>3, <2>1 DEF JobType
  <2>2. CASE q # r
    BY <1>1, <1>3, <2>2 DEF JobType
  <2> QED BY <2>1, <2>2
<1> QED BY <1>2, <1>3 DEF JobOK

\* Enqueueing and delivering keep the types.
LEMMA TypeQueue ==
  ASSUME TypeOK, NEW r \in Recs, Queue(r)
  PROVE  TypeOK'
<1>. USE DEF recVars, execVars, queueVars, world
<1>1. CASE Enqueue(r)
  <2>1. 1 \in Attempts /\ 1 \in 0 .. MaxAttempts
    BY BoundsAssumption DEF Attempts
  <2>2. \/ UNCHANGED job
        \/ job' = [job EXCEPT ![r] = [st |-> "ready", n |-> 1]]
    BY <1>1 DEF Enqueue, TypeOK
  <2>3. JobOK'
    <3>1. JobOK
      BY DEF TypeOK, JobOK, JobType
    <3>2. CASE UNCHANGED job
      BY <3>1, <3>2 DEF JobOK
    <3>3. CASE job' = [job EXCEPT ![r] = [st |-> "ready", n |-> 1]]
      BY <2>1, <3>1, <3>3 DEF JobOK, JobType
    <3> QED BY <2>2, <3>2, <3>3
  <2>4. handoff' \subseteq Recs
    BY <1>1 DEF Enqueue, TypeOK
  <2> QED BY <1>1, <2>3, <2>4 DEF Enqueue, TypeOK, JobOK, JobType
<1>2. CASE Deliver(r)
  <2>1. JobOK'
    BY <1>2, JobStOK DEF Deliver
  <2>2. [Gone EXCEPT !.pc = "start"] \in Call /\ job[r].n \in Attempts
    <3>1. job[r].n \in Attempts
      BY <1>2 DEF Deliver, TypeOK
    <3>2. [Gone EXCEPT !.pc = "start"] \in Call
      BY GoneType DEF Call, Places
    <3> QED BY <3>1, <3>2
  <2>3. att' \in [Recs -> [Attempts -> Call]]
    BY <1>2, <2>2, BecomesCall DEF Deliver, TypeOK, Call
  <2> QED BY <1>2, <2>1, <2>3 DEF Deliver, TypeOK, JobOK, JobType, Call
<1> QED BY <1>1, <1>2 DEF Queue

\* Crashes, timeouts and lost responses keep the types.
LEMMA TypeFault ==
  ASSUME TypeOK, NEW r \in Recs, Fault(r)
  PROVE  TypeOK'
<1>. USE DEF recVars, execVars, queueVars, world
<1>0. /\ OneCrash => faults' \in [crash : Nat, timeout : Nat, lost : Nat]
      /\ OneTimeout => faults' \in [crash : Nat, timeout : Nat, lost : Nat]
      /\ OneLost => faults' \in [crash : Nat, timeout : Nat, lost : Nat]
  <2>1. faults \in [crash : Nat, timeout : Nat, lost : Nat]
    BY DEF TypeOK
  <2>2. [faults EXCEPT !.crash = @ + 1] \in [crash : Nat, timeout : Nat, lost : Nat]
    BY <2>1
  <2>3. [faults EXCEPT !.timeout = @ + 1] \in [crash : Nat, timeout : Nat, lost : Nat]
    BY <2>1
  <2>4. [faults EXCEPT !.lost = @ + 1] \in [crash : Nat, timeout : Nat, lost : Nat]
    BY <2>1
  <2> QED BY <2>2, <2>3, <2>4 DEF OneCrash, OneTimeout, OneLost
<1>1. CASE HandoffLost(r)
  BY <1>0, <1>1 DEF HandoffLost, TypeOK
<1>2. ASSUME NEW k \in Attempts, TimesOut(r, k)
      PROVE  TypeOK'
  BY <1>0, <1>2, RescheduledType DEF TimesOut, TypeOK, JobOK, JobType
<1>3. ASSUME NEW k \in Attempts, WorkerDies(r, k)
      PROVE  TypeOK'
  <2>1. att' \in [Recs -> [Attempts -> Call]]
    BY <1>3, LeavesType DEF WorkerDies
  <2>2. JobOK'
    <3>1. CASE UNCHANGED job
      BY <3>1 DEF TypeOK, JobOK, JobType
    <3>2. CASE Current(r, k) /\ job' = [job EXCEPT ![r].st = "ready"]
      BY <3>2, JobStOK DEF Current
    <3>3. CASE job' = [job EXCEPT ![r].st = "lost"]
      BY <3>3, JobStOK
    <3> QED BY <1>3, <3>1, <3>2, <3>3 DEF WorkerDies
  <2> QED BY <1>0, <1>3, <2>1, <2>2 DEF WorkerDies, TypeOK, JobOK, JobType, Call
<1>4. ASSUME NEW k \in Attempts, Aborts(r, k)
      PROVE  TypeOK'
  <2>1. att' \in [Recs -> [Attempts -> Call]]
    BY <1>4, LeavesType DEF Aborts
  <2> QED BY <1>0, <1>4, <2>1, RescheduledType DEF Aborts, TypeOK, JobOK, JobType, Call
<1>5. ASSUME NEW k \in Attempts, PostRule(r, k, TRUE)
      PROVE  TypeOK'
  <2>1. rules' \in [Recs -> Nat]
    BY <1>5 DEF PostRule, TypeOK
  <2> QED BY <1>0, <1>5, <2>1 DEF PostRule, TypeOK
<1>6. ASSUME NEW k \in Attempts, PostCode(r, k, TRUE)
      PROVE  TypeOK'
  BY <1>0, <1>6 DEF PostCode, TypeOK
<1>7. ASSUME NEW k \in Attempts, NEW x \in Recipients, MailLost(r, k, x)
      PROVE  TypeOK'
  <2>1. mails' \in [Recs -> [Recipients -> Nat]]
    BY <1>7 DEF MailLost, TypeOK
  <2> QED BY <1>0, <1>7, <2>1, FailsType DEF MailLost, TypeOK, Call
<1> QED BY <1>1, <1>2, <1>3, <1>4, <1>5, <1>6, <1>7 DEF Fault

\* Every step of a handler call keeps the types.
LEMMA TypeStep ==
  ASSUME TypeOK, NEW r \in Recs, NEW k \in Attempts, Step(r, k)
  PROVE  TypeOK'
<1>. USE DEF recVars, execVars, queueVars, world
<1>. DEFINE AttOK == att' \in [Recs -> [Attempts -> Call]]
<1>1. CASE Read(r, k)
  <2>1. [pc |-> "lock", ver |-> version[r], ref |-> ref[r], work |-> ref[r], again |-> FALSE]
          \in Call
    BY DEF TypeOK, Call, Places
  <2>2. AttOK
    BY <1>1, <2>1, CallType, GoesType, BecomesCall DEF Read, Places
  <2> QED BY <1>1, <2>2 DEF Read, TypeOK, Call
<1>2. CASE Deny(r, k)
  <2>1. AttOK
    BY <1>2, GoesType DEF Deny, Places
  <2> QED BY <1>2, <2>1 DEF Deny, TypeOK, Call
<1>3. CASE Lock(r, k)
  <2>1. AttOK
    BY <1>3, GoesType DEF Lock, Places, InTransaction
  <2> QED BY <1>3, <2>1 DEF Lock, TypeOK, Call
<1>4. CASE Resolve(r, k)
  <2>1. AttOK
    BY <1>4, GoesType DEF Resolve, Places, InTransaction
  <2> QED BY <1>4, <2>1 DEF Resolve, TypeOK, Call
<1>5. CASE ResolveFails(r, k)
  BY <1>5, FailsType DEF ResolveFails, TypeOK, Call
<1>6. ASSUME NEW again \in BOOLEAN, ToolFails(r, k, again)
      PROVE  TypeOK'
  <2>1. Fails(r, k, again)
    BY <1>6 DEF ToolFails
  <2>2. UNCHANGED <<status, version, kind, trail, request, handoff, job, due, sweep,
                    rules, code, mails, faults>>
    BY <1>6 DEF ToolFails
  <2>3. /\ att' \in [Recs -> [Attempts -> Call]]
        /\ exec' \in [Recs -> {"NONE", "PENDING", "SUCCEEDED", "FAILED"}]
        /\ ref' \in [Recs -> Refs]
    BY <2>1, FailsType
  <2> QED BY <2>2, <2>3 DEF TypeOK, Call
<1>7. CASE PostRule(r, k, FALSE)
  <2>1. [att[r][k] EXCEPT !.pc = "code", !.work.rule = TRUE] \in Call
    <3>1. [att[r][k].work EXCEPT !.rule = TRUE] \in Refs
      BY CallType DEF Refs
    <3>2. "code" \in Places
      BY DEF Places, InTransaction
    <3> QED BY <3>1, <3>2, CallType DEF Call
  <2>2. AttOK
    BY <1>7, <2>1, CallType, BecomesCall DEF PostRule
  <2>3. rules' \in [Recs -> Nat]
    BY <1>7 DEF PostRule, TypeOK
  <2> QED BY <1>7, <2>2, <2>3 DEF PostRule, TypeOK, Call
<1>8. ASSUME NEW done \in Refs, Returns(r, k, done)
      PROVE  AttOK
  <2>1. [att[r][k] EXCEPT !.ref = done, !.work = done,
           !.pc = IF Mailed(r) THEN "mail" ELSE "commit"] \in Call
    BY <1>8, CallType DEF Call, Places, InTransaction
  <2> QED BY <1>8, <2>1, CallType, BecomesCall DEF Returns
<1>9. CASE PostCode(r, k, FALSE)
  <2>1. [att[r][k].work EXCEPT !.code = TRUE] \in Refs
    BY CallType DEF Refs
  <2> QED BY <1>8, <1>9, <2>1 DEF PostCode, TypeOK, Call
<1>11. CASE CodeTaken(r, k)
  BY <1>11, FailsType DEF CodeTaken, TypeOK, Call
<1>12. ASSUME NEW x \in Recipients, Mail(r, k, x)
       PROVE  TypeOK'
  <2>1. [att[r][k] EXCEPT !.work.sent = @ \cup {x}] \in Call
    <3>1. [att[r][k].work EXCEPT !.sent = @ \cup {x}] \in Refs
      BY CallType DEF Refs
    <3> QED BY <3>1, CallType DEF Call
  <2>2. AttOK
    BY <1>12, <2>1, CallType, BecomesCall DEF Mail
  <2>3. mails' \in [Recs -> [Recipients -> Nat]]
    BY <1>12 DEF Mail, TypeOK
  <2> QED BY <1>12, <2>2, <2>3 DEF Mail, TypeOK, Call
<1>13. CASE MailDone(r, k)
  <2>1. [att[r][k] EXCEPT !.ref = att[r][k].work, !.pc = "commit"] \in Call
    BY CallType DEF Call, Places, InTransaction
  <2>2. AttOK
    BY <1>13, <2>1, CallType, BecomesCall DEF MailDone
  <2> QED BY <1>13, <2>2 DEF MailDone, TypeOK, Call
<1>14. CASE Succeed(r, k)
  <2>1. AttOK
    BY <1>14, GoesType DEF Succeed, Places
  <2>2. status' \in [Recs -> Statuses] /\ version' \in [Recs -> Nat]
    BY <1>14, CallType, MovedType DEF Succeed, Statuses
  <2>3. trail' \in [Recs -> Seq(Event)]
    BY <1>14, LoggedType DEF Succeed, Statuses
  <2>4. exec' \in [Recs -> {"NONE", "PENDING", "SUCCEEDED", "FAILED"}] /\ ref' \in [Recs -> Refs]
    BY <1>14, CallType DEF Succeed, TypeOK
  <2> QED BY <1>14, <2>1, <2>2, <2>3, <2>4 DEF Succeed, TypeOK, Call, Event
<1>15. CASE Throw(r, k)
  BY <1>15, LeavesType, RescheduledType DEF Throw, TypeOK, Call, JobOK, JobType
<1>16. CASE GiveUp(r, k)
  <2>1. AttOK
    BY <1>16, GoesType DEF GiveUp, Places
  <2> QED BY <1>16, <2>1 DEF GiveUp, TypeOK, Call
<1>17. CASE MarkRead(r, k)
  <2>1. [att[r][k] EXCEPT !.pc = "markw", !.ver = version[r]] \in Call
    <3>1. version[r] \in Nat /\ "markw" \in Places
      BY DEF TypeOK, Places
    <3> QED BY <3>1, CallType DEF Call
  <2>2. AttOK
    BY <1>17, <2>1, CallType, BecomesCall, GoesType DEF MarkRead, Places
  <2> QED BY <1>17, <2>2 DEF MarkRead, TypeOK, Call
<1>18. CASE MarkFailed(r, k)
  <2>1. AttOK
    BY <1>18, GoesType DEF MarkFailed, Places
  <2>2. status' \in [Recs -> Statuses] /\ version' \in [Recs -> Nat]
    BY <1>18, CallType, MovedType DEF MarkFailed, Statuses
  <2> QED BY <1>18, <2>1, <2>2 DEF MarkFailed, TypeOK, Call
<1>19. CASE Return(r, k)
  <2>1. AttOK
    BY <1>19, LeavesType DEF Return
  <2>2. JobOK'
    <3>1. CASE UNCHANGED job
      BY <3>1 DEF TypeOK, JobOK, JobType
    <3>2. CASE job' = [job EXCEPT ![r].st = "done"]
      BY <3>2, JobStOK
    <3> QED BY <1>19, <3>1, <3>2 DEF Return
  <2> QED BY <1>19, <2>1, <2>2 DEF Return, TypeOK, Call, JobOK, JobType
<1> QED
  BY <1>1, <1>2, <1>3, <1>4, <1>5, <1>6, <1>7, <1>9, <1>11, <1>12, <1>13,
     <1>14, <1>15, <1>16, <1>17, <1>18, <1>19 DEF Step

\* The daily sweep keeps the types.
LEMMA TypeSweep ==
  ASSUME TypeOK, NEW r \in Recs, Sweep(r)
  PROVE  TypeOK'
<1>. USE DEF recVars, execVars, queueVars, world
<1>1. CASE BecomesDue(r)
  BY <1>1 DEF BecomesDue, TypeOK
<1>2. CASE SweepRead(r)
  <2>1. sweep' \in [Recs -> [on : BOOLEAN, from : Statuses, ver : Nat]]
    BY <1>2 DEF SweepRead, TypeOK
  <2> QED BY <1>2, <2>1 DEF SweepRead, TypeOK
<1>3. CASE SweepWrite(r)
  <2>1. sweep[r].from \in Statuses /\ sweep[r].ver \in Nat
    BY DEF TypeOK
  <2>2. status' \in [Recs -> Statuses] /\ version' \in [Recs -> Nat]
    <3>1. CASE status[r] \in {"PENDING", "APPROVED"}
      BY <1>3, <2>1, <3>1, MovedType DEF SweepWrite, Statuses
    <3>2. CASE status[r] \notin {"PENDING", "APPROVED"}
      BY <1>3, <3>2 DEF SweepWrite, TypeOK
    <3> QED BY <3>1, <3>2
  <2>3. trail' \in [Recs -> Seq(Event)]
    <3>1. CASE status[r] \in {"PENDING", "APPROVED"}
      BY <1>3, <2>1, <3>1, LoggedType DEF SweepWrite, Statuses
    <3>2. CASE status[r] \notin {"PENDING", "APPROVED"}
      BY <1>3, <3>2 DEF SweepWrite, TypeOK, Event
    <3> QED BY <3>1, <3>2
  <2>4. sweep' \in [Recs -> [on : BOOLEAN, from : Statuses, ver : Nat]]
    BY <1>3 DEF SweepWrite, TypeOK, NoSweep, Statuses
  <2> QED BY <1>3, <2>2, <2>3, <2>4 DEF SweepWrite, TypeOK, Event
<1>4. CASE Measure(r)
  <2>1. status' \in [Recs -> Statuses] /\ version' \in [Recs -> Nat]
    <3>1. version[r] + 1 \in Nat
      BY DEF TypeOK
    <3> QED BY <1>4, <3>1, MovedType DEF Measure, Statuses
  <2>2. trail' \in [Recs -> Seq(Event)]
    BY <1>4, LoggedType DEF Measure, Statuses
  <2> QED BY <1>4, <2>1, <2>2 DEF Measure, TypeOK, Event
<1> QED BY <1>1, <1>2, <1>3, <1>4 DEF Sweep

\* TypeOK is inductive by itself.
LEMMA TypeNext == TypeOK /\ [Next]_vars => TypeOK'
<1>. SUFFICES ASSUME TypeOK, [Next]_vars PROVE TypeOK'
  OBVIOUS
<1>1. CASE UNCHANGED vars
  BY <1>1 DEF TypeOK, vars
<1>2. CASE Next
  BY <1>2, TypeMerchant, TypeAgent, TypeQueue, TypeFault, TypeSweep, TypeStep DEF Next
<1> QED BY <1>1, <1>2

\* The types hold in every reachable state.
THEOREM TypeCorrect == Spec => []TypeOK
<1>1. Init => TypeOK
  BY TypeInit
<1>2. TypeOK /\ [Next]_vars => TypeOK'
  BY TypeNext
<1> QED BY <1>1, <1>2, PTL DEF Spec

-----------------------------------------------------------------------------
(* The inductive invariant.                                                 *)

\* stateVersion tells an undecided row from a decided one.
Versions(r) == /\ status[r] = "NONE" <=> version[r] = 0
               /\ status[r] = "PENDING" <=> version[r] = 1

\* An execution row exists only behind a decision, and behind every approval
\* that is waiting for it.
Decided(r) == /\ status[r] \in {"NONE", "PENDING", "REJECTED"} => exec[r] = "NONE"
              /\ status[r] = "APPROVED" => exec[r] # "NONE"

\* Without an execution row there is nothing that could act.
Idle(r) == exec[r] = "NONE" => Inert(r)

\* A version read for a later write was that of an existing row; a decision
\* in flight read version 1.
ReadsVersion == InTransaction \cup {"lock", "markw"}

Fresh(r) == /\ sweep[r].on => sweep[r].ver >= 1
            /\ \A k \in Attempts : att[r][k].pc \in ReadsVersion => att[r][k].ver >= 1

RequestsFresh == \A u \in Users : request[u].pc = "loaded" => request[u].ver = 1

SoundRec(r) == Versions(r) /\ Decided(r) /\ Idle(r) /\ Fresh(r)
Sound == RequestsFresh /\ \A r \in Recs : SoundRec(r)

IInv == TypeOK /\ Sound

\* Nothing exists in the initial state, so it is sound.
LEMMA SoundInit == Init => Sound
  BY DEF Init, Sound, SoundRec, RequestsFresh, Versions, Decided, Idle, Fresh, Inert, Acted,
     NoRequest, NoSweep, NoJob, Gone, ReadsVersion, InTransaction

\* Nothing SoundRec(q) speaks of has changed.
Same(q) == /\ status'[q] = status[q] /\ version'[q] = version[q] /\ exec'[q] = exec[q]
           /\ sweep'[q] = sweep[q] /\ job'[q] = job[q] /\ att'[q] = att[q]
           /\ (q \in handoff') = (q \in handoff)
           /\ rules'[q] = rules[q] /\ code'[q] = code[q] /\ mails'[q] = mails[q]

\* A recommendation a step leaves alone stays sound.
LEMMA SameSound ==
  ASSUME Sound, NEW q \in Recs, Same(q)
  PROVE  SoundRec(q)'
  BY DEF Sound, SoundRec, Versions, Decided, Idle, Fresh, Inert, Acted, Same

\* A step of one recommendation: the others stay as they are.
LEMMA OneSound ==
  ASSUME Sound, RequestsFresh', NEW r \in Recs, SoundRec(r)', 
         \A q \in Recs \ {r} : Same(q)
  PROVE  Sound'
  BY SameSound DEF Sound

\* A handler call is at work on r: whatever it does to the world, to its own
\* state and to the job, r stays sound, provided the row it may write is given
\* a status past the decision and a version above 1.
Works(r, k) ==
  /\ att[r][k].pc # "gone"
  /\ exec'[r] # "NONE"
  /\ UNCHANGED <<request, sweep>>
  /\ \/ status'[r] = status[r] /\ version'[r] = version[r]
     \/ status'[r] \in {"EXECUTED", "FAILED"} /\ version'[r] >= 2
  /\ att'[r][k].pc \in ReadsVersion => att'[r][k].ver >= 1
  /\ \A j \in Attempts \ {k} : att'[r][j] = att[r][j]
  /\ \A q \in Recs \ {r} : Same(q)

\* A handler call at work keeps the state sound.
LEMMA WorksSound ==
  ASSUME TypeOK, TypeOK', Sound, NEW r \in Recs, NEW k \in Attempts, Works(r, k)
  PROVE  Sound'
<1>1. SoundRec(r) /\ RequestsFresh
  BY DEF Sound
<1>2. exec[r] # "NONE" /\ status[r] \notin {"NONE", "PENDING", "REJECTED"}
  BY <1>1 DEF Works, SoundRec, Idle, Inert, Decided
<1>3. version[r] \in Nat /\ version'[r] \in Nat
  BY DEF TypeOK
<1>4. Versions(r)' /\ Decided(r)'
  BY <1>1, <1>2, <1>3 DEF Works, SoundRec, Versions, Decided
<1>5. Idle(r)'
  BY DEF Works, Idle
<1>6. Fresh(r)'
  BY <1>1 DEF Works, SoundRec, Fresh
<1>7. RequestsFresh'
  BY <1>1 DEF Works, RequestsFresh
<1> QED BY <1>4, <1>5, <1>6, <1>7, OneSound DEF Works, SoundRec

\* What a handler call under way knows.
LEMMA AtWork ==
  ASSUME TypeOK, Sound, NEW r \in Recs, NEW k \in Attempts, att[r][k].pc # "gone"
  PROVE  /\ exec[r] # "NONE"
         /\ status[r] \notin {"NONE", "PENDING", "REJECTED"}
         /\ version[r] >= 1 /\ version[r] \in Nat
         /\ att[r][k].pc \in ReadsVersion => att[r][k].ver >= 1
<1>1. SoundRec(r)
  BY DEF Sound
<1>2. exec[r] # "NONE" /\ status[r] \notin {"NONE", "PENDING", "REJECTED"}
  BY <1>1 DEF SoundRec, Idle, Inert, Decided
<1>3. version[r] \in Nat /\ version[r] # 0
  BY <1>1, <1>2 DEF TypeOK, SoundRec, Versions
<1> QED BY <1>1, <1>2, <1>3 DEF SoundRec, Fresh

\* What Becomes leaves alone.
LEMMA BecomesElse ==
  ASSUME TypeOK, NEW r \in Recs, NEW k \in Attempts, NEW c, Becomes(r, k, c)
  PROVE  /\ att'[r][k] = c
         /\ \A j \in Attempts \ {k} : att'[r][j] = att[r][j]
         /\ \A q \in Recs \ {r} : att'[q] = att[q]
<1>1. att \in [Recs -> [Attempts -> Call]]
  BY DEF TypeOK, Call
<1> QED BY <1>1 DEF Becomes

\* The queue touches the job of one recommendation.
LEMMA RescheduledElse ==
  ASSUME TypeOK, NEW r \in Recs, NEW k \in Attempts, Rescheduled(r, k)
  PROVE  \A q \in Recs \ {r} : job'[q] = job[q]
  BY DEF TypeOK, Rescheduled

\* The steps of a handler are such work.
LEMMA StepWorks ==
  ASSUME TypeOK, Sound, NEW r \in Recs, NEW k \in Attempts, Step(r, k)
  PROVE  Works(r, k)
<1>. USE DEF recVars, execVars, queueVars, world, Goes, Leaves
<1>1. att[r][k] \in Call
  BY CallType
<1>2. att[r][k].pc # "gone"
  BY DEF Step, Read, Deny, Lock, Resolve, ResolveFails, ToolFails, PostRule, PostCode,
         CodeTaken, Mail, MailDone, Succeed, Throw, GiveUp, MarkRead,
         MarkFailed, Return
<1>3. /\ exec[r] # "NONE" /\ version[r] >= 1 /\ version[r] \in Nat
      /\ att[r][k].pc \in ReadsVersion => att[r][k].ver >= 1
      /\ exec \in [Recs -> {"NONE", "PENDING", "SUCCEEDED", "FAILED"}]
  BY <1>2, AtWork DEF TypeOK
<1>. USE DEF ReadsVersion, InTransaction
<1>4. CASE Read(r, k)
  BY <1>1, <1>2, <1>3, <1>4, BecomesElse DEF Read, Works, Same, Call
<1>5. CASE Deny(r, k)
  BY <1>1, <1>2, <1>3, <1>5, BecomesElse DEF Deny, Works, Same, Call
<1>6. CASE Lock(r, k)
  BY <1>1, <1>2, <1>3, <1>6, BecomesElse DEF Lock, Works, Same, Call
<1>7. CASE Resolve(r, k)
  BY <1>1, <1>2, <1>3, <1>7, BecomesElse DEF Resolve, Works, Same, Call
<1>8. ASSUME NEW again \in BOOLEAN, Fails(r, k, again),
             UNCHANGED <<status, version, request, sweep, handoff, job, rules, code, mails>>
      PROVE  Works(r, k)
  <2>1. att'[r][k].pc = "failed"
    <3>1. att'[r][k] = [att[r][k] EXCEPT !.pc = "failed", !.again = again]
      BY <1>8, BecomesElse DEF Fails
    <3>2. [att[r][k] EXCEPT !.pc = "failed", !.again = again].pc = "failed"
      BY <1>1 DEF Call
    <3> QED BY <3>1, <3>2
  <2> QED BY <1>2, <1>3, <1>8, <2>1, BecomesElse DEF Fails, Works, Same
<1>9. CASE ResolveFails(r, k)
  BY <1>8, <1>9 DEF ResolveFails
<1>10. ASSUME NEW again \in BOOLEAN, ToolFails(r, k, again)
       PROVE  Works(r, k)
  BY <1>8, <1>10 DEF ToolFails
<1>11. CASE CodeTaken(r, k)
  BY <1>8, <1>11 DEF CodeTaken
<1>12. CASE PostRule(r, k, FALSE)
  <2>1. rules \in [Recs -> Nat]
    BY DEF TypeOK
  <2>2. att'[r][k].ver = att[r][k].ver
    <3>1. att'[r][k] = [att[r][k] EXCEPT !.pc = "code", !.work.rule = TRUE]
      BY <1>12, BecomesElse DEF PostRule
    <3>2. [att[r][k] EXCEPT !.pc = "code", !.work.rule = TRUE].ver
               = att[r][k].ver
      BY <1>1 DEF Call
    <3> QED BY <3>1, <3>2
  <2> QED BY <1>2, <1>3, <1>12, <2>1, <2>2, BecomesElse DEF PostRule, Works, Same
<1>13. CASE PostCode(r, k, FALSE)
  <2>1. code \in [Recs -> BOOLEAN]
    BY DEF TypeOK
  <2>2. att'[r][k].ver = att[r][k].ver
    <3>1. att'[r][k] = [att[r][k] EXCEPT !.ref = [att[r][k].work EXCEPT !.code = TRUE],
                   !.work = [att[r][k].work EXCEPT !.code = TRUE],
                   !.pc = IF Mailed(r) THEN "mail" ELSE "commit"]
      BY <1>13, BecomesElse DEF PostCode, Returns
    <3>2. [att[r][k] EXCEPT !.ref = [att[r][k].work EXCEPT !.code = TRUE],
                   !.work = [att[r][k].work EXCEPT !.code = TRUE],
                   !.pc = IF Mailed(r) THEN "mail" ELSE "commit"].ver
               = att[r][k].ver
      BY <1>1 DEF Call
    <3> QED BY <3>1, <3>2
  <2> QED BY <1>2, <1>3, <1>13, <2>1, <2>2, BecomesElse DEF PostCode, Returns, Works, Same
<1>15. ASSUME NEW x \in Recipients, Mail(r, k, x)
       PROVE  Works(r, k)
  <2>1. mails \in [Recs -> [Recipients -> Nat]]
    BY DEF TypeOK
  <2> QED BY <1>1, <1>2, <1>3, <1>15, <2>1, BecomesElse, SMTT(30) DEF Mail, Works, Same, Call
<1>16. CASE MailDone(r, k)
  <2>1. att'[r][k].ver = att[r][k].ver
    <3>1. att'[r][k] = [att[r][k] EXCEPT !.ref = att[r][k].work, !.pc = "commit"]
      BY <1>16, BecomesElse DEF MailDone
    <3>2. [att[r][k] EXCEPT !.ref = att[r][k].work, !.pc = "commit"].ver
               = att[r][k].ver
      BY <1>1 DEF Call
    <3> QED BY <3>1, <3>2
  <2> QED BY <1>2, <1>3, <1>16, <2>1, BecomesElse DEF MailDone, Works, Same
<1>17. CASE Succeed(r, k)
  <2>1. status \in [Recs -> Statuses] /\ version \in [Recs -> Nat]
    BY DEF TypeOK
  <2> QED BY <1>1, <1>2, <1>3, <1>17, <2>1, BecomesElse DEF Succeed, Moved, Works, Same, Call
<1>18. CASE Throw(r, k)
  BY <1>1, <1>2, <1>3, <1>18, BecomesElse, RescheduledElse DEF Throw, Gone, Works, Same, Call
<1>19. CASE GiveUp(r, k)
  BY <1>1, <1>2, <1>3, <1>19, BecomesElse DEF GiveUp, Works, Same, Call
<1>20. CASE MarkRead(r, k)
  <2>1. CASE status[r] \in {"APPROVED", "FAILED"}
    <3>1. att'[r][k].ver = version[r]
      <4>1. att'[r][k] = [att[r][k] EXCEPT !.pc = "markw", !.ver = version[r]]
        BY <1>20, <2>1, BecomesElse DEF MarkRead
      <4>2. [att[r][k] EXCEPT !.pc = "markw", !.ver = version[r]].ver
                 = version[r]
        BY <1>1 DEF Call
      <4> QED BY <4>1, <4>2
    <3> QED BY <1>2, <1>3, <1>20, <2>1, <3>1, BecomesElse DEF MarkRead, Works, Same
  <2>2. CASE status[r] \notin {"APPROVED", "FAILED"}
    BY <1>1, <1>2, <1>3, <1>20, <2>2, BecomesElse DEF MarkRead, Works, Same, Call
  <2> QED BY <2>1, <2>2
<1>21. CASE MarkFailed(r, k)
  <2>1. status \in [Recs -> Statuses] /\ version \in [Recs -> Nat]
    BY DEF TypeOK
  <2> QED BY <1>1, <1>2, <1>3, <1>21, <2>1, BecomesElse DEF MarkFailed, Moved, Works, Same, Call
<1>22. CASE Return(r, k)
  <2>1. \A q \in Recs \ {r} : job'[q] = job[q]
    BY <1>22 DEF Return, TypeOK
  <2> QED BY <1>1, <1>2, <1>3, <1>22, <2>1, BecomesElse DEF Return, Gone, Works, Same, Call
<1> QED
  BY <1>4, <1>5, <1>6, <1>7, <1>9, <1>10, <1>11, <1>12, <1>13, <1>15, <1>16, <1>17,
     <1>18, <1>19, <1>20, <1>21, <1>22 DEF Step

\* The faults that hit a handler call are work of the same kind.
LEMMA FaultWorks ==
  ASSUME TypeOK, Sound, NEW r \in Recs, NEW k \in Attempts,
         \/ TimesOut(r, k) \/ WorkerDies(r, k) \/ Aborts(r, k)
         \/ PostRule(r, k, TRUE) \/ PostCode(r, k, TRUE)
         \/ \E x \in Recipients : MailLost(r, k, x)
  PROVE  Works(r, k)
<1>. USE DEF recVars, execVars, queueVars, world, Leaves
<1>1. att[r][k] \in Call /\ att \in [Recs -> [Attempts -> Call]]
  BY CallType
<1>2. att[r][k].pc # "gone"
  BY DEF TimesOut, WorkerDies, Aborts, PostRule, PostCode, MailLost
<1>3. /\ exec[r] # "NONE" /\ version[r] >= 1 /\ version[r] \in Nat
      /\ att[r][k].pc \in ReadsVersion => att[r][k].ver >= 1
      /\ exec \in [Recs -> {"NONE", "PENDING", "SUCCEEDED", "FAILED"}]
  BY <1>2, AtWork DEF TypeOK
<1>. USE DEF ReadsVersion, InTransaction
<1>4. CASE TimesOut(r, k)
  BY <1>1, <1>2, <1>3, <1>4, RescheduledElse DEF TimesOut, Works, Same
<1>5. CASE WorkerDies(r, k)
  <2>1. \A q \in Recs \ {r} : job'[q] = job[q]
    BY <1>5 DEF WorkerDies, TypeOK
  <2> QED BY <1>1, <1>2, <1>3, <1>5, <2>1, BecomesElse DEF WorkerDies, Gone, Works, Same, Call
<1>6. CASE Aborts(r, k)
  BY <1>1, <1>2, <1>3, <1>6, BecomesElse, RescheduledElse DEF Aborts, Gone, Works, Same, Call
<1>7. CASE PostRule(r, k, TRUE)
  <2>1. rules \in [Recs -> Nat]
    BY DEF TypeOK
  <2> QED BY <1>1, <1>2, <1>3, <1>7, <2>1 DEF PostRule, Works, Same
<1>8. CASE PostCode(r, k, TRUE)
  <2>1. code \in [Recs -> BOOLEAN]
    BY DEF TypeOK
  <2> QED BY <1>1, <1>2, <1>3, <1>8, <2>1 DEF PostCode, Works, Same
<1>9. ASSUME NEW x \in Recipients, MailLost(r, k, x)
      PROVE  Works(r, k)
  <2>1. mails \in [Recs -> [Recipients -> Nat]]
    BY DEF TypeOK
  <2>2. att'[r][k].ver = att[r][k].ver
    <3>1. att'[r][k] = [att[r][k] EXCEPT !.pc = "failed", !.again = TRUE]
      BY <1>9, BecomesElse DEF MailLost, Fails
    <3>2. [att[r][k] EXCEPT !.pc = "failed", !.again = TRUE].ver
               = att[r][k].ver
      BY <1>1 DEF Call
    <3> QED BY <3>1, <3>2
  <2> QED BY <1>2, <1>3, <1>9, <2>1, <2>2, BecomesElse DEF MailLost, Fails, Works, Same
<1> QED BY <1>4, <1>5, <1>6, <1>7, <1>8, <1>9

\* A proposal opens the row at version 1, an automatic approval decides it.
LEMMA AgentSound ==
  ASSUME TypeOK, TypeOK', Sound, NEW r \in Recs, Agent(r)
  PROVE  Sound'
<1>. USE DEF execVars, queueVars, world
<1>1. PICK kd : Propose(r, kd) \/ AutoApprove(r, kd)
  BY DEF Agent
<1>2. SoundRec(r) /\ status[r] = "NONE" /\ exec[r] = "NONE" /\ Inert(r)
  BY <1>1 DEF Sound, SoundRec, Decided, Idle, Propose, AutoApprove
<1>3. /\ status \in [Recs -> Statuses] /\ version \in [Recs -> Nat]
      /\ exec \in [Recs -> {"NONE", "PENDING", "SUCCEEDED", "FAILED"}]
  BY DEF TypeOK
<1>4. UNCHANGED <<request, sweep, att, job, rules, code, mails>>
  BY <1>1 DEF Propose, AutoApprove
<1>5. RequestsFresh'
  BY <1>4 DEF Sound, RequestsFresh
<1>6. Fresh(r)'
  BY <1>2, <1>4 DEF SoundRec, Fresh
<1>7. CASE Propose(r, kd)
  <2>1. /\ status'[r] = "PENDING" /\ version'[r] = 1 /\ UNCHANGED <<exec, handoff>>
        /\ \A q \in Recs \ {r} : Same(q)
    BY <1>3, <1>4, <1>7 DEF Propose, Moved, Same
  <2>2. Versions(r)' /\ Decided(r)' /\ Idle(r)'
    BY <1>2, <1>4, <2>1 DEF Versions, Decided, Idle, Inert, Acted
  <2> QED BY <1>5, <1>6, <2>1, <2>2, OneSound DEF SoundRec
<1>8. CASE AutoApprove(r, kd)
  <2>1. /\ version'[r] = 2
        /\ \/ status'[r] = "EXECUTED" /\ UNCHANGED <<exec, handoff>>
           \/ /\ status'[r] = "APPROVED" /\ exec'[r] = "PENDING"
              /\ handoff' = handoff \cup {r}
        /\ \A q \in Recs \ {r} : Same(q)
    BY <1>3, <1>4, <1>8 DEF AutoApprove, Moved, Same
  <2>2. Versions(r)' /\ Decided(r)' /\ Idle(r)'
    BY <1>2, <1>4, <2>1 DEF Versions, Decided, Idle, Inert, Acted
  <2> QED BY <1>5, <1>6, <2>1, <2>2, OneSound DEF SoundRec
<1> QED BY <1>1, <1>7, <1>8

\* A request that wins its compare-and-swap finds the row PENDING.
LEMMA SwapFindsPending ==
  ASSUME TypeOK, Sound, NEW u \in Users, NEW op, Swaps(u, op)
  PROVE  /\ request[u].rec \in Recs /\ request[u].ver = 1
         /\ status[request[u].rec] = "PENDING" /\ exec[request[u].rec] = "NONE"
<1>1. request[u].rec \in Recs /\ request[u].ver = 1
  BY RequestType DEF Sound, RequestsFresh, Swaps
<1>2. SoundRec(request[u].rec) /\ version[request[u].rec] = 1
  BY <1>1 DEF Sound, Swaps
<1> QED BY <1>1, <1>2 DEF SoundRec, Versions, Decided

\* A decision keeps the state sound, thanks to its compare-and-swap.
LEMMA MerchantSound ==
  ASSUME TypeOK, TypeOK', Sound, NEW u \in Users, Merchant(u)
  PROVE  Sound'
<1>. USE DEF recVars, execVars, queueVars, world
<1>1. /\ status \in [Recs -> Statuses] /\ version \in [Recs -> Nat]
      /\ exec \in [Recs -> {"NONE", "PENDING", "SUCCEEDED", "FAILED"}]
      /\ request \in [Users -> Requests]
  BY DEF TypeOK
<1>2. UNCHANGED <<sweep, att, job, rules, code, mails>>
  BY DEF Merchant, Load, Approve, Reject, Conflict
<1>3. RequestsFresh'
  <2>1. ASSUME NEW r \in Recs, NEW op, Load(u, op, r)
        PROVE  RequestsFresh'
    <3>1. version[r] = 1
      BY <2>1 DEF Load, Sound, SoundRec, Versions
    <3> QED BY <1>1, <2>1, <3>1 DEF Load, Sound, RequestsFresh
  <2>2. CASE request' = [request EXCEPT ![u] = NoRequest]
    BY <1>1, <2>2 DEF Sound, RequestsFresh, NoRequest
  <2> QED BY <2>1, <2>2 DEF Merchant, Approve, Reject, Conflict
<1>4. CASE UNCHANGED <<status, version, exec, handoff>>
  <2>1. \A q \in Recs : Same(q)
    BY <1>2, <1>4 DEF Same
  <2> QED BY <1>3, <2>1, SameSound DEF Sound
<1>5. CASE Approve(u)
  <2>1. PICK r \in Recs : /\ r = request[u].rec /\ request[u].ver = 1
                          /\ status[r] = "PENDING" /\ exec[r] = "NONE"
    BY <1>5, SwapFindsPending DEF Approve
  <2>2. SoundRec(r) /\ Inert(r)
    BY <2>1 DEF Sound, SoundRec, Idle
  <2>3. /\ version'[r] >= 2 /\ version'[r] \in Nat
        /\ \/ status'[r] = "EXECUTED" /\ UNCHANGED <<exec, handoff>>
           \/ /\ status'[r] = "APPROVED" /\ exec'[r] = "PENDING"
              /\ handoff' = handoff \cup {r}
        /\ \A q \in Recs \ {r} : Same(q)
    BY <1>1, <1>2, <1>5, <2>1 DEF Approve, Moved, Same
  <2>4. Versions(r)' /\ Decided(r)' /\ Idle(r)' /\ Fresh(r)'
    BY <1>2, <2>1, <2>2, <2>3 DEF Versions, Decided, Idle, Inert, Acted, SoundRec, Fresh
  <2> QED BY <1>3, <2>1, <2>3, <2>4, OneSound DEF SoundRec
<1>6. CASE Reject(u)
  <2>1. PICK r \in Recs : /\ r = request[u].rec /\ request[u].ver = 1
                          /\ status[r] = "PENDING" /\ exec[r] = "NONE"
    BY <1>6, SwapFindsPending DEF Reject
  <2>2. SoundRec(r) /\ Inert(r)
    BY <2>1 DEF Sound, SoundRec, Idle
  <2>3. /\ version'[r] = 2 /\ status'[r] = "REJECTED" /\ UNCHANGED <<exec, handoff>>
        /\ \A q \in Recs \ {r} : Same(q)
    BY <1>1, <1>2, <1>6, <2>1 DEF Reject, Moved, Same
  <2>4. Versions(r)' /\ Decided(r)' /\ Idle(r)' /\ Fresh(r)'
    BY <1>2, <2>1, <2>2, <2>3 DEF Versions, Decided, Idle, Inert, Acted, SoundRec, Fresh
  <2> QED BY <1>3, <2>1, <2>3, <2>4, OneSound DEF SoundRec
<1> QED BY <1>4, <1>5, <1>6 DEF Merchant, Load, Conflict

\* The queue moves a job only where an execution row exists.
LEMMA QueueSound ==
  ASSUME TypeOK, TypeOK', Sound, NEW r \in Recs, Queue(r) \/ HandoffLost(r)
  PROVE  Sound'
<1>. USE DEF recVars, execVars, queueVars, world
<1>1. SoundRec(r)
  BY DEF Sound
<1>2. r \in handoff \/ job[r].st = "ready"
  BY DEF Queue, Enqueue, Deliver, HandoffLost
<1>3. exec[r] # "NONE"
  BY <1>1, <1>2 DEF SoundRec, Idle, Inert
<1>4. UNCHANGED <<status, version, exec, request, sweep, rules, code, mails>>
  BY DEF Queue, Enqueue, Deliver, HandoffLost
<1>5. \A q \in Recs \ {r} : Same(q)
  <2>1. CASE Enqueue(r)
    BY <1>4, <2>1 DEF Enqueue, Same, TypeOK
  <2>2. CASE Deliver(r)
    <3>1. job[r].n \in Attempts
      BY <2>2 DEF Deliver, TypeOK
    <3>2. \A q \in Recs \ {r} : att'[q] = att[q]
      BY <2>2, <3>1, BecomesElse DEF Deliver
    <3> QED BY <1>4, <2>2, <3>2 DEF Deliver, Same, TypeOK
  <2>3. CASE HandoffLost(r)
    BY <1>4, <2>3 DEF HandoffLost, Same
  <2> QED BY <2>1, <2>2, <2>3 DEF Queue
<1>6. Fresh(r)'
  <2>1. CASE UNCHANGED att
    BY <1>1, <1>4, <2>1 DEF SoundRec, Fresh
  <2>2. CASE Deliver(r)
    <3>1. job[r].n \in Attempts
      BY <2>2 DEF Deliver, TypeOK
    <3>2. att'[r][job[r].n].pc = "start"
      BY <2>2, <3>1, BecomesElse DEF Deliver, Gone
    <3>3. \A j \in Attempts \ {job[r].n} : att'[r][j] = att[r][j]
      BY <2>2, <3>1, BecomesElse DEF Deliver
    <3> QED BY <1>1, <1>4, <3>2, <3>3 DEF SoundRec, Fresh, ReadsVersion, InTransaction
  <2> QED BY <2>1, <2>2 DEF Queue, Enqueue, HandoffLost
<1>7. Versions(r)' /\ Decided(r)' /\ Idle(r)' /\ RequestsFresh'
  BY <1>1, <1>3, <1>4 DEF Sound, SoundRec, Versions, Decided, Idle, RequestsFresh
<1> QED BY <1>5, <1>6, <1>7, OneSound DEF SoundRec

\* The sweep writes versions above 1, whatever it read.
LEMMA SweepSound ==
  ASSUME TypeOK, TypeOK', Sound, NEW r \in Recs, Sweep(r)
  PROVE  Sound'
<1>. USE DEF recVars, execVars, queueVars, world
<1>1. SoundRec(r) /\ version[r] \in Nat
  BY DEF Sound, TypeOK
<1>2. UNCHANGED <<request, exec, handoff, job, att, rules, code, mails>>
  BY DEF Sweep, BecomesDue, SweepRead, SweepWrite, Measure
<1>3. /\ status \in [Recs -> Statuses] /\ version \in [Recs -> Nat]
      /\ sweep \in [Recs -> [on : BOOLEAN, from : Statuses, ver : Nat]]
  BY DEF TypeOK
<1>4. \A q \in Recs \ {r} : Same(q)
  BY <1>2, <1>3 DEF Sweep, BecomesDue, SweepRead, SweepWrite, Measure, Moved, Same
<1>5. RequestsFresh'
  BY <1>2 DEF Sound, RequestsFresh
<1>6. \/ status'[r] = status[r] /\ version'[r] = version[r]
      \/ /\ status[r] \in {"PENDING", "APPROVED", "EXECUTED"}
         /\ status'[r] \in {"EXPIRED", "MEASURED"}
         /\ version'[r] >= 2 /\ version'[r] \in Nat
  <2>1. status[r] = "EXECUTED" => version[r] >= 1
    BY <1>1 DEF SoundRec, Versions
  <2>2. sweep[r].on => sweep[r].ver >= 1 /\ sweep[r].ver \in Nat
    BY <1>1, <1>3 DEF SoundRec, Fresh
  <2>3. CASE SweepWrite(r)
    BY <1>3, <2>2, <2>3 DEF SweepWrite, Moved
  <2>4. CASE Measure(r)
    BY <1>1, <1>3, <2>1, <2>4 DEF Measure, Moved
  <2> QED BY <2>3, <2>4 DEF Sweep, BecomesDue, SweepRead
<1>7. Versions(r)' /\ Decided(r)' /\ Idle(r)'
  BY <1>1, <1>2, <1>6 DEF SoundRec, Versions, Decided, Idle, Inert, Acted
<1>8. Fresh(r)'
  <2>1. sweep'[r].on => sweep'[r].ver >= 1
    <3>1. status[r] \in {"PENDING", "APPROVED"} => version[r] >= 1
      BY <1>1 DEF SoundRec, Versions
    <3>2. CASE SweepRead(r)
      BY <1>3, <3>1, <3>2 DEF SweepRead
    <3>3. CASE SweepWrite(r)
      BY <1>3, <3>3 DEF SweepWrite, NoSweep
    <3>4. CASE UNCHANGED sweep
      BY <1>1, <3>4 DEF SoundRec, Fresh
    <3> QED BY <3>2, <3>3, <3>4 DEF Sweep, BecomesDue, Measure
  <2> QED BY <1>1, <1>2, <2>1 DEF SoundRec, Fresh
<1> QED BY <1>4, <1>5, <1>7, <1>8, OneSound DEF SoundRec

\* The invariant is inductive.
LEMMA IInvNext == IInv /\ [Next]_vars => IInv'
<1>. SUFFICES ASSUME TypeOK, Sound, [Next]_vars PROVE TypeOK' /\ Sound'
  BY DEF IInv
<1>1. TypeOK'
  BY TypeNext
<1>2. CASE UNCHANGED vars
  <2>1. RequestsFresh' /\ \A q \in Recs : Same(q)
    BY <1>2 DEF vars, Same, Sound, RequestsFresh
  <2> QED BY <1>1, <2>1, SameSound DEF Sound
<1>3. ASSUME NEW u \in Users, Merchant(u)
      PROVE  Sound'
  BY <1>1, <1>3, MerchantSound
<1>4. ASSUME NEW r \in Recs, Agent(r) \/ Queue(r) \/ Sweep(r)
      PROVE  Sound'
  BY <1>1, <1>4, AgentSound, QueueSound, SweepSound
<1>5. ASSUME NEW r \in Recs, Fault(r)
      PROVE  Sound'
  <2>1. CASE HandoffLost(r)
    BY <1>1, <2>1, QueueSound
  <2>2. CASE \E k \in Attempts : Works(r, k)
    BY <1>1, <2>2, WorksSound
  <2> QED BY <1>5, <2>1, <2>2, FaultWorks DEF Fault
<1>6. ASSUME NEW r \in Recs, NEW k \in Attempts, Step(r, k)
      PROVE  Sound'
  BY <1>1, <1>6, StepWorks, WorksSound
<1> QED BY <1>1, <1>2, <1>3, <1>4, <1>5, <1>6 DEF Next

\* The inductive invariant holds in every reachable state.
THEOREM Invariance == Spec => []IInv
<1>1. Init => IInv
  BY TypeInit, SoundInit DEF IInv
<1>2. IInv /\ [Next]_vars => IInv'
  BY IInvNext
<1> QED BY <1>1, <1>2, PTL DEF Spec

\* Nothing is done for a recommendation that nobody has approved.
THEOREM NoActionUnapproved == Spec => []ActsOnlyOnApproval
<1>1. IInv => ActsOnlyOnApproval
  BY DEF IInv, Sound, SoundRec, Decided, Idle, ActsOnlyOnApproval
<1> QED BY <1>1, Invariance, PTL

\* A rejection is never taken back: a REJECTED row has no execution, so no
\* handler writes it; its version is past 1, so no decision in flight hits it;
\* and the sweep looks at the status as it writes.
THEOREM RejectionIsFinal == Spec => RejectedIsFinal
<1>1. IInv /\ [Next]_vars => [\A r \in Recs : status[r] = "REJECTED" => status'[r] = "REJECTED"]_vars
  <2>. SUFFICES ASSUME TypeOK, Sound, [Next]_vars, NEW r \in Recs, status[r] = "REJECTED"
                PROVE  status'[r] = "REJECTED"
    BY DEF IInv
  <2>. USE DEF recVars, execVars, queueVars, world
  <2>1. /\ exec[r] = "NONE" /\ version[r] # 1
        /\ \A k \in Attempts : att[r][k].pc = "gone"
        /\ status \in [Recs -> Statuses]
    BY DEF Sound, SoundRec, Decided, Idle, Inert, Versions, TypeOK
  <2>2. CASE UNCHANGED vars
    BY <2>2 DEF vars
  <2>3. ASSUME NEW u \in Users, Merchant(u)
        PROVE  status'[r] = "REJECTED"
    <3>1. ASSUME NEW op, Swaps(u, op)
          PROVE  request[u].rec # r
      BY <2>1, <3>1, SwapFindsPending
    <3>2. CASE Approve(u)
      BY <2>1, <3>1, <3>2 DEF Approve, Moved
    <3>3. CASE Reject(u)
      BY <2>1, <3>1, <3>3 DEF Reject, Moved
    <3> QED BY <2>3, <3>2, <3>3 DEF Merchant, Load, Conflict
  <2>4. ASSUME NEW q \in Recs, Agent(q) \/ Queue(q) \/ Sweep(q)
        PROVE  status'[r] = "REJECTED"
    BY <2>1, <2>4 DEF Agent, Propose, AutoApprove, Moved, Queue, Enqueue, Deliver,
       Sweep, BecomesDue, SweepRead, SweepWrite, Measure
  <2>5. ASSUME NEW q \in Recs, NEW k \in Attempts, Works(q, k)
        PROVE  status'[r] = "REJECTED"
    BY <2>1, <2>5 DEF Works, Same
  <2>6. ASSUME NEW q \in Recs, Fault(q)
        PROVE  status'[r] = "REJECTED"
    BY <2>5, <2>6, FaultWorks DEF Fault, HandoffLost
  <2>7. ASSUME NEW q \in Recs, NEW k \in Attempts, Step(q, k)
        PROVE  status'[r] = "REJECTED"
    BY <2>5, <2>7, StepWorks
  <2> QED BY <2>2, <2>3, <2>4, <2>6, <2>7 DEF Next
<1> QED BY <1>1, Invariance, PTL DEF Spec, RejectedIsFinal

-----------------------------------------------------------------------------
(* What is claimed to be done has been done.                                *)

\* A call at its code step has posted the rule; one that mails an offer has
\* its code; one that commits has done everything.
Backed(r, c) == /\ Claims(r, c.ref) /\ Claims(r, c.work)
                /\ c.pc = "code" => c.work.rule
                /\ c.pc = "mail" /\ Discounted(r) => c.ref.code
                /\ c.pc = "commit" => Carried(r)

\* A code hangs on a rule; the checkpoint, the reports of success and every
\* call in flight are backed by what Shopify and the customers have seen.
Whole(r) == /\ code[r] => rules[r] > 0
            /\ Claims(r, ref[r])
            /\ status[r] \in {"EXECUTED", "MEASURED"} => Carried(r)
            /\ exec[r] = "SUCCEEDED" => Carried(r)
            /\ \A k \in Attempts : Backed(r, att[r][k])

AllWhole == \A r \in Recs : Whole(r)

\* Nothing exists in the initial state, and nothing is claimed.
LEMMA WholeInit == Init => AllWhole
<1> SUFFICES ASSUME Init, NEW r \in Recs PROVE Whole(r)
  BY DEF AllWhole
<1>1. /\ status[r] = "NONE" /\ exec[r] = "NONE" /\ ref[r] = NoRef /\ code[r] = FALSE
      /\ \A k \in Attempts : att[r][k] = Gone
  BY DEF Init
<1>2. Claims(r, NoRef)
  BY DEF Claims, NoRef
<1>3. Backed(r, Gone)
  BY <1>2 DEF Backed, Gone
<1> QED
  BY <1>1, <1>2, <1>3 DEF Whole

\* The world forgets nothing, and r remains the kind of action it is.
Grows(r) == /\ kind'[r] = kind[r]
            /\ rules[r] > 0 => rules'[r] > 0
            /\ code[r] => code'[r]
            /\ \A x \in Recipients : mails[r][x] > 0 => mails'[r][x] > 0

\* What has been done stays done.
LEMMA DoneStays ==
  ASSUME NEW r \in Recs, Grows(r), NEW c
  PROVE  /\ c.sent \subseteq Recipients /\ Claims(r, c) => Claims(r, c)'
         /\ Carried(r) => Carried(r)'
  BY DEF Grows, Claims, Carried, Discounted, Mailed

\* A call that is backed stays so while the world grows.
LEMMA BackedStays ==
  ASSUME NEW r \in Recs, Grows(r), NEW c \in Call, Backed(r, c)
  PROVE  Backed(r, c)'
<1>1. c.ref.sent \subseteq Recipients /\ c.work.sent \subseteq Recipients
  BY DEF Call, Refs
<1>2. Claims(r, c.ref)' /\ Claims(r, c.work)'
  BY <1>1, DoneStays DEF Backed
<1>3. Carried(r) => Carried(r)'
  BY DoneStays
<1> QED BY <1>2, <1>3 DEF Backed, Grows, Discounted

\* A step of call k of r keeps r whole if its own call stays backed, what it
\* checkpoints was its own claim, and what it reports is carried out.
LEMMA CallKeepsWhole ==
  ASSUME TypeOK, NEW r \in Recs, NEW k \in Attempts, Whole(r), Grows(r),
         \A j \in Attempts \ {k} : att'[r][j] = att[r][j],
         NEW c, att'[r][k] = c, Backed(r, c)',
         code'[r] => rules'[r] > 0,
         ref'[r] = ref[r] \/ ref'[r] = att[r][k].ref,
         \/ status'[r] = status[r]
         \/ status'[r] \notin {"EXECUTED", "MEASURED"}
         \/ Carried(r),
         exec'[r] = exec[r] \/ exec'[r] # "SUCCEEDED" \/ Carried(r)
  PROVE  Whole(r)'
<1>1. /\ ref[r] \in Refs /\ att[r][k].ref \in Refs
      /\ \A j \in Attempts : att[r][j] \in Call
  BY CallType DEF TypeOK
<1>2. Claims(r, ref[r]) /\ Claims(r, att[r][k].ref)
  BY DEF Whole, Backed
<1>3. Claims(r, ref[r])'
  <2>1. \A d \in Refs : Claims(r, d) => Claims(r, d)'
    BY DoneStays DEF Refs
  <2>2. PICK d \in Refs : d = ref'[r] /\ Claims(r, d)
    BY <1>1, <1>2
  <2> QED BY <2>1, <2>2 DEF Claims
<1>4. Carried(r) => Carried(r)'
  BY DoneStays
<1>5. ASSUME NEW j \in Attempts
      PROVE  Backed(r, att[r][j])'
  <2>1. CASE j = k
    BY <2>1 DEF Backed, Claims
  <2>2. CASE j # k
    <3>1. PICK d \in Call : d = att[r][j] /\ d = att'[r][j] /\ Backed(r, d)
      BY <1>1, <2>2 DEF Whole
    <3>2. Backed(r, d)'
      BY <3>1, BackedStays
    <3> QED BY <3>1, <3>2 DEF Backed, Claims
  <2> QED BY <2>1, <2>2
<1> QED BY <1>3, <1>4, <1>5 DEF Whole

\* A step that touches no call, no effect and no kind of r keeps r whole if it
\* reports nothing new.
LEMMA RowKeepsWhole ==
  ASSUME TypeOK, NEW r \in Recs, Whole(r), Grows(r), att'[r] = att[r], ref'[r] = ref[r],
         rules'[r] = rules[r], code'[r] = code[r],
         \/ status'[r] = status[r]
         \/ status'[r] \notin {"EXECUTED", "MEASURED"}
         \/ Carried(r),
         exec'[r] = exec[r] \/ exec'[r] # "SUCCEEDED" \/ Carried(r)
  PROVE  Whole(r)'
<1>1. ref[r] \in Refs /\ \A j \in Attempts : att[r][j] \in Call
  BY CallType DEF TypeOK
<1>2. Claims(r, ref[r])'
  <2>1. PICK d \in Refs : d = ref[r] /\ d = ref'[r] /\ Claims(r, d)
    BY <1>1 DEF Whole
  <2>2. Claims(r, d)'
    BY <2>1, DoneStays DEF Refs
  <2> QED BY <2>1, <2>2 DEF Claims
<1>3. Carried(r) => Carried(r)'
  BY DoneStays
<1>4. ASSUME NEW j \in Attempts
      PROVE  Backed(r, att[r][j])'
  <2>1. PICK d \in Call : d = att[r][j] /\ d = att'[r][j] /\ Backed(r, d)
    BY <1>1 DEF Whole
  <2>2. Backed(r, d)'
    BY <2>1, BackedStays
  <2> QED BY <2>1, <2>2 DEF Backed, Claims
<1> QED BY <1>2, <1>3, <1>4 DEF Whole

\* A recommendation none of whose variables a step touches stays whole.
Still(q) == Same(q) /\ kind'[q] = kind[q] /\ ref'[q] = ref[q]

LEMMA StillWhole ==
  ASSUME TypeOK, NEW q \in Recs, Whole(q), Still(q)
  PROVE  Whole(q)'
<1>1. Grows(q)
  BY DEF Still, Same, Grows
<1> QED BY <1>1, RowKeepsWhole DEF Still, Same

\* Of the steps of a call only its own recommendation notices anything.
LEMMA OthersStill ==
  ASSUME TypeOK, NEW r \in Recs, NEW k \in Attempts, Works(r, k),
         UNCHANGED kind, UNCHANGED ref \/ (\E d : ref' = [ref EXCEPT ![r] = d])
  PROVE  \A q \in Recs \ {r} : Still(q)
  BY DEF Works, Still, TypeOK

\* A failing call leaves its checkpoint in the row and claims no more.
LEMMA FailsKeepsWhole ==
  ASSUME TypeOK, NEW r \in Recs, NEW k \in Attempts, NEW again \in BOOLEAN,
         Whole(r), Fails(r, k, again), Grows(r), UNCHANGED <<status, rules, code>>
  PROVE  Whole(r)'
<1>. DEFINE c == [att[r][k] EXCEPT !.pc = "failed", !.again = again]
<1>1. /\ c \in Call /\ c.pc = "failed" /\ c.ref = att[r][k].ref /\ c.work = att[r][k].work
      /\ c.ref.sent \subseteq Recipients /\ c.work.sent \subseteq Recipients
  BY CallType DEF Call, Places, Refs
<1>2. att'[r][k] = c /\ \A j \in Attempts \ {k} : att'[r][j] = att[r][j]
  BY BecomesElse DEF Fails
<1>3. ref'[r] = att[r][k].ref /\ exec'[r] = "FAILED"
  BY DEF Fails, TypeOK
<1>. HIDE DEF c
<1>4. PICK d \in Call : d = c
  BY <1>1
<1>5. Backed(r, d)
  BY <1>1, <1>4 DEF Whole, Backed
<1>6. Backed(r, d)'
  BY <1>5, BackedStays
<1> QED BY <1>2, <1>3, <1>4, <1>6, CallKeepsWhole DEF Whole

\* Each step of a handler call keeps its recommendation whole.
LEMMA StepKeepsWhole ==
  ASSUME TypeOK, Sound, NEW r \in Recs, NEW k \in Attempts, Whole(r), Step(r, k)
  PROVE  Whole(r)'
<1>. USE DEF recVars, execVars, queueVars, world
<1>1. /\ att[r][k] \in Call /\ Gone \in Call
      /\ \A j \in Attempts : att[r][j] \in Call
      /\ ref[r] \in Refs /\ Backed(r, att[r][k]) /\ Claims(r, ref[r])
      /\ status \in [Recs -> Statuses]
      /\ exec \in [Recs -> {"NONE", "PENDING", "SUCCEEDED", "FAILED"}]
      /\ rules \in [Recs -> Nat] /\ code \in [Recs -> BOOLEAN]
      /\ mails \in [Recs -> [Recipients -> Nat]]
  BY CallType, GoneType DEF TypeOK, Whole
<1>2. code[r] => rules[r] > 0
  BY DEF Whole
<1>3. UNCHANGED <<kind, rules, code, mails>> => Grows(r)
  BY DEF Grows
\* The step leaves the world alone ...
<1>4. ASSUME NEW c \in Call, Becomes(r, k, c), Backed(r, c), UNCHANGED <<kind, world>>,
             ref'[r] = ref[r] \/ ref'[r] = att[r][k].ref,
             \/ status'[r] = status[r]
             \/ status'[r] \notin {"EXECUTED", "MEASURED"}
             \/ Carried(r),
             exec'[r] = exec[r] \/ exec'[r] # "SUCCEEDED" \/ Carried(r)
      PROVE  Whole(r)'
  <2>1. Backed(r, c)'
    BY <1>3, <1>4, BackedStays
  <2>2. att'[r][k] = c /\ \A j \in Attempts \ {k} : att'[r][j] = att[r][j]
    BY <1>4, BecomesElse
  <2> QED BY <1>2, <1>3, <1>4, <2>1, <2>2, CallKeepsWhole
\* ... and the call only moves on to a place that asks nothing of it.
<1>5. ASSUME NEW pc \in Places \ {"code", "mail", "commit"}, Goes(r, k, pc)
      PROVE  /\ [att[r][k] EXCEPT !.pc = pc] \in Call
             /\ Backed(r, [att[r][k] EXCEPT !.pc = pc])
             /\ Becomes(r, k, [att[r][k] EXCEPT !.pc = pc])
  BY <1>1, <1>5 DEF Call, Backed, Goes
<1>6. Backed(r, Gone)
  BY DEF Backed, Gone, NoRef, Claims
<1>7. CASE Read(r, k)
  <2>1. CASE exec[r] = "SUCCEEDED"
    BY <1>4, <1>5, <1>7, <2>1 DEF Read, Places
  <2>2. CASE exec[r] # "SUCCEEDED"
    <3>. DEFINE c == [pc |-> "lock", ver |-> version[r], ref |-> ref[r], work |-> ref[r],
                      again |-> FALSE]
    <3>1. c \in Call
      BY DEF TypeOK, Call, Places
    <3>2. Backed(r, c)
      BY <1>1 DEF Backed
    <3> QED BY <1>4, <1>7, <2>2, <3>1, <3>2 DEF Read
  <2> QED BY <2>1, <2>2
<1>8. CASE Deny(r, k)
  <2>1. Goes(r, k, "mark") /\ UNCHANGED <<kind, world, ref, status>> /\ exec'[r] # "SUCCEEDED"
    BY <1>1, <1>8 DEF Deny
  <2> QED BY <1>4, <1>5, <2>1 DEF Places
<1>9. CASE Lock(r, k)
  BY <1>4, <1>5, <1>9 DEF Lock, Places, InTransaction
<1>10. CASE Resolve(r, k)
  <2>. DEFINE pc == IF kind[r] = "DISCOUNT" \/ (kind[r] = "EMAIL_DISCOUNT" /\ ~att[r][k].ref.code)
                      THEN IF att[r][k].work.rule THEN "code" ELSE "rule"
                      ELSE "mail"
              c  == [att[r][k] EXCEPT !.pc = pc]
  <2>1. c \in Call /\ c.pc = pc /\ c.ref = att[r][k].ref /\ c.work = att[r][k].work
    BY <1>1 DEF Call, Places, InTransaction
  <2>2. Becomes(r, k, c)
    BY <1>10 DEF Resolve, Goes
  <2>3. Backed(r, c)
    BY <1>1, <2>1 DEF Backed, Discounted
  <2> QED BY <1>4, <1>10, <2>1, <2>2, <2>3 DEF Resolve
<1>11. CASE ResolveFails(r, k)
  BY <1>3, <1>11, FailsKeepsWhole DEF ResolveFails
<1>12. ASSUME NEW again \in BOOLEAN, ToolFails(r, k, again)
       PROVE  Whole(r)'
  BY <1>3, <1>12, FailsKeepsWhole DEF ToolFails
<1>13. CASE PostRule(r, k, FALSE)
  <2>. DEFINE c == [att[r][k] EXCEPT !.pc = "code", !.work.rule = TRUE]
  <2>1. rules'[r] > 0 /\ UNCHANGED <<kind, code, mails, status, exec, ref>>
    BY <1>1, <1>13 DEF PostRule
  <2>2. Grows(r)
    BY <2>1 DEF Grows
  <2>3. /\ c.pc = "code" /\ c.ref = att[r][k].ref /\ c.work.rule
        /\ c.work.code = att[r][k].work.code /\ c.work.sent = att[r][k].work.sent
    BY <1>1 DEF Call, Refs
  <2>4. Becomes(r, k, c)
    BY <1>13 DEF PostRule
  <2>. HIDE DEF c
  <2>5. PICK d : d = c
    OBVIOUS
  <2>6. /\ att[r][k].ref.sent \subseteq Recipients /\ att[r][k].work.sent \subseteq Recipients
    BY CallType DEF Refs
  <2>7. Claims(r, d.ref)' /\ Claims(r, d.work)'
    BY <1>1, <2>1, <2>3, <2>5, <2>6 DEF Backed, Claims
  <2>8. Backed(r, d)'
    BY <2>3, <2>5, <2>7 DEF Backed
  <2>9. att'[r][k] = d /\ \A j \in Attempts \ {k} : att'[r][j] = att[r][j]
    BY <2>4, <2>5, BecomesElse
  <2> QED BY <1>2, <2>1, <2>2, <2>8, <2>9, CallKeepsWhole
<1>14. CASE PostCode(r, k, FALSE)
  <2>. DEFINE done == [att[r][k].work EXCEPT !.code = TRUE]
              c == [att[r][k] EXCEPT !.ref = done, !.work = done,
                      !.pc = IF Mailed(r) THEN "mail" ELSE "commit"]
  <2>1. att[r][k].pc = "code" /\ code'[r] /\ UNCHANGED <<kind, rules, mails, status, exec, ref>>
    BY <1>1, <1>14 DEF PostCode
  <2>2. Grows(r)
    BY <2>1 DEF Grows
  <2>3. /\ c.pc = (IF Mailed(r) THEN "mail" ELSE "commit") /\ c.ref = c.work
        /\ c.work.rule = att[r][k].work.rule /\ c.work.code
        /\ c.work.sent = att[r][k].work.sent
    BY <1>1 DEF Call, Refs
  <2>4. Becomes(r, k, c)
    BY <1>14 DEF PostCode, Returns
  <2>. HIDE DEF c
  <2>5. PICK d : d = c
    OBVIOUS
  <2>6. att[r][k].work.rule /\ rules[r] > 0 /\ att[r][k].work.sent \subseteq Recipients
    BY <1>1, <2>1, CallType DEF Backed, Claims, Refs
  <2>7. Claims(r, d.ref)' /\ Claims(r, d.work)'
    BY <1>1, <2>1, <2>3, <2>5, <2>6 DEF Backed, Claims
  <2>8. ~Mailed(r) => Carried(r)'
    BY <2>1, <2>6 DEF Carried, Mailed
  <2>9. Backed(r, d)'
    BY <2>3, <2>5, <2>7, <2>8 DEF Backed
  <2>10. att'[r][k] = d /\ \A j \in Attempts \ {k} : att'[r][j] = att[r][j]
    BY <2>4, <2>5, BecomesElse
  <2> QED BY <2>1, <2>2, <2>6, <2>9, <2>10, CallKeepsWhole
<1>15. CASE CodeTaken(r, k)
  BY <1>3, <1>15, FailsKeepsWhole DEF CodeTaken
<1>16. ASSUME NEW x \in Recipients, Mail(r, k, x)
       PROVE  Whole(r)'
  <2>. DEFINE c == [att[r][k] EXCEPT !.work.sent = @ \cup {x}]
  <2>1. /\ att[r][k].pc = "mail" /\ mails' = [mails EXCEPT ![r][x] = @ + 1]
        /\ UNCHANGED <<kind, rules, code, status, exec, ref>>
    BY <1>16 DEF Mail
  <2>2. mails'[r][x] > 0 /\ \A y \in Recipients : mails[r][y] > 0 => mails'[r][y] > 0
    BY <1>1, <2>1
  <2>3. Grows(r)
    BY <2>1, <2>2 DEF Grows
  <2>4. /\ c.pc = "mail" /\ c.ref = att[r][k].ref
        /\ c.work.rule = att[r][k].work.rule /\ c.work.code = att[r][k].work.code
        /\ c.work.sent = att[r][k].work.sent \cup {x}
    BY <1>1, <2>1 DEF Call, Refs
  <2>5. Becomes(r, k, c)
    BY <1>16 DEF Mail
  <2>. HIDE DEF c
  <2>6. PICK d : d = c
    OBVIOUS
  <2>7. att[r][k].ref.sent \subseteq Recipients /\ att[r][k].work.sent \subseteq Recipients
    BY CallType DEF Refs
  <2>8. Claims(r, d.ref)' /\ Claims(r, d.work)'
    BY <1>1, <2>1, <2>2, <2>4, <2>6, <2>7 DEF Backed, Claims
  <2>9. Backed(r, d)'
    BY <1>1, <2>1, <2>4, <2>6, <2>8 DEF Backed, Discounted
  <2>10. att'[r][k] = d /\ \A j \in Attempts \ {k} : att'[r][j] = att[r][j]
    BY <2>5, <2>6, BecomesElse
  <2> QED BY <1>2, <2>1, <2>3, <2>9, <2>10, CallKeepsWhole
<1>17. CASE MailDone(r, k)
  <2>. DEFINE c == [att[r][k] EXCEPT !.ref = att[r][k].work, !.pc = "commit"]
  <2>1. /\ att[r][k].pc = "mail" /\ Recipients \subseteq att[r][k].work.sent
        /\ UNCHANGED <<recVars, execVars, world>> /\ Becomes(r, k, c)
    BY <1>17 DEF MailDone
  <2>2. c \in Call /\ c.pc = "commit" /\ c.ref = att[r][k].work /\ c.work = att[r][k].work
    BY <1>1 DEF Call, Places, InTransaction
  <2>. HIDE DEF c
  <2>3. Carried(r)
    <3>1. \A x \in Recipients : mails[r][x] > 0
      BY <1>1, <2>1 DEF Backed, Claims
    <3>2. Discounted(r) => rules[r] > 0 /\ code[r]
      BY <1>1, <1>2, <2>1 DEF Backed, Claims
    <3> QED BY <3>1, <3>2 DEF Carried
  <2>4. Backed(r, c)
    BY <1>1, <2>2, <2>3 DEF Backed
  <2> QED BY <1>4, <2>1, <2>2, <2>4
<1>18. CASE Succeed(r, k)
  <2>1. Carried(r)
    BY <1>1, <1>18 DEF Succeed, Backed
  <2>2. /\ Goes(r, k, "ack") /\ UNCHANGED <<kind, world>>
        /\ ref'[r] = att[r][k].ref
    BY <1>1, <1>18 DEF Succeed, TypeOK
  <2> QED BY <1>4, <1>5, <2>1, <2>2 DEF Places
<1>19. CASE Throw(r, k)
  BY <1>1, <1>4, <1>6, <1>19 DEF Throw, Leaves
<1>20. CASE GiveUp(r, k)
  BY <1>4, <1>5, <1>20 DEF GiveUp, Places
<1>21. CASE MarkRead(r, k)
  <2>1. CASE status[r] \in {"APPROVED", "FAILED"}
    <3>. DEFINE c == [att[r][k] EXCEPT !.pc = "markw", !.ver = version[r]]
    <3>1. /\ c \in Call /\ c.pc = "markw" /\ c.ref = att[r][k].ref /\ c.work = att[r][k].work
      <4>1. version[r] \in Nat
        BY DEF TypeOK
      <4> QED BY <1>1, <4>1 DEF Call, Places
    <3>2. Backed(r, c)
      BY <1>1, <3>1 DEF Backed
    <3> QED BY <1>4, <1>21, <2>1, <3>1, <3>2 DEF MarkRead
  <2>2. CASE status[r] \notin {"APPROVED", "FAILED"}
    BY <1>4, <1>5, <1>21, <2>2 DEF MarkRead, Places
  <2> QED BY <2>1, <2>2
<1>22. CASE MarkFailed(r, k)
  <2>1. /\ Goes(r, k, "ack") /\ UNCHANGED <<kind, world, exec, ref>>
        /\ status'[r] = "FAILED"
    BY <1>1, <1>22 DEF MarkFailed, Moved
  <2> QED BY <1>4, <1>5, <2>1 DEF Places
<1>23. CASE Return(r, k)
  BY <1>1, <1>4, <1>6, <1>23 DEF Return, Leaves
<1> QED
  BY <1>7, <1>8, <1>9, <1>10, <1>11, <1>12, <1>13, <1>14, <1>15, <1>16, <1>17, <1>18, <1>19,
     <1>20, <1>21, <1>22, <1>23 DEF Step

\* The faults that hit a call keep its recommendation whole: what a crash takes
\* away are claims, never effects.
LEMMA FaultKeepsWhole ==
  ASSUME TypeOK, Sound, NEW r \in Recs, NEW k \in Attempts, Whole(r),
         \/ TimesOut(r, k) \/ WorkerDies(r, k) \/ Aborts(r, k)
         \/ PostRule(r, k, TRUE) \/ PostCode(r, k, TRUE)
         \/ \E x \in Recipients : MailLost(r, k, x)
  PROVE  Whole(r)'
<1>. USE DEF recVars, execVars, queueVars, world
<1>1. /\ rules \in [Recs -> Nat] /\ code \in [Recs -> BOOLEAN]
      /\ mails \in [Recs -> [Recipients -> Nat]]
      /\ att[r][k] \in Call /\ Backed(r, att[r][k]) /\ (code[r] => rules[r] > 0)
  BY CallType DEF TypeOK, Whole
<1>2. CASE TimesOut(r, k)
  BY <1>2, RowKeepsWhole DEF TimesOut, Grows
<1>3. CASE WorkerDies(r, k) \/ Aborts(r, k)
  <2>1. Leaves(r, k) /\ UNCHANGED <<recVars, execVars, world>>
    BY <1>3 DEF WorkerDies, Aborts
  <2>2. att'[r][k] = Gone /\ \A j \in Attempts \ {k} : att'[r][j] = att[r][j]
    BY <2>1, BecomesElse DEF Leaves
  <2>3. Backed(r, Gone)'
    BY DEF Backed, Gone, NoRef, Claims
  <2>4. Grows(r)
    BY <2>1 DEF Grows
  <2> QED BY <1>1, <2>1, <2>2, <2>3, <2>4, CallKeepsWhole
<1>4. CASE PostRule(r, k, TRUE)
  <2>1. rules'[r] > 0 /\ UNCHANGED <<kind, status, exec, ref, att, code, mails>>
    BY <1>1, <1>4 DEF PostRule
  <2>2. Grows(r)
    BY <2>1 DEF Grows
  <2>3. att'[r][k] = att[r][k] /\ \A j \in Attempts \ {k} : att'[r][j] = att[r][j]
    BY <2>1
  <2>4. PICK d \in Call : d = att[r][k] /\ Backed(r, d)
    BY <1>1
  <2>5. Backed(r, d)'
    BY <2>2, <2>4, BackedStays
  <2> QED BY <2>1, <2>2, <2>3, <2>4, <2>5, CallKeepsWhole
<1>5. CASE PostCode(r, k, TRUE)
  <2>1. /\ att[r][k].pc = "code" /\ UNCHANGED <<kind, status, exec, ref, att, rules, mails>>
        /\ code'[r]
    BY <1>1, <1>5 DEF PostCode
  <2>2. Grows(r) /\ rules'[r] > 0
    BY <1>1, <2>1 DEF Grows, Backed, Claims
  <2>3. att'[r][k] = att[r][k] /\ \A j \in Attempts \ {k} : att'[r][j] = att[r][j]
    BY <2>1
  <2>4. PICK d \in Call : d = att[r][k] /\ Backed(r, d)
    BY <1>1
  <2>5. Backed(r, d)'
    BY <2>2, <2>4, BackedStays
  <2> QED BY <2>1, <2>2, <2>3, <2>4, <2>5, CallKeepsWhole
<1>6. ASSUME NEW x \in Recipients, MailLost(r, k, x)
      PROVE  Whole(r)'
  <2>1. \A y \in Recipients : mails[r][y] > 0 => mails'[r][y] > 0
    BY <1>1, <1>6 DEF MailLost
  <2>2. Grows(r)
    BY <1>6, <2>1 DEF MailLost, Grows
  <2> QED BY <1>6, <2>2, FailsKeepsWhole DEF MailLost
<1> QED BY <1>2, <1>3, <1>4, <1>5, <1>6

\* What a call does to the columns Still speaks of.
LEMMA CallElse ==
  ASSUME NEW r \in Recs, NEW k \in Attempts,
         \/ Step(r, k) \/ TimesOut(r, k) \/ WorkerDies(r, k) \/ Aborts(r, k)
         \/ PostRule(r, k, TRUE) \/ PostCode(r, k, TRUE)
         \/ \E x \in Recipients : MailLost(r, k, x)
  PROVE  UNCHANGED kind /\ (UNCHANGED ref \/ \E d : ref' = [ref EXCEPT ![r] = d])
<1>. USE DEF recVars, execVars, queueVars, world
<1>1. CASE Step(r, k)
  <2>1. UNCHANGED kind
    BY <1>1 DEF Step, Read, Deny, Lock, Resolve, ResolveFails, ToolFails, PostRule, PostCode,
         CodeTaken, Mail, MailDone, Succeed, Throw, GiveUp, MarkRead, MarkFailed, Return
  <2>2. UNCHANGED ref \/ ref' = [ref EXCEPT ![r] = att[r][k].ref]
    BY <1>1 DEF Step, Read, Deny, Lock, Resolve, ResolveFails, ToolFails, PostRule, PostCode,
         CodeTaken, Mail, MailDone, Succeed, Throw, GiveUp, MarkRead, MarkFailed, Return, Fails
  <2> QED BY <2>1, <2>2
<1>2. CASE \/ TimesOut(r, k) \/ WorkerDies(r, k) \/ Aborts(r, k)
           \/ PostRule(r, k, TRUE) \/ PostCode(r, k, TRUE)
  BY <1>2 DEF TimesOut, WorkerDies, Aborts, PostRule, PostCode
<1>3. ASSUME NEW x \in Recipients, MailLost(r, k, x)
      PROVE  UNCHANGED kind /\ ref' = [ref EXCEPT ![r] = att[r][k].ref]
  BY <1>3 DEF MailLost, Fails
<1> QED BY <1>1, <1>2, <1>3

\* A call's own recommendation is kept whole, the others are left alone.
LEMMA CallWhole ==
  ASSUME TypeOK, Sound, AllWhole, NEW r \in Recs, NEW k \in Attempts,
         \/ Step(r, k) \/ TimesOut(r, k) \/ WorkerDies(r, k) \/ Aborts(r, k)
         \/ PostRule(r, k, TRUE) \/ PostCode(r, k, TRUE)
         \/ \E x \in Recipients : MailLost(r, k, x)
  PROVE  AllWhole'
<1>1. Whole(r)'
  BY StepKeepsWhole, FaultKeepsWhole DEF AllWhole
<1>2. Works(r, k)
  BY StepWorks, FaultWorks
<1>3. \A q \in Recs \ {r} : Still(q)
  BY <1>2, CallElse, OthersStill
<1>4. \A q \in Recs \ {r} : Whole(q)'
  BY <1>3, StillWhole DEF AllWhole
<1> QED BY <1>1, <1>4 DEF AllWhole

\* A decision, the engine's or a merchant's, reports EXECUTED only of advice.
LEMMA DecisionWhole ==
  ASSUME TypeOK, Sound, AllWhole,
         (\E r \in Recs : Agent(r)) \/ (\E u \in Users : Merchant(u))
  PROVE  AllWhole'
<1>. USE DEF recVars, execVars, queueVars, world
<1>1. /\ status \in [Recs -> Statuses] /\ kind \in [Recs -> AllKinds]
      /\ exec \in [Recs -> {"NONE", "PENDING", "SUCCEEDED", "FAILED"}]
  BY DEF TypeOK
<1>2. UNCHANGED <<ref, att, rules, code, mails>>
  BY DEF Agent, Propose, AutoApprove, Merchant, Load, Approve, Reject, Conflict
<1>3. ASSUME NEW q \in Recs, kind'[q] = kind[q],
             \/ status'[q] = status[q] \/ status'[q] \notin {"EXECUTED", "MEASURED"} \/ kind[q] = "ADVISORY",
             exec'[q] = exec[q] \/ exec'[q] = "PENDING"
      PROVE  Whole(q)'
  <2>1. Whole(q) /\ Grows(q)
    BY <1>2, <1>3 DEF AllWhole, Grows
  <2>2. kind[q] = "ADVISORY" => Carried(q)
    BY DEF Carried, Discounted, Mailed
  <2> QED BY <1>2, <1>3, <2>1, <2>2, RowKeepsWhole
<1>4. ASSUME NEW r \in Recs, Agent(r)
      PROVE  AllWhole'
  <2>1. PICK kd \in AllKinds : Propose(r, kd) \/ AutoApprove(r, kd)
    BY <1>4, KindsAssumption DEF Agent
  <2>2. SoundRec(r) /\ Whole(r) /\ status[r] = "NONE"
    BY <2>1 DEF Sound, AllWhole, Propose, AutoApprove
  <2>3. exec[r] = "NONE" /\ (\A k \in Attempts : att[r][k].pc = "gone")
    BY <2>2 DEF SoundRec, Decided, Idle, Inert
  <2>4. /\ kind'[r] = kd
        /\ \/ status'[r] = "PENDING" /\ exec'[r] = "NONE"
           \/ status'[r] = "EXECUTED" /\ exec'[r] = "NONE" /\ kd = "ADVISORY"
           \/ status'[r] = "APPROVED" /\ exec'[r] = "PENDING"
    <3>1. CASE Propose(r, kd)
      BY <1>1, <2>3, <3>1 DEF Propose, Moved
    <3>2. CASE AutoApprove(r, kd)
      BY <1>1, <2>3, <3>2 DEF AutoApprove, Moved
    <3> QED BY <2>1, <3>1, <3>2
  <2>5. status'[r] \in {"EXECUTED", "MEASURED"} => Carried(r)'
    BY <2>4 DEF Carried, Discounted, Mailed
  <2>6. \A k \in Attempts : Backed(r, att[r][k])'
    BY <1>2, <2>2, <2>3 DEF Whole, Backed, Claims
  <2>7. Whole(r)'
    BY <1>2, <2>2, <2>4, <2>5, <2>6 DEF Whole, Claims
  <2>8. \A q \in Recs \ {r} : kind'[q] = kind[q] /\ status'[q] = status[q] /\ exec'[q] = exec[q]
    BY <1>1, <2>1 DEF Propose, AutoApprove, Moved
  <2> QED BY <1>3, <2>7, <2>8 DEF AllWhole
<1>5. ASSUME NEW u \in Users, Merchant(u)
      PROVE  AllWhole'
  <2>1. UNCHANGED kind
    BY <1>5 DEF Merchant, Load, Approve, Reject, Conflict
  <2>2. CASE Approve(u)
    <3>1. request[u].rec \in Recs
      BY <2>2, SwapFindsPending DEF Approve
    <3>2. ASSUME NEW q \in Recs
          PROVE  /\ \/ status'[q] = status[q] \/ status'[q] \notin {"EXECUTED", "MEASURED"}
                    \/ kind[q] = "ADVISORY"
                 /\ exec'[q] = exec[q] \/ exec'[q] = "PENDING"
      <4>1. CASE kind[request[u].rec] = "ADVISORY"
        BY <1>1, <2>2, <3>1, <4>1 DEF Approve, Moved
      <4>2. CASE kind[request[u].rec] # "ADVISORY"
        BY <1>1, <2>2, <3>1, <4>2 DEF Approve, Moved
      <4> QED BY <4>1, <4>2
    <3> QED BY <1>3, <2>1, <3>2 DEF AllWhole
  <2>3. CASE Reject(u)
    <3>1. request[u].rec \in Recs
      BY <2>3, SwapFindsPending DEF Reject
    <3>2. \A q \in Recs : /\ status'[q] = status[q] \/ status'[q] = "REJECTED"
                          /\ exec'[q] = exec[q]
      BY <1>1, <2>3, <3>1 DEF Reject, Moved
    <3> QED BY <1>3, <2>1, <3>2 DEF AllWhole
  <2>4. CASE UNCHANGED <<status, exec>>
    BY <1>3, <2>1, <2>4 DEF AllWhole
  <2> QED BY <1>5, <2>2, <2>3, <2>4 DEF Merchant, Load, Conflict
<1> QED BY <1>4, <1>5

\* The queue and the sweep report nothing but a measured execution, and bring
\* calls that claim nothing yet.
LEMMA QueueSweepWhole ==
  ASSUME TypeOK, Sound, AllWhole, NEW r \in Recs, Queue(r) \/ HandoffLost(r) \/ Sweep(r)
  PROVE  AllWhole'
<1>. USE DEF recVars, execVars, queueVars, world
<1>1. /\ status \in [Recs -> Statuses] /\ UNCHANGED <<kind, exec, ref, rules, code, mails>>
      /\ \A q \in Recs : Grows(q) /\ Whole(q)
  BY DEF TypeOK, AllWhole, Queue, Enqueue, Deliver, HandoffLost, Sweep, BecomesDue, SweepRead,
     SweepWrite, Measure, Grows
<1>2. CASE Deliver(r)
  <2>. DEFINE c == [Gone EXCEPT !.pc = "start"]
              k == job[r].n
  <2>1. k \in Attempts /\ Becomes(r, k, c) /\ UNCHANGED status
    BY <1>2 DEF Deliver, TypeOK
  <2>2. /\ att'[r][k] = c
        /\ \A j \in Attempts \ {k} : att'[r][j] = att[r][j]
        /\ \A q \in Recs \ {r} : att'[q] = att[q]
    BY <2>1, BecomesElse
  <2>3. Backed(r, c)'
    BY DEF Backed, Gone, NoRef, Claims
  <2>4. code[r] => rules[r] > 0
    BY <1>1 DEF Whole
  <2>. HIDE DEF c, k
  <2>5. Whole(r)'
    BY <1>1, <2>1, <2>2, <2>3, <2>4, CallKeepsWhole
  <2>6. \A q \in Recs \ {r} : Whole(q)'
    BY <1>1, <2>1, <2>2, RowKeepsWhole
  <2> QED BY <2>5, <2>6 DEF AllWhole
<1>3. CASE ~Deliver(r)
  <2>1. UNCHANGED att
    BY <1>3 DEF Queue, Enqueue, HandoffLost, Sweep, BecomesDue, SweepRead, SweepWrite, Measure
  <2>2. ASSUME NEW q \in Recs
        PROVE  \/ status'[q] = status[q]
               \/ status'[q] \notin {"EXECUTED", "MEASURED"}
               \/ Carried(q)
    <3>1. CASE Measure(r)
      <4>1. Carried(r)
        BY <1>1, <3>1 DEF Measure, Whole
      <4>2. q # r => status'[q] = status[q]
        BY <1>1, <3>1 DEF Measure, Moved
      <4> QED BY <4>1, <4>2
    <3>2. CASE SweepWrite(r)
      BY <1>1, <3>2 DEF SweepWrite, Moved
    <3>3. CASE UNCHANGED status
      BY <3>3
    <3> QED BY <1>3, <3>1, <3>2, <3>3 DEF Queue, Enqueue, HandoffLost, Sweep, BecomesDue, SweepRead
  <2> QED BY <1>1, <2>1, <2>2, RowKeepsWhole DEF AllWhole
<1> QED BY <1>2, <1>3

\* A recommendation that is reported as carried out has been, and a checkpoint
\* names only what had its effect: crashes, timeouts and rollbacks take claims
\* away and never add one.
THEOREM ExecutedIsWhole == Spec => []ExecutedIsComplete
<1>1. Init => AllWhole
  BY WholeInit
<1>2. IInv /\ AllWhole /\ [Next]_vars => AllWhole'
  <2>. SUFFICES ASSUME TypeOK, Sound, AllWhole, [Next]_vars PROVE AllWhole'
    BY DEF IInv
  <2>1. CASE UNCHANGED vars
    BY <2>1 DEF vars, AllWhole, Whole, Backed, Claims, Carried, Discounted, Mailed
  <2>2. CASE Next
    BY <2>2, CallWhole, DecisionWhole, QueueSweepWhole DEF Next, Fault
  <2> QED BY <2>1, <2>2
<1>3. AllWhole => ExecutedIsComplete
  BY DEF AllWhole, Whole, Backed, ExecutedIsComplete
<1> QED BY <1>1, <1>2, <1>3, Invariance, PTL DEF Spec

-----------------------------------------------------------------------------
(* ActionExecution implements HumanApproval.                                *)

\* The decision read off one row.
Verdict(r) == CASE status[r] \in {"NONE", "PENDING"} -> "open"
                [] status[r] = "REJECTED" -> "rejected"
                [] status[r] = "EXPIRED" /\ exec[r] = "NONE" -> "lapsed"
                [] OTHER -> "approved"

ActedFcn == [r \in Recs |-> Acted(r)]

\* The refinement mapping, by the verdict of each row.
LEMMA VerdictRead == \A r \in Recs : Decision[r] = Verdict(r)
  BY DEF Decision, Verdict

\* A step that changes the verdict and the effects of no recommendation is a
\* stuttering step of HumanApproval.
LEMMA Stutters ==
  ASSUME \A r \in Recs : Verdict(r)' = Verdict(r) /\ Acted(r)' = Acted(r)
  PROVE  UNCHANGED Approval!vars
<1>1. Decision' = Decision
  BY DEF Decision, Verdict
<1>2. ActedFcn' = ActedFcn
  BY DEF ActedFcn
<1> QED BY <1>1, <1>2 DEF Approval!vars, ActedFcn

\* A step that gives an open recommendation its verdict is a Decide step.
LEMMA Decides ==
  ASSUME NEW r \in Recs, NEW v \in {"approved", "rejected", "lapsed"},
         Verdict(r) = "open", Verdict(r)' = v,
         \A q \in Recs \ {r} : Verdict(q)' = Verdict(q),
         \A q \in Recs : Acted(q)' = Acted(q)
  PROVE  Approval!Next
<1>1. Decision' = [Decision EXCEPT ![r] = v]
  BY DEF Decision, Verdict
<1>2. ActedFcn' = ActedFcn
  BY DEF ActedFcn
<1>3. Decision[r] = "open"
  BY VerdictRead
<1>4. Approval!Decide(r, v)
  BY <1>1, <1>2, <1>3 DEF Approval!Decide, ActedFcn
<1> QED BY <1>4 DEF Approval!Next, Approval!Verdicts

\* A step that adds an effect to an approved one is an Act step.
LEMMA Acts ==
  ASSUME NEW r \in Recs, NEW e \in Effects,
         Verdict(r) = "approved", Acted(r)' = Acted(r) \cup {e},
         \A q \in Recs : Verdict(q)' = Verdict(q),
         \A q \in Recs \ {r} : Acted(q)' = Acted(q)
  PROVE  Approval!Next
<1>1. Decision' = Decision
  BY DEF Decision, Verdict
<1>2. ActedFcn' = [ActedFcn EXCEPT ![r] = @ \cup {e}]
  BY DEF ActedFcn
<1>3. Decision[r] = "approved"
  BY VerdictRead
<1>4. Approval!Act(r, e)
  BY <1>1, <1>2, <1>3 DEF Approval!Act, ActedFcn
<1> QED BY <1>4 DEF Approval!Next

\* What a recommendation a step leaves alone shows of itself.
LEMMA SameShows ==
  ASSUME NEW q \in Recs, Same(q)
  PROVE  Verdict(q)' = Verdict(q) /\ Acted(q)' = Acted(q)
  BY DEF Same, Verdict, Acted

\* What a handler call does to the world: nothing, or one effect.
WorldStep(r) ==
  \/ UNCHANGED world
  \/ rules' = [rules EXCEPT ![r] = @ + 1] /\ UNCHANGED <<code, mails>>
  \/ code' = [code EXCEPT ![r] = TRUE] /\ UNCHANGED <<rules, mails>>
  \/ \E x \in Recipients : mails' = [mails EXCEPT ![r][x] = @ + 1] /\ UNCHANGED <<rules, code>>

\* Such a step shows at most one more effect.
LEMMA WorldStepEffect ==
  ASSUME TypeOK, NEW r \in Recs, WorldStep(r)
  PROVE  Acted(r)' = Acted(r) \/ \E e \in Effects : Acted(r)' = Acted(r) \cup {e}
<1>1. /\ rules \in [Recs -> Nat] /\ code \in [Recs -> BOOLEAN]
      /\ mails \in [Recs -> [Recipients -> Nat]]
  BY DEF TypeOK
<1>2. CASE UNCHANGED world
  BY <1>2 DEF world, Acted
<1>3. CASE rules' = [rules EXCEPT ![r] = @ + 1] /\ UNCHANGED <<code, mails>>
  <2>1. Acted(r)' = Acted(r) \cup {"rule"}
    BY <1>1, <1>3 DEF Acted
  <2> QED BY <2>1 DEF Effects
<1>4. CASE code' = [code EXCEPT ![r] = TRUE] /\ UNCHANGED <<rules, mails>>
  <2>1. Acted(r)' = Acted(r) \cup {"code"}
    BY <1>1, <1>4 DEF Acted
  <2> QED BY <2>1 DEF Effects
<1>5. ASSUME NEW x \in Recipients, mails' = [mails EXCEPT ![r][x] = @ + 1],
             UNCHANGED <<rules, code>>
      PROVE  Acted(r)' = Acted(r) \cup {x}
  <2>1. \A y \in Recipients : mails'[r][y] > 0 <=> (y = x \/ mails[r][y] > 0)
    BY <1>1, <1>5
  <2> QED BY <1>5, <2>1 DEF Acted
<1> QED BY <1>2, <1>3, <1>4, <1>5 DEF WorldStep, Effects

\* A handler step either leaves the outside world alone or adds one effect.
LEMMA StepWorld ==
  ASSUME NEW r \in Recs, NEW k \in Attempts,
         \/ Step(r, k) \/ TimesOut(r, k) \/ WorkerDies(r, k) \/ Aborts(r, k)
         \/ PostRule(r, k, TRUE) \/ PostCode(r, k, TRUE)
         \/ \E x \in Recipients : MailLost(r, k, x)
  PROVE  WorldStep(r)
<1>. USE DEF WorldStep, world
<1>1. CASE Step(r, k)
  BY <1>1 DEF Step, Read, Deny, Lock, Resolve, ResolveFails, ToolFails, PostRule, PostCode,
         CodeTaken, Mail, MailDone, Succeed, Throw, GiveUp, MarkRead,
         MarkFailed, Return
<1>2. CASE TimesOut(r, k) \/ WorkerDies(r, k) \/ Aborts(r, k)
  BY <1>2 DEF TimesOut, WorkerDies, Aborts
<1>3. CASE PostRule(r, k, TRUE) \/ PostCode(r, k, TRUE)
  BY <1>3 DEF PostRule, PostCode
<1>4. ASSUME NEW x \in Recipients, MailLost(r, k, x)
      PROVE  WorldStep(r)
  BY <1>4 DEF MailLost
<1> QED BY <1>1, <1>2, <1>3, <1>4

\* A handler call at work acts, if at all, on an approved recommendation.
LEMMA WorksActs ==
  ASSUME TypeOK, Sound, NEW r \in Recs, NEW k \in Attempts, Works(r, k), WorldStep(r)
  PROVE  Approval!Next \/ UNCHANGED Approval!vars
<1>1. /\ exec[r] # "NONE" /\ exec'[r] # "NONE"
      /\ status[r] \notin {"NONE", "PENDING", "REJECTED"}
      /\ status'[r] = status[r] \/ status'[r] \in {"EXECUTED", "FAILED"}
  BY AtWork DEF Works
<1>2. Verdict(r) = "approved" /\ Verdict(r)' = "approved"
  BY <1>1 DEF Verdict
<1>3. \A q \in Recs \ {r} : Verdict(q)' = Verdict(q) /\ Acted(q)' = Acted(q)
  BY SameShows DEF Works
<1>4. CASE Acted(r)' = Acted(r)
  BY <1>2, <1>3, <1>4, Stutters
<1>5. ASSUME NEW e \in Effects, Acted(r)' = Acted(r) \cup {e}
      PROVE  Approval!Next
  BY <1>2, <1>3, <1>5, Acts
<1> QED BY <1>4, <1>5, WorldStepEffect

\* Every step is a step of HumanApproval, or a stutter.
LEMMA NextRefines ==
  ASSUME TypeOK, Sound, [Next]_vars
  PROVE  Approval!Next \/ UNCHANGED Approval!vars
<1>. USE DEF recVars, execVars, queueVars, world
<1>1. CASE UNCHANGED vars
  <2>1. \A q \in Recs : Same(q)
    BY <1>1 DEF vars, Same
  <2> QED BY <2>1, SameShows, Stutters
<1>2. ASSUME NEW r \in Recs, Agent(r)
      PROVE  Approval!Next \/ UNCHANGED Approval!vars
  <2>1. PICK kd : Propose(r, kd) \/ AutoApprove(r, kd)
    BY <1>2 DEF Agent
  <2>2. status \in [Recs -> Statuses] /\ exec \in [Recs -> {"NONE", "PENDING", "SUCCEEDED", "FAILED"}]
    BY DEF TypeOK
  <2>3. \A q \in Recs : Acted(q)' = Acted(q)
    BY <2>1 DEF Propose, AutoApprove, Acted
  <2>4. \A q \in Recs \ {r} : Verdict(q)' = Verdict(q)
    BY <2>1, <2>2 DEF Propose, AutoApprove, Moved, Verdict
  <2>5. CASE Propose(r, kd)
    <3>1. Verdict(r) = "open" /\ Verdict(r)' = "open"
      BY <2>2, <2>5 DEF Propose, Moved, Verdict
    <3> QED BY <2>3, <2>4, <3>1, Stutters
  <2>6. CASE AutoApprove(r, kd)
    <3>1. Verdict(r) = "open" /\ status'[r] \in {"APPROVED", "EXECUTED"}
      BY <2>2, <2>6 DEF AutoApprove, Moved, Verdict
    <3>2. Verdict(r)' = "approved"
      BY <3>1 DEF Verdict
    <3> QED BY <2>3, <2>4, <3>1, <3>2, Decides
  <2> QED BY <2>1, <2>5, <2>6
<1>3. ASSUME NEW u \in Users, Merchant(u)
      PROVE  Approval!Next \/ UNCHANGED Approval!vars
  <2>1. status \in [Recs -> Statuses] /\ exec \in [Recs -> {"NONE", "PENDING", "SUCCEEDED", "FAILED"}]
    BY DEF TypeOK
  <2>2. \A q \in Recs : Acted(q)' = Acted(q)
    BY <1>3 DEF Merchant, Load, Approve, Reject, Conflict, Acted
  <2>3. CASE UNCHANGED <<status, exec>>
    <3>1. \A q \in Recs : Verdict(q)' = Verdict(q)
      BY <2>3 DEF Verdict
    <3> QED BY <2>2, <3>1, Stutters
  <2>4. CASE Approve(u)
    <3>1. PICK r \in Recs : r = request[u].rec /\ status[r] = "PENDING"
      BY <2>4, SwapFindsPending DEF Approve
    <3>2. /\ status'[r] \in {"APPROVED", "EXECUTED"}
          /\ \A q \in Recs \ {r} : status'[q] = status[q] /\ exec'[q] = exec[q]
      BY <2>1, <2>4, <3>1 DEF Approve, Moved
    <3>3. Verdict(r) = "open" /\ Verdict(r)' = "approved"
      BY <3>1, <3>2 DEF Verdict
    <3>4. \A q \in Recs \ {r} : Verdict(q)' = Verdict(q)
      BY <3>2 DEF Verdict
    <3> QED BY <2>2, <3>3, <3>4, Decides
  <2>5. CASE Reject(u)
    <3>1. PICK r \in Recs : r = request[u].rec /\ status[r] = "PENDING"
      BY <2>5, SwapFindsPending DEF Reject
    <3>2. /\ status'[r] = "REJECTED"
          /\ \A q \in Recs \ {r} : status'[q] = status[q] /\ exec'[q] = exec[q]
      BY <2>1, <2>5, <3>1 DEF Reject, Moved
    <3>3. Verdict(r) = "open" /\ Verdict(r)' = "rejected"
      BY <3>1, <3>2 DEF Verdict
    <3>4. \A q \in Recs \ {r} : Verdict(q)' = Verdict(q)
      BY <3>2 DEF Verdict
    <3> QED BY <2>2, <3>3, <3>4, Decides
  <2> QED BY <1>3, <2>3, <2>4, <2>5 DEF Merchant, Load, Conflict
<1>4. ASSUME NEW r \in Recs, Queue(r) \/ HandoffLost(r)
      PROVE  UNCHANGED Approval!vars
  <2>1. UNCHANGED <<status, exec, rules, code, mails>>
    BY <1>4 DEF Queue, Enqueue, Deliver, HandoffLost
  <2>2. \A q \in Recs : Verdict(q)' = Verdict(q) /\ Acted(q)' = Acted(q)
    BY <2>1 DEF Verdict, Acted
  <2> QED BY <2>2, Stutters
<1>5. ASSUME NEW r \in Recs, Sweep(r)
      PROVE  Approval!Next \/ UNCHANGED Approval!vars
  <2>1. status \in [Recs -> Statuses]
    BY DEF TypeOK
  <2>2. UNCHANGED <<exec, rules, code, mails>> /\ \A q \in Recs \ {r} : status'[q] = status[q]
    BY <1>5, <2>1 DEF Sweep, BecomesDue, SweepRead, SweepWrite, Measure, Moved
  <2>3. /\ \A q \in Recs : Acted(q)' = Acted(q)
        /\ \A q \in Recs \ {r} : Verdict(q)' = Verdict(q)
    BY <2>2 DEF Verdict, Acted
  <2>4. \/ status'[r] = status[r]
        \/ status[r] = "EXECUTED" /\ status'[r] = "MEASURED"
        \/ status[r] \in {"PENDING", "APPROVED"} /\ status'[r] = "EXPIRED"
    BY <1>5, <2>1 DEF Sweep, BecomesDue, SweepRead, SweepWrite, Measure, Moved
  <2>5. /\ status[r] = "PENDING" => exec[r] = "NONE"
        /\ status[r] = "APPROVED" => exec[r] # "NONE"
    BY DEF Sound, SoundRec, Decided
  <2>6. CASE status[r] = "PENDING" /\ status'[r] = "EXPIRED"
    <3>1. Verdict(r) = "open" /\ Verdict(r)' = "lapsed"
      BY <2>2, <2>5, <2>6 DEF Verdict
    <3> QED BY <2>3, <3>1, Decides
  <2>7. CASE ~(status[r] = "PENDING" /\ status'[r] = "EXPIRED")
    <3>1. Verdict(r)' = Verdict(r)
      BY <2>2, <2>4, <2>5, <2>7 DEF Verdict
    <3> QED BY <2>3, <3>1, Stutters
  <2> QED BY <2>6, <2>7
<1>6. ASSUME NEW r \in Recs, Fault(r)
      PROVE  Approval!Next \/ UNCHANGED Approval!vars
  BY <1>4, <1>6, FaultWorks, StepWorld, WorksActs DEF Fault
<1>7. ASSUME NEW r \in Recs, NEW k \in Attempts, Step(r, k)
      PROVE  Approval!Next \/ UNCHANGED Approval!vars
  BY <1>7, StepWorks, StepWorld, WorksActs
<1> QED BY <1>1, <1>2, <1>3, <1>4, <1>5, <1>6, <1>7 DEF Next

\* Every behaviour of the state machine, the queue and the executor, crashes
\* and races included, is one HumanApproval allows.
THEOREM Refinement == Spec => ImplementsApproval
<1>1. Init => Approval!Init
  BY DEF Init, Approval!Init, Decision, Acted
<1>2. IInv /\ [Next]_vars => [Approval!Next]_(Approval!vars)
  BY NextRefines DEF IInv
<1> QED BY <1>1, <1>2, Invariance, PTL DEF Spec, ImplementsApproval, Approval!Spec
=============================================================================
