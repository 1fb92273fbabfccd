--------------------------- MODULE ActionExecution ---------------------------
(***************************************************************************)
(* The life of an AI recommendation: its state machine in PostgreSQL       *)
(* (packages/ai/src/service/recommendations.ts), the autopilot that        *)
(* creates it (decision.ts), the queue job that executes it               *)
(* (execution.handlers.ts, executor.ts, tools/), and the daily sweep that  *)
(* expires and measures it (attribution.ts).                               *)
(*                                                                         *)
(* Every database transaction runs at READ COMMITTED.  An action is one    *)
(* statement whose place among the steps of others matters: a read is one  *)
(* action and the write that uses what was read another.  executeAction is *)
(* one transaction from Lock to Succeed/Fail: what it writes is invisible, *)
(* and undone by a crash, until its last step; what its tools do outside   *)
(* the database (rules, codes, mails) is neither.                          *)
(***************************************************************************)
EXTENDS Naturals, Sequences

CONSTANTS Recs,         \* recommendations of one store
          Users,        \* merchant users who approve or reject
          Recipients,   \* addresses an email action resolves to
          Kinds,        \* the kinds of action that occur, a subset of AllKinds
          MaxAttempts,  \* AiExecute*ActionJob.attempts
          MaxCrashes,   \* bound: process crashes and aborted transactions
          MaxTimeouts,  \* bound: job attempts that exceed their timeout
          MaxLost       \* bound: remote calls done whose response is lost

AllKinds == {"ADVISORY", "DISCOUNT", "EMAIL", "EMAIL_DISCOUNT"}

ASSUME KindsAssumption == Kinds \subseteq AllKinds
ASSUME BoundsAssumption == /\ MaxAttempts \in Nat \ {0}
                           /\ MaxCrashes \in Nat
                           /\ MaxTimeouts \in Nat
                           /\ MaxLost \in Nat

VARIABLES
  status,    \* recommendations.status, "NONE" before the row exists
  version,   \* recommendations.state_version
  kind,      \* recommendations.action_type (and whether it carries a percent)
  trail,     \* recommendation_events: the <<from, to>> pairs, in order
  request,   \* request[u]: the approve/reject call user u has in flight
  exec,      \* action_executions.status as committed
  ref,       \* action_executions.tool_ref as committed
  handoff,   \* executions committed whose job is not enqueued yet
  job,       \* the queue's job aiexec:<executionId>
  att,       \* att[r][k]: the handler call running attempt k of r's job
  due,       \* recommendations past expires_at
  sweep,     \* sweep[r]: the row the expiry sweep has read and not written
  rules,     \* price rules Shopify holds for r
  code,      \* whether Shopify holds r's discount code
  mails,     \* mails[r][x]: emails x has received for r
  faults     \* faults so far, per kind

recVars   == <<status, version, kind, trail>>
execVars  == <<exec, ref>>
queueVars == <<handoff, job>>
world     == <<rules, code, mails>>
vars == <<status, version, kind, trail, request, exec, ref, handoff, job, att,
          due, sweep, rules, code, mails, faults>>

Attempts == 1 .. MaxAttempts

Statuses == {"NONE", "PENDING", "APPROVED", "REJECTED", "EXECUTED", "FAILED",
             "EXPIRED", "MEASURED"}

\* What a stored toolRef says has been done.
Refs  == [rule : BOOLEAN, code : BOOLEAN, sent : SUBSET Recipients]
NoRef == [rule |-> FALSE, code |-> FALSE, sent |-> {}]

Discounted(r) == kind[r] \in {"DISCOUNT", "EMAIL_DISCOUNT"}
Mailed(r)     == kind[r] \in {"EMAIL", "EMAIL_DISCOUNT"}

\* A handler call.  ref is toolRef as checkpointed, work the copy of it a
\* tool is filling in, ver the stateVersion read, again whether the queue is
\* to try once more.
InTransaction == {"resolve", "rule", "code", "mail", "commit"}
Gone == [pc |-> "gone", ver |-> 0, ref |-> NoRef, work |-> NoRef, again |-> FALSE]

NoRequest == [pc |-> "idle"]
NoSweep   == [on |-> FALSE, from |-> "NONE", ver |-> 0]
NoJob     == [st |-> "none", n |-> 0]

Init ==
  /\ status  = [r \in Recs |-> "NONE"]
  /\ version = [r \in Recs |-> 0]
  /\ kind    = [r \in Recs |-> "ADVISORY"]
  /\ trail   = [r \in Recs |-> <<>>]
  /\ request = [u \in Users |-> NoRequest]
  /\ exec    = [r \in Recs |-> "NONE"]
  /\ ref     = [r \in Recs |-> NoRef]
  /\ handoff = {}
  /\ job     = [r \in Recs |-> NoJob]
  /\ att     = [r \in Recs |-> [k \in Attempts |-> Gone]]
  /\ due     = {}
  /\ sweep   = [r \in Recs |-> NoSweep]
  /\ rules   = [r \in Recs |-> 0]
  /\ code    = [r \in Recs |-> FALSE]
  /\ mails   = [r \in Recs |-> [x \in Recipients |-> 0]]
  /\ faults  = [crash |-> 0, timeout |-> 0, lost |-> 0]

Logged(r, from, to) == trail' = [trail EXCEPT ![r] = Append(@, <<from, to>>)]

Moved(r, to, v) == /\ status'  = [status EXCEPT ![r] = to]
                   /\ version' = [version EXCEPT ![r] = v]

\* Handler call k of r becomes c; goes on to pc; is over.
Becomes(r, k, c) == att' = [att EXCEPT ![r][k] = c]
Goes(r, k, pc)   == Becomes(r, k, [att[r][k] EXCEPT !.pc = pc])
Leaves(r, k)     == Becomes(r, k, Gone)

OneCrash   == faults' = [faults EXCEPT !.crash = @ + 1]
OneTimeout == faults' = [faults EXCEPT !.timeout = @ + 1]
OneLost    == faults' = [faults EXCEPT !.lost = @ + 1]

-----------------------------------------------------------------------------
(* The decision engine: a run inserts the recommendation and, when          *)
(* decideAutoApproval says so, approves it in the same transaction.         *)

Propose(r, kd) ==
  /\ status[r] = "NONE"
  /\ kind' = [kind EXCEPT ![r] = kd]
  /\ Moved(r, "PENDING", 1)
  /\ Logged(r, "NONE", "PENDING")
  /\ UNCHANGED <<request, execVars, queueVars, att, due, sweep, world, faults>>

AutoApprove(r, kd) ==
  /\ status[r] = "NONE"
  /\ kind' = [kind EXCEPT ![r] = kd]
  /\ IF kd = "ADVISORY"
       THEN /\ Moved(r, "EXECUTED", 2)
            /\ trail' = [trail EXCEPT ![r] = @ \o << <<"NONE", "PENDING">>,
                           <<"PENDING", "APPROVED">>, <<"APPROVED", "EXECUTED">> >>]
            /\ UNCHANGED <<exec, handoff>>
       ELSE /\ Moved(r, "APPROVED", 2)
            /\ trail' = [trail EXCEPT ![r] = @ \o << <<"NONE", "PENDING">>,
                           <<"PENDING", "APPROVED">>, <<"APPROVED", "APPROVED">> >>]
            /\ exec' = [exec EXCEPT ![r] = "PENDING"]
            /\ handoff' = handoff \cup {r}
  /\ UNCHANGED <<request, ref, job, att, due, sweep, world, faults>>

-----------------------------------------------------------------------------
(* The merchant's decision: loadForUpdate and assertTransition read the row *)
(* without locking it; the UPDATE is a compare-and-swap on stateVersion.    *)

Load(u, op, r) ==
  /\ request[u] = NoRequest
  /\ status[r] = "PENDING"
  /\ request' = [request EXCEPT ![u] =
                   [pc |-> "loaded", op |-> op, rec |-> r, ver |-> version[r]]]
  /\ UNCHANGED <<recVars, execVars, queueVars, att, due, sweep, world, faults>>

Swaps(u, op) == /\ request[u].pc = "loaded"
                /\ request[u].op = op
                /\ version[request[u].rec] = request[u].ver

Approve(u) ==
  /\ Swaps(u, "approve")
  /\ LET r == request[u].rec
         v == request[u].ver
     IN IF kind[r] = "ADVISORY"
          THEN /\ Moved(r, "EXECUTED", v + 2)
               /\ trail' = [trail EXCEPT ![r] = @ \o
                      << <<"PENDING", "APPROVED">>, <<"APPROVED", "EXECUTED">> >>]
               /\ UNCHANGED <<exec, handoff>>
          ELSE /\ Moved(r, "APPROVED", v + 1)
               /\ trail' = [trail EXCEPT ![r] = @ \o
                      << <<"PENDING", "APPROVED">>, <<"APPROVED", "APPROVED">> >>]
               /\ exec' = [exec EXCEPT ![r] = "PENDING"]
               /\ handoff' = handoff \cup {r}
  /\ request' = [request EXCEPT ![u] = NoRequest]
  /\ UNCHANGED <<kind, ref, job, att, due, sweep, world, faults>>

\* Mutant: reject without the compare-and-swap.
RejectBlindly(u) ==
  /\ request[u].pc = "loaded" /\ request[u].op = "reject"
  /\ Moved(request[u].rec, "REJECTED", request[u].ver + 1)
  /\ Logged(request[u].rec, "PENDING", "REJECTED")
  /\ request' = [request EXCEPT ![u] = NoRequest]
  /\ UNCHANGED <<kind, execVars, queueVars, att, due, sweep, world, faults>>

Reject(u) ==
  /\ Swaps(u, "reject")
  /\ LET r == request[u].rec
     IN /\ Moved(r, "REJECTED", request[u].ver + 1)
        /\ Logged(r, "PENDING", "REJECTED")
  /\ request' = [request EXCEPT ![u] = NoRequest]
  /\ UNCHANGED <<kind, execVars, queueVars, att, due, sweep, world, faults>>

\* The UPDATE matched no row: RecommendationConflictError.
Conflict(u) ==
  /\ request[u].pc = "loaded"
  /\ version[request[u].rec] # request[u].ver
  /\ request' = [request EXCEPT ![u] = NoRequest]
  /\ UNCHANGED <<recVars, execVars, queueVars, att, due, sweep, world, faults>>

-----------------------------------------------------------------------------
(* From the committed execution row to a running handler.                   *)

\* The router, or aiRunHandler, enqueues after its transaction has committed.
Enqueue(r) ==
  /\ r \in handoff
  /\ handoff' = handoff \ {r}
  /\ job' = [job EXCEPT ![r] = IF @.st = "none" THEN [st |-> "ready", n |-> 1] ELSE @]
  /\ UNCHANGED <<recVars, request, execVars, att, due, sweep, world, faults>>

\* ... and dies in between: nothing looks for the row again.
HandoffLost(r) ==
  /\ r \in handoff
  /\ faults.crash < MaxCrashes
  /\ OneCrash
  /\ handoff' = handoff \ {r}
  /\ UNCHANGED <<recVars, request, execVars, job, att, due, sweep, world>>

Deliver(r) ==
  /\ job[r].st = "ready"
  /\ job' = [job EXCEPT ![r].st = "active"]
  /\ Becomes(r, job[r].n, [Gone EXCEPT !.pc = "start"])
  /\ UNCHANGED <<recVars, request, execVars, handoff, due, sweep, world, faults>>

Current(r, k) == job[r].st = "active" /\ job[r].n = k

\* What the queue does when the attempt it waits for throws or times out;
\* an attempt it no longer waits for changes nothing.
Rescheduled(r, k) ==
  job' = IF Current(r, k)
           THEN [job EXCEPT ![r] = IF k < MaxAttempts
                                     THEN [st |-> "ready", n |-> k + 1]
                                     ELSE [st |-> "dead", n |-> k]]
           ELSE job

\* executeWithTimeout stops waiting; the handler itself runs on.
TimesOut(r, k) ==
  /\ att[r][k].pc # "gone"
  /\ Current(r, k)
  /\ faults.timeout < MaxTimeouts
  /\ OneTimeout
  /\ Rescheduled(r, k)
  /\ UNCHANGED <<recVars, request, execVars, handoff, att, due, sweep, world>>

\* The worker dies: its transaction is rolled back.  BullMQ redelivers the
\* same attempt; the memory driver, and a second stall, lose the job.
WorkerDies(r, k) ==
  /\ att[r][k].pc # "gone"
  /\ faults.crash < MaxCrashes
  /\ OneCrash
  /\ Leaves(r, k)
  /\ \/ job' = IF Current(r, k) THEN [job EXCEPT ![r].st = "ready"] ELSE job
     \/ Current(r, k) /\ job' = [job EXCEPT ![r].st = "lost"]
  /\ UNCHANGED <<recVars, request, execVars, handoff, due, sweep, world>>

\* A database error anywhere in the handler: the transaction is rolled back
\* and the handler throws.
Aborts(r, k) ==
  /\ att[r][k].pc # "gone"
  /\ faults.crash < MaxCrashes
  /\ OneCrash
  /\ Leaves(r, k)
  /\ Rescheduled(r, k)
  /\ UNCHANGED <<recVars, request, execVars, handoff, due, sweep, world>>

-----------------------------------------------------------------------------
(* executeAction: one transaction.                                          *)

RowFree(r) == \A k \in Attempts : att[r][k].pc \notin InTransaction

\* Preflight of email actions: the plan denies the send.  The execution row
\* is failed whatever it was.
Deny(r, k) ==
  /\ att[r][k].pc = "start"
  /\ Mailed(r)
  /\ RowFree(r)
  /\ exec' = [exec EXCEPT ![r] = "FAILED"]
  /\ Goes(r, k, "mark")
  /\ UNCHANGED <<recVars, request, ref, queueVars, due, sweep, world, faults>>

Read(r, k) ==
  /\ att[r][k].pc = "start"
  /\ IF exec[r] = "SUCCEEDED"
       THEN Goes(r, k, "ack")
       ELSE Becomes(r, k, [pc |-> "lock", ver |-> version[r], ref |-> ref[r],
                           work |-> ref[r], again |-> FALSE])
  /\ UNCHANGED <<recVars, request, execVars, queueVars, due, sweep, world, faults>>

\* UPDATE ... SET status = 'RUNNING' waits for the row lock.  It does not look
\* at the row again: the attempt goes on with what it read before it waited.
Lock(r, k) ==
  /\ att[r][k].pc = "lock"
  /\ RowFree(r)
  /\ Goes(r, k, "resolve")
  /\ UNCHANGED <<recVars, request, execVars, queueVars, due, sweep, world, faults>>

\* The catch block: the row is FAILED with the checkpoints made so far, and
\* the transaction commits.
Fails(r, k, again) ==
  /\ exec' = [exec EXCEPT ![r] = "FAILED"]
  /\ ref'  = [ref EXCEPT ![r] = att[r][k].ref]
  /\ Becomes(r, k, [att[r][k] EXCEPT !.pc = "failed", !.again = again])

\* buildToolParams: which tools, in which order.
Resolve(r, k) ==
  /\ att[r][k].pc = "resolve"
  /\ IF kind[r] = "DISCOUNT" \/ (kind[r] = "EMAIL_DISCOUNT" /\ ~att[r][k].ref.code)
       THEN Goes(r, k, IF att[r][k].work.rule THEN "code" ELSE "rule")
       ELSE Goes(r, k, "mail")
  /\ UNCHANGED <<recVars, request, execVars, queueVars, due, sweep, world, faults>>

\* ... or a typed, final failure: checkout completed, nobody consents, percent 0.
ResolveFails(r, k) ==
  /\ att[r][k].pc = "resolve"
  /\ Fails(r, k, FALSE)
  /\ UNCHANGED <<recVars, request, queueVars, due, sweep, world, faults>>

\* A tool throws; again iff the error is retryable (5xx, 429, SMTP).  Once the
\* email tool has begun to send, only a send can fail.
ToolFails(r, k, again) ==
  /\ att[r][k].pc \in {"rule", "code", "mail"}
  /\ att[r][k].pc = "mail" =>
       /\ ~(Recipients \subseteq att[r][k].work.sent)
       /\ att[r][k].work # att[r][k].ref => again
  /\ Fails(r, k, again)
  /\ UNCHANGED <<recVars, request, queueVars, due, sweep, world, faults>>

\* DiscountTool step 1.  lost: Shopify made the rule, the response never
\* came, and shopifyPostJson posts again.
PostRule(r, k, lost) ==
  /\ att[r][k].pc = "rule"
  /\ rules' = [rules EXCEPT ![r] = @ + 1]
  /\ IF lost
       THEN faults.lost < MaxLost /\ OneLost /\ UNCHANGED att
       ELSE /\ Becomes(r, k, [att[r][k] EXCEPT !.pc = "code", !.work.rule = TRUE])
            /\ UNCHANGED faults
  /\ UNCHANGED <<recVars, request, execVars, queueVars, due, sweep, code, mails>>

\* The discount tool returns its ref: it becomes the checkpoint.
Returns(r, k, done) ==
  Becomes(r, k, [att[r][k] EXCEPT !.ref = done, !.work = done,
                   !.pc = IF Mailed(r) THEN "mail" ELSE "commit"])

\* DiscountTool step 2: the last one before the tool returns.
PostCode(r, k, lost) ==
  /\ att[r][k].pc = "code"
  /\ ~code[r]
  /\ code' = [code EXCEPT ![r] = TRUE]
  /\ IF lost
       THEN faults.lost < MaxLost /\ OneLost /\ UNCHANGED att
       ELSE /\ Returns(r, k, [att[r][k].work EXCEPT !.code = TRUE])
            /\ UNCHANGED faults
  /\ UNCHANGED <<recVars, request, execVars, queueVars, due, sweep, rules, mails>>

\* The tool also skips a code its working copy names, which never happens: only
\* a step after the code stores that copy with a failure, that step is the mail,
\* and an execution with mails does not repeat its discount.
\* Shopify answers 422 to a code it already has: not retryable.
CodeTaken(r, k) ==
  /\ att[r][k].pc = "code"
  /\ code[r] /\ ~att[r][k].work.code
  /\ Fails(r, k, FALSE)
  /\ UNCHANGED <<recVars, request, queueVars, due, sweep, world, faults>>

\* RecoveryEmailTool: one message per recipient the checkpoint does not name.
Mail(r, k, x) ==
  /\ att[r][k].pc = "mail"
  /\ x \notin att[r][k].work.sent
  /\ mails' = [mails EXCEPT ![r][x] = @ + 1]
  /\ Becomes(r, k, [att[r][k] EXCEPT !.work.sent = @ \cup {x}])
  /\ UNCHANGED <<recVars, request, execVars, queueVars, due, sweep, rules, code, faults>>

\* The server took the message and the SMTP call failed all the same.
MailLost(r, k, x) ==
  /\ att[r][k].pc = "mail"
  /\ x \notin att[r][k].work.sent
  /\ faults.lost < MaxLost
  /\ OneLost
  /\ mails' = [mails EXCEPT ![r][x] = @ + 1]
  /\ Fails(r, k, TRUE)
  /\ UNCHANGED <<recVars, request, queueVars, due, sweep, rules, code>>

\* Mutant: the loop ends after one recipient.
MailDoneEarly(r, k) ==
  /\ att[r][k].pc = "mail"
  /\ att[r][k].work.sent # {}
  /\ Becomes(r, k, [att[r][k] EXCEPT !.ref = att[r][k].work, !.pc = "commit"])
  /\ UNCHANGED <<recVars, request, execVars, queueVars, due, sweep, world, faults>>

MailDone(r, k) ==
  /\ att[r][k].pc = "mail"
  /\ Recipients \subseteq att[r][k].work.sent
  /\ Becomes(r, k, [att[r][k] EXCEPT !.ref = att[r][k].work, !.pc = "commit"])
  /\ UNCHANGED <<recVars, request, execVars, queueVars, due, sweep, world, faults>>

\* The recommendation is written EXECUTED whatever it is by now, with the
\* version read at the start plus one, and logged as coming from APPROVED.
Succeed(r, k) ==
  /\ att[r][k].pc = "commit"
  /\ exec' = [exec EXCEPT ![r] = "SUCCEEDED"]
  /\ ref'  = [ref EXCEPT ![r] = att[r][k].ref]
  /\ Moved(r, "EXECUTED", att[r][k].ver + 1)
  /\ Logged(r, "APPROVED", "EXECUTED")
  /\ Goes(r, k, "ack")
  /\ UNCHANGED <<kind, request, queueVars, due, sweep, world, faults>>

-----------------------------------------------------------------------------
(* The handler after executeAction.                                         *)

Throw(r, k) ==
  /\ att[r][k].pc = "failed"
  /\ att[r][k].again /\ k < MaxAttempts
  /\ Leaves(r, k)
  /\ Rescheduled(r, k)
  /\ UNCHANGED <<recVars, request, execVars, handoff, due, sweep, world, faults>>

GiveUp(r, k) ==
  /\ att[r][k].pc = "failed"
  /\ ~(att[r][k].again /\ k < MaxAttempts)
  /\ Goes(r, k, "mark")
  /\ UNCHANGED <<recVars, request, execVars, queueVars, due, sweep, world, faults>>

\* markRecommendationFailed reads the row ...
MarkRead(r, k) ==
  /\ att[r][k].pc = "mark"
  /\ IF status[r] \in {"APPROVED", "FAILED"}
       THEN Becomes(r, k, [att[r][k] EXCEPT !.pc = "markw", !.ver = version[r]])
       ELSE Goes(r, k, "ack")
  /\ UNCHANGED <<recVars, request, execVars, queueVars, due, sweep, world, faults>>

\* ... and writes it, unguarded and without a recommendation event.
MarkFailed(r, k) ==
  /\ att[r][k].pc = "markw"
  /\ Moved(r, "FAILED", att[r][k].ver + 1)
  /\ Goes(r, k, "ack")
  /\ UNCHANGED <<kind, trail, request, execVars, queueVars, due, sweep, world, faults>>

\* The handler notifies, audits and returns; only then is the job complete.
Return(r, k) ==
  /\ att[r][k].pc = "ack"
  /\ Leaves(r, k)
  /\ job' = IF Current(r, k) THEN [job EXCEPT ![r].st = "done"] ELSE job
  /\ UNCHANGED <<recVars, request, execVars, handoff, due, sweep, world, faults>>

-----------------------------------------------------------------------------
(* The daily sweep: AttributionService.measureStore.                        *)

\* expires_at passes (it may pass at any time, and stays past).
BecomesDue(r) ==
  /\ status[r] # "NONE" /\ r \notin due
  /\ due' = due \cup {r}
  /\ UNCHANGED <<recVars, request, execVars, queueVars, att, sweep, world, faults>>

\* Mutant: the sweep forgets the approved rows nobody executed.
SweepReadPending(r) ==
  /\ ~sweep[r].on
  /\ r \in due
  /\ status[r] = "PENDING"
  /\ sweep' = [sweep EXCEPT ![r] = [on |-> TRUE, from |-> status[r], ver |-> version[r]]]
  /\ UNCHANGED <<recVars, request, execVars, queueVars, att, due, world, faults>>

SweepRead(r) ==
  /\ ~sweep[r].on
  /\ r \in due
  /\ status[r] \in {"PENDING", "APPROVED"}
  /\ sweep' = [sweep EXCEPT ![r] = [on |-> TRUE, from |-> status[r], ver |-> version[r]]]
  /\ UNCHANGED <<recVars, request, execVars, queueVars, att, due, world, faults>>

\* Mutant: the sweep writes whatever the row has become.
SweepWriteBlindly(r) ==
  /\ sweep[r].on
  /\ Moved(r, "EXPIRED", sweep[r].ver + 1)
  /\ Logged(r, sweep[r].from, "EXPIRED")
  /\ sweep' = [sweep EXCEPT ![r] = NoSweep]
  /\ UNCHANGED <<kind, request, execVars, queueVars, att, due, world, faults>>

SweepWrite(r) ==
  /\ sweep[r].on
  /\ IF status[r] \in {"PENDING", "APPROVED"}
       THEN /\ Moved(r, "EXPIRED", sweep[r].ver + 1)
            /\ Logged(r, sweep[r].from, "EXPIRED")
       ELSE UNCHANGED <<status, version, trail>>
  /\ sweep' = [sweep EXCEPT ![r] = NoSweep]
  /\ UNCHANGED <<kind, request, execVars, queueVars, att, due, world, faults>>

\* Two weeks after the decision.  Assumed: no handler call lives that long,
\* so the read and the write of measureOne are one step.
Measure(r) ==
  /\ status[r] = "EXECUTED"
  /\ kind[r] # "ADVISORY"
  /\ exec[r] = "SUCCEEDED"
  /\ job[r].st \notin {"ready", "active"}
  /\ \A k \in Attempts : att[r][k].pc = "gone"
  /\ Moved(r, "MEASURED", version[r] + 1)
  /\ Logged(r, "EXECUTED", "MEASURED")
  /\ UNCHANGED <<kind, request, execVars, queueVars, att, due, sweep, world, faults>>

-----------------------------------------------------------------------------
Merchant(u) == \/ \E r \in Recs, op \in {"approve", "reject"} : Load(u, op, r)
               \/ Approve(u) \/ Reject(u) \/ Conflict(u)

Agent(r) == \E kd \in Kinds : Propose(r, kd) \/ AutoApprove(r, kd)

Queue(r) == Enqueue(r) \/ Deliver(r)

\* The steps a running handler takes by itself.
Step(r, k) ==
  \/ Read(r, k) \/ Deny(r, k) \/ Lock(r, k)
  \/ Resolve(r, k) \/ ResolveFails(r, k)
  \/ \E again \in BOOLEAN : ToolFails(r, k, again)
  \/ PostRule(r, k, FALSE) \/ PostCode(r, k, FALSE)
  \/ CodeTaken(r, k)
  \/ \E x \in Recipients : Mail(r, k, x)
  \/ MailDone(r, k) \/ Succeed(r, k)
  \/ Throw(r, k) \/ GiveUp(r, k) \/ MarkRead(r, k) \/ MarkFailed(r, k)
  \/ Return(r, k)

Fault(r) ==
  \/ HandoffLost(r)
  \/ \E k \in Attempts :
       \/ TimesOut(r, k) \/ WorkerDies(r, k) \/ Aborts(r, k)
       \/ PostRule(r, k, TRUE) \/ PostCode(r, k, TRUE)
       \/ \E x \in Recipients : MailLost(r, k, x)

Sweep(r) == BecomesDue(r) \/ SweepRead(r) \/ SweepWrite(r) \/ Measure(r)

Next == \/ \E u \in Users : Merchant(u)
        \/ \E r \in Recs : \/ Agent(r) \/ Queue(r) \/ Fault(r) \/ Sweep(r)
                           \/ \E k \in Attempts : Step(r, k)

Spec == Init /\ [][Next]_vars

\* A process that is up goes on; the queue delivers; the daily tick recurs.
\* Nothing obliges a merchant to decide, or a fault to happen.
Fairness ==
  \A r \in Recs :
    /\ WF_vars(Enqueue(r)) /\ WF_vars(Deliver(r))
    /\ WF_vars(BecomesDue(r)) /\ WF_vars(SweepRead(r)) /\ WF_vars(SweepWrite(r))
    /\ \A k \in Attempts : WF_vars(Step(r, k))

FairSpec == Spec /\ Fairness

-----------------------------------------------------------------------------
(* Properties.                                                              *)

Requests == {NoRequest} \cup
  [pc : {"loaded"}, op : {"approve", "reject"}, rec : Recs, ver : Nat]

Places == InTransaction \cup {"gone", "start", "lock", "failed", "mark", "markw", "ack"}

\* Every variable keeps its type.
TypeOK ==
  /\ status  \in [Recs -> Statuses]
  /\ version \in [Recs -> Nat]
  /\ kind    \in [Recs -> AllKinds]
  /\ trail   \in [Recs -> Seq(Statuses \X Statuses)]
  /\ request \in [Users -> Requests]
  /\ exec    \in [Recs -> {"NONE", "PENDING", "SUCCEEDED", "FAILED"}]
  /\ ref     \in [Recs -> Refs]
  /\ handoff \subseteq Recs
  /\ job     \in [Recs -> [st : {"none", "ready", "active", "done", "dead", "lost"},
                           n : 0 .. MaxAttempts]]
  /\ \A r \in Recs : job[r].st = "ready" => job[r].n \in Attempts
  /\ att     \in [Recs -> [Attempts -> [pc : Places, ver : Nat, ref : Refs,
                                        work : Refs, again : BOOLEAN]]]
  /\ due     \subseteq Recs
  /\ sweep   \in [Recs -> [on : BOOLEAN, from : Statuses, ver : Nat]]
  /\ rules   \in [Recs -> Nat]
  /\ code    \in [Recs -> BOOLEAN]
  /\ mails   \in [Recs -> [Recipients -> Nat]]
  /\ faults  \in [crash : Nat, timeout : Nat, lost : Nat]

\* The effects r has had on the world, each named once.
Effects == {"rule", "code"} \cup Recipients

Acted(r) == {e \in {"rule"} : rules[r] > 0} \cup {e \in {"code"} : code[r]}
            \cup {x \in Recipients : mails[r][x] > 0}

\* Nothing is ever done for a recommendation nobody approved: while it is
\* undecided or rejected, Shopify and the customers have seen nothing of it,
\* and no execution row, job or handler call exists that could act later --
\* although the approving request, the sweep and the worker all write a row
\* they have read some steps before (recommendations.ts, executor.ts).
Inert(r) == /\ exec[r] = "NONE" /\ r \notin handoff /\ job[r].st = "none"
            /\ \A k \in Attempts : att[r][k].pc = "gone"
            /\ Acted(r) = {}

ActsOnlyOnApproval ==
  \A r \in Recs : status[r] \in {"NONE", "PENDING", "REJECTED"} => Inert(r)

\* A rejection is final: no later write -- of a sweep or of a second merchant
\* who had read the row while it was PENDING -- takes it back.
RejectedIsFinal ==
  [][\A r \in Recs : status[r] = "REJECTED" => status'[r] = "REJECTED"]_vars

\* What is claimed to be done has been done, whatever attempts, rollbacks and
\* skipped checkpoints lay in between: a recommendation reported EXECUTED or
\* MEASURED has its code if it promises one, and every recipient was written to;
\* a checkpoint, of a row or in a handler's hands, names only steps that had
\* their effect, or the next attempt would skip one that had not.
Carried(r) == /\ Discounted(r) => rules[r] > 0 /\ code[r]
              /\ Mailed(r) => \A x \in Recipients : mails[r][x] > 0

Claims(r, c) == /\ c.rule => rules[r] > 0
                /\ c.code => code[r]
                /\ \A x \in c.sent : mails[r][x] > 0

ExecutedIsComplete ==
  \A r \in Recs : /\ status[r] \in {"EXECUTED", "MEASURED"} => Carried(r)
                  /\ exec[r] = "SUCCEEDED" => Carried(r)
                  /\ Claims(r, ref[r])
                  /\ \A k \in Attempts : Claims(r, att[r][k].work)

\* "a job retry after a crash never ... double-sends an email"
\* (execution.handlers.ts): at most one message per customer. It is false of
\* the code, whose checkpoint is rolled back with the crashed transaction.
SentOnce == \A r \in Recs, x \in Recipients : mails[r][x] <= 1

\* An open recommendation does not stay open: executed, failed, rejected or,
\* whatever was lost on the way, expired by the sweep.
Open(r) == status[r] \in {"PENDING", "APPROVED"}
OpenSettles == \A r \in Recs : Open(r) ~> ~Open(r)

\* The abstract promise: HumanApproval, with the decision read off the row
\* and the effects off the world.
Decision == [r \in Recs |->
  CASE status[r] \in {"NONE", "PENDING"} -> "open"
    [] status[r] = "REJECTED" -> "rejected"
    [] status[r] = "EXPIRED" /\ exec[r] = "NONE" -> "lapsed"
    [] OTHER -> "approved"]

Approval == INSTANCE HumanApproval
              WITH decision <- Decision, acted <- [r \in Recs |-> Acted(r)]
ImplementsApproval == Approval!Spec
==============================================================================
