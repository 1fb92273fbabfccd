---------------------------- MODULE DecisionRun ----------------------------
(***************************************************************************)
(* The analysis runs of one store: the agents are asked in their order, what   *)
(* they draft is written in one transaction, and what the merchant's policy      *)
(* approves by itself is enqueued afterwards (packages/ai/src/service/decision.ts, *)
(* scoring.ts, apps/worker/src/handlers/ai.handlers.ts).                            *)
(*                                                                         *)
(* A fingerprint stands for the rule that fires and its subject.  Scheduled and   *)
(* manual runs, the retry of one that threw and one that goes on after its         *)
(* timeout are so many calls of the handler, which may overlap.  What becomes of   *)
(* a recommendation that is enqueued is ActionExecution's.                          *)
(***************************************************************************)
EXTENDS Naturals, Sequences

CONSTANTS Prints, AgentOf,  \* fingerprints; the position of each one's agent in AGENT_RUN_ORDER
          Advisory,         \* the fingerprints whose actionType is ADVISORY
          Callers,          \* calls of aiRunHandler that may be going on
          MaxCalls,         \* maxAgentCallsPerRun
          MaxRows, MaxRuns, MaxDeaths  \* bounds: recommendations, runs, calls that throw or die

VARIABLES
  rows,      \* recommendations, in the order of their commits
  run,       \* each call
  raced,     \* ghost: fingerprints rejected between a lookup and its insert
  stranded,  \* ghost: recommendations whose call died before it had enqueued them
  runs, deaths

decisionVars == <<rows, run, raced, stranded, runs, deaths>>

\* fired: firings the agents have yet to be asked about; spent: calls that succeeded;
\* drafts: scored drafts yet to be written; written: rows of the open transaction;
\* queue: executionsToEnqueue.
Resting == [at |-> "idle", policy |-> "MANUAL", fired |-> {}, spent |-> 0, aborted |-> FALSE,
            drafts |-> {}, item |-> "none", written |-> <<>>, queue |-> {}]

Init ==
  /\ rows = <<>> /\ run = [c \in Callers |-> Resting]
  /\ raced = {} /\ stranded = {} /\ runs = 0 /\ deaths = 0

Open == {"PENDING_APPROVAL", "APPROVED"}

\* The firings of the first agent that has one among these.
FirstOf(prints) == {p \in prints : \A q \in prints : AgentOf[p] <= AgentOf[q]}

Kept == UNCHANGED <<raced, stranded, runs, deaths>>

-----------------------------------------------------------------------------
(* The analysis.                                                            *)

\* buildBusinessContext, with the policy of this moment, and evaluateRules.
Start(c, policy, fired) ==
  /\ run[c].at = "idle" /\ runs < MaxRuns /\ runs' = runs + 1
  /\ run' = [run EXCEPT ![c] = [Resting EXCEPT !.at = "ask", !.policy = policy, !.fired = fired]]
  /\ UNCHANGED <<rows, raced, stranded, deaths>>

\* The next agent with a firing; a call that fails leaves the budget alone.
CanAsk(c) == ~run[c].aborted /\ run[c].spent < MaxCalls /\ run[c].fired # {}

\* scoreDrafts: a draft for each of some of its firings, in an order of the model's.
Drafts(c, some) ==
  /\ run[c].at = "ask" /\ CanAsk(c) /\ some \subseteq FirstOf(run[c].fired)
  /\ run' = [run EXCEPT ![c].spent = @ + 1, ![c].drafts = @ \cup some,
                        ![c].fired = @ \ FirstOf(@)]
  /\ UNCHANGED rows /\ Kept

\* UNAVAILABLE and RATE_LIMITED end the fan-out, but not the run.
AgentFails(c, kind) ==
  /\ run[c].at = "ask" /\ CanAsk(c)
  /\ run' = [run EXCEPT ![c].aborted = (kind \in {"UNAVAILABLE", "RATE_LIMITED"}),
                        ![c].fired = @ \ FirstOf(@)]
  /\ UNCHANGED rows /\ Kept

Begin(c) ==
  /\ run[c].at = "ask" /\ ~CanAsk(c)
  /\ run' = [run EXCEPT ![c].at = "lookup", ![c].fired = {}]
  /\ UNCHANGED rows /\ Kept

-----------------------------------------------------------------------------
(* persistAndMaybeAutoApprove: one transaction, at the isolation level READ        *)
(* COMMITTED.                                                                *)

\* Mutant: a rejection is forgotten at once.
OpenOnly(r) == r.status \in Open

\* An open recommendation, or one rejected within the last 30 days.
Blocks(r) == r.status \in Open \cup {"REJECTED"}

\* The next draft is a duplicate, or is to be inserted.
Lookup(c, p) ==
  /\ run[c].at = "lookup" /\ p \in FirstOf(run[c].drafts)
  /\ run' = IF \E i \in DOMAIN rows : rows[i].of = p /\ Blocks(rows[i])
              THEN [run EXCEPT ![c].drafts = @ \ {p}]
              ELSE [run EXCEPT ![c].at = "insert", ![c].item = p]
  /\ UNCHANGED rows /\ Kept

\* The unique index makes the insert wait for a transaction that has inserted the same.
WaitsFor(c, d) ==
  /\ c # d /\ run[c].at = "insert" /\ run[d].at \in {"lookup", "insert"}
  /\ \E i \in DOMAIN run[d].written : run[d].written[i].of = run[c].item

\* decideAutoApproval; able: the draft keeps within the merchant's caps.
StatusFor(policy, p, able) ==
  IF policy = "MANUAL" \/ (policy = "SEMI_AUTOMATIC" /\ p \notin Advisory)
     \/ (policy = "FULLY_AUTOMATIC" /\ ~able)
    THEN "PENDING_APPROVAL"
    ELSE IF p \in Advisory THEN "EXECUTED" ELSE "APPROVED"

Insert(c, able) ==
  LET p == run[c].item IN
  /\ run[c].at = "insert" /\ \A d \in Callers : ~WaitsFor(c, d)
  /\ \A i \in DOMAIN rows : ~(rows[i].of = p /\ rows[i].status \in Open)
  /\ run' = [run EXCEPT ![c].at = "lookup", ![c].item = "none", ![c].drafts = @ \ {p},
                        ![c].written = Append(@, [of |-> p, job |-> FALSE,
                                       status |-> StatusFor(run[c].policy, p, able)])]
  /\ UNCHANGED rows /\ Kept

\* The transaction is rolled back and the handler throws: somebody has committed the
\* same meanwhile, or waits for this one while this one waits for him.
Conflict(c) ==
  /\ run[c].at = "insert"
  /\ \/ \E i \in DOMAIN rows : rows[i].of = run[c].item /\ rows[i].status \in Open
     \/ \E circle \in SUBSET Callers :
          c \in circle /\ \A d \in circle : \E e \in circle : WaitsFor(d, e)
  /\ run' = [run EXCEPT ![c] = Resting]
  /\ UNCHANGED rows /\ Kept

Commit(c) ==
  LET new == run[c].written
      all == rows \o new
  IN /\ run[c].at = "lookup" /\ run[c].drafts = {} /\ Len(all) <= MaxRows
     /\ rows' = all
     /\ run' = [run EXCEPT ![c].at = "enqueue", ![c].written = <<>>,
                           ![c].queue = {i \in Len(rows) + 1 .. Len(all) : all[i].status = "APPROVED"}]
     /\ Kept

-----------------------------------------------------------------------------
(* Afterwards: the run's row, the call logs and the notice; then enqueueExecutions. *)

Enqueue(c, i) ==
  /\ run[c].at = "enqueue" /\ i \in run[c].queue
  /\ rows' = [rows EXCEPT ![i].job = TRUE]
  /\ run' = [run EXCEPT ![c].queue = @ \ {i}]
  /\ Kept

Finish(c) ==
  /\ run[c].at = "enqueue" /\ run[c].queue = {}
  /\ run' = [run EXCEPT ![c] = Resting]
  /\ UNCHANGED rows /\ Kept

\* A statement throws or the process dies: before the commit nothing has happened,
\* after it the retry finds duplicates, and nothing to enqueue.
Dies(c) ==
  /\ run[c].at # "idle" /\ deaths < MaxDeaths /\ deaths' = deaths + 1
  /\ stranded' = stranded \cup run[c].queue
  /\ run' = [run EXCEPT ![c] = Resting]
  /\ UNCHANGED <<rows, raced, runs>>

-----------------------------------------------------------------------------
(* Meanwhile.                                                               *)

Becomes(i, from, to) ==
  /\ rows[i].status \in from
  /\ rows' = [rows EXCEPT ![i].status = to]
  /\ UNCHANGED <<run, stranded, runs, deaths>>

\* The merchant decides; what he approves is enqueued in the same request.
Approve(i) ==
  /\ rows[i].status = "PENDING_APPROVAL"
  /\ rows' = [rows EXCEPT ![i].status = IF rows[i].of \in Advisory THEN "EXECUTED" ELSE "APPROVED",
                          ![i].job = (rows[i].of \notin Advisory)]
  /\ UNCHANGED <<run, raced, stranded, runs, deaths>>

Reject(i) ==
  /\ Becomes(i, {"PENDING_APPROVAL"}, "REJECTED")
  /\ raced' = raced \cup {p \in {rows[i].of} : \E c \in Callers : run[c].item = p}

\* measureStore's sweep.
Expire(i) == Becomes(i, Open, "EXPIRED") /\ UNCHANGED raced

\* The executor: EXECUTED or FAILED, either is closed.
Execute(i) == rows[i].job /\ Becomes(i, {"APPROVED"}, "EXECUTED") /\ UNCHANGED raced

\* The 30 days are over.
Forget(i) == Becomes(i, {"REJECTED"}, "FORGOTTEN") /\ UNCHANGED raced

Policies == {"MANUAL", "SEMI_AUTOMATIC", "FULLY_AUTOMATIC"}

DecisionNext ==
  \/ \E c \in Callers :
       \/ \E policy \in Policies, fired \in SUBSET Prints : Start(c, policy, fired)
       \/ \E some \in SUBSET Prints : Drafts(c, some)
       \/ \E kind \in {"UNAVAILABLE", "RATE_LIMITED", "TIMEOUT", "INVALID_OUTPUT"} : AgentFails(c, kind)
       \/ Begin(c) \/ \E p \in Prints : Lookup(c, p)
       \/ \E able \in BOOLEAN : Insert(c, able)
       \/ Conflict(c) \/ Commit(c) \/ Finish(c) \/ Dies(c)
       \/ \E i \in DOMAIN rows : Enqueue(c, i)
  \/ \E i \in DOMAIN rows : Approve(i) \/ Reject(i) \/ Expire(i) \/ Execute(i) \/ Forget(i)

DecisionSpec == Init /\ [][DecisionNext]_decisionVars

-----------------------------------------------------------------------------
(* Properties.                                                              *)

\* However the runs overlap, an insight is open once, and it does not come back while
\* the merchant's rejection of it is remembered, unless he rejected it between a run's
\* lookup and its insert; and what the autopilot has approved is enqueued, or about to
\* be, unless its call died in between.
AdvisedOnce ==
  /\ \A i, j \in DOMAIN rows :
       i # j /\ rows[i].of = rows[j].of /\ rows[i].status \in Open =>
         /\ rows[j].status \notin Open
         /\ rows[j].status = "REJECTED" => rows[i].of \in raced
  /\ \A i \in DOMAIN rows : rows[i].status = "APPROVED" /\ ~rows[i].job =>
       i \in stranded \/ \E c \in Callers : i \in run[c].queue

=============================================================================
