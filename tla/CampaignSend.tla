----------------------------- MODULE CampaignSend -----------------------------
(***************************************************************************)
(* One message campaign: its status, the audience it is materialized into,  *)
(* and the chain of send-batch jobs that walks the audience by a cursor      *)
(* (packages/automation/src/campaign.service.ts, campaign.sender.ts and      *)
(* apps/worker/src/handlers/automation.handlers.ts).                         *)
(*                                                                         *)
(* Recipients are numbered in the order of their ids, the order the cursor   *)
(* follows. Every database call and every call to the provider is an action; *)
(* a worker may die, and the queue may give up on it, between any two.       *)
(***************************************************************************)
EXTENDS Naturals, FiniteSets, FiniteSetsExt

CONSTANTS Audiences,   \* the numbers of customers an audience may resolve to
          BatchSize,   \* CAMPAIGN_SEND_BATCH_SIZE
          Limit,       \* the plan's quota of messages
          Malformed,   \* recipients whose number is not E.164
          Leaving,     \* recipients that may unsubscribe
          Workers,     \* handler executions of the worker pool
          Attempts,    \* JobDefinition.attempts
          Remembers,   \* the queue refuses an id that has ended (BullMQ) or not
          MaxFaults    \* bound: crashes, timeouts and database errors

ASSUME SizeAssumption ==
  /\ Audiences \subseteq Nat /\ IsFiniteSet(Audiences) /\ Audiences # {}
  /\ BatchSize \in Nat \ {0} /\ Limit \in Nat
ASSUME WorkerAssumption == Attempts \in Nat \ {0} /\ Remembers \in BOOLEAN

Size       == CHOOSE n \in Audiences : \A m \in Audiences : m <= n
Recipients == 1 .. Size
Cursors    == 0 .. Size
DispatchJob == [kind |-> "dispatch", after |-> 0]
BatchJob(c) == [kind |-> "batch", after |-> c]
Jobs        == {DispatchJob} \cup {BatchJob(c) : c \in Cursors}

VARIABLES
  status,      \* campaigns.status
  due,         \* its scheduledAt has come
  rec,         \* campaign_recipients.status, NONE before materialization
  tally,       \* campaigns.sentCount, failedCount and skippedCount
  noted,       \* SENT events of each recipient, which the quota counts
  suppressed,  \* destinations in message_suppressions
  mails,       \* messages the provider has accepted, per recipient
  callers,     \* the tick and the route, between their read and their enqueue
  jobs, fails, spent,             \* the queue: waiting, failed attempts, ended
  pc, job, held, todo, last,      \* each worker: where it is, its job, whether
                                  \* the queue awaits it, its batch, its cursor
  faults

queue    == <<jobs, fails, spent>>
worker   == <<pc, job, held, todo, last>>
campaign == <<status, due, tally>>
ledger   == <<rec, noted>>
vars     == <<campaign, ledger, suppressed, mails, callers, queue, worker, faults>>

Nobody == [SENT |-> 0, FAILED |-> 0, SKIPPED |-> 0]

Init ==
  /\ status = "DRAFT" /\ due = FALSE
  /\ rec = [r \in Recipients |-> "NONE"] /\ noted = [r \in Recipients |-> 0]
  /\ tally = Nobody
  /\ suppressed = {}
  /\ mails = [r \in Recipients |-> 0]
  /\ callers = {}
  /\ jobs = {} /\ fails = [j \in Jobs |-> 0] /\ spent = {}
  /\ pc = [w \in Workers |-> "idle"] /\ job = [w \in Workers |-> DispatchJob]
  /\ held = [w \in Workers |-> FALSE] /\ todo = [w \in Workers |-> {}]
  /\ last = [w \in Workers |-> 0]
  /\ faults = 0

-----------------------------------------------------------------------------
(* The queue, as far as its handlers see it.                                *)

InFlight == jobs \cup {job[w] : w \in {v \in Workers : held[v]}}
Refused(j) == j \in InFlight \/ (Remembers /\ j \in spent)

Enqueue(j) ==
  /\ jobs' = IF Refused(j) THEN jobs ELSE jobs \cup {j}
  /\ fails' = IF Refused(j) THEN fails ELSE [fails EXCEPT ![j] = 0]
  /\ UNCHANGED spent

\* Mutant: one attempt too few.
JobFailsEarly(j) ==
  /\ fails' = [fails EXCEPT ![j] = @ + 1]
  /\ IF fails[j] + 2 < Attempts THEN jobs' = jobs \cup {j} /\ UNCHANGED spent
                                ELSE spent' = spent \cup {j} /\ UNCHANGED jobs

JobFails(j) == /\ fails' = [fails EXCEPT ![j] = @ + 1]
               /\ IF fails[j] + 1 < Attempts
                    THEN jobs' = jobs \cup {j} /\ UNCHANGED spent
                    ELSE spent' = spent \cup {j} /\ UNCHANGED jobs

Take(w, j) ==
  /\ pc[w] = "idle"
  /\ j \in jobs
  /\ jobs' = jobs \ {j}
  /\ job'  = [job EXCEPT ![w] = j]
  /\ held' = [held EXCEPT ![w] = TRUE]
  /\ last' = [last EXCEPT ![w] = j.after]
  /\ pc'   = [pc EXCEPT ![w] = IF j.kind = "dispatch" THEN "claim" ELSE "read"]
  /\ UNCHANGED <<campaign, ledger, suppressed, mails, callers, fails, spent, todo, faults>>

Goes(w, to) == pc' = [pc EXCEPT ![w] = to]

\* The handler's variables go with it.
Forgets(w) == /\ job' = [job EXCEPT ![w] = DispatchJob]
              /\ todo' = [todo EXCEPT ![w] = {}]
              /\ last' = [last EXCEPT ![w] = 0]

\* The handler returns; the queue only listens if it still waits.
Returns(w) ==
  /\ Goes(w, "idle")
  /\ held' = [held EXCEPT ![w] = FALSE]
  /\ spent' = IF held[w] THEN spent \cup {job[w]} ELSE spent
  /\ Forgets(w)
  /\ UNCHANGED <<jobs, fails>>

\* executeWithTimeout gives up on the attempt; the handler runs on.
TimesOut(w) ==
  /\ held[w]
  /\ faults < MaxFaults
  /\ faults' = faults + 1
  /\ held' = [held EXCEPT ![w] = FALSE]
  /\ JobFails(job[w])
  /\ UNCHANGED <<campaign, ledger, suppressed, mails, callers, pc, job, todo, last>>

\* The worker dies, or a database call throws: recordSend's error is not caught
\* in deliverOne, which returns the promise without awaiting it.
Dies(w) ==
  /\ pc[w] # "idle"
  /\ faults < MaxFaults
  /\ faults' = faults + 1
  /\ Goes(w, "idle")
  /\ held' = [held EXCEPT ![w] = FALSE]
  /\ Forgets(w)
  /\ IF held[w] THEN JobFails(job[w]) ELSE UNCHANGED queue
  /\ UNCHANGED <<campaign, ledger, suppressed, mails, callers>>

-----------------------------------------------------------------------------
(* The merchant, the tick, and the world.                                   *)

\* scheduleCampaign: for now, after which the route enqueues the dispatch
\* itself, or for later.
Schedule(now) ==
  /\ status = "DRAFT"
  /\ status' = "SCHEDULED" /\ due' = now
  /\ callers' = IF now THEN callers \cup {"route"} ELSE callers
  /\ UNCHANGED <<tally, ledger, suppressed, mails, queue, worker, faults>>

Cancel ==
  /\ status \in {"DRAFT", "SCHEDULED"}
  /\ status' = "CANCELLED"
  /\ UNCHANGED <<due, tally, ledger, suppressed, mails, callers, queue, worker, faults>>

Clock ==
  /\ status = "SCHEDULED" /\ ~due
  /\ due' = TRUE
  /\ UNCHANGED <<status, tally, ledger, suppressed, mails, callers, queue, worker, faults>>

\* findDispatchDue.
TickScan ==
  /\ status = "SCHEDULED" /\ due
  /\ "tick" \notin callers
  /\ callers' = callers \cup {"tick"}
  /\ UNCHANGED <<campaign, ledger, suppressed, mails, queue, worker, faults>>

\* The tick, or the route, enqueues the dispatch it found due a moment ago.
CallDispatch(a) ==
  /\ a \in callers
  /\ callers' = callers \ {a}
  /\ Enqueue(DispatchJob)
  /\ UNCHANGED <<campaign, ledger, suppressed, mails, worker, faults>>

CallerDies(a) ==
  /\ a \in callers
  /\ faults < MaxFaults
  /\ faults' = faults + 1
  /\ callers' = callers \ {a}
  /\ UNCHANGED <<campaign, ledger, suppressed, mails, queue, worker>>

\* A destination enters message_suppressions.
Suppress(r) ==
  /\ r \in Leaving \ suppressed
  /\ suppressed' = suppressed \cup {r}
  /\ UNCHANGED <<campaign, ledger, mails, callers, queue, worker, faults>>

-----------------------------------------------------------------------------
(* campaignDispatchHandler.                                                 *)

\* dispatch: the claim of SCHEDULED, and nothing if it is lost.
Claim(w) ==
  /\ pc[w] = "claim"
  /\ IF status = "SCHEDULED"
       THEN /\ status' = "SENDING" /\ Goes(w, "materialize")
            /\ UNCHANGED <<queue, held, job, todo, last>>
       ELSE Returns(w) /\ UNCHANGED status
  /\ UNCHANGED <<due, tally, ledger, suppressed, mails, callers, faults>>

\* materializeAudience: one transaction; customers come and go before it.
Materialize(w) ==
  /\ pc[w] = "materialize"
  /\ \E n \in Audiences :
       /\ rec' = [r \in Recipients |-> IF r <= n /\ rec[r] = "NONE" THEN "PENDING" ELSE rec[r]]
       /\ Goes(w, IF n = 0 THEN "failEmpty" ELSE "kick")
  /\ UNCHANGED <<campaign, noted, suppressed, mails, callers, queue, job, held, todo, last, faults>>

FailEmpty(w) ==
  /\ pc[w] = "failEmpty"
  /\ status' = "FAILED"
  /\ Returns(w)
  /\ UNCHANGED <<due, tally, ledger, suppressed, mails, callers, faults>>

\* The first link of the chain.
Kick(w) ==
  /\ pc[w] = "kick"
  /\ Enqueue(BatchJob(0))
  /\ Goes(w, "leave")
  /\ UNCHANGED <<campaign, ledger, suppressed, mails, callers, job, held, todo, last, faults>>

-----------------------------------------------------------------------------
(* campaignSendBatchHandler and CampaignSender.sendBatch.                   *)

\* A campaign that is not SENDING counts as exhausted.
ReadCampaign(w) ==
  /\ pc[w] = "read"
  /\ Goes(w, IF status = "SENDING" THEN "quota" ELSE "complete")
  /\ UNCHANGED <<campaign, ledger, suppressed, mails, callers, queue, job, held, todo, last, faults>>

Used == MapThenSumSet(LAMBDA r : noted[r], Recipients)

\* checkEntitlement: room for a whole batch, however few are left. A
\* subscription that has ended denies like an exhausted quota.
CheckQuota(w) ==
  /\ pc[w] = "quota"
  /\ \/ Used + BatchSize <= Limit /\ Goes(w, "select")
     \/ Goes(w, "fail")
  /\ UNCHANGED <<campaign, ledger, suppressed, mails, callers, queue, job, held, todo, last, faults>>

\* The first BatchSize of S.
FirstOf(S) == {r \in S : Cardinality({q \in S : q < r}) < BatchSize}

\* The next PENDING recipients after the cursor; none means exhausted.
Select(w) ==
  /\ pc[w] = "select"
  /\ LET batch == FirstOf({r \in Recipients : rec[r] = "PENDING" /\ r > job[w].after})
     IN /\ todo' = [todo EXCEPT ![w] = batch]
        /\ Goes(w, IF batch = {} THEN "complete" ELSE "gate")
  /\ UNCHANGED <<campaign, ledger, suppressed, mails, callers, queue, job, held, last, faults>>

\* The recipient deliverOne is at.
cur(w) == CHOOSE r \in todo[w] : \A q \in todo[w] : r <= q

\* Mutant: the list of suppressions is not read.
GateOpen(w) ==
  /\ pc[w] = "gate"
  /\ Goes(w, IF cur(w) \in Malformed THEN "SKIPPED" ELSE "send")
  /\ UNCHANGED <<campaign, ledger, suppressed, mails, callers, queue, job, held, todo, last, faults>>

\* isSuppressed, read for each recipient.
Gate(w) ==
  /\ pc[w] = "gate"
  /\ Goes(w, IF cur(w) \in Malformed \cup suppressed THEN "SKIPPED" ELSE "send")
  /\ UNCHANGED <<campaign, ledger, suppressed, mails, callers, queue, job, held, todo, last, faults>>

\* The provider accepts the message, or throws, or there is none.
Send(w) ==
  /\ pc[w] = "send"
  /\ \/ mails' = [mails EXCEPT ![cur(w)] = @ + 1] /\ Goes(w, "SENT")
     \/ Goes(w, "FAILED") /\ UNCHANGED mails
  /\ UNCHANGED <<campaign, ledger, suppressed, callers, queue, job, held, todo, last, faults>>

\* recordSend, recordFailure and recordSkip: by id, whatever the row says.
Record(w) ==
  /\ pc[w] \in {"SENT", "FAILED", "SKIPPED"}
  /\ rec' = [rec EXCEPT ![cur(w)] = pc[w]]
  /\ noted' = IF pc[w] = "SENT" THEN [noted EXCEPT ![cur(w)] = @ + 1] ELSE noted
  /\ todo' = [todo EXCEPT ![w] = @ \ {cur(w)}]
  /\ last' = [last EXCEPT ![w] = cur(w)]
  /\ Goes(w, IF todo[w] = {cur(w)} THEN "count" ELSE "gate")
  /\ UNCHANGED <<campaign, suppressed, mails, callers, queue, job, held, faults>>

CountOf(s) == Cardinality({r \in Recipients : rec[r] = s})

\* "Convergent counters: re-derived from the ledger, never incremented blind."
Count(w) ==
  /\ pc[w] = "count"
  /\ tally' = [s \in DOMAIN Nobody |-> CountOf(s)]
  /\ Goes(w, "remaining")
  /\ UNCHANGED <<status, due, ledger, suppressed, mails, callers, queue, job, held, todo,
                 last, faults>>

Remaining(w) ==
  /\ pc[w] = "remaining"
  /\ Goes(w, IF CountOf("PENDING") = 0 THEN "complete" ELSE "chain")
  /\ UNCHANGED <<campaign, ledger, suppressed, mails, callers, queue, job, held, todo, last, faults>>

\* completeCampaign: SENDING becomes SENT.
Complete(w) ==
  /\ pc[w] = "complete"
  /\ status' = IF status = "SENDING" THEN "SENT" ELSE status
  /\ Returns(w)
  /\ UNCHANGED <<due, tally, ledger, suppressed, mails, callers, faults>>

\* failCampaign: by id, whatever the status is.
Fail(w) ==
  /\ pc[w] = "fail"
  /\ status' = "FAILED"
  /\ Returns(w)
  /\ UNCHANGED <<due, tally, ledger, suppressed, mails, callers, faults>>

\* Mutant: the cursor of the next link is one too far.
ChainSkips(w) ==
  /\ pc[w] = "chain"
  /\ Enqueue(BatchJob(IF last[w] < Size THEN last[w] + 1 ELSE Size))
  /\ Goes(w, "leave")
  /\ UNCHANGED <<campaign, ledger, suppressed, mails, callers, job, held, todo, last, faults>>

\* The next link, named after the cursor.
Chain(w) ==
  /\ pc[w] = "chain"
  /\ Enqueue(BatchJob(last[w]))
  /\ Goes(w, "leave")
  /\ UNCHANGED <<campaign, ledger, suppressed, mails, callers, job, held, todo, last, faults>>

Leave(w) ==
  /\ pc[w] = "leave"
  /\ Returns(w)
  /\ UNCHANGED <<campaign, ledger, suppressed, mails, callers, faults>>

-----------------------------------------------------------------------------
Works(w) == \/ Claim(w) \/ Materialize(w) \/ FailEmpty(w) \/ Kick(w)
            \/ ReadCampaign(w) \/ CheckQuota(w) \/ Select(w) \/ Gate(w) \/ Send(w)
            \/ Record(w) \/ Count(w) \/ Remaining(w) \/ Complete(w) \/ Fail(w)
            \/ Chain(w) \/ Leave(w)

Next ==
  \/ \E now \in BOOLEAN : Schedule(now)
  \/ Cancel \/ Clock \/ TickScan
  \/ \E a \in {"tick", "route"} : CallDispatch(a) \/ CallerDies(a)
  \/ \E r \in Recipients : Suppress(r)
  \/ \E w \in Workers : Works(w) \/ TimesOut(w) \/ Dies(w)
  \/ \E w \in Workers, j \in Jobs : Take(w, j)

Spec == Init /\ [][Next]_vars

\* The heartbeat goes on, the scheduled time comes, a handler that runs goes on,
\* and an idle worker takes a waiting job.
Fairness ==
  /\ WF_vars(Clock) /\ WF_vars(TickScan)
  /\ \A a \in {"tick", "route"} : WF_vars(CallDispatch(a))
  /\ \A w \in Workers : WF_vars(Works(w)) /\ WF_vars(\E j \in Jobs : Take(w, j))

FairSpec == Spec /\ Fairness

-----------------------------------------------------------------------------
(* Properties.                                                              *)

Verdicts == {"SENT", "FAILED", "SKIPPED"}

\* Every variable keeps its type.
TypeOK ==
  /\ status \in {"DRAFT", "SCHEDULED", "SENDING", "SENT", "FAILED", "CANCELLED"}
  /\ due \in BOOLEAN
  /\ rec \in [Recipients -> {"NONE", "PENDING"} \cup Verdicts]
  /\ tally \in [Verdicts -> 0 .. Size]
  /\ noted \in [Recipients -> Nat] /\ mails \in [Recipients -> Nat]
  /\ suppressed \subseteq Recipients
  /\ callers \subseteq {"tick", "route"}
  /\ jobs \subseteq Jobs /\ spent \subseteq Jobs /\ fails \in [Jobs -> Nat]
  /\ pc \in [Workers -> {"idle", "claim", "materialize", "failEmpty", "kick", "read", "quota",
                         "select", "gate", "send", "count", "remaining", "complete", "fail",
                         "chain", "leave"} \cup Verdicts]
  /\ job \in [Workers -> Jobs] /\ held \in [Workers -> BOOLEAN]
  /\ todo \in [Workers -> SUBSET Recipients] /\ last \in [Workers -> Cursors]
  /\ faults \in Nat

\* A campaign that reads SENT has served everybody, although an empty batch is
\* taken for the end of the audience without a look below the cursor, retries
\* walk the same cursor again, and two chains may run after a fault.
NobodyLeftOut == status = "SENT" => \A r \in Recipients : rec[r] # "PENDING"

\* A recipient is written to once, and once more at most for every crash or
\* timeout the campaign met, however the chains it left behind overlap.
DuplicatesCostFaults == \A r \in Recipients : mails[r] <= 1 + faults

\* The chain of batches serves everybody, and nobody twice without a fault.
SentIsComplete == NobodyLeftOut /\ DuplicatesCostFaults

\* "resolved at SEND time": once a destination is suppressed, no worker comes
\* to send to it; only one already past the check may.
PastGate(r) == {w \in Workers : pc[w] = "send" /\ cur(w) = r}
SuppressionHolds == [][\A r \in suppressed : PastGate(r)' \subseteq PastGate(r)]_vars

\* A campaign that is due is dispatched or cancelled, and one whose chain has
\* begun ends, whatever retries it takes.
Ends == /\ (status = "SCHEDULED" /\ due) ~> (status # "SCHEDULED")
        /\ (\E c \in Cursors : BatchJob(c) \in InFlight) ~> (status # "SENDING")

=============================================================================
