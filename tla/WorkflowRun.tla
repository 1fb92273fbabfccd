----------------------------- MODULE WorkflowRun -----------------------------
(***************************************************************************)
(* One workflow of the automation center: the scheduler heartbeat that     *)
(* fires it, the jobs that carry a firing, and the executor that walks its *)
(* graph (packages/automation/src/workflow.executor.ts, workflow.service.ts *)
(* and apps/worker/src/handlers/automation.handlers.ts).                   *)
(*                                                                         *)
(* Every database call is a transaction of its own, so every call is an    *)
(* action; the worker may die, and the queue may give up on it, between    *)
(* any two of them.                                                        *)
(***************************************************************************)
EXTENDS Naturals, Sequences, FiniteSets

CONSTANTS Nodes, Root,  \* the graph and its TRIGGER node
          Kind,         \* "TRIGGER", "CONDITION", "DELAY" or "ACTION" per node
          After,        \* successors of a node that is not a condition, in order
          Branch,       \* the YES (TRUE) and the NO (FALSE) edge of a condition
          Manual,       \* trigger events of merchants ("run now")
          Yes,          \* events whose subject meets the conditions
          Workers,      \* handler executions of the worker pool
          Ticks,        \* overlapping runs of automation.tick
          Attempts,     \* JobDefinition.attempts
          Remembers,    \* the queue refuses an id that has ended (BullMQ) or not
          MaxTime,      \* bound: instants of the schedule
          MaxFaults,    \* bound: crashes, timeouts and database errors
          MaxChanges    \* bound: activations, pauses and flag changes

Instants == 1 .. MaxTime
Events   == Instants \cup Manual
Jobs     == [kind : {"start"}, event : Events, node : {Root}]
              \cup [kind : {"resume"}, event : Events, node : Nodes]

ASSUME GraphAssumption ==
  /\ Root \in Nodes
  /\ Kind \in [Nodes -> {"TRIGGER", "CONDITION", "DELAY", "ACTION"}]
  /\ After \in [Nodes -> Seq(Nodes)]
  /\ Branch \in [Nodes -> [BOOLEAN -> Nodes]]
  /\ \A n \in Nodes : Kind[n] = "TRIGGER" <=> n = Root
  /\ \A n \in Nodes \ {Root} : Len(After[n]) <= 1  \* dag.ts: only the trigger fans out
ASSUME WorkerAssumption == Attempts \in Nat \ {0} /\ MaxTime \in Nat /\ Remembers \in BOOLEAN

VARIABLES
  now,       \* the clock, in instants of the schedule
  workflow,  \* workflows.status
  nextFire,  \* workflows.nextFireAt, 0 for null
  disabled,  \* the store's automationDisabled flag
  beat,      \* where each run of the tick is
  fire,      \* the instant it found due, 0 for none
  seen,      \* the time it started at
  found,     \* the resume jobs it has yet to enqueue
  jobs,      \* jobs that wait in the queue
  fails,     \* failed attempts of each job
  spent,     \* jobs that have ended
  asked,     \* manual events so far
  pc,        \* where each worker is
  job,       \* the job it executes
  held,      \* the queue still waits for its outcome
  todo,      \* walkFrom's queue of nodes
  node,      \* the node it is at
  run,       \* workflow_runs.status of each event's run
  at,        \* its resumeFromNodeId
  ready,     \* its resumeAt has come
  step,      \* workflow_run_steps.status of each node
  done,      \* side effects performed by each node
  dropped,   \* the nodes its walks forgot at a delay
  faults, changes

queue  == <<jobs, fails, spent>>
tick   == <<beat, fire, seen, found>>
worker == <<pc, job, held, todo, node>>
rows   == <<run, at, ready, step, dropped>>
plan   == <<workflow, nextFire, disabled>>
vars   == <<now, plan, tick, queue, asked, worker, rows, done, faults, changes>>

NoJob == [kind |-> "start", event |-> 0, node |-> Root]

Init ==
  /\ now = 0 /\ workflow = "DRAFT" /\ nextFire = 0 /\ disabled = FALSE
  /\ beat = [t \in Ticks |-> "idle"] /\ fire = [t \in Ticks |-> 0]
  /\ seen = [t \in Ticks |-> 0] /\ found = [t \in Ticks |-> {}]
  /\ jobs = {} /\ fails = [j \in Jobs |-> 0] /\ spent = {} /\ asked = {}
  /\ pc = [w \in Workers |-> "idle"] /\ job = [w \in Workers |-> NoJob]
  /\ held = [w \in Workers |-> FALSE] /\ todo = [w \in Workers |-> <<>>]
  /\ node = [w \in Workers |-> Root]
  /\ run = [e \in Events |-> "NONE"] /\ at = [e \in Events |-> Root]
  /\ ready = [e \in Events |-> FALSE]
  /\ step = [e \in Events |-> [n \in Nodes |-> "NONE"]]
  /\ dropped = [e \in Events |-> {}]
  /\ done = [e \in Events |-> [n \in Nodes |-> 0]]
  /\ faults = 0 /\ changes = 0

-----------------------------------------------------------------------------
(* The merchant, the operator and the clock. The routes of the automation   *)
(* center refuse a store whose flag is set.                                 *)

\* computeNextFire: the next instant after t, if the bound leaves one.
NextFire(t) == IF t + 1 \in Instants THEN t + 1 ELSE 0

Activate ==
  /\ changes < MaxChanges
  /\ ~disabled
  /\ workflow' = "ACTIVE" /\ nextFire' = NextFire(now)
  /\ changes' = changes + 1
  /\ UNCHANGED <<now, disabled, tick, queue, asked, worker, rows, done, faults>>

\* transition, for pause and archive: the scheduler is disarmed and waiting
\* runs are cancelled.
Stop(status) ==
  /\ changes < MaxChanges
  /\ ~disabled
  /\ workflow' = status /\ nextFire' = 0
  /\ run' = [e \in Events |-> IF run[e] = "WAITING" THEN "CANCELLED" ELSE run[e]]
  /\ changes' = changes + 1
  /\ UNCHANGED <<now, disabled, tick, queue, asked, worker, at, ready, step, dropped, done, faults>>

SetFlag ==
  /\ changes < MaxChanges
  /\ disabled' = ~disabled
  /\ changes' = changes + 1
  /\ UNCHANGED <<now, workflow, nextFire, tick, queue, asked, worker, rows, done, faults>>

Clock == /\ now < MaxTime
         /\ now' = now + 1
         /\ UNCHANGED <<plan, tick, queue, asked, worker, rows, done, faults, changes>>

\* The delay of a waiting run elapses.
Elapses(e) ==
  /\ run[e] = "WAITING"
  /\ ~ready[e]
  /\ ready' = [ready EXCEPT ![e] = TRUE]
  /\ UNCHANGED <<now, plan, tick, queue, asked, worker, run, at, step, dropped, done, faults, changes>>

-----------------------------------------------------------------------------
(* The queue, as far as its handlers see it.                                *)

StartJob(e)     == [kind |-> "start", event |-> e, node |-> Root]
ResumeJob(e, n) == [kind |-> "resume", event |-> e, node |-> n]

InFlight == jobs \cup {job[w] : w \in {v \in Workers : held[v]}}

Enqueue(j) ==
  /\ jobs' = IF j \in InFlight \/ (Remembers /\ j \in spent) THEN jobs ELSE jobs \cup {j}
  /\ fails' = IF j \in InFlight \/ (Remembers /\ j \in spent) THEN fails
              ELSE [fails EXCEPT ![j] = 0]
  /\ UNCHANGED spent

\* An attempt of j is over: the job ends, or the queue will try it again.
JobEnds(j)  == spent' = spent \cup {j} /\ UNCHANGED <<jobs, fails>>

JobFails(j) == /\ fails' = [fails EXCEPT ![j] = @ + 1]
               /\ IF fails[j] + 1 < Attempts
                    THEN jobs' = jobs \cup {j} /\ UNCHANGED spent
                    ELSE spent' = spent \cup {j} /\ UNCHANGED jobs

\* POST /:id/run: an event of its own for every request.
RunNow(m) ==
  /\ ~disabled
  /\ m \in Manual \ asked
  /\ asked' = asked \cup {m}
  /\ Enqueue(StartJob(m))
  /\ UNCHANGED <<now, plan, tick, worker, rows, done, faults, changes>>

-----------------------------------------------------------------------------
(* automationTickHandler.                                                   *)

\* findScheduleDue.
TickScan(t) ==
  /\ beat[t] = "idle"
  /\ LET due == workflow = "ACTIVE" /\ nextFire # 0 /\ nextFire <= now
     IN /\ beat' = [beat EXCEPT ![t] = IF due THEN "advance" ELSE "find"]
        /\ fire' = [fire EXCEPT ![t] = IF due THEN nextFire ELSE 0]
  /\ seen' = [seen EXCEPT ![t] = now]
  /\ UNCHANGED <<now, plan, found, queue, asked, worker, rows, done, faults, changes>>

\* advanceSchedule: a compare-and-swap on the instant the scan observed.
TickAdvance(t) ==
  /\ beat[t] = "advance"
  /\ nextFire' = IF nextFire = fire[t] THEN NextFire(seen[t]) ELSE nextFire
  /\ beat' = [beat EXCEPT ![t] = "enqueue"]
  /\ UNCHANGED <<now, workflow, disabled, fire, seen, found, queue, asked, worker, rows, done,
                 faults, changes>>

\* The firing is enqueued whether the swap was won or not.
TickEnqueue(t) ==
  /\ beat[t] = "enqueue"
  /\ Enqueue(StartJob(fire[t]))
  /\ beat' = [beat EXCEPT ![t] = "find"]
  /\ UNCHANGED <<now, plan, fire, seen, found, asked, worker, rows, done, faults, changes>>

\* Mutant: only runs of an active workflow are resumed.
TickFindActive(t) ==
  /\ beat[t] = "find"
  /\ beat' = [beat EXCEPT ![t] = "resumes"]
  /\ found' = [found EXCEPT ![t] = {ResumeJob(e, at[e]) : e \in {f \in Events :
                                run[f] = "WAITING" /\ ready[f] /\ workflow = "ACTIVE"}}]
  /\ UNCHANGED <<now, plan, fire, seen, queue, asked, worker, rows, done, faults, changes>>

\* findResumeDue: the runs whose delay has elapsed.
TickFind(t) ==
  /\ beat[t] = "find"
  /\ beat' = [beat EXCEPT ![t] = "resumes"]
  /\ found' = [found EXCEPT ![t] = {ResumeJob(e, at[e]) : e \in {f \in Events :
                                                          run[f] = "WAITING" /\ ready[f]}}]
  /\ UNCHANGED <<now, plan, fire, seen, queue, asked, worker, rows, done, faults, changes>>

\* One resume job per run found, named after the run and the delay.
TickResume(t) ==
  /\ beat[t] = "resumes"
  /\ \E j \in found[t] : Enqueue(j) /\ found' = [found EXCEPT ![t] = @ \ {j}]
  /\ UNCHANGED <<now, plan, beat, fire, seen, asked, worker, rows, done, faults, changes>>

TickEnds(t) ==
  /\ beat[t] = "resumes"
  /\ found[t] = {}
  /\ beat' = [beat EXCEPT ![t] = "idle"]
  /\ UNCHANGED <<now, plan, fire, seen, found, queue, asked, worker, rows, done, faults, changes>>

TickDies(t) ==
  /\ beat[t] # "idle"
  /\ faults < MaxFaults
  /\ faults' = faults + 1
  /\ beat' = [beat EXCEPT ![t] = "idle"] /\ found' = [found EXCEPT ![t] = {}]
  /\ UNCHANGED <<now, plan, fire, seen, queue, asked, worker, rows, done, changes>>

-----------------------------------------------------------------------------
(* The handlers.                                                            *)

event(w) == job[w].event

Take(w, j) ==
  /\ pc[w] = "idle"
  /\ j \in jobs
  /\ jobs' = jobs \ {j}
  /\ job'  = [job EXCEPT ![w] = j]
  /\ held' = [held EXCEPT ![w] = TRUE]
  /\ pc'   = [pc EXCEPT ![w] = IF j.kind = "start" THEN "flag" ELSE "claimRun"]
  /\ UNCHANGED <<now, plan, tick, fails, spent, asked, todo, node, rows, done, faults, changes>>

\* The worker's handler returns; the queue only listens if it still waits.
Returns(w) ==
  /\ pc'   = [pc EXCEPT ![w] = "idle"]
  /\ held' = [held EXCEPT ![w] = FALSE]
  /\ IF held[w] THEN JobEnds(job[w]) ELSE UNCHANGED queue

Goes(w, to) == pc' = [pc EXCEPT ![w] = to]

\* workflowRunStartHandler: a disabled store's start is acknowledged and
\* skipped.
ReadFlag(w) ==
  /\ pc[w] = "flag"
  /\ IF disabled THEN Returns(w) ELSE Goes(w, "load") /\ UNCHANGED <<held, queue>>
  /\ UNCHANGED <<now, plan, tick, asked, job, todo, node, rows, done, faults, changes>>

\* loadActiveDefinition: startRun throws unless the workflow is active.
LoadDefinition(w) ==
  /\ pc[w] = "load"
  /\ \/ workflow = "ACTIVE" /\ Goes(w, "insertRun") /\ UNCHANGED <<held, queue>>
     \/ /\ workflow # "ACTIVE"
        /\ Goes(w, "idle") /\ held' = [held EXCEPT ![w] = FALSE]
        /\ IF held[w] THEN JobFails(job[w]) ELSE UNCHANGED queue
  /\ UNCHANGED <<now, plan, tick, asked, job, todo, node, rows, done, faults, changes>>

\* Mutant: the second delivery of an event walks the run the first one made.
InsertRunAgain(w) ==
  /\ pc[w] = "insertRun"
  /\ run' = [run EXCEPT ![event(w)] = "RUNNING"]
  /\ Goes(w, "trigger")
  /\ UNCHANGED <<now, plan, tick, queue, asked, job, held, todo, node, at, ready, step, dropped, done,
                 faults, changes>>

\* startRun: the row is unique on the event; only its inserter walks.
InsertRun(w) ==
  /\ pc[w] = "insertRun"
  /\ \/ /\ run[event(w)] = "NONE"
        /\ run' = [run EXCEPT ![event(w)] = "RUNNING"]
        /\ Goes(w, "trigger")
        /\ UNCHANGED <<held, queue>>
     \/ /\ run[event(w)] # "NONE"
        /\ Returns(w)
        /\ UNCHANGED run
  /\ UNCHANGED <<now, plan, tick, asked, job, todo, node, at, ready, step, dropped, done, faults, changes>>

\* recordTriggerStep, then the walk from the trigger's successors.
Trigger(w) ==
  /\ pc[w] = "trigger"
  /\ step' = [step EXCEPT ![event(w)][Root] = "COMPLETED"]
  /\ todo' = [todo EXCEPT ![w] = After[Root]]
  /\ Goes(w, "walk")
  /\ UNCHANGED <<now, plan, tick, queue, asked, job, held, node, run, at, ready, dropped, done, faults,
                 changes>>

\* Mutant: the run is claimed by its id alone.
ClaimRunBlindly(w) ==
  /\ pc[w] = "claimRun"
  /\ run' = [run EXCEPT ![event(w)] = "RUNNING"]
  /\ ready' = [ready EXCEPT ![event(w)] = FALSE]
  /\ todo' = [todo EXCEPT ![w] = After[at[event(w)]]]
  /\ Goes(w, "walk")
  /\ UNCHANGED <<now, plan, tick, queue, asked, job, held, node, at, step, dropped, done, faults,
                 changes>>

\* resumeRun: WAITING becomes RUNNING for one claimant, once resumeAt has come.
ClaimRun(w) ==
  /\ pc[w] = "claimRun"
  /\ \/ /\ run[event(w)] = "WAITING" /\ ready[event(w)]
        /\ run' = [run EXCEPT ![event(w)] = "RUNNING"]
        /\ ready' = [ready EXCEPT ![event(w)] = FALSE]
        /\ todo' = [todo EXCEPT ![w] = After[at[event(w)]]]
        /\ Goes(w, "walk")
        /\ UNCHANGED <<held, queue>>
     \/ /\ run[event(w)] # "WAITING" \/ ~ready[event(w)]
        /\ Returns(w)
        /\ UNCHANGED <<run, ready, todo>>
  /\ UNCHANGED <<now, plan, tick, asked, job, node, at, step, dropped, done, faults, changes>>

\* The nodes a sequence names.
Elems(s) == {s[k] : k \in DOMAIN s}

\* walkFrom takes the next node off its queue.
AtHead(w, kinds) == /\ pc[w] = "walk"
                    /\ todo[w] # <<>>
                    /\ Kind[Head(todo[w])] \in kinds

Completes(w, n) == step' = [step EXCEPT ![event(w)][n] = "COMPLETED"]

\* A condition gates the walk to the branch its subject selects.
Evaluate(w) ==
  /\ AtHead(w, {"CONDITION"})
  /\ LET n == Head(todo[w])
     IN /\ Completes(w, n)
        /\ todo' = [todo EXCEPT ![w] = Append(Tail(@), Branch[n][(event(w) \in Yes)])]
  /\ UNCHANGED <<now, plan, tick, queue, asked, pc, job, held, node, run, at, ready, dropped, done,
                 faults, changes>>

\* A delay completes its own step first ...
ReachDelay(w) ==
  /\ AtHead(w, {"DELAY"})
  /\ Completes(w, Head(todo[w]))
  /\ node' = [node EXCEPT ![w] = Head(todo[w])]
  /\ todo' = [todo EXCEPT ![w] = Tail(@)]
  /\ Goes(w, "suspend")
  /\ UNCHANGED <<now, plan, tick, queue, asked, job, held, run, at, ready, dropped, done, faults,
                 changes>>

\* ... and suspends the run, whatever its status is by now; the rest of the
\* walk's queue goes nowhere: the row keeps the delay alone.
Suspend(w) ==
  /\ pc[w] = "suspend"
  /\ run' = [run EXCEPT ![event(w)] = "WAITING"]
  /\ at' = [at EXCEPT ![event(w)] = node[w]]
  /\ ready' = [ready EXCEPT ![event(w)] = FALSE]
  /\ dropped' = [dropped EXCEPT ![event(w)] = @ \cup Elems(todo[w])]
  /\ todo' = [todo EXCEPT ![w] = <<>>]
  /\ Returns(w)
  /\ UNCHANGED <<now, plan, tick, asked, job, node, step, done, faults, changes>>

\* claimStep: a completed step is skipped, any other is this walk's to do.
ClaimStep(w) ==
  /\ AtHead(w, {"ACTION"})
  /\ LET n == Head(todo[w]) IN
       \/ /\ step[event(w)][n] = "COMPLETED"
          /\ todo' = [todo EXCEPT ![w] = Tail(@) \o After[n]]
          /\ UNCHANGED <<pc, node, step>>
       \/ /\ step[event(w)][n] # "COMPLETED"
          /\ step' = [step EXCEPT ![event(w)][n] = IF @ = "NONE" THEN "RUNNING" ELSE @]
          /\ node' = [node EXCEPT ![w] = n]
          /\ todo' = [todo EXCEPT ![w] = Tail(@)]
          /\ Goes(w, "act")
  /\ UNCHANGED <<now, plan, tick, queue, asked, job, held, run, at, ready, dropped, done, faults, changes>>

\* performAction: the email, SMS, tag or discount; or the provider, the quota
\* or the suppression list refuses.
Act(w) ==
  /\ pc[w] = "act"
  /\ \/ done' = [done EXCEPT ![event(w)][node[w]] = @ + 1] /\ Goes(w, "checkpoint")
     \/ UNCHANGED done /\ Goes(w, "fail")
  /\ UNCHANGED <<now, plan, tick, queue, asked, job, held, todo, node, rows, faults, changes>>

\* Mutant: the successors of an action take the place of the queue.
CheckpointAlone(w) ==
  /\ pc[w] = "checkpoint"
  /\ Completes(w, node[w])
  /\ todo' = [todo EXCEPT ![w] = After[node[w]]]
  /\ Goes(w, "walk")
  /\ UNCHANGED <<now, plan, tick, queue, asked, job, held, node, run, at, ready, dropped, done,
                 faults, changes>>

Checkpoint(w) ==
  /\ pc[w] = "checkpoint"
  /\ Completes(w, node[w])
  /\ todo' = [todo EXCEPT ![w] = @ \o After[node[w]]]
  /\ Goes(w, "walk")
  /\ UNCHANGED <<now, plan, tick, queue, asked, job, held, node, run, at, ready, dropped, done, faults,
                 changes>>

\* The checkpoint itself may fail: the catch of executeActionNode takes that
\* for a failure of the action.
CheckpointFails(w) ==
  /\ pc[w] = "checkpoint"
  /\ faults < MaxFaults
  /\ faults' = faults + 1
  /\ Goes(w, "fail")
  /\ UNCHANGED <<now, plan, tick, queue, asked, job, held, todo, node, rows, done, changes>>

\* failStepAndRun: terminal for step and run, in one transaction.
FailStepAndRun(w) ==
  /\ pc[w] = "fail"
  /\ step' = [step EXCEPT ![event(w)][node[w]] = "FAILED"]
  /\ run' = [run EXCEPT ![event(w)] = "FAILED"]
  /\ Returns(w)
  /\ UNCHANGED <<now, plan, tick, asked, job, todo, node, at, ready, dropped, done, faults, changes>>

\* completeRun, guarded on RUNNING.
CompleteRun(w) ==
  /\ pc[w] = "walk"
  /\ todo[w] = <<>>
  /\ run' = [run EXCEPT ![event(w)] = IF @ = "RUNNING" THEN "COMPLETED" ELSE @]
  /\ Returns(w)
  /\ UNCHANGED <<now, plan, tick, asked, job, todo, node, at, ready, step, dropped, done, faults, changes>>

\* The worker crashes, or a database call throws: the walk is lost and the
\* attempt has failed.
Dies(w) ==
  /\ pc[w] # "idle"
  /\ faults < MaxFaults
  /\ faults' = faults + 1
  /\ Goes(w, "idle") /\ held' = [held EXCEPT ![w] = FALSE]
  /\ IF held[w] THEN JobFails(job[w]) ELSE UNCHANGED queue
  /\ UNCHANGED <<now, plan, tick, asked, job, todo, node, rows, done, changes>>

\* executeWithTimeout gives the attempt up; the handler walks on.
TimesOut(w) ==
  /\ pc[w] # "idle" /\ held[w]
  /\ faults < MaxFaults
  /\ faults' = faults + 1
  /\ held' = [held EXCEPT ![w] = FALSE]
  /\ JobFails(job[w])
  /\ UNCHANGED <<now, plan, tick, asked, pc, job, todo, node, rows, done, changes>>

-----------------------------------------------------------------------------
Walks(w) == \/ ReadFlag(w) \/ LoadDefinition(w) \/ InsertRun(w) \/ Trigger(w) \/ ClaimRun(w)
            \/ Evaluate(w) \/ ReachDelay(w) \/ Suspend(w) \/ ClaimStep(w) \/ Act(w)
            \/ Checkpoint(w) \/ FailStepAndRun(w) \/ CompleteRun(w)

Ticking(t) == \/ TickScan(t) \/ TickAdvance(t) \/ TickEnqueue(t) \/ TickFind(t)
              \/ TickResume(t) \/ TickEnds(t) \/ TickDies(t)

Next == \/ Activate \/ Stop("PAUSED") \/ Stop("ARCHIVED") \/ SetFlag \/ Clock
        \/ \E e \in Events : Elapses(e)
        \/ \E m \in Manual : RunNow(m)
        \/ \E t \in Ticks : Ticking(t)
        \/ \E w \in Workers : \/ \E j \in Jobs : Take(w, j)
                              \/ Walks(w) \/ CheckpointFails(w) \/ Dies(w) \/ TimesOut(w)

Spec == Init /\ [][Next]_vars

\* The heartbeat recurs, its scans come to an end, delays elapse, workers go
\* on taking jobs and handlers go on.
Fairness ==
  /\ \A e \in Events : WF_vars(Elapses(e))
  /\ \A t \in Ticks : /\ WF_vars(TickScan(t)) /\ WF_vars(TickAdvance(t))
                      /\ WF_vars(TickEnqueue(t)) /\ WF_vars(TickFind(t))
                      /\ WF_vars(TickResume(t)) /\ WF_vars(TickEnds(t))
  /\ \A w \in Workers : WF_vars(Walks(w))
  /\ \A j \in Jobs : SF_vars(\E w \in Workers : Take(w, j))

FairSpec == Spec /\ Fairness

-----------------------------------------------------------------------------
(* Properties.                                                              *)

Walking == {"trigger", "walk", "suspend", "act", "checkpoint", "fail"}
RunStatus == {"NONE", "RUNNING", "WAITING", "COMPLETED", "FAILED", "CANCELLED"}

\* Every variable keeps its type; a job fails at most Attempts times.
TypeOK ==
  /\ now \in 0 .. MaxTime /\ nextFire \in 0 .. MaxTime /\ disabled \in BOOLEAN
  /\ workflow \in {"DRAFT", "ACTIVE", "PAUSED", "ARCHIVED"}
  /\ beat \in [Ticks -> {"idle", "advance", "enqueue", "find", "resumes"}]
  /\ fire \in [Ticks -> 0 .. MaxTime] /\ seen \in [Ticks -> 0 .. MaxTime]
  /\ found \in [Ticks -> SUBSET Jobs]
  /\ jobs \subseteq Jobs /\ spent \subseteq Jobs /\ fails \in [Jobs -> 0 .. Attempts]
  /\ asked \subseteq Manual
  /\ pc \in [Workers -> {"idle", "flag", "load", "insertRun", "claimRun"} \cup Walking]
  /\ job \in [Workers -> Jobs \cup {NoJob}] /\ held \in [Workers -> BOOLEAN]
  /\ todo \in [Workers -> Seq(Nodes)] /\ node \in [Workers -> Nodes]
  /\ run \in [Events -> RunStatus] /\ at \in [Events -> Nodes]
  /\ ready \in [Events -> BOOLEAN]
  /\ step \in [Events -> [Nodes -> {"NONE", "RUNNING", "COMPLETED", "FAILED"}]]
  /\ done \in [Events -> [Nodes -> Nat]] /\ dropped \in [Events -> SUBSET Nodes]
  /\ faults \in Nat /\ changes \in Nat

\* However often a start or a resume is delivered, retried or timed out, one
\* execution at a time walks a run, and only while the run is RUNNING.
OneWalker ==
  \A w \in Workers : pc[w] \in Walking =>
     /\ run[event(w)] = "RUNNING"
     /\ \A v \in Workers : pc[v] \in Walking /\ event(v) = event(w) => v = w

\* "Provider hiccups never produce silent duplicate sends": a node acts at
\* most once per run, through crashes, redeliveries and joins of the graph.
ActsOnce == \A e \in Events, n \in Nodes : done[e][n] <= 1

\* A run that is over stays as it ended, although failStepAndRun and
\* suspendRun write without looking.
Over == {"COMPLETED", "FAILED", "CANCELLED"}
OverIsFinal == [][\A e \in Events : run[e] \in Over => run'[e] = run[e]]_vars

\* The nodes the subject of e should reach: the least set with the trigger
\* and, with a node, its successors on the branch taken.
Follows(e, n) == IF Kind[n] = "CONDITION" THEN {Branch[n][(e \in Yes)]}
                 ELSE Elems(After[n])
Reach == [e \in Events |-> {n \in Nodes : \A S \in SUBSET Nodes :
            Root \in S /\ (\A m \in S : Follows(e, m) \subseteq S) => n \in S}]

\* No node off the branch taken is ever visited.
Gated == \A e \in Events, n \in Nodes : step[e][n] # "NONE" => n \in Reach[e]

\* A completed run has completed the trigger and, with a node, whatever follows
\* it, unless a delay made the walk forget that; each of its completed actions
\* has done what it stands for.
RunsWhole ==
  \A e \in Events : run[e] = "COMPLETED" =>
    /\ step[e][Root] = "COMPLETED"
    /\ \A n \in Nodes : step[e][n] = "COMPLETED" =>
         /\ \A m \in Follows(e, n) : step[e][m] = "COMPLETED" \/ m \in dropped[e]
         /\ Kind[n] = "ACTION" => done[e][n] = 1

\* A walk has something to forget only where the trigger has several successors.
Forgetful == \A e \in Events : dropped[e] # {} => Len(After[Root]) > 1

\* A walk visits nothing off its subject's branch; and through delays, joins,
\* retries and pauses a completed run has left out nothing but what was queued
\* beside a delay it came to, which walkFrom drops when it suspends and which no
\* resume brings back. A workflow whose trigger has one successor loses nothing.
WalksItsBranch == Gated /\ RunsWhole /\ Forgetful

\* "the tick resumes it": a run whose delay has elapsed goes on, or is
\* cancelled with its workflow.
DelayEnds == \A e \in Events : run[e] = "WAITING" ~> run[e] # "WAITING"

=============================================================================
