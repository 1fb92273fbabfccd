------------------------- MODULE WorkflowRun_proofs -------------------------
(***************************************************************************)
(* For any graph, number of workers and ticks, and any faults: one worker  *)
(* walks a run, a node acts once per run, a run that is over stays so, and *)
(* no node off the branch its subject takes is visited.  A completed run   *)
(* has left out of its branch only what a delay made its walk forget, and  *)
(* a walk forgets only where the trigger has several successors.           *)
(***************************************************************************)
EXTENDS WorkflowRun, SequenceTheorems, TLAPS

\* What a tick or a worker carries from one step to the next is well formed,
\* and a job in flight has attempts left and one holder.
Carried ==
  /\ \A t \in Ticks : beat[t] \in {"advance", "enqueue"} => fire[t] \in Instants
  /\ \A w \in Workers : /\ pc[w] # "idle" => job[w] \in Jobs
                        /\ held[w] => pc[w] # "idle" /\ job[w] \notin jobs
                                      /\ fails[job[w]] < Attempts
                        /\ \A v \in Workers : held[v] /\ held[w] /\ job[v] = job[w] => v = w
  /\ \A j \in jobs : fails[j] < Attempts

\* At a node, the step of the walk's own action is RUNNING ...
AtNode == {"act", "checkpoint", "fail"}
Visits ==
  \A w \in Workers :
    /\ pc[w] \in AtNode => step[event(w)][node[w]] = "RUNNING"
    /\ pc[w] = "act" => done[event(w)][node[w]] = 0
    /\ \A n \in Nodes :
         pc[w] \in Walking \ AtNode \/ (pc[w] \in AtNode /\ n # node[w]) =>
           step[event(w)][n] \in {"NONE", "COMPLETED"}

\* ... and a run no one has walked, or that waits, has no action under way.
Rests == \A e \in Events, n \in Nodes :
           /\ run[e] = "NONE" => step[e][n] = "NONE"
           /\ run[e] = "WAITING" => step[e][n] \in {"NONE", "COMPLETED"}

\* A side effect leaves its step behind.
Traces == \A e \in Events, n \in Nodes : done[e][n] # 0 => step[e][n] # "NONE"

IInv == TypeOK /\ Carried /\ OneWalker /\ ActsOnce /\ Visits /\ Rests /\ Traces

\* Without jobs, runs and walks the invariant holds.
LEMMA NotIdle ==
  ASSUME NEW w \in Workers, Walks(w) \/ CheckpointFails(w) \/ Dies(w) \/ TimesOut(w)
  PROVE  pc[w] # "idle"
<1>1. CASE ReadFlag(w) \/ LoadDefinition(w) \/ InsertRun(w) \/ Trigger(w) \/ ClaimRun(w)
  BY <1>1 DEF ReadFlag, LoadDefinition, InsertRun, Trigger, ClaimRun
<1>2. CASE Evaluate(w) \/ ReachDelay(w) \/ Suspend(w) \/ ClaimStep(w) \/ CompleteRun(w)
  BY <1>2 DEF Evaluate, ReachDelay, Suspend, ClaimStep, CompleteRun, AtHead
<1>3. CASE Act(w) \/ Checkpoint(w) \/ FailStepAndRun(w)
  BY <1>3 DEF Act, Checkpoint, FailStepAndRun
<1>4. CASE CheckpointFails(w) \/ Dies(w) \/ TimesOut(w)
  BY <1>4 DEF CheckpointFails, Dies, TimesOut
<1> QED
  BY <1>1, <1>2, <1>3, <1>4 DEF Walks

LEMMA InitInv == Init => IInv
<1> SUFFICES ASSUME Init PROVE IInv
  OBVIOUS
<1>1. NoJob \in Jobs \cup {NoJob} /\ <<>> \in Seq(Nodes) /\ Root \in Nodes
  BY GraphAssumption, EmptySeq
<1>2. TypeOK
  <2>1. /\ pc \in [Workers -> {"idle"}] /\ job \in [Workers -> {NoJob}]
        /\ todo \in [Workers -> {<<>>}] /\ found \in [Ticks -> {{}}]
    BY DEF Init
  <2>2. todo \in [Workers -> Seq(Nodes)]
    BY <1>1, <2>1
  <2>3. /\ 0 \in 0 .. MaxTime /\ 0 \in 0 .. Attempts
    BY WorkerAssumption
  <2>4. /\ pc \in [Workers -> {"idle", "flag", "load", "insertRun", "claimRun"} \cup Walking]
        /\ job \in [Workers -> Jobs \cup {NoJob}]
        /\ found \in [Ticks -> SUBSET Jobs]
    BY <2>1
  <2> QED BY <1>1, <2>2, <2>3, <2>4 DEF Init, TypeOK, RunStatus
<1> QED
  BY <1>2 DEF Init, IInv, Carried, OneWalker, ActsOnce, Visits, Rests, Traces, Walking, AtNode

-----------------------------------------------------------------------------
(* The queue.                                                               *)

\* The jobs of an event and a delay are jobs.
LEMMA JobTypes ==
  ASSUME NEW e \in Events, NEW n \in Nodes
  PROVE  StartJob(e) \in Jobs /\ ResumeJob(e, n) \in Jobs
  BY DEF StartJob, ResumeJob, Jobs

\* A job that is accepted was not in flight, and starts with no failure.
LEMMA EnqueueFacts ==
  ASSUME TypeOK, Carried, NEW j \in Jobs, Enqueue(j)
  PROVE  /\ jobs' \subseteq Jobs /\ fails' \in [Jobs -> 0 .. Attempts] /\ spent' = spent
         /\ \A k \in jobs' : fails'[k] < Attempts
         /\ \A w \in Workers : held[w] => job[w] \notin jobs' /\ fails'[job[w]] < Attempts
<1>1. CASE j \in InFlight \/ (Remembers /\ j \in spent)
  BY <1>1 DEF Enqueue, TypeOK, Carried
<1>2. CASE ~(j \in InFlight \/ (Remembers /\ j \in spent))
  <2>1. jobs' = jobs \cup {j} /\ fails' = [fails EXCEPT ![j] = 0] /\ spent' = spent
    BY <1>2 DEF Enqueue
  <2>2. \A w \in Workers : held[w] => job[w] # j
    BY <1>2 DEF InFlight
  <2> QED BY <2>1, <2>2, WorkerAssumption DEF TypeOK, Carried
<1> QED BY <1>1, <1>2

\* A failed attempt ends its job or hands it back.
LEMMA JobFailsFacts ==
  ASSUME TypeOK, Carried, NEW w \in Workers, held[w], JobFails(job[w])
  PROVE  /\ jobs' \subseteq Jobs /\ fails' \in [Jobs -> 0 .. Attempts] /\ spent' \subseteq Jobs
         /\ \A k \in jobs' : fails'[k] < Attempts
         /\ \A v \in Workers : held[v] /\ v # w =>
               job[v] \notin jobs' /\ fails'[job[v]] < Attempts
<1>1. job[w] \in Jobs /\ fails[job[w]] < Attempts /\ fails[job[w]] \in Nat
  BY DEF TypeOK, Carried
<1>2. \A v \in Workers : held[v] /\ v # w => job[v] # job[w] /\ job[v] \in Jobs
  BY DEF Carried
<1> QED BY <1>1, <1>2, WorkerAssumption DEF JobFails, TypeOK, Carried

\* The clock's instants.
LEMMA NextFireType == ASSUME NEW t \in Nat PROVE NextFire(t) \in 0 .. MaxTime
  BY WorkerAssumption DEF NextFire, Instants

-----------------------------------------------------------------------------
(* Types.                                                                   *)

\* Every step keeps the types.
LEMMA TypeStep ==
  ASSUME TypeOK, Carried, [Next]_vars
  PROVE  TypeOK'
<1> USE DEF plan, tick, queue, worker, rows, RunStatus, Walking
<1>1. CASE Activate
  <2>1. NextFire(now) \in 0 .. MaxTime
    BY NextFireType, WorkerAssumption DEF TypeOK
  <2> QED BY <1>1, <2>1 DEF Activate, TypeOK
<1>2. ASSUME NEW status \in {"PAUSED", "ARCHIVED"}, Stop(status) PROVE TypeOK'
  BY <1>2, WorkerAssumption DEF Stop, TypeOK
<1>3. CASE SetFlag
  BY <1>3 DEF SetFlag, TypeOK
<1>4. CASE Clock
  BY <1>4, WorkerAssumption DEF Clock, TypeOK
<1>5. ASSUME NEW e \in Events, Elapses(e) PROVE TypeOK'
  BY <1>5 DEF Elapses, TypeOK
<1>6. ASSUME NEW m \in Manual, RunNow(m) PROVE TypeOK'
  <2>1. StartJob(m) \in Jobs /\ Enqueue(StartJob(m))
    BY <1>6, GraphAssumption, JobTypes DEF RunNow, Events
  <2> QED BY <2>1, <1>6, EnqueueFacts DEF RunNow, TypeOK
<1>7. ASSUME NEW t \in Ticks, Ticking(t) PROVE TypeOK'
  <2>1. CASE TickScan(t)
    BY <2>1, WorkerAssumption DEF TickScan, TypeOK
  <2>2. CASE TickAdvance(t)
    <3>1. NextFire(seen[t]) \in 0 .. MaxTime
      BY NextFireType, WorkerAssumption DEF TypeOK
    <3> QED BY <2>2, <3>1 DEF TickAdvance, TypeOK
  <2>3. CASE TickEnqueue(t)
    <3>1. StartJob(fire[t]) \in Jobs /\ Enqueue(StartJob(fire[t]))
      BY <2>3, GraphAssumption, JobTypes DEF TickEnqueue, Carried, Events
    <3> QED BY <3>1, <2>3, EnqueueFacts DEF TickEnqueue, TypeOK
  <2>4. CASE TickFind(t)
    <3>1. {ResumeJob(e, at[e]) : e \in {f \in Events : run[f] = "WAITING" /\ ready[f]}}
            \subseteq Jobs
      BY JobTypes DEF TypeOK
    <3> QED BY <3>1, <2>4 DEF TickFind, TypeOK
  <2>5. CASE TickResume(t)
    <3>1. PICK j \in found[t] : Enqueue(j) /\ found' = [found EXCEPT ![t] = @ \ {j}]
      BY <2>5 DEF TickResume
    <3>2. j \in Jobs
      BY DEF TypeOK
    <3> QED BY <3>1, <3>2, <2>5, EnqueueFacts DEF TickResume, TypeOK
  <2>6. CASE TickEnds(t)
    BY <2>6 DEF TickEnds, TypeOK
  <2>7. CASE TickDies(t)
    BY <2>7 DEF TickDies, TypeOK
  <2> QED BY <1>7, <2>1, <2>2, <2>3, <2>4, <2>5, <2>6, <2>7 DEF Ticking
<1>8. ASSUME NEW w \in Workers, NEW j \in Jobs, Take(w, j) PROVE TypeOK'
  BY <1>8 DEF Take, TypeOK
<1>9. ASSUME NEW w \in Workers, pc[w] # "idle",
             Walks(w) \/ CheckpointFails(w) \/ Dies(w) \/ TimesOut(w)
      PROVE  TypeOK'
  <2> DEFINE n == Head(todo[w])
  <2>0. event(w) \in Events /\ job[w] \in Jobs
    BY <1>9 DEF Carried, event, Jobs
  <2>r. ASSUME Returns(w)
        PROVE  /\ pc' \in [Workers -> {"idle", "flag", "load", "insertRun", "claimRun"} \cup Walking]
               /\ held' \in [Workers -> BOOLEAN] /\ fails' = fails
               /\ jobs' \subseteq Jobs /\ spent' \subseteq Jobs
    BY <2>r, <2>0 DEF Returns, JobEnds, TypeOK
  <2>h. ASSUME todo[w] # <<>>
        PROVE  n \in Nodes /\ Tail(todo[w]) \in Seq(Nodes)
    BY <2>h, HeadTailProperties DEF TypeOK
  <2>s. ASSUME NEW s \in Seq(Nodes), NEW k \in Nodes PROVE s \o After[k] \in Seq(Nodes)
    BY GraphAssumption, ConcatProperties
  <2>1. CASE ReadFlag(w)
    BY <2>1, <2>r DEF ReadFlag, Goes, TypeOK
  <2>2. CASE LoadDefinition(w)
    BY <2>2, JobFailsFacts DEF LoadDefinition, Goes, TypeOK
  <2>3. CASE InsertRun(w)
    BY <2>3, <2>r DEF InsertRun, Goes, TypeOK
  <2>4. CASE Trigger(w)
    BY <2>4, <2>0, GraphAssumption DEF Trigger, Goes, TypeOK
  <2>5. CASE ClaimRun(w)
    <3>1. After[at[event(w)]] \in Seq(Nodes)
      BY <2>0, GraphAssumption DEF TypeOK
    <3>2. /\ run' \in [Events -> RunStatus] /\ ready' \in [Events -> BOOLEAN]
          /\ todo' \in [Workers -> Seq(Nodes)]
      BY <3>1, <2>5 DEF ClaimRun, TypeOK
    <3> QED BY <3>2, <2>5, <2>r DEF ClaimRun, Goes, TypeOK
  <2>6. CASE Evaluate(w)
    <3>1. n \in Nodes /\ Tail(todo[w]) \in Seq(Nodes) /\ (event(w) \in Yes) \in BOOLEAN
      BY <2>6, <2>h DEF Evaluate, AtHead
    <3>2. Append(Tail(todo[w]), Branch[n][(event(w) \in Yes)]) \in Seq(Nodes)
      <4>1. Branch[n][(event(w) \in Yes)] \in Nodes
        <5>1. Branch[n] \in [BOOLEAN -> Nodes]
          BY <3>1, GraphAssumption
        <5> HIDE DEF n
        <5> QED BY <5>1, <3>1, Zenon
      <4> HIDE DEF n
      <4> QED BY <4>1, <3>1, AppendProperties
    <3> QED BY <3>1, <3>2, <2>6, <2>0 DEF Evaluate, Completes, TypeOK
  <2>7. CASE ReachDelay(w)
    BY <2>7, <2>0, <2>h DEF ReachDelay, AtHead, Completes, Goes, TypeOK
  <2>8. CASE Suspend(w)
    <3>1. Elems(todo[w]) \subseteq Nodes
      BY ElementOfSeq, LenProperties DEF Elems, TypeOK
    <3> QED BY <3>1, <2>8, <2>0, <2>r, EmptySeq DEF Suspend, TypeOK
  <2>9. CASE ClaimStep(w)
    <3>1. n \in Nodes /\ Tail(todo[w]) \in Seq(Nodes) /\ Tail(todo[w]) \o After[n] \in Seq(Nodes)
      BY <2>9, <2>h, <2>s DEF ClaimStep, AtHead
    <3>2. todo' \in [Workers -> Seq(Nodes)]
      BY <2>9, <3>1 DEF ClaimStep, TypeOK
    <3>3. step' \in [Events -> [Nodes -> {"NONE", "RUNNING", "COMPLETED", "FAILED"}]]
      <4> DEFINE e == event(w)
                 was == step[e][n]
                 is == IF was = "NONE" THEN "RUNNING" ELSE was
      <4>1. step' = step \/ step' = [step EXCEPT ![e] = [step[e] EXCEPT ![n] = is]]
        BY <2>9 DEF ClaimStep
      <4>2. step[e] \in [Nodes -> {"NONE", "RUNNING", "COMPLETED", "FAILED"}]
        BY <2>0 DEF TypeOK
      <4>3. is \in {"NONE", "RUNNING", "COMPLETED", "FAILED"}
        BY <4>2, <3>1
      <4> HIDE DEF is, e, n
      <4>4. [step[e] EXCEPT ![n] = is] \in [Nodes -> {"NONE", "RUNNING", "COMPLETED", "FAILED"}]
        BY <4>2, <4>3
      <4> QED BY <4>1, <4>4 DEF TypeOK
    <3>4. /\ pc' \in [Workers -> {"idle", "flag", "load", "insertRun", "claimRun"} \cup Walking]
          /\ node' \in [Workers -> Nodes]
      <4> HIDE DEF n
      <4>1. /\ pc' = pc \/ pc' = [pc EXCEPT ![w] = "act"]
            /\ node' = node \/ node' = [node EXCEPT ![w] = n]
        BY <2>9 DEF ClaimStep, Goes, n
      <4>2. n \in Nodes
        BY <3>1
      <4>3. node' \in [Workers -> Nodes]
        BY <4>1, <4>2 DEF TypeOK
      <4> QED BY <4>1, <4>3 DEF TypeOK, Walking
    <3> QED BY <3>2, <3>3, <3>4, <2>9 DEF ClaimStep, TypeOK
  <2>10. CASE Act(w)
    <3>1. done' \in [Events -> [Nodes -> Nat]]
      <4> DEFINE e == event(w)
                 more == [done[e] EXCEPT ![node[w]] = done[e][node[w]] + 1]
      <4>1. done' = done \/ done' = [done EXCEPT ![e] = more]
        BY <2>10 DEF Act
      <4>2. e \in Events /\ more \in [Nodes -> Nat]
        BY <2>0 DEF TypeOK
      <4> HIDE DEF e, more
      <4> QED BY <4>1, <4>2 DEF TypeOK
    <3> QED BY <3>1, <2>10 DEF Act, Goes, TypeOK
  <2>11. CASE Checkpoint(w)
    <3>1. todo' \in [Workers -> Seq(Nodes)]
      BY <2>11, <2>s DEF Checkpoint, TypeOK
    <3> QED BY <3>1, <2>11, <2>0 DEF Checkpoint, Completes, Goes, TypeOK
  <2>12. CASE FailStepAndRun(w)
    BY <2>12, <2>0, <2>r DEF FailStepAndRun, TypeOK
  <2>13. CASE CompleteRun(w)
    BY <2>13, <2>0, <2>r DEF CompleteRun, TypeOK
  <2>14. CASE CheckpointFails(w)
    BY <2>14 DEF CheckpointFails, Goes, TypeOK
  <2>15. CASE Dies(w)
    BY <2>15, JobFailsFacts DEF Dies, Goes, TypeOK
  <2>16. CASE TimesOut(w)
    BY <2>16, JobFailsFacts DEF TimesOut, TypeOK
  <2> QED BY <1>9, <2>1, <2>2, <2>3, <2>4, <2>5, <2>6, <2>7, <2>8, <2>9, <2>10, <2>11, <2>12,
             <2>13, <2>14, <2>15, <2>16 DEF Walks
<1>10. CASE UNCHANGED vars
  BY <1>10 DEF vars, TypeOK
<1>11. \A w \in Workers : Walks(w) \/ CheckpointFails(w) \/ Dies(w) \/ TimesOut(w) => pc[w] # "idle"
  BY NotIdle
<1> QED BY <1>1, <1>2, <1>3, <1>4, <1>5, <1>6, <1>7, <1>8, <1>9, <1>10, <1>11 DEF Next

-----------------------------------------------------------------------------
(* What is carried.                                                         *)

\* Every step keeps what ticks and workers carry, and the holder of a job.
LEMMA CarriedStep ==
  ASSUME TypeOK, Carried, TypeOK', [Next]_vars
  PROVE  Carried'
<1> USE DEF plan, tick, queue, worker, rows
<1>1. CASE UNCHANGED <<beat, fire, jobs, fails, pc, job, held>>
  BY <1>1 DEF Carried
<1>2. ASSUME NEW m \in Manual, RunNow(m) PROVE Carried'
  <2>1. StartJob(m) \in Jobs /\ Enqueue(StartJob(m))
    BY <1>2, GraphAssumption, JobTypes DEF RunNow, Events
  <2>2. /\ \A k \in jobs' : fails'[k] < Attempts
        /\ \A w \in Workers : held[w] => job[w] \notin jobs' /\ fails'[job[w]] < Attempts
    BY <2>1, EnqueueFacts
  <2>3. UNCHANGED <<beat, fire, pc, job, held>>
    BY <1>2 DEF RunNow
  <2> QED BY <2>2, <2>3 DEF Carried
<1>3. ASSUME NEW t \in Ticks, Ticking(t) PROVE Carried'
  <2>1. CASE TickScan(t)
    BY <2>1 DEF TickScan, Carried, TypeOK, Instants
  <2>2. CASE TickAdvance(t)
    BY <2>2 DEF TickAdvance, Carried, TypeOK
  <2>3. CASE TickEnqueue(t)
    <3>1. StartJob(fire[t]) \in Jobs /\ Enqueue(StartJob(fire[t]))
      BY <2>3, GraphAssumption, JobTypes DEF TickEnqueue, Carried, Events
    <3>2. /\ \A k \in jobs' : fails'[k] < Attempts
          /\ \A w \in Workers : held[w] => job[w] \notin jobs' /\ fails'[job[w]] < Attempts
      BY <3>1, EnqueueFacts
    <3>3. UNCHANGED <<fire, pc, job, held>> /\ beat' = [beat EXCEPT ![t] = "find"]
      BY <2>3 DEF TickEnqueue
    <3> QED BY <3>2, <3>3 DEF Carried, TypeOK
  <2>4. CASE TickFind(t)
    BY <2>4 DEF TickFind, Carried, TypeOK
  <2>5. CASE TickResume(t)
    <3>1. PICK j \in found[t] : Enqueue(j)
      BY <2>5 DEF TickResume
    <3>2. j \in Jobs
      BY DEF TypeOK
    <3> QED BY <3>1, <3>2, <2>5, EnqueueFacts DEF TickResume, Carried
  <2>6. CASE TickEnds(t) \/ TickDies(t)
    BY <2>6 DEF TickEnds, TickDies, Carried, TypeOK
  <2> QED BY <1>3, <2>1, <2>2, <2>3, <2>4, <2>5, <2>6 DEF Ticking
<1>4. ASSUME NEW w \in Workers, NEW j \in Jobs, Take(w, j) PROVE Carried'
  BY <1>4 DEF Take, Carried, TypeOK
<1>5. ASSUME NEW w \in Workers, pc[w] # "idle", UNCHANGED <<beat, fire, job>>,
             \/ Returns(w)
             \/ /\ pc' = [pc EXCEPT ![w] = "idle"] \/ pc' = pc
                /\ held' = [held EXCEPT ![w] = FALSE]
                /\ IF held[w] THEN JobFails(job[w]) ELSE UNCHANGED queue
             \/ UNCHANGED <<held, jobs, fails>> /\ \E to \in Walking \cup {"load", "insertRun"} :
                                                  Goes(w, to)
      PROVE  Carried'
  <2>1. CASE Returns(w)
    BY <2>1, <1>5 DEF Returns, JobEnds, Carried, TypeOK
  <2>2. CASE /\ pc' = [pc EXCEPT ![w] = "idle"] \/ pc' = pc
             /\ held' = [held EXCEPT ![w] = FALSE]
             /\ IF held[w] THEN JobFails(job[w]) ELSE UNCHANGED queue
    BY <2>2, <1>5, JobFailsFacts DEF Carried, TypeOK
  <2>3. CASE UNCHANGED <<held, jobs, fails>> /\ \E to \in Walking \cup {"load", "insertRun"} :
                                                  Goes(w, to)
    BY <2>3, <1>5, SMTT(30) DEF Goes, Walking, Carried, TypeOK
  <2> QED BY <1>5, <2>1, <2>2, <2>3
<1>6. ASSUME NEW w \in Workers, Walks(w) \/ CheckpointFails(w) \/ Dies(w) \/ TimesOut(w)
      PROVE  Carried'
  <2>1. CASE ReadFlag(w)
    BY <2>1, <1>5 DEF ReadFlag
  <2>2. CASE LoadDefinition(w)
    BY <2>2, <1>5 DEF LoadDefinition, Goes
  <2>3. CASE InsertRun(w) \/ Trigger(w) \/ ClaimRun(w)
    BY <2>3, <1>5 DEF InsertRun, Trigger, ClaimRun, Walking
  <2>4. CASE Evaluate(w)
    BY <2>4, <1>1 DEF Evaluate
  <2>5. CASE ReachDelay(w) \/ Suspend(w) \/ Act(w) \/ Checkpoint(w) \/ CheckpointFails(w)
    BY <2>5, <1>5 DEF ReachDelay, AtHead, Suspend, Act, Checkpoint, CheckpointFails, Walking
  <2>6. CASE ClaimStep(w)
    BY <2>6, <1>1, <1>5 DEF ClaimStep, AtHead, Walking
  <2>7. CASE FailStepAndRun(w) \/ CompleteRun(w)
    BY <2>7, <1>5 DEF FailStepAndRun, CompleteRun
  <2>8. CASE Dies(w)
    BY <2>8, <1>5 DEF Dies, Goes
  <2>9. CASE TimesOut(w)
    BY <2>9, <1>5 DEF TimesOut
  <2> QED BY <1>6, <2>1, <2>2, <2>3, <2>4, <2>5, <2>6, <2>7, <2>8, <2>9 DEF Walks
<1>7. Activate \/ (\E status \in {"PAUSED", "ARCHIVED"} : Stop(status)) \/ SetFlag \/ Clock
        \/ (\E e \in Events : Elapses(e)) => UNCHANGED <<beat, fire, jobs, fails, pc, job, held>>
  BY DEF Activate, Stop, SetFlag, Clock, Elapses
<1>8. UNCHANGED vars => UNCHANGED <<beat, fire, jobs, fails, pc, job, held>>
  BY DEF vars
<1> QED BY <1>1, <1>2, <1>3, <1>4, <1>6, <1>7, <1>8 DEF Next

-----------------------------------------------------------------------------
(* The walk.                                                                *)

\* Steps of the merchant, the clock, the tick and the queue leave the walks
\* alone.
Walk == <<pc, job, node, run, step, done>>

\* The facts about walks, as one.
WInv == OneWalker /\ ActsOnce /\ Visits /\ Rests /\ Traces

\* A step outside the walk keeps its part of the invariant.
LEMMA WalkUnchanged == ASSUME WInv, UNCHANGED Walk PROVE WInv'
  BY DEF WInv, OneWalker, ActsOnce, Visits, Rests, Traces, Walk, event

\* A worker that stops walking disturbs nothing.
LEMMA WalkLeft ==
  ASSUME TypeOK, WInv, NEW w \in Workers, UNCHANGED <<job, node, run, step, done>>,
         NEW to \in {"idle", "load", "insertRun"}, pc' = [pc EXCEPT ![w] = to]
  PROVE  WInv'
  BY DEF TypeOK, WInv, OneWalker, ActsOnce, Visits, Rests, Traces, Walking, AtNode, event

\* A step of w leaves the other workers and the other runs alone ...
Others(w) ==
  /\ job' = job
  /\ \A v \in Workers : v # w => pc'[v] = pc[v] /\ node'[v] = node[v]
  /\ \A f \in Events : f # event(w) => run'[f] = run[f] /\ step'[f] = step[f] /\ done'[f] = done[f]

\* ... and keeps the facts about its own run, which no other worker walks.
Own(w, e) ==
  /\ \A v \in Workers : pc[v] \in Walking /\ event(v) = e => v = w
  /\ pc'[w] \in Walking => run'[e] = "RUNNING"
  /\ pc'[w] \in AtNode => step'[e][node'[w]] = "RUNNING"
  /\ pc'[w] = "act" => done'[e][node'[w]] = 0
  /\ \A n \in Nodes : pc'[w] \in Walking \ AtNode \/ (pc'[w] \in AtNode /\ n # node'[w]) =>
                        step'[e][n] \in {"NONE", "COMPLETED"}
  /\ \A n \in Nodes : /\ run'[e] = "NONE" => step'[e][n] = "NONE"
                      /\ run'[e] = "WAITING" => step'[e][n] \in {"NONE", "COMPLETED"}
                      /\ done'[e][n] <= 1
                      /\ done'[e][n] # 0 => step'[e][n] # "NONE"

\* ... so that what w does in its own run is all there is to look at.
LEMMA WalkOfOne ==
  ASSUME TypeOK, Carried, WInv, NEW w \in Workers, pc[w] # "idle", Others(w), Own(w, event(w))
  PROVE  WInv'
<1> DEFINE e == event(w)
<1> USE DEF Others, Own
<1>1. \A v \in Workers : event(v)' = event(v)
  BY DEF event
<1>2. \A v \in Workers : pc'[v] \in Walking /\ event(v) = e => v = w
  OBVIOUS
<1>3. \A v \in Workers : pc[v] \in Walking => event(v) \in Events
  BY DEF Carried, event, Jobs, Walking
<1>4. OneWalker'
  BY <1>1, <1>2, <1>3 DEF WInv, OneWalker
<1>5. ActsOnce' /\ Rests' /\ Traces'
  <2> HIDE DEF e
  <2>1. /\ \A f \in Events : f # e => run'[f] = run[f] /\ step'[f] = step[f] /\ done'[f] = done[f]
        /\ \A n \in Nodes : /\ run'[e] = "NONE" => step'[e][n] = "NONE"
                            /\ run'[e] = "WAITING" => step'[e][n] \in {"NONE", "COMPLETED"}
                            /\ done'[e][n] <= 1
                            /\ done'[e][n] # 0 => step'[e][n] # "NONE"
    BY DEF e
  <2>2. ActsOnce'
    BY <2>1 DEF WInv, ActsOnce
  <2>3. Rests'
    BY <2>1 DEF WInv, Rests
  <2>4. Traces'
    BY <2>1 DEF WInv, Traces
  <2> QED BY <2>2, <2>3, <2>4
<1>6. Visits'
  BY <1>1, <1>2, <1>3 DEF WInv, Visits, AtNode, Walking
<1> QED BY <1>4, <1>5, <1>6 DEF WInv

\* A handler that has not begun to walk, or that no longer walks.
Outside == {"idle", "flag", "load", "insertRun", "claimRun"}

\* Every step keeps the walk's part of the invariant and the ended runs.
LEMMA WalkStep ==
  ASSUME TypeOK, Carried, WInv, [Next]_vars
  PROVE  WInv' /\ \A e \in Events : run[e] \in Over => run'[e] = run[e]
<1> USE DEF plan, tick, queue, worker, rows
<1> DEFINE Final == \A e \in Events : run[e] \in Over => run'[e] = run[e]
<1>1. CASE UNCHANGED Walk
  BY <1>1, WalkUnchanged DEF Walk
<1>2. ASSUME NEW status \in {"PAUSED", "ARCHIVED"}, Stop(status) PROVE WInv' /\ Final
  <2>1. /\ \A e \in Events : run'[e] = IF run[e] = "WAITING" THEN "CANCELLED" ELSE run[e]
        /\ UNCHANGED <<pc, job, node, step, done>>
    BY <1>2 DEF Stop
  <2>2. \A w \in Workers : pc[w] \in Walking => event(w) \in Events
    BY DEF Carried, event, Jobs, Walking
  <2>3. WInv'
    BY <2>1, <2>2 DEF WInv, OneWalker, ActsOnce, Visits, Rests, Traces, event
  <2> QED BY <2>1, <2>3 DEF Over
<1>3. ASSUME NEW w \in Workers, NEW j \in Jobs, Take(w, j) PROVE WInv' /\ Final
  BY <1>3 DEF Take, TypeOK, WInv, OneWalker, ActsOnce, Visits, Rests, Traces, Walking, AtNode,
              event
<1>4. ASSUME NEW w \in Workers, pc[w] # "idle", NEW to, pc' = [pc EXCEPT ![w] = to],
             to \notin Walking, UNCHANGED <<job, node, run, step, done>>
      PROVE  WInv' /\ Final
  BY <1>4 DEF TypeOK, WInv, OneWalker, ActsOnce, Visits, Rests, Traces, event, AtNode, Walking
<1>5. ASSUME NEW w \in Workers, Walks(w) \/ CheckpointFails(w) \/ Dies(w)
      PROVE  WInv' /\ Final
  <2> DEFINE e == event(w)
  <2>0. pc[w] # "idle"
    BY <1>5, NotIdle
  <2>e. e \in Events /\ \A n \in Nodes : /\ step[e][n] \in {"NONE", "RUNNING", "COMPLETED", "FAILED"}
                                         /\ done[e][n] \in Nat /\ done[e][n] <= 1
                                         /\ done[e][n] # 0 => step[e][n] # "NONE"
    BY <2>0 DEF Carried, event, Jobs, TypeOK, WInv, ActsOnce, Traces
  <2>w. /\ pc[w] \in Walking => /\ run[e] = "RUNNING"
                                /\ \A v \in Workers : pc[v] \in Walking /\ event(v) = e => v = w
        /\ pc[w] \in AtNode => step[e][node[w]] = "RUNNING"
        /\ pc[w] = "act" => done[e][node[w]] = 0
        /\ \A n \in Nodes : pc[w] \in Walking \ AtNode \/ (pc[w] \in AtNode /\ n # node[w]) =>
                              step[e][n] \in {"NONE", "COMPLETED"}
    BY DEF WInv, OneWalker, Visits
  <2>n. node[w] \in Nodes
    BY DEF TypeOK
  <2>1. CASE ReadFlag(w) \/ LoadDefinition(w) \/ Dies(w)
    BY <2>1, <2>0, <1>4, <1>1 DEF ReadFlag, LoadDefinition, Dies, Returns, Goes, Walking
  <2>2. CASE InsertRun(w)
    <3>1. CASE run[e] # "NONE"
      BY <3>1, <2>2, <2>0, <1>4 DEF InsertRun, Returns, Walking
    <3>2. CASE run[e] = "NONE"
      <4>1. /\ run' = [run EXCEPT ![e] = "RUNNING"] /\ pc' = [pc EXCEPT ![w] = "trigger"]
            /\ UNCHANGED <<job, node, step, done>>
        BY <3>2, <2>2 DEF InsertRun, Goes
      <4>2. \A v \in Workers : ~(pc[v] \in Walking /\ event(v) = e)
        BY <3>2 DEF WInv, OneWalker
      <4>3. \A n \in Nodes : step[e][n] = "NONE"
        BY <3>2, <2>e DEF WInv, Rests
      <4>4. WInv'
        <5>1. Others(w)
          BY <4>1, <4>2, <4>3, <2>e, <2>0 DEF Others, TypeOK
        <5>2. Own(w, e)
          BY <4>1, <4>2, <4>3, <2>e, <2>0 DEF Own, TypeOK, AtNode, Walking
        <5> QED BY <5>1, <5>2, <2>0, WalkOfOne
      <4> QED BY <4>1, <4>4, <3>2 DEF Over, TypeOK
    <3> QED BY <3>1, <3>2
  <2>3. CASE Trigger(w)
    <3>1. /\ step' = [step EXCEPT ![e] = [step[e] EXCEPT ![Root] = "COMPLETED"]]
          /\ pc' = [pc EXCEPT ![w] = "walk"] /\ UNCHANGED <<job, node, run, done>>
      BY <2>3 DEF Trigger, Goes
    <3>2. pc[w] = "trigger"
      BY <2>3 DEF Trigger
    <3>4. WInv'
      <4>1. Others(w)
        BY <3>1, <3>2, <2>e, <2>w, GraphAssumption DEF Others, TypeOK
      <4>2. Own(w, e)
        <5>1. pc'[w] = "walk" /\ run' = run /\ done' = done /\ run[e] = "RUNNING"
              /\ \A v \in Workers : pc[v] \in Walking /\ event(v) = e => v = w
          BY <3>1, <3>2, <2>e, <2>w DEF TypeOK, Walking
        <5>2. \A n \in Nodes : step'[e][n] = IF n = Root THEN "COMPLETED" ELSE step[e][n]
          BY <3>1, <2>e DEF TypeOK
        <5>3. \A n \in Nodes : step[e][n] \in {"NONE", "COMPLETED"}
          BY <3>2, <2>w DEF AtNode, Walking
        <5> QED
          BY <5>1, <5>2, <5>3, <2>e DEF Own, AtNode, Walking
      <4> QED BY <4>1, <4>2, <2>0, WalkOfOne
    <3> QED BY <3>1, <3>4
  <2>4. CASE ClaimRun(w)
    <3>1. CASE ~(run[e] = "WAITING" /\ ready[e])
      BY <3>1, <2>4, <2>0, <1>4 DEF ClaimRun, Returns, Walking
    <3>2. CASE run[e] = "WAITING" /\ ready[e]
      <4>1. /\ run' = [run EXCEPT ![e] = "RUNNING"] /\ pc' = [pc EXCEPT ![w] = "walk"]
            /\ UNCHANGED <<job, node, step, done>>
        BY <3>2, <2>4 DEF ClaimRun, Goes
      <4>2. \A v \in Workers : ~(pc[v] \in Walking /\ event(v) = e)
        BY <3>2 DEF WInv, OneWalker
      <4>3. \A n \in Nodes : step[e][n] \in {"NONE", "COMPLETED"}
        BY <3>2, <2>e DEF WInv, Rests
      <4>4. WInv'
        <5>1. Others(w)
          BY <4>1, <4>2, <4>3, <2>e, <2>0 DEF Others, TypeOK
        <5>2. Own(w, e)
          BY <4>1, <4>2, <4>3, <2>e, <2>0 DEF Own, TypeOK, AtNode, Walking
        <5> QED BY <5>1, <5>2, <2>0, WalkOfOne
      <4> QED BY <4>1, <4>4, <3>2 DEF Over, TypeOK
    <3> QED BY <3>1, <3>2
  <2>5. CASE Evaluate(w) \/ ReachDelay(w)
    <3> DEFINE n == Head(todo[w])
    <3>1. n \in Nodes /\ pc[w] = "walk"
      BY <2>5, HeadTailProperties DEF Evaluate, ReachDelay, AtHead, TypeOK
    <3>2. /\ step' = [step EXCEPT ![e] = [step[e] EXCEPT ![n] = "COMPLETED"]]
          /\ pc' = pc \/ pc' = [pc EXCEPT ![w] = "suspend"]
          /\ node' = node \/ node' = [node EXCEPT ![w] = n]
          /\ UNCHANGED <<job, run, done>>
      BY <2>5 DEF Evaluate, ReachDelay, Completes, Goes
    <3> HIDE DEF n
    <3>4. WInv'
      <4>1. Others(w)
        BY <3>1, <3>2, <2>e, <2>w DEF Others, TypeOK
      <4>2. Own(w, e)
        BY <3>1, <3>2, <2>e, <2>w DEF Own, TypeOK, AtNode, Walking
      <4> QED BY <4>1, <4>2, <2>0, WalkOfOne
    <3> QED BY <3>2, <3>4
  <2>6. CASE Suspend(w)
    <3>1. /\ run' = [run EXCEPT ![e] = "WAITING"] /\ pc' = [pc EXCEPT ![w] = "idle"]
          /\ UNCHANGED <<job, node, step, done>> /\ pc[w] = "suspend"
      BY <2>6 DEF Suspend, Returns
    <3>4. WInv'
      <4>1. Others(w)
        BY <3>1, <2>e, <2>w DEF Others, TypeOK
      <4>2. Own(w, e)
        BY <3>1, <2>e, <2>w DEF Own, TypeOK, AtNode, Walking
      <4> QED BY <4>1, <4>2, <2>0, WalkOfOne
    <3> QED BY <3>1, <3>4, <2>w DEF Over, TypeOK, Walking
  <2>7. CASE ClaimStep(w)
    <3> DEFINE n == Head(todo[w])
    <3>1. n \in Nodes /\ pc[w] = "walk"
      BY <2>7, HeadTailProperties DEF ClaimStep, AtHead, TypeOK
    <3>2. CASE step[e][n] = "COMPLETED"
      <4>1. UNCHANGED Walk
        BY <3>2, <2>7 DEF ClaimStep, Walk
      <4> QED BY <4>1, <1>1
    <3>3. CASE step[e][n] # "COMPLETED"
      <4>1. /\ step' = [step EXCEPT ![e] = [step[e] EXCEPT ![n] =
                                             IF step[e][n] = "NONE" THEN "RUNNING" ELSE step[e][n]]]
            /\ node' = [node EXCEPT ![w] = n] /\ pc' = [pc EXCEPT ![w] = "act"]
            /\ UNCHANGED <<job, run, done>>
        BY <3>3, <2>7 DEF ClaimStep, Goes
      <4> HIDE DEF n
      <4>2. step[e][n] = "NONE" /\ done[e][n] = 0
        <5> HIDE DEF e
        <5>1. pc[w] \in Walking /\ pc[w] \notin AtNode
          BY <3>1 DEF AtNode, Walking
        <5>2. step[e][n] \in {"NONE", "COMPLETED"}
          BY <5>1, <3>1, <2>w
        <5> QED BY <5>2, <3>1, <3>3, <2>e
      <4>4. WInv'
        <5>1. Others(w)
          BY <4>1, <4>2, <3>1, <2>e, <2>w DEF Others, TypeOK
        <5>2. Own(w, e)
          BY <4>1, <4>2, <3>1, <2>e, <2>w DEF Own, TypeOK, AtNode, Walking
        <5> QED BY <5>1, <5>2, <2>0, WalkOfOne
      <4> QED BY <4>1, <4>4
    <3> QED BY <3>2, <3>3
  <2>8. CASE Act(w)
    <3>1. /\ done' = done \/ done' = [done EXCEPT ![e] =
                                       [done[e] EXCEPT ![node[w]] = done[e][node[w]] + 1]]
          /\ pc' = [pc EXCEPT ![w] = "checkpoint"] \/ pc' = [pc EXCEPT ![w] = "fail"]
          /\ UNCHANGED <<job, node, run, step>> /\ pc[w] = "act"
      BY <2>8 DEF Act, Goes
    <3>4. WInv'
      <4>1. Others(w)
        BY <3>1, <2>e, <2>w, <2>n DEF Others, TypeOK
      <4>2. Own(w, e)
        <5>1. done[e][node[w]] = 0 /\ step[e][node[w]] = "RUNNING" /\ run[e] = "RUNNING"
          BY <3>1, <2>w DEF AtNode, Walking
        <5>2. \A n \in Nodes : /\ n # node[w] => done'[e][n] = done[e][n]
                              /\ done'[e][node[w]] \in {0, 1}
          BY <3>1, <5>1, <2>e, <2>n DEF TypeOK
        <5>3. pc'[w] \in {"checkpoint", "fail"}
          BY <3>1 DEF TypeOK
        <5> QED BY <3>1, <5>1, <5>2, <5>3, <2>e, <2>w, <2>n DEF Own, AtNode, Walking
      <4> QED BY <4>1, <4>2, <2>0, WalkOfOne
    <3> QED BY <3>1, <3>4
  <2>9. CASE Checkpoint(w)
    <3>1. /\ step' = [step EXCEPT ![e] = [step[e] EXCEPT ![node[w]] = "COMPLETED"]]
          /\ pc' = [pc EXCEPT ![w] = "walk"] /\ UNCHANGED <<job, node, run, done>>
          /\ pc[w] = "checkpoint"
      BY <2>9 DEF Checkpoint, Completes, Goes
    <3>4. WInv'
      <4>1. Others(w)
        BY <3>1, <2>e, <2>w, <2>n DEF Others, TypeOK
      <4>2. Own(w, e)
        BY <3>1, <2>e, <2>w, <2>n DEF Own, TypeOK, AtNode, Walking
      <4> QED BY <4>1, <4>2, <2>0, WalkOfOne
    <3> QED BY <3>1, <3>4
  <2>10. CASE CheckpointFails(w)
    <3>1. /\ pc' = [pc EXCEPT ![w] = "fail"] /\ UNCHANGED <<job, node, run, step, done>>
          /\ pc[w] = "checkpoint"
      BY <2>10 DEF CheckpointFails, Goes
    <3>4. WInv'
      <4>1. Others(w)
        BY <3>1, <2>e, <2>w, <2>n DEF Others, TypeOK
      <4>2. Own(w, e)
        BY <3>1, <2>e, <2>w, <2>n DEF Own, TypeOK, AtNode, Walking
      <4> QED BY <4>1, <4>2, <2>0, WalkOfOne
    <3> QED BY <3>1, <3>4
  <2>11. CASE FailStepAndRun(w)
    <3>1. /\ step' = [step EXCEPT ![e] = [step[e] EXCEPT ![node[w]] = "FAILED"]]
          /\ run' = [run EXCEPT ![e] = "FAILED"] /\ pc' = [pc EXCEPT ![w] = "idle"]
          /\ UNCHANGED <<job, node, done>> /\ pc[w] = "fail"
      BY <2>11 DEF FailStepAndRun, Returns
    <3>4. WInv'
      <4>1. Others(w)
        BY <3>1, <2>e, <2>w, <2>n DEF Others, TypeOK
      <4>2. Own(w, e)
        BY <3>1, <2>e, <2>w, <2>n DEF Own, TypeOK, AtNode, Walking
      <4> QED BY <4>1, <4>2, <2>0, WalkOfOne
    <3> QED BY <3>1, <3>4, <2>w DEF Over, TypeOK, Walking
  <2>12. CASE CompleteRun(w)
    <3>1. /\ run' = [run EXCEPT ![e] = "COMPLETED"] /\ pc' = [pc EXCEPT ![w] = "idle"]
          /\ UNCHANGED <<job, node, step, done>> /\ pc[w] = "walk"
      BY <2>12, <2>w DEF CompleteRun, Returns, Walking
    <3>4. WInv'
      <4>1. Others(w)
        BY <3>1, <2>e, <2>w DEF Others, TypeOK
      <4>2. Own(w, e)
        BY <3>1, <2>e, <2>w DEF Own, TypeOK, AtNode, Walking
      <4> QED BY <4>1, <4>2, <2>0, WalkOfOne
    <3> QED BY <3>1, <3>4, <2>w DEF Over, TypeOK, Walking
  <2> QED BY <1>5, <2>1, <2>2, <2>3, <2>4, <2>5, <2>6, <2>7, <2>8, <2>9, <2>10, <2>11, <2>12
      DEF Walks
<1>6. Activate \/ SetFlag \/ Clock \/ (\E e \in Events : Elapses(e))
        \/ (\E m \in Manual : RunNow(m)) \/ (\E t \in Ticks : Ticking(t))
        \/ (\E w \in Workers : TimesOut(w)) \/ UNCHANGED vars => UNCHANGED Walk
  BY DEF Activate, SetFlag, Clock, Elapses, RunNow, Ticking, TickScan, TickAdvance, TickEnqueue,
         TickFind, TickResume, TickEnds, TickDies, TimesOut, vars, Walk
<1> QED BY <1>1, <1>2, <1>3, <1>5, <1>6 DEF Next

-----------------------------------------------------------------------------
(* Theorems.                                                                *)

\* The invariant holds in every reachable state of the workflow engine.
THEOREM Invariance == Spec => []IInv
<1>1. Init => IInv
  BY InitInv
<1>2. IInv /\ [Next]_vars => IInv'
  BY TypeStep, CarriedStep, WalkStep DEF IInv, WInv
<1> QED BY <1>1, <1>2, PTL DEF Spec

\* Every variable keeps its type, and no job fails more than Attempts times.
THEOREM TypeCorrect == Spec => []TypeOK
<1>1. IInv => TypeOK
  BY DEF IInv
<1> QED BY <1>1, Invariance, PTL

\* However starts and resumes are delivered, one worker walks a run.
THEOREM WalkedByOne == Spec => []OneWalker
<1>1. IInv => OneWalker
  BY DEF IInv
<1> QED BY <1>1, Invariance, PTL

\* No node of a run performs its side effect twice.
THEOREM EffectsOnce == Spec => []ActsOnce
<1>1. IInv => ActsOnce
  BY DEF IInv
<1> QED BY <1>1, Invariance, PTL

\* A run that is completed, failed or cancelled stays so.
THEOREM EndIsFinal == Spec => OverIsFinal
<1>1. IInv /\ [Next]_vars => [\A e \in Events : run[e] \in Over => run'[e] = run[e]]_vars
  BY WalkStep DEF IInv, WInv
<1> QED BY <1>1, Invariance, PTL DEF Spec, OverIsFinal
-----------------------------------------------------------------------------
(* Where a walk goes.                                                       *)

\* What the walk of w has before it; what run e has completed; that what follows
\* it is completed, in S or forgotten.
Ahead(w)   == Elems(todo[w]) \cup (IF pc[w] \in {"act", "checkpoint"} THEN {node[w]} ELSE {})
Past(e)    == {n \in Nodes : step[e][n] = "COMPLETED"}
Cleared(e, S) == \A n \in Past(e) : Follows(e, n) \subseteq Past(e) \cup S \cup dropped[e]

LEMMA ElemsOfEmpty == Elems(<<>>) = {}
  BY DEF Elems

LEMMA ElemsType ==
  ASSUME NEW s \in Seq(Nodes)
  PROVE  Elems(s) \subseteq Nodes
  BY ElementOfSeq, LenProperties DEF Elems

LEMMA ElemsOfConcat ==
  ASSUME NEW s \in Seq(Nodes), NEW t \in Seq(Nodes)
  PROVE  /\ Elems(s \o t) = Elems(s) \cup Elems(t)
         /\ Len(s \o t) = Len(s) + Len(t)
<1>1. /\ Len(s) \in Nat /\ Len(t) \in Nat
      /\ DOMAIN s = 1 .. Len(s) /\ DOMAIN t = 1 .. Len(t)
      /\ DOMAIN (s \o t) = 1 .. Len(s) + Len(t) /\ Len(s \o t) = Len(s) + Len(t)
  BY LenProperties, ConcatProperties
<1>2. \A i \in 1 .. Len(s) + Len(t) : (s \o t)[i] = IF i <= Len(s) THEN s[i] ELSE t[i - Len(s)]
  BY ConcatProperties
<1>3. ASSUME NEW n \in Elems(s \o t) PROVE n \in Elems(s) \cup Elems(t)
  <2>1. PICK i \in 1 .. Len(s) + Len(t) : n = (s \o t)[i]
    BY <1>1 DEF Elems
  <2>2. CASE i <= Len(s)
    BY <1>1, <1>2, <2>1, <2>2 DEF Elems
  <2>3. CASE ~(i <= Len(s))
    <3>1. i - Len(s) \in 1 .. Len(t) /\ n = t[i - Len(s)]
      BY <1>1, <1>2, <2>1, <2>3
    <3> QED BY <1>1, <3>1 DEF Elems
  <2> QED BY <2>2, <2>3
<1>4. ASSUME NEW i \in 1 .. Len(s) PROVE s[i] \in Elems(s \o t)
  <2>1. i \in 1 .. Len(s) + Len(t) /\ (s \o t)[i] = s[i]
    BY <1>1, <1>2
  <2> QED BY <1>1, <2>1 DEF Elems
<1>5. ASSUME NEW i \in 1 .. Len(t) PROVE t[i] \in Elems(s \o t)
  <2>1. /\ i + Len(s) \in 1 .. Len(s) + Len(t) /\ ~(i + Len(s) <= Len(s))
        /\ (i + Len(s)) - Len(s) = i
    BY <1>1
  <2>2. (s \o t)[i + Len(s)] = t[i]
    BY <1>2, <2>1
  <2> QED BY <1>1, <2>1, <2>2 DEF Elems
<1>6. Elems(s) \subseteq Elems(s \o t) /\ Elems(t) \subseteq Elems(s \o t)
  BY <1>1, <1>4, <1>5 DEF Elems
<1> QED BY <1>1, <1>3, <1>6

LEMMA ElemsOfAppend ==
  ASSUME NEW s \in Seq(Nodes), NEW n \in Nodes
  PROVE  /\ Elems(Append(s, n)) = Elems(s) \cup {n}
         /\ Len(Append(s, n)) = Len(s) + 1
<1>1. /\ Len(s) \in Nat /\ DOMAIN s = 1 .. Len(s)
      /\ Append(s, n) \in Seq(Nodes) /\ Len(Append(s, n)) = Len(s) + 1
      /\ \A i \in 1 .. Len(s) : Append(s, n)[i] = s[i]
      /\ Append(s, n)[Len(s) + 1] = n
  BY LenProperties, AppendProperties
<1>2. DOMAIN Append(s, n) = 1 .. Len(s) + 1
  BY <1>1, LenProperties
<1>3. \A i \in 1 .. Len(s) + 1 : i \in 1 .. Len(s) \/ i = Len(s) + 1
  BY <1>1
<1>4. \A i \in 1 .. Len(s) : i \in 1 .. Len(s) + 1
  BY <1>1
<1>5. Len(s) + 1 \in 1 .. Len(s) + 1
  BY <1>1
<1> QED BY <1>1, <1>2, <1>3, <1>4, <1>5 DEF Elems

LEMMA ElemsOfTail ==
  ASSUME NEW s \in Seq(Nodes), s # <<>>
  PROVE  /\ Head(s) \in Nodes /\ Tail(s) \in Seq(Nodes)
         /\ Elems(s) = {Head(s)} \cup Elems(Tail(s))
         /\ Len(s) = Len(Tail(s)) + 1 /\ Len(Tail(s)) \in Nat
<1>1. /\ Head(s) \in Nodes /\ Tail(s) \in Seq(Nodes) /\ Len(Tail(s)) = Len(s) - 1
      /\ \A i \in 1 .. Len(Tail(s)) : Tail(s)[i] = s[i + 1]
      /\ Len(s) \in Nat /\ Len(Tail(s)) \in Nat
      /\ DOMAIN s = 1 .. Len(s) /\ DOMAIN Tail(s) = 1 .. Len(Tail(s))
  BY HeadTailProperties, LenProperties
<1>2. Head(s) = s[1]
  BY <1>1
<1>3. \A i \in 1 .. Len(s) : i = 1 \/ (i - 1 \in 1 .. Len(Tail(s)) /\ (i - 1) + 1 = i)
  BY <1>1
<1>4. 1 \in 1 .. Len(s) /\ \A i \in 1 .. Len(Tail(s)) : i + 1 \in 1 .. Len(s)
  BY <1>1
<1>5. ASSUME NEW i \in 1 .. Len(s) PROVE s[i] \in {Head(s)} \cup Elems(Tail(s))
  <2>1. CASE i = 1
    BY <1>2, <2>1
  <2>2. CASE i - 1 \in 1 .. Len(Tail(s)) /\ (i - 1) + 1 = i
    <3>1. Tail(s)[i - 1] = s[i]
      BY <1>1, <2>2
    <3> QED BY <1>1, <2>2, <3>1 DEF Elems
  <2> QED BY <1>3, <2>1, <2>2
<1>6. \A i \in 1 .. Len(Tail(s)) : Tail(s)[i] \in Elems(s)
  BY <1>1, <1>4 DEF Elems
<1>7. Head(s) \in Elems(s)
  BY <1>1, <1>2, <1>4 DEF Elems
<1>8. Elems(s) \subseteq {Head(s)} \cup Elems(Tail(s))
  BY <1>1, <1>5 DEF Elems
<1>9. Elems(Tail(s)) \subseteq Elems(s)
  BY <1>1, <1>6 DEF Elems
<1> QED BY <1>1, <1>7, <1>8, <1>9

\* The branch a condition takes for the subject of e.
LEMMA BranchTaken ==
  ASSUME NEW e, NEW n \in Nodes
  PROVE  Branch[n][(e \in Yes)] \in Nodes
<1>1. \A y \in BOOLEAN : Branch[n][y] \in Nodes
  BY GraphAssumption
<1>2. (e \in Yes) = TRUE \/ (e \in Yes) = FALSE
  OBVIOUS
<1>3. CASE (e \in Yes) = TRUE
  <2>1. Branch[n][(e \in Yes)] = Branch[n][TRUE]
    BY <1>3
  <2> QED BY <1>1, <2>1
<1>4. CASE (e \in Yes) = FALSE
  <2>1. Branch[n][(e \in Yes)] = Branch[n][FALSE]
    BY <1>4
  <2> QED BY <1>1, <2>1
<1> QED BY <1>2, <1>3, <1>4

\* Reach holds the trigger and what follows its nodes, and nothing it need not.
LEMMA ReachFacts ==
  ASSUME NEW e \in Events
  PROVE  /\ Reach[e] \subseteq Nodes /\ Root \in Reach[e]
         /\ \A m \in Reach[e] : Follows(e, m) \subseteq Reach[e]
         /\ \A S \in SUBSET Nodes :
              Root \in S /\ (\A m \in S : Follows(e, m) \subseteq S) => Reach[e] \subseteq S
<1> DEFINE Closed(S) == Root \in S /\ \A m \in S : Follows(e, m) \subseteq S
<1>1. Reach[e] = {n \in Nodes : \A S \in SUBSET Nodes : Closed(S) => n \in S}
  BY DEF Reach
<1>2. Root \in Nodes
  BY GraphAssumption
<1>3. \A m \in Nodes : Follows(e, m) \subseteq Nodes
  <2>1. ASSUME NEW m \in Nodes PROVE After[m] \in Seq(Nodes) /\ Branch[m][(e \in Yes)] \in Nodes
    BY GraphAssumption, BranchTaken
  <2> QED BY <2>1, ElemsType DEF Follows, Elems
<1>4. ASSUME NEW m \in Reach[e], NEW n \in Follows(e, m) PROVE n \in Reach[e]
  BY <1>1, <1>3, <1>4
<1> HIDE DEF Closed
<1>5. \A S \in SUBSET Nodes : Closed(S) => Reach[e] \subseteq S
  BY <1>1
<1>6. Root \in Reach[e]
  BY <1>1, <1>2 DEF Closed
<1> QED BY <1>1, <1>4, <1>5, <1>6 DEF Closed

\* What follows a node that is no condition.
LEMMA FollowsAfter ==
  ASSUME NEW e \in Events, NEW n \in Nodes, Kind[n] # "CONDITION"
  PROVE  Follows(e, n) = Elems(After[n]) /\ After[n] \in Seq(Nodes)
  BY GraphAssumption DEF Follows, Elems

LEMMA FollowsBranch ==
  ASSUME NEW e \in Events, NEW n \in Nodes, Kind[n] = "CONDITION"
  PROVE  Follows(e, n) = {Branch[n][(e \in Yes)]} /\ Branch[n][(e \in Yes)] \in Nodes
  BY BranchTaken DEF Follows
-----------------------------------------------------------------------------
\* What w has before it lies where its subject leads, and it is at the kind of
\* node its place says.
Guided(w) ==
  pc[w] \in Walking =>
    /\ pc[w] # "trigger" => Elems(todo[w]) \subseteq Reach[event(w)]
    /\ pc[w] \in AtNode \cup {"suspend"} => node[w] \in Reach[event(w)]
    /\ pc[w] \in AtNode => Kind[node[w]] = "ACTION"
    /\ pc[w] = "suspend" => Kind[node[w]] = "DELAY"

\* So do the steps of a run, and the delay it waits for.
Marked(e) ==
  /\ \A n \in Nodes : step[e][n] # "NONE" => n \in Reach[e]
  /\ at[e] \in Reach[e]
  /\ run[e] = "WAITING" => Kind[at[e]] = "DELAY"

GuideInv == (\A w \in Workers : Guided(w)) /\ (\A e \in Events : Marked(e))

\* A graph in which a walk has never more than one node before it: GraphAssumption
\* has the trigger alone fan out.
SingleFile == Len(After[Root]) <= 1

LEMMA SingleFileAfter ==
  ASSUME SingleFile, NEW n \in Nodes
  PROVE  Len(After[n]) <= 1
  BY GraphAssumption DEF SingleFile

\* What follows a node that w has passed has been passed or is ahead of w.
Covers(w) ==
  pc[w] \in Walking =>
    /\ IF pc[w] = "trigger" THEN Past(event(w)) = {} ELSE Root \in Past(event(w))
    /\ pc[w] \in {"walk", "act", "checkpoint"} => Cleared(event(w), Ahead(w))
    /\ pc[w] = "suspend" =>
         /\ node[w] \in Past(event(w))
         /\ \A n \in Past(event(w)) \ {node[w]} :
              Follows(event(w), n) \subseteq Past(event(w)) \cup Elems(todo[w])
                                             \cup dropped[event(w)]
    /\ pc[w] = "checkpoint" => done[event(w)][node[w]] = 1
    /\ SingleFile => /\ pc[w] = "walk" => Len(todo[w]) <= 1
                     /\ pc[w] \in AtNode \cup {"suspend"} => todo[w] = <<>>

\* A run that waits has left behind only its delay and what it has forgotten, one
\* that is completed only the latter, and what is completed is done.
Kept(e) ==
  /\ run[e] = "WAITING" =>
       /\ Root \in Past(e)
       /\ \A n \in Past(e) \ {at[e]} : Follows(e, n) \subseteq Past(e) \cup dropped[e]
  /\ run[e] = "COMPLETED" => Root \in Past(e) /\ Cleared(e, {})
  /\ \A n \in Past(e) : Kind[n] = "ACTION" => done[e][n] = 1
  /\ SingleFile => dropped[e] = {}

WholeInv == (\A w \in Workers : Covers(w)) /\ (\A e \in Events : Kept(e))

\* Nobody walks and nothing is marked in the initial state.
LEMMA PathInit == Init => GuideInv /\ WholeInv
<1> SUFFICES ASSUME Init PROVE GuideInv /\ WholeInv
  OBVIOUS
<1>1. \A w \in Workers : pc[w] \notin Walking
  BY DEF Init, Walking
<1>2. \A e \in Events : /\ at[e] = Root /\ run[e] = "NONE" /\ Past(e) = {}
                        /\ \A n \in Nodes : step[e][n] = "NONE"
                        /\ dropped[e] = {}
  BY DEF Init, Past
<1>3. \A e \in Events : Marked(e)
  BY <1>2, ReachFacts DEF Marked
<1>4. \A e \in Events : Kept(e)
  BY <1>2 DEF Kept
<1> QED BY <1>1, <1>3, <1>4 DEF GuideInv, WholeInv, Guided, Covers

\* The rest of the engine while w walks the run of e: other workers, other runs.
Frame(w, e) ==
  /\ e = event(w) /\ job' = job
  /\ \A v \in Workers \ {w} : /\ pc'[v] = pc[v] /\ node'[v] = node[v] /\ todo'[v] = todo[v]
                              /\ pc[v] \in Walking => event(v) # e
  /\ \A f \in Events \ {e} : /\ run'[f] = run[f] /\ at'[f] = at[f]
                             /\ step'[f] = step[f] /\ done'[f] = done[f]
                             /\ dropped'[f] = dropped[f]

LEMMA GuideOfOne ==
  ASSUME GuideInv, NEW w \in Workers, NEW e \in Events, Frame(w, e), Guided(w)', Marked(e)'
  PROVE  GuideInv'
<1>1. ASSUME NEW v \in Workers PROVE Guided(v)'
  <2>1. CASE v = w
    BY <2>1
  <2>2. CASE v # w
    <3>1. /\ pc'[v] = pc[v] /\ node'[v] = node[v] /\ todo'[v] = todo[v] /\ event(v)' = event(v)
      BY <2>2 DEF Frame, event
    <3>2. Guided(v)
      BY DEF GuideInv
    <3> QED BY <3>1, <3>2 DEF Guided
  <2> QED BY <2>1, <2>2
<1>2. ASSUME NEW f \in Events PROVE Marked(f)'
  <2>1. CASE f = e
    BY <2>1
  <2>2. CASE f # e
    <3>1. run'[f] = run[f] /\ at'[f] = at[f] /\ step'[f] = step[f]
      BY <2>2 DEF Frame
    <3>2. Marked(f)
      BY DEF GuideInv
    <3> QED BY <3>1, <3>2 DEF Marked
  <2> QED BY <2>1, <2>2
<1> QED BY <1>1, <1>2 DEF GuideInv

LEMMA WholeOfOne ==
  ASSUME Carried, WholeInv, NEW w \in Workers, NEW e \in Events, Frame(w, e), Covers(w)', Kept(e)'
  PROVE  WholeInv'
<1>1. ASSUME NEW f \in Events, f # e
      PROVE  /\ run'[f] = run[f] /\ at'[f] = at[f] /\ done'[f] = done[f] /\ step'[f] = step[f]
             /\ Past(f)' = Past(f) /\ dropped'[f] = dropped[f]
  BY <1>1 DEF Frame, Past
<1>2. ASSUME NEW v \in Workers PROVE Covers(v)'
  <2>1. CASE v = w
    BY <2>1
  <2>2. CASE v # w
    <3>1. /\ pc'[v] = pc[v] /\ node'[v] = node[v] /\ todo'[v] = todo[v] /\ event(v)' = event(v)
          /\ pc[v] \in Walking => event(v) # e
      BY <2>2 DEF Frame, event
    <3>2. pc[v] \in Walking => event(v) \in Events
      BY DEF Carried, event, Jobs, Walking
    <3>3. pc[v] \in Walking => /\ Past(event(v))' = Past(event(v)) /\ done'[event(v)] = done[event(v)]
                               /\ dropped'[event(v)] = dropped[event(v)]
      BY <1>1, <3>1, <3>2
    <3>4. Covers(v)
      BY DEF WholeInv
    <3> QED BY <3>1, <3>3, <3>4 DEF Covers, Cleared, Ahead
  <2> QED BY <2>1, <2>2
<1>3. ASSUME NEW f \in Events PROVE Kept(f)'
  <2>1. CASE f = e
    BY <2>1
  <2>2. CASE f # e
    <3>1. Kept(f)
      BY DEF WholeInv
    <3> QED BY <1>1, <2>2, <3>1 DEF Kept, Cleared
  <2> QED BY <2>1, <2>2
<1> QED BY <1>2, <1>3 DEF WholeInv

\* A step after which nobody walks who did not, and no row of a run changes but
\* that it may be cancelled.
LEMMA PathStill ==
  ASSUME GuideInv, UNCHANGED <<at, step, done, dropped>>,
         \A e \in Events : run'[e] = run[e] \/ run'[e] = "CANCELLED",
         \A w \in Workers : pc'[w] \in Walking =>
            /\ pc'[w] = pc[w] /\ node'[w] = node[w] /\ todo'[w] = todo[w] /\ job'[w] = job[w]
  PROVE  GuideInv' /\ (WholeInv => WholeInv')
<1>1. \A e \in Events : Past(e)' = Past(e)
  BY DEF Past
<1>2. ASSUME NEW w \in Workers PROVE Guided(w)'
  <2>1. Guided(w)
    BY DEF GuideInv
  <2> QED BY <2>1 DEF Guided, event
<1>3. ASSUME NEW e \in Events PROVE Marked(e)'
  BY DEF GuideInv, Marked
<1>4. ASSUME NEW w \in Workers, WholeInv PROVE Covers(w)'
  <2>1. Covers(w)
    BY <1>4 DEF WholeInv
  <2>2. Past(event(w))' = {n \in Nodes : step[event(w)'][n] = "COMPLETED"}
    BY DEF Past
  <2> QED BY <2>1, <2>2 DEF Covers, Cleared, Ahead, event, Past
<1>5. ASSUME NEW e \in Events, WholeInv PROVE Kept(e)'
  BY <1>1, <1>5 DEF WholeInv, Kept, Cleared
<1> QED BY <1>2, <1>3, <1>4, <1>5 DEF GuideInv, WholeInv

\* What is known of the worker w that walks the run of e.
LEMMA WalkerFacts ==
  ASSUME IInv, NEW w \in Workers, pc[w] \in Walking
  PROVE  /\ event(w) \in Events /\ run[event(w)] = "RUNNING"
         /\ node[w] \in Nodes /\ todo[w] \in Seq(Nodes)
         /\ \A v \in Workers \ {w} : pc[v] \in Walking => event(v) # event(w)
         /\ \A n \in Nodes : /\ done[event(w)][n] \in {0, 1}
                             /\ step[event(w)][n] \in {"NONE", "RUNNING", "COMPLETED", "FAILED"}
<1>1. event(w) \in Events
  BY DEF IInv, Carried, event, Jobs, Walking
<1>2. \A n \in Nodes : done[event(w)][n] \in Nat /\ done[event(w)][n] <= 1
  BY <1>1 DEF IInv, TypeOK, ActsOnce
<1>3. \A n \in Nodes : done[event(w)][n] \in {0, 1}
  BY <1>2
<1> QED BY <1>1, <1>3 DEF IInv, TypeOK, OneWalker

\* The rows of a run in which w walks, and w itself, are all a step of the walk
\* changes.
Alone(w, e) == /\ job' = job
               /\ \A v \in Workers \ {w} : pc'[v] = pc[v] /\ node'[v] = node[v] /\ todo'[v] = todo[v]
               /\ \A f \in Events \ {e} : /\ run'[f] = run[f] /\ at'[f] = at[f]
                                          /\ step'[f] = step[f] /\ done'[f] = done[f]
                                          /\ dropped'[f] = dropped[f]

LEMMA PathOfOne ==
  ASSUME IInv, GuideInv, NEW w \in Workers, NEW e \in Events, e = event(w), Alone(w, e),
         \A v \in Workers \ {w} : pc[v] \in Walking => event(v) # e,
         Guided(w)', Marked(e)', WholeInv => Covers(w)' /\ Kept(e)'
  PROVE  GuideInv' /\ (WholeInv => WholeInv')
<1>1. Frame(w, e)
  BY DEF Frame, Alone
<1>2. Carried
  BY DEF IInv
<1> QED BY <1>1, <1>2, GuideOfOne, WholeOfOne

\* The inserter of a run walks a run nobody has touched.
LEMMA InsertPath ==
  ASSUME IInv, GuideInv, NEW w \in Workers, NEW e, e = event(w), InsertRun(w), run[e] = "NONE"
  PROVE  GuideInv' /\ (WholeInv => WholeInv')
<1>1. e \in Events /\ \A v \in Workers : pc[v] \in Walking => event(v) # e
  BY DEF IInv, Carried, OneWalker, event, Jobs, InsertRun
<1>2. /\ Alone(w, e) /\ event(w)' = e
      /\ pc'[w] = "trigger" /\ run'[e] = "RUNNING"
      /\ at'[e] = at[e] /\ step'[e] = step[e] /\ done'[e] = done[e] /\ dropped'[e] = dropped[e]
  BY <1>1 DEF InsertRun, Goes, Alone, event, worker, rows, IInv, TypeOK
<1>3. \A n \in Nodes : step[e][n] = "NONE"
  BY <1>1 DEF IInv, Rests
<1>4. Past(e)' = {}
  BY <1>2, <1>3 DEF Past
<1>5. Guided(w)'
  BY <1>2 DEF Guided, AtNode
<1>6. Marked(e)'
  BY <1>1, <1>2 DEF GuideInv, Marked
<1>7. Covers(w)'
  BY <1>2, <1>3 DEF Covers, AtNode, Past
<1>8. ASSUME WholeInv PROVE Kept(e)'
  BY <1>1, <1>2, <1>4, <1>8 DEF WholeInv, Kept
<1> QED BY <1>1, <1>2, <1>5, <1>6, <1>7, <1>8, PathOfOne

\* The trigger's step, and its successors.
LEMMA TriggerPath ==
  ASSUME IInv, GuideInv, NEW w \in Workers, NEW e, e = event(w), Trigger(w)
  PROVE  GuideInv' /\ (WholeInv => WholeInv')
<1>0. pc[w] = "trigger" /\ pc[w] \in Walking /\ Root \in Nodes
  BY GraphAssumption DEF Trigger, Walking
<1>1. /\ e \in Events /\ run[e] = "RUNNING"
      /\ \A v \in Workers \ {w} : pc[v] \in Walking => event(v) # e
  BY <1>0, WalkerFacts
<1>2. /\ Alone(w, e) /\ event(w)' = e
      /\ pc'[w] = "walk" /\ todo'[w] = After[Root] /\ run'[e] = run[e]
      /\ at'[e] = at[e] /\ done'[e] = done[e] /\ dropped'[e] = dropped[e]
  BY <1>0, <1>1 DEF Trigger, Goes, Alone, event, worker, rows, IInv, TypeOK
<1>3. \A n \in Nodes : step'[e][n] = IF n = Root THEN "COMPLETED" ELSE step[e][n]
  BY <1>0, <1>1 DEF Trigger, IInv, TypeOK
<1>4. /\ Follows(e, Root) = Elems(After[Root]) /\ Kind[Root] = "TRIGGER"
      /\ Elems(After[Root]) \subseteq Reach[e] /\ Root \in Reach[e]
  <2>1. Kind[Root] = "TRIGGER"
    BY <1>0, GraphAssumption
  <2>2. Follows(e, Root) = Elems(After[Root])
    BY <1>0, <1>1, <2>1, FollowsAfter
  <2> QED BY <1>1, <2>1, <2>2, ReachFacts
<1>5. Guided(w)'
  BY <1>2, <1>4 DEF Guided, AtNode
<1>6. Marked(e)'
  BY <1>1, <1>2, <1>3, <1>4 DEF GuideInv, Marked
<1>7. ASSUME WholeInv PROVE Covers(w)' /\ Kept(e)'
  <2>1. Past(e) = {}
    BY <1>0, <1>7 DEF WholeInv, Covers
  <2>2. Past(e)' = {Root}
    BY <1>0, <1>3, <2>1 DEF Past
  <2>3. Cleared(e, Ahead(w))'
    BY <1>2, <1>4, <2>2 DEF Cleared, Ahead
  <2>4. SingleFile => Len(todo'[w]) <= 1
    BY <1>0, <1>2, SingleFileAfter
  <2>5. Covers(w)'
    BY <1>2, <2>2, <2>3, <2>4 DEF Covers, AtNode
  <2>6. Kept(e)'
    BY <1>1, <1>2, <1>4, <1>7, <2>2 DEF WholeInv, Kept
  <2> QED BY <2>5, <2>6
<1> QED BY <1>1, <1>2, <1>5, <1>6, <1>7, PathOfOne

\* A claimed run goes on behind its delay.
LEMMA ClaimPath ==
  ASSUME IInv, GuideInv, NEW w \in Workers, NEW e, e = event(w), ClaimRun(w), run[e] = "WAITING", ready[e]
  PROVE  GuideInv' /\ (WholeInv => WholeInv')
<1>1. e \in Events /\ \A v \in Workers : pc[v] \in Walking => event(v) # e
  BY DEF IInv, Carried, OneWalker, event, Jobs, ClaimRun
<1>2. /\ Alone(w, e) /\ event(w)' = e
      /\ pc'[w] = "walk" /\ run'[e] = "RUNNING" /\ todo'[w] = After[at[e]]
      /\ at'[e] = at[e] /\ step'[e] = step[e] /\ done'[e] = done[e] /\ dropped'[e] = dropped[e]
  BY <1>1 DEF ClaimRun, Goes, Alone, event, worker, rows, IInv, TypeOK
<1>3. Marked(e) /\ Kind[at[e]] = "DELAY"
  BY <1>1 DEF GuideInv, Marked
<1>4. /\ at[e] \in Nodes /\ at[e] \in Reach[e] /\ Follows(e, at[e]) = Elems(After[at[e]])
      /\ Elems(After[at[e]]) \subseteq Reach[e]
  BY <1>1, <1>3, ReachFacts, FollowsAfter DEF Marked
<1>5. Guided(w)'
  BY <1>2, <1>4 DEF Guided, AtNode
<1>6. Marked(e)'
  BY <1>2, <1>3 DEF Marked
<1>7. ASSUME WholeInv PROVE Covers(w)' /\ Kept(e)'
  <2>1. Kept(e) /\ Past(e)' = Past(e) /\ run[e] = "WAITING"
    BY <1>1, <1>2, <1>7 DEF WholeInv, Past
  <2>2. /\ Root \in Past(e)
        /\ \A n \in Past(e) \ {at[e]} : Follows(e, n) \subseteq Past(e) \cup dropped[e]
    BY <2>1 DEF Kept
  <2>3. Cleared(e, Ahead(w))'
    BY <1>2, <1>4, <2>1, <2>2 DEF Cleared, Ahead
  <2>4. SingleFile => Len(todo'[w]) <= 1
    BY <1>2, <1>4, SingleFileAfter
  <2>5. Covers(w)'
    BY <1>2, <2>1, <2>2, <2>3, <2>4 DEF Covers, AtNode
  <2>6. Kept(e)'
    BY <1>2, <2>1 DEF Kept
  <2> QED BY <2>5, <2>6
<1> QED BY <1>1, <1>2, <1>5, <1>6, <1>7, PathOfOne

\* An empty queue holds at most what one node adds.
LEMMA ShortAppend ==
  ASSUME NEW n \in Nodes
  PROVE  Len(Append(<<>>, n)) <= 1
<1>1. <<>> \in Seq(Nodes) /\ Len(<<>>) = 0
  BY EmptySeq
<1>2. Len(Append(<<>>, n)) = Len(<<>>) + 1
  BY <1>1, ElemsOfAppend
<1> QED BY <1>1, <1>2

LEMMA ShortConcat ==
  ASSUME NEW t \in Seq(Nodes), Len(t) <= 1
  PROVE  Len(<<>> \o t) <= 1
  BY ConcatEmptySeq

\* What the walk takes off the head of its queue.
LEMMA HeadFacts ==
  ASSUME IInv, NEW w \in Workers, NEW kinds, AtHead(w, kinds)
  PROVE  /\ pc[w] = "walk" /\ pc[w] \in Walking
         /\ Head(todo[w]) \in Nodes /\ Kind[Head(todo[w])] \in kinds
         /\ Tail(todo[w]) \in Seq(Nodes)
         /\ Elems(todo[w]) = {Head(todo[w])} \cup Elems(Tail(todo[w]))
         /\ Len(todo[w]) <= 1 => Tail(todo[w]) = <<>>
<1>1. todo[w] \in Seq(Nodes) /\ todo[w] # <<>>
  BY DEF AtHead, IInv, TypeOK
<1>2. /\ Head(todo[w]) \in Nodes /\ Tail(todo[w]) \in Seq(Nodes)
      /\ Elems(todo[w]) = {Head(todo[w])} \cup Elems(Tail(todo[w]))
      /\ Len(todo[w]) = Len(Tail(todo[w])) + 1 /\ Len(Tail(todo[w])) \in Nat
  BY <1>1, ElemsOfTail
<1>3. Len(todo[w]) <= 1 => Tail(todo[w]) = <<>>
  <2> DEFINE k == Len(todo[w])
             l == Len(Tail(todo[w]))
  <2>1. k = l + 1 /\ l \in Nat
    BY <1>2
  <2> HIDE DEF k, l
  <2>2. k <= 1 => l = 0
    BY <2>1
  <2>3. l = 0 => Tail(todo[w]) = <<>>
    BY <1>2, EmptySeq DEF l
  <2> QED BY <2>2, <2>3 DEF k
<1> QED BY <1>2, <1>3 DEF AtHead, Walking

\* A condition leads to the branch its subject takes.
LEMMA EvaluatePath ==
  ASSUME IInv, GuideInv, NEW w \in Workers, NEW e, e = event(w), Evaluate(w)
  PROVE  GuideInv' /\ (WholeInv => WholeInv')
<1> DEFINE b == Branch[Head(todo[w])][(e \in Yes)]
<1>n. PICK n \in Nodes : n = Head(todo[w])
  BY HeadFacts DEF Evaluate
<1>0. /\ pc[w] = "walk" /\ pc[w] \in Walking /\ Kind[n] = "CONDITION"
      /\ Tail(todo[w]) \in Seq(Nodes) /\ Elems(todo[w]) = {n} \cup Elems(Tail(todo[w]))
      /\ Len(todo[w]) <= 1 => Tail(todo[w]) = <<>>
  BY <1>n, HeadFacts DEF Evaluate
<1>1. /\ e \in Events /\ run[e] = "RUNNING"
      /\ \A v \in Workers \ {w} : pc[v] \in Walking => event(v) # e
  BY <1>0, WalkerFacts
<1>2. /\ Alone(w, e) /\ event(w)' = e
      /\ pc'[w] = "walk" /\ todo'[w] = Append(Tail(todo[w]), b) /\ run'[e] = run[e]
      /\ at'[e] = at[e] /\ done'[e] = done[e] /\ dropped'[e] = dropped[e]
  BY <1>0, <1>1 DEF Evaluate, Completes, Alone, event, worker, rows, IInv, TypeOK
<1>3. \A m \in Nodes : step'[e][m] = IF m = n THEN "COMPLETED" ELSE step[e][m]
  BY <1>n, <1>1 DEF Evaluate, Completes, IInv, TypeOK
<1>4. Follows(e, n) = {b} /\ b \in Nodes
  BY <1>n, <1>0, <1>1, FollowsBranch
<1> HIDE DEF b
<1>5. /\ Elems(todo'[w]) = Elems(Tail(todo[w])) \cup {b}
      /\ Len(todo'[w]) = Len(Tail(todo[w])) + 1
  BY <1>0, <1>2, <1>4, ElemsOfAppend
<1>6. Elems(todo[w]) \subseteq Reach[e] /\ n \in Reach[e] /\ b \in Reach[e]
  <2>1. Elems(todo[w]) \subseteq Reach[e]
    BY <1>0 DEF GuideInv, Guided
  <2> QED BY <1>0, <1>1, <1>4, <2>1, ReachFacts
<1>7. Guided(w)'
  BY <1>0, <1>2, <1>5, <1>6 DEF Guided, AtNode
<1>8. Marked(e)'
  BY <1>1, <1>2, <1>3, <1>6 DEF GuideInv, Marked
<1>9. ASSUME WholeInv PROVE Covers(w)' /\ Kept(e)'
  <2>1. Past(e)' = Past(e) \cup {n}
    BY <1>3 DEF Past
  <2>2. Root \in Past(e) /\ Cleared(e, Elems(todo[w])) /\ (SingleFile => Len(todo[w]) <= 1)
    <3>1. Ahead(w) = Elems(todo[w])
      BY <1>0 DEF Ahead
    <3> QED BY <1>0, <1>9, <3>1 DEF WholeInv, Covers
  <2>3. Cleared(e, Ahead(w))'
    BY <1>0, <1>2, <1>4, <1>5, <2>1, <2>2 DEF Cleared, Ahead
  <2>4. SingleFile => Len(todo'[w]) <= 1
    <3>1. SingleFile => Tail(todo[w]) = <<>>
      BY <1>0, <2>2
    <3> QED BY <1>2, <1>4, <3>1, ShortAppend
  <2>5. Covers(w)'
    BY <1>2, <2>1, <2>2, <2>3, <2>4 DEF Covers, AtNode
  <2>6. Kept(e)'
    BY <1>0, <1>1, <1>2, <1>9, <2>1 DEF WholeInv, Kept
  <2> QED BY <2>5, <2>6
<1> QED BY <1>1, <1>2, <1>7, <1>8, <1>9, PathOfOne

\* A delay is completed when the walk comes to it.
LEMMA DelayPath ==
  ASSUME IInv, GuideInv, NEW w \in Workers, NEW e, e = event(w), ReachDelay(w)
  PROVE  GuideInv' /\ (WholeInv => WholeInv')
<1>n. PICK n \in Nodes : n = Head(todo[w])
  BY HeadFacts DEF ReachDelay
<1>0. /\ pc[w] = "walk" /\ pc[w] \in Walking /\ Kind[n] = "DELAY"
      /\ Elems(todo[w]) = {n} \cup Elems(Tail(todo[w]))
      /\ Len(todo[w]) <= 1 => Tail(todo[w]) = <<>>
  BY <1>n, HeadFacts DEF ReachDelay
<1>1. /\ e \in Events /\ run[e] = "RUNNING"
      /\ \A v \in Workers \ {w} : pc[v] \in Walking => event(v) # e
  BY <1>0, WalkerFacts
<1>2. /\ Alone(w, e) /\ event(w)' = e
      /\ pc'[w] = "suspend" /\ node'[w] = n /\ todo'[w] = Tail(todo[w]) /\ run'[e] = run[e]
      /\ at'[e] = at[e] /\ done'[e] = done[e] /\ dropped'[e] = dropped[e]
  BY <1>n, <1>0, <1>1 DEF ReachDelay, Completes, Goes, Alone, event, worker, rows, IInv, TypeOK
<1>3. \A m \in Nodes : step'[e][m] = IF m = n THEN "COMPLETED" ELSE step[e][m]
  BY <1>n, <1>1 DEF ReachDelay, Completes, IInv, TypeOK
<1>6. Elems(todo[w]) \subseteq Reach[e] /\ n \in Reach[e]
  BY <1>0 DEF GuideInv, Guided
<1>7. Guided(w)'
  BY <1>0, <1>2, <1>6 DEF Guided, AtNode
<1>8. Marked(e)'
  BY <1>1, <1>2, <1>3, <1>6 DEF GuideInv, Marked
<1>9. ASSUME WholeInv PROVE Covers(w)' /\ Kept(e)'
  <2>1. Past(e)' = Past(e) \cup {n}
    BY <1>3 DEF Past
  <2>2. Root \in Past(e) /\ Cleared(e, Elems(todo[w])) /\ (SingleFile => Len(todo[w]) <= 1)
    <3>1. Ahead(w) = Elems(todo[w])
      BY <1>0 DEF Ahead
    <3> QED BY <1>0, <1>9, <3>1 DEF WholeInv, Covers
  <2>3. \A m \in Past(e)' \ {n} : Follows(e, m) \subseteq Past(e)' \cup Elems(todo'[w])
                                                        \cup dropped'[e]
    BY <1>0, <1>2, <2>1, <2>2 DEF Cleared
  <2>4. SingleFile => todo'[w] = <<>>
    BY <1>0, <1>2, <2>2
  <2>5. Covers(w)'
    BY <1>2, <2>1, <2>2, <2>3, <2>4 DEF Covers, AtNode
  <2>6. Kept(e)'
    BY <1>0, <1>1, <1>2, <1>9, <2>1 DEF WholeInv, Kept
  <2> QED BY <2>5, <2>6
<1> QED BY <1>1, <1>2, <1>7, <1>8, <1>9, PathOfOne

\* The run waits, and what its walk had before it is forgotten.
LEMMA SuspendPath ==
  ASSUME IInv, GuideInv, NEW w \in Workers, NEW e, e = event(w), Suspend(w)
  PROVE  GuideInv' /\ (WholeInv => WholeInv')
<1>0. pc[w] = "suspend" /\ pc[w] \in Walking
  BY DEF Suspend, Walking
<1>1. /\ e \in Events /\ run[e] = "RUNNING" /\ node[w] \in Nodes
      /\ \A v \in Workers \ {w} : pc[v] \in Walking => event(v) # e
  BY <1>0, WalkerFacts
<1>2. /\ Alone(w, e) /\ event(w)' = e
      /\ pc'[w] = "idle" /\ run'[e] = "WAITING" /\ at'[e] = node[w]
      /\ step'[e] = step[e] /\ done'[e] = done[e]
      /\ dropped'[e] = dropped[e] \cup Elems(todo[w])
  BY <1>0, <1>1 DEF Suspend, Returns, Alone, event, worker, rows, IInv, TypeOK
<1>3. Kind[node[w]] = "DELAY" /\ node[w] \in Reach[e]
  BY <1>0 DEF GuideInv, Guided
<1>7. Guided(w)'
  BY <1>2 DEF Guided, Walking
<1>8. Marked(e)'
  BY <1>1, <1>2, <1>3 DEF GuideInv, Marked
<1>9. ASSUME WholeInv PROVE Covers(w)' /\ Kept(e)'
  <2>1. Past(e)' = Past(e)
    BY <1>2 DEF Past
  <2>2. /\ Root \in Past(e) /\ node[w] \in Past(e)
        /\ \A m \in Past(e) \ {node[w]} :
             Follows(e, m) \subseteq Past(e) \cup Elems(todo[w]) \cup dropped[e]
        /\ SingleFile => todo[w] = <<>>
    BY <1>0, <1>9 DEF WholeInv, Covers
  <2>3. Kept(e)
    BY <1>1, <1>9 DEF WholeInv
  <2>4. SingleFile => dropped'[e] = {}
    BY <1>2, <2>2, <2>3, ElemsOfEmpty DEF Kept
  <2>5. Kept(e)'
    BY <1>1, <1>2, <2>1, <2>2, <2>3, <2>4 DEF Kept
  <2>6. Covers(w)'
    BY <1>2 DEF Covers, Walking
  <2> QED BY <2>5, <2>6
<1> QED BY <1>1, <1>2, <1>7, <1>8, <1>9, PathOfOne

\* An action that is completed is passed, any other is claimed.
LEMMA ClaimStepPath ==
  ASSUME IInv, GuideInv, NEW w \in Workers, NEW e, e = event(w), ClaimStep(w)
  PROVE  GuideInv' /\ (WholeInv => WholeInv')
<1>n. PICK n \in Nodes : n = Head(todo[w])
  BY HeadFacts DEF ClaimStep
<1>0. /\ pc[w] = "walk" /\ pc[w] \in Walking /\ Kind[n] = "ACTION"
      /\ Tail(todo[w]) \in Seq(Nodes) /\ Elems(todo[w]) = {n} \cup Elems(Tail(todo[w]))
      /\ Len(todo[w]) <= 1 => Tail(todo[w]) = <<>>
  BY <1>n, HeadFacts DEF ClaimStep
<1>1. /\ e \in Events /\ run[e] = "RUNNING"
      /\ \A v \in Workers \ {w} : pc[v] \in Walking => event(v) # e
  BY <1>0, WalkerFacts
<1>2. Follows(e, n) = Elems(After[n]) /\ After[n] \in Seq(Nodes)
  BY <1>0, <1>1, FollowsAfter
<1>3. Elems(todo[w]) \subseteq Reach[e] /\ n \in Reach[e] /\ Elems(After[n]) \subseteq Reach[e]
  <2>1. Elems(todo[w]) \subseteq Reach[e]
    BY <1>0 DEF GuideInv, Guided
  <2> QED BY <1>0, <1>1, <1>2, <2>1, ReachFacts
<1>4. ASSUME WholeInv
      PROVE  Root \in Past(e) /\ Cleared(e, Elems(todo[w])) /\ (SingleFile => Tail(todo[w]) = <<>>)
  <2>1. Ahead(w) = Elems(todo[w])
    BY <1>0 DEF Ahead
  <2>2. Covers(w)
    BY <1>4 DEF WholeInv
  <2> QED BY <1>0, <2>1, <2>2 DEF Covers
<1>5. CASE step[e][n] = "COMPLETED"
  <2>1. /\ Alone(w, e) /\ event(w)' = e
        /\ pc'[w] = "walk" /\ todo'[w] = Tail(todo[w]) \o After[n] /\ run'[e] = run[e]
        /\ at'[e] = at[e] /\ done'[e] = done[e] /\ step'[e] = step[e]
        /\ dropped'[e] = dropped[e]
    BY <1>n, <1>0, <1>1, <1>5 DEF ClaimStep, Alone, event, worker, rows, IInv, TypeOK
  <2>2. /\ Elems(todo'[w]) = Elems(Tail(todo[w])) \cup Elems(After[n])
        /\ Len(todo'[w]) = Len(Tail(todo[w])) + Len(After[n])
    BY <1>0, <1>2, <2>1, ElemsOfConcat
  <2>3. Guided(w)'
    BY <1>0, <1>3, <2>1, <2>2 DEF Guided, AtNode
  <2>4. Marked(e)'
    BY <1>1, <2>1 DEF GuideInv, Marked
  <2>5. ASSUME WholeInv PROVE Covers(w)' /\ Kept(e)'
    <3>1. Past(e)' = Past(e) /\ n \in Past(e)
      BY <1>5, <2>1 DEF Past
    <3>2. Cleared(e, Ahead(w))'
      BY <1>0, <1>2, <1>4, <2>1, <2>2, <2>5, <3>1 DEF Cleared, Ahead
    <3>3. SingleFile => Len(todo'[w]) <= 1
      <4>1. SingleFile => Tail(todo[w]) = <<>> /\ Len(After[n]) <= 1
        BY <1>0, <1>4, <2>5, SingleFileAfter
      <4> QED BY <1>2, <2>1, <4>1, ShortConcat
    <3>4. Covers(w)'
      BY <1>4, <2>1, <2>5, <3>1, <3>2, <3>3 DEF Covers, AtNode
    <3>5. Kept(e)'
      BY <1>1, <2>1, <2>5, <3>1 DEF WholeInv, Kept
    <3> QED BY <3>4, <3>5
  <2> QED BY <1>1, <2>1, <2>3, <2>4, <2>5, PathOfOne
<1>6. CASE step[e][n] # "COMPLETED"
  <2>1. /\ Alone(w, e) /\ event(w)' = e
        /\ pc'[w] = "act" /\ todo'[w] = Tail(todo[w]) /\ node'[w] = n /\ run'[e] = run[e]
        /\ at'[e] = at[e] /\ done'[e] = done[e] /\ dropped'[e] = dropped[e]
    BY <1>n, <1>0, <1>1, <1>6 DEF ClaimStep, Goes, Alone, event, worker, rows, IInv, TypeOK
  <2>2. \A m \in Nodes : step'[e][m] = IF m = n THEN "RUNNING" ELSE step[e][m]
    <3>1. step[e][n] = "NONE"
      BY <1>0, <1>6 DEF IInv, Visits, AtNode
    <3>2. step' = [step EXCEPT ![e] = [step[e] EXCEPT ![n] =
                                 IF step[e][n] = "NONE" THEN "RUNNING" ELSE step[e][n]]]
      BY <1>n, <1>6 DEF ClaimStep
    <3>3. step' = [step EXCEPT ![e] = [step[e] EXCEPT ![n] = "RUNNING"]]
      BY <3>1, <3>2
    <3> QED BY <1>1, <3>3 DEF IInv, TypeOK
  <2>3. Guided(w)'
    BY <1>0, <1>3, <2>1 DEF Guided, AtNode
  <2>4. Marked(e)'
    BY <1>1, <1>3, <2>1, <2>2 DEF GuideInv, Marked
  <2>5. ASSUME WholeInv PROVE Covers(w)' /\ Kept(e)'
    <3>1. Past(e)' = Past(e)
      BY <1>6, <2>2 DEF Past
    <3>2. Cleared(e, Ahead(w))'
      BY <1>0, <1>4, <2>1, <2>5, <3>1 DEF Cleared, Ahead
    <3>3. Covers(w)'
      BY <1>4, <2>1, <2>5, <3>1, <3>2 DEF Covers, AtNode
    <3>4. Kept(e)'
      BY <1>1, <2>1, <2>5, <3>1 DEF WholeInv, Kept
    <3> QED BY <3>3, <3>4
  <2> QED BY <1>1, <2>1, <2>3, <2>4, <2>5, PathOfOne
<1> QED BY <1>5, <1>6

\* The action is performed, or refused.
LEMMA ActPath ==
  ASSUME IInv, GuideInv, NEW w \in Workers, NEW e, e = event(w), Act(w)
  PROVE  GuideInv' /\ (WholeInv => WholeInv')
<1>0. pc[w] = "act" /\ pc[w] \in Walking
  BY DEF Act, Walking
<1>1. /\ e \in Events /\ run[e] = "RUNNING" /\ node[w] \in Nodes
      /\ \A v \in Workers \ {w} : pc[v] \in Walking => event(v) # e
  BY <1>0, WalkerFacts
<1>2. step[e][node[w]] = "RUNNING" /\ done[e][node[w]] = 0
  BY <1>0 DEF IInv, Visits, AtNode
<1>3. /\ Alone(w, e) /\ event(w)' = e
      /\ pc'[w] \in {"checkpoint", "fail"} /\ todo'[w] = todo[w] /\ node'[w] = node[w]
      /\ run'[e] = run[e] /\ at'[e] = at[e] /\ step'[e] = step[e] /\ dropped'[e] = dropped[e]
  BY <1>0, <1>1 DEF Act, Goes, Alone, event, worker, rows, IInv, TypeOK
<1>4. /\ pc'[w] = "checkpoint" => done'[e][node[w]] = 1
      /\ \A m \in Nodes \ {node[w]} : done'[e][m] = done[e][m]
  BY <1>0, <1>1, <1>2 DEF Act, Goes, IInv, TypeOK
<1>5. Guided(w)'
  BY <1>0, <1>3 DEF GuideInv, Guided, AtNode
<1>6. Marked(e)'
  BY <1>1, <1>3 DEF GuideInv, Marked
<1>7. ASSUME WholeInv PROVE Covers(w)' /\ Kept(e)'
  <2>1. Past(e)' = Past(e) /\ node[w] \notin Past(e)
    BY <1>2, <1>3 DEF Past
  <2>2. Covers(w)
    BY <1>7 DEF WholeInv
  <2>3. pc'[w] = "checkpoint" => Ahead(w)' = Ahead(w)
    BY <1>0, <1>3 DEF Ahead
  <2>4. pc'[w] = "checkpoint" => Cleared(e, Ahead(w))'
    BY <1>0, <1>3, <2>1, <2>2, <2>3 DEF Covers, Cleared
  <2>5. Covers(w)'
    BY <1>0, <1>3, <1>4, <2>1, <2>2, <2>4 DEF Covers, AtNode
  <2>6. Kept(e)
    BY <1>1, <1>7 DEF WholeInv
  <2>7. \A m \in Past(e) : done'[e][m] = done[e][m]
    BY <1>4, <2>1 DEF Past
  <2>8. Kept(e)'
    BY <1>1, <1>3, <2>1, <2>6, <2>7 DEF Kept
  <2> QED BY <2>5, <2>8
<1> QED BY <1>1, <1>3, <1>5, <1>6, <1>7, PathOfOne

\* A performed action is completed, and its successors are next.
LEMMA CheckpointPath ==
  ASSUME IInv, GuideInv, NEW w \in Workers, NEW e, e = event(w), Checkpoint(w)
  PROVE  GuideInv' /\ (WholeInv => WholeInv')
<1>n. PICK n \in Nodes : n = node[w]
  BY DEF IInv, TypeOK
<1>0. pc[w] = "checkpoint" /\ pc[w] \in Walking
  BY DEF Checkpoint, Walking
<1>1. /\ e \in Events /\ run[e] = "RUNNING" /\ todo[w] \in Seq(Nodes)
      /\ \A v \in Workers \ {w} : pc[v] \in Walking => event(v) # e
  BY <1>0, WalkerFacts
<1>2. /\ Alone(w, e) /\ event(w)' = e
      /\ pc'[w] = "walk" /\ todo'[w] = todo[w] \o After[n] /\ run'[e] = run[e]
      /\ at'[e] = at[e] /\ done'[e] = done[e] /\ dropped'[e] = dropped[e]
  BY <1>n, <1>0, <1>1 DEF Checkpoint, Completes, Goes, Alone, event, worker, rows, IInv, TypeOK
<1>3. \A m \in Nodes : step'[e][m] = IF m = n THEN "COMPLETED" ELSE step[e][m]
  BY <1>n, <1>1 DEF Checkpoint, Completes, IInv, TypeOK
<1>4. n \in Reach[e] /\ Kind[n] = "ACTION" /\ Elems(todo[w]) \subseteq Reach[e]
  BY <1>n, <1>0 DEF GuideInv, Guided, AtNode
<1>5. Follows(e, n) = Elems(After[n]) /\ After[n] \in Seq(Nodes) /\ Elems(After[n]) \subseteq Reach[e]
  <2>1. Follows(e, n) = Elems(After[n]) /\ After[n] \in Seq(Nodes)
    BY <1>1, <1>4, FollowsAfter
  <2> QED BY <1>1, <1>4, <2>1, ReachFacts
<1>6. /\ Elems(todo'[w]) = Elems(todo[w]) \cup Elems(After[n])
      /\ Len(todo'[w]) = Len(todo[w]) + Len(After[n])
  BY <1>1, <1>2, <1>5, ElemsOfConcat
<1>7. Guided(w)'
  BY <1>2, <1>4, <1>5, <1>6 DEF Guided, AtNode
<1>8. Marked(e)'
  BY <1>1, <1>2, <1>3, <1>4 DEF GuideInv, Marked
<1>9. ASSUME WholeInv PROVE Covers(w)' /\ Kept(e)'
  <2>1. Past(e)' = Past(e) \cup {n}
    BY <1>3 DEF Past
  <2>2. Covers(w)
    BY <1>9 DEF WholeInv
  <2>3. /\ Root \in Past(e) /\ Cleared(e, Elems(todo[w]) \cup {n}) /\ done[e][n] = 1
        /\ SingleFile => todo[w] = <<>>
    <3>1. Ahead(w) = Elems(todo[w]) \cup {n}
      BY <1>n, <1>0 DEF Ahead
    <3> QED BY <1>n, <1>0, <2>2, <3>1 DEF Covers, AtNode
  <2>4. Cleared(e, Ahead(w))'
    BY <1>2, <1>5, <1>6, <2>1, <2>3 DEF Cleared, Ahead
  <2>5. SingleFile => Len(todo'[w]) <= 1
    <3>1. SingleFile => todo[w] = <<>> /\ Len(After[n]) <= 1
      BY <2>3, SingleFileAfter
    <3> QED BY <1>2, <1>5, <3>1, ShortConcat
  <2>6. Covers(w)'
    BY <1>2, <2>1, <2>3, <2>4, <2>5 DEF Covers, AtNode
  <2>7. Kept(e)'
    BY <1>1, <1>2, <1>9, <2>1, <2>3 DEF WholeInv, Kept
  <2> QED BY <2>6, <2>7
<1> QED BY <1>1, <1>2, <1>7, <1>8, <1>9, PathOfOne

\* The checkpoint fails, and the action is taken for a failure.
LEMMA CheckpointFailsPath ==
  ASSUME IInv, GuideInv, NEW w \in Workers, NEW e, e = event(w), CheckpointFails(w)
  PROVE  GuideInv' /\ (WholeInv => WholeInv')
<1>0. pc[w] = "checkpoint" /\ pc[w] \in Walking
  BY DEF CheckpointFails, Walking
<1>1. /\ e \in Events /\ run[e] = "RUNNING"
      /\ \A v \in Workers \ {w} : pc[v] \in Walking => event(v) # e
  BY <1>0, WalkerFacts
<1>2. /\ Alone(w, e) /\ event(w)' = e
      /\ pc'[w] = "fail" /\ todo'[w] = todo[w] /\ node'[w] = node[w] /\ run'[e] = run[e]
      /\ at'[e] = at[e] /\ step'[e] = step[e] /\ done'[e] = done[e] /\ dropped'[e] = dropped[e]
  BY <1>0, <1>1 DEF CheckpointFails, Goes, Alone, event, worker, rows, IInv, TypeOK
<1>3. Guided(w)'
  BY <1>0, <1>2 DEF GuideInv, Guided, AtNode
<1>4. Marked(e)'
  BY <1>1, <1>2 DEF GuideInv, Marked
<1>5. ASSUME WholeInv PROVE Covers(w)' /\ Kept(e)'
  <2>1. Past(e)' = Past(e)
    BY <1>2 DEF Past
  <2>2. Covers(w)'
    BY <1>0, <1>2, <1>5, <2>1 DEF WholeInv, Covers, AtNode
  <2>3. Kept(e)'
    BY <1>1, <1>2, <1>5, <2>1 DEF WholeInv, Kept
  <2> QED BY <2>2, <2>3
<1> QED BY <1>1, <1>2, <1>3, <1>4, <1>5, PathOfOne

\* The step and its run fail.
LEMMA FailPath ==
  ASSUME IInv, GuideInv, NEW w \in Workers, NEW e, e = event(w), FailStepAndRun(w)
  PROVE  GuideInv' /\ (WholeInv => WholeInv')
<1>0. pc[w] = "fail" /\ pc[w] \in Walking
  BY DEF FailStepAndRun, Walking
<1>1. /\ e \in Events /\ run[e] = "RUNNING" /\ node[w] \in Nodes
      /\ \A v \in Workers \ {w} : pc[v] \in Walking => event(v) # e
  BY <1>0, WalkerFacts
<1>2. step[e][node[w]] = "RUNNING" /\ node[w] \in Reach[e]
  BY <1>0 DEF IInv, Visits, AtNode, GuideInv, Guided
<1>3. /\ Alone(w, e) /\ event(w)' = e
      /\ pc'[w] = "idle" /\ run'[e] = "FAILED" /\ at'[e] = at[e] /\ done'[e] = done[e] /\ dropped'[e] = dropped[e]
  BY <1>0, <1>1 DEF FailStepAndRun, Returns, Alone, event, worker, rows, IInv, TypeOK
<1>4. \A m \in Nodes : step'[e][m] = IF m = node[w] THEN "FAILED" ELSE step[e][m]
  BY <1>1 DEF FailStepAndRun, IInv, TypeOK
<1>5. Guided(w)'
  BY <1>3 DEF Guided, Walking
<1>6. Marked(e)'
  BY <1>1, <1>2, <1>3, <1>4 DEF GuideInv, Marked
<1>7. ASSUME WholeInv PROVE Covers(w)' /\ Kept(e)'
  <2>1. Past(e)' = Past(e)
    BY <1>2, <1>4 DEF Past
  <2>2. Kept(e)'
    BY <1>1, <1>3, <1>7, <2>1 DEF WholeInv, Kept
  <2> QED BY <1>3, <2>2 DEF Covers, Walking
<1> QED BY <1>1, <1>3, <1>5, <1>6, <1>7, PathOfOne

\* A walk with nothing before it has passed all but what is forgotten.
LEMMA CompletePath ==
  ASSUME IInv, GuideInv, NEW w \in Workers, NEW e, e = event(w), CompleteRun(w)
  PROVE  GuideInv' /\ (WholeInv => WholeInv')
<1>0. pc[w] = "walk" /\ pc[w] \in Walking /\ todo[w] = <<>>
  BY DEF CompleteRun, Walking
<1>1. /\ e \in Events /\ run[e] = "RUNNING"
      /\ \A v \in Workers \ {w} : pc[v] \in Walking => event(v) # e
  BY <1>0, WalkerFacts
<1>2. /\ Alone(w, e) /\ event(w)' = e
      /\ pc'[w] = "idle" /\ run'[e] = "COMPLETED" /\ at'[e] = at[e]
      /\ step'[e] = step[e] /\ done'[e] = done[e] /\ dropped'[e] = dropped[e]
  BY <1>0, <1>1 DEF CompleteRun, Returns, Alone, event, worker, rows, IInv, TypeOK
<1>3. Guided(w)'
  BY <1>2 DEF Guided, Walking
<1>4. Marked(e)'
  BY <1>1, <1>2 DEF GuideInv, Marked
<1>5. ASSUME WholeInv PROVE Covers(w)' /\ Kept(e)'
  <2>1. Past(e)' = Past(e) /\ Past(e) \subseteq Nodes
    BY <1>2 DEF Past
  <2>2. Ahead(w) = {}
    BY <1>0, ElemsOfEmpty DEF Ahead
  <2>3. Root \in Past(e) /\ Cleared(e, {})
    BY <1>0, <1>5, <2>2 DEF WholeInv, Covers
  <2>4. Cleared(e, {})'
    BY <1>2, <2>1, <2>3 DEF Cleared
  <2>5. Kept(e)'
    BY <1>1, <1>2, <1>5, <2>1, <2>3, <2>4 DEF WholeInv, Kept
  <2> QED BY <1>2, <2>5 DEF Covers, Walking
<1> QED BY <1>1, <1>2, <1>3, <1>4, <1>5, PathOfOne

\* Every step keeps the walks where their subjects lead, and what they leave out
\* forgotten.
LEMMA PathNext ==
  ASSUME IInv, GuideInv, [Next]_vars
  PROVE  GuideInv' /\ (WholeInv => WholeInv')
<1> USE DEF plan, tick, queue, worker, rows
<1>1. CASE UNCHANGED <<pc, job, todo, node, run, at, step, done, dropped>>
  BY <1>1, PathStill
<1>2. ASSUME NEW w \in Workers, NEW to, to \notin Walking, pc' = [pc EXCEPT ![w] = to],
             \A v \in Workers \ {w} : job'[v] = job[v],
             UNCHANGED <<todo, node, run, at, step, done, dropped>>
      PROVE  GuideInv' /\ (WholeInv => WholeInv')
  <2>1. \A v \in Workers : pc'[v] \in Walking => v # w /\ pc'[v] = pc[v]
    BY <1>2 DEF IInv, TypeOK
  <2> QED BY <1>2, <2>1, PathStill
<1>3. ASSUME NEW status \in {"PAUSED", "ARCHIVED"}, Stop(status)
      PROVE  GuideInv' /\ (WholeInv => WholeInv')
  BY <1>3, PathStill DEF Stop
<1>4. ASSUME NEW w \in Workers, NEW j \in Jobs, Take(w, j)
      PROVE  GuideInv' /\ (WholeInv => WholeInv')
  <2>1. \A v \in Workers \ {w} : job'[v] = job[v]
    BY <1>4 DEF Take, IInv, TypeOK
  <2> QED BY <1>2, <1>4, <2>1 DEF Take, Walking
<1>5. ASSUME NEW w \in Workers, ReadFlag(w) \/ LoadDefinition(w) \/ Dies(w)
      PROVE  GuideInv' /\ (WholeInv => WholeInv')
  BY <1>2, <1>5 DEF ReadFlag, LoadDefinition, Dies, Returns, Goes, Walking, IInv, TypeOK
<1>6. ASSUME NEW w \in Workers, InsertRun(w)
      PROVE  GuideInv' /\ (WholeInv => WholeInv')
  <2>1. CASE run[event(w)] = "NONE"
    BY <1>6, <2>1, InsertPath
  <2>2. CASE run[event(w)] # "NONE"
    BY <1>2, <1>6, <2>2 DEF InsertRun, Returns, Walking
  <2> QED BY <2>1, <2>2
<1>7. ASSUME NEW w \in Workers, ClaimRun(w)
      PROVE  GuideInv' /\ (WholeInv => WholeInv')
  <2>1. CASE run[event(w)] = "WAITING" /\ ready[event(w)]
    BY <1>7, <2>1, ClaimPath
  <2>2. CASE ~(run[event(w)] = "WAITING" /\ ready[event(w)])
    BY <1>2, <1>7, <2>2 DEF ClaimRun, Returns, Walking
  <2> QED BY <2>1, <2>2
<1>8. ASSUME NEW w \in Workers, Walks(w) \/ CheckpointFails(w)
      PROVE  GuideInv' /\ (WholeInv => WholeInv')
  BY <1>5, <1>6, <1>7, <1>8, TriggerPath, EvaluatePath, DelayPath, SuspendPath, ClaimStepPath,
     ActPath, CheckpointPath, CheckpointFailsPath, FailPath, CompletePath DEF Walks
<1>9. Activate \/ SetFlag \/ Clock \/ (\E e \in Events : Elapses(e))
        \/ (\E m \in Manual : RunNow(m)) \/ (\E t \in Ticks : Ticking(t))
        \/ (\E w \in Workers : TimesOut(w)) \/ UNCHANGED vars
        => UNCHANGED <<pc, job, todo, node, run, at, step, done, dropped>>
  BY DEF Activate, SetFlag, Clock, Elapses, RunNow, Ticking, TickScan, TickAdvance, TickEnqueue,
         TickFind, TickResume, TickEnds, TickDies, TimesOut, vars
<1> QED BY <1>1, <1>3, <1>4, <1>5, <1>8, <1>9 DEF Next

-----------------------------------------------------------------------------
\* No node off the branch its subject takes is ever visited, whatever the graph.
THEOREM BranchesAreGated == Spec => []Gated
<1>1. Init => GuideInv
  BY PathInit
<1>2. IInv /\ GuideInv /\ [Next]_vars => GuideInv'
  BY PathNext
<1>3. GuideInv => Gated
  BY DEF GuideInv, Marked, Gated
<1> QED BY <1>1, <1>2, <1>3, Invariance, PTL DEF Spec

\* Whatever the graph, a walk stays on its branch, a completed run has left out
\* only what a delay made it forget, and where the trigger has one successor no
\* walk forgets anything.
THEOREM WalksAreWhole == Spec => []WalksItsBranch
<1>1. Init => GuideInv /\ WholeInv
  BY PathInit
<1>2. IInv /\ GuideInv /\ WholeInv /\ [Next]_vars => GuideInv' /\ WholeInv'
  BY PathNext
<1>3. ASSUME WholeInv PROVE RunsWhole
  <2> SUFFICES ASSUME NEW e \in Events, run[e] = "COMPLETED", NEW n \in Nodes,
                      step[e][n] = "COMPLETED"
               PROVE  /\ step[e][Root] = "COMPLETED"
                      /\ \A m \in Follows(e, n) : step[e][m] = "COMPLETED" \/ m \in dropped[e]
                      /\ Kind[n] = "ACTION" => done[e][n] = 1
    <3>1. \A e \in Events : run[e] = "COMPLETED" => step[e][Root] = "COMPLETED"
      BY <1>3 DEF WholeInv, Kept, Past
    <3> QED BY <3>1 DEF RunsWhole
  <2>1. Kept(e) /\ n \in Past(e)
    BY <1>3 DEF WholeInv, Past
  <2>2. /\ Root \in Past(e) /\ Follows(e, n) \subseteq Past(e) \cup dropped[e]
        /\ Kind[n] = "ACTION" => done[e][n] = 1
    BY <2>1 DEF Kept, Cleared
  <2> QED BY <2>2 DEF Past
<1>4. ASSUME WholeInv PROVE Forgetful
  <2>1. Len(After[Root]) \in Nat
    BY GraphAssumption, LenProperties
  <2>2. \A e \in Events : dropped[e] # {} => ~SingleFile
    BY <1>4 DEF WholeInv, Kept
  <2> QED BY <2>1, <2>2 DEF Forgetful, SingleFile
<1>5. GuideInv => Gated
  BY DEF GuideInv, Marked, Gated
<1>6. GuideInv /\ WholeInv => WalksItsBranch
  BY <1>3, <1>4, <1>5 DEF WalksItsBranch
<1> QED BY <1>1, <1>2, <1>6, Invariance, PTL DEF Spec
=============================================================================
