---------------------------- MODULE JobLifecycle ----------------------------
(***************************************************************************)
(* The lifecycle the queue port promises its handlers (packages/queue/src/ *)
(* port.ts): a job is accepted once while it is in flight, its attempts    *)
(* run one after the other, and it ends exactly once, completed or dead,   *)
(* after at most MaxAttempts of them.  MemoryQueue implements it.          *)
(***************************************************************************)
EXTENDS Naturals

CONSTANTS Ids,          \* job ids
          MaxAttempts   \* attempts of a job, the first included

VARIABLE stage          \* stage[i]: where job i is, and in which attempt

Out     == [at |-> "out", n |-> 0]
Waits(n) == [at |-> "waiting", n |-> n]
Runs(n)  == [at |-> "running", n |-> n]

Init == stage = [i \in Ids |-> Out]

Accept(i) == /\ stage[i] = Out
             /\ stage' = [stage EXCEPT ![i] = Waits(1)]

\* Waiting jobs are started together; those no handler can take end at once.
Turn(started, refused) ==
  /\ \A i \in started \cup refused : stage[i].at = "waiting"
  /\ stage' = [i \in Ids |-> IF i \in refused THEN Out
                             ELSE IF i \in started THEN Runs(stage[i].n)
                             ELSE stage[i]]

Retry(i) == /\ stage[i].at = "running"
            /\ stage[i].n < MaxAttempts
            /\ stage' = [stage EXCEPT ![i] = Waits(stage[i].n + 1)]

End(i) == /\ stage[i].at = "running"
          /\ stage' = [stage EXCEPT ![i] = Out]

\* close() and a crash drop what is in flight.
Drop == stage' = [i \in Ids |-> Out]

Next == \/ \E i \in Ids : Accept(i) \/ Retry(i) \/ End(i)
        \/ \E started, refused \in SUBSET Ids : Turn(started, refused)
        \/ Drop

Spec == Init /\ [][Next]_stage
=============================================================================
