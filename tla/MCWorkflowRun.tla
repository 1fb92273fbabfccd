---------------------------- MODULE MCWorkflowRun ----------------------------
(* Small instances of WorkflowRun. *)
EXTENDS WorkflowRun

CONSTANTS trig, act1, act2, act3, cond, dly, m1, m2, w1, w2, t1

MCKind == [x \in Nodes |-> CASE x = trig -> "TRIGGER" [] x = cond -> "CONDITION"
                              [] x = dly -> "DELAY" [] OTHER -> "ACTION"]
MCBranch == [x \in Nodes |-> [yes \in BOOLEAN |-> IF yes THEN act2 ELSE dly]]

\* The trigger fans out to cond, act1 and act2, and act1 leads to act3. YES
\* leads to act2 once more, NO to dly and behind it to act2: a walk that takes NO
\* comes to dly with act3 in its queue.
MCJoin == [x \in Nodes |-> CASE x = trig -> <<cond, act1, act2>> [] x = act1 -> <<act3>>
                              [] x = dly -> <<act2>> [] OTHER -> <<>>]

\* One chain: the trigger, a delay, an action.
MCChain == [x \in Nodes |-> CASE x = trig -> <<dly>> [] x = dly -> <<act2>> [] OTHER -> <<>>]
=============================================================================
