------------------------------ MODULE MCSyncRun ------------------------------
(* Small instances of SyncRun. *)
EXTENDS SyncRun

CONSTANTS m1, m2, g1, g2, w1, w2

Pass(n, k) == [pages |-> n, keeps |-> k]

\* Collections, custom and smart, both given the run's cursor; and a plain module.
MCPlan == [m \in Modules |-> IF m = m1 THEN <<Pass(2, TRUE), Pass(1, TRUE)>>
                                       ELSE <<Pass(1, TRUE)>>]
=============================================================================
