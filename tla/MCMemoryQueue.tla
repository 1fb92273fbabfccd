--------------------------- MODULE MCMemoryQueue ---------------------------
(* Small instances of MemoryQueue. *)
EXTENDS MemoryQueue

CONSTANTS a, b, f, q1, q2

\* a and b share a queue; f, fired by a schedule, has its own.
MCQueueOf == [i \in Ids |-> IF i = f THEN q2 ELSE q1]
=============================================================================
