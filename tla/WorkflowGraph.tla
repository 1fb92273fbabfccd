--------------------------- MODULE WorkflowGraph ---------------------------
(***************************************************************************)
(* The definition of a workflow as the merchant draws it, and the validation   *)
(* without which no version of it is saved (packages/automation/src/dag.ts,      *)
(* definition.ts, workflow.service.ts).                                           *)
(*                                                                         *)
(* The configurations of the nodes, their templates and cron expressions are     *)
(* taken as well-formed, and the edges as a set of edges between known nodes:     *)
(* the validation refuses the others before it looks at the graph.                *)
(***************************************************************************)
EXTENDS Naturals, FiniteSets

CONSTANTS Shapes,   \* what may be drawn: functions from node ids to WorkflowNodeKind
          MaxEdges  \* WORKFLOW_LIMITS.maxEdges

VARIABLES shape,    \* the nodes with their kinds
          edges     \* the edges drawn so far

graphVars == <<shape, edges>>

Nodes == DOMAIN shape
Of(kind) == {n \in Nodes : shape[n] = kind}

\* branch is absent, "YES" or "NO".
Edge == [from : Nodes, to : Nodes, branch : {"none", "YES", "NO"}]

\* successorsOf, without a branch.
Out(n) == {e \in edges : e.from = n}
In(n) == {e \in edges : e.to = n}

-----------------------------------------------------------------------------
(* validateWorkflowDefinition.                                              *)

\* No self-loop; a label on the edges of a condition, and on no others.
WellLabelled == \A e \in edges :
  e.from # e.to /\ (shape[e.from] = "CONDITION" <=> e.branch # "none")

\* Mutant: a condition with two edges is taken to have both labels.
CountsOnly == \A n \in Nodes \ Of("TRIGGER") :
  IF shape[n] = "CONDITION" THEN Cardinality(Out(n)) = 2
  ELSE /\ Cardinality(Out(n)) <= 1
       /\ shape[n] = "DELAY" => Out(n) # {}

\* A condition has YES and NO, no other node but the trigger has two successors,
\* and a delay has one.
WellFanned == \A n \in Nodes \ Of("TRIGGER") :
  IF shape[n] = "CONDITION" THEN Cardinality(Out(n)) = 2 /\ Cardinality({e.branch : e \in Out(n)}) = 2
  ELSE /\ Cardinality(Out(n)) <= 1
       /\ shape[n] = "DELAY" => Out(n) # {}

\* topologicalOrder (Kahn): the nodes whose indegree has come to zero in so many rounds.
Removed ==
  LET rounds[i \in 0 .. Cardinality(Nodes)] ==
        IF i = 0 THEN {} ELSE {n \in Nodes : \A e \in In(n) : e.from \in rounds[i - 1]}
  IN rounds[Cardinality(Nodes)]

\* What a search from the given nodes visits along the given edges.
Visited(start, along) ==
  LET rounds[i \in 0 .. Cardinality(Nodes)] ==
        IF i = 0 THEN start
        ELSE rounds[i - 1] \cup {e.to : e \in {f \in along : f.from \in rounds[i - 1]}}
  IN rounds[Cardinality(Nodes)]

Accepted ==
  /\ Cardinality(Of("TRIGGER")) = 1
  /\ WellLabelled
  /\ \A n \in Of("TRIGGER") : In(n) = {}
  /\ WellFanned
  /\ Removed = Nodes
  /\ Visited(Of("TRIGGER"), edges) = Nodes

-----------------------------------------------------------------------------
(* The editor.                                                              *)

Init == shape \in Shapes /\ edges = {}

Draw(e) ==
  /\ Cardinality(edges) < MaxEdges /\ e \notin edges
  /\ edges' = edges \cup {e}
  /\ UNCHANGED shape

GraphNext == \E e \in Edge : Draw(e)

GraphSpec == Init /\ [][GraphNext]_graphVars

-----------------------------------------------------------------------------
(* What a walk needs.  The executor goes from the trigger along every edge of a  *)
(* node, of a condition along the edge of the branch it has evaluated to.          *)

Answers == [Of("CONDITION") -> {"YES", "NO"}]

\* The edges a walk takes if the conditions evaluate to these answers.
Taken(answers) == {e \in edges : shape[e.from] = "CONDITION" => e.branch = answers[e.from]}

\* Whatever the conditions say, the walk comes to an end, a delay or a condition
\* has one node to go on with, an action at most one; and there is no node and no
\* edge that no walk reaches, nor a branch where nothing is decided.
Walkable ==
  /\ \E t \in Nodes : Of("TRIGGER") = {t}
  /\ \A a \in Answers : \A n \in Visited(Of("TRIGGER"), Taken(a)) :
       LET on == {e \in Taken(a) : e.from = n}
       IN /\ n \notin Visited({e.to : e \in on}, Taken(a))
          /\ shape[n] \notin {"TRIGGER"} => Cardinality(on) <= 1
          /\ shape[n] \in {"CONDITION", "DELAY"} => on # {}
  /\ UNION {Visited(Of("TRIGGER"), Taken(a)) : a \in Answers} = Nodes
  /\ UNION {Taken(a) : a \in Answers} = edges
  /\ \A e \in edges : shape[e.from] # "CONDITION" => e.branch = "none"

\* The validation lets through exactly the graphs every walk gets through: it is
\* what the executor, which never looks for a cycle or a missing branch, relies on.
AcceptsTheWalkable == Accepted <=> Walkable

=============================================================================
