---------------------------- MODULE GraphEditor ----------------------------
(***************************************************************************)
(* The canvas on which a workflow is drawn (apps/web/src/pages/automation/:      *)
(* WorkflowsPanel.tsx, WorkflowCanvas.tsx, workflow-builder.ts), against the        *)
(* validation of the server it is drawn for (WorkflowGraph).                         *)
(*                                                                         *)
(* The four kinds of actions are one kind. The configurations of the nodes are    *)
(* PageForms', the layout is left out, and the links are a set: the builder refuses  *)
(* a second link between the same two nodes, so their order decides nothing.          *)
(***************************************************************************)
EXTENDS Naturals, FiniteSets

CONSTANTS MaxNodes,   \* bound: nodes on the canvas (the server takes 24)
          MaxLinks    \* bound: links drawn

VARIABLES
  drawn,    \* the nodes, by their ids: a kind and a number
  links,    \* the links, with the branch of a condition's
  linking   \* connectFromId: the node a new link starts at, or Nowhere

editorVars == <<drawn, links, linking>>

NodeKinds == {"CONDITION", "DELAY", "ACTION"}
Trigger == <<"TRIGGER", 1>>
Nowhere == <<"none", 0>>
KindOf(n) == n[1]

outgoing(n) == {l \in links : l.from = n}

-----------------------------------------------------------------------------
(* workflow-builder.ts.                                                     *)

\* nextNodeId: the first number that is free, a removed node's included.
NextNodeId(kind) ==
  CHOOSE n \in {<<kind, i>> : i \in 1 .. MaxNodes} :
    n \notin drawn /\ \A i \in 1 .. n[2] - 1 : <<kind, i>> \in drawn

AddNode(kind) ==
  /\ Cardinality(drawn) < MaxNodes
  /\ drawn' = drawn \cup {NextNodeId(kind)}
  /\ UNCHANGED <<links, linking>>

RemoveNode(n) ==
  /\ n # Trigger /\ n \in drawn
  /\ drawn' = drawn \ {n}
  /\ links' = {l \in links : n \notin {l.from, l.to}}
  /\ UNCHANGED linking

CanConnect(from, to) ==
  /\ from # to /\ {from, to} \subseteq drawn /\ to # Trigger
  /\ ~\E l \in links : l.from = from /\ l.to = to
  /\ Cardinality(outgoing(from)) < (IF KindOf(from) = "CONDITION" THEN 2 ELSE 1)

\* connectNodes: a condition's first link is its YES, unless there is one.
Branch(from) ==
  CASE KindOf(from) # "CONDITION" -> "none"
    [] \E l \in outgoing(from) : l.branch = "YES" -> "NO"
    [] OTHER -> "YES"

-----------------------------------------------------------------------------
(* The canvas and the panel beside it.                                       *)

\* "Connect to another node...": disabled on the node it was pressed for.
StartLink(n) == n \in drawn /\ linking # n /\ linking' = n /\ UNCHANGED <<drawn, links>>

\* A click on a node while linking. A node removed since, whose id no other one has
\* taken, links nothing: the click only selects.
Click(n) ==
  /\ n \in drawn /\ linking \in drawn
  /\ Cardinality(links) < MaxLinks
  /\ links' = IF CanConnect(linking, n)
              THEN links \cup {[from |-> linking, to |-> n, branch |-> Branch(linking)]}
              ELSE links
  /\ linking' = Nowhere
  /\ UNCHANGED drawn

\* removeEdge: every link between the two.
Disconnect(from, to) ==
  /\ \E l \in links : l.from = from /\ l.to = to
  /\ links' = {l \in links : ~(l.from = from /\ l.to = to)}
  /\ UNCHANGED <<drawn, linking>>

\* A new workflow is its trigger.
Init == drawn = {Trigger} /\ links = {} /\ linking = Nowhere

EditorNext ==
  \/ \E kind \in NodeKinds : AddNode(kind)
  \/ \E n \in drawn : RemoveNode(n) \/ StartLink(n) \/ Click(n)
  \/ \E from, to \in drawn : Disconnect(from, to)

EditorSpec == Init /\ [][EditorNext]_editorVars

-----------------------------------------------------------------------------
(* What the page tells the merchant, and what the server will say.            *)

\* What a search from these nodes reaches in so many steps.
Reached(start) ==
  LET steps[i \in 0 .. Cardinality(drawn)] ==
        IF i = 0 THEN start
        ELSE steps[i - 1] \cup {l.to : l \in {k \in links : k.from \in steps[i - 1]}}
  IN steps[Cardinality(drawn)]

\* cycleExists.
CycleExists == \E n \in drawn : n \in Reached({l.to : l \in outgoing(n)})

\* lintGraph: the codes of the issues.
LintGraph ==
  (IF \E l \in links : l.to = Trigger THEN {"TRIGGER_INCOMING"} ELSE {})
  \cup (IF \E l \in links : ~({l.from, l.to} \subseteq drawn) THEN {"DANGLING_EDGE"} ELSE {})
  \cup (IF \E l \in links : KindOf(l.from) # "CONDITION" /\ l.branch # "none"
        THEN {"BRANCH_ON_NON_CONDITION"} ELSE {})
  \cup (IF \E n \in drawn : /\ KindOf(n) = "CONDITION"
                            /\ ~({"YES", "NO"} \subseteq {l.branch : l \in outgoing(n)})
        THEN {"MISSING_BRANCH"} ELSE {})
  \cup (IF CycleExists THEN {"CYCLE"} ELSE {})
  \cup (IF drawn # Reached({Trigger}) THEN {"UNREACHABLE"} ELSE {})

Server == INSTANCE WorkflowGraph
            WITH Shapes <- {}, MaxEdges <- 48, edges <- links, shape <- [n \in drawn |-> n[1]]

\* Whatever is drawn, removed and drawn again, also from a node that has come back
\* under an old name: no link leads nowhere or into the trigger, a condition's two
\* branches differ and nothing else branches, so that of the issues three can never
\* be shown.
BranchesAreAssigned ==
  /\ LintGraph \cap {"TRIGGER_INCOMING", "DANGLING_EDGE", "BRANCH_ON_NON_CONDITION"} = {}
  /\ \A n \in drawn :
       /\ KindOf(n) # "CONDITION" => Cardinality(outgoing(n)) <= 1
       /\ Cardinality({l.branch : l \in outgoing(n)}) = Cardinality(outgoing(n))

\* The page finds nothing wrong exactly with the graphs the server takes, but for a
\* delay that leads nowhere, which only the server refuses.
LintForetellsTheServer ==
  Server!Accepted <=>
    LintGraph = {} /\ \A n \in drawn : KindOf(n) = "DELAY" => outgoing(n) # {}

=============================================================================
