---------------------------- MODULE HumanApproval ----------------------------
(***************************************************************************)
(* What the human-approval flow of the AI agent promises, with none of its *)
(* machinery: each recommendation is decided once, by a merchant or by the *)
(* merchant's autopilot policy, and the outside world (Shopify, the        *)
(* customers' inboxes) is acted upon for a recommendation only after it    *)
(* has been approved.  ActionExecution is shown to implement it.           *)
(***************************************************************************)
CONSTANTS Recs,       \* recommendations
          Effects     \* the visible effects an approved one may have

VARIABLES decision,   \* decision[r]: how r has been decided
          acted       \* acted[r]: the effects r has had so far

vars == <<decision, acted>>

Verdicts == {"approved", "rejected", "lapsed"}

Init == /\ decision = [r \in Recs |-> "open"]
        /\ acted = [r \in Recs |-> {}]

\* A verdict is given to an open recommendation, and never changed.
Decide(r, v) ==
  /\ decision[r] = "open"
  /\ decision' = [decision EXCEPT ![r] = v]
  /\ UNCHANGED acted

\* Only an approved recommendation has effects.  Repeating one is not
\* excluded here: how often each happens is ActionExecution's business.
Act(r, e) ==
  /\ decision[r] = "approved"
  /\ acted' = [acted EXCEPT ![r] = @ \cup {e}]
  /\ UNCHANGED decision

Next == \E r \in Recs :
          \/ \E v \in Verdicts : Decide(r, v)
          \/ \E e \in Effects : Act(r, e)

Spec == Init /\ [][Next]_vars
==============================================================================
