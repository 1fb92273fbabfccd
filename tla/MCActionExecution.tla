-------------------------- MODULE MCActionExecution --------------------------
(* ActionExecution for TLC: small sets, and the model values of the .cfgs. *)
EXTENDS ActionExecution, TLC

CONSTANTS r1, u1, u2, x1, x2

OneRec       == {r1}
OneUser      == {u1}
TwoUsers     == {u1, u2}
OneAddress   == {x1}
TwoAddresses == {x1, x2}

SomeKinds    == {"ADVISORY", "EMAIL_DISCOUNT"}
EmailKind    == {"EMAIL"}

Symmetry == Permutations(Users) \cup Permutations(Recipients)

==============================================================================
