--------------------------- MODULE MCSubscription ---------------------------
(* Small instances of Subscription. *)
EXTENDS Subscription, TLC

CONSTANTS ch1, ch2, u1, u2, k1
=============================================================================
