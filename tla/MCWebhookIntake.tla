--------------------------- MODULE MCWebhookIntake ---------------------------
(* WebhookIntake for TLC: small sets, and the model values of the .cfgs. *)
EXTENDS WebhookIntake

CONSTANTS d1, w1, w2

OneDelivery  == {d1}
TwoListeners == {w1, w2}

==============================================================================
