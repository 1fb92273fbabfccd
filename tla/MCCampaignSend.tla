---------------------------- MODULE MCCampaignSend ----------------------------
(* A small instance of CampaignSend. *)
EXTENDS CampaignSend

CONSTANTS w1, w2
=============================================================================
