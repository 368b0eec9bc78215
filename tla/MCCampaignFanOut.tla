-------------------------- MODULE MCCampaignFanOut --------------------------
(* Instances of CampaignFanOut for TLC.                                    *)
EXTENDS CampaignFanOut, TLC

CONSTANTS w1, w2    \* two concurrent invocations
=============================================================================
