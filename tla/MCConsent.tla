------------------------------ MODULE MCConsent ------------------------------
(* Instances of Consent for TLC.                                           *)
EXTENDS Consent, TLC

HandlerSymmetry == Permutations(Handlers)
==============================================================================
