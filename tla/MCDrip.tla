-------------------------------- MODULE MCDrip --------------------------------
(* Instances of Drip for TLC.                                              *)
EXTENDS Drip, TLC

CONSTANT l1

OneList == <<l1, l1>>

\* Nothing of these properties reads Consent's history.
View == <<sub, acct, orgSup, globalSup, clock, tokens, enrolled, op, dripVars, historyVars>>
===============================================================================
