------------------------------ MODULE MCImport ------------------------------
(* Instances of Import for TLC.                                            *)
EXTENDS Import, TLC

CONSTANT h1     \* a handler of the readers

\* A line that asks for a confirmed subscription, and one that declines.
JoinAndDecline == (1 :> "confirmed") @@ (2 :> "unsubscribed")

ImportBudget == [throw |-> 1, kill |-> 1, write |-> 2, suppress |-> 1, any |-> 3]
=============================================================================
