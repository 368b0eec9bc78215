------------------------------ MODULE MCWinback ------------------------------
(* Instances of Winback for TLC.                                           *)
EXTENDS Winback

Any(n, kinds) == [d \in Disturbances |-> IF d = "any" THEN n ELSE IF d \in kinds THEN 1 ELSE 0]

\* Sweeps that fail and are repeated, while readers click and return and others
\* put a row back that they have read before: any two of the disturbances, each
\* at most once.
SweepBudget == Any(2, Disturbances)
=============================================================================
