--------------------------- MODULE MCSendSchedule ---------------------------
(* Instances of SendSchedule for TLC.                                      *)
EXTENDS SendSchedule, TLC

CONSTANTS w1, w2, q1, q2

\* A window of each worker; together they cover the key space and overlap.
TwoWindows == (w1 :> {1, 2}) @@ (w2 :> {2, 3})
RequestSymmetry == Permutations(Requests)
AllSlices == {{1, 2}, {2, 3}, {1, 2, 3}, {2}}
=============================================================================
