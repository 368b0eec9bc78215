---------------------------- MODULE MCEventPlane ----------------------------
(* Instances of EventPlane for TLC.                                        *)
EXTENDS EventPlane, TLC

CONSTANTS n1, n3, n4, ann, bob, w1, w2, e1

\* One reader opens and bounces, another complains: two hard failures make a breach.
MixedKinds == (n1 :> "open") @@ (n3 :> "bounce") @@ (n4 :> "complaint")
MixedReaders == (n1 :> ann) @@ (n3 :> ann) @@ (n4 :> bob)

Budgeted(crashes, duplicates, saves) ==
    [crash |-> crashes, duplicate |-> duplicates, edit |-> saves]
FaultBudget == Budgeted(1, 1, 1)

WorkerSymmetry == Permutations(Workers)
=============================================================================
