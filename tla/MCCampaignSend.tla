--------------------------- MODULE MCCampaignSend ---------------------------
(* Instances of CampaignSend for TLC.                                      *)
EXTENDS CampaignSend, TLC

CONSTANTS m1, m2, w1, w2

\* Two windows that overlap in the last recipient: a fan-out that was
\* delivered twice computed different boundaries.  The recipients without an
\* address that may be mailed are all in the second one.
OverlappingWindows == (m1 :> {1, 2}) @@ (m2 :> {2, 3} \cup Blocked)
\* The two disjoint windows of one fan-out.
DisjointWindows == (m1 :> {1, 2}) @@ (m2 :> {3})

Budgeted(d) == [k \in Disturbances |-> IF k \in DOMAIN d THEN d[k] ELSE 0]

FaultBudget == Budgeted([crash |-> 1, failure |-> 1, lostReply |-> 1, reject |-> 2,
                         duplicate |-> 1])
OperatorBudget == Budgeted([operator |-> 1, halt |-> 1, suppress |-> 1, crash |-> 1,
                            failure |-> 1, reject |-> 2])
RestartBudget == Budgeted([crash |-> 1, reject |-> 1, duplicate |-> 1])

WorkerSymmetry == Permutations(Workers)
=============================================================================
