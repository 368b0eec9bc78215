--------------------------- MODULE DeliveryLedger ---------------------------
(***************************************************************************)
(* What sending a campaign promises, without queue, claims or invocations: *)
(* one message per recipient, another one only to replace a message whose  *)
(* receipt was lost, one outcome, and a window that is closed only when it *)
(* owes nobody anything.  CampaignSend implements it.                      *)
(***************************************************************************)
EXTENDS Naturals

CONSTANTS
    Recipients,
    Unreachable,   \* recipients without an address that may be mailed
    Windows,
    Members        \* Members[m]: the recipients of window m

VARIABLES
    copies,        \* copies[r]: messages that SES took for r
    lost,          \* of those, the ones whose receipt never came back
    outcome,       \* what the event log says of r
    exempt,        \* recipients that nothing is owed to
    closed         \* windows reported as delivered

lvars == <<copies, lost, outcome, exempt, closed>>

LInit ==
    /\ copies = [r \in Recipients |-> 0]
    /\ lost = [r \in Recipients |-> 0]
    /\ outcome = [r \in Recipients |-> "none"]
    /\ exempt = Unreachable
    /\ closed = {}

\* r is owed a message: no earlier one was received, and none is in doubt.
Owed(r) == outcome[r] = "none" /\ copies[r] = lost[r]

Deliver(r) ==
    /\ Owed(r) /\ r \notin Unreachable
    /\ copies' = [copies EXCEPT ![r] = @ + 1]
    /\ \/ UNCHANGED lost
       \/ lost' = [lost EXCEPT ![r] = @ + 1]
    /\ UNCHANGED <<outcome, exempt, closed>>

Settle(r) ==
    /\ outcome[r] = "none"
    /\ \E o \in {"sent", "rejected"} :
          /\ o = "sent" => copies[r] = lost[r] + 1
          /\ o = "rejected" => copies[r] = lost[r]
          /\ outcome' = [outcome EXCEPT ![r] = o]
    /\ UNCHANGED <<copies, lost, exempt, closed>>

Exempt(r) ==
    /\ exempt' = exempt \cup {r}
    /\ UNCHANGED <<copies, lost, outcome, closed>>

Close(m) ==
    /\ \A r \in Members[m] : r \in exempt \/ outcome[r] # "none"
    /\ closed' = closed \cup {m}
    /\ UNCHANGED <<copies, lost, outcome, exempt>>

LNext ==
    \/ \E r \in Recipients : Deliver(r) \/ Settle(r) \/ Exempt(r)
    \/ \E m \in Windows : Close(m)

LSpec == LInit /\ [][LNext]_lvars
=============================================================================
