--------------------------- MODULE ScheduleLedger ---------------------------
(***************************************************************************)
(* What the lifecycle record of one scheduled send promises                *)
(* (packages/domain/src/schedule-state.ts), as if every operation on it    *)
(* were atomic: windows only accumulate, full coverage completes a one-off *)
(* and closes it for good, and an operator's archive outlives completion.  *)
(* SendSchedule, where each operation is a read and a conditional write,   *)
(* implements it.                                                          *)
(***************************************************************************)
CONSTANTS
    Keys,      \* the recipient key space that windows are ranges of
    Slices,    \* the windows that may be recorded: sets of keys
    Kinds      \* the kinds a send may be scheduled as

VARIABLES status, kind, covered
lvars == <<status, kind, covered>>

\* A completed range with neither bound covers the whole key space.
Full(S) == S = Keys

\* The send was delivered in full: it may only be archived.
Closed == status = "completed" \/ Full(covered)

LInit == status = "none" /\ kind = "none" /\ covered = {}

\* Scheduled, or scheduled again: a closed send is refused.
Mark(k) ==
    /\ ~Closed
    /\ status' = "active" /\ kind' = k
    /\ UNCHANGED covered

\* What a finished window does to the status.
AfterRecording(st, cov) ==
    IF Full(cov) /\ st # "archived" THEN "completed" ELSE st

Record(S) ==
    /\ kind = "one_off" /\ status # "completed"
    /\ covered' = covered \cup S
    /\ status' = AfterRecording(status, covered')
    /\ UNCHANGED kind

\* An operator starts, pauses or archives the send.
Transition(target) ==
    /\ status # "none"
    /\ Closed => target = "archived"
    /\ status' = target
    /\ UNCHANGED <<kind, covered>>

LNext ==
    \/ \E k \in Kinds : Mark(k)
    \/ \E S \in Slices : Record(S)
    \/ \E target \in {"active", "paused", "archived"} : Transition(target)

LSpec == LInit /\ [][LNext]_lvars
=============================================================================
