------------------------------ MODULE KeyRanges ------------------------------
(***************************************************************************)
(* Key ranges of recipients (RecipientSlice), and the three pure functions *)
(* on them: planFanOut and recipientsInSlice (domain/src/send.ts) and the  *)
(* merge inside completeScheduleRange (domain/src/schedule-state.ts).      *)
(*                                                                         *)
(* Subscriber ids are the numbers 1..MaxKey in id order.  A range holds    *)
(* the ids above `after` up to and including `until`; 0 stands for an      *)
(* absent after and Open for an absent until.  The key Open itself stands  *)
(* for every id above MaxKey, so a range is the set of its Cells.          *)
(***************************************************************************)
EXTENDS Naturals, FiniteSets, SequencesExt

CONSTANT MaxKey
ASSUME MaxKeyAssumption == MaxKey \in Nat \ {0}

Ids == 1..MaxKey
Open == MaxKey + 1
Cells == 1..Open

Range0(a, u) == [after |-> a, until |-> u]
Whole == Range0(0, Open)
AllRanges == {r \in [after : 0..MaxKey, until : Cells] : r.after < r.until}

\* The cells of one range, and of a list of them.
CellsOf(r) == (r.after + 1)..r.until
Union(list) == UNION {CellsOf(list[i]) : i \in DOMAIN list}

\* The elements of S in order.
Ascending(S) ==
    CHOOSE ids \in [1..Cardinality(S) -> S] : \A i, j \in DOMAIN ids : i < j => ids[i] < ids[j]

-----------------------------------------------------------------------------
\* The number of windows for n recipients.
WindowCount(n, chunk) == (n + chunk - 1) \div chunk

\* Mutant of PlanFanOut: the last window ends at the last id of the plan.
PlanFanOutClosed(members, chunk) ==
    LET ids == Ascending(members)
    IN  [i \in 1..WindowCount(Len(ids), chunk) |->
            Range0(IF i = 1 THEN 0 ELSE ids[(i - 1) * chunk],
                   IF i * chunk >= Len(ids) THEN ids[Len(ids)] ELSE ids[i * chunk])]

\* Mutant of PlanFanOut: each window starts at its own first id.
PlanFanOutGap(members, chunk) ==
    LET ids == Ascending(members)
    IN  [i \in 1..WindowCount(Len(ids), chunk) |->
            Range0(IF i = 1 THEN 0 ELSE ids[(i - 1) * chunk + 1],
                   IF i * chunk >= Len(ids) THEN Open ELSE ids[i * chunk])]

\* The windows of chunk recipients each; the last one is open.
PlanFanOut(members, chunk) ==
    LET ids == Ascending(members)
    IN  [i \in 1..WindowCount(Len(ids), chunk) |->
            Range0(IF i = 1 THEN 0 ELSE ids[(i - 1) * chunk],
                   IF i * chunk >= Len(ids) THEN Open ELSE ids[i * chunk])]

\* Mutant of RecipientsInSlice: the lower bound is taken as included and the
\* upper one as excluded.
RecipientsFromTo(members, r) ==
    {p \in members : r.after <= p /\ (r.until = Open \/ p < r.until)}

\* The members that fall inside a window.
RecipientsInSlice(members, r) == {p \in members : r.after < p /\ p <= r.until}

-----------------------------------------------------------------------------
\* Mutant of Touches: ranges that only adjoin are kept apart.
Overlaps(prev, next) == prev.until = Open \/ next.after = 0 \/ next.after < prev.until

\* Does the next range, in order of after, begin inside or right behind prev?
Touches(prev, next) == prev.until = Open \/ next.after = 0 \/ next.after <= prev.until

\* The upper bound only grows.
Extend(prev, next) ==
    IF next.until = Open \/ (prev.until # Open /\ next.until > prev.until)
    THEN [prev EXCEPT !.until = next.until] ELSE prev

\* One turn of the merge loop.
MergeNext(merged, next) ==
    IF merged # <<>> /\ Touches(Last(merged), next)
    THEN Append(Front(merged), Extend(Last(merged), next))
    ELSE Append(merged, next)

\* The recorded list, which is in order of after, with the finished window in its
\* place; the sort is stable, so that it follows a recorded one with its bound.
InOrder(list, range) ==
    LET before == CHOOSE n \in 0..Len(list) :
                      \A i \in DOMAIN list : list[i].after <= range.after <=> i <= n
    IN  InsertAt(list, before + 1, range)

\* completedRanges after one more window was finished.
MergeRange(list, range) == FoldLeft(MergeNext, <<>>, InOrder(list, range))

\* completeScheduleRange: one range with neither bound.
IsComplete(list) == Len(list) = 1 /\ list[1] = Whole

\* markScheduleActive and transitionSchedule: some range with neither bound.
HasWhole(list) == \E i \in DOMAIN list : list[i] = Whole
=============================================================================
