---------------------------- MODULE SendSchedule ----------------------------
(***************************************************************************)
(* The lifecycle record of one scheduled send (SendScheduleState) and the  *)
(* three operations on it, packages/domain/src/schedule-state.ts: each one *)
(* reads the record and later writes it back on condition that its         *)
(* revision is unchanged.  Sender invocations record their windows,        *)
(* retrying a lost write up to Attempts times; operators' requests fail    *)
(* on a lost write.  Any of them may be overtaken between its read and its *)
(* write.                                                                  *)
(*                                                                         *)
(* A window (after, until] is modelled by the set of keys it covers;       *)
(* CampaignFanOut shows that the stored list of ranges is such a set, and  *)
(* that the code's completeness test says that it is the whole key space.  *)
(***************************************************************************)
EXTENDS Naturals

CONSTANTS
    Keys, Slices, Kinds,  \* as in ScheduleLedger
    Workers,              \* sender invocations that finished a window
    SliceOf,              \* SliceOf[w]: the window w finished
    Requests,             \* concurrent requests of operators and schedulers
    Attempts,             \* writes that completeScheduleRange tries (10)
    RequestBudget,        \* bound: requests served
    RedeliverBudget       \* bound: deliveries that die or are repeated

ASSUME ScheduleAssumption ==
    /\ Keys # {}
    /\ Slices \subseteq SUBSET Keys
    /\ Kinds \subseteq {"one_off", "recurring"}
    /\ SliceOf \in [Workers -> Slices]
    /\ Attempts \in Nat \ {0}
    /\ RequestBudget \in Nat
    /\ RedeliverBudget \in Nat

VARIABLES
    rec,        \* the stored record; status "none" when there is none
    wpc,        \* where each worker stands in completeScheduleRange
    wsnap,      \* the record it read
    tries,      \* its lost writes: attempt
    start,      \* history: the revision its first attempt read
    rpc,        \* where each request stands
    rsnap,      \* the record it read
    goal,       \* the status it will write, and the kind
    recorded,   \* history: keys of every window whose write succeeded
    served,     \* requests begun
    redelivered \* deliveries that died or were repeated

workerVars == <<wpc, wsnap, tries, start>>
requestVars == <<rpc, rsnap, goal, served>>
vars == <<rec, wpc, wsnap, tries, start, rpc, rsnap, goal, recorded, served,
          redelivered>>

-----------------------------------------------------------------------------
Statuses == {"none", "active", "paused", "archived", "completed"}
Records == [status : Statuses, kind : {"none", "one_off", "recurring"},
            revision : Nat, covered : SUBSET Keys]
NoRecord == [status |-> "none", kind |-> "none", revision |-> 0, covered |-> {}]

\* The merged list is one range with neither bound.
Full(S) == S = Keys

Closed(s) == s.status = "completed" \/ Full(s.covered)

\* Mutant of MayRestart: only the status is looked at.
StatusAllowsRestart(s, target) == s.status = "completed" => target = "archived"

\* A closed send is neither started nor paused.
MayRestart(s, target) == Closed(s) => target = "archived"

\* Mutant of Completed: the operator's archive is overwritten.
CompletedOverArchive(s, S) ==
    [status |-> IF Full(s.covered \cup S) THEN "completed" ELSE s.status,
     kind |-> s.kind, revision |-> s.revision + 1, covered |-> s.covered \cup S]

\* The windows are merged before the write; archived is kept.
Completed(s, S) ==
    [status |-> IF Full(s.covered \cup S) /\ s.status # "archived"
                THEN "completed" ELSE s.status,
     kind |-> s.kind, revision |-> s.revision + 1, covered |-> s.covered \cup S]

\* The conditional put: the revision read is still the stored one.
PutIf(snap, new) == rec.revision = snap.revision /\ rec' = new

LostRace(snap) == rec.revision # snap.revision

-----------------------------------------------------------------------------
Init ==
    /\ rec = NoRecord
    /\ wpc = [w \in Workers |-> "read"]
    /\ wsnap = [w \in Workers |-> NoRecord]
    /\ tries = [w \in Workers |-> 0]
    /\ start = [w \in Workers |-> 0]
    /\ rpc = [q \in Requests |-> "idle"]
    /\ rsnap = [q \in Requests |-> NoRecord]
    /\ goal = [q \in Requests |-> <<"active", "none">>]
    /\ recorded = {}
    /\ served = 0
    /\ redelivered = 0

-----------------------------------------------------------------------------
(* completeScheduleRange.                                                  *)

\* No record, a series, or a completed send: there is nothing to write.
WorkerRead(w) ==
    /\ wpc[w] = "read"
    /\ wsnap' = [wsnap EXCEPT ![w] = rec]
    /\ wpc' = [wpc EXCEPT ![w] =
                  IF rec.kind # "one_off" \/ rec.status = "completed"
                  THEN "done" ELSE "put"]
    /\ start' = [start EXCEPT ![w] = IF tries[w] = 0 THEN rec.revision ELSE @]
    /\ UNCHANGED <<rec, tries, requestVars, recorded, redelivered>>

WorkerPut(w) ==
    /\ wpc[w] = "put"
    /\ PutIf(wsnap[w], Completed(wsnap[w], SliceOf[w]))
    /\ recorded' = recorded \cup SliceOf[w]
    /\ wpc' = [wpc EXCEPT ![w] = "done"]
    /\ UNCHANGED <<wsnap, tries, start, requestVars, redelivered>>

\* Mutant of WorkerRetry: a lost write is taken for a written one.
WorkerGiveUp(w) ==
    /\ wpc[w] = "put" /\ LostRace(wsnap[w])
    /\ wpc' = [wpc EXCEPT ![w] = "done"]
    /\ UNCHANGED <<rec, wsnap, tries, start, requestVars, recorded, redelivered>>

\* Mutant of WorkerRetry: the record is not read again.
WorkerRetryStale(w) ==
    /\ wpc[w] = "put" /\ LostRace(wsnap[w])
    /\ tries' = [tries EXCEPT ![w] = @ + 1]
    /\ wpc' = [wpc EXCEPT ![w] = IF tries[w] + 1 >= Attempts THEN "exhausted" ELSE "put"]
    /\ UNCHANGED <<rec, wsnap, start, requestVars, recorded, redelivered>>

\* The write lost: read again, or give up on the last attempt.
WorkerRetry(w) ==
    /\ wpc[w] = "put" /\ LostRace(wsnap[w])
    /\ tries' = [tries EXCEPT ![w] = @ + 1]
    /\ wpc' = [wpc EXCEPT ![w] = IF tries[w] + 1 >= Attempts THEN "exhausted" ELSE "read"]
    /\ UNCHANGED <<rec, wsnap, start, requestVars, recorded, redelivered>>

\* SQS delivers the window again: after the error, after a crash at any point,
\* or although it was recorded.  The resent window claims nobody and comes back
\* to completeScheduleRange.
Redeliver(w) ==
    /\ redelivered < RedeliverBudget
    /\ redelivered' = redelivered + 1
    /\ wpc' = [wpc EXCEPT ![w] = "read"]
    /\ tries' = [tries EXCEPT ![w] = 0]
    /\ UNCHANGED <<rec, wsnap, start, requestVars, recorded>>

-----------------------------------------------------------------------------
(* markScheduleActive and transitionSchedule.                              *)

\* The read; a refused request is over and forgets it.
Begin(q, target, k) ==
    /\ rpc[q] = "idle" /\ served < RequestBudget
    /\ served' = served + 1
    /\ IF MayRestart(rec, target)
       THEN /\ rpc' = [rpc EXCEPT ![q] = "put"]
            /\ rsnap' = [rsnap EXCEPT ![q] = rec]
            /\ goal' = [goal EXCEPT ![q] = <<target, k>>]
       ELSE UNCHANGED <<rpc, rsnap, goal>>
    /\ UNCHANGED <<rec, workerVars, recorded, redelivered>>

EndRequest(q) ==
    /\ rpc' = [rpc EXCEPT ![q] = "idle"]
    /\ rsnap' = [rsnap EXCEPT ![q] = NoRecord]
    /\ goal' = [goal EXCEPT ![q] = <<"active", "none">>]

\* A send is scheduled or scheduled again: a closed one is refused.
MarkRead(q, k) == Begin(q, "active", k)

\* An operator starts, pauses or archives an existing record.
TransitionRead(q, target) ==
    /\ rec.status # "none"
    /\ Begin(q, target, rec.kind)

\* The record a request writes.
Requested(q) ==
    [status |-> goal[q][1], kind |-> goal[q][2],
     revision |-> rsnap[q].revision + 1, covered |-> rsnap[q].covered]

RequestPut(q) ==
    /\ rpc[q] = "put"
    /\ PutIf(rsnap[q], Requested(q))
    /\ EndRequest(q)
    /\ UNCHANGED <<workerVars, served, recorded, redelivered>>

\* ConcurrentModificationError: the caller is told, nothing is written.
RequestConflict(q) ==
    /\ rpc[q] = "put" /\ LostRace(rsnap[q])
    /\ EndRequest(q)
    /\ UNCHANGED <<rec, workerVars, served, recorded, redelivered>>

-----------------------------------------------------------------------------
WorkerStep(w) == WorkerRead(w) \/ WorkerPut(w) \/ WorkerRetry(w)
RequestStep(q) == RequestPut(q) \/ RequestConflict(q)

Next ==
    \/ \E w \in Workers : WorkerStep(w) \/ Redeliver(w)
    \/ \E q \in Requests : \/ \E k \in Kinds : MarkRead(q, k)
                           \/ \E t \in {"active", "paused", "archived"} : TransitionRead(q, t)
                           \/ RequestStep(q)

Spec == Init /\ [][Next]_vars

-----------------------------------------------------------------------------
(* Properties.                                                             *)

\* The type of every variable; a worker still trying has attempts left.
TypeOK ==
    /\ rec \in Records
    /\ wpc \in [Workers -> {"read", "put", "done", "exhausted"}]
    /\ wsnap \in [Workers -> Records]
    /\ tries \in [Workers -> 0..Attempts]
    /\ start \in [Workers -> Nat]
    /\ rpc \in [Requests -> {"idle", "put"}]
    /\ rsnap \in [Requests -> Records]
    /\ goal \in [Requests -> {"active", "paused", "archived"}
                             \X {"none", "one_off", "recurring"}]
    /\ recorded \in SUBSET Keys
    /\ served \in 0..RequestBudget
    /\ redelivered \in 0..RedeliverBudget
    /\ \A w \in Workers : wpc[w] # "exhausted" => tries[w] < Attempts

\* The revision identifies the record: what was read under a revision is what is
\* stored under it, and no snapshot is ahead of the store.  This is what makes a
\* conditional write of a changed snapshot a change of the record itself.
RevisionIdentifies ==
    LET Faithful(snap) == /\ snap.revision <= rec.revision
                          /\ snap.revision = rec.revision => snap = rec
    IN /\ \A w \in Workers : wpc[w] = "put" => Faithful(wsnap[w])
       /\ \A q \in Requests : rpc[q] = "put" => Faithful(rsnap[q])

\* schedule-state.ts:150-153 (#263): "CAS retries merge concurrent slices without
\* losing either worker's progress", nor does an operator's write lose any.
NoProgressLost == rec.covered = recorded

\* Only full coverage completes a send.
CompletedIsCovered == rec.status = "completed" => rec.covered = Keys

\* A one-off delivered in full is completed, or was put away: nothing offers it
\* for another firing, whatever raced with its last window.
FullIsClosed == rec.covered = Keys => rec.status \in {"completed", "archived"}

\* A send that is closed stays closed, keeps its coverage and, once archived,
\* stays archived.
ClosedStaysClosed ==
    [][Closed(rec) => /\ Closed(rec')
                      /\ rec'.covered = rec.covered
                      /\ rec.status = "archived" => rec'.status = "archived"]_rec

\* schedule-state.ts:157-182: a worker gives up only after Attempts writes of
\* others; sender concurrency below the limit never fails a delivered window.
ExhaustionNeedsContention ==
    \A w \in Workers :
        /\ tries[w] > 0 => start[w] + tries[w] <= rec.revision
        /\ wpc[w] = "exhausted" => start[w] + Attempts <= rec.revision

\* A worker that returned without an error found no one-off to record on, or its
\* window is on record.
DoneIsRecorded ==
    \A w \in Workers :
        wpc[w] = "done" /\ wsnap[w].kind = "one_off" => SliceOf[w] \subseteq rec.covered

\* The record implements the ledger: each successful write is one atomic
\* operation, every read and every lost write is a stutter.
Ledger == INSTANCE ScheduleLedger
    WITH status <- rec.status, kind <- rec.kind, covered <- rec.covered
LedgerSpec == Ledger!LSpec
=============================================================================
