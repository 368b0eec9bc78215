--------------------------- MODULE CampaignFanOut ---------------------------
(***************************************************************************)
(* The fan-out of a large one-off (services/sender/src/index.ts handler,   *)
(* fanOutCampaign in domain/src/send.ts): the first message of a campaign  *)
(* lists the confirmed recipients and is split into one message per        *)
(* window; each window lists its recipients again when it is delivered,    *)
(* sends, and is recorded in completedRanges.                              *)
(*                                                                         *)
(* The list changes all the time: readers confirm and leave between the    *)
(* plan and the deliveries, so a plan made again after a failure has other *)
(* boundaries, and the windows of several plans are in flight together.    *)
(* One recipient's claim, send and event are one step here; CampaignSend   *)
(* models what can come between them.                                      *)
(***************************************************************************)
EXTENDS KeyRanges, FiniteSets

CONSTANTS
    Chunk,         \* CHUNK_SIZE
    Workers,       \* concurrent sender invocations
    JoinBudget,    \* bounds: readers who confirm,
    LeaveBudget,   \* readers who leave,
    CrashBudget,   \* and deliveries that fail and are repeated
    RootMsg, NoMsg

ASSUME FanOutAssumption ==
    /\ Chunk \in Nat \ {0}
    /\ RootMsg \notin AllRanges     \* a message with a slice is another one
    /\ JoinBudget \in Nat /\ LeaveBudget \in Nat /\ CrashBudget \in Nat

VARIABLES
    confirmed,     \* confirmed recipients of the list, in the segment
    queue,         \* messages in the send queue and its dead-letter queue
    dead,          \* those that are only in the dead-letter queue
    pc, job,       \* where each invocation stands, and its message
    plan,          \* windows it has still to enqueue
    todo,          \* recipients it has still to send to
    mailed,        \* recipients with a send claim and a sent event
    ranges,        \* completedRanges
    steady,        \* history: confirmed from the start until now
    left           \* what is left of the budgets

vars == <<confirmed, queue, dead, pc, job, plan, todo, mailed, ranges, steady, left>>

\* A message without a slice is for the whole list.
WindowOf(m) == IF m = RootMsg THEN Whole ELSE m

Goto(w, label) == pc' = [pc EXCEPT ![w] = label]

\* SQS deletes the message that was received, not one in the dead-letter queue.
Delete(w) == queue' = queue \ ({job[w]} \ dead)

Leave(w) ==
    /\ pc' = [pc EXCEPT ![w] = "idle"]
    /\ job' = [job EXCEPT ![w] = NoMsg]
    /\ plan' = [plan EXCEPT ![w] = <<>>]
    /\ todo' = [todo EXCEPT ![w] = {}]

Init ==
    /\ confirmed \in SUBSET Ids
    /\ queue = {RootMsg}
    /\ dead = {}
    /\ pc = [w \in Workers |-> "idle"]
    /\ job = [w \in Workers |-> NoMsg]
    /\ plan = [w \in Workers |-> <<>>]
    /\ todo = [w \in Workers |-> {}]
    /\ mailed = {}
    /\ ranges = <<>>
    /\ steady = confirmed
    /\ left = [join |-> JoinBudget, leave |-> LeaveBudget, crash |-> CrashBudget]

-----------------------------------------------------------------------------
(* The sender.                                                             *)

\* SQS delivers a message; one that no invocation holds, or a second time.
Receive(w, m) ==
    /\ pc[w] = "idle" /\ m \in queue \ dead
    /\ (\E v \in Workers : job[v] = m) => left.crash > 0
    /\ left' = IF \E v \in Workers : job[v] = m THEN [left EXCEPT !.crash = @ - 1] ELSE left
    /\ job' = [job EXCEPT ![w] = m]
    /\ Goto(w, IF m = RootMsg THEN "plan" ELSE "list")
    /\ UNCHANGED <<confirmed, queue, dead, plan, todo, mailed, ranges, steady>>

\* fanOutCampaign: a list of at most Chunk recipients needs no fan-out.
Plan(w) ==
    /\ pc[w] = "plan"
    /\ IF Cardinality(confirmed) <= Chunk
       THEN Goto(w, "list") /\ UNCHANGED plan
       ELSE Goto(w, "enqueue") /\ plan' = [plan EXCEPT ![w] = PlanFanOut(confirmed, Chunk)]
    /\ UNCHANGED <<confirmed, queue, dead, job, todo, mailed, ranges, steady, left>>

Enqueue(w) ==
    /\ pc[w] = "enqueue" /\ plan[w] # <<>>
    /\ queue' = queue \cup {Head(plan[w])}
    /\ dead' = dead \ {Head(plan[w])}
    /\ plan' = [plan EXCEPT ![w] = Tail(@)]
    /\ UNCHANGED <<confirmed, pc, job, todo, mailed, ranges, steady, left>>

\* Mutant of FannedOut: the first message is deleted after the first window.
FannedOutEarly(w) ==
    /\ pc[w] = "enqueue"
    /\ Delete(w)
    /\ Leave(w)
    /\ UNCHANGED <<confirmed, dead, mailed, ranges, steady, left>>

\* All windows are enqueued: the first message is deleted.
FannedOut(w) ==
    /\ pc[w] = "enqueue" /\ plan[w] = <<>>
    /\ Delete(w)
    /\ Leave(w)
    /\ UNCHANGED <<confirmed, dead, mailed, ranges, steady, left>>

\* The gate: a window of a completed send is skipped.
Skip(w) ==
    /\ pc[w] = "list" /\ IsComplete(ranges)
    /\ Delete(w)
    /\ Leave(w)
    /\ UNCHANGED <<confirmed, dead, mailed, ranges, steady, left>>

\* The window's recipients are those confirmed now, not when it was planned.
List(w) ==
    /\ pc[w] = "list" /\ ~IsComplete(ranges)
    /\ todo' = [todo EXCEPT ![w] = RecipientsInSlice(confirmed, WindowOf(job[w]))]
    /\ Goto(w, "send")
    /\ UNCHANGED <<confirmed, queue, dead, job, plan, mailed, ranges, steady, left>>

\* The next recipient in id order; one whose claim is taken is passed over.
SendNext(w) ==
    /\ pc[w] = "send" /\ todo[w] # {}
    /\ LET r == CHOOSE p \in todo[w] : \A q \in todo[w] : p <= q
       IN  /\ mailed' = mailed \cup {r}
           /\ todo' = [todo EXCEPT ![w] = @ \ {r}]
    /\ UNCHANGED <<confirmed, queue, dead, pc, job, plan, ranges, steady, left>>

\* completeScheduleRange, and the message is deleted.
Complete(w) ==
    /\ pc[w] = "send" /\ todo[w] = {}
    /\ ranges' = IF IsComplete(ranges) THEN ranges
                 ELSE MergeRange(ranges, WindowOf(job[w]))
    /\ Delete(w)
    /\ Leave(w)
    /\ UNCHANGED <<confirmed, dead, mailed, steady, left>>

-----------------------------------------------------------------------------
(* The environment.                                                        *)

\* The invocation fails anywhere; its message is still in the queue.
Fail(w) ==
    /\ pc[w] # "idle" /\ left.crash > 0
    /\ left' = [left EXCEPT !.crash = @ - 1]
    /\ Leave(w)
    /\ UNCHANGED <<confirmed, queue, dead, mailed, ranges, steady>>

\* The last of the deliveries that SQS makes of a message (maxReceiveCount) fails.
\* Which one that is, is left open.
DeadLetter(w) ==
    /\ pc[w] # "idle" /\ left.crash > 0 /\ job[w] \in queue \ dead
    /\ dead' = dead \cup {job[w]}
    /\ left' = [left EXCEPT !.crash = @ - 1]
    /\ Leave(w)
    /\ UNCHANGED <<confirmed, queue, mailed, ranges, steady>>

\* An operator replays a message of the dead-letter queue.
Replay(m) ==
    /\ m \in dead
    /\ dead' = dead \ {m}
    /\ UNCHANGED <<confirmed, queue, pc, job, plan, todo, mailed, ranges, steady, left>>

\* A reader confirms, or enters the segment.
Join(p) ==
    /\ p \notin confirmed /\ left.join > 0
    /\ confirmed' = confirmed \cup {p}
    /\ left' = [left EXCEPT !.join = @ - 1]
    /\ UNCHANGED <<queue, dead, pc, job, plan, todo, mailed, ranges, steady>>

\* A reader unsubscribes, or falls out of the segment.
Depart(p) ==
    /\ p \in confirmed /\ left.leave > 0
    /\ confirmed' = confirmed \ {p}
    /\ steady' = steady \ {p}
    /\ left' = [left EXCEPT !.leave = @ - 1]
    /\ UNCHANGED <<queue, dead, pc, job, plan, todo, mailed, ranges>>

-----------------------------------------------------------------------------
WorkerStep(w) ==
    \/ Plan(w) \/ Enqueue(w) \/ FannedOut(w)
    \/ Skip(w) \/ List(w) \/ SendNext(w) \/ Complete(w)

Next ==
    \/ \E w \in Workers : \/ \E m \in AllRanges \cup {RootMsg} : Receive(w, m)
                          \/ WorkerStep(w) \/ Fail(w) \/ DeadLetter(w)
    \/ \E m \in AllRanges \cup {RootMsg} : Replay(m)
    \/ \E p \in Ids : Join(p) \/ Depart(p)

Spec == Init /\ [][Next]_vars

\* Lambda runs a delivery to its end, and SQS delivers some message that nobody
\* holds as long as there is one.
Fairness ==
    /\ \A w \in Workers : WF_vars(WorkerStep(w))
    /\ WF_vars(\E w \in Workers, m \in AllRanges \cup {RootMsg} :
                  (\A v \in Workers : job[v] # m) /\ Receive(w, m))

FairSpec == Spec /\ Fairness

-----------------------------------------------------------------------------
(* Properties.                                                             *)

\* send.ts:180-188, 201 (#171): the windows of a plan are disjoint, cover every id,
\* planned or not, and hold at most Chunk planned recipients each.
PlanPartitions ==
    Cardinality(confirmed) > Chunk =>
        LET p == PlanFanOut(confirmed, Chunk)
        IN  /\ Union(p) = Cells
            /\ \A i, j \in DOMAIN p : i # j => CellsOf(p[i]) \cap CellsOf(p[j]) = {}
            /\ \A i \in DOMAIN p : Cardinality(RecipientsInSlice(confirmed, p[i])) \in 1..Chunk

\* Whatever the list did meanwhile, and however many plans were made, a reader
\* who was confirmed all along is mailed before any range that holds them is
\* recorded as delivered.
DeliveredIsMailed == steady \cap Union(ranges) \subseteq mailed

\* control-plane-stack.ts:495-497 (#92): no key is lost between the plans, the queue,
\* the dead-letter queue and the record; what is not recorded is still to come, or
\* where an operator finds it.
NoKeyLost ==
    Union(ranges) \cup UNION {CellsOf(WindowOf(m)) : m \in queue} = Cells

\* The campaign completes although windows of several plans overlap, unless one of
\* its messages stays in the dead-letter queue.
FanOutCompletes == <>[](dead = {}) => <>IsComplete(ranges)

\* The one list of ranges, in order and with gaps between them, that holds S.
ListOf(S) ==
    LET parts == {r \in AllRanges : CellsOf(r) \subseteq S /\ {r.after, r.until + 1} \cap S = {}}
    IN  CHOOSE list \in [1..Cardinality(parts) -> parts] :
            \A i, j \in DOMAIN list : i < j => list[i].after < list[j].after

\* schedule-state.ts:150-153 (#263): in whatever order the windows of several
\* plans finish, again or overlapping, completedRanges covers what was delivered,
\* no more and no less, and the two tests for completion that the code makes agree.
RecordIsExact ==
    [][\A w \in Workers : Complete(w) =>
          /\ ranges' = ListOf(Union(ranges) \cup CellsOf(WindowOf(job[w])))
          /\ IsComplete(ranges') <=> HasWhole(ranges')]_vars
=============================================================================
