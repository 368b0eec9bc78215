----------------------------- MODULE EventPlane -----------------------------
(***************************************************************************)
(* The engagement-event plane: SES notifications of one campaign, queued   *)
(* at least once, each applied by an invocation of services/events: the    *)
(* recorders of domain/src/events.ts and suppress.ts, the transactional    *)
(* append of adapters-aws/src/dynamo.ts and the deliverability check of    *)
(* domain/src/alerts.ts that halts the campaign.                           *)
(*                                                                         *)
(* The campaign's row is shared with the console, whose saves read it and  *)
(* write it back whole, as does the halt.  A send id without a row counts  *)
(* on its SENDID item instead.  A halt is a status of the row, or a marker *)
(* when there is none; CampaignSend models what the halt does to a send.   *)
(*                                                                         *)
(* Thresholds are modelled by the send_failures rule: HaltAt failures.  An *)
(* instant is the attempt of the delivery that reads the clock.            *)
(***************************************************************************)
EXTENDS Naturals, FiniteSets

CONSTANTS
    Notices,        \* what SES reports: one element per occurrence
    KindOf,         \* KindOf[n]
    ReaderOf,       \* ReaderOf[n]: the subscriber it is about
    Workers,        \* concurrent invocations of the handler
    Editors,        \* concurrent saves of the campaign's row
    RowAtStart,     \* TRUE: a campaign, with a row; FALSE: a drip or re-engagement step
    HaltAt,         \* failures that halt the campaign
    MaxReceives,    \* the queue's maxReceiveCount
    Budget,         \* bound: crashes, duplicate deliveries, saves
    NoNotice        \* "no notice"

Kinds == {"delivery", "open", "click", "softBounce", "bounce", "complaint"}
Fields == {"delivered", "opens", "clicks", "bounces", "complaints"}
Disturbances == {"crash", "duplicate", "edit"}

ASSUME EventAssumption ==
    /\ Notices \subseteq DOMAIN KindOf /\ Notices \subseteq DOMAIN ReaderOf
    /\ \A n \in Notices : KindOf[n] \in Kinds
    /\ RowAtStart \subseteq BOOLEAN
    /\ HaltAt \in Nat \ {0}
    /\ MaxReceives \in Nat \ {0}
    /\ Budget \in [Disturbances -> Nat]
    /\ NoNotice \notin Notices

VARIABLES
    mq,           \* mq[n]: where SQS holds the notice, and how often it was received
    row,          \* the campaign's row
    marker,       \* the halt marker of an id without a row
    sendId,       \* the SENDID item of an id without a row
    log,          \* event rows: [notice, at], the sort key
    people,       \* UNIQ markers: who was counted for opens and clicks
    barred,       \* addresses on the global suppression list
    flipped,      \* subscribers with status suppressed
    stamped,      \* opens and clicks that refreshed their reader's stamp
    pc, job, at,  \* each invocation: where it stands, its notice, its instant
    snap,         \* the row it read before it halts the campaign
    epc, esnap,   \* each save: where it stands, and the row it read
    left          \* what is left of Budget

rowVars    == <<row, marker>>
eventVars  == <<sendId, log, people>>
readerVars == <<barred, flipped, stamped>>
workVars   == <<job, at, snap>>
editVars   == <<epc, esnap>>
vars == <<mq, row, marker, sendId, log, people, barred, flipped, stamped, pc, job,
          at, snap, epc, esnap, left>>

-----------------------------------------------------------------------------
(* Helpers.                                                                *)

Zero == [f \in Fields |-> 0]
NoRow == [present |-> FALSE, halted |-> FALSE, counters |-> Zero]

\* A permanent bounce or a complaint: it suppresses, and is checked.
Hard(n) == KindOf[n] \in {"bounce", "complaint"}

\* Opens and clicks count people.
CountsPeople(n) == KindOf[n] \in {"open", "click"}

\* recordBounce and recordComplaint pass no eventId on: each append gets a
\* random one, so its row never meets an older row of the same notice.
Identified(n) == KindOf[n] \notin {"softBounce", "bounce", "complaint"}

\* COUNTER_FIELD; a soft bounce is appended as a bounce.
FieldOf(n) ==
    CASE KindOf[n] = "delivery"  -> "delivered"
      [] KindOf[n] = "open"      -> "opens"
      [] KindOf[n] = "click"     -> "clicks"
      [] KindOf[n] = "complaint" -> "complaints"
      [] OTHER                   -> "bounces"

Bump(counters, f) == [counters EXCEPT ![f] = @ + 1]

RowsOf(f) == {e \in log : FieldOf(e.notice) = f}
ReadersOf(f) == {ReaderOf[e.notice] : e \in RowsOf(f)}

\* deriveCounters.
Folded == [f \in Fields |->
    IF f \in {"opens", "clicks"} THEN Cardinality(ReadersOf(f))
    ELSE Cardinality(RowsOf(f))]

\* The counters that the check evaluates, from the first source that has them.
StoredCounters ==
    IF row.present THEN row.counters
    ELSE IF sendId.known THEN sendId.counters ELSE Folded

\* evaluateAlerts finds a breach at level halt.
Breached(counters) == counters["bounces"] + counters["complaints"] >= HaltAt

Halted == row.halted \/ marker

Spend(d) == left[d] > 0 /\ left' = [left EXCEPT ![d] = @ - 1]

Goto(w, label) == pc' = [pc EXCEPT ![w] = label]

\* What follows the append.
AfterAppend(n) == IF CountsPeople(n) THEN "stamp" ELSE IF Hard(n) THEN "check" ELSE "ack"

Forget(w) ==
    /\ Goto(w, "idle")
    /\ job' = [job EXCEPT ![w] = NoNotice]
    /\ at' = [at EXCEPT ![w] = 0]
    /\ snap' = [snap EXCEPT ![w] = NoRow]

\* The row an invocation appends.
EventOf(w) == [notice |-> job[w], at |-> at[w]]

Init ==
    /\ mq = [n \in Notices |-> [st |-> "visible", receives |-> 0]]
    /\ \E present \in RowAtStart : row = [NoRow EXCEPT !.present = present]
    /\ marker = FALSE
    /\ sendId = [known |-> FALSE, counters |-> Zero]
    /\ log = {} /\ people = {}
    /\ barred = {} /\ flipped = {} /\ stamped = {}
    /\ pc = [w \in Workers |-> "idle"]
    /\ job = [w \in Workers |-> NoNotice]
    /\ at = [w \in Workers |-> 0]
    /\ snap = [w \in Workers |-> NoRow]
    /\ epc = [e \in Editors |-> "idle"]
    /\ esnap = [e \in Editors |-> NoRow]
    /\ left = Budget

-----------------------------------------------------------------------------
(* The queue.                                                              *)

\* A delivery reads the clock for itself; one that runs beside another of the
\* same notice may read the same instant.
Receive(w, n) ==
    /\ pc[w] = "idle"
    /\ mq[n].receives < MaxReceives
    /\ \/ mq[n].st = "visible" /\ UNCHANGED left
       \/ mq[n].st = "inflight" /\ Spend("duplicate")
    /\ mq' = [mq EXCEPT ![n] = [st |-> "inflight", receives |-> @.receives + 1]]
    /\ job' = [job EXCEPT ![w] = n]
    /\ \E instant \in {mq[n].receives + 1}
            \cup {at[v] : v \in {u \in Workers : job[u] = n /\ Identified(n)}} :
          at' = [at EXCEPT ![w] = instant]
    /\ Goto(w, IF Hard(n) THEN "bar" ELSE "append")
    /\ UNCHANGED <<rowVars, eventVars, readerVars, snap, editVars>>

\* The handler did not report the notice: SQS deletes it.
Ack(w) ==
    /\ pc[w] = "ack"
    /\ mq' = [mq EXCEPT ![job[w]].st = IF @ = "dead" THEN @ ELSE "deleted"]
    /\ Forget(w)
    /\ UNCHANGED <<rowVars, eventVars, readerVars, editVars, left>>

\* A store call throws and the notice is reported in batchItemFailures, or the
\* invocation dies: SQS redelivers until the notice is dead-lettered.
Crash(w) ==
    /\ pc[w] # "idle"
    /\ Spend("crash")
    /\ mq' = [mq EXCEPT ![job[w]].st =
                 IF @ # "inflight" THEN @
                 ELSE IF mq[job[w]].receives >= MaxReceives THEN "dead" ELSE "visible"]
    /\ Forget(w)
    /\ UNCHANGED <<rowVars, eventVars, readerVars, editVars>>

-----------------------------------------------------------------------------
(* The recorders.                                                          *)

\* suppressAndFlip: the address goes on the global list first.  The feed names
\* no list, so no subscription is marked.
Bar(w) ==
    /\ pc[w] = "bar"
    /\ barred' = barred \cup {ReaderOf[job[w]]}
    /\ Goto(w, "flip")
    /\ UNCHANGED <<mq, rowVars, eventVars, flipped, stamped, workVars, editVars, left>>

Flip(w) ==
    /\ pc[w] = "flip"
    /\ flipped' = flipped \cup {ReaderOf[job[w]]}
    /\ Goto(w, "append")
    /\ UNCHANGED <<mq, rowVars, eventVars, barred, stamped, workVars, editVars, left>>

Seen(w) == EventOf(w) \in log
Repeat(w) == CountsPeople(job[w]) /\ <<FieldOf(job[w]), ReaderOf[job[w]]>> \in people

\* The transaction commits: the event, its count and the UNIQ marker.
AppendCounted(w) ==
    /\ pc[w] = "append" /\ ~Seen(w) /\ ~Repeat(w) /\ row.present
    /\ log' = log \cup {EventOf(w)}
    /\ row' = [row EXCEPT !.counters = Bump(@, FieldOf(job[w]))]
    /\ people' = IF CountsPeople(job[w])
                 THEN people \cup {<<FieldOf(job[w]), ReaderOf[job[w]]>>} ELSE people
    /\ Goto(w, AfterAppend(job[w]))
    /\ UNCHANGED <<mq, marker, sendId, readerVars, workVars, editVars, left>>

\* Mutant of AppendSeen: a notice found recorded is taken for handled.
AppendSeenIsHandled(w) ==
    /\ pc[w] = "append" /\ Seen(w)
    /\ Goto(w, "ack")
    /\ UNCHANGED <<mq, rowVars, eventVars, readerVars, workVars, editVars, left>>

\* The row is there: nothing to count, but an id without a row is registered.
AppendSeen(w) ==
    /\ pc[w] = "append" /\ Seen(w)
    /\ Goto(w, IF row.present THEN AfterAppend(job[w]) ELSE "registerOnly")
    /\ UNCHANGED <<mq, rowVars, eventVars, readerVars, workVars, editVars, left>>

\* Mutant of AppendRepeat: a second open is appended like the first one.
AppendRepeatCounts(w) ==
    /\ pc[w] = "append" /\ ~Seen(w) /\ Repeat(w)
    /\ log' = log \cup {EventOf(w)}
    /\ row' = [row EXCEPT !.counters = Bump(@, FieldOf(job[w]))]
    /\ Goto(w, AfterAppend(job[w]))
    /\ UNCHANGED <<mq, marker, sendId, people, readerVars, workVars, editVars, left>>

\* The reader was counted: the event is kept, the count does not move.  A UNIQ
\* marker is only ever written along with a row's count, so there is a row.
AppendRepeat(w) ==
    /\ pc[w] = "append" /\ ~Seen(w) /\ Repeat(w)
    /\ Goto(w, "putRepeat")
    /\ UNCHANGED <<mq, rowVars, eventVars, readerVars, workVars, editVars, left>>

\* There is no row to count on: the whole transaction is cancelled, the UNIQ
\* marker included.
AppendRowless(w) ==
    /\ pc[w] = "append" /\ ~Seen(w) /\ ~Repeat(w) /\ ~row.present
    /\ Goto(w, "putRowless")
    /\ UNCHANGED <<mq, rowVars, eventVars, readerVars, workVars, editVars, left>>

PutEvent(w) ==
    /\ pc[w] \in {"putRepeat", "putRowless"}
    /\ log' = log \cup {EventOf(w)}
    /\ Goto(w, IF pc[w] = "putRowless" THEN "register" ELSE AfterAppend(job[w]))
    /\ UNCHANGED <<mq, rowVars, sendId, people, readerVars, workVars, editVars, left>>

\* registerSendId, registerSendIdWithoutCounting.
Register(w) ==
    /\ pc[w] \in {"register", "registerOnly"}
    /\ sendId' = [known |-> TRUE,
                  counters |-> IF pc[w] = "register"
                               THEN Bump(sendId.counters, FieldOf(job[w]))
                               ELSE sendId.counters]
    /\ Goto(w, AfterAppend(job[w]))
    /\ UNCHANGED <<mq, rowVars, log, people, readerVars, workVars, editVars, left>>

\* markOpened, markEngaged.
Stamp(w) ==
    /\ pc[w] = "stamp"
    /\ stamped' = stamped \cup {<<FieldOf(job[w]), ReaderOf[job[w]]>>}
    /\ Goto(w, "ack")
    /\ UNCHANGED <<mq, rowVars, eventVars, barred, flipped, workVars, editVars, left>>

-----------------------------------------------------------------------------
(* checkDeliverability.                                                    *)

Check(w) ==
    /\ pc[w] = "check"
    /\ Goto(w, IF Breached(StoredCounters) THEN "haltRead" ELSE "ack")
    /\ UNCHANGED <<mq, rowVars, eventVars, readerVars, workVars, editVars, left>>

\* Mutant of HaltRead: an id without a row is not halted.
HaltOnlyWithRow(w) ==
    /\ pc[w] = "haltRead"
    /\ snap' = [snap EXCEPT ![w] = row]
    /\ Goto(w, IF row.present /\ ~row.halted THEN "haltPut" ELSE "ack")
    /\ UNCHANGED <<mq, rowVars, eventVars, readerVars, job, at, editVars, left>>

HaltRead(w) ==
    /\ pc[w] = "haltRead"
    /\ snap' = [snap EXCEPT ![w] = row]
    /\ Goto(w, IF ~row.present THEN "mark" ELSE IF row.halted THEN "ack" ELSE "haltPut")
    /\ UNCHANGED <<mq, rowVars, eventVars, readerVars, job, at, editVars, left>>

\* The whole row is written back, counters included.
HaltPut(w) ==
    /\ pc[w] = "haltPut"
    /\ row' = [snap[w] EXCEPT !.halted = TRUE]
    /\ Goto(w, "ack")
    /\ UNCHANGED <<mq, marker, eventVars, readerVars, workVars, editVars, left>>

MarkHalted(w) ==
    /\ pc[w] = "mark"
    /\ marker' = TRUE
    /\ Goto(w, "ack")
    /\ UNCHANGED <<mq, row, eventVars, readerVars, workVars, editVars, left>>

-----------------------------------------------------------------------------
(* saveCampaignDraft, recordScheduledCampaign, recordSeriesEdition: each   *)
(* reads the row, keeps its counters and its halt, and writes it whole.    *)

EditRead(e) ==
    /\ epc[e] = "idle"
    /\ Spend("edit")
    /\ esnap' = [esnap EXCEPT ![e] = row]
    /\ epc' = [epc EXCEPT ![e] = "put"]
    /\ UNCHANGED <<mq, rowVars, eventVars, readerVars, pc, workVars>>

\* Mutant of EditPut: saving sets the status to scheduled.
EditPutReviving(e) ==
    /\ epc[e] = "put"
    /\ row' = [esnap[e] EXCEPT !.present = TRUE, !.halted = FALSE]
    /\ epc' = [epc EXCEPT ![e] = "idle"]
    /\ esnap' = [esnap EXCEPT ![e] = NoRow]
    /\ UNCHANGED <<mq, marker, eventVars, readerVars, pc, workVars, left>>

EditPut(e) ==
    /\ epc[e] = "put"
    /\ row' = [esnap[e] EXCEPT !.present = TRUE]
    /\ epc' = [epc EXCEPT ![e] = "idle"]
    /\ esnap' = [esnap EXCEPT ![e] = NoRow]
    /\ UNCHANGED <<mq, marker, eventVars, readerVars, pc, workVars, left>>

-----------------------------------------------------------------------------
WorkerStep(w) ==
    \/ Bar(w) \/ Flip(w)
    \/ AppendCounted(w) \/ AppendSeen(w) \/ AppendRepeat(w) \/ AppendRowless(w)
    \/ PutEvent(w) \/ Register(w) \/ Stamp(w)
    \/ Check(w) \/ HaltRead(w) \/ HaltPut(w) \/ MarkHalted(w)
    \/ Ack(w)

Next ==
    \/ \E w \in Workers : \/ \E n \in Notices : Receive(w, n)
                          \/ WorkerStep(w) \/ Crash(w)
    \/ \E e \in Editors : EditRead(e) \/ EditPut(e)

Spec == Init /\ [][Next]_vars

-----------------------------------------------------------------------------
(* Properties.                                                             *)

Rows == [present : BOOLEAN, halted : BOOLEAN, counters : [Fields -> Nat]]

\* The type of every variable; an event row is keyed by one of the attempts.
TypeOK ==
    /\ mq \in [Notices -> [st : {"visible", "inflight", "deleted", "dead"},
                           receives : 0..MaxReceives]]
    /\ row \in Rows /\ marker \in BOOLEAN
    /\ sendId \in [known : BOOLEAN, counters : [Fields -> Nat]]
    /\ log \subseteq [notice : Notices, at : 1..MaxReceives]
    /\ people \cup stamped \subseteq {"opens", "clicks"} \X {ReaderOf[n] : n \in Notices}
    /\ barred \cup flipped \subseteq {ReaderOf[n] : n \in Notices}
    /\ pc \in [Workers -> {"idle", "bar", "flip", "append", "putRepeat", "putRowless",
                           "register", "registerOnly", "stamp", "check", "haltRead",
                           "haltPut", "mark", "ack"}]
    /\ job \in [Workers -> Notices \cup {NoNotice}]
    /\ at \in [Workers -> 0..MaxReceives]
    /\ snap \in [Workers -> Rows]
    /\ epc \in [Editors -> {"idle", "put"}]
    /\ esnap \in [Editors -> Rows]
    /\ left \in [Disturbances -> Nat]

Acknowledged(n) == mq[n].st = "deleted"

\* services/events handler: a notice that SQS was told to delete left all its
\* traces, whatever failed, was repeated or ran beside it.
AcknowledgedInFull ==
    \A n \in Notices : Acknowledged(n) =>
        /\ \E e \in log : e.notice = n
        /\ Hard(n) => ReaderOf[n] \in barred \cap flipped
        /\ CountsPeople(n) => <<FieldOf(n), ReaderOf[n]>> \in stamped

\* dynamo.ts:944-956 (#221): on the campaign's row a count never moves without its
\* event, nor twice for one event, nor twice for the opens or clicks of a reader.
CountsAreBacked ==
    \A f \in Fields :
        row.counters[f] <= IF f \in {"opens", "clicks"} THEN Cardinality(ReadersOf(f))
                           ELSE Cardinality(RowsOf(f))

\* alerts.ts:119-188: once as many hard bounces and complaints as the threshold
\* says were acknowledged, the campaign is halted, unless it was saved meanwhile: no
\* interleaving of two checks lets both of them miss the breach.
BreachHalts ==
    /\ left["edit"] = Budget["edit"]
    /\ Cardinality({n \in Notices : Hard(n) /\ Acknowledged(n)}) >= HaltAt
    => Halted

\* Every save that is under way read the row after it was halted.
SavesSawHalt == marker \/ \A e \in Editors : epc[e] = "put" => esnap[e].halted

\* admin.ts:219-227: a save that reads a halted row keeps the halt, and so does
\* every check that runs beside it.
HaltSurvivesLaterSaves ==
    [][Halted /\ SavesSawHalt => Halted' /\ SavesSawHalt']_vars
=============================================================================
