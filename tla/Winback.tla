------------------------------ MODULE Winback ------------------------------
(***************************************************************************)
(* The re-engagement sweep of one organization: decideReengagement and     *)
(* runReengagementSweep (domain/src/reengagement.ts), the handler that     *)
(* resumes it from a checkpoint (services/automations), and the sender it  *)
(* calls (sendToSubscriber), against clicks and against everybody else who *)
(* writes the same readers: complaints, an operator's suppressions and     *)
(* lifts, the identity webhook, provisioning and imports.  Each of those   *)
(* reads the whole row and puts the whole row back, unconditionally.       *)
(*                                                                         *)
(* A sweep reads a page of readers, then works through it; what it puts    *)
(* back for a reader is the row of the page, changed.  One sweep runs at a *)
(* time, it may die between any two of its calls, and a new one may start  *)
(* in the same period (a retry) or a later one.                            *)
(*                                                                         *)
(* Instants: a period is stepIntervalDays.  Sweeps of period p take the    *)
(* instant 2p as their now, clicks after it 2p + 1, and 0 stands for the   *)
(* time of consent, or for "never".                                        *)
(***************************************************************************)
EXTENDS Integers, FiniteSets

CONSTANTS
    LastReader,     \* readers are 1..LastReader, in the order of the table
    Steps,          \* policy.steps
    ColdAfter,      \* policy.coldAfterDays, in periods
    PageLimit,      \* readers of a page
    Quotas,         \* maxSubscribers that an invocation may be given
    Writers,        \* handlers that can be at work on readers side by side
    Periods,        \* bound: periods
    Budget          \* bound: Budget[d] disturbances of each kind

\* "any": all of them together.
Disturbances ==
    {"crash", "click", "complaint", "manual", "lift", "upsert", "return", "lostReply", "any"}

ASSUME WinbackAssumption ==
    /\ LastReader \in Nat /\ Steps \in Nat \ {0} /\ ColdAfter \in Nat
    /\ PageLimit \in Nat \ {0} /\ Quotas \subseteq Nat \ {0} /\ Periods \in Nat \ {0}
    /\ Budget \in [Disturbances -> Nat]

Readers == 1..LastReader

VARIABLES
    time,       \* the current instant
    rec,        \* rec[r]: the subscriber's row
    active,     \* readers with a subscription that is not unsubscribed
    sup,        \* sup[r]: what keeps the address suppressed
    claims,     \* send claims: [reader, enrolledAt or "new", step]
    ckpt,       \* the checkpoint's cursor: the last reader swept, 0 without one
    pc,         \* where the sweep stands
    page,       \* readers of the page not yet examined
    snap,       \* snap[r]: r's row in the page
    cursor,     \* the sweep's cursor, 0 when the last page is read
    room,       \* what is left of the invocation's quota
    doing,      \* doing[w]: the call that the writer w comes to next
    whom,       \* whom[w]: the reader it is about, 0 for none
    held,       \* writers that have read their reader's row
    copy,       \* copy[w]: the row they have read
    got,        \* history: got[r][<<c, k>>], mails of step k in r's cycle of instant c
    lost,       \* history: those of them that SES took without saying so
    saved,      \* history: saved[r], the last click of r while nobody held r's row
    swept,      \* history: readers examined since the last completed pass
    left        \* what is left of Budget

readerVars == <<rec, active, sup, claims>>
sweepVars == <<pc, page, snap, cursor, room>>
writerVars == <<doing, whom, held, copy>>
historyVars == <<got, lost, saved, swept>>
vars == <<time, readerVars, ckpt, sweepVars, writerVars, historyVars, left>>

-----------------------------------------------------------------------------
(* Rows and decisions.                                                     *)

Instants == 0..2 * Periods + 1

\* enrolled 0: no reengagement field.
Record == [status : {"active", "suppressed"}, engaged : Instants,
           enrolled : Instants, sent : 0..Steps, lastStep : Instants]

Unenrol(s) == [s EXCEPT !.enrolled = 0, !.sent = 0, !.lastStep = 0]

Now == 2 * (time \div 2)

\* daysSince, in periods.
Since(instant) == (Now - instant) \div 2

\* Mutant of Decision: the clock is asked before the clicks.
SunsetFirst(s, hasActiveSubscription) ==
    IF s.status = "suppressed" THEN "skip"
    ELSE IF s.enrolled = 0 THEN
        IF hasActiveSubscription /\ Since(s.engaged) >= ColdAfter THEN "send" ELSE "skip"
    ELSE IF Since(s.lastStep) >= 1 /\ s.sent >= Steps THEN "sunset"
    ELSE IF s.engaged > s.enrolled THEN "graduate"
    ELSE IF Since(s.lastStep) < 1 THEN "wait" ELSE "send"

\* needsSubscriptionLookup and decideReengagement over a row of the page.
Decision(s, hasActiveSubscription) ==
    IF s.status = "suppressed" THEN "skip"
    ELSE IF s.enrolled = 0 THEN
        IF hasActiveSubscription /\ Since(s.engaged) >= ColdAfter THEN "send" ELSE "skip"
    ELSE IF s.engaged > s.enrolled THEN "graduate"
    ELSE IF Since(s.lastStep) < 1 THEN "wait"
    ELSE IF s.sent >= Steps THEN "sunset" ELSE "send"

\* The reader in hand, and its row in the page.
First == CHOOSE r \in page : \A x \in page : r <= x
Row == snap[First]
NextStep == Row.sent + 1

\* The cycle that the step in hand belongs to: enrolledAt, which is now for the first.
Cycle == IF Row.enrolled = 0 THEN Now ELSE Row.enrolled

\* Mutant of ClaimKey: the claim is of the sweep, not of the cycle.
ClaimOfSweep == <<First, Now, NextStep>>

\* reengagementCampaignId: 0 is the namespace "new".
ClaimKey == <<First, Row.enrolled, NextStep>>

At(place) == pc = place
Goto(place) == pc' = place

NewRow == [status |-> "active", engaged |-> 0, enrolled |-> 0, sent |-> 0, lastStep |-> 0]
NoSnap == [r \in Readers |-> NewRow]
NoMails == [step \in Instants \X (1..Steps) |-> 0]

\* On to the next reader of the page.
Drop == page' = page \ {First} /\ snap' = [snap EXCEPT ![First] = NoSnap[First]] /\ pc' = "examine"

Spend(d) ==
    /\ left[d] > 0 /\ left["any"] > 0
    /\ left' = [left EXCEPT ![d] = @ - 1, !["any"] = @ - 1]

Init ==
    /\ time = 2
    /\ rec = NoSnap
    /\ active = Readers
    /\ sup = [r \in Readers |-> "none"]
    /\ claims = {}
    /\ ckpt = 0
    /\ pc = "idle" /\ page = {} /\ snap = NoSnap /\ cursor = 0 /\ room = 0
    /\ doing = [w \in Writers |-> "none"] /\ whom = [w \in Writers |-> 0]
    /\ held = {} /\ copy = [w \in Writers |-> NewRow]
    /\ got = [r \in Readers |-> NoMails] /\ lost = [r \in Readers |-> NoMails]
    /\ saved = [r \in Readers |-> 0] /\ swept = {}
    /\ left = Budget

-----------------------------------------------------------------------------
(* The sweep: pages and the checkpoint.                                    *)

\* reengagementSweepHandler reads the checkpoint.
BeginSweep ==
    /\ At("idle")
    /\ cursor' = ckpt /\ room' \in Quotas
    /\ Goto("load")
    /\ UNCHANGED <<time, readerVars, writerVars, ckpt, page, snap, historyVars, left>>

Smaller(a, b) == IF a < b THEN a ELSE b

\* subscribers.page: as many readers as fit the page and the budget.
LoadPage ==
    /\ At("load")
    /\ LET upTo == Smaller(LastReader, cursor + Smaller(PageLimit, room))
       IN /\ page' = (cursor + 1)..upTo
          /\ snap' = [r \in Readers |-> IF r \in (cursor + 1)..upTo THEN rec[r] ELSE NoSnap[r]]
          /\ cursor' = IF upTo < LastReader THEN upTo ELSE 0
    /\ Goto("examine")
    /\ UNCHANGED <<time, readerVars, writerVars, ckpt, room, historyVars, left>>

\* The page is done: another one, or the checkpoint, which is put after the work.
EndPage ==
    /\ At("examine") /\ page = {}
    /\ Goto(IF cursor # 0 /\ room > 0 THEN "load" ELSE "save")
    /\ UNCHANGED <<time, readerVars, writerVars, ckpt, page, snap, cursor, room, historyVars, left>>

\* Mutant of SaveCheckpoint: the checkpoint is put before the page's work.
SavesEarly ==
    /\ At("save") \/ (At("examine") /\ page # {})
    /\ ckpt' = cursor
    /\ IF At("save")
       THEN /\ swept' = IF cursor = 0 THEN {} ELSE swept
            /\ cursor' = 0 /\ room' = 0
            /\ Goto("idle")
       ELSE UNCHANGED <<swept, cursor, room, pc>>
    /\ UNCHANGED <<time, readerVars, writerVars, page, snap, got, lost, saved, left>>

SaveCheckpoint ==
    /\ At("save")
    /\ ckpt' = cursor
    /\ swept' = IF cursor = 0 THEN {} ELSE swept
    /\ cursor' = 0 /\ room' = 0
    /\ Goto("idle")
    /\ UNCHANGED <<time, readerVars, writerVars, page, snap, got, lost, saved, left>>

\* A store call throws, or the function is killed.
Abort == pc' = "idle" /\ page' = {} /\ snap' = NoSnap /\ cursor' = 0 /\ room' = 0

Crash ==
    /\ ~At("idle") /\ Spend("crash")
    /\ Abort
    /\ UNCHANGED <<time, readerVars, writerVars, ckpt, historyVars>>

-----------------------------------------------------------------------------
(* One reader of the page.                                                 *)

\* The lookup of subscriptions reads the store, the decision the page.
Examine ==
    /\ At("examine") /\ page # {}
    /\ room' = room - 1
    /\ swept' = swept \cup {First}
    /\ LET decision == Decision(Row, First \in active)
       IN IF decision \in {"skip", "wait"} THEN Drop
          ELSE Goto(decision) /\ UNCHANGED <<page, snap>>
    /\ UNCHANGED <<time, readerVars, writerVars, ckpt, cursor, got, lost, saved, left>>

\* Mutant of ClaimStep: a step claimed before advances the sequence.
ClaimedIsSent ==
    /\ At("send")
    /\ claims' = claims \cup {ClaimKey}
    /\ Goto(IF ClaimKey \in claims THEN "advance" ELSE "gate")
    /\ UNCHANGED <<time, rec, active, sup, writerVars, ckpt, page, snap, cursor, room, historyVars, left>>

\* sendToSubscriber: the claim.
ClaimStep ==
    /\ At("send")
    /\ claims' = claims \cup {ClaimKey}
    /\ IF ClaimKey \in claims THEN Drop ELSE Goto("gate") /\ UNCHANGED <<page, snap>>
    /\ UNCHANGED <<time, rec, active, sup, writerVars, ckpt, cursor, room, historyVars, left>>

\* mayMail, over the stored row and suppression list.
Gate ==
    /\ At("gate")
    /\ IF rec[First].status = "active" /\ sup[First] = "none"
       THEN Goto("mail") /\ UNCHANGED <<claims, page, snap>>
       ELSE claims' = claims \ {ClaimKey} /\ Drop
    /\ UNCHANGED <<time, rec, active, sup, writerVars, ckpt, cursor, room, historyVars, left>>

Mailed(history) == [history EXCEPT ![First][<<Cycle, NextStep>>] = @ + 1]

MailAccepted ==
    /\ At("mail")
    /\ got' = Mailed(got)
    /\ Goto("advance")
    /\ UNCHANGED <<time, readerVars, writerVars, ckpt, page, snap, cursor, room, lost, saved, swept, left>>

\* SES throws, and with it the sweep; it may have taken the mail.
MailFailed ==
    /\ At("mail")
    /\ \/ Spend("crash") /\ UNCHANGED <<got, lost>>
       \/ Spend("lostReply") /\ got' = Mailed(got) /\ lost' = Mailed(lost)
    /\ claims' = claims \ {ClaimKey}
    /\ Abort
    /\ UNCHANGED <<time, rec, active, sup, writerVars, ckpt, saved, swept>>

\* subscribers.put of the page's row, with the sequence advanced.
Advance ==
    /\ At("advance")
    /\ rec' = [rec EXCEPT ![First] = [Row EXCEPT
           !.enrolled = IF NextStep = 1 THEN Now ELSE @, !.sent = NextStep, !.lastStep = Now]]
    /\ Drop
    /\ UNCHANGED <<time, active, sup, claims, writerVars, ckpt, cursor, room, historyVars, left>>

Graduate ==
    /\ At("graduate")
    /\ rec' = [rec EXCEPT ![First] = Unenrol(Row)]
    /\ Drop
    /\ UNCHANGED <<time, active, sup, claims, writerVars, ckpt, cursor, room, historyVars, left>>

\* The sunset: unsubscribeAll puts the subscriptions, then the address on the
\* list; then the row of the page is put, suppressed.
SunsetRows ==
    /\ At("sunset")
    /\ active' = active \ {First}
    /\ Goto("sunsetEntry")
    /\ UNCHANGED <<time, rec, sup, claims, writerVars, ckpt, page, snap, cursor, room, historyVars, left>>

SunsetEntry ==
    /\ At("sunsetEntry")
    /\ sup' = [sup EXCEPT ![First] = IF @ = "complaint" THEN @ ELSE "inactive"]
    /\ Goto("sunsetPut")
    /\ UNCHANGED <<time, rec, active, claims, writerVars, ckpt, page, snap, cursor, room, historyVars, left>>

SunsetPut ==
    /\ At("sunsetPut")
    /\ rec' = [rec EXCEPT ![First] = [Unenrol(Row) EXCEPT !.status = "suppressed"]]
    /\ Drop
    /\ UNCHANGED <<time, active, sup, claims, writerVars, ckpt, cursor, room, historyVars, left>>

SweepStep ==
    \/ BeginSweep \/ LoadPage \/ EndPage \/ SaveCheckpoint \/ Crash
    \/ Examine \/ ClaimStep \/ Gate \/ MailAccepted \/ MailFailed \/ Advance
    \/ Graduate \/ SunsetRows \/ SunsetEntry \/ SunsetPut

-----------------------------------------------------------------------------
(* Everybody else.                                                         *)

\* A page in progress, or a writer, holds r's row and may put it back.
Held(r) == r \in page \/ \E w \in held : whom[w] = r

\* markEngaged: one attribute, and only forwards.
Click(r) ==
    /\ Spend("click")
    /\ time' = 2 * (time \div 2) + 1
    /\ rec' = [rec EXCEPT ![r].engaged = time']
    /\ saved' = IF Held(r) THEN saved ELSE [saved EXCEPT ![r] = time']
    /\ UNCHANGED <<active, sup, claims, ckpt, sweepVars, writerVars, got, lost, swept>>

\* signup and confirmOptInAny: an inactive entry is cleared, the status stays.
Return(r) ==
    /\ Spend("return")
    /\ sup[r] \in {"none", "inactive"}
    /\ sup' = [sup EXCEPT ![r] = "none"]
    /\ active' = active \cup {r}
    /\ UNCHANGED <<time, rec, claims, ckpt, sweepVars, writerVars, historyVars>>

\* suppressAndFlip, manualSuppress and liftSuppression start with the list;
\* an upsert (identity webhook, provisioning, import) has only the row to put.
BeginWrite(w, r) ==
    /\ doing[w] = "none"
    /\ \E kind \in {"complaint", "manual", "lift", "upsert"} :
        Spend(kind) /\ doing' = [doing EXCEPT ![w] = kind]
    /\ whom' = [whom EXCEPT ![w] = r]
    /\ UNCHANGED <<time, readerVars, ckpt, sweepVars, held, copy, historyVars>>

\* The list: a complaint's entry is global, the others are the organization's.
WriteEntry(w) ==
    /\ doing[w] \in {"complaint", "manual", "lift"}
    /\ sup' = [sup EXCEPT ![whom[w]] =
           IF doing[w] = "complaint" THEN "complaint"
           ELSE IF @ = "complaint" THEN @
           ELSE IF doing[w] = "manual" THEN "manual" ELSE "none"]
    /\ doing' = [doing EXCEPT ![w] = IF @ = "lift" THEN "activate" ELSE "suppress"]
    /\ UNCHANGED <<time, rec, active, claims, ckpt, sweepVars, whom, held, copy, historyVars, left>>

\* get or findByEmail: the row, or by a lagging read the row of before the entry.
ReadRow(w) ==
    /\ doing[w] # "none" /\ w \notin held
    /\ held' = held \cup {w}
    /\ copy' = [copy EXCEPT ![w] = rec[whom[w]]]
    /\ UNCHANGED <<time, readerVars, ckpt, sweepVars, doing, whom, historyVars, left>>

Finish(w) ==
    /\ doing' = [doing EXCEPT ![w] = "none"] /\ whom' = [whom EXCEPT ![w] = 0]
    /\ held' = held \ {w} /\ copy' = [copy EXCEPT ![w] = NewRow]

\* The row as the writer puts it: the row it has read, but for the status.
Written(w) == [copy[w] EXCEPT
    !.status = CASE doing[w] = "suppress" -> "suppressed" [] doing[w] = "activate" -> "active"
                 [] OTHER -> @]

\* subscribers.put, unconditional; a row that has the status is not put.
PutRow(w) ==
    /\ doing[w] \in {"suppress", "activate", "upsert"} /\ w \in held
    /\ rec' = IF doing[w] = "upsert" \/ Written(w) # copy[w]
              THEN [rec EXCEPT ![whom[w]] = Written(w)] ELSE rec
    /\ Finish(w)
    /\ UNCHANGED <<time, active, sup, claims, ckpt, sweepVars, historyVars, left>>

\* The handler is killed between two of its calls, or one of them throws.
KillWriter(w) ==
    /\ doing[w] # "none" /\ Spend("crash")
    /\ Finish(w)
    /\ UNCHANGED <<time, readerVars, ckpt, sweepVars, historyVars>>

WriterStep(w) ==
    \/ \E r \in Readers : BeginWrite(w, r)
    \/ WriteEntry(w) \/ ReadRow(w) \/ PutRow(w) \/ KillWriter(w)

\* The next firing of the weekly rule is due; sweeps and handlers last minutes.
NextPeriod ==
    /\ At("idle") /\ held = {} /\ time \div 2 < Periods
    /\ time' = 2 * (time \div 2) + 2
    /\ UNCHANGED <<readerVars, ckpt, sweepVars, writerVars, historyVars, left>>

Next ==
    \/ SweepStep
    \/ \E r \in Readers : Click(r) \/ Return(r)
    \/ \E w \in Writers : WriterStep(w)
    \/ NextPeriod

Spec == Init /\ [][Next]_vars

-----------------------------------------------------------------------------
(* Properties.                                                             *)

TypeOK ==
    /\ time \in Instants
    /\ rec \in [Readers -> Record]
    /\ active \subseteq Readers
    /\ sup \in [Readers -> {"none", "inactive", "manual", "complaint"}]
    /\ claims \subseteq Readers \X Instants \X (1..Steps)
    /\ ckpt \in 0..LastReader
    /\ pc \in {"idle", "load", "examine", "save", "send", "gate", "mail", "advance",
               "graduate", "sunset", "sunsetEntry", "sunsetPut"}
    /\ page \subseteq Readers
    /\ snap \in [Readers -> Record]
    /\ cursor \in 0..LastReader
    /\ room \in Nat
    /\ doing \in [Writers -> {"none", "complaint", "manual", "lift", "upsert", "suppress", "activate"}]
    /\ whom \in [Writers -> 0..LastReader]
    /\ held \subseteq Writers
    /\ copy \in [Writers -> Record]
    /\ got \in [Readers -> [Instants \X (1..Steps) -> Nat]]
    /\ lost \in [Readers -> [Instants \X (1..Steps) -> Nat]]
    /\ saved \in [Readers -> Instants]
    /\ swept \subseteq Readers
    /\ left \in [Disturbances -> Nat]

\* A sequence advances by mail (reengagement.ts, #181): every step that a row
\* counts as sent was taken by SES in the cycle that the row names, whatever
\* crashed, was suppressed or put an older row back in between.
AdvancedByMail ==
    \A r \in Readers, k \in 1..Steps : k <= rec[r].sent => got[r][<<rec[r].enrolled, k>>] >= 1

\* A step is mailed once in a cycle, though sweeps are repeated and resumed and
\* older rows are put back; only a mail whose receipt was lost is repeated.
StepOncePerCycle ==
    \A r \in Readers, c \in Instants, k \in 1..Steps : got[r][<<c, k>>] <= 1 + lost[r][<<c, k>>]

\* The sunset of r takes its subscriptions, or puts its address on the list.
Sunsets(r) == r \in active \ active' \/ (sup[r] # "inactive" /\ sup'[r] = "inactive")

\* Nobody is sunset who was not mailed the whole sequence of the cycle, or who
\* clicked after enrolling while neither a page nor a writer held their row.
SunsetIsEarned ==
    [][\A r \in Readers : Sunsets(r) =>
        /\ saved[r] <= snap[r].enrolled
        /\ \A k \in 1..Steps : got[r][<<snap[r].enrolled, k>>] >= 1]_vars

\* A completed pass has examined every reader (services/automations: a crash
\* re-does a page rather than skipping one).
PassCoversAll == [][swept' = {} => swept \in {{}, Readers}]_vars
=============================================================================
