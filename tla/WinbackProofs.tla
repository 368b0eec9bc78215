-------------------------- MODULE WinbackProofs --------------------------
(***************************************************************************)
(* Proofs about Winback, for any number of readers, steps, periods, pages  *)
(* and disturbances: type correctness, the coverage of a pass, and the     *)
(* three promises of a sequence.                                           *)
(***************************************************************************)
EXTENDS Winback, TLAPS

-----------------------------------------------------------------------------
(* The clock.                                                              *)

LEMMA Clock ==
    ASSUME time \in Instants, time >= 2
    PROVE  /\ time \div 2 \in Nat /\ Now \in Instants /\ Now >= 2 /\ Now <= time
           /\ 2 * (time \div 2) + 1 \in Instants /\ Now + 1 = 2 * (time \div 2) + 1
           /\ time <= 2 * (time \div 2) + 1
           /\ time \div 2 < Periods => 2 * (time \div 2) + 2 \in Instants
BY WinbackAssumption DEF Instants, Now

-----------------------------------------------------------------------------
(* Where the sweep is.  What it has still to examine of a page ends at the *)
(* page's last reader, and everybody before was examined in this pass; the *)
(* quota lasts for the page.                                               *)

SendPlaces == {"send", "gate", "mail", "advance"}
SunsetPlaces == {"sunset", "sunsetEntry", "sunsetPut"}
InHand == pc \in SendPlaces \cup SunsetPlaces \cup {"graduate"}

Top == IF cursor = 0 THEN LastReader ELSE cursor

PlaceAt(lo) ==
    /\ page = lo..Top
    /\ 1..(lo - 1) \subseteq swept
    /\ At("examine") => room >= Top - lo + 1
    /\ InHand => lo <= Top /\ lo \in swept /\ room >= Top - lo
    /\ At("save") => page = {}

Position ==
    /\ 1..ckpt \subseteq swept
    /\ pc \in {"idle", "load"} => page = {}
    /\ At("load") => room > 0 /\ 1..cursor \subseteq swept
    /\ pc \notin {"idle", "load"} => \E lo \in 1..(Top + 1) : PlaceAt(lo)

\* Rows, and what pages and writers hold of them, are of readers that are
\* enrolled when a step was sent, and nothing in them is of the future.
WellFormed(s) == s.enrolled <= Now /\ s.engaged <= Now + 1 /\ (s.sent = 0 <=> s.enrolled = 0)

RowsOK ==
    /\ \A r \in Readers : WellFormed(rec[r]) /\ WellFormed(snap[r])
    /\ \A w \in Writers : WellFormed(copy[w])
    /\ \A r \in Readers : r \notin page => snap[r] = NoSnap[r]

\* A writer at work is at work on a reader.
WritersOK ==
    /\ \A w \in Writers : doing[w] # "none" => whom[w] \in Readers
    /\ \A w \in held : doing[w] # "none"

TypeInv == TypeOK /\ time >= 2 /\ Position /\ RowsOK /\ WritersOK

LEMMA TopType == TypeOK => Top \in 0..LastReader
BY WinbackAssumption DEF TypeOK, Top

\* The reader in hand is the first of what is left of the page.
LEMMA FirstIs ==
    ASSUME TypeOK, NEW lo \in 1..(Top + 1), page = lo..Top, lo <= Top
    PROVE  First = lo
<1>1. lo \in page /\ \A x \in page : lo <= x
    BY TopType, WinbackAssumption
<1>2. First \in page /\ \A x \in page : First <= x
    BY <1>1 DEF First
<1> QED BY <1>1, <1>2, TopType, WinbackAssumption

LEMMA InHandType ==
    ASSUME TypeOK, Position, InHand \/ (At("examine") /\ page # {})
    PROVE  \E lo \in 1..(Top + 1) : PlaceAt(lo) /\ First = lo /\ lo <= Top
<1>1. PICK lo \in 1..(Top + 1) : PlaceAt(lo)
    BY DEF Position, InHand, At, SendPlaces, SunsetPlaces
<1>2. lo <= Top
    BY <1>1, TopType, WinbackAssumption DEF PlaceAt, At
<1> QED BY <1>1, <1>2, FirstIs DEF PlaceAt

LEMMA FirstType ==
    ASSUME TypeOK, Position, InHand \/ (At("examine") /\ page # {})
    PROVE  /\ First \in Readers /\ First \in page /\ Row \in Record
           /\ Row.sent \in 0..Steps /\ Row.enrolled \in Instants /\ Row.engaged \in Instants
           /\ Row.lastStep \in Instants /\ Row.status \in {"active", "suppressed"}
<1>1. First \in page
    BY InHandType, TopType, WinbackAssumption DEF PlaceAt
<1>2. First \in Readers
    BY <1>1 DEF TypeOK
<1> QED BY <1>1, <1>2 DEF TypeOK, Row, Record

-----------------------------------------------------------------------------
(* Moves of the sweep.                                                     *)

\* Done with the reader in hand, or with one that is passed over.
LEMMA Dropped ==
    ASSUME TypeInv, Drop, ckpt' = ckpt, cursor' = cursor,
           \/ InHand /\ room' = room /\ swept' = swept
           \/ At("examine") /\ page # {} /\ room' = room - 1 /\ swept' = swept \cup {First}
    PROVE  /\ page' \subseteq Readers /\ snap' \in [Readers -> Record] /\ room' \in Nat
           /\ Position'
           /\ \A r \in Readers : snap'[r] = IF r = First THEN NoSnap[r] ELSE snap[r]
<1> USE DEF TypeInv
<1>1. PICK lo \in 1..(Top + 1) : PlaceAt(lo) /\ First = lo /\ lo <= Top
    BY InHandType DEF At
<1>t. Top \in 0..LastReader /\ Top' = Top /\ lo \in Nat /\ LastReader \in Nat /\ room \in Nat
    BY TopType, WinbackAssumption DEF Top, TypeOK
<1>2. page' = (lo + 1)..Top
    BY <1>1, <1>t DEF PlaceAt, Drop
<1>3. 1..lo \subseteq swept' /\ room' >= Top - lo
    BY <1>1, <1>t DEF PlaceAt, InHand, At
<1>4. pc' = "examine" /\ ~InHand'
    BY DEF Drop, InHand, SendPlaces, SunsetPlaces
<1>5. lo + 1 \in 1..(Top + 1) /\ PlaceAt(lo + 1)'
    BY <1>1, <1>2, <1>3, <1>4, <1>t DEF PlaceAt, At
<1>6. Position'
  <2>1. \E l \in 1..(Top' + 1) : PlaceAt(l)'
      BY <1>5, <1>t
  <2>2. 1..ckpt' \subseteq swept'
      BY DEF Position
  <2> QED BY <2>1, <2>2, <1>4 DEF Position, At
<1>7. NoSnap \in [Readers -> Record]
    BY WinbackAssumption DEF NoSnap, NewRow, Record, Instants
<1>8. First \in Readers /\ snap \in [Readers -> Record] /\ page \subseteq Readers
    BY FirstType DEF At, TypeOK
<1>9. snap' \in [Readers -> Record] /\ \A r \in Readers : snap'[r] = IF r = First THEN NoSnap[r] ELSE snap[r]
    BY <1>7, <1>8 DEF Drop
<1>10. page' \subseteq Readers
    BY <1>8 DEF Drop
<1>11. room' \in Nat
  <2>1. room' \in Int /\ Top - lo >= 0
      BY <1>1, <1>t
  <2> QED BY <2>1, <1>3, <1>t
<1> QED BY <1>6, <1>9, <1>10, <1>11

\* On with the reader in hand.
LEMMA GoesOn ==
    ASSUME TypeInv, InHand, InHand', UNCHANGED <<page, cursor, room, swept, ckpt>>
    PROVE  Position'
<1> USE DEF TypeInv
<1>1. PICK lo \in 1..(Top + 1) : PlaceAt(lo)
    BY InHandType
<1>2. Top' = Top
    BY DEF Top
<1>3. PlaceAt(lo)'
    BY <1>1, <1>2 DEF PlaceAt, InHand, At, SendPlaces, SunsetPlaces
<1>4. pc' \notin {"idle", "load"}
    BY DEF InHand, SendPlaces, SunsetPlaces
<1> QED BY <1>1, <1>2, <1>3, <1>4 DEF Position, At

LEMMA SpendType ==
    ASSUME TypeOK, NEW d \in Disturbances \ {"any"}, Spend(d)
    PROVE  left' \in [Disturbances -> Nat]
BY DEF TypeOK, Spend, Disturbances

\* The sweep gives up.
LEMMA GivesUp ==
    ASSUME TypeInv, Abort, UNCHANGED <<ckpt, swept>>
    PROVE  /\ pc' = "idle" /\ page' \subseteq Readers /\ snap' \in [Readers -> Record]
           /\ cursor' \in 0..LastReader /\ room' \in Nat
           /\ Position'
BY WinbackAssumption DEF TypeInv, Abort, Position, At, NoSnap, NewRow, Record, Instants

\* Rows that are left alone, or replaced by well-formed ones.
LEMMA RowsKept ==
    ASSUME TypeInv, Now' \in Nat, Now' >= Now,
           \A r \in Readers : rec'[r] = rec[r] \/ WellFormed(rec[r])',
           \A w \in Writers : copy'[w] = copy[w] \/ WellFormed(copy[w])',
           \/ UNCHANGED <<page, snap>>
           \/ Drop /\ First \in Readers
           \/ snap' = NoSnap
    PROVE  RowsOK'
<1> DEFINE now == Now
           later == Now'
           OK(s, n) == s.enrolled <= n /\ s.engaged <= n + 1 /\ (s.sent = 0 <=> s.enrolled = 0)
<1>1. \A s \in Record : s.enrolled \in Nat /\ s.engaged \in Nat
    BY WinbackAssumption DEF Record, Instants
<1>2. now \in Nat /\ later \in Nat /\ now <= later
    BY Clock DEF TypeInv, TypeOK, Instants
<1>3. \A s : WellFormed(s) <=> OK(s, now)
    BY DEF WellFormed
<1>4. \A r \in Readers : (WellFormed(rec[r])' <=> OK(rec'[r], later)) /\ (WellFormed(snap[r])' <=> OK(snap'[r], later))
    BY DEF WellFormed
<1>5. \A w \in Writers : WellFormed(copy[w])' <=> OK(copy'[w], later)
    BY DEF WellFormed
<1>6. \A s \in Record : OK(s, now) => OK(s, later)
  <2> HIDE DEF now, later
  <2> QED BY <1>1, <1>2
<1>7. \A r \in Readers : rec[r] \in Record /\ snap[r] \in Record /\ OK(rec[r], now) /\ OK(snap[r], now)
    BY <1>3 DEF TypeInv, TypeOK, RowsOK
<1>8. \A w \in Writers : copy[w] \in Record /\ OK(copy[w], now)
    BY <1>3 DEF TypeInv, TypeOK, RowsOK
<1>9. \A r \in Readers : OK(NoSnap[r], later)
  <2> HIDE DEF later
  <2> QED BY <1>2 DEF NoSnap, NewRow
<1>10. \A r \in Readers : snap'[r] = snap[r] \/ snap'[r] = NoSnap[r]
    BY DEF Drop, TypeInv, TypeOK
<1>11. \A r \in Readers : r \notin page' => snap'[r] = NoSnap[r]
    BY DEF TypeInv, RowsOK, Drop, TypeOK
<1> HIDE DEF now, later, OK
<1>12. \A r \in Readers : WellFormed(rec[r])' /\ WellFormed(snap[r])'
    BY <1>4, <1>6, <1>7, <1>9, <1>10
<1>13. \A w \in Writers : WellFormed(copy[w])'
    BY <1>5, <1>6, <1>8
<1> QED BY <1>11, <1>12, <1>13 DEF RowsOK

\* The decision about the reader in hand, and what it means for the row.
Choice == Decision(Row, First \in active)

LEMMA Decided ==
    ASSUME Row \in Record
    PROVE  /\ Choice \in {"skip", "wait", "send", "sunset", "graduate"}
           /\ Choice = "send" => Row.sent < Steps \/ Row.enrolled = 0
           /\ Choice = "sunset" => Row.sent >= Steps /\ Row.enrolled # 0
           /\ Choice \in {"send", "sunset"} => Row.enrolled = 0 \/ Row.engaged <= Row.enrolled
<1>1. Row.sent \in Nat /\ Row.engaged \in Nat /\ Row.enrolled \in Nat
    BY WinbackAssumption DEF Record, Instants
<1> QED BY <1>1, WinbackAssumption DEF Choice, Decision

LEMMA InitType == Init => TypeInv
<1> SUFFICES ASSUME Init PROVE TypeInv
    OBVIOUS
<1>1. NoSnap \in [Readers -> Record] /\ NewRow \in Record
      /\ NoMails \in [Instants \X (1..Steps) -> Nat]
    BY WinbackAssumption DEF NoSnap, NewRow, Record, Instants, NoMails
<1>2. 2 \in Instants /\ 0 \in Instants /\ 0 \in 0..LastReader /\ Budget \in [Disturbances -> Nat]
    BY WinbackAssumption DEF Instants
<1>3. TypeOK
    BY <1>1, <1>2 DEF Init, TypeOK
<1>4. Now = 2
    BY DEF Init, Now
<1>5. RowsOK
    BY <1>4 DEF Init, RowsOK, WellFormed, NoSnap, NewRow
<1>7. WritersOK
    BY DEF Init, WritersOK
<1>6. Position
    BY DEF Init, Position, At
<1> QED BY <1>3, <1>5, <1>6, <1>7 DEF Init, TypeInv

\* The sweep between readers.
LEMMA PagesType ==
    ASSUME TypeInv, BeginSweep \/ LoadPage \/ EndPage \/ SaveCheckpoint \/ Crash
    PROVE  TypeInv'
<1> USE DEF TypeInv, At, Goto
<1>w. UNCHANGED writerVars /\ WritersOK'
    BY DEF BeginSweep, LoadPage, EndPage, SaveCheckpoint, Crash, WritersOK, writerVars
<1>n. Now' = Now /\ Now \in Nat /\ LastReader \in Nat /\ cursor \in 0..LastReader /\ room \in Nat
    BY Clock, WinbackAssumption DEF BeginSweep, LoadPage, EndPage, SaveCheckpoint, Crash, Now, TypeOK, Instants
<1>1. CASE BeginSweep
  <2>1. TypeOK'
      BY <1>1, WinbackAssumption DEF BeginSweep, TypeOK, readerVars, writerVars, historyVars
  <2>2. Position'
      BY <1>1, WinbackAssumption DEF BeginSweep, Position, writerVars, historyVars
  <2>3. RowsOK'
      BY <1>1, <1>n, RowsKept DEF BeginSweep, readerVars, writerVars
  <2> QED BY <1>1, <1>w, <2>1, <2>2, <2>3 DEF BeginSweep
<1>2. CASE LoadPage
  <2> DEFINE upTo == Smaller(LastReader, cursor + Smaller(PageLimit, room))
  <2>1. /\ upTo \in Nat /\ cursor <= upTo /\ upTo <= LastReader /\ upTo - cursor <= room
        /\ upTo = 0 => LastReader = 0
      BY <1>2, <1>n, WinbackAssumption DEF LoadPage, Position, Smaller
  <2>2. /\ page' = (cursor + 1)..upTo /\ pc' = "examine"
        /\ cursor' = IF upTo < LastReader THEN upTo ELSE 0
        /\ room' = room /\ swept' = swept /\ ckpt' = ckpt
      BY <1>2 DEF LoadPage, writerVars, historyVars
  <2>3. snap' = [r \in Readers |-> IF r \in page' THEN rec[r] ELSE NoSnap[r]]
      BY <1>2 DEF LoadPage
  <2> HIDE DEF upTo
  <2>4. page' \subseteq Readers /\ cursor' \in 0..LastReader
      BY <2>1, <2>2, <1>n DEF Readers
  <2>5. NoSnap \in [Readers -> Record] /\ snap' \in [Readers -> Record]
      BY <2>3, WinbackAssumption DEF TypeOK, NoSnap, NewRow, Record, Instants
  <2>6. TypeOK'
      BY <1>2, <2>2, <2>4, <2>5 DEF LoadPage, TypeOK, readerVars, writerVars, historyVars
  <2>7. Position'
    <3>1. Top' = upTo
        BY <2>1, <2>2, <1>n DEF Top
    <3>2. 1..cursor \subseteq swept
        BY <1>2 DEF LoadPage, Position
    <3>3. ~InHand'
        BY <2>2 DEF InHand, SendPlaces, SunsetPlaces
    <3>4. \E lo \in 1..(Top' + 1) : PlaceAt(lo)'
      <4>1. PICK lo \in 1..(upTo + 1) : lo = cursor + 1 /\ room >= upTo - lo + 1
          BY <2>1, <1>n
      <4>2. 1..(lo - 1) \subseteq swept
          BY <3>2, <4>1, <1>n
      <4> QED BY <4>1, <4>2, <2>2, <3>1, <3>3 DEF PlaceAt
    <3> QED BY <2>2, <3>4 DEF Position
  <2>8. RowsOK'
    <3>1. rec' = rec
        BY <1>2 DEF LoadPage, readerVars, writerVars
    <3>2. \A r \in Readers : snap'[r] = rec[r] \/ snap'[r] = NoSnap[r]
        BY <2>3
    <3>3. \A r \in Readers : r \notin page' => snap'[r] = NoSnap[r]
        BY <2>3
    <3>4. \A r \in Readers : WellFormed(NoSnap[r]) /\ WellFormed(rec[r])
        BY <1>n DEF WellFormed, NoSnap, NewRow, RowsOK
    <3>5. copy' = copy
        BY <1>2 DEF LoadPage, writerVars
    <3> QED BY <3>1, <3>2, <3>3, <3>4, <3>5, <1>n DEF RowsOK, WellFormed
  <2> QED BY <1>2, <1>w, <2>6, <2>7, <2>8 DEF LoadPage
<1>3. CASE EndPage
  <2>1. TypeOK'
      BY <1>3 DEF EndPage, TypeOK, readerVars, writerVars, historyVars
  <2>2. Position'
    <3>1. PICK lo \in 1..(Top + 1) : PlaceAt(lo)
        BY <1>3 DEF EndPage, Position
    <3>2. lo = Top + 1 /\ 1..Top \subseteq swept /\ Top \in Nat
      <4>1. Top \in Nat /\ lo \in Nat /\ lo <= Top + 1 /\ lo..Top = {}
          BY <1>3, <3>1, TopType, <1>n DEF PlaceAt, EndPage
      <4>2. ~(lo <= Top)
          BY <4>1
      <4> QED BY <4>1, <4>2, <3>1 DEF PlaceAt
    <3>3. CASE cursor # 0 /\ room > 0
        BY <1>3, <3>2, <3>3 DEF EndPage, Position, writerVars, historyVars, Top
    <3>4. CASE ~(cursor # 0 /\ room > 0)
      <4>1. pc' = "save" /\ Top' = Top /\ page' = page /\ ~InHand' /\ swept' = swept /\ ckpt' = ckpt
          BY <1>3, <3>4 DEF EndPage, Top, InHand, SendPlaces, SunsetPlaces, writerVars, historyVars
      <4>2. PlaceAt(lo)'
          BY <1>3, <4>1, <3>1 DEF PlaceAt, EndPage
      <4> QED BY <4>1, <4>2, <3>1 DEF Position
    <3> QED BY <3>3, <3>4
  <2>3. RowsOK'
      BY <1>3, <1>n, RowsKept DEF EndPage, readerVars, writerVars
  <2> QED BY <1>3, <1>w, <2>1, <2>2, <2>3 DEF EndPage
<1>4. CASE SaveCheckpoint
  <2>a. /\ ckpt' \in 0..LastReader /\ cursor' \in 0..LastReader /\ room' \in Nat
        /\ swept' \subseteq Readers /\ pc' = "idle"
      BY <1>4, <1>n DEF SaveCheckpoint, TypeOK
  <2>b. UNCHANGED <<time, rec, active, sup, claims, doing, whom, held, copy, page, snap, got, lost, saved, left>>
      BY <1>4 DEF SaveCheckpoint, readerVars, writerVars
  <2>1. TypeOK'
      BY <2>a, <2>b DEF TypeOK
  <2>2. page = {} /\ 1..cursor \subseteq swept
    <3>1. PICK lo \in 1..(Top + 1) : PlaceAt(lo)
        BY <1>4 DEF SaveCheckpoint, Position
    <3>2. Top \in Nat /\ lo \in Nat /\ lo <= Top + 1 /\ lo..Top = {} /\ cursor <= Top
        BY <1>4, <3>1, TopType, <1>n DEF PlaceAt, SaveCheckpoint, Top
    <3>3. ~(lo <= Top)
        BY <3>2
    <3> QED BY <1>4, <3>1, <3>2, <3>3, <1>n DEF PlaceAt, SaveCheckpoint
  <2>3. Position'
      BY <1>4, <2>2, <1>n DEF SaveCheckpoint, Position
  <2>4. RowsOK'
      BY <1>4, <1>n, RowsKept DEF SaveCheckpoint, readerVars, writerVars
  <2> QED BY <1>4, <1>w, <2>1, <2>3, <2>4 DEF SaveCheckpoint
<1>5. CASE Crash
  <2>1. TypeOK' /\ Position'
      BY <1>5, GivesUp, SpendType DEF Crash, TypeOK, readerVars, writerVars, historyVars, Disturbances
  <2>2. RowsOK'
      BY <1>5, <1>n, RowsKept DEF Crash, Abort, readerVars, writerVars
  <2> QED BY <1>5, <1>w, <2>1, <2>2 DEF Crash
<1> QED BY <1>1, <1>2, <1>3, <1>4, <1>5

Mails == [Instants \X (1..Steps) -> Nat]

LEMMA MailedType ==
    ASSUME TypeOK, First \in Readers, Cycle \in Instants, NextStep \in 1..Steps, NEW h \in [Readers -> Mails]
    PROVE  /\ Mailed(h) \in [Readers -> Mails]
           /\ \A r \in Readers, c \in Instants, k \in 1..Steps :
                Mailed(h)[r][<<c, k>>] =
                    IF r = First /\ c = Cycle /\ k = NextStep THEN h[r][<<c, k>>] + 1 ELSE h[r][<<c, k>>]
<1> DEFINE step == <<Cycle, NextStep>>
           more == [h[First] EXCEPT ![step] = @ + 1]
<1>1. Mailed(h) = [h EXCEPT ![First] = more]
    BY DEF Mailed
<1>2. h[First] \in Mails /\ step \in Instants \X (1..Steps)
    OBVIOUS
<1>3. \A c \in Instants, k \in 1..Steps : <<c, k>> = step <=> c = Cycle /\ k = NextStep
    OBVIOUS
<1> HIDE DEF step
<1>4. more \in Mails /\ \A c \in Instants, k \in 1..Steps :
        more[<<c, k>>] = IF <<c, k>> = step THEN h[First][<<c, k>>] + 1 ELSE h[First][<<c, k>>]
    BY <1>2 DEF Mails
<1> HIDE DEF more
<1> QED BY <1>1, <1>3, <1>4

\* A step that is sent is one of the sequence, which is over before a sunset.
StepInHand ==
    /\ pc \in SendPlaces => Row.sent < Steps
    /\ pc \in SunsetPlaces => Row.sent >= Steps /\ Row.enrolled # 0 /\ Row.engaged <= Row.enrolled

LEMMA NextStepType ==
    ASSUME TypeInv, StepInHand, pc \in SendPlaces
    PROVE  /\ NextStep \in 1..Steps /\ NextStep = Row.sent + 1 /\ ClaimKey \in Readers \X Instants \X (1..Steps)
           /\ (NextStep = 1 <=> Row.enrolled = 0) /\ Cycle \in Instants
<1>1. Row.sent \in 0..Steps /\ Row.sent < Steps /\ First \in Readers /\ Row.enrolled \in Instants
    BY FirstType DEF TypeInv, StepInHand, InHand
<1>2. Row.sent = 0 <=> Row.enrolled = 0
    BY <1>1 DEF TypeInv, RowsOK, WellFormed, Row
<1>3. NextStep \in 1..Steps
    BY <1>1, WinbackAssumption DEF NextStep
<1>4. ClaimKey \in Readers \X Instants \X (1..Steps)
    BY <1>1, <1>3 DEF ClaimKey
<1>5. NextStep = 1 <=> Row.sent = 0
    BY <1>1 DEF NextStep
<1>6. Cycle \in Instants
    BY <1>1, Clock DEF Cycle, TypeInv, TypeOK
<1> QED BY <1>2, <1>3, <1>4, <1>5, <1>6 DEF NextStep

\* A row without its sequence, and one with another step sent.
LEMMA RowWritten ==
    ASSUME TypeInv, StepInHand, InHand
    PROVE  /\ Unenrol(Row) \in Record /\ Unenrol(Row).enrolled = 0 /\ Unenrol(Row).sent = 0
           /\ [Unenrol(Row) EXCEPT !.status = "suppressed"] \in Record
           /\ Unenrol(Row).engaged = Row.engaged /\ Row.engaged <= Now + 1
<1>2. Row.engaged <= Now + 1
    BY FirstType DEF TypeInv, RowsOK, WellFormed, Row
<1>1. Row \in Record /\ 0 \in Instants /\ 0 \in 0..Steps
    BY FirstType, WinbackAssumption DEF TypeInv, Instants
<1> QED BY <1>1, <1>2 DEF Record, Unenrol

Advanced == [Row EXCEPT !.enrolled = IF NextStep = 1 THEN Now ELSE @, !.sent = NextStep, !.lastStep = Now]

LEMMA RowAdvanced ==
    ASSUME TypeInv, StepInHand, pc \in SendPlaces
    PROVE  /\ Advanced \in Record
           /\ Advanced.sent = Row.sent + 1 /\ Advanced.engaged = Row.engaged
           /\ Advanced.enrolled = IF NextStep = 1 THEN Now ELSE Row.enrolled
           /\ Advanced.enrolled # 0 /\ Advanced.enrolled <= Now /\ Advanced.engaged <= Now + 1
<1>1. /\ Row \in Record /\ Row.enrolled \in Instants
    BY FirstType DEF TypeInv, InHand
<1>2. Now \in Instants /\ Now \in Nat /\ Now >= 2
    BY Clock, WinbackAssumption DEF TypeInv, TypeOK, Instants
<1>3. NextStep \in 1..Steps /\ NextStep = Row.sent + 1 /\ (NextStep = 1 <=> Row.enrolled = 0)
    BY NextStepType
<1>4. Row.enrolled <= Now /\ Row.engaged <= Now + 1
    BY FirstType DEF TypeInv, RowsOK, WellFormed, Row, InHand
<1>5. 1..Steps \subseteq 0..Steps
    BY WinbackAssumption
<1>6. Advanced \in Record
    BY <1>1, <1>2, <1>3, <1>5 DEF Advanced, Record
<1>7. /\ Advanced.sent = NextStep /\ Advanced.engaged = Row.engaged
      /\ Advanced.enrolled = IF NextStep = 1 THEN Now ELSE Row.enrolled
    BY <1>1 DEF Advanced, Record
<1> QED BY <1>2, <1>3, <1>4, <1>6, <1>7

\* The sweep with a reader.
LEMMA ReaderType ==
    ASSUME TypeInv, StepInHand,
           \/ Examine \/ ClaimStep \/ Gate \/ MailAccepted \/ MailFailed \/ Advance
           \/ Graduate \/ SunsetRows \/ SunsetEntry \/ SunsetPut
    PROVE  TypeInv'
<1> USE DEF TypeInv, At, Goto
<1>p. /\ (At("examine") /\ page # {}) \/ InHand
      /\ pc # "examine" => InHand
    BY DEF Examine, ClaimStep, Gate, MailAccepted, MailFailed, Advance,
           Graduate, SunsetRows, SunsetEntry, SunsetPut, InHand, SendPlaces, SunsetPlaces
<1>n. Now' = Now /\ Now' \in Nat /\ time' = time /\ Now' >= Now
  <2>1. time' = time
      BY DEF Examine, ClaimStep, Gate, MailAccepted, MailFailed, Advance,
             Graduate, SunsetRows, SunsetEntry, SunsetPut
  <2>2. Now' = Now
      BY <2>1 DEF Now
  <2>3. Now \in Nat
      BY Clock, WinbackAssumption DEF TypeOK, Instants
  <2> QED BY <2>1, <2>2, <2>3
<1>f. First \in Readers /\ First \in page /\ Row \in Record
    BY <1>p, FirstType DEF At
<1>i. \A place \in SendPlaces \cup SunsetPlaces \cup {"graduate"} : pc' = place => InHand'
    BY DEF InHand
<1>w. UNCHANGED writerVars /\ copy' = copy /\ WritersOK'
    BY DEF Examine, ClaimStep, Gate, MailAccepted, MailFailed, Advance,
           Graduate, SunsetRows, SunsetEntry, SunsetPut, WritersOK, writerVars
<1>1. CASE Examine
  <2>1. CASE Drop
    <3>1. TypeOK'
        BY <1>1, <2>1, <1>f, Dropped DEF Examine, TypeOK, Drop, readerVars, writerVars
    <3>2. Position'
        BY <1>1, <2>1, Dropped DEF Examine
    <3>3. RowsOK'
        BY <1>1, <2>1, <1>n, <1>w, <1>f, RowsKept DEF Examine, readerVars, writerVars
    <3> QED BY <1>n, <1>w, <3>1, <3>2, <3>3
  <2>2. CASE UNCHANGED <<page, snap>> /\ pc' \in {"send", "sunset", "graduate"}
    <3>1. PICK lo \in 1..(Top + 1) : PlaceAt(lo) /\ First = lo /\ lo <= Top
        BY <1>1, InHandType DEF Examine
    <3>t. Top \in 0..LastReader /\ Top' = Top /\ lo \in Nat /\ LastReader \in Nat /\ room \in Nat
        BY <1>1, TopType, WinbackAssumption DEF Top, TypeOK, Examine
    <3>2. room' = room - 1 /\ room >= Top - lo + 1 /\ lo \in swept' /\ 1..(lo - 1) \subseteq swept'
        BY <1>1, <3>1, <3>t DEF Examine, PlaceAt
    <3>3. room' \in Nat /\ room' >= Top - lo
        BY <3>1, <3>2, <3>t
    <3>4. PlaceAt(lo)'
        BY <2>2, <3>1, <3>2, <3>3, <3>t DEF PlaceAt
    <3>5. Position'
        BY <1>1, <2>2, <3>1, <3>4, <3>t DEF Position, Examine
    <3>6. TypeOK'
        BY <1>1, <2>2, <3>3, <1>f DEF TypeOK, Examine, readerVars, writerVars
    <3>7. RowsOK'
        BY <1>1, <2>2, <1>n, <1>w, RowsKept DEF Examine, readerVars, writerVars
    <3> QED BY <1>n, <1>w, <3>5, <3>6, <3>7
  <2>3. Choice \in {"skip", "wait", "send", "sunset", "graduate"}
      BY <1>f, Decided
  <2> QED BY <1>1, <2>1, <2>2, <2>3 DEF Examine, Choice
<1>2. CASE ClaimStep
  <2>1. claims' \subseteq Readers \X Instants \X (1..Steps)
      BY <1>2, NextStepType DEF ClaimStep, TypeOK, SendPlaces
  <2>2. CASE Drop
    <3>1. TypeOK' /\ Position'
        BY <1>2, <1>p, <2>1, <2>2, Dropped DEF ClaimStep, TypeOK, Drop, writerVars, historyVars
    <3>2. RowsOK'
        BY <1>2, <2>2, <1>n, <1>w, <1>f, RowsKept DEF ClaimStep
    <3> QED BY <1>n, <1>w, <3>1, <3>2
  <2>3. CASE pc' = "gate" /\ UNCHANGED <<page, snap>>
    <3>1. TypeOK'
        BY <1>2, <2>1, <2>3 DEF ClaimStep, TypeOK, writerVars, historyVars
    <3>2. Position'
        BY <1>2, <1>p, <1>i, <2>3, GoesOn DEF ClaimStep, writerVars, historyVars, SendPlaces
    <3>3. RowsOK'
        BY <1>2, <2>3, <1>n, <1>w, RowsKept DEF ClaimStep
    <3> QED BY <1>n, <1>w, <3>1, <3>2, <3>3
  <2> QED BY <1>2, <2>2, <2>3 DEF ClaimStep
<1>3. CASE Gate
  <2>1. claims' \subseteq Readers \X Instants \X (1..Steps)
      BY <1>3 DEF Gate, TypeOK
  <2>2. CASE Drop
    <3>1. TypeOK' /\ Position'
        BY <1>3, <1>p, <2>1, <2>2, Dropped DEF Gate, TypeOK, Drop, writerVars, historyVars
    <3>2. RowsOK'
        BY <1>3, <2>2, <1>n, <1>w, <1>f, RowsKept DEF Gate
    <3> QED BY <1>n, <1>w, <3>1, <3>2
  <2>3. CASE pc' = "mail" /\ UNCHANGED <<page, snap>>
    <3>1. TypeOK'
        BY <1>3, <2>1, <2>3 DEF Gate, TypeOK, writerVars, historyVars
    <3>2. Position'
        BY <1>3, <1>p, <1>i, <2>3, GoesOn DEF Gate, writerVars, historyVars, SendPlaces
    <3>3. RowsOK'
        BY <1>3, <2>3, <1>n, <1>w, RowsKept DEF Gate
    <3> QED BY <1>n, <1>w, <3>1, <3>2, <3>3
  <2> QED BY <1>3, <2>2, <2>3 DEF Gate
<1>4. CASE MailAccepted
  <2>1. got' \in [Readers -> Mails]
      BY <1>4, <1>f, NextStepType, MailedType DEF MailAccepted, TypeOK, SendPlaces, Mails
  <2>2. TypeOK'
      BY <1>4, <2>1 DEF MailAccepted, TypeOK, Mails, readerVars, writerVars
  <2>3. Position'
      BY <1>4, <1>p, <1>i, GoesOn DEF MailAccepted, SendPlaces
  <2>4. RowsOK'
      BY <1>4, <1>n, <1>w, RowsKept DEF MailAccepted, readerVars, writerVars
  <2> QED BY <1>n, <1>w, <2>2, <2>3, <2>4
<1>5. CASE MailFailed
  <2>1. got' \in [Readers -> Mails] /\ lost' \in [Readers -> Mails]
      BY <1>5, <1>f, NextStepType, MailedType DEF MailFailed, TypeOK, SendPlaces, Mails
  <2>2. left' \in [Disturbances -> Nat]
      BY <1>5, SpendType DEF MailFailed, Disturbances
  <2>3. TypeOK' /\ Position'
      BY <1>5, <2>1, <2>2, GivesUp DEF MailFailed, TypeOK, Mails, writerVars
  <2>4. RowsOK'
      BY <1>5, <1>n, <1>w, RowsKept DEF MailFailed, Abort
  <2> QED BY <1>n, <1>w, <2>3, <2>4
<1>6. CASE Advance
  <2>1. /\ rec' = [rec EXCEPT ![First] = Advanced] /\ Advanced \in Record
        /\ Advanced.enrolled <= Now /\ Advanced.engaged <= Now + 1 /\ (Advanced.sent = 0 <=> Advanced.enrolled = 0)
    <3>1. Row.sent \in Nat
        BY <1>p, <1>6, FirstType DEF Advance
    <3> QED BY <1>6, <3>1, RowAdvanced DEF Advance, Advanced, SendPlaces
  <2>a. rec' \in [Readers -> Record]
      BY <2>1 DEF TypeOK
  <2>b. page' \subseteq Readers /\ snap' \in [Readers -> Record] /\ pc' = "examine" /\ Position'
      BY <1>6, <1>p, Dropped DEF Advance, Drop, writerVars, historyVars
  <2>c. /\ UNCHANGED <<time, active, sup, claims, doing, whom, held, copy, ckpt, cursor, room>>
        /\ UNCHANGED <<got, lost, saved, swept, left>>
      BY <1>6 DEF Advance, writerVars, historyVars
  <2>2. TypeOK' /\ Position'
      BY <2>a, <2>b, <2>c DEF TypeOK
  <2>3. \A r \in Readers : rec'[r] = rec[r] \/ WellFormed(rec[r])'
      BY <2>1, <1>n, <1>f DEF TypeOK, WellFormed
  <2>4. RowsOK'
      BY <1>6, <1>n, <1>w, <1>f, <2>3, RowsKept DEF Advance
  <2> QED BY <1>n, <1>w, <2>2, <2>4
<1>7. CASE Graduate
  <2>1. rec' = [rec EXCEPT ![First] = Unenrol(Row)] /\ Unenrol(Row) \in Record
        /\ Unenrol(Row).enrolled = 0 /\ Unenrol(Row).sent = 0 /\ Unenrol(Row).engaged <= Now + 1
      BY <1>7, <1>p, RowWritten DEF Graduate
  <2>2. TypeOK' /\ Position'
      BY <1>7, <1>p, <1>f, <2>1, Dropped DEF Graduate, TypeOK, Drop, writerVars, historyVars
  <2>3. \A r \in Readers : rec'[r] = rec[r] \/ WellFormed(rec[r])'
      BY <2>1, <1>n, <1>f DEF TypeOK, WellFormed
  <2>4. RowsOK'
      BY <1>7, <1>n, <1>w, <1>f, <2>3, RowsKept DEF Graduate
  <2> QED BY <1>n, <1>w, <2>2, <2>4
<1>8. CASE SunsetRows
  <2>1. TypeOK'
      BY <1>8 DEF SunsetRows, TypeOK, writerVars, historyVars
  <2>2. Position'
      BY <1>8, <1>p, <1>i, GoesOn DEF SunsetRows, writerVars, historyVars, SunsetPlaces
  <2>3. RowsOK'
      BY <1>8, <1>n, <1>w, RowsKept DEF SunsetRows
  <2> QED BY <1>n, <1>w, <2>1, <2>2, <2>3
<1>9. CASE SunsetEntry
  <2>1. TypeOK'
      BY <1>9 DEF SunsetEntry, TypeOK, writerVars, historyVars
  <2>2. Position'
      BY <1>9, <1>p, <1>i, GoesOn DEF SunsetEntry, writerVars, historyVars, SunsetPlaces
  <2>3. RowsOK'
      BY <1>9, <1>n, <1>w, RowsKept DEF SunsetEntry
  <2> QED BY <1>n, <1>w, <2>1, <2>2, <2>3
<1>10. CASE SunsetPut
  <2> DEFINE gone == [Unenrol(Row) EXCEPT !.status = "suppressed"]
  <2>1. rec' = [rec EXCEPT ![First] = gone] /\ gone \in Record /\ gone.enrolled = 0 /\ gone.sent = 0
        /\ gone.engaged <= Now + 1
      BY <1>10, <1>p, RowWritten DEF SunsetPut, Record
  <2>a. rec' \in [Readers -> Record]
      BY <2>1 DEF TypeOK
  <2> HIDE DEF gone
  <2>2. TypeOK' /\ Position'
      BY <1>10, <1>p, <1>f, <2>a, Dropped DEF SunsetPut, TypeOK, Drop, writerVars, historyVars
  <2>3. \A r \in Readers : rec'[r] = rec[r] \/ WellFormed(rec[r])'
      BY <2>1, <1>n, <1>f DEF TypeOK, WellFormed
  <2>4. RowsOK'
      BY <1>10, <1>n, <1>w, <1>f, <2>3, RowsKept DEF SunsetPut
  <2> QED BY <1>n, <1>w, <2>2, <2>4
<1> QED BY <1>1, <1>2, <1>3, <1>4, <1>5, <1>6, <1>7, <1>8, <1>9, <1>10

\* Everybody else leaves the sweep alone.  A writer puts back the row that it
\* has read, but for the status.
Others == (\E r \in Readers : Click(r) \/ Return(r)) \/ (\E w \in Writers : WriterStep(w)) \/ NextPeriod

LEMMA Time ==
    ASSUME TypeInv
    PROVE  /\ time \in Nat /\ time >= 2 /\ time \div 2 \in Nat
           /\ Now \in Nat /\ Now = 2 * (time \div 2) /\ Now >= 2
           /\ \A s \in Record : s.enrolled \in Nat /\ s.engaged \in Nat /\ s.sent \in Nat
BY Clock, WinbackAssumption DEF TypeInv, TypeOK, Instants, Now, Record

LEMMA ClickType ==
    ASSUME TypeInv, NEW r \in Readers, Click(r)
    PROVE  /\ TypeInv' /\ Now' = Now
           /\ rec'[r].engaged = time' /\ time' = Now + 1
           /\ rec'[r].enrolled = rec[r].enrolled /\ rec'[r].sent = rec[r].sent
           /\ \A x \in Readers \ {r} : rec'[x] = rec[x]
<1> DEFINE s == [rec[r] EXCEPT !.engaged = time']
<1>1. time' = Now + 1 /\ time' \in Instants /\ time' >= 2 /\ Now' = Now
  <2>1. time' = Now + 1 /\ Now = 2 * (time \div 2) /\ time \div 2 \in Nat
      BY Time DEF Click
  <2>2. (2 * (time \div 2) + 1) \div 2 = time \div 2
      BY <2>1
  <2>3. Now' = 2 * (time' \div 2)
      BY DEF Now
  <2>4. time' \in Instants
      BY Clock DEF Click, TypeInv, TypeOK
  <2> QED BY <2>1, <2>2, <2>3, <2>4, Time
<1>2. rec[r] \in Record /\ s \in Record /\ s.engaged = time' /\ s.enrolled = rec[r].enrolled /\ s.sent = rec[r].sent
  <2>1. rec[r] \in Record
      BY DEF TypeInv, TypeOK
  <2> QED BY <1>1, <2>1 DEF Record
<1>3. rec' = [rec EXCEPT ![r] = s] /\ rec \in [Readers -> Record]
    BY DEF Click, TypeInv, TypeOK
<1> HIDE DEF s
<1>4. rec' \in [Readers -> Record] /\ rec'[r] = s /\ \A x \in Readers \ {r} : rec'[x] = rec[x]
    BY <1>2, <1>3
<1>5. WellFormed(rec[r])'
  <2>1. rec[r].enrolled <= Now /\ (rec[r].sent = 0 <=> rec[r].enrolled = 0)
      BY DEF TypeInv, RowsOK, WellFormed
  <2>2. s.enrolled <= Now' /\ s.engaged <= Now' + 1 /\ (s.sent = 0 <=> s.enrolled = 0)
      BY <1>1, <1>2, <2>1, Time
  <2> QED BY <1>4, <2>2 DEF WellFormed
<1>6. /\ UNCHANGED <<active, sup, claims, ckpt, pc, page, snap, cursor, room>>
      /\ UNCHANGED <<doing, whom, held, copy, got, lost, swept>>
    BY DEF Click, sweepVars, writerVars
<1>7. saved' \in [Readers -> Instants] /\ left' \in [Disturbances -> Nat]
  <2>1. saved \in [Readers -> Instants]
      BY DEF TypeInv, TypeOK
  <2>2. left' \in [Disturbances -> Nat]
      BY SpendType DEF Click, TypeInv, Disturbances
  <2> QED BY <1>1, <2>1, <2>2 DEF Click
<1>8. TypeOK'
    BY <1>1, <1>4, <1>6, <1>7 DEF TypeInv, TypeOK
<1>9. RowsOK'
  <2>1. Now' \in Nat /\ Now' >= Now
      BY <1>1, Time
  <2>2. \A x \in Readers : rec'[x] = rec[x] \/ WellFormed(rec[x])'
      BY <1>4, <1>5
  <2> QED BY <1>6, <2>1, <2>2, RowsKept
<1>10. Position'
  <2>1. Top' = Top
      BY <1>6 DEF Top
  <2>2. \A lo \in 1..(Top + 1) : PlaceAt(lo) => PlaceAt(lo)'
      BY <1>6, <2>1 DEF PlaceAt, At, InHand
  <2> QED BY <1>6, <2>1, <2>2 DEF TypeInv, Position, At
<1>11. WritersOK'
    BY <1>6 DEF TypeInv, WritersOK
<1> QED BY <1>1, <1>2, <1>4, <1>8, <1>9, <1>10, <1>11 DEF TypeInv

LEMMA WrittenType ==
    ASSUME TypeInv, NEW w \in Writers
    PROVE  /\ Written(w) \in Record /\ Written(w).enrolled = copy[w].enrolled
           /\ Written(w).sent = copy[w].sent /\ Written(w).engaged = copy[w].engaged
           /\ WellFormed(Written(w))
<1> DEFINE status == CASE doing[w] = "suppress" -> "suppressed" [] doing[w] = "activate" -> "active"
                       [] OTHER -> copy[w].status
<1>1. copy[w] \in Record /\ WellFormed(copy[w])
    BY DEF TypeInv, TypeOK, RowsOK
<1>2. status \in {"active", "suppressed"}
    BY <1>1 DEF Record
<1>3. Written(w) = [copy[w] EXCEPT !.status = status]
    BY DEF Written
<1> HIDE DEF status
<1>4. /\ Written(w) \in Record /\ Written(w).enrolled = copy[w].enrolled
      /\ Written(w).sent = copy[w].sent /\ Written(w).engaged = copy[w].engaged
    BY <1>1, <1>2, <1>3 DEF Record
<1> QED BY <1>1, <1>4 DEF WellFormed

\* Writers that keep their types leave the sweep where it is.
LEMMA WriterOthers ==
    ASSUME TypeInv, TypeOK', WritersOK',
           UNCHANGED <<time, ckpt, pc, page, snap, cursor, room, swept>>,
           \A r \in Readers : rec'[r] = rec[r] \/ WellFormed(rec[r])',
           \A x \in Writers : copy'[x] = copy[x] \/ WellFormed(copy[x])'
    PROVE  TypeInv'
<1>1. Now' = Now /\ Now' \in Nat /\ Now' >= Now
    BY Time DEF Now
<1>2. RowsOK'
    BY <1>1, RowsKept
<1>3. Position'
  <2>1. Top' = Top
      BY DEF Top
  <2>2. \A lo \in 1..(Top + 1) : PlaceAt(lo) => PlaceAt(lo)'
      BY <2>1 DEF PlaceAt, At, InHand
  <2> QED BY <2>1, <2>2 DEF TypeInv, Position, At
<1> QED BY <1>2, <1>3 DEF TypeInv

\* What a writer's step does to rows and to what writers hold of them.
LEMMA WriterRows ==
    ASSUME TypeInv, NEW w \in Writers, WriterStep(w)
    PROVE  /\ UNCHANGED <<time, active, claims, ckpt, pc, page, snap, cursor, room>>
           /\ UNCHANGED <<got, lost, saved, swept>>
           /\ \A x \in held' : \/ x \in held /\ whom'[x] = whom[x] /\ copy'[x] = copy[x]
                               \/ whom'[x] \in Readers /\ copy'[x] = rec[whom'[x]]
           /\ \A r \in Readers : \/ rec'[r] = rec[r]
                                 \/ \E x \in held : whom[x] = r /\ rec'[r] = Written(x)
           /\ TypeInv'
<1> USE DEF TypeInv
<1>1. UNCHANGED <<time, active, claims, ckpt, pc, page, snap, cursor, room, got, lost, saved, swept>>
    BY DEF WriterStep, BeginWrite, WriteEntry, ReadRow, PutRow, KillWriter, readerVars, sweepVars, historyVars
<1>t. /\ doing \in [Writers -> {"none", "complaint", "manual", "lift", "upsert", "suppress", "activate"}]
      /\ whom \in [Writers -> 0..LastReader] /\ held \subseteq Writers /\ copy \in [Writers -> Record]
      /\ rec \in [Readers -> Record] /\ sup \in [Readers -> {"none", "inactive", "manual", "complaint"}]
    BY DEF TypeOK
<1>f. NewRow \in Record /\ WellFormed(NewRow)'
  <2>1. NewRow \in Record /\ NewRow.enrolled = 0 /\ NewRow.engaged = 0 /\ NewRow.sent = 0
      BY WinbackAssumption DEF NewRow, Record, Instants
  <2>2. Now' = Now /\ Now \in Nat
      BY <1>1, Time DEF Now
  <2> QED BY <2>1, <2>2 DEF WellFormed
<1>2. CASE \E r \in Readers : BeginWrite(w, r)
  <2>1. PICK r \in Readers : BeginWrite(w, r)
      BY <1>2
  <2>2. PICK kind \in {"complaint", "manual", "lift", "upsert"} :
           Spend(kind) /\ doing' = [doing EXCEPT ![w] = kind]
      BY <2>1 DEF BeginWrite
  <2>3. /\ w \notin held /\ whom' = [whom EXCEPT ![w] = r] /\ r \in 0..LastReader
        /\ rec' = rec /\ sup' = sup /\ held' = held /\ copy' = copy
      BY <2>1, WinbackAssumption DEF BeginWrite, readerVars, WritersOK, Readers
  <2>4. left' \in [Disturbances -> Nat]
      BY <2>2, SpendType DEF Disturbances
  <2>5. doing' \in [Writers -> {"none", "complaint", "manual", "lift", "upsert", "suppress", "activate"}]
        /\ whom' \in [Writers -> 0..LastReader]
      BY <1>t, <2>2, <2>3
  <2>6. TypeOK'
      BY <1>1, <2>3, <2>4, <2>5 DEF TypeOK
  <2>7. WritersOK'
      BY <1>t, <2>2, <2>3 DEF WritersOK
  <2>8. \A x \in held' : x \in held /\ whom'[x] = whom[x] /\ copy'[x] = copy[x]
      BY <1>t, <2>3
  <2> QED BY <1>1, <2>3, <2>6, <2>7, <2>8, WriterOthers
<1>3. CASE WriteEntry(w)
  <2>1. /\ rec' = rec /\ held' = held /\ copy' = copy /\ whom' = whom /\ left' = left
        /\ doing[w] # "none" /\ whom[w] \in Readers
      BY <1>3 DEF WriteEntry, historyVars, WritersOK
  <2>2. \E e \in {"none", "inactive", "manual", "complaint"} : sup' = [sup EXCEPT ![whom[w]] = e]
      BY <1>3, <1>t, <2>1 DEF WriteEntry
  <2>3. \E d \in {"suppress", "activate"} : doing' = [doing EXCEPT ![w] = d]
      BY <1>3 DEF WriteEntry
  <2>4. sup' \in [Readers -> {"none", "inactive", "manual", "complaint"}]
      BY <1>t, <2>2
  <2>5. doing' \in [Writers -> {"none", "complaint", "manual", "lift", "upsert", "suppress", "activate"}]
      BY <1>t, <2>3
  <2>6. TypeOK'
      BY <1>1, <2>1, <2>4, <2>5 DEF TypeOK
  <2>7. WritersOK'
      BY <1>t, <2>1, <2>3 DEF WritersOK
  <2> QED BY <1>1, <2>1, <2>6, <2>7, WriterOthers
<1>4. CASE ReadRow(w)
  <2>1. /\ rec' = rec /\ sup' = sup /\ doing' = doing /\ whom' = whom /\ left' = left
        /\ doing[w] # "none" /\ whom[w] \in Readers
        /\ held' = held \cup {w} /\ copy' = [copy EXCEPT ![w] = rec[whom[w]]]
      BY <1>4 DEF ReadRow, readerVars, historyVars, WritersOK
  <2>2. held' \subseteq Writers /\ copy' \in [Writers -> Record]
      BY <1>t, <2>1
  <2>3. TypeOK'
      BY <1>1, <2>1, <2>2 DEF TypeOK
  <2>4. WritersOK'
      BY <2>1 DEF WritersOK
  <2>5. \A x \in held' : \/ x \in held /\ whom'[x] = whom[x] /\ copy'[x] = copy[x]
                         \/ whom'[x] \in Readers /\ copy'[x] = rec[whom'[x]]
      BY <1>t, <2>1
  <2>6. \A x \in Writers : copy'[x] = copy[x] \/ WellFormed(copy[x])'
    <3>1. Now' = Now
        BY <1>1 DEF Now
    <3>2. copy'[w] = rec[whom[w]] /\ \A x \in Writers \ {w} : copy'[x] = copy[x]
        BY <1>t, <2>1
    <3>3. WellFormed(rec[whom[w]])
        BY <2>1 DEF RowsOK
    <3> QED BY <3>1, <3>2, <3>3 DEF WellFormed
  <2> QED BY <1>1, <2>1, <2>3, <2>4, <2>5, <2>6, WriterOthers
<1>5. CASE PutRow(w) \/ KillWriter(w)
  <2>1. /\ sup' = sup /\ Finish(w) /\ doing[w] # "none" /\ whom[w] \in Readers
        /\ rec' = rec \/ (w \in held /\ rec' = [rec EXCEPT ![whom[w]] = Written(w)])
      BY <1>5 DEF PutRow, KillWriter, readerVars, historyVars, WritersOK
  <2>2. left' \in [Disturbances -> Nat]
      BY <1>5, SpendType DEF PutRow, KillWriter, Disturbances, TypeOK
  <2>3. /\ doing' = [doing EXCEPT ![w] = "none"] /\ whom' = [whom EXCEPT ![w] = 0]
        /\ held' = held \ {w} /\ copy' = [copy EXCEPT ![w] = NewRow]
      BY <2>1 DEF Finish
  <2>4. doing' \in [Writers -> {"none", "complaint", "manual", "lift", "upsert", "suppress", "activate"}]
      BY <1>t, <2>3
  <2>5. whom' \in [Writers -> 0..LastReader] /\ held' \subseteq Writers /\ copy' \in [Writers -> Record]
      BY <1>t, <1>f, <2>3, WinbackAssumption
  <2>6. rec' \in [Readers -> Record]
      BY <1>t, <2>1, WrittenType
  <2>7. TypeOK'
      BY <1>1, <2>1, <2>2, <2>4, <2>5, <2>6 DEF TypeOK
  <2>8. WritersOK'
      BY <1>t, <2>3 DEF WritersOK
  <2>9. \A x \in held' : x \in held /\ whom'[x] = whom[x] /\ copy'[x] = copy[x]
      BY <1>t, <2>3
  <2>10. \A r \in Readers : rec'[r] = rec[r] \/ (r = whom[w] /\ w \in held /\ rec'[r] = Written(w))
      BY <1>t, <2>1
  <2>11. \A x \in Writers : copy'[x] = copy[x] \/ WellFormed(copy[x])'
    <3>1. \A x \in Writers : copy'[x] = copy[x] \/ copy'[x] = NewRow
        BY <1>t, <2>3
    <3> QED BY <1>f, <3>1 DEF WellFormed
  <2>12. \A r \in Readers : rec'[r] = rec[r] \/ WellFormed(rec[r])'
    <3>1. Now' = Now
        BY <1>1 DEF Now
    <3> QED BY <2>10, <3>1, WrittenType DEF WellFormed
  <2> QED BY <1>1, <2>7, <2>8, <2>9, <2>10, <2>11, <2>12, WriterOthers
<1> QED BY <1>2, <1>3, <1>4, <1>5 DEF WriterStep

LEMMA ReturnType ==
    ASSUME TypeInv, NEW r \in Readers, Return(r)
    PROVE  TypeInv'
<1>1. /\ UNCHANGED <<time, rec, claims, ckpt, pc, page, snap, cursor, room>>
      /\ UNCHANGED <<doing, whom, held, copy, got, lost, saved, swept>>
    BY DEF Return, sweepVars, writerVars, historyVars
<1>2. active' \subseteq Readers /\ sup' \in [Readers -> {"none", "inactive", "manual", "complaint"}]
    BY DEF Return, TypeInv, TypeOK
<1>3. left' \in [Disturbances -> Nat]
    BY SpendType DEF Return, TypeInv, Disturbances
<1>4. TypeOK'
    BY <1>1, <1>2, <1>3 DEF TypeInv, TypeOK
<1>5. WritersOK'
    BY <1>1 DEF TypeInv, WritersOK
<1> QED BY <1>1, <1>4, <1>5, WriterOthers DEF TypeInv

LEMMA PeriodType ==
    ASSUME TypeInv, NextPeriod
    PROVE  TypeInv' /\ pc = "idle"
<1>1. /\ UNCHANGED <<rec, active, sup, claims, ckpt, pc, page, snap, cursor, room>>
      /\ UNCHANGED <<doing, whom, held, copy, got, lost, saved, swept, left>>
      /\ pc = "idle"
    BY DEF NextPeriod, readerVars, sweepVars, writerVars, historyVars, At
<1>2. time' = 2 * (time \div 2) + 2 /\ time' \in Instants
    BY Clock DEF NextPeriod, TypeInv, TypeOK
<1>3. Now' = Now + 2
  <2>1. (2 * (time \div 2) + 2) \div 2 = (time \div 2) + 1
      BY Time
  <2> QED BY <1>2, <2>1, Time DEF Now
<1>4. TypeOK'
    BY <1>1, <1>2 DEF TypeInv, TypeOK
<1>5. RowsOK'
  <2>1. Now' \in Nat /\ Now' >= Now
      BY <1>3, Time
  <2> QED BY <1>1, <2>1, RowsKept
<1>6. Position'
  <2>1. Top' = Top
      BY <1>1 DEF Top
  <2>2. \A lo \in 1..(Top + 1) : PlaceAt(lo) => PlaceAt(lo)'
      BY <1>1, <2>1 DEF PlaceAt, At, InHand
  <2> QED BY <1>1, <2>1, <2>2 DEF TypeInv, Position, At
<1> QED BY <1>1, <1>2, <1>4, <1>5, <1>6, Time DEF TypeInv, WritersOK

LEMMA OthersType == TypeInv /\ Others => TypeInv' /\ UNCHANGED <<pc, page, snap, cursor, room, claims, swept>>
<1>1. ASSUME TypeInv, NEW r \in Readers, Click(r) \/ Return(r)
      PROVE  TypeInv' /\ UNCHANGED <<pc, page, snap, cursor, room, claims, swept>>
    BY <1>1, ClickType, ReturnType DEF Click, Return, sweepVars, historyVars
<1>2. ASSUME TypeInv, NextPeriod
      PROVE  TypeInv' /\ UNCHANGED <<pc, page, snap, cursor, room, claims, swept>>
    BY <1>2, PeriodType DEF NextPeriod, readerVars, sweepVars, historyVars
<1> QED BY <1>1, <1>2, WriterRows DEF Others

StutterVars ==
    <<time, rec, active, sup, claims, ckpt, pc, page, snap, cursor, room, doing, whom, held, copy,
      got, lost, saved, swept, left>>

LEMMA StutterType == TypeInv /\ UNCHANGED vars => TypeInv'
<1> SUFFICES ASSUME TypeInv, UNCHANGED vars PROVE TypeInv'
    OBVIOUS
<1>1. UNCHANGED StutterVars
    BY DEF vars, readerVars, writerVars, sweepVars, historyVars, StutterVars
<1>2. TypeOK' /\ time' >= 2
    BY <1>1 DEF TypeInv, TypeOK, StutterVars
<1>3. Position'
  <2>1. /\ Top' = Top
        /\ UNCHANGED <<pc, page, room, ckpt, swept, cursor>>
      BY <1>1 DEF Top, StutterVars
  <2>2. \A lo \in 1..(Top + 1) : PlaceAt(lo) => PlaceAt(lo)'
      BY <2>1 DEF PlaceAt, At, InHand
  <2> QED BY <2>1, <2>2 DEF TypeInv, Position, At
<1>4. RowsOK' /\ WritersOK'
    BY <1>1 DEF TypeInv, RowsOK, WritersOK, WellFormed, Now, StutterVars
<1> QED BY <1>2, <1>3, <1>4 DEF TypeInv

\* The steps with the reader in hand, and those that leave it in hand.
ReaderStep ==
    \/ Examine \/ ClaimStep \/ Gate \/ MailAccepted \/ MailFailed \/ Advance
    \/ Graduate \/ SunsetRows \/ SunsetEntry \/ SunsetPut
PageStep == BeginSweep \/ LoadPage \/ EndPage \/ SaveCheckpoint \/ Crash

LEMMA StepsAre == [Next]_vars => PageStep \/ ReaderStep \/ Others \/ UNCHANGED vars
BY DEF Next, SweepStep, PageStep, ReaderStep, Others

LEMMA PageStepPlaces == PageStep => ~InHand'
BY DEF PageStep, BeginSweep, LoadPage, EndPage, SaveCheckpoint, Crash, Abort, Goto,
       InHand, SendPlaces, SunsetPlaces

LEMMA NextHand == TypeInv /\ StepInHand /\ [Next]_vars => StepInHand'
<1> SUFFICES ASSUME TypeInv, StepInHand, [Next]_vars PROVE StepInHand'
    OBVIOUS
<1>1. CASE PageStep
    BY <1>1, PageStepPlaces DEF StepInHand, InHand
<1>2. CASE ReaderStep
  <2> USE DEF At, Goto, SendPlaces, SunsetPlaces
  <2>1. CASE Examine
    <3>1. Row \in Record /\ Row.sent \in 0..Steps /\ (Row.enrolled = 0 <=> Row.sent = 0)
        BY <2>1, FirstType DEF Examine, TypeInv, RowsOK, WellFormed, Row
    <3>2. /\ pc' \in SendPlaces => Choice = "send" /\ UNCHANGED <<page, snap>>
          /\ pc' \in SunsetPlaces => Choice = "sunset" /\ UNCHANGED <<page, snap>>
        BY <2>1, <3>1, Decided DEF Examine, Drop, Choice
    <3>3. UNCHANGED <<page, snap>> => Row' = Row
        BY DEF Row, First
    <3> QED BY <3>1, <3>2, <3>3, Decided, WinbackAssumption DEF StepInHand
  <2>2. CASE ~Examine
    <3>1. /\ pc' \in SendPlaces => pc \in SendPlaces /\ UNCHANGED <<page, snap>>
          /\ pc' \in SunsetPlaces => pc \in SunsetPlaces /\ UNCHANGED <<page, snap>>
        BY <1>2, <2>2 DEF ReaderStep, ClaimStep, Gate, MailAccepted, MailFailed, Advance,
               Graduate, SunsetRows, SunsetEntry, SunsetPut, Drop, Abort
    <3>2. UNCHANGED <<page, snap>> => Row' = Row
        BY DEF Row, First
    <3> QED BY <3>1, <3>2 DEF StepInHand
  <2> QED BY <2>1, <2>2
<1>3. CASE Others \/ UNCHANGED vars
  <2>1. UNCHANGED <<pc, page, snap>>
      BY <1>3, OthersType DEF vars, sweepVars
  <2>2. Row' = Row
      BY <2>1 DEF Row, First
  <2> QED BY <2>1, <2>2 DEF StepInHand
<1> QED BY <1>1, <1>2, <1>3, StepsAre

LEMMA NextType == TypeInv /\ StepInHand /\ [Next]_vars => TypeInv'
BY StepsAre, PagesType, ReaderType, OthersType, StutterType DEF PageStep, ReaderStep

LEMMA TypeHolds == Spec => [](TypeInv /\ StepInHand)
<1>1. Init => StepInHand
    BY DEF Init, StepInHand, SendPlaces, SunsetPlaces
<1> QED BY <1>1, InitType, NextType, NextHand, PTL DEF Spec

\* Every variable keeps its type: the quota of an invocation is never overdrawn,
\* and no step beyond the sequence is sent.
THEOREM TypeCorrect == Spec => []TypeOK
<1>1. TypeInv => TypeOK
    BY DEF TypeInv
<1> QED BY <1>1, TypeHolds, PTL

-----------------------------------------------------------------------------
(* Passes.                                                                 *)

\* A pass is completed when the last page was: all that was examined before the
\* checkpoint is reset is everybody (services/automations).
THEOREM PassesCoverAll == Spec => PassCoversAll
<1>1. ASSUME TypeInv, [Next]_vars, swept' = {} PROVE swept \in {{}, Readers}
  <2>1. CASE SaveCheckpoint /\ cursor = 0
    <3>1. PICK lo \in 1..(Top + 1) : PlaceAt(lo)
        BY <1>1, <2>1 DEF SaveCheckpoint, TypeInv, Position, At
    <3>2. Top = LastReader /\ LastReader \in Nat /\ lo..Top = {} /\ lo <= Top + 1 /\ lo \in Nat
        BY <2>1, <3>1, WinbackAssumption DEF Top, PlaceAt, SaveCheckpoint
    <3>3. ~(lo <= Top)
        BY <3>2
    <3>4. Readers \subseteq swept /\ swept \subseteq Readers
        BY <1>1, <3>1, <3>2, <3>3 DEF PlaceAt, Readers, TypeInv, TypeOK
    <3> QED BY <3>4
  <2>2. CASE ~(SaveCheckpoint /\ cursor = 0)
    <3>1. swept \subseteq swept'
        BY <1>1, <2>2, StepsAre, OthersType DEF PageStep, ReaderStep, BeginSweep, LoadPage, EndPage, SaveCheckpoint, Crash,
               Examine, ClaimStep, Gate, MailAccepted, MailFailed, Advance, Graduate, SunsetRows,
               SunsetEntry, SunsetPut, vars, historyVars
    <3> QED BY <1>1, <3>1
  <2> QED BY <2>1, <2>2
<1> QED BY <1>1, TypeHolds, PTL DEF Spec, PassCoversAll

-----------------------------------------------------------------------------
(* Sequences.  A row is put back by whoever has read it, so a row of long   *)
(* ago may return.  What holds of a row when it is written therefore has to *)
(* hold for ever of every copy of it: that its steps were mailed in the     *)
(* cycle it names, which is a fact of the past; and that it knows of the    *)
(* clicks that were made while there was no other copy.  Claims do not      *)
(* depend on rows: one is kept for every step that was mailed and whose     *)
(* receipt was not lost.                                                    *)

\* The row s of r, by the mails m and the clicks v.
Fits(r, s, m, v) ==
    /\ \A k \in 1..Steps : k <= s.sent => m[r][<<s.enrolled, k>>] >= 1
    /\ s.engaged >= v[r]

Copies ==
    /\ \A r \in Readers : Fits(r, rec[r], got, saved)
    /\ \A r \in page : Fits(r, snap[r], got, saved)
    /\ \A w \in held : Fits(whom[w], copy[w], got, saved)

\* The claim of step k of r's cycle of instant c.
KeyOf(r, c, k) == <<r, IF k = 1 THEN 0 ELSE c, k>>

Claimed ==
    \A r \in Readers, c \in Instants, k \in 1..Steps :
        /\ got[r][<<c, k>>] <= 1 + lost[r][<<c, k>>]
        /\ got[r][<<c, k>>] > lost[r][<<c, k>>] => KeyOf(r, c, k) \in claims

\* The step in hand is claimed for this mail alone, and then mailed.
InTransit ==
    /\ pc \in {"gate", "mail"} =>
        /\ ClaimKey \in claims
        /\ \A c \in Instants : KeyOf(First, c, NextStep) = ClaimKey =>
               got[First][<<c, NextStep>>] <= lost[First][<<c, NextStep>>]
    /\ pc = "advance" => got[First][<<Cycle, NextStep>>] >= 1

Ready == TypeInv /\ StepInHand /\ Copies /\ Claimed /\ InTransit

LEMMA Counts ==
    ASSUME TypeInv
    PROVE  /\ got \in [Readers -> Mails] /\ lost \in [Readers -> Mails] /\ saved \in [Readers -> Instants]
           /\ \A r \in Readers, c \in Instants, k \in 1..Steps :
                got[r][<<c, k>>] \in Nat /\ lost[r][<<c, k>>] \in Nat
<1>1. got \in [Readers -> Mails] /\ lost \in [Readers -> Mails] /\ saved \in [Readers -> Instants]
    BY DEF TypeInv, TypeOK, Mails
<1> QED BY <1>1 DEF Mails

\* More mails do not hurt a row.
LEMMA FitsMore ==
    ASSUME NEW m \in [Readers -> Mails], NEW n \in [Readers -> Mails], NEW v,
           NEW r \in Readers, NEW s \in Record, Fits(r, s, m, v),
           \A c \in Instants, k \in 1..Steps : n[r][<<c, k>>] >= m[r][<<c, k>>]
    PROVE  Fits(r, s, n, v)
<1>1. s.enrolled \in Instants
    BY DEF Record
<1>2. \A k \in 1..Steps : m[r][<<s.enrolled, k>>] \in Nat /\ n[r][<<s.enrolled, k>>] \in Nat
    BY <1>1 DEF Mails
<1> QED BY <1>1, <1>2 DEF Fits

LEMMA CopiesKept ==
    ASSUME TypeInv, TypeInv', Copies, saved' = saved,
           \/ got' = got
           \/ got' = Mailed(got) /\ First \in Readers /\ Cycle \in Instants /\ NextStep \in 1..Steps,
           \A r \in Readers : rec'[r] = rec[r] \/ Fits(r, rec'[r], got', saved'),
           \A r \in page' : \/ r \in page /\ snap'[r] = snap[r]
                            \/ snap'[r] = rec[r],
           \A x \in held' : \/ x \in held /\ whom'[x] = whom[x] /\ copy'[x] = copy[x]
                            \/ whom'[x] \in Readers /\ copy'[x] = rec[whom'[x]]
    PROVE  Copies'
<1>1. got \in [Readers -> Mails] /\ got' \in [Readers -> Mails]
    BY DEF TypeInv, TypeOK, Mails
<1>2. \A r \in Readers, c \in Instants, k \in 1..Steps : got'[r][<<c, k>>] >= got[r][<<c, k>>]
  <2> SUFFICES ASSUME NEW r \in Readers, NEW c \in Instants, NEW k \in 1..Steps
               PROVE  got'[r][<<c, k>>] >= got[r][<<c, k>>]
      OBVIOUS
  <2>1. got[r][<<c, k>>] \in Nat
      BY Counts
  <2>2. CASE got' = got
      BY <2>1, <2>2
  <2>3. CASE got' # got
    <3>1. got'[r][<<c, k>>] = got[r][<<c, k>>] + 1 \/ got'[r][<<c, k>>] = got[r][<<c, k>>]
        BY <1>1, <2>3, MailedType DEF TypeInv
    <3> QED BY <2>1, <3>1
  <2> QED BY <2>2, <2>3
<1>3. \A r \in Readers, s \in Record : Fits(r, s, got, saved) => Fits(r, s, got', saved')
    BY <1>1, <1>2, FitsMore
<1>4. /\ \A r \in Readers : rec[r] \in Record /\ snap[r] \in Record
      /\ page \subseteq Readers /\ page' \subseteq Readers
      /\ \A w \in held : whom[w] \in Readers /\ copy[w] \in Record
    BY DEF TypeInv, TypeOK, WritersOK
<1>5. \A r \in Readers : Fits(r, rec'[r], got', saved')
    BY <1>3, <1>4 DEF Copies
<1>6. \A r \in page' : Fits(r, snap'[r], got', saved')
    BY <1>3, <1>4 DEF Copies
<1>7. \A w \in held' : Fits(whom'[w], copy'[w], got', saved')
    BY <1>3, <1>4 DEF Copies
<1> QED BY <1>5, <1>6, <1>7 DEF Copies

\* Nothing is mailed or claimed, and the step in hand is the same or is none.
LEMMA HandKept ==
    ASSUME Claimed, InTransit, UNCHANGED <<claims, got, lost>>,
           \/ pc' \notin {"gate", "mail", "advance"}
           \/ UNCHANGED <<pc, page, snap>> /\ Now' = Now
    PROVE  Claimed' /\ InTransit'
<1>1. Claimed'
    BY DEF Claimed
<1>2. CASE pc' \notin {"gate", "mail", "advance"}
    BY <1>1, <1>2 DEF InTransit
<1>3. CASE UNCHANGED <<pc, page, snap>> /\ Now' = Now
  <2>1. First' = First /\ NextStep' = NextStep /\ ClaimKey' = ClaimKey /\ Cycle' = Cycle
      BY <1>3 DEF First, NextStep, Row, ClaimKey, Cycle
  <2> QED BY <1>1, <1>3, <2>1 DEF InTransit
<1> QED BY <1>2, <1>3

\* The sweep has nobody in hand.
LEMMA PageReady == Ready /\ PageStep /\ TypeInv' => Copies' /\ Claimed' /\ InTransit'
<1> SUFFICES ASSUME Ready, PageStep, TypeInv' PROVE Copies' /\ Claimed' /\ InTransit'
    OBVIOUS
<1> USE DEF Ready
<1>1. UNCHANGED <<rec, got, lost, claims, saved, doing, whom, held, copy>>
    BY DEF PageStep, BeginSweep, LoadPage, EndPage, SaveCheckpoint, Crash, readerVars, writerVars, historyVars
<1>2. \/ UNCHANGED <<page, snap>>
      \/ \A r \in page' : snap'[r] = rec[r]
  <2>1. CASE LoadPage
    <3>1. page' \subseteq Readers
        BY DEF TypeInv, TypeOK
    <3> QED BY <2>1, <3>1 DEF LoadPage
  <2>2. CASE ~LoadPage
      BY <2>2 DEF PageStep, BeginSweep, EndPage, SaveCheckpoint, Crash, Abort
  <2> QED BY <2>1, <2>2
<1>3. Copies'
    BY <1>1, <1>2, CopiesKept DEF TypeInv, WritersOK
<1>4. pc' \notin {"gate", "mail", "advance"}
    BY PageStepPlaces DEF InHand, SendPlaces
<1> QED BY <1>1, <1>3, <1>4, HandKept

\* A click is in the row, and counts when there is no other copy of it.
LEMMA ClickReady ==
    ASSUME Ready, NEW r \in Readers, Click(r)
    PROVE  Copies' /\ Claimed' /\ InTransit'
<1> USE DEF Ready
<1>1. /\ UNCHANGED <<pc, page, snap, claims, got, lost, whom, held, copy>>
      /\ saved' = IF Held(r) THEN saved ELSE [saved EXCEPT ![r] = time']
    BY DEF Click, sweepVars, writerVars
<1>2. saved'[r] = (IF Held(r) THEN saved[r] ELSE time') /\ \A x \in Readers \ {r} : saved'[x] = saved[x]
    BY <1>1, Counts
<1>3. Fits(r, rec'[r], got', saved')
  <2>1. rec'[r].engaged = Now + 1 /\ time' = Now + 1 /\ rec'[r].enrolled = rec[r].enrolled /\ rec'[r].sent = rec[r].sent
      BY ClickType
  <2>2. /\ rec[r].engaged \in Nat /\ rec[r].engaged <= Now + 1 /\ Now \in Nat
        /\ saved[r] \in Nat /\ saved[r] <= rec[r].engaged
        /\ \A k \in 1..Steps : k <= rec[r].sent => got[r][<<rec[r].enrolled, k>>] >= 1
    <3>1. rec[r] \in Record /\ WellFormed(rec[r]) /\ Fits(r, rec[r], got, saved)
        BY DEF TypeInv, TypeOK, RowsOK, Copies
    <3>2. saved[r] \in Nat
        BY Counts, WinbackAssumption DEF Instants
    <3> QED BY <3>1, <3>2, Time DEF WellFormed, Fits
  <2>3. saved'[r] <= rec'[r].engaged
      BY <1>2, <2>1, <2>2
  <2>4. rec'[r].engaged >= saved'[r]
      BY <1>2, <2>1, <2>2
  <2> QED BY <1>1, <2>1, <2>2, <2>4 DEF Fits
<1>4. \A x \in Readers \ {r} : \A s : Fits(x, s, got, saved) => Fits(x, s, got', saved')
    BY <1>1, <1>2 DEF Fits
<1>5. Held(r) => \A s : Fits(r, s, got, saved) => Fits(r, s, got', saved')
    BY <1>1, <1>2 DEF Fits
<1>6. \A x \in Readers : Fits(x, rec'[x], got', saved')
    BY <1>3, <1>4, ClickType DEF Copies
<1>7. \A x \in page' : Fits(x, snap'[x], got', saved')
  <2>1. page \subseteq Readers /\ (~Held(r) => r \notin page)
      BY DEF TypeInv, TypeOK, Held
  <2> QED BY <1>1, <1>4, <1>5, <2>1 DEF Copies
<1>8. \A w \in held' : Fits(whom'[w], copy'[w], got', saved')
  <2>1. /\ \A w \in held : whom[w] \in Readers
        /\ ~Held(r) => \A w \in held : whom[w] # r
      BY DEF TypeInv, TypeOK, WritersOK, Held
  <2> QED BY <1>1, <1>4, <1>5, <2>1 DEF Copies
<1>9. Copies'
    BY <1>6, <1>7, <1>8 DEF Copies
<1> QED BY <1>1, <1>9, ClickType, HandKept

\* A writer's row is one that it has read.
LEMMA WriterReady ==
    ASSUME Ready, NEW w \in Writers, WriterStep(w)
    PROVE  Copies' /\ Claimed' /\ InTransit'
<1> USE DEF Ready
<1>1. /\ UNCHANGED <<time, claims, pc, page, snap, got, lost, saved>>
      /\ \A x \in held' : \/ x \in held /\ whom'[x] = whom[x] /\ copy'[x] = copy[x]
                          \/ whom'[x] \in Readers /\ copy'[x] = rec[whom'[x]]
      /\ \A r \in Readers : \/ rec'[r] = rec[r]
                            \/ \E x \in held : whom[x] = r /\ rec'[r] = Written(x)
      /\ TypeInv'
    BY WriterRows
<1>2. \A x \in held : Fits(whom[x], Written(x), got', saved')
  <2>1. \A x \in held : Fits(whom[x], copy[x], got, saved) /\ x \in Writers
      BY DEF Copies, TypeInv, TypeOK
  <2> QED BY <1>1, <2>1, WrittenType DEF Fits
<1>3. \A r \in Readers : rec'[r] = rec[r] \/ Fits(r, rec'[r], got', saved')
    BY <1>1, <1>2
<1>4. Copies'
    BY <1>1, <1>3, CopiesKept
<1>5. Now' = Now
    BY <1>1 DEF Now
<1> QED BY <1>1, <1>4, <1>5, HandKept

LEMMA OthersReady == Ready /\ (Others \/ UNCHANGED vars) => Copies' /\ Claimed' /\ InTransit'
<1> SUFFICES ASSUME Ready, Others \/ UNCHANGED vars PROVE Copies' /\ Claimed' /\ InTransit'
    OBVIOUS
<1>1. CASE \E r \in Readers : Click(r)
    BY <1>1, ClickReady
<1>2. CASE \E w \in Writers : WriterStep(w)
    BY <1>2, WriterReady
<1>3. CASE NextPeriod \/ (\E r \in Readers : Return(r)) \/ UNCHANGED vars
  <2>1. /\ UNCHANGED <<rec, page, snap, pc, claims, got, lost, saved, whom, held, copy>>
        /\ pc = "idle" \/ time' = time
      BY <1>3 DEF NextPeriod, Return, vars, readerVars, sweepVars, writerVars, historyVars, At
  <2>2. Copies'
      BY <2>1 DEF Ready, Copies
  <2>3. pc' \notin {"gate", "mail", "advance"} \/ Now' = Now
      BY <2>1 DEF Now
  <2> QED BY <2>1, <2>2, <2>3, HandKept DEF Ready
<1> QED BY <1>1, <1>2, <1>3 DEF Others

\* The reader in hand is examined, or the step in hand claimed, refused, mailed
\* or lost.
LEMMA HandType ==
    ASSUME Ready, InHand \/ (At("examine") /\ page # {})
    PROVE  /\ First \in Readers /\ First \in page /\ Row \in Record /\ Fits(First, Row, got, saved)
           /\ Row.sent \in Nat /\ Row.enrolled \in Instants /\ Row.engaged \in Nat
BY FirstType, WinbackAssumption DEF Ready, TypeInv, Copies, Row, Instants

LEMMA Following ==
    ASSUME TypeInv, Drop \/ UNCHANGED <<page, snap>> \/ page' = {}
    PROVE  \A r \in page' : r \in page /\ snap'[r] = snap[r]
BY DEF Drop, TypeInv, TypeOK

LEMMA ExamineReady == Ready /\ Examine /\ TypeInv' => Copies' /\ Claimed' /\ InTransit'
<1> SUFFICES ASSUME Ready, Examine, TypeInv' PROVE Copies' /\ Claimed' /\ InTransit'
    OBVIOUS
<1>1. /\ UNCHANGED <<rec, saved, got, lost, claims, whom, held, copy>>
      /\ Drop \/ UNCHANGED <<page, snap>>
      /\ pc' \notin {"gate", "mail", "advance"}
  <2>1. Choice \in {"skip", "wait", "send", "sunset", "graduate"}
    <3>1. Examine => At("examine") /\ page # {}
        BY DEF Examine
    <3> QED BY <3>1, HandType, Decided
  <2> QED BY <2>1 DEF Examine, readerVars, writerVars, Choice, Goto, Drop
<1>2. Copies'
    BY <1>1, Following, CopiesKept DEF Ready
<1> QED BY <1>1, <1>2, HandKept DEF Ready

LEMMA SendReady ==
    ASSUME Ready, ClaimStep \/ Gate \/ MailAccepted \/ MailFailed, TypeInv'
    PROVE  Copies' /\ Claimed' /\ InTransit'
<1> USE DEF Ready, At, Goto
<1>1. /\ pc \in {"send", "gate", "mail"} /\ UNCHANGED <<time, rec, saved, whom, held, copy>>
      /\ \/ UNCHANGED <<page, snap>>
         \/ Drop
         \/ page' = {} /\ pc' = "idle"
    BY DEF ClaimStep, Gate, MailAccepted, MailFailed, Abort, writerVars, historyVars, readerVars
<1>2. /\ First \in Readers /\ First \in page /\ NextStep \in 1..Steps /\ Cycle \in Instants
      /\ (NextStep = 1 <=> Row.enrolled = 0)
    BY <1>1, HandType, NextStepType DEF InHand, SendPlaces
<1>3. ClaimKey = KeyOf(First, Cycle, NextStep)
    BY <1>2 DEF ClaimKey, KeyOf, Cycle
<1>4. UNCHANGED <<page, snap>> => First' = First /\ NextStep' = NextStep /\ ClaimKey' = ClaimKey /\ Cycle' = Cycle
    BY <1>1 DEF First, NextStep, Row, ClaimKey, Cycle, Now
<1>5. \A r \in Readers, c \in Instants, k \in 1..Steps : KeyOf(r, c, k) = ClaimKey => r = First /\ k = NextStep
    BY <1>3 DEF KeyOf
<1>g. \A r \in Readers, c \in Instants, k \in 1..Steps : got[r][<<c, k>>] \in Nat /\ lost[r][<<c, k>>] \in Nat
    BY Counts
<1>m. \A r \in Readers, c \in Instants, k \in 1..Steps :
        /\ Mailed(got)[r][<<c, k>>] =
              IF r = First /\ c = Cycle /\ k = NextStep THEN got[r][<<c, k>>] + 1 ELSE got[r][<<c, k>>]
        /\ Mailed(lost)[r][<<c, k>>] =
              IF r = First /\ c = Cycle /\ k = NextStep THEN lost[r][<<c, k>>] + 1 ELSE lost[r][<<c, k>>]
    BY <1>2, Counts, MailedType DEF TypeInv
<1>6. Copies'
  <2>1. got' = got \/ got' = Mailed(got)
      BY DEF ClaimStep, Gate, MailAccepted, MailFailed, historyVars
  <2> QED BY <1>1, <1>2, <2>1, Following, CopiesKept
<1>7. CASE ClaimStep
  <2>1. got' = got /\ lost' = lost /\ claims' = claims \cup {ClaimKey}
      BY <1>7 DEF ClaimStep, historyVars
  <2>2. \/ pc' = "examine"
        \/ pc' = "gate" /\ ClaimKey \notin claims /\ UNCHANGED <<page, snap>>
      BY <1>7 DEF ClaimStep, Drop
  <2>3. Claimed'
      BY <2>1 DEF Claimed
  <2>4. ASSUME pc' = "gate" PROVE InTransit'
    <3>1. \A c \in Instants : KeyOf(First, c, NextStep) = ClaimKey =>
              got[First][<<c, NextStep>>] <= lost[First][<<c, NextStep>>]
        BY <1>2, <1>g, <2>2, <2>4 DEF Claimed
    <3> QED BY <1>4, <2>1, <2>2, <2>4, <3>1 DEF InTransit
  <2> QED BY <1>6, <2>2, <2>3, <2>4 DEF InTransit
<1>8. \/ Gate \/ MailAccepted \/ MailFailed =>
         /\ ClaimKey \in claims
         /\ \A c \in Instants : KeyOf(First, c, NextStep) = ClaimKey =>
                got[First][<<c, NextStep>>] <= lost[First][<<c, NextStep>>]
    BY DEF Gate, MailAccepted, MailFailed, InTransit
\* What is released was not mailed, whatever else is claimed.
<1>9. ASSUME Gate \/ MailAccepted \/ MailFailed
      PROVE  \A r \in Readers, c \in Instants, k \in 1..Steps :
                got[r][<<c, k>>] > lost[r][<<c, k>>] => KeyOf(r, c, k) \in claims \ {ClaimKey}
  <2> SUFFICES ASSUME NEW r \in Readers, NEW c \in Instants, NEW k \in 1..Steps,
                      got[r][<<c, k>>] > lost[r][<<c, k>>]
               PROVE  KeyOf(r, c, k) \in claims \ {ClaimKey}
      OBVIOUS
  <2>1. KeyOf(r, c, k) \in claims
      BY DEF Claimed
  <2>2. KeyOf(r, c, k) = ClaimKey => got[r][<<c, k>>] <= lost[r][<<c, k>>]
      BY <1>5, <1>8, <1>9
  <2> QED BY <1>g, <2>1, <2>2
<1>10. CASE Gate
  <2>1. got' = got /\ lost' = lost /\ (claims' = claims \/ claims' = claims \ {ClaimKey})
      BY <1>10 DEF Gate, historyVars
  <2>2. \/ pc' = "examine"
        \/ pc' = "mail" /\ UNCHANGED <<claims, page, snap>>
      BY <1>10 DEF Gate, Drop
  <2>3. Claimed'
      BY <1>9, <1>10, <2>1 DEF Claimed
  <2>4. InTransit'
      BY <1>4, <1>8, <1>10, <2>1, <2>2 DEF InTransit
  <2> QED BY <1>6, <2>3, <2>4
<1>11. CASE MailAccepted
  <2>1. /\ got' = Mailed(got) /\ lost' = lost /\ claims' = claims /\ pc' = "advance"
        /\ UNCHANGED <<page, snap>>
      BY <1>11 DEF MailAccepted, readerVars
  <2>2. got[First][<<Cycle, NextStep>>] <= lost[First][<<Cycle, NextStep>>] /\ KeyOf(First, Cycle, NextStep) \in claims
      BY <1>2, <1>3, <1>8, <1>11
  <2>3. ASSUME NEW r \in Readers, NEW c \in Instants, NEW k \in 1..Steps
        PROVE  /\ got'[r][<<c, k>>] <= 1 + lost'[r][<<c, k>>]
               /\ got'[r][<<c, k>>] > lost'[r][<<c, k>>] => KeyOf(r, c, k) \in claims'
    <3>1. CASE r = First /\ c = Cycle /\ k = NextStep
        BY <1>g, <1>m, <2>1, <2>2, <3>1
    <3>2. CASE ~(r = First /\ c = Cycle /\ k = NextStep)
        BY <1>g, <1>m, <2>1, <3>2 DEF Claimed
    <3> QED BY <3>1, <3>2
  <2>4. Claimed'
      BY <2>3 DEF Claimed
  <2>5. got'[First'][<<Cycle', NextStep'>>] >= 1
      BY <1>2, <1>4, <1>g, <1>m, <2>1
  <2> QED BY <1>6, <2>1, <2>4, <2>5 DEF InTransit
<1>12. CASE MailFailed
  <2>1. /\ (got' = got /\ lost' = lost) \/ (got' = Mailed(got) /\ lost' = Mailed(lost))
        /\ claims' = claims \ {ClaimKey} /\ pc' = "idle"
      BY <1>12 DEF MailFailed, Abort
  <2>2. ASSUME NEW r \in Readers, NEW c \in Instants, NEW k \in 1..Steps
        PROVE  /\ got'[r][<<c, k>>] <= 1 + lost'[r][<<c, k>>]
               /\ got'[r][<<c, k>>] > lost'[r][<<c, k>>] => got[r][<<c, k>>] > lost[r][<<c, k>>]
      BY <1>g, <1>m, <2>1 DEF Claimed
  <2>3. Claimed'
      BY <1>9, <1>12, <2>1, <2>2 DEF Claimed
  <2> QED BY <1>6, <2>1, <2>3 DEF InTransit
<1> QED BY <1>7, <1>10, <1>11, <1>12

\* A row is put back with the step in hand, or without its sequence.
LEMMA PutReady ==
    ASSUME Ready, Advance \/ Graduate \/ SunsetPut, TypeInv'
    PROVE  Copies' /\ Claimed' /\ InTransit'
<1> USE DEF Ready
<1>1. /\ UNCHANGED <<time, saved, got, lost, claims, whom, held, copy>> /\ Drop
      /\ InHand /\ (Advance => pc \in SendPlaces)
    BY DEF Advance, Graduate, SunsetPut, writerVars, historyVars, At, InHand, SendPlaces, SunsetPlaces
<1>2. /\ First \in Readers /\ First \in page /\ Row \in Record /\ Fits(First, Row, got, saved)
      /\ Row.sent \in Nat /\ Row.enrolled \in Instants /\ Row.engaged \in Nat
    BY <1>1, HandType
<1>3. \E s : /\ rec' = [rec EXCEPT ![First] = s] /\ Fits(First, s, got, saved)
  <2>1. CASE Advance
    <3>1. NextStep \in 1..Steps /\ NextStep = Row.sent + 1 /\ (NextStep = 1 <=> Row.enrolled = 0)
        BY <1>1, <2>1, NextStepType
    <3>2. /\ Advanced.sent = NextStep /\ Advanced.engaged = Row.engaged
          /\ Advanced.enrolled = Cycle
        BY <1>1, <2>1, <3>1, RowAdvanced DEF Cycle
    <3>3. got[First][<<Cycle, NextStep>>] >= 1
        BY <2>1 DEF Advance, At, InTransit
    <3>4. \A k \in 1..Steps : k <= NextStep => got[First][<<Cycle, k>>] >= 1
      <4> SUFFICES ASSUME NEW k \in 1..Steps, k <= NextStep PROVE got[First][<<Cycle, k>>] >= 1
          OBVIOUS
      <4>1. CASE k = NextStep
          BY <3>3, <4>1
      <4>2. CASE k # NextStep
        <5>1. k <= Row.sent /\ NextStep # 1
            BY <3>1, <4>2, <1>2, WinbackAssumption
        <5>2. Cycle = Row.enrolled
            BY <3>1, <5>1 DEF Cycle
        <5> QED BY <1>2, <5>1, <5>2 DEF Fits
      <4> QED BY <4>1, <4>2
    <3>5. Fits(First, Advanced, got, saved)
        BY <1>2, <3>2, <3>4 DEF Fits
    <3> QED BY <2>1, <3>5 DEF Advance, Advanced
  <2>2. ASSUME NEW s, s.sent = 0, s.engaged = Row.engaged PROVE Fits(First, s, got, saved)
      BY <1>2, <2>2, WinbackAssumption DEF Fits
  <2>3. Unenrol(Row) \in Record /\ Unenrol(Row).sent = 0 /\ Unenrol(Row).engaged = Row.engaged
      BY <1>1, RowWritten
  <2>4. CASE Graduate
      BY <2>2, <2>3, <2>4 DEF Graduate
  <2>5. CASE SunsetPut
    <3> DEFINE gone == [Unenrol(Row) EXCEPT !.status = "suppressed"]
    <3>1. gone.sent = 0 /\ gone.engaged = Row.engaged
        BY <2>3 DEF Record
    <3>2. rec' = [rec EXCEPT ![First] = gone]
        BY <2>5 DEF SunsetPut
    <3> HIDE DEF gone
    <3> QED BY <2>2, <3>1, <3>2
  <2> QED BY <2>1, <2>4, <2>5
<1>4. \A r \in Readers : rec'[r] = rec[r] \/ Fits(r, rec'[r], got', saved')
    BY <1>1, <1>2, <1>3 DEF TypeInv, TypeOK
<1>5. Copies'
    BY <1>1, <1>4, Following, CopiesKept
<1>6. pc' = "examine"
    BY <1>1 DEF Drop
<1> QED BY <1>1, <1>5, <1>6, HandKept

LEMMA SunsetReady == Ready /\ (SunsetRows \/ SunsetEntry) /\ TypeInv' => Copies' /\ Claimed' /\ InTransit'
<1> SUFFICES ASSUME Ready, SunsetRows \/ SunsetEntry, TypeInv' PROVE Copies' /\ Claimed' /\ InTransit'
    OBVIOUS
<1>1. /\ UNCHANGED <<time, rec, got, lost, saved, claims, page, snap, whom, held, copy>>
      /\ pc' \notin {"gate", "mail", "advance"}
    BY DEF SunsetRows, SunsetEntry, writerVars, historyVars, Goto
<1>2. Copies'
    BY <1>1, Following, CopiesKept DEF Ready
<1> QED BY <1>1, <1>2, HandKept DEF Ready

LEMMA SequenceHolds == Spec => []Ready
<1>1. Init => Copies /\ Claimed /\ InTransit
  <2> SUFFICES ASSUME Init PROVE Copies /\ Claimed /\ InTransit
      OBVIOUS
  <2>1. \A r \in Readers, c \in Instants, k \in 1..Steps : got[r][<<c, k>>] = 0 /\ lost[r][<<c, k>>] = 0
      BY DEF Init, NoMails
  <2>2. \A r \in Readers : rec[r].sent = 0 /\ rec[r].engaged = 0 /\ saved[r] = 0
      BY DEF Init, NoSnap, NewRow
  <2>3. \A r \in Readers : Fits(r, rec[r], got, saved)
      BY <2>2, WinbackAssumption DEF Fits
  <2> QED BY <2>1, <2>3 DEF Init, Copies, Claimed, InTransit
<1>2. Ready /\ [Next]_vars /\ TypeInv' => Copies' /\ Claimed' /\ InTransit'
    BY StepsAre, PageReady, OthersReady, ExamineReady, SendReady, PutReady, SunsetReady DEF ReaderStep
<1> QED BY <1>1, <1>2, TypeHolds, PTL DEF Spec, Ready

\* A step counted as sent was mailed in the cycle that the row names, whoever
\* has put the row back since (AdvancedByMail).
THEOREM AdvancesByMail == Spec => []AdvancedByMail
<1>1. Ready => AdvancedByMail
    BY DEF Ready, Copies, Fits, AdvancedByMail
<1> QED BY <1>1, SequenceHolds, PTL

\* A step is mailed once in a cycle, but for receipts that were lost, though
\* rows of before the mail are put back (StepOncePerCycle).
THEOREM StepsOnce == Spec => []StepOncePerCycle
<1>1. Ready => StepOncePerCycle
    BY DEF Ready, Claimed, StepOncePerCycle
<1> QED BY <1>1, SequenceHolds, PTL

\* Whoever is sunset was mailed the whole sequence of the cycle, and has not
\* clicked in it while nobody held their row (SunsetIsEarned).
THEOREM SunsetsAreEarned == Spec => SunsetIsEarned
<1>1. ASSUME Ready, [Next]_vars, NEW r \in Readers, Sunsets(r)
      PROVE  /\ saved[r] <= snap[r].enrolled
             /\ \A k \in 1..Steps : got[r][<<snap[r].enrolled, k>>] >= 1
  <2>1. active \subseteq Readers /\ sup \in [Readers -> {"none", "inactive", "manual", "complaint"}]
      BY <1>1 DEF Ready, TypeInv, TypeOK
  <2>2. (SunsetRows \/ SunsetEntry) /\ r = First
    <3>1. SunsetRows \/ SunsetEntry
      <4>1. CASE PageStep \/ UNCHANGED vars
          BY <1>1, <4>1 DEF Sunsets, PageStep, BeginSweep, LoadPage, EndPage, SaveCheckpoint, Crash,
             vars, readerVars
      <4>2. CASE ReaderStep
          BY <1>1, <4>2 DEF Sunsets, ReaderStep, Examine, ClaimStep, Gate, MailAccepted, MailFailed,
             Advance, Graduate, SunsetPut, readerVars
      <4>3. CASE Others
        <5>1. ASSUME NEW w \in Writers, WriterStep(w) PROVE FALSE
          <6>1. active' = active /\ sup[r] # "inactive" /\ sup'[r] = "inactive"
              BY <1>1, <5>1, WriterRows DEF Sunsets, Ready
          <6>2. CASE WriteEntry(w)
              BY <2>1, <6>1, <6>2 DEF WriteEntry
          <6>3. CASE ~WriteEntry(w)
              BY <5>1, <6>1, <6>3 DEF WriterStep, BeginWrite, ReadRow, PutRow, KillWriter, readerVars
          <6> QED BY <6>2, <6>3
        <5>2. ASSUME NEW x \in Readers, Click(x) \/ Return(x) PROVE FALSE
            BY <1>1, <2>1, <5>2 DEF Sunsets, Click, Return
        <5>3. ASSUME NextPeriod PROVE FALSE
            BY <1>1, <5>3 DEF Sunsets, NextPeriod, readerVars
        <5> QED BY <4>3, <5>1, <5>2, <5>3 DEF Others
      <4> QED BY <1>1, <4>1, <4>2, <4>3, StepsAre
    <3> QED BY <1>1, <2>1, <3>1 DEF Sunsets, SunsetRows, SunsetEntry
  <2>3. pc \in SunsetPlaces /\ InHand
      BY <2>2 DEF SunsetRows, SunsetEntry, At, SunsetPlaces, InHand
  <2>4. /\ Row \in Record /\ Fits(First, Row, got, saved) /\ Row.sent \in Nat
        /\ Row.enrolled \in Nat /\ Row.engaged \in Nat /\ saved[First] \in Nat
        /\ Row.sent >= Steps /\ Row.engaged <= Row.enrolled
    <3>1. First \in Readers /\ Row.enrolled \in Instants
        BY <1>1, <2>3, HandType
    <3>2. Row.enrolled \in Nat /\ saved[First] \in Nat
        BY <1>1, <3>1, Counts, WinbackAssumption DEF Ready, Instants
    <3> QED BY <1>1, <2>3, <3>2, HandType DEF Ready, StepInHand
  <2>5. saved[First] <= Row.enrolled
      BY <2>4 DEF Fits
  <2>6. \A k \in 1..Steps : got[First][<<Row.enrolled, k>>] >= 1
    <3>1. \A k \in 1..Steps : k <= Row.sent
        BY <2>4, WinbackAssumption
    <3> QED BY <2>4, <3>1 DEF Fits
  <2> QED BY <2>2, <2>5, <2>6 DEF Row
<1>2. Ready /\ [Next]_vars =>
        [\A r \in Readers : Sunsets(r) =>
            /\ saved[r] <= snap[r].enrolled
            /\ \A k \in 1..Steps : got[r][<<snap[r].enrolled, k>>] >= 1]_vars
    BY <1>1
<1> QED BY <1>2, SequenceHolds, PTL DEF Spec, SunsetIsEarned
=============================================================================
