------------------------- MODULE SendScheduleProofs -------------------------
(* Theorems about SendSchedule, for every choice of its constants.         *)
EXTENDS SendSchedule, TLAPS

USE ScheduleAssumption

-----------------------------------------------------------------------------
(* Type correctness.                                                       *)

LEMMA NoRecordType == NoRecord \in Records
BY DEF NoRecord, Records, Statuses

LEMMA CompletedType ==
    ASSUME NEW s \in Records, NEW S \in SUBSET Keys
    PROVE  /\ Completed(s, S) \in Records
           /\ Completed(s, S).revision = s.revision + 1
           /\ Completed(s, S).kind = s.kind
           /\ Completed(s, S).covered = s.covered \cup S
           /\ Completed(s, S).status = IF Full(s.covered \cup S) /\ s.status # "archived"
                                       THEN "completed" ELSE s.status
BY DEF Completed, Records, Statuses

LEMMA RequestedType ==
    ASSUME TypeOK, NEW q \in Requests
    PROVE  /\ Requested(q) \in Records
           /\ Requested(q).revision = rsnap[q].revision + 1
           /\ Requested(q).covered = rsnap[q].covered
           /\ Requested(q).status = goal[q][1]
           /\ Requested(q).kind = goal[q][2]
<1>1. rsnap[q] \in Records /\ goal[q] \in {"active", "paused", "archived"}
                                             \X {"none", "one_off", "recurring"}
  BY DEF TypeOK
<1>2. /\ goal[q][1] \in Statuses /\ goal[q][2] \in {"none", "one_off", "recurring"}
      /\ rsnap[q].revision + 1 \in Nat /\ rsnap[q].covered \in SUBSET Keys
  BY <1>1 DEF Records, Statuses
<1> QED
  BY <1>2 DEF Requested, Records

\* The window of a worker is a set of keys.
LEMMA SliceType == \A w \in Workers : SliceOf[w] \in SUBSET Keys /\ SliceOf[w] \in Slices
OBVIOUS

LEMMA InitTypeOK == Init => TypeOK
BY NoRecordType DEF Init, TypeOK

LEMMA NextTypeOK == TypeOK /\ [Next]_vars => TypeOK'
<1> SUFFICES ASSUME TypeOK, [Next]_vars PROVE TypeOK'
  OBVIOUS
<1> USE DEF TypeOK, workerVars, requestVars
<1>1. ASSUME NEW w \in Workers, WorkerRead(w) PROVE TypeOK'
  <2>1. rec.revision \in Nat
    BY DEF Records
  <2> QED
    BY <1>1, <2>1 DEF WorkerRead
<1>2. ASSUME NEW w \in Workers, WorkerPut(w) PROVE TypeOK'
  <2>1. wsnap[w] \in Records /\ SliceOf[w] \in SUBSET Keys
    BY SliceType
  <2>2. Completed(wsnap[w], SliceOf[w]) \in Records
    BY <2>1, CompletedType
  <2>3. rec' \in Records
    BY <1>2, <2>2 DEF WorkerPut, PutIf
  <2> QED
    BY <1>2, <2>1, <2>3 DEF WorkerPut
<1>3. ASSUME NEW w \in Workers, WorkerRetry(w) PROVE TypeOK'
  BY <1>3 DEF WorkerRetry
<1>4. ASSUME NEW w \in Workers, Redeliver(w) PROVE TypeOK'
  BY <1>4 DEF Redeliver
<1>5. ASSUME NEW q \in Requests, NEW t \in {"active", "paused", "archived"},
             NEW k \in {"none", "one_off", "recurring"}, Begin(q, t, k)
      PROVE  TypeOK'
  <2>1. <<t, k>> \in {"active", "paused", "archived"} \X {"none", "one_off", "recurring"}
    BY <1>5
  <2>2. CASE MayRestart(rec, t)
    <3>1. goal' \in [Requests -> {"active", "paused", "archived"}
                                 \X {"none", "one_off", "recurring"}]
      BY <1>5, <2>1, <2>2 DEF Begin
    <3>2. /\ rpc' = [rpc EXCEPT ![q] = "put"]
          /\ rsnap' = [rsnap EXCEPT ![q] = rec]
          /\ served' \in 0..RequestBudget
          /\ UNCHANGED <<rec, wpc, wsnap, tries, start, recorded, redelivered>>
      BY <1>5, <2>2 DEF Begin
    <3> QED
      BY <3>1, <3>2
  <2>3. CASE ~MayRestart(rec, t)
    BY <1>5, <2>3 DEF Begin
  <2> QED
    BY <2>2, <2>3
<1>6. ASSUME NEW q \in Requests, RequestPut(q) PROVE TypeOK'
  <2>1. rec' \in Records
    BY <1>6, RequestedType DEF RequestPut, PutIf
  <2> QED
    BY <1>6, <2>1, NoRecordType DEF RequestPut, EndRequest
<1>7. ASSUME NEW q \in Requests, RequestConflict(q) PROVE TypeOK'
  BY <1>7, NoRecordType DEF RequestConflict, EndRequest
<1>8. CASE UNCHANGED vars
  BY <1>8 DEF vars
<1>9. ASSUME NEW q \in Requests, NEW k \in Kinds, MarkRead(q, k) PROVE TypeOK'
  <2>1. k \in {"none", "one_off", "recurring"}
    OBVIOUS
  <2> QED
    BY ONLY <1>9, <1>5, <2>1 DEF MarkRead
<1>10. ASSUME NEW q \in Requests, NEW t \in {"active", "paused", "archived"},
              TransitionRead(q, t)
       PROVE  TypeOK'
  <2>1. rec.kind \in {"none", "one_off", "recurring"}
    BY DEF Records
  <2> QED
    BY ONLY <1>10, <1>5, <2>1 DEF TransitionRead
<1> QED
  BY ONLY <1>1, <1>2, <1>3, <1>4, <1>6, <1>7, <1>8, <1>9, <1>10, [Next]_vars
  DEF Next, WorkerStep, RequestStep

\* Every variable keeps its type.
THEOREM TypeCorrect == Spec => []TypeOK
BY InitTypeOK, NextTypeOK, PTL DEF Spec

-----------------------------------------------------------------------------
(* The inductive invariant.  A snapshot about to be written back passed    *)
(* the checks of its read, and if its revision is still the stored one it  *)
(* is the stored record; so each successful write acts on the record.      *)

Checked ==
    /\ \A w \in Workers : wpc[w] = "put" =>
          wsnap[w].kind = "one_off" /\ wsnap[w].status # "completed"
    /\ \A q \in Requests : rpc[q] = "put" =>
          /\ MayRestart(rsnap[q], goal[q][1])
          /\ \/ goal[q][1] = "active" /\ goal[q][2] \in Kinds
             \/ goal[q][2] = rsnap[q].kind /\ rsnap[q].status # "none"

Inv == /\ TypeOK /\ RevisionIdentifies /\ Checked /\ NoProgressLost
       /\ CompletedIsCovered /\ FullIsClosed /\ DoneIsRecorded

\* What one operation does to the record: the steps of the ledger.
Recorded(w) ==
    /\ rec.kind = "one_off" /\ rec.status # "completed"
    /\ rec' = Completed(rec, SliceOf[w])

Restated(target, k) ==
    /\ MayRestart(rec, target)
    /\ \/ target = "active" /\ k \in Kinds
       \/ k = rec.kind /\ rec.status # "none"
    /\ rec'.status = target /\ rec'.kind = k
    /\ rec'.covered = rec.covered
    /\ rec'.revision = rec.revision + 1

LEMMA PutRecords ==
    ASSUME Inv, NEW w \in Workers, WorkerPut(w)
    PROVE  Recorded(w)
BY DEF Inv, TypeOK, WorkerPut, PutIf, RevisionIdentifies, Checked, Recorded

LEMMA PutRestates ==
    ASSUME Inv, NEW q \in Requests, RequestPut(q)
    PROVE  Restated(goal[q][1], goal[q][2]) /\ goal[q][1] \in {"active", "paused", "archived"}
<1>1. TypeOK /\ rsnap[q] = rec
  BY DEF Inv, TypeOK, RequestPut, PutIf, RevisionIdentifies
<1>2. rec' = Requested(q) /\ goal[q][1] \in {"active", "paused", "archived"}
  BY <1>1 DEF RequestPut, PutIf, TypeOK
<1>3. /\ rec'.revision = rec.revision + 1
      /\ rec'.covered = rec.covered
      /\ rec'.status = goal[q][1]
      /\ rec'.kind = goal[q][2]
  BY <1>1, <1>2, RequestedType
<1>4. /\ MayRestart(rsnap[q], goal[q][1])
      /\ \/ goal[q][1] = "active" /\ goal[q][2] \in Kinds
         \/ goal[q][2] = rsnap[q].kind /\ rsnap[q].status # "none"
  BY DEF Inv, Checked, RequestPut
<1> QED
  BY <1>1, <1>2, <1>3, <1>4 DEF Restated

\* A step either leaves the record alone or is one of the two writes, each of
\* which raises the revision.
LEMMA StepsOfRecord ==
    ASSUME Inv, [Next]_vars
    PROVE  \/ UNCHANGED rec
           \/ \E w \in Workers : WorkerPut(w) /\ Recorded(w)
           \/ \E q \in Requests : /\ RequestPut(q)
                                  /\ \E t \in {"active", "paused", "archived"} :
                                        Restated(t, goal[q][2])
<1>1. ASSUME NEW w \in Workers, WorkerStep(w) \/ Redeliver(w)
      PROVE  UNCHANGED rec \/ (WorkerPut(w) /\ Recorded(w))
  BY <1>1, PutRecords DEF WorkerStep, WorkerRead, WorkerRetry, Redeliver
<1>2. ASSUME NEW q \in Requests, RequestStep(q)
      PROVE  \/ UNCHANGED rec
             \/ /\ RequestPut(q)
                /\ \E t \in {"active", "paused", "archived"} : Restated(t, goal[q][2])
  BY <1>2, PutRestates DEF RequestStep, RequestConflict
<1>3. ASSUME NEW q \in Requests, NEW k \in Kinds, MarkRead(q, k) PROVE UNCHANGED rec
  BY <1>3 DEF MarkRead, Begin
<1>4. ASSUME NEW q \in Requests, NEW t \in {"active", "paused", "archived"},
             TransitionRead(q, t)
      PROVE  UNCHANGED rec
  BY <1>4 DEF TransitionRead, Begin
<1>5. CASE UNCHANGED vars
  BY <1>5 DEF vars
<1> QED
  BY <1>1, <1>2, <1>3, <1>4, <1>5 DEF Next

\* The shape of the two writes, on the record and on the history.
LEMMA RecordEffect ==
    ASSUME Inv, NEW w \in Workers, Recorded(w)
    PROVE  /\ rec'.revision = rec.revision + 1
           /\ rec'.covered = rec.covered \cup SliceOf[w]
           /\ rec'.status = IF Full(rec'.covered) /\ rec.status # "archived"
                            THEN "completed" ELSE rec.status
<1>1. /\ rec \in Records /\ SliceOf[w] \in SUBSET Keys
      /\ rec' = Completed(rec, SliceOf[w])
  BY SliceType DEF Recorded, Inv, TypeOK
<1> QED
  BY <1>1 DEF Completed, Full

LEMMA InvInit == Init => Inv
<1> SUFFICES ASSUME Init PROVE Inv
  OBVIOUS
<1>1. TypeOK
  BY InitTypeOK
<1>2. RevisionIdentifies /\ Checked /\ DoneIsRecorded
  BY DEF Init, RevisionIdentifies, Checked, DoneIsRecorded
<1>3. NoProgressLost /\ CompletedIsCovered /\ FullIsClosed
  BY DEF Init, NoRecord, NoProgressLost, CompletedIsCovered, FullIsClosed
<1> QED
  BY <1>1, <1>2, <1>3 DEF Inv

\* The record only moves forward: revisions never repeat, keys are never lost.
LEMMA RecordAdvances ==
    ASSUME Inv, [Next]_vars
    PROVE  /\ UNCHANGED rec \/ rec'.revision = rec.revision + 1
           /\ rec.covered \subseteq rec'.covered
BY StepsOfRecord, RecordEffect DEF Restated

LEMMA KeepsRevisionIdentifies == Inv /\ [Next]_vars => RevisionIdentifies'
<1> SUFFICES ASSUME Inv, [Next]_vars PROVE RevisionIdentifies'
  OBVIOUS
<1>1. rec.revision \in Nat /\ rec'.revision \in Nat
  BY NextTypeOK DEF Inv, TypeOK, Records
<1>2. ASSUME NEW snap \in Records, snap.revision <= rec.revision,
             snap.revision = rec.revision => snap = rec
      PROVE  /\ snap.revision <= rec'.revision
             /\ snap.revision = rec'.revision => snap = rec'
  BY <1>1, <1>2, RecordAdvances DEF Records
<1>3. ASSUME NEW w \in Workers, wpc'[w] = "put"
      PROVE  \/ wsnap'[w] = wsnap[w] /\ wpc[w] = "put"
             \/ wsnap'[w] = rec /\ UNCHANGED rec
  <2>1. CASE \E v \in Workers : WorkerStep(v) \/ Redeliver(v)
    BY <1>3, <2>1 DEF Inv, TypeOK, WorkerStep, WorkerRead, WorkerPut, WorkerRetry, Redeliver
  <2>2. CASE UNCHANGED <<wpc, wsnap>>
    BY <1>3, <2>2
  <2> QED
    BY <2>1, <2>2 DEF Next, vars, workerVars, MarkRead, TransitionRead, Begin,
                      RequestStep, RequestPut, RequestConflict
<1>4. ASSUME NEW q \in Requests, rpc'[q] = "put"
      PROVE  \/ rsnap'[q] = rsnap[q] /\ rpc[q] = "put"
             \/ rsnap'[q] = rec /\ UNCHANGED rec
  <2>1. ASSUME NEW p \in Requests, NEW t, NEW k, Begin(p, t, k)
        PROVE  \/ rsnap'[q] = rsnap[q] /\ rpc[q] = "put"
               \/ rsnap'[q] = rec /\ UNCHANGED rec
    BY <1>4, <2>1 DEF Inv, TypeOK, Begin
  <2>2. ASSUME NEW p \in Requests, EndRequest(p)
        PROVE  rsnap'[q] = rsnap[q] /\ rpc[q] = "put"
    BY <1>4, <2>2 DEF Inv, TypeOK, EndRequest
  <2>3. CASE UNCHANGED <<rpc, rsnap>>
    BY <1>4, <2>3
  <2> QED
    BY <2>1, <2>2, <2>3 DEF Next, vars, requestVars, MarkRead, TransitionRead, WorkerStep,
       WorkerRead, WorkerPut, WorkerRetry, Redeliver, RequestStep, RequestPut, RequestConflict
<1>5. ASSUME NEW w \in Workers, wpc'[w] = "put"
      PROVE  /\ wsnap'[w].revision <= rec'.revision
             /\ wsnap'[w].revision = rec'.revision => wsnap'[w] = rec'
  BY <1>1, <1>2, <1>3, <1>5 DEF Inv, TypeOK, RevisionIdentifies
<1>6. ASSUME NEW q \in Requests, rpc'[q] = "put"
      PROVE  /\ rsnap'[q].revision <= rec'.revision
             /\ rsnap'[q].revision = rec'.revision => rsnap'[q] = rec'
  BY <1>1, <1>2, <1>4, <1>6 DEF Inv, TypeOK, RevisionIdentifies
<1> QED
  BY <1>5, <1>6 DEF RevisionIdentifies

LEMMA KeepsChecked == Inv /\ [Next]_vars => Checked'
<1> SUFFICES ASSUME Inv, [Next]_vars PROVE Checked'
  OBVIOUS
<1> DEFINE WOK(w) == wpc[w] = "put" =>
                        wsnap[w].kind = "one_off" /\ wsnap[w].status # "completed"
           QOK(q) == rpc[q] = "put" =>
                        /\ MayRestart(rsnap[q], goal[q][1])
                        /\ \/ goal[q][1] = "active" /\ goal[q][2] \in Kinds
                           \/ goal[q][2] = rsnap[q].kind /\ rsnap[q].status # "none"
<1>1. ASSUME NEW w \in Workers PROVE WOK(w)'
  <2>1. WOK(w)
    BY DEF Inv, Checked
  <2>2. CASE \E v \in Workers : WorkerStep(v) \/ Redeliver(v)
    BY <2>1, <2>2 DEF Inv, TypeOK, WorkerStep, WorkerRead, WorkerPut, WorkerRetry, Redeliver
  <2>3. CASE UNCHANGED <<wpc, wsnap>>
    BY <2>1, <2>3
  <2> QED
    BY <2>2, <2>3 DEF Next, vars, workerVars, MarkRead, TransitionRead, Begin,
                      RequestStep, RequestPut, RequestConflict
<1>2. ASSUME NEW q \in Requests PROVE QOK(q)'
  <2>1. QOK(q)
    BY DEF Inv, Checked
  <2>2. ASSUME NEW p \in Requests, NEW t, NEW k, Begin(p, t, k),
               \/ t = "active" /\ k \in Kinds
               \/ k = rec.kind /\ rec.status # "none"
        PROVE  QOK(q)'
    <3>1. CASE p = q /\ MayRestart(rec, t)
      <4>1. rsnap'[q] = rec /\ goal'[q] = <<t, k>>
        BY <2>2, <3>1 DEF Inv, TypeOK, Begin
      <4> QED
        BY <2>2, <3>1, <4>1 DEF MayRestart, Closed, Full
    <3>2. CASE ~(p = q /\ MayRestart(rec, t))
      <4>1. rsnap'[q] = rsnap[q] /\ goal'[q] = goal[q] /\ rpc'[q] = rpc[q]
        BY <2>2, <3>2 DEF Inv, TypeOK, Begin
      <4> QED
        BY <2>1, <4>1 DEF MayRestart, Closed, Full
    <3> QED
      BY <3>1, <3>2
  <2>3. ASSUME NEW p \in Requests, EndRequest(p) PROVE QOK(q)'
    <3>1. rpc'[q] = "put" => /\ rsnap'[q] = rsnap[q] /\ goal'[q] = goal[q]
                             /\ rpc[q] = "put"
      BY <2>3 DEF Inv, TypeOK, EndRequest
    <3> QED
      BY <2>1, <3>1 DEF MayRestart, Closed, Full
  <2>4. CASE UNCHANGED <<rpc, rsnap, goal>>
    BY <2>1, <2>4 DEF MayRestart, Closed, Full
  <2>5. ASSUME NEW p \in Requests, NEW k \in Kinds, MarkRead(p, k) PROVE QOK(q)'
    <3> HIDE DEF QOK
    <3> QED
      BY <2>2, <2>5 DEF MarkRead
  <2>6. ASSUME NEW p \in Requests, NEW t \in {"active", "paused", "archived"},
               TransitionRead(p, t)
        PROVE  QOK(q)'
    <3> HIDE DEF QOK
    <3> QED
      BY <2>2, <2>6 DEF TransitionRead
  <2> HIDE DEF QOK
  <2>7. CASE \E p \in Requests : RequestStep(p)
    BY <2>3, <2>7 DEF RequestStep, RequestPut, RequestConflict
  <2>8. CASE \E w \in Workers : WorkerStep(w) \/ Redeliver(w)
    BY <2>4, <2>8 DEF requestVars, WorkerStep, WorkerRead, WorkerPut, WorkerRetry, Redeliver
  <2> QED
    BY <2>4, <2>5, <2>6, <2>7, <2>8 DEF Next, vars
<1> QED
  BY <1>1, <1>2 DEF Checked

\* Where a worker that returned came from.
LEMMA DoneComesFrom ==
    ASSUME Inv, [Next]_vars, NEW w \in Workers, wpc'[w] = "done"
    PROVE  \/ WorkerPut(w)
           \/ /\ wsnap'[w] = rec /\ UNCHANGED rec
              /\ rec.kind # "one_off" \/ rec.status = "completed"
           \/ wpc[w] = "done" /\ wsnap'[w] = wsnap[w]
<1>1. ASSUME NEW v \in Workers, WorkerRead(v)
      PROVE  \/ /\ wsnap'[w] = rec /\ UNCHANGED rec
                /\ rec.kind # "one_off" \/ rec.status = "completed"
             \/ wpc[w] = "done" /\ wsnap'[w] = wsnap[w]
  BY <1>1 DEF Inv, TypeOK, WorkerRead
<1>2. ASSUME NEW v \in Workers, WorkerPut(v)
      PROVE  WorkerPut(w) \/ (wpc[w] = "done" /\ wsnap'[w] = wsnap[w])
  <2>1. CASE v = w
    BY <1>2, <2>1
  <2>2. CASE v # w
    BY <1>2, <2>2 DEF Inv, TypeOK, WorkerPut
  <2> QED
    BY <2>1, <2>2
<1>3. ASSUME NEW v \in Workers, WorkerRetry(v) \/ Redeliver(v)
      PROVE  wpc[w] = "done" /\ wsnap'[w] = wsnap[w]
  BY <1>3 DEF Inv, TypeOK, WorkerRetry, Redeliver
<1>4. CASE UNCHANGED <<wpc, wsnap>>
  BY <1>4
<1> QED
  BY <1>1, <1>2, <1>3, <1>4 DEF Next, vars, workerVars, MarkRead, TransitionRead, Begin,
                                WorkerStep, RequestStep, RequestPut, RequestConflict

LEMMA KeepsDone == Inv /\ [Next]_vars => DoneIsRecorded'
<1> SUFFICES ASSUME Inv, [Next]_vars, NEW w \in Workers,
                    wpc'[w] = "done", wsnap'[w].kind = "one_off"
             PROVE  SliceOf[w] \subseteq rec'.covered
  BY DEF DoneIsRecorded
<1>1. CASE WorkerPut(w)
  BY <1>1, PutRecords, RecordEffect
<1>2. CASE /\ wsnap'[w] = rec /\ UNCHANGED rec
           /\ rec.kind # "one_off" \/ rec.status = "completed"
  BY <1>2, SliceType DEF Inv, CompletedIsCovered
<1>3. CASE wpc[w] = "done" /\ wsnap'[w] = wsnap[w]
  BY <1>3, RecordAdvances DEF Inv, DoneIsRecorded
<1> QED
  BY <1>1, <1>2, <1>3, DoneComesFrom

\* The history grows with the record.
LEMMA KeepsProgress == Inv /\ [Next]_vars => NoProgressLost'
<1> SUFFICES ASSUME Inv, [Next]_vars PROVE NoProgressLost'
  OBVIOUS
<1>1. ASSUME NEW w \in Workers, WorkerPut(w) PROVE NoProgressLost'
  <2>1. recorded' = recorded \cup SliceOf[w]
    BY <1>1 DEF WorkerPut
  <2>2. rec'.covered = rec.covered \cup SliceOf[w]
    BY <1>1, PutRecords, RecordEffect
  <2> QED
    BY <2>1, <2>2 DEF Inv, NoProgressLost
<1>2. ASSUME NEW q \in Requests, RequestPut(q) PROVE NoProgressLost'
  BY <1>2, PutRestates DEF Restated, RequestPut, Inv, NoProgressLost
<1>3. CASE UNCHANGED <<rec, recorded>>
  BY <1>3 DEF Inv, NoProgressLost
<1> QED
  BY <1>1, <1>2, <1>3 DEF Next, vars, MarkRead, TransitionRead, Begin, WorkerStep,
     WorkerRead, WorkerRetry, Redeliver, RequestStep, RequestConflict

LEMMA KeepsClosed == Inv /\ [Next]_vars => CompletedIsCovered' /\ FullIsClosed'
<1> SUFFICES ASSUME Inv, [Next]_vars PROVE CompletedIsCovered' /\ FullIsClosed'
  OBVIOUS
<1> USE DEF Inv, CompletedIsCovered, FullIsClosed
<1>1. CASE UNCHANGED rec
  BY <1>1
<1>2. ASSUME NEW w \in Workers, Recorded(w) PROVE CompletedIsCovered' /\ FullIsClosed'
  BY <1>2, RecordEffect DEF Recorded, Full
<1>3. ASSUME NEW t \in {"active", "paused", "archived"}, NEW k, Restated(t, k)
      PROVE  CompletedIsCovered' /\ FullIsClosed'
  BY <1>3 DEF Restated, MayRestart, Closed, Full
<1> QED
  BY <1>1, <1>2, <1>3, StepsOfRecord

LEMMA InvNext == Inv /\ [Next]_vars => Inv'
<1> SUFFICES ASSUME Inv, [Next]_vars PROVE Inv'
  OBVIOUS
<1>1. TypeOK'
  BY NextTypeOK DEF Inv
<1> QED
  BY <1>1, KeepsRevisionIdentifies, KeepsChecked, KeepsProgress, KeepsClosed, KeepsDone
  DEF Inv

LEMMA Invariance == Spec => []Inv
BY InvInit, InvNext, PTL DEF Spec

-----------------------------------------------------------------------------
(* The theorems.                                                           *)

\* A revision names one state of the record: a conditional write replaces
\* exactly the record its operation read.
THEOREM RevisionsIdentify == Spec => []RevisionIdentifies
BY Invariance, PTL DEF Inv

\* schedule-state.ts:150-153: no interleaving of windows and operators loses a
\* recorded window.
THEOREM ProgressIsKept == Spec => []NoProgressLost
BY Invariance, PTL DEF Inv

\* Completed is written exactly from full coverage, and full coverage is never
\* left open for another firing.
THEOREM CompletionIsCoverage == Spec => [](CompletedIsCovered /\ FullIsClosed)
BY Invariance, PTL DEF Inv

\* A window whose worker returned without an error is on record.
THEOREM ReturnedIsRecorded == Spec => []DoneIsRecorded
BY Invariance, PTL DEF Inv

\* A closed send is never offered for another firing.
THEOREM ClosedIsFinal == Spec => ClosedStaysClosed
<1>1. Inv /\ [Next]_vars =>
        [Closed(rec) => /\ Closed(rec')
                        /\ rec'.covered = rec.covered
                        /\ rec.status = "archived" => rec'.status = "archived"]_rec
  <2> SUFFICES ASSUME Inv, [Next]_vars, rec' # rec, Closed(rec)
               PROVE  /\ Closed(rec')
                      /\ rec'.covered = rec.covered
                      /\ rec.status = "archived" => rec'.status = "archived"
    OBVIOUS
  <2>1. rec.covered = Keys
    BY DEF Closed, Full, Inv, CompletedIsCovered
  <2>2. ASSUME NEW w \in Workers, Recorded(w)
        PROVE  /\ Closed(rec')
               /\ rec'.covered = rec.covered
               /\ rec.status = "archived" => rec'.status = "archived"
    BY <2>1, <2>2, RecordEffect, SliceType DEF Closed, Full
  <2>3. ASSUME NEW t \in {"active", "paused", "archived"}, NEW k, Restated(t, k)
        PROVE  /\ Closed(rec')
               /\ rec'.covered = rec.covered
               /\ rec.status = "archived" => rec'.status = "archived"
    BY <2>1, <2>3 DEF Restated, MayRestart, Closed, Full
  <2> QED
    BY <2>2, <2>3, StepsOfRecord
<1> QED
  BY <1>1, Invariance, PTL DEF Spec, ClosedStaysClosed

\* The record implements the ledger of ScheduleLedger.
THEOREM ImplementsLedger == Spec => LedgerSpec
<1>1. Init => Ledger!LInit
  BY DEF Init, NoRecord, Ledger!LInit
<1>2. Inv /\ [Next]_vars => [Ledger!LNext]_(Ledger!lvars)
  <2> SUFFICES ASSUME Inv, [Next]_vars PROVE [Ledger!LNext]_(Ledger!lvars)
    OBVIOUS
  <2>1. CASE UNCHANGED rec
    BY <2>1 DEF Ledger!lvars
  <2>2. ASSUME NEW w \in Workers, Recorded(w) PROVE Ledger!LNext
    <3>1. Ledger!Record(SliceOf[w])
      BY <2>2, RecordEffect, CompletedType, SliceType
      DEF Inv, TypeOK, Recorded, Ledger!Record, Ledger!AfterRecording, Ledger!Full, Full
    <3> QED
      BY <3>1, SliceType DEF Ledger!LNext
  <2>3. ASSUME NEW t \in {"active", "paused", "archived"}, NEW k, Restated(t, k)
        PROVE  Ledger!LNext
    <3>1. CASE t = "active" /\ k \in Kinds /\ ~Closed(rec)
      <4>1. Ledger!Mark(k)
        BY <2>3, <3>1 DEF Restated, Closed, Full, Ledger!Mark, Ledger!Closed, Ledger!Full
      <4> QED
        BY <3>1, <4>1 DEF Ledger!LNext
    <3>2. CASE k = rec.kind /\ rec.status # "none"
      <4>1. Ledger!Transition(t)
        BY <2>3, <3>2 DEF Restated, MayRestart, Closed, Full, Ledger!Transition,
                          Ledger!Closed, Ledger!Full
      <4> QED
        BY <4>1 DEF Ledger!LNext
    <3> QED
      BY <2>3, <3>1, <3>2 DEF Restated, MayRestart
  <2> QED
    BY <2>1, <2>2, <2>3, StepsOfRecord
<1> QED
  BY <1>1, <1>2, Invariance, PTL DEF Spec, LedgerSpec, Ledger!LSpec

\* Between its read and its write a worker has paid for its lost writes with
\* revisions that lie below the one it read.
Paid ==
    \A w \in Workers :
        /\ wpc[w] = "put" => start[w] + tries[w] <= wsnap[w].revision
        /\ tries[w] > 0 => start[w] + tries[w] <= rec.revision
        /\ wpc[w] = "exhausted" => start[w] + Attempts <= rec.revision

LEMMA KeepsPaid == Inv /\ Paid /\ [Next]_vars => Paid'
<1> SUFFICES ASSUME Inv, Paid, [Next]_vars, NEW w \in Workers
             PROVE  /\ wpc'[w] = "put" => start'[w] + tries'[w] <= wsnap'[w].revision
                    /\ tries'[w] > 0 => start'[w] + tries'[w] <= rec'.revision
                    /\ wpc'[w] = "exhausted" => start'[w] + Attempts <= rec'.revision
  BY DEF Paid
<1> DEFINE Goal == /\ wpc'[w] = "put" => start'[w] + tries'[w] <= wsnap'[w].revision
                   /\ tries'[w] > 0 => start'[w] + tries'[w] <= rec'.revision
                   /\ wpc'[w] = "exhausted" => start'[w] + Attempts <= rec'.revision
<1>1. /\ rec.revision \in Nat /\ rec'.revision \in Nat /\ wsnap[w].revision \in Nat
      /\ tries[w] \in Nat /\ start[w] \in Nat /\ rec.revision <= rec'.revision
  BY NextTypeOK, RecordAdvances DEF Inv, TypeOK, Records
<1>2. /\ wpc[w] = "put" => start[w] + tries[w] <= wsnap[w].revision
      /\ tries[w] > 0 => start[w] + tries[w] <= rec.revision
      /\ wpc[w] = "exhausted" => start[w] + Attempts <= rec.revision
  BY DEF Paid
<1>3. CASE wpc'[w] = wpc[w] /\ wsnap'[w] = wsnap[w] /\ tries'[w] = tries[w]
           /\ start'[w] = start[w]
  BY <1>1, <1>2, <1>3
<1>4. CASE WorkerRead(w)
  <2>1. /\ wpc'[w] \in {"put", "done"} /\ wsnap'[w] = rec /\ tries'[w] = tries[w]
        /\ start'[w] = IF tries[w] = 0 THEN rec.revision ELSE start[w]
        /\ rec' = rec
    BY <1>4 DEF WorkerRead, Inv, TypeOK
  <2> QED
    BY <1>1, <1>2, <2>1
<1>5. CASE WorkerPut(w)
  <2>1. /\ wpc'[w] = "done" /\ tries'[w] = tries[w] /\ start'[w] = start[w]
    BY <1>5 DEF WorkerPut, Inv, TypeOK
  <2> QED
    BY <1>1, <1>2, <2>1
<1>6. CASE WorkerRetry(w)
  <2>1. wsnap[w].revision < rec.revision
    BY <1>1, <1>6 DEF WorkerRetry, LostRace, Inv, RevisionIdentifies
  <2>2. /\ wpc[w] = "put" /\ tries'[w] = tries[w] + 1 /\ start'[w] = start[w]
        /\ wpc'[w] \in {"exhausted", "read"} /\ rec' = rec
        /\ wpc'[w] = "exhausted" => tries[w] + 1 >= Attempts
    BY <1>6 DEF WorkerRetry, Inv, TypeOK
  <2> QED
    BY <1>1, <1>2, <2>1, <2>2
<1>7. CASE Redeliver(w)
  <2>1. wpc'[w] = "read" /\ tries'[w] = 0
    BY <1>7 DEF Redeliver, Inv, TypeOK
  <2> QED
    BY <2>1
<1>8. ASSUME NEW v \in Workers, v # w, WorkerStep(v) \/ Redeliver(v) PROVE Goal
  <2>1. /\ wpc'[w] = wpc[w] /\ wsnap'[w] = wsnap[w] /\ tries'[w] = tries[w]
        /\ start'[w] = start[w]
    BY <1>8 DEF WorkerStep, WorkerRead, WorkerPut, WorkerRetry, Redeliver, Inv, TypeOK
  <2> QED
    BY <1>3, <2>1
<1> QED
  BY <1>3, <1>4, <1>5, <1>6, <1>7, <1>8 DEF Next, vars, workerVars, MarkRead, TransitionRead,
     Begin, WorkerStep, RequestStep, RequestPut, RequestConflict

\* schedule-state.ts:157-182: a worker that gives up lost to Attempts writes of
\* others, whatever the number of workers and requests.
THEOREM ContentionIsBounded == Spec => []ExhaustionNeedsContention
<1>1. Init => Paid
  BY DEF Init, Paid
<1>2. Paid => ExhaustionNeedsContention
  BY DEF Paid, ExhaustionNeedsContention
<1> QED
  BY <1>1, <1>2, KeepsPaid, Invariance, PTL DEF Spec
=============================================================================
