---------------------------- MODULE ImportProofs ----------------------------
(***************************************************************************)
(* Proofs about Import, for any file, any number of attempts, retries and  *)
(* handlers: type correctness; that a subscription which was left comes    *)
(* back through the job only where its revision went back; and that a      *)
(* completed batch lists what it wrote and passed nobody by.               *)
(***************************************************************************)
EXTENDS Import, TLAPS

-----------------------------------------------------------------------------
(* Type correctness.                                                       *)

LEMMA FirstLine == 1 \in Readers /\ LastLine \in Nat
BY ImportAssumption DEF Readers

LEMMA IdleType == Idle \in Jobs
BY FirstLine DEF Idle, Jobs, Places, Records, NoBatch

LEMMA NobodyIsNone == Nobody \notin InFlight
BY DEF Nobody, InFlight, Kinds

\* The job goes on, wherever it stands.
LEMMA NextLineType ==
    ASSUME TypeOK, NEW counted \in BOOLEAN, NextLine(counted)
    PROVE  /\ job' \in Jobs
           /\ job'.at \in {"check", "counts"}
           /\ job'.at = "check" => job'.line = Line + 1
           /\ job'.at = "counts" => Line = LastLine
           /\ job'.outcome = "completed" /\ ~job'.caught
<1>1. job.line \in Readers /\ job.count \in Nat
    BY DEF TypeOK, Jobs
<1>2. Line < LastLine => Line + 1 \in Readers
    BY <1>1, FirstLine DEF Line, Readers
<1>3. ~(Line < LastLine) => Line = LastLine
    BY <1>1, FirstLine DEF Line, Readers
<1> DEFINE at == IF Line < LastLine THEN "check" ELSE "counts"
           line == IF Line < LastLine THEN Line + 1 ELSE Line
           count == IF counted THEN job.count + 1 ELSE job.count
<1>4. at \in {"check", "counts"} /\ line \in Readers /\ count \in Nat
    BY <1>1, <1>2 DEF Line
<1>5. (at = "check" => line = Line + 1) /\ (at = "counts" => Line = LastLine)
    BY <1>3
<1>6. job' = [Idle EXCEPT !.at = at, !.line = line, !.count = count]
    BY DEF NextLine
<1> HIDE DEF at, line, count
<1>7. job' \in Jobs
    BY <1>4, <1>6, IdleType DEF Jobs, Places
<1>8. job'.at = at /\ job'.line = line /\ job'.outcome = "completed" /\ ~job'.caught
    BY <1>6 DEF Idle
<1> QED
    BY <1>4, <1>5, <1>7, <1>8

LEMMA FailType ==
    ASSUME TypeOK, Fail
    PROVE  job' = Idle /\ due' \in BOOLEAN /\ retried' \in 0..Retries
<1>1. Retries \in Nat /\ retried \in 0..Retries /\ due \in BOOLEAN
    BY ImportAssumption DEF TypeOK
<1>2. CASE retried < Retries
    BY <1>1, <1>2 DEF Fail
<1>3. CASE ~(retried < Retries)
    BY <1>1, <1>3 DEF Fail
<1> QED BY <1>2, <1>3

\* A put leaves rows rows.
LEMMA WriteType ==
    ASSUME TypeOK, NEW r \in Readers, NEW status \in Statuses, NEW rev \in Nat \ {0},
           Write(r, status, rev)
    PROVE  /\ sub' \in [Readers -> Rows] /\ slipped' \in BOOLEAN
           /\ sub'[r] = [status |-> status, rev |-> rev]
           /\ \A x \in Readers : x # r => sub'[x] = sub[x]
BY DEF TypeOK, Write, Rows

\* What a handler in flight puts.
LEMMA PutType ==
    ASSUME TypeOK, NEW h \in Handlers, held[h] # Nobody
    PROVE  /\ held[h] \in InFlight /\ held[h].reader \in Readers
           /\ Puts(held[h].kind) \subseteq Statuses
           /\ RevisionOf(held[h].kind, held[h].row) \in Nat \ {0}
<1>1. held[h] \in InFlight
    BY DEF TypeOK
<1>2. held[h].kind \in Kinds /\ held[h].row.rev \in Nat /\ held[h].reader \in Readers
    BY <1>1 DEF InFlight, Rows, NoRow
<1>3. Puts(held[h].kind) \subseteq Statuses
    BY <1>2 DEF Puts, Kinds, Statuses
<1>4. RevisionOf(held[h].kind, held[h].row) \in Nat \ {0}
    BY <1>2 DEF RevisionOf
<1> QED BY <1>1, <1>2, <1>3, <1>4

LEMMA SpendType ==
    ASSUME TypeOK, NEW d \in Disturbances, Spend(d)
    PROVE  left' \in [Disturbances -> Nat] /\ readable' \in BOOLEAN
BY DEF TypeOK, Spend, Disturbances

LEMMA InitType == Init => TypeOK
<1> SUFFICES ASSUME Init PROVE TypeOK
    OBVIOUS
<1>1. sub \in [Readers -> Rows] /\ held \in [Handlers -> InFlight \cup {Nobody}]
    BY DEF Init, Rows, Statuses
<1>2. job \in Jobs /\ batch \in Records
    BY IdleType DEF Init, NoBatch, Records
<1>3. retried \in 0..Retries /\ left \in [Disturbances -> Nat]
    BY ImportAssumption DEF Init
<1> QED BY <1>1, <1>2, <1>3 DEF Init, TypeOK

LEMMA JobStepType == TypeOK /\ JobStep => TypeOK'
<1> SUFFICES ASSUME TypeOK, JobStep PROVE TypeOK'
    OBVIOUS
<1>1. CASE BeginJob
    BY <1>1 DEF BeginJob, TypeOK, Goto, Jobs, Places, stores, ghosts
<1>2. CASE Unreadable
    BY <1>2 DEF Unreadable, TypeOK, Jobs, Places, stores, ghosts
<1>3. CASE OpenBatch
    BY <1>3 DEF OpenBatch, TypeOK, Goto, Jobs, Places, Records, ghosts
<1>4. CASE CheckLine
    <2>1. Line \in Readers
        BY DEF TypeOK, Jobs, Line
    <2>2. CASE Line \in suppressed
        BY <1>4, <2>1, <2>2, NextLineType DEF CheckLine, TypeOK, stores
    <2>3. CASE Line \notin suppressed
        BY <1>4, <2>3 DEF CheckLine, TypeOK, Goto, Jobs, Places, stores
    <2> QED BY <2>2, <2>3
<1>5. CASE ReadRow
    <2>1. Line \in Readers /\ sub[Line].rev \in Nat
        BY DEF TypeOK, Jobs, Line, Rows, NoRow
    <2>2. CASE sub[Line].status = "unsubscribed"
        BY <1>5, <2>1, <2>2, NextLineType DEF ReadRow, TypeOK, stores
    <2>3. CASE sub[Line].status # "unsubscribed"
        BY <1>5, <2>1, <2>3 DEF ReadRow, TypeOK, Jobs, Places, stores
    <2> QED BY <2>2, <2>3
<1>6. CASE PutDecline
    <2>1. Line \in Readers /\ Goto("point")
        BY <1>6 DEF PutDecline, TypeOK, Jobs, Line
    <2>2. sub' \in [Readers -> Rows] /\ slipped' \in BOOLEAN
        <3>1. Write(Line, "unsubscribed", 1)
            BY <1>6 DEF PutDecline
        <3>2. "unsubscribed" \in Statuses /\ 1 \in Nat \ {0}
            BY DEF Statuses
        <3> QED BY <2>1, <3>1, <3>2, WriteType
    <2>3. job' \in Jobs
        BY <2>1 DEF TypeOK, Goto, Jobs, Places
    <2> QED BY <1>6, <2>1, <2>2, <2>3 DEF PutDecline, TypeOK
<1>7. CASE PutGuarded
    <2>1. Line \in Readers /\ Goto("point") /\ job.seen \in Nat /\ Wanted[Line] \in Statuses
        BY <1>7, ImportAssumption DEF PutGuarded, TypeOK, Jobs, Line
    <2>2. sub' \in [Readers -> Rows] /\ slipped' \in BOOLEAN
        <3>1. Write(Line, Wanted[Line], job.seen + 1)
            BY <1>7 DEF PutGuarded
        <3>2. job.seen + 1 \in Nat \ {0}
            BY <2>1
        <3> QED BY <2>1, <3>1, <3>2, WriteType
    <2>3. job' \in Jobs
        BY <2>1 DEF TypeOK, Goto, Jobs, Places
    <2> QED BY <1>7, <2>1, <2>2, <2>3 DEF PutGuarded, TypeOK
<1>8. CASE PutRefused
    <2>1. Line \in Readers
        BY DEF TypeOK, Jobs, Line
    <2>2. CASE job.tries + 1 < Attempts
        <3>1. job' = [job EXCEPT !.at = "read", !.tries = @ + 1] /\ UNCHANGED passed
            BY <1>8, <2>2 DEF PutRefused
        <3>2. job' \in Jobs
            <4>1. job \in Jobs /\ job.tries + 1 \in Nat
                BY DEF TypeOK, Jobs
            <4> QED BY <3>1, <4>1 DEF Jobs, Places
        <3> QED BY <1>8, <3>1, <3>2 DEF PutRefused, TypeOK, stores
    <2>3. CASE ~(job.tries + 1 < Attempts)
        BY <1>8, <2>1, <2>3, NextLineType DEF PutRefused, TypeOK, stores
    <2> QED BY <2>2, <2>3
<1>9. CASE AddPointer
    <2>1. Line \in Readers
        BY DEF TypeOK, Jobs, Line
    <2> QED BY <1>9, <2>1, NextLineType DEF AddPointer, TypeOK, ghosts
<1>10. CASE PutCounts
    BY <1>10 DEF PutCounts, TypeOK, Goto, Jobs, Places, Records, ghosts
<1>11. CASE FindBatch
    BY <1>11 DEF FindBatch, TypeOK, Jobs, Places, stores, ghosts
<1>12. CASE CloseBatch
    <2>1. batch' \in Records
        BY <1>12 DEF CloseBatch, TypeOK, Jobs, Records
    <2>2. job' \in Jobs /\ due' \in BOOLEAN /\ retried' \in 0..Retries
        BY <1>12, FailType, IdleType DEF CloseBatch, TypeOK
    <2> QED BY <1>12, <2>1, <2>2 DEF CloseBatch, TypeOK, ghosts
<1> QED BY <1>1, <1>2, <1>3, <1>4, <1>5, <1>6, <1>7, <1>8, <1>9, <1>10, <1>11, <1>12 DEF JobStep

LEMMA NextType == TypeOK /\ [Next]_vars => TypeOK'
<1> SUFFICES ASSUME TypeOK, [Next]_vars PROVE TypeOK'
    OBVIOUS
<1>1. CASE ClaimBatch
    BY <1>1 DEF ClaimBatch, TypeOK, Records, ghosts
<1>2. CASE InvokeImporter
    BY <1>2 DEF InvokeImporter, TypeOK, stores, ghosts
<1>3. CASE JobStep
    BY <1>3, JobStepType
<1>4. CASE Throw
    <2>1. left' \in [Disturbances -> Nat] /\ readable' \in BOOLEAN
        BY <1>4, SpendType DEF Throw, Disturbances
    <2>2. job' \in Jobs /\ due' \in BOOLEAN /\ retried' \in 0..Retries
        BY <1>4, FailType, IdleType DEF Throw, TypeOK, Jobs, Places
    <2> QED BY <1>4, <2>1, <2>2 DEF Throw, TypeOK, stores
<1>5. CASE Kill
    <2>1. left' \in [Disturbances -> Nat] /\ readable' \in BOOLEAN
        BY <1>5, SpendType DEF Kill, Disturbances
    <2>2. job' \in Jobs /\ due' \in BOOLEAN /\ retried' \in 0..Retries
        BY <1>5, FailType, IdleType DEF Kill
    <2> QED BY <1>5, <2>1, <2>2 DEF Kill, TypeOK, stores
<1>6. ASSUME NEW h \in Handlers, Put(h) PROVE TypeOK'
    <2>1. held[h] # Nobody
        BY <1>6 DEF Put
    <2>2. PICK status \in Puts(held[h].kind) :
              Write(held[h].reader, status, RevisionOf(held[h].kind, held[h].row))
        BY <1>6 DEF Put
    <2>3. sub' \in [Readers -> Rows] /\ slipped' \in BOOLEAN
        BY <2>1, <2>2, PutType, WriteType
    <2>4. held' \in [Handlers -> InFlight \cup {Nobody}] /\ own' \subseteq Readers
        BY <1>6 DEF Put, TypeOK
    <2> QED BY <1>6, <2>3, <2>4 DEF Put, TypeOK
<1>7. ASSUME NEW h \in Handlers, NEW kind \in Surfaces, NEW r \in Readers, Read(h, kind, r) PROVE TypeOK'
    <2>1. left' \in [Disturbances -> Nat] /\ readable' \in BOOLEAN
        BY <1>7, SpendType DEF Read, Disturbances
    <2>2. [kind |-> kind, reader |-> r, row |-> sub[r]] \in InFlight
        BY ImportAssumption DEF TypeOK, InFlight
    <2>3. held' \in [Handlers -> InFlight \cup {Nobody}]
        BY <1>7, <2>2 DEF Read, TypeOK
    <2> QED BY <1>7, <2>1, <2>3 DEF Read, TypeOK, stores
<1>8. ASSUME NEW r \in Readers, Suppress(r) PROVE TypeOK'
    <2>1. left' \in [Disturbances -> Nat] /\ readable' \in BOOLEAN
        BY <1>8, SpendType DEF Suppress, Disturbances
    <2> QED BY <1>8, <2>1 DEF Suppress, TypeOK
<1>9. CASE UNCHANGED vars
    BY <1>9 DEF vars, stores, ghosts, TypeOK
<1> QED BY <1>1, <1>2, <1>3, <1>4, <1>5, <1>6, <1>7, <1>8, <1>9 DEF Next

\* Every variable keeps its type, whatever handlers, failures and retries do.
THEOREM TypeCorrect == Spec => []TypeOK
<1> QED BY InitType, NextType, PTL DEF Spec

-----------------------------------------------------------------------------
(* Revivals.  Between a read and its put the revision that was read names  *)
(* a row that was not left, unless a put took the count back.              *)

ReadHolds ==
    At("put") /\ Wanted[Line] # "unsubscribed" /\ ~slipped =>
        /\ job.seen <= sub[Line].rev
        /\ sub[Line].rev = job.seen => sub[Line].status # "unsubscribed"

\* Steps that move the job elsewhere, or leave it and its row alone.
LEMMA ReadKept ==
    ASSUME ReadHolds, \/ job'.at # "put"
                      \/ UNCHANGED <<job, sub, slipped>>
    PROVE  ReadHolds'
BY DEF ReadHolds, At, Line

LEMMA NextRead == TypeOK /\ ReadHolds /\ [Next]_vars => ReadHolds'
<1> SUFFICES ASSUME TypeOK, ReadHolds, [Next]_vars PROVE ReadHolds'
    OBVIOUS
<1> USE DEF At
<1>j. job \in Jobs /\ Line \in Readers
    BY DEF TypeOK, Jobs, Line
<1>1. CASE ClaimBatch \/ InvokeImporter
    BY <1>1, ReadKept DEF ClaimBatch, InvokeImporter, stores, ghosts
<1>2. CASE BeginJob \/ Unreadable \/ OpenBatch \/ PutCounts \/ FindBatch
    <2>1. job'.at # "put"
        BY <1>2, <1>j DEF BeginJob, Unreadable, OpenBatch, PutCounts, FindBatch, Goto, Jobs
    <2> QED BY <2>1, ReadKept
<1>3. CASE CheckLine
    <2>1. CASE Line \in suppressed
        BY <1>3, <2>1, NextLineType, ReadKept DEF CheckLine
    <2>2. CASE Line \notin suppressed /\ Wanted[Line] # "unsubscribed"
        <3>1. job'.at # "put"
            BY <1>3, <2>2, <1>j DEF CheckLine, Goto, Jobs
        <3> QED BY <3>1, ReadKept
    <2>3. CASE Line \notin suppressed /\ Wanted[Line] = "unsubscribed"
        <3>1. job'.line = Line
            BY <1>3, <2>3, <1>j DEF CheckLine, Goto, Jobs, Line
        <3> QED BY <2>3, <3>1 DEF ReadHolds, Line
    <2> QED BY <2>1, <2>2, <2>3
<1>4. CASE ReadRow
    <2>1. CASE sub[Line].status = "unsubscribed"
        BY <1>4, <2>1, NextLineType, ReadKept DEF ReadRow
    <2>2. CASE sub[Line].status # "unsubscribed"
        <3>1. job'.line = Line /\ job'.seen = sub[Line].rev /\ UNCHANGED sub
            BY <1>4, <2>2, <1>j DEF ReadRow, Jobs, Line, stores
        <3>2. sub[Line].rev \in Nat
            BY <1>j DEF TypeOK, Rows, NoRow
        <3> QED BY <2>2, <3>1, <3>2 DEF ReadHolds, Line
    <2> QED BY <2>1, <2>2
<1>5. CASE PutDecline \/ PutGuarded
    <2>1. job'.at # "put"
        BY <1>5, <1>j DEF PutDecline, PutGuarded, Goto, Jobs
    <2> QED BY <2>1, ReadKept
<1>6. CASE PutRefused
    <2>1. CASE job.tries + 1 < Attempts
        <3>1. job'.at # "put"
            BY <1>6, <2>1, <1>j DEF PutRefused, Jobs
        <3> QED BY <3>1, ReadKept
    <2>2. CASE ~(job.tries + 1 < Attempts)
        BY <1>6, <2>2, NextLineType, ReadKept DEF PutRefused
    <2> QED BY <2>1, <2>2
<1>7. CASE AddPointer
    BY <1>7, NextLineType, ReadKept DEF AddPointer
<1>8. CASE CloseBatch \/ Kill
    <2>1. job'.at # "put"
        BY <1>8 DEF CloseBatch, Kill, Fail, Idle
    <2> QED BY <2>1, ReadKept
<1>9. CASE Throw
    <2>1. job'.at # "put"
        <3>1. CASE job.caught
            BY <1>9, <3>1 DEF Throw, Fail, Idle
        <3>2. CASE ~job.caught
            BY <1>9, <3>2, <1>j DEF Throw, Jobs
        <3> QED BY <3>1, <3>2
    <2> QED BY <2>1, ReadKept
<1>10. ASSUME NEW h \in Handlers, Put(h) PROVE ReadHolds'
    <2>1. UNCHANGED job
        BY <1>10 DEF Put
    <2>2. PICK status \in Puts(held[h].kind) :
              Write(held[h].reader, status, RevisionOf(held[h].kind, held[h].row))
        BY <1>10 DEF Put
    <2>3. held[h] # Nobody
        BY <1>10 DEF Put
    <2> DEFINE r == held[h].reader
               rev == RevisionOf(held[h].kind, held[h].row)
    <2>4. /\ r \in Readers /\ rev \in Nat
          /\ sub'[r] = [status |-> status, rev |-> rev]
          /\ \A x \in Readers : x # r => sub'[x] = sub[x]
        BY <2>2, <2>3, PutType, WriteType
    <2>5. slipped' = (slipped \/ (r = Line /\ rev <= sub[r].rev))
        BY <2>2 DEF Write
    <2> HIDE DEF r, rev
    <2>6. job.seen \in Nat /\ sub[Line].rev \in Nat
        BY <1>j DEF TypeOK, Jobs, Rows, NoRow
    <2>7. CASE r # Line
        BY <2>1, <2>4, <2>5, <2>7, <1>j DEF ReadHolds, Line
    <2>8. CASE r = Line
        <3> SUFFICES ASSUME At("put"), Wanted[Line] # "unsubscribed", ~slipped'
                     PROVE  job.seen < rev
            BY <2>1, <2>4, <2>6, <2>8 DEF ReadHolds, Line
        <3>1. ~slipped /\ ~(rev <= sub[Line].rev)
            BY <2>5, <2>8
        <3>2. job.seen <= sub[Line].rev
            BY <3>1 DEF ReadHolds
        <3> QED BY <2>4, <2>6, <3>1, <3>2
    <2> QED BY <2>7, <2>8
<1>11. ASSUME NEW h \in Handlers, NEW kind \in Surfaces, NEW r \in Readers, Read(h, kind, r)
       PROVE  ReadHolds'
    BY <1>11, ReadKept DEF Read, stores
<1>12. ASSUME NEW r \in Readers, Suppress(r) PROVE ReadHolds'
    BY <1>12, ReadKept DEF Suppress
<1>13. CASE UNCHANGED vars
    BY <1>13, ReadKept DEF vars, stores, ghosts
<1> QED BY <1>1, <1>2, <1>3, <1>4, <1>5, <1>6, <1>7, <1>8, <1>9, <1>10, <1>11, <1>12, <1>13
        DEF Next, JobStep

\* Only puts of the job add to its own rows, and only puts write rows.
LEMMA WhoPuts ==
    ASSUME TypeOK, Next, NEW r \in Readers, sub'[r] # sub[r], r \in own'
    PROVE  PutDecline \/ PutGuarded
<1>1. ASSUME NEW h \in Handlers, Put(h) PROVE FALSE
    <2>1. PICK status \in Puts(held[h].kind) :
              Write(held[h].reader, status, RevisionOf(held[h].kind, held[h].row))
        BY <1>1 DEF Put
    <2>2. r # held[h].reader
        BY <1>1 DEF Put
    <2> QED BY <2>1, <2>2 DEF Write, TypeOK
<1> QED
    BY <1>1 DEF Next, JobStep, ClaimBatch, InvokeImporter, BeginJob, Unreadable, OpenBatch, CheckLine,
        ReadRow, PutRefused, AddPointer, PutCounts, FindBatch, CloseBatch, Throw, Kill, Read,
        Suppress, stores, ghosts

\* An unsubscribe that lands between the job's read and its put is kept, except
\* where some put took the revision back (import-run.ts:401-403, dynamo.ts:545-549).
THEOREM RevivalNeedsSlip == Spec => RevivesByAbaOnly
<1>1. Init => ReadHolds
    BY DEF Init, ReadHolds, At, Idle
<1>2. ASSUME TypeOK, ReadHolds, [Next]_vars
      PROVE  [\A r \in Readers :
                sub[r].status = "unsubscribed" /\ sub'[r].status # "unsubscribed" /\ r \in own'
                    => slipped]_vars
    <2> SUFFICES ASSUME Next, NEW r \in Readers,
                        sub[r].status = "unsubscribed", sub'[r].status # "unsubscribed", r \in own'
                 PROVE  slipped
        BY <1>2
    <2>1. PutDecline \/ PutGuarded
        BY <1>2, WhoPuts
    <2>2. Line \in Readers
        BY <1>2 DEF TypeOK, Jobs, Line
    <2>3. CASE PutDecline
        BY <1>2, <2>2, <2>3 DEF PutDecline, Write, TypeOK
    <2>4. CASE PutGuarded
        <3>1. r = Line /\ sub[Line].rev = job.seen
            BY <1>2, <2>2, <2>4 DEF PutGuarded, Write, TypeOK
        <3> QED BY <1>2, <2>4, <3>1 DEF PutGuarded, ReadHolds
    <2> QED BY <2>1, <2>3, <2>4
<1> QED BY <1>1, <1>2, NextRead, TypeCorrect, PTL DEF Spec, RevivesByAbaOnly

-----------------------------------------------------------------------------
(* Completed batches.  Reversible and NobodyLeftOut speak of the moment a   *)
(* batch is completed; what makes them inductive is what the job knows of   *)
(* the lines it has put behind it (Covers), which rests on a row of the     *)
(* job's own being as the job wants it, and being put again without a race. *)

OnLine == job.at \in {"check", "read", "put", "point"}

\* The job has dealt with r's line in this invocation.
Past(r) ==
    \/ OnLine /\ r < Line
    \/ At("counts")
    \/ job.at \in {"findBatch", "close"} /\ job.outcome = "completed"

\* A row that was written is listed, and nobody is passed by without a reason.
Accounted(r) ==
    /\ r \in own => r \in pointers \cup suppressed
    /\ r \in pointers \cup passed

\* An invocation follows the request, one at a time and from the first line, and
\* an error is a failure.
OneJob ==
    /\ due \/ ~At("idle") => api = "invoked"
    /\ ~At("idle") => ~due
    /\ job.caught => job.outcome = "failed"
    /\ job.at \in {"idle", "open"} => Line = 1

OwnAsWanted == \A r \in own : sub[r].status = Wanted[r]

\* A row of the job's own that it comes back to has the revision it has read.
OwnUnraced ==
    /\ At("read") => Wanted[Line] # "unsubscribed"
    /\ At("put") /\ Wanted[Line] # "unsubscribed" /\ Line \in own => sub[Line].rev = job.seen

Covers == \A r \in Readers : Past(r) => Accounted(r)

Done ==
    batch.status = "completed" =>
        /\ At("idle") /\ ~due /\ api = "invoked"
        /\ \A r \in Readers : Accounted(r)

BatchInv == OneJob /\ OwnAsWanted /\ OwnUnraced /\ Covers /\ Done

LEMMA AccountedKept ==
    ASSUME NEW r \in Readers, Accounted(r), r \in own' => r \in own,
           pointers \subseteq pointers', suppressed \subseteq suppressed', passed \subseteq passed'
    PROVE  Accounted(r)'
BY DEF Accounted

LEMMA CoversKept ==
    ASSUME Covers, pointers \subseteq pointers', suppressed \subseteq suppressed', passed \subseteq passed',
           \A r \in Readers : Past(r)' => Past(r) /\ (r \in own' => r \in own)
    PROVE  Covers'
BY AccountedKept DEF Covers

\* A line that is accounted for can be put behind.
LEMMA CoversNextLine ==
    ASSUME TypeOK, Covers, OnLine, NEW counted \in BOOLEAN, NextLine(counted),
           pointers \subseteq pointers', suppressed \subseteq suppressed', passed \subseteq passed',
           own' \subseteq own, Line \in pointers' \cup passed',
           Line \in own => Line \in pointers' \cup suppressed'
    PROVE  Covers'
<1> SUFFICES ASSUME NEW r \in Readers, Past(r)' PROVE Accounted(r)'
    BY DEF Covers
<1>1. Line \in Readers
    BY DEF TypeOK, Jobs, Line
<1>2. r < Line \/ r = Line
    <2>1. CASE job'.at = "check"
        <3>1. r < Line + 1
            BY <2>1, NextLineType DEF Past, OnLine, At, Line
        <3> QED BY <1>1, <3>1 DEF Readers
    <2>2. CASE job'.at = "counts"
        <3>1. Line = LastLine
            BY <2>2, NextLineType
        <3> QED BY <3>1, FirstLine DEF Readers
    <2> QED BY <2>1, <2>2, NextLineType
<1>3. CASE r = Line
    BY <1>3 DEF Accounted, Line
<1>4. CASE r < Line
    <2>1. Accounted(r)
        BY <1>4 DEF Covers, Past
    <2>2. r \in own' => r \in own
        OBVIOUS
    <2> QED BY <2>1, <2>2, AccountedKept
<1> QED BY <1>2, <1>3, <1>4

LEMMA NextOneJob == TypeOK /\ OneJob /\ [Next]_vars => OneJob'
<1> SUFFICES ASSUME TypeOK, OneJob, [Next]_vars PROVE OneJob'
    OBVIOUS
<1> USE DEF At
<1>j. job \in Jobs
    BY DEF TypeOK
<1>1. CASE ClaimBatch \/ InvokeImporter
    BY <1>1 DEF OneJob, ClaimBatch, InvokeImporter, stores, ghosts, Line
<1>2. CASE BeginJob \/ Unreadable \/ OpenBatch \/ PutCounts \/ FindBatch \/ PutDecline \/ PutGuarded
    <2>1. UNCHANGED api /\ (due' => due) /\ (due' = FALSE \/ ~At("idle"))
        BY <1>2 DEF BeginJob, Unreadable, OpenBatch, PutCounts, FindBatch, PutDecline, PutGuarded, stores
    <2>2. job'.at # "idle" /\ (job'.caught => job.caught) /\ job'.outcome \in {job.outcome, "failed"}
        BY <1>2, <1>j DEF BeginJob, Unreadable, OpenBatch, PutCounts, FindBatch, PutDecline, PutGuarded,
                          Goto, Jobs
    <2>3. due \/ ~At("idle")
        BY <1>2 DEF BeginJob, Unreadable, OpenBatch, PutCounts, FindBatch, PutDecline, PutGuarded
    <2>4. job'.line = job.line /\ (job'.at = "open" => At("idle"))
        BY <1>2, <1>j DEF BeginJob, Unreadable, OpenBatch, PutCounts, FindBatch, PutDecline, PutGuarded,
                          Goto, Jobs
    <2>5. job'.at \in {"idle", "open"} => Line' = 1
        BY <2>2, <2>4 DEF OneJob, Line
    <2> QED BY <2>1, <2>2, <2>3, <2>5 DEF OneJob
<1>3. CASE CheckLine \/ ReadRow \/ PutRefused \/ AddPointer
    <2>1. UNCHANGED <<api, due>> /\ ~At("idle")
        BY <1>3 DEF CheckLine, ReadRow, PutRefused, AddPointer
    <2>2. job'.at \notin {"idle", "open"} /\ (job'.caught => job.caught /\ job'.outcome = job.outcome)
        <3>1. CASE NextLine(TRUE) \/ NextLine(FALSE)
            BY <3>1, NextLineType
        <3>2. CASE ~(NextLine(TRUE) \/ NextLine(FALSE))
            BY <1>3, <3>2, <1>j DEF CheckLine, ReadRow, PutRefused, AddPointer, Goto, Jobs
        <3> QED BY <3>1, <3>2
    <2> QED BY <2>1, <2>2 DEF OneJob
<1>4. CASE CloseBatch
    <2>1. job' = Idle /\ UNCHANGED api /\ api = "invoked"
        BY <1>4 DEF CloseBatch, Fail, OneJob
    <2> QED BY <2>1 DEF OneJob, Idle, Line
<1>5. CASE Kill
    <2>1. job' = Idle /\ UNCHANGED api /\ api = "invoked"
        BY <1>5 DEF Kill, Fail, OneJob
    <2> QED BY <2>1 DEF OneJob, Idle, Line
<1>6. CASE Throw
    <2>1. UNCHANGED api /\ api = "invoked" /\ ~due
        BY <1>6 DEF Throw, OneJob
    <2>2. CASE job.caught
        BY <1>6, <2>1, <2>2 DEF Throw, Fail, OneJob, Idle, Line
    <2>3. CASE ~job.caught
        BY <1>6, <1>j, <2>1, <2>3 DEF Throw, OneJob, Jobs, Line
    <2> QED BY <2>2, <2>3
<1>7. ASSUME NEW h \in Handlers, Put(h) PROVE OneJob'
    BY <1>7 DEF Put, OneJob, Line
<1>8. ASSUME NEW h \in Handlers, NEW kind \in Surfaces, NEW r \in Readers, Read(h, kind, r) PROVE OneJob'
    BY <1>8 DEF Read, OneJob, Line
<1>9. ASSUME NEW r \in Readers, Suppress(r) PROVE OneJob'
    BY <1>9 DEF Suppress, OneJob, Line
<1>10. CASE UNCHANGED vars
    BY <1>10 DEF vars, OneJob, Line
<1> QED BY <1>1, <1>2, <1>3, <1>4, <1>5, <1>6, <1>7, <1>8, <1>9, <1>10 DEF Next, JobStep

\* Steps that put no row and add none to the job's own.
QuietSteps ==
    \/ ClaimBatch \/ InvokeImporter \/ BeginJob \/ Unreadable \/ OpenBatch \/ CheckLine \/ ReadRow
    \/ PutRefused \/ AddPointer \/ PutCounts \/ FindBatch \/ CloseBatch \/ Throw \/ Kill
    \/ \E h \in Handlers, kind \in Surfaces, r \in Readers : Read(h, kind, r)
    \/ \E r \in Readers : Suppress(r)

LEMMA QuietSub == QuietSteps => UNCHANGED <<sub, own>>
BY DEF QuietSteps, ClaimBatch, InvokeImporter, BeginJob, Unreadable, OpenBatch, CheckLine, ReadRow,
       PutRefused, AddPointer, PutCounts, FindBatch, CloseBatch, Throw, Kill, Read, Suppress, stores, ghosts

LEMMA StepKinds == Next => QuietSteps \/ PutDecline \/ PutGuarded \/ \E h \in Handlers : Put(h)
BY DEF Next, JobStep, QuietSteps

\* A put of the job leaves every other row, and its own as it is wanted.
LEMMA JobPut ==
    ASSUME TypeOK, PutDecline \/ PutGuarded
    PROVE  /\ Line \in Readers /\ own' = own \cup {Line} /\ job' = [job EXCEPT !.at = "point"]
           /\ sub'[Line].status = Wanted[Line]
           /\ \A x \in Readers : x # Line => sub'[x] = sub[x]
<1>1. Line \in Readers /\ sub \in [Readers -> Rows]
    BY DEF TypeOK, Jobs, Line
<1>2. CASE PutDecline
    BY <1>1, <1>2 DEF PutDecline, Write, Goto
<1>3. CASE PutGuarded
    BY <1>1, <1>3 DEF PutGuarded, Write, Goto
<1> QED BY <1>2, <1>3

LEMMA HandlerPut ==
    ASSUME TypeOK, NEW h \in Handlers, Put(h)
    PROVE  /\ own' = own \ {held[h].reader}
           /\ \A x \in Readers : x # held[h].reader => sub'[x] = sub[x]
           /\ UNCHANGED <<suppressed, batch, pointers, api, due, job, passed>>
<1>1. PICK status \in Puts(held[h].kind) :
          Write(held[h].reader, status, RevisionOf(held[h].kind, held[h].row))
    BY DEF Put
<1>2. \A x \in Readers : x # held[h].reader => sub'[x] = sub[x]
    BY <1>1 DEF Write, TypeOK
<1> QED BY <1>2 DEF Put

LEMMA NextOwn == TypeOK /\ OwnAsWanted /\ [Next]_vars => OwnAsWanted'
<1> SUFFICES ASSUME TypeOK, OwnAsWanted, [Next]_vars, NEW r \in own' PROVE sub'[r].status = Wanted[r]
    BY DEF OwnAsWanted
<1>1. CASE QuietSteps \/ UNCHANGED vars
    BY <1>1, QuietSub DEF OwnAsWanted, vars, stores, ghosts
<1>2. CASE PutDecline \/ PutGuarded
    BY <1>2, JobPut DEF OwnAsWanted, TypeOK
<1>3. ASSUME NEW h \in Handlers, Put(h) PROVE sub'[r].status = Wanted[r]
    BY <1>3, HandlerPut DEF OwnAsWanted, TypeOK
<1> QED BY <1>1, <1>2, <1>3, StepKinds

LEMMA UnracedKept ==
    ASSUME OwnUnraced, \/ job'.at \notin {"read", "put"}
                       \/ UNCHANGED <<job, sub>> /\ own' \subseteq own
    PROVE  OwnUnraced'
BY DEF OwnUnraced, At, Line

LEMMA NextUnraced == TypeOK /\ OwnUnraced /\ [Next]_vars => OwnUnraced'
<1> SUFFICES ASSUME TypeOK, OwnUnraced, [Next]_vars PROVE OwnUnraced'
    OBVIOUS
<1> USE DEF At
<1>j. job \in Jobs /\ Line \in Readers
    BY DEF TypeOK, Jobs, Line
<1>1. CASE ClaimBatch \/ InvokeImporter
    BY <1>1, UnracedKept DEF ClaimBatch, InvokeImporter, stores, ghosts
<1>2. CASE BeginJob \/ Unreadable \/ OpenBatch \/ PutCounts \/ FindBatch
    <2>1. job'.at \notin {"read", "put"}
        BY <1>2, <1>j DEF BeginJob, Unreadable, OpenBatch, PutCounts, FindBatch, Goto, Jobs
    <2> QED BY <2>1, UnracedKept
<1>3. CASE CheckLine
    <2>1. CASE Line \in suppressed
        BY <1>3, <2>1, NextLineType, UnracedKept DEF CheckLine
    <2>2. CASE Line \notin suppressed
        <3>1. /\ job'.line = Line
              /\ job'.at = IF Wanted[Line] = "unsubscribed" THEN "put" ELSE "read"
            BY <1>3, <2>2, <1>j DEF CheckLine, Goto, Jobs, Line
        <3> QED BY <3>1 DEF OwnUnraced, Line
    <2> QED BY <2>1, <2>2
<1>4. CASE ReadRow
    <2>1. CASE sub[Line].status = "unsubscribed"
        BY <1>4, <2>1, NextLineType, UnracedKept DEF ReadRow
    <2>2. CASE sub[Line].status # "unsubscribed"
        <3>1. job'.at = "put" /\ job'.line = Line /\ job'.seen = sub[Line].rev /\ UNCHANGED sub
            BY <1>4, <2>2, <1>j DEF ReadRow, Jobs, Line, stores
        <3> QED BY <3>1 DEF OwnUnraced, Line
    <2> QED BY <2>1, <2>2
<1>5. CASE PutDecline \/ PutGuarded
    <2>1. job'.at = "point"
        BY <1>5, <1>j DEF PutDecline, PutGuarded, Goto, Jobs
    <2> QED BY <2>1, UnracedKept
<1>6. CASE PutRefused
    <2>1. CASE job.tries + 1 < Attempts
        <3>1. job'.at = "read" /\ job'.line = Line /\ Wanted[Line] # "unsubscribed"
            BY <1>6, <2>1, <1>j DEF PutRefused, Jobs, Line
        <3> QED BY <3>1 DEF OwnUnraced, Line
    <2>2. CASE ~(job.tries + 1 < Attempts)
        BY <1>6, <2>2, NextLineType, UnracedKept DEF PutRefused
    <2> QED BY <2>1, <2>2
<1>7. CASE AddPointer
    BY <1>7, NextLineType, UnracedKept DEF AddPointer
<1>8. CASE CloseBatch \/ Kill
    <2>1. job'.at \notin {"read", "put"}
        BY <1>8 DEF CloseBatch, Kill, Fail, Idle
    <2> QED BY <2>1, UnracedKept
<1>9. CASE Throw
    <2>1. job'.at \notin {"read", "put"}
        <3>1. CASE job.caught
            BY <1>9, <3>1 DEF Throw, Fail, Idle
        <3>2. CASE ~job.caught
            BY <1>9, <3>2, <1>j DEF Throw, Jobs
        <3> QED BY <3>1, <3>2
    <2> QED BY <2>1, UnracedKept
<1>10. ASSUME NEW h \in Handlers, Put(h) PROVE OwnUnraced'
    <2>1. UNCHANGED job /\ own' = own \ {held[h].reader}
        BY <1>10, HandlerPut
    <2>2. Line \in own' => sub'[Line] = sub[Line]
        BY <1>10, <1>j, <2>1, HandlerPut
    <2> QED BY <2>1, <2>2 DEF OwnUnraced, Line
<1>11. ASSUME NEW h \in Handlers, NEW kind \in Surfaces, NEW r \in Readers, Read(h, kind, r)
       PROVE  OwnUnraced'
    BY <1>11, UnracedKept DEF Read, stores
<1>12. ASSUME NEW r \in Readers, Suppress(r) PROVE OwnUnraced'
    BY <1>12, UnracedKept DEF Suppress
<1>13. CASE UNCHANGED vars
    BY <1>13, UnracedKept DEF vars, stores, ghosts
<1> QED BY <1>1, <1>2, <1>3, <1>4, <1>5, <1>6, <1>7, <1>8, <1>9, <1>10, <1>11, <1>12, <1>13
        DEF Next, JobStep

LEMMA NextCovers ==
    TypeOK /\ OneJob /\ OwnAsWanted /\ OwnUnraced /\ Covers /\ [Next]_vars => Covers'
<1> SUFFICES ASSUME TypeOK, OneJob, OwnAsWanted, OwnUnraced, Covers, [Next]_vars PROVE Covers'
    OBVIOUS
<1> USE DEF At
<1>j. job \in Jobs /\ Line \in Readers
    BY DEF TypeOK, Jobs, Line
\* Steps between the rows: nothing more is past.
<1>1. CASE ClaimBatch \/ InvokeImporter \/ UNCHANGED vars
    BY <1>1, CoversKept DEF ClaimBatch, InvokeImporter, vars, stores, ghosts, Past, OnLine, Line
<1>2. CASE BeginJob \/ Unreadable \/ OpenBatch \/ PutCounts \/ FindBatch
    <2>1. UNCHANGED <<own, pointers, suppressed, passed>>
        BY <1>2 DEF BeginJob, Unreadable, OpenBatch, PutCounts, FindBatch, stores, ghosts
    <2>2. ASSUME NEW r \in Readers, Past(r)' PROVE Past(r)
        <3>1. CASE BeginJob
            BY <1>j, <2>2, <3>1 DEF BeginJob, Goto, Jobs, Past, OnLine
        <3>2. CASE Unreadable
            BY <1>j, <2>2, <3>2 DEF Unreadable, Jobs, Past, OnLine
        <3>3. CASE PutCounts \/ FindBatch
            BY <1>j, <2>2, <3>3 DEF PutCounts, FindBatch, Goto, Jobs, Past, OnLine
        <3>4. CASE OpenBatch
            <4>1. job'.at = "check" /\ job'.line = 1
                BY <1>j, <3>4 DEF OpenBatch, Goto, Jobs, OneJob, Line
            <4> QED BY <2>2, <4>1 DEF Past, OnLine, Line, Readers
        <3> QED BY <1>2, <3>1, <3>2, <3>3, <3>4
    <2> QED BY <2>1, <2>2, CoversKept
\* The rows.
<1>3. CASE CheckLine
    <2>1. OnLine /\ UNCHANGED <<own, pointers, suppressed>> /\ passed \subseteq passed'
        BY <1>3 DEF CheckLine, OnLine, stores
    <2>2. CASE Line \in suppressed
        BY <1>3, <2>1, <2>2, CoversNextLine DEF CheckLine
    <2>3. CASE Line \notin suppressed
        <3>1. job'.at \in {"put", "read"} /\ job'.line = Line
            BY <1>3, <1>j, <2>3 DEF CheckLine, Goto, Jobs, Line
        <3>2. \A r \in Readers : Past(r)' => Past(r)
            BY <2>1, <3>1 DEF Past, OnLine, Line
        <3> QED BY <2>1, <3>2, CoversKept
    <2> QED BY <2>2, <2>3
<1>4. CASE ReadRow
    <2>1. OnLine /\ UNCHANGED <<own, pointers, suppressed>> /\ passed \subseteq passed'
        BY <1>4 DEF ReadRow, OnLine, stores
    <2>2. CASE sub[Line].status = "unsubscribed"
        <3>1. Line \notin own
            BY <1>4, <2>2 DEF ReadRow, OwnAsWanted, OwnUnraced
        <3> QED BY <1>4, <2>1, <2>2, <3>1, CoversNextLine DEF ReadRow
    <2>3. CASE sub[Line].status # "unsubscribed"
        <3>1. job'.at = "put" /\ job'.line = Line
            BY <1>4, <1>j, <2>3 DEF ReadRow, Jobs, Line
        <3>2. \A r \in Readers : Past(r)' => Past(r)
            BY <2>1, <3>1 DEF Past, OnLine, Line
        <3> QED BY <2>1, <3>2, CoversKept
    <2> QED BY <2>2, <2>3
<1>5. CASE PutDecline \/ PutGuarded
    <2>1. /\ UNCHANGED <<pointers, suppressed, passed>> /\ OnLine
          /\ own' = own \cup {Line} /\ job'.at = "point" /\ job'.line = Line
        BY <1>5, <1>j, JobPut DEF PutDecline, PutGuarded, OnLine, Jobs, Line
    <2>2. ASSUME NEW r \in Readers, Past(r)' PROVE r < Line
        BY <2>1, <2>2 DEF Past, OnLine, Line
    <2>3. ASSUME NEW r \in Readers, Past(r)' PROVE Past(r) /\ (r \in own' => r \in own)
        <3>1. r # Line
            BY <1>j, <2>2, <2>3 DEF Readers
        <3> QED BY <2>1, <2>2, <2>3, <3>1 DEF Past
    <2> QED BY <2>1, <2>3, CoversKept
<1>6. CASE PutRefused
    <2>1. OnLine /\ UNCHANGED <<own, pointers, suppressed>> /\ passed \subseteq passed'
        BY <1>6 DEF PutRefused, OnLine, stores
    <2>2. CASE job.tries + 1 < Attempts
        <3>1. job'.at = "read" /\ job'.line = Line
            BY <1>6, <1>j, <2>2 DEF PutRefused, Jobs, Line
        <3>2. \A r \in Readers : Past(r)' => Past(r)
            BY <2>1, <3>1 DEF Past, OnLine, Line
        <3> QED BY <2>1, <3>2, CoversKept
    <2>3. CASE ~(job.tries + 1 < Attempts)
        <3>1. Line \notin own
            BY <1>6 DEF PutRefused, OwnUnraced
        <3> QED BY <1>6, <2>1, <2>3, <3>1, CoversNextLine DEF PutRefused
    <2> QED BY <2>2, <2>3
<1>7. CASE AddPointer
    <2>1. /\ OnLine /\ UNCHANGED <<own, suppressed, passed>> /\ NextLine(TRUE)
          /\ pointers' = pointers \cup {Line}
        BY <1>7 DEF AddPointer, OnLine, ghosts
    <2> QED BY <2>1, CoversNextLine
\* Nothing is past when the job has ended or failed.
<1>8. CASE CloseBatch \/ Kill \/ Throw
    <2>1. UNCHANGED <<own, pointers, suppressed, passed>>
        BY <1>8 DEF CloseBatch, Kill, Throw, stores, ghosts
    <2>2. \A r \in Readers : ~Past(r)'
        <3>1. CASE job' = Idle
            BY <3>1 DEF Past, OnLine, Idle
        <3>2. CASE job' # Idle
            <4>1. job' = [job EXCEPT !.at = "findBatch", !.outcome = "failed", !.caught = TRUE]
                BY <1>8, <3>2 DEF CloseBatch, Kill, Throw, Fail
            <4>2. job'.at = "findBatch" /\ job'.outcome = "failed"
                BY <1>j, <4>1 DEF Jobs
            <4> QED BY <4>2 DEF Past, OnLine
        <3> QED BY <3>1, <3>2
    <2> QED BY <2>1, <2>2, CoversKept
\* The handlers.
<1>9. ASSUME NEW h \in Handlers, Put(h) PROVE Covers'
    BY <1>9, HandlerPut, CoversKept DEF Past, OnLine, Line
<1>10. ASSUME NEW h \in Handlers, NEW kind \in Surfaces, NEW r \in Readers, Read(h, kind, r) PROVE Covers'
    BY <1>10, CoversKept DEF Read, stores, Past, OnLine, Line
<1>11. ASSUME NEW r \in Readers, Suppress(r) PROVE Covers'
    BY <1>11, CoversKept DEF Suppress, Past, OnLine, Line
<1> QED BY <1>1, <1>2, <1>3, <1>4, <1>5, <1>6, <1>7, <1>8, <1>9, <1>10, <1>11 DEF Next, JobStep

LEMMA NextDone == TypeOK /\ OneJob /\ Covers /\ Done /\ [Next]_vars => Done'
<1> SUFFICES ASSUME TypeOK, OneJob, Covers, Done, [Next]_vars, batch'.status = "completed"
             PROVE  (/\ At("idle") /\ ~due /\ api = "invoked"
                     /\ \A r \in Readers : Accounted(r))'
    BY DEF Done
<1> USE DEF At
\* The batch was not completed before these, or is not after them.
<1>1. CASE ClaimBatch \/ OpenBatch \/ PutCounts
    BY <1>1 DEF ClaimBatch, OpenBatch, PutCounts
<1>2. CASE \/ InvokeImporter \/ BeginJob \/ Unreadable \/ CheckLine \/ ReadRow \/ PutDecline \/ PutGuarded
           \/ PutRefused \/ AddPointer \/ FindBatch \/ Throw \/ Kill
    <2>1. UNCHANGED batch /\ (~At("idle") \/ due \/ api # "invoked")
        BY <1>2 DEF InvokeImporter, BeginJob, Unreadable, CheckLine, ReadRow, PutDecline, PutGuarded,
                    PutRefused, AddPointer, FindBatch, Throw, Kill, stores
    <2> QED BY <2>1 DEF Done
<1>3. CASE CloseBatch
    <2>1. batch'.status = job.outcome
        BY <1>3 DEF CloseBatch, TypeOK, Jobs, Records
    <2>2. job.outcome = "completed" /\ ~job.caught /\ At("close") /\ ~due /\ api = "invoked"
        BY <1>3, <2>1 DEF CloseBatch, OneJob
    <2>3. job' = Idle /\ UNCHANGED <<due, api, own, pointers, suppressed, passed>>
        BY <1>3, <2>2 DEF CloseBatch, ghosts
    <2>4. ASSUME NEW r \in Readers PROVE Accounted(r)'
        <3>1. Accounted(r)
            BY <2>2 DEF Covers, Past
        <3> QED BY <2>3, <3>1, AccountedKept
    <2> QED BY <2>2, <2>3, <2>4 DEF Idle
<1>4. CASE \/ \E h \in Handlers : Put(h)
           \/ \E h \in Handlers, kind \in Surfaces, r \in Readers : Read(h, kind, r)
           \/ \E r \in Readers : Suppress(r)
           \/ UNCHANGED vars
    <2>1. /\ UNCHANGED <<batch, job, due, api, pointers, passed>>
          /\ own' \subseteq own /\ suppressed \subseteq suppressed'
        BY <1>4 DEF Put, Read, Suppress, vars, stores, ghosts
    <2>2. ASSUME NEW r \in Readers PROVE Accounted(r)'
        <3>1. Accounted(r) /\ (r \in own' => r \in own)
            BY <2>1 DEF Done
        <3> QED BY <2>1, <3>1, AccountedKept
    <2> QED BY <2>1, <2>2 DEF Done
<1> QED BY <1>1, <1>2, <1>3, <1>4 DEF Next, JobStep

LEMMA InitBatch == Init => BatchInv
BY DEF Init, BatchInv, OneJob, OwnAsWanted, OwnUnraced, Covers, Done, Past, OnLine, At, Idle, NoBatch, Line

THEOREM BatchInvariant == Spec => []BatchInv
<1>1. TypeOK /\ BatchInv /\ [Next]_vars => BatchInv'
    BY NextOneJob, NextOwn, NextUnraced, NextCovers, NextDone DEF BatchInv
<1> QED BY InitBatch, <1>1, TypeCorrect, PTL DEF Spec

\* Rolling a completed batch back finds every row that it wrote: the pointer
\* after the row is enough, however often the job failed between the two, because
\* the next invocation comes to the row again (import-run.ts:445-448).
THEOREM CompletedIsReversible == Spec => []Reversible
<1>1. TypeOK /\ BatchInv => Reversible
    BY DEF BatchInv, Done, Accounted, Reversible, TypeOK
<1> QED BY <1>1, BatchInvariant, TypeCorrect, PTL

\* A completed batch left no line out without a reason (import-job.ts:101-183).
THEOREM CompletedIsComplete == Spec => []NobodyLeftOut
<1>1. BatchInv => NobodyLeftOut
    BY DEF BatchInv, Done, Accounted, NobodyLeftOut
<1> QED BY <1>1, BatchInvariant, PTL
=============================================================================
