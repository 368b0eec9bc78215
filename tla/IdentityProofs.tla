-------------------------- MODULE IdentityProofs --------------------------
(***************************************************************************)
(* Proofs about Identity, for any number of addresses, records, external   *)
(* ids, handlers and requests: type correctness, and the three promises.   *)
(***************************************************************************)
EXTENDS Identity, TLAPS

-----------------------------------------------------------------------------
(* What a handler holds at each place, and that a record's id is drawn by  *)
(* one handler.                                                            *)

Taken == {"reserve", "carry", "put", "putPointer", "dropPointer", "release", "bar"}

Tomb(row) == row.mail = Erased /\ row.ext = NoExt /\ row.status = "suppressed"
TombIfErased(row) == row # NoRec /\ row.mail = Erased => Tomb(row)

\* An id that was drawn and not yet written.
Creates(o) == o.at \in {"reserve", "put"} /\ o.snap = NoRec

PlaceFits(o) ==
    /\ o.at = "pointer" => o.kind \in {"upsert", "delete"} /\ o.ext \in Exts
    /\ o.at = "find" => o.kind \in {"signup", "import", "upsert", "erase"}
    /\ o.at = "get" => o.kind \in {"upsert", "delete", "provision", "complaint", "edit"}
    /\ o.at = "reserve" => o.kind = "signup"
    /\ o.at = "carry" => o.kind = "upsert" /\ o.snap # NoRec
    /\ o.at = "put" => o.kind # "delete"
    /\ o.at \in {"dropPointer", "release", "bar"} => o.kind = "erase"
    /\ o.at = "putPointer" => o.kind # "erase"
    /\ o.kind \in {"signup", "import", "upsert", "erase", "complaint"} => o.mail \in Mails

RowFits(o) ==
    o.at \in Taken =>
        /\ o.sub \in Subs /\ o.snap.rev < MaxRev /\ TombIfErased(o.snap)
        /\ o.snap = NoRec => o.kind \in {"signup", "import", "upsert"}
        /\ o.kind = "signup" => o.snap = NoRec
        /\ o.kind = "erase" \/ (o.kind = "import" /\ o.snap # NoRec) => o.snap.mail = o.mail
        /\ o.kind = "provision" => o.snap.mail # Erased

RecordFits(o) ==
    /\ o.at = "get" => o.sub \in Subs /\ rec[o.sub] # NoRec
    /\ o.at \in Taken => (rec[o.sub] = NoRec <=> Creates(o))

Fits(o) == PlaceFits(o) /\ RowFits(o) /\ RecordFits(o)

DrawnOnce ==
    \A h, g \in Handlers :
        h # g /\ InFlight(h) /\ InFlight(g) /\ Creates(op[h]) => op[g].sub # op[h].sub

RowsKnown ==
    /\ \A s \in Subs : TombIfErased(rec[s]) /\ (idx[s] # NoRec => rec[s] # NoRec)
    /\ \A x \in Exts : ptr[x] \in Subs => rec[ptr[x]] # NoRec

Shape == (\A h \in Handlers : InFlight(h) => Fits(op[h])) /\ DrawnOnce /\ RowsKnown
TypeInv == TypeOK /\ Shape

-----------------------------------------------------------------------------
(* Rows and handlers.                                                      *)

LEMMA RowType ==
    ASSUME NEW row \in Rec
    PROVE  /\ row.mail \in Mails \cup {Erased} /\ row.ext \in Exts \cup {NoExt}
           /\ row.rev \in Nat
           /\ row # NoRec => row.rev \in 1..MaxRev /\ row.status \in {"active", "suppressed"}
           /\ row = NoRec => row.mail = Erased /\ row.rev = 0 /\ row.ext = NoExt
BY IdentityAssumption DEF Rec, NoRec

LEMMA OpType ==
    ASSUME TypeOK, NEW h \in Handlers, InFlight(h)
    PROVE  /\ op[h] \in Op
           /\ op[h].kind \in Kinds /\ op[h].at \in Places /\ op[h].mail \in Mails \cup {Erased}
           /\ op[h].ext \in Exts \cup {NoExt} /\ op[h].sub \in Subs \cup {NoSub} /\ op[h].snap \in Rec
BY DEF TypeOK, InFlight, Op

LEMMA NoRecType == NoRec \in Rec /\ NoRec.rev = 0 /\ NoRec.mail = Erased /\ NoRec.ext = NoExt
BY DEF Rec, NoRec

LEMMA OpsApart == ASSUME NEW o \in Op PROVE o # NoOp
BY DEF Op, NoOp, Kinds

LEMMA RequestType ==
    ASSUME NEW kind \in Kinds, NEW place \in Places, NEW m \in Mails \cup {Erased},
           NEW x \in Exts \cup {NoExt}, NEW s \in Subs \cup {NoSub},
           NEW o, o = Request(kind, place, m, x, s)
    PROVE  /\ o \in Op /\ o.kind = kind /\ o.at = place /\ o.mail = m /\ o.ext = x
           /\ o.sub = s /\ o.snap = NoRec
BY NoRecType DEF Request, Op

\* A handler that goes on with the record it has.
LEMMA MovedType ==
    ASSUME NEW o \in Op, NEW place \in Places, NEW p, p = [o EXCEPT !.at = place]
    PROVE  /\ p \in Op /\ p.at = place /\ p.kind = o.kind /\ p.mail = o.mail /\ p.ext = o.ext
           /\ p.sub = o.sub /\ p.snap = o.snap
BY DEF Op

\* One handler changes, the table does not lose a row.
LEMMA OneMoves ==
    ASSUME TypeInv, NEW h \in Handlers, NEW o \in Op \cup {NoOp}, op' = [op EXCEPT ![h] = o],
           rec' = rec,
           o # NoOp => Fits(o),
           o # NoOp => \A g \in Handlers : g # h /\ InFlight(g) =>
                /\ Creates(op[g]) => op[g].sub # o.sub
                /\ Creates(o) => op[g].sub # o.sub
    PROVE  /\ op' \in [Handlers -> Op \cup {NoOp}]
           /\ \A g \in Handlers : InFlight(g)' => Fits(op[g])'
           /\ DrawnOnce'
<1> USE DEF TypeInv
<1>1. op' \in [Handlers -> Op \cup {NoOp}] /\ \A g \in Handlers : op'[g] = IF g = h THEN o ELSE op[g]
    BY DEF TypeOK
<1>2. ASSUME NEW g \in Handlers, InFlight(g)' PROVE Fits(op[g])'
  <2>1. Fits(op'[g])
    <3>1. CASE g = h
        BY <1>1, <1>2, <3>1 DEF InFlight
    <3>2. CASE g # h
        BY <1>1, <1>2, <3>2 DEF InFlight, Shape
    <3> QED BY <3>1, <3>2
  <2> QED BY <2>1 DEF Fits, PlaceFits, RowFits, RecordFits, Creates, TombIfErased, Tomb
<1>3. DrawnOnce'
  <2> SUFFICES ASSUME NEW g \in Handlers, NEW k \in Handlers, g # k, op'[g] # NoOp, op'[k] # NoOp,
                      Creates(op'[g])
               PROVE  op'[k].sub # op'[g].sub
      BY DEF DrawnOnce, InFlight, Creates
  <2>1. CASE g = h
      BY <1>1, <2>1 DEF InFlight
  <2>2. CASE k = h
      BY <1>1, <2>2 DEF InFlight
  <2>3. CASE g # h /\ k # h
      BY <1>1, <2>3 DEF InFlight, Shape, DrawnOnce
  <2> QED BY <2>1, <2>2, <2>3
<1> QED BY <1>1, <1>2, <1>3

\* What is written: the address, the next revision, and a tombstone whole.
MailWritten(o) ==
    IF o.kind = "erase" THEN Erased
    ELSE IF o.kind \in {"signup", "upsert"} \/ o.snap = NoRec THEN o.mail ELSE o.snap.mail

LEMMA WrittenType ==
    ASSUME NEW o \in Op, PlaceFits(o), RowFits(o), o.at = "put"
    PROVE  /\ Written(o) \in Rec /\ Written(o) # NoRec /\ Written(o).rev = o.snap.rev + 1
           /\ TombIfErased(Written(o))
           /\ Written(o).mail = MailWritten(o) /\ MailWritten(o) \in Mails \cup {Erased}
           /\ Written(o).mail = Erased /\ o.kind # "erase" => Tomb(o.snap) /\ o.kind \in {"edit", "complaint"}
           /\ o.kind = "erase" => Tomb(Written(o))
<1>r. /\ o.snap \in Rec /\ o.snap.rev \in Nat /\ MaxRev \in Nat /\ o.snap.rev + 1 \in 1..MaxRev
      /\ o.kind \in Kinds \ {"delete"} /\ o.mail \in Mails \cup {Erased} /\ o.ext \in Exts \cup {NoExt}
  <2>1. o.snap \in Rec /\ o.kind \in Kinds /\ o.mail \in Mails \cup {Erased} /\ o.ext \in Exts \cup {NoExt}
      BY DEF Op
  <2>2. o.snap.rev < MaxRev
      BY DEF RowFits, Taken
  <2> QED BY <2>1, <2>2, RowType, IdentityAssumption DEF PlaceFits
<1> DEFINE c == Changed(o)
           Base == [mail : Mails \cup {Erased}, ext : Exts \cup {NoExt},
                    status : {"active", "suppressed"}, rev : Nat]
<1>1. o.snap \in [mail : Mails \cup {Erased}, ext : Exts \cup {NoExt},
                  status : {"active", "suppressed", "none"}, rev : Nat]
      /\ (o.snap # NoRec => o.snap.status # "none")
      /\ (o.snap = NoRec => o.snap.mail = Erased /\ o.snap.ext = NoExt)
    BY <1>r, IdentityAssumption DEF Rec, NoRec
<1>2. /\ c \in Base /\ c.rev = o.snap.rev
      /\ c.mail = MailWritten(o) /\ MailWritten(o) \in Mails \cup {Erased}
      /\ c.mail = Erased => Tomb(c)
      /\ c.mail = Erased /\ o.kind # "erase" => Tomb(o.snap) /\ o.kind \in {"edit", "complaint"}
      /\ o.kind = "erase" => c.mail = Erased
  <2> USE DEF MailWritten, Tomb
  <2>m. o.kind \in {"signup", "import", "upsert", "erase", "complaint"} => o.mail \in Mails /\ o.mail # Erased
      BY IdentityAssumption DEF PlaceFits
  <2>t. /\ o.snap # NoRec /\ o.snap.mail = Erased => Tomb(o.snap)
        /\ o.kind \notin {"signup", "import", "upsert"} => o.snap # NoRec
        /\ o.kind = "provision" => o.snap.mail # Erased
        /\ o.kind = "import" /\ o.snap # NoRec => o.snap.mail = o.mail
      BY DEF RowFits, Taken, TombIfErased
  <2>1. CASE o.kind = "erase"
    <3>1. c = [o.snap EXCEPT !.mail = Erased, !.ext = NoExt, !.status = "suppressed"]
        BY <2>1 DEF Changed, Anonymized
    <3> HIDE DEF c
    <3> QED BY <1>1, <2>1, <3>1
  <2>2. CASE o.kind = "signup" \/ (o.kind = "import" /\ o.snap = NoRec)
    <3>1. c = [o.snap EXCEPT !.mail = o.mail, !.status = "active"]
        BY <2>2 DEF Changed, Created
    <3> HIDE DEF c
    <3> QED BY <1>1, <2>2, <2>m, <3>1
  <2>3. CASE o.kind = "import" /\ o.snap # NoRec
    <3>1. c = o.snap
        BY <2>3 DEF Changed
    <3> HIDE DEF c
    <3> QED BY <1>1, <2>3, <2>m, <2>t, <3>1
  <2>4. CASE o.kind = "upsert" /\ o.snap = NoRec
    <3>1. c = [[o.snap EXCEPT !.mail = o.mail, !.status = "active"] EXCEPT !.mail = o.mail, !.ext = o.ext]
        BY <2>4 DEF Changed, Created
    <3> HIDE DEF c
    <3> QED BY <1>1, <1>r, <2>4, <2>m, <3>1
  <2>5. CASE o.kind = "upsert" /\ o.snap # NoRec
    <3>1. c = [o.snap EXCEPT !.mail = o.mail, !.ext = o.ext]
        BY <2>5 DEF Changed
    <3> HIDE DEF c
    <3> QED BY <1>1, <1>r, <2>5, <2>m, <3>1
  <2>6. CASE o.kind = "complaint"
    <3>1. c = [o.snap EXCEPT !.status = "suppressed"]
        BY <2>6 DEF Changed
    <3> HIDE DEF c
    <3> QED BY <1>1, <2>6, <2>t, <3>1
  <2>7. CASE o.kind = "provision"
    <3>1. c = [o.snap EXCEPT !.ext = o.ext]
        BY <2>7 DEF Changed
    <3> HIDE DEF c
    <3> QED BY <1>1, <1>r, <2>7, <2>t, <3>1
  <2>8. CASE o.kind = "edit"
    <3>1. c = o.snap
        BY <2>8 DEF Changed
    <3> HIDE DEF c
    <3> QED BY <1>1, <2>8, <2>t, <3>1
  <2> HIDE DEF c
  <2> QED BY <1>r, <2>1, <2>2, <2>3, <2>4, <2>5, <2>6, <2>7, <2>8 DEF Kinds
<1> HIDE DEF c
<1>3. Written(o) = [c EXCEPT !.rev = @ + 1]
    BY DEF Written, c
<1>4. /\ Written(o) \in Rec /\ Written(o).rev = o.snap.rev + 1 /\ Written(o).mail = c.mail
      /\ Written(o).ext = c.ext /\ Written(o).status = c.status
    BY <1>r, <1>2, <1>3 DEF Rec
<1>5. Written(o) # NoRec
    BY <1>r, <1>4, NoRecType
<1> QED BY <1>2, <1>4, <1>5 DEF TombIfErased, Tomb

-----------------------------------------------------------------------------
(* Type correctness.                                                       *)

TableOK ==
    /\ rec \in [Subs -> Rec] /\ idx \in [Subs -> Rec]
    /\ resv \in [Mails -> Subs \cup {NoSub}]
    /\ ptr \in [Exts -> Subs \cup {NoSub}]
    /\ barred \subseteq Mails
    /\ begun \in 0..Requests
    /\ loose \subseteq Mails
    /\ complained \subseteq Subs /\ erased \subseteq Subs

LEMMA TypeParts == TypeOK <=> TableOK /\ op \in [Handlers -> Op \cup {NoOp}]
BY DEF TypeOK, TableOK

LEMMA InitType == Init => TypeInv
<1> SUFFICES ASSUME Init PROVE TypeInv
    OBVIOUS
<1>1. TypeOK
    BY NoRecType, IdentityAssumption DEF Init, TypeOK
<1>2. \A h \in Handlers : ~InFlight(h)
    BY DEF Init, InFlight
<1>3. RowsKnown
    BY IdentityAssumption DEF Init, RowsKnown, TombIfErased
<1> QED BY <1>1, <1>2, <1>3 DEF TypeInv, Shape, DrawnOnce

LEMMA InTable == ASSUME TypeInv PROVE TableOK
BY TypeParts DEF TypeInv

\* A request is counted, and begins with no record but one that is known.
LEMMA BegunType ==
    ASSUME TypeInv, NEW h \in Handlers, NEW kind \in Kinds, NEW place \in {"find", "pointer", "get"},
           NEW m \in Mails \cup {Erased}, NEW x \in Exts \cup {NoExt}, NEW s \in Subs \cup {NoSub},
           Begin(h, Request(kind, place, m, x, s)), rec' = rec,
           PlaceFits(Request(kind, place, m, x, s)),
           IF place = "get" THEN s \in Subs /\ rec[s] # NoRec ELSE s = NoSub
    PROVE  /\ op' \in [Handlers -> Op \cup {NoOp}] /\ begun' \in 0..Requests
           /\ (\A g \in Handlers : InFlight(g)' => Fits(op[g])') /\ DrawnOnce'
<1> DEFINE o == Request(kind, place, m, x, s)
<1>2. /\ op' = [op EXCEPT ![h] = o] /\ begun' = begun + 1 /\ begun < Requests /\ PlaceFits(o)
      /\ o = Request(kind, place, m, x, s) /\ place \in Places
    BY DEF Begin, Places
<1> HIDE DEF o
<1>1. o \in Op /\ o.at = place /\ o.sub = s /\ o.snap = NoRec
    BY <1>2, RequestType
<1>3. begun' \in 0..Requests
    BY <1>2, InTable, IdentityAssumption DEF TableOK
<1>4. Fits(o) /\ ~Creates(o)
    BY <1>1, <1>2 DEF Fits, RowFits, RecordFits, Taken, Creates
<1>5. \A g \in Handlers : InFlight(g) /\ Creates(op[g]) => op[g].sub # s
  <2> SUFFICES ASSUME NEW g \in Handlers, InFlight(g), Creates(op[g]) PROVE op[g].sub # s
      OBVIOUS
  <2>1. op[g].sub \in Subs /\ rec[op[g].sub] = NoRec
      BY DEF TypeInv, Shape, Fits, RowFits, RecordFits, Creates, Taken
  <2> QED BY <1>1, <2>1, IdentityAssumption
<1> QED BY <1>1, <1>2, <1>3, <1>4, <1>5, OneMoves

HandlersFit ==
    /\ op \in [Handlers -> Op \cup {NoOp}]
    /\ \A g \in Handlers : InFlight(g) => Fits(op[g])
    /\ DrawnOnce

LEMMA BeginType ==
    ASSUME TypeInv, NEW h \in Handlers, BeginStep(h)
    PROVE  TypeInv'
<1> USE DEF PlaceFits, Request, Kinds
<1>t. TableOK
    BY InTable
<1>1. HandlersFit' /\ begun' \in 0..Requests
  <2>1. ASSUME NEW kind \in {"signup", "import", "erase"}, NEW m \in Mails, BeginByMail(h, kind, m)
        PROVE  HandlersFit' /\ begun' \in 0..Requests
      BY <2>1, BegunType DEF BeginByMail, table, HandlersFit
  <2>2. ASSUME NEW m \in Mails, NEW x \in Exts, BeginSync(h, "upsert", m, x)
        PROVE  HandlersFit' /\ begun' \in 0..Requests
      BY <2>2, BegunType DEF BeginSync, table, HandlersFit
  <2>3. ASSUME NEW x \in Exts, BeginSync(h, "delete", Erased, x)
        PROVE  HandlersFit' /\ begun' \in 0..Requests
      BY <2>3, BegunType DEF BeginSync, table, HandlersFit
  <2>4. ASSUME NEW s \in Subs, NEW x \in Exts \cup {NoExt}, NEW kind \in {"provision", "edit"},
               BeginById(h, kind, s, x)
        PROVE  HandlersFit' /\ begun' \in 0..Requests
      BY <2>4, BegunType DEF BeginById, table, HandlersFit
  <2>5. ASSUME NEW s \in Subs, NEW m \in Mails, BeginComplaint(h, s, m)
        PROVE  HandlersFit' /\ begun' \in 0..Requests
      BY <2>5, BegunType DEF BeginComplaint, HandlersFit
  <2> QED BY <2>1, <2>2, <2>3, <2>4, <2>5 DEF BeginStep
<1>2. /\ UNCHANGED <<rec, idx, resv, ptr, loose, erased>>
      /\ UNCHANGED <<barred, complained>> \/ \E s \in Subs, m \in Mails : BeginComplaint(h, s, m)
    BY DEF BeginStep, BeginByMail, BeginSync, BeginById, BeginComplaint, table, historyVars
<1>3. barred' \subseteq Mails /\ complained' \subseteq Subs
    BY <1>t, <1>2 DEF BeginComplaint, TableOK
<1>4. RowsKnown'
    BY <1>2 DEF TypeInv, Shape, RowsKnown, TombIfErased, Tomb
<1>5. TypeOK'
    BY <1>1, <1>2, <1>3, <1>t DEF TypeOK, TableOK, HandlersFit
<1> QED BY <1>1, <1>4, <1>5 DEF TypeInv, Shape, HandlersFit

\* Reads and the steps that leave the records alone: it is enough that the
\* handler fits its new place.
LEMMA StepType ==
    ASSUME TypeInv, NEW h \in Handlers, NEW o \in Op \cup {NoOp}, op' = [op EXCEPT ![h] = o],
           UNCHANGED <<rec, idx>>, begun' \in 0..Requests,
           resv' \in [Mails -> Subs \cup {NoSub}], ptr' \in [Exts -> Subs \cup {NoSub}],
           \A x \in Exts : ptr'[x] \in Subs => rec[ptr'[x]] # NoRec,
           barred' \subseteq Mails, loose' \subseteq Mails,
           complained' \subseteq Subs, erased' \subseteq Subs,
           o # NoOp => Fits(o),
           o # NoOp => \A g \in Handlers : g # h /\ InFlight(g) =>
                /\ Creates(op[g]) => op[g].sub # o.sub
                /\ Creates(o) => op[g].sub # o.sub
    PROVE  TypeInv'
<1>1. HandlersFit'
    BY OneMoves DEF HandlersFit
<1>2. RowsKnown'
    BY DEF TypeInv, Shape, RowsKnown, TombIfErased, Tomb
<1>3. TypeOK'
    BY <1>1 DEF TypeInv, TypeOK, HandlersFit
<1> QED BY <1>1, <1>2, <1>3 DEF TypeInv, Shape, HandlersFit

\* A record that is known is not one that a handler is about to create.
LEMMA KnownNotDrawn ==
    ASSUME TypeInv, NEW s, s \in Subs => rec[s] # NoRec, NEW g \in Handlers, InFlight(g), Creates(op[g])
    PROVE  op[g].sub # s
<1>1. op[g].sub \in Subs /\ rec[op[g].sub] = NoRec
    BY DEF TypeInv, Shape, Fits, RowFits, RecordFits, Creates, Taken
<1> QED BY <1>1

\* Handlers that end.
LEMMA EndType ==
    ASSUME TypeInv, NEW h \in Handlers, End(h), UNCHANGED <<rec, idx, resv, begun, loose, complained>>,
           barred' \subseteq Mails, erased' \subseteq Subs,
           \A x \in Exts : ptr'[x] = ptr[x] \/ (ptr'[x] \in Subs /\ rec[ptr'[x]] # NoRec),
           ptr' \in [Exts -> Subs \cup {NoSub}]
    PROVE  TypeInv'
<1>1. TableOK
    BY InTable
<1>2. op' = [op EXCEPT ![h] = NoOp]
    BY DEF End
<1>3. \A x \in Exts : ptr'[x] \in Subs => rec[ptr'[x]] # NoRec
    BY DEF TypeInv, Shape, RowsKnown
<1> QED BY <1>1, <1>2, <1>3, StepType DEF TableOK

LEMMA PointerType ==
    ASSUME TypeInv, NEW h \in Handlers, ReadPointer(h)
    PROVE  TypeInv'
<1>1. /\ op[h] \in Op /\ op[h].kind \in {"upsert", "delete"} /\ Fits(op[h]) /\ op[h].at = "pointer"
      /\ op[h].ext \in Exts /\ InFlight(h)
    BY OpType DEF ReadPointer, AtPlace, Shape, Fits, PlaceFits, TypeInv
<1>2. UNCHANGED <<rec, idx, resv, ptr, barred, begun, loose, complained, erased>> /\ TableOK
    BY InTable DEF ReadPointer, table, historyVars
<1>p. \A x \in Exts : ptr[x] \in Subs => rec[ptr[x]] # NoRec
    BY DEF TypeInv, Shape, RowsKnown
<1> DEFINE s == ptr[op[h].ext]
<1>3. s \in Subs \cup {NoSub} /\ (s # NoSub => s \in Subs /\ rec[s] # NoRec)
    BY <1>1, <1>2, <1>p DEF TableOK
<1>4. CASE s # NoSub /\ op' = [op EXCEPT ![h].sub = s, ![h].at = "get"]
  <2> DEFINE o == [op[h] EXCEPT !.sub = s, !.at = "get"]
  <2>1. o \in Op /\ o.at = "get" /\ o.sub = s /\ o.kind = op[h].kind /\ o.mail = op[h].mail /\ op' = [op EXCEPT ![h] = o]
    <3>1. op' = [op EXCEPT ![h] = o]
        BY <1>4, <1>1 DEF TypeInv, TypeOK
    <3> HIDE DEF s
    <3> QED BY <1>1, <1>3, <3>1 DEF Op, Places
  <2> HIDE DEF o, s
  <2>2. Fits(o) /\ ~Creates(o)
      BY <1>1, <1>3, <1>4, <2>1 DEF Fits, PlaceFits, RowFits, RecordFits, Taken, Creates
  <2>3. \A g \in Handlers : InFlight(g) /\ Creates(op[g]) => op[g].sub # o.sub
      BY <1>3, <1>4, <2>1, KnownNotDrawn
  <2> QED BY <1>2, <1>p, <2>1, <2>2, <2>3, StepType DEF TableOK
<1>5. CASE op[h].kind = "upsert" /\ Continue(h, "find")
  <2> DEFINE o == [op[h] EXCEPT !.at = "find"]
  <2>1. o \in Op /\ o.at = "find" /\ o.sub = op[h].sub /\ o.kind = op[h].kind /\ o.mail = op[h].mail /\ op' = [op EXCEPT ![h] = o]
      BY <1>1, <1>5, MovedType DEF Continue, Places
  <2> HIDE DEF o
  <2>2. Fits(o) /\ ~Creates(o)
      BY <1>1, <1>5, <2>1 DEF Fits, PlaceFits, RowFits, RecordFits, Taken, Creates
  <2>3. \A g \in Handlers : g # h /\ InFlight(g) /\ Creates(op[g]) => op[g].sub # o.sub
      BY <1>1, <2>1 DEF TypeInv, Shape, DrawnOnce
  <2> QED BY <1>2, <1>p, <2>1, <2>2, <2>3, StepType DEF TableOK
<1>6. CASE End(h)
    BY <1>2, <1>6, EndType DEF TableOK
<1> QED BY <1>1, <1>4, <1>5, <1>6 DEF ReadPointer

\* Going on with a row that was read of a known record.
LEMMA TakesKnown ==
    ASSUME TypeInv, NEW h \in Handlers, InFlight(h), op[h].at \in {"find", "get"},
           NEW s \in Subs, NEW row \in Rec, NEW place \in {"put", "carry"}, Take(h, s, row, place),
           UNCHANGED <<rec, idx, resv, ptr, barred, begun, loose, complained, erased>>,
           rec[s] # NoRec, row # NoRec, TombIfErased(row),
           op[h].kind \notin {"signup", "delete"}, place = "carry" => op[h].kind = "upsert",
           op[h].kind \in {"erase", "import"} => row.mail = op[h].mail,
           op[h].kind = "provision" => row.mail # Erased
    PROVE  TypeInv'
<1> DEFINE o == [op[h] EXCEPT !.sub = s, !.snap = row, !.at = place]
<1>1. /\ o \in Op /\ o.at = place /\ o.kind = op[h].kind /\ o.mail = op[h].mail /\ o.sub = s /\ o.snap = row
      /\ op' = [op EXCEPT ![h] = o] /\ row.rev < MaxRev
  <2>1. op' = [op EXCEPT ![h] = o] /\ row.rev < MaxRev
      BY DEF Take, TypeInv, TypeOK
  <2>4. o = [op[h] EXCEPT !.sub = s, !.snap = row, !.at = place]
      OBVIOUS
  <2> HIDE DEF o
  <2>2. op[h] \in Op
      BY OpType DEF TypeInv
  <2>3. place \in Places
      BY DEF Places
  <2>5. op[h].sub \in Subs \cup {NoSub} /\ s \in Subs \cup {NoSub}
      BY <2>2 DEF Op
  <2>6. /\ o \in Op /\ o.at = place /\ o.kind = op[h].kind /\ o.mail = op[h].mail
        /\ o.sub = s /\ o.snap = row
      BY <2>2, <2>3, <2>4, <2>5 DEF Op
  <2> QED BY <2>1, <2>6
<1> HIDE DEF o
<1>2. PlaceFits(op[h])
    BY DEF TypeInv, Shape, Fits
<1>3. Fits(o) /\ ~Creates(o)
    BY <1>1, <1>2 DEF Fits, PlaceFits, RowFits, RecordFits, Taken, Creates
<1>4. TableOK /\ \A x \in Exts : ptr[x] \in Subs => rec[ptr[x]] # NoRec
    BY InTable DEF TypeInv, Shape, RowsKnown
<1> QED BY <1>1, <1>3, <1>4, StepType, KnownNotDrawn DEF TableOK

LEMMA GetType ==
    ASSUME TypeInv, NEW h \in Handlers, GetRecord(h)
    PROVE  TypeInv'
<1> DEFINE s == op[h].sub
           row == rec[s]
<1>1. /\ InFlight(h) /\ op[h] \in Op /\ op[h].at = "get" /\ PlaceFits(op[h]) /\ s \in Subs /\ row # NoRec
      /\ row \in Rec /\ TombIfErased(row)
      /\ op[h].kind \in {"upsert", "delete", "provision", "complaint", "edit"}
  <2>1. InFlight(h) /\ op[h].at = "get" /\ op[h] \in Op /\ Fits(op[h])
      BY OpType DEF GetRecord, AtPlace, TypeInv, Shape
  <2> QED BY <2>1, InTable DEF Fits, PlaceFits, RecordFits, TypeInv, Shape, RowsKnown, TableOK
<1>2. UNCHANGED <<rec, idx, resv, ptr, barred, begun, loose, complained, erased>> /\ TableOK
    BY InTable DEF GetRecord, table, historyVars
<1>3. CASE End(h)
    BY <1>2, <1>3, EndType DEF TableOK
<1>4. CASE op[h].kind = "upsert"
  <2>1. Take(h, s, row, IF row.mail = op[h].mail THEN "put" ELSE "carry")
      BY <1>1, <1>4 DEF GetRecord
  <2> HIDE DEF s, row
  <2> QED BY <1>1, <1>2, <1>4, <2>1, TakesKnown DEF row
<1>5. CASE op[h].kind = "delete" /\ row.mail # Erased
                /\ op' = [op EXCEPT ![h] = Request("erase", "find", row.mail, NoExt, NoSub)]
  <2> DEFINE o == Request("erase", "find", row.mail, NoExt, NoSub)
  <2>1. /\ o \in Op /\ o.kind = "erase" /\ o.at = "find" /\ o.mail = row.mail /\ o.sub = NoSub
        /\ o.mail \in Mails
    <3>1. row.mail \in Mails
        BY <1>1, <1>5, RowType
    <3>2. o = Request("erase", "find", row.mail, NoExt, NoSub)
        OBVIOUS
    <3>3. "erase" \in Kinds /\ "find" \in Places
        BY DEF Kinds, Places
    <3> HIDE DEF o, row
    <3> QED BY <3>1, <3>2, <3>3, RequestType
  <2>2. op' = [op EXCEPT ![h] = o]
      BY <1>5
  <2> HIDE DEF o
  <2>3. Fits(o) /\ ~Creates(o)
      BY <2>1 DEF Fits, PlaceFits, RowFits, RecordFits, Taken, Creates
  <2>4. \A g \in Handlers : g # h /\ InFlight(g) /\ Creates(op[g]) => op[g].sub # o.sub
      BY <2>1, KnownNotDrawn, IdentityAssumption
  <2>5. \A x \in Exts : ptr[x] \in Subs => rec[ptr[x]] # NoRec
      BY DEF TypeInv, Shape, RowsKnown
  <2> QED BY <1>2, <2>1, <2>2, <2>3, <2>4, <2>5, StepType DEF TableOK
<1>6. CASE op[h].kind \in {"provision", "complaint", "edit"} /\ Take(h, s, row, "put")
           /\ (op[h].kind = "provision" => row.mail # Erased)
  <2> HIDE DEF s, row
  <2> QED BY <1>1, <1>2, <1>6, TakesKnown DEF row
<1>7. \/ End(h)
      \/ op[h].kind = "upsert"
      \/ op[h].kind = "delete" /\ row.mail # Erased
                /\ op' = [op EXCEPT ![h] = Request("erase", "find", row.mail, NoExt, NoSub)]
      \/ op[h].kind \in {"provision", "complaint", "edit"} /\ Take(h, s, row, "put")
           /\ (op[h].kind = "provision" => row.mail # Erased)
  <2>1. CASE op[h].kind = "delete"
      BY <2>1 DEF GetRecord
  <2>2. CASE op[h].kind = "provision"
      BY <2>2 DEF GetRecord
  <2>3. CASE op[h].kind = "complaint"
      BY <2>3 DEF GetRecord
  <2>4. CASE op[h].kind = "edit"
      BY <2>4 DEF GetRecord
  <2> QED BY <1>1, <2>1, <2>2, <2>3, <2>4
<1> QED BY <1>3, <1>4, <1>5, <1>6, <1>7

\* findByEmail: a record that was found, or an id drawn for a new one.
LEMMA FindType ==
    ASSUME TypeInv, NEW h \in Handlers, FindByMail(h)
    PROVE  TypeInv'
<1>1. /\ InFlight(h) /\ op[h] \in Op /\ op[h].at = "find" /\ PlaceFits(op[h]) /\ op[h].mail \in Mails
      /\ op[h].kind \in {"signup", "import", "upsert", "erase"}
    BY OpType DEF FindByMail, AtPlace, TypeInv, Shape, Fits, PlaceFits
<1>2. UNCHANGED <<rec, idx, resv, ptr, barred, begun, loose, complained, erased>> /\ TableOK
    BY InTable DEF FindByMail, table, historyVars
<1>p. \A x \in Exts : ptr[x] \in Subs => rec[ptr[x]] # NoRec
    BY DEF TypeInv, Shape, RowsKnown
<1>3. CASE End(h)
    BY <1>2, <1>3, EndType DEF TableOK
<1>4. ASSUME NEW s \in Found(op[h].mail), Take(h, s, idx[s], "put"), op[h].kind # "signup"
      PROVE  TypeInv'
  <2>1. s \in Subs /\ idx[s] # NoRec /\ idx[s].mail = op[h].mail /\ idx[s] \in Rec
      BY <1>2, <1>4 DEF Found, TableOK
  <2>2. rec[s] # NoRec
      BY <2>1 DEF TypeInv, Shape, RowsKnown
  <2>3. TombIfErased(idx[s]) /\ op[h].kind \notin {"signup", "delete", "provision"}
      BY <1>1, <1>4, <2>1, IdentityAssumption DEF TombIfErased
  <2> QED BY <1>1, <1>2, <1>4, <2>1, <2>2, <2>3, TakesKnown
<1>5. ASSUME NEW s \in Subs, Fresh(s), op[h].kind # "erase",
             Take(h, s, NoRec, IF op[h].kind = "signup" THEN "reserve" ELSE "put")
      PROVE  TypeInv'
  <2> DEFINE place == IF op[h].kind = "signup" THEN "reserve" ELSE "put"
             o == [op[h] EXCEPT !.sub = s, !.snap = NoRec, !.at = place]
  <2>1. op' = [op EXCEPT ![h] = o] /\ NoRec.rev < MaxRev
      BY <1>1, <1>5 DEF Take, TypeInv, TypeOK
  <2>2. /\ o \in Op /\ o.at = place /\ o.kind = op[h].kind /\ o.mail = op[h].mail
        /\ o.sub = s /\ o.snap = NoRec
    <3>1. place \in Places
        BY DEF Places
    <3> HIDE DEF place
    <3> QED BY <1>1, <3>1, NoRecType DEF Op
  <2> HIDE DEF o
  <2>3. /\ rec[s] = NoRec /\ Creates(o)
        /\ \A g \in Handlers : InFlight(g) => op[g].sub # s
      BY <1>5, <2>2 DEF Fresh, Creates
  <2>4. Fits(o)
      BY <1>1, <1>5, <2>1, <2>2, <2>3 DEF Fits, PlaceFits, RowFits, RecordFits, Taken, TombIfErased
  <2> QED BY <1>2, <1>p, <2>1, <2>2, <2>3, <2>4, StepType DEF TableOK
<1> QED BY <1>1, <1>3, <1>4, <1>5 DEF FindByMail

\* A handler with a record in hand that goes on to its next call.
LEMMA ContinueType ==
    ASSUME TypeInv, NEW h \in Handlers, InFlight(h), op[h].at \in Taken,
           NEW place \in Taken, Continue(h, place),
           NEW o, o = [op[h] EXCEPT !.at = place], PlaceFits(o), Creates(o) <=> Creates(op[h]),
           UNCHANGED <<rec, idx, begun, loose, complained, erased>>, barred' \subseteq Mails,
           resv' \in [Mails -> Subs \cup {NoSub}], ptr' \in [Exts -> Subs \cup {NoSub}],
           \A x \in Exts : ptr'[x] \in Subs => rec[ptr'[x]] # NoRec
    PROVE  TypeInv'
<1>1. op[h] \in Op /\ Fits(op[h]) /\ TableOK /\ place \in Places
    BY OpType, InTable DEF TypeInv, Shape, Taken, Places
<1>2. /\ o \in Op /\ o.at = place /\ o.kind = op[h].kind /\ o.mail = op[h].mail /\ o.ext = op[h].ext
      /\ o.sub = op[h].sub /\ o.snap = op[h].snap
    BY <1>1, MovedType
<1>3. op' = [op EXCEPT ![h] = o]
    BY DEF Continue, TypeInv, TypeOK
<1>4. Fits(o)
    BY <1>1, <1>2 DEF Fits, RowFits, RecordFits, Taken
<1>5. \A g \in Handlers : g # h /\ InFlight(g) =>
          /\ Creates(op[g]) => op[g].sub # o.sub
          /\ Creates(o) => op[g].sub # o.sub
    BY <1>2 DEF TypeInv, Shape, DrawnOnce
<1> QED BY <1>1, <1>2, <1>3, <1>4, <1>5, StepType DEF TableOK

\* What a handler at a place after its first read holds.
LEMMA InHand ==
    ASSUME TypeInv, NEW h \in Handlers, NEW place \in Taken, AtPlace(h, place)
    PROVE  /\ InFlight(h) /\ op[h] \in Op /\ op[h].at = place /\ Fits(op[h]) /\ op[h].sub \in Subs
           /\ op[h].snap \in Rec /\ TableOK /\ (\A x \in Exts : ptr[x] \in Subs => rec[ptr[x]] # NoRec)
BY OpType, InTable DEF AtPlace, TypeInv, Shape, Fits, RowFits, RowsKnown

LEMMA CallsType ==
    ASSUME TypeInv, NEW h \in Handlers,
           \/ Reserve(h) \/ Release(h) \/ Carry(h) \/ DropPointer(h)
           \/ Bar(h) \/ PutPointer(h) \/ PutConflict(h) \/ Abandon(h)
    PROVE  TypeInv'
<1>p. \A x \in Exts : ptr[x] \in Subs => rec[ptr[x]] # NoRec
    BY DEF TypeInv, Shape, RowsKnown
<1>t. TableOK
    BY InTable
<1>1. CASE Reserve(h)
  <2>1. CASE End(h) /\ UNCHANGED resv
      BY <1>1, <1>t, <2>1, EndType DEF Reserve, historyVars, TableOK
  <2>2. CASE resv' = [resv EXCEPT ![op[h].mail] = op[h].sub] /\ Continue(h, "put")
    <3> DEFINE o == [op[h] EXCEPT !.at = "put"]
    <3>1. /\ op[h].at = "reserve" /\ op[h].kind = "signup" /\ InFlight(h) /\ op[h] \in Op /\ Fits(op[h])
          /\ op[h].sub \in Subs
        BY <1>1, InHand DEF Reserve, AtPlace, Taken, Fits, PlaceFits
    <3>2. o.at = "put" /\ o.kind = op[h].kind /\ o.mail = op[h].mail /\ o.snap = op[h].snap
        BY <3>1, MovedType DEF Places
    <3>3. o = [op[h] EXCEPT !.at = "put"]
        OBVIOUS
    <3> HIDE DEF o
    <3>4. PlaceFits(o) /\ (Creates(o) <=> Creates(op[h]))
        BY <3>1, <3>2 DEF Fits, PlaceFits, Creates
    <3>5. resv' \in [Mails -> Subs \cup {NoSub}]
        BY <1>t, <2>2, <3>1 DEF TableOK
    <3>6. "put" \in Taken /\ "reserve" \in Taken
        BY DEF Taken
    <3>7. UNCHANGED <<rec, idx, ptr, barred, begun, loose, complained, erased>>
        BY <1>1 DEF Reserve, historyVars
    <3> QED BY <1>t, <1>p, <2>2, <3>1, <3>3, <3>4, <3>5, <3>6, <3>7, ContinueType DEF TableOK
  <2> QED BY <1>1, <2>1, <2>2 DEF Reserve
<1>2. CASE Release(h)
  <2> DEFINE o == [op[h] EXCEPT !.at = "bar"]
  <2>1. /\ op[h].at = "release" /\ op[h].kind = "erase" /\ InFlight(h) /\ op[h] \in Op /\ Fits(op[h])
      BY <1>2, InHand DEF Release, AtPlace, Taken, Fits, PlaceFits
  <2>2. o.at = "bar" /\ o.kind = op[h].kind /\ o.mail = op[h].mail
      BY <2>1, MovedType DEF Places
  <2>3. o = [op[h] EXCEPT !.at = "bar"]
      OBVIOUS
  <2> HIDE DEF o
  <2>4. PlaceFits(o) /\ (Creates(o) <=> Creates(op[h]))
      BY <2>1, <2>2 DEF Fits, PlaceFits, Creates
  <2>5. resv' \in [Mails -> Subs \cup {NoSub}]
      BY <1>t, <1>2 DEF Release, TableOK
  <2>6. "bar" \in Taken /\ "release" \in Taken
      BY DEF Taken
  <2>7. UNCHANGED <<rec, idx, ptr, barred, begun, loose, complained, erased>> /\ Continue(h, "bar")
      BY <1>2 DEF Release, historyVars
  <2> QED BY <1>t, <1>p, <2>1, <2>3, <2>4, <2>5, <2>6, <2>7, ContinueType DEF TableOK
<1>3. CASE Carry(h)
  <2> DEFINE o == [op[h] EXCEPT !.at = "put"]
  <2>1. /\ op[h].at = "carry" /\ op[h].kind = "upsert" /\ op[h].snap # NoRec /\ InFlight(h)
        /\ op[h] \in Op /\ Fits(op[h]) /\ op[h].mail \in Mails
      BY <1>3, InHand DEF Carry, AtPlace, Taken, Fits, PlaceFits
  <2>2. o.at = "put" /\ o.kind = op[h].kind /\ o.mail = op[h].mail /\ o.snap = op[h].snap
      BY <2>1, MovedType DEF Places
  <2>3. o = [op[h] EXCEPT !.at = "put"]
      OBVIOUS
  <2> HIDE DEF o
  <2>4. PlaceFits(o) /\ (Creates(o) <=> Creates(op[h]))
      BY <2>1, <2>2 DEF Fits, PlaceFits, Creates
  <2>5. barred' \subseteq Mails
      BY <1>t, <1>3, <2>1 DEF Carry, TableOK
  <2>6. "put" \in Taken /\ "carry" \in Taken
      BY DEF Taken
  <2>7. UNCHANGED <<rec, idx, ptr, resv, begun, loose, complained, erased>> /\ Continue(h, "put")
      BY <1>3 DEF Carry, historyVars
  <2> QED BY <1>t, <1>p, <2>1, <2>3, <2>4, <2>5, <2>6, <2>7, ContinueType DEF TableOK
<1>4. CASE DropPointer(h)
  <2> DEFINE o == [op[h] EXCEPT !.at = "release"]
  <2>1. /\ op[h].at = "dropPointer" /\ op[h].kind = "erase" /\ InFlight(h) /\ op[h] \in Op /\ Fits(op[h])
      BY <1>4, InHand DEF DropPointer, AtPlace, Taken, Fits, PlaceFits
  <2>2. o.at = "release" /\ o.kind = op[h].kind /\ o.mail = op[h].mail
      BY <2>1, MovedType DEF Places
  <2>3. o = [op[h] EXCEPT !.at = "release"]
      OBVIOUS
  <2> HIDE DEF o
  <2>4. PlaceFits(o) /\ (Creates(o) <=> Creates(op[h]))
      BY <2>1, <2>2 DEF Fits, PlaceFits, Creates
  <2>5. /\ ptr' \in [Exts -> Subs \cup {NoSub}]
        /\ \A x \in Exts : ptr'[x] \in Subs => rec[ptr'[x]] # NoRec
      BY <1>t, <1>p, <1>4, IdentityAssumption DEF DropPointer, TableOK
  <2>6. "dropPointer" \in Taken /\ "release" \in Taken
      BY DEF Taken
  <2>7. UNCHANGED <<rec, idx, barred, resv, begun, loose, complained, erased>> /\ Continue(h, "release")
      BY <1>4 DEF DropPointer, historyVars
  <2> QED BY <1>t, <2>1, <2>3, <2>4, <2>5, <2>6, <2>7, ContinueType DEF TableOK
<1>5. CASE Bar(h)
  <2>1. op[h].mail \in Mails /\ op[h].sub \in Subs
      BY <1>5, InHand DEF Bar, AtPlace, Taken, Fits, PlaceFits
  <2> QED BY <1>t, <1>5, <2>1, EndType DEF Bar, TableOK
<1>6. CASE PutPointer(h)
  <2>1. op[h].sub \in Subs /\ rec[op[h].sub] # NoRec
      BY <1>6, InHand DEF PutPointer, AtPlace, Taken, Fits, RecordFits, Creates
  <2>2. /\ ptr' \in [Exts -> Subs \cup {NoSub}]
        /\ \A x \in Exts : ptr'[x] = ptr[x] \/ (ptr'[x] \in Subs /\ rec[ptr'[x]] # NoRec)
      BY <1>t, <1>6, <2>1 DEF PutPointer, TableOK
  <2> QED BY <1>t, <1>6, <2>2, EndType DEF PutPointer, historyVars, TableOK
<1>7. CASE PutConflict(h) \/ Abandon(h)
    BY <1>t, <1>7, EndType DEF PutConflict, Abandon, table, historyVars, TableOK
<1> QED BY <1>1, <1>2, <1>3, <1>4, <1>5, <1>6, <1>7

LEMMA PropagateType ==
    ASSUME TypeInv, NEW s \in Subs, Propagate(s)
    PROVE  TypeInv'
<1>1. UNCHANGED <<rec, resv, ptr, barred, op, begun, loose, complained, erased>>
    BY DEF Propagate, historyVars
<1>2. idx' \in [Subs -> Rec] /\ \A t \in Subs : idx'[t] \in {idx[t], rec[t]}
    BY DEF Propagate, TypeInv, TypeOK
<1>3. RowsKnown'
    BY <1>1, <1>2 DEF TypeInv, Shape, RowsKnown, TombIfErased, Tomb
<1>4. \A g \in Handlers : InFlight(g)' => Fits(op[g])'
    BY <1>1 DEF TypeInv, Shape, InFlight, Fits, PlaceFits, RowFits, RecordFits, Creates, TombIfErased, Tomb
<1>5. DrawnOnce'
    BY <1>1 DEF TypeInv, Shape, DrawnOnce, InFlight, Creates
<1> QED BY <1>1, <1>2, <1>3, <1>4, <1>5 DEF TypeInv, TypeOK, Shape

\* The put: what was an id that was drawn is a record, the handler goes on or ends.
LEMMA PutEffect ==
    ASSUME TypeInv, NEW h \in Handlers, PutRecord(h)
    PROVE  /\ InFlight(h) /\ op[h] \in Op /\ op[h].at = "put" /\ Fits(op[h]) /\ op[h].sub \in Subs
           /\ op[h].snap \in Rec /\ ~Conflict(h)
           /\ rec' = [rec EXCEPT ![op[h].sub] = Written(op[h])]
           /\ rec' \in [Subs -> Rec] /\ rec'[op[h].sub] = Written(op[h])
           /\ \A s \in Subs : s # op[h].sub => rec'[s] = rec[s]
           /\ Written(op[h]) \in Rec /\ Written(op[h]) # NoRec /\ TombIfErased(Written(op[h]))
           /\ Written(op[h]).rev = op[h].snap.rev + 1
           /\ Written(op[h]).mail = MailWritten(op[h])
           /\ op[h].kind = "erase" => Tomb(Written(op[h]))
           /\ Written(op[h]).mail = Erased /\ op[h].kind # "erase" =>
                 Tomb(op[h].snap) /\ op[h].kind \in {"edit", "complaint"}
<1>1. /\ InFlight(h) /\ op[h] \in Op /\ op[h].at = "put" /\ Fits(op[h]) /\ op[h].sub \in Subs
      /\ op[h].snap \in Rec /\ TableOK
    BY InHand DEF PutRecord, AtPlace, Taken
<1>2. ~Conflict(h) /\ rec' = [rec EXCEPT ![op[h].sub] = Written(op[h])]
    BY DEF PutRecord
<1>3. PlaceFits(op[h]) /\ RowFits(op[h])
    BY <1>1 DEF Fits
<1>4. Written(op[h]) \in Rec
    BY <1>1, <1>3, WrittenType
<1> QED BY <1>1, <1>2, <1>3, <1>4, WrittenType DEF TableOK

\* What the handler is afterwards.
LEMMA PutGoesOn ==
    ASSUME TypeInv, NEW h \in Handlers, PutRecord(h)
    PROVE  \E o \in Op \cup {NoOp} :
              /\ op' = [op EXCEPT ![h] = o]
              /\ o # NoOp => /\ o.kind = op[h].kind /\ o.sub = op[h].sub /\ o.snap = op[h].snap
                             /\ o.mail = op[h].mail /\ o.ext = op[h].ext
                             /\ \/ o.kind = "erase" /\ o.at \in {"dropPointer", "release"}
                                \/ /\ o.kind # "erase" /\ o.at = "putPointer"
                                   /\ Written(op[h]).ext # NoExt
<1>1. InFlight(h) /\ op[h] \in Op
    BY PutEffect
<1>2. CASE End(h)
    BY <1>2 DEF End
<1>3. ASSUME NEW place \in {"dropPointer", "release", "putPointer"}, Continue(h, place),
             op[h].kind = "erase" <=> place # "putPointer",
             place = "putPointer" => Written(op[h]).ext # NoExt
      PROVE  \E o \in Op :
              /\ op' = [op EXCEPT ![h] = o]
              /\ o.kind = op[h].kind /\ o.sub = op[h].sub /\ o.snap = op[h].snap
              /\ o.mail = op[h].mail /\ o.ext = op[h].ext /\ o.at = place
  <2> DEFINE o == [op[h] EXCEPT !.at = place]
  <2>1. op' = [op EXCEPT ![h] = o]
      BY <1>1, <1>3 DEF Continue, TypeInv, TypeOK
  <2>2. /\ o \in Op /\ o.kind = op[h].kind /\ o.sub = op[h].sub /\ o.snap = op[h].snap
        /\ o.mail = op[h].mail /\ o.ext = op[h].ext /\ o.at = place
      BY <1>1, <1>3, MovedType DEF Places
  <2> QED BY <2>1, <2>2
<1>4. CASE op[h].kind = "erase"
  <2>1. Continue(h, "release") \/ Continue(h, "dropPointer")
      BY <1>4 DEF PutRecord
  <2>2. CASE Continue(h, "release")
      BY <1>3, <1>4, <2>2
  <2>3. CASE Continue(h, "dropPointer")
      BY <1>3, <1>4, <2>3
  <2> QED BY <2>1, <2>2, <2>3
<1>5. CASE op[h].kind # "erase" /\ Written(op[h]).ext # NoExt
  <2>1. Continue(h, "putPointer")
      BY <1>5 DEF PutRecord
  <2> QED BY <1>3, <1>5, <2>1
<1> QED BY <1>2, <1>4, <1>5 DEF PutRecord

LEMMA PutType ==
    ASSUME TypeInv, NEW h \in Handlers, PutRecord(h)
    PROVE  TypeInv'
<1> DEFINE s == op[h].sub
<1>1. PICK o \in Op \cup {NoOp} :
          /\ op' = [op EXCEPT ![h] = o]
          /\ o # NoOp => /\ o.kind = op[h].kind /\ o.sub = op[h].sub /\ o.snap = op[h].snap
                         /\ o.mail = op[h].mail /\ o.ext = op[h].ext
                         /\ \/ o.kind = "erase" /\ o.at \in {"dropPointer", "release"}
                            \/ /\ o.kind # "erase" /\ o.at = "putPointer"
                               /\ Written(op[h]).ext # NoExt
    BY PutGoesOn
<1>2. /\ op' \in [Handlers -> Op \cup {NoOp}]
      /\ \A g \in Handlers : op'[g] = IF g = h THEN o ELSE op[g]
    BY <1>1 DEF TypeInv, TypeOK
<1>3. /\ s \in Subs /\ InFlight(h) /\ Fits(op[h]) /\ op[h].at = "put" /\ op[h] \in Op
      /\ rec' \in [Subs -> Rec] /\ rec'[s] # NoRec /\ TombIfErased(rec'[s])
      /\ \A t \in Subs : t # s => rec'[t] = rec[t]
    BY PutEffect
<1>4. TableOK /\ UNCHANGED <<idx, resv, ptr, barred, begun, erased>> /\ complained' \subseteq complained
    BY InTable DEF PutRecord
<1>5. loose' \subseteq Mails
  <2>1. Written(op[h]).mail \in Mails \cup {Erased} /\ op[h].snap.mail \in Mails \cup {Erased}
      BY PutEffect, RowType
  <2> QED BY <1>4, <2>1 DEF PutRecord, Loosened, TableOK
<1>6. TypeOK'
    BY <1>2, <1>3, <1>4, <1>5 DEF TypeOK, TableOK
<1>7. RowsKnown'
    BY <1>3, <1>4 DEF TypeInv, Shape, RowsKnown, TombIfErased, Tomb
<1>8. ASSUME NEW g \in Handlers, InFlight(g)' PROVE Fits(op[g])'
  <2>1. CASE g = h
    <3>1. op'[g] = o /\ o # NoOp
        BY <1>2, <1>8, <2>1 DEF InFlight
    <3>2. /\ PlaceFits(o) /\ RowFits(o) /\ o.at \notin {"get", "reserve", "put"} /\ o.sub = s
        BY <1>1, <1>3, <3>1 DEF Fits, PlaceFits, RowFits, Taken
    <3> QED BY <1>3, <3>1, <3>2
         DEF Fits, PlaceFits, RowFits, RecordFits, Creates, TombIfErased, Tomb
  <2>2. CASE g # h
    <3>1. op'[g] = op[g] /\ InFlight(g) /\ Fits(op[g])
        BY <1>2, <1>8, <2>2 DEF InFlight, TypeInv, Shape
    <3>2. op[g].sub = s => ~Creates(op[g])
        BY <1>3, <2>2, <3>1 DEF TypeInv, Shape, DrawnOnce
    <3>3. op[g].at \in Taken => op[g].sub \in Subs
        BY <3>1 DEF Fits, RowFits
    <3>4. /\ op[g].at = "get" => op[g].sub \in Subs /\ rec'[op[g].sub] # NoRec
          /\ op[g].at \in Taken => (rec'[op[g].sub] = NoRec <=> Creates(op[g]))
        BY <1>3, <3>1, <3>2, <3>3 DEF Fits, RecordFits
    <3> QED BY <3>1, <3>4
         DEF Fits, PlaceFits, RowFits, RecordFits, Creates, TombIfErased, Tomb
  <2> QED BY <2>1, <2>2
<1>9. DrawnOnce'
  <2> SUFFICES ASSUME NEW g \in Handlers, NEW k \in Handlers, g # k, op'[g] # NoOp, op'[k] # NoOp,
                      Creates(op'[g])
               PROVE  op'[k].sub # op'[g].sub
      BY DEF DrawnOnce, InFlight, Creates
  <2>1. g # h
      BY <1>1, <1>2 DEF Creates
  <2>2. op'[g] = op[g] /\ InFlight(g)
      BY <1>2, <2>1 DEF InFlight
  <2>3. CASE k = h
      BY <1>1, <1>2, <1>3, <2>1, <2>2, <2>3 DEF TypeInv, Shape, DrawnOnce
  <2>4. CASE k # h
      BY <1>2, <2>2, <2>4 DEF TypeInv, Shape, DrawnOnce, InFlight
  <2> QED BY <2>3, <2>4
<1> QED BY <1>6, <1>7, <1>8, <1>9 DEF TypeInv, Shape

LEMMA StutterType == ASSUME TypeInv, UNCHANGED vars PROVE TypeInv'
<1>1. UNCHANGED <<rec, idx, resv, ptr, barred, op, begun, loose, complained, erased>>
    BY DEF vars, table, historyVars
<1>2. TypeOK' /\ RowsKnown'
    BY <1>1 DEF TypeInv, TypeOK, Shape, RowsKnown, TombIfErased, Tomb
<1>3. \A g \in Handlers : InFlight(g)' => Fits(op[g])'
    BY <1>1 DEF TypeInv, Shape, InFlight, Fits, PlaceFits, RowFits, RecordFits, Creates, TombIfErased, Tomb
<1>4. DrawnOnce'
    BY <1>1 DEF TypeInv, Shape, DrawnOnce, InFlight, Creates
<1> QED BY <1>2, <1>3, <1>4 DEF TypeInv, Shape

LEMMA NextType == TypeInv /\ [Next]_vars => TypeInv'
<1> SUFFICES ASSUME TypeInv, [Next]_vars PROVE TypeInv'
    OBVIOUS
<1>1. ASSUME NEW h \in Handlers, HandlerStep(h) PROVE TypeInv'
    BY <1>1, BeginType, PointerType, GetType, FindType, CallsType, PutType DEF HandlerStep
<1> QED BY <1>1, PropagateType, StutterType DEF Next

LEMMA TypeHolds == Spec => []TypeInv
<1> QED BY InitType, NextType, PTL DEF Spec

\* Every variable keeps its type: the rows, the pointers and the reservations,
\* and what a handler in flight holds of them.
THEOREM TypeCorrect == Spec => []TypeOK
<1>1. TypeInv => TypeOK
    BY DEF TypeInv
<1> QED BY <1>1, TypeHolds, PTL


-----------------------------------------------------------------------------
(* How a handler comes to hold a row.                                      *)

\* It goes on with the one it has, reads one, or draws an id.
Follows(here, next) ==
    \/ here \in {"reserve", "carry"} /\ next = "put"
    \/ here = "dropPointer" /\ next = "release"
    \/ here = "release" /\ next = "bar"
Keeps(p, o) ==
    /\ p # NoOp /\ o.kind = p.kind /\ o.sub = p.sub /\ o.snap = p.snap /\ o.mail = p.mail
    /\ Follows(p.at, o.at)
Reads(p, o) ==
    /\ p # NoOp /\ p.at \in {"find", "get"} /\ o.at \in {"put", "carry"}
    /\ o.kind = p.kind /\ o.mail = p.mail /\ o.kind # "signup"
    /\ o.sub \in Subs /\ o.snap # NoRec /\ o.snap \in {rec[o.sub], idx[o.sub]}
Draws(p, o) ==
    /\ p # NoOp /\ o.snap = NoRec /\ o.sub \in Subs /\ rec[o.sub] = NoRec
    /\ o.at \in {"reserve", "put"} /\ (o.kind = "signup" => o.at = "reserve")

\* A step of handler h that writes no record.
QuietTo(h, o) ==
    /\ op' = [op EXCEPT ![h] = o] /\ UNCHANGED <<rec, idx, loose>> /\ barred \subseteq barred'
    /\ \A g \in Handlers : op'[g] = IF g = h THEN o ELSE op[g]
    /\ o # NoOp /\ o.at \in Taken => Keeps(op[h], o) \/ Reads(op[h], o) \/ Draws(op[h], o)

LEMMA OpSet ==
    ASSUME TypeInv, NEW h \in Handlers, NEW o, op' = [op EXCEPT ![h] = o]
    PROVE  \A g \in Handlers : op'[g] = IF g = h THEN o ELSE op[g]
BY DEF TypeInv, TypeOK

LEMMA OpUpdate ==
    ASSUME TypeInv, NEW h \in Handlers
    PROVE  /\ \A place : Continue(h, place) => op' = [op EXCEPT ![h] = [op[h] EXCEPT !.at = place]]
           /\ \A s, row, place : Take(h, s, row, place) =>
                 op' = [op EXCEPT ![h] = [op[h] EXCEPT !.sub = s, !.snap = row, !.at = place]]
           /\ End(h) => op' = [op EXCEPT ![h] = NoOp]
BY DEF TypeInv, TypeOK, Continue, Take, End

LEMMA EndsQuietly ==
    ASSUME TypeInv, NEW h \in Handlers, End(h), UNCHANGED <<rec, idx, loose>>, barred \subseteq barred'
    PROVE  QuietTo(h, NoOp)
BY OpSet, OpUpdate DEF QuietTo

LEMMA BeginQuietly ==
    ASSUME TypeInv, NEW h \in Handlers, BeginStep(h)
    PROVE  \E o \in Op : QuietTo(h, o) /\ o.at \notin Taken
<1> DEFINE Result == \E o \in Op : QuietTo(h, o) /\ o.at \notin Taken
<1>1. ASSUME NEW kind \in Kinds, NEW place \in {"find", "pointer", "get"}, NEW m \in Mails \cup {Erased},
             NEW x \in Exts \cup {NoExt}, NEW s \in Subs \cup {NoSub},
             Begin(h, Request(kind, place, m, x, s)), UNCHANGED <<rec, idx, loose>>, barred \subseteq barred'
      PROVE  Result
  <2> DEFINE o == Request(kind, place, m, x, s)
  <2>1. o \in Op /\ o.at = place /\ op' = [op EXCEPT ![h] = o]
      BY <1>1, RequestType DEF Places, Begin
  <2> HIDE DEF o
  <2>2. o.at \notin Taken
      BY <2>1 DEF Taken
  <2>3. \A g \in Handlers : op'[g] = IF g = h THEN o ELSE op[g]
      BY <2>1, OpSet
  <2> QED BY <1>1, <2>1, <2>2, <2>3 DEF QuietTo
<1> HIDE DEF Result
<1> USE DEF Kinds
<1>2. ASSUME NEW kind \in {"signup", "import", "erase"}, NEW m \in Mails, BeginByMail(h, kind, m) PROVE Result
    BY <1>1, <1>2 DEF BeginByMail, table, historyVars
<1>3. ASSUME NEW kind \in {"upsert", "delete"}, NEW m \in Mails \cup {Erased}, NEW x \in Exts, BeginSync(h, kind, m, x)
      PROVE  Result
    BY <1>1, <1>3 DEF BeginSync, table, historyVars
<1>4. ASSUME NEW kind \in {"provision", "edit"}, NEW s \in Subs, NEW x \in Exts \cup {NoExt}, BeginById(h, kind, s, x)
      PROVE  Result
    BY <1>1, <1>4 DEF BeginById, table, historyVars
<1>5. ASSUME NEW s \in Subs, NEW m \in Mails, BeginComplaint(h, s, m) PROVE Result
    BY <1>1, <1>5 DEF BeginComplaint
<1>6. Result
    BY <1>2, <1>3, <1>4, <1>5 DEF BeginStep
<1> QED BY <1>6 DEF Result

\* A handler that goes on to a place, with the row it has.
LEMMA ContinuesQuietly ==
    ASSUME TypeInv, NEW h \in Handlers, InFlight(h), NEW place \in Places, Continue(h, place),
           Follows(op[h].at, place) \/ place \notin Taken,
           UNCHANGED <<rec, idx, loose>>, barred \subseteq barred'
    PROVE  \E o \in Op : QuietTo(h, o)
<1> DEFINE o == [op[h] EXCEPT !.at = place]
<1>1. op[h] \in Op /\ op' = [op EXCEPT ![h] = o]
    BY OpType, OpUpdate DEF TypeInv
<1>2. o \in Op /\ o.at = place /\ o.kind = op[h].kind /\ o.mail = op[h].mail /\ o.sub = op[h].sub
      /\ o.snap = op[h].snap
    BY <1>1, MovedType
<1> HIDE DEF o
<1>3. \A g \in Handlers : op'[g] = IF g = h THEN o ELSE op[g]
    BY <1>1, OpSet
<1>4. o.at \in Taken => Keeps(op[h], o)
    BY <1>2 DEF Keeps, InFlight
<1> QED BY <1>1, <1>2, <1>3, <1>4 DEF QuietTo

\* One that takes a row, or an id.
LEMMA TakesQuietly ==
    ASSUME TypeInv, NEW h \in Handlers, InFlight(h), op[h].at \in {"find", "get"},
           NEW s \in Subs, NEW row \in Rec, NEW place \in {"put", "carry", "reserve"}, Take(h, s, row, place),
           \/ op[h].kind # "signup" /\ row # NoRec /\ row \in {rec[s], idx[s]} /\ place # "reserve"
           \/ row = NoRec /\ rec[s] = NoRec /\ place # "carry" /\ (op[h].kind = "signup" => place = "reserve"),
           UNCHANGED <<rec, idx, loose>>, barred \subseteq barred'
    PROVE  \E o \in Op : QuietTo(h, o) /\ o.sub = s /\ o.snap = row /\ o.at = place
                            /\ o.kind = op[h].kind /\ o.mail = op[h].mail
<1> DEFINE o == [op[h] EXCEPT !.sub = s, !.snap = row, !.at = place]
<1>1. op[h] \in Op /\ op' = [op EXCEPT ![h] = o]
  <2>1. op' = [op EXCEPT ![h] = o]
      BY DEF Take, TypeInv, TypeOK
  <2> QED BY <2>1, OpType DEF TypeInv
<1>2. o \in Op /\ o.at = place /\ o.kind = op[h].kind /\ o.mail = op[h].mail /\ o.sub = s /\ o.snap = row
    BY <1>1 DEF Op, Places
<1> HIDE DEF o
<1>3. \A g \in Handlers : op'[g] = IF g = h THEN o ELSE op[g]
    BY <1>1, OpSet
<1>4. Reads(op[h], o) \/ Draws(op[h], o)
    BY <1>2 DEF Reads, Draws, InFlight
<1> QED BY <1>1, <1>2, <1>3, <1>4 DEF QuietTo

LEMMA QuietStep ==
    ASSUME TypeInv, NEW h \in Handlers, HandlerStep(h), ~PutRecord(h)
    PROVE  \E o \in Op \cup {NoOp} : QuietTo(h, o)
<1> DEFINE Result == \E o \in Op \cup {NoOp} : QuietTo(h, o)
<1>t. TableOK
    BY InTable
<1>1. CASE BeginStep(h)
    BY <1>1, BeginQuietly
<1>2. CASE End(h) /\ UNCHANGED <<rec, idx, loose>> /\ barred \subseteq barred'
    BY <1>2, EndsQuietly
<1>3. CASE ReadPointer(h)
  <2>1. UNCHANGED <<rec, idx, loose, barred>> /\ InFlight(h) /\ op[h] \in Op
      BY <1>3, OpType DEF ReadPointer, AtPlace, table, historyVars, TypeInv
  <2>2. CASE Continue(h, "find")
      BY <2>1, <2>2, ContinuesQuietly DEF Places, Taken
  <2>3. ASSUME NEW s \in Subs, op' = [op EXCEPT ![h].sub = s, ![h].at = "get"]
        PROVE  Result
    <3> DEFINE o == [op[h] EXCEPT !.sub = s, !.at = "get"]
    <3>1. op' = [op EXCEPT ![h] = o]
        BY <2>3 DEF TypeInv, TypeOK
    <3>2. o \in Op /\ o.at = "get"
        BY <2>1 DEF Op, Places
    <3> HIDE DEF o
    <3>3. \A g \in Handlers : op'[g] = IF g = h THEN o ELSE op[g]
        BY <3>1, OpSet
    <3> QED BY <2>1, <3>1, <3>2, <3>3 DEF QuietTo, Taken
  <2>4. ptr[op[h].ext] \in Subs \cup {NoSub}
      BY <1>3, <1>t, InTable DEF ReadPointer, AtPlace, TypeInv, Shape, Fits, PlaceFits, TableOK
  <2> HIDE DEF Result
  <2>5. Result \/ End(h)
      BY <1>3, <2>2, <2>3, <2>4 DEF ReadPointer, Result
  <2> QED BY <1>2, <2>1, <2>5 DEF Result
<1>4. CASE GetRecord(h)
  <2>1. /\ UNCHANGED <<rec, idx, loose, barred>> /\ InFlight(h) /\ op[h] \in Op /\ op[h].at = "get"
        /\ op[h].sub \in Subs /\ rec[op[h].sub] # NoRec /\ rec[op[h].sub] \in Rec
        /\ op[h].kind \in {"upsert", "delete", "provision", "complaint", "edit"}
      BY <1>4, <1>t, OpType
         DEF GetRecord, AtPlace, table, historyVars, TypeInv, Shape, Fits, PlaceFits, RecordFits, TableOK
  <2>2. ASSUME NEW place \in {"put", "carry"}, Take(h, op[h].sub, rec[op[h].sub], place),
               op[h].kind # "delete"
        PROVE  Result
      BY <2>1, <2>2, TakesQuietly
  <2>3. ASSUME op' = [op EXCEPT ![h] = Request("erase", "find", rec[op[h].sub].mail, NoExt, NoSub)],
               rec[op[h].sub].mail # Erased
        PROVE  Result
    <3> DEFINE m == rec[op[h].sub].mail
               o == Request("erase", "find", m, NoExt, NoSub)
    <3>1. m \in Mails
        BY <2>1, <2>3, RowType
    <3> HIDE DEF m
    <3>2. o = Request("erase", "find", m, NoExt, NoSub)
        OBVIOUS
    <3>3. "erase" \in Kinds /\ "find" \in Places /\ op' = [op EXCEPT ![h] = o]
        BY <2>3 DEF Kinds, Places, m
    <3> HIDE DEF o
    <3>4. o \in Op /\ o.at = "find"
        BY <3>1, <3>2, <3>3, RequestType
    <3>5. \A g \in Handlers : op'[g] = IF g = h THEN o ELSE op[g]
        BY <3>3, OpSet
    <3> QED BY <2>1, <3>3, <3>4, <3>5 DEF QuietTo, Taken
  <2>4. CASE op[h].kind = "upsert"
    <3>1. Take(h, op[h].sub, rec[op[h].sub], IF rec[op[h].sub].mail = op[h].mail THEN "put" ELSE "carry")
        BY <1>4, <2>1, <2>4 DEF GetRecord
    <3> QED BY <2>2, <2>4, <3>1
  <2> HIDE DEF Result
  <2>5. CASE op[h].kind = "delete"
      BY <1>2, <1>4, <2>1, <2>3, <2>5 DEF GetRecord, Result
  <2>6. CASE op[h].kind = "provision"
      BY <1>2, <1>4, <2>1, <2>2, <2>6 DEF GetRecord, Result
  <2>7. CASE op[h].kind = "complaint"
      BY <1>2, <1>4, <2>1, <2>2, <2>7 DEF GetRecord, Result
  <2>8. CASE op[h].kind = "edit"
      BY <1>2, <1>4, <2>1, <2>2, <2>8 DEF GetRecord, Result
  <2> QED BY <2>1, <2>4, <2>5, <2>6, <2>7, <2>8 DEF Result
<1>5. CASE FindByMail(h)
  <2>1. UNCHANGED <<rec, idx, loose, barred>> /\ InFlight(h) /\ op[h].at = "find"
      BY <1>5 DEF FindByMail, AtPlace, table, historyVars
  <2>2. ASSUME NEW s \in Found(op[h].mail), op[h].kind # "signup", Take(h, s, idx[s], "put")
        PROVE  Result
    <3>1. s \in Subs /\ idx[s] # NoRec /\ idx[s] \in Rec
        BY <1>t, <2>2 DEF Found, TableOK
    <3> QED BY <2>1, <2>2, <3>1, TakesQuietly
  <2>3. ASSUME NEW s \in Subs, Fresh(s), NEW place \in {"reserve", "put"}, Take(h, s, NoRec, place),
               place = IF op[h].kind = "signup" THEN "reserve" ELSE "put"
        PROVE  Result
      BY <2>1, <2>3, NoRecType, TakesQuietly DEF Fresh
  <2> HIDE DEF Result
  <2>4. Result \/ End(h)
      BY <1>5, <2>2, <2>3 DEF FindByMail
  <2> QED BY <1>2, <2>1, <2>4 DEF Result
<1>6. CASE Reserve(h)
  <2>1. UNCHANGED <<rec, idx, loose, barred>> /\ InFlight(h) /\ op[h].at = "reserve"
      BY <1>6 DEF Reserve, AtPlace, historyVars
  <2>2. CASE Continue(h, "put")
      BY <2>1, <2>2, ContinuesQuietly DEF Places, Follows
  <2> QED BY <1>2, <1>6, <2>1, <2>2 DEF Reserve
<1>7. CASE Release(h) \/ Carry(h) \/ DropPointer(h)
  <2>1. PICK place \in {"put", "bar", "release"} : Continue(h, place) /\ Follows(op[h].at, place)
      BY <1>7 DEF Release, Carry, DropPointer, AtPlace, Follows
  <2>2. InFlight(h) /\ UNCHANGED <<rec, idx, loose>> /\ barred \subseteq barred' /\ place \in Places
      BY <1>7 DEF Release, Carry, DropPointer, AtPlace, historyVars, Places
  <2> QED BY <2>1, <2>2, ContinuesQuietly
<1>8. CASE PutConflict(h) \/ PutPointer(h) \/ Bar(h) \/ Abandon(h)
    BY <1>2, <1>8 DEF PutConflict, PutPointer, Bar, Abandon, table, historyVars
<1> QED BY <1>1, <1>3, <1>4, <1>5, <1>6, <1>7, <1>8 DEF HandlerStep

-----------------------------------------------------------------------------
(* One record for an address.                                              *)

\* The rows of a record that are in sight: stored, indexed, or in a handler's hand.
Holds(g, s) == InFlight(g) /\ op[g].at \in Taken /\ op[g].sub = s
Image(s, row) ==
    row # NoRec /\ (row \in {rec[s], idx[s]} \/ \E g \in Handlers : Holds(g, s) /\ row = op[g].snap)

\* A row without address m is newer than every one with it, and a record that
\* has m is the newest.
Aged(s, m) ==
    /\ \A r, q \in Rec : Image(s, r) /\ Image(s, q) /\ r.mail = m /\ q.mail # m => r.rev < q.rev
    /\ rec[s].mail = m => \A r \in Rec : Image(s, r) => r.mail = m /\ r.rev <= rec[s].rev

\* An erasure that has yet to give address m up.
Frees(g, m) == InFlight(g) /\ op[g].at \in {"dropPointer", "release"} /\ op[g].snap.mail = m

Exclusive(m) ==
    /\ \A s \in Subs : rec[s].mail = m => resv[m] = s
    /\ \A g \in Handlers : Is(g, "signup", "put") /\ op[g].mail = m => resv[m] = op[g].sub
    /\ \A g \in Handlers : Frees(g, m) => resv[m] = op[g].sub /\ rec[op[g].sub].mail # m
    /\ \A g, k \in Handlers : Frees(g, m) /\ Frees(k, m) => g = k
    /\ \A s \in Subs : Aged(s, m)

ExclusiveInv == \A m \in Mails \ loose : Exclusive(m)


\* A step that writes no record brings no row into sight.
LEMMA QuietImages ==
    ASSUME TypeInv, NEW h \in Handlers, NEW o \in Op \cup {NoOp}, QuietTo(h, o),
           NEW s \in Subs, NEW row, Image(s, row)'
    PROVE  Image(s, row)
<1>1. row # NoRec /\ rec' = rec /\ idx' = idx
    BY DEF Image, QuietTo
<1>2. CASE row \in {rec[s], idx[s]}
    BY <1>1, <1>2 DEF Image
<1>3. ASSUME NEW g \in Handlers, Holds(g, s)', row = op'[g].snap PROVE Image(s, row)
  <2>1. CASE g # h
      BY <1>1, <1>3, <2>1 DEF QuietTo, Holds, InFlight, Image
  <2>2. CASE g = h
    <3>1. o # NoOp /\ o.at \in Taken /\ o.sub = s /\ o.snap = row
        BY <1>3, <2>2 DEF QuietTo, Holds, InFlight
    <3>2. CASE Keeps(op[h], o)
        BY <1>1, <3>1, <3>2 DEF Keeps, Follows, Taken, Image, Holds, InFlight
    <3>3. CASE Reads(op[h], o) \/ Draws(op[h], o)
        BY <1>1, <3>1, <3>3 DEF Reads, Draws, Image
    <3> QED BY <3>1, <3>2, <3>3 DEF QuietTo
  <2> QED BY <2>1, <2>2
<1> QED BY <1>1, <1>2, <1>3 DEF Image

LEMMA FewerImages ==
    ASSUME NEW s \in Subs, NEW m \in Mails, Aged(s, m), rec'[s] = rec[s],
           \A row \in Rec : Image(s, row)' => Image(s, row)
    PROVE  Aged(s, m)'
BY DEF Aged

\* What it leaves of the erasures and the sign-ups about to write.
LEMMA QuietActors ==
    ASSUME TypeInv, NEW h \in Handlers, NEW o \in Op \cup {NoOp}, QuietTo(h, o), NEW g \in Handlers
    PROVE  /\ \A m \in Mails : Frees(g, m)' => Frees(g, m) /\ op'[g].sub = op[g].sub
           /\ Is(g, "signup", "put")' =>
                /\ op'[g].sub = op[g].sub /\ op'[g].mail = op[g].mail
                /\ Is(g, "signup", "put") \/ (g = h /\ Is(h, "signup", "reserve"))
<1>1. CASE g # h
    BY <1>1 DEF QuietTo, Frees, Is, InFlight
<1>2. CASE g = h
  <2>1. op'[g] = o
      BY <1>2 DEF QuietTo
  <2>2. CASE o = NoOp
      BY <2>1, <2>2 DEF Frees, Is, InFlight
  <2>3. CASE o # NoOp /\ Keeps(op[h], o)
    <3>1. op[h].at = "carry" => op[h].kind = "upsert"
        BY <2>3 DEF Keeps, TypeInv, Shape, InFlight, Fits, PlaceFits
    <3> QED BY <1>2, <2>1, <2>3, <3>1 DEF Keeps, Follows, Frees, Is, InFlight
  <2>4. CASE o # NoOp /\ (Reads(op[h], o) \/ Draws(op[h], o))
      BY <2>1, <2>4 DEF Reads, Draws, Frees, Is
  <2>5. CASE o # NoOp /\ o.at \notin Taken
      BY <2>1, <2>5 DEF Frees, Is, Taken
  <2> QED BY <2>2, <2>3, <2>4, <2>5 DEF QuietTo
<1> QED BY <1>1, <1>2

\* Who writes the reservations.
LEMMA ReservationsBy ==
    ASSUME TypeInv, NEW h \in Handlers, HandlerStep(h)
    PROVE  \/ resv' = resv /\ ~(Is(h, "signup", "reserve") /\ Is(h, "signup", "put")')
           \/ /\ Is(h, "signup", "reserve") /\ resv[op[h].mail] = NoSub
              /\ op[h].mail \in Mails /\ op[h].sub \in Subs
              /\ resv' = [resv EXCEPT ![op[h].mail] = op[h].sub]
              /\ Continue(h, "put")
           \/ Release(h)
<1>1. CASE Reserve(h)
  <2>1. Is(h, "signup", "reserve") /\ op[h].mail \in Mails /\ op[h].sub \in Subs
      BY <1>1, InHand DEF Reserve, AtPlace, Is, Taken, Fits, PlaceFits
  <2>2. End(h) => ~Is(h, "signup", "put")'
      BY OpUpdate DEF Is, InFlight, TypeInv, TypeOK
  <2> QED BY <1>1, <2>1, <2>2 DEF Reserve
<1>2. CASE Is(h, "signup", "reserve") /\ ~Reserve(h)
  <2>1. Abandon(h)
      BY <1>2 DEF HandlerStep, Is, BeginStep, BeginByMail, BeginSync, BeginById, BeginComplaint, Begin,
         ReadPointer, GetRecord, FindByMail, Release, PutRecord, PutConflict, PutPointer, DropPointer,
         Bar, Carry, AtPlace
  <2>2. End(h) => ~Is(h, "signup", "put")'
      BY OpUpdate DEF Is, InFlight, TypeInv, TypeOK
  <2> QED BY <2>1, <2>2 DEF Abandon, table
<1>3. CASE ~Is(h, "signup", "reserve") /\ ~Reserve(h) /\ ~Release(h)
  <2>1. resv' = resv
      BY <1>3 DEF HandlerStep, BeginStep, BeginByMail, BeginSync, BeginById, BeginComplaint,
         ReadPointer, GetRecord, FindByMail, PutRecord, PutConflict, PutPointer, DropPointer,
         Bar, Carry, Abandon, table
  <2> QED BY <1>3, <2>1
<1> QED BY <1>1, <1>2, <1>3

LEMMA QuietExclusive ==
    ASSUME TypeInv, ExclusiveInv, NEW h \in Handlers, HandlerStep(h), ~PutRecord(h)
    PROVE  ExclusiveInv'
<1>1. PICK o \in Op \cup {NoOp} : QuietTo(h, o)
    BY QuietStep
<1>2. rec' = rec /\ loose' = loose
    BY <1>1 DEF QuietTo
<1> SUFFICES ASSUME NEW m \in Mails \ loose PROVE Exclusive(m)'
    BY <1>2 DEF ExclusiveInv
<1>3. Exclusive(m) /\ m \in Mails
    BY DEF ExclusiveInv
<1>4. \A s \in Subs : Aged(s, m)'
    BY <1>1, <1>2, <1>3, QuietImages, FewerImages DEF Exclusive
<1>5. \A g \in Handlers : Frees(g, m)' => Frees(g, m) /\ op'[g].sub = op[g].sub
    BY <1>1, <1>3, QuietActors
<1>6. \A g, k \in Handlers : Frees(g, m)' /\ Frees(k, m)' => g = k
    BY <1>3, <1>5 DEF Exclusive
<1>7. ASSUME NEW g \in Handlers, Is(g, "signup", "put")', op'[g].mail = m
      PROVE  /\ op'[g].sub = op[g].sub /\ op[g].mail = m
             /\ Is(g, "signup", "put") \/ (g = h /\ Is(h, "signup", "reserve"))
    BY <1>1, <1>7, QuietActors
<1>8. CASE resv'[m] = resv[m] /\ (op[h].mail = m => ~(Is(h, "signup", "reserve") /\ Is(h, "signup", "put")'))
  <2>1. \A s \in Subs : rec'[s].mail = m => resv'[m] = s
      BY <1>2, <1>3, <1>8 DEF Exclusive
  <2>2. ASSUME NEW g \in Handlers, Is(g, "signup", "put")', op'[g].mail = m
        PROVE  resv'[m] = op'[g].sub
      BY <1>3, <1>7, <1>8, <2>2 DEF Exclusive
  <2>3. ASSUME NEW g \in Handlers, Frees(g, m)'
        PROVE  resv'[m] = op'[g].sub /\ rec'[op'[g].sub].mail # m
      BY <1>2, <1>3, <1>5, <1>8, <2>3 DEF Exclusive
  <2> QED BY <1>4, <1>6, <2>1, <2>2, <2>3 DEF Exclusive
<1>9. CASE /\ Is(h, "signup", "reserve") /\ resv[m] = NoSub /\ op[h].mail = m
           /\ op[h].sub \in Subs /\ resv'[m] = op[h].sub
  <2>1. \A s \in Subs : rec'[s].mail # m
      BY <1>2, <1>3, <1>9, IdentityAssumption DEF Exclusive
  <2>2. ASSUME NEW g \in Handlers, Is(g, "signup", "put")', op'[g].mail = m
        PROVE  resv'[m] = op'[g].sub
    <3>1. ~Is(g, "signup", "put")
      <4>1. Is(g, "signup", "put") => op[g].sub \in Subs
          BY InHand DEF Is, AtPlace, Taken
      <4> QED BY <1>3, <1>7, <1>9, <2>2, <4>1, IdentityAssumption DEF Exclusive
    <3> QED BY <1>7, <1>9, <2>2, <3>1
  <2>3. \A g \in Handlers : ~Frees(g, m)'
    <3>1. \A g \in Handlers : Frees(g, m) => op[g].sub \in Subs
        BY DEF Frees, Taken, TypeInv, Shape, Fits, RowFits
    <3> QED BY <1>3, <1>5, <1>9, <3>1, IdentityAssumption DEF Exclusive
  <2> QED BY <1>4, <1>6, <2>1, <2>2, <2>3 DEF Exclusive
<1>10. CASE Release(h) /\ op[h].snap.mail = m
  <2>1. Frees(h, m)
      BY <1>10 DEF Release, AtPlace, Frees
  <2>2. resv[m] = op[h].sub /\ rec[op[h].sub].mail # m
      BY <1>3, <2>1 DEF Exclusive
  <2>3. \A s \in Subs : rec'[s].mail # m
      BY <1>2, <1>3, <2>2 DEF Exclusive
  <2>4. ~Frees(h, m)'
    <3>1. op' = [op EXCEPT ![h] = [op[h] EXCEPT !.at = "bar"]] /\ op[h] \in Op
        BY <1>10, OpUpdate, InHand DEF Release, Taken
    <3>2. op'[h] = [op[h] EXCEPT !.at = "bar"]
        BY <3>1 DEF TypeInv, TypeOK
    <3>3. op'[h].at = "bar"
        BY <3>1, <3>2 DEF Op
    <3> QED BY <3>3 DEF Frees
  <2>5. \A g \in Handlers : ~Frees(g, m)'
      BY <1>3, <1>5, <2>1, <2>4 DEF Exclusive
  <2>6. ASSUME NEW g \in Handlers, Is(g, "signup", "put")', op'[g].mail = m
        PROVE  FALSE
    <3>1. Is(g, "signup", "put") /\ op[g].mail = m
        BY <1>7, <1>10, <2>6 DEF Release, AtPlace, Is
    <3>2. resv[m] = op[g].sub
        BY <1>3, <3>1 DEF Exclusive
    <3>3. op[g].sub \in Subs /\ rec[op[g].sub] = NoRec
        BY <3>1 DEF Is, TypeInv, Shape, Fits, RowFits, RecordFits, Taken, Creates
    <3>4. rec[op[h].sub] # NoRec
        BY <2>1 DEF Frees, TypeInv, Shape, Fits, RecordFits, Taken, Creates
    <3> QED BY <2>2, <3>2, <3>3, <3>4
  <2> QED BY <1>4, <1>6, <2>3, <2>5, <2>6 DEF Exclusive
<1>11. \/ resv'[m] = resv[m] /\ (op[h].mail = m => ~(Is(h, "signup", "reserve") /\ Is(h, "signup", "put")'))
       \/ /\ Is(h, "signup", "reserve") /\ resv[m] = NoSub /\ op[h].mail = m
          /\ op[h].sub \in Subs /\ resv'[m] = op[h].sub
       \/ Release(h) /\ op[h].snap.mail = m
  <2>1. resv \in [Mails -> Subs \cup {NoSub}] /\ m \in Mails
      BY <1>3 DEF TypeInv, TypeOK
  <2>2. Release(h) => ~Is(h, "signup", "reserve")
      BY DEF Release, AtPlace, Is
  <2>3. Release(h) /\ op[h].snap.mail # m => resv'[m] = resv[m]
      BY <2>1 DEF Release
  <2> QED BY <2>1, <2>2, <2>3, ReservationsBy
<1> QED BY <1>8, <1>9, <1>10, <1>11

LEMMA PropagateExclusive ==
    ASSUME TypeInv, ExclusiveInv, NEW t \in Subs, Propagate(t)
    PROVE  ExclusiveInv'
<1>1. UNCHANGED <<rec, resv, op, loose>> /\ idx' = [idx EXCEPT ![t] = rec[t]] /\ idx \in [Subs -> Rec]
    BY DEF Propagate, historyVars, TypeInv, TypeOK
<1> SUFFICES ASSUME NEW m \in Mails \ loose PROVE Exclusive(m)'
    BY <1>1 DEF ExclusiveInv
<1>2. Exclusive(m) /\ m \in Mails
    BY DEF ExclusiveInv
<1>3. \A s \in Subs, row \in Rec : Image(s, row)' => Image(s, row)
    BY <1>1 DEF Image, Holds, InFlight
<1>4. \A s \in Subs : Aged(s, m)'
    BY <1>1, <1>2, <1>3, FewerImages DEF Exclusive
<1> QED BY <1>1, <1>2, <1>4 DEF Exclusive, Is, Frees, InFlight

\* A put brings only what it writes into sight.
LEMMA PutImages ==
    ASSUME TypeInv, NEW h \in Handlers, PutRecord(h), NEW s \in Subs, NEW row, Image(s, row)'
    PROVE  \/ s # op[h].sub /\ Image(s, row)
           \/ s = op[h].sub /\ row = Written(op[h])
           \/ s = op[h].sub /\ Image(s, row)
<1>1. PICK o \in Op \cup {NoOp} :
          /\ op' = [op EXCEPT ![h] = o]
          /\ o # NoOp => o.sub = op[h].sub /\ o.snap = op[h].snap
    BY PutGoesOn
<1>2. /\ InFlight(h) /\ op[h].at = "put" /\ rec'[op[h].sub] = Written(op[h]) /\ op[h].sub \in Subs
      /\ \A t \in Subs : t # op[h].sub => rec'[t] = rec[t]
      /\ idx' = idx
    BY PutEffect DEF PutRecord
<1>3. row # NoRec
    BY DEF Image
<1>4. ASSUME NEW g \in Handlers, Holds(g, s)', row = op'[g].snap PROVE Image(s, row)
  <2>1. op'[g] = IF g = h THEN o ELSE op[g]
      BY <1>1, OpSet
  <2>2. Holds(g, s) /\ op[g].snap = row
    <3>1. CASE g = h
        BY <1>1, <1>2, <1>4, <2>1, <3>1 DEF Holds, InFlight, Taken
    <3>2. CASE g # h
        BY <1>4, <2>1, <3>2 DEF Holds, InFlight
    <3> QED BY <3>1, <3>2
  <2> QED BY <1>3, <2>2 DEF Image
<1> QED BY <1>2, <1>3, <1>4 DEF Image

\* Ages survive a put, but for the addresses it leaves behind.
LEMMA PutAged ==
    ASSUME TypeInv, NEW h \in Handlers, PutRecord(h), NEW m \in Mails, m \notin loose',
           NEW s \in Subs, Aged(s, m)
    PROVE  Aged(s, m)'
<1> DEFINE u == op[h].sub
           row == op[h].snap
           next == Written(op[h])
<1>1. /\ op[h].at = "put" /\ u \in Subs /\ row \in Rec /\ next \in Rec /\ next # NoRec
      /\ next.rev = row.rev + 1 /\ rec'[u] = next /\ InFlight(h) /\ Fits(op[h])
      /\ \A t \in Subs : t # u => rec'[t] = rec[t]
    BY PutEffect
<1>2. \A q \in Rec : q.rev \in Nat
    BY RowType
<1>3. rec[u] \in Rec /\ rec[s] \in Rec
    BY <1>1 DEF TypeInv, TypeOK
<1>4. CASE s # u
  <2>1. \A q \in Rec : Image(s, q)' => Image(s, q)
      BY <1>4, PutImages
  <2> QED BY <1>1, <1>4, <2>1, FewerImages
<1>5. CASE s = u /\ row = NoRec
  <2>1. Creates(op[h]) /\ rec[u] = NoRec /\ idx[u] = NoRec
      BY <1>1, <1>5 DEF Creates, Fits, RecordFits, Taken, TypeInv, Shape, RowsKnown
  <2>2. \A g \in Handlers : Holds(g, u) => g = h
      BY <1>1, <2>1 DEF TypeInv, Shape, DrawnOnce, Holds
  <2>3. \A q \in Rec : ~Image(u, q)
      BY <1>5, <2>1, <2>2 DEF Image
  <2>4. \A q \in Rec : Image(s, q)' => q = next
      BY <1>5, <2>3, PutImages
  <2> HIDE DEF next
  <2> QED BY <1>1, <1>2, <1>5, <2>4 DEF Aged
<1>6. CASE s = u /\ row # NoRec
  <2>1. Image(u, row) /\ op[h].kind # "signup"
      BY <1>1, <1>6 DEF Image, Holds, Taken, Fits, RowFits
  <2>2. rec[u] # NoRec /\ Image(u, rec[u])
      BY <1>1, <1>6 DEF Image, Fits, RecordFits, Creates, Taken
  <2>3. \A q \in Rec : Image(s, q)' => q = next \/ Image(u, q)
      BY <1>6, PutImages
  <2>4. next.mail = m => rec[u].mail = m
      BY <2>1, IdentityAssumption DEF PutRecord, Loosened
  <2>5. next.rev <= rec[u].rev => row.mail # m
      BY IdentityAssumption DEF PutRecord, Loosened
  <2> HIDE DEF next, row, u
  <2>6. CASE rec[u].mail = m
    <3>1. \A q \in Rec : Image(u, q) => q.mail = m /\ q.rev <= rec[u].rev
        BY <1>6, <2>6 DEF Aged
    <3>2. row.mail = m /\ row.rev <= rec[u].rev
        BY <1>1, <2>1, <3>1
    <3>3. next.rev > rec[u].rev
        BY <1>1, <1>2, <1>3, <2>5, <3>2
    <3>4. \A q \in Rec : Image(s, q)' => q = next \/ (q.mail = m /\ q.rev < next.rev)
        BY <1>1, <1>2, <1>3, <2>3, <3>1, <3>3
    <3> QED BY <1>1, <1>2, <1>6, <3>4 DEF Aged
  <2>7. CASE rec[u].mail # m
    <3>1. next.mail # m
        BY <2>4, <2>7
    <3>2. ASSUME NEW r \in Rec, Image(u, r), r.mail = m PROVE r.rev < next.rev
      <4>1. r.rev < rec[u].rev
          BY <1>3, <1>6, <2>2, <2>7, <3>2 DEF Aged
      <4>2. row.mail # m => r.rev < row.rev
          BY <1>1, <1>6, <2>1, <3>2 DEF Aged
      <4> QED BY <1>1, <1>2, <1>3, <2>5, <4>1, <4>2
    <3>3. \A r, q \in Rec : Image(s, r)' /\ Image(s, q)' /\ r.mail = m /\ q.mail # m => r.rev < q.rev
        BY <1>6, <2>3, <3>1, <3>2 DEF Aged
    <3> QED BY <1>1, <1>6, <3>1, <3>3 DEF Aged
  <2> QED BY <2>6, <2>7
<1> QED BY <1>4, <1>5, <1>6

LEMMA PutExclusive ==
    ASSUME TypeInv, ExclusiveInv, NEW h \in Handlers, PutRecord(h)
    PROVE  ExclusiveInv'
<1> DEFINE u == op[h].sub
           next == Written(op[h])
<1>1. /\ op[h].at = "put" /\ u \in Subs /\ InFlight(h) /\ Fits(op[h]) /\ rec'[u] = next
      /\ next.mail = MailWritten(op[h]) /\ ~Conflict(h) /\ op[h].snap \in Rec
      /\ \A t \in Subs : t # u => rec'[t] = rec[t]
    BY PutEffect
<1>2. resv' = resv /\ loose' = loose \cup Loosened(op[h])
    BY DEF PutRecord
<1>3. PICK o \in Op \cup {NoOp} :
          /\ op' = [op EXCEPT ![h] = o]
          /\ o # NoOp => /\ o.kind = op[h].kind /\ o.sub = op[h].sub /\ o.snap = op[h].snap
                         /\ o.at # "put"
                         /\ o.at \in {"dropPointer", "release"} => o.kind = "erase"
    BY PutGoesOn
<1>4. \A g \in Handlers : op'[g] = IF g = h THEN o ELSE op[g]
    BY <1>3, OpSet
<1> SUFFICES ASSUME NEW m \in Mails \ loose' PROVE Exclusive(m)'
    BY DEF ExclusiveInv
<1>5. Exclusive(m) /\ m \in Mails /\ m \notin loose' /\ m # Erased
    BY <1>2, IdentityAssumption DEF ExclusiveInv
<1>6. \A s \in Subs : Aged(s, m)'
    BY <1>5, PutAged DEF Exclusive
<1>7. next.mail = m => rec[u].mail = m \/ (op[h].kind = "signup" /\ op[h].mail = m)
    BY <1>1, <1>2, <1>5 DEF Loosened, MailWritten
<1>8. ASSUME NEW s \in Subs, rec'[s].mail = m PROVE resv'[m] = s
  <2>1. CASE rec[s].mail = m
      BY <1>2, <1>5, <2>1 DEF Exclusive
  <2>2. CASE rec[s].mail # m
    <3>1. s = u /\ Is(h, "signup", "put") /\ op[h].mail = m
        BY <1>1, <1>7, <1>8, <2>2 DEF Is
    <3> QED BY <1>2, <1>5, <3>1 DEF Exclusive
  <2> QED BY <2>1, <2>2
<1>9. ASSUME NEW g \in Handlers, Is(g, "signup", "put")', op'[g].mail = m PROVE resv'[m] = op'[g].sub
  <2>1. g # h
      BY <1>3, <1>4, <1>9 DEF Is, InFlight
  <2> QED BY <1>2, <1>4, <1>5, <1>9, <2>1 DEF Exclusive, Is, InFlight
<1>10. ASSUME NEW g \in Handlers, g # h, Frees(g, m)'
       PROVE  /\ op'[g].sub = op[g].sub /\ resv[m] = op[g].sub /\ rec[op[g].sub].mail # m
              /\ rec'[op[g].sub].mail # m /\ op[g].sub \in Subs
  <2>1. Frees(g, m) /\ op'[g].sub = op[g].sub
      BY <1>4, <1>10 DEF Frees, InFlight
  <2>2. resv[m] = op[g].sub /\ rec[op[g].sub].mail # m
      BY <1>5, <2>1 DEF Exclusive
  <2>3. op[g].sub \in Subs /\ rec[op[g].sub] # NoRec
      BY <2>1 DEF Frees, TypeInv, Shape, Fits, RowFits, RecordFits, Taken, Creates
  <2>4. op[h].kind = "signup" => rec[u] = NoRec
      BY <1>1 DEF Fits, RowFits, RecordFits, Taken, Creates
  <2>5. rec'[op[g].sub].mail # m
      BY <1>1, <1>7, <2>2, <2>3, <2>4
  <2> QED BY <2>1, <2>2, <2>3, <2>5
<1>11. ASSUME Frees(h, m)'
       PROVE  /\ op'[h].sub = u /\ rec[u].mail = m /\ resv[m] = u /\ rec'[u].mail # m
  <2>1. op'[h].sub = u /\ op[h].kind = "erase" /\ op[h].snap.mail = m
      BY <1>3, <1>4, <1>11 DEF Frees, InFlight
  <2>2. rec'[u].mail # m
      BY <1>1, <1>5, <2>1 DEF MailWritten
  <2>3. rec[u].rev = op[h].snap.rev
      BY <1>1, <2>1 DEF Conflict
  <2>4. op[h].snap # NoRec /\ Image(u, op[h].snap)
      BY <1>1, <2>1 DEF Image, Holds, Taken, Fits, RowFits
  <2>5. rec[u] # NoRec /\ Image(u, rec[u]) /\ rec[u] \in Rec
      BY <1>1, <2>4 DEF Image, Fits, RecordFits, Creates, Taken, TypeInv, TypeOK
  <2>6. op[h].snap.rev \in Nat
      BY <1>1, RowType
  <2>7. rec[u].mail = m
      BY <1>1, <1>5, <2>1, <2>3, <2>4, <2>5, <2>6 DEF Exclusive, Aged
  <2> QED BY <1>1, <1>5, <2>1, <2>2, <2>7 DEF Exclusive
<1>12. \A g, k \in Handlers : Frees(g, m)' /\ Frees(k, m)' => g = k
  <2>1. ASSUME NEW g \in Handlers, g # h, Frees(g, m)', Frees(h, m)' PROVE FALSE
      BY <1>10, <1>11, <2>1
  <2>2. \A g, k \in Handlers : g # h /\ k # h /\ Frees(g, m)' /\ Frees(k, m)' => g = k
      BY <1>4, <1>5 DEF Frees, InFlight, Exclusive
  <2> QED BY <2>1, <2>2
<1>13. ASSUME NEW g \in Handlers, Frees(g, m)'
       PROVE  resv'[m] = op'[g].sub /\ rec'[op'[g].sub].mail # m
    BY <1>2, <1>10, <1>11, <1>13
<1> QED BY <1>6, <1>8, <1>9, <1>12, <1>13 DEF Exclusive

LEMMA ExclusiveHolds == Spec => [](TypeInv /\ ExclusiveInv)
<1>1. Init => ExclusiveInv
  <2> SUFFICES ASSUME Init, NEW m \in Mails PROVE Exclusive(m)
      BY DEF ExclusiveInv
  <2>1. /\ \A s \in Subs : rec[s] = NoRec /\ idx[s] = NoRec /\ rec[s].mail # m
        /\ \A g \in Handlers : ~InFlight(g)
      BY IdentityAssumption DEF Init, NoRec, InFlight
  <2>2. \A s \in Subs, row \in Rec : ~Image(s, row)
      BY <2>1 DEF Image, Holds
  <2> QED BY <2>1, <2>2 DEF Exclusive, Aged, Is, Frees
<1>2. TypeInv /\ ExclusiveInv /\ [Next]_vars => ExclusiveInv'
  <2> SUFFICES ASSUME TypeInv, ExclusiveInv, [Next]_vars PROVE ExclusiveInv'
      OBVIOUS
  <2>1. CASE UNCHANGED vars
    <3>1. UNCHANGED <<rec, idx, resv, op, loose>>
        BY <2>1 DEF vars, table, historyVars
    <3> QED BY <3>1 DEF ExclusiveInv, Exclusive, Aged, Image, Holds, InFlight, Is, Frees
  <2>2. ASSUME NEW h \in Handlers, HandlerStep(h) PROVE ExclusiveInv'
      BY <2>2, QuietExclusive, PutExclusive
  <2> QED BY <2>1, <2>2, PropagateExclusive DEF Next
<1> QED BY <1>1, <1>2, InitType, NextType, PTL DEF Spec

\* Two live records share an address only after the webhook, an import or a
\* stale write put it there (OneRecordPerAddress).
THEOREM AddressesAreExclusive == Spec => []OneRecordPerAddress
<1>1. TypeInv /\ ExclusiveInv => OneRecordPerAddress
    BY DEF ExclusiveInv, Exclusive, OneRecordPerAddress, Live
<1> QED BY <1>1, ExclusiveHolds, PTL

-----------------------------------------------------------------------------
(* An erasure stays done.                                                  *)

Gone(s) ==
    /\ rec[s] # NoRec /\ rec[s].mail = Erased /\ idx[s].mail = Erased
    /\ \A x \in Exts : ptr[x] # s
    /\ \A g \in Handlers : Writer(g, s) =>
          \/ op[g].kind \in {"provision", "complaint", "edit"} /\ op[g].at = "get"
          \/ op[g].kind = "edit" /\ op[g].at = "put" /\ op[g].snap.mail = Erased

GoneInv == \A s \in erased : Gone(s)

\* What may still write an erased record is called by its id.
LEMMA GoneWriters ==
    ASSUME TypeInv, NEW h \in Handlers, HandlerStep(h), NEW s \in Subs, Gone(s), NEW g \in Handlers, Writer(g, s)'
    PROVE  \/ op'[g].kind \in {"provision", "complaint", "edit"} /\ op'[g].at = "get"
           \/ op'[g].kind = "edit" /\ op'[g].at = "put" /\ op'[g].snap.mail = Erased
<1> DEFINE Goal == \/ op'[g].kind \in {"provision", "complaint", "edit"} /\ op'[g].at = "get"
                   \/ op'[g].kind = "edit" /\ op'[g].at = "put" /\ op'[g].snap.mail = Erased
<1> SUFFICES Goal
    OBVIOUS
<1>w. op'[g] # NoOp /\ op'[g].sub = s /\ op'[g].kind # "erase"
    BY DEF Writer, InFlight
<1>s. s # NoSub /\ s \in Subs /\ Tomb(rec[s]) /\ rec[s] # NoRec /\ rec[s] \in Rec
    BY IdentityAssumption DEF Gone, TypeInv, Shape, RowsKnown, TombIfErased, TypeOK
<1>1. CASE op'[g] = op[g]
    BY <1>1 DEF Gone, Writer, InFlight
<1>2. ASSUME NEW o, op' = [op EXCEPT ![h] = o], o = NoOp \/ o.sub # s \/ o.kind = "erase" \/ Goal
      PROVE  Goal
  <2>1. op'[g] = IF g = h THEN o ELSE op[g]
      BY <1>2, OpSet
  <2> HIDE DEF Goal
  <2>2. op'[g] = op[g] => Goal
      BY <1>1 DEF Goal
  <2> QED BY <1>2, <1>w, <2>1, <2>2
<1>3. End(h) => Goal
    BY <1>2, OpUpdate
<1>4. ASSUME NEW place \in Places, Continue(h, place), InFlight(h),
             op[h].at \notin {"get", "put"} \/ (op[h].at = "put" /\ ~(op[h].kind = "edit" /\ op[h].snap.mail = Erased))
      PROVE  Goal
  <2> DEFINE o == [op[h] EXCEPT !.at = place]
  <2>1. op' = [op EXCEPT ![h] = o] /\ op[h] \in Op
      BY <1>4, OpUpdate, OpType DEF TypeInv
  <2>2. o.sub = op[h].sub /\ o.kind = op[h].kind
      BY <2>1, MovedType
  <2>3. ~Writer(h, s)
      BY <1>4 DEF Gone
  <2> HIDE DEF o, Goal
  <2> QED BY <1>2, <1>4, <2>1, <2>2, <2>3 DEF Writer
<1> HIDE DEF Goal
<1>5. CASE BeginStep(h)
  <2>1. ASSUME NEW kind \in Kinds, NEW place \in {"find", "pointer", "get"}, NEW m \in Mails \cup {Erased},
               NEW x \in Exts \cup {NoExt}, NEW t \in Subs \cup {NoSub}, Begin(h, Request(kind, place, m, x, t)),
               t = NoSub \/ (place = "get" /\ kind \in {"provision", "complaint", "edit"})
        PROVE  Goal
    <3> DEFINE o == Request(kind, place, m, x, t)
    <3>1. op' = [op EXCEPT ![h] = o] /\ o.kind = kind /\ o.at = place /\ o.sub = t
        BY <2>1 DEF Begin, Request
    <3> HIDE DEF o
    <3>2. op'[g] = IF g = h THEN o ELSE op[g]
        BY <3>1, OpSet
    <3> QED BY <1>1, <1>s, <1>w, <2>1, <3>1, <3>2 DEF Goal
  <2> USE DEF Kinds
  <2>2. ASSUME NEW kind \in {"signup", "import", "erase"}, NEW m \in Mails, BeginByMail(h, kind, m) PROVE Goal
      BY <2>1, <2>2 DEF BeginByMail
  <2>3. ASSUME NEW kind \in {"upsert", "delete"}, NEW m \in Mails \cup {Erased}, NEW x \in Exts, BeginSync(h, kind, m, x)
        PROVE  Goal
      BY <2>1, <2>3 DEF BeginSync
  <2>4. ASSUME NEW kind \in {"provision", "edit"}, NEW t \in Subs, NEW x \in Exts \cup {NoExt}, BeginById(h, kind, t, x)
        PROVE  Goal
      BY <2>1, <2>4 DEF BeginById
  <2>5. ASSUME NEW t \in Subs, NEW m \in Mails, BeginComplaint(h, t, m) PROVE Goal
      BY <2>1, <2>5 DEF BeginComplaint
  <2> QED BY <1>5, <2>2, <2>3, <2>4, <2>5 DEF BeginStep
<1>6. CASE ReadPointer(h)
  <2>1. InFlight(h) /\ op[h].at = "pointer" /\ op[h] \in Op /\ op[h].ext \in Exts
      BY <1>6, OpType DEF ReadPointer, AtPlace, TypeInv, Shape, Fits, PlaceFits
  <2>2. CASE Continue(h, "find")
      BY <1>4, <2>1, <2>2 DEF Places
  <2>3. CASE op' = [op EXCEPT ![h].sub = ptr[op[h].ext], ![h].at = "get"]
    <3> DEFINE o == [op[h] EXCEPT !.sub = ptr[op[h].ext], !.at = "get"]
    <3>1. op' = [op EXCEPT ![h] = o]
        BY <2>3 DEF TypeInv, TypeOK
    <3>2. o.sub = ptr[op[h].ext]
        BY <2>1 DEF Op
    <3>3. o.sub # s
        BY <2>1, <3>2 DEF Gone
    <3> HIDE DEF o
    <3> QED BY <1>2, <3>1, <3>3
  <2> QED BY <1>3, <1>6, <2>2, <2>3 DEF ReadPointer
<1>7. CASE GetRecord(h)
  <2>1. /\ InFlight(h) /\ op[h].at = "get" /\ op[h] \in Op
        /\ op[h].kind \in {"upsert", "delete", "provision", "complaint", "edit"}
        /\ op[h].sub \in Subs /\ rec[op[h].sub] # NoRec
      BY <1>7, OpType DEF GetRecord, AtPlace, TypeInv, Shape, Fits, PlaceFits, RecordFits
  <2>2. op[h].sub = s => op[h].kind \in {"provision", "complaint", "edit"}
      BY <2>1 DEF Gone, Writer
  <2>3. ASSUME NEW place, Take(h, op[h].sub, rec[op[h].sub], place), op[h].kind = "edit" => place = "put",
               op[h].sub = s => op[h].kind = "edit"
        PROVE  Goal
    <3> DEFINE o == [op[h] EXCEPT !.sub = op[h].sub, !.snap = rec[op[h].sub], !.at = place]
    <3>1. op' = [op EXCEPT ![h] = o]
        BY <2>3 DEF Take, TypeInv, TypeOK
    <3>2. o.kind = op[h].kind /\ o.sub = op[h].sub /\ o.snap = rec[op[h].sub] /\ o.at = place
        BY <2>1 DEF Op
    <3>3. op'[g] = IF g = h THEN o ELSE op[g]
        BY <3>1, OpSet
    <3> HIDE DEF o
    <3> QED BY <1>1, <1>s, <1>w, <2>3, <3>2, <3>3 DEF Goal, Tomb
  <2>4. CASE op[h].kind = "upsert"
    <3>1. Take(h, op[h].sub, rec[op[h].sub], IF rec[op[h].sub].mail = op[h].mail THEN "put" ELSE "carry")
        BY <1>7, <2>1, <2>4 DEF GetRecord
    <3> QED BY <2>2, <2>3, <2>4, <3>1
  <2>5. CASE op[h].kind = "delete"
    <3>1. End(h) \/ op' = [op EXCEPT ![h] = Request("erase", "find", rec[op[h].sub].mail, NoExt, NoSub)]
        BY <1>7, <2>5 DEF GetRecord
    <3>2. Request("erase", "find", rec[op[h].sub].mail, NoExt, NoSub).kind = "erase"
        BY DEF Request
    <3> QED BY <1>2, <1>3, <3>1, <3>2
  <2>6. CASE op[h].kind = "provision"
    <3>1. End(h) \/ (op[h].sub # s /\ Take(h, op[h].sub, rec[op[h].sub], "put"))
        BY <1>7, <1>s, <2>6 DEF GetRecord, Tomb
    <3> QED BY <1>3, <2>3, <2>6, <3>1
  <2>7. CASE op[h].kind = "complaint"
    <3>1. End(h) \/ (op[h].sub # s /\ Take(h, op[h].sub, rec[op[h].sub], "put"))
        BY <1>7, <1>s, <2>7 DEF GetRecord, Tomb
    <3> QED BY <1>3, <2>3, <2>7, <3>1
  <2>8. CASE op[h].kind = "edit"
      BY <1>7, <2>3, <2>8 DEF GetRecord
  <2> QED BY <2>1, <2>4, <2>5, <2>6, <2>7, <2>8
<1>8. CASE FindByMail(h)
  <2>1. InFlight(h) /\ op[h].at = "find" /\ op[h] \in Op /\ op[h].mail \in Mails
      BY <1>8, OpType DEF FindByMail, AtPlace, TypeInv, Shape, Fits, PlaceFits
  <2>2. ASSUME NEW t, NEW row, NEW place, t # s, Take(h, t, row, place)
        PROVE  Goal
    <3> DEFINE o == [op[h] EXCEPT !.sub = t, !.snap = row, !.at = place]
    <3>1. op' = [op EXCEPT ![h] = o]
        BY <2>2 DEF Take, TypeInv, TypeOK
    <3>2. o.sub = t
        BY <2>1 DEF Op
    <3> HIDE DEF o
    <3> QED BY <1>2, <2>2, <3>1, <3>2
  <2>3. s \notin Found(op[h].mail) /\ ~Fresh(s)
      BY <1>s, <2>1, IdentityAssumption DEF Gone, Found, Fresh
  <2> QED BY <1>3, <1>8, <2>2, <2>3 DEF FindByMail
<1>9. CASE Reserve(h) \/ Release(h) \/ Carry(h) \/ DropPointer(h)
  <2>1. /\ InFlight(h) /\ op[h].at \notin {"get", "put"}
        /\ End(h) \/ \E place \in {"put", "bar", "release"} : Continue(h, place)
      BY <1>9 DEF Reserve, Release, Carry, DropPointer, AtPlace
  <2> QED BY <1>3, <1>4, <2>1 DEF Places
<1>10. CASE PutConflict(h) \/ PutPointer(h) \/ Bar(h) \/ Abandon(h)
    BY <1>3, <1>10 DEF PutConflict, PutPointer, Bar, Abandon
<1>11. CASE PutRecord(h)
  <2>1. PICK o \in Op \cup {NoOp} :
          /\ op' = [op EXCEPT ![h] = o]
          /\ o # NoOp => /\ o.kind = op[h].kind /\ o.sub = op[h].sub
                         /\ o.kind = "erase" \/ Written(op[h]).ext # NoExt
      BY <1>11, PutGoesOn
  <2>2. /\ InFlight(h) /\ Fits(op[h]) /\ op[h].at = "put" /\ TombIfErased(Written(op[h]))
        /\ Written(op[h]) # NoRec /\ Written(op[h]).mail = MailWritten(op[h])
      BY <1>11, PutEffect
  <2>3. Writer(h, s) => Written(op[h]).ext = NoExt
    <3>1. SUFFICES ASSUME Writer(h, s) PROVE Written(op[h]).ext = NoExt
        OBVIOUS
    <3>2. op[h].kind = "edit" /\ op[h].snap.mail = Erased
        BY <2>2, <3>1 DEF Gone
    <3>3. Written(op[h]).mail = Erased
        BY <2>2, <3>2 DEF MailWritten, Fits, RowFits, Taken
    <3> QED BY <2>2, <3>3 DEF TombIfErased, Tomb
  <2> QED BY <1>2, <2>1, <2>2, <2>3 DEF Writer
<1> QED BY <1>5, <1>6, <1>7, <1>8, <1>9, <1>10, <1>11 DEF HandlerStep

LEMMA GoneStays ==
    ASSUME TypeInv, NEW h \in Handlers, HandlerStep(h), NEW s \in Subs, Gone(s)
    PROVE  Gone(s)'
<1>1. \A g \in Handlers : Writer(g, s)' =>
          \/ op'[g].kind \in {"provision", "complaint", "edit"} /\ op'[g].at = "get"
          \/ op'[g].kind = "edit" /\ op'[g].at = "put" /\ op'[g].snap.mail = Erased
    BY GoneWriters
<1>2. rec'[s] # NoRec /\ rec'[s].mail = Erased /\ idx' = idx
  <2>1. CASE PutRecord(h)
    <3>1. /\ InFlight(h) /\ op[h].at = "put" /\ Fits(op[h]) /\ rec'[op[h].sub] = Written(op[h]) /\ idx' = idx
          /\ \A t \in Subs : t # op[h].sub => rec'[t] = rec[t]
          /\ Written(op[h]) # NoRec /\ Written(op[h]).mail = MailWritten(op[h])
        BY <2>1, PutEffect DEF PutRecord
    <3>2. CASE op[h].sub = s
      <4>1. op[h].kind = "erase" \/ (op[h].kind = "edit" /\ op[h].snap.mail = Erased)
          BY <3>1, <3>2 DEF Gone, Writer
      <4>2. MailWritten(op[h]) = Erased
          BY <3>1, <4>1 DEF MailWritten, Fits, RowFits, Taken
      <4> QED BY <3>1, <3>2, <4>2
    <3>3. CASE op[h].sub # s
        BY <3>1, <3>3 DEF Gone
    <3> QED BY <3>2, <3>3
  <2>2. CASE ~PutRecord(h)
    <3>1. rec' = rec /\ idx' = idx
        BY <2>2, QuietStep DEF QuietTo
    <3> QED BY <3>1 DEF Gone
  <2> QED BY <2>1, <2>2
<1>3. \A x \in Exts : ptr'[x] # s
  <2>1. CASE PutPointer(h)
    <3>1. op[h].sub # s
        BY <2>1, InHand DEF PutPointer, AtPlace, Taken, Fits, PlaceFits, Gone, Writer
    <3> QED BY <2>1, <3>1 DEF PutPointer, Gone, TypeInv, TypeOK
  <2>2. CASE DropPointer(h)
      BY <2>2, IdentityAssumption DEF DropPointer, Gone, TypeInv, TypeOK
  <2>3. CASE ~PutPointer(h) /\ ~DropPointer(h)
    <3>1. ptr' = ptr
        BY <2>3 DEF HandlerStep, BeginStep, BeginByMail, BeginSync, BeginById, BeginComplaint,
           ReadPointer, GetRecord, FindByMail, Reserve, Release, PutRecord, PutConflict,
           Bar, Carry, Abandon, table
    <3> QED BY <3>1 DEF Gone
  <2> QED BY <2>1, <2>2, <2>3
<1> QED BY <1>1, <1>2, <1>3 DEF Gone, Writer, InFlight

LEMMA GoneHolds == Spec => [](TypeInv /\ GoneInv)
<1>1. Init => GoneInv
    BY DEF Init, GoneInv
<1>2. TypeInv /\ GoneInv /\ [Next]_vars => GoneInv'
  <2> SUFFICES ASSUME TypeInv, GoneInv, [Next]_vars PROVE GoneInv'
      OBVIOUS
  <2>1. CASE UNCHANGED vars
    <3>1. UNCHANGED <<rec, idx, ptr, op, erased>>
        BY <2>1 DEF vars, table, historyVars
    <3> QED BY <3>1 DEF GoneInv, Gone, Writer, InFlight
  <2>2. ASSUME NEW t \in Subs, Propagate(t) PROVE GoneInv'
    <3>1. UNCHANGED <<rec, ptr, op, erased>> /\ idx' = [idx EXCEPT ![t] = rec[t]] /\ idx \in [Subs -> Rec]
        BY <2>2 DEF Propagate, historyVars, TypeInv, TypeOK
    <3>2. erased \subseteq Subs
        BY DEF TypeInv, TypeOK
    <3> QED BY <3>1, <3>2 DEF GoneInv, Gone, Writer, InFlight
  <2>3. ASSUME NEW h \in Handlers, HandlerStep(h) PROVE GoneInv'
    <3>1. \A s \in erased : s \in Subs /\ Gone(s)'
        BY <2>3, GoneStays DEF GoneInv, TypeInv, TypeOK
    <3>2. CASE Bar(h)
      <4>1. ASSUME NEW s \in Subs, s = op[h].sub, Settled(s) PROVE Gone(s)'
        <5>1. rec[s] # NoRec
            BY <3>2, <4>1, InHand DEF Bar, AtPlace, Taken, Fits, RecordFits, Creates
        <5>2. UNCHANGED <<rec, idx, ptr>> /\ op' = [op EXCEPT ![h] = NoOp]
            BY <3>2 DEF Bar, End
        <5>3. \A g \in Handlers : op'[g] = IF g = h THEN NoOp ELSE op[g]
            BY <5>2, OpSet
        <5> QED BY <4>1, <5>1, <5>2, <5>3 DEF Settled, Gone, Writer, InFlight
      <4>2. \A s \in erased' : s \in erased \/ (s = op[h].sub /\ s \in Subs /\ Settled(s))
          BY <3>2, InHand DEF Bar, AtPlace, Taken
      <4> QED BY <3>1, <4>1, <4>2 DEF GoneInv
    <3>3. CASE ~Bar(h)
      <4>1. erased' = erased
          BY <2>3, <3>3 DEF HandlerStep, BeginStep, BeginByMail, BeginSync, BeginById, BeginComplaint,
             ReadPointer, GetRecord, FindByMail, Reserve, Release, PutRecord, PutConflict,
             PutPointer, DropPointer, Carry, Abandon, historyVars
      <4> QED BY <3>1, <4>1 DEF GoneInv
    <3> QED BY <3>2, <3>3
  <2> QED BY <2>1, <2>2, <2>3 DEF Next
<1> QED BY <1>1, <1>2, InitType, NextType, PTL DEF Spec

\* Once an erasure has completed and settled, nothing brings the person back
\* (ErasureHolds).
THEOREM ErasureIsFinal == Spec => []ErasureHolds
<1>1. TypeInv /\ GoneInv => ErasureHolds
    BY IdentityAssumption DEF GoneInv, Gone, ErasureHolds, Live
<1> QED BY <1>1, GoneHolds, PTL

-----------------------------------------------------------------------------
(* A complaint follows its reader.                                         *)

Followed(s) ==
    /\ rec[s].mail \in barred /\ idx[s].mail \in barred
    /\ \A g \in Handlers : Holds(g, s) /\ op[g].kind # "erase" =>
          /\ op[g].snap.mail \in barred
          /\ op[g].kind = "upsert" /\ op[g].at = "put" => op[g].mail \in barred

FollowedInv == \A s \in complained : Followed(s)

\* An upsert about to be put has the address it read, or carried its entry on.
LEMMA UpsertCarries ==
    ASSUME TypeInv, NEW h \in Handlers, HandlerStep(h), NEW o \in Op, QuietTo(h, o), ~PutRecord(h),
           o.kind = "upsert", o.at = "put", o.snap # NoRec
    PROVE  o.mail = o.snap.mail \/ (o.snap.mail \in barred => o.mail \in barred')
<1>1. o # NoOp /\ op' = [op EXCEPT ![h] = o] /\ op'[h] = o
    BY OpsApart DEF QuietTo
<1>2. InFlight(h) /\ op[h] \in Op /\ o.mail = op[h].mail
   /\ \/ op[h].at = "carry" /\ o.snap = op[h].snap
      \/ op[h].at \in {"find", "get"} /\ o.kind = op[h].kind
  <2>1. CASE Keeps(op[h], o)
    <3>1. InFlight(h) /\ Fits(op[h]) /\ op[h] \in Op
        BY <2>1, OpType DEF Keeps, InFlight, TypeInv, Shape
    <3> QED BY <2>1, <3>1 DEF Keeps, Follows, Fits, PlaceFits
  <2>2. CASE Reads(op[h], o)
      BY <2>2, OpType DEF Reads, InFlight, TypeInv
  <2> QED BY <1>1, <2>1, <2>2 DEF QuietTo, Taken, Draws
<1>3. ~End(h)
    BY <1>1, OpUpdate DEF TypeInv, TypeOK
<1>4. CASE op[h].at = "carry" /\ o.snap = op[h].snap
  <2>1. Carry(h)
      BY <1>2, <1>3, <1>4 DEF HandlerStep, BeginStep, BeginByMail, BeginSync, BeginById, BeginComplaint, Begin,
         ReadPointer, GetRecord, FindByMail, Reserve, Release, PutRecord, PutConflict, PutPointer, DropPointer,
         Bar, Abandon, AtPlace
  <2> QED BY <1>2, <1>4, <2>1 DEF Carry
<1>5. CASE op[h].at = "get" /\ o.kind = op[h].kind
  <2>1. GetRecord(h)
      BY <1>2, <1>3, <1>5 DEF HandlerStep, BeginStep, BeginByMail, BeginSync, BeginById, BeginComplaint, Begin,
         ReadPointer, FindByMail, Reserve, Release, PutRecord, PutConflict, PutPointer, DropPointer,
         Bar, Carry, Abandon, AtPlace
  <2> DEFINE row == rec[op[h].sub]
             place == IF row.mail = op[h].mail THEN "put" ELSE "carry"
             p == [op[h] EXCEPT !.sub = op[h].sub, !.snap = row, !.at = place]
  <2>2. rec[op[h].sub] # NoRec
      BY <1>2, <1>5 DEF TypeInv, Shape, Fits, RecordFits
  <2>3. Take(h, op[h].sub, row, place)
      BY <1>5, <2>1, <2>2 DEF GetRecord
  <2>4. op' = [op EXCEPT ![h] = p] /\ op'[h] = p
      BY <2>3 DEF Take, TypeInv, TypeOK
  <2>5. o = p
      BY <1>1, <2>4
  <2>6. p.at = place /\ p.snap = row
      BY <1>2 DEF Op
  <2> QED BY <1>2, <2>5, <2>6
<1>6. CASE op[h].at = "find" /\ o.kind = op[h].kind
  <2>1. FindByMail(h)
      BY <1>2, <1>3, <1>6 DEF HandlerStep, BeginStep, BeginByMail, BeginSync, BeginById, BeginComplaint, Begin,
         ReadPointer, GetRecord, Reserve, Release, PutRecord, PutConflict, PutPointer, DropPointer,
         Bar, Carry, Abandon, AtPlace
  <2>2. ASSUME NEW s, NEW row, NEW place, Take(h, s, row, place) PROVE o.snap = row
    <3> DEFINE p == [op[h] EXCEPT !.sub = s, !.snap = row, !.at = place]
    <3>1. op'[h] = p
        BY <2>2 DEF Take, TypeInv, TypeOK
    <3>2. p.snap = row
        BY <1>2 DEF Op
    <3> QED BY <1>1, <3>1, <3>2
  <2>3. CASE \E s \in Found(op[h].mail) : Take(h, s, idx[s], "put")
    <3>1. PICK s \in Found(op[h].mail) : Take(h, s, idx[s], "put")
        BY <2>3
    <3> QED BY <1>2, <2>2, <3>1 DEF Found
  <2>4. CASE \E s \in Subs : \E place : Take(h, s, NoRec, place)
      BY <2>2, <2>4
  <2> QED BY <1>3, <2>1, <2>3, <2>4 DEF FindByMail
<1> QED BY <1>2, <1>4, <1>5, <1>6

LEMMA FollowedStays ==
    ASSUME TypeInv, NEW h \in Handlers, HandlerStep(h), NEW s \in complained, Followed(s), s \in complained'
    PROVE  Followed(s)'
<1>1. s \in Subs /\ barred \subseteq Mails /\ Erased \notin Mails /\ rec[s] \in Rec
    BY IdentityAssumption DEF TypeInv, TypeOK
<1>r. rec[s] # NoRec
    BY <1>1 DEF Followed, NoRec
<1>2. CASE PutRecord(h)
  <2>1. PICK o \in Op \cup {NoOp} :
          /\ op' = [op EXCEPT ![h] = o]
          /\ o # NoOp => /\ o.kind = op[h].kind /\ o.sub = op[h].sub /\ o.snap = op[h].snap
                         /\ o.at # "put"
      BY <1>2, PutGoesOn
  <2>2. /\ InFlight(h) /\ op[h].at = "put" /\ Fits(op[h]) /\ rec'[op[h].sub] = Written(op[h])
        /\ \A t \in Subs : t # op[h].sub => rec'[t] = rec[t]
        /\ Written(op[h]).mail = MailWritten(op[h]) /\ op[h].sub \in Subs
        /\ idx' = idx /\ barred' = barred
        /\ Written(op[h]).mail = Erased => complained' = complained \ {op[h].sub}
      BY <1>2, PutEffect DEF PutRecord
  <2>3. \A g \in Handlers : op'[g] = IF g = h THEN o ELSE op[g]
      BY <2>1, OpSet
  <2>4. rec'[s].mail \in barred
    <3>1. CASE op[h].sub = s
      <4>1. op[h].kind # "erase" /\ Holds(h, s)
          BY <2>2, <3>1 DEF MailWritten, Holds, Taken
      <4>2. op[h].snap.mail \in barred /\ (op[h].kind = "upsert" => op[h].mail \in barred)
          BY <2>2, <4>1 DEF Followed
      <4>3. op[h].snap # NoRec /\ op[h].kind # "signup"
          BY <1>1, <2>2, <4>2 DEF NoRec, Fits, RowFits, Taken
      <4> QED BY <2>2, <3>1, <4>1, <4>2, <4>3 DEF MailWritten
    <3>2. CASE op[h].sub # s
        BY <1>1, <2>2, <3>2 DEF Followed
    <3> QED BY <3>1, <3>2
  <2>5. ASSUME NEW g \in Handlers, Holds(g, s)', op'[g].kind # "erase"
        PROVE  /\ op'[g].snap.mail \in barred
               /\ op'[g].kind = "upsert" /\ op'[g].at = "put" => op'[g].mail \in barred
    <3>1. CASE g = h
      <4>1. Holds(h, s) /\ op[h].kind # "erase" /\ op'[g].snap = op[h].snap /\ op'[g].at # "put"
          BY <2>1, <2>2, <2>3, <2>5, <3>1 DEF Holds, InFlight, Taken
      <4> QED BY <4>1 DEF Followed
    <3>2. CASE g # h
        BY <2>3, <2>5, <3>2 DEF Followed, Holds, InFlight
    <3> QED BY <3>1, <3>2
  <2> QED BY <2>2, <2>4, <2>5 DEF Followed
<1>3. CASE ~PutRecord(h)
  <2>1. PICK o \in Op \cup {NoOp} : QuietTo(h, o)
      BY <1>3, QuietStep
  <2>2. rec' = rec /\ idx' = idx /\ barred \subseteq barred' /\ \A g \in Handlers : op'[g] = IF g = h THEN o ELSE op[g]
      BY <2>1 DEF QuietTo
  <2>3. ASSUME NEW g \in Handlers, Holds(g, s)', op'[g].kind # "erase"
        PROVE  /\ op'[g].snap.mail \in barred
               /\ op'[g].kind = "upsert" /\ op'[g].at = "put" => op'[g].mail \in barred'
    <3>1. CASE g # h
        BY <2>2, <2>3, <3>1 DEF Followed, Holds, InFlight
    <3>2. CASE g = h
      <4>1. op'[g] = o /\ o # NoOp /\ o.at \in Taken /\ o.sub = s /\ o.kind # "erase" /\ o \in Op
          BY <2>2, <2>3, <3>2 DEF Holds, InFlight
      <4>2. o.snap.mail \in barred
        <5>1. CASE Keeps(op[h], o)
          <6>1. Holds(h, s) /\ op[h].kind # "erase" /\ o.snap = op[h].snap
              BY <4>1, <5>1 DEF Keeps, Follows, Holds, InFlight, Taken
          <6> QED BY <6>1 DEF Followed
        <5>2. CASE Reads(op[h], o)
            BY <4>1, <5>2 DEF Reads, Followed
        <5>3. CASE Draws(op[h], o)
            BY <1>r, <4>1, <5>3 DEF Draws
        <5> QED BY <2>1, <4>1, <5>1, <5>2, <5>3 DEF QuietTo
      <4>3. o.snap # NoRec
          BY <1>1, <4>2 DEF NoRec
      <4>4. o.kind = "upsert" /\ o.at = "put" => o.mail \in barred'
          BY <1>3, <2>1, <2>2, <4>1, <4>2, <4>3, UpsertCarries
      <4> QED BY <4>1, <4>2, <4>4
    <3> QED BY <3>1, <3>2
  <2> QED BY <2>2, <2>3 DEF Followed
<1> QED BY <1>2, <1>3

LEMMA ComplaintBegins ==
    ASSUME TypeInv, NEW h \in Handlers, NEW s \in Subs, NEW m \in Mails, BeginComplaint(h, s, m),
           rec[s].mail = m, idx[s] = rec[s], \A g \in Handlers : ~Writer(g, s)
    PROVE  Followed(s)'
<1> DEFINE o == Request("complaint", "get", m, NoExt, s)
<1>1. op' = [op EXCEPT ![h] = o] /\ barred' = barred \cup {m} /\ UNCHANGED <<rec, idx>>
    BY DEF BeginComplaint, Begin
<1>2. o.at = "get"
    BY DEF Request
<1> HIDE DEF o
<1>3. \A g \in Handlers : op'[g] = IF g = h THEN o ELSE op[g]
    BY <1>1 DEF TypeInv, TypeOK
<1>4. \A g \in Handlers : ~(Holds(g, s)' /\ op'[g].kind # "erase")
    BY <1>2, <1>3 DEF Holds, Writer, InFlight, Taken
<1> QED BY <1>1, <1>4 DEF Followed

LEMMA FollowedHolds == Spec => [](TypeInv /\ FollowedInv)
<1>1. Init => FollowedInv
    BY DEF Init, FollowedInv
<1>2. TypeInv /\ FollowedInv /\ [Next]_vars => FollowedInv'
  <2> SUFFICES ASSUME TypeInv, FollowedInv, [Next]_vars PROVE FollowedInv'
      OBVIOUS
  <2>1. CASE UNCHANGED vars
    <3>1. UNCHANGED <<rec, idx, barred, op, complained>>
        BY <2>1 DEF vars, table, historyVars
    <3> QED BY <3>1 DEF FollowedInv, Followed, Holds, InFlight
  <2>2. ASSUME NEW t \in Subs, Propagate(t) PROVE FollowedInv'
    <3>1. UNCHANGED <<rec, barred, op, complained>> /\ idx' = [idx EXCEPT ![t] = rec[t]] /\ idx \in [Subs -> Rec]
        BY <2>2 DEF Propagate, historyVars, TypeInv, TypeOK
    <3>2. complained \subseteq Subs
        BY DEF TypeInv, TypeOK
    <3> QED BY <3>1, <3>2 DEF FollowedInv, Followed, Holds, InFlight
  <2>3. ASSUME NEW h \in Handlers, HandlerStep(h) PROVE FollowedInv'
    <3> SUFFICES ASSUME NEW s \in complained' PROVE Followed(s)'
        BY DEF FollowedInv
    <3>1. CASE s \in complained
        BY <2>3, <3>1, FollowedStays DEF FollowedInv
    <3>2. CASE s \notin complained
      <4>1. \E t \in Subs, m \in Mails : BeginComplaint(h, t, m)
          BY <2>3, <3>2 DEF HandlerStep, BeginStep, BeginByMail, BeginSync, BeginById,
             ReadPointer, GetRecord, FindByMail, Reserve, Release, PutRecord, PutConflict,
             PutPointer, DropPointer, Bar, Carry, Abandon, historyVars
      <4>2. PICK t \in Subs, m \in Mails : BeginComplaint(h, t, m)
          BY <4>1
      <4>3. s = t /\ rec[t].mail = m /\ idx[t] = rec[t] /\ \A g \in Handlers : ~Writer(g, t)
          BY <3>2, <4>2 DEF BeginComplaint
      <4> QED BY <4>2, <4>3, ComplaintBegins
    <3> QED BY <3>1, <3>2
  <2> QED BY <2>1, <2>2, <2>3 DEF Next
<1> QED BY <1>1, <1>2, InitType, NextType, PTL DEF Spec

\* A complaint that no writer overlapped keeps the record's address on a
\* suppression list, whatever it is changed to (ComplaintFollows).
THEOREM ComplaintsFollow == Spec => []ComplaintFollows
<1>1. FollowedInv => ComplaintFollows
    BY DEF FollowedInv, Followed, ComplaintFollows
<1> QED BY <1>1, FollowedHolds, PTL
=============================================================================
