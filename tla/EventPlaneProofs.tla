-------------------------- MODULE EventPlaneProofs --------------------------
(***************************************************************************)
(* Proofs about EventPlane, for any notices, readers, invocations, saves   *)
(* and failures: type correctness; an acknowledged notice left all its     *)
(* traces; the row's counts are backed by the log; a halt survives; and a  *)
(* breach halts.                                                           *)
(***************************************************************************)
EXTENDS EventPlane, FiniteSetTheorems, TLAPS

-----------------------------------------------------------------------------
(* Type correctness.                                                       *)

\* An invocation that runs has a notice, read at one of its receives.
InHand ==
    \A w \in Workers :
        /\ pc[w] # "idle" => job[w] \in Notices /\ at[w] \in 1..mq[job[w]].receives
        /\ pc[w] = "idle" => job[w] = NoNotice
        /\ pc[w] \in {"stamp", "putRepeat"} => CountsPeople(job[w])

TypeInv == TypeOK /\ InHand

Readers == {ReaderOf[n] : n \in Notices}

LEMMA NoticeType ==
    ASSUME NEW n \in Notices
    PROVE  /\ FieldOf(n) \in Fields /\ AfterAppend(n) \in {"stamp", "check", "ack"}
           /\ CountsPeople(n) <=> FieldOf(n) \in {"opens", "clicks"}
           /\ CountsPeople(n) => ~Hard(n)
           /\ Hard(n) => ~Identified(n) /\ FieldOf(n) \in {"bounces", "complaints"}
           /\ ReaderOf[n] \in Readers
<1>1. KindOf[n] \in Kinds
    BY EventAssumption
<1> QED BY <1>1 DEF FieldOf, Fields, AfterAppend, CountsPeople, Hard, Identified, Kinds, Readers

LEMMA HandType ==
    ASSUME TypeInv, NEW w \in Workers, pc[w] # "idle"
    PROVE  /\ job[w] \in Notices /\ at[w] \in 1..MaxReceives
           /\ EventOf(w) \in [notice : Notices, at : 1..MaxReceives]
           /\ EventOf(w).notice = job[w] /\ EventOf(w).at = at[w]
           /\ mq[job[w]].receives \in 0..MaxReceives
<1>1. job[w] \in Notices /\ at[w] \in 1..mq[job[w]].receives
    BY DEF TypeInv, InHand
<1>2. mq[job[w]].receives \in 0..MaxReceives /\ MaxReceives \in Nat
    BY <1>1, EventAssumption DEF TypeInv, TypeOK
<1> QED BY <1>1, <1>2 DEF EventOf

LEMMA BumpType ==
    ASSUME NEW c \in [Fields -> Nat], NEW f \in Fields
    PROVE  /\ Bump(c, f) \in [Fields -> Nat] /\ Bump(c, f)[f] = c[f] + 1
           /\ \A g \in Fields : g # f => Bump(c, f)[g] = c[g]
BY DEF Bump

\* Steps of an invocation after its notice was received.
LEMMA StaysInHand ==
    ASSUME TypeInv, NEW w \in Workers, pc[w] # "idle", NEW label, Goto(w, label),
           label # "idle", UNCHANGED <<mq, job, at>>,
           label \in {"stamp", "putRepeat"} => CountsPeople(job[w])
    PROVE  InHand'
BY DEF TypeInv, TypeOK, InHand, Goto, CountsPeople

LEMMA ForgetType ==
    ASSUME TypeInv, NEW w \in Workers, Forget(w)
    PROVE  /\ pc' \in [Workers -> {"idle", "bar", "flip", "append", "putRepeat", "putRowless",
                           "register", "registerOnly", "stamp", "check", "haltRead",
                           "haltPut", "mark", "ack"}]
           /\ job' \in [Workers -> Notices \cup {NoNotice}]
           /\ at' \in [Workers -> 0..MaxReceives]
           /\ snap' \in [Workers -> Rows]
           /\ pc'[w] = "idle" /\ job'[w] = NoNotice
           /\ \A v \in Workers : v # w => pc'[v] = pc[v] /\ job'[v] = job[v] /\ at'[v] = at[v]
                                          /\ snap'[v] = snap[v]
<1>1. 0 \in 0..MaxReceives /\ NoRow \in Rows
    BY EventAssumption DEF NoRow, Rows, Zero
<1> QED BY <1>1 DEF TypeInv, TypeOK, Forget, Goto

LEMMA SpendType ==
    ASSUME TypeOK, NEW d \in Disturbances, Spend(d)
    PROVE  left' \in [Disturbances -> Nat] /\ left'[d] = left[d] - 1
BY DEF TypeOK, Spend, Disturbances

LEMMA InitType == Init => TypeInv
<1> SUFFICES ASSUME Init PROVE TypeInv
    OBVIOUS
<1>1. MaxReceives \in Nat \ {0} /\ Budget \in [Disturbances -> Nat]
    BY EventAssumption
<1>2. NoRow \in Rows /\ Zero \in [Fields -> Nat]
    BY DEF NoRow, Rows, Zero
<1>3. row \in Rows
    BY <1>2, EventAssumption DEF Init, Rows
<1>4. InHand
    BY DEF Init, InHand
<1>5. mq \in [Notices -> [st : {"visible", "inflight", "deleted", "dead"}, receives : 0..MaxReceives]]
    BY <1>1 DEF Init
<1>6. /\ sendId \in [known : BOOLEAN, counters : [Fields -> Nat]] /\ marker \in BOOLEAN
      /\ left \in [Disturbances -> Nat]
      /\ log = {} /\ people = {} /\ stamped = {} /\ barred = {} /\ flipped = {}
    BY <1>1, <1>2 DEF Init
<1>7. /\ job \in [Workers -> Notices \cup {NoNotice}] /\ at \in [Workers -> 0..MaxReceives]
      /\ snap \in [Workers -> Rows] /\ esnap \in [Editors -> Rows] /\ epc \in [Editors -> {"idle", "put"}]
    BY <1>1, <1>2 DEF Init
<1>8. pc = [w \in Workers |-> "idle"]
    BY DEF Init
<1>9. /\ log \subseteq [notice : Notices, at : 1..MaxReceives]
      /\ people \cup stamped \subseteq {"opens", "clicks"} \X Readers
      /\ barred \cup flipped \subseteq Readers
    BY <1>6
<1> QED BY <1>3, <1>4, <1>5, <1>6, <1>7, <1>8, <1>9 DEF TypeInv, TypeOK, Readers

LEMMA NextType == TypeInv /\ [Next]_vars => TypeInv'
<1> SUFFICES ASSUME TypeInv, [Next]_vars PROVE TypeInv'
    OBVIOUS
<1>t. TypeOK /\ MaxReceives \in Nat \ {0}
    BY EventAssumption DEF TypeInv
<1> DEFINE Labels == {"idle", "bar", "flip", "append", "putRepeat", "putRowless", "register",
                      "registerOnly", "stamp", "check", "haltRead", "haltPut", "mark", "ack"}
<1>g. ASSUME NEW w \in Workers, NEW label \in Labels, Goto(w, label) PROVE pc' \in [Workers -> Labels]
    BY <1>t, <1>g DEF TypeOK, Goto
<1>1. ASSUME NEW w \in Workers, NEW n \in Notices, Receive(w, n) PROVE TypeInv'
    <2>1. left' \in [Disturbances -> Nat]
        BY <1>t, <1>1, SpendType DEF Receive, TypeOK, Disturbances
    <2>2. mq[n].receives \in 0..MaxReceives /\ mq[n].receives + 1 \in 1..MaxReceives
        BY <1>t, <1>1 DEF Receive, TypeOK
    <2>3. /\ mq' \in [Notices -> [st : {"visible", "inflight", "deleted", "dead"},
                                 receives : 0..MaxReceives]]
          /\ mq'[n].receives = mq[n].receives + 1
          /\ \A m \in Notices : m # n => mq'[m] = mq[m]
        <3>1. mq' = [mq EXCEPT ![n] = [st |-> "inflight", receives |-> mq[n].receives + 1]]
            BY <1>1 DEF Receive
        <3>2. [st |-> "inflight", receives |-> mq[n].receives + 1]
                 \in [st : {"visible", "inflight", "deleted", "dead"}, receives : 0..MaxReceives]
            BY <2>2
        <3> HIDE DEF Labels
        <3> QED BY <1>t, <3>1, <3>2 DEF TypeOK
    <2>4. PICK instant \in {mq[n].receives + 1}
                 \cup {at[v] : v \in {u \in Workers : job[u] = n /\ Identified(n)}} :
              at' = [at EXCEPT ![w] = instant]
        BY <1>1 DEF Receive
    <2>5. instant \in 1..(mq[n].receives + 1)
        <3>1. CASE instant = mq[n].receives + 1
            BY <2>2, <3>1
        <3>2. CASE instant # mq[n].receives + 1
            <4>1. PICK v \in Workers : job[v] = n /\ instant = at[v]
                BY <2>4, <3>2
            <4>2. at[v] \in 1..mq[n].receives
                BY <4>1, EventAssumption DEF TypeInv, InHand
            <4> QED BY <2>2, <4>1, <4>2
        <3> QED BY <3>1, <3>2
    <2>6. at' \in [Workers -> 0..MaxReceives]
        BY <1>t, <2>2, <2>4, <2>5 DEF TypeOK
    <2>7. job' = [job EXCEPT ![w] = n] /\ pc' \in [Workers -> Labels]
        BY <1>1, <1>g DEF Receive
    <2>8. InHand'
        <3> SUFFICES ASSUME NEW v \in Workers
                     PROVE  /\ pc'[v] # "idle" => job'[v] \in Notices /\ at'[v] \in 1..mq'[job'[v]].receives
                            /\ pc'[v] = "idle" => job'[v] = NoNotice
                            /\ pc'[v] \in {"stamp", "putRepeat"} => CountsPeople(job'[v])
            BY DEF InHand
        <3>1. CASE v = w
            <4>1. job'[v] = n /\ pc'[v] \in {"bar", "append"} /\ at'[v] = instant
                BY <1>t, <1>1, <2>4, <2>7, <3>1 DEF TypeOK, Receive, Goto
            <4> QED BY <2>3, <2>5, <4>1
        <3>2. CASE v # w
            <4>1. job'[v] = job[v] /\ pc'[v] = pc[v] /\ at'[v] = at[v]
                BY <1>t, <1>1, <2>4, <2>7, <3>2 DEF TypeOK, Receive, Goto
            <4>2. \/ /\ mq[job[v]].receives <= mq'[job[v]].receives
                     /\ mq'[job[v]].receives \in Nat
                  \/ job[v] \notin Notices
                BY <1>t, <2>3 DEF TypeOK
            <4>3. mq[job[v]].receives \in Nat \/ job[v] \notin Notices
                BY <1>t DEF TypeOK
            <4> QED BY <4>1, <4>2, <4>3 DEF TypeInv, InHand
        <3> QED BY <3>1, <3>2
    <2> QED
        BY <1>t, <1>1, <2>1, <2>3, <2>6, <2>7, <2>8
           DEF TypeInv, TypeOK, Receive, rowVars, eventVars, readerVars, editVars
<1>2. ASSUME NEW w \in Workers, Ack(w) \/ Crash(w) PROVE TypeInv'
    <2>1. Forget(w) /\ pc[w] # "idle"
        BY <1>2 DEF Ack, Crash
    <2>2. left' \in [Disturbances -> Nat]
        BY <1>t, <1>2, SpendType DEF Ack, Crash, TypeOK, Disturbances
    <2>3. job[w] \in Notices
        BY <2>1, HandType
    <2>4. /\ mq' \in [Notices -> [st : {"visible", "inflight", "deleted", "dead"},
                                 receives : 0..MaxReceives]]
          /\ \A n \in Notices : mq'[n].receives = mq[n].receives
        <3>1. PICK st \in {"visible", "inflight", "deleted", "dead"} : mq' = [mq EXCEPT ![job[w]].st = st]
            BY <1>t, <1>2, <2>3 DEF Ack, Crash, TypeOK
        <3> QED BY <1>t, <2>3, <3>1 DEF TypeOK
    <2>5. InHand'
        BY <2>1, <2>4, ForgetType DEF TypeInv, InHand
    <2> QED
        BY <1>t, <1>2, <2>1, <2>2, <2>4, <2>5, ForgetType
           DEF TypeInv, TypeOK, Ack, Crash, rowVars, eventVars, readerVars, editVars
<1>3. ASSUME NEW w \in Workers, Bar(w) \/ Flip(w) \/ Stamp(w) PROVE TypeInv'
    <2>1. /\ job[w] \in Notices /\ ReaderOf[job[w]] \in Readers
          /\ pc[w] = "stamp" => FieldOf(job[w]) \in {"opens", "clicks"}
        BY <1>3, HandType, NoticeType DEF Bar, Flip, Stamp, TypeInv, InHand
    <2>2. InHand' /\ pc' \in [Workers -> Labels]
        <3>1. PICK label \in {"flip", "append", "ack"} : Goto(w, label)
            BY <1>3 DEF Bar, Flip, Stamp
        <3> QED BY <1>3, <1>g, <3>1, StaysInHand DEF Bar, Flip, Stamp, workVars
    <2>3. /\ people' \cup stamped' \subseteq {"opens", "clicks"} \X Readers
          /\ barred' \cup flipped' \subseteq Readers
        BY <1>t, <1>3, <2>1 DEF Bar, Flip, Stamp, TypeOK, Readers, eventVars
    <2> QED
        BY <1>t, <1>3, <2>2, <2>3
           DEF TypeInv, TypeOK, Readers, Bar, Flip, Stamp, rowVars, eventVars, workVars, editVars
<1>4. ASSUME NEW w \in Workers, AppendCounted(w) PROVE TypeInv'
    <2>1. /\ job[w] \in Notices /\ ReaderOf[job[w]] \in Readers /\ FieldOf(job[w]) \in Fields
          /\ CountsPeople(job[w]) => FieldOf(job[w]) \in {"opens", "clicks"}
          /\ EventOf(w) \in [notice : Notices, at : 1..MaxReceives]
        BY <1>4, HandType, NoticeType DEF AppendCounted
    <2>2. InHand' /\ pc' \in [Workers -> Labels]
        BY <1>4, <1>g, <2>1, StaysInHand DEF AppendCounted, AfterAppend, workVars
    <2>3. row' \in Rows
        BY <1>t, <1>4, <2>1, BumpType DEF AppendCounted, TypeOK, Rows
    <2>4. people' \cup stamped' \subseteq {"opens", "clicks"} \X Readers
        BY <1>t, <1>4, <2>1 DEF AppendCounted, TypeOK, Readers, readerVars
    <2>5. log' \subseteq [notice : Notices, at : 1..MaxReceives]
        BY <1>t, <1>4, <2>1 DEF AppendCounted, TypeOK
    <2> QED
        BY <1>t, <1>4, <2>2, <2>3, <2>4, <2>5
           DEF TypeInv, TypeOK, Readers, AppendCounted, readerVars, workVars, editVars
<1>5. ASSUME NEW w \in Workers, AppendSeen(w) \/ AppendRepeat(w) \/ AppendRowless(w) PROVE TypeInv'
    <2>1. InHand' /\ pc' \in [Workers -> Labels]
        <3>1. PICK label \in Labels : /\ Goto(w, label) /\ label # "idle"
                                      /\ label \in {"stamp", "putRepeat"} => CountsPeople(job[w])
            BY <1>5 DEF AppendSeen, AppendRepeat, AppendRowless, Repeat, AfterAppend
        <3>2. pc[w] # "idle" /\ UNCHANGED <<mq, job, at>>
            BY <1>5 DEF AppendSeen, AppendRepeat, AppendRowless, workVars
        <3>3. InHand'
            BY <3>1, <3>2, StaysInHand
        <3> QED BY <1>g, <3>1, <3>3
    <2> QED
        BY <1>t, <1>5, <2>1
           DEF TypeInv, TypeOK, AppendSeen, AppendRepeat, AppendRowless,
               rowVars, eventVars, readerVars, workVars, editVars
<1>6. ASSUME NEW w \in Workers, PutEvent(w) PROVE TypeInv'
    <2>1. EventOf(w) \in [notice : Notices, at : 1..MaxReceives]
        BY <1>6, HandType DEF PutEvent
    <2>2. InHand' /\ pc' \in [Workers -> Labels]
        <3>1. PICK label \in Labels : /\ Goto(w, label) /\ label # "idle"
                                      /\ label \in {"stamp", "putRepeat"} => CountsPeople(job[w])
            BY <1>6 DEF PutEvent, AfterAppend
        <3>2. pc[w] # "idle" /\ UNCHANGED <<mq, job, at>>
            BY <1>6 DEF PutEvent, workVars
        <3>3. InHand'
            BY <3>1, <3>2, StaysInHand
        <3> QED BY <1>g, <3>1, <3>3
    <2> QED
        BY <1>t, <1>6, <2>1, <2>2
           DEF TypeInv, TypeOK, PutEvent, rowVars, readerVars, workVars, editVars
<1>7. ASSUME NEW w \in Workers, Register(w) PROVE TypeInv'
    <2>1. job[w] \in Notices /\ FieldOf(job[w]) \in Fields
        BY <1>7, HandType, NoticeType DEF Register
    <2>2. InHand' /\ pc' \in [Workers -> Labels]
        BY <1>7, <1>g, <2>1, StaysInHand DEF Register, AfterAppend, workVars
    <2>3. sendId' \in [known : BOOLEAN, counters : [Fields -> Nat]]
        BY <1>t, <1>7, <2>1, BumpType DEF Register, TypeOK
    <2> QED
        BY <1>t, <1>7, <2>2, <2>3
           DEF TypeInv, TypeOK, Register, rowVars, readerVars, workVars, editVars
<1>8. ASSUME NEW w \in Workers, Check(w) \/ HaltRead(w) \/ HaltPut(w) \/ MarkHalted(w) PROVE TypeInv'
    <2>1. InHand' /\ pc' \in [Workers -> Labels]
        <3>1. PICK label \in Labels : Goto(w, label) /\ label \in {"haltRead", "haltPut", "mark", "ack"}
            BY <1>8 DEF Check, HaltRead, HaltPut, MarkHalted
        <3> QED BY <1>8, <1>g, <3>1, StaysInHand DEF Check, HaltRead, HaltPut, MarkHalted, workVars
    <2>2. row' \in Rows /\ snap' \in [Workers -> Rows] /\ marker' \in BOOLEAN
        <3>1. CASE HaltPut(w)
            <4>1. snap[w] \in Rows
                BY <1>t DEF TypeOK
            <4> QED BY <1>t, <3>1, <4>1 DEF TypeOK, HaltPut, Rows, workVars
        <3>2. CASE HaltRead(w)
            BY <1>t, <3>2 DEF TypeOK, HaltRead, rowVars
        <3>3. CASE Check(w) \/ MarkHalted(w)
            BY <1>t, <3>3 DEF TypeOK, Check, MarkHalted, workVars, rowVars
        <3> QED BY <1>8, <3>1, <3>2, <3>3
    <2> QED
        BY <1>t, <1>8, <2>1, <2>2
           DEF TypeInv, TypeOK, Check, HaltRead, HaltPut, MarkHalted, eventVars, readerVars, workVars, editVars
<1>9. ASSUME NEW e \in Editors, EditRead(e) \/ EditPut(e) PROVE TypeInv'
    <2>1. left' \in [Disturbances -> Nat]
        BY <1>t, <1>9, SpendType DEF EditRead, EditPut, TypeOK, Disturbances
    <2>2. esnap' \in [Editors -> Rows] /\ epc' \in [Editors -> {"idle", "put"}] /\ row' \in Rows
        <3>1. NoRow \in Rows /\ esnap[e] \in Rows
            BY <1>t DEF TypeOK, NoRow, Rows, Zero
        <3>2. CASE EditRead(e)
            BY <1>t, <3>2 DEF TypeOK, EditRead, rowVars
        <3>3. CASE EditPut(e)
            <4>1. row' = [esnap[e] EXCEPT !.present = TRUE]
                BY <3>3 DEF EditPut
            <4>2. row' \in Rows
                BY <3>1, <4>1 DEF Rows
            <4> QED BY <1>t, <3>1, <3>3, <4>2 DEF TypeOK, EditPut
        <3> QED BY <1>9, <3>2, <3>3
    <2> QED
        BY <1>t, <1>9, <2>1, <2>2
           DEF TypeInv, InHand, TypeOK, EditRead, EditPut, rowVars, eventVars, readerVars, workVars
<1>10. CASE UNCHANGED vars
    BY <1>10 DEF vars, TypeInv, InHand, TypeOK
<1> QED BY <1>1, <1>2, <1>3, <1>4, <1>5, <1>6, <1>7, <1>8, <1>9, <1>10 DEF Next, WorkerStep

\* Every variable keeps its type, whatever the queue, the store and the saves do.
THEOREM TypeCorrect == Spec => []TypeOK
<1>1. TypeInv => TypeOK
    BY DEF TypeInv
<1> QED BY <1>1, InitType, NextType, PTL DEF Spec

-----------------------------------------------------------------------------
(* Acknowledged notices.  What an invocation has left behind it depends on  *)
(* where it stands, and an acknowledged notice was held by one at the end.  *)

Recorded == {"register", "registerOnly", "stamp", "check", "haltRead", "haltPut", "mark", "ack"}
Checking == {"check", "haltRead", "haltPut", "mark"}

TracesOf(w) ==
    /\ pc[w] \in {"bar", "flip"} \cup Checking => Hard(job[w])
    /\ pc[w] \notin {"idle", "bar"} /\ Hard(job[w]) => ReaderOf[job[w]] \in barred
    /\ pc[w] \notin {"idle", "bar", "flip"} /\ Hard(job[w]) => ReaderOf[job[w]] \in flipped
    /\ pc[w] \in Recorded => \E e \in log : e.notice = job[w]
    /\ pc[w] = "ack" /\ CountsPeople(job[w]) => <<FieldOf(job[w]), ReaderOf[job[w]]>> \in stamped
    /\ pc[w] = "haltPut" => snap[w].present

Traces == \A w \in Workers : TracesOf(w)

\* Nothing that is left behind is taken back.
LEMMA TracesGrow ==
    ASSUME [Next]_vars
    PROVE  barred \subseteq barred' /\ flipped \subseteq flipped' /\ log \subseteq log' /\ stamped \subseteq stamped'
BY DEF Next, WorkerStep, Receive, Ack, Crash, Bar, Flip, AppendCounted, AppendSeen, AppendRepeat,
       AppendRowless, PutEvent, Register, Stamp, Check, HaltRead, HaltPut, MarkHalted, EditRead,
       EditPut, vars, eventVars, readerVars

LEMMA TracesKept ==
    ASSUME [Next]_vars, NEW v \in Workers, TracesOf(v),
           pc'[v] = pc[v], job'[v] = job[v], snap'[v] = snap[v]
    PROVE  TracesOf(v)'
BY TracesGrow DEF TracesOf, Recorded, Checking

\* A step of one invocation is no step of another.
LEMMA OthersStay ==
    ASSUME TypeInv, NEW w \in Workers,
           WorkerStep(w) \/ Crash(w) \/ \E n \in Notices : Receive(w, n),
           NEW v \in Workers, v # w
    PROVE  pc'[v] = pc[v] /\ job'[v] = job[v] /\ at'[v] = at[v] /\ snap'[v] = snap[v]
<1> USE DEF TypeInv, TypeOK, Goto
<1>1. CASE Ack(w) \/ Crash(w)
    BY <1>1, ForgetType DEF Ack, Crash
<1>2. CASE \E n \in Notices : Receive(w, n)
    BY <1>2 DEF Receive
<1>3. CASE HaltRead(w)
    BY <1>3 DEF HaltRead
<1>4. CASE \/ Bar(w) \/ Flip(w) \/ AppendCounted(w) \/ AppendSeen(w) \/ AppendRepeat(w)
           \/ AppendRowless(w) \/ PutEvent(w) \/ Register(w) \/ Stamp(w)
           \/ Check(w) \/ HaltPut(w) \/ MarkHalted(w)
    BY <1>4 DEF Bar, Flip, AppendCounted, AppendSeen, AppendRepeat, AppendRowless, PutEvent, Register,
                Stamp, Check, HaltPut, MarkHalted, workVars
<1> QED BY <1>1, <1>2, <1>3, <1>4 DEF WorkerStep

\* The invocation's own steps.
LEMMA OwnTraces ==
    ASSUME TypeInv, [Next]_vars, NEW w \in Workers, TracesOf(w),
           WorkerStep(w) \/ Crash(w) \/ \E n \in Notices : Receive(w, n)
    PROVE  TracesOf(w)'
<1> USE DEF TypeInv, TypeOK, Goto
<1>1. CASE Ack(w) \/ Crash(w)
    <2>1. pc'[w] = "idle"
        BY <1>1, ForgetType DEF Ack, Crash
    <2> QED BY <2>1 DEF TracesOf, Recorded, Checking
<1>2. ASSUME NEW n \in Notices, Receive(w, n) PROVE TracesOf(w)'
    <2>1. job'[w] = n /\ pc'[w] = IF Hard(n) THEN "bar" ELSE "append"
        BY <1>2 DEF Receive
    <2> QED BY <2>1 DEF TracesOf, Recorded, Checking
<1>3. CASE Bar(w) \/ Flip(w) \/ Stamp(w)
    <2>1. /\ job'[w] = job[w]
          /\ \/ /\ pc[w] = "bar" /\ pc'[w] = "flip"
                /\ ReaderOf[job[w]] \in barred'
             \/ /\ pc[w] = "flip" /\ pc'[w] = "append"
                /\ ReaderOf[job[w]] \in flipped'
             \/ /\ pc[w] = "stamp" /\ pc'[w] = "ack"
                /\ <<FieldOf(job[w]), ReaderOf[job[w]]>> \in stamped'
        BY <1>3 DEF Bar, Flip, Stamp, workVars
    <2> QED BY <2>1, TracesGrow DEF TracesOf, Recorded, Checking
<1>4. CASE AppendRepeat(w) \/ AppendRowless(w)
    <2>1. job'[w] = job[w] /\ pc[w] = "append" /\ pc'[w] \in {"putRepeat", "putRowless"}
        BY <1>4 DEF AppendRepeat, AppendRowless, workVars
    <2> QED BY <2>1, TracesGrow DEF TracesOf, Recorded, Checking
<1>5. CASE AppendCounted(w) \/ AppendSeen(w) \/ PutEvent(w) \/ Register(w)
    <2>1. /\ job'[w] = job[w] /\ pc[w] \in {"append", "putRepeat", "putRowless", "register", "registerOnly"}
          /\ pc'[w] \in {"register", "registerOnly", AfterAppend(job[w])}
        BY <1>5 DEF AppendCounted, AppendSeen, PutEvent, Register, workVars
    <2>2. \E e \in log' : e.notice = job[w]
        <3>1. EventOf(w).notice = job[w]
            BY DEF EventOf
        <3>2. EventOf(w) \in log' \/ pc[w] \in Recorded
            BY <1>5, <2>1 DEF AppendCounted, AppendSeen, PutEvent, Register, Seen, Recorded, eventVars
        <3> QED BY <3>1, <3>2, TracesGrow DEF TracesOf
    <2>3. /\ pc'[w] \in Checking => Hard(job[w]) /\ pc'[w] = "check"
          /\ pc'[w] \in {"register", "registerOnly", "stamp", "check", "ack"}
          /\ pc'[w] = "ack" => ~CountsPeople(job[w])
        BY <2>1 DEF AfterAppend, Checking
    <2> QED BY <2>1, <2>2, <2>3, TracesGrow DEF TracesOf, Recorded, Checking
<1>6. CASE Check(w) \/ HaltRead(w) \/ HaltPut(w) \/ MarkHalted(w)
    <2>1. /\ job'[w] = job[w] /\ pc[w] \in Checking
          /\ pc'[w] \in {"haltRead", "haltPut", "mark", "ack"}
          /\ pc'[w] = "haltPut" => snap'[w].present
        BY <1>6 DEF Check, HaltRead, HaltPut, MarkHalted, workVars, Checking
    <2>2. Hard(job[w]) /\ ~CountsPeople(job[w])
        BY <2>1, HandType, NoticeType DEF TracesOf, Checking
    <2> QED BY <2>1, <2>2, TracesGrow DEF TracesOf, Recorded, Checking
<1> QED BY <1>1, <1>2, <1>3, <1>4, <1>5, <1>6 DEF WorkerStep

LEMMA NextTraces == TypeInv /\ Traces /\ [Next]_vars => Traces'
<1> SUFFICES ASSUME TypeInv, Traces, [Next]_vars, NEW v \in Workers PROVE TracesOf(v)'
    BY DEF Traces
<1>0. TracesOf(v)
    BY DEF Traces
<1>1. ASSUME NEW w \in Workers, WorkerStep(w) \/ Crash(w) \/ \E n \in Notices : Receive(w, n)
      PROVE  TracesOf(v)'
    <2>1. CASE v = w
        BY <1>0, <1>1, <2>1, OwnTraces
    <2>2. CASE v # w
        BY <1>0, <1>1, <2>2, OthersStay, TracesKept
    <2> QED BY <2>1, <2>2
<1>2. CASE (\E e \in Editors : EditRead(e) \/ EditPut(e)) \/ UNCHANGED vars
    <2>1. UNCHANGED <<pc, job, snap>>
        BY <1>2 DEF EditRead, EditPut, vars, workVars
    <2> QED BY <1>0, <2>1, TracesKept
<1> QED BY <1>1, <1>2 DEF Next

\* Only an invocation that stands at the end acknowledges.
LEMMA WhoAcknowledges ==
    ASSUME TypeInv, [Next]_vars, NEW n \in Notices, Acknowledged(n)', ~Acknowledged(n)
    PROVE  \E w \in Workers : Ack(w) /\ job[w] = n
<1> USE DEF TypeInv, TypeOK, Acknowledged
<1>1. ASSUME NEW w \in Workers, NEW m \in Notices, Receive(w, m) PROVE FALSE
    BY <1>1 DEF Receive
<1>2. ASSUME NEW w \in Workers, Crash(w) PROVE FALSE
    <2>1. job[w] \in Notices
        BY <1>2, HandType DEF Crash
    <2> QED BY <1>2, <2>1 DEF Crash
<1>3. ASSUME NEW w \in Workers, Ack(w) PROVE job[w] = n
    <2>1. job[w] \in Notices
        BY <1>3, HandType DEF Ack
    <2> QED BY <1>3, <2>1 DEF Ack
<1>4. mq' = mq \/ \E w \in Workers : Ack(w) \/ Crash(w) \/ \E m \in Notices : Receive(w, m)
    BY DEF Next, WorkerStep, Bar, Flip, AppendCounted, AppendSeen, AppendRepeat, AppendRowless, PutEvent,
           Register, Stamp, Check, HaltRead, HaltPut, MarkHalted, EditRead, EditPut, vars
<1> QED BY <1>1, <1>2, <1>3, <1>4

LEMMA NextInFull ==
    TypeInv /\ Traces /\ AcknowledgedInFull /\ [Next]_vars => AcknowledgedInFull'
<1> SUFFICES ASSUME TypeInv, Traces, AcknowledgedInFull, [Next]_vars,
                    NEW n \in Notices, Acknowledged(n)'
             PROVE  (/\ \E e \in log : e.notice = n
                     /\ Hard(n) => ReaderOf[n] \in barred \cap flipped
                     /\ CountsPeople(n) => <<FieldOf(n), ReaderOf[n]>> \in stamped)'
    BY DEF AcknowledgedInFull
<1>1. CASE Acknowledged(n)
    BY <1>1, TracesGrow DEF AcknowledgedInFull
<1>2. CASE ~Acknowledged(n)
    <2>1. PICK w \in Workers : Ack(w) /\ job[w] = n
        BY <1>2, WhoAcknowledges
    <2> QED BY <2>1, TracesGrow DEF Ack, Traces, TracesOf, Recorded
<1> QED BY <1>1, <1>2

LEMMA InitTraces == Init => Traces /\ AcknowledgedInFull
BY DEF Init, Traces, TracesOf, Recorded, Checking, AcknowledgedInFull, Acknowledged

THEOREM TracesHold == Spec => [](TypeInv /\ Traces)
<1> QED BY InitType, NextType, InitTraces, NextTraces, PTL DEF Spec

\* A notice that SQS was told to delete left its event, its reader's suppression
\* and its reader's stamp, whatever failed, was repeated or ran beside it
\* (services/events handler).
THEOREM AcknowledgedLeavesTraces == Spec => []AcknowledgedInFull
<1> QED BY TracesHold, InitTraces, NextInFull, PTL DEF Spec

-----------------------------------------------------------------------------
(* Counts.  A row's counter is backed by a set that only grows: the rows of *)
(* the log or, for opens and clicks, the readers that are marked.  Whoever  *)
(* read the row before it was written back holds smaller counts.            *)

PeopleOf(f) == {r \in Readers : <<f, r>> \in people}
CountedOf(f) == IF f \in {"opens", "clicks"} THEN PeopleOf(f) ELSE RowsOf(f)
HardRows == {n \in Notices : Hard(n) /\ \E e \in log : e.notice = n}

FiniteLog ==
    /\ \A f \in Fields : IsFiniteSet(RowsOf(f)) /\ IsFiniteSet(ReadersOf(f))
    /\ \A f \in {"opens", "clicks"} : PeopleOf(f) \subseteq ReadersOf(f)
    /\ IsFiniteSet(HardRows)

Backed(r) == \A f \in Fields : r.counters[f] <= Cardinality(CountedOf(f))

RowsBacked ==
    /\ Backed(row)
    /\ \A w \in Workers : Backed(snap[w])
    /\ \A e \in Editors : Backed(esnap[e])

\* What an append adds.
LEMMA Added ==
    ASSUME TypeInv, NEW w \in Workers, pc[w] # "idle", log' = log \cup {EventOf(w)}
    PROVE  /\ \A f : RowsOf(f)' = IF f = FieldOf(job[w]) THEN RowsOf(f) \cup {EventOf(w)} ELSE RowsOf(f)
           /\ \A f : ReadersOf(f)' = IF f = FieldOf(job[w]) THEN ReadersOf(f) \cup {ReaderOf[job[w]]}
                                     ELSE ReadersOf(f)
           /\ HardRows' = IF Hard(job[w]) THEN HardRows \cup {job[w]} ELSE HardRows
<1>1. EventOf(w).notice = job[w] /\ job[w] \in Notices
    BY HandType
<1>2. ASSUME NEW f
      PROVE  RowsOf(f)' = IF f = FieldOf(job[w]) THEN RowsOf(f) \cup {EventOf(w)} ELSE RowsOf(f)
    BY <1>1 DEF RowsOf
<1>3. ASSUME NEW f
      PROVE  ReadersOf(f)' = IF f = FieldOf(job[w]) THEN ReadersOf(f) \cup {ReaderOf[job[w]]}
                             ELSE ReadersOf(f)
    <2>1. ReadersOf(f)' = {ReaderOf[e.notice] : e \in RowsOf(f)'}
        BY DEF ReadersOf
    <2> QED BY <1>1, <1>2, <2>1 DEF ReadersOf
<1>4. HardRows' = IF Hard(job[w]) THEN HardRows \cup {job[w]} ELSE HardRows
    BY <1>1 DEF HardRows
<1> QED BY <1>2, <1>3, <1>4

\* The log and the marks change with an append or with a put of an event.
LEMMA LogSteps ==
    ASSUME [Next]_vars
    PROVE  \/ log' = log /\ people' = people
           \/ \E w \in Workers : PutEvent(w) \/ AppendCounted(w)
BY DEF Next, WorkerStep, Receive, Ack, Crash, Bar, Flip, AppendSeen, AppendRepeat, AppendRowless,
       Register, Stamp, Check, HaltRead, HaltPut, MarkHalted, EditRead, EditPut, vars, eventVars

LEMMA PeopleAdded ==
    ASSUME TypeInv, NEW w \in Workers, AppendCounted(w), NEW f \in Fields
    PROVE  PeopleOf(f)' = IF CountsPeople(job[w]) /\ f = FieldOf(job[w])
                          THEN PeopleOf(f) \cup {ReaderOf[job[w]]} ELSE PeopleOf(f)
<1>1. job[w] \in Notices /\ ReaderOf[job[w]] \in Readers
    BY HandType, NoticeType DEF AppendCounted
<1> QED BY <1>1 DEF AppendCounted, PeopleOf

LEMMA NextFinite == TypeInv /\ FiniteLog /\ [Next]_vars => FiniteLog'
<1> SUFFICES ASSUME TypeInv, FiniteLog, [Next]_vars PROVE FiniteLog'
    OBVIOUS
<1>1. CASE log' = log /\ people' = people
    BY <1>1 DEF FiniteLog, RowsOf, ReadersOf, PeopleOf, HardRows
<1>2. ASSUME NEW w \in Workers, PutEvent(w) \/ AppendCounted(w) PROVE FiniteLog'
    <2>1. pc[w] # "idle" /\ log' = log \cup {EventOf(w)}
        BY <1>2 DEF PutEvent, AppendCounted
    <2>2. ASSUME NEW f \in Fields PROVE IsFiniteSet(RowsOf(f)') /\ IsFiniteSet(ReadersOf(f)')
        <3>1. /\ RowsOf(f)' \in {RowsOf(f), RowsOf(f) \cup {EventOf(w)}}
              /\ ReadersOf(f)' \in {ReadersOf(f), ReadersOf(f) \cup {ReaderOf[job[w]]}}
            BY <2>1, Added
        <3>2. IsFiniteSet(RowsOf(f)) /\ IsFiniteSet(ReadersOf(f))
            BY DEF FiniteLog
        <3>3. IsFiniteSet(RowsOf(f) \cup {EventOf(w)}) /\ IsFiniteSet(ReadersOf(f) \cup {ReaderOf[job[w]]})
            BY <3>2, FS_AddElement
        <3> QED BY <3>1, <3>2, <3>3
    <2>3. IsFiniteSet(HardRows')
        <3>1. HardRows' \in {HardRows, HardRows \cup {job[w]}}
            BY <2>1, Added
        <3> QED BY <3>1, FS_AddElement DEF FiniteLog
    <2>4. ASSUME NEW f \in {"opens", "clicks"} PROVE PeopleOf(f)' \subseteq ReadersOf(f)'
        <3>1. f \in Fields /\ PeopleOf(f) \subseteq ReadersOf(f) /\ ReadersOf(f) \subseteq ReadersOf(f)'
            BY <2>1, Added DEF FiniteLog, Fields
        <3>2. CASE PutEvent(w)
            <4>1. people' = people
                BY <3>2 DEF PutEvent
            <4> QED BY <3>1, <4>1 DEF PeopleOf
        <3>3. CASE AppendCounted(w)
            BY <2>1, <3>1, <3>3, PeopleAdded, Added
        <3> QED BY <1>2, <3>2, <3>3
    <2> QED BY <2>2, <2>3, <2>4 DEF FiniteLog
<1> QED BY <1>1, <1>2, LogSteps

LEMMA CountedFinite ==
    ASSUME FiniteLog, NEW f \in Fields
    PROVE  IsFiniteSet(CountedOf(f)) /\ Cardinality(CountedOf(f)) \in Nat
<1>1. IsFiniteSet(CountedOf(f))
    BY FS_Subset DEF FiniteLog, CountedOf
<1> QED BY <1>1, FS_CardinalityType

LEMMA CountedGrow ==
    ASSUME TypeInv, FiniteLog, FiniteLog', [Next]_vars, NEW f \in Fields
    PROVE  /\ CountedOf(f) \subseteq CountedOf(f)'
           /\ Cardinality(CountedOf(f)) <= Cardinality(CountedOf(f)')
           /\ Cardinality(CountedOf(f)) \in Nat /\ Cardinality(CountedOf(f)') \in Nat
<1>1. people \subseteq people' /\ log \subseteq log'
    BY LogSteps DEF PutEvent, AppendCounted
<1>2. CountedOf(f) \subseteq CountedOf(f)'
    BY <1>1 DEF CountedOf, PeopleOf, RowsOf
<1>3. IsFiniteSet(CountedOf(f)) /\ IsFiniteSet(CountedOf(f)')
    BY CountedFinite, FS_Subset DEF FiniteLog, CountedOf
<1> QED BY <1>2, <1>3, FS_Subset, FS_CardinalityType

\* The append counts what it adds.
LEMMA CountedOnce ==
    ASSUME TypeInv, FiniteLog, NEW w \in Workers, AppendCounted(w), NEW f, f = FieldOf(job[w])
    PROVE  Cardinality(CountedOf(f)') = Cardinality(CountedOf(f)) + 1
<1>1. /\ f \in Fields /\ pc[w] # "idle" /\ job[w] \in Notices
      /\ CountsPeople(job[w]) <=> f \in {"opens", "clicks"}
    BY HandType, NoticeType DEF AppendCounted
<1>2. log' = log \cup {EventOf(w)} /\ EventOf(w) \notin log
    BY DEF AppendCounted, Seen
<1>3. PICK x : x \notin CountedOf(f) /\ CountedOf(f)' = CountedOf(f) \cup {x}
    <2>1. CASE CountsPeople(job[w])
        <3>1. ReaderOf[job[w]] \notin PeopleOf(f)
            BY <2>1 DEF AppendCounted, Repeat, PeopleOf
        <3>2. PeopleOf(f)' = PeopleOf(f) \cup {ReaderOf[job[w]]}
            BY <1>1, <2>1, PeopleAdded
        <3> QED BY <1>1, <2>1, <3>1, <3>2 DEF CountedOf
    <2>2. CASE ~CountsPeople(job[w])
        <3>1. RowsOf(f)' = RowsOf(f) \cup {EventOf(w)} /\ EventOf(w) \notin RowsOf(f)
            BY <1>1, <1>2, Added DEF RowsOf
        <3> QED BY <1>1, <2>2, <3>1 DEF CountedOf
    <2> QED BY <2>1, <2>2
<1> QED BY <1>1, <1>3, CountedFinite, FS_AddElement

LEMMA NextBacked ==
    TypeInv /\ FiniteLog /\ FiniteLog' /\ RowsBacked /\ [Next]_vars => RowsBacked'
<1> SUFFICES ASSUME TypeInv, FiniteLog, FiniteLog', RowsBacked, [Next]_vars PROVE RowsBacked'
    OBVIOUS
<1>t. TypeOK
    BY DEF TypeInv
<1>r. row \in Rows /\ snap \in [Workers -> Rows] /\ esnap \in [Editors -> Rows]
    BY <1>t DEF TypeOK
<1> DEFINE Kept(r) == \A f \in Fields : r.counters[f] <= Cardinality(CountedOf(f)')
\* Whatever was backed is backed by more.
<1>1. ASSUME NEW r \in Rows, Backed(r) PROVE Kept(r)
    <2> SUFFICES ASSUME NEW f \in Fields PROVE r.counters[f] <= Cardinality(CountedOf(f)')
        OBVIOUS
    <2>1. r.counters[f] \in Nat /\ r.counters[f] <= Cardinality(CountedOf(f))
        BY <1>1 DEF Rows, Backed
    <2> QED BY <2>1, CountedGrow
<1>2. Kept(NoRow)
    <2>1. NoRow \in Rows /\ Backed(NoRow)
        BY CountedFinite DEF NoRow, Rows, Zero, Backed
    <2> QED BY <1>1, <2>1
<1>3. Kept(row) /\ (\A w \in Workers : Kept(snap[w])) /\ (\A e \in Editors : Kept(esnap[e]))
    BY <1>1, <1>r DEF RowsBacked
<1>4. Kept(row')
    <2>1. CASE row' = row
        BY <1>3, <2>1
    <2>2. ASSUME NEW w \in Workers, AppendCounted(w) PROVE Kept(row')
        <3> SUFFICES ASSUME NEW g \in Fields PROVE row'.counters[g] <= Cardinality(CountedOf(g)')
            OBVIOUS
        <3>1. FieldOf(job[w]) \in Fields
            BY <2>2, HandType, NoticeType DEF AppendCounted
        <3>2. row'.counters = Bump(row.counters, FieldOf(job[w])) /\ row.counters \in [Fields -> Nat]
            BY <1>r, <2>2 DEF AppendCounted, Rows
        <3>3. CASE g = FieldOf(job[w])
            <4>1. row'.counters[g] = row.counters[g] + 1
                BY <3>1, <3>2, <3>3, BumpType
            <4>2. row.counters[g] <= Cardinality(CountedOf(g))
                BY DEF RowsBacked, Backed
            <4>3. Cardinality(CountedOf(g)') = Cardinality(CountedOf(g)) + 1
                BY <2>2, <3>3, CountedOnce
            <4>4. row.counters[g] \in Nat /\ Cardinality(CountedOf(g)) \in Nat
                BY <3>2, CountedFinite
            <4> QED BY <4>1, <4>2, <4>3, <4>4
        <3>4. CASE g # FieldOf(job[w])
            BY <1>3, <3>1, <3>2, <3>4, BumpType
        <3> QED BY <3>3, <3>4
    <2>3. ASSUME NEW w \in Workers, HaltPut(w) PROVE Kept(row')
        <3>1. row'.counters = snap[w].counters
            BY <1>r, <2>3 DEF HaltPut, Rows
        <3> QED BY <1>3, <3>1
    <2>4. ASSUME NEW e \in Editors, EditPut(e) PROVE Kept(row')
        <3>1. row'.counters = esnap[e].counters
            BY <1>r, <2>4 DEF EditPut, Rows
        <3> QED BY <1>3, <3>1
    <2>5. \/ row' = row
          \/ \E w \in Workers : AppendCounted(w) \/ HaltPut(w)
          \/ \E e \in Editors : EditPut(e)
        BY DEF Next, WorkerStep, Receive, Ack, Crash, Bar, Flip, AppendSeen, AppendRepeat, AppendRowless,
               PutEvent, Register, Stamp, Check, HaltRead, MarkHalted, EditRead, vars, rowVars
    <2> HIDE DEF Kept
    <2> QED BY <2>1, <2>2, <2>3, <2>4, <2>5
<1>5. ASSUME NEW w \in Workers PROVE Kept(snap'[w])
    <2>1. snap'[w] \in {snap[w], row, NoRow}
        BY <1>r DEF Next, WorkerStep, Receive, Ack, Crash, Forget, Bar, Flip, AppendCounted, AppendSeen,
               AppendRepeat, AppendRowless, PutEvent, Register, Stamp, Check, HaltRead, HaltPut,
               MarkHalted, EditRead, EditPut, vars, workVars
    <2> HIDE DEF Kept
    <2> QED BY <1>2, <1>3, <2>1
<1>6. ASSUME NEW e \in Editors PROVE Kept(esnap'[e])
    <2>1. esnap'[e] \in {esnap[e], row, NoRow}
        BY <1>r DEF Next, WorkerStep, Receive, Ack, Crash, Bar, Flip, AppendCounted, AppendSeen,
               AppendRepeat, AppendRowless, PutEvent, Register, Stamp, Check, HaltRead, HaltPut,
               MarkHalted, EditRead, EditPut, vars, editVars
    <2> HIDE DEF Kept
    <2> QED BY <1>2, <1>3, <2>1
<1> QED BY <1>4, <1>5, <1>6 DEF RowsBacked, Backed

LEMMA InitBacked == Init => FiniteLog /\ RowsBacked
<1> SUFFICES ASSUME Init PROVE FiniteLog /\ RowsBacked
    OBVIOUS
<1>1. log = {} /\ people = {}
    BY DEF Init
<1>2. /\ \A f : RowsOf(f) = {} /\ ReadersOf(f) = {} /\ PeopleOf(f) = {}
      /\ HardRows = {}
    BY <1>1 DEF RowsOf, ReadersOf, PeopleOf, HardRows
<1>3. FiniteLog
    BY <1>2, FS_EmptySet DEF FiniteLog
<1>4. row.counters = Zero /\ (\A w \in Workers : snap[w] = NoRow) /\ (\A e \in Editors : esnap[e] = NoRow)
    BY DEF Init, NoRow
<1>5. \A f \in Fields : Zero[f] = 0 /\ Cardinality(CountedOf(f)) \in Nat
    BY <1>3, CountedFinite DEF Zero
<1> QED BY <1>3, <1>4, <1>5 DEF RowsBacked, Backed, NoRow

THEOREM BackedHold == Spec => [](TypeInv /\ FiniteLog /\ RowsBacked)
<1> QED BY InitType, NextType, InitBacked, NextFinite, NextBacked, PTL DEF Spec

\* On the campaign's row a count never moves without its event, nor twice for one
\* event, nor twice for the opens or clicks of a reader (dynamo.ts:944-956).
THEOREM CountsNeverInflate == Spec => []CountsAreBacked
<1>1. TypeInv /\ FiniteLog /\ RowsBacked => CountsAreBacked
    <2> SUFFICES ASSUME TypeInv, FiniteLog, RowsBacked, NEW f \in Fields
                 PROVE  row.counters[f] <= IF f \in {"opens", "clicks"} THEN Cardinality(ReadersOf(f))
                                           ELSE Cardinality(RowsOf(f))
        BY DEF CountsAreBacked
    <2>1. row.counters[f] \in Nat /\ row.counters[f] <= Cardinality(CountedOf(f))
        BY DEF TypeInv, TypeOK, Rows, RowsBacked, Backed
    <2>2. CASE f \in {"opens", "clicks"}
        <3>1. PeopleOf(f) \subseteq ReadersOf(f) /\ IsFiniteSet(ReadersOf(f))
            BY <2>2 DEF FiniteLog
        <3>2. Cardinality(PeopleOf(f)) <= Cardinality(ReadersOf(f)) /\ Cardinality(ReadersOf(f)) \in Nat
            BY <3>1, FS_Subset, FS_CardinalityType
        <3> QED BY <2>1, <2>2, <3>2, CountedFinite DEF CountedOf
    <2>3. CASE f \notin {"opens", "clicks"}
        BY <2>1, <2>3 DEF CountedOf
    <2> QED BY <2>2, <2>3
<1> QED BY <1>1, BackedHold, PTL

-----------------------------------------------------------------------------
(* Halts.                                                                  *)

\* A save that reads a halted row keeps the halt, and so does every check beside
\* it (admin.ts:219-227).
THEOREM HaltSurvives == Spec => HaltSurvivesLaterSaves
<1>1. ASSUME TypeInv, Traces, [Next]_vars
      PROVE  [Halted /\ SavesSawHalt => Halted' /\ SavesSawHalt']_vars
    <2> SUFFICES ASSUME Next, Halted, SavesSawHalt PROVE Halted' /\ SavesSawHalt'
        BY <1>1
    <2> USE DEF Halted
    <2>t. row \in Rows /\ esnap \in [Editors -> Rows] /\ snap \in [Workers -> Rows]
          /\ epc \in [Editors -> {"idle", "put"}]
        BY <1>1 DEF TypeInv, TypeOK
    <2>1. ASSUME NEW e \in Editors, EditRead(e) PROVE Halted' /\ SavesSawHalt'
        BY <2>1, <2>t DEF EditRead, SavesSawHalt, rowVars
    <2>2. ASSUME NEW e \in Editors, EditPut(e) PROVE Halted' /\ SavesSawHalt'
        <3>1. marker' = marker /\ row'.halted = esnap[e].halted
            BY <2>2, <2>t DEF EditPut, Rows
        <3>2. \A d \in Editors : epc'[d] = "put" => epc[d] = "put" /\ esnap'[d] = esnap[d]
            BY <2>2, <2>t DEF EditPut
        <3> QED BY <2>2, <3>1, <3>2 DEF SavesSawHalt, EditPut
    <2>3. CASE \E w \in Workers : (\E n \in Notices : Receive(w, n)) \/ WorkerStep(w) \/ Crash(w)
        <3>1. UNCHANGED <<epc, esnap>>
            BY <2>3 DEF WorkerStep, Receive, Ack, Crash, Bar, Flip, AppendCounted, AppendSeen, AppendRepeat,
                        AppendRowless, PutEvent, Register, Stamp, Check, HaltRead, HaltPut, MarkHalted, editVars
        <3>2. (marker => marker') /\ (row.halted => row'.halted)
            <4>1. \/ row' = row /\ marker' \in {marker, TRUE}
                  \/ \E w \in Workers : AppendCounted(w) \/ HaltPut(w)
                BY <2>3 DEF WorkerStep, Receive, Ack, Crash, Bar, Flip, AppendSeen, AppendRepeat,
                            AppendRowless, PutEvent, Register, Stamp, Check, HaltRead, MarkHalted, rowVars
            <4>2. ASSUME NEW w \in Workers, AppendCounted(w) PROVE marker' = marker /\ row'.halted = row.halted
                BY <4>2, <2>t DEF AppendCounted, Rows
            <4>3. ASSUME NEW w \in Workers, HaltPut(w) PROVE marker' = marker /\ row'.halted
                BY <4>3, <2>t DEF HaltPut, Rows
            <4> QED BY <4>1, <4>2, <4>3
        <3> QED BY <3>1, <3>2 DEF SavesSawHalt
    <2> QED BY <2>1, <2>2, <2>3 DEF Next
<1> QED BY <1>1, TracesHold, PTL DEF Spec, HaltSurvivesLaterSaves

-----------------------------------------------------------------------------
(* A breach halts.  Hard notices pass three points: appended, tallied       *)
(* (their check may come) and checked.  As long as nothing is halted, the   *)
(* counter that the check reads is at least the number of those that passed *)
(* the point before it, so that the last check to be made sees them all.    *)

AtPlace(n, places) == \E w \in Workers : job[w] = n /\ pc[w] \in places
Tallied == {n \in Notices : Hard(n) /\ (Acknowledged(n) \/ AtPlace(n, Checking \cup {"ack"}))}
Checked == {n \in Notices : Hard(n) /\ (Acknowledged(n) \/ AtPlace(n, {"ack"}))}
Failures(counters) == counters["bounces"] + counters["complaints"]
Unsaved == left["edit"] = Budget["edit"]

\* No two attempts at a hard notice append the same row.
OwnRows ==
    /\ \A e \in log : e.at <= mq[e.notice].receives
    /\ \A w \in Workers :
        pc[w] \notin {"idle"} \cup Recorded /\ Hard(job[w]) => EventOf(w) \notin log
    /\ \A v, w \in Workers :
        v # w /\ pc[v] # "idle" /\ pc[w] # "idle" /\ job[v] = job[w] /\ Hard(job[v]) => at[v] # at[w]

\* Whether there is a row is settled where nobody saves it.
NoSave ==
    /\ left["edit"] <= Budget["edit"]
    /\ Unsaved => \A e \in Editors : epc[e] = "idle"

Rowless ==
    Unsaved => \A w \in Workers :
        /\ pc[w] = "registerOnly" => ~Hard(job[w])
        /\ pc[w] \in {"register", "registerOnly", "putRowless"} => ~row.present
        /\ pc[w] = "haltPut" => row.present

Counted ==
    Unsaved /\ ~Halted =>
        /\ row.present => Cardinality(HardRows) <= Failures(row.counters)
        /\ ~row.present => Cardinality(Tallied) <= Failures(sendId.counters)
        /\ ~row.present /\ ~sendId.known => Tallied = {}
        /\ Cardinality(Checked) < HaltAt

Settled == TypeInv /\ Traces /\ AcknowledgedInFull /\ FiniteLog

\* Steps other than a receive take an invocation forward, or end it.
LEMMA Forward ==
    ASSUME TypeInv, [Next]_vars, ~\E w \in Workers, n \in Notices : Receive(w, n),
           NEW v \in Workers, pc'[v] # "idle"
    PROVE  /\ pc[v] # "idle" /\ job'[v] = job[v] /\ at'[v] = at[v]
           /\ pc[v] \in Recorded => pc'[v] \in Recorded
<1> USE DEF TypeInv, TypeOK, Goto
<1>1. CASE UNCHANGED <<pc, job, at>>
    BY <1>1
<1>2. ASSUME NEW w \in Workers, WorkerStep(w) \/ Crash(w)
      PROVE  /\ pc[v] # "idle" /\ job'[v] = job[v] /\ at'[v] = at[v]
             /\ pc[v] \in Recorded => pc'[v] \in Recorded
    <2>1. CASE v # w
        BY <1>2, <2>1, OthersStay
    <2>2. CASE v = w
        <3>1. ~(Ack(w) \/ Crash(w))
            BY <2>2, ForgetType DEF Ack, Crash
        <3>2. CASE Bar(w) \/ Flip(w) \/ Stamp(w) \/ AppendRepeat(w) \/ AppendRowless(w)
            BY <2>2, <3>2 DEF Bar, Flip, Stamp, AppendRepeat, AppendRowless, workVars, Recorded
        <3>3. CASE AppendCounted(w) \/ AppendSeen(w) \/ PutEvent(w) \/ Register(w)
            BY <2>2, <3>3 DEF AppendCounted, AppendSeen, PutEvent, Register, AfterAppend, workVars, Recorded
        <3>4. CASE Check(w) \/ HaltRead(w) \/ HaltPut(w) \/ MarkHalted(w)
            BY <2>2, <3>4 DEF Check, HaltRead, HaltPut, MarkHalted, workVars, Recorded
        <3> QED BY <1>2, <3>1, <3>2, <3>3, <3>4 DEF WorkerStep
    <2> QED BY <2>1, <2>2
<1>3. CASE \E e \in Editors : EditRead(e) \/ EditPut(e)
    BY <1>1, <1>3 DEF EditRead, EditPut, workVars
<1>4. CASE UNCHANGED vars
    BY <1>1, <1>4 DEF vars
<1> QED BY <1>2, <1>3, <1>4 DEF Next

LEMMA ReceivesGrow ==
    ASSUME TypeInv, [Next]_vars, NEW n \in Notices
    PROVE  mq[n].receives <= mq'[n].receives /\ mq[n].receives \in Nat /\ mq'[n].receives \in Nat
<1>t. TypeOK /\ MaxReceives \in Nat
    BY EventAssumption DEF TypeInv
<1>1. mq[n].receives \in Nat
    BY <1>t DEF TypeOK
<1>2. ASSUME NEW w \in Workers, NEW m \in Notices, Receive(w, m)
      PROVE  mq'[n].receives \in {mq[n].receives, mq[n].receives + 1}
    BY <1>2, <1>t DEF Receive, TypeOK
<1>3. ASSUME NEW w \in Workers, Ack(w) \/ Crash(w) PROVE mq'[n].receives = mq[n].receives
    <2>1. job[w] \in Notices
        BY <1>3, HandType DEF Ack, Crash
    <2> QED BY <1>3, <1>t, <2>1 DEF Ack, Crash, TypeOK
<1>4. mq' = mq \/ \E w \in Workers : Ack(w) \/ Crash(w) \/ \E m \in Notices : Receive(w, m)
    BY DEF Next, WorkerStep, Bar, Flip, AppendCounted, AppendSeen, AppendRepeat, AppendRowless, PutEvent,
           Register, Stamp, Check, HaltRead, HaltPut, MarkHalted, EditRead, EditPut, vars
<1> QED BY <1>1, <1>2, <1>3, <1>4

LEMMA NextOwnRows == TypeInv /\ OwnRows /\ [Next]_vars => OwnRows'
<1> SUFFICES ASSUME TypeInv, OwnRows, [Next]_vars PROVE OwnRows'
    OBVIOUS
<1>t. TypeOK
    BY DEF TypeInv
<1>1. CASE \E w \in Workers, n \in Notices : Receive(w, n)
    <2>1. PICK w \in Workers, n \in Notices : Receive(w, n)
        BY <1>1
    <2>2. /\ log' = log /\ job'[w] = n /\ mq[n].receives \in Nat
          /\ Hard(n) => at'[w] = mq[n].receives + 1
        <3>1. Hard(n) => ~Identified(n)
            BY NoticeType
        <3> QED BY <1>t, <2>1, <3>1, ReceivesGrow DEF Receive, TypeOK, eventVars
    <2>3. ASSUME NEW e \in log' PROVE e.at <= mq'[e.notice].receives
        <3>1. e \in [notice : Notices, at : 1..MaxReceives] /\ e.at <= mq[e.notice].receives
            BY <1>t, <2>2, <2>3 DEF TypeOK, OwnRows
        <3>2. MaxReceives \in Nat
            BY EventAssumption
        <3> QED BY <3>1, <3>2, ReceivesGrow
    <2>4. \A v \in Workers : v # w => pc'[v] = pc[v] /\ job'[v] = job[v] /\ at'[v] = at[v]
        BY <2>1, OthersStay
    <2>5. ASSUME NEW v \in Workers, pc'[v] \notin {"idle"} \cup Recorded, Hard(job'[v])
          PROVE  EventOf(v)' \notin log'
        <3>1. CASE v = w
            <4>1. [notice |-> n, at |-> mq[n].receives + 1] \notin log
                <5>1. \A e \in log : e.notice = n => e.at <= mq[n].receives
                    BY DEF OwnRows
                <5> QED BY <2>2, <5>1
            <4> QED BY <2>2, <2>5, <3>1, <4>1 DEF EventOf
        <3>2. CASE v # w
            BY <2>2, <2>4, <2>5, <3>2 DEF OwnRows, EventOf
        <3> QED BY <3>1, <3>2
    <2>6. ASSUME NEW v \in Workers, v # w, pc'[v] # "idle", job'[v] = n, Hard(n) PROVE at'[v] # at'[w]
        <3>1. at[v] \in 1..mq[n].receives /\ at'[v] = at[v]
            BY <2>4, <2>6 DEF TypeInv, InHand
        <3> QED BY <2>2, <2>6, <3>1
    <2>7. ASSUME NEW u \in Workers, NEW v \in Workers, u # v, pc'[u] # "idle", pc'[v] # "idle",
                 job'[u] = job'[v], Hard(job'[u])
          PROVE  at'[u] # at'[v]
        BY <2>2, <2>4, <2>6, <2>7 DEF OwnRows
    <2> QED BY <2>3, <2>5, <2>7 DEF OwnRows
<1>2. CASE ~\E w \in Workers, n \in Notices : Receive(w, n)
    <2>1. \A v \in Workers : pc'[v] # "idle" =>
            /\ pc[v] # "idle" /\ job'[v] = job[v] /\ at'[v] = at[v]
            /\ pc[v] \in Recorded => pc'[v] \in Recorded
        BY <1>2, Forward
    <2>2. ASSUME NEW e \in log' PROVE e.at <= mq'[e.notice].receives
        <3>1. CASE e \in log
            <4>1. e \in [notice : Notices, at : 1..MaxReceives] /\ e.at <= mq[e.notice].receives
                BY <1>t, <3>1 DEF TypeOK, OwnRows
            <4>2. MaxReceives \in Nat
                BY EventAssumption
            <4> QED BY <4>1, <4>2, ReceivesGrow
        <3>2. CASE e \notin log
            <4>1. PICK w \in Workers : pc[w] # "idle" /\ e = EventOf(w)
                BY <2>2, <3>2, LogSteps DEF PutEvent, AppendCounted
            <4>2. job[w] \in Notices /\ at[w] \in 1..mq[job[w]].receives /\ e.at = at[w] /\ e.notice = job[w]
                BY <4>1 DEF TypeInv, InHand, EventOf
            <4> QED BY <4>2, ReceivesGrow
        <3> QED BY <3>1, <3>2
    <2>3. ASSUME NEW v \in Workers, pc'[v] \notin {"idle"} \cup Recorded, Hard(job'[v])
          PROVE  EventOf(v)' \notin log'
        <3>1. EventOf(v)' = EventOf(v) /\ EventOf(v) \notin log /\ pc[v] # "idle" /\ Hard(job[v])
            BY <2>1, <2>3 DEF OwnRows, EventOf
        <3>2. ASSUME NEW w \in Workers, PutEvent(w) \/ AppendCounted(w) PROVE EventOf(v) \notin log'
            <4>1. pc[w] # "idle" /\ log' = log \cup {EventOf(w)}
                BY <3>2 DEF PutEvent, AppendCounted
            <4>2. v # w
                BY <1>t, <2>3, <3>2 DEF PutEvent, AppendCounted, Goto, AfterAppend, Recorded, TypeOK
            <4>3. EventOf(v) # EventOf(w)
                BY <3>1, <4>1, <4>2 DEF OwnRows, EventOf
            <4> QED BY <3>1, <4>1, <4>3
        <3> QED BY <3>1, <3>2, LogSteps
    <2> QED BY <2>1, <2>2, <2>3 DEF OwnRows
<1> QED BY <1>1, <1>2

LEMMA NextNoSave == TypeInv /\ NoSave /\ [Next]_vars => NoSave'
<1> SUFFICES ASSUME TypeInv, NoSave, [Next]_vars PROVE NoSave'
    OBVIOUS
<1>t. left \in [Disturbances -> Nat] /\ Budget["edit"] \in Nat /\ left["edit"] \in Nat
    BY EventAssumption DEF TypeInv, TypeOK, Disturbances
<1>1. ASSUME NEW e \in Editors, EditRead(e) PROVE NoSave'
    <2>1. left'["edit"] = left["edit"] - 1
        BY <1>1, <1>t DEF EditRead, Spend, Disturbances
    <2> QED BY <1>t, <2>1 DEF NoSave, Unsaved
<1>2. ASSUME NEW e \in Editors, EditPut(e) PROVE NoSave'
    BY <1>2, <1>t DEF EditPut, NoSave, Unsaved, TypeInv, TypeOK
<1>3. CASE ~\E e \in Editors : EditRead(e) \/ EditPut(e)
    <2>1. UNCHANGED epc /\ left'["edit"] = left["edit"]
        BY <1>3, <1>t DEF Next, WorkerStep, Receive, Ack, Crash, Spend, Bar, Flip, AppendCounted, AppendSeen,
               AppendRepeat, AppendRowless, PutEvent, Register, Stamp, Check, HaltRead, HaltPut, MarkHalted,
               editVars, vars, Disturbances
    <2> QED BY <2>1 DEF NoSave, Unsaved
<1> QED BY <1>1, <1>2, <1>3

\* Until a save, there is none under way, and every step is an invocation's.
LEMMA UnsavedSteps ==
    ASSUME TypeInv, NoSave, [Next]_vars, Unsaved'
    PROVE  /\ Unsaved
           /\ \/ \E w \in Workers : (\E n \in Notices : Receive(w, n)) \/ WorkerStep(w) \/ Crash(w)
              \/ UNCHANGED vars
<1>t. left \in [Disturbances -> Nat] /\ Budget["edit"] \in Nat /\ left["edit"] \in Nat
    BY EventAssumption DEF TypeInv, TypeOK, Disturbances
<1>1. ASSUME NEW e \in Editors, EditRead(e) PROVE FALSE
    <2>1. left'["edit"] = left["edit"] - 1
        BY <1>1, <1>t DEF EditRead, Spend, Disturbances
    <2> QED BY <1>t, <2>1 DEF NoSave, Unsaved
<1>2. ASSUME NEW e \in Editors, EditPut(e) PROVE FALSE
    BY <1>2 DEF EditPut, NoSave, Unsaved
<1>3. left'["edit"] = left["edit"]
    BY <1>1, <1>2, <1>t DEF Next, WorkerStep, Receive, Ack, Crash, Spend, Bar, Flip, AppendCounted, AppendSeen,
           AppendRepeat, AppendRowless, PutEvent, Register, Stamp, Check, HaltRead, HaltPut, MarkHalted,
           vars, Disturbances
<1> QED BY <1>1, <1>2, <1>3 DEF Next, Unsaved

LEMMA RowStays ==
    ASSUME Settled, NoSave, Rowless, [Next]_vars, Unsaved'
    PROVE  row'.present = row.present /\ (row.halted => row'.halted) /\ (marker => marker')
<1>t. row \in Rows /\ snap \in [Workers -> Rows]
    BY DEF Settled, TypeInv, TypeOK
<1>1. ASSUME NEW w \in Workers, AppendCounted(w)
      PROVE  row'.present = row.present /\ row'.halted = row.halted /\ marker' = marker
    BY <1>1, <1>t DEF AppendCounted, Rows
<1>2. ASSUME NEW w \in Workers, HaltPut(w) PROVE row'.present = row.present /\ row'.halted /\ marker' = marker
    <2>1. snap[w].present /\ row.present
        BY <1>2, UnsavedSteps DEF Settled, Traces, TracesOf, HaltPut, Rowless
    <2>2. row'.present = snap[w].present /\ row'.halted
        BY <1>2, <1>t DEF HaltPut, Rows
    <2>3. snap[w].present \in BOOLEAN /\ row.present \in BOOLEAN
        BY <1>t DEF Rows
    <2> QED BY <1>2, <2>1, <2>2, <2>3 DEF HaltPut
<1>3. \/ row' = row /\ marker' \in {marker, TRUE}
      \/ \E w \in Workers : AppendCounted(w) \/ HaltPut(w)
    BY UnsavedSteps
       DEF Settled, WorkerStep, Receive, Ack, Crash, Bar, Flip, AppendSeen, AppendRepeat,
           AppendRowless, PutEvent, Register, Stamp, Check, HaltRead, MarkHalted, rowVars, vars
<1> QED BY <1>1, <1>2, <1>3

LEMMA NextRowless == Settled /\ NoSave /\ OwnRows /\ Rowless /\ [Next]_vars => Rowless'
<1> SUFFICES ASSUME Settled, NoSave, OwnRows, Rowless, [Next]_vars, Unsaved', NEW v \in Workers
             PROVE  /\ pc'[v] = "registerOnly" => ~Hard(job'[v])
                    /\ pc'[v] \in {"register", "registerOnly", "putRowless"} => ~row'.present
                    /\ pc'[v] = "haltPut" => row'.present
    BY DEF Rowless
<1> DEFINE Goal == /\ pc'[v] = "registerOnly" => ~Hard(job'[v])
                   /\ pc'[v] \in {"register", "registerOnly", "putRowless"} => ~row'.present
                   /\ pc'[v] = "haltPut" => row'.present
<1>p. row'.present = row.present
    BY RowStays
<1>t. TypeInv /\ TypeOK /\ Unsaved
    BY UnsavedSteps DEF Settled, TypeInv
<1>1. ASSUME pc'[v] = pc[v], job'[v] = job[v] PROVE Goal
    BY <1>1, <1>p, <1>t DEF Rowless
<1>2. ASSUME NEW w \in Workers, (\E n \in Notices : Receive(w, n)) \/ WorkerStep(w) \/ Crash(w) PROVE Goal
    <2>1. CASE v # w
        BY <1>1, <1>2, <1>t, <2>1, OthersStay
    <2>2. CASE v = w
        <3> USE DEF TypeOK, Goto
        <3>1. CASE Ack(w) \/ Crash(w) \/ \E n \in Notices : Receive(w, n)
            <4>1. pc'[v] \in {"idle", "bar", "append"}
                BY <1>t, <2>2, <3>1, ForgetType DEF Ack, Crash, Receive
            <4> QED BY <4>1
        <3>2. CASE Bar(w) \/ Flip(w) \/ Stamp(w) \/ AppendRepeat(w) \/ AppendCounted(w) \/ Register(w)
                   \/ Check(w) \/ HaltPut(w) \/ MarkHalted(w)
            <4>1. pc'[v] \notin {"register", "registerOnly", "putRowless", "haltPut"}
                BY <1>t, <2>2, <3>2 DEF Bar, Flip, Stamp, AppendRepeat, AppendCounted, Register, Check, HaltPut,
                                        MarkHalted, AfterAppend
            <4> QED BY <4>1
        <3>3. CASE AppendSeen(w)
            <4>1. ~Hard(job[w]) /\ job' = job
                BY <2>2, <3>3 DEF AppendSeen, Seen, OwnRows, Recorded, workVars
            <4>2. pc'[v] \in {"registerOnly", "stamp", "check", "ack"} /\ (pc'[v] = "registerOnly" => ~row.present)
                BY <1>t, <2>2, <3>3 DEF AppendSeen, AfterAppend
            <4> QED BY <1>p, <2>2, <4>1, <4>2
        <3>4. CASE AppendRowless(w)
            BY <1>t, <1>p, <2>2, <3>4 DEF AppendRowless
        <3>5. CASE PutEvent(w)
            BY <1>t, <1>p, <2>2, <3>5 DEF PutEvent, AfterAppend, Rowless
        <3>6. CASE HaltRead(w)
            BY <1>t, <1>p, <2>2, <3>6 DEF HaltRead
        <3> QED BY <1>2, <3>1, <3>2, <3>3, <3>4, <3>5, <3>6 DEF WorkerStep
    <2> QED BY <2>1, <2>2
<1>3. CASE UNCHANGED vars
    BY <1>1, <1>3 DEF vars
<1> QED BY <1>2, <1>3, <1>t, UnsavedSteps

\* What is tallied was appended, so there are finitely many.
PassFinite ==
    /\ Checked \subseteq Tallied /\ Tallied \subseteq HardRows
    /\ IsFiniteSet(HardRows) /\ IsFiniteSet(Tallied) /\ IsFiniteSet(Checked)
    /\ Cardinality(Tallied) \in Nat /\ Cardinality(Checked) \in Nat /\ Cardinality(HardRows) \in Nat
    /\ Cardinality(Checked) <= Cardinality(Tallied) /\ Cardinality(Tallied) <= Cardinality(HardRows)

LEMMA TalliedFinite == Settled => PassFinite
<1> SUFFICES ASSUME Settled PROVE PassFinite
    OBVIOUS
<1>1. Checked \subseteq Tallied
    BY DEF Checked, Tallied, AtPlace
<1>2. Tallied \subseteq HardRows
    BY DEF Settled, Tallied, HardRows, AtPlace, AcknowledgedInFull, Traces, TracesOf, Checking, Recorded
<1>3. IsFiniteSet(HardRows)
    BY DEF Settled, FiniteLog
<1>4. IsFiniteSet(Tallied) /\ Cardinality(Tallied) <= Cardinality(HardRows)
    BY <1>2, <1>3, FS_Subset
<1>5. IsFiniteSet(Checked) /\ Cardinality(Checked) <= Cardinality(Tallied)
    BY <1>1, <1>4, FS_Subset
<1> QED BY <1>1, <1>2, <1>3, <1>4, <1>5, FS_CardinalityType DEF PassFinite

LEMMA TalliedFiniteNext == Settled' => PassFinite'
BY TalliedFinite, PTL

\* How a notice comes to be tallied, or checked.
LEMMA Enters ==
    ASSUME TypeInv, [Next]_vars, NEW places, "idle" \notin places, {"bar", "append"} \cap places = {},
           "ack" \in places, NEW n \in Notices,
           Acknowledged(n)' \/ AtPlace(n, places)',
           ~(Acknowledged(n) \/ AtPlace(n, places))
    PROVE  \E w \in Workers : /\ WorkerStep(w) /\ job[w] = n /\ pc[w] # "idle"
                              /\ pc[w] \notin places /\ pc'[w] \in places
<1>1. ~Acknowledged(n)'
    <2> SUFFICES ASSUME Acknowledged(n)' PROVE FALSE
        OBVIOUS
    <2>1. PICK w \in Workers : Ack(w) /\ job[w] = n
        BY WhoAcknowledges
    <2> QED BY <2>1 DEF Ack, AtPlace
<1>2. PICK v \in Workers : job'[v] = n /\ pc'[v] \in places
    BY <1>1 DEF AtPlace
<1>3. ~(job[v] = n /\ pc[v] \in places)
    BY DEF AtPlace
<1>4. ASSUME NEW w \in Workers, WorkerStep(w) \/ Crash(w) \/ \E m \in Notices : Receive(w, m)
      PROVE  v = w
    BY <1>2, <1>3, <1>4, OthersStay
<1>5. ASSUME NEW m \in Notices, Receive(v, m) PROVE FALSE
    BY <1>2, <1>5 DEF Receive, Goto, TypeInv, TypeOK
<1>6. ~Crash(v)
    BY <1>2, ForgetType DEF Crash
<1>7. WorkerStep(v)
    <2>1. ~(UNCHANGED vars \/ \E e \in Editors : EditRead(e) \/ EditPut(e))
        BY <1>2, <1>3 DEF EditRead, EditPut, vars, workVars
    <2> QED BY <1>4, <1>5, <1>6, <2>1 DEF Next
<1>8. job'[v] = job[v] /\ pc[v] # "idle"
    <2>1. ~\E w \in Workers, m \in Notices : Receive(w, m)
        BY <1>4, <1>5
    <2> QED BY <1>2, <2>1, Forward
<1> QED BY <1>2, <1>3, <1>7, <1>8

LEMMA EntersTallied ==
    ASSUME Settled, Rowless, Unsaved, OwnRows, [Next]_vars, NEW n \in Tallied', n \notin Tallied, ~row.present
    PROVE  \E w \in Workers : Register(w) /\ pc[w] = "register" /\ job[w] = n
<1>1. PICK w \in Workers : /\ WorkerStep(w) /\ job[w] = n /\ pc[w] # "idle"
                           /\ pc[w] \notin Checking \cup {"ack"} /\ pc'[w] \in Checking \cup {"ack"}
    BY Enters DEF Tallied, Settled, Checking
<1>2. Hard(job[w]) /\ job[w] \in Notices /\ ~CountsPeople(job[w])
    BY <1>1, NoticeType DEF Tallied
<1> USE DEF Settled, TypeInv, TypeOK, Goto
<1>3. pc[w] \notin {"stamp", "putRepeat"}
    BY <1>2 DEF InHand
<1>4. ~(Bar(w) \/ Flip(w) \/ AppendRepeat(w) \/ AppendRowless(w))
    BY <1>1 DEF Bar, Flip, AppendRepeat, AppendRowless, Checking
<1>5. ~(AppendCounted(w) \/ AppendSeen(w))
    BY <1>1 DEF AppendCounted, AppendSeen, Checking
<1>6. ~PutEvent(w)
    BY <1>1, <1>3 DEF PutEvent, Checking
<1>7. ~(Stamp(w) \/ Check(w) \/ HaltRead(w) \/ HaltPut(w) \/ MarkHalted(w) \/ Ack(w))
    BY <1>1, <1>3 DEF Stamp, Check, HaltRead, HaltPut, MarkHalted, Ack, Checking
<1>8. Register(w)
    BY <1>1, <1>4, <1>5, <1>6, <1>7 DEF WorkerStep
<1> QED BY <1>1, <1>2, <1>8 DEF Register, Rowless

LEMMA EntersChecked ==
    ASSUME Settled, [Next]_vars, NEW n \in Checked', n \notin Checked, ~Halted'
    PROVE  \E w \in Workers : Check(w) /\ ~Breached(StoredCounters) /\ job[w] = n
<1>1. PICK w \in Workers : /\ WorkerStep(w) /\ job[w] = n /\ pc[w] # "idle"
                           /\ pc[w] \notin {"ack"} /\ pc'[w] \in {"ack"}
    BY Enters DEF Checked, Settled
<1>2. Hard(job[w]) /\ job[w] \in Notices /\ ~CountsPeople(job[w])
    BY <1>1, NoticeType DEF Checked
<1> USE DEF Settled, TypeInv, TypeOK, Goto
<1>3. pc[w] # "stamp" /\ AfterAppend(job[w]) = "check"
    BY <1>2 DEF InHand, AfterAppend
<1>4. ~(Bar(w) \/ Flip(w) \/ AppendRepeat(w) \/ AppendRowless(w) \/ Stamp(w) \/ Ack(w))
    BY <1>1, <1>3 DEF Bar, Flip, AppendRepeat, AppendRowless, Stamp, Ack
<1>5. ~(AppendCounted(w) \/ AppendSeen(w) \/ PutEvent(w) \/ Register(w))
    BY <1>1, <1>3 DEF AppendCounted, AppendSeen, PutEvent, Register
<1>6. ~(HaltPut(w) \/ MarkHalted(w))
    BY DEF HaltPut, MarkHalted, Halted, Rows
<1>7. ~HaltRead(w)
    BY <1>1 DEF HaltRead, Halted, rowVars
<1>8. Check(w)
    BY <1>1, <1>4, <1>5, <1>6, <1>7 DEF WorkerStep
<1> QED BY <1>1, <1>8 DEF Check

LEMMA BumpFailures ==
    ASSUME NEW c \in [Fields -> Nat], NEW f \in Fields
    PROVE  /\ Failures(c) \in Nat /\ Failures(Bump(c, f)) \in Nat
           /\ Failures(Bump(c, f)) >= Failures(c)
           /\ f \in {"bounces", "complaints"} => Failures(Bump(c, f)) = Failures(c) + 1
<1>1. /\ "bounces" \in Fields /\ "complaints" \in Fields
      /\ c["bounces"] \in Nat /\ c["complaints"] \in Nat
    BY DEF Fields
<1>2. CASE f = "bounces"
    BY <1>1, <1>2, BumpType DEF Failures
<1>3. CASE f = "complaints"
    BY <1>1, <1>3, BumpType DEF Failures
<1>4. CASE f \notin {"bounces", "complaints"}
    BY <1>1, <1>4, BumpType DEF Failures
<1> QED BY <1>2, <1>3, <1>4

\* The row's failures keep up with what is appended.
LEMMA RowKeepsUp ==
    ASSUME Settled, Settled', Rowless, [Next]_vars, Unsaved, ~Halted',
           row.present, Cardinality(HardRows) <= Failures(row.counters),
           \/ \E w \in Workers : (\E n \in Notices : Receive(w, n)) \/ WorkerStep(w) \/ Crash(w)
           \/ UNCHANGED vars
    PROVE  Cardinality(HardRows') <= Failures(row'.counters)
<1>t. TypeInv /\ row \in Rows /\ snap \in [Workers -> Rows]
    BY DEF Settled, TypeInv, TypeOK
<1>1. CASE row' = row /\ log' = log
    BY <1>1 DEF HardRows
<1>2. ASSUME NEW w \in Workers, AppendCounted(w) PROVE Cardinality(HardRows') <= Failures(row'.counters)
    <2>1. /\ pc[w] # "idle" /\ log' = log \cup {EventOf(w)} /\ job[w] \in Notices
          /\ FieldOf(job[w]) \in Fields /\ (Hard(job[w]) => FieldOf(job[w]) \in {"bounces", "complaints"})
        BY <1>2, <1>t, HandType, NoticeType DEF AppendCounted
    <2>2. row'.counters = Bump(row.counters, FieldOf(job[w])) /\ row.counters \in [Fields -> Nat]
        BY <1>t, <1>2 DEF AppendCounted, Rows
    <2>3. /\ Failures(row.counters) \in Nat /\ Failures(row'.counters) \in Nat
          /\ Failures(row'.counters) >= Failures(row.counters)
          /\ Hard(job[w]) => Failures(row'.counters) = Failures(row.counters) + 1
        BY <2>1, <2>2, BumpFailures
    <2>4. IsFiniteSet(HardRows) /\ Cardinality(HardRows) \in Nat
        BY TalliedFinite DEF PassFinite
    <2>5. CASE Hard(job[w])
        <3>1. HardRows' = HardRows \cup {job[w]}
            BY <1>t, <2>1, <2>5, Added
        <3>2. Cardinality(HardRows \cup {job[w]}) <= Cardinality(HardRows) + 1
            <4>1. Cardinality(HardRows \cup {job[w]})
                    = IF job[w] \in HardRows THEN Cardinality(HardRows) ELSE Cardinality(HardRows) + 1
                BY <2>4, FS_AddElement
            <4> QED BY <2>4, <4>1
        <3>3. Cardinality(HardRows \cup {job[w]}) \in Nat
            BY <2>4, FS_AddElement, FS_CardinalityType
        <3> QED BY <2>3, <2>4, <2>5, <3>1, <3>2, <3>3
    <2>6. CASE ~Hard(job[w])
        <3>1. HardRows' = HardRows
            BY <1>t, <2>1, <2>6, Added
        <3> QED BY <2>3, <2>4, <3>1
    <2> QED BY <2>5, <2>6
<1>3. ASSUME NEW w \in Workers, PutEvent(w) PROVE Cardinality(HardRows') <= Failures(row'.counters)
    <2>1. pc[w] = "putRepeat"
        BY <1>3 DEF PutEvent, Rowless
    <2>2. pc[w] # "idle" /\ job[w] \in Notices /\ ~Hard(job[w])
        BY <1>t, <2>1, HandType, NoticeType DEF TypeInv, InHand
    <2>3. HardRows' = HardRows /\ row' = row
        BY <1>3, <1>t, <2>2, Added DEF PutEvent, rowVars
    <2> QED BY <2>3
<1>4. ASSUME NEW w \in Workers, HaltPut(w) PROVE FALSE
    BY <1>4, <1>t DEF HaltPut, Halted, Rows
<1>5. \/ row' = row /\ log' = log
      \/ \E w \in Workers : AppendCounted(w) \/ PutEvent(w) \/ HaltPut(w)
    BY DEF WorkerStep, Receive, Ack, Crash, Bar, Flip, AppendSeen, AppendRepeat,
           AppendRowless, Register, Stamp, Check, HaltRead, MarkHalted, rowVars, eventVars, vars
<1> QED BY <1>1, <1>2, <1>3, <1>4, <1>5

\* So do those of an id without a row with what is tallied.
LEMMA SendIdKeepsUp ==
    ASSUME Settled, Settled', OwnRows, Rowless, [Next]_vars, Unsaved, ~row.present,
           Cardinality(Tallied) <= Failures(sendId.counters), ~sendId.known => Tallied = {}
    PROVE  /\ Cardinality(Tallied') <= Failures(sendId'.counters)
           /\ ~sendId'.known => Tallied' = {}
<1>t. TypeInv /\ sendId \in [known : BOOLEAN, counters : [Fields -> Nat]]
    BY DEF Settled, TypeInv, TypeOK
<1>f. /\ IsFiniteSet(Tallied) /\ Cardinality(Tallied) \in Nat
      /\ IsFiniteSet(Tallied') /\ Cardinality(Tallied') \in Nat
    BY TalliedFinite, TalliedFiniteNext DEF PassFinite
<1>1. CASE \E w \in Workers : Register(w)
    <2>1. PICK w \in Workers : Register(w)
        BY <1>1
    <2>2. job[w] \in Notices /\ FieldOf(job[w]) \in Fields
        BY <1>t, <2>1, HandType, NoticeType DEF Register
    <2>3. /\ sendId'.known
          /\ sendId'.counters = IF pc[w] = "register" THEN Bump(sendId.counters, FieldOf(job[w]))
                                ELSE sendId.counters
        BY <2>1 DEF Register
    <2>4. Tallied' \subseteq Tallied \cup {job[w]}
        <3> SUFFICES ASSUME NEW n \in Tallied', n \notin Tallied PROVE n = job[w]
            OBVIOUS
        <3>1. PICK v \in Workers : Register(v) /\ job[v] = n
            BY EntersTallied
        <3>2. v = w
            BY <1>t, <2>1, <3>1 DEF Register, Goto, AfterAppend, TypeInv, TypeOK
        <3> QED BY <3>1, <3>2
    <2>5. IsFiniteSet(Tallied \cup {job[w]}) /\ Cardinality(Tallied \cup {job[w]}) <= Cardinality(Tallied) + 1
          /\ Cardinality(Tallied \cup {job[w]}) \in Nat
        BY <1>f, FS_AddElement, FS_CardinalityType
    <2>6. Cardinality(Tallied') <= Cardinality(Tallied) + 1
        BY <1>f, <2>4, <2>5, FS_Subset
    <2>7. Failures(sendId.counters) \in Nat
        BY <1>t, <2>2, BumpFailures
    <2>8. CASE Tallied' \subseteq Tallied
        <3>1. Cardinality(Tallied') <= Cardinality(Tallied)
            BY <1>f, <2>8, FS_Subset
        <3>2. Failures(sendId'.counters) >= Failures(sendId.counters) /\ Failures(sendId'.counters) \in Nat
            BY <1>t, <2>2, <2>3, <2>7, BumpFailures
        <3> QED BY <1>f, <2>3, <2>7, <3>1, <3>2
    <2>9. CASE ~(Tallied' \subseteq Tallied)
        <3>1. PICK n \in Tallied' : n \notin Tallied
            BY <2>9
        <3>2. n = job[w] /\ Hard(n) /\ n \in Notices
            BY <2>4, <3>1 DEF Tallied
        <3>3. pc[w] = "register"
            BY <2>1, <3>2 DEF Register, Rowless
        <3>4. Failures(sendId'.counters) = Failures(sendId.counters) + 1
            BY <1>t, <2>2, <2>3, <3>2, <3>3, NoticeType, BumpFailures
        <3> QED BY <1>f, <2>3, <2>6, <2>7, <3>4
    <2> QED BY <2>8, <2>9
<1>2. CASE ~\E w \in Workers : Register(w)
    <2>1. Tallied' \subseteq Tallied
        BY <1>2, EntersTallied
    <2>2. sendId' = sendId
        BY <1>2 DEF Next, WorkerStep, Receive, Ack, Crash, Bar, Flip, AppendCounted, AppendSeen, AppendRepeat,
               AppendRowless, PutEvent, Stamp, Check, HaltRead, HaltPut, MarkHalted, EditRead, EditPut,
               eventVars, vars
    <2>3. Cardinality(Tallied') <= Cardinality(Tallied)
        BY <1>f, <2>1, FS_Subset
    <2>4. Failures(sendId.counters) \in Nat
        BY <1>t DEF Failures, Fields
    <2> QED BY <1>f, <2>1, <2>2, <2>3, <2>4
<1> QED BY <1>1, <1>2

LEMMA NextCounted ==
    Settled /\ Settled' /\ NoSave /\ OwnRows /\ Rowless /\ Counted /\ [Next]_vars => Counted'
<1> SUFFICES ASSUME Settled, Settled', NoSave, OwnRows, Rowless, Counted, [Next]_vars, Unsaved', ~Halted'
             PROVE  (/\ row.present => Cardinality(HardRows) <= Failures(row.counters)
                     /\ ~row.present => Cardinality(Tallied) <= Failures(sendId.counters)
                     /\ ~row.present /\ ~sendId.known => Tallied = {}
                     /\ Cardinality(Checked) < HaltAt)'
    BY DEF Counted
<1>0. TypeInv
    BY DEF Settled
<1>1. Unsaved /\ ~Halted /\ row'.present = row.present
    BY <1>0, UnsavedSteps, RowStays DEF Halted
<1>2. row.present => Cardinality(HardRows') <= Failures(row'.counters)
    BY <1>0, <1>1, UnsavedSteps, RowKeepsUp DEF Counted
<1>3. ~row.present => /\ Cardinality(Tallied') <= Failures(sendId'.counters)
                      /\ ~sendId'.known => Tallied' = {}
    BY <1>1, SendIdKeepsUp DEF Counted
<1>4. Cardinality(Checked') < HaltAt
    <2>t. HaltAt \in Nat
        BY EventAssumption
    <2>f. /\ Cardinality(Checked) \in Nat /\ IsFiniteSet(Checked) /\ Cardinality(Checked') \in Nat
          /\ Checked' \subseteq Tallied' /\ Tallied' \subseteq HardRows'
          /\ IsFiniteSet(Tallied) /\ IsFiniteSet(HardRows) /\ IsFiniteSet(HardRows')
          /\ Cardinality(Tallied) \in Nat /\ Cardinality(HardRows) \in Nat
        BY TalliedFinite, TalliedFiniteNext DEF PassFinite
    <2>1. CASE Checked' \subseteq Checked
        <3>1. Cardinality(Checked') <= Cardinality(Checked)
            BY <2>f, <2>1, FS_Subset
        <3> QED BY <1>1, <2>t, <2>f, <3>1 DEF Counted
    <2>2. CASE ~(Checked' \subseteq Checked)
        <3>1. PICK n \in Checked' : n \notin Checked
            BY <2>2
        <3>2. PICK w \in Workers : Check(w) /\ ~Breached(StoredCounters) /\ job[w] = n
            BY <3>1, EntersChecked
        <3>3. log' = log /\ pc[w] = "check"
            BY <3>2 DEF Check, eventVars
        <3>4. Failures(StoredCounters) \in Nat => Failures(StoredCounters) < HaltAt
            BY <2>t, <3>2 DEF Breached, Failures
        <3>5. CASE row.present
            <4>1. StoredCounters = row.counters /\ row.counters \in [Fields -> Nat]
                BY <3>5 DEF StoredCounters, Settled, TypeInv, TypeOK, Rows
            <4>2. Failures(row.counters) \in Nat
                BY <4>1 DEF Failures, Fields
            <4>3. Checked' \subseteq HardRows
                BY <2>f, <3>3 DEF HardRows
            <4>4. Cardinality(Checked') <= Cardinality(HardRows)
                BY <2>f, <4>3, FS_Subset
            <4>5. Cardinality(HardRows) <= Failures(row.counters)
                BY <1>1, <3>5 DEF Counted
            <4> QED BY <2>t, <2>f, <3>4, <4>1, <4>2, <4>4, <4>5
        <3>6. CASE ~row.present
            <4>1. Tallied' \subseteq Tallied
                <5> SUFFICES ASSUME NEW m \in Tallied', m \notin Tallied PROVE FALSE
                    OBVIOUS
                <5>1. PICK v \in Workers : Register(v)
                    BY <1>1, <3>6, EntersTallied
                <5>2. v = w
                    BY <3>2, <5>1 DEF Settled, TypeInv, TypeOK, Register, Check, Goto, AfterAppend
                <5> QED BY <3>3, <5>1, <5>2 DEF Register
            <4>2. n \in Tallied
                BY <2>f, <3>1, <4>1
            <4>3. sendId.known
                BY <1>1, <3>6, <4>2 DEF Counted
            <4>4. StoredCounters = sendId.counters /\ sendId.counters \in [Fields -> Nat]
                BY <3>6, <4>3 DEF StoredCounters, Settled, TypeInv, TypeOK
            <4>5. Failures(sendId.counters) \in Nat
                BY <4>4 DEF Failures, Fields
            <4>6. Cardinality(Checked') <= Cardinality(Tallied)
                BY <2>f, <4>1, FS_Subset
            <4>7. Cardinality(Tallied) <= Failures(sendId.counters)
                BY <1>1, <3>6 DEF Counted
            <4> QED BY <2>t, <2>f, <3>4, <4>4, <4>5, <4>6, <4>7
        <3> QED BY <3>5, <3>6
    <2> QED BY <2>1, <2>2
<1> QED BY <1>1, <1>2, <1>3, <1>4

LEMMA InitCounted == Init => OwnRows /\ NoSave /\ Rowless /\ Counted
<1> SUFFICES ASSUME Init PROVE OwnRows /\ NoSave /\ Rowless /\ Counted
    OBVIOUS
<1>t. Budget["edit"] \in Nat /\ HaltAt \in Nat \ {0}
    BY EventAssumption DEF Disturbances
<1>1. OwnRows /\ Rowless
    BY DEF Init, OwnRows, Rowless
<1>2. NoSave
    BY <1>t DEF Init, NoSave, Unsaved
<1>3. HardRows = {} /\ Tallied = {} /\ Checked = {}
    BY DEF Init, HardRows, Tallied, Checked, Acknowledged, AtPlace, Checking
<1>4. Failures(row.counters) = 0 /\ Failures(sendId.counters) = 0
    BY DEF Init, NoRow, Zero, Failures, Fields
<1> QED BY <1>t, <1>1, <1>2, <1>3, <1>4, FS_EmptySet DEF Counted

THEOREM CountsKeepUp == Spec => [](Settled /\ NoSave /\ OwnRows /\ Rowless /\ Counted)
<1>1. Init => Settled /\ NoSave /\ OwnRows /\ Rowless /\ Counted
    BY InitType, InitTraces, InitBacked, InitCounted DEF Settled
<1>2. Settled /\ NoSave /\ OwnRows /\ Rowless /\ Counted /\ [Next]_vars
        => (Settled /\ NoSave /\ OwnRows /\ Rowless /\ Counted)'
    <2>1. Settled /\ [Next]_vars => Settled'
        BY NextType, NextTraces, NextInFull, NextFinite DEF Settled
    <2> QED BY <2>1, NextOwnRows, NextNoSave, NextRowless, NextCounted DEF Settled
<1> QED BY <1>1, <1>2, PTL DEF Spec

\* Once as many hard bounces and complaints as the threshold says were
\* acknowledged, the campaign is halted, unless it was saved meanwhile: no
\* interleaving of two checks lets both miss the breach (alerts.ts:119-188).
THEOREM BreachAlwaysHalts == Spec => []BreachHalts
<1>1. Settled /\ Counted => BreachHalts
    <2> SUFFICES ASSUME Settled, Counted, Unsaved, ~Halted,
                        Cardinality({n \in Notices : Hard(n) /\ Acknowledged(n)}) >= HaltAt
                 PROVE  FALSE
        BY DEF BreachHalts, Unsaved
    <2>1. {n \in Notices : Hard(n) /\ Acknowledged(n)} \subseteq Checked
        BY DEF Checked
    <2>2. Cardinality({n \in Notices : Hard(n) /\ Acknowledged(n)}) <= Cardinality(Checked)
          /\ Cardinality({n \in Notices : Hard(n) /\ Acknowledged(n)}) \in Nat
        BY <2>1, TalliedFinite, FS_Subset, FS_CardinalityType DEF PassFinite
    <2> QED BY <2>2, TalliedFinite, EventAssumption DEF Counted, PassFinite
<1> QED BY <1>1, CountsKeepUp, PTL
=============================================================================
