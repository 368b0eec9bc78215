------------------------------ MODULE DripProofs ------------------------------
(***************************************************************************)
(* Proofs about Consent, and about Drip, whose steps are its own and       *)
(* Consent's.                                                              *)
(*                                                                         *)
(* Consent, for any lists, handlers, surfaces and number of requests: type *)
(* correctness, and that feedback and leavings hold.                       *)
(*                                                                         *)
(* Drip, for any lists, handlers, steps, retries and faults: each step is  *)
(* mailed once, an outdated execution mails at most once, and an           *)
(* undisturbed one mails every step.                                       *)
(***************************************************************************)
EXTENDS Drip, TLAPS

-----------------------------------------------------------------------------
(* Type correctness, which rests on what a handler holds: rows of lists it *)
(* has still to write, with the status it sets, and stamped if confirmed.  *)

WellFormed(o) ==
    /\ o.kind = "confirm" => o.to = "confirmed"
    /\ o.kind \in {"leave", "leaveAll"} => o.to = "unsubscribed"
    /\ o.kind \in {"suppress", "lift"} => o.todo = {}
    /\ \A l \in Lists : o.held[l] # NoRow =>
          /\ l \in o.todo
          /\ o.held[l].status = o.to
          /\ o.to = "confirmed" => o.held[l].req > 0

HandlersOK == \A h \in Handlers : InFlight(h) => WellFormed(op[h])

IInv == TypeOK /\ HandlersOK

\* A new handler is one.
LEMMA HandlerType ==
    ASSUME NEW kind \in Kinds, NEW phase \in Phases, NEW todo \in SUBSET Lists, NEW to \in Statuses
    PROVE  /\ Handler(kind, phase, todo, to) \in Op
           /\ Handler(kind, phase, todo, to) # NoOp
BY DEF Handler, Op, NoOp, NothingHeld, Kinds

\* The bounded clock starts at 0.
LEMMA ZeroInstant == 0 \in 0..MaxRequests
BY ConsentAssumption

LEMMA InitType == Init => TypeOK
<1> SUFFICES ASSUME Init PROVE TypeOK
    OBVIOUS
<1>1. sub \in [Lists -> Row \cup {NoRow}] /\ op \in [Handlers -> Op \cup {NoOp}]
    BY DEF Init
<1>2. clock \in 0..MaxRequests
    BY ConsentAssumption DEF Init
<1>3. globalSup \in BOOLEAN /\ reported \in BOOLEAN
    BY DEF Init
<1>4. tokens \subseteq SUBSET Lists /\ enrolled \subseteq 1..MaxRequests /\ left \subseteq Lists
    BY DEF Init
<1>5. acct \in {"active", "suppressed"} /\ orgSup \in {"none", "unsubscribe", "manual"}
    BY DEF Init
<1> QED BY <1>1, <1>2, <1>3, <1>4, <1>5 DEF TypeOK

\* What a handler in flight is made of.
LEMMA OpType ==
    ASSUME TypeOK, NEW h \in Handlers, InFlight(h)
    PROVE  /\ op[h] \in Op
           /\ op[h].kind \in Kinds /\ op[h].todo \in SUBSET Lists /\ op[h].to \in Statuses
           /\ op[h].link \in SUBSET Lists /\ op[h].got \in SUBSET (1..MaxRequests)
           /\ op[h].held \in [Lists -> Row \cup {NoRow}] /\ op[h].at \in Phases
BY DEF TypeOK, InFlight, Op

\* Beginning a handler keeps op's type.
LEMMA BeginType ==
    ASSUME TypeOK, NEW h \in Handlers, NEW o \in Op, Begin(h, o)
    PROVE  op' \in [Handlers -> Op \cup {NoOp}]
BY DEF TypeOK, Begin

\* What is left of a handler that wrote a row.
LEMMA RestType ==
    ASSUME NEW o \in Op
    PROVE  Rest(o) \in Op \cup {NoOp}
BY DEF Rest

LEMMA NextType == IInv /\ [Next]_consentVars => TypeOK'
<1> SUFFICES ASSUME TypeOK, HandlersOK, [Next]_consentVars PROVE TypeOK'
    BY DEF IInv
<1> USE ConsentAssumption
<1>1. CASE UNCHANGED consentVars
    BY <1>1 DEF consentVars, stored, TypeOK
<1>2. ASSUME NEW link \in tokens, ExpireLink(link) PROVE TypeOK'
    BY <1>2 DEF ExpireLink, TypeOK, stored
<1>3. ASSUME NEW h \in Handlers, HandlerStep(h) PROVE TypeOK'
    <2>1. ASSUME NEW ls \in SUBSET Lists, BeginSignup(h, ls) PROVE TypeOK'
        <3>1. op' \in [Handlers -> Op \cup {NoOp}]
            <4>1. PICK phase \in Phases : Begin(h, Handler("signup", phase, ls, "pending"))
                BY <2>1 DEF BeginSignup, Phases
            <4>2. Handler("signup", phase, ls, "pending") \in Op
                BY HandlerType DEF Kinds, Statuses
            <4> QED BY <4>1, <4>2, BeginType
        <3> QED BY <2>1, <3>1 DEF BeginSignup, TypeOK, stored
    <2>2. CASE ClearSuppression(h)
        <3>1. op' \in [Handlers -> Op \cup {NoOp}]
            BY <2>2, OpType DEF ClearSuppression, Is, TypeOK, Op, Phases
        <3> QED BY <2>2, <3>1 DEF ClearSuppression, TypeOK
    <2>3. ASSUME NEW link \in tokens, BeginConfirm(h, link) PROVE TypeOK'
        <3>1. Handler("confirm", "rows", link, "confirmed") \in Op
            BY HandlerType DEF Kinds, Statuses, Phases, TypeOK
        <3>2. op' \in [Handlers -> Op \cup {NoOp}]
            BY <2>3, <3>1, BeginType DEF BeginConfirm
        <3> QED BY <2>3, <3>2 DEF BeginConfirm, TypeOK, stored
    <2>4. ASSUME NEW l \in Lists, BeginLeave(h, l) PROVE TypeOK'
        <3>1. Handler("leave", "rows", {l}, "unsubscribed") \in Op
            BY HandlerType DEF Kinds, Statuses, Phases
        <3>2. op' \in [Handlers -> Op \cup {NoOp}]
            BY <2>4, <3>1, BeginType DEF BeginLeave
        <3> QED BY <2>4, <3>2 DEF BeginLeave, TypeOK, stored
    <2>5. CASE BeginLeaveAll(h)
        <3> DEFINE rows == {l \in Lists : HasRow(l) /\ sub[l].status # "unsubscribed"}
                   heldRows == [l \in Lists |->
                       IF l \in rows THEN [sub[l] EXCEPT !.status = "unsubscribed"] ELSE NoRow]
        <3>1. Handler("leaveAll", "rows", rows, "unsubscribed") \in Op
            BY HandlerType DEF Kinds, Statuses, Phases
        <3>2. heldRows \in [Lists -> Row \cup {NoRow}]
            BY DEF TypeOK, HasRow, Row, Statuses
        <3>3. [Handler("leaveAll", "rows", rows, "unsubscribed") EXCEPT !.held = heldRows] \in Op
            BY <3>1, <3>2 DEF Op
        <3>4. Begin(h, [Handler("leaveAll", "rows", rows, "unsubscribed") EXCEPT !.held = heldRows])
            BY <2>5 DEF BeginLeaveAll
        <3>5. op' \in [Handlers -> Op \cup {NoOp}]
            BY <3>3, <3>4, BeginType
        <3> QED BY <2>5, <3>5 DEF BeginLeaveAll, TypeOK, stored
    <2>6. ASSUME NEW l \in Lists, BeginJoin(h, l) PROVE TypeOK'
        <3>1. Handler("join", "rows", {l}, "confirmed") \in Op
            BY HandlerType DEF Kinds, Statuses, Phases
        <3>2. op' \in [Handlers -> Op \cup {NoOp}]
            BY <2>6, <3>1, BeginType DEF BeginJoin
        <3> QED BY <2>6, <3>2 DEF BeginJoin, TypeOK, stored
    <2>7. ASSUME NEW l \in Lists, NEW status \in Statuses, BeginOverride(h, l, status) PROVE TypeOK'
        <3>1. Handler("override", "rows", {l}, status) \in Op
            BY HandlerType DEF Kinds, Phases
        <3>2. op' \in [Handlers -> Op \cup {NoOp}]
            BY <2>7, <3>1, BeginType DEF BeginOverride
        <3> QED BY <2>7, <3>2 DEF BeginOverride, TypeOK, stored
    <2>8. ASSUME NEW ls \in SUBSET Lists, NEW status \in Statuses, BeginFeedback(h, ls, status)
          PROVE  TypeOK'
        <3>1. Handler("feedback", "flip", ls, status) \in Op
            BY HandlerType DEF Kinds, Phases
        <3>2. op' \in [Handlers -> Op \cup {NoOp}]
            BY <2>8, <3>1, BeginType DEF BeginFeedback
        <3> QED BY <2>8, <3>2 DEF BeginFeedback, TypeOK
    <2>9. CASE BeginSuppress(h)
        <3>1. Handler("suppress", "flip", {}, "pending") \in Op
            BY HandlerType DEF Kinds, Phases, Statuses
        <3>2. op' \in [Handlers -> Op \cup {NoOp}]
            BY <2>9, <3>1, BeginType DEF BeginSuppress
        <3> QED BY <2>9, <3>2 DEF BeginSuppress, TypeOK
    <2>10. CASE BeginLift(h)
        <3>1. Handler("lift", "flip", {}, "pending") \in Op
            BY HandlerType DEF Kinds, Phases, Statuses
        <3>2. op' \in [Handlers -> Op \cup {NoOp}]
            BY <2>10, <3>1, BeginType DEF BeginLift
        <3> QED BY <2>10, <3>2 DEF BeginLift, TypeOK
    <2>11. CASE FlipSubscriber(h)
        <3>1. op' \in [Handlers -> Op \cup {NoOp}]
            BY <2>11, OpType DEF FlipSubscriber, Is, TypeOK, Op, Phases
        <3> QED BY <2>11, <3>1 DEF FlipSubscriber, TypeOK
    <2>12. ASSUME NEW l \in Lists, ReadRow(h, l) PROVE TypeOK'
        <3>1. op[h] \in Op
            BY <2>12, OpType DEF ReadRow
        <3>2. clock' \in 0..MaxRequests
            BY <2>12 DEF ReadRow, TypeOK
        <3>3. op' \in [Handlers -> Op \cup {NoOp}]
            <4>1. CASE PassesBy(h, l)
                <5>1. [op[h] EXCEPT !.todo = @ \ {l}] \in Op
                    BY <3>1 DEF Op
                <5>2. op' = [op EXCEPT ![h] = Rest([op[h] EXCEPT !.todo = op[h].todo \ {l}])]
                    BY <2>12, <4>1 DEF ReadRow
                <5> QED BY <5>1, <5>2, RestType DEF TypeOK
            <4>2. CASE ~PassesBy(h, l)
                <5> DEFINE row == [status |-> op[h].to,
                                   req |-> IF TakesInstant(h, l) THEN clock + 1 ELSE sub[l].req]
                <5>1. row \in Row
                    BY <2>12, <3>1, <4>2 DEF ReadRow, TypeOK, Row, NoRow, Op
                <5>2. [op[h].held EXCEPT ![l] = row] \in [Lists -> Row \cup {NoRow}]
                    BY <3>1, <5>1 DEF Op
                <5>3. [op[h] EXCEPT !.held = [op[h].held EXCEPT ![l] = row]] \in Op
                    BY <3>1, <5>2 DEF Op
                <5>4. op' = [op EXCEPT ![h] = [op[h] EXCEPT !.held = [op[h].held EXCEPT ![l] = row]]]
                    BY <2>12, <4>2 DEF ReadRow
                <5> QED BY <5>3, <5>4 DEF TypeOK
            <4> QED BY <4>1, <4>2
        <3> QED BY <2>12, <3>2, <3>3 DEF ReadRow, TypeOK, stored
    <2>13. ASSUME NEW l \in Lists, PutRow(h, l) PROVE TypeOK'
        <3>1. op[h] \in Op /\ op[h].held[l] \in Row
            BY <2>13, OpType DEF PutRow, Holds, Op
        <3>2. sub' \in [Lists -> Row \cup {NoRow}]
            BY <2>13, <3>1 DEF PutRow, TypeOK
        <3>3. op' \in [Handlers -> Op \cup {NoOp}]
            <4> DEFINE got == IF op[h].kind = "confirm" /\ l = Trigger THEN {op[h].held[l].req} ELSE {}
                       o == [op[h] EXCEPT !.todo = op[h].todo \ {l},
                                          !.held = [op[h].held EXCEPT ![l] = NoRow],
                                          !.got = op[h].got \cup got]
            <4>1. got \in SUBSET (1..MaxRequests)
                BY <2>13, <3>1 DEF PutRow, Holds, HandlersOK, WellFormed, Op, Row
            <4>2. o \in Op
                BY <3>1, <4>1 DEF Op
            <4>3. op' = [op EXCEPT ![h] = Rest(o)]
                BY <2>13 DEF PutRow
            <4> QED BY <4>2, <4>3, RestType DEF TypeOK
        <3> QED BY <2>13, <3>2, <3>3 DEF PutRow, TypeOK
    <2>14. CASE Finish(h)
        <3>1. op[h] \in Op
            BY <2>14, OpType DEF Finish
        <3> QED BY <2>14, <3>1 DEF Finish, TypeOK, Op
    <2>15. CASE Abandon(h)
        BY <2>15 DEF Abandon, TypeOK, stored
    <2> QED BY <1>3, <2>1, <2>2, <2>3, <2>4, <2>5, <2>6, <2>7, <2>8, <2>9, <2>10, <2>11, <2>12,
               <2>13, <2>14, <2>15 DEF HandlerStep
<1> QED BY <1>1, <1>2, <1>3 DEF Next

-----------------------------------------------------------------------------
\* A step that touches one handler keeps the others well formed.
LEMMA OneHandler ==
    ASSUME TypeOK, HandlersOK, NEW h \in Handlers, NEW o, op' = [op EXCEPT ![h] = o],
           o # NoOp => WellFormed(o)
    PROVE  HandlersOK'
BY DEF TypeOK, HandlersOK, InFlight

\* A new handler holds nothing.
LEMMA HandlerWellFormed ==
    ASSUME NEW kind \in Kinds, NEW phase, NEW todo, NEW to,
           kind = "confirm" => to = "confirmed",
           kind \in {"leave", "leaveAll"} => to = "unsubscribed",
           kind \in {"suppress", "lift"} => todo = {}
    PROVE  WellFormed(Handler(kind, phase, todo, to))
BY DEF Handler, WellFormed, NothingHeld

LEMMA BeginHandlers ==
    ASSUME IInv, NEW h \in Handlers, NEW o, Begin(h, o), WellFormed(o)
    PROVE  HandlersOK'
BY OneHandler DEF IInv, Begin

\* A row is read or passed by.
LEMMA ReadRowHandlers ==
    ASSUME IInv, NEW h \in Handlers, NEW l \in Lists, ReadRow(h, l)
    PROVE  HandlersOK'
<1> DEFINE passed == Rest([op[h] EXCEPT !.todo = op[h].todo \ {l}])
           row == [status |-> op[h].to, req |-> IF TakesInstant(h, l) THEN clock + 1 ELSE sub[l].req]
           holding == [op[h] EXCEPT !.held = [op[h].held EXCEPT ![l] = row]]
<1>1. op[h] \in Op /\ WellFormed(op[h])
    BY OpType DEF IInv, ReadRow, HandlersOK
<1>2. CASE PassesBy(h, l)
    <2>1. op' = [op EXCEPT ![h] = passed]
        BY <1>2 DEF ReadRow
    <2>2. op[h].held = NothingHeld
        BY DEF ReadRow, HoldsNone
    <2>3. passed # NoOp => WellFormed(passed)
        BY <1>1, <2>2 DEF Rest, WellFormed, Op, NothingHeld
    <2> QED BY <2>1, <2>3, OneHandler DEF IInv
<1>3. CASE ~PassesBy(h, l)
    <2>1. op' = [op EXCEPT ![h] = holding]
        BY <1>3 DEF ReadRow
    <2>2. op[h].to = "confirmed" => row.req > 0
        <3>1. clock \in Nat /\ sub[l].req \in Nat
            BY ConsentAssumption DEF IInv, TypeOK, Row, NoRow
        <3> QED BY <3>1 DEF TakesInstant
    <2>3. l \in op[h].todo /\ op[h].held = NothingHeld
        BY DEF ReadRow, HoldsNone
    <2>4. WellFormed(holding)
        <3>1. \A x \in Lists : holding.held[x] = IF x = l THEN row ELSE NoRow
            BY <1>1, <2>3 DEF Op, NothingHeld
        <3>2. holding.kind = op[h].kind /\ holding.to = op[h].to /\ holding.todo = op[h].todo
            BY <1>1 DEF Op
        <3> HIDE DEF holding
        <3> QED BY <1>1, <2>2, <2>3, <3>1, <3>2 DEF WellFormed
    <2> HIDE DEF holding
    <2> QED BY <2>1, <2>4, OneHandler DEF IInv
<1> QED BY <1>2, <1>3

\* A row is put.
LEMMA PutRowHandlers ==
    ASSUME IInv, NEW h \in Handlers, NEW l \in Lists, PutRow(h, l)
    PROVE  HandlersOK'
<1> DEFINE got == IF op[h].kind = "confirm" /\ l = Trigger THEN {op[h].held[l].req} ELSE {}
           o == [op[h] EXCEPT !.todo = op[h].todo \ {l},
                              !.held = [op[h].held EXCEPT ![l] = NoRow],
                              !.got = op[h].got \cup got]
<1>1. op[h] \in Op /\ WellFormed(op[h])
    BY OpType DEF IInv, PutRow, Holds, HandlersOK
<1>2. op' = [op EXCEPT ![h] = Rest(o)]
    BY DEF PutRow
<1>3. WellFormed(o)
    <2>1. o.kind = op[h].kind /\ o.to = op[h].to /\ o.todo = op[h].todo \ {l}
        BY <1>1 DEF Op
    <2>2. \A x \in Lists : o.held[x] = IF x = l THEN NoRow ELSE op[h].held[x]
        BY <1>1 DEF Op
    <2> HIDE DEF o
    <2> QED BY <1>1, <2>1, <2>2 DEF WellFormed
<1>4. Rest(o) # NoOp => WellFormed(Rest(o))
    BY <1>3 DEF Rest
<1> HIDE DEF o
<1> QED BY <1>2, <1>4, OneHandler DEF IInv

LEMMA NextHandlers == IInv /\ [Next]_consentVars => HandlersOK'
<1> SUFFICES ASSUME IInv, [Next]_consentVars PROVE HandlersOK'
    OBVIOUS
<1>1. CASE op' = op
    BY <1>1 DEF IInv, HandlersOK, InFlight
<1>2. ASSUME NEW h \in Handlers, HandlerStep(h) PROVE HandlersOK'
    <2>1. ASSUME NEW ls \in SUBSET Lists, BeginSignup(h, ls) PROVE HandlersOK'
        <3>1. PICK phase \in Phases : Begin(h, Handler("signup", phase, ls, "pending"))
            BY <2>1 DEF BeginSignup, Phases
        <3> QED BY <3>1, HandlerWellFormed, BeginHandlers DEF Kinds
    <2>2. CASE ClearSuppression(h)
        <3>1. op' = [op EXCEPT ![h] = [op[h] EXCEPT !.at = "rows"]] /\ InFlight(h)
            BY <2>2 DEF ClearSuppression, Is
        <3>2. WellFormed([op[h] EXCEPT !.at = "rows"])
            BY <3>1, OpType DEF IInv, HandlersOK, WellFormed, Op
        <3> QED BY <3>1, <3>2, OneHandler DEF IInv
    <2>3. ASSUME NEW link \in tokens, BeginConfirm(h, link) PROVE HandlersOK'
        BY <2>3, HandlerWellFormed, BeginHandlers DEF BeginConfirm, Kinds
    <2>4. ASSUME NEW l \in Lists, BeginLeave(h, l) PROVE HandlersOK'
        BY <2>4, HandlerWellFormed, BeginHandlers DEF BeginLeave, Kinds
    <2>5. CASE BeginLeaveAll(h)
        <3> DEFINE rows == {l \in Lists : HasRow(l) /\ sub[l].status # "unsubscribed"}
                   heldRows == [l \in Lists |->
                       IF l \in rows THEN [sub[l] EXCEPT !.status = "unsubscribed"] ELSE NoRow]
                   o == [Handler("leaveAll", "rows", rows, "unsubscribed") EXCEPT !.held = heldRows]
        <3>1. Begin(h, o)
            BY <2>5 DEF BeginLeaveAll
        <3>2. /\ o.kind = "leaveAll" /\ o.to = "unsubscribed" /\ o.todo = rows
              /\ o.held = heldRows
            BY DEF Handler
        <3>3. \A l \in Lists : heldRows[l] # NoRow => l \in rows /\ heldRows[l].status = "unsubscribed"
            BY DEF IInv, TypeOK, HasRow, Row
        <3>4. WellFormed(o)
            <4> HIDE DEF o, heldRows, rows
            <4> QED BY <3>2, <3>3 DEF WellFormed
        <3> HIDE DEF o
        <3> QED BY <3>1, <3>4, BeginHandlers
    <2>6. ASSUME NEW l \in Lists, BeginJoin(h, l) PROVE HandlersOK'
        BY <2>6, HandlerWellFormed, BeginHandlers DEF BeginJoin, Kinds
    <2>7. ASSUME NEW l \in Lists, NEW status \in Statuses, BeginOverride(h, l, status) PROVE HandlersOK'
        BY <2>7, HandlerWellFormed, BeginHandlers DEF BeginOverride, Kinds
    <2>8. ASSUME NEW ls \in SUBSET Lists, NEW status \in Statuses, BeginFeedback(h, ls, status)
          PROVE  HandlersOK'
        BY <2>8, HandlerWellFormed, BeginHandlers DEF BeginFeedback, Kinds
    <2>9. CASE BeginSuppress(h)
        BY <2>9, HandlerWellFormed, BeginHandlers DEF BeginSuppress, Kinds
    <2>10. CASE BeginLift(h)
        BY <2>10, HandlerWellFormed, BeginHandlers DEF BeginLift, Kinds
    <2>11. CASE FlipSubscriber(h)
        <3> DEFINE o == IF op[h].todo = {} THEN NoOp ELSE [op[h] EXCEPT !.at = "rows"]
        <3>1. op' = [op EXCEPT ![h] = o] /\ InFlight(h)
            BY <2>11 DEF FlipSubscriber, Is
        <3>2. o # NoOp => WellFormed(o)
            BY <3>1, OpType DEF IInv, HandlersOK, WellFormed, Op
        <3> QED BY <3>1, <3>2, OneHandler DEF IInv
    <2>12. ASSUME NEW l \in Lists, ReadRow(h, l) PROVE HandlersOK'
        BY <2>12, ReadRowHandlers
    <2>13. ASSUME NEW l \in Lists, PutRow(h, l) PROVE HandlersOK'
        BY <2>13, PutRowHandlers
    <2>14. CASE Finish(h)
        BY <2>14, OneHandler DEF Finish, IInv
    <2>15. CASE Abandon(h)
        BY <2>15, OneHandler DEF Abandon, IInv
    <2> QED BY <1>2, <2>1, <2>2, <2>3, <2>4, <2>5, <2>6, <2>7, <2>8, <2>9, <2>10, <2>11, <2>12,
               <2>13, <2>14, <2>15 DEF HandlerStep
<1> QED BY <1>1, <1>2 DEF Next, ExpireLink, consentVars

\* Every variable of the consent plane keeps its type, and each handler is well
\* formed (the handlers of signup.ts, unsubscribe.ts, preferences.ts and the others).
THEOREM HandlersHold == Spec => []IInv
<1>1. Init => IInv
    BY InitType DEF IInv, Init, HandlersOK, InFlight
<1>2. IInv /\ [Next]_consentVars => IInv'
    BY NextType, NextHandlers DEF IInv
<1> QED BY <1>1, <1>2, PTL DEF Spec

\* Every variable of the consent plane keeps its type.
THEOREM TypeCorrect == Spec => []TypeOK
<1>1. IInv => TypeOK
    BY DEF IInv
<1> QED BY <1>1, HandlersHold, PTL

-----------------------------------------------------------------------------
(* Feedback.  Its first write is of the global list, and nothing takes an  *)
(* address off that list.                                                  *)

FeedbackOK ==
    /\ reported => globalSup
    /\ \A h \in Handlers : InFlight(h) /\ op[h].kind = "feedback" => globalSup

\* Only feedback writes the global list, and it adds.
LEMMA GlobalStays ==
    ASSUME [Next]_consentVars
    PROVE  globalSup => globalSup'
BY DEF Next, HandlerStep, consentVars, stored, BeginSignup, ClearSuppression, BeginConfirm,
       BeginLeave, BeginLeaveAll, BeginJoin, BeginOverride, BeginFeedback, BeginSuppress, BeginLift,
       FlipSubscriber, ReadRow, PutRow, Finish, Abandon, ExpireLink

\* A handler that begins is of the kind it begins as.
LEMMA BegunKind ==
    ASSUME IInv, NEW h \in Handlers, NEW kind, NEW phase, NEW todo, NEW to,
           Begin(h, Handler(kind, phase, todo, to))
    PROVE  op'[h].kind = kind
BY DEF IInv, TypeOK, Begin, Handler

\* A step keeps a handler's kind, ends it, or begins it.
LEMMA KindStays ==
    ASSUME IInv, [Next]_consentVars, NEW h \in Handlers, InFlight(h)', op'[h].kind = "feedback"
    PROVE  \/ InFlight(h) /\ op[h].kind = "feedback"
           \/ globalSup'
<1>1. CASE op' = op
    BY <1>1 DEF InFlight
<1>2. ASSUME NEW x \in Handlers, HandlerStep(x) PROVE (InFlight(h) /\ op[h].kind = "feedback") \/ globalSup'
    <2>1. CASE x # h
        <3>1. op'[h] = op[h]
            BY <1>2, <2>1 DEF IInv, TypeOK, HandlerStep, Begin, BeginSignup, ClearSuppression,
               BeginConfirm, BeginLeave, BeginLeaveAll, BeginJoin, BeginOverride, BeginFeedback,
               BeginSuppress, BeginLift, FlipSubscriber, ReadRow, PutRow, Finish, Abandon
        <3> QED BY <3>1 DEF InFlight
    <2>2. CASE x = h
        <3>1. CASE \E ls \in SUBSET Lists, status \in Statuses : BeginFeedback(h, ls, status)
            BY <3>1 DEF BeginFeedback
        <3>2. CASE \/ \E ls \in SUBSET Lists : BeginSignup(h, ls)
                   \/ \E link \in tokens : BeginConfirm(h, link)
                   \/ \E l \in Lists : BeginLeave(h, l)
                   \/ BeginLeaveAll(h)
                   \/ \E l \in Lists : BeginJoin(h, l)
                   \/ \E l \in Lists, status \in Statuses : BeginOverride(h, l, status)
                   \/ BeginSuppress(h)
                   \/ BeginLift(h)
            <4>1. CASE \E ls \in SUBSET Lists : BeginSignup(h, ls)
                <5>1. PICK phase, ls : Begin(h, Handler("signup", phase, ls, "pending"))
                    BY <4>1 DEF BeginSignup
                <5> QED BY <5>1, BegunKind
            <4>2. CASE \E link \in tokens : BeginConfirm(h, link)
                BY <4>2, BegunKind DEF BeginConfirm
            <4>3. CASE \E l \in Lists : BeginLeave(h, l)
                BY <4>3, BegunKind DEF BeginLeave
            <4>4. CASE BeginLeaveAll(h)
                BY <4>4 DEF BeginLeaveAll, IInv, TypeOK, Begin, Handler
            <4>5. CASE \E l \in Lists : BeginJoin(h, l)
                BY <4>5, BegunKind DEF BeginJoin
            <4>6. CASE \E l \in Lists, status \in Statuses : BeginOverride(h, l, status)
                BY <4>6, BegunKind DEF BeginOverride
            <4>7. CASE BeginSuppress(h) \/ BeginLift(h)
                BY <4>7, BegunKind DEF BeginSuppress, BeginLift
            <4> QED BY <3>2, <4>1, <4>2, <4>3, <4>4, <4>5, <4>6, <4>7
        <3>3. CASE \/ ClearSuppression(h) \/ FlipSubscriber(h) \/ Finish(h) \/ Abandon(h)
            BY <3>3, OpType DEF IInv, TypeOK, InFlight, Is, Op, ClearSuppression, FlipSubscriber,
               Finish, Abandon, NoOp
        <3>4. ASSUME NEW l \in Lists, ReadRow(h, l) PROVE InFlight(h) /\ op[h].kind = "feedback"
            <4>1. op[h] \in Op /\ InFlight(h)
                BY <3>4, OpType DEF IInv, ReadRow
            <4>2. CASE PassesBy(h, l)
                BY <3>4, <4>1, <4>2 DEF IInv, TypeOK, InFlight, ReadRow, Rest, Op, NoOp
            <4>3. CASE ~PassesBy(h, l)
                <5> DEFINE row == [status |-> op[h].to,
                                   req |-> IF TakesInstant(h, l) THEN clock + 1 ELSE sub[l].req]
                <5>1. op' = [op EXCEPT ![h] = [op[h] EXCEPT !.held = [op[h].held EXCEPT ![l] = row]]]
                    BY <3>4, <4>3 DEF ReadRow
                <5> HIDE DEF row
                <5> QED BY <4>1, <5>1 DEF IInv, TypeOK, Op
            <4> QED BY <4>2, <4>3
        <3>5. ASSUME NEW l \in Lists, PutRow(h, l) PROVE InFlight(h) /\ op[h].kind = "feedback"
            BY <3>5, OpType DEF IInv, TypeOK, InFlight, PutRow, Holds, Rest, Op, NoOp
        <3> QED BY <1>2, <2>2, <3>1, <3>2, <3>3, <3>4, <3>5 DEF HandlerStep
    <2> QED BY <2>1, <2>2
<1> QED BY <1>1, <1>2 DEF Next, ExpireLink, consentVars

LEMMA NextFeedback == IInv /\ FeedbackOK /\ [Next]_consentVars => FeedbackOK'
<1> SUFFICES ASSUME IInv, FeedbackOK, [Next]_consentVars PROVE FeedbackOK'
    OBVIOUS
<1>1. reported' => globalSup'
    BY GlobalStays DEF FeedbackOK, Next, HandlerStep, consentVars, BeginSignup, ClearSuppression,
       BeginConfirm, BeginLeave, BeginLeaveAll, BeginJoin, BeginOverride, BeginFeedback,
       BeginSuppress, BeginLift, FlipSubscriber, ReadRow, PutRow, Finish, Abandon, ExpireLink
<1>2. ASSUME NEW h \in Handlers, InFlight(h)', op'[h].kind = "feedback" PROVE globalSup'
    BY <1>2, KindStays, GlobalStays DEF FeedbackOK
<1> QED BY <1>1, <1>2 DEF FeedbackOK

\* A bounce or complaint holds: from its first write on, the reader is mailable
\* on no list (suppress.ts, suppressAndFlip).
THEOREM FeedbackIsFinal == Spec => []FeedbackHolds
<1>1. Init => FeedbackOK
    BY DEF Init, FeedbackOK, InFlight
<1>2. FeedbackOK => FeedbackHolds
    BY DEF FeedbackOK, FeedbackHolds, Mailable, MayMail
<1> QED BY <1>1, <1>2, NextFeedback, HandlersHold, PTL DEF Spec

-----------------------------------------------------------------------------
(* Leavings.  A list that was left stays unsubscribed, and no handler that *)
(* could make it otherwise is about to write it, unless feedback came.     *)

Reopens(o, l) ==
    \/ o.kind \in {"signup", "join", "override"} /\ l \in o.todo
    \/ o.kind = "confirm" /\ o.held[l] # NoRow

ClosedTo(l) ==
    /\ sub[l].status = "unsubscribed"
    /\ \A h \in Handlers : InFlight(h) => ~Reopens(op[h], l)

LeftOK == \A l \in left : globalSup \/ ClosedTo(l)

\* A handler that begins reopens no list that stays left.
LEMMA BeginKeeps ==
    ASSUME IInv, NEW h \in Handlers, NEW l \in Lists, NEW kind, NEW phase, NEW todo, NEW to,
           Begin(h, Handler(kind, phase, todo, to)),
           kind \in {"signup", "join", "override"} => l \notin todo
    PROVE  \A h2 \in Handlers : InFlight(h2)' =>
               (InFlight(h2) /\ op'[h2] = op[h2]) \/ ~Reopens(op'[h2], l)
BY DEF IInv, TypeOK, Begin, Handler, Reopens, NothingHeld, InFlight

\* Rows read by a handler do not reopen a list that was left.
LEMMA ReadKeeps ==
    ASSUME IInv, NEW h \in Handlers, NEW x \in Lists, ReadRow(h, x), NEW l \in Lists,
           sub[l].status = "unsubscribed", ~Reopens(op[h], l), InFlight(h)'
    PROVE  ~Reopens(op'[h], l)
<1>1. op[h] \in Op
    BY OpType DEF IInv, ReadRow
<1>2. CASE PassesBy(h, x)
    <2>1. op' = [op EXCEPT ![h] = Rest([op[h] EXCEPT !.todo = op[h].todo \ {x}])]
        BY <1>2 DEF ReadRow
    <2>2. op'[h] = [op[h] EXCEPT !.todo = op[h].todo \ {x}]
        BY <2>1 DEF IInv, TypeOK, InFlight, Rest
    <2> QED BY <1>1, <2>2 DEF Reopens, Op
<1>3. CASE ~PassesBy(h, x)
    <2> DEFINE row == [status |-> op[h].to,
                       req |-> IF TakesInstant(h, x) THEN clock + 1 ELSE sub[x].req]
    <2>1. op' = [op EXCEPT ![h] = [op[h] EXCEPT !.held = [op[h].held EXCEPT ![x] = row]]]
        BY <1>3 DEF ReadRow
    <2> HIDE DEF row
    <2>2. /\ op'[h].kind = op[h].kind /\ op'[h].todo = op[h].todo
          /\ op'[h].held = [op[h].held EXCEPT ![x] = row]
        BY <1>1, <2>1 DEF IInv, TypeOK, Op
    <2>3. op[h].kind = "confirm" => x # l
        BY <1>3 DEF PassesBy
    <2> QED BY <1>1, <2>2, <2>3 DEF Reopens, Op
<1> QED BY <1>2, <1>3

\* Nor do rows that it put.
LEMMA PutKeeps ==
    ASSUME IInv, NEW h \in Handlers, NEW x \in Lists, PutRow(h, x), NEW l \in Lists,
           ~Reopens(op[h], l), InFlight(h)'
    PROVE  ~Reopens(op'[h], l)
<1> DEFINE got == IF op[h].kind = "confirm" /\ x = Trigger THEN {op[h].held[x].req} ELSE {}
           o == [op[h] EXCEPT !.todo = op[h].todo \ {x},
                              !.held = [op[h].held EXCEPT ![x] = NoRow],
                              !.got = op[h].got \cup got]
<1>1. op[h] \in Op
    BY OpType DEF IInv, PutRow, Holds
<1>2. op' = [op EXCEPT ![h] = Rest(o)]
    BY DEF PutRow
<1>3. /\ o.kind = op[h].kind /\ o.todo = op[h].todo \ {x}
      /\ o.held = [op[h].held EXCEPT ![x] = NoRow]
    BY <1>1 DEF Op
<1> HIDE DEF o
<1>4. op'[h] = o
    BY <1>2 DEF IInv, TypeOK, InFlight, Rest
<1> QED BY <1>1, <1>3, <1>4 DEF Reopens, Op

\* Of a list that was left and will be still, no handler's step reopens it.
LEMMA StepKeeps ==
    ASSUME IInv, NEW h \in Handlers, HandlerStep(h), NEW l \in left', ClosedTo(l), NEW h2 \in Handlers,
           InFlight(h2)'
    PROVE  ~Reopens(op'[h2], l)
<1>1. l \in Lists
    BY NextType DEF IInv, Next, TypeOK
<1>2. CASE \/ \E ls \in SUBSET Lists : BeginSignup(h, ls)
           \/ \E link \in tokens : BeginConfirm(h, link)
           \/ \E x \in Lists : BeginLeave(h, x)
           \/ \E x \in Lists : BeginJoin(h, x)
           \/ \E x \in Lists, status \in Statuses : BeginOverride(h, x, status)
           \/ \E ls \in SUBSET Lists, status \in Statuses : BeginFeedback(h, ls, status)
           \/ BeginSuppress(h)
           \/ BeginLift(h)
    <2> DEFINE Kept == (InFlight(h2) /\ op'[h2] = op[h2]) \/ ~Reopens(op'[h2], l)
    <2>1. ASSUME NEW ls \in SUBSET Lists, BeginSignup(h, ls) PROVE Kept
        <3>1. l \notin ls
            BY <2>1 DEF BeginSignup
        <3>2. CASE orgSup = "none"
            <4>1. Begin(h, Handler("signup", "rows", ls, "pending"))
                BY <2>1, <3>2 DEF BeginSignup
            <4> QED BY <1>1, <3>1, <4>1, BeginKeeps
        <3>3. CASE orgSup # "none"
            <4>1. Begin(h, Handler("signup", "clear", ls, "pending"))
                BY <2>1, <3>3 DEF BeginSignup
            <4> QED BY <1>1, <3>1, <4>1, BeginKeeps
        <3> QED BY <3>2, <3>3
    <2>2. ASSUME NEW link \in tokens, BeginConfirm(h, link) PROVE Kept
        <3>1. Begin(h, Handler("confirm", "rows", link, "confirmed"))
            BY <2>2 DEF BeginConfirm
        <3> QED BY <1>1, <3>1, BeginKeeps
    <2>3. ASSUME NEW x \in Lists, BeginLeave(h, x) PROVE Kept
        <3>1. Begin(h, Handler("leave", "rows", {x}, "unsubscribed"))
            BY <2>3 DEF BeginLeave
        <3> QED BY <1>1, <3>1, BeginKeeps
    <2>4. ASSUME NEW x \in Lists, BeginJoin(h, x) PROVE Kept
        <3>1. Begin(h, Handler("join", "rows", {x}, "confirmed")) /\ l \notin {x}
            BY <2>4 DEF BeginJoin
        <3> QED BY <1>1, <3>1, BeginKeeps
    <2>5. ASSUME NEW x \in Lists, NEW status \in Statuses, BeginOverride(h, x, status) PROVE Kept
        <3>1. Begin(h, Handler("override", "rows", {x}, status)) /\ l \notin {x}
            BY <2>5 DEF BeginOverride
        <3> QED BY <1>1, <3>1, BeginKeeps
    <2>6. ASSUME NEW ls \in SUBSET Lists, NEW status \in Statuses, BeginFeedback(h, ls, status)
          PROVE  Kept
        <3>1. Begin(h, Handler("feedback", "flip", ls, status))
            BY <2>6 DEF BeginFeedback
        <3> QED BY <1>1, <3>1, BeginKeeps
    <2>7. ASSUME BeginSuppress(h) PROVE Kept
        <3>1. Begin(h, Handler("suppress", "flip", {}, "pending"))
            BY <2>7 DEF BeginSuppress
        <3> QED BY <1>1, <3>1, BeginKeeps
    <2>8. ASSUME BeginLift(h) PROVE Kept
        <3>1. Begin(h, Handler("lift", "flip", {}, "pending"))
            BY <2>8 DEF BeginLift
        <3> QED BY <1>1, <3>1, BeginKeeps
    <2>9. Kept
        BY <1>2, <2>1, <2>2, <2>3, <2>4, <2>5, <2>6, <2>7, <2>8
    <2> QED BY <2>9 DEF ClosedTo
<1>3. CASE BeginLeaveAll(h)
    BY <1>3 DEF BeginLeaveAll, IInv, TypeOK, Begin, Handler, Reopens, InFlight, ClosedTo
<1>4. CASE ClearSuppression(h) \/ FlipSubscriber(h) \/ Finish(h) \/ Abandon(h)
    <2>1. h2 = h => InFlight(h) /\ op[h] \in Op
        BY <1>4, OpType DEF IInv, ClearSuppression, FlipSubscriber, Is, Finish, Abandon
    <2>2. InFlight(h2) /\ (op'[h2] = op[h2] \/ op'[h2] = [op[h2] EXCEPT !.at = "rows"])
        BY <1>4, <2>1 DEF IInv, TypeOK, ClearSuppression, FlipSubscriber, Finish, Abandon, InFlight, Is
    <2>3. op[h2] \in Op
        BY <2>2, OpType DEF IInv
    <2> QED BY <2>2, <2>3 DEF ClosedTo, Reopens, Op
<1>5. ASSUME NEW x \in Lists, ReadRow(h, x) PROVE ~Reopens(op'[h2], l)
    <2>1. h2 # h => op'[h2] = op[h2]
        BY <1>5 DEF ReadRow, IInv, TypeOK
    <2> QED BY <1>1, <1>5, <2>1, ReadKeeps DEF ClosedTo, InFlight, ReadRow
<1>6. ASSUME NEW x \in Lists, PutRow(h, x) PROVE ~Reopens(op'[h2], l)
    <2>1. h2 # h => op'[h2] = op[h2]
        BY <1>6 DEF PutRow, IInv, TypeOK
    <2> QED BY <1>1, <1>6, <2>1, PutKeeps DEF ClosedTo, InFlight, PutRow, Holds
<1> QED BY <1>2, <1>3, <1>4, <1>5, <1>6 DEF HandlerStep

\* The row of a list that was left is written by another leaving only.
LEMMA RowStays ==
    ASSUME IInv, FeedbackOK, ~globalSup, NEW h \in Handlers, HandlerStep(h), NEW l \in left, l \in Lists,
           ClosedTo(l)
    PROVE  sub'[l].status = "unsubscribed"
<1>1. ASSUME NEW x \in Lists, PutRow(h, x) PROVE sub'[l].status = "unsubscribed"
    <2>1. CASE x # l
        BY <1>1, <2>1 DEF PutRow, IInv, TypeOK, ClosedTo
    <2>2. CASE x = l
        <3>1. InFlight(h) /\ WellFormed(op[h]) /\ op[h] \in Op /\ op[h].held[l] # NoRow
            BY <1>1, <2>2, OpType DEF PutRow, Holds, IInv, HandlersOK
        <3>2. l \in op[h].todo /\ op[h].held[l].status = op[h].to
            BY <3>1 DEF WellFormed
        <3>3. op[h].kind \in {"leave", "leaveAll"}
            BY <3>1, <3>2 DEF ClosedTo, Reopens, WellFormed, FeedbackOK, Op, Kinds
        <3>4. sub'[l] = op[h].held[l]
            BY <1>1, <2>2 DEF PutRow, IInv, TypeOK
        <3> QED BY <3>1, <3>2, <3>3, <3>4 DEF WellFormed
    <2> QED BY <2>1, <2>2
<1>2. CASE ~(\E x \in Lists : PutRow(h, x))
    <2>1. sub' = sub
        BY <1>2 DEF HandlerStep, stored, BeginSignup, ClearSuppression, BeginConfirm, BeginLeave,
           BeginLeaveAll, BeginJoin, BeginOverride, BeginFeedback, BeginSuppress, BeginLift,
           FlipSubscriber, ReadRow, Finish, Abandon
    <2> QED BY <2>1 DEF ClosedTo
<1> QED BY <1>1, <1>2

\* A leaving that nobody is about to undo closes its list.
LEMMA LeavingCloses ==
    ASSUME IInv, NEW h \in Handlers, HandlerStep(h), NEW l \in left' \ left
    PROVE  ClosedTo(l)'
<1>1. PutRow(h, l) /\ op[h].kind \in {"leave", "leaveAll"} /\ \A h2 \in Handlers : ~WillReopen(h2, l)
    <2>1. CASE \E x \in Lists : PutRow(h, x)
        <3>1. PICK x \in Lists : PutRow(h, x)
            BY <2>1
        <3>2. /\ left' = left \cup {x} /\ op[h].kind \in {"leave", "leaveAll"}
              /\ \A h2 \in Handlers : ~WillReopen(h2, x)
            BY <3>1 DEF PutRow
        <3> QED BY <3>1, <3>2
    <2>2. CASE ~(\E x \in Lists : PutRow(h, x))
        <3>1. ASSUME NEW ls \in SUBSET Lists, BeginSignup(h, ls) PROVE FALSE
            BY <3>1 DEF BeginSignup
        <3>2. ASSUME NEW x \in Lists, BeginJoin(h, x) PROVE FALSE
            BY <3>2 DEF BeginJoin
        <3>3. ASSUME NEW x \in Lists, NEW status \in Statuses, BeginOverride(h, x, status) PROVE FALSE
            BY <3>3 DEF BeginOverride
        <3>4. left' # left
            OBVIOUS
        <3> QED BY <2>2, <3>1, <3>2, <3>3, <3>4 DEF HandlerStep, ClearSuppression, BeginConfirm,
                BeginLeave, BeginLeaveAll, BeginFeedback, BeginSuppress, BeginLift, FlipSubscriber,
                ReadRow, Finish, Abandon
    <2> QED BY <2>1, <2>2
<1>2. l \in Lists
    BY NextType DEF IInv, Next, TypeOK
<1>3. InFlight(h) /\ WellFormed(op[h]) /\ op[h].held[l] # NoRow
    BY <1>1 DEF PutRow, Holds, IInv, HandlersOK
<1>4. sub'[l].status = "unsubscribed"
    BY <1>1, <1>2, <1>3 DEF PutRow, WellFormed, IInv, TypeOK
<1>5. ASSUME NEW h2 \in Handlers, InFlight(h2)' PROVE ~Reopens(op'[h2], l)
    <2>1. CASE h2 = h
        <3>1. ~Reopens(op[h], l)
            BY <1>1 DEF Reopens
        <3> QED BY <1>1, <1>2, <1>5, <2>1, <3>1, PutKeeps
    <2>2. CASE h2 # h
        <3>1. op'[h2] = op[h2] /\ InFlight(h2)
            BY <1>1, <1>5, <2>2 DEF PutRow, IInv, TypeOK, InFlight
        <3>2. op[h2].held[l] # NoRow => l \in op[h2].todo
            BY <1>2, <3>1 DEF IInv, HandlersOK, WellFormed
        <3> QED BY <1>1, <3>1, <3>2 DEF Reopens, WillReopen
    <2> QED BY <2>1, <2>2
<1> QED BY <1>4, <1>5 DEF ClosedTo

LEMMA NextLeft == IInv /\ FeedbackOK /\ LeftOK /\ [Next]_consentVars => LeftOK'
<1> SUFFICES ASSUME IInv, FeedbackOK, LeftOK, [Next]_consentVars, NEW l \in left', ~globalSup'
             PROVE  ClosedTo(l)'
    BY DEF LeftOK
<1>1. ~globalSup
    BY GlobalStays
<1>2. CASE UNCHANGED <<sub, op, left>>
    BY <1>1, <1>2 DEF LeftOK, ClosedTo, InFlight
<1>3. ASSUME NEW h \in Handlers, HandlerStep(h) PROVE ClosedTo(l)'
    <2>1. CASE l \in left
        <3>1. ClosedTo(l) /\ l \in Lists
            BY <1>1, <2>1 DEF LeftOK, IInv, TypeOK
        <3>2. sub'[l].status = "unsubscribed"
            BY <1>1, <1>3, <2>1, <3>1, RowStays
        <3>3. \A h2 \in Handlers : InFlight(h2)' => ~Reopens(op'[h2], l)
            BY <1>3, <3>1, StepKeeps
        <3> QED BY <3>2, <3>3 DEF ClosedTo
    <2>2. CASE l \notin left
        BY <1>3, <2>2, LeavingCloses
    <2> QED BY <2>1, <2>2
<1> QED BY <1>2, <1>3 DEF Next, ExpireLink, consentVars, stored

\* Leaving holds: once a list was left while no handler was about to confirm or
\* request it, only a new request makes the reader mailable on it (unsubscribe.ts,
\* preferences.ts).
THEOREM LeavingIsFinal == Spec => []LeavingHolds
<1>1. Init => FeedbackOK /\ LeftOK
    BY DEF Init, FeedbackOK, LeftOK, InFlight
<1>2. LeftOK => LeavingHolds
    BY DEF LeftOK, ClosedTo, LeavingHolds, Mailable, MayMail
<1> QED BY <1>1, <1>2, NextFeedback, NextLeft, HandlersHold, PTL DEF Spec

-----------------------------------------------------------------------------
(* The trigger's row.  An enrollment is asked for once the row is put, and *)
(* rows are never deleted, so an execution always finds it.                *)

TriggerHasRow ==
    enrolled # {} \/ (\E h \in Handlers : InFlight(h) /\ op[h].got # {}) => HasRow(Trigger)

\* A step that writes neither rows nor enrollments, of a handler that asks for no
\* enrollment it did not ask for before.
LEMMA GotKept ==
    ASSUME TypeOK, TriggerHasRow, UNCHANGED <<sub, enrolled>>, NEW h \in Handlers,
           NEW o, op' = [op EXCEPT ![h] = o],
           o = NoOp \/ o.got = {} \/ (InFlight(h) /\ o.got = op[h].got)
    PROVE  TriggerHasRow'
BY DEF TypeOK, TriggerHasRow, InFlight, HasRow

\* A new handler asks for none.
LEMMA BeginGot ==
    ASSUME TypeOK, TriggerHasRow, UNCHANGED <<sub, enrolled>>, NEW h \in Handlers,
           NEW kind, NEW phase, NEW todo, NEW to, Begin(h, Handler(kind, phase, todo, to))
    PROVE  TriggerHasRow'
<1>1. Handler(kind, phase, todo, to).got = {}
    BY DEF Handler
<1> QED BY <1>1, GotKept DEF Begin

LEMMA ReadRowGot ==
    ASSUME TypeOK, TriggerHasRow, NEW h \in Handlers, NEW l \in Lists, ReadRow(h, l)
    PROVE  TriggerHasRow'
<1> DEFINE passed == Rest([op[h] EXCEPT !.todo = op[h].todo \ {l}])
           row == [status |-> op[h].to, req |-> IF TakesInstant(h, l) THEN clock + 1 ELSE sub[l].req]
           holding == [op[h] EXCEPT !.held = [op[h].held EXCEPT ![l] = row]]
<1>1. op[h] \in Op /\ InFlight(h) /\ UNCHANGED <<sub, enrolled>>
    BY OpType DEF ReadRow, stored
<1>2. CASE PassesBy(h, l)
    <2>1. op' = [op EXCEPT ![h] = passed]
        BY <1>2 DEF ReadRow
    <2>2. passed = NoOp \/ passed.got = op[h].got
        BY <1>1 DEF Rest, Op
    <2> HIDE DEF passed
    <2> QED BY <1>1, <2>1, <2>2, GotKept
<1>3. CASE ~PassesBy(h, l)
    <2>1. op' = [op EXCEPT ![h] = holding]
        BY <1>3 DEF ReadRow
    <2>2. holding.got = op[h].got
        BY <1>1 DEF Op
    <2> HIDE DEF holding
    <2> QED BY <1>1, <2>1, <2>2, GotKept
<1> QED BY <1>2, <1>3

LEMMA PutRowGot ==
    ASSUME TypeOK, TriggerHasRow, NEW h \in Handlers, NEW l \in Lists, PutRow(h, l)
    PROVE  TriggerHasRow'
<1> DEFINE got == IF op[h].kind = "confirm" /\ l = Trigger THEN {op[h].held[l].req} ELSE {}
           o == [op[h] EXCEPT !.todo = op[h].todo \ {l},
                              !.held = [op[h].held EXCEPT ![l] = NoRow],
                              !.got = op[h].got \cup got]
<1>1. op[h] \in Op /\ InFlight(h) /\ op[h].held[l] # NoRow /\ UNCHANGED enrolled
    BY OpType DEF PutRow, Holds
<1>2. op' = [op EXCEPT ![h] = Rest(o)] /\ sub' = [sub EXCEPT ![l] = op[h].held[l]]
    BY DEF PutRow
<1>3. o.got = op[h].got \cup got
    BY <1>1 DEF Op
<1>4. HasRow(Trigger) => HasRow(Trigger)'
    BY <1>1, <1>2, ConsentAssumption DEF TypeOK, HasRow
<1>5. l = Trigger => HasRow(Trigger)'
    BY <1>1, <1>2, ConsentAssumption DEF TypeOK, HasRow
<1>6. got # {} => l = Trigger
    OBVIOUS
<1> HIDE DEF o, got
<1>7. Rest(o) = NoOp \/ Rest(o).got = op[h].got \cup got
    BY <1>3 DEF Rest
<1>8. \A x \in Handlers : op'[x] = IF x = h THEN Rest(o) ELSE op[x]
    BY <1>2 DEF TypeOK
<1>9. enrolled' # {} \/ (\E x \in Handlers : op'[x] # NoOp /\ op'[x].got # {}) => HasRow(Trigger)'
    BY <1>1, <1>4, <1>5, <1>6, <1>7, <1>8 DEF TriggerHasRow, InFlight
<1> QED BY <1>9 DEF TriggerHasRow, InFlight

LEMMA NextTriggerHasRow ==
    ASSUME TypeOK, TriggerHasRow, [Next]_consentVars
    PROVE  TriggerHasRow'
<1>1. CASE UNCHANGED <<sub, enrolled, op>>
    BY <1>1 DEF TriggerHasRow, HasRow, InFlight
<1>2. ASSUME NEW h \in Handlers, HandlerStep(h) PROVE TriggerHasRow'
    <2>1. ASSUME NEW ls \in SUBSET Lists, BeginSignup(h, ls) PROVE TriggerHasRow'
        <3>1. PICK phase : Begin(h, Handler("signup", phase, ls, "pending"))
            BY <2>1 DEF BeginSignup
        <3> QED BY <2>1, <3>1, BeginGot DEF BeginSignup, stored
    <2>2. CASE \/ \E link \in tokens : BeginConfirm(h, link)
               \/ \E l \in Lists : BeginLeave(h, l) \/ BeginJoin(h, l)
               \/ \E l \in Lists, status \in Statuses : BeginOverride(h, l, status)
        BY <2>2, BeginGot DEF BeginConfirm, BeginLeave, BeginJoin, BeginOverride, stored
    <2>3. CASE \/ \E ls \in SUBSET Lists, status \in Statuses : BeginFeedback(h, ls, status)
               \/ BeginSuppress(h) \/ BeginLift(h)
        BY <2>3, BeginGot DEF BeginFeedback, BeginSuppress, BeginLift
    <2>4. CASE BeginLeaveAll(h)
        <3> DEFINE rows == {l \in Lists : HasRow(l) /\ sub[l].status # "unsubscribed"}
                   o == [Handler("leaveAll", "rows", rows, "unsubscribed") EXCEPT !.held =
                       [l \in Lists |->
                          IF l \in rows THEN [sub[l] EXCEPT !.status = "unsubscribed"] ELSE NoRow]]
        <3>1. op' = [op EXCEPT ![h] = o]
            BY <2>4 DEF BeginLeaveAll, Begin
        <3>2. o.got = {}
            BY DEF Handler
        <3> HIDE DEF o
        <3> QED BY <2>4, <3>1, <3>2, GotKept DEF BeginLeaveAll, stored
    <2>5. CASE ClearSuppression(h) \/ FlipSubscriber(h)
        <3>1. InFlight(h) /\ op[h] \in Op
            BY <2>5, OpType DEF ClearSuppression, FlipSubscriber, Is
        <3>2. PICK o : (o = NoOp \/ o.got = op[h].got) /\ op' = [op EXCEPT ![h] = o]
            BY <2>5, <3>1 DEF ClearSuppression, FlipSubscriber, Op
        <3> QED BY <2>5, <3>1, <3>2, GotKept DEF ClearSuppression, FlipSubscriber
    <2>6. ASSUME NEW l \in Lists, ReadRow(h, l) \/ PutRow(h, l) PROVE TriggerHasRow'
        BY <2>6, ReadRowGot, PutRowGot
    <2>7. CASE Finish(h)
        <3>1. /\ InFlight(h) /\ UNCHANGED sub /\ op' = [op EXCEPT ![h] = NoOp]
              /\ enrolled' = enrolled \/ enrolled' = enrolled \cup op[h].got
            BY <2>7 DEF Finish
        <3>2. \A x \in Handlers : op'[x] = IF x = h THEN NoOp ELSE op[x]
            BY <3>1 DEF TypeOK
        <3> QED BY <3>1, <3>2 DEF TriggerHasRow, HasRow, InFlight
    <2>8. CASE Abandon(h)
        BY <2>8, GotKept DEF Abandon, stored
    <2> QED BY <1>2, <2>1, <2>2, <2>3, <2>4, <2>5, <2>6, <2>7, <2>8 DEF HandlerStep
<1> QED BY <1>1, <1>2 DEF Next, ExpireLink, consentVars, stored

-----------------------------------------------------------------------------
(* Type correctness.                                                       *)

DripTypeOK ==
    /\ run \in [Enrollments -> Run]
    /\ \A e \in Enrollments : run[e].at \notin Ended => run[e].step \in 1..Steps
    /\ claims \subseteq Enrollments \X (1..Steps)
    /\ mails \in [Enrollments -> [1..Steps -> Nat]]
    /\ lost \in [Enrollments -> [1..Steps -> Nat]]
    /\ faults \in Nat
    /\ stale \in [Enrollments -> [Causes -> [StepLists -> Nat]]]
    /\ disturbed \in [Enrollments -> BOOLEAN]

Places == {"wait"} \cup Handling \cup Ended

\* Only execution e moves: it comes to a place, at a step.
Moves(e, place, step) ==
    /\ run' \in [Enrollments -> Run]
    /\ run'[e].at = place /\ run'[e].step = step
    /\ \A f \in Enrollments : f # e => run'[f] = run[f]

\* It goes on to its next step, or is done.
Passes(e) ==
    \/ run[e].step < Steps /\ Moves(e, "wait", run[e].step + 1)
    \/ run[e].step = Steps /\ Moves(e, "done", 0)

\* It tries its step again, or gives up.
Repeats(e) == Moves(e, "superseded?", run[e].step) \/ Moves(e, "failed", 0)

LEMMA GotoMoves ==
    ASSUME DripTypeOK, NEW e \in Enrollments, NEW place \in Places, Goto(e, place)
    PROVE  Moves(e, place, run[e].step)
<1>1. run[e] \in Run /\ run' = [run EXCEPT ![e] = [run[e] EXCEPT !.at = place]]
    BY DEF DripTypeOK, Goto
<1>2. [run[e] EXCEPT !.at = place] \in Run
    BY <1>1 DEF Run, Places
<1>3. [run[e] EXCEPT !.at = place].at = place /\ [run[e] EXCEPT !.at = place].step = run[e].step
    BY <1>1 DEF Run
<1> QED BY <1>1, <1>2, <1>3 DEF DripTypeOK, Moves

LEMMA EndMoves ==
    ASSUME DripTypeOK, NEW e \in Enrollments, NEW place \in Ended, End(e, place)
    PROVE  Moves(e, place, 0)
<1>1. [at |-> place, step |-> 0, tries |-> 0] \in Run
    BY DripAssumption DEF Run
<1> QED BY <1>1 DEF DripTypeOK, End, Moves

LEMMA AdvanceMoves ==
    ASSUME DripTypeOK, NEW e \in Enrollments, run[e].at \notin Ended, Advance(e)
    PROVE  Passes(e)
<1>1. run[e].step \in 1..Steps
    BY DEF DripTypeOK
<1>2. CASE run[e].step < Steps
    <2> DEFINE r == [at |-> "wait", step |-> run[e].step + 1, tries |-> 0]
    <2>1. run' = [run EXCEPT ![e] = r]
        BY <1>2 DEF Advance
    <2>2. r \in Run /\ r.at = "wait" /\ r.step = run[e].step + 1
        BY <1>1, <1>2, DripAssumption DEF Run
    <2> HIDE DEF r
    <2>3. Moves(e, "wait", run[e].step + 1)
        BY <2>1, <2>2 DEF DripTypeOK, Moves
    <2> QED BY <1>2, <2>3 DEF Passes
<1>3. CASE ~(run[e].step < Steps)
    <2>1. run[e].step = Steps
        BY <1>1, <1>3, DripAssumption
    <2>2. Moves(e, "done", 0)
        BY <1>3, EndMoves DEF Advance, Ended
    <2> QED BY <2>1, <2>2 DEF Passes
<1> QED BY <1>2, <1>3

LEMMA RetryMoves ==
    ASSUME DripTypeOK, NEW e \in Enrollments, Retry(e)
    PROVE  Repeats(e)
<1>1. run[e] \in Run
    BY DEF DripTypeOK
<1>2. CASE run[e].tries < Retries
    <2> DEFINE r == [run[e] EXCEPT !.at = "superseded?", !.tries = @ + 1]
    <2>1. run' = [run EXCEPT ![e] = r]
        BY <1>2 DEF Retry
    <2>2. r.at = "superseded?" /\ r.step = run[e].step /\ r.tries = run[e].tries + 1
        BY <1>1 DEF Run
    <2>3. run[e].tries + 1 \in 0..Retries
        BY <1>1, <1>2, DripAssumption DEF Run
    <2>4. [run[e] EXCEPT !.at = "superseded?"] \in Run
        BY <1>1 DEF Run, Handling
    <2>5. r \in Run
        BY <2>3, <2>4 DEF Run
    <2> HIDE DEF r
    <2>6. Moves(e, "superseded?", run[e].step)
        BY <2>1, <2>2, <2>5 DEF DripTypeOK, Moves
    <2> QED BY <2>6 DEF Repeats
<1>3. CASE ~(run[e].tries < Retries)
    BY <1>3, EndMoves DEF Retry, Repeats, Ended
<1> QED BY <1>2, <1>3


-----------------------------------------------------------------------------
(* What each step of an execution does to its place, and to the claim and  *)
(* the mails of the step it is at.                                         *)

Quiet == UNCHANGED <<claims, mails, lost>>

\* A count for each execution and step, and counting one more.
OneMore(new, old, e, k) ==
    /\ new \in [Enrollments -> [1..Steps -> Nat]]
    /\ new[e][k] = old[e][k] + 1
    /\ \A f \in Enrollments, j \in 1..Steps : f # e \/ j # k => new[f][j] = old[f][j]

LEMMA CountsAre ==
    ASSUME NEW old \in [Enrollments -> [1..Steps -> Nat]], NEW e \in Enrollments, NEW k \in 1..Steps,
           NEW new, new = [old EXCEPT ![e][k] = @ + 1]
    PROVE  old[e][k] \in Nat /\ OneMore(new, old, e, k)
<1> DEFINE S == 1..Steps
           row == [old[e] EXCEPT ![k] = @ + 1]
           More == /\ new \in [Enrollments -> [S -> Nat]]
                   /\ new[e][k] = old[e][k] + 1
                   /\ \A f \in Enrollments, j \in S : f # e \/ j # k => new[f][j] = old[f][j]
<1>1. old \in [Enrollments -> [S -> Nat]] /\ k \in S
    OBVIOUS
<1> SUFFICES old[e][k] \in Nat /\ More
    BY DEF OneMore
<1> HIDE DEF S
<1>2. old[e] \in [S -> Nat] /\ old[e][k] \in Nat
    BY <1>1
<1>3. row \in [S -> Nat] /\ \A j \in S : row[j] = IF j = k THEN old[e][j] + 1 ELSE old[e][j]
    BY <1>1, <1>2
<1>4. new = [old EXCEPT ![e] = row]
    OBVIOUS
<1> HIDE DEF row
<1> QED BY <1>1, <1>2, <1>3, <1>4

LEMMA PlacesAre ==
    /\ Ended = {"done", "failed"}
    /\ {"wait", "superseded?", "decide", "claim", "gate", "mail", "record"} \subseteq Places \ Ended
BY DEF Places, Handling, Ended

LEMMA WakeDoes ==
    ASSUME DripTypeOK, NEW e \in Enrollments, Wake(e)
    PROVE  run[e].at = "wait" /\ Moves(e, "superseded?", run[e].step) /\ Quiet
BY GotoMoves, PlacesAre DEF Wake, At, Quiet

LEMMA CheckDoes ==
    ASSUME DripTypeOK, NEW e \in Enrollments, CheckSuperseded(e)
    PROVE  /\ run[e].at = "superseded?" /\ Quiet
           /\ \/ sub[Trigger].req # e /\ Moves(e, "done", 0)
              \/ ~(HasRow(Trigger) /\ sub[Trigger].req # e) /\ Moves(e, "decide", run[e].step)
BY GotoMoves, EndMoves, PlacesAre DEF CheckSuperseded, At, Quiet

LEMMA DecideDoes ==
    ASSUME DripTypeOK, NEW e \in Enrollments, Decide(e)
    PROVE  /\ run[e].at = "decide" /\ Quiet
           /\ \/ /\ acct = "suppressed" \/ sub[ListOf[run[e].step]].status # "confirmed"
                 /\ Moves(e, "done", 0)
              \/ /\ sub[ListOf[run[e].step]].status = "confirmed"
                 /\ Moves(e, "claim", run[e].step) \/ Passes(e)
<1>1. run[e].at = "decide" /\ Quiet /\ "claim" \in Places /\ "done" \in Ended
    BY PlacesAre DEF Decide, At, Quiet
<1>2. Goto(e, "claim") => Moves(e, "claim", run[e].step)
    BY <1>1, GotoMoves
<1>3. End(e, "done") => Moves(e, "done", 0)
    BY <1>1, EndMoves
<1>4. Advance(e) => Passes(e)
    BY <1>1, AdvanceMoves, PlacesAre
<1> QED BY <1>1, <1>2, <1>3, <1>4 DEF Decide

LEMMA ClaimDoes ==
    ASSUME DripTypeOK, NEW e \in Enrollments, Claim(e)
    PROVE  /\ run[e].at = "claim" /\ claims' = claims \cup {ClaimOf(e)} /\ UNCHANGED <<mails, lost>>
           /\ \/ ClaimOf(e) \in claims /\ Passes(e)
              \/ ClaimOf(e) \notin claims /\ Moves(e, "gate", run[e].step)
<1>1. run[e].at = "claim" /\ claims' = claims \cup {ClaimOf(e)} /\ UNCHANGED <<mails, lost>>
    BY DEF Claim, At
<1>2. Goto(e, "gate") => Moves(e, "gate", run[e].step)
    BY GotoMoves, PlacesAre
<1>3. Advance(e) => Passes(e)
    BY <1>1, AdvanceMoves, PlacesAre
<1> QED BY <1>1, <1>2, <1>3 DEF Claim

LEMMA GateDoes ==
    ASSUME DripTypeOK, NEW e \in Enrollments, Gate(e)
    PROVE  /\ run[e].at = "gate" /\ UNCHANGED <<mails, lost>>
           /\ \/ MayMail /\ claims' = claims /\ Moves(e, "mail", run[e].step)
              \/ ~MayMail /\ claims' = claims \ {ClaimOf(e)} /\ Passes(e)
<1>1. run[e].at = "gate" /\ UNCHANGED <<mails, lost>>
    BY DEF Gate, At
<1>2. Goto(e, "mail") => Moves(e, "mail", run[e].step)
    BY GotoMoves, PlacesAre
<1>3. Advance(e) => Passes(e)
    BY <1>1, AdvanceMoves, PlacesAre
<1> QED BY <1>1, <1>2, <1>3 DEF Gate

LEMMA AcceptedDoes ==
    ASSUME DripTypeOK, NEW e \in Enrollments, MailAccepted(e)
    PROVE  /\ run[e].at = "mail" /\ UNCHANGED <<claims, lost>>
           /\ OneMore(mails', mails, e, run[e].step)
           /\ Moves(e, "record", run[e].step)
<1>1. mails \in [Enrollments -> [1..Steps -> Nat]] /\ run[e].at = "mail" /\ run[e].step \in 1..Steps
    BY PlacesAre DEF DripTypeOK, MailAccepted, At
<1>2. OneMore(mails', mails, e, run[e].step)
    BY <1>1, CountsAre DEF MailAccepted
<1> QED BY <1>1, <1>2, GotoMoves, PlacesAre DEF MailAccepted

LEMMA FailedDoes ==
    ASSUME DripTypeOK, NEW e \in Enrollments, MailFailed(e)
    PROVE  /\ run[e].at = "mail" /\ UNCHANGED <<mails, lost>>
           /\ claims' = claims \ {ClaimOf(e)} /\ Repeats(e)
BY RetryMoves DEF MailFailed, At

LEMMA ReplyLostDoes ==
    ASSUME DripTypeOK, NEW e \in Enrollments, MailReplyLost(e)
    PROVE  /\ run[e].at = "mail" /\ claims' = claims \ {ClaimOf(e)} /\ Repeats(e)
           /\ OneMore(mails', mails, e, run[e].step)
           /\ OneMore(lost', lost, e, run[e].step)
<1>1. /\ mails \in [Enrollments -> [1..Steps -> Nat]] /\ lost \in [Enrollments -> [1..Steps -> Nat]]
      /\ run[e].at = "mail" /\ run[e].step \in 1..Steps
    BY PlacesAre DEF DripTypeOK, MailReplyLost, At
<1>2. OneMore(mails', mails, e, run[e].step) /\ OneMore(lost', lost, e, run[e].step)
    BY <1>1, CountsAre DEF MailReplyLost
<1> QED BY <1>1, <1>2, RetryMoves DEF MailReplyLost

LEMMA RecordDoes ==
    ASSUME DripTypeOK, NEW e \in Enrollments, Record(e)
    PROVE  run[e].at = "record" /\ Quiet /\ Passes(e)
BY AdvanceMoves, PlacesAre DEF Record, At, Quiet

LEMMA DieDoes ==
    ASSUME DripTypeOK, NEW e \in Enrollments, Die(e)
    PROVE  run[e].at \in Handling /\ Quiet /\ Repeats(e)
BY RetryMoves DEF Die, At, Quiet

\* Only an enrolled execution that has not ended takes a step.
LEMMA Running ==
    ASSUME DripTypeOK, NEW e \in Enrollments, DripStep(e)
    PROVE  e \in enrolled /\ run[e].at \notin Ended /\ run[e].step \in 1..Steps
<1>1. e \in enrolled /\ run[e].at \in {"wait"} \cup Handling
    BY DEF DripStep, Wake, CheckSuperseded, Decide, Claim, Gate, MailAccepted, MailFailed,
           MailReplyLost, Record, Die, At, Handling
<1>2. run[e].at \notin Ended
    BY <1>1 DEF Handling, Ended
<1> QED BY <1>1, <1>2 DEF DripTypeOK

LEMMA MovesType ==
    ASSUME DripTypeOK, NEW e \in Enrollments, run[e].step \in 1..Steps,
           NEW place, NEW step, Moves(e, place, step), place \in Ended \/ step \in 1..Steps
    PROVE  /\ run' \in [Enrollments -> Run]
           /\ \A f \in Enrollments : run'[f].at \notin Ended => run'[f].step \in 1..Steps
BY DEF DripTypeOK, Moves

LEMMA TrackType ==
    ASSUME DripTypeOK, Track
    PROVE  stale' \in [Enrollments -> [Causes -> [StepLists -> Nat]]]
           /\ disturbed' \in [Enrollments -> BOOLEAN]
<1>1. \A e \in Enrollments, cause \in Causes, l \in StepLists : stale[e][cause][l] \in Nat
    BY DEF DripTypeOK
<1> QED BY <1>1 DEF Track

LEMMA StepType ==
    ASSUME DripTypeOK, Track, NEW e \in Enrollments, DripStep(e)
    PROVE  DripTypeOK'
<1> DEFINE RunType == /\ run' \in [Enrollments -> Run]
                      /\ \A f \in Enrollments : run'[f].at \notin Ended => run'[f].step \in 1..Steps
           k == run[e].step
<1>1. k \in 1..Steps /\ ClaimOf(e) \in Enrollments \X (1..Steps)
    BY Running DEF ClaimOf
<1>2. \A place, step : Moves(e, place, step) /\ (place \in Ended \/ step \in 1..Steps) => RunType
    BY <1>1, MovesType
<1>3. Passes(e) => RunType
    <2>1. k < Steps => k + 1 \in 1..Steps
        BY <1>1, DripAssumption
    <2> QED BY <1>2, <2>1, PlacesAre DEF Passes
<1>4. Repeats(e) => RunType
    BY <1>1, <1>2, PlacesAre DEF Repeats
<1>6. faults' \in Nat
    BY DEF DripTypeOK, DripStep, Wake, CheckSuperseded, Decide, Claim, Gate, MailAccepted,
           MailFailed, MailReplyLost, Record, Die, Fault
<1> HIDE DEF RunType
<1>7. RunType
    BY <1>1, <1>2, <1>3, <1>4, PlacesAre, WakeDoes, CheckDoes, DecideDoes, ClaimDoes, GateDoes,
       AcceptedDoes, FailedDoes, ReplyLostDoes, RecordDoes, DieDoes DEF DripStep
<1>8. claims' \subseteq Enrollments \X (1..Steps)
    BY <1>1, WakeDoes, CheckDoes, DecideDoes, ClaimDoes, GateDoes, AcceptedDoes, FailedDoes,
       ReplyLostDoes, RecordDoes, DieDoes DEF DripTypeOK, DripStep, Quiet
<1>9. /\ mails' \in [Enrollments -> [1..Steps -> Nat]]
      /\ lost' \in [Enrollments -> [1..Steps -> Nat]]
    BY WakeDoes, CheckDoes, DecideDoes, ClaimDoes, GateDoes, AcceptedDoes, FailedDoes,
       ReplyLostDoes, RecordDoes, DieDoes DEF DripTypeOK, DripStep, Quiet, OneMore
<1> QED BY <1>6, <1>7, <1>8, <1>9, TrackType DEF DripTypeOK, RunType

LEMMA NextDripType ==
    ASSUME DripTypeOK, [DripNext]_dvars
    PROVE  DripTypeOK'
<1>1. CASE UNCHANGED dvars
    BY <1>1 DEF DripTypeOK, dvars, dripVars, historyVars
<1>2. CASE UNCHANGED dripVars /\ Track
    BY <1>2, TrackType DEF DripTypeOK, dripVars
<1> QED BY <1>1, <1>2, StepType DEF DripNext

-----------------------------------------------------------------------------
(* Each step is mailed once.  The claim, the mails and the lost replies of *)
(* a step agree: without a claim nothing was mailed that SES confirmed.    *)

Counted(e, k) ==
    /\ lost[e][k] <= mails[e][k] /\ mails[e][k] <= lost[e][k] + 1
    /\ <<e, k>> \notin claims => mails[e][k] = lost[e][k]
    /\ run[e].at \in {"gate", "mail"} /\ run[e].step = k =>
          <<e, k>> \in claims /\ mails[e][k] = lost[e][k]
    /\ run[e].at = "record" /\ run[e].step = k =>
          <<e, k>> \in claims /\ mails[e][k] = lost[e][k] + 1

AllCounted == \A e \in Enrollments, k \in 1..Steps : Counted(e, k)

\* A step of the sequence that is neither claimed nor mailed stays counted.
LEMMA CountedKept ==
    ASSUME NEW e, NEW k, Counted(e, k), mails'[e][k] = mails[e][k], lost'[e][k] = lost[e][k],
           <<e, k>> \in claims' <=> <<e, k>> \in claims,
           \/ run'[e] = run[e]
           \/ run'[e].at \notin {"gate", "mail", "record"}
           \/ run'[e].step # k
    PROVE  Counted(e, k)'
BY DEF Counted

LEMMA StepCounted ==
    ASSUME DripTypeOK, NEW e \in Enrollments, DripStep(e), AllCounted
    PROVE  AllCounted'
<1> PICK k \in 1..Steps : k = run[e].step
    BY Running
<1> DEFINE Off(place) == place \notin {"gate", "mail", "record"}
           Others == \A f \in Enrollments, j \in 1..Steps : f # e \/ j # k => Counted(f, j)'
           Same == \A f \in Enrollments, j \in 1..Steps : f # e \/ j # k =>
                      /\ mails'[f][j] = mails[f][j] /\ lost'[f][j] = lost[f][j]
                      /\ <<f, j>> \in claims' <=> <<f, j>> \in claims
           Goal == Others /\ Counted(e, k)'
<1>1. Counted(e, k) /\ mails[e][k] \in Nat /\ lost[e][k] \in Nat
    BY CountsAre DEF AllCounted, DripTypeOK
<1>2. SUFFICES Goal
    BY DEF AllCounted
<1>3. ASSUME NEW place, NEW step, Moves(e, place, step), Off(place) \/ step = k, Same
      PROVE  Others
    <2> SUFFICES ASSUME NEW f \in Enrollments, NEW j \in 1..Steps, f # e \/ j # k
                 PROVE  Counted(f, j)'
        OBVIOUS
    <2>1. run'[f] = run[f] \/ run'[f].at \notin {"gate", "mail", "record"} \/ run'[f].step # j
        BY <1>3 DEF Moves
    <2>2. Counted(f, j)
        BY DEF AllCounted
    <2> QED BY <1>3, <2>1, <2>2, CountedKept
<1>4. ClaimOf(e) = <<e, k>> /\ \A f \in Enrollments, j \in 1..Steps :
                                 f # e \/ j # k => <<f, j>> # <<e, k>>
    BY DEF ClaimOf
<1>5. ASSUME UNCHANGED <<mails, lost>>,
             claims' \in {claims, claims \cup {<<e, k>>}, claims \ {<<e, k>>}}
      PROVE  Same
    BY <1>4, <1>5
<1>6. ASSUME claims' \in {claims, claims \ {<<e, k>>}}, OneMore(mails', mails, e, k),
             UNCHANGED lost \/ OneMore(lost', lost, e, k)
      PROVE  Same
    BY <1>4, <1>6 DEF OneMore
<1> HIDE DEF Same, Others
\* Away from gate, mail and record the step's claim and counts stay in accord.
<1>8. ASSUME NEW place, NEW step, Moves(e, place, step), Off(place), UNCHANGED <<mails, lost>>,
             \/ claims' = claims
             \/ claims' = claims \ {<<e, k>>} /\ run[e].at \in {"gate", "mail"}
      PROVE  Goal
    <2>1. Counted(e, k)'
        BY <1>1, <1>8 DEF Counted, Moves
    <2> QED BY <1>3, <1>5, <1>8, <2>1
<1>9. ASSUME Passes(e) \/ Repeats(e), UNCHANGED <<mails, lost>>,
             \/ claims' = claims
             \/ claims' = claims \ {<<e, k>>} /\ run[e].at \in {"gate", "mail"}
      PROVE  Goal
    BY <1>8, <1>9 DEF Passes, Repeats
<1> HIDE DEF Goal
<1>10. CASE Wake(e) \/ CheckSuperseded(e) \/ Decide(e) \/ Record(e) \/ Die(e)
    BY <1>8, <1>9, <1>10, WakeDoes, CheckDoes, DecideDoes, RecordDoes, DieDoes DEF Quiet
<1>11. CASE Claim(e)
    <2>1. CASE ClaimOf(e) \in claims /\ Passes(e)
        <3>1. claims' = claims
            BY <1>11, <2>1, ClaimDoes
        <3> QED BY <1>9, <1>11, <2>1, <3>1, ClaimDoes
    <2>2. CASE ClaimOf(e) \notin claims /\ Moves(e, "gate", k)
        <3>1. claims' = claims \cup {<<e, k>>} /\ UNCHANGED <<mails, lost>>
            BY <1>4, <1>11, ClaimDoes
        <3>2. Counted(e, k)'
            BY <1>1, <1>4, <2>2, <3>1 DEF Counted, Moves
        <3> QED BY <1>3, <1>5, <2>2, <3>1, <3>2 DEF Goal
    <2> QED BY <1>11, <2>1, <2>2, ClaimDoes
<1>12. CASE Gate(e)
    <2>1. run[e].at = "gate" /\ UNCHANGED <<mails, lost>>
        BY <1>12, GateDoes
    <2>2. CASE claims' = claims /\ Moves(e, "mail", k)
        <3>1. Counted(e, k)'
            BY <1>1, <2>1, <2>2 DEF Counted, Moves
        <3> QED BY <1>3, <1>5, <2>1, <2>2, <3>1 DEF Goal
    <2>3. CASE claims' = claims \ {<<e, k>>} /\ Passes(e)
        BY <1>9, <2>1, <2>3
    <2> QED BY <1>4, <1>12, <2>2, <2>3, GateDoes
<1>13. CASE MailAccepted(e)
    <2>1. /\ run[e].at = "mail" /\ UNCHANGED <<claims, lost>> /\ Moves(e, "record", k)
          /\ OneMore(mails', mails, e, k)
        BY <1>13, AcceptedDoes
    <2>2. mails'[e][k] = mails[e][k] + 1
        BY <2>1 DEF OneMore
    <2>3. Counted(e, k)'
        BY <1>1, <2>1, <2>2 DEF Counted, Moves
    <2> QED BY <1>3, <1>6, <2>1, <2>3 DEF Goal
<1>14. CASE MailFailed(e)
    BY <1>4, <1>9, <1>14, FailedDoes
<1>15. CASE MailReplyLost(e)
    <2>1. /\ run[e].at = "mail" /\ claims' = claims \ {<<e, k>>} /\ Repeats(e)
          /\ OneMore(mails', mails, e, k) /\ OneMore(lost', lost, e, k)
        BY <1>4, <1>15, ReplyLostDoes
    <2>2. mails'[e][k] = mails[e][k] + 1 /\ lost'[e][k] = lost[e][k] + 1
        BY <2>1 DEF OneMore
    <2>3. PICK place, step : Moves(e, place, step) /\ Off(place)
        BY <2>1 DEF Repeats
    <2>4. Counted(e, k)'
        BY <1>1, <2>1, <2>2, <2>3 DEF Counted, Moves
    <2> QED BY <1>3, <1>6, <2>1, <2>3, <2>4 DEF Goal
<1> QED BY <1>2, <1>10, <1>11, <1>12, <1>13, <1>14, <1>15 DEF DripStep

LEMMA NextCounted ==
    ASSUME DripTypeOK, AllCounted, [DripNext]_dvars
    PROVE  AllCounted'
<1>1. CASE UNCHANGED dripVars
    BY <1>1 DEF AllCounted, Counted, dripVars
<1> QED BY <1>1, StepCounted DEF DripNext, dvars

-----------------------------------------------------------------------------
(* An outdated execution.  Each cause is asked after between any mail and  *)
(* the next, so none was mailed since the last answer.                     *)

\* Execution e has asked after the cause, and has not mailed its step since.
PastCheck(e, cause, l) ==
    CASE cause = "superseded" -> run[e].at \in {"decide", "claim", "gate", "mail"}
      [] cause = "left" -> run[e].at \in {"claim", "gate", "mail"} /\ ListOf[run[e].step] = l
      [] cause = "barred" -> run[e].at = "mail"

Fresh(e, cause, l) ==
    stale[e][cause][l] <= 1 /\ (PastCheck(e, cause, l) => stale[e][cause][l] = 0)

AllFresh == \A e \in Enrollments, cause \in Causes, l \in StepLists : Fresh(e, cause, l)

LEMMA TrackStale ==
    ASSUME DripTypeOK, Track, NEW e \in Enrollments, NEW cause \in Causes, NEW l \in StepLists
    PROVE  /\ stale[e][cause][l] \in Nat
           /\ stale'[e][cause][l] =
                 IF ~Holding(cause, e, l)' \/ run[e].at \in Ended THEN 0
                 ELSE stale[e][cause][l] + (IF MailedOn(e, l) THEN 1 ELSE 0)
BY DEF DripTypeOK, Track

\* An execution whose mails and place stay is as fresh as it was.
LEMMA FreshKept ==
    ASSUME DripTypeOK, Track, NEW e \in Enrollments, NEW cause \in Causes, NEW l \in StepLists,
           Fresh(e, cause, l), mails'[e] = mails[e],
           PastCheck(e, cause, l)' => PastCheck(e, cause, l) \/ ~Holding(cause, e, l)'
    PROVE  Fresh(e, cause, l)'
<1>1. ~MailedOn(e, l)
    BY DEF MailedOn
<1>2. stale[e][cause][l] \in Nat /\ stale'[e][cause][l] \in {0, stale[e][cause][l]}
      /\ (~Holding(cause, e, l)' => stale'[e][cause][l] = 0)
    BY <1>1, TrackStale
<1> QED BY <1>2 DEF Fresh

\* One that mails its step had asked after every cause.
LEMMA FreshMailed ==
    ASSUME DripTypeOK, Track, NEW e \in Enrollments, NEW cause \in Causes, NEW l \in StepLists,
           Fresh(e, cause, l), run[e].at = "mail", OneMore(mails', mails, e, run[e].step),
           run'[e].at \in {"record", "superseded?", "failed"}
    PROVE  Fresh(e, cause, l)'
<1>1. run[e].step \in 1..Steps
    BY PlacesAre DEF DripTypeOK
<1>2. ~PastCheck(e, cause, l)'
    BY DEF PastCheck, Causes
<1>3. MailedOn(e, l) => ListOf[run[e].step] = l
    BY <1>1 DEF MailedOn, OneMore
<1>4. MailedOn(e, l) => PastCheck(e, cause, l)
    BY <1>3 DEF PastCheck, Causes
<1> QED BY <1>2, <1>4, TrackStale DEF Fresh

LEMMA StepFresh ==
    ASSUME DripTypeOK, Track, TriggerHasRow, NEW e \in Enrollments, DripStep(e), UNCHANGED consentVars,
           NEW cause \in Causes, NEW l \in StepLists, Fresh(e, cause, l)
    PROVE  Fresh(e, cause, l)'
<1>1. Holding(cause, e, l)' <=> Holding(cause, e, l)
    BY DEF Holding, MayMail, consentVars
<1>2. e \in enrolled /\ HasRow(Trigger)
    BY Running DEF TriggerHasRow
<1> DEFINE Off(place) == place \notin {"decide", "claim", "gate", "mail"}
<1>3. ASSUME NEW place, NEW step, Moves(e, place, step), Off(place), UNCHANGED mails
      PROVE  Fresh(e, cause, l)'
    <2>1. ~PastCheck(e, cause, l)'
        BY <1>3 DEF Moves, PastCheck, Causes
    <2> QED BY <1>3, <2>1, FreshKept
<1>4. ASSUME Passes(e) \/ Repeats(e), UNCHANGED mails PROVE Fresh(e, cause, l)'
    BY <1>3, <1>4 DEF Passes, Repeats
<1>5. CASE Wake(e) \/ Record(e) \/ Die(e) \/ MailFailed(e)
    BY <1>3, <1>4, <1>5, WakeDoes, RecordDoes, DieDoes, FailedDoes DEF Quiet
<1>6. CASE CheckSuperseded(e)
    <2>1. CASE sub[Trigger].req = e /\ Moves(e, "decide", run[e].step)
        <3>1. PastCheck(e, cause, l)' => ~Holding(cause, e, l)
            BY <2>1 DEF PastCheck, Holding, Moves, Causes
        <3> QED BY <1>1, <1>6, <3>1, CheckDoes, FreshKept DEF Quiet
    <2>2. CASE Moves(e, "done", 0)
        BY <1>3, <1>6, <2>2, CheckDoes DEF Quiet
    <2> QED BY <1>2, <1>6, <2>1, <2>2, CheckDoes
<1>7. CASE Decide(e)
    <2>1. CASE Moves(e, "claim", run[e].step) /\ sub[ListOf[run[e].step]].status = "confirmed"
        <3>1. PastCheck(e, cause, l)' => PastCheck(e, cause, l) \/ ~Holding(cause, e, l)
            BY <1>7, <2>1, DecideDoes DEF PastCheck, Holding, Moves, Causes
        <3> QED BY <1>1, <1>7, <3>1, DecideDoes, FreshKept DEF Quiet
    <2>2. CASE Moves(e, "done", 0) \/ Passes(e)
        BY <1>3, <1>4, <1>7, <2>2, DecideDoes DEF Quiet
    <2> QED BY <1>7, <2>1, <2>2, DecideDoes
<1>8. CASE Claim(e)
    <2>1. CASE Moves(e, "gate", run[e].step)
        <3>1. PastCheck(e, cause, l)' => PastCheck(e, cause, l)
            BY <1>8, <2>1, ClaimDoes DEF PastCheck, Moves, Causes
        <3> QED BY <1>8, <3>1, ClaimDoes, FreshKept
    <2> QED BY <1>4, <1>8, <2>1, ClaimDoes
<1>9. CASE Gate(e)
    <2>1. CASE Moves(e, "mail", run[e].step) /\ MayMail
        <3>1. PastCheck(e, cause, l)' => PastCheck(e, cause, l) \/ ~Holding(cause, e, l)
            BY <1>9, <2>1, GateDoes DEF PastCheck, Holding, Moves, Causes
        <3> QED BY <1>1, <1>9, <3>1, GateDoes, FreshKept
    <2> QED BY <1>4, <1>9, <2>1, GateDoes
<1>10. CASE MailAccepted(e)
    BY <1>10, AcceptedDoes, FreshMailed DEF Moves
<1>11. CASE MailReplyLost(e)
    BY <1>11, ReplyLostDoes, FreshMailed DEF Repeats, Moves
<1> QED BY <1>5, <1>6, <1>7, <1>8, <1>9, <1>10, <1>11 DEF DripStep

\* The executions that do not take the step.
LEMMA OthersStand ==
    ASSUME DripTypeOK, NEW e \in Enrollments, DripStep(e), NEW f \in Enrollments, f # e
    PROVE  run'[f] = run[f] /\ mails'[f] = mails[f]
<1>1. run'[f] = run[f]
    BY WakeDoes, CheckDoes, DecideDoes, ClaimDoes, GateDoes, AcceptedDoes, FailedDoes, ReplyLostDoes,
       RecordDoes, DieDoes DEF DripStep, Passes, Repeats, Moves
<1>2. mails'[f] = mails[f]
    BY DEF DripTypeOK, DripStep, Wake, CheckSuperseded, Decide, Claim, Gate, MailAccepted,
           MailFailed, MailReplyLost, Record, Die
<1> QED BY <1>1, <1>2

LEMMA NextFresh ==
    ASSUME DripTypeOK, TriggerHasRow, AllFresh, [DripNext]_dvars
    PROVE  AllFresh'
<1>1. CASE UNCHANGED dvars
    BY <1>1 DEF AllFresh, Fresh, PastCheck, dvars, dripVars, historyVars
<1> SUFFICES ASSUME Track, NEW e \in Enrollments, NEW cause \in Causes, NEW l \in StepLists,
                    UNCHANGED dripVars \/ \E f \in Enrollments : DripStep(f) /\ UNCHANGED consentVars
             PROVE  Fresh(e, cause, l)'
    BY <1>1 DEF DripNext, AllFresh
<1>2. Fresh(e, cause, l)
    BY DEF AllFresh
<1>3. ASSUME run'[e] = run[e], mails'[e] = mails[e] PROVE Fresh(e, cause, l)'
    <2>1. PastCheck(e, cause, l)' => PastCheck(e, cause, l)
        BY <1>3 DEF PastCheck, Causes
    <2> QED BY <1>2, <1>3, <2>1, FreshKept
<1>4. CASE UNCHANGED dripVars
    BY <1>3, <1>4 DEF dripVars
<1>5. ASSUME NEW f \in Enrollments, DripStep(f), UNCHANGED consentVars PROVE Fresh(e, cause, l)'
    BY <1>2, <1>3, <1>5, StepFresh, OthersStand
<1> QED BY <1>4, <1>5

-----------------------------------------------------------------------------
(* An undisturbed execution.  What it has passed, or holds a claim of      *)
(* without being about to send it, was mailed.                             *)

InFull(e) ==
    /\ run[e].at \notin Ended => \A k \in 1..Steps : k < run[e].step => mails[e][k] >= 1
    /\ run[e].at = "record" => mails[e][run[e].step] >= 1
    /\ \A k \in 1..Steps : <<e, k>> \in claims =>
          mails[e][k] >= 1 \/ (run[e].at \in {"gate", "mail"} /\ run[e].step = k)
    /\ run[e].at = "done" => \A k \in 1..Steps : mails[e][k] >= 1

AllInFull == \A e \in Enrollments : ~disturbed[e] => InFull(e)

\* No cause holds against an execution that is in date.
LEMMA NoCause ==
    ASSUME DripTypeOK, NEW e \in Enrollments, InDate(e), NEW k \in 1..Steps
    PROVE  sub[Trigger].req = e /\ sub[ListOf[k]].status = "confirmed" /\ MayMail
<1>1. ListOf[k] \in StepLists
    BY DEF StepLists
<1>2. /\ ~Holding("superseded", e, ListOf[k]) /\ ~Holding("left", e, ListOf[k])
      /\ ~Holding("barred", e, ListOf[k])
    BY <1>1 DEF InDate, Causes
<1> QED BY <1>2 DEF Holding

\* A step that keeps an execution where it is in the sequence, and gives its
\* claim back unless it is about to send.
LEMMA InFullStays ==
    ASSUME DripTypeOK, NEW e \in Enrollments, NEW k \in 1..Steps, run[e].step = k, run[e].at \notin Ended,
           InFull(e), NEW place, NEW step, Moves(e, place, step),
           step = k \/ place = "failed", place \notin {"record", "done"},
           \A j \in 1..Steps : mails[e][j] >= 1 => mails'[e][j] >= 1,
           \A j \in 1..Steps : <<e, j>> \in claims' => <<e, j>> \in claims \/ j = k,
           <<e, k>> \in claims' =>
              place \in {"gate", "mail"} \/ (<<e, k>> \in claims /\ run[e].at \notin {"gate", "mail"})
    PROVE  InFull(e)'
<1>1. run'[e].at = place /\ run'[e].step = step
    BY DEF Moves
<1>2. run'[e].at \notin Ended => \A j \in 1..Steps : j < run'[e].step => mails'[e][j] >= 1
    BY <1>1 DEF InFull, Ended
<1>3. ASSUME NEW j \in 1..Steps, <<e, j>> \in claims'
      PROVE  mails'[e][j] >= 1 \/ (run'[e].at \in {"gate", "mail"} /\ run'[e].step = j)
    <2>1. CASE j # k
        BY <1>3, <2>1 DEF InFull
    <2>2. CASE j = k
        BY <1>1, <1>3, <2>2 DEF InFull
    <2> QED BY <2>1, <2>2
<1> QED BY <1>1, <1>2, <1>3 DEF InFull

\* A step that was mailed is passed.
LEMMA InFullPasses ==
    ASSUME DripTypeOK, NEW e \in Enrollments, NEW k \in 1..Steps, run[e].step = k,
           run[e].at \notin Ended \cup {"gate", "mail"},
           InFull(e), Passes(e), mails[e][k] >= 1, UNCHANGED mails,
           \A j \in 1..Steps : <<e, j>> \in claims' => <<e, j>> \in claims
    PROVE  InFull(e)'
<1>1. \A j \in 1..Steps : j < k + 1 => mails[e][j] >= 1
    BY DEF InFull
<1>2. \A j \in 1..Steps : <<e, j>> \in claims' => mails[e][j] >= 1
    BY DEF InFull
<1>3. CASE k < Steps /\ Moves(e, "wait", k + 1)
    BY <1>1, <1>2, <1>3 DEF InFull, Moves, Ended
<1>4. CASE k = Steps /\ Moves(e, "done", 0)
    <2>1. \A j \in 1..Steps : mails[e][j] >= 1
        BY <1>1, <1>4, DripAssumption
    <2> QED BY <1>4, <2>1 DEF InFull, Moves, Ended
<1> QED BY <1>3, <1>4 DEF Passes

LEMMA StepInFull ==
    ASSUME DripTypeOK, AllCounted, NEW e \in Enrollments, DripStep(e), InDate(e), ~Mishap(e), InFull(e)
    PROVE  InFull(e)'
<1> PICK k \in 1..Steps : k = run[e].step
    BY Running
<1>0. \A j \in 1..Steps : mails[e][j] \in Nat
    BY DEF DripTypeOK
<1>1. run[e].at \notin Ended /\ ClaimOf(e) = <<e, k>>
    BY Running DEF ClaimOf
<1>2. sub[Trigger].req = e /\ sub[ListOf[k]].status = "confirmed" /\ MayMail
    BY NoCause
<1>3. ASSUME NEW place, NEW step, Moves(e, place, step),
             step = k \/ place = "failed", place \notin {"record", "done"}, UNCHANGED mails,
             \/ claims' = claims /\ (run[e].at \notin {"gate", "mail"} \/ place \in {"gate", "mail"})
             \/ claims' = claims \ {<<e, k>>}
             \/ claims' = claims \cup {<<e, k>>} /\ place \in {"gate", "mail"}
      PROVE  InFull(e)'
    BY <1>1, <1>3, InFullStays
<1>4. CASE Wake(e)
    BY <1>3, <1>4, WakeDoes DEF Quiet
<1>5. CASE CheckSuperseded(e)
    BY <1>2, <1>3, <1>5, CheckDoes DEF Quiet
<1>6. CASE Decide(e)
    <2>1. ~Passes(e)
        BY <1>6, DecideDoes DEF Mishap, Passes, Moves
    <2>2. run[e].at = "decide" /\ Quiet /\ Moves(e, "claim", k)
        BY <1>2, <1>6, <2>1, DecideDoes DEF MayMail
    <2> QED BY <1>3, <2>2 DEF Quiet
<1>7. CASE Claim(e)
    <2>1. run[e].at = "claim" /\ claims' = claims \cup {<<e, k>>} /\ UNCHANGED mails
        BY <1>1, <1>7, ClaimDoes
    <2>2. CASE <<e, k>> \in claims /\ Passes(e)
        <3>1. mails[e][k] >= 1 /\ claims' = claims
            BY <2>1, <2>2 DEF InFull
        <3> QED BY <1>1, <2>1, <2>2, <3>1, InFullPasses
    <2>3. CASE Moves(e, "gate", k)
        BY <1>3, <2>1, <2>3
    <2> QED BY <1>1, <1>7, <2>2, <2>3, ClaimDoes
<1>8. CASE Gate(e)
    BY <1>2, <1>3, <1>8, GateDoes
<1>9. CASE MailAccepted(e)
    <2>1. /\ UNCHANGED claims /\ OneMore(mails', mails, e, k) /\ Moves(e, "record", k)
        BY <1>9, AcceptedDoes
    <2>2. mails'[e][k] >= 1
        BY <1>0, <2>1 DEF OneMore
    <2>3. \A j \in 1..Steps : mails[e][j] >= 1 => mails'[e][j] >= 1
        BY <2>1, <2>2 DEF OneMore
    <2>4. run'[e].at = "record" /\ run'[e].step = k
        BY <2>1 DEF Moves
    <2>5. \A j \in 1..Steps : <<e, j>> \in claims' => mails'[e][j] >= 1
        BY <2>1, <2>2, <2>3 DEF InFull
    <2>6. \A j \in 1..Steps : j < k => mails'[e][j] >= 1
        BY <1>1, <2>3 DEF InFull
    <2> QED BY <2>2, <2>4, <2>5, <2>6 DEF InFull
<1>10. CASE MailFailed(e)
    BY <1>1, <1>3, <1>10, FailedDoes DEF Repeats
<1>11. CASE MailReplyLost(e)
    <2>1. claims' = claims \ {<<e, k>>} /\ Repeats(e) /\ OneMore(mails', mails, e, k)
        BY <1>1, <1>11, ReplyLostDoes
    <2>2. \A j \in 1..Steps : mails[e][j] >= 1 => mails'[e][j] >= 1
        BY <1>0, <2>1 DEF OneMore
    <2> QED BY <1>1, <2>1, <2>2, InFullStays DEF Repeats
<1>12. CASE Record(e)
    <2>1. run[e].at = "record" /\ Quiet /\ Passes(e)
        BY <1>12, RecordDoes
    <2>2. mails[e][k] >= 1
        BY <2>1 DEF InFull
    <2> QED BY <1>1, <2>1, <2>2, InFullPasses DEF Quiet
<1>13. CASE Die(e)
    <2>1. Quiet /\ Repeats(e)
        BY <1>13, DieDoes
    <2>2. run[e].at \in {"gate", "mail"} => <<e, k>> \in claims'
        BY <2>1 DEF AllCounted, Counted, Quiet
    <2>3. run[e].at \notin {"gate", "mail"}
        BY <1>1, <2>1, <2>2 DEF Mishap, Repeats, Moves, Ended
    <2> QED BY <1>3, <2>1, <2>3 DEF Quiet, Repeats
<1> QED BY <1>4, <1>5, <1>6, <1>7, <1>8, <1>9, <1>10, <1>11, <1>12, <1>13 DEF DripStep

LEMMA NextInFull ==
    ASSUME IInv, DripTypeOK, AllCounted, AllInFull, [DripNext]_dvars
    PROVE  AllInFull'
<1>1. CASE UNCHANGED dvars
    BY <1>1 DEF AllInFull, InFull, dvars, dripVars, historyVars
<1> SUFFICES ASSUME Track, NEW e \in Enrollments, ~disturbed'[e],
                    UNCHANGED dripVars \/ \E f \in Enrollments : DripStep(f) /\ UNCHANGED consentVars
             PROVE  InFull(e)'
    BY <1>1 DEF DripNext, AllInFull
<1>2. ~disturbed[e] /\ (e \in enrolled' => InDate(e)') /\ ~Mishap(e)
    BY DEF Track
<1>3. InFull(e)
    BY <1>2 DEF AllInFull
<1>4. CASE UNCHANGED dripVars
    BY <1>3, <1>4 DEF InFull, dripVars
<1>5. ASSUME DripStep(e), UNCHANGED consentVars PROVE InFull(e)'
    <2>1. e \in enrolled' /\ (InDate(e)' <=> InDate(e))
        BY <1>5, Running DEF consentVars, InDate, Holding, MayMail
    <2> QED BY <1>2, <1>3, <1>5, <2>1, StepInFull
<1>6. ASSUME NEW f \in Enrollments, f # e, DripStep(f) PROVE InFull(e)'
    <2>1. run'[e] = run[e] /\ mails'[e] = mails[e]
        BY <1>6, OthersStand
    <2>2. \A k \in 1..Steps : <<e, k>> \in claims' => <<e, k>> \in claims
        BY <1>6 DEF DripStep, Wake, CheckSuperseded, Decide, Claim, Gate, MailAccepted,
               MailFailed, MailReplyLost, Record, Die, ClaimOf
    <2> QED BY <1>3, <2>1, <2>2 DEF InFull
<1> QED BY <1>4, <1>5, <1>6

-----------------------------------------------------------------------------
(* The inductive invariant of the composition.                             *)

DripInv ==
    /\ IInv
    /\ TriggerHasRow
    /\ DripTypeOK
    /\ AllCounted
    /\ AllFresh
    /\ AllInFull

LEMMA DripInitInv == DripInit => DripInv
<1> SUFFICES ASSUME DripInit PROVE DripInv
    OBVIOUS
<1>1. Init
    BY DEF DripInit
<1>2. IInv
    BY <1>1, InitType DEF IInv, HandlersOK, Init, InFlight
<1>3. TriggerHasRow
    BY <1>1 DEF TriggerHasRow, Init, InFlight
<1> DEFINE start == [at |-> "wait", step |-> 1, tries |-> 0]
<1>4. start \in Run /\ start.at = "wait" /\ start.step = 1 /\ 1 \in 1..Steps
    BY DripAssumption DEF Run
<1> HIDE DEF start
<1>5. run = [e \in Enrollments |-> start]
    BY DEF DripInit, start
<1>6. \A e \in Enrollments, k \in 1..Steps : mails[e][k] = 0 /\ lost[e][k] = 0
    BY DEF DripInit, Zero
<1>7. Zero \in [Enrollments -> [1..Steps -> Nat]]
    BY DEF Zero
<1>8. DripTypeOK
    BY <1>4, <1>5, <1>7 DEF DripInit, DripTypeOK
<1>9. AllCounted
    BY <1>4, <1>5, <1>6 DEF AllCounted, Counted, DripInit
<1>10. AllFresh
    BY <1>4, <1>5 DEF AllFresh, Fresh, DripInit
<1>11. AllInFull
    BY <1>4, <1>5 DEF AllInFull, InFull, DripInit, Ended
<1> QED BY <1>2, <1>3, <1>8, <1>9, <1>10, <1>11 DEF DripInv

LEMMA DripNextInv == DripInv /\ [DripNext]_dvars => DripInv'
<1> SUFFICES ASSUME DripInv, [DripNext]_dvars PROVE DripInv'
    OBVIOUS
<1>1. [Next]_consentVars
    BY DEF DripNext, dvars
<1>2. IInv'
    BY <1>1, NextType, NextHandlers DEF DripInv, IInv
<1>3. TriggerHasRow'
    BY <1>1, NextTriggerHasRow DEF DripInv, IInv
<1> QED BY <1>2, <1>3, NextDripType, NextCounted, NextFresh, NextInFull DEF DripInv

THEOREM DripHolds == DripSpec => []DripInv
BY DripInitInv, DripNextInv, PTL DEF DripSpec

\* The composition's own state is well typed: an execution that runs is at one of
\* its steps (drip.ts, nextStepIndex).
THEOREM DripTypeCorrect == DripSpec => []DripTypeOK
<1>1. DripInv => DripTypeOK
    BY DEF DripInv
<1> QED BY <1>1, DripHolds, PTL

\* Each step of an enrollment is mailed once, but for the mails SES took without
\* saying so, under any interleaving of the executions, retries and deaths
\* (drip.ts, dripCampaignId; send.ts, sendToSubscriber).
THEOREM StepsMailedOnce == DripSpec => []StepOnce
<1>1. ASSUME DripInv, NEW e \in Enrollments, NEW k \in 1..Steps
      PROVE  mails[e][k] <= 1 + lost[e][k]
    <2>1. mails[e][k] \in Nat /\ lost[e][k] \in Nat
        BY <1>1 DEF DripInv, DripTypeOK
    <2>2. mails[e][k] <= lost[e][k] + 1
        BY <1>1 DEF DripInv, AllCounted, Counted
    <2> QED BY <2>1, <2>2
<1>2. DripInv => StepOnce
    BY <1>1 DEF StepOnce
<1> QED BY <1>2, DripHolds, PTL

\* Once the reader asked anew, left or may not be mailed, an execution mails at
\* most the one message it was about to send (drip.ts, enrollmentSuperseded and
\* evaluateDripStep; send.ts, mayMail).
THEOREM OutdatedMailOnce == DripSpec => []OutdatedMailsOnce
<1>1. DripInv => OutdatedMailsOnce
    BY DEF DripInv, AllFresh, Fresh, OutdatedMailsOnce
<1> QED BY <1>1, DripHolds, PTL

\* An execution that was in date all the time, skipped no step and lost no claim
\* has mailed every step when it is done: retries leave nothing out (infra/cdk,
\* the drip machine; send.ts, sendToSubscriber).
THEOREM UndisturbedMailAll == DripSpec => []UndisturbedInFull
<1>1. DripInv => UndisturbedInFull
    BY DEF DripInv, IInv, TypeOK, Enrollments, AllInFull, InFull, UndisturbedInFull
<1> QED BY <1>1, DripHolds, PTL
=============================================================================
