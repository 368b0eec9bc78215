------------------------- MODULE CampaignSendProofs -------------------------
(* Theorems about CampaignSend, for every choice of its constants.         *)
EXTENDS CampaignSend, FiniteSetTheorems, TLAPS

USE SendAssumption

-----------------------------------------------------------------------------
(* Type correctness.                                                       *)

LEMMA InitTypeOK == Init => TypeOK
<1> SUFFICES ASSUME Init PROVE TypeOK
  OBVIOUS
<1>1. /\ mq \in [Msgs -> [st : {"visible", "inflight", "deleted", "dead"},
                          receives : 0..MaxReceives]]
      /\ left \in [Disturbances -> Nat]
  BY DEF Init
<1>2. pc \in [Workers -> Labels]
  BY DEF Init, Labels
<1>3. \A w \in Workers : /\ pc[w] # "idle" => job[w] \in Msgs
                         /\ pc[w] \in {"claim", "send", "record"} => cur[w] \in Recipients
  BY DEF Init
<1> QED
  BY <1>1, <1>2, <1>3 DEF Init, TypeOK

\* A budget is a vector of naturals, whatever it is spent on.
LEMMA SpendType ==
    ASSUME TypeOK, NEW d \in Disturbances, Spend(d)
    PROVE  left' \in [Disturbances -> Nat]
BY DEF Spend, TypeOK

\* Counting one more event, or one more message, for a recipient.
LEMMA BumpType ==
    ASSUME NEW f \in [Recipients -> Nat], NEW r \in Recipients
    PROVE  [f EXCEPT ![r] = @ + 1] \in [Recipients -> Nat]
OBVIOUS

\* An invocation that ends leaves its local state, and its message, well typed.
LEMMA ForgetType ==
    ASSUME TypeOK, NEW w \in Workers, Forget(w)
    PROVE  /\ pc' = [pc EXCEPT ![w] = "idle"]
           /\ pc' \in [Workers -> Labels]
           /\ job' \in [Workers -> Msgs \cup {NoMsg}]
           /\ todo' \in [Workers -> SUBSET Recipients]
           /\ seen' \in [Workers -> Nat]
           /\ cur' \in [Workers -> Recipients \cup {NoOne}]
           /\ heldBack' \in [Workers -> SUBSET Recipients]
           /\ foreign' \in [Workers -> SUBSET Recipients]
           /\ \A v \in Workers :
                 /\ pc'[v] # "idle" => job'[v] \in Msgs
                 /\ pc'[v] \in {"claim", "send", "record"} => cur'[v] \in Recipients
BY DEF TypeOK, Forget, Goto, Labels

LEMMA ReturnType ==
    ASSUME TypeOK, NEW m \in Msgs, Return(m)
    PROVE  mq' \in [Msgs -> [st : {"visible", "inflight", "deleted", "dead"},
                             receives : 0..MaxReceives]]
BY DEF TypeOK, Return

\* One disjunct per kind of step; the four ways an invocation ends share Forget.
LEMMA NextTypeOK == TypeOK /\ [Next]_vars => TypeOK'
<1> SUFFICES ASSUME TypeOK, [Next]_vars PROVE TypeOK'
  OBVIOUS
<1> USE DEF TypeOK, Labels
<1>1. ASSUME NEW w \in Workers, NEW m \in Msgs, Receive(w, m) PROVE TypeOK'
  <2>1. mq' \in [Msgs -> [st : {"visible", "inflight", "deleted", "dead"},
                            receives : 0..MaxReceives]]
    BY <1>1 DEF Receive
  <2>2. left' \in [Disturbances -> Nat]
    BY <1>1, SpendType DEF Receive, Disturbances
  <2>3. /\ job' = [job EXCEPT ![w] = m] /\ pc' = [pc EXCEPT ![w] = "gate"]
        /\ UNCHANGED <<storeVars, envVars, loopVars, historyVars>>
    BY <1>1 DEF Receive, Goto
  <2> QED
    BY <2>1, <2>2, <2>3 DEF storeVars, envVars, loopVars, historyVars
<1>2. ASSUME NEW w \in Workers, WorkerStep(w) PROVE TypeOK'
  <2> USE DEF Goto, queueVars, storeVars, envVars, loopVars, historyVars
  <2>1. CASE Gate(w)
    <3>1. pc' = [pc EXCEPT ![w] = "list"] \/ pc' = [pc EXCEPT ![w] = "ack"]
      BY <2>1 DEF Gate
    <3>2. pc' \in [Workers -> Labels] /\ pc[w] # "idle"
      BY <2>1, <3>1 DEF Gate
    <3> QED
      BY <2>1, <3>1, <3>2 DEF Gate
  <2>2. CASE ListRecipients(w)
    <3>1. pc[w] = "list" /\ job[w] \in Msgs
      BY <2>2 DEF ListRecipients
    <3>2. CASE halted
      <4>1. pc' = [pc EXCEPT ![w] = "ack"] /\ UNCHANGED todo
        BY <2>2, <3>2 DEF ListRecipients
      <4> QED
        BY <2>2, <3>1, <4>1 DEF ListRecipients
    <3>3. CASE ~halted
      <4>1. /\ pc' = [pc EXCEPT ![w] = "loop"]
            /\ todo' = [todo EXCEPT ![w] = WindowOf[job[w]]]
        BY <2>2, <3>3 DEF ListRecipients
      <4>2. todo' \in [Workers -> SUBSET Recipients]
        BY <3>1, <4>1
      <4> QED
        BY <2>2, <3>1, <4>1, <4>2 DEF ListRecipients
    <3> QED
      BY <3>2, <3>3
  <2>3. CASE StopForHalt(w)
    BY <2>3 DEF StopForHalt
  <2>4. ASSUME NEW r \in Recipients, SkipRecipient(w, r) PROVE TypeOK'
    BY <2>4 DEF SkipRecipient, Reach
  <2>5. ASSUME NEW r \in Recipients, SelectRecipient(w, r) PROVE TypeOK'
    BY <2>5 DEF SelectRecipient, Reach
  <2>6. CASE ClaimRecipient(w)
    <3>1. cur[w] \in Recipients
      BY <2>6 DEF ClaimRecipient
    <3>2. CASE cur[w] \in claims
      <4>1. foreign' \in [Workers -> SUBSET Recipients]
        BY <2>6, <3>1, <3>2 DEF ClaimRecipient
      <4> QED
        BY <2>6, <3>1, <3>2, <4>1 DEF ClaimRecipient
    <3>3. CASE cur[w] \notin claims
      <4>1. /\ pc' = [pc EXCEPT ![w] = "send"]
            /\ claims' = claims \cup {cur[w]}
            /\ UNCHANGED <<foreign, cur>>
        BY <2>6, <3>3 DEF ClaimRecipient
      <4> QED
        BY <2>6, <3>1, <4>1 DEF ClaimRecipient
    <3> QED
      BY <3>2, <3>3
  <2>7. CASE SendAccepted(w)
    <3>1. cur[w] \in Recipients
      BY <2>7 DEF SendAccepted, Accept
    <3>2. dispatched' \in [Recipients -> Nat]
      BY <2>7, <3>1, BumpType DEF SendAccepted, Accept
    <3> QED
      BY <2>7, <3>1, <3>2 DEF SendAccepted, Accept
  <2>8. CASE SendRejected(w)
    <3>1. left' \in [Disturbances -> Nat]
      BY <2>8, SpendType DEF SendRejected, Disturbances
    <3>2. cur[w] \in Recipients
      BY <2>8 DEF SendRejected
    <3> QED
      BY <2>8, <3>1, <3>2 DEF SendRejected
  <2>9. CASE SendFailed(w)
    <3>1. left' \in [Disturbances -> Nat]
      BY <2>9, SpendType DEF SendFailed, Disturbances
    <3>2. job[w] \in Msgs /\ Forget(w) /\ Return(job[w])
      BY <2>9 DEF SendFailed, ReleaseAndThrow, FailDelivery
    <3> QED
      BY <2>9, <3>1, <3>2, ForgetType, ReturnType DEF SendFailed, ReleaseAndThrow
  <2>10. CASE SendReplyLost(w)
    <3>1. left' \in [Disturbances -> Nat]
      BY <2>10, SpendType DEF SendReplyLost, Disturbances
    <3>2. job[w] \in Msgs /\ Forget(w) /\ Return(job[w])
      BY <2>10 DEF SendReplyLost, Accept, ReleaseAndThrow, FailDelivery
    <3>3. dispatched' \in [Recipients -> Nat] /\ lost' \in [Recipients -> Nat]
          /\ sinceHalt' \in Nat
      <4>1. cur[w] \in Recipients
        BY <2>10 DEF SendReplyLost, Accept
      <4>2. sinceHalt' \in Nat
        BY <2>10 DEF SendReplyLost, Accept
      <4> QED
        BY <2>10, <4>1, <4>2, BumpType DEF SendReplyLost, Accept
    <3> QED
      BY <2>10, <3>1, <3>2, <3>3, ForgetType, ReturnType DEF SendReplyLost, ReleaseAndThrow
  <2>11. ASSUME NEW r \in Recipients, FlushReject(w, r) PROVE TypeOK'
    BY <2>11 DEF FlushReject
  <2>12. ASSUME NEW r \in Recipients, BreakerRelease(w, r) PROVE TypeOK'
    BY <2>12 DEF BreakerRelease
  <2>13. CASE RecordSent(w)
    <3>1. cur[w] \in Recipients
      BY <2>13 DEF RecordSent
    <3>2. sentEvents' \in [Recipients -> Nat]
      BY <2>13, <3>1, BumpType DEF RecordSent
    <3> QED
      BY <2>13, <3>2 DEF RecordSent
  <2>14. CASE BreakerAbort(w)
    <3>1. job[w] \in Msgs /\ Forget(w) /\ Return(job[w])
      BY <2>14 DEF BreakerAbort, FailDelivery
    <3> QED
      BY <2>14, <3>1, ForgetType, ReturnType DEF BreakerAbort
  <2>15. CASE LoopDone(w)
    BY <2>15 DEF LoopDone
  <2>16. CASE NoCompletion(w)
    BY <2>16 DEF NoCompletion
  <2>17. CASE AwaitRecordedDelivery(w)
    <3>1. job[w] \in Msgs /\ Forget(w) /\ Return(job[w])
      BY <2>17 DEF AwaitRecordedDelivery, FailDelivery
    <3> QED
      BY <2>17, <3>1, ForgetType, ReturnType DEF AwaitRecordedDelivery
  <2>18. CASE AllSettled(w)
    BY <2>18 DEF AllSettled
  <2>19. CASE CompleteRange(w)
    BY <2>19 DEF CompleteRange
  <2>20. CASE Ack(w)
    <3>1. mq' \in [Msgs -> [st : {"visible", "inflight", "deleted", "dead"},
                             receives : 0..MaxReceives]]
      BY <2>20 DEF Ack
    <3> QED
      BY <2>20, <3>1, ForgetType DEF Ack
  <2>21. CASE SendRepeated(w)
    <3>1. left' \in [Disturbances -> Nat]
      BY <2>21, SpendType DEF SendRepeated, Disturbances
    <3>2. cur[w] \in Recipients /\ sinceHalt' \in Nat
      BY <2>21 DEF SendRepeated, Accept
    <3>3. dispatched' \in [Recipients -> Nat] /\ lost' \in [Recipients -> Nat]
      BY <2>21, <3>2, BumpType DEF SendRepeated, Accept
    <3> QED
      BY <2>21, <3>1, <3>2, <3>3 DEF SendRepeated
  <2>22. CASE MayComplete(w)
    BY <2>22 DEF MayComplete
  <2> QED
    BY <1>2, <2>1, <2>2, <2>3, <2>4, <2>5, <2>6, <2>7, <2>8, <2>9, <2>10, <2>11, <2>12,
       <2>13, <2>14, <2>15, <2>16, <2>17, <2>18, <2>19, <2>20, <2>21, <2>22 DEF WorkerStep
<1>3. CASE Environment
  <2> USE DEF queueVars, storeVars, envVars, loopVars, historyVars
  <2>1. ASSUME NEW w \in Workers, Crash(w) PROVE TypeOK'
    <3>1. left' \in [Disturbances -> Nat]
      BY <2>1, SpendType DEF Crash, Disturbances
    <3>2. job[w] \in Msgs /\ Forget(w) /\ Return(job[w])
      BY <2>1 DEF Crash, FailDelivery
    <3> QED
      BY <2>1, <3>1, <3>2, ForgetType, ReturnType DEF Crash
  <2>2. ASSUME NEW s \in {"active", "paused", "archived"}, OperatorTransition(s) PROVE TypeOK'
    <3>1. left' \in [Disturbances -> Nat]
      BY <2>2, SpendType DEF OperatorTransition, Disturbances
    <3> QED
      BY <2>2, <3>1 DEF OperatorTransition
  <2>3. CASE Halt
    <3>1. left' \in [Disturbances -> Nat]
      BY <2>3, SpendType DEF Halt, Disturbances
    <3> QED
      BY <2>3, <3>1 DEF Halt
  <2>4. ASSUME NEW r \in Recipients, Suppress(r) PROVE TypeOK'
    <3>1. left' \in [Disturbances -> Nat]
      BY <2>4, SpendType DEF Suppress, Disturbances
    <3> QED
      BY <2>4, <3>1 DEF Suppress
  <2> QED
    BY <1>3, <2>1, <2>2, <2>3, <2>4 DEF Environment
<1>4. CASE UNCHANGED vars
  BY <1>4 DEF vars
<1> QED
  BY <1>1, <1>2, <1>3, <1>4 DEF Next

\* The program's state never leaves its types, however deliveries interleave.
THEOREM TypeCorrect == Spec => []TypeOK
<1>1. Init => TypeOK
  BY InitTypeOK
<1>2. TypeOK /\ [Next]_vars => TypeOK'
  BY NextTypeOK
<1> QED
  BY <1>1, <1>2, PTL DEF Spec

-----------------------------------------------------------------------------
(* Ownership: claims, messages and events.                                 *)

LEMMA InitOwnership == Init => Ownership
BY DEF Init, Ownership, Owned, Holds, Undispatched, Settled

\* A step that touches no claim, message or event keeps Ownership, provided no
\* invocation comes to hold a recipient by it.
LEMMA OwnershipKept ==
    ASSUME TypeOK, Ownership,
           UNCHANGED <<claims, sentEvents, rejectEvents, dispatched, lost>>,
           \A v \in Workers :
              /\ heldBack'[v] \subseteq heldBack[v]
              /\ pc'[v] \in {"send", "record"} => pc'[v] = pc[v] /\ cur'[v] = cur[v]
    PROVE  Ownership'
BY DEF Ownership, Owned, Holds, Undispatched, Settled

\* An invocation that ends holds nothing; the others hold what they held.
LEMMA ForgetHolds ==
    ASSUME TypeOK, NEW w \in Workers, Forget(w)
    PROVE  \A v \in Workers :
              /\ heldBack'[v] = IF v = w THEN {} ELSE heldBack[v]
              /\ pc'[v] = IF v = w THEN "idle" ELSE pc[v]
              /\ v # w => cur'[v] = cur[v]
BY DEF TypeOK, Forget, Goto

LEMMA WorkerOwnership ==
    ASSUME TypeOK, Ownership, NEW w \in Workers, WorkerStep(w)
    PROVE  Ownership'
<1> USE DEF TypeOK, Goto, queueVars, storeVars, envVars, loopVars, historyVars
<1>1. CASE Gate(w)
  BY <1>1, OwnershipKept DEF Gate
<1>2. CASE ListRecipients(w)
  BY <1>2, OwnershipKept DEF ListRecipients
<1>3. CASE StopForHalt(w)
  BY <1>3, OwnershipKept DEF StopForHalt
<1>4. ASSUME NEW r \in Recipients, SkipRecipient(w, r) PROVE Ownership'
  BY <1>4, OwnershipKept DEF SkipRecipient, Reach
<1>5. ASSUME NEW r \in Recipients, SelectRecipient(w, r) PROVE Ownership'
  BY <1>5, OwnershipKept DEF SelectRecipient, Reach
<1>6. CASE ClaimRecipient(w)
  <2>1. CASE cur[w] \in claims
    BY <1>6, <2>1, OwnershipKept DEF ClaimRecipient
  <2>2. CASE cur[w] \notin claims
    <3>1. /\ claims' = claims \cup {cur[w]} /\ pc' = [pc EXCEPT ![w] = "send"]
          /\ UNCHANGED <<cur, heldBack, sentEvents, rejectEvents, dispatched, lost>>
      BY <1>6, <2>2 DEF ClaimRecipient
    <3> SUFFICES ASSUME NEW r \in Recipients PROVE Owned(r)'
      BY DEF Ownership
    <3>2. Owned(r)
      BY DEF Ownership
    <3>3. CASE r = cur[w]
      BY <2>2, <3>1, <3>2, <3>3 DEF Owned, Holds, Undispatched, Settled
    <3>4. CASE r # cur[w]
      BY <3>1, <3>2, <3>4 DEF Owned, Holds, Undispatched, Settled
    <3> QED
      BY <3>3, <3>4
  <2> QED
    BY <2>1, <2>2
<1>7. CASE SendAccepted(w)
  <2>1. /\ pc[w] = "send" /\ pc' = [pc EXCEPT ![w] = "record"]
        /\ cur[w] \in Recipients
        /\ dispatched' = [dispatched EXCEPT ![cur[w]] = @ + 1]
        /\ UNCHANGED <<cur, heldBack, claims, sentEvents, rejectEvents, lost>>
    BY <1>7 DEF SendAccepted, Accept
  <2> SUFFICES ASSUME NEW r \in Recipients PROVE Owned(r)'
    BY DEF Ownership
  <2>2. Owned(r)
    BY DEF Ownership
  <2>3. CASE r = cur[w]
    BY <2>1, <2>2, <2>3 DEF Owned, Holds, Undispatched, Settled
  <2>4. CASE r # cur[w]
    BY <2>1, <2>2, <2>4 DEF Owned, Holds, Undispatched, Settled
  <2> QED
    BY <2>3, <2>4
<1>8. CASE SendRejected(w)
  <2>1. /\ pc[w] = "send" /\ pc'[w] \in {"breaker", "loop"}
        /\ cur[w] \in Recipients /\ cur' = [cur EXCEPT ![w] = NoOne]
        /\ heldBack' = [heldBack EXCEPT ![w] = @ \cup {cur[w]}]
        /\ \A v \in Workers : v # w => pc'[v] = pc[v]
        /\ UNCHANGED <<claims, sentEvents, rejectEvents, dispatched, lost>>
    BY <1>8 DEF SendRejected
  <2> SUFFICES ASSUME NEW r \in Recipients PROVE Owned(r)'
    BY DEF Ownership
  <2>2. Owned(r)
    BY DEF Ownership
  <2>3. CASE r = cur[w]
    BY <2>1, <2>2, <2>3 DEF Owned, Holds, Undispatched, Settled
  <2>4. CASE r # cur[w]
    BY <2>1, <2>2, <2>4 DEF Owned, Holds, Undispatched, Settled
  <2> QED
    BY <2>3, <2>4
<1>9. CASE SendFailed(w)
  <2>1. /\ pc[w] = "send" /\ cur[w] \in Recipients
        /\ claims' = claims \ {cur[w]} /\ Forget(w)
        /\ UNCHANGED <<sentEvents, rejectEvents, dispatched, lost>>
    BY <1>9 DEF SendFailed, ReleaseAndThrow, FailDelivery
  <2> SUFFICES ASSUME NEW r \in Recipients PROVE Owned(r)'
    BY DEF Ownership
  <2>2. Owned(r)
    BY DEF Ownership
  <2>3. CASE r = cur[w]
    BY <2>1, <2>2, <2>3, ForgetHolds DEF Owned, Holds, Undispatched, Settled
  <2>4. CASE r # cur[w]
    <3>1. \A v \in Workers : Holds(v, r)' => Holds(v, r)
      BY <2>1, ForgetHolds DEF Holds
    <3>2. \A v \in Workers : Undispatched(v, r)' => Undispatched(v, r)
      BY <2>1, ForgetHolds DEF Undispatched
    <3>3. \A v \in Workers :
             /\ r \in heldBack'[v] => r \in heldBack[v]
             /\ pc'[v] \in {"send", "record"} /\ cur'[v] = r =>
                   pc'[v] = pc[v] /\ cur[v] = r
      BY <2>1, ForgetHolds
    <3>4. r \in claims' <=> r \in claims
      BY <2>1, <2>4
    <3> QED
      BY <2>1, <2>2, <3>1, <3>2, <3>3, <3>4 DEF Owned, Settled
  <2> QED
    BY <2>3, <2>4
<1>10. CASE SendReplyLost(w)
  <2>1. /\ pc[w] = "send" /\ cur[w] \in Recipients
        /\ claims' = claims \ {cur[w]} /\ Forget(w)
        /\ dispatched' = [dispatched EXCEPT ![cur[w]] = @ + 1]
        /\ lost' = [lost EXCEPT ![cur[w]] = @ + 1]
        /\ UNCHANGED <<sentEvents, rejectEvents>>
    BY <1>10 DEF SendReplyLost, Accept, ReleaseAndThrow, FailDelivery
  <2>2. \A v \in Workers :
           /\ heldBack'[v] = IF v = w THEN {} ELSE heldBack[v]
           /\ pc'[v] = IF v = w THEN "idle" ELSE pc[v]
           /\ v # w => cur'[v] = cur[v]
    BY <2>1, ForgetHolds
  <2> SUFFICES ASSUME NEW r \in Recipients PROVE Owned(r)'
    BY DEF Ownership
  <2>3. Owned(r) /\ dispatched[r] \in Nat /\ lost[r] \in Nat
        /\ sentEvents[r] \in Nat /\ rejectEvents[r] \in Nat
    BY DEF Ownership
  <2>4. CASE r = cur[w]
    <3>1. dispatched'[r] = dispatched[r] + 1 /\ lost'[r] = lost[r] + 1
      BY <2>1, <2>4
    <3>2. Holds(w, r) /\ Undispatched(w, r)
      BY <2>1, <2>4 DEF Holds, Undispatched
    <3>3. dispatched[r] = lost[r] /\ ~Settled(r)
      BY <2>3, <3>2 DEF Owned
    <3>4. \A v \in Workers : ~Holds(v, r)' /\ ~Undispatched(v, r)'
      BY <2>2, <2>3, <3>2 DEF Owned, Holds, Undispatched
    <3>5. sentEvents'[r] = sentEvents[r] /\ rejectEvents'[r] = rejectEvents[r]
      BY <2>1
    <3> QED
      BY <2>2, <2>3, <3>1, <3>3, <3>4, <3>5 DEF Owned, Holds, Undispatched, Settled
  <2>5. CASE r # cur[w]
    <3>1. dispatched'[r] = dispatched[r] /\ lost'[r] = lost[r]
          /\ (r \in claims' <=> r \in claims)
      BY <2>1, <2>5
    <3>2. \A v \in Workers : /\ Holds(v, r)' => Holds(v, r)
                             /\ Undispatched(v, r)' => Undispatched(v, r)
      BY <2>2 DEF Holds, Undispatched
    <3>3. sentEvents'[r] = sentEvents[r] /\ rejectEvents'[r] = rejectEvents[r]
      BY <2>1
    <3> QED
      BY <2>2, <2>3, <3>1, <3>2, <3>3 DEF Owned, Settled
  <2> QED
    BY <2>4, <2>5
<1>11. ASSUME NEW q \in Recipients, FlushReject(w, q) PROVE Ownership'
  <2>1. /\ q \in heldBack[w] /\ heldBack' = [heldBack EXCEPT ![w] = @ \ {q}]
        /\ rejectEvents' = [rejectEvents EXCEPT ![q] = @ + 1]
        /\ UNCHANGED <<pc, cur, claims, sentEvents, dispatched, lost>>
    BY <1>11 DEF FlushReject, NextHeldBack
  <2> SUFFICES ASSUME NEW r \in Recipients PROVE Owned(r)'
    BY DEF Ownership
  <2>2. Owned(r)
    BY DEF Ownership
  <2>3. CASE r = q
    BY <2>1, <2>2, <2>3 DEF Owned, Holds, Undispatched, Settled
  <2>4. CASE r # q
    BY <2>1, <2>2, <2>4 DEF Owned, Holds, Undispatched, Settled
  <2> QED
    BY <2>3, <2>4
<1>12. ASSUME NEW q \in Recipients, BreakerRelease(w, q) PROVE Ownership'
  <2>1. /\ pc[w] = "breaker"
        /\ q \in heldBack[w] /\ heldBack' = [heldBack EXCEPT ![w] = @ \ {q}]
        /\ claims' = claims \ {q}
        /\ UNCHANGED <<pc, cur, sentEvents, rejectEvents, dispatched, lost>>
    BY <1>12 DEF BreakerRelease, NextHeldBack
  <2> SUFFICES ASSUME NEW r \in Recipients PROVE Owned(r)'
    BY DEF Ownership
  <2>2. Owned(r)
    BY DEF Ownership
  <2>3. CASE r = q
    BY <2>1, <2>2, <2>3 DEF Owned, Holds, Undispatched, Settled
  <2>4. CASE r # q
    BY <2>1, <2>2, <2>4 DEF Owned, Holds, Undispatched, Settled
  <2> QED
    BY <2>3, <2>4
<1>13. CASE RecordSent(w)
  <2>1. /\ pc[w] = "record" /\ pc' = [pc EXCEPT ![w] = "loop"]
        /\ cur[w] \in Recipients /\ cur' = [cur EXCEPT ![w] = NoOne]
        /\ heldBack[w] = {}
        /\ sentEvents' = [sentEvents EXCEPT ![cur[w]] = @ + 1]
        /\ UNCHANGED <<heldBack, claims, rejectEvents, dispatched, lost>>
    BY <1>13 DEF RecordSent
  <2> SUFFICES ASSUME NEW r \in Recipients PROVE Owned(r)'
    BY DEF Ownership
  <2>2. Owned(r)
    BY DEF Ownership
  <2>3. CASE r = cur[w]
    BY <2>1, <2>2, <2>3 DEF Owned, Holds, Undispatched, Settled
  <2>4. CASE r # cur[w]
    BY <2>1, <2>2, <2>4 DEF Owned, Holds, Undispatched, Settled
  <2> QED
    BY <2>3, <2>4
<1>14. CASE BreakerAbort(w)
  BY <1>14, ForgetHolds, OwnershipKept DEF BreakerAbort, FailDelivery
<1>15. CASE LoopDone(w)
  BY <1>15, OwnershipKept DEF LoopDone
<1>16. CASE NoCompletion(w)
  BY <1>16, OwnershipKept DEF NoCompletion
<1>17. CASE AwaitRecordedDelivery(w)
  BY <1>17, ForgetHolds, OwnershipKept DEF AwaitRecordedDelivery, FailDelivery
<1>18. CASE AllSettled(w)
  BY <1>18, OwnershipKept DEF AllSettled
<1>19. CASE CompleteRange(w)
  BY <1>19, OwnershipKept DEF CompleteRange
<1>20. CASE Ack(w)
  BY <1>20, ForgetHolds, OwnershipKept DEF Ack
<1>21. CASE SendRepeated(w)
  <2>1. /\ pc[w] = "send" /\ cur[w] \in Recipients
        /\ dispatched' = [dispatched EXCEPT ![cur[w]] = @ + 1]
        /\ lost' = [lost EXCEPT ![cur[w]] = @ + 1]
        /\ UNCHANGED <<pc, cur, heldBack, claims, sentEvents, rejectEvents>>
    BY <1>21 DEF SendRepeated, Accept
  <2> SUFFICES ASSUME NEW r \in Recipients PROVE Owned(r)'
    BY DEF Ownership
  <2>2. Owned(r) /\ dispatched[r] \in Nat /\ lost[r] \in Nat
        /\ sentEvents[r] \in Nat /\ rejectEvents[r] \in Nat
    BY DEF Ownership
  <2>3. CASE r = cur[w]
    <3>1. dispatched'[r] = dispatched[r] + 1 /\ lost'[r] = lost[r] + 1
      BY <2>1, <2>3
    <3>2. Holds(w, r) /\ Undispatched(w, r)
      BY <2>1, <2>3 DEF Holds, Undispatched
    <3> QED
      BY <2>1, <2>2, <2>3, <3>1, <3>2 DEF Owned, Holds, Undispatched, Settled
  <2>4. CASE r # cur[w]
    BY <2>1, <2>2, <2>4 DEF Owned, Holds, Undispatched, Settled
  <2> QED
    BY <2>3, <2>4
<1>22. CASE MayComplete(w)
  BY <1>22, OwnershipKept DEF MayComplete
<1> QED
  BY <1>1, <1>2, <1>3, <1>4, <1>5, <1>6, <1>7, <1>8, <1>9, <1>10, <1>11, <1>12,
     <1>13, <1>14, <1>15, <1>16, <1>17, <1>18, <1>19, <1>20, <1>21, <1>22 DEF WorkerStep

LEMMA NextOwnership == TypeOK /\ Ownership /\ [Next]_vars => Ownership'
<1> SUFFICES ASSUME TypeOK, Ownership, [Next]_vars PROVE Ownership'
  OBVIOUS
<1> USE DEF queueVars, storeVars, envVars, loopVars, historyVars
<1>1. ASSUME NEW w \in Workers, NEW m \in Msgs, Receive(w, m) PROVE Ownership'
  BY <1>1, OwnershipKept DEF Receive, Goto, TypeOK
<1>2. ASSUME NEW w \in Workers, WorkerStep(w) PROVE Ownership'
  BY <1>2, WorkerOwnership
<1>3. CASE Environment
  <2>1. ASSUME NEW w \in Workers, Crash(w) PROVE Ownership'
    BY <2>1, ForgetHolds, OwnershipKept DEF Crash, FailDelivery
  <2>2. ASSUME NEW s \in {"active", "paused", "archived"}, OperatorTransition(s)
        PROVE Ownership'
    BY <2>2, OwnershipKept DEF OperatorTransition
  <2>3. CASE Halt
    BY <2>3, OwnershipKept DEF Halt
  <2>4. ASSUME NEW r \in Recipients, Suppress(r) PROVE Ownership'
    BY <2>4, OwnershipKept DEF Suppress
  <2> QED
    BY <1>3, <2>1, <2>2, <2>3, <2>4 DEF Environment
<1>4. CASE UNCHANGED vars
  BY <1>4, OwnershipKept DEF vars
<1> QED
  BY <1>1, <1>2, <1>3, <1>4 DEF Next

\* Claims, messages and events agree in every reachable state.
THEOREM OwnershipHolds == Spec => []Ownership
<1>1. Init => Ownership
  BY InitOwnership
<1>2. TypeOK /\ Ownership /\ [Next]_vars => Ownership'
  BY NextOwnership
<1> QED
  BY <1>1, <1>2, TypeCorrect, PTL DEF Spec

\* SES takes at most one message per recipient plus one per lost reply, for any
\* number of invocations, windows, redeliveries, crashes and failures.
THEOREM MailedAtMostOnce == Spec => []AtMostOnce
<1>1. TypeOK /\ Ownership => AtMostOnce
  BY DEF TypeOK, Ownership, Owned, AtMostOnce
<1> QED
  BY <1>1, TypeCorrect, OwnershipHolds, PTL

\* No recipient is settled twice in the event log.
THEOREM SettledAtMostOnce == Spec => []OneOutcome
<1>1. Ownership => OneOutcome
  BY DEF Ownership, Owned, OneOutcome
<1> QED
  BY <1>1, OwnershipHolds, PTL

\* Every sent event is backed by a message that SES took.
THEOREM SentEventsAreTrue == Spec => []SentWasDispatched
<1>1. Ownership => SentWasDispatched
  BY DEF Ownership, Owned, SentWasDispatched
<1> QED
  BY <1>1, OwnershipHolds, PTL

-----------------------------------------------------------------------------
(* Completion: a recorded window owes nobody.                              *)

\* Outcomes are never taken back, and nobody becomes mailable again.
Monotone == \A r \in Recipients : /\ Settled(r) => Settled(r)'
                                  /\ MayMail(r)' => MayMail(r)

LEMMA StepMonotone == TypeOK /\ [Next]_vars => Monotone
<1> SUFFICES ASSUME TypeOK, [Next]_vars PROVE Monotone
  OBVIOUS
<1>1. ASSUME UNCHANGED <<sentEvents, rejectEvents, suppressed>> PROVE Monotone
  BY <1>1 DEF Monotone, Settled, MayMail
<1> USE DEF queueVars, storeVars, envVars, loopVars, historyVars
<1>2. ASSUME NEW w \in Workers, NEW m \in Msgs, Receive(w, m) PROVE Monotone
  BY <1>1, <1>2 DEF Receive
<1>3. ASSUME NEW w \in Workers, WorkerStep(w) PROVE Monotone
  <2>1. ASSUME NEW q \in Recipients, FlushReject(w, q) PROVE Monotone
    <3>1. /\ rejectEvents' = [rejectEvents EXCEPT ![q] = @ + 1]
          /\ UNCHANGED <<sentEvents, suppressed>>
      BY <2>1 DEF FlushReject
    <3> QED
      BY <3>1 DEF Monotone, Settled, MayMail, TypeOK
  <2>2. ASSUME RecordSent(w) PROVE Monotone
    <3>1. /\ sentEvents' = [sentEvents EXCEPT ![cur[w]] = @ + 1]
          /\ UNCHANGED <<rejectEvents, suppressed>>
      BY <2>2 DEF RecordSent
    <3> QED
      BY <3>1 DEF Monotone, Settled, MayMail, TypeOK
  <2>3. Gate(w) \/ ListRecipients(w) \/ StopForHalt(w) \/ ClaimRecipient(w) => Monotone
    BY <1>1 DEF Gate, ListRecipients, StopForHalt, ClaimRecipient
  <2>4. SendAccepted(w) \/ SendRejected(w) \/ SendFailed(w) \/ SendReplyLost(w)
           \/ SendRepeated(w) => Monotone
    BY <1>1 DEF SendAccepted, SendRejected, SendFailed, SendReplyLost, SendRepeated,
                ReleaseAndThrow
  <2>5. (\E r \in Recipients : SkipRecipient(w, r) \/ SelectRecipient(w, r)) => Monotone
    BY <1>1 DEF SkipRecipient, SelectRecipient
  <2>6. BreakerAbort(w) \/ (\E r \in Recipients : BreakerRelease(w, r)) => Monotone
    BY <1>1 DEF BreakerAbort, BreakerRelease
  <2>7. LoopDone(w) \/ NoCompletion(w) \/ MayComplete(w) \/ AwaitRecordedDelivery(w)
           \/ AllSettled(w) \/ CompleteRange(w) \/ Ack(w) => Monotone
    BY <1>1 DEF LoopDone, NoCompletion, MayComplete, AwaitRecordedDelivery, AllSettled,
                CompleteRange, Ack
  <2> QED
    BY <1>3, <2>1, <2>2, <2>3, <2>4, <2>5, <2>6, <2>7 DEF WorkerStep
<1>4. CASE Environment
  <2>1. ASSUME NEW w \in Workers, Crash(w) PROVE Monotone
    BY <1>1, <2>1 DEF Crash
  <2>2. ASSUME NEW s \in {"active", "paused", "archived"}, OperatorTransition(s)
        PROVE Monotone
    BY <1>1, <2>2 DEF OperatorTransition
  <2>3. CASE Halt
    BY <1>1, <2>3 DEF Halt
  <2>4. ASSUME NEW r \in Recipients, Suppress(r) PROVE Monotone
    BY <2>4 DEF Suppress, Monotone, Settled, MayMail
  <2> QED
    BY <1>4, <2>1, <2>2, <2>3, <2>4 DEF Environment
<1>5. CASE UNCHANGED vars
  BY <1>1, <1>5 DEF vars
<1> QED
  BY <1>2, <1>3, <1>4, <1>5 DEF Next

\* An invocation that does not move keeps its accounts.
LEMMA AccountsKept ==
    ASSUME TypeOK, Monotone, NEW v \in Workers, Accounts(v),
           pc'[v] = pc[v], job'[v] = job[v], todo'[v] = todo[v], cur'[v] = cur[v],
           heldBack'[v] = heldBack[v], foreign'[v] = foreign[v]
    PROVE  Accounts(v)'
<1>1. pc[v] # "idle" => WindowOf[job[v]] \subseteq Recipients
  BY DEF TypeOK
<1>2. foreign[v] \subseteq Recipients
  BY DEF TypeOK
<1> QED
  BY <1>1, <1>2 DEF Accounts, AccountedFor, Monotone

\* The local state of every invocation but w is as it was.
Elsewhere(w) ==
    \A v \in Workers \ {w} :
       /\ pc'[v] = pc[v] /\ job'[v] = job[v] /\ todo'[v] = todo[v]
       /\ cur'[v] = cur[v] /\ heldBack'[v] = heldBack[v] /\ foreign'[v] = foreign[v]
       /\ seen'[v] = seen[v]

LEMMA WorkerElsewhere ==
    ASSUME TypeOK, NEW w \in Workers, WorkerStep(w)
    PROVE  Elsewhere(w)
<1> USE DEF Elsewhere, TypeOK, Goto, queueVars, loopVars, Forget
<1>1. Gate(w) \/ ListRecipients(w) \/ StopForHalt(w) => Elsewhere(w)
  BY DEF Gate, ListRecipients, StopForHalt
<1>2. ASSUME NEW r \in Recipients, SkipRecipient(w, r) \/ SelectRecipient(w, r)
      PROVE  Elsewhere(w)
  BY <1>2 DEF SkipRecipient, SelectRecipient, Reach
<1>3. ClaimRecipient(w) => Elsewhere(w)
  BY DEF ClaimRecipient
<1>4. SendAccepted(w) \/ SendRejected(w) \/ SendRepeated(w) => Elsewhere(w)
  BY DEF SendAccepted, Accept, SendRejected, SendRepeated
<1>5. SendFailed(w) \/ SendReplyLost(w) => Elsewhere(w)
  BY DEF SendFailed, SendReplyLost, ReleaseAndThrow, FailDelivery
<1>6. ASSUME NEW r \in Recipients, FlushReject(w, r) \/ BreakerRelease(w, r)
      PROVE  Elsewhere(w)
  BY <1>6 DEF FlushReject, BreakerRelease
<1>7. RecordSent(w) \/ LoopDone(w) \/ NoCompletion(w) => Elsewhere(w)
  BY DEF RecordSent, LoopDone, NoCompletion
<1>8. BreakerAbort(w) \/ AwaitRecordedDelivery(w) \/ Ack(w) => Elsewhere(w)
  BY DEF BreakerAbort, AwaitRecordedDelivery, FailDelivery, Ack
<1>9. MayComplete(w) \/ AllSettled(w) \/ CompleteRange(w) => Elsewhere(w)
  BY DEF MayComplete, AllSettled, CompleteRange
<1> QED
  BY <1>1, <1>2, <1>3, <1>4, <1>5, <1>6, <1>7, <1>8, <1>9 DEF WorkerStep

\* The invocation that moves keeps its own accounts.
LEMMA OwnAccounts ==
    ASSUME TypeOK, Monotone, NEW w \in Workers, Accounts(w), WorkerStep(w)
    PROVE  Accounts(w)'
<1>1. pc[w] # "idle" => job[w] \in Msgs /\ WindowOf[job[w]] \subseteq Recipients
  BY DEF TypeOK
<1>2. heldBack[w] \subseteq Recipients /\ foreign[w] \subseteq Recipients
  BY DEF TypeOK
<1>3. ASSUME pc'[w] \in {"idle", "list", "ack", "haltedTail", "breaker"}
      PROVE  Accounts(w)'
  BY <1>3 DEF Accounts
<1>4. ASSUME Forget(w) PROVE Accounts(w)'
  BY <1>3, <1>4 DEF Forget, Goto, TypeOK
<1> USE DEF TypeOK, Goto, queueVars, storeVars, envVars, loopVars
<1>5. CASE Gate(w)
  BY <1>3, <1>5 DEF Gate
<1>6. CASE ListRecipients(w)
  BY <1>3, <1>6 DEF ListRecipients, Accounts, AccountedFor
<1>7. CASE StopForHalt(w)
  BY <1>3, <1>7 DEF StopForHalt
<1>8. ASSUME NEW r \in Recipients, SkipRecipient(w, r) PROVE Accounts(w)'
  BY <1>1, <1>8 DEF SkipRecipient, Reach, Accounts, AccountedFor, Monotone
<1>9. ASSUME NEW r \in Recipients, SelectRecipient(w, r) PROVE Accounts(w)'
  BY <1>1, <1>9 DEF SelectRecipient, Reach, Accounts, AccountedFor, Monotone
<1>10. CASE ClaimRecipient(w)
  <2>1. CASE cur[w] \in claims
    BY <1>1, <1>10, <2>1 DEF ClaimRecipient, Accounts, AccountedFor, Monotone
  <2>2. CASE cur[w] \notin claims
    BY <1>1, <1>10, <2>2 DEF ClaimRecipient, Accounts, AccountedFor, Monotone
  <2> QED
    BY <2>1, <2>2
<1>11. CASE SendAccepted(w)
  BY <1>1, <1>11 DEF SendAccepted, Accept, Accounts, AccountedFor, Monotone
<1>12. CASE SendRejected(w)
  BY <1>1, <1>12 DEF SendRejected, Accounts, AccountedFor, Monotone
<1>13. CASE SendFailed(w) \/ SendReplyLost(w)
  BY <1>4, <1>13 DEF SendFailed, SendReplyLost, ReleaseAndThrow, FailDelivery
<1>14. ASSUME NEW q \in Recipients, FlushReject(w, q) PROVE Accounts(w)'
  <2>1. /\ pc[w] \in {"record", "tail", "haltedTail"} /\ q \in heldBack[w]
        /\ rejectEvents' = [rejectEvents EXCEPT ![q] = @ + 1]
        /\ heldBack' = [heldBack EXCEPT ![w] = @ \ {q}]
        /\ UNCHANGED <<sentEvents, suppressed, pc, job, todo, cur, foreign>>
    BY <1>14 DEF FlushReject, NextHeldBack
  <2>2. Settled(q)'
    BY <2>1 DEF Settled
  <2> QED
    BY <1>1, <2>1, <2>2 DEF Accounts, AccountedFor, Monotone
<1>15. ASSUME NEW q \in Recipients, BreakerRelease(w, q) PROVE Accounts(w)'
  BY <1>3, <1>15 DEF BreakerRelease
<1>16. CASE RecordSent(w)
  <2> PICK q \in Recipients : q = cur[w]
    BY <1>16 DEF RecordSent
  <2>1. /\ pc[w] = "record" /\ pc'[w] = "loop" /\ cur[w] = q
        /\ sentEvents' = [sentEvents EXCEPT ![q] = @ + 1]
        /\ UNCHANGED <<rejectEvents, suppressed, job, todo, heldBack, foreign>>
    BY <1>16 DEF RecordSent
  <2>2. Settled(q)'
    BY <2>1 DEF Settled
  <2> QED
    BY <1>1, <2>1, <2>2 DEF Accounts, AccountedFor, Monotone
<1>17. CASE BreakerAbort(w) \/ AwaitRecordedDelivery(w) \/ Ack(w)
  BY <1>4, <1>17 DEF BreakerAbort, AwaitRecordedDelivery, FailDelivery, Ack
<1>18. CASE LoopDone(w)
  BY <1>1, <1>18 DEF LoopDone, Accounts, AccountedFor, Monotone
<1>19. CASE NoCompletion(w) \/ CompleteRange(w)
  BY <1>3, <1>19 DEF NoCompletion, CompleteRange
<1>20. CASE AllSettled(w)
  BY <1>1, <1>2, <1>20 DEF AllSettled, Accounts, AccountedFor, Monotone
<1>21. CASE SendRepeated(w)
  BY <1>1, <1>21 DEF SendRepeated, Accept, Accounts, AccountedFor, Monotone
<1>22. CASE MayComplete(w)
  BY <1>1, <1>22 DEF MayComplete, Accounts, AccountedFor, Monotone
<1> QED
  BY <1>5, <1>6, <1>7, <1>8, <1>9, <1>10, <1>11, <1>12, <1>13, <1>14, <1>15,
     <1>16, <1>17, <1>18, <1>19, <1>20, <1>21, <1>22 DEF WorkerStep

LEMMA NextAccounts == TypeOK /\ LoopAccounts /\ [Next]_vars => LoopAccounts'
<1> SUFFICES ASSUME TypeOK, LoopAccounts, [Next]_vars PROVE LoopAccounts'
  OBVIOUS
<1>1. Monotone
  BY StepMonotone
<1>2. ASSUME NEW w \in Workers, Elsewhere(w), Accounts(w)' PROVE LoopAccounts'
  BY <1>1, <1>2, AccountsKept DEF Elsewhere, LoopAccounts
<1>3. ASSUME UNCHANGED <<pc, job, todo, cur, heldBack, foreign>> PROVE LoopAccounts'
  BY <1>1, <1>3, AccountsKept DEF LoopAccounts
<1> USE DEF queueVars, loopVars
<1>4. ASSUME NEW w \in Workers, NEW m \in Msgs, Receive(w, m) PROVE LoopAccounts'
  BY <1>2, <1>4 DEF Receive, Goto, Elsewhere, Accounts, TypeOK
<1>5. ASSUME NEW w \in Workers, WorkerStep(w) PROVE LoopAccounts'
  BY <1>1, <1>2, <1>5, WorkerElsewhere, OwnAccounts DEF LoopAccounts
<1>6. CASE Environment
  <2>1. ASSUME NEW w \in Workers, Crash(w) PROVE LoopAccounts'
    BY <1>2, <2>1 DEF Crash, FailDelivery, Forget, Goto, Elsewhere, Accounts, TypeOK
  <2>2. ASSUME NEW s \in {"active", "paused", "archived"}, OperatorTransition(s)
        PROVE LoopAccounts'
    BY <1>3, <2>2 DEF OperatorTransition
  <2>3. CASE Halt
    BY <1>3, <2>3 DEF Halt
  <2>4. ASSUME NEW r \in Recipients, Suppress(r) PROVE LoopAccounts'
    BY <1>3, <2>4 DEF Suppress
  <2> QED
    BY <1>6, <2>1, <2>2, <2>3, <2>4 DEF Environment
<1>7. CASE UNCHANGED vars
  BY <1>3, <1>7 DEF vars
<1> QED
  BY <1>4, <1>5, <1>6, <1>7 DEF Next

\* Recording a window is the only way to owe it; by then its invocation has
\* accounted for every recipient of it.
LEMMA NextOwesNobody ==
    ASSUME TypeOK, LoopAccounts, CompletedOwesNobody, [Next]_vars
    PROVE  CompletedOwesNobody'
<1>1. Monotone
  BY StepMonotone
<1>2. \A m \in Msgs : WindowOf[m] \subseteq Recipients
  OBVIOUS
<1>3. ASSUME UNCHANGED completed PROVE CompletedOwesNobody'
  BY <1>1, <1>2, <1>3 DEF CompletedOwesNobody, Monotone, TypeOK
<1>4. ASSUME NEW w \in Workers, CompleteRange(w) PROVE CompletedOwesNobody'
  <2>1. CASE UNCHANGED completed
    BY <1>3, <2>1
  <2>2. CASE completed' = completed \cup {job[w]}
    <3>1. pc[w] = "complete" /\ job[w] \in Msgs
      BY <1>4 DEF CompleteRange, TypeOK
    <3>2. \A r \in WindowOf[job[w]] : MayMail(r) => Settled(r)
      BY <3>1 DEF LoopAccounts, Accounts, AccountedFor
    <3>3. \A m \in completed' : \A r \in WindowOf[m] : MayMail(r) => Settled(r)
      BY <2>2, <3>2 DEF CompletedOwesNobody
    <3>4. completed' \subseteq Msgs
      BY <2>2, <3>1 DEF TypeOK
    <3> QED
      BY <1>1, <1>2, <3>3, <3>4 DEF CompletedOwesNobody, Monotone
  <2> QED
    BY <1>4, <2>1, <2>2 DEF CompleteRange
<1> USE DEF storeVars
<1>5. ASSUME NEW w \in Workers, WorkerStep(w) PROVE CompletedOwesNobody'
  <2>1. Gate(w) \/ ListRecipients(w) \/ StopForHalt(w) \/ ClaimRecipient(w)
           => UNCHANGED completed
    BY DEF Gate, ListRecipients, StopForHalt, ClaimRecipient
  <2>2. SendAccepted(w) \/ SendRejected(w) \/ SendFailed(w) \/ SendReplyLost(w)
           \/ SendRepeated(w) => UNCHANGED completed
    BY DEF SendAccepted, SendRejected, SendFailed, SendReplyLost, SendRepeated,
           ReleaseAndThrow
  <2>3. (\E r \in Recipients : SkipRecipient(w, r) \/ SelectRecipient(w, r))
           => UNCHANGED completed
    BY DEF SkipRecipient, SelectRecipient
  <2>4. (\E r \in Recipients : FlushReject(w, r) \/ BreakerRelease(w, r))
           => UNCHANGED completed
    BY DEF FlushReject, BreakerRelease
  <2>5. RecordSent(w) \/ BreakerAbort(w) \/ LoopDone(w) \/ NoCompletion(w)
           \/ MayComplete(w) \/ AwaitRecordedDelivery(w) \/ AllSettled(w) \/ Ack(w) => UNCHANGED completed
    BY DEF RecordSent, BreakerAbort, LoopDone, NoCompletion, MayComplete,
           AwaitRecordedDelivery, AllSettled, Ack
  <2> QED
    BY <1>3, <1>4, <1>5, <2>1, <2>2, <2>3, <2>4, <2>5 DEF WorkerStep
<1>6. (\E w \in Workers, m \in Msgs : Receive(w, m)) => UNCHANGED completed
  BY DEF Receive
<1>7. Environment => UNCHANGED completed
  BY DEF Environment, Crash, OperatorTransition, Halt, Suppress
<1>8. UNCHANGED vars => UNCHANGED completed
  BY DEF vars
<1> QED
  BY <1>3, <1>5, <1>6, <1>7, <1>8 DEF Next

\* A recorded window owes no mailable recipient an outcome, however many
\* invocations shared it and whoever of them recorded it.
THEOREM CompletionIsHonest == Spec => []CompletedOwesNobody
<1>1. Init => LoopAccounts /\ CompletedOwesNobody
  BY DEF Init, LoopAccounts, Accounts, CompletedOwesNobody
<1>2. TypeOK /\ LoopAccounts /\ [Next]_vars => LoopAccounts'
  BY NextAccounts
<1>3. TypeOK /\ LoopAccounts /\ CompletedOwesNobody /\ [Next]_vars => CompletedOwesNobody'
  BY NextOwesNobody
<1> QED
  BY <1>1, <1>2, <1>3, TypeCorrect, PTL DEF Spec

-----------------------------------------------------------------------------
(* Suppression.                                                            *)

\* Once suppressed and in no invocation's hands, out of reach for good.
THEOREM SuppressionIsFinal == Spec => SuppressionSticks
<1>1. ASSUME TypeOK, [Next]_vars, NEW r \in Recipients, OutOfReach(r)
      PROVE  OutOfReach(r)' /\ dispatched'[r] = dispatched[r]
  <2> USE DEF OutOfReach, TypeOK, Goto, queueVars, storeVars, envVars, loopVars, historyVars
  <2>1. ASSUME NEW w \in Workers, NEW m \in Msgs, Receive(w, m)
        PROVE  OutOfReach(r)' /\ dispatched'[r] = dispatched[r]
    BY <1>1, <2>1 DEF Receive
  <2>2. ASSUME NEW w \in Workers, WorkerStep(w)
        PROVE  OutOfReach(r)' /\ dispatched'[r] = dispatched[r]
    <3>1. CASE Gate(w) \/ ListRecipients(w) \/ StopForHalt(w)
      BY <1>1, <3>1 DEF Gate, ListRecipients, StopForHalt
    <3>2. ASSUME NEW q \in Recipients, SkipRecipient(w, q)
          PROVE  OutOfReach(r)' /\ dispatched'[r] = dispatched[r]
      BY <1>1, <3>2 DEF SkipRecipient, Reach
    <3>3. ASSUME NEW q \in Recipients, SelectRecipient(w, q)
          PROVE  OutOfReach(r)' /\ dispatched'[r] = dispatched[r]
      BY <1>1, <3>3 DEF SelectRecipient, Reach, MayMail
    <3>4. CASE ClaimRecipient(w)
      BY <1>1, <3>4 DEF ClaimRecipient
    <3>5. CASE SendAccepted(w) \/ SendRejected(w) \/ SendRepeated(w)
      BY <1>1, <3>5 DEF SendAccepted, Accept, SendRejected, SendRepeated
    <3>6. CASE SendFailed(w) \/ SendReplyLost(w)
      BY <1>1, <3>6, ForgetHolds
         DEF SendFailed, SendReplyLost, Accept, ReleaseAndThrow, FailDelivery
    <3>7. ASSUME NEW q \in Recipients, FlushReject(w, q) \/ BreakerRelease(w, q)
          PROVE  OutOfReach(r)' /\ dispatched'[r] = dispatched[r]
      BY <1>1, <3>7 DEF FlushReject, BreakerRelease
    <3>8. CASE RecordSent(w) \/ LoopDone(w) \/ NoCompletion(w) \/ MayComplete(w)
               \/ AllSettled(w) \/ CompleteRange(w)
      BY <1>1, <3>8 DEF RecordSent, LoopDone, NoCompletion, MayComplete, AllSettled,
                        CompleteRange
    <3>9. CASE BreakerAbort(w) \/ AwaitRecordedDelivery(w) \/ Ack(w)
      BY <1>1, <3>9, ForgetHolds DEF BreakerAbort, AwaitRecordedDelivery, FailDelivery, Ack
    <3> QED
      BY <2>2, <3>1, <3>2, <3>3, <3>4, <3>5, <3>6, <3>7, <3>8, <3>9 DEF WorkerStep
  <2>3. CASE Environment
    <3>1. ASSUME NEW w \in Workers, Crash(w)
          PROVE  OutOfReach(r)' /\ dispatched'[r] = dispatched[r]
      BY <1>1, <3>1, ForgetHolds DEF Crash, FailDelivery
    <3>2. ASSUME NEW s \in {"active", "paused", "archived"}, OperatorTransition(s)
          PROVE  OutOfReach(r)' /\ dispatched'[r] = dispatched[r]
      BY <1>1, <3>2 DEF OperatorTransition
    <3>3. CASE Halt
      BY <1>1, <3>3 DEF Halt
    <3>4. ASSUME NEW q \in Recipients, Suppress(q)
          PROVE  OutOfReach(r)' /\ dispatched'[r] = dispatched[r]
      BY <1>1, <3>4 DEF Suppress
    <3> QED
      BY <2>3, <3>1, <3>2, <3>3, <3>4 DEF Environment
  <2>4. CASE UNCHANGED vars
    BY <1>1, <2>4 DEF vars
  <2> QED
    BY <1>1, <2>1, <2>2, <2>3, <2>4 DEF Next
<1>2. TypeOK /\ [Next]_vars =>
         [\A r \in Recipients : OutOfReach(r) =>
             OutOfReach(r)' /\ dispatched'[r] = dispatched[r]]_vars
  BY <1>1
<1> QED
  BY <1>2, TypeCorrect, PTL DEF Spec, SuppressionSticks

-----------------------------------------------------------------------------
(* Claims: none is stranded while no call fails.                           *)

\* No disturbance happens more often than its budget allows.
WithinBudget == \A d \in Disturbances : left[d] <= Budget[d]

\* What is left of the budgets only shrinks, and everything that is spent shows.
Spent == \A d \in Disturbances :
            left'[d] <= left[d] /\ (left'[d] = Budget[d] => left[d] = Budget[d])

\* Outside its loop an invocation buffers no rejection.
EmptyHanded ==
    \A w \in Workers :
        pc[w] \in {"idle", "gate", "list", "settle", "complete", "ack"} => heldBack[w] = {}

LEMMA SpendSpent ==
    ASSUME TypeOK, WithinBudget, NEW d \in Disturbances, Spend(d)
    PROVE  Spent /\ WithinBudget' /\ left'[d] < Budget[d]
BY DEF Spend, Spent, WithinBudget, TypeOK

LEMMA NextSpent ==
    ASSUME TypeOK, WithinBudget, [Next]_vars
    PROVE  Spent /\ WithinBudget'
<1>1. ASSUME UNCHANGED left PROVE Spent /\ WithinBudget'
  BY <1>1 DEF Spent, WithinBudget, TypeOK
<1>2. ASSUME NEW d \in Disturbances, Spend(d) PROVE Spent /\ WithinBudget'
  BY <1>2, SpendSpent
<1>3. ASSUME NEW w \in Workers, NEW m \in Msgs, Receive(w, m)
      PROVE  UNCHANGED left \/ Spend("duplicate")
  BY <1>3 DEF Receive
<1>4. ASSUME NEW w \in Workers, WorkerStep(w)
      PROVE  UNCHANGED left \/ Spend("reject") \/ Spend("failure") \/ Spend("lostReply")
  <2>1. Gate(w) \/ ListRecipients(w) \/ StopForHalt(w) \/ ClaimRecipient(w) \/ SendAccepted(w)
           => UNCHANGED left
    BY DEF Gate, ListRecipients, StopForHalt, ClaimRecipient, SendAccepted
  <2>2. \A r \in Recipients : SkipRecipient(w, r) \/ SelectRecipient(w, r) \/ FlushReject(w, r)
           \/ BreakerRelease(w, r) => UNCHANGED left
    BY DEF SkipRecipient, SelectRecipient, FlushReject, BreakerRelease
  <2>3. RecordSent(w) \/ BreakerAbort(w) \/ LoopDone(w) \/ NoCompletion(w) \/ MayComplete(w)
           \/ AwaitRecordedDelivery(w) \/ AllSettled(w) \/ CompleteRange(w) \/ Ack(w)
           => UNCHANGED left
    BY DEF RecordSent, BreakerAbort, LoopDone, NoCompletion, MayComplete,
           AwaitRecordedDelivery, AllSettled, CompleteRange, Ack
  <2>4. SendRejected(w) => Spend("reject")
    BY DEF SendRejected
  <2>5. SendFailed(w) => Spend("failure")
    BY DEF SendFailed
  <2>6. SendReplyLost(w) \/ SendRepeated(w) => Spend("lostReply")
    BY DEF SendReplyLost, SendRepeated
  <2> QED
    BY <1>4, <2>1, <2>2, <2>3, <2>4, <2>5, <2>6 DEF WorkerStep
<1>5. ASSUME Environment
      PROVE  Spend("crash") \/ Spend("operator") \/ Spend("halt") \/ Spend("suppress")
  BY <1>5 DEF Environment, Crash, OperatorTransition, Halt, Suppress
<1>6. {"duplicate", "reject", "failure", "lostReply", "crash", "operator", "halt", "suppress"}
         \subseteq Disturbances
  BY DEF Disturbances
<1>7. UNCHANGED vars => UNCHANGED left
  BY DEF vars
<1> QED
  BY <1>1, <1>2, <1>3, <1>4, <1>5, <1>6, <1>7 DEF Next

LEMMA NextEmptyHanded ==
    ASSUME TypeOK, EmptyHanded, [Next]_vars
    PROVE  EmptyHanded'
<1>1. ASSUME UNCHANGED <<pc, heldBack>> PROVE EmptyHanded'
  BY <1>1 DEF EmptyHanded
<1>2. ASSUME NEW w \in Workers, Forget(w) PROVE EmptyHanded'
  BY <1>2, ForgetHolds DEF EmptyHanded
<1>3. ASSUME NEW w \in Workers, WorkerStep(w) \/ (\E m \in Msgs : Receive(w, m)),
             \/ heldBack'[w] = {}
             \/ pc'[w] \notin {"idle", "gate", "list", "settle", "complete", "ack"}
      PROVE  EmptyHanded'
  <2>1. \A v \in Workers \ {w} : pc'[v] = pc[v] /\ heldBack'[v] = heldBack[v]
    BY <1>3, WorkerElsewhere DEF Elsewhere, Receive, loopVars, Goto, TypeOK
  <2> QED
    BY <1>3, <2>1 DEF EmptyHanded
<1> USE DEF Goto, loopVars, TypeOK
<1>4. ASSUME NEW w \in Workers, NEW m \in Msgs, Receive(w, m) PROVE EmptyHanded'
  BY <1>3, <1>4 DEF Receive, EmptyHanded
<1>5. ASSUME NEW w \in Workers, WorkerStep(w) PROVE EmptyHanded'
  <2>1. CASE Gate(w) \/ ListRecipients(w) \/ NoCompletion(w) \/ MayComplete(w) \/ AllSettled(w)
             \/ CompleteRange(w)
    <3>1. heldBack[w] = {} /\ UNCHANGED heldBack
      BY <2>1 DEF Gate, ListRecipients, NoCompletion, MayComplete, AllSettled, CompleteRange,
                  EmptyHanded
    <3> QED
      BY <1>3, <1>5, <3>1
  <2>2. CASE StopForHalt(w) \/ ClaimRecipient(w) \/ SendAccepted(w) \/ SendRejected(w)
             \/ RecordSent(w) \/ LoopDone(w)
    <3>1. pc'[w] \in {"haltedTail", "loop", "send", "record", "breaker", "tail"}
      BY <2>2 DEF StopForHalt, ClaimRecipient, SendAccepted, Accept, SendRejected, RecordSent,
                  LoopDone
    <3> QED
      BY <1>3, <1>5, <3>1
  <2>3. ASSUME NEW r \in Recipients, SkipRecipient(w, r) \/ SelectRecipient(w, r)
                  \/ FlushReject(w, r) \/ BreakerRelease(w, r)
        PROVE  EmptyHanded'
    <3>1. pc'[w] \in {"loop", "claim", "record", "tail", "haltedTail", "breaker"}
      BY <2>3 DEF SkipRecipient, SelectRecipient, Reach, FlushReject, BreakerRelease
    <3> QED
      BY <1>3, <1>5, <3>1
  <2>4. CASE SendRepeated(w)
    BY <1>1, <2>4 DEF SendRepeated
  <2>5. CASE SendFailed(w) \/ SendReplyLost(w) \/ BreakerAbort(w) \/ AwaitRecordedDelivery(w)
             \/ Ack(w)
    BY <1>2, <2>5 DEF SendFailed, SendReplyLost, ReleaseAndThrow, FailDelivery, BreakerAbort,
                      AwaitRecordedDelivery, Ack
  <2> QED
    BY <1>5, <2>1, <2>2, <2>3, <2>4, <2>5 DEF WorkerStep
<1>6. CASE Environment
  BY <1>1, <1>2, <1>6 DEF Environment, Crash, FailDelivery, OperatorTransition, Halt, Suppress
<1>7. CASE UNCHANGED vars
  BY <1>1, <1>7 DEF vars
<1> QED
  BY <1>4, <1>5, <1>6, <1>7 DEF Next

\* Recipient r's claim, if there is one, has an outcome or a holder.
Claimed(r) == r \in claims => Settled(r) \/ \E w \in Workers : Holds(w, r)

\* A step keeps that if each new claim has a holder, and whoever stops holding a
\* claim has settled it or given it back.
LEMMA ClaimedKept ==
    ASSUME TypeOK, Monotone, NEW r \in Recipients, Claimed(r),
           r \in claims' => r \in claims \/ \E v \in Workers : Holds(v, r)',
           \A v \in Workers : Holds(v, r) => Holds(v, r)' \/ Settled(r)' \/ r \notin claims'
    PROVE  Claimed(r)'
BY DEF Claimed, Monotone

\* An invocation that ends with nothing held strands nothing.
LEMMA ForgetClaimed ==
    ASSUME TypeOK, Monotone, NEW r \in Recipients, Claimed(r), NEW w \in Workers, Forget(w),
           UNCHANGED claims, pc[w] \notin {"send", "record"}, heldBack[w] = {}
    PROVE  Claimed(r)'
<1>1. \A v \in Workers : Holds(v, r) => Holds(v, r)'
  BY ForgetHolds DEF Holds
<1> QED
  BY <1>1, ClaimedKept

LEMMA WorkerClaimed ==
    ASSUME TypeOK, Monotone, EmptyHanded, NEW r \in Recipients, Claimed(r),
           NEW w \in Workers, WorkerStep(w),
           r \in heldBack[w] => ~Spend("failure") /\ ~Spend("lostReply")
    PROVE  Claimed(r)'
<1> USE DEF TypeOK, Goto, queueVars, storeVars, envVars, loopVars, historyVars
<1>1. CASE Gate(w) \/ ListRecipients(w) \/ StopForHalt(w) \/ LoopDone(w) \/ NoCompletion(w)
           \/ MayComplete(w) \/ AllSettled(w) \/ CompleteRange(w)
  <2>1. /\ UNCHANGED <<claims, heldBack, cur>>
        /\ pc[w] \notin {"send", "record"}
        /\ \A v \in Workers \ {w} : pc'[v] = pc[v]
    BY <1>1 DEF Gate, ListRecipients, StopForHalt, LoopDone, NoCompletion, MayComplete,
                AllSettled, CompleteRange
  <2> QED
    BY <2>1, ClaimedKept DEF Holds
<1>2. ASSUME NEW q \in Recipients, SkipRecipient(w, q) \/ SelectRecipient(w, q) PROVE Claimed(r)'
  <2>1. /\ UNCHANGED <<claims, heldBack>>
        /\ pc[w] \notin {"send", "record"}
        /\ \A v \in Workers \ {w} : pc'[v] = pc[v] /\ cur'[v] = cur[v]
    BY <1>2 DEF SkipRecipient, SelectRecipient, Reach
  <2> QED
    BY <2>1, ClaimedKept DEF Holds
<1>3. CASE ClaimRecipient(w)
  <2>1. /\ pc[w] = "claim" /\ UNCHANGED heldBack
        /\ \A v \in Workers \ {w} : pc'[v] = pc[v] /\ cur'[v] = cur[v]
        /\ r \in claims' => r \in claims \/ (pc'[w] = "send" /\ cur'[w] = r)
    BY <1>3 DEF ClaimRecipient
  <2> QED
    BY <2>1, ClaimedKept DEF Holds
<1>4. CASE SendAccepted(w) \/ SendRepeated(w)
  <2>1. /\ UNCHANGED <<claims, heldBack, cur>>
        /\ pc'[w] \in {"send", "record"}
        /\ \A v \in Workers \ {w} : pc'[v] = pc[v]
    BY <1>4 DEF SendAccepted, SendRepeated, Accept
  <2> QED
    BY <2>1, ClaimedKept DEF Holds
<1>5. CASE SendRejected(w)
  <2>1. /\ UNCHANGED claims /\ pc[w] = "send"
        /\ heldBack' = [heldBack EXCEPT ![w] = @ \cup {cur[w]}]
        /\ \A v \in Workers \ {w} : pc'[v] = pc[v] /\ cur'[v] = cur[v]
    BY <1>5 DEF SendRejected
  <2> QED
    BY <2>1, ClaimedKept DEF Holds
<1>6. CASE SendFailed(w) \/ SendReplyLost(w)
  <2>1. /\ claims' = claims \ {cur[w]} /\ Forget(w) /\ r \notin heldBack[w]
    BY <1>6 DEF SendFailed, SendReplyLost, ReleaseAndThrow, FailDelivery
  <2> QED
    BY <2>1, ForgetHolds, ClaimedKept DEF Holds
<1>7. ASSUME NEW q \in Recipients, FlushReject(w, q) PROVE Claimed(r)'
  <2>1. /\ UNCHANGED <<claims, pc, cur, sentEvents>>
        /\ rejectEvents' = [rejectEvents EXCEPT ![q] = @ + 1]
        /\ heldBack' = [heldBack EXCEPT ![w] = @ \ {q}]
    BY <1>7 DEF FlushReject
  <2>2. Settled(q)'
    BY <2>1 DEF Settled
  <2> QED
    BY <2>1, <2>2, ClaimedKept DEF Holds
<1>8. ASSUME NEW q \in Recipients, BreakerRelease(w, q) PROVE Claimed(r)'
  <2>1. /\ UNCHANGED <<pc, cur>> /\ claims' = claims \ {q}
        /\ heldBack' = [heldBack EXCEPT ![w] = @ \ {q}]
    BY <1>8 DEF BreakerRelease
  <2> QED
    BY <2>1, ClaimedKept DEF Holds
<1>9. CASE RecordSent(w)
  <2>1. /\ UNCHANGED <<claims, heldBack, rejectEvents>> /\ pc[w] = "record"
        /\ \A v \in Workers \ {w} : pc'[v] = pc[v] /\ cur'[v] = cur[v]
    BY <1>9 DEF RecordSent
  <2>2. ASSUME cur[w] = r PROVE Settled(r)'
    BY <1>9, <2>2 DEF RecordSent, Settled
  <2>3. \A v \in Workers : Holds(v, r) => Holds(v, r)' \/ Settled(r)'
    BY <2>1, <2>2 DEF Holds
  <2> QED
    BY <2>1, <2>3, ClaimedKept
<1>10. CASE BreakerAbort(w) \/ AwaitRecordedDelivery(w) \/ Ack(w)
  <2>1. /\ UNCHANGED claims /\ Forget(w) /\ heldBack[w] = {}
        /\ pc[w] \notin {"send", "record"}
    BY <1>10 DEF BreakerAbort, AwaitRecordedDelivery, FailDelivery, Ack, EmptyHanded
  <2> QED
    BY <2>1, ForgetClaimed
<1> QED
  BY <1>1, <1>2, <1>3, <1>4, <1>5, <1>6, <1>7, <1>8, <1>9, <1>10 DEF WorkerStep

\* Every step keeps it, unless an invocation dies or fails with rejections in hand.
LEMMA NextClaimed ==
    ASSUME TypeOK, EmptyHanded, [Next]_vars, NEW r \in Recipients, Claimed(r), ~Spend("crash"),
           \A w \in Workers : WorkerStep(w) /\ r \in heldBack[w] =>
                                 ~Spend("failure") /\ ~Spend("lostReply")
    PROVE  Claimed(r)'
<1>1. Monotone
  BY StepMonotone
<1>2. ASSUME UNCHANGED <<claims, pc, cur, heldBack>> PROVE Claimed(r)'
  BY <1>1, <1>2, ClaimedKept DEF Holds
<1> USE DEF loopVars, storeVars
<1>3. ASSUME NEW w \in Workers, NEW m \in Msgs, Receive(w, m) PROVE Claimed(r)'
  <2>1. /\ UNCHANGED <<claims, cur, heldBack>> /\ pc[w] = "idle"
        /\ \A v \in Workers \ {w} : pc'[v] = pc[v]
    BY <1>3 DEF Receive, Goto, TypeOK
  <2> QED
    BY <1>1, <2>1, ClaimedKept DEF Holds
<1>4. ASSUME NEW w \in Workers, WorkerStep(w) PROVE Claimed(r)'
  BY <1>1, <1>4, WorkerClaimed
<1>5. CASE Environment
  BY <1>2, <1>5 DEF Environment, Crash, OperatorTransition, Halt, Suppress
<1>6. CASE UNCHANGED vars
  BY <1>2, <1>6 DEF vars
<1> QED
  BY <1>3, <1>4, <1>5, <1>6 DEF Next

LEMMA NextNoStrandedClaim ==
    ASSUME TypeOK, WithinBudget, EmptyHanded, NoStrandedClaim, [Next]_vars
    PROVE  NoStrandedClaim'
<1> SUFFICES ASSUME Undisturbed', NEW r \in Recipients PROVE Claimed(r)'
  <2>1. TypeOK'
    BY NextTypeOK
  <2> QED
    BY <2>1 DEF NoStrandedClaim, Claimed, TypeOK
<1>1. Undisturbed
  BY NextSpent DEF Spent, Undisturbed, Disturbances
<1>2. Claimed(r)
  BY <1>1 DEF NoStrandedClaim, Claimed
<1>3. ~Spend("crash") /\ ~Spend("failure") /\ ~Spend("lostReply")
  BY SpendSpent DEF Undisturbed, Disturbances
<1> QED
  BY <1>2, <1>3, NextClaimed

\* The inductive strengthening of NoStrandedClaim.
ClaimsInv == WithinBudget /\ EmptyHanded /\ NoStrandedClaim

LEMMA ClaimsInvHolds == Spec => []ClaimsInv
<1>1. Init => ClaimsInv
  BY DEF Init, ClaimsInv, WithinBudget, EmptyHanded, NoStrandedClaim
<1>2. TypeOK /\ ClaimsInv /\ [Next]_vars => ClaimsInv'
  BY NextSpent, NextEmptyHanded, NextNoStrandedClaim DEF ClaimsInv
<1> QED
  BY <1>1, <1>2, TypeCorrect, PTL DEF Spec

\* As long as no call fails and no invocation dies, every claim is settled or in
\* some invocation's hands: the breaker leaves no recipient behind.
THEOREM ClaimsAreHeld == Spec => []NoStrandedClaim
<1>1. ClaimsInv => NoStrandedClaim
  BY DEF ClaimsInv
<1> QED
  BY <1>1, ClaimsInvHolds, PTL

-----------------------------------------------------------------------------
(* The halt: how many messages the invocations in their loops still send.  *)

\* Recipients that a loop which reached s of them may reach before it reads the
\* flag again; the flag is not read before the first one.
UntilCheck(s) ==
    IF s = 0 THEN HaltCheckEvery
    ELSE IF s % HaltCheckEvery = 0 THEN 0 ELSE HaltCheckEvery - (s % HaltCheckEvery)

\* Messages that invocation w may still send before it reads the flag.
MaySend(w) ==
    CASE pc[w] \in {"claim", "send"} -> UntilCheck(seen[w]) + 1
      [] pc[w] \in {"loop", "record"} -> UntilCheck(seen[w])
      [] OTHER -> 0

\* One element for each of these messages.
ToSend == {p \in Workers \X (1..HaltCheckEvery) : p[2] <= MaySend(p[1])}

\* An invocation with a current recipient has counted it.
SeenCounts == \A w \in Workers : pc[w] \in {"claim", "send", "record"} => seen[w] > 0

\* What was sent since the halt, and what may still be sent.
HaltCounted ==
    IF halted
    THEN sinceHalt + Cardinality(ToSend) <= Cardinality(Workers) * HaltCheckEvery
                                            + Budget["lostReply"] - left["lostReply"]
    ELSE sinceHalt = 0

\* Counting by n: the remainder of the next number.
LEMMA NextRemainder ==
    ASSUME NEW n \in Nat \ {0}, NEW s \in Nat
    PROVE  /\ s % n \in 0..(n - 1)
           /\ (s + 1) % n = IF (s % n) + 1 = n THEN 0 ELSE (s % n) + 1
<1>1. s % n \in 0..(n - 1) /\ (s + 1) % n \in 0..(n - 1)
  BY Z3
<1>2. s = n * (s \div n) + (s % n) /\ s + 1 = n * ((s + 1) \div n) + ((s + 1) % n)
  BY Z3
<1>3. s \div n \in Nat /\ (s + 1) \div n \in Nat
  BY Z3
<1>4. ASSUME NEW q \in Nat, NEW k \in Nat, NEW a \in 0..(n - 1), NEW b \in 0..(n - 1),
             n * q + a + 1 = n * k + b
      PROVE  b = IF a + 1 = n THEN 0 ELSE a + 1
  <2>1. CASE q < k
    <3>1. PICK d \in Nat : k = q + 1 + d
      <4>1. k - q - 1 \in Nat
        BY <2>1
      <4> QED
        BY <2>1, <4>1
    <3>2. n * k = n * q + n + n * d /\ n * d \in Nat
      BY <3>1
    <3> QED
      BY <1>4, <3>2
  <2>2. CASE k <= q
    <3>1. PICK d \in Nat : q = k + d
      <4>1. q - k \in Nat
        BY <2>2
      <4> QED
        BY <2>2, <4>1
    <3>2. n * q = n * k + n * d /\ n * d \in Nat
      BY <3>1
    <3>3. d = 0 \/ n * d >= n
      BY <3>1
    <3> QED
      BY <1>4, <3>2, <3>3
  <2> QED
    BY <2>1, <2>2
<1> DEFINE q == s \div n
           k == (s + 1) \div n
           a == s % n
           b == (s + 1) % n
<1>5. q \in Nat /\ k \in Nat /\ a \in 0..(n - 1) /\ b \in 0..(n - 1) /\ n * q + a + 1 = n * k + b
  BY <1>1, <1>2, <1>3
<1> HIDE DEF q, k, a, b
<1>6. b = IF a + 1 = n THEN 0 ELSE a + 1
  BY <1>4, <1>5
<1> QED
  BY <1>1, <1>6 DEF a, b

\* Reaching one more recipient, when the flag is not due, uses one up.
LEMMA UntilCheckSteps ==
    ASSUME NEW s \in Nat
    PROVE  /\ UntilCheck(s) \in 0..HaltCheckEvery
           /\ s > 0 => UntilCheck(s) < HaltCheckEvery
           /\ (s = 0 \/ s % HaltCheckEvery # 0) => UntilCheck(s + 1) + 1 = UntilCheck(s)
<1> DEFINE n == HaltCheckEvery
           a == s % HaltCheckEvery
           b == (s + 1) % HaltCheckEvery
<1>1. n \in Nat \ {0} /\ a \in 0..(n - 1) /\ b = IF a + 1 = n THEN 0 ELSE a + 1
  BY NextRemainder
<1>2. s = 0 => a = 0
  BY Z3
<1>3. UntilCheck(s) = IF s = 0 THEN n ELSE IF a = 0 THEN 0 ELSE n - a
  BY DEF UntilCheck
<1>4. UntilCheck(s + 1) = IF b = 0 THEN 0 ELSE n - b
  BY DEF UntilCheck
<1> HIDE DEF n, a, b
<1>5. s = 0 \/ a # 0 => UntilCheck(s + 1) + 1 = UntilCheck(s)
  BY <1>1, <1>2, <1>3, <1>4
<1>6. UntilCheck(s) \in 0..n /\ (s > 0 => UntilCheck(s) < n)
  BY <1>1, <1>3
<1> QED
  BY <1>5, <1>6 DEF n, a

LEMMA MaySendType ==
    ASSUME TypeOK, SeenCounts, NEW w \in Workers
    PROVE  MaySend(w) \in 0..HaltCheckEvery
<1>1. seen[w] \in Nat
  BY DEF TypeOK
<1>2. UntilCheck(seen[w]) \in 0..HaltCheckEvery
      /\ (seen[w] > 0 => UntilCheck(seen[w]) < HaltCheckEvery)
  BY <1>1, UntilCheckSteps
<1> QED
  BY <1>1, <1>2 DEF MaySend, SeenCounts

\* ToSend is finite, and bounded by what all invocations together may send.
LEMMA ToSendBound ==
    /\ IsFiniteSet(ToSend) /\ Cardinality(ToSend) \in Nat
    /\ Cardinality(Workers) \in Nat
    /\ Cardinality(ToSend) <= Cardinality(Workers) * HaltCheckEvery
<1>1. IsFiniteSet(1..HaltCheckEvery) /\ Cardinality(1..HaltCheckEvery) = HaltCheckEvery
  BY FS_Interval
<1>2. /\ IsFiniteSet(Workers \X (1..HaltCheckEvery))
      /\ Cardinality(Workers \X (1..HaltCheckEvery)) = Cardinality(Workers) * HaltCheckEvery
  BY <1>1, FS_Product
<1>3. ToSend \in SUBSET (Workers \X (1..HaltCheckEvery))
  BY DEF ToSend
<1> QED
  BY <1>2, <1>3, FS_Subset, FS_CardinalityType

\* If nobody may send more than before, ToSend does not grow; if moreover one
\* invocation may send less, it shrinks.
LEMMA ToSendShrinks ==
    ASSUME TypeOK, SeenCounts, IsFiniteSet(ToSend), IsFiniteSet(ToSend)',
           \A v \in Workers : MaySend(v)' <= MaySend(v),
           \A v \in Workers : MaySend(v)' \in Nat
    PROVE  /\ Cardinality(ToSend)' <= Cardinality(ToSend)
           /\ \A w \in Workers : MaySend(w)' < MaySend(w)
                 => Cardinality(ToSend)' + 1 <= Cardinality(ToSend)
<1>1. \A v \in Workers : MaySend(v) \in 0..HaltCheckEvery
  BY MaySendType
<1>2. ToSend' \in SUBSET ToSend
  BY <1>1 DEF ToSend
<1>3. ASSUME NEW w \in Workers, MaySend(w)' < MaySend(w)
      PROVE  Cardinality(ToSend)' + 1 <= Cardinality(ToSend)
  <2> DEFINE p == <<w, MaySend(w)>>
  <2>1. p \in ToSend /\ p \notin ToSend'
    BY <1>1, <1>3 DEF ToSend
  <2>2. ToSend' \in SUBSET (ToSend \ {p})
    BY <1>2, <2>1
  <2>3. IsFiniteSet(ToSend \ {p}) /\ Cardinality(ToSend \ {p}) = Cardinality(ToSend) - 1
    BY <2>1, FS_RemoveElement
  <2>4. Cardinality(ToSend') <= Cardinality(ToSend \ {p})
    BY <2>2, <2>3, FS_Subset
  <2> QED
    BY <2>3, <2>4, FS_CardinalityType
<1>4. Cardinality(ToSend') <= Cardinality(ToSend)
  BY <1>2, FS_Subset
<1> QED
  BY <1>3, <1>4

\* A step that leaves pc, seen and what was sent as they are.
LEMMA SeenKept ==
    ASSUME SeenCounts, UNCHANGED <<pc, seen>>
    PROVE  SeenCounts' /\ \A v \in Workers : MaySend(v)' = MaySend(v)
BY DEF SeenCounts, MaySend

\* What one step of invocation w does to what it may send: it never grows, a
\* message that SES takes uses one up unless its reply is lost, and the flag,
\* once set, stays.
LEMMA WorkerSends ==
    ASSUME TypeOK, SeenCounts, halted, NEW w \in Workers, WorkerStep(w)
    PROVE  /\ halted'
           /\ pc'[w] \in {"claim", "send", "record"} => seen'[w] > 0
           /\ MaySend(w)' <= MaySend(w)
           /\ \/ sinceHalt' = sinceHalt
              \/ sinceHalt' = sinceHalt + 1 /\ (MaySend(w)' < MaySend(w) \/ Spend("lostReply"))
<1> DEFINE Goal == /\ halted'
                   /\ pc'[w] \in {"claim", "send", "record"} => seen'[w] > 0
                   /\ MaySend(w)' <= MaySend(w)
                   /\ \/ sinceHalt' = sinceHalt
                      \/ sinceHalt' = sinceHalt + 1
                         /\ (MaySend(w)' < MaySend(w) \/ Spend("lostReply"))
<1> SUFFICES Goal
  OBVIOUS
<1>1. seen[w] \in Nat /\ UntilCheck(seen[w]) \in 0..HaltCheckEvery
  BY UntilCheckSteps DEF TypeOK
<1>2. MaySend(w) \in 0..HaltCheckEvery
  BY MaySendType
\* Steps that leave the loop, or never enter it.
<1>3. ASSUME pc'[w] \notin {"claim", "send", "loop", "record"}, UNCHANGED <<halted, sinceHalt>>
      PROVE  Goal
  BY <1>2, <1>3 DEF MaySend
<1>4. ASSUME Forget(w), UNCHANGED <<halted, sinceHalt>> PROVE Goal
  BY <1>3, <1>4 DEF Forget, Goto, TypeOK
<1> USE DEF TypeOK, Goto, queueVars, storeVars, envVars, loopVars, historyVars
<1>5. CASE Gate(w) \/ ListRecipients(w) \/ StopForHalt(w) \/ LoopDone(w) \/ NoCompletion(w)
           \/ MayComplete(w) \/ AllSettled(w) \/ CompleteRange(w)
  <2>1. pc'[w] \in {"list", "ack", "haltedTail", "tail", "settle", "complete"}
    BY <1>5 DEF Gate, ListRecipients, StopForHalt, LoopDone, NoCompletion, MayComplete,
                AllSettled, CompleteRange
  <2>2. UNCHANGED <<halted, sinceHalt>>
    BY <1>5 DEF Gate, ListRecipients, StopForHalt, LoopDone, NoCompletion, MayComplete,
                AllSettled, CompleteRange
  <2> QED
    BY <1>3, <2>1, <2>2
<1>6. ASSUME NEW r \in Recipients, SkipRecipient(w, r) \/ SelectRecipient(w, r) PROVE Goal
  <2>1. /\ pc[w] = "loop" /\ pc'[w] \in {"loop", "claim"} /\ seen'[w] = seen[w] + 1
        /\ UNCHANGED <<halted, sinceHalt>> /\ ~HaltCheckDue(w)
    BY <1>6 DEF SkipRecipient, SelectRecipient, Reach
  <2>2. UntilCheck(seen[w] + 1) + 1 = UntilCheck(seen[w])
        /\ UntilCheck(seen[w] + 1) \in 0..HaltCheckEvery
    <3>1. seen[w] = 0 \/ seen[w] % HaltCheckEvery # 0
      BY <1>1, <2>1 DEF HaltCheckDue
    <3>2. seen[w] + 1 \in Nat
      BY <1>1
    <3> QED
      BY <1>1, <3>1, <3>2, UntilCheckSteps
  <2>3. MaySend(w) = UntilCheck(seen[w]) /\ MaySend(w)' <= UntilCheck(seen[w] + 1) + 1
    BY <2>1, <2>2 DEF MaySend
  <2> QED
    BY <1>1, <2>1, <2>2, <2>3
<1>7. CASE ClaimRecipient(w) \/ SendRejected(w) \/ RecordSent(w)
  <2>1. /\ pc[w] \in {"claim", "send", "record"} /\ seen'[w] = seen[w]
        /\ UNCHANGED <<halted, sinceHalt>>
        /\ pc'[w] \in {"loop", "breaker"} \/ (pc[w] = "claim" /\ pc'[w] = "send")
    BY <1>7 DEF ClaimRecipient, SendRejected, RecordSent
  <2> QED
    BY <1>1, <2>1 DEF MaySend, SeenCounts
<1>8. CASE SendAccepted(w)
  <2>1. /\ pc[w] = "send" /\ pc'[w] = "record" /\ seen'[w] = seen[w]
        /\ halted' = halted /\ sinceHalt' = sinceHalt + 1
    BY <1>8 DEF SendAccepted, Accept
  <2> QED
    BY <1>1, <2>1 DEF MaySend, SeenCounts
<1>9. CASE SendRepeated(w)
  <2>1. /\ pc[w] = "send" /\ pc'[w] = "send" /\ seen'[w] = seen[w]
        /\ halted' = halted /\ sinceHalt' = sinceHalt + 1 /\ Spend("lostReply")
    BY <1>9 DEF SendRepeated, Accept
  <2> QED
    BY <1>1, <2>1 DEF MaySend, SeenCounts
<1>10. CASE SendReplyLost(w)
  <2>1. /\ pc'[w] = "idle" /\ halted' = halted /\ sinceHalt' = sinceHalt + 1
        /\ Spend("lostReply")
    BY <1>10 DEF SendReplyLost, Accept, ReleaseAndThrow, FailDelivery, Forget
  <2> QED
    BY <1>2, <2>1 DEF MaySend
<1>11. ASSUME NEW r \in Recipients, FlushReject(w, r) \/ BreakerRelease(w, r) PROVE Goal
  <2>1. pc'[w] = pc[w] /\ seen'[w] = seen[w] /\ UNCHANGED <<halted, sinceHalt>>
    BY <1>11 DEF FlushReject, BreakerRelease
  <2> QED
    BY <1>2, <2>1 DEF MaySend, SeenCounts
<1>12. CASE SendFailed(w) \/ BreakerAbort(w) \/ AwaitRecordedDelivery(w) \/ Ack(w)
  BY <1>4, <1>12 DEF SendFailed, ReleaseAndThrow, FailDelivery, BreakerAbort,
                     AwaitRecordedDelivery, Ack
<1> QED
  BY <1>5, <1>6, <1>7, <1>8, <1>9, <1>10, <1>11, <1>12 DEF WorkerStep

\* An invocation never holds a recipient that it has not counted.
LEMMA NextSeenCounts ==
    ASSUME TypeOK, SeenCounts, [Next]_vars
    PROVE  SeenCounts'
<1>1. ASSUME NEW w \in Workers, \A v \in Workers \ {w} : pc'[v] = pc[v] /\ seen'[v] = seen[v],
             pc'[w] \in {"claim", "send", "record"} =>
                seen'[w] > 0 \/ (pc[w] \in {"claim", "send", "record"} /\ seen'[w] = seen[w])
      PROVE  SeenCounts'
  BY <1>1 DEF SeenCounts
<1> USE DEF TypeOK, Goto, loopVars
<1>2. ASSUME NEW w \in Workers, NEW m \in Msgs, Receive(w, m) PROVE SeenCounts'
  BY <1>1, <1>2 DEF Receive
<1>3. ASSUME NEW w \in Workers, WorkerStep(w) PROVE SeenCounts'
  <2>1. \A v \in Workers \ {w} : pc'[v] = pc[v] /\ seen'[v] = seen[v]
    BY <1>3, WorkerElsewhere DEF Elsewhere
  <2>2. CASE Gate(w) \/ ListRecipients(w) \/ StopForHalt(w) \/ LoopDone(w) \/ NoCompletion(w)
             \/ MayComplete(w) \/ AllSettled(w) \/ CompleteRange(w)
    BY <1>1, <2>1, <2>2 DEF Gate, ListRecipients, StopForHalt, LoopDone, NoCompletion,
                            MayComplete, AllSettled, CompleteRange
  <2>3. ASSUME NEW r \in Recipients, SkipRecipient(w, r) \/ SelectRecipient(w, r)
        PROVE  SeenCounts'
    BY <1>1, <2>1, <2>3 DEF SkipRecipient, SelectRecipient, Reach
  <2>4. CASE ClaimRecipient(w) \/ SendAccepted(w) \/ SendRejected(w) \/ SendRepeated(w)
             \/ RecordSent(w)
    BY <1>1, <2>1, <2>4 DEF ClaimRecipient, SendAccepted, Accept, SendRejected, SendRepeated,
                            RecordSent
  <2>5. ASSUME NEW r \in Recipients, FlushReject(w, r) \/ BreakerRelease(w, r)
        PROVE  SeenCounts'
    BY <1>1, <2>1, <2>5 DEF FlushReject, BreakerRelease
  <2>6. CASE SendFailed(w) \/ SendReplyLost(w) \/ BreakerAbort(w) \/ AwaitRecordedDelivery(w)
             \/ Ack(w)
    BY <1>1, <2>1, <2>6 DEF SendFailed, SendReplyLost, ReleaseAndThrow, FailDelivery, Forget,
                            BreakerAbort, AwaitRecordedDelivery, Ack
  <2> QED
    BY <1>3, <2>2, <2>3, <2>4, <2>5, <2>6 DEF WorkerStep
<1>4. CASE Environment
  <2>1. ASSUME NEW w \in Workers, Crash(w) PROVE SeenCounts'
    BY <1>1, <2>1 DEF Crash, FailDelivery, Forget
  <2> QED
    BY <1>4, <2>1, SeenKept DEF Environment, OperatorTransition, Halt, Suppress
<1>5. CASE UNCHANGED vars
  BY <1>5, SeenKept DEF vars
<1> QED
  BY <1>2, <1>3, <1>4, <1>5 DEF Next

\* While the flag is set, what was sent and what may be sent stay within the
\* bound, whoever moves.
LEMMA CountedKept ==
    ASSUME TypeOK, SeenCounts, TypeOK', SeenCounts', WithinBudget, Spent, HaltCounted,
           halted, halted',
           \A v \in Workers : MaySend(v)' <= MaySend(v),
           \/ sinceHalt' = sinceHalt
           \/ /\ sinceHalt' = sinceHalt + 1
              /\ (\E w \in Workers : MaySend(w)' < MaySend(w)) \/ Spend("lostReply")
    PROVE  HaltCounted'
<1> DEFINE N == Cardinality(Workers) * HaltCheckEvery
           c == Cardinality(ToSend)
           d == Cardinality(ToSend')
<1>1. sinceHalt + c <= N + Budget["lostReply"] - left["lostReply"]
  BY DEF HaltCounted
<1>2. /\ IsFiniteSet(ToSend) /\ c \in Nat /\ Cardinality(Workers) \in Nat
      /\ IsFiniteSet(ToSend') /\ d \in Nat
  <2>1. ToSend' \in SUBSET (Workers \X (1..HaltCheckEvery))
    BY DEF ToSend
  <2>2. IsFiniteSet(1..HaltCheckEvery)
    BY FS_Interval
  <2>3. IsFiniteSet(Workers \X (1..HaltCheckEvery))
    BY <2>2, FS_Product
  <2> QED
    BY <2>1, <2>3, ToSendBound, FS_Subset, FS_CardinalityType
<1>3. \A v \in Workers : MaySend(v)' \in Nat
  <2>1. ASSUME NEW v \in Workers PROVE MaySend(v)' \in Nat
    <3>1. seen'[v] \in Nat
      BY DEF TypeOK
    <3>2. UntilCheck(seen'[v]) \in Nat
      BY <3>1, UntilCheckSteps
    <3> QED
      BY <3>2 DEF MaySend
  <2> QED
    BY <2>1
<1>4. /\ d <= c
      /\ \A w \in Workers : MaySend(w)' < MaySend(w) => d + 1 <= c
  BY <1>2, <1>3, ToSendShrinks
<1>5. /\ left["lostReply"] \in Nat /\ left'["lostReply"] \in Nat /\ Budget["lostReply"] \in Nat
      /\ left'["lostReply"] <= left["lostReply"]
      /\ Spend("lostReply") => left'["lostReply"] = left["lostReply"] - 1
  BY DEF TypeOK, Spent, Spend, Disturbances
<1>6. sinceHalt \in Nat /\ N \in Nat
  BY <1>2 DEF TypeOK
<1> HIDE DEF N, c, d
<1>7. sinceHalt' + d <= N + Budget["lostReply"] - left'["lostReply"]
  BY <1>1, <1>2, <1>4, <1>5, <1>6
<1> QED
  BY <1>7 DEF HaltCounted, N, d

LEMMA NextHaltCounted ==
    ASSUME TypeOK, SeenCounts, WithinBudget, HaltCounted, [Next]_vars
    PROVE  HaltCounted'
<1>1. TypeOK' /\ SeenCounts' /\ Spent /\ WithinBudget'
  BY NextTypeOK, NextSeenCounts, NextSpent
<1>2. \A v \in Workers : MaySend(v) \in 0..HaltCheckEvery
  BY MaySendType
<1>3. ASSUME halted, UNCHANGED <<pc, seen, halted, sinceHalt>> PROVE HaltCounted'
  BY <1>1, <1>2, <1>3, SeenKept, CountedKept
<1>4. ASSUME NEW w \in Workers, halted, UNCHANGED <<halted, sinceHalt>>,
             \A v \in Workers \ {w} : pc'[v] = pc[v] /\ seen'[v] = seen[v],
             pc'[w] \in {"gate", "idle"}
      PROVE  HaltCounted'
  <2>1. \A v \in Workers : MaySend(v)' <= MaySend(v)
    BY <1>2, <1>4 DEF MaySend
  <2> QED
    BY <1>1, <1>4, <2>1, CountedKept
<1>5. ASSUME ~halted, ~halted', sinceHalt' = sinceHalt PROVE HaltCounted'
  BY <1>5 DEF HaltCounted
<1>6. halted \in BOOLEAN
  BY DEF TypeOK
<1> USE DEF Goto, envVars, loopVars, historyVars
<1>7. ASSUME NEW w \in Workers, NEW m \in Msgs, Receive(w, m) PROVE HaltCounted'
  <2>1. /\ UNCHANGED <<halted, sinceHalt, seen>> /\ pc'[w] = "gate"
        /\ \A v \in Workers \ {w} : pc'[v] = pc[v]
    BY <1>7 DEF Receive, TypeOK
  <2> QED
    BY <1>4, <1>5, <1>6, <2>1
<1>8. ASSUME NEW w \in Workers, WorkerStep(w) PROVE HaltCounted'
  <2>1. CASE halted
    <3>1. \A v \in Workers \ {w} : pc'[v] = pc[v] /\ seen'[v] = seen[v]
      BY <1>8, WorkerElsewhere DEF Elsewhere
    <3>2. /\ halted' /\ MaySend(w)' <= MaySend(w)
          /\ \/ sinceHalt' = sinceHalt
             \/ sinceHalt' = sinceHalt + 1 /\ (MaySend(w)' < MaySend(w) \/ Spend("lostReply"))
      BY <1>8, <2>1, WorkerSends
    <3>3. \A v \in Workers : MaySend(v)' <= MaySend(v)
      BY <1>2, <3>1, <3>2 DEF MaySend
    <3> QED
      BY <1>1, <2>1, <3>2, <3>3, CountedKept
  <2>2. CASE ~halted
    <3>1. ~halted' /\ sinceHalt' = sinceHalt
      <4>1. Gate(w) \/ ListRecipients(w) \/ StopForHalt(w) \/ ClaimRecipient(w)
               => UNCHANGED <<halted, sinceHalt>>
        BY DEF Gate, ListRecipients, StopForHalt, ClaimRecipient
      <4>2. SendAccepted(w) \/ SendRejected(w) \/ SendFailed(w) \/ SendReplyLost(w)
               \/ SendRepeated(w) => UNCHANGED <<halted, sinceHalt>>
        BY <2>2 DEF SendAccepted, Accept, SendRejected, SendFailed, SendReplyLost, SendRepeated,
                    ReleaseAndThrow
      <4>3. \A r \in Recipients :
               SkipRecipient(w, r) \/ SelectRecipient(w, r) \/ FlushReject(w, r)
                  \/ BreakerRelease(w, r) => UNCHANGED <<halted, sinceHalt>>
        BY DEF SkipRecipient, SelectRecipient, FlushReject, BreakerRelease
      <4>4. RecordSent(w) \/ BreakerAbort(w) \/ LoopDone(w) \/ NoCompletion(w) \/ MayComplete(w)
               \/ AwaitRecordedDelivery(w) \/ AllSettled(w) \/ CompleteRange(w) \/ Ack(w)
               => UNCHANGED <<halted, sinceHalt>>
        BY DEF RecordSent, BreakerAbort, LoopDone, NoCompletion, MayComplete,
               AwaitRecordedDelivery, AllSettled, CompleteRange, Ack
      <4> QED
        BY <1>8, <2>2, <4>1, <4>2, <4>3, <4>4 DEF WorkerStep
    <3> QED
      BY <1>5, <2>2, <3>1
  <2> QED
    BY <1>6, <2>1, <2>2
<1>9. ASSUME NEW w \in Workers, Crash(w) PROVE HaltCounted'
  <2>1. /\ UNCHANGED <<halted, sinceHalt>> /\ pc'[w] = "idle"
        /\ \A v \in Workers \ {w} : pc'[v] = pc[v] /\ seen'[v] = seen[v]
    BY <1>9 DEF Crash, FailDelivery, Forget, TypeOK
  <2> QED
    BY <1>4, <1>5, <1>6, <2>1
<1>10. CASE Halt
  <2>1. /\ ~halted /\ halted' = TRUE /\ sinceHalt' = 0 /\ UNCHANGED <<pc, seen>>
    BY <1>10 DEF Halt, HaltCounted
  <2>2. ToSend' = ToSend
    BY <2>1, <1>1, SeenKept DEF ToSend
  <2>3. /\ Cardinality(ToSend) \in Nat /\ Cardinality(Workers) \in Nat
        /\ Cardinality(ToSend) <= Cardinality(Workers) * HaltCheckEvery
    BY ToSendBound
  <2>4. /\ left'["lostReply"] \in Nat /\ Budget["lostReply"] \in Nat
        /\ left'["lostReply"] <= Budget["lostReply"]
    BY <1>1 DEF TypeOK, WithinBudget, Disturbances
  <2> DEFINE c == Cardinality(ToSend)
             N == Cardinality(Workers) * HaltCheckEvery
  <2>5. c \in Nat /\ N \in Nat /\ c <= N
    BY <2>3
  <2> HIDE DEF c, N
  <2>6. 0 + c <= N + Budget["lostReply"] - left'["lostReply"]
    BY <2>4, <2>5
  <2> QED
    BY <2>1, <2>2, <2>6 DEF HaltCounted, c, N
<1>11. ASSUME UNCHANGED <<pc, seen, halted, sinceHalt>> PROVE HaltCounted'
  BY <1>3, <1>5, <1>6, <1>11
<1>12. CASE Environment
  BY <1>9, <1>10, <1>11, <1>12, NextTypeOK DEF Environment, OperatorTransition, Suppress
<1>13. CASE UNCHANGED vars
  BY <1>11, <1>13 DEF vars
<1> QED
  BY <1>7, <1>8, <1>12, <1>13 DEF Next

HaltInv == WithinBudget /\ SeenCounts /\ HaltCounted

LEMMA HaltInvHolds == Spec => []HaltInv
<1>1. Init => HaltInv
  BY DEF Init, HaltInv, WithinBudget, SeenCounts, HaltCounted
<1>2. TypeOK /\ HaltInv /\ [Next]_vars => HaltInv'
  BY NextSpent, NextSeenCounts, NextHaltCounted DEF HaltInv
<1> QED
  BY <1>1, <1>2, TypeCorrect, PTL DEF Spec

\* After a halt each invocation sends at most HaltCheckEvery more messages, apart
\* from those whose reply is lost, for any number of invocations and any period.
THEOREM HaltStopsTheRest == Spec => []HaltBound
<1>1. ASSUME TypeOK, HaltInv PROVE HaltBound
  <2> DEFINE c == Cardinality(ToSend)
             N == Cardinality(Workers) * HaltCheckEvery
  <2>1. c \in Nat /\ N \in Nat
    BY ToSendBound
  <2>2. /\ left["lostReply"] \in Nat /\ Budget["lostReply"] \in Nat /\ sinceHalt \in Nat
        /\ left["lostReply"] <= Budget["lostReply"]
    BY <1>1 DEF TypeOK, HaltInv, WithinBudget, Disturbances
  <2>3. IF halted THEN sinceHalt + c <= N + Budget["lostReply"] - left["lostReply"]
                  ELSE sinceHalt = 0
    BY <1>1 DEF HaltInv, HaltCounted
  <2> HIDE DEF c, N
  <2>4. sinceHalt <= N + Budget["lostReply"] - left["lostReply"]
    BY <2>1, <2>2, <2>3
  <2> QED
    BY <2>4 DEF HaltBound, N
<1> QED
  BY <1>1, TypeCorrect, HaltInvHolds, PTL

\* No invocation loses track of a mailable recipient of its window.
THEOREM AccountsHold == Spec => []LoopAccounts
<1>1. Init => LoopAccounts
  BY DEF Init, LoopAccounts, Accounts
<1> QED
  BY <1>1, NextAccounts, TypeCorrect, PTL DEF Spec

-----------------------------------------------------------------------------
(* Retries deliver the remainder.  The windows are those of one fan-out;   *)
(* invocations may be killed, calls may fail and breakers may trip.  Either*)
(* a message was delivered once for each interruption and at most once more*)
(* or somebody has claimed, and nobody holds, each recipient of its window.*)

OneFanOut ==
    /\ \A m, n \in Msgs : m # n => WindowOf[m] \cap WindowOf[n] = {}
    /\ Covered(Msgs)

NoDuplicate == Used("duplicate") = 0

\* One invocation at a time handles a message.
OneDelivery ==
    /\ \A w \in Workers : pc[w] # "idle" => mq[job[w]].st = "inflight"
    /\ \A v, w \in Workers : pc[v] # "idle" /\ pc[w] # "idle" /\ job[v] = job[w] => v = w

\* An invocation works inside its window, and releases nothing outside it.
InWindow(w) ==
    /\ pc[w] # "idle" => heldBack[w] \subseteq WindowOf[job[w]]
    /\ pc[w] \in {"loop", "claim", "send", "record"} => todo[w] \subseteq WindowOf[job[w]]
    /\ pc[w] \in {"claim", "send", "record"} => cur[w] \in WindowOf[job[w]]
    /\ pc[w] = "haltedTail" => halted

OwnWindow == \A w \in Workers : InWindow(w)

\* Whom an invocation has passed, somebody has claimed.
Passed(w) ==
    pc[w] \in {"loop", "claim", "send", "record", "tail", "settle", "complete"} =>
        \A r \in WindowOf[job[w]] :
            MayMail(r) => r \in todo[w] \cup claims \/ (pc[w] = "claim" /\ cur[w] = r)

AllPassed == \A w \in Workers : Passed(w)

\* No retry will mail anybody of the window: each claim is taken, and final.
Exhausted(m) ==
    \A r \in WindowOf[m] : MayMail(r) => r \in claims /\ \A w \in Workers : ~Holds(w, r)

\* Each delivery of m but the last was cut short by an interruption of its own.
\* The breaker's interruption is counted when it trips, before it ends the delivery.
Counted(m) ==
    /\ mq[m].receives <= Interruptions
                         + (IF mq[m].st \in {"inflight", "deleted"} THEN 1 ELSE 0)
    /\ \A w \in Workers : pc[w] = "breaker" /\ job[w] = m => mq[m].receives <= Interruptions
    /\ mq[m].st = "dead" => MaxReceives <= mq[m].receives

AllCounted == \A m \in Msgs : Exhausted(m) \/ Counted(m)

Uninterrupted == ~halted /\ Used("operator") = 0

\* Unless an operator or a halt stopped the send, a message is only deleted when
\* its window is exhausted.
DeletedIsExhausted ==
    Uninterrupted =>
       /\ sched = "active" \/ (sched = "completed" /\ Covered(completed))
       /\ \A m \in Msgs : mq[m].st = "deleted" => Exhausted(m)
       /\ \A w \in Workers, m \in Msgs : pc[w] = "ack" /\ job[w] = m => Exhausted(m)

RemainderInv ==
    /\ OwnWindow
    /\ NoDuplicate => OneDelivery /\ AllPassed /\ AllCounted /\ DeletedIsExhausted

\* A disturbance that did not happen yet has not happened before.
LEMMA UsedGrows ==
    ASSUME TypeOK, WithinBudget, [Next]_vars, NEW d \in Disturbances
    PROVE  /\ Used(d) \in Nat /\ Used(d)' \in Nat /\ Used(d) <= Used(d)'
           /\ Spend(d) => /\ Used(d)' = Used(d) + 1
                          /\ \A e \in Disturbances \ {d} : Used(e)' = Used(e)
<1>1. TypeOK' /\ WithinBudget' /\ Spent
  BY NextTypeOK, NextSpent
<1>2. Budget \in [Disturbances -> Nat] /\ left \in [Disturbances -> Nat]
      /\ left' \in [Disturbances -> Nat]
  BY <1>1, SendAssumption DEF TypeOK
<1>3. left[d] <= Budget[d] /\ left'[d] <= Budget[d] /\ left'[d] <= left[d]
  BY <1>1 DEF WithinBudget, Spent
<1>4. Used(d) \in Nat /\ Used(d)' \in Nat /\ Used(d) <= Used(d)'
  BY <1>2, <1>3 DEF Used
<1>5. ASSUME Spend(d)
      PROVE  /\ Used(d)' = Used(d) + 1
             /\ \A e \in Disturbances \ {d} : Used(e)' = Used(e)
  BY <1>2, <1>5 DEF Used, Spend
<1> QED
  BY <1>4, <1>5

LEMMA InterruptionsGrow ==
    ASSUME TypeOK, WithinBudget, [Next]_vars
    PROVE  /\ Interruptions \in Nat /\ Interruptions' \in Nat /\ Interruptions <= Interruptions'
           /\ \A d \in {"crash", "failure", "lostReply", "reject"} :
                 Spend(d) => Interruptions' = Interruptions + 1
<1> DEFINE Cut == {"crash", "failure", "lostReply", "reject"}
<1>1. Cut \subseteq Disturbances
  BY DEF Disturbances
<1>2. \A d \in Cut : /\ Used(d) \in Nat /\ Used(d)' \in Nat /\ Used(d) <= Used(d)'
                     /\ Spend(d) => /\ Used(d)' = Used(d) + 1
                                    /\ \A e \in Cut \ {d} : Used(e)' = Used(e)
  BY <1>1, UsedGrows
<1>3. ASSUME NEW d \in Cut, Spend(d) PROVE Interruptions' = Interruptions + 1
  BY <1>2, <1>3 DEF Interruptions
<1>4. Interruptions \in Nat /\ Interruptions' \in Nat /\ Interruptions <= Interruptions'
  BY <1>2 DEF Interruptions
<1> QED
  BY <1>3, <1>4

\* Without a duplicate now, there was none before.
LEMMA NoDuplicateBefore ==
    ASSUME TypeOK, WithinBudget, [Next]_vars, NoDuplicate'
    PROVE  NoDuplicate /\ ~Spend("duplicate")
<1>1. "duplicate" \in Disturbances
  BY DEF Disturbances
<1> QED
  BY <1>1, UsedGrows DEF NoDuplicate

\* The ways a worker's step can go: it is cut short, it is over, or it goes on with
\* the same message.
GoesOn(w) == pc[w] # "idle" /\ pc'[w] # "idle" /\ UNCHANGED queueVars

CutShort(w) == SendFailed(w) \/ SendReplyLost(w) \/ BreakerAbort(w) \/ AwaitRecordedDelivery(w)

LEMMA WorkerGoesOn ==
    ASSUME TypeOK, NEW w \in Workers, WorkerStep(w)
    PROVE  CutShort(w) \/ Ack(w) \/ GoesOn(w)
<1> USE DEF GoesOn, Goto, TypeOK
<1>1. SendRejected(w) => GoesOn(w)
  BY DEF SendRejected
<1>2. Gate(w) \/ ListRecipients(w) \/ StopForHalt(w) \/ LoopDone(w) \/ NoCompletion(w)
         \/ MayComplete(w) \/ AllSettled(w) \/ CompleteRange(w) => GoesOn(w)
  BY DEF Gate, ListRecipients, StopForHalt, LoopDone, NoCompletion, MayComplete, AllSettled,
         CompleteRange
<1>3. ClaimRecipient(w) \/ SendAccepted(w) \/ SendRepeated(w) \/ RecordSent(w) => GoesOn(w)
  BY DEF ClaimRecipient, SendAccepted, SendRepeated, Accept, RecordSent
<1>4. \A r \in Recipients : SkipRecipient(w, r) \/ SelectRecipient(w, r) \/ FlushReject(w, r)
                               \/ BreakerRelease(w, r) => GoesOn(w)
  BY DEF SkipRecipient, SelectRecipient, Reach, FlushReject, BreakerRelease
<1> QED
  BY <1>1, <1>2, <1>3, <1>4 DEF WorkerStep, CutShort

\* What a delivery that is cut short does to the queue.
LEMMA CutShortForgets ==
    ASSUME TypeOK, NEW w \in Workers, CutShort(w) \/ Crash(w)
    PROVE  pc[w] # "idle" /\ job[w] \in Msgs /\ Forget(w) /\ Return(job[w])
<1>1. pc[w] # "idle" /\ Forget(w) /\ Return(job[w])
  BY DEF CutShort, Crash, SendFailed, SendReplyLost, Accept, BreakerAbort, AwaitRecordedDelivery,
         ReleaseAndThrow, FailDelivery
<1> QED
  BY <1>1 DEF TypeOK

LEMMA NextOneDelivery ==
    ASSUME TypeOK, OneDelivery, ~Spend("duplicate"), [Next]_vars
    PROVE  OneDelivery'
<1>1. ASSUME UNCHANGED mq, \A v \in Workers : pc'[v] # "idle" => pc[v] # "idle" /\ job'[v] = job[v]
      PROVE  OneDelivery'
  BY <1>1 DEF OneDelivery
<1>2. ASSUME NEW w \in Workers, NEW m \in Msgs, Receive(w, m) PROVE OneDelivery'
  <2>1. /\ mq[m].st = "visible"
        /\ mq' = [mq EXCEPT ![m] = [st |-> "inflight", receives |-> @.receives + 1]]
        /\ job' = [job EXCEPT ![w] = m] /\ pc' = [pc EXCEPT ![w] = "gate"]
    BY <1>2 DEF Receive, Goto
  <2>2. \A v \in Workers : pc[v] # "idle" => job[v] # m
    BY <2>1 DEF OneDelivery
  <2>3. \A n \in Msgs : mq'[n] = IF n = m THEN [st |-> "inflight", receives |-> mq[m].receives + 1]
                                 ELSE mq[n]
    BY <2>1 DEF TypeOK
  <2>4. \A v \in Workers : /\ pc'[v] = IF v = w THEN "gate" ELSE pc[v]
                           /\ job'[v] = IF v = w THEN m ELSE job[v]
    BY <2>1 DEF TypeOK
  <2>5. \A v \in Workers : pc'[v] # "idle" => mq'[job'[v]].st = "inflight"
    BY <2>2, <2>3, <2>4 DEF OneDelivery, TypeOK
  <2>6. \A v, u \in Workers : pc'[v] # "idle" /\ pc'[u] # "idle" /\ job'[v] = job'[u] => v = u
    BY <2>2, <2>4 DEF OneDelivery
  <2> QED
    BY <2>5, <2>6 DEF OneDelivery
<1>3. ASSUME NEW w \in Workers, pc[w] # "idle", job[w] \in Msgs, Forget(w),
             \A n \in Msgs \ {job[w]} : mq'[n] = mq[n]
      PROVE  OneDelivery'
  <2>1. \A v \in Workers : /\ pc'[v] = IF v = w THEN "idle" ELSE pc[v]
                           /\ v # w => job'[v] = job[v]
    BY <1>3 DEF Forget, Goto, TypeOK
  <2>2. \A v \in Workers : pc'[v] # "idle" => mq'[job'[v]].st = "inflight"
    BY <1>3, <2>1 DEF OneDelivery, TypeOK
  <2>3. \A v, u \in Workers : pc'[v] # "idle" /\ pc'[u] # "idle" /\ job'[v] = job'[u] => v = u
    BY <2>1 DEF OneDelivery
  <2> QED
    BY <2>2, <2>3 DEF OneDelivery
<1>4. ASSUME NEW w \in Workers, CutShort(w) \/ Crash(w) PROVE OneDelivery'
  <2>1. pc[w] # "idle" /\ job[w] \in Msgs /\ Forget(w) /\ Return(job[w])
    BY <1>4, CutShortForgets
  <2>2. \A n \in Msgs \ {job[w]} : mq'[n] = mq[n]
    BY <2>1 DEF Return, TypeOK
  <2> QED
    BY <1>3, <2>1, <2>2
<1>5. ASSUME NEW w \in Workers, Ack(w) PROVE OneDelivery'
  <2>1. /\ pc[w] = "ack" /\ Forget(w) /\ job[w] \in Msgs
        /\ mq' = [mq EXCEPT ![job[w]].st = IF @ = "dead" THEN @ ELSE "deleted"]
    BY <1>5 DEF Ack, TypeOK
  <2>2. \A n \in Msgs \ {job[w]} : mq'[n] = mq[n]
    BY <2>1 DEF TypeOK
  <2> QED
    BY <1>3, <2>1, <2>2
<1>6. ASSUME NEW w \in Workers, WorkerStep(w) PROVE OneDelivery'
  <2>1. CASE GoesOn(w)
    <3>1. \A v \in Workers : pc'[v] # "idle" => pc[v] # "idle"
      BY <1>6, <2>1, WorkerElsewhere DEF Elsewhere, GoesOn
    <3> QED
      BY <1>1, <2>1, <3>1 DEF GoesOn, queueVars
  <2> QED
    BY <1>4, <1>5, <1>6, <2>1, WorkerGoesOn
<1>7. CASE Environment
  BY <1>1, <1>4, <1>7 DEF Environment, OperatorTransition, Halt, Suppress, queueVars
<1>8. CASE UNCHANGED vars
  BY <1>1, <1>8 DEF vars
<1> QED
  BY <1>2, <1>6, <1>7, <1>8 DEF Next

\* An invocation neither halts the campaign nor suppresses anybody.
LEMMA WorkerKeepsEnv ==
    ASSUME NEW w \in Workers, WorkerStep(w)
    PROVE  UNCHANGED envVars
<1>1. Gate(w) \/ ListRecipients(w) \/ StopForHalt(w) \/ ClaimRecipient(w) \/ SendAccepted(w)
         \/ SendRejected(w) \/ SendRepeated(w) => UNCHANGED envVars
  BY DEF Gate, ListRecipients, StopForHalt, ClaimRecipient, SendAccepted, SendRejected, SendRepeated
<1>2. SendFailed(w) \/ SendReplyLost(w) => UNCHANGED envVars
  BY DEF SendFailed, SendReplyLost, ReleaseAndThrow
<1>3. \A r \in Recipients : SkipRecipient(w, r) \/ SelectRecipient(w, r) \/ FlushReject(w, r)
         \/ BreakerRelease(w, r) => UNCHANGED envVars
  BY DEF SkipRecipient, SelectRecipient, FlushReject, BreakerRelease
<1>4. RecordSent(w) \/ BreakerAbort(w) \/ LoopDone(w) \/ NoCompletion(w) \/ MayComplete(w)
         \/ AwaitRecordedDelivery(w) \/ AllSettled(w) \/ CompleteRange(w) \/ Ack(w)
         => UNCHANGED envVars
  BY DEF RecordSent, BreakerAbort, LoopDone, NoCompletion, MayComplete, AwaitRecordedDelivery,
         AllSettled, CompleteRange, Ack
<1> QED
  BY <1>1, <1>2, <1>3, <1>4 DEF WorkerStep

LEMMA WorkerInWindow ==
    ASSUME TypeOK, NEW w \in Workers, InWindow(w), WorkerStep(w)
    PROVE  InWindow(w)'
<1>1. pc[w] # "idle" => job[w] \in Msgs
  BY DEF TypeOK
<1> USE DEF Goto, TypeOK, queueVars, storeVars, envVars, loopVars, historyVars
<1>2. ASSUME Forget(w) PROVE InWindow(w)'
  BY <1>2 DEF InWindow, Forget
<1>3. ASSUME UNCHANGED <<heldBack, todo, job, cur, halted>>, pc[w] # "idle",
             \/ pc'[w] \notin {"loop", "claim", "send", "record"}
             \/ pc'[w] = pc[w]
             \/ pc[w] = "send" /\ pc'[w] = "record",
             pc'[w] = "haltedTail" => halted
      PROVE  InWindow(w)'
  BY <1>3 DEF InWindow
<1>4. CASE Gate(w) \/ LoopDone(w) \/ NoCompletion(w) \/ MayComplete(w) \/ AllSettled(w)
           \/ CompleteRange(w) \/ StopForHalt(w)
  BY <1>3, <1>4 DEF Gate, LoopDone, NoCompletion, MayComplete, AllSettled, CompleteRange,
                    StopForHalt
<1>5. CASE ListRecipients(w)
  BY <1>5 DEF ListRecipients, InWindow
<1>6. ASSUME NEW r \in Recipients, SkipRecipient(w, r) \/ SelectRecipient(w, r)
      PROVE  InWindow(w)'
  <2>1. /\ pc[w] = "loop" /\ r \in todo[w] /\ todo' = [todo EXCEPT ![w] = @ \ {r}]
        /\ UNCHANGED <<heldBack, job, halted>>
        /\ pc'[w] \in {"loop", "claim"}
        /\ pc'[w] = "claim" => cur'[w] = r
    BY <1>6 DEF SkipRecipient, SelectRecipient, Reach, NextRecipient
  <2>2. /\ todo'[w] \subseteq todo[w] /\ todo[w] \subseteq WindowOf[job[w]] /\ r \in WindowOf[job[w]]
        /\ heldBack[w] \subseteq WindowOf[job[w]]
    BY <2>1 DEF InWindow
  <2>3. /\ heldBack'[w] \subseteq WindowOf[job'[w]]
        /\ pc'[w] \in {"loop", "claim"} /\ todo'[w] \subseteq WindowOf[job'[w]]
        /\ pc'[w] = "claim" => cur'[w] \in WindowOf[job'[w]]
    BY <2>1, <2>2
  <2> HIDE DEF TypeOK
  <2> QED
    BY <2>3 DEF InWindow
<1>7. CASE ClaimRecipient(w)
  <2>1. /\ pc[w] = "claim" /\ pc'[w] \in {"loop", "send"} /\ UNCHANGED <<todo, heldBack, job, halted>>
        /\ pc'[w] = "send" => cur'[w] = cur[w]
    BY <1>7 DEF ClaimRecipient
  <2> QED
    BY <2>1 DEF InWindow
<1>8. CASE SendAccepted(w) \/ SendRepeated(w)
  BY <1>3, <1>8 DEF SendAccepted, SendRepeated, Accept
<1>9. CASE SendRejected(w)
  <2>1. /\ pc[w] = "send" /\ pc'[w] \in {"loop", "breaker"} /\ UNCHANGED <<todo, job, halted>>
        /\ heldBack'[w] = heldBack[w] \cup {cur[w]}
    BY <1>9 DEF SendRejected
  <2> QED
    BY <2>1 DEF InWindow
<1>10. CASE CutShort(w) \/ Ack(w)
  BY <1>2, <1>10, CutShortForgets DEF Ack
<1>11. ASSUME NEW r \in Recipients, FlushReject(w, r) \/ BreakerRelease(w, r)
       PROVE  InWindow(w)'
  <2>1. /\ UNCHANGED <<pc, todo, job, cur, halted>> /\ heldBack'[w] \subseteq heldBack[w]
        /\ pc[w] # "idle"
    BY <1>11 DEF FlushReject, BreakerRelease
  <2> QED
    BY <2>1 DEF InWindow
<1>12. CASE RecordSent(w)
  BY <1>12 DEF RecordSent, InWindow
<1> QED
  BY <1>4, <1>5, <1>6, <1>7, <1>8, <1>9, <1>10, <1>11, <1>12 DEF WorkerStep, CutShort

LEMMA NextOwnWindow ==
    ASSUME TypeOK, EmptyHanded, OwnWindow, [Next]_vars
    PROVE  OwnWindow'
<1> SUFFICES ASSUME NEW v \in Workers PROVE InWindow(v)'
  BY DEF OwnWindow
<1>1. InWindow(v)
  BY DEF OwnWindow
<1>2. ASSUME heldBack'[v] = heldBack[v], pc'[v] = pc[v], todo'[v] = todo[v], job'[v] = job[v],
             cur'[v] = cur[v], halted => halted'
      PROVE  InWindow(v)'
  BY <1>1, <1>2 DEF InWindow
<1>3. ASSUME NEW w \in Workers, NEW m \in Msgs, Receive(w, m) PROVE InWindow(v)'
  <2>1. CASE v = w
    BY <1>3, <2>1 DEF Receive, Goto, loopVars, InWindow, EmptyHanded, TypeOK
  <2>2. CASE v # w
    BY <1>2, <1>3, <2>2 DEF Receive, Goto, TypeOK, loopVars, envVars
  <2> QED
    BY <2>1, <2>2
<1>4. ASSUME NEW w \in Workers, WorkerStep(w) PROVE InWindow(v)'
  <2>1. CASE v = w
    BY <1>1, <1>4, <2>1, WorkerInWindow
  <2>2. CASE v # w
    BY <1>2, <1>4, <2>2, WorkerElsewhere, WorkerKeepsEnv DEF Elsewhere, envVars
  <2> QED
    BY <2>1, <2>2
<1>5. ASSUME NEW w \in Workers, Crash(w) PROVE InWindow(v)'
  <2>1. CASE v = w
    BY <1>5, <2>1, CutShortForgets DEF InWindow, Forget, Goto, TypeOK
  <2>2. CASE v # w
    <3>1. Forget(w) /\ UNCHANGED halted
      BY <1>5 DEF Crash, FailDelivery, envVars
    <3> QED
      BY <1>2, <2>2, <3>1 DEF Forget, Goto, TypeOK
  <2> QED
    BY <2>1, <2>2
<1>6. CASE Environment
  BY <1>2, <1>5, <1>6 DEF Environment, OperatorTransition, Halt, Suppress, queueVars, loopVars, envVars
<1>7. CASE UNCHANGED vars
  BY <1>2, <1>7 DEF vars
<1> QED
  BY <1>3, <1>4, <1>6, <1>7 DEF Next

\* Nobody but the invocation on a message holds anybody of its window.
LEMMA HoldersOwn ==
    ASSUME OneFanOut, TypeOK, EmptyHanded, OneDelivery, OwnWindow, NEW w \in Workers, pc[w] # "idle",
           NEW v \in Workers, NEW r \in WindowOf[job[w]], Holds(v, r)
    PROVE  v = w
<1>1. pc[v] # "idle"
  BY DEF Holds, EmptyHanded
<1>2. r \in WindowOf[job[v]]
  BY <1>1 DEF Holds, OwnWindow, InWindow
<1>3. job[v] \in Msgs /\ job[w] \in Msgs
  BY <1>1 DEF TypeOK
<1>4. job[v] = job[w]
  BY <1>2, <1>3 DEF OneFanOut
<1> QED
  BY <1>1, <1>4 DEF OneDelivery

\* Who gives back a claim held it.
LEMMA ReleasedWasHeld ==
    ASSUME TypeOK, NEW r \in Recipients, [Next]_vars, r \in claims, r \notin claims'
    PROVE  \E v \in Workers :
              /\ WorkerStep(v) /\ Holds(v, r)
              /\ pc'[v] \in {"idle", "breaker"}
<1> USE DEF storeVars
<1>1. ASSUME NEW v \in Workers, WorkerStep(v)
      PROVE  Holds(v, r) /\ pc'[v] \in {"idle", "breaker"}
  <2>1. ~(ClaimRecipient(v) \/ Gate(v) \/ ListRecipients(v) \/ StopForHalt(v) \/ SendAccepted(v)
            \/ SendRejected(v) \/ SendRepeated(v) \/ RecordSent(v) \/ BreakerAbort(v) \/ LoopDone(v))
    BY DEF ClaimRecipient, Gate, ListRecipients, StopForHalt, SendAccepted, SendRejected,
           SendRepeated, RecordSent, BreakerAbort, LoopDone
  <2>2. ~(NoCompletion(v) \/ MayComplete(v) \/ AwaitRecordedDelivery(v) \/ AllSettled(v)
            \/ CompleteRange(v) \/ Ack(v))
    BY DEF NoCompletion, MayComplete, AwaitRecordedDelivery, AllSettled, CompleteRange, Ack
  <2>3. \A q \in Recipients : ~(SkipRecipient(v, q) \/ SelectRecipient(v, q) \/ FlushReject(v, q))
    BY DEF SkipRecipient, SelectRecipient, FlushReject
  <2>4. ASSUME SendFailed(v) \/ SendReplyLost(v) PROVE Holds(v, r) /\ pc'[v] = "idle"
    BY <2>4 DEF SendFailed, SendReplyLost, Accept, ReleaseAndThrow, FailDelivery, Forget, Goto,
                Holds, TypeOK
  <2>5. ASSUME NEW q \in Recipients, BreakerRelease(v, q) PROVE Holds(v, r) /\ pc'[v] = "breaker"
    BY <2>5 DEF BreakerRelease, NextHeldBack, Holds
  <2> QED
    BY <1>1, <2>1, <2>2, <2>3, <2>4, <2>5 DEF WorkerStep
<1>2. ASSUME NEW v \in Workers, NEW m \in Msgs, Receive(v, m) PROVE FALSE
  BY <1>2 DEF Receive
<1>3. ~Environment /\ ~UNCHANGED vars
  BY DEF Environment, Crash, OperatorTransition, Halt, Suppress, vars
<1> QED
  BY <1>1, <1>2, <1>3 DEF Next

\* So a claim in the window of an invocation that goes on stays.
LEMMA ClaimStays ==
    ASSUME OneFanOut, TypeOK, EmptyHanded, OneDelivery, OwnWindow, [Next]_vars,
           NEW w \in Workers, pc[w] # "idle", pc'[w] \notin {"idle", "breaker"},
           NEW r \in WindowOf[job[w]], r \in claims
    PROVE  r \in claims'
<1>1. r \in Recipients
  BY DEF TypeOK
<1> QED
  BY <1>1, HoldersOwn, ReleasedWasHeld

LEMMA WorkerPassed ==
    ASSUME OneFanOut, TypeOK, EmptyHanded, OneDelivery, OwnWindow, [Next]_vars,
           NEW w \in Workers, Passed(w), WorkerStep(w)
    PROVE  Passed(w)'
<1> DEFINE Walking == {"loop", "claim", "send", "record", "tail", "settle", "complete"}
<1> SUFFICES ASSUME pc'[w] \in Walking, NEW r \in WindowOf[job'[w]], MayMail(r)'
             PROVE  r \in todo'[w] \cup claims' \/ (pc'[w] = "claim" /\ cur'[w] = r)
  BY DEF Passed
<1>1. pc[w] # "idle" /\ job'[w] = job[w]
  <2>1. ~CutShort(w) /\ ~Ack(w)
    BY CutShortForgets DEF Ack, Forget, Goto, TypeOK
  <2> QED
    BY <2>1, WorkerGoesOn DEF GoesOn, queueVars
<1>2. r \in WindowOf[job[w]] /\ r \in Recipients
  BY <1>1 DEF TypeOK
<1>3. MayMail(r)
  BY <1>2, StepMonotone DEF Monotone
<1>4. r \in claims => r \in claims'
  BY <1>1, <1>2, ClaimStays
<1>5. ASSUME pc[w] \in Walking, pc[w] # "claim", UNCHANGED todo
      PROVE  r \in todo'[w] \cup claims'
  BY <1>2, <1>3, <1>4, <1>5 DEF Passed
<1> USE DEF Goto, TypeOK, queueVars, storeVars, envVars, loopVars, historyVars
<1>6. CASE ListRecipients(w)
  BY <1>1, <1>2, <1>6 DEF ListRecipients
<1>7. ASSUME NEW q \in Recipients, SkipRecipient(w, q) \/ SelectRecipient(w, q)
      PROVE  r \in todo'[w] \cup claims' \/ (pc'[w] = "claim" /\ cur'[w] = r)
  <2>1. /\ pc[w] = "loop" /\ todo'[w] = todo[w] \ {q}
        /\ q = r => pc'[w] = "claim" /\ cur'[w] = r
    BY <1>3, <1>7 DEF SkipRecipient, SelectRecipient, Reach
  <2> HIDE DEF TypeOK
  <2> QED
    BY <1>2, <1>3, <1>4, <2>1 DEF Passed
<1>8. CASE ClaimRecipient(w)
  <2>1. pc[w] = "claim" /\ cur[w] \in claims' /\ UNCHANGED todo
    BY <1>8 DEF ClaimRecipient
  <2> HIDE DEF TypeOK
  <2> QED
    BY <1>2, <1>3, <1>4, <2>1 DEF Passed
<1>9. CASE LoopDone(w) \/ MayComplete(w) \/ AllSettled(w) \/ SendAccepted(w) \/ SendRepeated(w)
           \/ SendRejected(w) \/ RecordSent(w)
  BY <1>5, <1>9 DEF LoopDone, MayComplete, AllSettled, SendAccepted, SendRepeated, Accept,
                    SendRejected, RecordSent
<1>10. ~(Gate(w) \/ StopForHalt(w) \/ NoCompletion(w) \/ CompleteRange(w))
  BY DEF Gate, StopForHalt, NoCompletion, CompleteRange
<1>11. ASSUME NEW q \in Recipients, FlushReject(w, q) \/ BreakerRelease(w, q)
       PROVE  r \in todo'[w] \cup claims'
  <2>1. UNCHANGED <<pc, todo>> /\ pc[w] # "claim"
    BY <1>11 DEF FlushReject, BreakerRelease
  <2> QED
    BY <1>5, <2>1
<1>12. ~(SendFailed(w) \/ SendReplyLost(w) \/ BreakerAbort(w) \/ AwaitRecordedDelivery(w) \/ Ack(w))
  BY CutShortForgets DEF CutShort, Ack, Forget
<1> QED
  BY <1>6, <1>7, <1>8, <1>9, <1>10, <1>11, <1>12 DEF WorkerStep

LEMMA NextAllPassed ==
    ASSUME OneFanOut, TypeOK, EmptyHanded, OneDelivery, OwnWindow, AllPassed, [Next]_vars
    PROVE  AllPassed'
<1> SUFFICES ASSUME NEW v \in Workers PROVE Passed(v)'
  BY DEF AllPassed
<1>1. Passed(v)
  BY DEF AllPassed
<1>2. ASSUME pc'[v] = pc[v], todo'[v] = todo[v], job'[v] = job[v], cur'[v] = cur[v]
      PROVE  Passed(v)'
  <2> SUFFICES ASSUME pc[v] \in {"loop", "claim", "send", "record", "tail", "settle", "complete"},
                      NEW r \in WindowOf[job[v]], MayMail(r)'
               PROVE  r \in todo[v] \cup claims' \/ (pc[v] = "claim" /\ cur[v] = r)
    BY <1>2 DEF Passed
  <2>1. r \in Recipients
    BY DEF TypeOK
  <2>2. MayMail(r)
    BY <2>1, StepMonotone DEF Monotone
  <2>3. r \in claims => r \in claims'
    BY <1>2, ClaimStays
  <2> QED
    BY <1>1, <2>2, <2>3 DEF Passed
<1>3. ASSUME pc'[v] \in {"idle", "gate"} PROVE Passed(v)'
  BY <1>3 DEF Passed
<1>4. ASSUME NEW w \in Workers, NEW m \in Msgs, Receive(w, m) PROVE Passed(v)'
  BY <1>2, <1>3, <1>4 DEF Receive, Goto, TypeOK, loopVars
<1>5. ASSUME NEW w \in Workers, WorkerStep(w) PROVE Passed(v)'
  BY <1>1, <1>2, <1>5, WorkerPassed, WorkerElsewhere DEF Elsewhere
<1>6. ASSUME NEW w \in Workers, Crash(w) PROVE Passed(v)'
  <2>1. Forget(w)
    BY <1>6, CutShortForgets
  <2> QED
    BY <1>2, <1>3, <2>1 DEF Forget, Goto, TypeOK
<1>7. CASE Environment
  BY <1>2, <1>6, <1>7 DEF Environment, OperatorTransition, Halt, Suppress, queueVars, loopVars
<1>8. CASE UNCHANGED vars
  BY <1>2, <1>8 DEF vars
<1> QED
  BY <1>4, <1>5, <1>7, <1>8 DEF Next

\* A window once exhausted stays so: nobody holds its claims, so nobody gives
\* them back, and nobody can take them.
LEMMA ExhaustedStays ==
    ASSUME TypeOK, [Next]_vars, NEW m \in Msgs, Exhausted(m)
    PROVE  Exhausted(m)'
<1> SUFFICES ASSUME NEW r \in WindowOf[m], MayMail(r)'
             PROVE  r \in claims' /\ \A w \in Workers : ~Holds(w, r)'
  BY DEF Exhausted
<1>1. r \in Recipients
  BY SendAssumption
<1>2. r \in claims /\ \A w \in Workers : ~Holds(w, r)
  BY <1>1, StepMonotone DEF Exhausted, Monotone
<1>3. r \in claims'
  BY <1>1, <1>2, ReleasedWasHeld
<1>4. ASSUME NEW v \in Workers, pc'[v] \in {"send", "record"} => pc[v] \in {"send", "record"},
             heldBack'[v] \subseteq heldBack[v], cur'[v] = cur[v] \/ pc'[v] \notin {"send", "record"}
      PROVE  ~Holds(v, r)'
  BY <1>2, <1>4 DEF Holds
<1> USE DEF Goto, TypeOK, queueVars, storeVars, envVars, loopVars, historyVars
<1>5. ASSUME NEW w \in Workers, NEW n \in Msgs, Receive(w, n), NEW v \in Workers PROVE ~Holds(v, r)'
  BY <1>4, <1>5 DEF Receive
<1>6. ASSUME NEW w \in Workers, Forget(w), NEW v \in Workers PROVE ~Holds(v, r)'
  BY <1>4, <1>6, ForgetHolds
<1>7. ASSUME NEW w \in Workers, WorkerStep(w) PROVE ~Holds(w, r)'
  <2>1. CASE Gate(w) \/ ListRecipients(w) \/ StopForHalt(w) \/ LoopDone(w) \/ NoCompletion(w)
             \/ MayComplete(w) \/ AllSettled(w) \/ CompleteRange(w) \/ RecordSent(w)
             \/ SendAccepted(w) \/ SendRepeated(w)
    BY <1>4, <2>1 DEF Gate, ListRecipients, StopForHalt, LoopDone, NoCompletion, MayComplete,
           AllSettled, CompleteRange, RecordSent, SendAccepted, SendRepeated, Accept
  <2>2. CASE ClaimRecipient(w)
    <3>1. /\ UNCHANGED heldBack /\ pc[w] = "claim"
          /\ pc'[w] = "send" => cur'[w] \notin claims
          /\ pc'[w] \in {"loop", "send"}
      BY <2>2 DEF ClaimRecipient
    <3> QED
      BY <1>2, <3>1 DEF Holds
  <2>3. CASE SendRejected(w)
    <3>1. /\ heldBack'[w] = heldBack[w] \cup {cur[w]} /\ pc[w] = "send"
          /\ pc'[w] \in {"loop", "breaker"}
      BY <2>3 DEF SendRejected
    <3> QED
      BY <1>2, <3>1 DEF Holds
  <2>4. ASSUME NEW q \in Recipients, SkipRecipient(w, q) \/ SelectRecipient(w, q)
                  \/ FlushReject(w, q) \/ BreakerRelease(w, q)
        PROVE  ~Holds(w, r)'
    BY <1>4, <2>4 DEF SkipRecipient, SelectRecipient, Reach, FlushReject, BreakerRelease
  <2>5. CASE CutShort(w) \/ Ack(w)
    BY <1>6, <2>5, CutShortForgets DEF Ack
  <2> QED
    BY <1>7, <2>1, <2>2, <2>3, <2>4, <2>5 DEF WorkerStep, CutShort
<1>8. ASSUME NEW w \in Workers, WorkerStep(w), NEW v \in Workers, v # w PROVE ~Holds(v, r)'
  BY <1>4, <1>8, WorkerElsewhere DEF Elsewhere
<1>9. ASSUME Environment, NEW v \in Workers PROVE ~Holds(v, r)'
  BY <1>4, <1>6, <1>9, CutShortForgets DEF Environment, OperatorTransition, Halt, Suppress
<1>10. ASSUME UNCHANGED vars, NEW v \in Workers PROVE ~Holds(v, r)'
  BY <1>4, <1>10 DEF vars
<1> QED
  BY <1>3, <1>5, <1>7, <1>8, <1>9, <1>10 DEF Next

\* An invocation that has passed its whole window, and buffers nothing, leaves it
\* exhausted.
LEMMA FinishedIsExhausted ==
    ASSUME OneFanOut, TypeOK, EmptyHanded, OneDelivery, OwnWindow, AllPassed, LoopAccounts,
           NEW w \in Workers, pc[w] \in {"tail", "settle", "complete"}, heldBack[w] = {}
    PROVE  Exhausted(job[w])
<1>1. todo[w] = {} /\ Passed(w)
  BY DEF LoopAccounts, Accounts, AllPassed
<1>2. ~\E r \in WindowOf[job[w]] : Holds(w, r)
  BY DEF Holds
<1>3. \A v \in Workers, r \in WindowOf[job[w]] : ~Holds(v, r)
  BY <1>2, HoldersOwn
<1> QED
  BY <1>1, <1>3 DEF Exhausted, Passed

\* Nor does a recorded window leave anything to do.
LEMMA RecordedIsExhausted ==
    ASSUME TypeOK, Ownership, CompletedOwesNobody, Covered(completed), NEW m \in Msgs
    PROVE  Exhausted(m)
<1> SUFFICES ASSUME NEW r \in WindowOf[m], MayMail(r)
             PROVE  r \in claims /\ \A w \in Workers : ~Holds(w, r)
  BY DEF Exhausted
<1>1. r \in Recipients /\ \E n \in completed : r \in WindowOf[n]
  BY SendAssumption DEF Covered
<1>2. Settled(r)
  BY <1>1 DEF CompletedOwesNobody
<1> QED
  BY <1>1, <1>2 DEF Ownership, Owned

\* The count holds on if the message does not move, or moves for an interruption.
LEMMA CountKept ==
    ASSUME TypeOK, WithinBudget, [Next]_vars, NEW m \in Msgs, Counted(m), mq'[m] = mq[m],
           Interruptions' = Interruptions + 1
             \/ \A w \in Workers : pc'[w] = "breaker" /\ job'[w] = m =>
                                     pc[w] = "breaker" /\ job[w] = m
    PROVE  Counted(m)'
<1>1. Interruptions \in Nat /\ Interruptions' \in Nat /\ Interruptions <= Interruptions'
  BY InterruptionsGrow
<1>2. mq[m].receives \in Nat
  BY DEF TypeOK
<1>3. mq[m].receives <= Interruptions + 1
  BY <1>1, <1>2 DEF Counted
<1>4. mq'[m].receives <= Interruptions' + (IF mq'[m].st \in {"inflight", "deleted"} THEN 1 ELSE 0)
  BY <1>1, <1>2 DEF Counted
<1>5. ASSUME NEW w \in Workers, pc'[w] = "breaker", job'[w] = m
      PROVE  mq'[m].receives <= Interruptions'
  BY <1>1, <1>2, <1>3, <1>5 DEF Counted
<1> QED
  BY <1>4, <1>5 DEF Counted

LEMMA CountReturned ==
    ASSUME TypeOK, WithinBudget, [Next]_vars, NEW m \in Msgs, Return(m), mq[m].st = "inflight",
           mq[m].receives <= Interruptions'
    PROVE  Counted(m)'
<1>1. Interruptions' \in Nat /\ MaxReceives \in Nat /\ mq[m].receives \in Nat
  BY InterruptionsGrow, SendAssumption DEF TypeOK
<1>2. /\ mq'[m].receives = mq[m].receives
      /\ mq'[m].st = IF mq[m].receives >= MaxReceives THEN "dead" ELSE "visible"
  BY DEF Return, TypeOK
<1> QED
  BY <1>1, <1>2 DEF Counted

\* Only a rejection trips the breaker.
LEMMA BreakerEntered ==
    ASSUME TypeOK, NEW w \in Workers, WorkerStep(w), ~SendRejected(w), pc'[w] = "breaker"
    PROVE  pc[w] = "breaker"
<1> USE DEF Goto, TypeOK
<1>1. ~(Gate(w) \/ ListRecipients(w) \/ StopForHalt(w) \/ LoopDone(w) \/ NoCompletion(w)
          \/ MayComplete(w) \/ AllSettled(w) \/ CompleteRange(w))
  BY DEF Gate, ListRecipients, StopForHalt, LoopDone, NoCompletion, MayComplete, AllSettled,
         CompleteRange
<1>2. ~(ClaimRecipient(w) \/ SendAccepted(w) \/ RecordSent(w)) /\ ~CutShort(w) /\ ~Ack(w)
  BY CutShortForgets DEF ClaimRecipient, SendAccepted, Accept, RecordSent, Ack, Forget
<1>3. ASSUME NEW r \in Recipients, SkipRecipient(w, r) \/ SelectRecipient(w, r)
                \/ FlushReject(w, r) \/ BreakerRelease(w, r)
      PROVE  pc[w] = "breaker"
  BY <1>3 DEF SkipRecipient, SelectRecipient, Reach, FlushReject, BreakerRelease
<1>4. SendRepeated(w) => pc[w] = "breaker"
  BY DEF SendRepeated
<1> QED
  BY <1>1, <1>2, <1>3, <1>4 DEF WorkerStep, CutShort

LEMMA NextAllCounted ==
    ASSUME OneFanOut, TypeOK, WithinBudget, EmptyHanded, LoopAccounts, OwnWindow,
           OneDelivery, AllPassed, AllCounted, [Next]_vars, ~Spend("duplicate")
    PROVE  AllCounted'
<1> SUFFICES ASSUME NEW m \in Msgs, Counted(m), ~Exhausted(m) PROVE Counted(m)'
  BY ExhaustedStays DEF AllCounted
<1>1. /\ Interruptions \in Nat /\ Interruptions' \in Nat /\ Interruptions <= Interruptions'
      /\ Spend("crash") \/ Spend("failure") \/ Spend("lostReply") \/ Spend("reject")
            => Interruptions' = Interruptions + 1
  BY InterruptionsGrow
<1>2. mq[m].receives \in Nat
  BY DEF TypeOK
<1>3. ASSUME mq'[m] = mq[m],
             \A w \in Workers : pc'[w] = "breaker" /\ job'[w] = m => pc[w] = "breaker" /\ job[w] = m
      PROVE  Counted(m)'
  BY <1>3, CountKept
<1>4. ASSUME NEW w \in Workers, Forget(w), \A n \in Msgs \ {job[w]} : mq'[n] = mq[n], job[w] # m
      PROVE  Counted(m)'
  <2>1. \A v \in Workers : pc'[v] = "breaker" /\ job'[v] = m => pc[v] = "breaker" /\ job[v] = m
    BY <1>4 DEF Forget, Goto, TypeOK
  <2> QED
    BY <1>3, <1>4, <2>1
<1>5. ASSUME NEW w \in Workers, NEW n \in Msgs, Receive(w, n) PROVE Counted(m)'
  <2>1. /\ mq[n].st = "visible" /\ UNCHANGED left
        /\ mq' = [mq EXCEPT ![n] = [st |-> "inflight", receives |-> @.receives + 1]]
        /\ job' = [job EXCEPT ![w] = n] /\ pc' = [pc EXCEPT ![w] = "gate"]
    BY <1>5 DEF Receive, Goto
  <2>2. \A v \in Workers : pc'[v] = "breaker" => v # w /\ pc[v] = "breaker" /\ job'[v] = job[v]
    BY <2>1 DEF TypeOK
  <2>3. CASE n # m
    <3>1. mq'[m] = mq[m]
      BY <2>1, <2>3 DEF TypeOK
    <3> QED
      BY <1>3, <2>2, <3>1
  <2>4. CASE n = m
    <3>1. mq'[m] = [st |-> "inflight", receives |-> mq[m].receives + 1]
      BY <2>1, <2>4 DEF TypeOK
    <3>2. Interruptions' = Interruptions
      BY <2>1 DEF Interruptions, Used
    <3>3. mq[m].receives <= Interruptions
      BY <1>1, <2>1, <2>4 DEF Counted
    <3>4. \A v \in Workers : ~(pc'[v] = "breaker" /\ job'[v] = m)
      BY <2>1, <2>2, <2>4 DEF OneDelivery
    <3>5. mq'[m].receives <= Interruptions' + 1 /\ mq'[m].st = "inflight"
      BY <1>1, <1>2, <3>1, <3>2, <3>3
    <3> QED
      BY <3>4, <3>5 DEF Counted
  <2> QED
    BY <2>3, <2>4
<1>6. ASSUME NEW w \in Workers, CutShort(w) \/ Crash(w) PROVE Counted(m)'
  <2>1. pc[w] # "idle" /\ job[w] \in Msgs /\ Forget(w) /\ Return(job[w])
    BY <1>6, CutShortForgets
  <2>2. CASE job[w] # m
    <3>1. \A n \in Msgs \ {job[w]} : mq'[n] = mq[n]
      BY <2>1 DEF Return, TypeOK
    <3> QED
      BY <1>4, <2>1, <2>2, <3>1
  <2>3. CASE job[w] = m
    <3>1. mq[m].st = "inflight"
      BY <2>1, <2>3 DEF OneDelivery
    <3>2. mq[m].receives <= Interruptions + 1
      BY <1>1, <1>2, <3>1 DEF Counted
    <3>3. ~AwaitRecordedDelivery(w)
      <4>1. AwaitRecordedDelivery(w) => pc[w] = "settle" /\ heldBack[w] = {}
        BY DEF AwaitRecordedDelivery, EmptyHanded
      <4> QED
        BY <2>3, <4>1, FinishedIsExhausted
    <3>4. CASE BreakerAbort(w)
      <4>1. mq[m].receives <= Interruptions
        BY <2>3, <3>4 DEF BreakerAbort, Counted
      <4>2. mq[m].receives <= Interruptions'
        BY <1>1, <1>2, <4>1
      <4> QED
        BY <2>1, <2>3, <3>1, <4>2, CountReturned
    <3>5. CASE SendFailed(w) \/ SendReplyLost(w) \/ Crash(w)
      <4>1. Interruptions' = Interruptions + 1
        BY <1>1, <3>5 DEF SendFailed, SendReplyLost, Crash
      <4>2. mq[m].receives <= Interruptions'
        BY <3>2, <4>1
      <4> QED
        BY <2>1, <2>3, <3>1, <4>2, CountReturned
    <3> QED
      BY <1>6, <3>3, <3>4, <3>5 DEF CutShort
  <2> QED
    BY <2>2, <2>3
<1>7. ASSUME NEW w \in Workers, Ack(w) PROVE Counted(m)'
  <2>1. /\ pc[w] = "ack" /\ Forget(w) /\ job[w] \in Msgs /\ UNCHANGED left
        /\ mq' = [mq EXCEPT ![job[w]].st = IF @ = "dead" THEN @ ELSE "deleted"]
    BY <1>7 DEF Ack, TypeOK
  <2>2. CASE job[w] # m
    <3>1. \A n \in Msgs \ {job[w]} : mq'[n] = mq[n]
      BY <2>1 DEF TypeOK
    <3> QED
      BY <1>4, <2>1, <2>2, <3>1
  <2>3. CASE job[w] = m
    <3>1. mq[m].st = "inflight"
      BY <2>1, <2>3 DEF OneDelivery
    <3>2. mq'[m].st = "deleted" /\ mq'[m].receives = mq[m].receives
      BY <2>1, <2>3, <3>1 DEF TypeOK
    <3>3. \A v \in Workers : ~(pc'[v] = "breaker" /\ job'[v] = m)
      BY <2>1, <2>3 DEF Forget, Goto, TypeOK, OneDelivery
    <3>4. mq'[m].receives <= Interruptions' + 1
      BY <1>1, <1>2, <3>1, <3>2 DEF Counted
    <3> QED
      BY <3>2, <3>3, <3>4 DEF Counted
  <2> QED
    BY <2>2, <2>3
<1>8. ASSUME NEW w \in Workers, WorkerStep(w), GoesOn(w) PROVE Counted(m)'
  <2>1. UNCHANGED <<mq, job>> /\ \A v \in Workers \ {w} : pc'[v] = pc[v]
    BY <1>8, WorkerElsewhere DEF Elsewhere, GoesOn, queueVars
  <2>2. CASE SendRejected(w)
    <3>1. Interruptions' = Interruptions + 1
      BY <1>1, <2>2 DEF SendRejected
    <3> QED
      BY <2>1, <3>1, CountKept
  <2>3. CASE ~SendRejected(w)
    <3>1. pc'[w] = "breaker" => pc[w] = "breaker"
      BY <1>8, <2>3, BreakerEntered
    <3> QED
      BY <1>3, <2>1, <3>1
  <2> QED
    BY <2>2, <2>3
<1>9. ASSUME UNCHANGED <<mq, job, pc>> PROVE Counted(m)'
  BY <1>3, <1>9
<1>10. CASE Environment
  BY <1>6, <1>9, <1>10 DEF Environment, OperatorTransition, Halt, Suppress, queueVars
<1>11. CASE UNCHANGED vars
  BY <1>9, <1>11 DEF vars
<1> QED
  BY <1>5, <1>6, <1>7, <1>8, <1>10, <1>11, WorkerGoesOn DEF Next

\* An uninterrupted invocation only ends well when its window is exhausted.
LEMMA AckIsExhausted ==
    ASSUME OneFanOut, TypeOK, Ownership, EmptyHanded, OneDelivery, OwnWindow, AllPassed,
           LoopAccounts, CompletedOwesNobody, DeletedIsExhausted, Uninterrupted,
           NEW w \in Workers, WorkerStep(w), pc'[w] = "ack"
    PROVE  Exhausted(job[w])
<1> USE DEF TypeOK, Goto, Forget
<1>1. CASE Gate(w)
  <2>1. Covered(completed) /\ job[w] \in Msgs
    BY <1>1 DEF Gate, ScheduleActive, DeletedIsExhausted
  <2> HIDE DEF TypeOK
  <2> QED
    BY <2>1, RecordedIsExhausted
<1>2. ~ListRecipients(w)
  BY DEF ListRecipients, Uninterrupted
<1>3. CASE NoCompletion(w)
  <2>1. pc[w] = "tail" /\ heldBack[w] = {}
    BY <1>3 DEF NoCompletion, OwnWindow, InWindow, Uninterrupted
  <2> HIDE DEF TypeOK
  <2> QED
    BY <2>1, FinishedIsExhausted
<1>4. CASE CompleteRange(w)
  <2>1. pc[w] = "complete" /\ heldBack[w] = {}
    BY <1>4 DEF CompleteRange, EmptyHanded
  <2> HIDE DEF TypeOK
  <2> QED
    BY <2>1, FinishedIsExhausted
<1>5. ~(StopForHalt(w) \/ LoopDone(w) \/ MayComplete(w) \/ AllSettled(w))
  BY DEF StopForHalt, LoopDone, MayComplete, AllSettled
<1>6. ~(ClaimRecipient(w) \/ SendAccepted(w) \/ SendRejected(w) \/ SendRepeated(w) \/ RecordSent(w))
  BY DEF ClaimRecipient, SendAccepted, SendRejected, SendRepeated, Accept, RecordSent
<1>7. \A r \in Recipients : ~(SkipRecipient(w, r) \/ SelectRecipient(w, r) \/ FlushReject(w, r)
                               \/ BreakerRelease(w, r))
  BY DEF SkipRecipient, SelectRecipient, Reach, FlushReject, BreakerRelease
<1>8. ~(SendFailed(w) \/ SendReplyLost(w) \/ BreakerAbort(w) \/ AwaitRecordedDelivery(w) \/ Ack(w))
  BY DEF SendFailed, SendReplyLost, ReleaseAndThrow, FailDelivery, BreakerAbort,
         AwaitRecordedDelivery, Ack
<1> QED
  BY <1>1, <1>2, <1>3, <1>4, <1>5, <1>6, <1>7, <1>8 DEF WorkerStep

\* Who writes the lifecycle record: completions and operators.
LEMMA RecordSteps ==
    ASSUME [Next]_vars
    PROVE  \/ UNCHANGED <<sched, completed>>
           \/ \E w \in Workers : CompleteRange(w)
           \/ Spend("operator")
<1> DEFINE Same == UNCHANGED <<sched, completed>>
<1> USE DEF storeVars
<1>1. ASSUME NEW w \in Workers, WorkerStep(w) PROVE Same \/ CompleteRange(w)
  <2>1. Gate(w) \/ ListRecipients(w) \/ StopForHalt(w) \/ ClaimRecipient(w) \/ SendAccepted(w)
           \/ SendRejected(w) \/ SendRepeated(w) => Same
    BY DEF Gate, ListRecipients, StopForHalt, ClaimRecipient, SendAccepted, SendRejected,
           SendRepeated
  <2>2. SendFailed(w) \/ SendReplyLost(w) => Same
    BY DEF SendFailed, SendReplyLost, ReleaseAndThrow
  <2>3. \A r \in Recipients : SkipRecipient(w, r) \/ SelectRecipient(w, r) \/ FlushReject(w, r)
           \/ BreakerRelease(w, r) => Same
    BY DEF SkipRecipient, SelectRecipient, FlushReject, BreakerRelease
  <2>4. RecordSent(w) \/ BreakerAbort(w) \/ LoopDone(w) \/ NoCompletion(w) \/ MayComplete(w)
           \/ AwaitRecordedDelivery(w) \/ AllSettled(w) \/ Ack(w) => Same
    BY DEF RecordSent, BreakerAbort, LoopDone, NoCompletion, MayComplete, AwaitRecordedDelivery,
           AllSettled, Ack
  <2> HIDE DEF Same
  <2> QED
    BY <1>1, <2>1, <2>2, <2>3, <2>4 DEF WorkerStep
<1>2. ASSUME NEW w \in Workers, NEW m \in Msgs, Receive(w, m) PROVE Same
  BY <1>2 DEF Receive
<1>3. Environment => Same \/ Spend("operator")
  BY DEF Environment, Crash, OperatorTransition, Halt, Suppress
<1>4. UNCHANGED vars => Same
  BY DEF vars
<1> QED
  BY <1>1, <1>2, <1>3, <1>4 DEF Next

\* Who deletes a message: an invocation that is done with it.
LEMMA DeletedByAck ==
    ASSUME TypeOK, [Next]_vars, NEW m \in Msgs, mq'[m].st = "deleted"
    PROVE  mq[m].st = "deleted" \/ \E w \in Workers : pc[w] = "ack" /\ job[w] = m
<1> USE DEF TypeOK, queueVars
<1>1. CASE UNCHANGED mq
  BY <1>1
<1>2. ASSUME NEW w \in Workers, Return(job[w]) PROVE mq[m].st = "deleted"
  BY <1>2 DEF Return
<1>3. ASSUME NEW w \in Workers, NEW n \in Msgs, Receive(w, n) PROVE mq[m].st = "deleted"
  BY <1>3 DEF Receive
<1>4. ASSUME NEW w \in Workers, Ack(w)
      PROVE  mq[m].st = "deleted" \/ (pc[w] = "ack" /\ job[w] = m)
  BY <1>4 DEF Ack
<1>5. ASSUME NEW w \in Workers, WorkerStep(w)
      PROVE  UNCHANGED mq \/ Return(job[w]) \/ Ack(w)
  <2>1. Gate(w) \/ ListRecipients(w) \/ StopForHalt(w) \/ ClaimRecipient(w) \/ SendAccepted(w)
           \/ SendRejected(w) \/ SendRepeated(w) => UNCHANGED mq
    BY DEF Gate, ListRecipients, StopForHalt, ClaimRecipient, SendAccepted, SendRejected,
           SendRepeated
  <2>2. SendFailed(w) \/ SendReplyLost(w) \/ BreakerAbort(w) \/ AwaitRecordedDelivery(w)
           => Return(job[w])
    BY DEF SendFailed, SendReplyLost, ReleaseAndThrow, FailDelivery, BreakerAbort,
           AwaitRecordedDelivery
  <2>3. \A r \in Recipients : SkipRecipient(w, r) \/ SelectRecipient(w, r) \/ FlushReject(w, r)
           \/ BreakerRelease(w, r) => UNCHANGED mq
    BY DEF SkipRecipient, SelectRecipient, FlushReject, BreakerRelease
  <2>4. RecordSent(w) \/ LoopDone(w) \/ NoCompletion(w) \/ MayComplete(w) \/ AllSettled(w)
           \/ CompleteRange(w) => UNCHANGED mq
    BY DEF RecordSent, LoopDone, NoCompletion, MayComplete, AllSettled, CompleteRange
  <2> QED
    BY <1>5, <2>1, <2>2, <2>3, <2>4 DEF WorkerStep
<1>6. ASSUME Environment PROVE UNCHANGED mq \/ \E w \in Workers : Return(job[w])
  BY <1>6 DEF Environment, Crash, FailDelivery, OperatorTransition, Halt, Suppress
<1>7. UNCHANGED vars => UNCHANGED mq
  BY DEF vars
<1> HIDE DEF TypeOK
<1> QED
  BY <1>1, <1>2, <1>3, <1>4, <1>5, <1>6, <1>7 DEF Next

\* Nor does an interrupted send become an uninterrupted one.
LEMMA UninterruptedBefore ==
    ASSUME TypeOK, WithinBudget, [Next]_vars, Uninterrupted'
    PROVE  Uninterrupted /\ ~Spend("operator")
<1>1. Used("operator") = 0 /\ ~Spend("operator")
  <2>1. "operator" \in Disturbances
    BY DEF Disturbances
  <2> QED
    BY <2>1, UsedGrows DEF Uninterrupted
<1>2. ~halted
  <2>1. ASSUME NEW w \in Workers, WorkerStep(w) PROVE halted' = halted
    BY <2>1, WorkerKeepsEnv DEF envVars
  <2>2. ASSUME NEW w \in Workers, NEW m \in Msgs, Receive(w, m) PROVE halted' = halted
    BY <2>2 DEF Receive, envVars
  <2>3. Environment => halted' = halted \/ ~halted
    BY DEF Environment, Crash, OperatorTransition, Halt, Suppress, envVars
  <2> QED
    BY <2>1, <2>2, <2>3 DEF Next, vars, Uninterrupted
<1> QED
  BY <1>1, <1>2 DEF Uninterrupted

\* An invocation keeps its message until it is over.
LEMMA WorkerKeepsJob ==
    ASSUME TypeOK, NEW w \in Workers, WorkerStep(w), pc'[w] # "idle"
    PROVE  job'[w] = job[w]
<1> USE DEF queueVars
<1>1. Forget(w) => pc'[w] = "idle"
  BY DEF Forget, Goto, TypeOK
<1>2. Gate(w) \/ ListRecipients(w) \/ StopForHalt(w) \/ ClaimRecipient(w) \/ SendAccepted(w)
         \/ SendRejected(w) \/ SendRepeated(w) => UNCHANGED job
  BY DEF Gate, ListRecipients, StopForHalt, ClaimRecipient, SendAccepted, SendRejected, SendRepeated
<1>3. SendFailed(w) \/ SendReplyLost(w) \/ BreakerAbort(w) \/ AwaitRecordedDelivery(w) \/ Ack(w)
         => Forget(w)
  BY DEF SendFailed, SendReplyLost, ReleaseAndThrow, FailDelivery, BreakerAbort,
         AwaitRecordedDelivery, Ack
<1>4. \A r \in Recipients : SkipRecipient(w, r) \/ SelectRecipient(w, r) \/ FlushReject(w, r)
         \/ BreakerRelease(w, r) => UNCHANGED job
  BY DEF SkipRecipient, SelectRecipient, FlushReject, BreakerRelease
<1>5. RecordSent(w) \/ LoopDone(w) \/ NoCompletion(w) \/ MayComplete(w) \/ AllSettled(w)
         \/ CompleteRange(w) => UNCHANGED job
  BY DEF RecordSent, LoopDone, NoCompletion, MayComplete, AllSettled, CompleteRange
<1> QED
  BY <1>1, <1>2, <1>3, <1>4, <1>5 DEF WorkerStep

LEMMA NextDeletedIsExhausted ==
    ASSUME OneFanOut, TypeOK, WithinBudget, Ownership, EmptyHanded, OneDelivery, OwnWindow,
           AllPassed, LoopAccounts, CompletedOwesNobody, DeletedIsExhausted, [Next]_vars
    PROVE  DeletedIsExhausted'
<1> SUFFICES ASSUME Uninterrupted'
             PROVE  /\ sched' = "active" \/ (sched' = "completed" /\ Covered(completed'))
                    /\ \A m \in Msgs : mq'[m].st = "deleted" => Exhausted(m)'
                    /\ \A w \in Workers, m \in Msgs :
                          pc'[w] = "ack" /\ job'[w] = m => Exhausted(m)'
  BY DEF DeletedIsExhausted
<1>1. Uninterrupted /\ ~Spend("operator")
  BY UninterruptedBefore
<1>2. /\ sched = "active" \/ (sched = "completed" /\ Covered(completed))
      /\ \A m \in Msgs : mq[m].st = "deleted" => Exhausted(m)
      /\ \A w \in Workers, m \in Msgs : pc[w] = "ack" /\ job[w] = m => Exhausted(m)
  BY <1>1 DEF DeletedIsExhausted
<1>3. \A m \in Msgs : Exhausted(m) => Exhausted(m)'
  BY ExhaustedStays
<1>4. sched' = "active" \/ (sched' = "completed" /\ Covered(completed'))
  <2>1. ASSUME NEW w \in Workers, CompleteRange(w)
        PROVE  sched' = "active" \/ (sched' = "completed" /\ Covered(completed'))
    BY <1>2, <2>1 DEF CompleteRange
  <2> QED
    BY <1>1, <1>2, <2>1, RecordSteps
<1>5. \A m \in Msgs : mq'[m].st = "deleted" => Exhausted(m)'
  BY <1>2, <1>3, DeletedByAck
<1>6. ASSUME NEW w \in Workers, NEW m \in Msgs, pc'[w] = "ack", job'[w] = m
      PROVE  Exhausted(m)'
  <2>1. CASE pc[w] = "ack" /\ job[w] = job'[w]
    BY <1>2, <1>3, <1>6, <2>1
  <2>2. ASSUME WorkerStep(w) PROVE Exhausted(m)'
    <3>1. job[w] = m
      <4>1. pc'[w] # "idle"
        BY <1>6
      <4> QED
        BY <1>6, <2>2, <4>1, WorkerKeepsJob
    <3> QED
      BY <1>1, <1>3, <1>6, <2>2, <3>1, AckIsExhausted
  <2>3. ASSUME NEW v \in Workers, v # w, WorkerStep(v) PROVE Exhausted(m)'
    BY <1>6, <2>1, <2>3, WorkerElsewhere DEF Elsewhere
  <2>4. ASSUME NEW v \in Workers, NEW n \in Msgs, Receive(v, n) PROVE Exhausted(m)'
    BY <1>6, <2>1, <2>4 DEF Receive, Goto, TypeOK
  <2>5. CASE Environment
    <3>1. ASSUME NEW v \in Workers, Forget(v) PROVE pc[w] = "ack" /\ job[w] = job'[w]
      BY <1>6, <3>1 DEF Forget, Goto, TypeOK
    <3> QED
      BY <1>6, <2>1, <2>5, <3>1
      DEF Environment, Crash, FailDelivery, OperatorTransition, Halt, Suppress, queueVars
  <2>6. CASE UNCHANGED vars
    BY <1>6, <2>1, <2>6 DEF vars
  <2> QED
    BY <1>6, <2>2, <2>3, <2>4, <2>5, <2>6 DEF Next
<1> QED
  BY <1>4, <1>5, <1>6

LEMMA NextRemainderInv ==
    ASSUME OneFanOut, TypeOK, Ownership, ClaimsInv, LoopAccounts, CompletedOwesNobody,
           RemainderInv, [Next]_vars
    PROVE  RemainderInv'
<1>1. WithinBudget /\ EmptyHanded /\ OwnWindow
  BY DEF ClaimsInv, RemainderInv
<1>2. OwnWindow'
  BY <1>1, NextOwnWindow
<1>3. ASSUME NoDuplicate' PROVE (OneDelivery /\ AllPassed /\ AllCounted /\ DeletedIsExhausted)'
  <2>1. NoDuplicate /\ ~Spend("duplicate")
    BY <1>1, <1>3, NoDuplicateBefore
  <2>2. OneDelivery /\ AllPassed /\ AllCounted /\ DeletedIsExhausted
    BY <2>1 DEF RemainderInv
  <2> QED
    BY <1>1, <2>1, <2>2, NextOneDelivery, NextAllPassed, NextAllCounted, NextDeletedIsExhausted
<1> QED
  BY <1>2, <1>3 DEF RemainderInv

LEMMA RemainderInvHolds == OneFanOut => (Spec => []RemainderInv)
<1> SUFFICES ASSUME OneFanOut PROVE Spec => []RemainderInv
  OBVIOUS
<1>1. Init => RemainderInv
  <2> SUFFICES ASSUME Init PROVE RemainderInv
    OBVIOUS
  <2>1. Interruptions = 0
    <3>1. left = Budget /\ Budget \in [Disturbances -> Nat]
      BY SendAssumption DEF Init
    <3> QED
      BY <3>1 DEF Interruptions, Used, Disturbances
  <2>2. OneDelivery /\ OwnWindow /\ AllPassed
    BY DEF Init, OneDelivery, OwnWindow, InWindow, AllPassed, Passed
  <2>3. AllCounted
    BY <2>1 DEF Init, AllCounted, Counted
  <2>4. DeletedIsExhausted
    BY DEF Init, DeletedIsExhausted
  <2> QED
    BY <2>2, <2>3, <2>4 DEF RemainderInv
<1>2. TypeOK /\ Ownership /\ ClaimsInv /\ LoopAccounts /\ CompletedOwesNobody /\ RemainderInv
         /\ [Next]_vars => RemainderInv'
  BY NextRemainderInv
<1> QED
  BY <1>1, <1>2, TypeCorrect, OwnershipHolds, ClaimsInvHolds, AccountsHold, CompletionIsHonest,
     PTL DEF Spec

\* For the windows of one fan-out: after any kills, failed calls and tripped breakers,
\* fewer than the queue repeats a message, the retries have reached everybody: whoever
\* can be mailed and has no outcome was stranded in the claim of an interrupted
\* invocation (StrandedWithinBound says how many).
THEOREM RetriesDeliverRemainder == OneFanOut => (Spec => []RetryDeliversRemainder)
<1> SUFFICES ASSUME OneFanOut PROVE Spec => []RetryDeliversRemainder
  OBVIOUS
<1>1. TypeOK /\ ClaimsInv /\ RemainderInv => RetryDeliversRemainder
  <2> SUFFICES ASSUME TypeOK, ClaimsInv, RemainderInv, RetriesOver,
                      NEW r \in Recipients, MayMail(r)
               PROVE  Settled(r) \/ Stranded(r)
    BY DEF RetryDeliversRemainder
  <2>1. PICK m \in Msgs : r \in WindowOf[m]
    BY DEF OneFanOut, Covered
  <2>2. Uninterrupted /\ AllCounted /\ DeletedIsExhausted
    BY DEF RetriesOver, RemainderInv, NoDuplicate, Uninterrupted
  <2>3. Exhausted(m)
    <3>1. CASE mq[m].st = "deleted"
      BY <2>2, <3>1 DEF DeletedIsExhausted
    <3>2. CASE mq[m].st = "dead"
      <4>1. Interruptions < MaxReceives /\ MaxReceives \in Nat /\ mq[m].receives \in Nat
        BY SendAssumption DEF RetriesOver, TypeOK
      <4>2. Interruptions \in Nat
        <5>1. left \in [Disturbances -> Nat] /\ Budget \in [Disturbances -> Nat]
          BY SendAssumption DEF TypeOK
        <5>2. \A d \in Disturbances : left[d] <= Budget[d]
          BY DEF ClaimsInv, WithinBudget
        <5> QED
          BY <5>1, <5>2 DEF Interruptions, Used, Disturbances
      <4>3. ~Counted(m)
        BY <3>2, <4>1, <4>2 DEF Counted
      <4> QED
        BY <2>2, <4>3 DEF AllCounted
    <3> QED
      BY <3>1, <3>2 DEF RetriesOver, Drained
  <2> QED
    BY <2>1, <2>3 DEF Exhausted, Stranded
<1> QED
  BY <1>1, RemainderInvHolds, TypeCorrect, ClaimsInvHolds, PTL

-----------------------------------------------------------------------------
(* What an interruption can cost: the claims in one invocation's hands.    *)

StrandedSet == {r \in Recipients : Stranded(r)}

Cost == RejectLimit * Used("crash")
        + (RejectLimit - 1) * (Used("failure") + Used("lostReply"))

\* An invocation buffers fewer rejections than trip the breaker, but at the breaker.
FewHeldBack ==
    \A w \in Workers :
        /\ IsFiniteSet(heldBack[w])
        /\ Cardinality(heldBack[w]) <= RejectLimit
        /\ pc[w] # "breaker" => Cardinality(heldBack[w]) <= RejectLimit - 1

StrandedInv == /\ FewHeldBack
               /\ IsFiniteSet(StrandedSet) /\ Cardinality(StrandedSet) <= Cost

LEMMA NextFewHeldBack ==
    ASSUME TypeOK, FewHeldBack, [Next]_vars
    PROVE  FewHeldBack'
<1> DEFINE Few(v) == /\ IsFiniteSet(heldBack[v])
                     /\ Cardinality(heldBack[v]) <= RejectLimit
                     /\ pc[v] # "breaker" => Cardinality(heldBack[v]) <= RejectLimit - 1
<1>1. RejectLimit \in Nat /\ RejectLimit >= 1
  BY SendAssumption
<1>2. \A v \in Workers : Few(v)
  BY DEF FewHeldBack
<1>3. ASSUME NEW v \in Workers, heldBack'[v] \subseteq heldBack[v], pc[v] = "breaker" => pc'[v] = "breaker"
      PROVE  Few(v)'
  <2>1. IsFiniteSet(heldBack[v]) /\ Cardinality(heldBack[v]) \in Nat
    BY <1>2, FS_CardinalityType
  <2>2. IsFiniteSet(heldBack'[v]) /\ Cardinality(heldBack'[v]) <= Cardinality(heldBack[v])
        /\ Cardinality(heldBack'[v]) \in Nat
    BY <1>3, <2>1, FS_Subset, FS_CardinalityType
  <2> QED
    BY <1>1, <1>2, <1>3, <2>1, <2>2
<1>4. ASSUME NEW v \in Workers, heldBack'[v] = {} PROVE Few(v)'
  BY <1>1, <1>4, FS_EmptySet
<1>5. ASSUME NEW w \in Workers, SendRejected(w) PROVE Few(w)'
  <2>1. /\ heldBack'[w] = heldBack[w] \cup {cur[w]} /\ pc[w] = "send"
        /\ pc'[w] = IF Cardinality(heldBack[w]) + 1 >= RejectLimit THEN "breaker" ELSE "loop"
    BY <1>5 DEF SendRejected, Goto, TypeOK
  <2> DEFINE n == Cardinality(heldBack[w])
  <2>2. IsFiniteSet(heldBack[w]) /\ n \in Nat /\ n <= RejectLimit - 1
    BY <1>2, <2>1, FS_CardinalityType
  <2>3. IsFiniteSet(heldBack'[w]) /\ Cardinality(heldBack'[w]) \in {n, n + 1}
    <3> DEFINE T == heldBack[w] \cup {cur[w]}
    <3>1. IsFiniteSet(T) /\ (Cardinality(T) = n \/ Cardinality(T) = n + 1)
      BY <2>2, FS_AddElement
    <3> QED
      BY <2>1, <3>1
  <2> HIDE DEF n
  <2>4. Cardinality(heldBack'[w]) <= RejectLimit
    BY <1>1, <2>2, <2>3
  <2>5. pc'[w] # "breaker" => Cardinality(heldBack'[w]) <= RejectLimit - 1
    BY <1>1, <2>1, <2>2, <2>3 DEF n
  <2> QED
    BY <2>3, <2>4, <2>5
<1> USE DEF Goto, TypeOK, loopVars
<1>6. ASSUME NEW w \in Workers, Forget(w), NEW v \in Workers PROVE Few(v)'
  <2>1. v # w => heldBack'[v] = heldBack[v] /\ pc'[v] = pc[v]
    BY <1>6, ForgetHolds
  <2>2. v = w => heldBack'[v] = {}
    BY <1>6, ForgetHolds
  <2> HIDE DEF Few
  <2> QED
    BY <1>3, <1>4, <2>1, <2>2
<1>7. ASSUME NEW w \in Workers, WorkerStep(w) PROVE Few(w)'
  <2>1. ASSUME heldBack'[w] \subseteq heldBack[w], pc[w] # "breaker" PROVE Few(w)'
    BY <1>3, <2>1
  <2>2. ASSUME NEW r \in Recipients, SkipRecipient(w, r) \/ SelectRecipient(w, r)
                  \/ FlushReject(w, r) \/ BreakerRelease(w, r)
        PROVE  Few(w)'
    <3>1. heldBack'[w] \subseteq heldBack[w] /\ (pc[w] = "breaker" => pc'[w] = "breaker")
      BY <2>2 DEF SkipRecipient, SelectRecipient, Reach, FlushReject, BreakerRelease
    <3> HIDE DEF Few, TypeOK
    <3> QED
      BY <1>3, <3>1
  <2>3. CASE CutShort(w) \/ Ack(w)
    BY <1>6, <2>3, CutShortForgets DEF Ack
  <2>4. CASE Gate(w) \/ ListRecipients(w) \/ StopForHalt(w) \/ LoopDone(w) \/ NoCompletion(w)
             \/ MayComplete(w) \/ AllSettled(w) \/ CompleteRange(w) \/ ClaimRecipient(w)
             \/ SendAccepted(w) \/ SendRepeated(w) \/ RecordSent(w)
    <3>1. UNCHANGED heldBack /\ pc[w] # "breaker"
      BY <2>4 DEF Gate, ListRecipients, StopForHalt, LoopDone, NoCompletion, MayComplete,
             AllSettled, CompleteRange, ClaimRecipient, SendAccepted, SendRepeated, Accept, RecordSent
    <3> HIDE DEF Few, TypeOK
    <3> QED
      BY <2>1, <3>1
  <2> QED
    BY <1>5, <1>7, <2>2, <2>3, <2>4 DEF WorkerStep, CutShort
<1>8. ASSUME NEW v \in Workers, heldBack'[v] = heldBack[v], pc'[v] = pc[v] PROVE Few(v)'
  BY <1>3, <1>8
<1>9. ASSUME NEW w \in Workers, NEW m \in Msgs, Receive(w, m), NEW v \in Workers PROVE Few(v)'
  <2>1. heldBack'[v] = heldBack[v] /\ (pc[v] = "breaker" => pc'[v] = "breaker")
    BY <1>9 DEF Receive
  <2> HIDE DEF Few, TypeOK
  <2> QED
    BY <1>3, <2>1
<1> HIDE DEF Few, TypeOK
<1>10. ASSUME NEW w \in Workers, WorkerStep(w), NEW v \in Workers PROVE Few(v)'
  BY <1>7, <1>8, <1>10, WorkerElsewhere DEF Elsewhere
<1>11. ASSUME Environment, NEW v \in Workers PROVE Few(v)'
  BY <1>6, <1>8, <1>11, CutShortForgets DEF Environment, OperatorTransition, Halt, Suppress
<1>12. ASSUME UNCHANGED vars, NEW v \in Workers PROVE Few(v)'
  BY <1>8, <1>12 DEF vars
<1>13. \A v \in Workers : Few(v)'
  BY <1>9, <1>10, <1>11, <1>12 DEF Next
<1> QED
  BY <1>13 DEF Few, FewHeldBack

\* Only a failing call spends what failures and lost replies have.
LEMMA OnlyFailuresSpend ==
    ASSUME TypeOK, NEW w \in Workers, WorkerStep(w), ~SendFailed(w), ~SendReplyLost(w),
           ~SendRepeated(w)
    PROVE  ~Spend("failure") /\ ~Spend("lostReply")
<1> DEFINE Kept == left'["failure"] = left["failure"] /\ left'["lostReply"] = left["lostReply"]
<1> SUFFICES Kept
  BY DEF Spend, TypeOK, Disturbances
<1>1. UNCHANGED left => Kept
  OBVIOUS
<1>2. SendRejected(w) => Kept
  BY DEF SendRejected, Spend, TypeOK
<1> HIDE DEF Kept
<1>3. Gate(w) \/ ListRecipients(w) \/ StopForHalt(w) \/ ClaimRecipient(w) \/ SendAccepted(w)
         => UNCHANGED left
  BY DEF Gate, ListRecipients, StopForHalt, ClaimRecipient, SendAccepted
<1>4. \A r \in Recipients : SkipRecipient(w, r) \/ SelectRecipient(w, r) \/ FlushReject(w, r)
         \/ BreakerRelease(w, r) => UNCHANGED left
  BY DEF SkipRecipient, SelectRecipient, FlushReject, BreakerRelease
<1>5. RecordSent(w) \/ BreakerAbort(w) \/ LoopDone(w) \/ NoCompletion(w) \/ MayComplete(w)
         \/ AwaitRecordedDelivery(w) \/ AllSettled(w) \/ CompleteRange(w) \/ Ack(w)
         => UNCHANGED left
  BY DEF RecordSent, BreakerAbort, LoopDone, NoCompletion, MayComplete,
         AwaitRecordedDelivery, AllSettled, CompleteRange, Ack
<1> QED
  BY <1>1, <1>2, <1>3, <1>4, <1>5 DEF WorkerStep

\* Whom a step strands: nobody, the rejections that a failing invocation
\* buffered, or all that a killed one had in its hands.
LEMMA NextStranded ==
    ASSUME TypeOK, EmptyHanded, [Next]_vars
    PROVE  \/ StrandedSet' \subseteq StrandedSet
           \/ \E w \in Workers : /\ Spend("failure") \/ Spend("lostReply")
                                 /\ pc[w] = "send"
                                 /\ StrandedSet' \subseteq StrandedSet \cup heldBack[w]
           \/ \E w \in Workers :
                 /\ Spend("crash")
                 /\ \/ StrandedSet' \subseteq StrandedSet \cup heldBack[w]
                    \/ /\ pc[w] # "breaker"
                       /\ StrandedSet' \subseteq StrandedSet \cup heldBack[w] \cup {cur[w]}
<1>1. TypeOK' /\ Monotone
  BY NextTypeOK, StepMonotone
<1>2. \A r \in Recipients : /\ r \notin StrandedSet => Claimed(r)
                            /\ Claimed(r)' => r \notin StrandedSet'
  BY DEF StrandedSet, Stranded, Claimed
<1>3. StrandedSet \subseteq Recipients /\ StrandedSet' \subseteq Recipients
  BY DEF StrandedSet
<1>4. ASSUME NEW w \in Workers, SendFailed(w) \/ SendReplyLost(w)
      PROVE  /\ Spend("failure") \/ Spend("lostReply")
             /\ pc[w] = "send"
             /\ StrandedSet' \subseteq StrandedSet \cup heldBack[w]
  <2>1. /\ Spend("failure") \/ Spend("lostReply")
        /\ pc[w] = "send"
    BY <1>4 DEF SendFailed, SendReplyLost, Accept
  <2>2. WorkerStep(w)
    BY <1>4 DEF WorkerStep
  <2>3. \A r \in Recipients : r \notin heldBack[w] /\ Claimed(r) => Claimed(r)'
    BY <1>1, <2>2, WorkerClaimed
  <2> QED
    BY <1>2, <1>3, <2>1, <2>3
<1>5. ASSUME NEW w \in Workers, Crash(w)
      PROVE  /\ Spend("crash")
             /\ \/ StrandedSet' \subseteq StrandedSet \cup heldBack[w]
                \/ /\ pc[w] # "breaker"
                   /\ StrandedSet' \subseteq StrandedSet \cup heldBack[w] \cup {cur[w]}
  <2>1. Spend("crash") /\ Forget(w) /\ UNCHANGED claims
    BY <1>5 DEF Crash, FailDelivery, storeVars
  <2>2. ASSUME NEW r \in Recipients, Claimed(r), ~Holds(w, r) PROVE Claimed(r)'
    <3>1. \A v \in Workers : Holds(v, r) => Holds(v, r)'
      BY <2>1, <2>2, ForgetHolds DEF Holds
    <3> QED
      BY <1>1, <2>1, <2>2, <3>1, ClaimedKept
  <2>3. StrandedSet' \subseteq StrandedSet \cup {r \in Recipients : Holds(w, r)}
    BY <1>2, <1>3, <2>2
  <2> QED
    BY <2>1, <2>3 DEF Holds
<1>6. ASSUME \A r \in Recipients : Claimed(r) => Claimed(r)' PROVE StrandedSet' \subseteq StrandedSet
  BY <1>2, <1>3, <1>6
<1>7. ASSUME NEW w \in Workers, WorkerStep(w), ~SendFailed(w), ~SendReplyLost(w)
      PROVE  StrandedSet' \subseteq StrandedSet
  <2>1. ~SendRepeated(w) => ~Spend("failure") /\ ~Spend("lostReply")
    BY <1>7, OnlyFailuresSpend
  <2>2. ASSUME SendRepeated(w) PROVE \A r \in Recipients : Claimed(r) => Claimed(r)'
    BY <1>1, <2>2, ClaimedKept DEF SendRepeated, Holds, storeVars, loopVars
  <2>3. ASSUME ~SendRepeated(w) PROVE \A r \in Recipients : Claimed(r) => Claimed(r)'
    BY <1>1, <1>7, <2>1, <2>3, WorkerClaimed
  <2> QED
    BY <1>6, <2>2, <2>3
<1>8. ASSUME UNCHANGED <<claims, pc, cur, heldBack>> PROVE StrandedSet' \subseteq StrandedSet
  <2>1. \A r \in Recipients : Claimed(r) => Claimed(r)'
    BY <1>1, <1>8, ClaimedKept DEF Holds
  <2> QED
    BY <1>6, <2>1
<1>9. ASSUME NEW w \in Workers, NEW m \in Msgs, Receive(w, m) PROVE StrandedSet' \subseteq StrandedSet
  <2>1. /\ UNCHANGED <<claims, cur, heldBack>> /\ pc[w] = "idle"
        /\ \A v \in Workers \ {w} : pc'[v] = pc[v]
    BY <1>9 DEF Receive, Goto, TypeOK, loopVars, storeVars
  <2>2. \A r \in Recipients : Claimed(r) => Claimed(r)'
    BY <1>1, <2>1, ClaimedKept DEF Holds
  <2> QED
    BY <1>6, <2>2
<1>10. Environment => StrandedSet' \subseteq StrandedSet \/ \E w \in Workers : Crash(w)
  BY <1>8 DEF Environment, OperatorTransition, Halt, Suppress, loopVars, storeVars
<1>11. UNCHANGED vars => StrandedSet' \subseteq StrandedSet
  BY <1>8 DEF vars
<1> QED
  BY <1>4, <1>5, <1>7, <1>9, <1>10, <1>11 DEF Next

LEMMA TimesGrows ==
    \A a, x, y \in Nat : /\ a * x \in Nat /\ (x <= y => a * x <= a * y)
                         /\ a * (x + 1) = a * x + a
OBVIOUS

\* What the disturbances of a step add to the cost.
LEMMA CostGrows ==
    ASSUME TypeOK, WithinBudget, [Next]_vars
    PROVE  /\ Cost \in Nat /\ Cost' \in Nat /\ Cost <= Cost'
           /\ Spend("crash") => Cost' = Cost + RejectLimit
           /\ Spend("failure") \/ Spend("lostReply") => Cost' = Cost + (RejectLimit - 1)
<1> DEFINE c == Used("crash")  c2 == Used("crash")'
           f == Used("failure") + Used("lostReply")  f2 == (Used("failure") + Used("lostReply"))'
<1>1. RejectLimit \in Nat /\ RejectLimit - 1 \in Nat
  BY SendAssumption
<1>2. {"crash", "failure", "lostReply"} \subseteq Disturbances
  BY DEF Disturbances
<1>3. /\ c \in Nat /\ c2 \in Nat /\ c <= c2 /\ f \in Nat /\ f2 \in Nat /\ f <= f2
      /\ Spend("crash") => c2 = c + 1 /\ f2 = f
      /\ Spend("failure") \/ Spend("lostReply") => c2 = c /\ f2 = f + 1
  BY <1>2, UsedGrows
<1>4. Cost = RejectLimit * c + (RejectLimit - 1) * f
      /\ Cost' = RejectLimit * c2 + (RejectLimit - 1) * f2
  BY DEF Cost
<1> HIDE DEF c, c2, f, f2
<1>5. \A a, x, y \in Nat : /\ a * x \in Nat /\ (x <= y => a * x <= a * y)
                           /\ a * (x + 1) = a * x + a
  BY TimesGrows
<1>6. Cost \in Nat /\ Cost' \in Nat /\ Cost <= Cost'
  <2>1. /\ RejectLimit * c \in Nat /\ RejectLimit * c2 \in Nat
        /\ (RejectLimit - 1) * f \in Nat /\ (RejectLimit - 1) * f2 \in Nat
        /\ RejectLimit * c <= RejectLimit * c2 /\ (RejectLimit - 1) * f <= (RejectLimit - 1) * f2
    BY <1>1, <1>3, <1>5
  <2> QED
    BY <1>4, <2>1
<1>7. ASSUME Spend("crash") PROVE Cost' = Cost + RejectLimit
  <2>1. /\ RejectLimit * c \in Nat /\ (RejectLimit - 1) * f \in Nat
        /\ RejectLimit * c2 = RejectLimit * c + RejectLimit /\ f2 = f
    BY <1>1, <1>3, <1>5, <1>7
  <2> QED
    BY <1>1, <1>4, <2>1
<1>8. ASSUME Spend("failure") \/ Spend("lostReply") PROVE Cost' = Cost + (RejectLimit - 1)
  <2>1. /\ RejectLimit * c \in Nat /\ (RejectLimit - 1) * f \in Nat
        /\ (RejectLimit - 1) * f2 = (RejectLimit - 1) * f + (RejectLimit - 1) /\ c2 = c
    BY <1>1, <1>3, <1>5, <1>8
  <2> QED
    BY <1>1, <1>4, <2>1
<1> QED
  BY <1>6, <1>7, <1>8

\* A set that grows by another has at most as many elements as both.
LEMMA GrownBy ==
    ASSUME NEW S, NEW T, NEW S2, IsFiniteSet(S), IsFiniteSet(T), S2 \subseteq S \cup T
    PROVE  IsFiniteSet(S2) /\ Cardinality(S2) <= Cardinality(S) + Cardinality(T)
<1>1. /\ IsFiniteSet(S \cup T)
      /\ Cardinality(S \cup T) = Cardinality(S) + Cardinality(T) - Cardinality(S \cap T)
  BY FS_Union
<1>2. IsFiniteSet(S \cap T)
  BY FS_Subset
<1>3. S2 \in SUBSET (S \cup T)
  OBVIOUS
<1>4. IsFiniteSet(S2) /\ Cardinality(S2) <= Cardinality(S \cup T)
  BY <1>1, <1>3, FS_Subset
<1>5. /\ Cardinality(S) \in Nat /\ Cardinality(T) \in Nat /\ Cardinality(S \cap T) \in Nat
      /\ Cardinality(S2) \in Nat
  BY <1>2, <1>4, FS_CardinalityType
<1> QED
  BY <1>1, <1>4, <1>5

LEMMA NextStrandedInv ==
    ASSUME TypeOK, WithinBudget, EmptyHanded, StrandedInv, [Next]_vars
    PROVE  StrandedInv'
<1> DEFINE S == StrandedSet  S2 == StrandedSet'
<1>1. FewHeldBack' /\ FewHeldBack
  BY NextFewHeldBack DEF StrandedInv
<1>2. IsFiniteSet(S) /\ Cardinality(S) <= Cost /\ Cardinality(S) \in Nat
  BY FS_CardinalityType DEF StrandedInv
<1>3. RejectLimit \in Nat /\ RejectLimit >= 1
  BY SendAssumption
<1>4. /\ Cost \in Nat /\ Cost' \in Nat /\ Cost <= Cost'
      /\ Spend("crash") => Cost' = Cost + RejectLimit
      /\ Spend("failure") \/ Spend("lostReply") => Cost' = Cost + (RejectLimit - 1)
  BY CostGrows
<1>5. ASSUME S2 \subseteq S PROVE IsFiniteSet(S2) /\ Cardinality(S2) <= Cost'
  <2>1. IsFiniteSet(S2) /\ Cardinality(S2) <= Cardinality(S) /\ Cardinality(S2) \in Nat
    BY <1>2, <1>5, FS_Subset, FS_CardinalityType
  <2> QED
    BY <1>2, <1>4, <2>1
<1>6. ASSUME NEW T, NEW n \in Nat, IsFiniteSet(T), Cardinality(T) <= n, Cost' = Cost + n,
             S2 \subseteq S \cup T
      PROVE  IsFiniteSet(S2) /\ Cardinality(S2) <= Cost'
  <2>1. IsFiniteSet(S2) /\ Cardinality(S2) <= Cardinality(S) + Cardinality(T)
    BY <1>2, <1>6, GrownBy
  <2>2. Cardinality(S2) \in Nat /\ Cardinality(T) \in Nat
    BY <1>6, <2>1, FS_CardinalityType
  <2> QED
    BY <1>2, <1>4, <1>6, <2>1, <2>2
<1> HIDE DEF S, S2
<1>7. ASSUME NEW w \in Workers, Spend("failure") \/ Spend("lostReply"), pc[w] = "send",
             S2 \subseteq S \cup heldBack[w]
      PROVE  IsFiniteSet(S2) /\ Cardinality(S2) <= Cost'
  <2>1. IsFiniteSet(heldBack[w]) /\ Cardinality(heldBack[w]) <= RejectLimit - 1
    BY <1>1, <1>7 DEF FewHeldBack
  <2>2. RejectLimit - 1 \in Nat
    BY <1>3
  <2> QED
    BY <1>4, <1>6, <1>7, <2>1, <2>2
<1>8. ASSUME NEW w \in Workers, Spend("crash"), S2 \subseteq S \cup heldBack[w]
      PROVE  IsFiniteSet(S2) /\ Cardinality(S2) <= Cost'
  <2>1. IsFiniteSet(heldBack[w]) /\ Cardinality(heldBack[w]) <= RejectLimit
    BY <1>1 DEF FewHeldBack
  <2> QED
    BY <1>3, <1>4, <1>6, <1>8, <2>1
<1>9. ASSUME NEW w \in Workers, Spend("crash"), pc[w] # "breaker",
             S2 \subseteq S \cup heldBack[w] \cup {cur[w]}
      PROVE  IsFiniteSet(S2) /\ Cardinality(S2) <= Cost'
  <2>1. IsFiniteSet(heldBack[w]) /\ Cardinality(heldBack[w]) <= RejectLimit - 1
        /\ Cardinality(heldBack[w]) \in Nat
    BY <1>1, <1>9, FS_CardinalityType DEF FewHeldBack
  <2> DEFINE T == heldBack[w] \cup {cur[w]}
  <2>2. IsFiniteSet(T) /\ Cardinality(T) <= Cardinality(heldBack[w]) + 1 /\ Cardinality(T) \in Nat
    <3>1. /\ IsFiniteSet(T)
          /\ Cardinality(T) = Cardinality(heldBack[w])
             \/ Cardinality(T) = Cardinality(heldBack[w]) + 1
      BY <2>1, FS_AddElement
    <3>2. Cardinality(T) \in Nat
      BY <3>1, FS_CardinalityType
    <3> HIDE DEF T
    <3> QED
      BY <2>1, <3>1, <3>2
  <2>3. S2 \subseteq S \cup T
    BY <1>9
  <2> HIDE DEF T
  <2>4. Cardinality(T) <= RejectLimit
    BY <1>3, <2>1, <2>2
  <2> QED
    BY <1>3, <1>4, <1>6, <1>9, <2>2, <2>3, <2>4
<1>10. IsFiniteSet(S2) /\ Cardinality(S2) <= Cost'
  BY <1>5, <1>7, <1>8, <1>9, NextStranded DEF S, S2
<1> QED
  BY <1>1, <1>10 DEF StrandedInv, S2

\* Whatever is interrupted, redelivered or duplicated, and however windows overlap,
\* a killed invocation strands at most RejectLimit recipients and a failed call one
\* fewer; nothing else strands anybody.
THEOREM StrandedWithinBound == Spec => []StrandedBound
<1>1. Init => StrandedInv
  <2> SUFFICES ASSUME Init PROVE StrandedInv
    OBVIOUS
  <2>1. RejectLimit \in Nat /\ RejectLimit >= 1 /\ Budget \in [Disturbances -> Nat]
    BY SendAssumption
  <2>2. StrandedSet = {}
    BY DEF Init, StrandedSet, Stranded
  <2>3. Used("crash") = 0 /\ Used("failure") = 0 /\ Used("lostReply") = 0
    BY <2>1 DEF Init, Used, Disturbances
  <2>4. Cost = 0
    BY <2>1, <2>3 DEF Cost
  <2>5. FewHeldBack
    BY <2>1, FS_EmptySet DEF Init, FewHeldBack
  <2> QED
    BY <2>2, <2>4, <2>5, FS_EmptySet DEF StrandedInv
<1>2. TypeOK /\ ClaimsInv /\ StrandedInv /\ [Next]_vars => StrandedInv'
  BY NextStrandedInv DEF ClaimsInv
<1>3. StrandedInv => StrandedBound
  BY DEF StrandedInv, StrandedBound, StrandedSet, Cost
<1> QED
  BY <1>1, <1>2, <1>3, TypeCorrect, ClaimsInvHolds, PTL DEF Spec

-----------------------------------------------------------------------------
(* Nobody without an address that may be mailed is ever taken in hand.     *)

InHandIsReachable ==
    \A w \in Workers : pc[w] \in {"claim", "send", "record"} => cur[w] \notin Blocked

LEMMA NextReachable ==
    TypeOK /\ InHandIsReachable /\ [Next]_vars => InHandIsReachable'
<1> SUFFICES ASSUME TypeOK, InHandIsReachable, [Next]_vars PROVE InHandIsReachable'
  OBVIOUS
<1> USE DEF InHandIsReachable, TypeOK
<1>1. ASSUME \A v \in Workers : pc'[v] \in {"claim", "send", "record"} =>
                 pc[v] \in {"claim", "send", "record"} /\ cur'[v] = cur[v]
      PROVE  InHandIsReachable'
  BY <1>1
<1>2. ASSUME NEW w \in Workers, Forget(w) PROVE InHandIsReachable'
  BY <1>2, <1>1, ForgetHolds
<1> USE DEF Goto, queueVars, storeVars, envVars, loopVars, historyVars
<1>3. ASSUME NEW w \in Workers, NEW m \in Msgs, Receive(w, m) PROVE InHandIsReachable'
  BY <1>1, <1>3 DEF Receive
<1>4. ASSUME NEW w \in Workers, WorkerStep(w) PROVE InHandIsReachable'
  <2>1. ASSUME NEW r \in Recipients, SkipRecipient(w, r) PROVE InHandIsReachable'
    BY <1>1, <2>1 DEF SkipRecipient
  <2>2. ASSUME NEW r \in Recipients, SelectRecipient(w, r) PROVE InHandIsReachable'
    BY <2>2 DEF SelectRecipient, Reach, MayMail
  <2>3. CASE Gate(w) \/ ListRecipients(w) \/ StopForHalt(w)
    BY <1>1, <2>3 DEF Gate, ListRecipients, StopForHalt
  <2>4. CASE ClaimRecipient(w)
    BY <1>1, <2>4 DEF ClaimRecipient
  <2>5. CASE SendAccepted(w) \/ SendRejected(w) \/ SendRepeated(w)
    BY <1>1, <2>5 DEF SendAccepted, Accept, SendRejected, SendRepeated
  <2>6. CASE SendFailed(w) \/ SendReplyLost(w) \/ BreakerAbort(w) \/ AwaitRecordedDelivery(w)
             \/ Ack(w)
    BY <1>2, <2>6 DEF SendFailed, SendReplyLost, ReleaseAndThrow, FailDelivery,
                      BreakerAbort, AwaitRecordedDelivery, Ack
  <2>7. ASSUME NEW r \in Recipients, FlushReject(w, r) \/ BreakerRelease(w, r)
        PROVE  InHandIsReachable'
    BY <1>1, <2>7 DEF FlushReject, BreakerRelease
  <2>8. CASE RecordSent(w) \/ LoopDone(w) \/ NoCompletion(w) \/ MayComplete(w)
             \/ AllSettled(w) \/ CompleteRange(w)
    BY <1>1, <2>8 DEF RecordSent, LoopDone, NoCompletion, MayComplete, AllSettled,
                      CompleteRange
  <2> QED
    BY <1>4, <2>1, <2>2, <2>3, <2>4, <2>5, <2>6, <2>7, <2>8 DEF WorkerStep
<1>5. CASE Environment
  <2>1. ASSUME NEW w \in Workers, Crash(w) PROVE InHandIsReachable'
    BY <1>2, <2>1 DEF Crash, FailDelivery
  <2>2. ASSUME NEW s \in {"active", "paused", "archived"}, OperatorTransition(s)
        PROVE  InHandIsReachable'
    BY <1>1, <2>2 DEF OperatorTransition
  <2>3. CASE Halt
    BY <1>1, <2>3 DEF Halt
  <2>4. ASSUME NEW r \in Recipients, Suppress(r) PROVE InHandIsReachable'
    BY <1>1, <2>4 DEF Suppress
  <2> QED
    BY <1>5, <2>1, <2>2, <2>3, <2>4 DEF Environment
<1>6. CASE UNCHANGED vars
  BY <1>1, <1>6 DEF vars
<1> QED
  BY <1>3, <1>4, <1>5, <1>6 DEF Next

LEMMA ReachableHolds == Spec => []InHandIsReachable
<1>1. Init => InHandIsReachable
  BY DEF Init, InHandIsReachable
<1> QED
  BY <1>1, NextReachable, TypeCorrect, PTL DEF Spec

-----------------------------------------------------------------------------
(* The simulation.                                                         *)

\* The event log says nothing of r exactly if r is not settled.
LEMMA OutcomeOfSettled ==
    ASSUME TypeOK, NEW r \in Recipients
    PROVE  (Outcome(r) = "none") <=> ~Settled(r)
BY DEF TypeOK, Outcome, Settled

\* A step that leaves the ledger's part of the state alone.
LEMMA Stutter ==
    ASSUME UNCHANGED <<dispatched, lost, sentEvents, rejectEvents, suppressed, completed>>
    PROVE  UNCHANGED Ledger!lvars
BY DEF Ledger!lvars, Outcome

LEMMA DeliverStep ==
    ASSUME TypeOK, Ownership, InHandIsReachable, NEW w \in Workers,
           SendAccepted(w) \/ SendReplyLost(w) \/ SendRepeated(w)
    PROVE  Ledger!LNext
<1>1. /\ pc[w] = "send" /\ cur[w] \in Recipients /\ cur[w] \notin Blocked
      /\ dispatched' = [dispatched EXCEPT ![cur[w]] = @ + 1]
      /\ lost' = lost \/ lost' = [lost EXCEPT ![cur[w]] = @ + 1]
      /\ UNCHANGED <<sentEvents, rejectEvents, suppressed, completed>>
  BY DEF TypeOK, InHandIsReachable, SendAccepted, SendReplyLost, SendRepeated, ReleaseAndThrow,
         Accept, storeVars, envVars
<1> PICK r \in Recipients : r = cur[w]
  BY <1>1
<1>2. ~Settled(r) /\ dispatched[r] = lost[r]
  BY <1>1 DEF Ownership, Owned, Holds, Undispatched
<1>3. Ledger!Owed(r)
  BY <1>2, OutcomeOfSettled DEF Ledger!Owed
<1>4. UNCHANGED [q \in Recipients |-> Outcome(q)]
  BY <1>1 DEF Outcome
<1>5. Ledger!Deliver(r)
  BY <1>1, <1>3, <1>4 DEF Ledger!Deliver
<1> QED
  BY <1>5 DEF Ledger!LNext

LEMMA SettleStep ==
    ASSUME TypeOK, Ownership, NEW w \in Workers,
           RecordSent(w) \/ \E r \in Recipients : FlushReject(w, r)
    PROVE  Ledger!LNext
<1>1. PICK r \in Recipients :
         \/ /\ pc[w] = "record" /\ r = cur[w] /\ dispatched[r] = lost[r] + 1
            /\ sentEvents' = [sentEvents EXCEPT ![r] = @ + 1]
            /\ UNCHANGED rejectEvents
         \/ /\ r \in heldBack[w] /\ dispatched[r] = lost[r]
            /\ rejectEvents' = [rejectEvents EXCEPT ![r] = @ + 1]
            /\ UNCHANGED sentEvents
  BY DEF TypeOK, RecordSent, FlushReject, NextHeldBack, Ownership, Owned, Undispatched
<1>2. UNCHANGED <<dispatched, lost, suppressed, completed>>
  BY DEF RecordSent, FlushReject, envVars, historyVars
<1>3. ~Settled(r) /\ sentEvents[r] \in Nat /\ rejectEvents[r] \in Nat
  BY <1>1 DEF Ownership, Owned, Holds, TypeOK
<1>4. sentEvents[r] = 0 /\ rejectEvents[r] = 0
  BY <1>3 DEF Settled
<1>5. \A q \in Recipients : q # r => Outcome(q)' = Outcome(q)
  BY <1>1 DEF Outcome, TypeOK
<1> DEFINE o == IF rejectEvents' = rejectEvents THEN "sent" ELSE "rejected"
<1>6. Outcome(r)' = o
  BY <1>1, <1>4 DEF Outcome, TypeOK
<1>7. /\ o \in {"sent", "rejected"}
      /\ o = "sent" => dispatched[r] = lost[r] + 1
      /\ o = "rejected" => dispatched[r] = lost[r]
  BY <1>1, <1>4 DEF TypeOK
<1> HIDE DEF o
<1>8. [q \in Recipients |-> Outcome(q)]' = [[q \in Recipients |-> Outcome(q)] EXCEPT ![r] = o]
  BY <1>5, <1>6
<1>9. Outcome(r) = "none"
  BY <1>3, OutcomeOfSettled
<1>10. Ledger!Settle(r)
  BY <1>2, <1>7, <1>8, <1>9 DEF Ledger!Settle
<1> QED
  BY <1>10 DEF Ledger!LNext

LEMMA CloseStep ==
    ASSUME TypeOK, LoopAccounts, NEW w \in Workers, CompleteRange(w)
    PROVE  Ledger!LNext \/ UNCHANGED Ledger!lvars
<1>1. /\ pc[w] = "complete" /\ job[w] \in Msgs
      /\ UNCHANGED <<dispatched, lost, sentEvents, rejectEvents, suppressed>>
      /\ completed' = completed \/ completed' = completed \cup {job[w]}
  BY DEF TypeOK, CompleteRange, envVars, historyVars
<1>2. \A r \in WindowOf[job[w]] : r \in Recipients /\ (MayMail(r) => Settled(r))
  <2>1. WindowOf[job[w]] \subseteq Recipients
    BY <1>1, SendAssumption
  <2>2. Accounts(w)
    BY <1>1 DEF LoopAccounts
  <2>3. todo[w] = {} /\ heldBack[w] = {} /\ \A r \in foreign[w] : Settled(r)
    BY <1>1, <2>2 DEF Accounts
  <2> QED
    BY <1>1, <2>1, <2>2, <2>3 DEF Accounts, AccountedFor
<1>3. \A r \in WindowOf[job[w]] : r \in suppressed \cup Blocked \/ Outcome(r) # "none"
  BY <1>2, OutcomeOfSettled DEF MayMail
<1>4. UNCHANGED [q \in Recipients |-> Outcome(q)]
  BY <1>1 DEF Outcome
<1>5. CASE completed' = completed
  BY <1>1, <1>5, Stutter
<1>6. CASE completed' = completed \cup {job[w]}
  <2>1. \A r \in WindowOf[job[w]] :
           r \in suppressed \cup Blocked \/ [q \in Recipients |-> Outcome(q)][r] # "none"
    BY <1>2, <1>3
  <2>2. Ledger!Close(job[w])
    BY <1>1, <1>4, <1>6, <2>1 DEF Ledger!Close
  <2> QED
    BY <1>1, <2>2 DEF Ledger!LNext
<1> QED
  BY <1>1, <1>5, <1>6

LEMMA LedgerStep ==
    ASSUME TypeOK, Ownership, LoopAccounts, InHandIsReachable, [Next]_vars
    PROVE  [Ledger!LNext]_(Ledger!lvars)
<1> DEFINE Same == UNCHANGED <<dispatched, lost, sentEvents, rejectEvents, suppressed, completed>>
<1>1. Same => UNCHANGED Ledger!lvars
  BY Stutter
<1> USE DEF queueVars, storeVars, envVars, loopVars, historyVars
<1>2. ASSUME NEW w \in Workers, NEW m \in Msgs, Receive(w, m) PROVE Same
  BY <1>2 DEF Receive
<1>3. ASSUME NEW w \in Workers, WorkerStep(w) PROVE [Ledger!LNext]_(Ledger!lvars)
  <2>1. SendAccepted(w) \/ SendReplyLost(w) \/ SendRepeated(w) => Ledger!LNext
    BY DeliverStep
  <2>2. RecordSent(w) \/ (\E r \in Recipients : FlushReject(w, r)) => Ledger!LNext
    BY SettleStep
  <2>3. CompleteRange(w) => Ledger!LNext \/ UNCHANGED Ledger!lvars
    BY CloseStep
  <2>4. Gate(w) \/ ListRecipients(w) \/ StopForHalt(w) \/ ClaimRecipient(w) => Same
    BY DEF Gate, ListRecipients, StopForHalt, ClaimRecipient
  <2>5. (\E r \in Recipients : SkipRecipient(w, r) \/ SelectRecipient(w, r)) => Same
    BY DEF SkipRecipient, SelectRecipient
  <2>6. SendRejected(w) \/ SendFailed(w) => Same
    BY DEF SendRejected, SendFailed, ReleaseAndThrow
  <2>7. BreakerAbort(w) \/ (\E r \in Recipients : BreakerRelease(w, r)) => Same
    BY DEF BreakerAbort, BreakerRelease
  <2>8. LoopDone(w) \/ NoCompletion(w) \/ MayComplete(w) \/ AwaitRecordedDelivery(w)
           \/ AllSettled(w) \/ Ack(w) => Same
    BY DEF LoopDone, NoCompletion, MayComplete, AwaitRecordedDelivery, AllSettled, Ack
  <2> HIDE DEF Same
  <2> QED
    BY <1>1, <1>3, <2>1, <2>2, <2>3, <2>4, <2>5, <2>6, <2>7, <2>8 DEF WorkerStep
<1>4. CASE Environment
  <2>1. ASSUME NEW r \in Recipients, Suppress(r) PROVE Ledger!LNext
    <3>1. /\ suppressed' = suppressed \cup {r}
          /\ UNCHANGED <<dispatched, lost, completed>>
          /\ UNCHANGED [q \in Recipients |-> Outcome(q)]
      BY <2>1 DEF Suppress, Outcome
    <3>2. suppressed' \cup Blocked = (suppressed \cup Blocked) \cup {r}
      BY <3>1
    <3>3. Ledger!Exempt(r)
      BY <3>1, <3>2 DEF Ledger!Exempt
    <3> QED
      BY <3>3 DEF Ledger!LNext
  <2>2. (\E w \in Workers : Crash(w)) => Same
    BY DEF Crash
  <2>3. (\E s \in {"active", "paused", "archived"} : OperatorTransition(s)) => Same
    BY DEF OperatorTransition
  <2>4. Halt => Same
    BY DEF Halt
  <2> HIDE DEF Same
  <2> QED
    BY <1>1, <1>4, <2>1, <2>2, <2>3, <2>4 DEF Environment
<1>5. UNCHANGED vars => Same
  BY DEF vars
<1> HIDE DEF Same
<1> QED
  BY <1>1, <1>2, <1>3, <1>4, <1>5 DEF Next

\* Whatever the queue, the failures and the other invocations do, each step of
\* the send path is a step of the ledger: one message per owed recipient, one
\* outcome, and no window closed that owes anybody.
THEOREM ImplementsLedger == Spec => LedgerSpec
<1>1. Init => Ledger!LInit
  <2> SUFFICES ASSUME Init PROVE Ledger!LInit
    OBVIOUS
  <2>1. [q \in Recipients |-> Outcome(q)] = [r \in Recipients |-> "none"]
    BY DEF Init, Outcome
  <2> QED
    BY <2>1 DEF Init, Ledger!LInit
<1> QED
  BY <1>1, LedgerStep, TypeCorrect, OwnershipHolds, AccountsHold, ReachableHolds, PTL
  DEF Spec, LedgerSpec, Ledger!LSpec
=============================================================================
