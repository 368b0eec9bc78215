---------------------------- MODULE CampaignSend ----------------------------
(***************************************************************************)
(* The campaign send path: SQS deliveries of one campaign's windows, each  *)
(* handled by a sender invocation that runs sendCampaign                   *)
(* (packages/domain/src/send.ts) over the recipients of its window.        *)
(*                                                                         *)
(* Shared state: the queue, the campaign's lifecycle record, the halt flag,*)
(* the suppression list, the send claims and the event log.  An invocation *)
(* keeps only local state; it can be killed between any two store calls,   *)
(* after which SQS delivers the message again.  Several invocations may    *)
(* hold overlapping windows (a fan-out delivered twice) or even the same   *)
(* message (SQS is at-least-once).                                         *)
(*                                                                         *)
(* Recipients are natural numbers in the order of their ids; a window is   *)
(* the set of recipients of its key range (SendSchedule and CampaignFanOut *)
(* model the ranges themselves).                                           *)
(***************************************************************************)
EXTENDS Naturals, FiniteSets

CONSTANTS
    Recipients,      \* confirmed recipients of the campaign, as naturals in id order
    Blocked,         \* recipients with no profile, or off a dev org's allowlist
    Msgs,            \* SQS messages of this campaign
    WindowOf,        \* WindowOf[m]: the recipients of message m's window
    Workers,         \* concurrent sender invocations (SENDER_MAX_CONCURRENCY)
    MaxReceives,     \* the queue's maxReceiveCount
    RejectLimit,     \* MAX_CONSECUTIVE_REJECTS
    HaltCheckEvery,  \* HALT_CHECK_EVERY
    HasSchedule,     \* a one-off has a lifecycle record; a series edition has none
    Budget,          \* how often each disturbance below may happen
    NoMsg, NoOne     \* "no message" and "no recipient"

\* What the environment may do to a send; Budget bounds each of them.
Disturbances == {"crash", "failure", "lostReply", "reject", "duplicate",
                 "operator", "halt", "suppress"}

ASSUME SendAssumption ==
    /\ Recipients \subseteq Nat
    /\ Blocked \subseteq Recipients
    /\ WindowOf \in [Msgs -> SUBSET Recipients]
    /\ MaxReceives \in Nat \ {0}
    /\ RejectLimit \in Nat \ {0}
    /\ HaltCheckEvery \in Nat \ {0}
    /\ HasSchedule \in BOOLEAN
    /\ IsFiniteSet(Workers)
    /\ Budget \in [Disturbances -> Nat]
    /\ NoMsg \notin Msgs
    /\ NoOne \notin Recipients

VARIABLES
    mq,           \* mq[m]: where SQS holds message m, and how often it was received
    sched,        \* status of the campaign's SendScheduleState
    completed,    \* windows recorded in completedRanges
    halted,       \* campaign.status = "halted", or a halt marker
    suppressed,   \* recipients that mayMail refuses
    claims,       \* recipients with a send claim
    sentEvents,   \* sentEvents[r], rejectEvents[r]: events in the log
    rejectEvents,
    pc,           \* where each invocation stands in sendCampaign
    job,          \* the message it handles
    todo,         \* recipients its loop has not reached
    seen,         \* recipients its loop has reached
    cur,          \* the recipient it is busy with
    heldBack,     \* pendingRejects
    foreign,      \* claimedRecipients: claims it found taken
    dispatched,   \* history: messages SES accepted for each recipient
    lost,         \* history: of those, the ones whose reply never arrived
    sinceHalt,    \* history: messages SES accepted since the halt
    left          \* what is left of Budget

queueVars  == <<mq, job>>
storeVars  == <<sched, completed, claims, sentEvents, rejectEvents>>
envVars    == <<halted, suppressed>>
loopVars   == <<todo, seen, cur, heldBack, foreign>>
historyVars == <<dispatched, lost, sinceHalt>>
vars == <<mq, sched, completed, halted, suppressed, claims, sentEvents,
          rejectEvents, pc, job, todo, seen, cur, heldBack, foreign,
          dispatched, lost, sinceHalt, left>>

-----------------------------------------------------------------------------
(* Helpers.                                                                *)

\* The consumer of a budget: disturbance d happens once more.
Spend(d) == left[d] > 0 /\ left' = [left EXCEPT ![d] = @ - 1]

\* scheduleActive: a missing record counts as active.
ScheduleActive == ~HasSchedule \/ sched = "active"

\* Mutant of MayMail: the suppression list is not consulted in the loop.
MayMailUnchecked(r) == r \notin Blocked

\* mayMail, the profile lookup and the dev allowlist of the loop.
MayMail(r) == r \notin suppressed /\ r \notin Blocked

\* Mutant of Settled: only sent events count as an outcome.
SettledBySentOnly(r) == sentEvents[r] > 0

\* A recipient whose dispatch has a durable outcome: a sent or a reject event.
Settled(r) == sentEvents[r] + rejectEvents[r] > 0

\* The loop takes recipients in id order.
NextRecipient(w, r) == r \in todo[w] /\ \A s \in todo[w] : r <= s

\* The buffered rejections are committed, and released, in loop order.
NextHeldBack(w, r) == r \in heldBack[w] /\ \A s \in heldBack[w] : r <= s

\* Mutant of HaltCheckDue: the flag is only read before the loop.
HaltCheckNever(w) == FALSE

\* The mid-loop re-read of the halt flag is due.
HaltCheckDue(w) == seen[w] > 0 /\ seen[w] % HaltCheckEvery = 0

\* Only full coverage completes a one-off.
Covered(windows) == UNION {WindowOf[m] : m \in windows} = Recipients

Goto(w, label) == pc' = [pc EXCEPT ![w] = label]

\* The invocation is over: a Lambda keeps nothing for the next one.
Forget(w) ==
    /\ Goto(w, "idle")
    /\ job' = [job EXCEPT ![w] = NoMsg]
    /\ todo' = [todo EXCEPT ![w] = {}]
    /\ seen' = [seen EXCEPT ![w] = 0]
    /\ cur' = [cur EXCEPT ![w] = NoOne]
    /\ heldBack' = [heldBack EXCEPT ![w] = {}]
    /\ foreign' = [foreign EXCEPT ![w] = {}]

\* Mutant of Return: a retry whose window was begun counts as a full redelivery,
\* and is acknowledged ("returned `skipped` and ACKed the message").
ReturnOnce(m) ==
    mq' = [mq EXCEPT ![m].st =
              IF @ # "inflight" THEN @
              ELSE IF mq[m].receives >= 2 THEN "deleted" ELSE "visible"]

\* The message is reported in batchItemFailures, or its invocation died: SQS
\* makes it visible again until it was received MaxReceives times.
Return(m) ==
    mq' = [mq EXCEPT ![m].st =
              IF @ # "inflight" THEN @
              ELSE IF mq[m].receives >= MaxReceives THEN "dead" ELSE "visible"]

FailDelivery(w) == Forget(w) /\ Return(job[w])

-----------------------------------------------------------------------------
Init ==
    /\ mq = [m \in Msgs |-> [st |-> "visible", receives |-> 0]]
    /\ sched = "active"
    /\ completed = {}
    /\ halted = FALSE
    /\ suppressed = {}
    /\ claims = {}
    /\ sentEvents = [r \in Recipients |-> 0]
    /\ rejectEvents = [r \in Recipients |-> 0]
    /\ pc = [w \in Workers |-> "idle"]
    /\ job = [w \in Workers |-> NoMsg]
    /\ todo = [w \in Workers |-> {}]
    /\ seen = [w \in Workers |-> 0]
    /\ cur = [w \in Workers |-> NoOne]
    /\ heldBack = [w \in Workers |-> {}]
    /\ foreign = [w \in Workers |-> {}]
    /\ dispatched = [r \in Recipients |-> 0]
    /\ lost = [r \in Recipients |-> 0]
    /\ sinceHalt = 0
    /\ left = Budget

-----------------------------------------------------------------------------
(* The queue and the start of a delivery.                                  *)

\* Mutant of Receive: no maxReceiveCount.
ReceiveForever(w, m) ==
    /\ pc[w] = "idle"
    /\ mq[m].st \in {"visible", "inflight"} /\ UNCHANGED left
    /\ mq' = [mq EXCEPT ![m] = [st |-> "inflight", receives |-> @.receives + 1]]
    /\ job' = [job EXCEPT ![w] = m]
    /\ Goto(w, "gate")
    /\ UNCHANGED <<storeVars, envVars, loopVars, historyVars>>

\* SQS hands message m to an idle invocation; a duplicate delivery reaches a
\* second one while the first still works.
Receive(w, m) ==
    /\ pc[w] = "idle"
    /\ mq[m].receives < MaxReceives
    /\ \/ mq[m].st = "visible" /\ UNCHANGED left
       \/ mq[m].st = "inflight" /\ Spend("duplicate")
    /\ mq' = [mq EXCEPT ![m] = [st |-> "inflight", receives |-> @.receives + 1]]
    /\ job' = [job EXCEPT ![w] = m]
    /\ Goto(w, "gate")
    /\ UNCHANGED <<storeVars, envVars, loopVars, historyVars>>

\* The lifecycle gate: a firing that finds the schedule paused, archived or
\* completed is skipped, and its message deleted.
Gate(w) ==
    /\ pc[w] = "gate"
    /\ Goto(w, IF ScheduleActive THEN "list" ELSE "ack")
    /\ UNCHANGED <<queueVars, storeVars, envVars, loopVars, historyVars, left>>

\* Read the window's confirmed recipients, and the halt flag before the loop.
ListRecipients(w) ==
    /\ pc[w] = "list"
    /\ IF halted
       THEN Goto(w, "ack") /\ UNCHANGED todo
       ELSE Goto(w, "loop") /\ todo' = [todo EXCEPT ![w] = WindowOf[job[w]]]
    /\ UNCHANGED <<queueVars, storeVars, envVars, seen, cur, heldBack, foreign,
                   historyVars, left>>

-----------------------------------------------------------------------------
(* The loop over the window's recipients.                                  *)

\* A halt seen by the periodic check breaks the loop.
StopForHalt(w) ==
    /\ pc[w] = "loop"
    /\ todo[w] # {} /\ HaltCheckDue(w) /\ halted
    /\ Goto(w, "haltedTail")
    /\ UNCHANGED <<queueVars, storeVars, envVars, loopVars, historyVars, left>>

Reach(w, r) ==
    /\ pc[w] = "loop"
    /\ NextRecipient(w, r)
    /\ ~(HaltCheckDue(w) /\ halted)
    /\ todo' = [todo EXCEPT ![w] = @ \ {r}]
    /\ seen' = [seen EXCEPT ![w] = @ + 1]

\* Suppressed, unknown or off the allowlist: counted, not claimed.
SkipRecipient(w, r) ==
    /\ Reach(w, r)
    /\ ~MayMail(r)
    /\ UNCHANGED <<queueVars, storeVars, envVars, pc, cur, heldBack, foreign,
                   historyVars, left>>

SelectRecipient(w, r) ==
    /\ Reach(w, r)
    /\ MayMail(r)
    /\ cur' = [cur EXCEPT ![w] = r]
    /\ Goto(w, "claim")
    /\ UNCHANGED <<queueVars, storeVars, envVars, heldBack, foreign,
                   historyVars, left>>

\* Mutant of ClaimRecipient: the put is unconditional.
ClaimUnconditionally(w) ==
    /\ pc[w] = "claim"
    /\ claims' = claims \cup {cur[w]}
    /\ Goto(w, "send")
    /\ UNCHANGED <<queueVars, sched, completed, sentEvents, rejectEvents, envVars,
                   loopVars, historyVars, left>>

\* The conditional put of the per-recipient claim.
ClaimRecipient(w) ==
    /\ pc[w] = "claim"
    /\ IF cur[w] \in claims
       THEN /\ foreign' = [foreign EXCEPT ![w] = @ \cup {cur[w]}]
            /\ cur' = [cur EXCEPT ![w] = NoOne]
            /\ Goto(w, "loop")
            /\ UNCHANGED claims
       ELSE /\ claims' = claims \cup {cur[w]}
            /\ Goto(w, "send")
            /\ UNCHANGED <<foreign, cur>>
    /\ UNCHANGED <<queueVars, sched, completed, sentEvents, rejectEvents, envVars,
                   todo, seen, heldBack, historyVars, left>>

\* SES took the message, whether or not its reply arrives.
Accept(w) ==
    /\ pc[w] = "send"
    /\ dispatched' = [dispatched EXCEPT ![cur[w]] = @ + 1]
    /\ sinceHalt' = IF halted THEN sinceHalt + 1 ELSE sinceHalt

SendAccepted(w) ==
    /\ Accept(w)
    /\ Goto(w, "record")
    /\ UNCHANGED <<queueVars, storeVars, envVars, loopVars, lost, left>>

\* RecipientRejectedError: buffered; a run of RejectLimit trips the breaker.
SendRejected(w) ==
    /\ pc[w] = "send"
    /\ Spend("reject")
    /\ heldBack' = [heldBack EXCEPT ![w] = @ \cup {cur[w]}]
    /\ cur' = [cur EXCEPT ![w] = NoOne]
    /\ Goto(w, IF Cardinality(heldBack[w]) + 1 >= RejectLimit THEN "breaker" ELSE "loop")
    /\ UNCHANGED <<queueVars, storeVars, envVars, todo, seen, foreign, historyVars>>

\* Mutant of ReleaseAndThrow: the claim is kept.
ThrowKeepingClaim(w) ==
    /\ FailDelivery(w)
    /\ UNCHANGED <<storeVars, envVars>>

\* What every other error does: give back this recipient's claim and throw.
ReleaseAndThrow(w) ==
    /\ claims' = claims \ {cur[w]}
    /\ FailDelivery(w)
    /\ UNCHANGED <<sched, completed, sentEvents, rejectEvents, envVars>>

\* Throttling, quota, 5xx: SES did not take the message.
SendFailed(w) ==
    /\ pc[w] = "send"
    /\ Spend("failure")
    /\ ReleaseAndThrow(w)
    /\ UNCHANGED historyVars

\* SES took the message but the call failed (timeout, connection reset).
SendReplyLost(w) ==
    /\ Accept(w)
    /\ Spend("lostReply")
    /\ lost' = [lost EXCEPT ![cur[w]] = @ + 1]
    /\ ReleaseAndThrow(w)

\* The SES client repeats a call whose reply it did not get before it reports
\* an error: the message is taken again.
SendRepeated(w) ==
    /\ Accept(w)
    /\ Spend("lostReply")
    /\ lost' = [lost EXCEPT ![cur[w]] = @ + 1]
    /\ UNCHANGED <<queueVars, storeVars, envVars, pc, loopVars>>

\* flushRejects: after a success, or at the end of the loop.
FlushReject(w, r) ==
    /\ pc[w] \in {"record", "tail", "haltedTail"}
    /\ NextHeldBack(w, r)
    /\ rejectEvents' = [rejectEvents EXCEPT ![r] = @ + 1]
    /\ heldBack' = [heldBack EXCEPT ![w] = @ \ {r}]
    /\ UNCHANGED <<queueVars, sched, completed, claims, sentEvents, envVars, pc,
                   todo, seen, cur, foreign, historyVars, left>>

\* The sent event, once the buffer is committed.
RecordSent(w) ==
    /\ pc[w] = "record" /\ heldBack[w] = {}
    /\ sentEvents' = [sentEvents EXCEPT ![cur[w]] = @ + 1]
    /\ cur' = [cur EXCEPT ![w] = NoOne]
    /\ Goto(w, "loop")
    /\ UNCHANGED <<queueVars, sched, completed, claims, rejectEvents, envVars,
                   todo, seen, heldBack, foreign, historyVars, left>>

\* Mutant of BreakerRelease: the run is dropped with its claims.
BreakerDrop(w, r) ==
    /\ pc[w] = "breaker"
    /\ NextHeldBack(w, r)
    /\ heldBack' = [heldBack EXCEPT ![w] = @ \ {r}]
    /\ UNCHANGED <<queueVars, storeVars, envVars, pc, todo, seen, cur, foreign,
                   historyVars, left>>

\* The breaker gives back the claims of the run, one by one, and throws.
BreakerRelease(w, r) ==
    /\ pc[w] = "breaker"
    /\ NextHeldBack(w, r)
    /\ claims' = claims \ {r}
    /\ heldBack' = [heldBack EXCEPT ![w] = @ \ {r}]
    /\ UNCHANGED <<queueVars, sched, completed, sentEvents, rejectEvents, envVars,
                   pc, todo, seen, cur, foreign, historyVars, left>>

BreakerAbort(w) ==
    /\ pc[w] = "breaker" /\ heldBack[w] = {}
    /\ FailDelivery(w)
    /\ UNCHANGED <<storeVars, envVars, historyVars, left>>

LoopDone(w) ==
    /\ pc[w] = "loop" /\ todo[w] = {}
    /\ Goto(w, "tail")
    /\ UNCHANGED <<queueVars, storeVars, envVars, loopVars, historyVars, left>>

-----------------------------------------------------------------------------
(* The end of a delivery.                                                  *)

\* No completion for an edition, nor for a halted campaign.
NoCompletion(w) ==
    /\ heldBack[w] = {}
    /\ \/ pc[w] = "haltedTail"
       \/ pc[w] = "tail" /\ (~HasSchedule \/ halted)
    /\ Goto(w, "ack")
    /\ UNCHANGED <<queueVars, storeVars, envVars, loopVars, historyVars, left>>

\* The halt flag is read once more: the window may be completed.
MayComplete(w) ==
    /\ pc[w] = "tail" /\ heldBack[w] = {}
    /\ HasSchedule /\ ~halted
    /\ Goto(w, "settle")
    /\ UNCHANGED <<queueVars, storeVars, envVars, loopVars, historyVars, left>>

\* A claim found taken has no outcome yet: throw, so SQS retries the window.
AwaitRecordedDelivery(w) ==
    /\ pc[w] = "settle"
    /\ \E r \in foreign[w] : ~Settled(r)
    /\ FailDelivery(w)
    /\ UNCHANGED <<storeVars, envVars, historyVars, left>>

\* Mutant of AllSettled: claims found taken count as delivered.
ClaimedIsDelivered(w) ==
    /\ pc[w] = "settle"
    /\ Goto(w, "complete")
    /\ UNCHANGED <<queueVars, storeVars, envVars, loopVars, historyVars, left>>

AllSettled(w) ==
    /\ pc[w] = "settle"
    /\ \A r \in foreign[w] : Settled(r)
    /\ Goto(w, "complete")
    /\ UNCHANGED <<queueVars, storeVars, envVars, loopVars, historyVars, left>>

\* completeScheduleRange, as one step: SendSchedule models its compare-and-swap.
CompleteRange(w) ==
    /\ pc[w] = "complete"
    /\ IF sched = "completed"
       THEN UNCHANGED <<completed, sched>>
       ELSE /\ completed' = completed \cup {job[w]}
            /\ sched' = IF Covered(completed') /\ sched # "archived"
                        THEN "completed" ELSE sched
    /\ Goto(w, "ack")
    /\ UNCHANGED <<queueVars, claims, sentEvents, rejectEvents, envVars, loopVars,
                   historyVars, left>>

\* The handler returned without naming the message: SQS deletes it.
Ack(w) ==
    /\ pc[w] = "ack"
    /\ mq' = [mq EXCEPT ![job[w]].st = IF @ = "dead" THEN @ ELSE "deleted"]
    /\ Forget(w)
    /\ UNCHANGED <<storeVars, envVars, historyVars, left>>

-----------------------------------------------------------------------------
(* The environment.                                                        *)

\* The invocation is killed (timeout, out of memory) or a store call throws.
Crash(w) ==
    /\ pc[w] # "idle"
    /\ Spend("crash")
    /\ FailDelivery(w)
    /\ UNCHANGED <<storeVars, envVars, historyVars>>

\* An operator pauses, resumes or archives; SendSchedule models the refusals.
OperatorTransition(status) ==
    /\ HasSchedule /\ sched # status
    /\ sched = "completed" => status = "archived"
    /\ Covered(completed) => status = "archived"
    /\ Spend("operator")
    /\ sched' = status
    /\ UNCHANGED <<queueVars, completed, claims, sentEvents, rejectEvents, envVars,
                   pc, loopVars, historyVars>>

\* checkDeliverability finds a bounce or complaint breach.
Halt ==
    /\ ~halted /\ Spend("halt")
    /\ halted' = TRUE
    /\ UNCHANGED <<queueVars, storeVars, suppressed, pc, loopVars, historyVars>>

\* A bounce, a complaint, an operator or an unsubscribe-all suppresses r.
Suppress(r) ==
    /\ r \notin suppressed /\ Spend("suppress")
    /\ suppressed' = suppressed \cup {r}
    /\ UNCHANGED <<queueVars, storeVars, halted, pc, loopVars, historyVars>>

-----------------------------------------------------------------------------
\* Everything an invocation does by itself once it holds a message.
WorkerStep(w) ==
    \/ Gate(w) \/ ListRecipients(w) \/ StopForHalt(w)
    \/ \E r \in Recipients : SkipRecipient(w, r) \/ SelectRecipient(w, r)
    \/ ClaimRecipient(w)
    \/ SendAccepted(w) \/ SendRejected(w) \/ SendFailed(w) \/ SendReplyLost(w)
    \/ SendRepeated(w)
    \/ \E r \in Recipients : FlushReject(w, r) \/ BreakerRelease(w, r)
    \/ RecordSent(w) \/ BreakerAbort(w) \/ LoopDone(w)
    \/ NoCompletion(w) \/ MayComplete(w) \/ AwaitRecordedDelivery(w) \/ AllSettled(w)
    \/ CompleteRange(w) \/ Ack(w)

Environment ==
    \/ \E w \in Workers : Crash(w)
    \/ \E s \in {"active", "paused", "archived"} : OperatorTransition(s)
    \/ Halt
    \/ \E r \in Recipients : Suppress(r)

Next ==
    \/ \E w \in Workers, m \in Msgs : Receive(w, m)
    \/ \E w \in Workers : WorkerStep(w)
    \/ Environment

Spec == Init /\ [][Next]_vars

\* Lambda runs a handler to its end and SQS keeps offering a visible message;
\* nothing is assumed about the environment or about what SES answers.
Fairness ==
    /\ \A w \in Workers : WF_vars(WorkerStep(w))
    /\ WF_vars(\E w \in Workers, m \in Msgs : mq[m].st = "visible" /\ Receive(w, m))

FairSpec == Spec /\ Fairness

-----------------------------------------------------------------------------
(* Properties.                                                             *)

Labels == {"idle", "gate", "list", "loop", "claim", "send", "record", "breaker",
           "tail", "haltedTail", "settle", "complete", "ack"}

\* The type of every variable, and that an invocation has a message exactly
\* while it runs and a current recipient exactly between claiming and recording.
TypeOK ==
    /\ mq \in [Msgs -> [st : {"visible", "inflight", "deleted", "dead"},
                        receives : 0..MaxReceives]]
    /\ sched \in {"active", "paused", "archived", "completed"}
    /\ completed \subseteq Msgs
    /\ halted \in BOOLEAN
    /\ suppressed \subseteq Recipients
    /\ claims \subseteq Recipients
    /\ sentEvents \in [Recipients -> Nat]
    /\ rejectEvents \in [Recipients -> Nat]
    /\ pc \in [Workers -> Labels]
    /\ job \in [Workers -> Msgs \cup {NoMsg}]
    /\ todo \in [Workers -> SUBSET Recipients]
    /\ seen \in [Workers -> Nat]
    /\ cur \in [Workers -> Recipients \cup {NoOne}]
    /\ heldBack \in [Workers -> SUBSET Recipients]
    /\ foreign \in [Workers -> SUBSET Recipients]
    /\ dispatched \in [Recipients -> Nat]
    /\ lost \in [Recipients -> Nat]
    /\ sinceHalt \in Nat
    /\ left \in [Disturbances -> Nat]
    /\ \A w \in Workers : /\ pc[w] # "idle" => job[w] \in Msgs
                          /\ pc[w] \in {"claim", "send", "record"} => cur[w] \in Recipients

\* Invocation w owns r's claim and has not recorded what became of it.
Holds(w, r) ==
    \/ pc[w] \in {"send", "record"} /\ cur[w] = r
    \/ r \in heldBack[w]

\* Invocation w is past the claim of r, and SES has not taken a message from it.
Undispatched(w, r) ==
    \/ pc[w] = "send" /\ cur[w] = r
    \/ r \in heldBack[w]

\* Claims, messages and events of one recipient agree with each other: the
\* inductive strengthening of AtMostOnce, OneOutcome and SentWasDispatched.  A
\* claim has at most one holder, an unclaimed recipient has every message
\* accounted for as lost, and a held one has no outcome yet.
Owned(r) ==
    /\ \A w \in Workers : Holds(w, r) => r \in claims /\ ~Settled(r)
    /\ \A v, w \in Workers : Holds(v, r) /\ Holds(w, r) => v = w
    /\ \A w \in Workers :
          r \in heldBack[w] => ~(pc[w] \in {"send", "record"} /\ cur[w] = r)
    /\ \A w \in Workers : Undispatched(w, r) => dispatched[r] = lost[r]
    /\ \A w \in Workers : pc[w] = "record" /\ cur[w] = r => dispatched[r] = lost[r] + 1
    /\ r \notin claims => dispatched[r] = lost[r] /\ ~Settled(r)
    /\ dispatched[r] <= lost[r] + 1
    /\ sentEvents[r] + rejectEvents[r] <= 1
    /\ sentEvents[r] + lost[r] <= dispatched[r]

Ownership == \A r \in Recipients : Owned(r)

\* Where a recipient of the window is, seen from an invocation in its loop.
AccountedFor(w, r) ==
    \/ r \in todo[w] \cup heldBack[w] \cup foreign[w]
    \/ pc[w] \in {"claim", "send", "record"} /\ cur[w] = r
    \/ Settled(r)

\* What an invocation that may still complete its window knows of it.
Accounts(w) ==
    /\ pc[w] \in {"loop", "claim", "send", "record", "tail", "settle", "complete"} =>
          \A r \in WindowOf[job[w]] : MayMail(r) => AccountedFor(w, r)
    /\ pc[w] \in {"tail", "settle", "complete"} => todo[w] = {}
    /\ pc[w] \in {"settle", "complete"} => heldBack[w] = {}
    /\ pc[w] = "complete" => \A r \in foreign[w] : Settled(r)

\* The inductive strengthening of CompletedOwesNobody: no invocation that may
\* still complete its window has lost track of a mailable recipient of it.
LoopAccounts == \A w \in Workers : Accounts(w)

\* send.ts:145-152 (#163, #172): whatever is redelivered, duplicated or killed,
\* and however windows overlap, SES takes one message per recipient, plus one for
\* each accepted message whose reply was lost.
AtMostOnce == \A r \in Recipients : dispatched[r] <= 1 + lost[r]

\* The event log never settles a recipient twice: not sent and rejected, and
\* never counted twice in the campaign's counters.
OneOutcome == \A r \in Recipients : sentEvents[r] + rejectEvents[r] <= 1

\* A sent event is backed by a message that SES took and confirmed.
SentWasDispatched == \A r \in Recipients : sentEvents[r] + lost[r] <= dispatched[r]

\* send.ts:894-910 (#263): a window is only recorded complete when each of its
\* mailable recipients has a durable outcome, even if other invocations sent to
\* some of them and were still at it when this one ended its loop.
CompletedOwesNobody ==
    \A m \in completed : \A r \in WindowOf[m] : MayMail(r) => Settled(r)

\* send.ts:756-775 (#165): a breach found mid-send stops the remainder; each
\* invocation sends at most HaltCheckEvery more messages, apart from those whose
\* reply was lost.
HaltBound ==
    sinceHalt <= Cardinality(Workers) * HaltCheckEvery
                 + Budget["lostReply"] - left["lostReply"]

\* Suppressed, and in nobody's hands.
OutOfReach(r) ==
    /\ r \in suppressed
    /\ \A w \in Workers : ~(pc[w] \in {"claim", "send"} /\ cur[w] = r)

\* send.ts:780-785: once a suppressed recipient is in no invocation's hands, no
\* retry, redelivery or other window ever mails them.
SuppressionSticks ==
    [][\A r \in Recipients : OutOfReach(r) =>
          OutOfReach(r)' /\ dispatched'[r] = dispatched[r]]_vars

\* The queue is drained and nothing runs.
Drained == /\ \A m \in Msgs : mq[m].st \in {"deleted", "dead"}
           /\ \A w \in Workers : pc[w] = "idle"

\* How often disturbance d has happened.
Used(d) == Budget[d] - left[d]

\* How often a delivery may have been cut short: an invocation was killed, a call
\* failed, or rejections tripped the breaker.
Interruptions == Used("crash") + Used("failure") + Used("lostReply") + Used("reject")

\* r is claimed, in nobody's hands, and without an outcome: every retry skips r.
Stranded(r) == r \in claims /\ ~Settled(r) /\ \A w \in Workers : ~Holds(w, r)

\* Every delivery of every message is over: nobody stopped the send, no two
\* invocations used up a message's deliveries waiting for each other, and the queue
\* repeats a message more often than its deliveries were cut short.
RetriesOver ==
    /\ Drained /\ ~halted
    /\ Used("operator") = 0 /\ Used("duplicate") = 0
    /\ Interruptions < MaxReceives

\* send.ts:145-150 (#163): the retries after kills, failed calls and tripped
\* breakers reach the whole remainder: in the end whoever can be mailed has an
\* outcome or was stranded in the claim of an interrupted invocation.
RetryDeliversRemainder ==
    RetriesOver => \A r \in Recipients : MayMail(r) => Settled(r) \/ Stranded(r)

\* send.ts:829-872: what an interruption can cost.  A killed invocation strands the
\* rejections it buffered and the recipient in its hands, a failed call the
\* buffered rejections alone (their claims are not given back at send.ts:872); the
\* breaker's aborts and the waits for other invocations strand nobody.
StrandedBound ==
    Cardinality({r \in Recipients : Stranded(r)})
        <= RejectLimit * Used("crash")
           + (RejectLimit - 1) * (Used("failure") + Used("lostReply"))

\* Nothing has interrupted an invocation.
Undisturbed == \A d \in {"crash", "failure", "lostReply"} : left[d] = Budget[d]

\* send.ts:842-845 (#293): "a rejection that turns out to be part of an
\* account-wide fault must leave NO trace, or the retry would skip those
\* recipients forever".  Unless a call failed, a claim with no recorded outcome is
\* in some invocation's hands, the breaker's aborts included.
NoStrandedClaim ==
    Undisturbed =>
        \A r \in claims : Settled(r) \/ \E w \in Workers : Holds(w, r)

\* A one-off that nobody pauses, archives or halts is eventually completed unless
\* an invocation is killed, although the deliveries of one window hold each other up.
CampaignCompletes ==
    [](left["crash"] = Budget["crash"]) => <>(sched = "completed")

\* The outcome that the event log records for r.
Outcome(r) == IF sentEvents[r] > 0 THEN "sent"
              ELSE IF rejectEvents[r] > 0 THEN "rejected" ELSE "none"

\* The send path implements the ledger: every step of every invocation is one
\* delivery, one recorded outcome or one closed window, or changes nothing there.
Ledger == INSTANCE DeliveryLedger WITH
    Unreachable <- Blocked, Windows <- Msgs, Members <- WindowOf,
    copies <- dispatched, outcome <- [r \in Recipients |-> Outcome(r)],
    exempt <- suppressed \cup Blocked, closed <- completed

LedgerSpec == Ledger!LSpec
=============================================================================
