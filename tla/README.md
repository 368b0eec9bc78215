# addressium in TLA+

TLA+ models of the newsletter platform in this repository, checked with TLC and,
for the parts that mail people and decide that a campaign is done, proved with
TLAPS. Paths below are relative to the repository root.

## 1. The system

addressium sends newsletters for several organizations. Everything runs in AWS
Lambda functions over one DynamoDB table; work moves through SQS queues and
EventBridge schedules, and mail leaves through SES. There is no transaction around an
operation: each store call is one DynamoDB request, a function can die between any two
of them, and every queue delivers at least once. What keeps the system right is a
handful of conditional writes, and the order in which the calls are made.

| Component | Code | State it keeps | Operations | What is hard |
|---|---|---|---|---|
| Campaign send | `packages/domain/src/send.ts` (`sendCampaign`), `services/sender` | send claims, event log, lifecycle record | gate, list, claim, send, record, flush, complete | crash between claim, mail and event; two invocations on one recipient; lost SES replies; rejection runs |
| Fan-out | `send.ts` (`planFanOut`, `fanOutCampaign`, `recipientsInSlice`) | messages in the send queue | plan, enqueue, deliver windows | the list changes under the plan; plans made twice overlap |
| Send lifecycle | `packages/domain/src/schedule-state.ts` | `SendScheduleState` with `completedRanges` and a revision | mark active, start/pause/archive, record a window | compare-and-swap races, merging of ranges, bounded retries |
| SES event plane | `services/events`, `domain/src/events.ts`, `suppress.ts`, `alerts.ts` | event rows, counters, UNIQ markers, SENDID items, suppression list, halt | record delivery/open/click/bounce/complaint, check, halt | redelivery, counting once, racing checks, whole-row writes |
| Stores | `packages/adapters-aws/src/dynamo.ts` | the table | conditional puts, the append transaction, revisions | which writes are conditional, and what a cancelled transaction leaves out |
| Consent | `signup.ts`, `preferences.ts`, `unsubscribe.ts`, `subscriber-admin.ts`, `suppress.ts` | subscriptions, subscriber status, suppression lists, confirmation links | sign up, confirm, unsubscribe from one list or all, join, override, feedback, suppress, lift | every write puts back a row read earlier, none is conditional |
| Drip sequences | `drip.ts`, `services/automations`, the state machine of `infra/cdk` | executions, send claims | wait, run a step, retry, retire | old and new enrollments overlap; a step is repeated after a failure that may have been a success |
| Re-engagement | `reengagement.ts`, `services/automations` | sequence position on the subscriber, checkpoint | sweep a page, send a step, graduate, sunset | crash between the mail and the position; rows a page old |
| Identity and erasure | `identity.ts`, `privacy.ts`, `signup.ts` | subscribers, e-mail reservations, pointers, tombstones | sign up, sync, import, provision, edit, erase | several writes that belong together; an index that lags |
| Imports | `import-job.ts`, `import-run.ts`, `services/importer` | batch record, pointers to its rows | claim, invoke, write rows, close | kills and retries of a long job; revisions that go back |
| Scheduling API | `services/api`, `domain/src/admin.ts` | campaign rows, EventBridge schedules | save, schedule, send now | compensation after half a schedule |
| Throttle, keys, tokens, webhooks, segments, rendering, provisioning, reporting, apps, infrastructure | `PROJECT.json` lists each | | | |

How they interact: the API (or a recurring launch) writes the campaign's row and its
lifecycle record and schedules a message for the **send queue**. The sender reads the
record as its gate, splits a large list into windows that go through the same queue,
and mails each recipient under a per-recipient **send claim**. SES reports back
through SNS to the **events queue**; the event plane appends events, counts on the
campaign's row, puts toxic addresses on the suppression list, and **halts** the
campaign, which the senders read in their loops. A finished window is merged into the
lifecycle record; when the windows cover all keys the send is completed.

Whom a send reaches is decided beside it: the readers' handlers and the **importer**
write the subscriptions, feedback and operators the suppression lists, and the identity
webhook and erasures the subscribers' records. A confirmation starts a **drip**
execution; a weekly **sweep** mails readers who went cold and unsubscribes those who do
not answer. Both mail through the same per-recipient claim.

What has to be true, per component:

* send: nobody is mailed twice, nobody is left out by a retry, each recipient has one
  recorded outcome, halts and suppressions take effect, a recorded window owes nobody;
* fan-out: every steady reader is in some window, whatever happens to the list;
* lifecycle: no finished window is lost, a closed send stays closed;
* event plane: an acknowledged notice left all its traces, counts are of events and of
  people, a breach halts and a halt stays;
* consent: leaving is final until the reader asks again, a bounce or complaint for good;
* drips: a step is mailed once, an outdated execution retires itself, and an undisturbed
  one leaves no step out;
* re-engagement: sequences advance by mail only, nobody is sunset unmailed, a resumed
  pass skips nobody;
* identity: one record per address, a complaint follows its reader, erasure is final;
* imports: whoever left stays away, a batch can be reversed in full, and it is closed.

`PROJECT.json` lists, under `hazards`, the lines where each of these can go wrong and
the properties that cover it, or why none does.

## 2. The modules

```
DeliveryLedger <--refines-- CampaignSend --- CampaignSendProofs
ScheduleLedger <--refines-- SendSchedule --- SendScheduleProofs
KeyRanges --- CampaignFanOut --- CampaignFanOutProofs
EventPlane --- EventPlaneProofs
Consent --- Drip --- DripProofs (of both)
Winback --- WinbackProofs
Identity --- IdentityProofs
Import --- ImportProofs
MC<module>: instances for TLC
```

**CampaignSend** is `sendCampaign` with its queue. `mq` is the send queue (visible, in
flight, deleted, dead-lettered after `maxReceiveCount`); `claims`, `sentEvents`,
`rejectEvents`, `completed`, `sched`, `halted`, `suppressed` are what the table holds;
`pc`, `job`, `todo`, `seen`, `cur`, `heldBack` (`pendingRejects`) and `foreign`
(`claimedRecipients`) are the locals of one invocation. There is one action per store or
SES call, so an invocation can be overtaken or killed between any two: `Gate`,
`ListRecipients`, `SelectRecipient`/`SkipRecipient`, `ClaimRecipient`, the outcomes of
the SES call (`SendAccepted`, `SendRejected`, `SendFailed`, `SendReplyLost`,
`SendRepeated`), `FlushReject`, `RecordSent`, `BreakerRelease`/`BreakerAbort`,
`MayComplete`, `AwaitRecordedDelivery`/`AllSettled`, `CompleteRange`, `Ack`. A window is
the set of its recipients and `CompleteRange` is atomic: the three modules below justify
that. `dispatched`, `lost` and `sinceHalt` are history variables.

**DeliveryLedger** is what the send path promises: a message per recipient, a second one
only in place of one whose receipt was lost, one outcome, and a window closed only when
it owes nothing.

**SendSchedule** is the read and the conditional write of the three operations on one
lifecycle record, by sender invocations (up to `Attempts` = 10 tries, as the code) and by
requests (one try). The stored ranges are represented by the keys they cover.
**ScheduleLedger** is the same with each operation atomic.

**KeyRanges** translates the range arithmetic of both files: `planFanOut`,
`recipientsInSlice`, the merge of `completeScheduleRange` and its completeness tests.
**CampaignFanOut** composes planning, the queue, the changing list and the merge; a
recipient is mailed in one step there, since CampaignSend has the steps in between. A
delivery that fails is repeated (`Fail`) or is the last one and leaves the message in the
dead-letter queue (`DeadLetter`; which of the five it is, is left open there, CampaignSend
counts them), until a second plan enqueues the same window or an operator replays it
(`Replay`). That the dead-letter queue forgets a message after 14 days is left out. It
also shows that the stored list is the normal form of the set of keys delivered
(`RecordIsExact`), which is what allows SendSchedule to use the set.

**EventPlane** is one campaign's notices on the events queue, the recorders, the append
transaction of the DynamoDB adapter with its three ways out (row already there, reader
already counted, no campaign row), the SENDID item, the deliverability check and the
halt, and the console's saves of the same row. An event row is keyed by the notice and
the instant of its processing, as in the code; a bounce or complaint gets a random id
there, so its deliveries never share a key (`Identified`).

**Consent** is one reader: `sub[l]` is the row of each list, `acct` the subscriber's
status, `orgSup` and `globalSup` the two suppression lists. `op[h]` is a handler in
flight, with the lists it has still to write and the rows it read: `ReadRow` and
`PutRow` are the get and the put of every handler, and what a put makes of the row
depends on its kind (`PassesBy`, `TakesInstant`). The nine kinds are sign-up, confirm,
leave, leave all, join, override, feedback, lift and suppress. Instants of `requestedAt`
are distinct numbers; a preference change of several lists is a handler for each; an
operator's suppression is always of the source "manual"; the index by subscriber is
taken as current. `left` and `reported` are history variables.

**Drip** extends Consent, so that its executions run against the very handlers that
change the rows. `run[e]` is the execution of enrollment `e` (its `requestedAt`): it
waits, asks whether it is superseded, decides, and sends through the claim, the gate,
SES and the event, each an action; `Retry` and `Die` are the state machine's. Two
invocations of one step never overlap here.

**Winback** is `runReengagementSweep` with its checkpoint: a page is read (`snap`), each
reader of it is examined, claimed, gated, mailed and put back *as of the page*, and the
cursor is saved. Beside it work the other handlers that read a subscriber and put the row
back whole, without a condition: `suppressAndFlip` ("complaint"), `manualSuppress`,
`liftSuppression`, and, as "upsert", the identity sync, provisioning and the import.
`ReadRow` and `PutRow` are the two calls of each, `WriteEntry` the suppression list's that
the first three make before; any may die between two calls, and reading before the entry
is written stands for a lagging index. A click writes one attribute and a return only the
list and a subscription. A period is `stepIntervalDays`; a handler that has read a row
puts it in the period in which it read it. One sweep runs at a time; its death costs the
invocation. The console's edit and the entitlement sync put a subscriber on a condition
(`subscriber-admin.ts:182`, `entitlement.ts:85`), which allows less than an upsert; the
erasure, which ends a reader's part in all this, is Identity's. The page is read as
current.

**Identity** has the records with their revisions, their image in the lagging index by
address, the reservations of addresses, the pointers of external ids and the suppressed
addresses; `op[h]` is one handler of eight kinds (sign-up, webhook upsert and delete,
import, provisioning, edit, complaint, erasure), which goes from call to call as the code
does. A complaint may come in for an address the record had before; which ones those were
is not recorded, so it may be any. A get reads the latest record; `Carry`, the read and
the add of a carried suppression, is one step.

**Import** is the job: `startImportJob`, the asynchronous invocation, the rows with their
guarded puts, the pointers, and `closeBatch`. Its readers' handlers are the part of
Consent that matters to it, a read and an unconditional put, with the revision that the
store derives from the row it is given (`RevisionOf`). `Throw` is caught and recorded,
`Kill` is not; both lead to another invocation until Lambda's retries are used up. The
job runs one invocation at a time, and rows written before revisions existed are left
out.

### Abstractions

* Recipients and keys are small numbers in id order; payloads, bodies, rendering, dates
  and names are left out. A store call either happens or its invocation fails (`Crash`
  stands for a thrown store error, a time-out and an out-of-memory kill, which look the
  same from outside: the message is delivered again).
* SES is external: it takes a message, rejects it for the recipient, fails, or takes it
  and its reply is lost. `SendRepeated` is the SDK repeating a call by itself.
* Alert thresholds are modelled by the `send_failures` rule.
* Budgets (`Budget`, `JoinBudget`, `RequestBudget`, `FaultBudget`, `MaxRev`, ...) bound how
  often the environment disturbs a run; they are constants, and the theorems hold for
  every value of them.

## 3. What the runs check

| Run | Instance | Shows |
|---|---|---|
| `SendFaults` | 4 recipients (one off the allowlist), 2 overlapping windows, 2 invocations, 2 receives; one crash, failure, lost reply and duplicate delivery, two rejections (a run of two trips the breaker) | `AtMostOnce`; `CompletedOwesNobody`; `NoStrandedClaim`: the breaker gives back every claim; `StrandedBound`: what a crash or a failed call strands is at most one recipient in hand and one run of held-back rejections |
| `SendOperator` | 3 recipients, 2 disjoint windows, 2 invocations, halt check after each recipient, 4 receives; a pause or archive, a halt, a suppression, a crash, a failed call, two rejections (the breaker trips) | `HaltBound`: a halt lets each invocation send at most one more interval; `SuppressionSticks`; `RetryDeliversRemainder`: where nobody stopped the send, the retries reach everybody whom no interrupted invocation stranded |
| `SendLiveness` | the same instance with 3 receives, a crash, a rejection, a duplicate delivery; fairness | `CampaignCompletes` unless an invocation was killed; the refinement of the ledger |
| `ScheduleRaces` | 3 keys, 2 overlapping windows, 2 workers with 2 attempts, 2 requesters making 4 requests, one redelivery | what covers everything is closed and cannot be fired again, a worker fails only after as many foreign writes as it has attempts, what it returned is recorded, and the refinement of the ledger |
| `FanOut` | 4 ids, chunks of 2, 2 invocations, one reader joins, one leaves, one failed delivery, the last of its message or not; fairness | the plan is a partition with chunks of bounded size; `DeliveredIsMailed`; `NoKeyLost`; `RecordIsExact`; the send completes unless a message stays in the dead-letter queue |
| `Events` | an open, a bounce, a complaint (threshold 2), 2 invocations, one crash, one duplicate, one save; with and without a campaign row | `AcknowledgedInFull`; `CountsAreBacked`; `BreachHalts`; a save that starts after the halt keeps it |
| `Consent` | one list, 2 handlers of all nine kinds, 2 instants | `LeavingHolds`; `FeedbackHolds` |
| `Drip` | 2 steps on one list, the second with an entitlement; 2 enrollments, one handler that signs up, confirms or leaves; one retry, two faults | `StepOnce`; `OutdatedMailsOnce`; `UndisturbedInFull` |
| `Winback` | 2 readers, 2 steps, pages of 2, quotas of 1 and 2, 3 periods, a writer; any two of a crash, a lost reply, a click, a return, a complaint, an operator's suppression, a lift and an upsert | `AdvancedByMail`; `StepOncePerCycle`; `SunsetIsEarned`; `PassCoversAll` |
| `Identity` | 2 addresses, 2 records, one external id, 2 handlers, 4 requests, 4 writes of a record | `OneRecordPerAddress`; `ComplaintFollows`; `ErasureHolds` |
| `Import` | a joining and a declining line, 2 puts of a row, 2 retries, one handler of five kinds; any three of a throw, a kill, a suppression and two handler writes; fairness | `Reversible`; `NobodyLeftOut`; `RevivesByAbaOnly`; `BatchCloses` |
| `IdentityReport` | as `Identity` | a counterexample to `ReportIsTrue`, see below |

Two invocations, two windows that share a recipient and one or two of each disturbance are
enough for every pairwise race in the send path: each protocol step concerns one
recipient, one record or one row, and a third actor meets the same stored state as the
second one. The proofs remove the bounds for every invariant and action property of the
passing runs, and for the refinements. In Consent and Identity two handlers in flight give
every pair of a stale put and the write it overwrites. Two instants give an old and a new
enrollment, three periods a full cycle of enrolment, two steps and a sunset and the start
of the next. With `Quotas` of one reader the sweep is cut off inside a page. Four writes
of a record are what a sign-up, a webhook, a complaint and an erasure of one person take.
Two lines are the two kinds of put the import makes, and the reader's two writes are the
least that bring a revision back. `CHECK_DEADLOCK FALSE` stands in every run that ends: a
drained queue is not a deadlock. The symmetry sets only permute invocations, requests,
handlers or interchangeable model values, in runs without liveness.

**Fairness.** In CampaignSend, each invocation's own steps are weakly fair, because
Lambda runs a handler to its end unless it dies (`Crash`, which is not fair), and so is
the delivery of some visible message, because SQS offers a visible message until it is
taken. Which outcome SES gives, operators, halts and suppressions are not assumed to
happen. CampaignFanOut assumes the same. In Import the steps of the job are weakly fair,
because Lambda delivers an event it accepted; failures are not, nor is the API's step
from the claim of the batch to the invocation, so `BatchCloses` says nothing of a batch
whose invocation was never made. Nothing is assumed about lost races.

**A disagreement between the code and what it says of itself.** `IdentityReport` checks a
sentence of the repository and ends in a counterexample. `privacy.ts:103-106` says that the
erasure's conditional put keeps a concurrent sync or import from restoring the person
"while this function reported success". A webhook or an import that read the record before
the erasure's put and puts its own after it does just that.

The models show others that no run is spent on.

* Send: `send.ts:147-150` says that after a crash "a retry re-sends nobody and delivers
  exactly the remainder". An invocation killed between a recipient's claim and the mail
  leaves the claim, and every retry passes that recipient by; a one-off's completion then
  throws until its message is dead-lettered. `RetryDeliversRemainder` and `StrandedBound`
  say what is left of the sentence: the retries reach everybody else, and how many can be
  stranded. Without any crash, rejections held back for the breaker keep their claims when a
  later recipient fails transiently (`send.ts:872` gives back only the current one). Waiting for
  another invocation's event uses up receives: a message can be dead-lettered while the
  invocation it waits for still works, so `CampaignCompletes` is checked where windows are
  disjoint.
* Lifecycle: an archived one-off that was not delivered in full can be started again
  (`schedule-state.ts:118`; line 9 calls archiving terminal, and a test of the admin app
  restores an archived schedule).
* Events: a console save that read the row before the halt writes it back
  (`admin.ts:219`: "A HALT SURVIVES RESCHEDULING"); a redelivered bounce counts twice,
  because `suppressAndFlip` (`suppress.ts:71`) passes no event id on; on an id without a
  campaign row repeat opens of one reader count (`dynamo.ts:1108`), and so do two
  concurrent deliveries of one notice (`dynamo.ts:1119`); the halt's write of the whole
  row erases a count made since it was read (`alerts.ts:177`); a redelivered delivery
  notice is a second event, its key holds the time of processing (`dynamo.ts:962`); soft
  bounces count towards the threshold of hard failures (`suppress.ts:115`).
* Consent: a confirmation, a join or an override that read a row before an unsubscribe
  puts it back after it, which is why `LeavingHolds` speaks of leavings that no such
  handler overlapped; a join after leaving everything leaves the address's "unsubscribe"
  entry; leaving everything overwrites an operator's entry with one that a later sign-up
  clears (`signup.ts:32-38`); `confirmOptIn` also confirms a row that had bounced.
* Drips: a crash between a step's claim and its mail drops the step for good.
* Re-engagement: `reengagement.ts:8-9` says that "a click at any point graduates them back
  to engaged". A click that lands between another handler's read of the row and its put,
  the sweep's own included, is erased by that put, and the reader is sunset in a later
  period. `SunsetIsEarned` says what is left: a click that lands while nobody holds the
  row does graduate the reader, and nobody is sunset who was not mailed the whole
  sequence. The first step of every cycle is claimed under the same name
  (`reengagement.ts:79-86`), so a second cycle never mails it and never advances; a crash
  between the mail and the put has the same effect on its step, and so has a stale put
  over an advance: the step is claimed and the row does not count it; a sunset leaves the
  subscriber's status suppressed, so a reader who asks again is not mailed.
* Identity: a crash between the reservation and the record strands the address
  (`signup.ts:89-97`); the webhook and the import create records without reserving, and a
  change of address keeps the old reservation; an erasure frees the address whoever
  holds it (`privacy.ts:132`); a complaint between the carry and the put is overwritten;
  an erasure that failed half-way cannot find the reader again. With three handlers in
  flight a stale put can also take a record's revision back, so that a second erasure's
  conditional put succeeds and releases an address that someone else has reserved in
  between; that is too large for a run, so `loose` counts the address of every put that
  takes a revision back, and the proof shows that nothing else is needed.
* Imports: the row revision is counted from the row the caller gives (`dynamo.ts:568`), and
  a sign-up, a join or an override gives a new one. The count goes back, a revision
  that the job read comes round again, and its guarded put goes over an unsubscribe that
  `import-run.ts:401-403` means to keep; `RevivesByAbaOnly` shows that there is no other way.
  The batch's record loses its status between the first row and the close
  (`import-run.ts:351`), and one without a status reads as completed (`entities.ts:869-873`),
  so the console stops polling a job that has just begun (`import-job.ts:20-22` says it
  reads running). `rowCount` counts rows that were passed by as well as those written.

## 4. What is proved

All theorems hold for every number of recipients, windows, invocations, lists, handlers
and disturbances; they assume only the named assumptions of the modules (`SendAssumption`,
`FanOutAssumption`, `MaxKeyAssumption`, `ScheduleAssumption`, `EventAssumption`,
`ConsentAssumption`, `IdentityAssumption`, `ImportAssumption`, `WinbackAssumption`,
`DripAssumption`), which type the constants and say that there are finitely many
invocations, that a message with a slice is another one than the message without, and that
a drip sequence has a step (`drip.ts:311` skips one without). One theorem has a hypothesis
of its own, `OneFanOut`: the windows are disjoint and cover the list, as those of one plan
are.

**CampaignSendProofs.** `AtMostOnce` is not inductive: it says nothing of a claim that
is held, released or buffered. `Ownership` adds, per recipient, that a claim has one
holder, that a held claim has no outcome yet, that a recipient without a claim has every
message accounted for as lost, and how far each holder is ahead of the event log. It is
inductive over `TypeOK`, one step of the proof per action (`WorkerOwnership`), and gives
`MailedAtMostOnce`, `SettledAtMostOnce` and `SentEventsAreTrue`. `LoopAccounts` says where
each mailable recipient of a window is while an invocation may still complete it: ahead of
the loop, in hand, held back, found claimed, or settled. With the fact that outcomes and
suppressions are never withdrawn (`StepMonotone`) it gives `CompletionIsHonest`.
`SuppressionIsFinal` proves the action property.

`ClaimsInv` adds that the budgets are what the disturbances left of them and that an
invocation away from its loop holds nothing back; with them a claim is settled or in some
invocation's hands (`ClaimsAreHeld`). `HaltInv` counts: `MaySend(w)` is how many messages an
invocation can still send before its next look at the halt, and the messages sent since the
halt with those still possible (`HaltCounted`, over the pairs `ToSend`) never exceed an
interval for each invocation (`HaltStopsTheRest`).

`StrandedWithinBound` follows one step at a time whom nobody holds any more: only a crash
and a failed call leave somebody (`NextStranded`), a crash the recipient in hand and what
is held back, a failed call what is held back alone, and that is fewer than `RejectLimit`
(`FewHeldBack`).

`RetriesDeliverRemainder` assumes nothing of the disturbances but what its formula does:
crashes, failed calls, lost replies and tripped breakers come anywhere, in any number below
the deliveries that the queue makes of a message, and two invocations never have the same
message. Its invariant `RemainderInv` says that one invocation handles a message at a time
(`OneDelivery`), inside its window (`OwnWindow`), and that whom it has passed somebody has
claimed (`AllPassed`). A message is then `Exhausted`, with everybody of its window claimed
and nobody in hand, or it was delivered once for each interruption and at most once more
(`Counted`): a delivery that nothing interrupts exhausts its window. A drained queue with
deliveries to spare is therefore exhausted throughout, and an exhausted claim is settled or
stranded.

`ImplementsLedger` proves `Spec => LedgerSpec`: a SES acceptance is `Deliver`, a
recorded event is `Settle`, a recorded window is `Close`, and the rest stutters. It needs
`Ownership` (the claim's holder owes the message), `LoopAccounts` (a closed window owes
nobody) and that whoever is in hand may be mailed at all (`InHandIsReachable`).

**CampaignFanOutProofs.** The invariants rest on what two algorithms compute.
`PlanIsPartition` is `planFanOut`: with the ids in order (`AscendingIs`), consecutive
windows share their bounds, so every cell has one window, and at most `c` positions lie
between two bounds (`PlansPartition`). `MergeRangeIs` is the merge: its loop keeps a list
in order with gaps between its ranges (`Gapped`) and adds each range's cells to it
(`MergeNextIs`). Both need induction, which is done over a *set* of naturals, by its least
element outside (`LeastNatural`, `AllNaturals`); for the merge it first shows that the
recursive function inside the library's `FoldLeft` exists (`FoldsExist`, `FoldSteps`).
`FanOutInv` then says that whoever is confirmed all along is mailed or still ahead in
every open window that holds them (`Listed`: `DeliveredAreMailed`), and that a cell that a
plan has still to enqueue is the only kind that may be in neither the record nor a window
of the queue or the dead-letter queue (`PlanCovers`): without it the deletion of the first
message would not keep `NoKeyLost` (`KeysAreKept`). A list with gaps is fixed by its cells
(`GappedIsListOf`), which gives `RecordsAreExact`.

**SendScheduleProofs.** The invariant `Inv` is about snapshots: one whose revision is still
the stored one *is* the stored record (`RevisionIdentifies`), and one that is about to be
written passed the checks of its read (`Checked`). So a conditional write that succeeds
is an operation on the record itself (`RecordEffect`), from which `ProgressIsKept`,
`CompletionIsCoverage`, `ReturnedIsRecorded`, `ClosedIsFinal` and the refinement
`ImplementsLedger` follow. `ContentionIsBounded` counts revisions against lost tries.

**DripProofs, of Consent.** `HandlersHold` is the typing part of the inductive invariant: what a
handler holds is a row of a list it has still to write, with the status it sets, and
stamped when that status is confirmed (`WellFormed`). `FeedbackOK` says that the global
entry stands from feedback's first write on, and that no handler in flight will remove it,
which gives `FeedbackIsFinal`. `LeftOK` says of a list that was left that its row is
closed and that whatever a handler holds or will still do does not reopen it (`ClosedTo`,
`Reopens`); an old link in flight is harmless because it rereads the row. With it
`LeavingIsFinal` follows.

**DripProofs, of Drip.** A step of the composition is one of Consent's handlers or of an execution,
so `DripInv` has Consent's invariant as a conjunct and rests on its step lemmas. What each
action does to its execution's place, claim and counts is stated once (`ClaimDoes`,
`ReplyLostDoes`, ...), and the four parts of the invariant are proved from that. `Counted`
says that the claim, the mails and the lost receipts of a step agree (`StepsMailedOnce`).
`Fresh` says that an execution that has asked after a cause since its last mail was not
mailed while the cause held (`PastCheck`: `OutdatedMailOnce`); it needs that the trigger's
row is there once somebody is enrolled (`TriggerHasRow`), as the check takes a missing row
for not superseded. `InFull` says that what an undisturbed execution has passed, or holds a
claim of without being about to send it, was mailed (`UndisturbedMailAll`).

**EventPlaneProofs.** `TypeInv` adds to the types that an invocation in work holds the
message it was given (`InHand`). `TracesOf` says, by the place an invocation has reached,
what it has left behind; with the fact that traces are never taken back it gives
`AcknowledgedLeavesTraces`. `CountedOf` names the sets of rows and people a counter has
counted, which only grow; every counter stored, and every one held in a snapshot, is
within them (`RowsBacked`), which gives `CountsNeverInflate`. A hard notice passes three
points, the row appended, the counter raised, the check made, and `Counted` says that as
long as nobody saved the campaign or halted it the counter a check reads is at least the
number past the point before. That needs that no two attempts at a hard notice append the
same row (`OwnRows`) and that whether a notice has a row to count on is settled
(`Rowless`); with them `BreachAlwaysHalts` follows. `HaltSurvives` is the action property.

**ImportProofs.** `ReadHolds` says that, unless a put took a row's revision back, the
revision a line has read is not yet reached by a row that was left, which gives
`RevivalNeedsSlip`. The batch invariant (`BatchInv`) has one invocation of the job at a
time (`OneJob`), the rows the job wrote last with the status it wants (`OwnAsWanted`) and
with the revision it read when it comes back to them (`OwnUnraced`), and so every line it
has put behind it listed or passed by with a reason (`Covers`), up to the batch's closing
(`Done`). It gives `CompletedIsReversible` and `CompletedIsComplete`.

**WinbackProofs.** `Position` says what is left of a page: it ends at the last reader of
what was read, everybody before its head was examined, and the quota lasts for the rest.
It gives `PassesCoverAll`. The three promises of a sequence must survive every put of an
older row, so they are stated of every copy of a row there is, in the table, in the page
and in a writer's hands. `Copies` says that each of them `Fits`: the steps it counts were
mailed in the cycle it names (`AdvancesByMail`), and it knows of the clicks that were made
while nobody held the row. A writer changes the status of
a copy and nothing else, so what it puts back fits as well (`WriterReady`); what the sweep
puts fits because the step in hand was mailed just before (`InTransit`, `PutReady`). The
claims are out of reach of all this: a step mailed in a cycle stays claimed unless the reply
was lost (`Claimed`), whatever the row says afterwards, so no older row makes the sweep mail
it again (`StepsOnce`). A row that is sunset counts all steps and knows of no click after it was
enrolled (`Decided`), which gives `SunsetsAreEarned`.

**IdentityProofs.** `Shape` says what a handler holds at each place, that an id is drawn by
one handler, and that a row is a tombstone in whole or not at all. `Exclusive(m)`, for an
address that is not `loose`, says that the record with `m` has its reservation, that the
sign-up about to write holds it, that an erasure about to release it still holds it and
nobody else is about to, and that among the rows in sight of one record those without `m`
are newer than those with it (`Aged`), so an erasure's conditional put cannot succeed
over a row that has moved on. It gives `AddressesAreExclusive`. `Followed` extends
`ComplaintFollows` to the index and to what handlers hold, with an upsert's address
carried before its put (`UpsertCarries`); `Gone` says that only handlers that were called
by id still reach an erased record, and what they write back is its tombstone
(`GoneWriters`: `ErasureIsFinal`).

**Only model-checked:** the liveness properties (`CampaignCompletes`, `FanOutCompletes`,
`BatchCloses`): they rest on fairness, which is out of the prover's reach.

## 5. Not modelled

* The scheduling handlers of `services/api` (`scheduleCampaignHandler`, `sendNowHandler`) with
  their compensation: SendSchedule has the archive they perform on each earlier record,
  and EventPlane the saves of the campaign's row. The rest of the API is validation and
  access control around one call of a modelled operation.
* Recurring editions and feeds, customer sync and entitlements, provisioning, exports: one
  call to another service after another, repeated as a whole by their queue; nothing of
  what they write is read by the parts modelled, but for the edition's row.
* What else an erasure removes, and data exports of a person.
* The inline CSV import (its guard is the one modelled), suppression imports, dry runs,
  overlapping invocations of one import or of one drip step.
* Rendering, column mapping, file formats, reporting folds: conversions without state.
  Tokens and signatures (cryptography), Cedar policies (evaluated by a library), the
  in-memory stores (a test double), the web applications and the deployment.
* Segment evaluation is taken as part of the list of recipients; the dispatch throttle as
  time that no property measures.
