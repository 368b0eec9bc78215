-------------------------------- MODULE Drip --------------------------------
(***************************************************************************)
(* A drip sequence started by confirmations on Consent's Trigger list: the *)
(* Step Functions machine of infra/cdk (wait, step, loop, with retries),   *)
(* dripStepHandler of services/automations and sendToSubscriber of         *)
(* domain/src/send.ts, over the rows that Consent's handlers write.        *)
(*                                                                         *)
(* An execution is named by its enrollment, the requestedAt of the row     *)
(* that a confirmation put, so there is at most one for each.  Nothing     *)
(* stops an execution from outside: each step asks the stored rows whether *)
(* it should still run.  Executions of older and newer enrollments overlap.*)
(***************************************************************************)
EXTENDS Consent

CONSTANTS
    Steps,          \* number of steps of the sequence
    ListOf,         \* ListOf[k]: the list that step k is sent on
    Entitled,       \* steps with requireEntitlement
    Retries,        \* the machine's maxAttempts for a step
    FaultBudget     \* bound: deaths of the handler, SES failures and lost replies

ASSUME DripAssumption ==
    /\ Steps \in Nat \ {0}      \* a sequence without steps is not started
    /\ Retries \in Nat /\ FaultBudget \in Nat
    /\ ListOf \in [1..Steps -> Lists]
    /\ Entitled \subseteq 1..Steps

Enrollments == 1..MaxRequests

VARIABLES
    run,        \* run[e]: the execution of enrollment e
    claims,     \* send claims, permanent: [e, k]
    mails,      \* mails[e][k]: times SES took the mail of step k
    lost,       \* lost[e][k]: how many of these it took without saying so
    faults,     \* what happened of FaultBudget
    stale,      \* history: mails of e on a list since a cause against them holds
    disturbed   \* history: e was out of date, skipped a step or lost a claim

dripVars == <<run, claims, mails, lost, faults>>
historyVars == <<stale, disturbed>>
dvars == <<consentVars, dripVars, historyVars>>

-----------------------------------------------------------------------------
(* Helpers.                                                                *)

Handling == {"superseded?", "decide", "claim", "gate", "mail", "record"}
Ended == {"done", "failed"}
Run == [at : {"wait"} \cup Handling \cup Ended, step : 0..Steps, tries : 0..Retries]

At(e, place) == e \in enrolled /\ run[e].at = place

\* The claim key: dripCampaignId of the enrollment and the step, and the reader.
ClaimOf(e) == <<e, run[e].step>>

\* Why the rows may ask for no mail of enrollment e on list l: the reader asked
\* anew, is not confirmed on l, or may not be mailed.
Causes == {"superseded", "left", "barred"}
Holding(cause, e, l) ==
    CASE cause = "superseded" -> sub[Trigger].req # e
      [] cause = "left"       -> sub[l].status # "confirmed"
      [] cause = "barred"     -> ~MayMail

StepLists == {ListOf[k] : k \in 1..Steps}
InDate(e) == \A cause \in Causes, l \in StepLists : ~Holding(cause, e, l)

Goto(e, place) == run' = [run EXCEPT ![e].at = place]
End(e, place) == run' = [run EXCEPT ![e] = [at |-> place, step |-> 0, tries |-> 0]]

\* nextStepIndex: wait for the next step, or succeed.
Advance(e) ==
    IF run[e].step < Steps
    THEN run' = [run EXCEPT ![e] = [at |-> "wait", step |-> run[e].step + 1, tries |-> 0]]
    ELSE End(e, "done")

\* The step failed: the machine invokes it again from its start, or gives up.
Retry(e) ==
    IF run[e].tries < Retries
    THEN run' = [run EXCEPT ![e].at = "superseded?", ![e].tries = @ + 1]
    ELSE End(e, "failed")

Fault == faults < FaultBudget /\ faults' = faults + 1

Zero == [e \in Enrollments |-> [k \in 1..Steps |-> 0]]

DripInit ==
    /\ Init
    /\ run = [e \in Enrollments |-> [at |-> "wait", step |-> 1, tries |-> 0]]
    /\ claims = {}
    /\ mails = Zero /\ lost = Zero
    /\ faults = 0
    /\ stale = [e \in Enrollments |-> [cause \in Causes |-> [l \in StepLists |-> 0]]]
    /\ disturbed = [e \in Enrollments |-> FALSE]

-----------------------------------------------------------------------------
(* One step of an execution.                                               *)

\* DripWait is over.
Wake(e) ==
    /\ At(e, "wait")
    /\ Goto(e, "superseded?")
    /\ UNCHANGED <<claims, mails, lost, faults>>

\* Mutant of CheckSuperseded: the answer is not used.
NeverSuperseded(e) ==
    /\ At(e, "superseded?")
    /\ Goto(e, "decide")
    /\ UNCHANGED <<claims, mails, lost, faults>>

\* enrollmentSuperseded: the trigger's row carries another request.
CheckSuperseded(e) ==
    /\ At(e, "superseded?")
    /\ IF HasRow(Trigger) /\ sub[Trigger].req # e THEN End(e, "done") ELSE Goto(e, "decide")
    /\ UNCHANGED <<claims, mails, lost, faults>>

\* evaluateDripStep over the reader's status and the row of the step's list.
Decide(e) ==
    /\ At(e, "decide")
    /\ IF acct = "suppressed" \/ sub[ListOf[run[e].step]].status # "confirmed"
       THEN End(e, "done")
       ELSE \/ Goto(e, "claim")
            \/ run[e].step \in Entitled /\ Advance(e)
    /\ UNCHANGED <<claims, mails, lost, faults>>

\* Mutants of Claim: a claim found is taken for one's own; it ends the sequence.
ClaimsAnyway(e) ==
    /\ At(e, "claim")
    /\ claims' = claims \cup {ClaimOf(e)}
    /\ Goto(e, "gate")
    /\ UNCHANGED <<mails, lost, faults>>
ClaimedIsDone(e) ==
    /\ At(e, "claim")
    /\ claims' = claims \cup {ClaimOf(e)}
    /\ IF ClaimOf(e) \in claims THEN End(e, "done") ELSE Goto(e, "gate")
    /\ UNCHANGED <<mails, lost, faults>>

\* sendClaims.claim; a step claimed before is not sent, and the sequence goes on.
Claim(e) ==
    /\ At(e, "claim")
    /\ claims' = claims \cup {ClaimOf(e)}
    /\ IF ClaimOf(e) \in claims THEN Advance(e) ELSE Goto(e, "gate")
    /\ UNCHANGED <<mails, lost, faults>>

\* mayMail: an address that may not be mailed gives the claim back.
Gate(e) ==
    /\ At(e, "gate")
    /\ IF MayMail
       THEN Goto(e, "mail") /\ UNCHANGED claims
       ELSE Advance(e) /\ claims' = claims \ {ClaimOf(e)}
    /\ UNCHANGED <<mails, lost, faults>>

\* sender.send returns.
MailAccepted(e) ==
    /\ At(e, "mail")
    /\ mails' = [mails EXCEPT ![e][run[e].step] = @ + 1]
    /\ Goto(e, "record")
    /\ UNCHANGED <<claims, lost, faults>>

\* It throws: the claim is given back and the step fails.
MailFailed(e) ==
    /\ At(e, "mail") /\ Fault
    /\ claims' = claims \ {ClaimOf(e)}
    /\ Retry(e)
    /\ UNCHANGED <<mails, lost>>

\* It throws although SES took the mail.
MailReplyLost(e) ==
    /\ At(e, "mail") /\ Fault
    /\ mails' = [mails EXCEPT ![e][run[e].step] = @ + 1]
    /\ lost' = [lost EXCEPT ![e][run[e].step] = @ + 1]
    /\ claims' = claims \ {ClaimOf(e)}
    /\ Retry(e)

\* events.append, and the handler returns the next step.
Record(e) ==
    /\ At(e, "record")
    /\ Advance(e)
    /\ UNCHANGED <<claims, mails, lost, faults>>

\* The function dies between two calls; what it claimed stays claimed.
Die(e) ==
    /\ \E place \in Handling : At(e, place)
    /\ Fault
    /\ Retry(e)
    /\ UNCHANGED <<claims, mails, lost>>

DripStep(e) ==
    \/ Wake(e) \/ CheckSuperseded(e) \/ Decide(e) \/ Claim(e) \/ Gate(e)
    \/ MailAccepted(e) \/ MailFailed(e) \/ MailReplyLost(e) \/ Record(e) \/ Die(e)

-----------------------------------------------------------------------------
(* History, and the composition with Consent.                              *)

\* A claim was left behind, or a step was passed by.
Mishap(e) ==
    \/ run[e].at \in {"gate", "mail"} /\ run'[e].at \in {"superseded?"} \cup Ended
       /\ ClaimOf(e) \in claims'
    \/ run[e].at = "decide" /\ run'[e].at \in {"wait", "done"}

MailedOn(e, l) == \E k \in 1..Steps : ListOf[k] = l /\ mails'[e][k] # mails[e][k]

Track ==
    /\ stale' = [e \in Enrollments |-> [cause \in Causes |-> [l \in StepLists |->
           IF ~Holding(cause, e, l)' \/ run[e].at \in Ended THEN 0
           ELSE stale[e][cause][l] + (IF MailedOn(e, l) THEN 1 ELSE 0)]]]
    /\ disturbed' = [e \in Enrollments |->
           disturbed[e] \/ (e \in enrolled' /\ ~InDate(e)') \/ Mishap(e)]

DripNext ==
    /\ \/ Next /\ UNCHANGED dripVars
       \/ \E e \in Enrollments : DripStep(e) /\ UNCHANGED consentVars
    /\ Track

DripSpec == DripInit /\ [][DripNext]_dvars

-----------------------------------------------------------------------------
(* Properties.                                                             *)

\* Each step is mailed once for an enrollment (drip.ts, dripCampaignId), through
\* repeated confirmations, retries of the step and deaths of the handler; only
\* a mail whose receipt was lost is repeated.
StepOnce == \A e \in Enrollments, k \in 1..Steps : mails[e][k] <= 1 + lost[e][k]

\* An execution retires itself (drip.ts, enrollmentSuperseded and
\* evaluateDripStep): once the reader asked anew, left, bounced or was
\* suppressed, it mails at most the one message it was about to send.
OutdatedMailsOnce ==
    \A e \in Enrollments, cause \in Causes, l \in StepLists : stale[e][cause][l] <= 1

\* An execution that ended, was in date all the time and lost no claim has
\* mailed every step: retries repeat nothing and leave nothing out.
UndisturbedInFull ==
    \A e \in enrolled : run[e].at = "done" /\ ~disturbed[e] =>
        \A k \in 1..Steps : mails[e][k] >= 1
=============================================================================
