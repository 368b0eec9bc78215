------------------------------ MODULE Consent ------------------------------
(***************************************************************************)
(* One reader's consent: the row of each subscription, the reader's own    *)
(* status, and the address on the suppression lists, under the handlers    *)
(* that write them: sign-up and confirmation (domain/src/signup.ts),       *)
(* one-click, console and API unsubscribes (unsubscribe.ts), the           *)
(* preference centre (preferences.ts), the console's override              *)
(* (subscriber-admin.ts), SES feedback (suppress.ts) and the operator's    *)
(* suppress and lift (admin.ts).                                           *)
(*                                                                         *)
(* No write of these is conditional and none is in a transaction.  A       *)
(* handler gets a row and puts back what it made of it, so everything that *)
(* another handler does in between is overwritten.  op[h] is one handler   *)
(* in flight, and any may die between two of its calls (Abandon).          *)
(*                                                                         *)
(* consent.requestedAt is a number: the instants are distinct.  Of the     *)
(* rest of a consent record nothing is modelled.  The reader exists.       *)
(***************************************************************************)
EXTENDS Naturals, FiniteSets

CONSTANTS
    Lists,          \* the organization's lists
    ClosedLists,    \* those with visibility "closed"
    Trigger,        \* the list whose sign-up starts the drip sequence
    Handlers,       \* concurrent handlers
    Surfaces,       \* the kinds of handlers in use
    MaxRequests     \* bound: instants taken for requestedAt

Kinds == {"signup", "confirm", "leave", "leaveAll", "join", "override", "feedback", "lift", "suppress"}

ASSUME ConsentAssumption ==
    /\ Surfaces \subseteq Kinds
    /\ ClosedLists \subseteq Lists
    /\ Trigger \in Lists
    /\ MaxRequests \in Nat \ {0}

VARIABLES
    sub,        \* sub[l]: the stored subscription
    acct,       \* subscriber.status
    orgSup,     \* source of the address's entry on the organization's list
    globalSup,  \* the address is on the global list
    clock,      \* instants taken so far
    tokens,     \* confirmation links mailed: the lists each one carries
    enrolled,   \* StartExecution calls made: the enrollment ids
    op,         \* op[h]: the handler in flight
    reported,   \* history: SES reported a bounce or complaint of the address
    left        \* history: lists left while nothing else was about to write them

stored == <<sub, acct, orgSup, globalSup>>
consentVars == <<sub, acct, orgSup, globalSup, clock, tokens, enrolled, op, reported, left>>

-----------------------------------------------------------------------------
(* Rows and handlers.                                                      *)

Statuses == {"pending", "confirmed", "unsubscribed", "bounced", "complained"}

\* requestedAt 0: the row has no consent record.
Row == [status : Statuses, req : 0..MaxRequests]
NoRow == [status |-> "none", req |-> 0]
HasRow(l) == sub[l] # NoRow

Phases == {"clear", "flip", "rows"}

\* A handler: the lists it has still to write, the rows it read and will put
\* back as it changed them, the link it was called with or will mail, the
\* status it sets, the enrollments it will ask for.
Op == [kind : Kinds, at : Phases, todo : SUBSET Lists, held : [Lists -> Row \cup {NoRow}],
       link : SUBSET Lists, to : Statuses, got : SUBSET (1..MaxRequests)]
NoOp == [kind |-> "none"]

NothingHeld == [l \in Lists |-> NoRow]

Handler(kind, phase, todo, to) ==
    [kind |-> kind, at |-> phase, todo |-> todo, held |-> NothingHeld,
     link |-> IF kind \in {"signup", "confirm"} THEN todo ELSE {}, to |-> to, got |-> {}]

InFlight(h) == op[h] # NoOp
Is(h, kind, phase) == InFlight(h) /\ op[h].kind = kind /\ op[h].at = phase
Holds(h, l) == InFlight(h) /\ op[h].held[l] # NoRow
HoldsNone(h) == op[h].held = NothingHeld

\* mayMail for marketing mail, on a list the reader confirmed.
MayMail == acct = "active" /\ orgSup = "none" /\ ~globalSup
Mailable(l) == sub[l].status = "confirmed" /\ MayMail

\* Handlers that may still make l confirmed again, or were asked to.
WillReopen(h, l) ==
    /\ InFlight(h)
    /\ op[h].kind \in {"signup", "confirm", "join", "override"}
    /\ l \in op[h].todo

Begin(h, o) == ~InFlight(h) /\ o.kind \in Surfaces /\ op' = [op EXCEPT ![h] = o]

Init ==
    /\ sub = [l \in Lists |-> NoRow]
    /\ acct = "active" /\ orgSup = "none" /\ globalSup = FALSE
    /\ clock = 0
    /\ tokens = {} /\ enrolled = {}
    /\ op = [h \in Handlers |-> NoOp]
    /\ reported = FALSE /\ left = {}

-----------------------------------------------------------------------------
(* Sign-up.                                                                *)

\* Every entry is of an unsubscribe or a sunset, and the organization's own.
Clearable == ~globalSup /\ orgSup # "manual"

\* signup and signupMany: the open lists of the form, then
\* clearOrRejectSuppression's read.  An address that may not return is rejected.
BeginSignup(h, ls) ==
    /\ ls # {} /\ ls \subseteq Lists \ ClosedLists
    /\ Clearable
    /\ Begin(h, Handler("signup", IF orgSup = "none" THEN "rows" ELSE "clear", ls, "pending"))
    /\ left' = left \ ls
    /\ UNCHANGED <<stored, clock, tokens, enrolled, reported>>

\* Mutant of ClearSuppression: the global entry goes too.
ClearsBoth(h) ==
    /\ Is(h, "signup", "clear")
    /\ orgSup' = "none" /\ globalSup' = FALSE
    /\ op' = [op EXCEPT ![h].at = "rows"]
    /\ UNCHANGED <<sub, acct, clock, tokens, enrolled, reported, left>>

\* suppression.remove, by key: whatever entry is there now.
ClearSuppression(h) ==
    /\ Is(h, "signup", "clear")
    /\ orgSup' = "none"
    /\ op' = [op EXCEPT ![h].at = "rows"]
    /\ UNCHANGED <<sub, acct, globalSup, clock, tokens, enrolled, reported, left>>

-----------------------------------------------------------------------------
(* The other handlers' first steps.                                        *)

\* GET /confirm with a link.
BeginConfirm(h, link) ==
    /\ link \in tokens
    /\ Begin(h, Handler("confirm", "rows", link, "confirmed"))
    /\ UNCHANGED <<stored, clock, tokens, enrolled, reported, left>>

\* unsubscribeFromList, and the preference centre's leaving of a list.
BeginLeave(h, l) ==
    /\ Begin(h, Handler("leave", "rows", {l}, "unsubscribed"))
    /\ UNCHANGED <<stored, clock, tokens, enrolled, reported, left>>

\* unsubscribeAllWithChanges: all rows are listed at once.
BeginLeaveAll(h) ==
    /\ LET rows == {l \in Lists : HasRow(l) /\ sub[l].status # "unsubscribed"}
       IN Begin(h, [Handler("leaveAll", "rows", rows, "unsubscribed") EXCEPT
               !.held = [l \in Lists |->
                   IF l \in rows THEN [sub[l] EXCEPT !.status = "unsubscribed"] ELSE NoRow]])
    /\ UNCHANGED <<stored, clock, tokens, enrolled, reported, left>>

\* applyPreferences, joining: not a closed list.
BeginJoin(h, l) ==
    /\ l \notin ClosedLists
    /\ Begin(h, Handler("join", "rows", {l}, "confirmed"))
    /\ left' = left \ {l}
    /\ UNCHANGED <<stored, clock, tokens, enrolled, reported>>

\* setSubscriptionStatus; "confirmed" takes the acknowledgement.
BeginOverride(h, l, status) ==
    /\ Begin(h, Handler("override", "rows", {l}, status))
    /\ left' = left \ {l}
    /\ UNCHANGED <<stored, clock, tokens, enrolled, reported>>

\* suppressAndFlip's first call.  The notice may name no list.
BeginFeedback(h, ls, status) ==
    /\ ls \subseteq Lists /\ Cardinality(ls) <= 1
    /\ status \in {"bounced", "complained"}
    /\ Begin(h, Handler("feedback", "flip", ls, status))
    /\ globalSup' = TRUE
    /\ reported' = TRUE
    /\ UNCHANGED <<sub, acct, orgSup, clock, tokens, enrolled, left>>

\* manualSuppress with source "manual", and liftSuppression: the organization's entry.
BeginSuppress(h) ==
    /\ Begin(h, Handler("suppress", "flip", {}, "pending"))
    /\ orgSup' = "manual"
    /\ UNCHANGED <<sub, acct, globalSup, clock, tokens, enrolled, reported, left>>

BeginLift(h) ==
    /\ Begin(h, Handler("lift", "flip", {}, "pending"))
    /\ orgSup' = "none"
    /\ UNCHANGED <<sub, acct, globalSup, clock, tokens, enrolled, reported, left>>

\* Their second call, on the subscriber.
FlipSubscriber(h) ==
    /\ \E kind \in {"feedback", "suppress", "lift"} : Is(h, kind, "flip")
    /\ acct' = IF op[h].kind = "lift" THEN "active" ELSE "suppressed"
    /\ op' = [op EXCEPT ![h] = IF op[h].todo = {} THEN NoOp ELSE [op[h] EXCEPT !.at = "rows"]]
    /\ UNCHANGED <<sub, orgSup, globalSup, clock, tokens, enrolled, reported, left>>

-----------------------------------------------------------------------------
(* A handler's rows: get, then put.                                        *)

\* Mutant of PassesBy: an old link confirms an unsubscribed row.
IgnoresLeaving(h, l) ==
    CASE op[h].kind = "join" -> sub[l].status \in {"confirmed", "bounced", "complained"}
      [] op[h].kind \in {"confirm", "leave", "feedback"} -> ~HasRow(l)
      [] OTHER -> FALSE

\* What the handler does not touch.  confirmOptInAny skips a missing or
\* unsubscribed row; so do the leavings in effect; applyPreferences neither
\* joins twice nor revives a bounced or complained row.
PassesBy(h, l) ==
    CASE op[h].kind = "confirm"  -> ~HasRow(l) \/ sub[l].status = "unsubscribed"
      [] op[h].kind = "join"     -> sub[l].status \in {"confirmed", "bounced", "complained"}
      [] op[h].kind = "leave"    -> ~HasRow(l)
      [] op[h].kind = "feedback" -> ~HasRow(l)
      [] OTHER -> FALSE

\* Mutant of TakesInstant: a confirmation leaves a row without one.
SignupStamps(h, l) == op[h].kind = "signup"

\* requestedAt is now for a new request, and for a confirmation of a row
\* without one; every other write keeps it.
TakesInstant(h, l) ==
    \/ op[h].kind = "signup"
    \/ op[h].to = "confirmed" /\ sub[l].req = 0

\* The handler is over when nothing is left to do but what Finish does.
Rest(o) ==
    IF o.todo = {} /\ o.kind \notin {"confirm", "leaveAll", "signup"} THEN NoOp ELSE o

ReadRow(h, l) ==
    /\ InFlight(h) /\ op[h].at = "rows" /\ l \in op[h].todo /\ HoldsNone(h)
    /\ IF PassesBy(h, l)
       THEN /\ op' = [op EXCEPT ![h] = Rest([op[h] EXCEPT !.todo = op[h].todo \ {l}])]
            /\ UNCHANGED clock
       ELSE /\ TakesInstant(h, l) => clock < MaxRequests
            /\ clock' = IF TakesInstant(h, l) THEN clock + 1 ELSE clock
            /\ op' = [op EXCEPT ![h].held[l] =
                  [status |-> op[h].to, req |-> IF TakesInstant(h, l) THEN clock + 1 ELSE sub[l].req]]
    /\ UNCHANGED <<stored, tokens, enrolled, reported, left>>

\* subscriptions.put, the whole row.
PutRow(h, l) ==
    /\ Holds(h, l)
    /\ sub' = [sub EXCEPT ![l] = op[h].held[l]]
    /\ LET got == IF op[h].kind = "confirm" /\ l = Trigger THEN {op[h].held[l].req} ELSE {}
       IN op' = [op EXCEPT ![h] = Rest([op[h] EXCEPT
              !.todo = op[h].todo \ {l},
              !.held = [op[h].held EXCEPT ![l] = NoRow],
              !.got = op[h].got \cup got])]
    /\ left' = IF /\ op[h].kind \in {"leave", "leaveAll"}
                  /\ \A h2 \in Handlers : ~WillReopen(h2, l)
               THEN left \cup {l} ELSE left
    /\ UNCHANGED <<acct, orgSup, globalSup, clock, tokens, enrolled, reported>>

\* What comes after the rows: the link is mailed; the enrollments are started,
\* best effort, under names that make a repetition a no-op; the address goes on
\* the organization's list, over any entry it has there.
Finish(h) ==
    /\ InFlight(h) /\ op[h].todo = {}
    /\ \/ op[h].kind = "signup" /\ tokens' = tokens \cup {op[h].link} /\ UNCHANGED <<orgSup, enrolled>>
       \/ op[h].kind = "confirm" /\ enrolled' = enrolled \cup op[h].got /\ UNCHANGED <<orgSup, tokens>>
       \/ op[h].kind = "leaveAll" /\ orgSup' = "unsubscribe" /\ UNCHANGED <<enrolled, tokens>>
    /\ op' = [op EXCEPT ![h] = NoOp]
    /\ UNCHANGED <<sub, acct, globalSup, clock, reported, left>>

\* The function dies, or a call throws; a failed start of an enrollment is swallowed.
Abandon(h) ==
    /\ InFlight(h)
    /\ op' = [op EXCEPT ![h] = NoOp]
    /\ UNCHANGED <<stored, clock, tokens, enrolled, reported, left>>

\* A confirmation link is good for three days.
ExpireLink(link) ==
    /\ link \in tokens
    /\ tokens' = tokens \ {link}
    /\ UNCHANGED <<stored, clock, enrolled, op, reported, left>>

HandlerStep(h) ==
    \/ \E ls \in SUBSET Lists : BeginSignup(h, ls)
    \/ ClearSuppression(h)
    \/ \E link \in tokens : BeginConfirm(h, link)
    \/ \E l \in Lists : BeginLeave(h, l)
    \/ BeginLeaveAll(h)
    \/ \E l \in Lists : BeginJoin(h, l)
    \/ \E l \in Lists, status \in Statuses : BeginOverride(h, l, status)
    \/ \E ls \in SUBSET Lists, status \in Statuses : BeginFeedback(h, ls, status)
    \/ BeginSuppress(h)
    \/ BeginLift(h)
    \/ FlipSubscriber(h)
    \/ \E l \in Lists : ReadRow(h, l)
    \/ \E l \in Lists : PutRow(h, l)
    \/ Finish(h)
    \/ Abandon(h)

Next == (\E h \in Handlers : HandlerStep(h)) \/ (\E link \in tokens : ExpireLink(link))

Spec == Init /\ [][Next]_consentVars

-----------------------------------------------------------------------------
(* Properties.                                                             *)

TypeOK ==
    /\ sub \in [Lists -> Row \cup {NoRow}]
    /\ acct \in {"active", "suppressed"}
    /\ orgSup \in {"none", "unsubscribe", "manual"}
    /\ globalSup \in BOOLEAN /\ reported \in BOOLEAN
    /\ clock \in 0..MaxRequests
    /\ tokens \subseteq SUBSET Lists
    /\ enrolled \subseteq 1..MaxRequests
    /\ op \in [Handlers -> Op \cup {NoOp}]
    /\ left \subseteq Lists

\* Leaving holds (preferences.ts, "unsubscribing always works").  A leaving
\* that overlapped no handler about to confirm or request the same list makes
\* the reader unmailable on it, and old confirmation links, late bounces and
\* lifted suppressions do not change that: only a new request does.
LeavingHolds == \A l \in left : ~Mailable(l)

\* A bounce or complaint holds (suppress.ts): from the first write of its
\* record on, no sign-up, confirmation, preference, override or lift, however
\* they interleave, makes the reader mailable on any list.
FeedbackHolds == reported => \A l \in Lists : ~Mailable(l)
=============================================================================
