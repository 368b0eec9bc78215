------------------------------ MODULE Identity ------------------------------
(***************************************************************************)
(* Who an address belongs to: subscriber records, the reservation of their *)
(* addresses, the pointers from external ids, and the suppression lists,   *)
(* under sign-up (domain/src/signup.ts), the identity webhook and the      *)
(* provisioning of accounts (identity.ts), erasure (privacy.ts), imports   *)
(* (import-run.ts), SES feedback (suppress.ts) and the console's edit of a *)
(* record (subscriber-admin.ts), over the store of adapters-aws/dynamo.ts. *)
(*                                                                         *)
(* Records are found by address in an index that lags behind the table.    *)
(* Only the reservation, an erasure and an edit write on a condition; the  *)
(* others put back the record they read, as they changed it.  op[h] is one *)
(* handler in flight, and any may die between two of its calls (Abandon).  *)
(* A get reads the latest record; what else an erasure removes (the rows   *)
(* of subscriptions, the entitlement, events) is not modelled.             *)
(***************************************************************************)
EXTENDS Naturals, FiniteSets

CONSTANTS
    Mails,      \* addresses
    Subs,       \* ids of records (randomUUID)
    Exts,       \* external ids of the user pool
    Handlers,   \* concurrent handlers
    MaxRev,     \* bound: writes of one record
    Requests,   \* bound: requests
    NoSub, NoExt, Erased

ASSUME IdentityAssumption ==
    /\ MaxRev \in Nat /\ Requests \in Nat
    /\ NoSub \notin Subs /\ NoExt \notin Exts /\ Erased \notin Mails

VARIABLES
    rec,        \* rec[s]: the stored record
    idx,        \* idx[s]: its image in the index by address
    resv,       \* resv[m]: the record that the address is reserved for
    ptr,        \* ptr[x]: the record that the external id points to
    barred,     \* addresses with an entry that no sign-up clears
    op,         \* op[h]: the handler in flight
    begun,      \* requests so far
    loose,      \* history: addresses whose reservation a put went past (Loosened)
    complained, \* history: records whose complaint no writer overlapped
    erased      \* history: records whose erasure is complete and settled

table == <<rec, idx, resv, ptr, barred>>
historyVars == <<loose, complained, erased>>
vars == <<table, op, begun, historyVars>>

-----------------------------------------------------------------------------
(* Records and handlers.                                                   *)

NoRec == [mail |-> Erased, ext |-> NoExt, status |-> "none", rev |-> 0]
Rec == [mail : Mails \cup {Erased}, ext : Exts \cup {NoExt},
        status : {"active", "suppressed"}, rev : 1..MaxRev] \cup {NoRec}

Live(s) == rec[s].mail \in Mails

\* A handler: the address and external id it was called with, the record it
\* found or will create, and the row it read of it (NoRec: none).
Kinds == {"signup", "upsert", "import", "delete", "erase", "complaint", "provision", "edit"}
Places == {"find", "reserve", "pointer", "get", "carry", "put", "putPointer", "dropPointer",
           "release", "bar"}
Op == [kind : Kinds, at : Places, mail : Mails \cup {Erased}, ext : Exts \cup {NoExt},
       sub : Subs \cup {NoSub}, snap : Rec]
NoOp == [kind |-> "none"]

Request(kind, place, m, x, s) ==
    [kind |-> kind, at |-> place, mail |-> m, ext |-> x, sub |-> s, snap |-> NoRec]

InFlight(h) == op[h] # NoOp
Is(h, kind, place) == InFlight(h) /\ op[h].kind = kind /\ op[h].at = place
AtPlace(h, place) == InFlight(h) /\ op[h].at = place

Begin(h, o) ==
    /\ ~InFlight(h) /\ begun < Requests
    /\ op' = [op EXCEPT ![h] = o]
    /\ begun' = begun + 1
Continue(h, place) == op' = [op EXCEPT ![h].at = place]
End(h) == op' = [op EXCEPT ![h] = NoOp]

\* The handler goes on with record s as it read it; writes of a record are bounded.
Take(h, s, row, place) ==
    /\ row.rev < MaxRev
    /\ op' = [op EXCEPT ![h].sub = s, ![h].snap = row, ![h].at = place]

\* findByEmail: some record whose image has the address.
Found(m) == {s \in Subs : idx[s].mail = m /\ idx[s] # NoRec}

\* randomUUID: an id that no record has and no handler has drawn.
Fresh(s) ==
    /\ rec[s] = NoRec
    /\ \A m \in Mails : resv[m] # s
    /\ \A h \in Handlers : InFlight(h) => op[h].sub # s

\* A handler that may still write what it read of s.
Writer(h, s) == InFlight(h) /\ op[h].sub = s /\ op[h].kind # "erase"

Init ==
    /\ rec = [s \in Subs |-> NoRec] /\ idx = rec
    /\ resv = [m \in Mails |-> NoSub]
    /\ ptr = [x \in Exts |-> NoSub]
    /\ barred = {}
    /\ op = [h \in Handlers |-> NoOp] /\ begun = 0
    /\ loose = {} /\ complained = {} /\ erased = {}

-----------------------------------------------------------------------------
(* The handlers' requests, with their first checks.                        *)

\* signup: an address on a suppression list is rejected; importWithMapping skips it.
BeginByMail(h, kind, m) ==
    /\ kind \in {"signup", "import"} => m \notin barred
    /\ Begin(h, Request(kind, "find", m, NoExt, NoSub))
    /\ UNCHANGED <<table, historyVars>>

\* applyIdentitySync, an upsert or a delete.
BeginSync(h, kind, m, x) ==
    /\ Begin(h, Request(kind, "pointer", m, x, NoSub))
    /\ UNCHANGED <<table, historyVars>>

\* provisionSubscriberAccount and setSubscriberAttributes are called by id.
BeginById(h, kind, s, x) ==
    /\ rec[s] # NoRec
    /\ Begin(h, Request(kind, "get", Erased, x, s))
    /\ UNCHANGED <<table, historyVars>>

\* suppressAndFlip, of mail sent to an address of s; its first call.  The address is
\* the notification's: the record may have had it once (which ones is not recorded).
BeginComplaint(h, s, m) ==
    /\ rec[s] # NoRec
    /\ Begin(h, Request("complaint", "get", m, NoExt, s))
    /\ barred' = barred \cup {m}
    /\ complained' = IF /\ rec[s].mail = m /\ idx[s] = rec[s]
                        /\ \A h2 \in Handlers : ~Writer(h2, s)
                     THEN complained \cup {s} ELSE complained
    /\ UNCHANGED <<rec, idx, resv, ptr, loose, erased>>

-----------------------------------------------------------------------------
(* Reads.                                                                  *)

\* findByExternalId's first call.
ReadPointer(h) ==
    /\ AtPlace(h, "pointer")
    /\ LET s == ptr[op[h].ext]
       IN IF s # NoSub THEN op' = [op EXCEPT ![h].sub = s, ![h].at = "get"]
          ELSE IF op[h].kind = "upsert" THEN Continue(h, "find") ELSE End(h)
    /\ UNCHANGED <<table, begun, historyVars>>

\* A get of the record.  A delete goes on as an erasure of its address (the
\* erased one is erased again, to no effect).  A linked record needs no account,
\* an erased one is refused one (ensureAccount), a suppressed one needs no flip.
GetRecord(h) ==
    /\ AtPlace(h, "get")
    /\ LET s == op[h].sub
           row == rec[s]
       IN CASE op[h].kind = "upsert" ->
                 IF row = NoRec THEN op' = [op EXCEPT ![h].sub = NoSub, ![h].at = "find"]
                 ELSE Take(h, s, row, IF row.mail = op[h].mail THEN "put" ELSE "carry")
            [] op[h].kind = "delete" ->
                 IF row.mail = Erased THEN End(h)
                 ELSE op' = [op EXCEPT ![h] = Request("erase", "find", row.mail, NoExt, NoSub)]
            [] op[h].kind = "provision" ->
                 IF row.ext # NoExt \/ row.mail = Erased THEN End(h) ELSE Take(h, s, row, "put")
            [] op[h].kind = "complaint" ->
                 IF row.status # "active" THEN End(h) ELSE Take(h, s, row, "put")
            [] op[h].kind = "edit" -> Take(h, s, row, "put")
    /\ UNCHANGED <<table, begun, historyVars>>

\* findByEmail.  Without a record, a sign-up reserves the address, an upsert or
\* an import creates a record at once, and an erasure reports that none was found.
FindByMail(h) ==
    /\ AtPlace(h, "find")
    /\ IF Found(op[h].mail) # {}
       THEN \E s \in Found(op[h].mail) :
                IF op[h].kind = "signup" THEN End(h) ELSE Take(h, s, idx[s], "put")
       ELSE IF op[h].kind = "erase" THEN End(h)
       ELSE \E s \in Subs :
                Fresh(s) /\ Take(h, s, NoRec, IF op[h].kind = "signup" THEN "reserve" ELSE "put")
    /\ UNCHANGED <<table, begun, historyVars>>

-----------------------------------------------------------------------------
(* Reservations.                                                           *)

\* Mutant of Reserve: the reservation is put without its condition.
ReserveAnyway(h) ==
    /\ AtPlace(h, "reserve")
    /\ resv' = [resv EXCEPT ![op[h].mail] = op[h].sub]
    /\ Continue(h, "put")
    /\ UNCHANGED <<rec, idx, ptr, barred, begun, historyVars>>

\* reserveEmail; who loses goes on with the holder's record, or fails without
\* one, and writes neither.
Reserve(h) ==
    /\ AtPlace(h, "reserve")
    /\ IF resv[op[h].mail] = NoSub
       THEN resv' = [resv EXCEPT ![op[h].mail] = op[h].sub] /\ Continue(h, "put")
       ELSE End(h) /\ UNCHANGED resv
    /\ UNCHANGED <<rec, idx, ptr, barred, begun, historyVars>>

\* releaseEmail, of the address that the eraser read, whoever holds it.
Release(h) ==
    /\ AtPlace(h, "release")
    /\ resv' = [resv EXCEPT ![op[h].snap.mail] = NoSub]
    /\ Continue(h, "bar")
    /\ UNCHANGED <<rec, idx, ptr, barred, begun, historyVars>>

-----------------------------------------------------------------------------
(* Writes of a record.                                                     *)

\* Mutant of Anonymized: the external id stays.
AnonymizedInPart(row) == [row EXCEPT !.mail = Erased, !.status = "suppressed"]

Anonymized(row) == [row EXCEPT !.mail = Erased, !.ext = NoExt, !.status = "suppressed"]

\* A new record is active; an existing one keeps its status.
Created(o) == [o.snap EXCEPT !.mail = o.mail, !.status = "active"]

\* What a handler makes of the row it read.
Changed(o) ==
    CASE o.kind = "erase"     -> Anonymized(o.snap)
      [] o.kind = "signup"    -> Created(o)
      [] o.kind = "import"    -> IF o.snap = NoRec THEN Created(o) ELSE o.snap
      [] o.kind = "upsert"    ->
           [IF o.snap = NoRec THEN Created(o) ELSE o.snap EXCEPT !.mail = o.mail, !.ext = o.ext]
      [] o.kind = "complaint" -> [o.snap EXCEPT !.status = "suppressed"]
      [] o.kind = "provision" -> [o.snap EXCEPT !.ext = o.ext]
      [] o.kind = "edit"      -> o.snap

\* The store numbers each write after the row that was read.
Written(o) == [Changed(o) EXCEPT !.rev = @ + 1]

\* An erasure and an edit are put only over the revision they read.
Conflict(h) == op[h].kind \in {"erase", "edit"} /\ rec[op[h].sub].rev # op[h].snap.rev

\* A put that gives the record another address, and one that takes its revision
\* back, leave the reservations behind.
Loosened(o) ==
    ((IF Written(o).mail # rec[o.sub].mail /\ o.kind # "signup" THEN {Written(o).mail} ELSE {})
        \cup (IF Written(o).rev <= rec[o.sub].rev THEN {o.snap.mail} ELSE {})) \ {Erased}

\* subscribers.put, of the record.
PutRecord(h) ==
    /\ AtPlace(h, "put") /\ ~Conflict(h)
    /\ LET o == op[h]
           next == Written(o)
       IN /\ rec' = [rec EXCEPT ![o.sub] = next]
          /\ IF o.kind = "erase" THEN Continue(h, IF o.snap.ext = NoExt THEN "release" ELSE "dropPointer")
             ELSE IF next.ext # NoExt THEN Continue(h, "putPointer") ELSE End(h)
          /\ loose' = loose \cup Loosened(o)
          /\ complained' = IF next.mail = Erased THEN complained \ {o.sub} ELSE complained
    /\ UNCHANGED <<idx, resv, ptr, barred, begun, erased>>

PutConflict(h) ==
    /\ AtPlace(h, "put") /\ Conflict(h)
    /\ End(h)
    /\ UNCHANGED <<table, begun, historyVars>>

\* Its second item, when the record has an external id.
PutPointer(h) ==
    /\ AtPlace(h, "putPointer")
    /\ ptr' = [ptr EXCEPT ![Written(op[h]).ext] = op[h].sub]
    /\ End(h)
    /\ UNCHANGED <<rec, idx, resv, barred, begun, historyVars>>

DropPointer(h) ==
    /\ AtPlace(h, "dropPointer")
    /\ ptr' = [ptr EXCEPT ![op[h].snap.ext] = NoSub]
    /\ Continue(h, "release")
    /\ UNCHANGED <<rec, idx, resv, barred, begun, historyVars>>

\* Nothing but its tombstones is left of s, and no handler has it in hand.
Settled(s) ==
    /\ rec[s].mail = Erased /\ idx[s] = rec[s]
    /\ \A x \in Exts : ptr[x] # s
    /\ \A h \in Handlers : ~Writer(h, s)

\* The suppression entry, and the erasure reports success.
Bar(h) ==
    /\ AtPlace(h, "bar")
    /\ barred' = barred \cup {op[h].mail}
    /\ erased' = IF Settled(op[h].sub) THEN erased \cup {op[h].sub} ELSE erased
    /\ End(h)
    /\ UNCHANGED <<rec, idx, resv, ptr, begun, loose, complained>>

\* Mutant of Carry: the old address's entry is moved, not copied.
CarryMoves(h) ==
    /\ AtPlace(h, "carry")
    /\ barred' = IF op[h].snap.mail \in barred
                 THEN (barred \ {op[h].snap.mail}) \cup {op[h].mail} ELSE barred
    /\ Continue(h, "put")
    /\ UNCHANGED <<rec, idx, resv, ptr, begun, historyVars>>

\* carrySuppressionForward: the old address's entries, read at once, are added.
Carry(h) ==
    /\ AtPlace(h, "carry")
    /\ barred' = IF op[h].snap.mail \in barred THEN barred \cup {op[h].mail} ELSE barred
    /\ Continue(h, "put")
    /\ UNCHANGED <<rec, idx, resv, ptr, begun, historyVars>>

\* The function dies, or a call throws.
Abandon(h) ==
    /\ InFlight(h)
    /\ End(h)
    /\ UNCHANGED <<table, begun, historyVars>>

\* The index catches up with a record.
Propagate(s) ==
    /\ idx[s] # rec[s]
    /\ idx' = [idx EXCEPT ![s] = rec[s]]
    /\ UNCHANGED <<rec, resv, ptr, barred, op, begun, historyVars>>

BeginStep(h) ==
    \/ \E kind \in {"signup", "import", "erase"}, m \in Mails : BeginByMail(h, kind, m)
    \/ \E m \in Mails, x \in Exts : BeginSync(h, "upsert", m, x)
    \/ \E x \in Exts : BeginSync(h, "delete", Erased, x)
    \/ \E s \in Subs, x \in Exts : BeginById(h, "provision", s, x)
    \/ \E s \in Subs : BeginById(h, "edit", s, NoExt)
    \/ \E s \in Subs, m \in Mails : BeginComplaint(h, s, m)

HandlerStep(h) ==
    \/ BeginStep(h)
    \/ ReadPointer(h) \/ GetRecord(h) \/ FindByMail(h)
    \/ Reserve(h) \/ Release(h)
    \/ PutRecord(h) \/ PutConflict(h) \/ PutPointer(h) \/ DropPointer(h)
    \/ Bar(h) \/ Carry(h) \/ Abandon(h)

Next == (\E h \in Handlers : HandlerStep(h)) \/ (\E s \in Subs : Propagate(s))

Spec == Init /\ [][Next]_vars

-----------------------------------------------------------------------------
(* Properties.                                                             *)

TypeOK ==
    /\ rec \in [Subs -> Rec] /\ idx \in [Subs -> Rec]
    /\ resv \in [Mails -> Subs \cup {NoSub}]
    /\ ptr \in [Exts -> Subs \cup {NoSub}]
    /\ barred \subseteq Mails
    /\ begun \in 0..Requests
    /\ op \in [Handlers -> Op \cup {NoOp}]
    /\ loose \subseteq Mails
    /\ complained \subseteq Subs /\ erased \subseteq Subs

\* One record for an address (signup.ts, #194): however sign-ups, erasures and
\* feedback interleave and however far the index lags, two live records share an
\* address only after the webhook, an import or a stale write put it there, or
\* took back the revision of a record that had it.
OneRecordPerAddress ==
    \A s, t \in Subs : s # t /\ Live(s) /\ rec[s].mail = rec[t].mail => rec[s].mail \in loose

\* A complaint follows its reader (identity.ts, #193): whatever the address is
\* changed to and back, by any writer, the current one is on a suppression list.
ComplaintFollows == \A s \in complained : rec[s].mail \in barred

\* An erasure stays done (privacy.ts, #164): once it has completed and settled,
\* no late write, webhook or pointer brings the person back.
ErasureHolds == \A s \in erased : ~Live(s)

\* privacy.ts:103-106: an erasure that is about to report success has not been
\* undone by a writer that landed in between.
ReportIsTrue == \A h \in Handlers : Is(h, "erase", "bar") => ~Live(op[h].sub)
=============================================================================
