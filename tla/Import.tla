------------------------------- MODULE Import -------------------------------
(***************************************************************************)
(* An import job (domain/src/import-job.ts, import-run.ts): the API claims *)
(* a batch and invokes the importer, which walks the rows of the file,     *)
(* writes a subscription for each and a pointer from the batch to it, and  *)
(* closes the batch.  The function is invoked asynchronously: one that     *)
(* throws, or is killed, is invoked again from the first row.              *)
(*                                                                         *)
(* Meanwhile the readers of the file sign up, confirm, leave and return.   *)
(* Those handlers put rows unconditionally (Consent has them in full); the *)
(* job alone puts on condition of the revision it read.  The store counts  *)
(* the next revision from the row it is given, so a handler that builds a  *)
(* new row takes the count back to 1.                                      *)
(*                                                                         *)
(* Each line of the file is one known reader and one list.  Rows without a *)
(* revision, written before there were any, are left out, and so are the   *)
(* subscribers' records (Identity) and dry runs.                           *)
(***************************************************************************)
EXTENDS Naturals

CONSTANTS
    LastLine,       \* the file's lines are 1..LastLine, one reader each
    Wanted,         \* Wanted[r]: what the line asks for; "unsubscribed" is a decline
    Attempts,       \* conditional puts of one row
    Retries,        \* invocations after a failed one
    Handlers,       \* concurrent handlers of the readers
    Surfaces,       \* the kinds of handlers in use
    Budget          \* bound: Budget[d] disturbances of each kind, Budget["any"] in all

Readers == 1..LastLine
Disturbances == {"throw", "kill", "write", "suppress", "any"}
Kinds == {"signup", "join", "override", "confirm", "leave"}
Statuses == {"pending", "confirmed", "unsubscribed"}

ASSUME ImportAssumption ==
    /\ LastLine \in Nat \ {0} /\ Attempts \in Nat \ {0} /\ Retries \in Nat
    /\ Wanted \in [Readers -> Statuses]
    /\ Surfaces \subseteq Kinds
    /\ Budget \in [Disturbances -> Nat]

VARIABLES
    sub,        \* sub[r]: the stored subscription
    suppressed, \* readers whose address is suppressed
    batch,      \* the batch's record
    pointers,   \* readers the batch has a pointer to
    api,        \* where the request stands
    due,        \* the importer is to be invoked
    retried,    \* invocations that were repeats
    job,        \* the invocation in progress
    held,       \* held[h]: the handler in flight and the row it read
    own,        \* history: rows put by the job and by nobody since
    slipped,    \* history: the job's row lost revisions since it was read
    passed,     \* history: readers the job had a reason to pass by
    left,       \* what is left of Budget
    readable    \* the file has a row that can be read

stores == <<sub, suppressed, batch, pointers>>
ghosts == <<own, slipped, passed, left, readable>>
vars == <<stores, api, due, retried, job, held, ghosts>>

-----------------------------------------------------------------------------
(* Rows, the batch and the job.                                            *)

\* rev 0: there is no row.
NoRow == [status |-> "none", rev |-> 0]

\* A record without a status reads as completed (entities.ts, ImportBatch).
NoBatch == [status |-> "none", count |-> 0]
Closed == batch.status \in {"completed", "failed"}

\* line: the row in hand.  seen, tries: the revision read for it and the puts
\* that failed.  count: the report.  found, outcome: closeBatch's record and
\* status.  caught: the error is thrown again.
Idle == [at |-> "idle", line |-> 1, seen |-> 0, tries |-> 0, count |-> 0,
         found |-> NoBatch, outcome |-> "completed", caught |-> FALSE]
At(place) == job.at = place
Goto(place) == job' = [job EXCEPT !.at = place]
Line == job.line

\* On to the next line; the report counts it whether or not a row was written.
NextLine(counted) ==
    job' = [Idle EXCEPT
        !.at = IF Line < LastLine THEN "check" ELSE "counts",
        !.line = IF Line < LastLine THEN Line + 1 ELSE Line,
        !.count = IF counted THEN job.count + 1 ELSE job.count]

Spend(d) ==
    /\ left[d] > 0 /\ left["any"] > 0
    /\ left' = [left EXCEPT ![d] = @ - 1, !["any"] = @ - 1]
    /\ UNCHANGED readable

\* A put of r's row by anybody.
Write(r, status, rev) ==
    /\ sub' = [sub EXCEPT ![r] = [status |-> status, rev |-> rev]]
    /\ slipped' = (slipped \/ (r = Line /\ rev <= sub[r].rev))

Nobody == [kind |-> "none", reader |-> 1, row |-> NoRow]

Init ==
    /\ sub \in [Readers -> {NoRow, [status |-> "confirmed", rev |-> 2]}]
    /\ suppressed = {}
    /\ batch = NoBatch /\ pointers = {}
    /\ api = "start" /\ due = FALSE /\ retried = 0
    /\ job = Idle
    /\ held = [h \in Handlers |-> Nobody]
    /\ own = {} /\ slipped = FALSE /\ passed = {}
    /\ left = Budget
    /\ readable \in BOOLEAN

-----------------------------------------------------------------------------
(* importAsyncHandler.                                                     *)

\* startImportJob: the batch is running before the job is invoked.
ClaimBatch ==
    /\ api = "start"
    /\ batch' = [status |-> "running", count |-> 0]
    /\ api' = "claimed"
    /\ UNCHANGED <<sub, suppressed, pointers, due, retried, job, held, ghosts>>

InvokeImporter ==
    /\ api = "claimed"
    /\ api' = "invoked" /\ due' = TRUE
    /\ UNCHANGED <<stores, retried, job, held, ghosts>>

-----------------------------------------------------------------------------
(* runImportJob and importWithMapping.                                     *)

BeginJob ==
    /\ At("idle") /\ due
    /\ due' = FALSE
    /\ Goto("open")
    /\ UNCHANGED <<stores, api, retried, held, ghosts>>

\* A file with no readable rows: nothing is written, the batch is closed.
Unreadable ==
    /\ At("open") /\ ~readable
    /\ job' = [job EXCEPT !.at = "findBatch", !.outcome = "failed"]
    /\ UNCHANGED <<stores, api, due, retried, held, ghosts>>

\* putBatch before the first row: a new record, which has no status.
OpenBatch ==
    /\ At("open") /\ readable
    /\ batch' = [status |-> "absent", count |-> 0]
    /\ Goto("check")
    /\ UNCHANGED <<sub, suppressed, pointers, api, due, retried, held, ghosts>>

\* suppression.isSuppressed; a decline is put without a read.
CheckLine ==
    /\ At("check")
    /\ IF Line \in suppressed
       THEN NextLine(FALSE) /\ passed' = passed \cup {Line}
       ELSE Goto(IF Wanted[Line] = "unsubscribed" THEN "put" ELSE "read") /\ UNCHANGED passed
    /\ UNCHANGED <<stores, api, due, retried, held, own, slipped, left, readable>>

\* Mutant of ReadRow: only the first read looks at the status.
RereadsRevision ==
    /\ At("read")
    /\ IF sub[Line].status = "unsubscribed" /\ job.tries = 0
       THEN NextLine(TRUE) /\ passed' = passed \cup {Line}
       ELSE job' = [job EXCEPT !.at = "put", !.seen = sub[Line].rev] /\ UNCHANGED passed
    /\ slipped' = FALSE
    /\ UNCHANGED <<stores, api, due, retried, held, own, left, readable>>

\* Mutant of ReadRow: a row that is already as wanted needs no put.
SkipsWanted ==
    /\ At("read")
    /\ IF sub[Line].status \in {"unsubscribed", Wanted[Line]}
       THEN NextLine(TRUE) /\ passed' = passed \cup {Line}
       ELSE job' = [job EXCEPT !.at = "put", !.seen = sub[Line].rev] /\ UNCHANGED passed
    /\ slipped' = FALSE
    /\ UNCHANGED <<stores, api, due, retried, held, own, left, readable>>

\* writeSubscriptions reads the row, the first time or after a lost race: one
\* that was unsubscribed is not touched.
ReadRow ==
    /\ At("read")
    /\ IF sub[Line].status = "unsubscribed"
       THEN NextLine(TRUE) /\ passed' = passed \cup {Line}
       ELSE job' = [job EXCEPT !.at = "put", !.seen = sub[Line].rev] /\ UNCHANGED passed
    /\ slipped' = FALSE
    /\ UNCHANGED <<stores, api, due, retried, held, own, left, readable>>

\* The decline's put is unconditional, of a new row.
PutDecline ==
    /\ At("put") /\ Wanted[Line] = "unsubscribed"
    /\ Write(Line, "unsubscribed", 1)
    /\ own' = own \cup {Line}
    /\ Goto("point")
    /\ UNCHANGED <<suppressed, batch, pointers, api, due, retried, held, passed, left, readable>>

\* put with ifRev: the next revision is counted from the one that was read.
PutGuarded ==
    /\ At("put") /\ Wanted[Line] # "unsubscribed"
    /\ sub[Line].rev = job.seen
    /\ Write(Line, Wanted[Line], job.seen + 1)
    /\ own' = own \cup {Line}
    /\ Goto("point")
    /\ UNCHANGED <<suppressed, batch, pointers, api, due, retried, held, passed, left, readable>>

\* ConcurrentModificationError: read again, or leave the row.
PutRefused ==
    /\ At("put") /\ Wanted[Line] # "unsubscribed"
    /\ sub[Line].rev # job.seen
    /\ IF job.tries + 1 < Attempts
       THEN job' = [job EXCEPT !.at = "read", !.tries = @ + 1] /\ UNCHANGED passed
       ELSE NextLine(TRUE) /\ passed' = passed \cup {Line}
    /\ UNCHANGED <<stores, api, due, retried, held, own, slipped, left, readable>>

\* importBatches.addRow.
AddPointer ==
    /\ At("point")
    /\ pointers' = pointers \cup {Line}
    /\ NextLine(TRUE)
    /\ UNCHANGED <<sub, suppressed, batch, api, due, retried, held, ghosts>>

\* putBatch after the last row.
PutCounts ==
    /\ At("counts")
    /\ batch' = [status |-> "absent", count |-> job.count]
    /\ Goto("findBatch")
    /\ UNCHANGED <<sub, suppressed, pointers, api, due, retried, held, ghosts>>

\* closeBatch: the record is read, then put with a status.
FindBatch ==
    /\ At("findBatch")
    /\ job' = [job EXCEPT !.at = "close", !.found = batch]
    /\ UNCHANGED <<stores, api, due, retried, held, ghosts>>

\* The invocation failed: Lambda invokes it again, or drops the event.
Fail ==
    /\ job' = Idle
    /\ IF retried < Retries THEN due' = TRUE /\ retried' = retried + 1
       ELSE UNCHANGED <<due, retried>>

\* Mutant of CloseBatch: the status that was found wins over the outcome.
KeepsFoundStatus ==
    /\ At("close")
    /\ batch' = IF job.found.status = "absent" THEN [job.found EXCEPT !.status = job.outcome]
                ELSE job.found
    /\ IF job.caught THEN Fail ELSE job' = Idle /\ UNCHANGED <<due, retried>>
    /\ UNCHANGED <<sub, suppressed, pointers, api, held, ghosts>>

CloseBatch ==
    /\ At("close")
    /\ batch' = [job.found EXCEPT !.status = job.outcome]
    /\ IF job.caught THEN Fail ELSE job' = Idle /\ UNCHANGED <<due, retried>>
    /\ UNCHANGED <<sub, suppressed, pointers, api, held, ghosts>>

\* Mutant of Throw: an error in a row is caught there, and the next row taken.
SkipsFailedRow ==
    /\ ~At("idle") /\ Spend("throw")
    /\ IF job.caught THEN Fail
       ELSE /\ IF job.at \in {"check", "read", "put", "point"} THEN NextLine(FALSE)
               ELSE job' = [job EXCEPT !.at = "findBatch", !.outcome = "failed", !.caught = TRUE]
            /\ UNCHANGED <<due, retried>>
    /\ UNCHANGED <<stores, api, held, own, slipped, passed>>

\* A call throws: the batch is closed as failed, and the error thrown again.
\* One that throws while that is done ends the invocation.
Throw ==
    /\ ~At("idle") /\ Spend("throw")
    /\ IF job.caught THEN Fail
       ELSE /\ job' = [job EXCEPT !.at = "findBatch", !.outcome = "failed", !.caught = TRUE]
            /\ UNCHANGED <<due, retried>>
    /\ UNCHANGED <<stores, api, held, own, slipped, passed>>

\* The function times out or runs out of memory.
Kill ==
    /\ ~At("idle") /\ Spend("kill")
    /\ Fail
    /\ UNCHANGED <<stores, api, held, own, slipped, passed>>

JobStep ==
    \/ BeginJob \/ Unreadable \/ OpenBatch \/ CheckLine \/ ReadRow
    \/ PutDecline \/ PutGuarded \/ PutRefused \/ AddPointer
    \/ PutCounts \/ FindBatch \/ CloseBatch

-----------------------------------------------------------------------------
(* The readers, through Consent's handlers.                                *)

\* Which rows a handler goes on to write.
Admits(kind, row) ==
    CASE kind \in {"signup", "override"} -> TRUE
      [] kind = "join"    -> row.status # "confirmed"
      [] kind = "confirm" -> row.status \in {"pending", "confirmed"}
      [] kind = "leave"   -> row # NoRow

\* The statuses it puts.
Puts(kind) ==
    CASE kind = "signup" -> {"pending"}
      [] kind \in {"join", "confirm"} -> {"confirmed"}
      [] kind = "leave" -> {"unsubscribed"}
      [] kind = "override" -> Statuses

\* pendingSubscription, applyPreferences' join and setSubscriptionStatus build a
\* new row, whose count starts again; the others copy the one they read.
RevisionOf(kind, row) == IF kind \in {"signup", "join", "override"} THEN 1 ELSE row.rev + 1

Read(h, kind, r) ==
    /\ held[h] = Nobody /\ Spend("write")
    /\ Admits(kind, sub[r])
    /\ held' = [held EXCEPT ![h] = [kind |-> kind, reader |-> r, row |-> sub[r]]]
    /\ UNCHANGED <<stores, api, due, retried, job, own, slipped, passed>>

Put(h) ==
    /\ held[h] # Nobody
    /\ LET o == held[h] IN
       /\ \E status \in Puts(o.kind) : Write(o.reader, status, RevisionOf(o.kind, o.row))
       /\ own' = own \ {o.reader}
    /\ held' = [held EXCEPT ![h] = Nobody]
    /\ UNCHANGED <<suppressed, batch, pointers, api, due, retried, job, passed, left, readable>>

\* A bounce, a complaint or an operator.
Suppress(r) ==
    /\ r \notin suppressed /\ Spend("suppress")
    /\ suppressed' = suppressed \cup {r}
    /\ UNCHANGED <<sub, batch, pointers, api, due, retried, job, held, own, slipped, passed>>

Next ==
    \/ ClaimBatch \/ InvokeImporter
    \/ JobStep \/ Throw \/ Kill
    \/ \E h \in Handlers : Put(h) \/ \E kind \in Surfaces, r \in Readers : Read(h, kind, r)
    \/ \E r \in Readers : Suppress(r)

Spec == Init /\ [][Next]_vars

\* Lambda delivers an event it accepted, and runs a function to its end.
FairSpec == Spec /\ WF_vars(JobStep)

-----------------------------------------------------------------------------
(* Properties.                                                             *)

Rows == {NoRow} \cup [status : Statuses, rev : Nat \ {0}]
Records == [status : {"none", "running", "absent", "completed", "failed"}, count : Nat]
Places == {"idle", "open", "check", "read", "put", "point", "counts", "findBatch", "close"}
Jobs == [at : Places, line : Readers, seen : Nat, tries : Nat, count : Nat,
         found : Records, outcome : {"completed", "failed"}, caught : BOOLEAN]
InFlight == [kind : Kinds, reader : Readers, row : Rows]

TypeOK ==
    /\ sub \in [Readers -> Rows]
    /\ suppressed \subseteq Readers /\ pointers \subseteq Readers
    /\ batch \in Records
    /\ api \in {"start", "claimed", "invoked"}
    /\ due \in BOOLEAN /\ retried \in 0..Retries
    /\ job \in Jobs
    /\ held \in [Handlers -> InFlight \cup {Nobody}]
    /\ own \subseteq Readers /\ passed \subseteq Readers
    /\ slipped \in BOOLEAN /\ readable \in BOOLEAN
    /\ left \in [Disturbances -> Nat]

\* The job revives a subscription that was left only where the revision it had
\* read came back, because some handler put a row with a count that had not
\* grown (dynamo.ts:545-549 tells why a count must not go backwards): a put that
\* is refused looks at the status again before the next one.
RevivesByAbaOnly ==
    [][\A r \in Readers :
        sub[r].status = "unsubscribed" /\ sub'[r].status # "unsubscribed" /\ r \in own' => slipped]_vars

\* import-run.ts:445-448: the pointer is what makes a batch reversible.  However
\* often the job was killed between a row and its pointer, when the batch is
\* completed every row that it wrote and nobody changed is listed, unless the
\* address was suppressed before the job came back to it.
Reversible ==
    batch.status = "completed" => \A r \in own : r \in pointers \cup suppressed

\* A completed batch passed nobody by who had not left, was not suppressed and
\* whose row was not being written by others.
NobodyLeftOut == batch.status = "completed" => Readers \subseteq pointers \cup passed

\* import-job.ts: a batch whose job was invoked is closed in the end, and stays
\* closed, as long as the failures are fewer than the invocations.
BatchCloses == <>[](api = "invoked" => Closed)
=============================================================================
