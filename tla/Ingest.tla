------------------------------- MODULE Ingest -------------------------------
(***************************************************************************)
(* Service.Ingest of internal/ingest/service.go: each handler is one HTTP  *)
(* request (or one item of a batch) and takes one step per ledger or       *)
(* archive call.  A handler decides from what the call returned, in the    *)
(* same step: between a ledger read and the decision nothing is called.    *)
(***************************************************************************)
EXTENDS Ledger, Archive

CONSTANTS Handlers,             \* concurrent requests, over all processes
          Adapter,              \* "s3" or "filesystem"
          RejectHashConflicts,  \* config.Ingest
          Faults                \* whether calls fail and requests die

VARIABLES pc,        \* handler -> the call it makes next, "idle" when done
          env,       \* handler -> the envelope of its current or last request
          inserted,  \* handler -> it is in storeAndMark: the row was there first
          created,   \* handler -> writeFileIfAbsent made the guard (filesystem)
          answer     \* handler -> what it told its caller, or None
handlerVars == <<pc, env, inserted, created, answer>>

Calls == {"lookup", "insert", "reread", "guard", "object", "cleanup", "remove",
          "mark", "markread", "report", "fail"}
AnswerStatus == {"stored", "duplicate", "hash_conflict", "invalid",
                 "ledger_error", "storage_error"}

Answer == [status : AnswerStatus, uri : Keys \cup {None}]

IngestTypeOK ==
  /\ pc \in [Handlers -> Calls \cup {"idle"}]
  /\ env \in [Handlers -> Envelopes \cup {None}]
  /\ inserted \in [Handlers -> BOOLEAN] /\ created \in [Handlers -> BOOLEAN]
  /\ answer \in [Handlers -> Answer \cup {None}]

IngestInit ==
  /\ pc = [h \in Handlers |-> "idle"] /\ env = [h \in Handlers |-> None]
  /\ inserted = [h \in Handlers |-> FALSE] /\ created = [h \in Handlers |-> FALSE]
  /\ answer = [h \in Handlers |-> None]

\* A slip: the row comes before the archive with every adapter.
NeverArchiveFirst == FALSE

ArchiveFirst == Adapter = "s3"

At(h, call) == pc[h] = call
Goto(h, call) == pc' = [pc EXCEPT ![h] = call]
SetAnswer(h, status, uri) == answer' = [answer EXCEPT ![h] = [status |-> status, uri |-> uri]]

\* The decided answer; RecordAttempt comes before it is returned.
Report(h, status, uri) == Goto(h, "report") /\ SetAnswer(h, status, uri)

\* A request comes in.  The hashes are validated before any call.
Begin(h, e) ==
  /\ At(h, "idle")
  /\ env' = [env EXCEPT ![h] = e]
  /\ inserted' = [inserted EXCEPT ![h] = FALSE]
  /\ created' = [created EXCEPT ![h] = FALSE]
  /\ \/ /\ HashesValid(e)
        /\ Goto(h, "lookup")
        /\ answer' = [answer EXCEPT ![h] = None]
     \/ /\ ~HashesValid(e)
        /\ SetAnswer(h, "invalid", None)
        /\ UNCHANGED pc
  /\ UNCHANGED <<rows, nextCursor, attempts, archiveVars>>

StoreAndMark(h) ==
  /\ Goto(h, "guard")
  /\ inserted' = [inserted EXCEPT ![h] = TRUE]
  /\ UNCHANGED answer

\* A slip: a row with the same hashes is a duplicate, stored or not.
SeenBefore(row, e) == SameHashes(row.raw, e)

\* A slip: a row that was stored once is a duplicate, also when it was marked
\* failed since.
StoredOnce(row, e) == SameHashes(row.raw, e) /\ row.uri # None

IsDuplicate(row, e) == SameHashes(row.raw, e) /\ row.status = "stored" /\ row.uri # None

AnswerConflict(h, row) ==
  /\ ~SameHashes(row.raw, env[h])
  /\ Report(h, "hash_conflict", IF RejectHashConflicts THEN None ELSE row.uri)
  /\ UNCHANGED inserted

AnswerDuplicate(h, row) ==
  /\ IsDuplicate(row, env[h])
  /\ Report(h, "duplicate", row.uri)
  /\ UNCHANGED inserted

HandleExisting(h, row) ==
  \/ AnswerConflict(h, row)
  \/ AnswerDuplicate(h, row)
  \/ SameHashes(row.raw, env[h]) /\ ~IsDuplicate(row, env[h]) /\ StoreAndMark(h)

\* GetEvent, and the branch on what it found.
Lookup(h) ==
  /\ At(h, "lookup")
  /\ \/ Exists(env[h].id) /\ HandleExisting(h, rows[env[h].id])
     \/ /\ ~Exists(env[h].id)
        /\ Goto(h, IF ArchiveFirst THEN "guard" ELSE "insert")
        /\ UNCHANGED <<inserted, answer>>
  /\ UNCHANGED <<rows, nextCursor, attempts, archiveVars, env, created>>

\* InsertReceived: the INSERT, then GetEvent of whatever row is there.
Insert(h) ==
  /\ At(h, "insert")
  /\ CanInsert(env[h].id)
  /\ InsertReceived(env[h])
  /\ Goto(h, "reread")
  /\ UNCHANGED <<attempts, archiveVars, env, inserted, created, answer>>

\* Ledger-first compares event_sha256 only and then stores whatever the row's
\* status; archive-first compares both hashes and may answer "duplicate".
Reread(h) ==
  /\ At(h, "reread")
  /\ LET row == rows[env[h].id] IN
     \/ /\ row = None
        /\ Report(h, "ledger_error", None) /\ UNCHANGED inserted
     \/ /\ row # None /\ ArchiveFirst
        /\ \/ AnswerConflict(h, row)
           \/ AnswerDuplicate(h, row)
           \/ /\ SameHashes(row.raw, env[h]) /\ ~IsDuplicate(row, env[h])
              /\ Goto(h, "mark") /\ UNCHANGED <<inserted, answer>>
     \/ /\ row # None /\ ~ArchiveFirst
        /\ \/ row.raw.eventSHA # env[h].eventSHA /\ HandleExisting(h, row)
           \/ row.raw.eventSHA = env[h].eventSHA /\ StoreAndMark(h)
  /\ UNCHANGED <<rows, nextCursor, attempts, archiveVars, env, created>>

\* WriteRawEvent, first half: the guard of the event id.
Guard(h) ==
  /\ At(h, "guard")
  /\ WriteGuard(env[h]) /\ UNCHANGED object /\ StillLate
  /\ created' = [created EXCEPT ![h] = ~ArchiveFirst /\ guard[env[h].id] = None]
  /\ \/ GuardAccepts(env[h]) /\ Goto(h, "object") /\ UNCHANGED answer
     \/ ~GuardAccepts(env[h]) /\ Report(h, "hash_conflict", None)
  /\ UNCHANGED <<rows, nextCursor, attempts, env, inserted>>

\* A slip: a failed write is taken for a lost reply.
GoOn(h, status) ==
  /\ Goto(h, IF inserted[h] THEN "mark" ELSE "insert")
  /\ UNCHANGED answer

\* Where a failed write of the object leads: the filesystem adapter first
\* takes back a guard it created.
GiveUpWrite(h, status) ==
  /\ SetAnswer(h, status, None)
  /\ Goto(h, IF created[h] THEN "cleanup" ELSE "report")

\* WriteRawEvent, second half: the object itself.
Object(h) ==
  /\ At(h, "object")
  /\ WriteObject(env[h]) /\ UNCHANGED guard /\ StillLate
  /\ \/ ObjectAccepts(env[h]) /\ Goto(h, IF inserted[h] THEN "mark" ELSE "insert")
                              /\ UNCHANGED answer
     \/ ~ObjectAccepts(env[h]) /\ GiveUpWrite(h, "hash_conflict")
  /\ UNCHANGED <<rows, nextCursor, attempts, env, inserted, created>>

\* removeFileIfContentMatches: a read, and then a remove of whatever is there.
Cleanup(h) ==
  /\ At(h, "cleanup")
  /\ Goto(h, IF guard[env[h].id] = env[h] THEN "remove" ELSE "report")
  /\ UNCHANGED <<rows, nextCursor, attempts, archiveVars, env, inserted, created, answer>>

Remove(h) ==
  /\ At(h, "remove")
  /\ guard' = [guard EXCEPT ![env[h].id] = None]
  /\ Goto(h, "report")
  /\ UNCHANGED <<rows, nextCursor, attempts, object, late, env, inserted, created, answer>>

\* markStored: the UPDATE, then the row is read back for the answer.
Mark(h) ==
  /\ At(h, "mark")
  /\ MarkStored(env[h])
  /\ Goto(h, "markread")
  /\ UNCHANGED <<nextCursor, attempts, archiveVars, env, inserted, created, answer>>

\* A slip: a row that is gone is marked again.
MarkAgain(h) ==
  /\ At(h, "markread")
  /\ \/ /\ Exists(env[h].id) /\ Report(h, "stored", rows[env[h].id].uri)
     \/ /\ ~Exists(env[h].id) /\ Goto(h, "mark") /\ UNCHANGED answer
  /\ UNCHANGED <<rows, nextCursor, attempts, archiveVars, env, inserted, created>>

MarkRead(h) ==
  /\ At(h, "markread")
  /\ \/ Exists(env[h].id) /\ Report(h, "stored", rows[env[h].id].uri)
     \/ ~Exists(env[h].id) /\ Report(h, "ledger_error", None)
  /\ UNCHANGED <<rows, nextCursor, attempts, archiveVars, env, inserted, created>>

\* A slip: the attempt is logged under the status of the answer.
AsAnswered(status) == status

AttemptFor(status) ==
  IF status \in {"ledger_error", "storage_error"} THEN "failed" ELSE status

\* RecordAttempt, whose own error is discarded.  A storage error of a request
\* whose row exists goes on to MarkFailed; any other answer is returned.
RecordIt(h) ==
  /\ At(h, "report")
  /\ \/ RecordAttempt(env[h].id, AttemptFor(answer[h].status))
     \/ Faults /\ UNCHANGED attempts
  /\ Goto(h, IF answer[h].status = "storage_error" /\ inserted[h] THEN "fail" ELSE "idle")
  /\ UNCHANGED <<rows, nextCursor, archiveVars, env, inserted, created, answer>>

Fail(h) ==
  /\ At(h, "fail")
  /\ \/ MarkFailed(env[h])
     \/ Faults /\ UNCHANGED rows
  /\ Goto(h, "idle")
  /\ UNCHANGED <<nextCursor, attempts, archiveVars, env, inserted, created, answer>>

\* A failing ledger call: the statement may have taken effect before its reply
\* was lost or the caller's context was cancelled.  A failed lookup is
\* answered at once; the others record an attempt first.
LedgerFails(h) ==
  \/ /\ At(h, "lookup") /\ Faults
     /\ Goto(h, "idle") /\ SetAnswer(h, "ledger_error", None)
     /\ UNCHANGED <<rows, nextCursor>>
  \/ /\ At(h, "insert") /\ (Faults \/ ~CanInsert(env[h].id))
     /\ Report(h, "ledger_error", None)
     /\ \/ Faults /\ CanInsert(env[h].id) /\ InsertReceived(env[h])
        \/ UNCHANGED <<rows, nextCursor>>
  \/ /\ At(h, "mark") /\ Faults
     /\ Report(h, "ledger_error", None)
     /\ (MarkStored(env[h]) \/ UNCHANGED rows)
     /\ UNCHANGED nextCursor
  \/ /\ pc[h] \in {"reread", "markread"} /\ Faults
     /\ Report(h, "ledger_error", None)
     /\ UNCHANGED <<rows, nextCursor>>

\* The caller of an archive write hears of it no more.  A PutObject that is on
\* its way may still take effect; os.Link is the last step of the filesystem
\* write and either happened or did not.
HearsNoMore(h) ==
  \/ UNCHANGED archiveVars
  \/ ArchiveFirst /\ pc[h] \in {"guard", "object"} /\ Abandon(<<pc[h], env[h]>>)

\* A failing archive write: a deadline, a refused connection, a full disk.
StorageFails(h) ==
  /\ Faults
  /\ \/ At(h, "guard") /\ Report(h, "storage_error", None)
     \/ At(h, "object") /\ GiveUpWrite(h, "storage_error")
     \/ pc[h] \in {"cleanup", "remove"} /\ Goto(h, "report") /\ UNCHANGED answer
  /\ HearsNoMore(h)

CallFails(h) ==
  /\ \/ LedgerFails(h) /\ UNCHANGED archiveVars
     \/ StorageFails(h) /\ UNCHANGED <<rows, nextCursor>>
  /\ UNCHANGED <<attempts, env, inserted, created>>

\* The process dies: the request ends without an answer.
Crash(h) ==
  /\ Faults /\ ~At(h, "idle")
  /\ Goto(h, "idle")
  /\ answer' = [answer EXCEPT ![h] = None]
  /\ HearsNoMore(h)
  /\ UNCHANGED <<rows, nextCursor, attempts, env, inserted, created>>

\* The puts on their way to the S3 store, whose callers wait or have left.
InFlight == late \cup {<<pc[h], env[h]>> : h \in {g \in Handlers : pc[g] \in {"guard", "object"}}}

\* A put takes effect before its caller hears of it, if it ever does.
Arrive(p) ==
  /\ ArchiveFirst /\ p \in InFlight /\ IsFree(p)
  /\ \/ p[1] = "guard" /\ WriteGuard(p[2]) /\ UNCHANGED object
     \/ p[1] = "object" /\ WriteObject(p[2]) /\ UNCHANGED guard
  /\ StillLate
  /\ UNCHANGED <<rows, nextCursor, attempts, handlerVars>>

\* What a running handler does when no call fails it.
Proceed(h) ==
  \/ Lookup(h) \/ Insert(h) \/ Reread(h) \/ Guard(h) \/ Object(h) \/ Cleanup(h)
  \/ Remove(h) \/ Mark(h) \/ MarkRead(h) \/ RecordIt(h) \/ Fail(h)

IngestNext(h) == (\E e \in Envelopes : Begin(h, e)) \/ Proceed(h) \/ CallFails(h) \/ Crash(h)

ASSUME IngestAssumption ==
  /\ Adapter \in {"s3", "filesystem"}
  /\ None \notin Answer
  /\ RejectHashConflicts \in BOOLEAN /\ Faults \in BOOLEAN
=============================================================================
