------------------------------- MODULE Sigint -------------------------------
(***************************************************************************)
(* The service: concurrent ingest requests, retention commands and replay  *)
(* consumers over one ledger and one archive.                              *)
(***************************************************************************)
EXTENDS Ingest, Retention, Replay

vars == <<ledgerVars, archiveVars, handlerVars, retentionVars, replayVars>>

Init == LedgerInit /\ ArchiveInit /\ IngestInit /\ RetentionInit /\ ReplayInit

IngestStep(h) == IngestNext(h) /\ UNCHANGED <<floor, retentionVars, replayVars>>
ArchiveStep == (\E p \in InFlight : Arrive(p)) /\ UNCHANGED <<floor, retentionVars, replayVars>>
RetentionStep(r) == RetentionNext(r) /\ UNCHANGED <<nextCursor, attempts, handlerVars, replayVars>>
ReplayStep(c) == ReplayNext(c) /\ UNCHANGED <<ledgerVars, archiveVars, handlerVars, retentionVars>>

Next ==
  \/ \E h \in Handlers : IngestStep(h)
  \/ ArchiveStep
  \/ \E r \in Runners : RetentionStep(r)
  \/ \E c \in Consumers : ReplayStep(c)

Spec == Init /\ [][Next]_vars

(* Fairness.  A call returns: PutObject and GetObject carry a deadline, and
   SQL statements and file operations end. *)
Only(A) == A /\ UNCHANGED <<floor, retentionVars, replayVars>>
FairSpec == Spec /\ \A h \in Handlers : WF_vars(Only(Proceed(h) \/ CallFails(h)))

TypeOK == LedgerTypeOK /\ ArchiveTypeOK /\ IngestTypeOK /\ RetentionTypeOK /\ ReplayTypeOK

----------------------------------------------------------------------------
(* The archive. *)

\* At most one object is archived for an event id: two contents sent under one
\* id, at the same or at different paths, never both reach the archive
\* (the guard of WriteRawEvent).
OneEnvelopePerEvent ==
  \A k, l \in Keys :
    (object[k] # None /\ object[l] # None /\ object[k].id = object[l].id) => k = l

\* A row that says "stored" points at an archived object with exactly its raw
\* envelope, so what replay serves is what the archive holds.
StoredIsArchived ==
  \A i \in EventIds : IsStored(i) => /\ rows[i].uri # None
                                     /\ object[rows[i].uri] = rows[i].raw

\* A request answered "stored" or "duplicate" has its own envelope in the
\* archive, whichever handler wrote it and whatever fails afterwards.
AckIsArchived ==
  \A h \in Handlers :
    (answer[h] # None /\ answer[h].status \in {"stored", "duplicate"}) => Archived(env[h])

\* The verdict "hash_conflict" is final: an envelope that got it is not in
\* the archive, now or later.
ConflictIsNotArchived ==
  \A h \in Handlers :
    (answer[h] # None /\ answer[h].status = "hash_conflict") => ~Archived(env[h])

\* An attempt logged as "stored" or "duplicate" is for an event id with an
\* archived envelope, also when the request died right after it.
AuditIsArchived ==
  \A i \in EventIds, s \in {"stored", "duplicate"} :
    <<i, s>> \in attempts => \E e \in Envelopes : e.id = i /\ Archived(e)

\* With the S3 adapter the archive comes first: the invariant behind all of
\* the above.  The guard of an event id is never replaced, an object is the
\* guard's envelope at its own path, a row exists only for an archived
\* envelope, and a handler past an archive write finds there what it wrote.
GuardInv == \A i \in EventIds : guard[i] # None => guard[i].id = i

ObjectInv ==
  \A k \in Keys : object[k] # None => /\ Key(object[k]) = k
                                     /\ guard[object[k].id] = object[k]

RowInv ==
  \A i \in EventIds : Exists(i) =>
    /\ rows[i].raw.id = i
    /\ HashesValid(rows[i].raw)
    /\ Archived(rows[i].raw)
    /\ rows[i].uri \in {None, Key(rows[i].raw)}
    /\ rows[i].status = "stored" => rows[i].uri # None

HandlerInv ==
  \A h \in Handlers :
    /\ pc[h] # "idle" => env[h] \in Envelopes /\ HashesValid(env[h])
    /\ pc[h] \notin {"cleanup", "remove"} /\ ~created[h]
    /\ pc[h] = "object" => guard[env[h].id] = env[h]
    /\ pc[h] \in {"insert", "reread", "mark", "markread"} => Archived(env[h])
    /\ pc[h] \in {"report", "fail"} => answer[h] # None

AnswerInv ==
  \A h \in Handlers : answer[h] # None =>
    /\ env[h] \in Envelopes
    /\ answer[h].status = "hash_conflict" => guard[env[h].id] \notin {None, env[h]}

\* The object of a request that is gone can only be the guard's envelope.
LateInv ==
  \A p \in late : /\ HashesValid(p[2])
                  /\ p[1] = "object" => guard[p[2].id] = p[2]

ArchiveFirstInv == GuardInv /\ ObjectInv /\ LateInv /\ RowInv /\ HandlerInv /\ AnswerInv

\* With the filesystem adapter the ledger comes first.  While nothing is
\* retained, the row of an event id is its claim for good: guards and objects
\* hold nothing but the row's raw envelope, requests for other content get no
\* further than the ledger, and an answer is true of the row and the archive.
Held(e) == Exists(e.id) /\ rows[e.id].raw = e

ClaimInv ==
  /\ \A i \in EventIds : guard[i] # None => guard[i].id = i /\ Held(guard[i])
  /\ \A k \in Keys : object[k] # None => Key(object[k]) = k /\ Held(object[k])
  /\ late = {}

ClaimRowInv ==
  \A i \in EventIds : Exists(i) =>
    /\ rows[i].raw.id = i
    /\ HashesValid(rows[i].raw)
    /\ IsStored(i) => rows[i].uri = Key(rows[i].raw) /\ Archived(rows[i].raw)

ClaimantInv ==
  \A h \in Handlers :
    /\ pc[h] # "idle" => env[h] \in Envelopes /\ HashesValid(env[h])
    /\ pc[h] = "reread" => Exists(env[h].id)
    /\ pc[h] \in {"guard", "object"} => inserted[h]
    /\ pc[h] \in {"guard", "object", "cleanup", "remove", "mark", "markread"} => Held(env[h])
    /\ pc[h] \in {"mark", "markread"} => Archived(env[h])

TruthInv ==
  \A h \in Handlers : answer[h] # None =>
    /\ env[h] \in Envelopes
    /\ answer[h].status = "hash_conflict" => Exists(env[h].id) /\ ~Held(env[h])
    /\ answer[h].status \in {"stored", "duplicate"} => Archived(env[h])

LedgerFirstInv == ClaimInv /\ ClaimRowInv /\ ClaimantInv /\ TruthInv

\* Seen from the producers, ingestion is a write-once store.  The claim on an
\* event id is its guard with the S3 adapter, and its ledger row with the
\* filesystem adapter, whose guards may be taken back.
VerdictOf(a) ==
  IF a = None THEN None
  ELSE IF a.status \in {"stored", "duplicate"} THEN "ok"
  ELSE IF a.status = "hash_conflict" THEN "conflict" ELSE "error"

ASSUME VerdictAssumption == None \notin {"ok", "conflict", "error"}

Claims == IF ArchiveFirst THEN guard
          ELSE [i \in EventIds |-> IF Exists(i) THEN rows[i].raw ELSE None]

Promise == INSTANCE WriteOnce WITH
  Callers <- Handlers,
  claim <- Claims,
  published <- {e \in Envelopes : Archived(e)},
  asked <- env,
  verdict <- [h \in Handlers |-> VerdictOf(answer[h])],
  abandoned <- {p[2] : p \in late}

\* The service keeps the promise of WriteOnce.
KeepsPromise == Promise!WSpec

\* Every request ends, also when the rows it works on are retained meanwhile.
RequestsEnd == \A h \in Handlers : ~At(h, "idle") ~> At(h, "idle")

Asked(e) == \E h \in Handlers : At(h, "lookup") /\ env[h] = e
Failure == \E h \in Handlers : CallFails(h) \/ Crash(h)

\* The envelope is the stored row, or its sender is just told of a conflict.
Settled(e) ==
  \/ IsStored(e.id) /\ rows[e.id].raw = e
  \/ \E h \in Handlers : At(h, "report") /\ env[h] = e /\ answer[h].status = "hash_conflict"

\* Once failures stop, an envelope that keeps being sent gets stored, again and
\* again if need be, or is told each time that another one holds its id: neither
\* what crashes and lost replies left behind, nor a stored row that MarkFailed
\* has set to failed, nor retention keeps it out for good.
RetriesConverge ==
  \A e \in Envelopes : (<>[][~Failure]_vars /\ []<>Asked(e)) => []<>Settled(e)

----------------------------------------------------------------------------
(* Retention. *)

\* A row leaves the ledger only when the archive holds its raw envelope.
DeletedIsArchived ==
  [][\A i \in EventIds : (Exists(i) /\ rows'[i] = None) => Archived(rows[i].raw)]_vars

LiveCursors == {rows[i].cursor : i \in {j \in EventIds : Exists(j)}}

\* Every cursor whose row is gone is at or below the watermark, so a replay
\* request that would miss it is told that its window expired.
DeletedIsBelowFloor ==
  \A c \in 1..(nextCursor - 1) : c \notin LiveCursors => c <= floor

\* The watermark never moves back.
FloorIsMonotone == [][floor' >= floor]_vars

----------------------------------------------------------------------------
(* Replay. *)

\* Every event a consumer was served is archived as it was served.
DeliveredIsArchived ==
  \A c \in Consumers : \A d \in delivered[c] : Archived(d.raw)

\* A stored event that a consumer wants, that retention has not taken and that
\* it has not been served.
Missing(c, i) ==
  /\ IsStored(i) /\ rows[i].raw \in Wanted[c]
  /\ rows[i].cursor > floor /\ ToRecord(i) \notin delivered[c]

\* A consumer has been served every stored event at or below its cursor that
\* its filters match and retention has not taken.
NothingIsSkipped ==
  \A c \in Consumers, i \in EventIds : Missing(c, i) => rows[i].cursor > position[c]

\* A consumer that goes on asking gets everything: whatever its filters leave
\* out and whatever limit it asks with, no page keeps it from the next event it
\* wants.
ConsumersCatchUp ==
  \A c \in Consumers, i \in EventIds :
    []<><<GetsPage(c)>>_vars => []<>~Missing(c, i)

\* No consumer is served one event id twice.
DeliveredOnce ==
  \A c \in Consumers : \A d, f \in delivered[c] : d.raw.id = f.raw.id => d = f
=============================================================================
