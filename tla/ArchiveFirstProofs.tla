------------------------- MODULE ArchiveFirstProofs -------------------------
(***************************************************************************)
(* With the S3 adapter, for any set of event ids and envelopes, any number *)
(* of handlers, retention commands and consumers, with or without faults:  *)
(* ArchiveFirstInv is inductive, and the safety properties follow from it. *)
(***************************************************************************)
EXTENDS SigintTypes

\* What the archive holds stays as it is.
Grows ==
  /\ \A i \in EventIds : guard[i] # None => guard'[i] = guard[i]
  /\ \A k \in Keys : object[k] # None => object'[k] = object[k]

LEMMA InitArchiveFirst == Init => ArchiveFirstInv
  BY DEF Init, LedgerInit, ArchiveInit, IngestInit, ArchiveFirstInv, GuardInv, ObjectInv, LateInv,
         RowInv, HandlerInv, AnswerInv, Exists

\* An archived envelope is the one that its event id's guard holds.
LEMMA ArchivedIsGuard ==
  ASSUME GuardInv, ObjectInv, NEW e \in Envelopes, Archived(e)
  PROVE  guard[e.id] = e
  BY EnvelopeFields DEF ObjectInv, Archived

\* Two envelopes with checked hashes and equal event hashes are one envelope.
LEMMA SameHashesSameEnvelope ==
  ASSUME RequireEventHash, NEW e \in Envelopes, NEW f \in Envelopes,
         HashesValid(e), HashesValid(f), SameHashes(e, f)
  PROVE  e = f
  <1>1. /\ e.id = f.id /\ e.place = f.place /\ e.payload = f.payload
        /\ e.payloadSHA = f.payloadSHA /\ e.eventSHA = f.eventSHA
    BY DEF HashesValid, SameHashes, EventHash
  <1>. QED BY <1>1, EnvelopeAssumption

\* A put takes effect, whether its caller waits for it or not.
Puts(p) ==
  /\ p \in InFlight
  /\ \/ p[1] = "guard" /\ WriteGuard(p[2]) /\ UNCHANGED object
     \/ p[1] = "object" /\ WriteObject(p[2]) /\ UNCHANGED guard
  /\ StillLate

\* What a step of one handler does to the archive.
ArchiveStepOf(h) ==
  \/ UNCHANGED archiveVars
  \/ pc[h] \in {"guard", "object"} /\ Puts(<<pc[h], env[h]>>)
  \/ /\ pc[h] \in {"guard", "object"} /\ Abandon(<<pc[h], env[h]>>)
     /\ StorageFails(h) \/ Crash(h)

LEMMA ArchiveSteps ==
  ASSUME TypeInv, NEW h \in Handlers, IngestStep(h), Adapter = "s3", HandlerInv
  PROVE  ArchiveStepOf(h)
  <1>1. \/ UNCHANGED archiveVars \/ Guard(h) \/ Object(h)
        \/ HearsNoMore(h) /\ (StorageFails(h) \/ Crash(h))
    BY DEF IngestStep, IngestNext, Begin, Proceed, Lookup, Insert, Reread, Cleanup,
           Remove, Mark, MarkRead, RecordIt, Fail, CallFails, StorageFails, Crash, At, HandlerInv
  <1>2. CASE Guard(h) \/ Object(h)
    BY <1>2 DEF Guard, Object, At, Puts, InFlight, ArchiveStepOf
  <1>3. CASE HearsNoMore(h) /\ (StorageFails(h) \/ Crash(h))
    BY <1>3 DEF HearsNoMore, ArchiveStepOf
  <1>. QED BY <1>1, <1>2, <1>3 DEF ArchiveStepOf

LEMMA ArchivedStays ==
  ASSUME Grows, NEW e \in Envelopes
  PROVE  /\ Archived(e) => object'[Key(e)] = e
         /\ guard[e.id] = e => guard'[e.id] = e
         /\ guard[e.id] \notin {None, e} => guard'[e.id] \notin {None, e}
  BY EnvelopeFields DEF Grows, Archived

LEMMA LateStays ==
  ASSUME TypeInv, LateInv, Grows, late' \subseteq late \/ StillLate
  PROVE  LateInv'
  <1>1. late' \subseteq late
    BY DEF StillLate
  <1>2. \A p \in late : p[2] \in Envelopes
    BY DEF TypeInv, TypeOK, ArchiveTypeOK, Put
  <1>. QED BY <1>1, <1>2, ArchivedStays DEF LateInv

\* A put in flight is for a checked envelope, and for an object it is the
\* guard's.
LEMMA InFlightPuts ==
  ASSUME TypeInv, LateInv, HandlerInv, NEW p \in InFlight
  PROVE  /\ p \in Put /\ p[2] \in Envelopes /\ HashesValid(p[2])
         /\ p[1] = "object" => guard[p[2].id] = p[2]
  BY DEF InFlight, TypeInv, TypeOK, ArchiveTypeOK, Busy, Put, LateInv, HandlerInv

\* A conditional put only adds, and keeps the objects behind their guards.
LEMMA WriteGrows ==
  ASSUME ArchiveTypeOK, GuardInv, ObjectInv, NEW p, p[2] \in Envelopes,
         \/ p[1] = "guard" /\ WriteGuard(p[2]) /\ UNCHANGED object
         \/ p[1] = "object" /\ WriteObject(p[2]) /\ UNCHANGED guard /\ guard[p[2].id] = p[2]
  PROVE  Grows /\ GuardInv' /\ ObjectInv'
  <1>. USE DEF Grows, GuardInv, ObjectInv, ArchiveTypeOK
  <1>p. p[2].id \in EventIds /\ Key(p[2]) \in Keys
    BY EnvelopeFields
  <1>1. CASE p[1] = "guard" /\ WriteGuard(p[2]) /\ UNCHANGED object
    <2>2. Grows /\ GuardInv'
      BY <1>1, <1>p DEF WriteGuard
    <2>3. \A k \in Keys : object[k] # None => object[k] \in Envelopes /\ object[k].id \in EventIds
      BY EnvelopeFields
    <2>4. \A k \in Keys : object[k] # None => guard[object[k].id] # None
      BY <2>3, EnvelopeFields
    <2>5. ObjectInv'
      BY <1>1, <2>2, <2>3, <2>4
    <2>. QED BY <2>2, <2>5
  <1>2. CASE p[1] = "object" /\ WriteObject(p[2]) /\ UNCHANGED guard /\ guard[p[2].id] = p[2]
    BY <1>2, <1>p DEF WriteObject
  <1>. QED BY <1>1, <1>2

LEMMA PutGrows ==
  ASSUME TypeInv, ArchiveFirstInv, NEW p, Puts(p)
  PROVE  Grows /\ GuardInv' /\ ObjectInv' /\ LateInv'
  <1>1. Grows /\ GuardInv' /\ ObjectInv'
    BY InFlightPuts, WriteGrows DEF Puts, ArchiveFirstInv, TypeInv, TypeOK
  <1>. QED BY <1>1, LateStays DEF Puts, ArchiveFirstInv

LEMMA ArchiveGrows ==
  ASSUME TypeInv, NEW h \in Handlers, IngestStep(h), Adapter = "s3", ArchiveFirstInv
  PROVE  Grows /\ GuardInv' /\ ObjectInv' /\ LateInv'
  <1>1. CASE UNCHANGED archiveVars
    BY <1>1 DEF archiveVars, Grows, ArchiveFirstInv, GuardInv, ObjectInv, LateInv
  <1>2. CASE Puts(<<pc[h], env[h]>>)
    BY <1>2, PutGrows
  <1>3. CASE pc[h] \in {"guard", "object"} /\ Abandon(<<pc[h], env[h]>>)
    <2>1. UNCHANGED <<guard, object>> /\ late' = late \cup {<<pc[h], env[h]>>}
      BY <1>3 DEF Abandon
    <2>2. /\ HashesValid(env[h])
          /\ pc[h] = "object" => guard[env[h].id] = env[h]
      BY <1>3 DEF ArchiveFirstInv, HandlerInv
    <2>. QED BY <2>1, <2>2 DEF Grows, ArchiveFirstInv, GuardInv, ObjectInv, LateInv
  <1>. QED BY <1>1, <1>2, <1>3, ArchiveSteps DEF ArchiveStepOf, ArchiveFirstInv

----------------------------------------------------------------------------
(* The ledger's rows. *)

\* Which SQL statements on rows a step may make.
LEMMA RowSteps ==
  ASSUME TypeInv, NEW h \in Handlers, IngestStep(h)
  PROVE  \/ UNCHANGED rows
         \/ pc[h] = "insert" /\ InsertReceived(env[h])
         \/ pc[h] = "mark" /\ MarkStored(env[h])
         \/ pc[h] = "fail" /\ MarkFailed(env[h])
  BY DEF IngestStep, IngestNext, Begin, Proceed, Lookup, Insert, Reread, Guard, Object, Cleanup,
         Remove, Mark, MarkRead, RecordIt, Fail, CallFails, LedgerFails, Crash, At

\* A row becomes "stored" by the UPDATE of its own request only.
LEMMA StoredSteps ==
  ASSUME TypeInv, NEW h \in Handlers, IngestStep(h), NEW i \in EventIds, Exists(i),
         rows'[i] # None, rows'[i].status = "stored"
  PROVE  \/ rows'[i] = rows[i]
         \/ pc[h] = "mark" /\ i = env[h].id /\ rows'[i].uri = Key(env[h])
  <1>. USE DEF TypeInv, TypeOK, LedgerTypeOK
  <1>e. pc[h] # "idle" => env[h] \in Envelopes /\ env[h].id \in EventIds /\ Key(env[h]) \in Keys
    BY EnvelopeFields DEF Busy
  <1>r. rows[i] \in Row
    BY DEF Exists
  <1>1. CASE UNCHANGED rows
    BY <1>1
  <1>2. CASE pc[h] = "insert" /\ InsertReceived(env[h])
    BY <1>2, <1>e DEF InsertReceived, Exists
  <1>3. CASE pc[h] = "mark" /\ MarkStored(env[h])
    <2>1. CASE i = env[h].id
      BY <1>3, <1>e, <1>r, <2>1 DEF MarkStored, Exists, Row
    <2>2. CASE i # env[h].id
      BY <1>3, <1>e, <2>2 DEF MarkStored
    <2>. QED BY <2>1, <2>2
  <1>4. CASE pc[h] = "fail" /\ MarkFailed(env[h])
    <2>1. CASE i = env[h].id
      BY <1>4, <1>e, <1>r, <2>1 DEF MarkFailed, Exists, Row
    <2>2. CASE i # env[h].id
      BY <1>4, <1>e, <2>2 DEF MarkFailed
    <2>. QED BY <2>1, <2>2
  <1>. QED BY <1>1, <1>2, <1>3, <1>4, RowSteps

LEMMA RowsStay ==
  ASSUME TypeInv, RowInv, Grows,
         \A i \in EventIds : Exists(i)' => Exists(i) /\ rows'[i] = rows[i]
  PROVE  RowInv'
  <1>. SUFFICES ASSUME NEW i \in EventIds, Exists(i)'
                PROVE  /\ rows'[i].raw.id = i
                       /\ HashesValid(rows'[i].raw)
                       /\ object'[Key(rows'[i].raw)] = rows'[i].raw
                       /\ rows'[i].uri \in {None, Key(rows'[i].raw)}
                       /\ rows'[i].status = "stored" => rows'[i].uri # None
    BY DEF RowInv, Archived
  <1>1. rows'[i] = rows[i] /\ Exists(i) /\ rows[i].raw \in Envelopes
    BY DEF TypeInv, TypeOK, LedgerTypeOK, Exists, Row
  <1>. QED BY <1>1, ArchivedStays DEF RowInv

LEMMA RowsKept ==
  ASSUME TypeInv, NEW h \in Handlers, IngestStep(h), Adapter = "s3", ArchiveFirstInv, Grows
  PROVE  RowInv'
  <1>. USE DEF ArchiveFirstInv
  <1>e. pc[h] # "idle" => /\ env[h] \in Envelopes /\ env[h].id \in EventIds
                          /\ Key(env[h]) # None /\ HashesValid(env[h])
    BY EnvelopeFields DEF HandlerInv
  <1>r. \A i \in EventIds : Exists(i) => rows[i] \in Row /\ rows[i].raw \in Envelopes
    BY DEF TypeInv, TypeOK, LedgerTypeOK, Exists, Row
  <1>1. CASE UNCHANGED rows
    BY <1>1, RowsStay DEF Exists
  <1>2. CASE pc[h] = "insert" /\ InsertReceived(env[h])
    <2>1. object'[Key(env[h])] = env[h]
      BY <1>2, <1>e, ArchivedStays DEF HandlerInv
    <2>2. CASE Exists(env[h].id)
      BY <1>2, <2>2, RowsStay DEF InsertReceived, Exists
    <2>3. CASE ~Exists(env[h].id)
      <3>. DEFINE new == [cursor |-> nextCursor, raw |-> env[h], status |-> "received", uri |-> None]
      <3>1. /\ \A i \in EventIds \ {env[h].id} : rows'[i] = rows[i]
            /\ rows'[env[h].id] = new
        BY <1>2, <1>e, <2>3 DEF InsertReceived, TypeInv, TypeOK, LedgerTypeOK
      <3>2. ASSUME NEW i \in EventIds, i # env[h].id, Exists(i)'
            PROVE  /\ rows'[i].raw.id = i /\ HashesValid(rows'[i].raw)
                   /\ object'[Key(rows'[i].raw)] = rows'[i].raw
                   /\ rows'[i].uri \in {None, Key(rows'[i].raw)}
                   /\ rows'[i].status = "stored" => rows'[i].uri # None
        <4>1. rows'[i] = rows[i] /\ Exists(i) /\ rows[i].raw \in Envelopes
          BY <3>1, <3>2, <1>r DEF Exists
        <4>. QED BY <4>1, ArchivedStays DEF RowInv
      <3>3. /\ new.raw = env[h] /\ new.uri = None /\ new.status = "received"
        OBVIOUS
      <3>. QED BY <1>2, <1>e, <2>1, <3>1, <3>2, <3>3 DEF RowInv, Archived
    <2>. QED BY <2>2, <2>3
  <1>3. CASE pc[h] = "mark" /\ MarkStored(env[h])
    <2>. DEFINE e == env[h]
    <2>1. Archived(e) /\ guard[e.id] = e /\ e \in Envelopes /\ e.id \in EventIds /\ Key(e) # None
      BY <1>3, <1>e, ArchivedIsGuard DEF HandlerInv
    <2>2. CASE ~Exists(e.id)
      BY <1>3, <2>2, RowsStay DEF MarkStored, Exists
    <2>3. CASE Exists(e.id)
      <3>1. rows[e.id].raw = e /\ rows[e.id] \in Row
        BY <2>1, <2>3, <1>r, ArchivedIsGuard DEF RowInv
      <3>2. /\ \A i \in EventIds \ {e.id} : rows'[i] = rows[i]
            /\ rows'[e.id].raw = e /\ rows'[e.id].uri = Key(e)
        BY <1>3, <2>1, <2>3, <3>1 DEF MarkStored, TypeInv, TypeOK, LedgerTypeOK, Row
      <3>. QED BY <1>r, <1>3, <1>e, <2>1, <3>2, ArchivedStays DEF RowInv, Exists, Archived
    <2>. QED BY <2>2, <2>3
  <1>4. CASE pc[h] = "fail" /\ MarkFailed(env[h])
    <2>. DEFINE e == env[h]
    <2>1. e \in Envelopes /\ e.id \in EventIds
      BY <1>4, <1>e
    <2>2. CASE ~Exists(e.id)
      BY <1>4, <2>2, RowsStay DEF MarkFailed, Exists
    <2>3. CASE Exists(e.id)
      <3>1. /\ \A i \in EventIds \ {e.id} : rows'[i] = rows[i]
            /\ rows'[e.id].raw = rows[e.id].raw /\ rows'[e.id].uri = rows[e.id].uri
            /\ rows'[e.id].status = "failed"
        BY <1>4, <2>1, <2>3, <1>r DEF MarkFailed, TypeInv, TypeOK, LedgerTypeOK, Row
      <3>. QED BY <1>r, <2>1, <2>3, <3>1, ArchivedStays DEF RowInv, Exists, Archived
    <2>. QED BY <2>2, <2>3
  <1>. QED BY <1>1, <1>2, <1>3, <1>4, RowSteps

----------------------------------------------------------------------------
(* The handlers. *)

\* A step of a handler leaves the others alone.
LEMMA HandlerFrame ==
  ASSUME TypeInv, NEW h \in Handlers, IngestStep(h), NEW g \in Handlers, g # h
  PROVE  /\ pc'[g] = pc[g] /\ env'[g] = env[g] /\ answer'[g] = answer[g]
         /\ inserted'[g] = inserted[g] /\ created'[g] = created[g]
  <1>. USE DEF TypeInv, TypeOK, IngestTypeOK, Goto, SetAnswer, Report
  <1>1. CASE \E e \in Envelopes : Begin(h, e)
    BY <1>1 DEF Begin
  <1>2. CASE Proceed(h)
    <2>1. \A row : HandleExisting(h, row) =>
                      pc'[g] = pc[g] /\ answer'[g] = answer[g] /\ inserted'[g] = inserted[g]
      BY DEF HandleExisting, AnswerConflict, AnswerDuplicate, StoreAndMark
    <2>2. CASE Lookup(h)
      BY <2>1, <2>2 DEF Lookup
    <2>3. CASE Reread(h)
      BY <2>1, <2>3 DEF Reread, AnswerConflict, AnswerDuplicate, StoreAndMark
    <2>4. CASE Insert(h) \/ Guard(h) \/ Object(h) \/ Cleanup(h) \/ Remove(h)
      BY <2>4 DEF Insert, Guard, Object, Cleanup, Remove, GiveUpWrite
    <2>5. CASE Mark(h) \/ MarkRead(h) \/ RecordIt(h) \/ Fail(h)
      BY <2>5 DEF Mark, MarkRead, RecordIt, Fail
    <2>. QED BY <1>2, <2>2, <2>3, <2>4, <2>5 DEF Proceed
  <1>3. CASE CallFails(h)
    BY <1>3 DEF CallFails, LedgerFails, StorageFails, GiveUpWrite
  <1>4. CASE Crash(h)
    BY <1>4 DEF Crash
  <1>. QED BY <1>1, <1>2, <1>3, <1>4 DEF IngestStep, IngestNext

\* What HandlerInv and AnswerInv say of one handler, after a step.
HandlerAfter(h) ==
  /\ pc'[h] # "idle" => env'[h] \in Envelopes /\ HashesValid(env'[h])
  /\ pc'[h] \notin {"cleanup", "remove"} /\ ~created'[h]
  /\ pc'[h] = "object" => guard'[env'[h].id] = env'[h]
  /\ pc'[h] \in {"insert", "reread", "mark", "markread"} => object'[Key(env'[h])] = env'[h]
  /\ pc'[h] \in {"report", "fail"} => answer'[h] # None
  /\ answer'[h] # None =>
       /\ env'[h] \in Envelopes
       /\ answer'[h].status = "hash_conflict" => guard'[env'[h].id] \notin {None, env'[h]}

LEMMA HandlerStep ==
  ASSUME TypeInv, NEW h \in Handlers, IngestStep(h), Adapter = "s3", ArchiveFirstInv, Grows
  PROVE  HandlerAfter(h)
  <1>. USE DEF TypeInv, TypeOK, IngestTypeOK, ArchiveFirstInv, HandlerInv, AnswerInv, HandlerAfter,
               At, Goto, SetAnswer, Report, ArchiveFirst
  <1>. DEFINE e == env[h]
  <1>e. pc[h] # "idle" =>
          /\ e \in Envelopes /\ HashesValid(e) /\ e.id \in EventIds /\ Key(e) \in Keys
          /\ Archived(e) => object'[Key(e)] = e
          /\ guard[e.id] = e => guard'[e.id] = e
          /\ guard[e.id] \notin {None, e} => guard'[e.id] \notin {None, e}
    BY EnvelopeFields, ArchivedStays
  <1>a. \A s, u : [status |-> s, uri |-> u] = None => s \notin AnswerStatus \/ u \notin Keys \cup {None}
    BY IngestAssumption DEF Answer
  <1>r. \A i \in EventIds : Exists(i) =>
          rows[i] \in Row /\ rows[i].raw \in Envelopes /\ rows[i].raw.id = i
          /\ guard[i] = rows[i].raw /\ rows[i].uri \in Keys \cup {None}
    <2>1. \A i \in EventIds : Exists(i) => rows[i] \in Row
      BY DEF LedgerTypeOK, Exists
    <2>. QED BY <2>1, ArchivedIsGuard DEF RowInv, Row
  <1>x. ASSUME pc[h] # "idle", Exists(e.id), AnswerConflict(h, rows[e.id]), env' = env, created' = created
        PROVE  HandlerAfter(h)
    <2>1. guard[e.id] = rows[e.id].raw /\ rows[e.id].raw # e /\ rows[e.id].raw # None
      BY <1>x, <1>e, <1>r, EnvelopeAssumption DEF AnswerConflict, SameHashes
    <2>. QED BY <1>x, <1>e, <1>r, <1>a, <2>1 DEF AnswerConflict, AnswerStatus
  <1>y. ASSUME pc[h] # "idle", Exists(e.id), AnswerDuplicate(h, rows[e.id]), env' = env, created' = created
        PROVE  HandlerAfter(h)
    BY <1>y, <1>e, <1>r, <1>a DEF AnswerDuplicate, AnswerStatus
  <1>1. CASE \E f \in Envelopes : Begin(h, f)
    BY <1>1, <1>a DEF Begin, AnswerStatus
  <1>2. CASE Lookup(h)
    BY <1>2, <1>e, <1>x, <1>y DEF Lookup, HandleExisting, StoreAndMark
  <1>3. CASE Insert(h)
    BY <1>3, <1>e DEF Insert
  <1>4. CASE Reread(h)
    <2>1. CASE rows[e.id] = None
      BY <1>4, <2>1, <1>e, <1>a DEF Reread, AnswerStatus
    <2>2. CASE rows[e.id] # None
      BY <1>4, <2>2, <1>e, <1>x, <1>y DEF Reread, Exists
    <2>. QED BY <2>1, <2>2
  <1>5. CASE Guard(h)
    <2>1. CASE GuardAccepts(e)
      BY <1>5, <2>1, <1>e DEF Guard, WriteGuard, GuardAccepts, ArchiveTypeOK
    <2>2. CASE ~GuardAccepts(e)
      BY <1>5, <2>2, <1>e, <1>a DEF Guard, GuardAccepts, AnswerStatus
    <2>. QED BY <2>1, <2>2
  <1>6. CASE Object(h)
    <2>1. guard[e.id] = e /\ e # None
      BY <1>6, <1>e, EnvelopeFields DEF Object
    <2>2. ObjectAccepts(e)
      BY <1>6, <1>e, <2>1 DEF ObjectAccepts, ObjectInv, Object, Key, ArchiveTypeOK
    <2>. QED BY <1>6, <2>1, <2>2, <1>e DEF Object, WriteObject, ObjectAccepts, ArchiveTypeOK
  <1>7. CASE Cleanup(h) \/ Remove(h)
    BY <1>7 DEF Cleanup, Remove
  <1>9. CASE Mark(h)
    BY <1>9, <1>e DEF Mark
  <1>10. CASE MarkRead(h)
    BY <1>10, <1>e, <1>r, <1>a DEF MarkRead, AnswerStatus
  <1>11. CASE RecordIt(h) \/ Fail(h)
    BY <1>11, <1>e DEF RecordIt, Fail
  <1>13. CASE CallFails(h)
    BY <1>13, <1>e, <1>a DEF CallFails, LedgerFails, StorageFails, GiveUpWrite, AnswerStatus
  <1>14. CASE Crash(h)
    BY <1>14 DEF Crash
  <1>. QED
    BY <1>1, <1>2, <1>3, <1>4, <1>5, <1>6, <1>7, <1>9, <1>10, <1>11, <1>13, <1>14
    DEF IngestStep, IngestNext, Proceed

----------------------------------------------------------------------------
(* The invariant. *)

LEMMA IngestKeepsInv ==
  ASSUME TypeInv, NEW h \in Handlers, IngestStep(h), Adapter = "s3", ArchiveFirstInv
  PROVE  ArchiveFirstInv' /\ Grows
  <1>1. Grows /\ GuardInv' /\ ObjectInv' /\ LateInv'
    BY ArchiveGrows
  <1>2. RowInv'
    BY <1>1, RowsKept
  <1>3. \A g \in Handlers : HandlerAfter(g)
    <2>1. HandlerAfter(h)
      BY <1>1, HandlerStep
    <2>2. ASSUME NEW g \in Handlers, g # h  PROVE HandlerAfter(g)
      <3>1. pc'[g] = pc[g] /\ env'[g] = env[g] /\ created'[g] = created[g] /\ answer'[g] = answer[g]
        BY <2>2, HandlerFrame
      <3>2. env[g] \in Envelopes =>
              /\ Archived(env[g]) => object'[Key(env[g])] = env[g]
              /\ guard[env[g].id] = env[g] => guard'[env[g].id] = env[g]
              /\ guard[env[g].id] \notin {None, env[g]} => guard'[env[g].id] \notin {None, env[g]}
        BY <1>1, ArchivedStays
      <3>. QED BY <3>1, <3>2 DEF HandlerAfter, ArchiveFirstInv, HandlerInv, AnswerInv
    <2>. QED BY <2>1, <2>2
  <1>4. HandlerInv' /\ AnswerInv'
    BY <1>3 DEF HandlerAfter, HandlerInv, AnswerInv, Archived
  <1>. QED BY <1>1, <1>2, <1>4 DEF ArchiveFirstInv

LEMMA ArriveKeepsInv ==
  ASSUME TypeInv, ArchiveStep, ArchiveFirstInv
  PROVE  ArchiveFirstInv' /\ Grows
  <1>1. PICK p : Puts(p)
    BY DEF ArchiveStep, Arrive, Puts
  <1>2. Grows /\ GuardInv' /\ ObjectInv' /\ LateInv'
    BY <1>1, PutGrows
  <1>3. UNCHANGED <<rows, handlerVars>>
    BY DEF ArchiveStep, Arrive
  <1>4. RowInv'
    BY <1>2, <1>3, RowsStay DEF ArchiveFirstInv, Exists
  <1>5. ASSUME NEW h \in Handlers, env[h] \in Envelopes
        PROVE  /\ Archived(env[h]) => object'[Key(env[h])] = env[h]
               /\ guard[env[h].id] = env[h] => guard'[env[h].id] = env[h]
               /\ guard[env[h].id] \notin {None, env[h]} => guard'[env[h].id] \notin {None, env[h]}
    BY <1>2, <1>5, ArchivedStays
  <1>6. HandlerInv' /\ AnswerInv'
    BY <1>3, <1>5 DEF ArchiveFirstInv, HandlerInv, AnswerInv, Archived, handlerVars
  <1>. QED BY <1>2, <1>4, <1>6 DEF ArchiveFirstInv

LEMMA RetentionKeepsInv ==
  ASSUME TypeInv, NEW r \in Runners, RetentionStep(r), ArchiveFirstInv
  PROVE  ArchiveFirstInv' /\ UNCHANGED archiveVars
  <1>1. UNCHANGED <<archiveVars, handlerVars>>
    BY DEF RetentionStep, RetentionNext, ReadFloor, ReadCandidates, Confirm, Commit, Abort
  <1>2. \A i \in EventIds : Exists(i)' => Exists(i) /\ rows'[i] = rows[i]
    <2>1. CASE UNCHANGED rows
      BY <2>1 DEF Exists
    <2>2. CASE Commit(r)
      BY <2>2 DEF Commit, RetainStoredEvents, Exists, IsStored
    <2>. QED BY <2>1, <2>2 DEF RetentionStep, RetentionNext, ReadFloor, ReadCandidates, Confirm, Abort
  <1>3. Grows
    BY <1>1 DEF Grows, archiveVars
  <1>. QED BY <1>1, <1>2, <1>3, RowsStay
           DEF ArchiveFirstInv, GuardInv, ObjectInv, LateInv, HandlerInv, AnswerInv, Archived,
               archiveVars, handlerVars

\* Steps that neither ingest nor retain leave the invariant's variables alone.
LEMMA OtherStepsKeepInv ==
  ASSUME ArchiveFirstInv, UNCHANGED <<rows, archiveVars, handlerVars>>
  PROVE  ArchiveFirstInv'
  BY DEF ArchiveFirstInv, GuardInv, ObjectInv, LateInv, RowInv, Exists, HandlerInv, AnswerInv,
         Archived,
         archiveVars, handlerVars

LEMMA ArchiveFirstStep ==
  ASSUME TypeInv, Adapter = "s3", ArchiveFirstInv, [Next]_vars
  PROVE  ArchiveFirstInv'
  <1>1. ASSUME NEW c \in Consumers, ReplayStep(c)  PROVE ArchiveFirstInv'
    BY <1>1, OtherStepsKeepInv DEF ReplayStep, ledgerVars
  <1>2. CASE UNCHANGED vars
    BY <1>2, OtherStepsKeepInv DEF vars, ledgerVars
  <1>. QED BY <1>1, <1>2, IngestKeepsInv, ArriveKeepsInv, RetentionKeepsInv DEF Next

\* The invariant of the archive-first order holds in every state.
THEOREM ArchiveFirstCorrect ==
  ASSUME Adapter = "s3"
  PROVE  Spec => [](TypeInv /\ ArchiveFirstInv)
  <1>1. TypeInv /\ ArchiveFirstInv /\ [Next]_vars => (TypeInv /\ ArchiveFirstInv)'
    BY ArchiveFirstStep, TypeStep
  <1>. QED BY InitTypes, InitArchiveFirst, <1>1, PTL DEF Spec

\* The archive never holds two objects for one event id.
THEOREM OneEnvelopeTheorem ==
  ASSUME Adapter = "s3"
  PROVE  Spec => []OneEnvelopePerEvent
  <1>1. ArchiveFirstInv => OneEnvelopePerEvent
    BY DEF ArchiveFirstInv, ObjectInv, OneEnvelopePerEvent
  <1>. QED BY ArchiveFirstCorrect, <1>1, PTL

\* A row marked stored names the archived object that holds its raw envelope.
THEOREM StoredTheorem ==
  ASSUME Adapter = "s3"
  PROVE  Spec => []StoredIsArchived
  <1>1. ArchiveFirstInv => StoredIsArchived
    BY DEF ArchiveFirstInv, RowInv, StoredIsArchived, IsStored, Archived
  <1>. QED BY ArchiveFirstCorrect, <1>1, PTL

\* An envelope that was told hash_conflict is not, and never gets, archived.
THEOREM ConflictTheorem ==
  ASSUME Adapter = "s3"
  PROVE  Spec => []ConflictIsNotArchived
  <1>1. ArchiveFirstInv => ConflictIsNotArchived
    BY ArchivedIsGuard DEF ArchiveFirstInv, AnswerInv, ConflictIsNotArchived
  <1>. QED BY ArchiveFirstCorrect, <1>1, PTL

----------------------------------------------------------------------------
(* What the attempt log and the consumers were told. *)

\* The archive holds an envelope of the event id.
EventArchived(i) == \E e \in Envelopes : e.id = i /\ Archived(e)

\* A decided "stored" or "duplicate", which RecordAttempt logs only later, is
\* for an event id with an archived envelope: the request's own, or the one in
\* the row that was found.
DecidedIsArchived ==
  \A h \in Handlers :
    (answer[h] # None /\ answer[h].status \in {"stored", "duplicate"}) => EventArchived(env[h].id)

AuditInv == DecidedIsArchived /\ AuditIsArchived

LEMMA EventStaysArchived ==
  ASSUME Grows, NEW i, EventArchived(i)
  PROVE  \E e \in Envelopes : e.id = i /\ Archived(e)'
  BY ArchivedStays DEF EventArchived, Archived

\* A handler that a step leaves with such an answer had it already, or has
\* just read a row or marked one.
LEMMA DecisionIsArchived ==
  ASSUME TypeInv, ArchiveFirstInv, DecidedIsArchived, Adapter = "s3",
         NEW h \in Handlers, IngestStep(h),
         answer'[h] # None, answer'[h].status \in {"stored", "duplicate"}
  PROVE  env'[h] = env[h] /\ EventArchived(env[h].id)
  <1>. DEFINE e == env[h]
  <1>. USE DEF TypeInv, TypeOK, IngestTypeOK, ArchiveFirstInv, HandlerInv,
               At, Goto, SetAnswer, Report, ArchiveFirst
  <1>1. ASSUME answer'[h] = answer[h], env'[h] = env[h]
        PROVE  env'[h] = e /\ EventArchived(e.id)
    BY <1>1 DEF DecidedIsArchived
  <1>2. ASSUME pc[h] # "idle", env' = env, Archived(e)
        PROVE  env'[h] = e /\ EventArchived(e.id)
    BY <1>2 DEF EventArchived
  <1>3. ASSUME pc[h] # "idle", env' = env, Exists(e.id)
        PROVE  env'[h] = e /\ EventArchived(e.id)
    <2>1. e.id \in EventIds
      BY <1>3, EnvelopeFields
    <2>2. rows[e.id].raw \in Envelopes
      BY <1>3, <2>1 DEF LedgerTypeOK, Exists, Row
    <2>. QED BY <1>3, <2>1, <2>2 DEF RowInv, EventArchived
  <1>4. CASE Lookup(h)
    <2>1. env' = env /\ pc[h] # "idle"
      BY <1>4 DEF Lookup
    <2>. QED BY <1>4, <2>1, <1>1, <1>3 DEF Lookup
  <1>5. CASE Reread(h) \/ MarkRead(h)
    <2>1. pc[h] # "idle" /\ env' = env /\ Archived(e)
      BY <1>5 DEF Reread, MarkRead
    <2>. QED BY <2>1, <1>2
  <1>6. CASE \E f \in Envelopes : Begin(h, f)
    BY <1>6 DEF Begin
  <1>7. CASE Guard(h) \/ Object(h)
    BY <1>7, <1>1 DEF Guard, Object, GiveUpWrite
  <1>8. CASE Insert(h) \/ Cleanup(h) \/ Remove(h) \/ Mark(h) \/ RecordIt(h) \/ Fail(h)
    BY <1>8, <1>1 DEF Insert, Cleanup, Remove, Mark, RecordIt, Fail
  <1>9. CASE CallFails(h)
    BY <1>9, <1>1 DEF CallFails, LedgerFails, StorageFails, GiveUpWrite
  <1>10. CASE Crash(h)
    BY <1>10 DEF Crash
  <1>. QED BY <1>4, <1>5, <1>6, <1>7, <1>8, <1>9, <1>10 DEF IngestStep, IngestNext, Proceed

\* A new line of the attempt log repeats the decided answer.
LEMMA AttemptIsDecided ==
  ASSUME TypeInv, DecidedIsArchived, NEW h \in Handlers, IngestStep(h),
         NEW i \in EventIds, NEW s \in {"stored", "duplicate"}, <<i, s>> \in attempts' \ attempts
  PROVE  EventArchived(i)
  <1>1. RecordIt(h) /\ attempts' = attempts \cup {<<env[h].id, AttemptFor(answer[h].status)>>}
    BY DEF IngestStep, IngestNext, Begin, Proceed, Lookup, Insert, Reread, Guard, Object, Cleanup,
           Remove, Mark, MarkRead, RecordIt, RecordAttempt, Fail, CallFails, Crash
  <1>2. i = env[h].id /\ s = AttemptFor(answer[h].status)
    BY <1>1
  <1>3. answer[h] # None /\ answer[h].status = s
    BY <1>1, <1>2 DEF RecordIt, At, TypeInv, Busy, AttemptFor
  <1>. QED BY <1>2, <1>3 DEF DecidedIsArchived

LEMMA AuditKept ==
  ASSUME TypeInv, ArchiveFirstInv, AuditInv, Adapter = "s3", [Next]_vars
  PROVE  AuditInv'
  <1>. USE DEF AuditInv
  <1>g. ASSUME Grows, UNCHANGED <<attempts, handlerVars>>  PROVE AuditInv'
    BY <1>g, EventStaysArchived
    DEF DecidedIsArchived, AuditIsArchived, EventArchived, handlerVars
  <1>1. ASSUME NEW h \in Handlers, IngestStep(h)  PROVE AuditInv'
    <2>1. Grows
      BY <1>1, IngestKeepsInv
    <2>2. ASSUME NEW g \in Handlers, answer'[g] # None, answer'[g].status \in {"stored", "duplicate"}
          PROVE  EventArchived(env'[g].id)
      <3>1. CASE g = h
        BY <1>1, <2>2, <3>1, DecisionIsArchived
      <3>2. CASE g # h
        BY <1>1, <2>2, <3>2, HandlerFrame DEF DecidedIsArchived
      <3>. QED BY <3>1, <3>2
    <2>3. DecidedIsArchived'
      BY <2>1, <2>2, EventStaysArchived DEF DecidedIsArchived, EventArchived
    <2>4. ASSUME NEW i \in EventIds, NEW s \in {"stored", "duplicate"}, <<i, s>> \in attempts'
          PROVE  EventArchived(i)
      BY <1>1, <2>4, AttemptIsDecided DEF AuditIsArchived, EventArchived
    <2>5. AuditIsArchived'
      BY <2>1, <2>4, EventStaysArchived DEF AuditIsArchived
    <2>. QED BY <2>3, <2>5
  <1>2. CASE ArchiveStep
    BY <1>2, <1>g, ArriveKeepsInv DEF ArchiveStep, Arrive
  <1>3. ASSUME NEW r \in Runners, RetentionStep(r)  PROVE AuditInv'
    BY <1>3, <1>g, RetentionKeepsInv DEF RetentionStep, Grows, archiveVars
  <1>4. CASE (\E c \in Consumers : ReplayStep(c)) \/ UNCHANGED vars
    BY <1>4, <1>g DEF ReplayStep, vars, ledgerVars, archiveVars, Grows
  <1>. QED BY <1>1, <1>2, <1>3, <1>4 DEF Next

\* Every "stored" and "duplicate" of the attempt log is for an event id that the
\* archive holds, whichever hashes are checked and whatever dies after the log
\* was written.
THEOREM AuditTheorem ==
  ASSUME Adapter = "s3"
  PROVE  Spec => []AuditIsArchived
  <1>1. Init => AuditInv
    BY DEF Init, LedgerInit, IngestInit, AuditInv, DecidedIsArchived, AuditIsArchived
  <1>2. TypeInv /\ ArchiveFirstInv /\ AuditInv /\ [Next]_vars => AuditInv'
    BY AuditKept
  <1>3. AuditInv => AuditIsArchived
    BY DEF AuditInv
  <1>. QED BY ArchiveFirstCorrect, <1>1, <1>2, <1>3, PTL DEF Spec

\* What replay serves next is archived.
StoredRowsArchived == \A i \in EventIds : IsStored(i) => Archived(rows[i].raw)

\* A page of replay holds stored rows only.
LEMMA PageIsArchived ==
  ASSUME TypeInv, StoredRowsArchived, NEW a, NEW n, NEW wanted, NEW d \in ReplayPage(a, n, wanted)
  PROVE  d.raw \in Envelopes /\ Archived(d.raw)
  <1>1. PICK i \in EventIds : IsStored(i) /\ d = ToRecord(i)
    BY DEF ReplayPage, Lowest, StoredRows
  <1>. QED BY <1>1 DEF StoredRowsArchived, IsStored, Exists, ToRecord, TypeInv, TypeOK, LedgerTypeOK, Row

LEMMA DeliveredKept ==
  ASSUME TypeInv, StoredRowsArchived, DeliveredIsArchived, [Next]_vars
  PROVE  DeliveredIsArchived'
  <1>. USE DEF TypeInv, TypeOK, ReplayTypeOK
  <1>1. \A e \in Envelopes : Archived(e) => object'[Key(e)] = e
    BY ObjectsStay, EnvelopeFields DEF Archived
  <1>2. ASSUME NEW c \in Consumers, NEW d \in delivered[c]
        PROVE  object'[Key(d.raw)] = d.raw
    BY <1>1 DEF ReplayEvent, DeliveredIsArchived
  <1>3. CASE UNCHANGED delivered
    BY <1>2, <1>3 DEF DeliveredIsArchived, Archived
  <1>4. ASSUME NEW c \in Consumers, NEW n, Serve(c, ReplayPage(position[c], n, Wanted[c]))
        PROVE  DeliveredIsArchived'
    <2>1. \A d \in ReplayPage(position[c], n, Wanted[c]) : object'[Key(d.raw)] = d.raw
      BY <1>1, PageIsArchived
    <2>. QED BY <1>2, <1>4, <2>1 DEF Serve, DeliveredIsArchived, Archived
  <1>. QED BY <1>3, <1>4
           DEF Next, IngestStep, ArchiveStep, RetentionStep, ReplayStep, ReplayNext, CheckFloor,
               ReadPage, GetsPage, LedgerRefuses, vars, replayVars

\* Whatever a consumer was served, at any page and before or after a retention,
\* is in the archive as it was served.
THEOREM DeliveredTheorem ==
  ASSUME Adapter = "s3"
  PROVE  Spec => []DeliveredIsArchived
  <1>1. Init => DeliveredIsArchived
    BY DEF Init, ReplayInit, DeliveredIsArchived
  <1>2. ArchiveFirstInv => StoredRowsArchived
    BY DEF ArchiveFirstInv, RowInv, StoredRowsArchived, IsStored
  <1>3. TypeInv /\ StoredRowsArchived /\ DeliveredIsArchived /\ [Next]_vars => DeliveredIsArchived'
    BY DeliveredKept
  <1>. QED BY ArchiveFirstCorrect, <1>1, <1>2, <1>3, PTL DEF Spec

=============================================================================
