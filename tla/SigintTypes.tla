---------------------------- MODULE SigintTypes -----------------------------
(* Type correctness of Sigint for every value of its constants. *)
EXTENDS Sigint, TLAPS

(* A busy handler has an envelope, and an answer once it has decided. *)
Busy ==
  \A h \in Handlers :
    /\ pc[h] # "idle" => env[h] \in Envelopes
    /\ pc[h] \in {"report", "fail", "cleanup", "remove"}
         => answer[h] # None /\ answer[h].status # "invalid"

TypeInv == TypeOK /\ Busy

\* An envelope's event id and path are known ones (events.Envelope).
LEMMA EnvelopeFields ==
  ASSUME NEW e \in Envelopes
  PROVE  e.id \in EventIds /\ Key(e) \in Keys /\ e # None /\ Key(e) # None
  BY EnvelopeAssumption DEF Keys

----------------------------------------------------------------------------
(* The operators of the ledger and of the archive keep their types. *)

LEMMA InsertTypes ==
  ASSUME LedgerTypeOK, NEW e \in Envelopes, CanInsert(e.id), InsertReceived(e)
  PROVE  /\ rows' \in [EventIds -> Row \cup {None}]
         /\ nextCursor' \in 1..(MaxCursor + 1)
  BY EnvelopeFields, LedgerAssumption
  DEF LedgerTypeOK, CanInsert, InsertReceived, Exists, Row

LEMMA MarkStoredTypes ==
  ASSUME LedgerTypeOK, NEW e \in Envelopes, MarkStored(e)
  PROVE  rows' \in [EventIds -> Row \cup {None}]
  BY EnvelopeFields, LedgerAssumption DEF LedgerTypeOK, MarkStored, Exists, Row

LEMMA MarkFailedTypes ==
  ASSUME LedgerTypeOK, NEW e \in Envelopes, MarkFailed(e)
  PROVE  rows' \in [EventIds -> Row \cup {None}]
  BY EnvelopeFields, LedgerAssumption DEF LedgerTypeOK, MarkFailed, Exists, Row

LEMMA WriteTypes ==
  ASSUME ArchiveTypeOK, NEW e \in Envelopes
  PROVE  /\ WriteGuard(e) => guard' \in [EventIds -> Envelopes \cup {None}]
         /\ WriteObject(e) => object' \in [Keys -> Envelopes \cup {None}]
  BY EnvelopeFields DEF ArchiveTypeOK, WriteGuard, WriteObject

LEMMA StillLateType ==
  ASSUME ArchiveTypeOK, StillLate
  PROVE  late' \subseteq Put
  BY DEF ArchiveTypeOK, StillLate

LEMMA HearsNoMoreTypes ==
  ASSUME ArchiveTypeOK, NEW h \in Handlers, pc[h] # "idle" => env[h] \in Envelopes, HearsNoMore(h)
  PROVE  ArchiveTypeOK'
  BY DEF ArchiveTypeOK, HearsNoMore, Abandon, Put, archiveVars

LEMMA StoredRowsType ==
  ASSUME LedgerTypeOK, NEW a, NEW t, NEW n
  PROVE  /\ Lowest(StoredRows(a, t), n) \subseteq Candidate
         /\ \A wanted : ReplayPage(a, n, wanted) \subseteq Candidate
  <1>1. ASSUME NEW i \in EventIds, IsStored(i)
        PROVE  ToRecord(i) \in Candidate
    BY <1>1 DEF LedgerTypeOK, IsStored, Exists, Candidate, Row, ToRecord
  <1>2. StoredRows(a, t) \subseteq Candidate /\ StoredRows(a, MaxCursor) \subseteq Candidate
    BY <1>1 DEF StoredRows
  <1>. QED BY <1>2 DEF Lowest, ReplayPage

----------------------------------------------------------------------------
(* Type correctness, with the fact that a busy handler has an envelope. *)

LEMMA InitTypes == Init => TypeInv
  BY LedgerAssumption, IngestAssumption
  DEF Init, TypeInv, TypeOK, Busy, LedgerInit, ArchiveInit, IngestInit, RetentionInit, ReplayInit,
      LedgerTypeOK, ArchiveTypeOK, IngestTypeOK, RetentionTypeOK, ReplayTypeOK

\* What a handler may decide from a ledger row.
Decision(h) ==
  \/ \E s \in AnswerStatus \ {"invalid"}, u \in Keys \cup {None} :
       Report(h, s, u) /\ UNCHANGED inserted
  \/ \E call \in {"guard", "insert", "mark"} : Goto(h, call) /\ UNCHANGED <<inserted, answer>>
  \/ StoreAndMark(h)

LEMMA DecisionTypes ==
  ASSUME TypeInv, NEW h \in Handlers, env[h] \in Envelopes, Decision(h), UNCHANGED <<env, created>>
  PROVE  IngestTypeOK' /\ Busy'
  <1>. USE IngestAssumption
       DEF TypeInv, TypeOK, IngestTypeOK, Busy, Goto, SetAnswer, Report, Calls, Answer, StoreAndMark
  <1>1. CASE \E s \in AnswerStatus \ {"invalid"}, u \in Keys \cup {None} :
               Report(h, s, u) /\ UNCHANGED inserted
    BY <1>1
  <1>2. CASE \E call \in {"guard", "insert", "mark"} : Goto(h, call) /\ UNCHANGED <<inserted, answer>>
    BY <1>2
  <1>3. CASE StoreAndMark(h)
    BY <1>3
  <1>. QED BY <1>1, <1>2, <1>3 DEF Decision

LEMMA ExistingDecision ==
  ASSUME NEW h, NEW row \in Row, HandleExisting(h, row)
  PROVE  Decision(h)
  BY DEF HandleExisting, AnswerConflict, AnswerDuplicate, Decision, AnswerStatus, Row

LEMMA IngestTypes ==
  ASSUME TypeInv, NEW h \in Handlers, IngestStep(h)
  PROVE  LedgerTypeOK' /\ ArchiveTypeOK' /\ IngestTypeOK' /\ Busy'
  <1>. USE DEF TypeInv, TypeOK, IngestTypeOK, Busy, IngestStep, At, Goto, SetAnswer, Report, Calls,
               archiveVars, Answer, AnswerStatus
  <1>e. /\ pc[h] # "idle" => env[h] \in Envelopes /\ Key(env[h]) \in Keys /\ env[h].id \in EventIds
        /\ pc[h] \in Calls \cup {"idle"}
    BY EnvelopeFields
  <1>r. ASSUME NEW i \in EventIds, Exists(i)  PROVE rows[i] \in Row /\ rows[i].uri \in Keys \cup {None}
    BY <1>r DEF LedgerTypeOK, Exists, Row
  <1>1. CASE \E e \in Envelopes : Begin(h, e)
    BY <1>1, IngestAssumption DEF Begin, LedgerTypeOK, ArchiveTypeOK
  <1>2. CASE Lookup(h)
    <2>1. UNCHANGED <<rows, nextCursor, attempts, floor, archiveVars, env, created>>
      BY <1>2 DEF Lookup
    <2>2. Decision(h)
      BY <1>2, <1>e, <1>r, ExistingDecision DEF Lookup, Decision
    <2>3. IngestTypeOK' /\ Busy'
      BY <1>2, <2>1, <2>2, DecisionTypes, <1>e DEF Lookup
    <2>. QED BY <2>1, <2>3 DEF LedgerTypeOK, ArchiveTypeOK
  <1>3. CASE Insert(h)
    BY <1>3, <1>e, InsertTypes DEF Insert, LedgerTypeOK, ArchiveTypeOK
  <1>4. CASE Reread(h)
    <2>1. UNCHANGED <<rows, nextCursor, attempts, floor, archiveVars, env, created>>
      BY <1>4 DEF Reread
    <2>2. Decision(h)
      <3>1. CASE rows[env[h].id] = None
        BY <1>4, <3>1 DEF Reread, Decision
      <3>2. CASE rows[env[h].id] # None
        <4>1. rows[env[h].id] \in Row
          BY <1>4, <3>2, <1>e, <1>r DEF Reread, Exists
        <4>. QED
          BY <1>4, <3>2, <4>1, ExistingDecision
          DEF Reread, AnswerConflict, AnswerDuplicate, Decision, Row
      <3>. QED BY <3>1, <3>2
    <2>3. IngestTypeOK' /\ Busy'
      BY <1>4, <2>1, <2>2, <1>e, DecisionTypes DEF Reread
    <2>. QED BY <2>1, <2>3 DEF LedgerTypeOK, ArchiveTypeOK
  <1>5. CASE Guard(h)
    BY <1>5, <1>e, WriteTypes, StillLateType, IngestAssumption DEF Guard, LedgerTypeOK, ArchiveTypeOK
  <1>6. CASE Object(h)
    BY <1>6, <1>e, WriteTypes, StillLateType, IngestAssumption DEF Object, GiveUpWrite, LedgerTypeOK, ArchiveTypeOK
  <1>7. CASE Cleanup(h)
    BY <1>7 DEF Cleanup, LedgerTypeOK, ArchiveTypeOK
  <1>8. CASE Remove(h)
    BY <1>8, <1>e DEF Remove, LedgerTypeOK, ArchiveTypeOK
  <1>9. CASE Mark(h)
    BY <1>9, <1>e, MarkStoredTypes DEF Mark, LedgerTypeOK, ArchiveTypeOK
  <1>10. CASE MarkRead(h)
    BY <1>10, <1>e, <1>r, IngestAssumption DEF MarkRead, LedgerTypeOK, ArchiveTypeOK
  <1>11. CASE RecordIt(h)
    BY <1>11, <1>e DEF RecordIt, RecordAttempt, AttemptFor, AttemptStatus, LedgerTypeOK, ArchiveTypeOK
  <1>12. CASE Fail(h)
    BY <1>12, <1>e, MarkFailedTypes DEF Fail, LedgerTypeOK, ArchiveTypeOK
  <1>13. CASE CallFails(h)
    <2>1. CASE LedgerFails(h) /\ UNCHANGED archiveVars
      <3>1. IngestTypeOK' /\ Busy'
        BY <1>13, <2>1, <1>e, IngestAssumption DEF CallFails, LedgerFails
      <3>2. rows' \in [EventIds -> Row \cup {None}] /\ nextCursor' \in 1..(MaxCursor + 1)
        BY <1>13, <2>1, <1>e, InsertTypes, MarkStoredTypes DEF LedgerFails, LedgerTypeOK
      <3>. QED BY <1>13, <2>1, <3>1, <3>2 DEF CallFails, LedgerTypeOK, ArchiveTypeOK
    <2>2. CASE StorageFails(h) /\ UNCHANGED <<rows, nextCursor>>
      <3>1. IngestTypeOK' /\ Busy'
        BY <1>13, <2>2, <1>e, IngestAssumption DEF CallFails, StorageFails, GiveUpWrite
      <3>2. ArchiveTypeOK'
        BY <2>2, <1>e, HearsNoMoreTypes DEF StorageFails
      <3>. QED BY <1>13, <2>2, <3>1, <3>2 DEF CallFails, LedgerTypeOK
    <2>. QED BY <1>13, <2>1, <2>2 DEF CallFails
  <1>14. CASE Crash(h)
    BY <1>14, <1>e, HearsNoMoreTypes DEF Crash, LedgerTypeOK
  <1>. QED
    BY <1>1, <1>2, <1>3, <1>4, <1>5, <1>6, <1>7, <1>8, <1>9, <1>10, <1>11, <1>12, <1>13, <1>14
    DEF IngestNext, Proceed

LEMMA ArchiveTypes ==
  ASSUME TypeInv, ArchiveStep
  PROVE  ArchiveTypeOK'
  <1>1. PICK p \in InFlight : Arrive(p)
    BY DEF ArchiveStep
  <1>2. p[2] \in Envelopes
    BY <1>1 DEF InFlight, TypeInv, TypeOK, ArchiveTypeOK, Put, Busy
  <1>. QED BY <1>1, <1>2, WriteTypes, StillLateType DEF Arrive, TypeInv, TypeOK, ArchiveTypeOK

LEMMA RetentionTypes ==
  ASSUME TypeInv, NEW r \in Runners, RetentionStep(r)
  PROVE  LedgerTypeOK' /\ ArchiveTypeOK' /\ RetentionTypeOK'
  <1>. USE DEF TypeInv, TypeOK, RetentionTypeOK, RetentionStep, RGoto, archiveVars
  <1>1. CASE ReadFloor(r)
    BY <1>1 DEF ReadFloor, LedgerTypeOK, ArchiveTypeOK
  <1>2. CASE ReadCandidates(r)
    <2>1. PICK t : batch' = [batch EXCEPT ![r] = RetentionCandidates(after[r], t, RetentionLimit)]
      BY <1>2 DEF ReadCandidates
    <2>2. RetentionCandidates(after[r], t, RetentionLimit) \subseteq Candidate
      BY StoredRowsType DEF RetentionCandidates
    <2>3. rpc' \in [Runners -> {"idle", "candidates", "confirm", "commit"}]
      BY <1>2 DEF ReadCandidates
    <2>. QED BY <1>2, <2>1, <2>2, <2>3 DEF ReadCandidates, LedgerTypeOK, ArchiveTypeOK
  <1>3. CASE Confirm(r)
    BY <1>3 DEF Confirm, LedgerTypeOK, ArchiveTypeOK
  <1>4. CASE Commit(r)
    <2>1. PICK last \in batch[r] : RetainStoredEvents(Cursors(batch[r]), last.cursor)
      BY <1>4 DEF Commit
    <2>2. last.cursor \in 0..MaxCursor
      BY LedgerAssumption DEF Candidate
    <2>3. rows' \in [EventIds -> Row \cup {None}] /\ floor' \in 0..MaxCursor
      BY <2>1, <2>2 DEF RetainStoredEvents, SetReplayWatermark, LedgerTypeOK
    <2>. QED BY <1>4, <2>3 DEF Commit, LedgerTypeOK, ArchiveTypeOK
  <1>5. CASE Abort(r)
    BY <1>5 DEF Abort, LedgerTypeOK, ArchiveTypeOK
  <1>. QED BY <1>1, <1>2, <1>3, <1>4, <1>5 DEF RetentionNext

LEMMA ReplayTypes ==
  ASSUME TypeInv, NEW c \in Consumers, ReplayStep(c)
  PROVE  ReplayTypeOK'
  <1>. USE DEF TypeInv, TypeOK, ReplayTypeOK, ReplayStep
  <1>1. CASE CheckFloor(c)
    BY <1>1 DEF CheckFloor, LedgerTypeOK
  <1>2. CASE ReadPage(c)
    <2>1. CASE LedgerRefuses(c)
      BY <2>1 DEF LedgerRefuses
    <2>2. ASSUME NEW limit, Serve(c, ReplayPage(position[c], limit, Wanted[c]))
          PROVE  /\ position' \in [Consumers -> 0..MaxCursor]
                 /\ delivered' \in [Consumers -> SUBSET ReplayEvent]
      <3>. DEFINE page == ReplayPage(position[c], limit, Wanted[c])
      <3>1. page \subseteq Candidate
        BY StoredRowsType
      <3>2. position' \in [Consumers -> 0..MaxCursor]
        BY <2>2, <3>1, LedgerAssumption DEF Serve, Candidate
      <3>. QED BY <2>2, <3>1, <3>2 DEF Serve, Candidate, ReplayEvent
    <2>. QED BY <1>2, <2>1, <2>2 DEF ReadPage, GetsPage
  <1>. QED BY <1>1, <1>2 DEF ReplayNext

LEMMA TypeStep == TypeInv /\ [Next]_vars => TypeInv'
  <1>. SUFFICES ASSUME TypeInv, [Next]_vars  PROVE TypeInv'
    OBVIOUS
  <1>. USE DEF TypeInv, TypeOK
  <1>1. ASSUME NEW h \in Handlers, IngestStep(h)  PROVE TypeInv'
    BY <1>1, IngestTypes DEF IngestStep, RetentionTypeOK, ReplayTypeOK, retentionVars, replayVars
  <1>5. CASE ArchiveStep
    BY <1>5, ArchiveTypes
    DEF ArchiveStep, Arrive, LedgerTypeOK, IngestTypeOK, RetentionTypeOK, ReplayTypeOK, Busy,
        handlerVars, retentionVars, replayVars
  <1>2. ASSUME NEW r \in Runners, RetentionStep(r)  PROVE TypeInv'
    BY <1>2, RetentionTypes
    DEF RetentionStep, IngestTypeOK, ReplayTypeOK, Busy, handlerVars, replayVars
  <1>3. ASSUME NEW c \in Consumers, ReplayStep(c)  PROVE TypeInv'
    BY <1>3, ReplayTypes
    DEF ReplayStep, LedgerTypeOK, ArchiveTypeOK, IngestTypeOK, RetentionTypeOK, Busy,
        ledgerVars, archiveVars, handlerVars, retentionVars
  <1>4. CASE UNCHANGED vars
    BY <1>4
    DEF vars, ledgerVars, archiveVars, handlerVars, retentionVars, replayVars, Busy,
        LedgerTypeOK, ArchiveTypeOK, IngestTypeOK, RetentionTypeOK, ReplayTypeOK
  <1>. QED BY <1>1, <1>2, <1>3, <1>4, <1>5 DEF Next

\* Every variable keeps its type, whatever the adapter, the faults and the
\* numbers of handlers, runners and consumers.
THEOREM TypeCorrect == Spec => []TypeOK
  <1>1. TypeInv => TypeOK
    BY DEF TypeInv
  <1>. QED BY InitTypes, TypeStep, <1>1, PTL DEF Spec

----------------------------------------------------------------------------
(* What stays: archived objects, and what a row says of its event. *)

\* An archived object is never written again, with either adapter.
LEMMA ObjectsStay ==
  ASSUME TypeInv, [Next]_vars, NEW k \in Keys, object[k] # None
  PROVE  object'[k] = object[k]
  <1>. USE DEF TypeInv, TypeOK, ArchiveTypeOK
  <1>1. ASSUME NEW h \in Handlers, IngestStep(h)  PROVE UNCHANGED object \/ WriteObject(env[h])
    BY <1>1 DEF IngestStep, IngestNext, Begin, Proceed, Lookup, Insert, Reread, Guard, Object, Cleanup,
                Remove, Mark, MarkRead, RecordIt, Fail, CallFails, StorageFails, Crash, HearsNoMore,
                Abandon, archiveVars
  <1>2. ASSUME NEW e, WriteObject(e)  PROVE object'[k] = object[k]
    BY <1>2 DEF WriteObject
  <1>3. ASSUME ArchiveStep  PROVE UNCHANGED object \/ \E e : WriteObject(e)
    BY <1>3 DEF ArchiveStep, Arrive
  <1>4. ASSUME NEW r \in Runners, RetentionStep(r)  PROVE UNCHANGED object
    BY <1>4 DEF RetentionStep, RetentionNext, ReadFloor, ReadCandidates, Confirm, Commit, Abort, archiveVars
  <1>. QED BY <1>1, <1>2, <1>3, <1>4 DEF Next, ReplayStep, vars, archiveVars

\* What the statements of a request do to a row: it appears with the request's
\* envelope and the next cursor, or keeps its cursor and raw envelope.
LEMMA RequestRows ==
  ASSUME TypeInv, NEW h \in Handlers, IngestStep(h), NEW i \in EventIds
  PROVE  /\ Exists(i) => Exists(i)' /\ ToRecord(i)' = ToRecord(i)
         /\ ~Exists(i) /\ Exists(i)' =>
              /\ pc[h] = "insert" /\ env[h].id = i
              /\ rows'[i] = [cursor |-> nextCursor, raw |-> env[h], status |-> "received", uri |-> None]
  <1>. USE DEF TypeInv, TypeOK, LedgerTypeOK
  <1>e. pc[h] # "idle" => env[h] \in Envelopes /\ env[h].id \in EventIds /\ Key(env[h]) \in Keys
    BY EnvelopeFields DEF Busy
  <1>r. Exists(i) => rows[i] \in Row
    BY DEF Exists
  <1>1. CASE UNCHANGED rows
    BY <1>1 DEF Exists, ToRecord
  <1>2. CASE pc[h] = "insert" /\ InsertReceived(env[h])
    BY <1>2, <1>e, <1>r DEF InsertReceived, Exists, ToRecord
  <1>3. ASSUME pc[h] # "idle", MarkStored(env[h]) \/ MarkFailed(env[h])
        PROVE  /\ ~Exists(i) => ~Exists(i)'
               /\ Exists(i) => Exists(i)' /\ ToRecord(i)' = ToRecord(i)
    <2>1. CASE i = env[h].id /\ Exists(i)
      <3>1. \/ rows'[i] = [rows[i] EXCEPT !.status = "stored", !.uri = Key(env[h])]
            \/ rows'[i] = [rows[i] EXCEPT !.status = "failed"]
        BY <1>3, <2>1 DEF MarkStored, MarkFailed
      <3>2. rows'[i] \in Row /\ rows'[i].cursor = rows[i].cursor /\ rows'[i].raw = rows[i].raw
        BY <1>3, <1>e, <1>r, <2>1, <3>1 DEF Row
      <3>. QED BY <2>1, <3>2, LedgerAssumption DEF Exists, ToRecord
    <2>2. CASE i # env[h].id \/ ~Exists(i)
      BY <1>3, <1>e, <2>2 DEF MarkStored, MarkFailed, Exists, ToRecord
    <2>. QED BY <2>1, <2>2
  <1>4. \/ UNCHANGED rows
        \/ pc[h] = "insert" /\ InsertReceived(env[h])
        \/ pc[h] # "idle" /\ (MarkStored(env[h]) \/ MarkFailed(env[h]))
    BY DEF IngestStep, IngestNext, Begin, Proceed, Lookup, Insert, Reread, Guard, Object, Cleanup,
           Remove, Mark, MarkRead, RecordIt, Fail, CallFails, LedgerFails, Crash, At
  <1>. QED BY <1>1, <1>2, <1>3, <1>4

=============================================================================
