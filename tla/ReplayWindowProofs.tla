------------------------- MODULE ReplayWindowProofs -------------------------
(***************************************************************************)
(* What leaves the ledger and what replay serves: the watermark, deletion, *)
(* and the consumers that follow the ledger by its cursors, with either    *)
(* adapter.                                                                *)
(* The watermark is proved for at most one retention command at a time:    *)
(* two of them may move it back, since each writes the one it computed,    *)
(* whatever the other has written meanwhile.                               *)
(***************************************************************************)
EXTENDS ArchiveFirstProofs, FiniteSetTheorems

OneRunner == \A r, q \in Runners : r = q

\* A command that has read the watermark works on rows above it.
RunnerInv ==
  \A r \in Runners :
    /\ rpc[r] # "idle" => after[r] = floor
    /\ rpc[r] \in {"confirm", "commit"} => \A c \in batch[r] : c.cursor > after[r]

LEMMA CandidatesAreAbove ==
  ASSUME NEW a, NEW through, NEW n, NEW c \in RetentionCandidates(a, through, n)
  PROVE  c.cursor > a
  BY DEF RetentionCandidates, Lowest, StoredRows, ToRecord

LEMMA RunnerStep ==
  ASSUME TypeInv, RunnerInv, OneRunner, NEW r \in Runners, RetentionStep(r)
  PROVE  RunnerInv'
  <1>. USE DEF TypeInv, TypeOK, RetentionTypeOK, RunnerInv, OneRunner, RGoto
  <1>1. CASE ReadFloor(r)
    BY <1>1 DEF ReadFloor
  <1>2. CASE ReadCandidates(r)
    BY <1>2, CandidatesAreAbove DEF ReadCandidates
  <1>3. CASE Confirm(r)
    BY <1>3 DEF Confirm
  <1>4. CASE Commit(r)
    BY <1>4 DEF Commit
  <1>5. CASE Abort(r)
    BY <1>5 DEF Abort
  <1>. QED BY <1>1, <1>2, <1>3, <1>4, <1>5 DEF RetentionStep, RetentionNext

\* Only a retention command moves the watermark.
LEMMA OthersKeepFloor ==
  ASSUME [Next]_vars
  PROVE  \/ UNCHANGED <<floor, retentionVars>>
         \/ \E r \in Runners : RetentionStep(r)
  BY DEF Next, IngestStep, ArchiveStep, ReplayStep, vars, ledgerVars

LEMMA RunnerKept ==
  ASSUME TypeInv, RunnerInv, OneRunner, [Next]_vars
  PROVE  RunnerInv'
  BY OthersKeepFloor, RunnerStep DEF RunnerInv, retentionVars

LEMMA RunnerCorrect ==
  ASSUME OneRunner
  PROVE  Spec => [](TypeInv /\ RunnerInv)
  <1>1. Init => RunnerInv
    BY DEF Init, RetentionInit, RunnerInv
  <1>2. TypeInv /\ RunnerInv /\ [Next]_vars => (TypeInv /\ RunnerInv)'
    BY TypeStep, RunnerKept
  <1>. QED BY InitTypes, <1>1, <1>2, PTL DEF Spec

LEMMA FloorStep ==
  ASSUME TypeInv, RunnerInv, [Next]_vars
  PROVE  floor' >= floor
  <1>1. floor \in Int
    BY LedgerAssumption DEF TypeInv, TypeOK, LedgerTypeOK
  <1>2. ASSUME NEW r \in Runners, Commit(r)  PROVE floor' >= floor
    <2>1. PICK last \in batch[r] : floor' = last.cursor
      BY <1>2 DEF Commit, RetainStoredEvents, SetReplayWatermark
    <2>2. last.cursor \in Int
      BY LedgerAssumption DEF TypeInv, TypeOK, RetentionTypeOK, Candidate
    <2>. QED BY <1>1, <1>2, <2>1, <2>2 DEF RunnerInv, Commit
  <1>. QED
    BY <1>1, <1>2, OthersKeepFloor
    DEF RetentionStep, RetentionNext, ReadFloor, ReadCandidates, Confirm, Abort

\* While at most one retention command runs, the watermark never moves back,
\* whatever the requests store and however often a command is aborted.
THEOREM FloorTheorem ==
  ASSUME OneRunner
  PROVE  Spec => FloorIsMonotone
  <1>1. TypeInv /\ RunnerInv /\ [Next]_vars => [floor' >= floor]_vars
    BY FloorStep
  <1>. QED BY RunnerCorrect, <1>1, PTL DEF Spec, FloorIsMonotone

----------------------------------------------------------------------------
(* What the watermark says of the rows that are gone. *)

\* A row of a live cursor stays, with its cursor, unless retention deletes it.
LEMMA RequestKeepsCursors ==
  ASSUME TypeInv, NEW h \in Handlers, IngestStep(h)
  PROVE  /\ LiveCursors \subseteq LiveCursors'
         /\ \/ nextCursor' = nextCursor
            \/ nextCursor' = nextCursor + 1 /\ nextCursor \in LiveCursors'
  <1>. USE DEF TypeInv, TypeOK, LedgerTypeOK
  <1>e. pc[h] # "idle" => env[h] \in Envelopes /\ env[h].id \in EventIds
    BY EnvelopeFields DEF Busy
  <1>r. \A i \in EventIds : Exists(i) => rows[i] \in Row
    BY DEF Exists
  <1>1. ASSUME UNCHANGED rows  PROVE LiveCursors' = LiveCursors
    BY <1>1 DEF LiveCursors, Exists
  <1>2. ASSUME NEW e \in Envelopes, e.id \in EventIds, CanInsert(e.id), InsertReceived(e)
        PROVE  /\ LiveCursors \subseteq LiveCursors'
               /\ \/ nextCursor' = nextCursor
                  \/ nextCursor' = nextCursor + 1 /\ nextCursor \in LiveCursors'
    <2>1. CASE Exists(e.id)
      BY <1>1, <1>2, <2>1 DEF InsertReceived
    <2>2. CASE ~Exists(e.id)
      <3>. DEFINE new == [cursor |-> nextCursor, raw |-> e, status |-> "received", uri |-> None]
      <3>1. rows' = [rows EXCEPT ![e.id] = new] /\ nextCursor' = nextCursor + 1
        BY <1>2, <2>2 DEF InsertReceived
      <3>2. new \in Row /\ new # None /\ new.cursor = nextCursor
        BY <1>2, <2>2, LedgerAssumption DEF CanInsert, Row
      <3>. QED BY <1>2, <2>2, <3>1, <3>2 DEF LiveCursors, Exists
    <2>. QED BY <2>1, <2>2
  <1>3. ASSUME NEW e \in Envelopes, e.id \in EventIds, MarkStored(e) \/ MarkFailed(e)
        PROVE  LiveCursors \subseteq LiveCursors'
    <2>1. rows' \in [EventIds -> Row \cup {None}]
      BY <1>3, MarkStoredTypes, MarkFailedTypes
    <2>2. ASSUME NEW i \in EventIds, Exists(i)
          PROVE  rows'[i] # None /\ rows'[i].cursor = rows[i].cursor
      <3>1. CASE i = e.id
        <4>1. \/ rows'[i] = [rows[i] EXCEPT !.status = "stored", !.uri = Key(e)]
              \/ rows'[i] = [rows[i] EXCEPT !.status = "failed"]
          BY <1>3, <2>2, <3>1 DEF MarkStored, MarkFailed
        <4>2. rows[i] \in Row /\ Key(e) \in Keys
          BY <1>r, <2>2, EnvelopeFields
        <4>3. rows'[i] \in Row /\ rows'[i].cursor = rows[i].cursor
          BY <4>1, <4>2 DEF Row
        <4>. QED BY <4>3, LedgerAssumption
      <3>2. CASE i # e.id
        BY <1>3, <2>2, <3>2 DEF MarkStored, MarkFailed, Exists
      <3>. QED BY <3>1, <3>2
    <2>. QED BY <2>2 DEF LiveCursors, Exists
  <1>4. \/ UNCHANGED <<rows, nextCursor>>
        \/ pc[h] = "insert" /\ CanInsert(env[h].id) /\ InsertReceived(env[h])
        \/ pc[h] = "mark" /\ MarkStored(env[h]) /\ UNCHANGED nextCursor
        \/ pc[h] = "fail" /\ MarkFailed(env[h]) /\ UNCHANGED nextCursor
    BY DEF IngestStep, IngestNext, Begin, Proceed, Lookup, Insert, Reread, Guard, Object, Cleanup,
           Remove, Mark, MarkRead, RecordIt, Fail, CallFails, LedgerFails, Crash, At
  <1>. QED BY <1>e, <1>1, <1>2, <1>3, <1>4

LEMMA CommitKeepsCursors ==
  ASSUME TypeInv, NEW r \in Runners, Commit(r)
  PROVE  \A c \in LiveCursors : c \in LiveCursors' \/ c <= floor'
  <1>1. PICK last \in batch[r] : /\ \A d \in batch[r] : d.cursor <= last.cursor
                                 /\ RetainStoredEvents(Cursors(batch[r]), last.cursor)
    BY DEF Commit
  <1>2. ASSUME NEW i \in EventIds, Exists(i), ~Exists(i)'
        PROVE  rows[i].cursor <= floor'
    <2>1. rows[i].cursor \in Cursors(batch[r])
      BY <1>1, <1>2 DEF RetainStoredEvents, Exists
    <2>. QED BY <1>1, <2>1 DEF Cursors, RetainStoredEvents, SetReplayWatermark
  <1>3. ASSUME NEW i \in EventIds, Exists(i)'
        PROVE  rows'[i] = rows[i]
    BY <1>1, <1>3 DEF RetainStoredEvents, Exists
  <1>. QED BY <1>2, <1>3 DEF LiveCursors

LEMMA BelowFloorStep ==
  ASSUME TypeInv, RunnerInv, DeletedIsBelowFloor, [Next]_vars
  PROVE  DeletedIsBelowFloor'
  <1>. USE DEF DeletedIsBelowFloor
  <1>t. /\ nextCursor \in Int /\ floor \in Int /\ floor' \in Int /\ floor' >= floor
    BY TypeStep, FloorStep, LedgerAssumption DEF TypeInv, TypeOK, LedgerTypeOK
  <1>1. ASSUME NEW h \in Handlers, IngestStep(h)  PROVE DeletedIsBelowFloor'
    <2>1. floor' = floor
      BY <1>1 DEF IngestStep
    <2>. QED BY <1>1, <1>t, <2>1, RequestKeepsCursors
  <1>2. CASE UNCHANGED <<rows, nextCursor>>
    <2>1. LiveCursors' = LiveCursors
      BY <1>2 DEF LiveCursors, Exists
    <2>. QED BY <1>2, <1>t, <2>1
  <1>3. ASSUME NEW r \in Runners, Commit(r), UNCHANGED nextCursor
        PROVE  DeletedIsBelowFloor'
    BY <1>3, <1>t, CommitKeepsCursors
  <1>. QED
    BY <1>1, <1>2, <1>3
    DEF Next, ArchiveStep, Arrive, RetentionStep, RetentionNext, ReadFloor, ReadCandidates, Confirm,
        Abort, ReplayStep, vars, ledgerVars

\* While at most one retention command runs, a cursor that was given out and
\* has no row any more is at or below the watermark: a replay request that
\* would miss the event is told that its window has expired.
THEOREM DeletedIsBelowFloorTheorem ==
  ASSUME OneRunner
  PROVE  Spec => []DeletedIsBelowFloor
  <1>1. Init => DeletedIsBelowFloor
    BY DEF Init, LedgerInit, DeletedIsBelowFloor
  <1>2. TypeInv /\ RunnerInv /\ DeletedIsBelowFloor /\ [Next]_vars => DeletedIsBelowFloor'
    BY BelowFloorStep
  <1>. QED BY RunnerCorrect, <1>1, <1>2, PTL DEF Spec

----------------------------------------------------------------------------
(* Only what the archive holds is deleted, with either adapter and any     *)
(* number of retention commands.                                           *)

\* Only a request inserts, at the next cursor.
LEMMA RequestCursors ==
  ASSUME TypeInv, NEW h \in Handlers, IngestStep(h)
  PROVE  /\ UNCHANGED <<floor, position, batch>>
         /\ \/ UNCHANGED <<rows, nextCursor>>
            \/ /\ pc[h] = "insert" /\ InsertReceived(env[h])
            \/ /\ pc[h] \in {"mark", "fail"} /\ UNCHANGED nextCursor
  BY DEF IngestStep, IngestNext, Begin, Proceed, Lookup, Insert, Reread, Guard, Object, Cleanup,
         Remove, Mark, MarkRead, RecordIt, Fail, CallFails, LedgerFails, Crash, At,
         retentionVars, replayVars

\* What a retention command does to the rows and to the watermark.
LEMMA RetentionRows ==
  ASSUME NEW r \in Runners, RetentionStep(r)
  PROVE  /\ UNCHANGED <<nextCursor, archiveVars, handlerVars, replayVars>>
         /\ \A i \in EventIds : Exists(i)' => Exists(i) /\ rows'[i] = rows[i]
         /\ \A i \in EventIds : Exists(i) /\ ~IsStored(i) => rows'[i] = rows[i]
         /\ \/ floor' = floor
            \/ \E last \in batch[r] : floor' = last.cursor
  <1>1. CASE UNCHANGED <<rows, floor, archiveVars>>
    BY <1>1 DEF RetentionStep, Exists, IsStored
  <1>2. CASE Commit(r)
    BY <1>2
    DEF RetentionStep, Commit, RetainStoredEvents, SetReplayWatermark, Exists, IsStored
  <1>. QED BY <1>1, <1>2
           DEF RetentionStep, RetentionNext, ReadFloor, ReadCandidates, Confirm, Abort

\* A cursor is given out once, and a candidate is known by its cursor: a row
\* under it has the candidate's raw envelope, also when other commands delete
\* and requests insert in the meantime.  What is committed was confirmed.
BatchInv ==
  /\ \A i \in EventIds : Exists(i) => rows[i].cursor < nextCursor
  /\ \A i, j \in EventIds : Exists(i) /\ Exists(j) /\ rows[i].cursor = rows[j].cursor => i = j
  /\ \A r \in Runners : \A d \in batch[r] :
       /\ d.cursor < nextCursor
       /\ \A i \in EventIds : Exists(i) /\ rows[i].cursor = d.cursor => rows[i].raw = d.raw
       /\ rpc[r] = "commit" => Archived(d.raw)

LEMMA BatchTypes ==
  ASSUME TypeInv
  PROVE  /\ nextCursor \in Int
         /\ \A i \in EventIds : Exists(i) => rows[i].cursor \in Int /\ rows[i].raw \in Envelopes
         /\ \A r \in Runners : \A d \in batch[r] : d.cursor \in Int /\ d.raw \in Envelopes
  BY LedgerAssumption
  DEF TypeInv, TypeOK, LedgerTypeOK, RetentionTypeOK, Exists, Row, Candidate

LEMMA RequestKeepsBatch ==
  ASSUME TypeInv, BatchInv, NEW h \in Handlers, IngestStep(h)
  PROVE  BatchInv'
  <1>. USE DEF BatchInv
  <1>1. UNCHANGED <<batch, rpc>>
    BY DEF IngestStep, retentionVars
  <1>2. \A r \in Runners : \A d \in batch[r] : Archived(d.raw) => object'[Key(d.raw)] = d.raw
    BY BatchTypes, ObjectsStay, EnvelopeFields DEF Archived, Next
  <1>3. \A i \in EventIds : Exists(i) => Exists(i)' /\ rows'[i].cursor = rows[i].cursor
                                                   /\ rows'[i].raw = rows[i].raw
    BY RequestRows DEF ToRecord
  <1>4. ASSUME NEW i \in EventIds, ~Exists(i), Exists(i)'
        PROVE  /\ rows'[i].cursor = nextCursor /\ nextCursor' = nextCursor + 1
               /\ i = env[h].id /\ pc[h] = "insert"
    <2>1. /\ pc[h] = "insert" /\ env[h].id = i
          /\ rows'[i] = [cursor |-> nextCursor, raw |-> env[h], status |-> "received", uri |-> None]
      BY <1>4, RequestRows
    <2>2. nextCursor' = nextCursor + 1
      BY <1>4, <2>1, RequestCursors DEF InsertReceived, Exists
    <2>. QED BY <2>1, <2>2
  <1>5. nextCursor' \in Int /\ nextCursor' >= nextCursor
    BY BatchTypes, RequestKeepsCursors
  <1>6. \A i \in EventIds : Exists(i)' => rows'[i].cursor < nextCursor'
    BY <1>3, <1>4, <1>5, BatchTypes
  <1>7. ASSUME NEW i \in EventIds, NEW j \in EventIds, Exists(i)', Exists(j)', rows'[i].cursor = rows'[j].cursor
        PROVE  i = j
    BY <1>3, <1>4, <1>7, BatchTypes
  <1>8. ASSUME NEW r \in Runners, NEW d \in batch[r]
        PROVE  /\ d.cursor < nextCursor'
               /\ \A i \in EventIds : Exists(i)' /\ rows'[i].cursor = d.cursor => rows'[i].raw = d.raw
    BY <1>3, <1>4, <1>5, BatchTypes
  <1>. QED BY <1>1, <1>2, <1>6, <1>7, <1>8 DEF Archived

LEMMA RetentionKeepsBatch ==
  ASSUME TypeInv, BatchInv, NEW r \in Runners, RetentionStep(r)
  PROVE  BatchInv'
  <1>. USE DEF BatchInv, RGoto
  <1>t. rpc \in [Runners -> {"idle", "candidates", "confirm", "commit"}]
        /\ batch \in [Runners -> SUBSET Candidate]
    BY DEF TypeInv, TypeOK, RetentionTypeOK
  <1>1. /\ UNCHANGED <<nextCursor, object>>
        /\ \A i \in EventIds : Exists(i)' => Exists(i) /\ rows'[i] = rows[i]
    BY RetentionRows DEF archiveVars
  <1>2. ASSUME NEW q \in Runners, NEW d \in batch'[q]
        PROVE  /\ d.cursor < nextCursor
               /\ \A i \in EventIds : Exists(i) /\ rows[i].cursor = d.cursor => rows[i].raw = d.raw
               /\ rpc'[q] = "commit" => Archived(d.raw)
    <2>1. CASE q # r
      BY <1>2, <1>t, <2>1
      DEF RetentionStep, RetentionNext, ReadFloor, ReadCandidates, Confirm, Commit, Abort
    <2>2. CASE q = r /\ ReadFloor(r)
      BY <1>2, <1>t, <2>2 DEF ReadFloor
    <2>3. CASE q = r /\ ReadCandidates(r)
      <3>1. PICK through : d \in RetentionCandidates(after[r], through, RetentionLimit)
        BY <1>2, <1>t, <2>3 DEF ReadCandidates
      <3>2. PICK j \in EventIds : IsStored(j) /\ d = ToRecord(j)
        BY <3>1 DEF RetentionCandidates, Lowest, StoredRows
      <3>3. Exists(j) /\ d.cursor = rows[j].cursor /\ d.raw = rows[j].raw
        BY <3>2 DEF IsStored, ToRecord
      <3>4. rpc'[q] # "commit"
        BY <1>t, <2>3 DEF ReadCandidates
      <3>. QED BY <3>3, <3>4
    <2>4. CASE q = r /\ Confirm(r)
      <3>1. d \in batch[r] /\ d \in Confirmed(batch[r])
        BY <1>2, <1>t, <2>4 DEF Confirm, Confirmed
      <3>2. d.cursor \in Int
        BY <3>1, BatchTypes
      <3>3. Archived(d.raw)
        BY <3>1, <3>2 DEF Confirmed
      <3>. QED BY <2>4, <3>1, <3>3
    <2>5. CASE q = r /\ (Commit(r) \/ Abort(r))
      BY <1>2, <1>t, <2>5 DEF Commit, Abort
    <2>. QED BY <2>1, <2>2, <2>3, <2>4, <2>5 DEF RetentionStep, RetentionNext
  <1>. QED BY <1>1, <1>2 DEF Archived

LEMMA BatchStep ==
  ASSUME TypeInv, BatchInv, [Next]_vars
  PROVE  BatchInv'
  <1>1. ASSUME UNCHANGED <<rows, nextCursor, retentionVars>>  PROVE BatchInv'
    <2>1. \A r \in Runners : \A d \in batch[r] : Archived(d.raw) => object'[Key(d.raw)] = d.raw
      BY BatchTypes, ObjectsStay, EnvelopeFields DEF Archived
    <2>. QED BY <1>1, <2>1 DEF BatchInv, Exists, Archived, retentionVars
  <1>. QED BY <1>1, RequestKeepsBatch, RetentionKeepsBatch
           DEF Next, ArchiveStep, Arrive, ReplayStep, vars, ledgerVars

\* Only a commit deletes, and what it deletes was confirmed.
LEMMA DeletesArchived ==
  ASSUME TypeInv, BatchInv, [Next]_vars, NEW i \in EventIds, Exists(i), rows'[i] = None
  PROVE  Archived(rows[i].raw)
  <1>1. PICK r \in Runners : Commit(r)
    <2>1. ~ UNCHANGED rows
      BY DEF Exists
    <2>2. \A h \in Handlers : ~IngestStep(h)
      BY RequestRows DEF Exists
    <2>. QED BY <2>1, <2>2
         DEF Next, ArchiveStep, Arrive, RetentionStep, RetentionNext, ReadFloor, ReadCandidates,
             Confirm, Abort, ReplayStep, vars, ledgerVars
  <1>2. rpc[r] = "commit" /\ rows[i].cursor \in Cursors(batch[r])
    BY <1>1 DEF Commit, RetainStoredEvents, Exists
  <1>. QED BY <1>2 DEF BatchInv, Cursors

\* Retention deletes only rows whose raw envelope the archive holds: with either
\* adapter, whatever other commands delete and requests insert between the
\* reading of the candidates and the commit.
THEOREM DeletedTheorem == Spec => DeletedIsArchived
  <1>. DEFINE Deletes == \A i \in EventIds : (Exists(i) /\ rows'[i] = None) => Archived(rows[i].raw)
  <1>1. Init => BatchInv
    BY DEF Init, LedgerInit, RetentionInit, BatchInv, Exists
  <1>2. TypeInv /\ BatchInv /\ [Next]_vars => (TypeInv /\ BatchInv)' /\ [Deletes]_vars
    BY TypeStep, BatchStep, DeletesArchived
  <1>. QED BY InitTypes, <1>1, <1>2, PTL DEF Spec, DeletedIsArchived

----------------------------------------------------------------------------
(* Nothing is served twice. *)

\* While nothing is retained, a delivered event is still the row of its event
\* id: a row never changes its cursor or its raw envelope.
ServedInv ==
  /\ \A i \in EventIds : Exists(i) => rows[i].raw.id = i
  /\ \A c \in Consumers : \A d \in delivered[c] : Exists(d.raw.id) /\ d = ToRecord(d.raw.id)

LEMMA ServedStep ==
  ASSUME TypeInv, ServedInv, Runners = {}, [Next]_vars
  PROVE  ServedInv'
  <1>. USE DEF ServedInv
  <1>i. \A c \in Consumers : \A d \in delivered[c] : d.raw.id \in EventIds
    BY EnvelopeFields DEF TypeInv, TypeOK, ReplayTypeOK, ReplayEvent
  <1>1. ASSUME NEW h \in Handlers, IngestStep(h)  PROVE ServedInv'
    <2>1. delivered' = delivered
      BY <1>1 DEF IngestStep, replayVars
    <2>2. ASSUME NEW i \in EventIds, Exists(i)'  PROVE rows'[i].raw.id = i
      <3>1. CASE Exists(i)
        BY <1>1, <3>1, RequestRows DEF ToRecord
      <3>2. CASE ~Exists(i)
        <4>1. /\ env[h].id = i
              /\ rows'[i] = [cursor |-> nextCursor, raw |-> env[h], status |-> "received", uri |-> None]
          BY <1>1, <2>2, <3>2, RequestRows DEF Exists, ToRecord
        <4>. QED BY <4>1
      <3>. QED BY <3>1, <3>2
    <2>3. ASSUME NEW c \in Consumers, NEW d \in delivered[c]
          PROVE  Exists(d.raw.id)' /\ d = ToRecord(d.raw.id)'
      BY <1>1, <1>i, RequestRows DEF Exists, ToRecord
    <2>. QED BY <2>1, <2>2, <2>3
  <1>2. CASE UNCHANGED <<rows, delivered>>
    BY <1>2 DEF Exists, ToRecord
  <1>3. ASSUME NEW c \in Consumers, ReplayStep(c)  PROVE ServedInv'
    <2>1. UNCHANGED rows
      BY <1>3 DEF ReplayStep, ledgerVars
    <2>2. ASSUME NEW n, Serve(c, ReplayPage(position[c], n, Wanted[c]))  PROVE ServedInv'
      <3>. DEFINE page == ReplayPage(position[c], n, Wanted[c])
      <3>1. ASSUME NEW d \in page  PROVE Exists(d.raw.id) /\ d = ToRecord(d.raw.id)
        <4>1. PICK i \in EventIds : Exists(i) /\ d = ToRecord(i)
          BY DEF ReplayPage, Lowest, StoredRows, IsStored
        <4>. QED BY <4>1 DEF ToRecord
      <3>. HIDE DEF page
      <3>2. delivered' = [delivered EXCEPT ![c] = @ \cup page]
        BY <2>2 DEF Serve, page, TypeInv, TypeOK, ReplayTypeOK
      <3>3. \A b \in Consumers : \A d \in delivered'[b] : d \in delivered[b] \cup page
        BY <3>2 DEF TypeInv, TypeOK, ReplayTypeOK
      <3>4. \A b \in Consumers : \A d \in delivered'[b] : Exists(d.raw.id) /\ d = ToRecord(d.raw.id)
        BY <3>1, <3>3
      <3>. QED BY <2>1, <3>4 DEF Exists, ToRecord
    <2>. QED BY <1>2, <1>3, <2>1, <2>2
             DEF ReplayStep, ReplayNext, CheckFloor, ReadPage, GetsPage, LedgerRefuses
  <1>. QED BY <1>1, <1>2, <1>3 DEF Next, ArchiveStep, Arrive, vars, ledgerVars, replayVars

\* As long as nothing is retained, no consumer is served one event id twice,
\* under whatever cursor: with either adapter, any number of requests and
\* consumers, failing calls and dying requests.  (An event that is sent again
\* after its row was retained gets a new row, and is served again.)
THEOREM DeliveredOnceTheorem ==
  ASSUME Runners = {}
  PROVE  Spec => []DeliveredOnce
  <1>1. Init => ServedInv
    BY DEF Init, LedgerInit, ReplayInit, ServedInv, Exists
  <1>2. TypeInv /\ ServedInv /\ [Next]_vars => (TypeInv /\ ServedInv)'
    BY TypeStep, ServedStep
  <1>3. ServedInv => DeliveredOnce
    BY DEF ServedInv, DeliveredOnce
  <1>. QED BY InitTypes, <1>1, <1>2, <1>3, PTL DEF Spec

----------------------------------------------------------------------------
(* Nothing is skipped, when requests come one at a time, no call fails and   *)
(* event hashes are checked.                                                 *)

OneByOne ==
  /\ \A g, h \in Handlers : g = h
  /\ OneRunner
  /\ ~Faults
  /\ RequireEventHash

SoleArchive == GuardInv /\ ObjectInv /\ late = {}

\* The request: past the guard it finds its own envelope there, and a row of
\* its event id is its own.
SoleRequest(h) ==
  /\ pc[h] # "idle" => env[h] \in Envelopes /\ HashesValid(env[h])
  /\ pc[h] \notin {"cleanup", "remove", "fail"}
  /\ pc[h] \in {"object", "mark"} => guard[env[h].id] = env[h]
  /\ ArchiveFirst /\ pc[h] \in {"insert", "reread"} => guard[env[h].id] = env[h]
  /\ pc[h] = "insert" => ~Exists(env[h].id)
  /\ pc[h] \in {"guard", "object", "mark", "reread"} /\ Exists(env[h].id) => rows[env[h].id].raw = env[h]
  /\ pc[h] = "lookup" => ~inserted[h]
  /\ pc[h] \in {"guard", "object"} /\ ~inserted[h] => ~Exists(env[h].id)
  /\ pc[h] = "report" => answer[h] # None /\ answer[h].status # "storage_error"
SoleRequestInv == \A h \in Handlers : SoleRequest(h)

\* Cursors are given out once, and nobody is ahead of them.
CursorInv ==
  /\ \A i \in EventIds : Exists(i) => /\ rows[i].raw.id = i /\ HashesValid(rows[i].raw)
                                      /\ rows[i].cursor < nextCursor
  /\ \A i, j \in EventIds : Exists(i) /\ Exists(j) /\ rows[i].cursor = rows[j].cursor => i = j
  /\ floor < nextCursor
  /\ \A c \in Consumers : position[c] < nextCursor
  /\ \A r \in Runners : \A d \in batch[r] : d.cursor < nextCursor

\* A row that is not stored is the newest one, ahead of the watermark, of every
\* consumer and of retention, and the request is on its way to store it; or
\* another envelope has taken its guard, and it never will be.
WorksOn(h, i) ==
  /\ pc[h] \in {"reread", "guard", "object", "mark"} /\ env[h].id = i /\ rows[i].raw = env[h]
Blocked(i) == guard[i] \notin {None, rows[i].raw}
Ahead(i) ==
  /\ rows[i].cursor = nextCursor - 1
  /\ rows[i].cursor > floor
  /\ \A c \in Consumers : rows[i].cursor > position[c]
  /\ \A r \in Runners : \A d \in batch[r] : rows[i].cursor > d.cursor
Pending(i) == Exists(i) /\ ~IsStored(i)
PendingInv ==
  \A i \in EventIds : Pending(i) => Blocked(i) \/ (Ahead(i) /\ \E h \in Handlers : WorksOn(h, i))

SoleInv == SoleArchive /\ SoleRequestInv /\ CursorInv /\ PendingInv

\* The types that these proofs use.
LEMMA SoleTypes ==
  ASSUME TypeInv
  PROVE  /\ nextCursor \in Int /\ floor \in Int
         /\ \A i \in EventIds : Exists(i) => /\ rows[i] \in Row /\ rows[i].cursor \in Int
                                             /\ rows[i].raw \in Envelopes
         /\ \A c \in Consumers : position[c] \in Int
         /\ \A r \in Runners : \A d \in batch[r] : d.cursor \in Int
  BY LedgerAssumption
  DEF TypeInv, TypeOK, LedgerTypeOK, RetentionTypeOK, ReplayTypeOK, Exists, Row, Candidate

LEMMA InitSole == Init => SoleInv
  BY DEF Init, LedgerInit, ArchiveInit, IngestInit, RetentionInit, ReplayInit,
         SoleInv, SoleArchive, GuardInv, ObjectInv, SoleRequestInv, SoleRequest, CursorInv,
         PendingInv, Pending, Exists

LEMMA SoleArchiveStep ==
  ASSUME TypeInv, SoleInv, OneByOne, NEW h \in Handlers, IngestStep(h)
  PROVE  SoleArchive' /\ Grows
  <1>. USE DEF SoleInv, SoleArchive, SoleRequestInv, SoleRequest, OneByOne
  <1>1. CASE UNCHANGED archiveVars
    BY <1>1 DEF archiveVars, Grows, GuardInv, ObjectInv
  <1>2. CASE Guard(h)
    <2>1. env[h] \in Envelopes /\ WriteGuard(env[h]) /\ UNCHANGED object /\ StillLate
      BY <1>2 DEF Guard, At
    <2>. DEFINE p == <<"guard", env[h]>>
    <2>2. p[1] = "guard" /\ p[2] = env[h]
      OBVIOUS
    <2>3. Grows /\ GuardInv' /\ ObjectInv'
      BY <2>1, <2>2, WriteGrows DEF TypeInv, TypeOK
    <2>. QED BY <2>1, <2>3 DEF StillLate
  <1>3. CASE Object(h)
    <2>1. /\ env[h] \in Envelopes /\ WriteObject(env[h]) /\ UNCHANGED guard /\ StillLate
          /\ guard[env[h].id] = env[h]
      BY <1>3 DEF Object, At
    <2>. DEFINE p == <<"object", env[h]>>
    <2>2. p[1] = "object" /\ p[2] = env[h]
      OBVIOUS
    <2>3. Grows /\ GuardInv' /\ ObjectInv'
      BY <2>1, <2>2, WriteGrows DEF TypeInv, TypeOK
    <2>. QED BY <2>1, <2>3 DEF StillLate
  <1>. QED
    BY <1>1, <1>2, <1>3
    DEF IngestStep, IngestNext, Begin, Proceed, Lookup, Insert, Reread, Cleanup, Remove, Mark,
        MarkRead, RecordIt, Fail, CallFails, StorageFails, Crash, At

\* A put that arrives before its caller hears of it.
LEMMA SoleArrives ==
  ASSUME TypeInv, SoleInv, ArchiveStep
  PROVE  SoleArchive' /\ Grows /\ UNCHANGED <<ledgerVars, handlerVars, retentionVars, replayVars>>
  <1>. USE DEF SoleInv, SoleArchive, SoleRequestInv, SoleRequest
  <1>1. PICK p \in InFlight : Arrive(p)
    BY DEF ArchiveStep
  <1>2. PICK h \in Handlers : pc[h] \in {"guard", "object"} /\ p = <<pc[h], env[h]>>
    BY <1>1 DEF InFlight
  <1>3. p[2] \in Envelopes /\ (p[1] = "object" => guard[p[2].id] = p[2])
    BY <1>2
  <1>4. Grows /\ GuardInv' /\ ObjectInv'
    BY <1>1, <1>3, WriteGrows DEF Arrive, TypeInv, TypeOK
  <1>. QED BY <1>1, <1>4 DEF Arrive, StillLate, ArchiveStep, ledgerVars

\* A request in progress, after its step.
LEMMA SoleRequestStep ==
  ASSUME TypeInv, SoleInv, OneByOne, NEW h \in Handlers, IngestStep(h), Grows
  PROVE  SoleRequest(h)'
  <1>. USE DEF SoleInv, SoleArchive, SoleRequestInv, SoleRequest, OneByOne,
               At, Goto, SetAnswer, Report
  <1>. DEFINE e == env[h]
  <1>t. /\ pc \in [Handlers -> Calls \cup {"idle"}] /\ env \in [Handlers -> Envelopes \cup {None}]
        /\ inserted \in [Handlers -> BOOLEAN] /\ answer \in [Handlers -> Answer \cup {None}]
        /\ ArchiveTypeOK /\ LedgerTypeOK
    BY DEF TypeInv, TypeOK, IngestTypeOK
  <1>e. pc[h] # "idle" => /\ e \in Envelopes /\ e.id \in EventIds /\ Key(e) \in Keys /\ e # None
                          /\ guard[e.id] = e => guard'[e.id] = e
    BY EnvelopeFields, ArchivedStays
  <1>a. \A s \in AnswerStatus, u \in Keys \cup {None} : [status |-> s, uri |-> u] # None
    BY IngestAssumption DEF Answer
  <1>r. \A i \in EventIds : Exists(i) =>
          rows[i].uri \in Keys \cup {None} /\ rows[i].raw \in Envelopes /\ HashesValid(rows[i].raw)
    BY SoleTypes DEF CursorInv, Row
  <1>x. ASSUME pc[h] # "idle", Exists(e.id), AnswerConflict(h, rows[e.id]) \/ AnswerDuplicate(h, rows[e.id]),
               UNCHANGED <<env, rows>>
        PROVE  SoleRequest(h)'
    <2>1. \E s \in {"hash_conflict", "duplicate"}, u \in Keys \cup {None} : Report(h, s, u)
      BY <1>x, <1>e, <1>r DEF AnswerConflict, AnswerDuplicate
    <2>. QED BY <2>1, <1>x, <1>e, <1>t, <1>a DEF AnswerStatus
  <1>1. CASE \E f \in Envelopes : Begin(h, f)
    BY <1>1, <1>t DEF Begin
  <1>2. CASE Lookup(h)
    <2>1. CASE Exists(e.id) /\ SameHashes(rows[e.id].raw, e) /\ StoreAndMark(h)
      <3>1. rows[e.id].raw = e
        BY <1>2, <2>1, <1>e, <1>r, SameHashesSameEnvelope DEF Lookup
      <3>. QED BY <1>2, <2>1, <3>1, <1>e, <1>t DEF Lookup, StoreAndMark
    <2>2. CASE ~Exists(e.id) /\ Goto(h, IF ArchiveFirst THEN "guard" ELSE "insert") /\ UNCHANGED <<inserted, answer>>
      <3>1. UNCHANGED <<rows, env>> /\ pc[h] = "lookup"
        BY <1>2 DEF Lookup
      <3>. QED BY <2>2, <3>1, <1>e, <1>t DEF Exists
    <2>3. CASE Exists(e.id) /\ (AnswerConflict(h, rows[e.id]) \/ AnswerDuplicate(h, rows[e.id]))
      BY <1>2, <2>3, <1>x DEF Lookup
    <2>. QED BY <1>2, <2>1, <2>2, <2>3 DEF Lookup, HandleExisting
  <1>3. CASE Insert(h)
    <2>1. /\ pc' = [pc EXCEPT ![h] = "reread"] /\ env' = env /\ ~Exists(e.id) /\ InsertReceived(e)
          /\ UNCHANGED guard /\ pc[h] = "insert"
      BY <1>3 DEF Insert, archiveVars
    <2>2. rows'[e.id].raw = e
      BY <2>1, <1>e, <1>t DEF InsertReceived, LedgerTypeOK
    <2>. QED BY <2>1, <2>2, <1>e, <1>t
  <1>4. CASE Reread(h)
    <2>1. UNCHANGED <<rows, env, guard>> /\ pc[h] = "reread"
      BY <1>4 DEF Reread, archiveVars
    <2>2. CASE rows[e.id] = None
      <3>1. Report(h, "ledger_error", None)
        BY <1>4, <2>2 DEF Reread
      <3>. QED BY <2>1, <3>1, <1>e, <1>t, <1>a DEF AnswerStatus
    <2>3. CASE Exists(e.id) /\ (AnswerConflict(h, rows[e.id]) \/ AnswerDuplicate(h, rows[e.id]))
      BY <2>1, <2>3, <1>x
    <2>4. CASE ArchiveFirst /\ Exists(e.id) /\ Goto(h, "mark")
      BY <2>1, <2>4, <1>e, <1>t DEF Exists
    <2>5. CASE Exists(e.id) /\ StoreAndMark(h)
      BY <2>1, <2>5, <1>e, <1>t DEF StoreAndMark, Exists
    <2>. QED BY <1>4, <2>2, <2>3, <2>4, <2>5 DEF Reread, HandleExisting, Exists
  <1>5. CASE Guard(h)
    <2>1. UNCHANGED <<rows, env, inserted>> /\ pc[h] = "guard"
      BY <1>5 DEF Guard
    <2>2. CASE GuardAccepts(e) /\ Goto(h, "object")
      <3>1. guard'[e.id] = e
        BY <1>5, <2>1, <2>2, <1>e, <1>t DEF Guard, WriteGuard, GuardAccepts, ArchiveTypeOK
      <3>. QED BY <2>1, <2>2, <3>1, <1>e, <1>t DEF Exists
    <2>3. CASE Report(h, "hash_conflict", None)
      BY <2>1, <2>3, <1>e, <1>t, <1>a DEF AnswerStatus
    <2>. QED BY <1>5, <2>2, <2>3 DEF Guard
  <1>6. CASE Object(h)
    <2>1. UNCHANGED <<rows, env, inserted, guard>> /\ pc[h] = "object" /\ guard[e.id] = e
      BY <1>6 DEF Object
    <2>2. ObjectAccepts(e)
      BY <2>1, <1>e, <1>t DEF ObjectAccepts, ObjectInv, Key, ArchiveTypeOK
    <2>3. Goto(h, IF inserted[h] THEN "mark" ELSE "insert")
      BY <1>6, <2>2 DEF Object
    <2>. QED BY <2>1, <2>3, <1>e, <1>t DEF Exists
  <1>9. CASE Mark(h)
    BY <1>9, <1>e, <1>t DEF Mark
  <1>10. CASE MarkRead(h)
    <2>1. UNCHANGED <<rows, env>> /\ pc[h] = "markread"
      BY <1>10 DEF MarkRead
    <2>2. \E s \in {"stored", "ledger_error"}, u \in Keys \cup {None} : Report(h, s, u)
      BY <1>10, <2>1, <1>e, <1>r DEF MarkRead
    <2>. QED BY <2>1, <2>2, <1>e, <1>t, <1>a DEF AnswerStatus
  <1>11. CASE RecordIt(h)
    BY <1>11, <1>e, <1>t DEF RecordIt
  <1>12. CASE CallFails(h)
    <2>1. pc[h] = "insert" /\ Report(h, "ledger_error", None) /\ UNCHANGED <<rows, env>>
      BY <1>12 DEF CallFails, LedgerFails, StorageFails
    <2>. QED BY <2>1, <1>e, <1>t, <1>a DEF AnswerStatus
  <1>. QED
    BY <1>1, <1>2, <1>3, <1>4, <1>5, <1>6, <1>9, <1>10, <1>11, <1>12
    DEF IngestStep, IngestNext, Proceed, Cleanup, Remove, Fail, Crash

LEMMA SoleCursorStep ==
  ASSUME TypeInv, SoleInv, OneByOne, NEW h \in Handlers, IngestStep(h)
  PROVE  CursorInv'
  <1>. USE DEF SoleInv, SoleRequestInv, SoleRequest
  <1>f. UNCHANGED <<floor, position, batch>>
    BY RequestCursors
  <1>1. CASE nextCursor' = nextCursor /\ \A i \in EventIds : Exists(i)' => Exists(i)
    <2>1. \A i \in EventIds : Exists(i)' => rows'[i].raw = rows[i].raw /\ rows'[i].cursor = rows[i].cursor
      BY <1>1, RequestRows DEF ToRecord
    <2>. QED BY <1>1, <1>f, <2>1 DEF CursorInv
  <1>2. CASE pc[h] = "insert" /\ InsertReceived(env[h])
    <2>. DEFINE e == env[h]
    <2>1. e \in Envelopes /\ e.id \in EventIds /\ HashesValid(e) /\ ~Exists(e.id)
      BY <1>2, EnvelopeFields
    <2>2. /\ nextCursor' = nextCursor + 1
          /\ \A i \in EventIds \ {e.id} : rows'[i] = rows[i]
          /\ rows'[e.id].raw = e /\ rows'[e.id].cursor = nextCursor
      BY <1>2, <2>1 DEF InsertReceived, TypeInv, TypeOK, LedgerTypeOK
    <2>. HIDE DEF e
    <2>3. ASSUME NEW i \in EventIds, Exists(i)'
          PROVE  /\ rows'[i].raw.id = i /\ HashesValid(rows'[i].raw)
                 /\ rows'[i].cursor < nextCursor' /\ (i # e.id => Exists(i) /\ rows'[i].cursor < nextCursor)
      BY <2>1, <2>2, <2>3, SoleTypes DEF CursorInv, Exists
    <2>4. ASSUME NEW i \in EventIds, NEW j \in EventIds, Exists(i)', Exists(j)', rows'[i].cursor = rows'[j].cursor
          PROVE  i = j
      BY <2>1, <2>2, <2>3, <2>4, SoleTypes DEF CursorInv
    <2>5. /\ floor' < nextCursor'
          /\ \A c \in Consumers : position'[c] < nextCursor'
          /\ \A r \in Runners : \A d \in batch'[r] : d.cursor < nextCursor'
      BY <1>f, <2>2, SoleTypes DEF CursorInv
    <2>. QED BY <2>3, <2>4, <2>5 DEF CursorInv
  <1>3. ~(pc[h] = "insert" /\ InsertReceived(env[h])) => nextCursor' = nextCursor /\ \A i \in EventIds : Exists(i)' => Exists(i)
    BY RequestCursors, RequestRows DEF Exists
  <1>. QED BY <1>1, <1>2, <1>3

\* The request goes on with the row it works on, stores it, or finds its guard
\* taken.
LEMMA WorkGoesOn ==
  ASSUME TypeInv, SoleInv, OneByOne, NEW h \in Handlers, IngestStep(h), Grows,
         NEW i \in EventIds, Pending(i), ~Blocked(i), WorksOn(h, i)
  PROVE  WorksOn(h, i)' \/ IsStored(i)' \/ Blocked(i)'
  <1>. USE DEF SoleInv, SoleArchive, SoleRequestInv, SoleRequest, OneByOne, Goto, Report
  <1>. DEFINE e == env[h]
  <1>t. /\ pc \in [Handlers -> Calls \cup {"idle"}] /\ ArchiveTypeOK /\ LedgerTypeOK
    BY DEF TypeInv, TypeOK, IngestTypeOK
  <1>e. /\ e \in Envelopes /\ e.id \in EventIds /\ Key(e) \in Keys /\ e # None /\ Key(e) # None
        /\ e.id = i /\ Exists(i) /\ rows[i].raw = e /\ rows[i] \in Row /\ rows[i].status # "stored"
    BY EnvelopeFields, SoleTypes DEF WorksOn, Pending, IsStored
  <1>1. CASE pc[h] = "reread"
    <2>1. Reread(h)
      BY <1>1 DEF IngestStep, IngestNext, Begin, Proceed, Lookup, Insert, Guard, Object, Cleanup, Remove,
                  Mark, MarkRead, RecordIt, Fail, CallFails, LedgerFails, StorageFails, Crash, At
    <2>2. UNCHANGED <<rows, env>> /\ pc' = [pc EXCEPT ![h] = IF ArchiveFirst THEN "mark" ELSE "guard"]
      BY <2>1, <1>e DEF Reread, Exists, AnswerConflict, AnswerDuplicate, IsDuplicate, SameHashes, StoreAndMark
    <2>. QED BY <2>2, <1>t, <1>e DEF WorksOn
  <1>2. CASE pc[h] = "guard"
    <2>1. Guard(h)
      BY <1>2 DEF IngestStep, IngestNext, Begin, Proceed, Lookup, Insert, Reread, Object, Cleanup, Remove,
                  Mark, MarkRead, RecordIt, Fail, CallFails, LedgerFails, StorageFails, Crash, At
    <2>2. UNCHANGED <<rows, env>>
      BY <2>1 DEF Guard
    <2>3. CASE GuardAccepts(e)
      BY <2>1, <2>2, <2>3, <1>t, <1>e DEF Guard, WorksOn
    <2>4. CASE ~GuardAccepts(e)
      BY <2>2, <2>4, <1>e, ArchivedStays DEF GuardAccepts, Blocked
    <2>. QED BY <2>3, <2>4
  <1>3. CASE pc[h] = "object"
    <2>1. Object(h)
      BY <1>3 DEF IngestStep, IngestNext, Begin, Proceed, Lookup, Insert, Reread, Guard, Cleanup, Remove,
                  Mark, MarkRead, RecordIt, Fail, CallFails, LedgerFails, StorageFails, Crash, At
    <2>2. UNCHANGED <<rows, env>> /\ guard[e.id] = e /\ inserted[h]
      BY <2>1, <1>3, <1>e DEF Object
    <2>3. ObjectAccepts(e)
      BY <2>2, <1>e, <1>t DEF ObjectAccepts, ObjectInv, Key, ArchiveTypeOK
    <2>. QED BY <2>1, <2>2, <2>3, <1>t, <1>e DEF Object, WorksOn
  <1>4. CASE pc[h] = "mark"
    <2>1. Mark(h)
      BY <1>4 DEF IngestStep, IngestNext, Begin, Proceed, Lookup, Insert, Reread, Guard, Object, Cleanup,
                  Remove, MarkRead, RecordIt, Fail, CallFails, LedgerFails, StorageFails, Crash, At
    <2>2. rows'[i] = [rows[i] EXCEPT !.status = "stored", !.uri = Key(e)]
      BY <2>1, <1>t, <1>e DEF Mark, MarkStored, LedgerTypeOK
    <2>3. rows'[i] \in Row /\ rows'[i].status = "stored"
      BY <2>2, <1>e DEF Row
    <2>. QED BY <2>3, LedgerAssumption DEF IsStored, Exists
  <1>. QED BY <1>1, <1>2, <1>3, <1>4 DEF WorksOn

\* A stored row stays stored: no call fails.
LEMMA SoleStored ==
  ASSUME TypeInv, SoleInv, NEW h \in Handlers, IngestStep(h), NEW i \in EventIds, IsStored(i)
  PROVE  rows'[i].status = "stored"
  <1>1. rows[i] \in Row /\ rows[i].status = "stored"
    BY SoleTypes DEF IsStored
  <1>2. CASE rows'[i] = rows[i]
    BY <1>1, <1>2
  <1>3. CASE pc[h] = "insert" /\ InsertReceived(env[h])
    <2>1. i # env[h].id
      BY <1>3 DEF SoleInv, SoleRequestInv, SoleRequest, IsStored
    <2>. QED BY <1>2, <1>3, <2>1 DEF InsertReceived, TypeInv, TypeOK, LedgerTypeOK
  <1>4. CASE pc[h] = "mark" /\ MarkStored(env[h])
    <2>1. \/ rows'[i] = rows[i]
          \/ rows'[i] = [rows[i] EXCEPT !.status = "stored", !.uri = Key(env[h])]
      BY <1>4 DEF MarkStored, TypeInv, TypeOK, LedgerTypeOK
    <2>. QED BY <1>1, <2>1 DEF Row
  <1>5. pc[h] # "fail"
    BY DEF SoleInv, SoleRequestInv, SoleRequest
  <1>. QED BY <1>2, <1>3, <1>4, <1>5, RowSteps

LEMMA SolePendingStep ==
  ASSUME TypeInv, SoleInv, OneByOne, NEW h \in Handlers, IngestStep(h), Grows
  PROVE  PendingInv'
  <1>. USE DEF SoleInv, SoleRequestInv, SoleRequest, OneByOne
  <1>f. UNCHANGED <<floor, position, batch>>
    BY RequestCursors
  <1>. SUFFICES ASSUME NEW i \in EventIds, Pending(i)'
                PROVE  Blocked(i)' \/ (Ahead(i)' /\ WorksOn(h, i)')
    BY DEF PendingInv
  <1>1. CASE ~Exists(i)
    <2>1. /\ pc[h] = "insert" /\ env[h].id = i
          /\ rows'[i] = [cursor |-> nextCursor, raw |-> env[h], status |-> "received", uri |-> None]
      BY <1>1, RequestRows DEF Pending
    <2>2. nextCursor' = nextCursor + 1
      BY <1>1, <2>1, RequestCursors DEF InsertReceived, Pending, Exists
    <2>3. Insert(h)
      <3>1. IngestNext(h)
        BY DEF IngestStep
      <3>. QED BY <1>1, <2>1, <3>1
           DEF IngestNext, Begin, Proceed, Lookup, Reread, Guard, Object, Cleanup,
               Remove, Mark, MarkRead, RecordIt, Fail, CallFails, LedgerFails, StorageFails, Crash, At, Pending, Exists
    <2>4. pc'[h] = "reread" /\ env' = env
      BY <2>3 DEF Insert, Goto, TypeInv, TypeOK, IngestTypeOK
    <2>5. WorksOn(h, i)'
      BY <2>1, <2>4 DEF WorksOn
    <2>6. rows'[i].cursor = nextCursor
      BY <2>1
    <2>7. Ahead(i)'
      BY <1>f, <2>2, <2>6, SoleTypes DEF CursorInv, Ahead
    <2>. QED BY <2>5, <2>7
  <1>2. CASE Exists(i)
    <2>1. rows'[i].cursor = rows[i].cursor /\ rows'[i].raw = rows[i].raw
      BY <1>2, RequestRows DEF ToRecord
    <2>2. CASE Blocked(i)
      BY <1>2, <2>1, <2>2, SoleTypes DEF Grows, Blocked
    <2>3. CASE ~Blocked(i) /\ ~IsStored(i)
      <3>1. Ahead(i) /\ WorksOn(h, i)
        BY <1>2, <2>3 DEF PendingInv, Pending
      <3>2. WorksOn(h, i)' \/ Blocked(i)'
        BY <1>2, <2>3, <3>1, WorkGoesOn DEF Pending
      <3>3. nextCursor' = nextCursor
        BY <3>1, RequestCursors DEF WorksOn
      <3>4. Ahead(i)'
        BY <1>f, <2>1, <3>1, <3>3 DEF Ahead
      <3>. QED BY <3>2, <3>4
    <2>4. CASE IsStored(i)
      <3>1. rows'[i].status = "stored"
        BY <2>4, SoleStored DEF Pending
      <3>. QED BY <3>1 DEF Pending, IsStored
    <2>. QED BY <2>2, <2>3, <2>4
  <1>. QED BY <1>1, <1>2

LEMMA SoleRequestKeeps ==
  ASSUME TypeInv, SoleInv, OneByOne, NEW h \in Handlers, IngestStep(h)
  PROVE  SoleInv'
  <1>1. SoleArchive' /\ Grows
    BY SoleArchiveStep
  <1>2. SoleRequestInv'
    BY <1>1, SoleRequestStep DEF SoleRequestInv, OneByOne
  <1>. QED BY <1>1, <1>2, SoleCursorStep, SolePendingStep DEF SoleInv

LEMMA SoleArriveKeeps ==
  ASSUME TypeInv, SoleInv, ArchiveStep
  PROVE  SoleInv'
  <1>1. SoleArchive' /\ Grows /\ UNCHANGED <<ledgerVars, handlerVars, retentionVars, replayVars>>
    BY SoleArrives
  <1>. USE DEF SoleInv, ledgerVars, handlerVars, retentionVars, replayVars
  <1>2. SoleRequestInv'
    BY <1>1, ArchivedStays DEF SoleRequestInv, SoleRequest, Exists
  <1>3. CursorInv'
    BY <1>1 DEF CursorInv, Exists
  <1>4. ASSUME NEW i \in EventIds, Pending(i)'
        PROVE  Blocked(i)' \/ (Ahead(i)' /\ \E h \in Handlers : WorksOn(h, i)')
    <2>1. Pending(i)
      BY <1>1, <1>4 DEF Pending, IsStored, Exists
    <2>2. CASE Blocked(i)
      <3>1. guard'[i] = guard[i]
        BY <1>1, <2>2 DEF Grows, Blocked
      <3>. QED BY <1>1, <2>2, <3>1 DEF Blocked
    <2>3. CASE ~Blocked(i)
      BY <1>1, <2>1, <2>3 DEF PendingInv, Ahead, WorksOn
    <2>. QED BY <2>2, <2>3
  <1>. QED BY <1>1, <1>2, <1>3, <1>4 DEF PendingInv

\* The rows a command takes are given out and not the pending ones.
LEMMA BatchIsBehind ==
  ASSUME TypeInv, SoleInv, NEW r \in Runners, RetentionStep(r), NEW q \in Runners, NEW d \in batch'[q]
  PROVE  /\ d.cursor < nextCursor
         /\ \A i \in EventIds : Pending(i) /\ Ahead(i) => rows[i].cursor > d.cursor
  <1>. USE DEF SoleInv
  <1>1. CASE d \in batch[q]
    BY <1>1 DEF CursorInv, Ahead
  <1>2. CASE d \notin batch[q]
    <2>1. \E through : d \in RetentionCandidates(after[r], through, RetentionLimit)
      BY <1>2 DEF RetentionStep, RetentionNext, ReadFloor, ReadCandidates, Confirm, Commit, Abort,
                  TypeInv, TypeOK, RetentionTypeOK
    <2>2. PICK j \in EventIds : IsStored(j) /\ d.cursor = rows[j].cursor
      BY <2>1 DEF RetentionCandidates, Lowest, StoredRows, ToRecord
    <2>3. Exists(j) /\ d.cursor < nextCursor /\ d.cursor \in Int /\ nextCursor \in Int
      BY <2>2, SoleTypes DEF IsStored, CursorInv
    <2>4. ASSUME NEW i \in EventIds, Pending(i), Ahead(i)
          PROVE  rows[i].cursor > d.cursor
      <3>1. i # j
        BY <2>2, <2>4 DEF Pending
      <3>2. rows[i].cursor # d.cursor
        BY <2>2, <2>3, <2>4, <3>1 DEF CursorInv, Pending
      <3>. QED BY <2>3, <2>4, <3>2 DEF Ahead
    <2>. QED BY <2>3, <2>4
  <1>. QED BY <1>1, <1>2

LEMMA SoleRetentionKeeps ==
  ASSUME TypeInv, SoleInv, NEW r \in Runners, RetentionStep(r)
  PROVE  SoleInv'
  <1>. USE DEF SoleInv
  <1>1. SoleArchive'
    BY RetentionRows DEF SoleArchive, GuardInv, ObjectInv, archiveVars
  <1>2. SoleRequestInv'
    <2>1. \A h \in Handlers : pc[h] # "idle" => env[h] \in Envelopes /\ env[h].id \in EventIds
      BY EnvelopeFields DEF SoleRequestInv, SoleRequest
    <2>. QED BY <2>1, RetentionRows DEF SoleRequestInv, SoleRequest, archiveVars, handlerVars
  <1>3. CursorInv'
    <2>1. floor' < nextCursor /\ nextCursor' = nextCursor /\ position' = position
      BY RetentionRows DEF CursorInv, replayVars
    <2>2. \A q \in Runners : \A d \in batch'[q] : d.cursor < nextCursor
      BY BatchIsBehind
    <2>. QED BY <2>1, <2>2, RetentionRows DEF CursorInv
  <1>4. ASSUME NEW i \in EventIds, Pending(i)'
        PROVE  Blocked(i)' \/ (Ahead(i)' /\ \E h \in Handlers : WorksOn(h, i)')
    <2>1. Pending(i) /\ rows'[i] = rows[i]
      BY <1>4, RetentionRows DEF Pending, IsStored
    <2>2. UNCHANGED <<nextCursor, guard, pc, env, position>>
      BY RetentionRows DEF archiveVars, handlerVars, replayVars
    <2>3. Blocked(i) => Blocked(i)'
      BY <2>1, <2>2 DEF Blocked
    <2>4. ASSUME Ahead(i)  PROVE Ahead(i)'
      <3>1. rows[i].cursor > floor'
        BY <2>4, RetentionRows DEF Ahead
      <3>2. \A q \in Runners : \A d \in batch'[q] : rows[i].cursor > d.cursor
        BY <2>1, <2>4, BatchIsBehind
      <3>. QED BY <2>1, <2>2, <2>4, <3>1, <3>2 DEF Ahead
    <2>5. \A h \in Handlers : WorksOn(h, i) => WorksOn(h, i)'
      BY <2>1, <2>2 DEF WorksOn
    <2>. QED BY <2>1, <2>3, <2>4, <2>5 DEF PendingInv
  <1>. QED BY <1>1, <1>2, <1>3, <1>4 DEF PendingInv

\* Where a consumer's step leaves it: at the watermark, or at a stored row.
LEMMA PositionStep ==
  ASSUME TypeInv, NEW c \in Consumers, ReplayStep(c), NEW b \in Consumers
  PROVE  \/ position'[b] = position[b] \/ position'[b] = floor
         \/ \E j \in EventIds : IsStored(j) /\ position'[b] = rows[j].cursor
  <1>. USE DEF TypeInv, TypeOK, ReplayTypeOK
  <1>1. ASSUME NEW n, Serve(c, ReplayPage(position[c], n, Wanted[c])), ~ UNCHANGED position
        PROVE  \E j \in EventIds : IsStored(j) /\ position' = [position EXCEPT ![c] = rows[j].cursor]
    <2>1. PICK last \in ReplayPage(position[c], n, Wanted[c]) : position' = [position EXCEPT ![c] = last.cursor]
      BY <1>1 DEF Serve
    <2>2. PICK j \in EventIds : IsStored(j) /\ last = ToRecord(j)
      BY <2>1 DEF ReplayPage, Lowest, StoredRows
    <2>. QED BY <2>1, <2>2 DEF ToRecord
  <1>2. CASE UNCHANGED position
    BY <1>2
  <1>3. CASE position' = [position EXCEPT ![c] = floor]
    BY <1>3
  <1>. QED BY <1>1, <1>2, <1>3 DEF ReplayStep, ReplayNext, CheckFloor, ReadPage, GetsPage, LedgerRefuses

LEMMA SoleReplayKeeps ==
  ASSUME TypeInv, SoleInv, NEW c \in Consumers, ReplayStep(c)
  PROVE  SoleInv'
  <1>. USE DEF SoleInv
  <1>1. UNCHANGED <<ledgerVars, archiveVars, handlerVars, retentionVars>>
    BY DEF ReplayStep
  <1>2. SoleArchive' /\ SoleRequestInv'
    BY <1>1 DEF SoleArchive, GuardInv, ObjectInv, SoleRequestInv, SoleRequest, Exists,
                ledgerVars, archiveVars, handlerVars
  <1>3. \A b \in Consumers : position'[b] < nextCursor
    BY PositionStep DEF CursorInv, IsStored
  <1>4. CursorInv'
    BY <1>1, <1>3 DEF CursorInv, Exists, ledgerVars, retentionVars
  <1>5. ASSUME NEW i \in EventIds, Pending(i), Ahead(i), NEW b \in Consumers
        PROVE  rows[i].cursor > position'[b]
    <2>1. ASSUME NEW j \in EventIds, IsStored(j), position'[b] = rows[j].cursor
          PROVE  rows[i].cursor > position'[b]
      <3>1. i # j /\ Exists(j)
        BY <1>5, <2>1 DEF Pending, IsStored
      <3>2. rows[i].cursor # rows[j].cursor /\ rows[j].cursor < nextCursor /\ rows[j].cursor \in Int /\ nextCursor \in Int
        BY <1>5, <3>1, SoleTypes DEF CursorInv, Pending
      <3>. QED BY <1>5, <2>1, <3>2 DEF Ahead
    <2>. QED BY <1>5, <2>1, PositionStep DEF Ahead
  <1>6. PendingInv'
    <2>1. \A i \in EventIds : /\ Pending(i)' => Pending(i)
                              /\ Blocked(i) => Blocked(i)'
                              /\ \A h \in Handlers : WorksOn(h, i) => WorksOn(h, i)'
      BY <1>1 DEF Pending, IsStored, Exists, Blocked, WorksOn, ledgerVars, archiveVars, handlerVars
    <2>2. \A i \in EventIds : Pending(i) /\ Ahead(i) => Ahead(i)'
      BY <1>1, <1>5 DEF Ahead, ledgerVars, retentionVars
    <2>. QED BY <2>1, <2>2 DEF PendingInv
  <1>. QED BY <1>2, <1>4, <1>6

LEMMA SoleStep ==
  ASSUME TypeInv, SoleInv, OneByOne, [Next]_vars
  PROVE  SoleInv'
  <1>1. CASE UNCHANGED vars
    BY <1>1 DEF vars, ledgerVars, archiveVars, handlerVars, retentionVars, replayVars,
                SoleInv, SoleArchive, GuardInv, ObjectInv, SoleRequestInv, SoleRequest, CursorInv,
                PendingInv, Pending, IsStored, Exists, Blocked, Ahead, WorksOn
  <1>. QED BY <1>1, SoleRequestKeeps, SoleArriveKeeps, SoleRetentionKeeps, SoleReplayKeeps DEF Next

\* A page holds, with a row, every row before it.
LEMMA LowestIsPrefix ==
  ASSUME NEW S, IsFiniteSet(S), \A q \in S : q.cursor \in Int, NEW n \in Int,
         NEW last \in Lowest(S, n), NEW q \in S, q.cursor <= last.cursor
  PROVE  q \in Lowest(S, n)
  <1>. DEFINE before(r) == {x \in S : x.cursor < r.cursor}
  <1>1. last \in S /\ Cardinality(before(last)) < n
    BY DEF Lowest
  <1>2. before(q) \subseteq before(last) /\ before(last) \subseteq S
    BY <1>1
  <1>3. IsFiniteSet(before(last))
    BY <1>2, FS_Subset
  <1>4. /\ IsFiniteSet(before(q))
        /\ Cardinality(before(q)) <= Cardinality(before(last))
    BY <1>2, <1>3, FS_Subset
  <1>5. Cardinality(before(q)) \in Nat /\ Cardinality(before(last)) \in Nat
    BY <1>3, <1>4, FS_CardinalityType
  <1>6. Cardinality(before(q)) < n
    BY <1>1, <1>4, <1>5
  <1>. QED BY <1>6 DEF Lowest

\* Rows have different cursors, and there are finitely many cursors.
LEMMA StoredRowsFinite ==
  ASSUME TypeInv, CursorInv, NEW S, NEW a, S \subseteq StoredRows(a, MaxCursor)
  PROVE  IsFiniteSet(S) /\ \A q \in S : q.cursor \in Int
  <1>1. ASSUME NEW q \in S
        PROVE  \E i \in EventIds : Exists(i) /\ q = ToRecord(i) /\ q.cursor = rows[i].cursor
    BY DEF StoredRows, ToRecord, IsStored
  <1>2. \A q \in S : q.cursor \in 1..MaxCursor
    BY <1>1 DEF TypeInv, TypeOK, LedgerTypeOK, Exists, Row
  <1>3. ASSUME NEW p \in S, NEW q \in S, p.cursor = q.cursor  PROVE p = q
    <2>1. PICK i \in EventIds : Exists(i) /\ p = ToRecord(i) /\ p.cursor = rows[i].cursor
      BY <1>1
    <2>2. PICK j \in EventIds : Exists(j) /\ q = ToRecord(j) /\ q.cursor = rows[j].cursor
      BY <1>1
    <2>3. i = j
      BY <1>3, <2>1, <2>2 DEF CursorInv
    <2>. QED BY <2>1, <2>2, <2>3
  <1>. DEFINE f == [q \in S |-> q.cursor]
  <1>4. f \in Injection(S, 1..MaxCursor)
    BY <1>2, <1>3 DEF Injection, IsInjective
  <1>5. IsFiniteSet(1..MaxCursor)
    BY LedgerAssumption, FS_Interval
  <1>. HIDE DEF f
  <1>6. IsFiniteSet(S)
    BY <1>4, <1>5, FS_Injection
  <1>. QED BY <1>2, <1>6, LedgerAssumption

LEMMA LimitsAreInt == Limits \subseteq Int
  BY ReplayAssumption DEF Limits, ApiLimit, LedgerLimit, NormalizeLimit, Refused

\* After a page, the consumer has been served everything up to its cursor.
LEMMA PageSkipsNothing ==
  ASSUME TypeInv, SoleInv, NothingIsSkipped, NEW c \in Consumers, NEW n \in Int,
         Serve(c, ReplayPage(position[c], n, Wanted[c])), UNCHANGED <<rows, floor>>
  PROVE  NothingIsSkipped'
  <1>. DEFINE S == {r \in StoredRows(position[c], MaxCursor) : r.raw \in Wanted[c]}
  <1>. DEFINE page == Lowest(S, n)
  <1>s. IsFiniteSet(S) /\ \A q \in S : q.cursor \in Int
    BY StoredRowsFinite DEF SoleInv
  <1>p. ReplayPage(position[c], n, Wanted[c]) = page
    BY DEF ReplayPage
  <1>. HIDE DEF S, page
  <1>1. /\ delivered' = [delivered EXCEPT ![c] = @ \cup page]
        /\ \/ UNCHANGED position
           \/ \E last \in page : position' = [position EXCEPT ![c] = last.cursor]
    BY <1>p DEF Serve
  <1>. SUFFICES ASSUME NEW b \in Consumers, NEW i \in EventIds, Missing(b, i)'
                PROVE  rows[i].cursor > position'[b]
    BY DEF NothingIsSkipped
  <1>2. Missing(b, i)
    BY <1>1 DEF Missing, IsStored, Exists, ToRecord, TypeInv, TypeOK, ReplayTypeOK
  <1>3. rows[i].cursor > position[b]
    BY <1>2 DEF NothingIsSkipped
  <1>4. CASE b # c
    BY <1>1, <1>3, <1>4 DEF TypeInv, TypeOK, ReplayTypeOK
  <1>5. CASE b = c
    <2>1. ToRecord(i) \notin page
      BY <1>1, <1>5 DEF Missing, ToRecord, TypeInv, TypeOK, ReplayTypeOK
    <2>2. ToRecord(i) \in S
      <3>1. rows[i].cursor <= MaxCursor
        BY <1>2, LedgerAssumption DEF Missing, IsStored, Exists, TypeInv, TypeOK, LedgerTypeOK, Row
      <3>. QED BY <1>2, <1>3, <1>5, <3>1 DEF S, StoredRows, Missing, ToRecord
    <2>3. ASSUME NEW last \in page  PROVE rows[i].cursor > last.cursor
      <3>1. ~(ToRecord(i).cursor <= last.cursor)
        BY <1>s, <2>1, <2>2, <2>3, LowestIsPrefix DEF page
      <3>2. ToRecord(i).cursor = rows[i].cursor /\ last.cursor \in Int /\ rows[i].cursor \in Int
        BY <1>s, <2>2, <2>3 DEF ToRecord, page, Lowest
      <3>. QED BY <3>1, <3>2
    <2>. QED BY <1>1, <1>3, <1>5, <2>3 DEF TypeInv, TypeOK, ReplayTypeOK
  <1>. QED BY <1>4, <1>5

LEMMA NothingSkippedStep ==
  ASSUME TypeInv, RunnerInv, SoleInv, OneByOne, NothingIsSkipped, [Next]_vars
  PROVE  NothingIsSkipped'
  <1>1. ASSUME NEW h \in Handlers, IngestStep(h)  PROVE NothingIsSkipped'
    <2>f. UNCHANGED <<floor, position, delivered>>
      BY <1>1 DEF IngestStep, replayVars
    <2>. SUFFICES ASSUME NEW c \in Consumers, NEW i \in EventIds, Missing(c, i)'
                  PROVE  rows'[i].cursor > position[c]
      BY <2>f DEF NothingIsSkipped
    <2>1. Exists(i)
      <3>1. SUFFICES ASSUME ~Exists(i)  PROVE FALSE
        OBVIOUS
      <3>2. rows'[i] = [cursor |-> nextCursor, raw |-> env[h], status |-> "received", uri |-> None]
        BY <1>1, <3>1, RequestRows DEF Missing, IsStored, Exists, ToRecord
      <3>. QED BY <3>2 DEF Missing, IsStored
    <2>2. rows'[i].cursor = rows[i].cursor /\ rows'[i].raw = rows[i].raw
      BY <1>1, <2>1, RequestRows DEF ToRecord
    <2>3. CASE IsStored(i)
      BY <2>f, <2>2, <2>3 DEF Missing, NothingIsSkipped, ToRecord
    <2>4. CASE ~IsStored(i)
      <3>1. ~Blocked(i)
        <4>1. rows'[i] # rows[i]
          BY <2>1, <2>4 DEF Missing, IsStored, Exists
        <4>2. pc[h] = "mark" /\ env[h].id = i
          BY <1>1, <2>1, <4>1, RowSteps
          DEF InsertReceived, MarkStored, Exists, SoleInv, SoleRequestInv, SoleRequest,
              TypeInv, TypeOK, LedgerTypeOK
        <4>. QED BY <2>1, <4>2 DEF SoleInv, SoleRequestInv, SoleRequest, Blocked
      <3>. QED BY <2>1, <2>2, <2>4, <3>1 DEF SoleInv, PendingInv, Pending, Ahead
    <2>. QED BY <2>3, <2>4
  <1>2. CASE UNCHANGED <<rows, floor, position, delivered>>
    BY <1>2 DEF NothingIsSkipped, Missing, IsStored, Exists, ToRecord
  <1>3. ASSUME NEW r \in Runners, RetentionStep(r)  PROVE NothingIsSkipped'
    <2>f. UNCHANGED <<position, delivered>>
      BY <1>3 DEF RetentionStep, replayVars
    <2>. SUFFICES ASSUME NEW c \in Consumers, NEW i \in EventIds, Missing(c, i)'
                  PROVE  rows'[i].cursor > position[c]
      BY <2>f DEF NothingIsSkipped
    <2>1. Exists(i) /\ rows'[i] = rows[i]
      BY <1>3, RetentionRows DEF Missing, IsStored
    <2>2. floor' >= floor /\ floor' \in Int /\ floor \in Int /\ rows[i].cursor \in Int
      BY <2>1, FloorStep, TypeStep, SoleTypes, LedgerAssumption DEF TypeInv, TypeOK, LedgerTypeOK
    <2>3. Missing(c, i)
      BY <2>f, <2>1, <2>2 DEF Missing, IsStored, Exists, ToRecord
    <2>. QED BY <2>1, <2>3 DEF NothingIsSkipped
  <1>4. ASSUME NEW c \in Consumers, ReplayStep(c)  PROVE NothingIsSkipped'
    <2>f. UNCHANGED <<rows, floor>>
      BY <1>4 DEF ReplayStep, ledgerVars
    <2>1. CASE CheckFloor(c)
      <3>1. /\ UNCHANGED delivered
            /\ position' = position \/ position' = [position EXCEPT ![c] = floor]
        BY <2>1 DEF CheckFloor
      <3>. QED BY <2>f, <3>1 DEF NothingIsSkipped, Missing, IsStored, Exists, ToRecord,
                                  TypeInv, TypeOK, ReplayTypeOK
    <2>2. CASE GetsPage(c)
      BY <2>f, <2>2, LimitsAreInt, PageSkipsNothing DEF GetsPage
    <2>3. CASE LedgerRefuses(c)
      BY <1>2, <2>f, <2>3 DEF LedgerRefuses
    <2>. QED BY <1>4, <2>1, <2>2, <2>3 DEF ReplayStep, ReplayNext, ReadPage
  <1>. QED BY <1>1, <1>2, <1>3, <1>4
           DEF Next, ArchiveStep, Arrive, vars, ledgerVars, replayVars

\* While requests come one at a time, no call fails, event hashes are checked
\* and at most one retention command runs, a consumer has been served every
\* stored event that its filters match up to its cursor, unless retention has
\* taken it: with either adapter, whatever pages, limits and filters the
\* consumers use.  With two requests at a time or a failing call, a row may be
\* stored under a cursor that consumers have passed (run LateVisible).
THEOREM NothingIsSkippedTheorem ==
  ASSUME OneByOne
  PROVE  Spec => []NothingIsSkipped
  <1>. DEFINE Inv == TypeInv /\ RunnerInv /\ SoleInv /\ NothingIsSkipped
  <1>1. Init => Inv
    <2>1. Init => RunnerInv
      BY DEF Init, RetentionInit, RunnerInv
    <2>3. Init => NothingIsSkipped
      BY DEF Init, LedgerInit, NothingIsSkipped, Missing, IsStored, Exists
    <2>. QED BY <2>1, <2>3, InitTypes, InitSole
  <1>2. Inv /\ [Next]_vars => Inv'
    BY TypeStep, RunnerKept, SoleStep, NothingSkippedStep DEF OneByOne
  <1>3. Inv => NothingIsSkipped
    OBVIOUS
  <1>. QED BY <1>1, <1>2, <1>3, PTL DEF Spec

----------------------------------------------------------------------------
(* What is served is archived, when requests come one at a time.           *)

\* A stored row is archived, and so is what the request is about to mark.
MarkedInv ==
  /\ StoredRowsArchived
  /\ \A h \in Handlers : (pc[h] = "mark" \/ (ArchiveFirst /\ pc[h] \in {"insert", "reread"}))
                           => Archived(env[h])

LEMMA MarkedStep ==
  ASSUME TypeInv, SoleInv, MarkedInv, OneByOne, [Next]_vars
  PROVE  MarkedInv'
  <1>. USE DEF MarkedInv, StoredRowsArchived
  <1>o. \A e \in Envelopes : Archived(e) => object'[Key(e)] = e
    BY ObjectsStay, EnvelopeFields DEF Archived
  <1>r. \A i \in EventIds : Exists(i) => rows[i].raw \in Envelopes
    BY SoleTypes
  <1>1. ASSUME NEW h \in Handlers, IngestStep(h)  PROVE MarkedInv'
    <2>. DEFINE e == env[h]
    <2>e. pc[h] # "idle" => e \in Envelopes /\ Key(e) \in Keys
      BY EnvelopeFields DEF SoleInv, SoleRequestInv, SoleRequest
    <2>1. ASSUME NEW i \in EventIds, rows'[i] # None, rows'[i].status = "stored"
          PROVE  object'[Key(rows'[i].raw)] = rows'[i].raw
      <3>1. Exists(i)
        <4>1. SUFFICES ASSUME ~Exists(i)  PROVE FALSE
          OBVIOUS
        <4>2. rows'[i] = [cursor |-> nextCursor, raw |-> env[h], status |-> "received", uri |-> None]
          BY <1>1, <2>1, <4>1, RequestRows DEF Exists
        <4>. QED BY <2>1, <4>2
      <3>2. rows'[i].raw = rows[i].raw /\ rows[i].raw \in Envelopes
        BY <1>1, <1>r, <3>1, RequestRows DEF ToRecord
      <3>3. CASE rows'[i] = rows[i]
        BY <1>o, <2>1, <3>1, <3>2, <3>3 DEF IsStored
      <3>4. CASE pc[h] = "mark" /\ i = e.id
        <4>1. rows[i].raw = e /\ Archived(e)
          BY <3>1, <3>4 DEF SoleInv, SoleRequestInv, SoleRequest
        <4>. QED BY <1>o, <3>2, <4>1
      <3>. QED BY <1>1, <2>1, <3>1, <3>3, <3>4, StoredSteps
    <2>2. ASSUME pc'[h] = "mark" \/ (ArchiveFirst /\ pc'[h] \in {"insert", "reread"})
          PROVE  object'[Key(env'[h])] = env'[h]
      <3>. USE DEF TypeInv, TypeOK, IngestTypeOK, At, Goto, SetAnswer, Report
      <3>1. CASE Object(h)
        <4>1. ObjectAccepts(e)
          BY <2>2, <3>1 DEF Object, GiveUpWrite
        <4>. QED BY <2>e, <3>1, <4>1 DEF Object, WriteObject, ObjectAccepts, ArchiveTypeOK
      <3>2. CASE Insert(h) \/ Reread(h)
        <4>1. Archived(e) /\ env' = env
          BY <2>2, <3>2 DEF Insert, Reread, HandleExisting, AnswerConflict, AnswerDuplicate, StoreAndMark
        <4>. QED BY <1>o, <2>e, <3>2, <4>1 DEF Insert, Reread
      <3>3. CASE Lookup(h)
        BY <2>2, <3>3 DEF Lookup, HandleExisting, AnswerConflict, AnswerDuplicate, StoreAndMark
      <3>4. CASE Guard(h) \/ Cleanup(h) \/ Remove(h) \/ Mark(h) \/ MarkRead(h) \/ RecordIt(h) \/ Fail(h)
        BY <2>2, <3>4 DEF Guard, Cleanup, Remove, Mark, MarkRead, RecordIt, Fail
      <3>5. CASE CallFails(h) \/ Crash(h) \/ \E f \in Envelopes : Begin(h, f)
        BY <2>2, <3>5 DEF CallFails, LedgerFails, StorageFails, GiveUpWrite, Crash, Begin
      <3>. QED BY <1>1, <3>1, <3>2, <3>3, <3>4, <3>5 DEF IngestStep, IngestNext, Proceed
    <2>. QED BY <2>1, <2>2 DEF OneByOne, IsStored, Exists, Archived
  <1>2. ASSUME UNCHANGED handlerVars, \A i \in EventIds : Exists(i)' => Exists(i) /\ rows'[i] = rows[i]
        PROVE  MarkedInv'
    <2>1. \A h \in Handlers : pc[h] # "idle" => env[h] \in Envelopes
      BY DEF TypeInv, Busy
    <2>2. \A i \in EventIds : IsStored(i)' => IsStored(i) /\ rows'[i] = rows[i] /\ rows[i].raw \in Envelopes
      BY <1>2, <1>r DEF IsStored
    <2>. QED BY <1>2, <1>o, <2>1, <2>2 DEF Archived, handlerVars
  <1>3. ASSUME NEW r \in Runners, RetentionStep(r)  PROVE MarkedInv'
    BY <1>2, <1>3, RetentionRows
  <1>. QED BY <1>1, <1>2, <1>3
           DEF Next, ArchiveStep, Arrive, ReplayStep, vars, ledgerVars, Exists

\* While requests come one at a time, no call fails, event hashes are checked and
\* at most one retention command runs, consumers are served what the archive
\* holds, with either adapter.  (With the filesystem adapter, retention and two
\* requests, other content may take the row of a retained event id before the
\* second request marks it.)
THEOREM DeliveredOneByOneTheorem ==
  ASSUME OneByOne
  PROVE  Spec => []DeliveredIsArchived
  <1>. DEFINE Inv == TypeInv /\ SoleInv /\ MarkedInv /\ DeliveredIsArchived
  <1>1. Init => MarkedInv /\ DeliveredIsArchived
    BY DEF Init, LedgerInit, IngestInit, ReplayInit, MarkedInv, StoredRowsArchived, IsStored, Exists,
           DeliveredIsArchived
  <1>2. Inv /\ [Next]_vars => Inv'
    BY TypeStep, SoleStep, MarkedStep, DeliveredKept DEF MarkedInv
  <1>3. Inv => DeliveredIsArchived
    OBVIOUS
  <1>. QED BY InitTypes, InitSole, <1>1, <1>2, <1>3, PTL DEF Spec

=============================================================================
