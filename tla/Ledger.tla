------------------------------- MODULE Ledger -------------------------------
(***************************************************************************)
(* The SQL ledger of internal/ledger/gorm.go: sigint_events (one row per   *)
(* event id, with an ever-growing id that is the replay cursor), the       *)
(* attempt log and the replay watermark.  Each operator is one SQL         *)
(* statement or transaction; statements autocommit.                        *)
(***************************************************************************)
EXTENDS Envelope, Naturals, FiniteSets

CONSTANT MaxCursor       \* the largest id the table can allot (bound)

VARIABLES rows,          \* event id -> its row, or None
          nextCursor,    \* the next AUTOINCREMENT / BIGSERIAL value
          floor,         \* the replay watermark, 0 when there is none
          attempts       \* {<<event id, attempt status>>} recorded so far
ledgerVars == <<rows, nextCursor, floor, attempts>>

Row == [cursor : 1..MaxCursor, raw : Envelopes,
        status : {"received", "stored", "failed"}, uri : Keys \cup {None}]
AttemptStatus == {"stored", "duplicate", "hash_conflict", "failed"}

LedgerTypeOK ==
  /\ rows \in [EventIds -> Row \cup {None}]
  /\ nextCursor \in 1..(MaxCursor + 1)
  /\ floor \in 0..MaxCursor
  /\ attempts \subseteq EventIds \X AttemptStatus

LedgerInit ==
  /\ rows = [i \in EventIds |-> None]
  /\ nextCursor = 1 /\ floor = 0 /\ attempts = {}

Exists(i) == rows[i] # None
\* A slip: the status is not part of the WHERE clause.
IsThere(i) == Exists(i)

IsStored(i) == Exists(i) /\ rows[i].status = "stored"

\* The bound on cursors, which the code does not have: a new row needs one.
CanInsert(i) == Exists(i) \/ nextCursor <= MaxCursor

\* A slip: ON CONFLICT replaces the row.
Upsert(e) ==
  IF nextCursor > MaxCursor THEN UNCHANGED <<rows, nextCursor>>
  ELSE /\ rows' = [rows EXCEPT ![e.id] =
                     [cursor |-> nextCursor, raw |-> e, status |-> "received", uri |-> None]]
       /\ nextCursor' = nextCursor + 1

\* INSERT ... ON CONFLICT DO NOTHING.
InsertReceived(e) ==
  IF Exists(e.id) THEN UNCHANGED <<rows, nextCursor>>
  ELSE /\ rows' = [rows EXCEPT ![e.id] =
                     [cursor |-> nextCursor, raw |-> e, status |-> "received", uri |-> None]]
       /\ nextCursor' = nextCursor + 1

\* UPDATE ... WHERE event_id = ?: no row, no effect; the row's content is not
\* compared.
MarkStored(e) ==
  rows' = IF Exists(e.id)
            THEN [rows EXCEPT ![e.id] = [@ EXCEPT !.status = "stored", !.uri = Key(e)]]
            ELSE rows

\* The storage URI stays as it is.
MarkFailed(e) ==
  rows' = IF Exists(e.id)
            THEN [rows EXCEPT ![e.id] = [@ EXCEPT !.status = "failed"]]
            ELSE rows

RecordAttempt(i, s) == attempts' = attempts \cup {<<i, s>>}

\* What readers of a row use of it.
ToRecord(i) == [cursor |-> rows[i].cursor, raw |-> rows[i].raw]

\* A slip: ORDER BY id DESC.
Highest(S, n) == {r \in S : Cardinality({q \in S : q.cursor > r.cursor}) < n}

\* ORDER BY id ASC LIMIT n over the stored rows with an id above `after` and,
\* for retention, at most `through`.
Lowest(S, n) == {r \in S : Cardinality({q \in S : q.cursor < r.cursor}) < n}
StoredRows(after, through) ==
  {ToRecord(i) : i \in {j \in EventIds : IsStored(j) /\ rows[j].cursor > after
                                                     /\ rows[j].cursor <= through}}
\* A slip: the filters are applied to the page.
FilteredPage(after, limit, wanted) == {r \in Lowest(StoredRows(after, MaxCursor), limit) : r.raw \in wanted}

\* The filters are equalities on columns that InsertReceived takes from the
\* envelope, so that they select rows by their envelopes.
ReplayPage(after, limit, wanted) == Lowest({r \in StoredRows(after, MaxCursor) : r.raw \in wanted}, limit)

\* A slip: candidates at or below the watermark are taken again.
AllCandidates(after, through, limit) == Lowest(StoredRows(0, through), limit)

RetentionCandidates(after, through, limit) == Lowest(StoredRows(after, through), limit)

\* A slip: the watermark row is not updated.
KeepWatermark(cursor) == UNCHANGED floor

\* One transaction: upsert the watermark, then delete those of the confirmed
\* ids that are still stored.
SetReplayWatermark(cursor) == floor' = cursor
RetainStoredEvents(cursors, watermark) ==
  /\ SetReplayWatermark(watermark)
  /\ rows' = [i \in EventIds |->
                IF IsStored(i) /\ rows[i].cursor \in cursors THEN None ELSE rows[i]]

ASSUME LedgerAssumption ==
  /\ MaxCursor \in Nat
  /\ None \notin Row
=============================================================================
