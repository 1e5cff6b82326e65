----------------------------- MODULE Retention ------------------------------
(***************************************************************************)
(* Service.RetainHotEvents of internal/ingest/retention.go, run by the     *)
(* `retention` command beside the serving processes.                       *)
(***************************************************************************)
EXTENDS Ledger, Archive

CONSTANTS Runners,         \* concurrent retention commands
          RetentionLimit,  \* --limit
          RetentionFaults  \* whether their calls fail and the commands die

VARIABLES rpc,     \* runner -> "idle", "candidates", "confirm" or "commit"
          after,   \* runner -> the watermark it read
          batch    \* runner -> the candidates, then the confirmed ones
retentionVars == <<rpc, after, batch>>

Candidate == [cursor : 1..MaxCursor, raw : Envelopes]

RetentionTypeOK ==
  /\ rpc \in [Runners -> {"idle", "candidates", "confirm", "commit"}]
  /\ after \in [Runners -> 0..MaxCursor]
  /\ batch \in [Runners -> SUBSET Candidate]

RetentionInit ==
  /\ rpc = [r \in Runners |-> "idle"]
  /\ after = [r \in Runners |-> 0]
  /\ batch = [r \in Runners |-> {}]

RGoto(r, call) == rpc' = [rpc EXCEPT ![r] = call]

ReadFloor(r) ==
  /\ rpc[r] = "idle"
  /\ after' = [after EXCEPT ![r] = floor]
  /\ RGoto(r, "candidates")
  /\ UNCHANGED <<rows, floor, archiveVars, batch>>

\* The cursor to retain through is the operator's argument.
ReadCandidates(r) ==
  /\ rpc[r] = "candidates"
  /\ \E through \in 1..MaxCursor :
       LET found == RetentionCandidates(after[r], through, RetentionLimit) IN
       /\ batch' = [batch EXCEPT ![r] = found]
       /\ RGoto(r, IF found = {} THEN "idle" ELSE "confirm")
  /\ UNCHANGED <<rows, floor, archiveVars, after>>

\* A slip: the archive is not asked.
TakeAll(cands) == cands

\* Those of the candidates that have only archived ones before them: the loop
\* stops at the first one the archive does not confirm.
Confirmed(cands) ==
  {c \in cands : \A d \in cands : d.cursor <= c.cursor => Archived(d.raw)}

\* The confirmation loop, one step: what the archive holds stays there, so
\* each read finds what a read at the end of the loop would.  A read that
\* fails ends the loop early.
Confirm(r) ==
  /\ rpc[r] = "confirm"
  /\ \E good \in SUBSET batch[r] :
       /\ \/ good = Confirmed(batch[r])
          \/ /\ RetentionFaults
             /\ good \subseteq Confirmed(batch[r])
             /\ \A c \in good, d \in batch[r] : d.cursor < c.cursor => d \in good
       /\ batch' = [batch EXCEPT ![r] = good]
       /\ RGoto(r, IF good = {} THEN "idle" ELSE "commit")
  /\ UNCHANGED <<rows, floor, archiveVars, after>>

Cursors(cands) == {c.cursor : c \in cands}

\* The watermark becomes the last confirmed cursor, whatever it is by now.
Commit(r) ==
  /\ rpc[r] = "commit"
  /\ \E last \in batch[r] :
       /\ \A c \in batch[r] : c.cursor <= last.cursor
       /\ RetainStoredEvents(Cursors(batch[r]), last.cursor)
  /\ RGoto(r, "idle")
  /\ batch' = [batch EXCEPT ![r] = {}]
  /\ UNCHANGED <<archiveVars, after>>

\* A call fails, or the command dies, before its transaction commits.
Abort(r) ==
  /\ RetentionFaults /\ rpc[r] # "idle"
  /\ RGoto(r, "idle")
  /\ batch' = [batch EXCEPT ![r] = {}]
  /\ UNCHANGED <<rows, floor, archiveVars, after>>

RetentionNext(r) == ReadFloor(r) \/ ReadCandidates(r) \/ Confirm(r) \/ Commit(r) \/ Abort(r)

ASSUME RetentionAssumption ==
  RetentionLimit \in Nat \ {0} /\ RetentionFaults \in BOOLEAN
=============================================================================
