----------------------------- MODULE RawWrites ------------------------------
(***************************************************************************)
(* What WriteRawEvent of either adapter looks like from Ingest: one atomic *)
(* step for the guard, one for the object, two more to take a guard back,  *)
(* and a failure or a death at any of them.  These are the archive steps   *)
(* of Ingest without the ledger; Adapters implements them.                 *)
(***************************************************************************)
EXTENDS Archive

CONSTANT Writers

VARIABLES adapter,  \* "filesystem" or "s3", for good
          call,     \* writer -> the step it takes next, "away" outside of a call
          text,     \* writer -> the envelope of its current or last call
          made,     \* writer -> its call created the guard (filesystem)
          result    \* writer -> what its last call returned, or None
rawVars == <<archiveVars, adapter, call, text, made, result>>

RawInit ==
  /\ ArchiveInit
  /\ adapter \in {"filesystem", "s3"}
  /\ call = [w \in Writers |-> "away"]
  /\ text = [w \in Writers |-> None]
  /\ made = [w \in Writers |-> FALSE]
  /\ result = [w \in Writers |-> None]

RAt(w, c) == call[w] = c
RGoto(w, c) == call' = [call EXCEPT ![w] = c]
Return(w, r) == RGoto(w, "away") /\ result' = [result EXCEPT ![w] = r]

\* A call whose object was not written: a guard that it made is taken back.
Withdraw(w, r) ==
  /\ RGoto(w, IF made[w] THEN "cleanup" ELSE "away")
  /\ result' = [result EXCEPT ![w] = r]

Enter(w, e) ==
  /\ RAt(w, "away") /\ RGoto(w, "guard")
  /\ text' = [text EXCEPT ![w] = e]
  /\ made' = [made EXCEPT ![w] = FALSE]
  /\ result' = [result EXCEPT ![w] = None]
  /\ UNCHANGED archiveVars

PutGuard(w) ==
  /\ RAt(w, "guard")
  /\ WriteGuard(text[w]) /\ UNCHANGED object /\ StillLate
  /\ made' = [made EXCEPT ![w] = adapter = "filesystem" /\ guard[text[w].id] = None]
  /\ \/ GuardAccepts(text[w]) /\ RGoto(w, "object") /\ UNCHANGED result
     \/ ~GuardAccepts(text[w]) /\ Return(w, "conflict")
  /\ UNCHANGED text

PutObject(w) ==
  /\ RAt(w, "object")
  /\ WriteObject(text[w]) /\ UNCHANGED guard /\ StillLate
  /\ \/ ObjectAccepts(text[w]) /\ Return(w, "ok")
     \/ ~ObjectAccepts(text[w]) /\ Withdraw(w, "conflict")
  /\ UNCHANGED <<text, made>>

TakeBack(w) ==
  /\ \/ /\ RAt(w, "cleanup")
        /\ RGoto(w, IF guard[text[w].id] = text[w] THEN "remove" ELSE "away")
        /\ UNCHANGED guard
     \/ /\ RAt(w, "remove") /\ RGoto(w, "away")
        /\ guard' = [guard EXCEPT ![text[w].id] = None]
  /\ UNCHANGED <<object, late, text, made, result>>

\* Nobody waits for the put any longer; with S3 it may still take effect.
LeavePut(w) ==
  \/ UNCHANGED archiveVars
  \/ adapter = "s3" /\ call[w] \in {"guard", "object"} /\ Abandon(<<call[w], text[w]>>)

CallBreaks(w) ==
  /\ \/ RAt(w, "guard") /\ Return(w, "error")
     \/ RAt(w, "object") /\ Withdraw(w, "error")
     \/ call[w] \in {"cleanup", "remove"} /\ RGoto(w, "away") /\ UNCHANGED result
     \/ ~RAt(w, "away") /\ Return(w, None)   \* the process dies
  /\ LeavePut(w)
  /\ UNCHANGED <<text, made>>

\* The machine of a filesystem archive stops, and every call on it.
MachineStops ==
  /\ adapter = "filesystem"
  /\ call' = [w \in Writers |-> "away"]
  /\ result' = [w \in Writers |-> IF RAt(w, "away") THEN result[w] ELSE None]
  /\ UNCHANGED <<archiveVars, text, made>>

\* A put takes effect before, or without, its caller hearing of it.
LandPut ==
  /\ adapter = "s3"
  /\ \E p \in late \cup {<<call[w], text[w]>> : w \in {v \in Writers : call[v] \in {"guard", "object"}}} :
       /\ IsFree(p)
       /\ \/ p[1] = "guard" /\ WriteGuard(p[2]) /\ UNCHANGED object
          \/ p[1] = "object" /\ WriteObject(p[2]) /\ UNCHANGED guard
  /\ StillLate
  /\ UNCHANGED <<call, text, made, result>>

RawNext ==
  /\ \/ \E w \in Writers : \/ \E e \in Envelopes : Enter(w, e)
                           \/ PutGuard(w) \/ PutObject(w) \/ TakeBack(w) \/ CallBreaks(w)
     \/ MachineStops
     \/ LandPut
  /\ UNCHANGED adapter

RawSpec == RawInit /\ [][RawNext]_rawVars
=============================================================================
