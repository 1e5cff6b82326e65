------------------------------ MODULE Archive -------------------------------
(***************************************************************************)
(* The raw archive of internal/storage: one guard object per event id and  *)
(* one object per archive path, each written with put-if-absent (os.Link   *)
(* of a synced temporary file, or PutObject under If-None-Match).          *)
(***************************************************************************)
EXTENDS Envelope

VARIABLES guard,   \* event id -> the envelope in its guard, or None
          object,  \* path -> the envelope archived there, or None
          late     \* puts whose caller is gone and that may still take effect
archiveVars == <<guard, object, late>>

Put == {"guard", "object"} \X Envelopes

ArchiveTypeOK ==
  /\ guard \in [EventIds -> Envelopes \cup {None}]
  /\ object \in [Keys -> Envelopes \cup {None}]
  /\ late \subseteq Put

ArchiveInit ==
  /\ guard = [i \in EventIds |-> None]
  /\ object = [k \in Keys |-> None]
  /\ late = {}

\* Whether a conditional put of the envelope would still write its place.
IsFree(p) == IF p[1] = "guard" THEN guard[p[2].id] = None ELSE object[Key(p[2])] = None

\* A put that found its place free counts no more once the place is taken: late
\* holds only those that can still take effect.
StillLate == late' = {p \in late : IsFree(p)'}

\* The caller of a put stops waiting, by its deadline or by its death, and the
\* put may reach the store afterwards.
Abandon(p) == late' = late \cup {p} /\ IsFree(p) /\ UNCHANGED <<guard, object>>

\* A slip: an unconditional put.
OverwriteGuard(e) == guard' = [guard EXCEPT ![e.id] = e]

\* Put-if-absent; the write succeeds when the place is free or already holds
\* the same text, and is a conflict otherwise.
WriteGuard(e) == guard' = [guard EXCEPT ![e.id] = IF @ = None THEN e ELSE @]
\* A slip: the text found there is not compared.
IgnoreGuard(e) == TRUE

GuardAccepts(e) == guard[e.id] \in {None, e}

WriteObject(e) == object' = [object EXCEPT ![Key(e)] = IF @ = None THEN e ELSE @]
\* A slip: whatever is found there is a conflict.
MustBeNew(e) == object[Key(e)] = None

ObjectAccepts(e) == object[Key(e)] \in {None, e}

\* ConfirmRawEvent: the archived text at the envelope's path is this text.
Archived(e) == object[Key(e)] = e
=============================================================================
