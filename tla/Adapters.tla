------------------------------ MODULE Adapters ------------------------------
(***************************************************************************)
(* WriteRawEvent of internal/storage call by call: the file operations of  *)
(* the filesystem adapter, the conditional puts of the S3 adapter and the  *)
(* store they are sent to.  Both write two places, first the guard of the  *)
(* event id and then the object at its path, with the same routine.        *)
(*   filesystem   look, fill, sync, link, reread; check, remove            *)
(*   s3           send, wait, read                                         *)
(***************************************************************************)
EXTENDS Envelope

CONSTANTS Writers, Torn

VARIABLES adapter,   \* storage.adapter of the configuration
          store,     \* place -> the envelope whose text is there, or None
          unsynced,  \* places that name a file whose data is not on disk
          step,      \* writer -> what it does next, "away" outside of a call
          part,      \* writer -> the place it writes: "guard" or "object"
          text,      \* writer -> the envelope of its current or last call
          made,      \* writer -> guardCreated
          synced,    \* writer -> its temporary file is synced
          reply,     \* writer -> what the store did with its put, or None
          resent,    \* writer -> the SDK's former copy of the put is on its way
          orphans,   \* puts on their way that no call belongs to any more
          result     \* writer -> what its last call returned, or None
fileVars == <<unsynced, made, synced>>
wireVars == <<reply, resent, orphans>>
vars == <<adapter, store, step, part, text, fileVars, wireVars, result>>

Parts == {"guard", "object"}
Place(p, e) == IF p = "guard" THEN <<p, e.id>> ELSE <<p, Key(e)>>
Places == {<<"guard", i>> : i \in EventIds} \cup {<<"object", k>> : k \in Keys}

FileSteps == {"look", "fill", "sync", "link", "reread", "check", "remove"}
PutSteps == {"send", "wait", "read"}

TypeOK ==
  /\ adapter \in {"filesystem", "s3"}
  /\ store \in [Places -> Envelopes \cup {None, Torn}] /\ unsynced \subseteq Places
  /\ step \in [Writers -> {"away"} \cup IF adapter = "s3" THEN PutSteps ELSE FileSteps]
  /\ part \in [Writers -> Parts] /\ text \in [Writers -> Envelopes \cup {None}]
  /\ made \in [Writers -> BOOLEAN] /\ synced \in [Writers -> BOOLEAN]
  /\ reply \in [Writers -> {None, "created", "exists"}] /\ resent \in [Writers -> BOOLEAN]
  /\ orphans \subseteq Parts \X Envelopes
  /\ result \in [Writers -> {None, "ok", "conflict", "error"}]

\* newStorage; the archive is empty.
Init ==
  /\ adapter \in {"filesystem", "s3"}
  /\ store = [p \in Places |-> None] /\ unsynced = {}
  /\ step = [w \in Writers |-> "away"] /\ part = [w \in Writers |-> "guard"]
  /\ text = [w \in Writers |-> None] /\ made = [w \in Writers |-> FALSE]
  /\ synced = [w \in Writers |-> FALSE]
  /\ reply = [w \in Writers |-> None] /\ resent = [w \in Writers |-> FALSE]
  /\ orphans = {} /\ result = [w \in Writers |-> None]

At(w, s) == step[w] = s
Goto(w, s) == step' = [step EXCEPT ![w] = s]
Here(w) == Place(part[w], text[w])
Found(w) == store[Here(w)]
\* A slip: S3 calls go to the file system.
AlwaysLook == "look"

FirstStep == IF adapter = "s3" THEN "send" ELSE "look"

\* WriteRawEvent is called.
Enter(w, e) ==
  /\ At(w, "away") /\ Goto(w, FirstStep)
  /\ part' = [part EXCEPT ![w] = "guard"]
  /\ text' = [text EXCEPT ![w] = e]
  /\ made' = [made EXCEPT ![w] = FALSE]
  /\ result' = [result EXCEPT ![w] = None]
  /\ UNCHANGED <<store, unsynced, synced, wireVars>>

Return(w, r) == result' = [result EXCEPT ![w] = r] /\ Goto(w, "away") /\ UNCHANGED part

\* The place holds the text: the guard is followed by the object, and the
\* object by the return.
Written(w) ==
  IF part[w] = "guard"
    THEN /\ part' = [part EXCEPT ![w] = "object"] /\ Goto(w, FirstStep)
         /\ UNCHANGED result
    ELSE Return(w, "ok")

\* The write of the place failed; a guard that this call created is taken back.
NotWritten(w, r) ==
  IF part[w] = "object" /\ made[w]
    THEN /\ result' = [result EXCEPT ![w] = r] /\ Goto(w, "check")
         /\ UNCHANGED part
    ELSE Return(w, r)

\* What was read at the place decides, if there was anything.
Compare(w) ==
  IF Found(w) = text[w] THEN Written(w) ELSE NotWritten(w, "conflict")

----------------------------------------------------------------------------
(* The filesystem: writeFileIfAbsent, and the removal of a guard. *)

Look(w) ==
  /\ At(w, "look")
  /\ \/ Found(w) # None /\ Compare(w)
     \/ Found(w) = None /\ Goto(w, "fill") /\ UNCHANGED <<part, result>>
  /\ UNCHANGED <<store, fileVars>>

\* A temporary file in the same directory, which nobody else names.
Fill(w) ==
  /\ At(w, "fill") /\ Goto(w, "sync")
  /\ synced' = [synced EXCEPT ![w] = FALSE]
  /\ UNCHANGED <<store, unsynced, made, part, result>>

\* A slip: the data is left to the operating system.
CloseOnly(w) ==
  /\ At(w, "sync") /\ Goto(w, "link")
  /\ UNCHANGED <<store, fileVars, part, result>>

Sync(w) ==
  /\ At(w, "sync") /\ Goto(w, "link")
  /\ synced' = [synced EXCEPT ![w] = TRUE]
  /\ UNCHANGED <<store, unsynced, made, part, result>>

\* os.Link: the file gets its name unless the name is taken.  Only the guard's
\* result is kept.
Link(w) ==
  /\ At(w, "link")
  /\ \/ /\ Found(w) = None
        /\ store' = [store EXCEPT ![Here(w)] = text[w]]
        /\ unsynced' = IF synced[w] THEN unsynced ELSE unsynced \cup {Here(w)}
        /\ made' = IF part[w] = "guard" THEN [made EXCEPT ![w] = TRUE] ELSE made
        /\ Written(w)
     \/ /\ Found(w) # None /\ Goto(w, "reread")
        /\ UNCHANGED <<store, unsynced, made, part, result>>
  /\ UNCHANGED synced

\* The name that was taken may be free again: its creator took it back.
Reread(w) ==
  /\ At(w, "reread")
  /\ \/ Found(w) # None /\ Compare(w)
     \/ Found(w) = None /\ NotWritten(w, "error")
  /\ UNCHANGED <<store, fileVars>>

GuardOf(w) == Place("guard", text[w])

\* removeFileIfContentMatches; its errors are dropped.
Check(w) ==
  /\ At(w, "check")
  /\ Goto(w, IF store[GuardOf(w)] = text[w] THEN "remove" ELSE "away")
  /\ UNCHANGED <<store, fileVars, part, result>>

Remove(w) ==
  /\ At(w, "remove") /\ Goto(w, "away")
  /\ store' = [store EXCEPT ![GuardOf(w)] = None]
  /\ unsynced' = unsynced \ {GuardOf(w)}
  /\ UNCHANGED <<made, synced, part, result>>

FileFails(w) ==
  /\ \/ step[w] \in FileSteps \ {"check", "remove"} /\ NotWritten(w, "error")
     \/ step[w] \in {"check", "remove"} /\ Goto(w, "away") /\ UNCHANGED <<part, result>>
  /\ UNCHANGED <<store, fileVars>>

FileStep(w) ==
  /\ Look(w) \/ Fill(w) \/ Sync(w) \/ Link(w) \/ Reread(w) \/ Check(w) \/ Remove(w) \/ FileFails(w)
  /\ UNCHANGED <<adapter, text, wireVars>>

\* Power is lost: every process is gone, and a file whose data was not synced
\* is torn.  Names are taken to survive.
PowerLoss ==
  /\ adapter = "filesystem"
  /\ store' = [p \in Places |-> IF p \in unsynced THEN Torn ELSE store[p]]
  /\ unsynced' = {}
  /\ step' = [w \in Writers |-> "away"]
  /\ result' = [w \in Writers |-> IF At(w, "away") THEN result[w] ELSE None]
  /\ UNCHANGED <<adapter, part, text, made, synced, wireVars>>

----------------------------------------------------------------------------
(* S3: writeObjectAtKey, and the store. *)

Send(w) ==
  /\ At(w, "send") /\ Goto(w, "wait")
  /\ reply' = [reply EXCEPT ![w] = None]
  /\ resent' = [resent EXCEPT ![w] = FALSE]
  /\ UNCHANGED <<store, part, orphans, result>>

\* A put with If-None-Match writes a free place.  Puts without a caller that
\* would find it taken are forgotten.
Store(p, e) ==
  /\ store[Place(p, e)] = None
  /\ store' = [store EXCEPT ![Place(p, e)] = e]
  /\ orphans' = {o \in orphans : Place(o[1], o[2]) # Place(p, e)}

\* A put of the current call is on its way: the awaited one, or a former copy.
Awaited(w) == At(w, "wait") /\ reply[w] = None
OnItsWay(w) == Awaited(w) \/ resent[w]

\* Another put for the same place is on its way.
Contended(w) ==
  \/ resent[w]
  \/ \E v \in Writers \ {w} : OnItsWay(v) /\ Here(v) = Here(w)
  \/ \E o \in orphans : Place(o[1], o[2]) = Here(w)

\* The store handles the put: it is written, refused as PreconditionFailed, or
\* refused as ConditionalRequestConflict.
Handle(w) ==
  /\ Awaited(w)
  /\ \/ /\ Store(part[w], text[w])
        /\ reply' = [reply EXCEPT ![w] = "created"]
     \/ /\ Found(w) # None \/ Contended(w)
        /\ reply' = [reply EXCEPT ![w] = "exists"]
        /\ UNCHANGED <<store, orphans>>
  /\ UNCHANGED <<step, part, resent, result>>

\* The connection breaks and the SDK sends the put again; the reply is lost or
\* the former copy still on its way.
Resend(w) ==
  /\ At(w, "wait")
  /\ resent' = [resent EXCEPT ![w] = resent[w] \/ reply[w] = None]
  /\ reply' = [reply EXCEPT ![w] = None]
  /\ UNCHANGED <<store, step, part, orphans, result>>

\* A former copy arrives, or one that no call belongs to.
CopyArrives(w) ==
  /\ resent[w]
  /\ resent' = [resent EXCEPT ![w] = FALSE]
  /\ \/ Store(part[w], text[w])
     \/ Found(w) # None /\ UNCHANGED <<store, orphans>>
  /\ UNCHANGED <<step, part, reply, result>>

OrphanArrives ==
  /\ \E o \in orphans : Store(o[1], o[2])
  /\ UNCHANGED <<adapter, step, part, text, fileVars, reply, resent, result>>

\* The call moves on; what is on its way belongs to no call any more.
LeavesCopies(w) ==
  /\ resent' = [resent EXCEPT ![w] = FALSE]
  /\ orphans' = IF OnItsWay(w) /\ Found(w) = None
                  THEN orphans \cup {<<part[w], text[w]>>} ELSE orphans

\* isObjectAlreadyExistsError takes both refusals for an object that is there.
Hear(w) ==
  /\ At(w, "wait")
  /\ \/ reply[w] = "created" /\ Written(w) /\ LeavesCopies(w)
     \/ reply[w] = "exists" /\ Goto(w, "read") /\ UNCHANGED <<part, resent, orphans, result>>
  /\ UNCHANGED <<store, reply>>

\* confirmRawEventAtKey: after a ConditionalRequestConflict, GetObject may find
\* nothing.
Read(w) ==
  /\ At(w, "read")
  /\ \/ Found(w) # None /\ Compare(w)
     \/ Found(w) = None /\ NotWritten(w, "error")
  /\ LeavesCopies(w)
  /\ UNCHANGED <<store, reply>>

\* A slip: no deadline.
NeverGivesUp(w) == FALSE

\* s3OperationTimeout, or an error of the store or of the network.
GivesUp(w) ==
  /\ step[w] \in PutSteps /\ NotWritten(w, "error") /\ LeavesCopies(w)
  /\ UNCHANGED <<store, reply>>

PutStep(w) ==
  /\ Send(w) \/ Hear(w) \/ Read(w) \/ GivesUp(w)
  /\ UNCHANGED <<adapter, text, fileVars>>

WireStep(w) ==
  /\ Handle(w) \/ Resend(w) \/ CopyArrives(w)
  /\ UNCHANGED <<adapter, text, fileVars>>

----------------------------------------------------------------------------
(* The process of a call is killed. *)
Dies(w) ==
  /\ ~At(w, "away") /\ Return(w, None) /\ LeavesCopies(w)
  /\ UNCHANGED <<adapter, store, text, fileVars, reply>>

Next ==
  \/ \E w \in Writers : \/ \E e \in Envelopes : Enter(w, e) /\ UNCHANGED adapter
                        \/ FileStep(w) \/ PutStep(w) \/ WireStep(w) \/ Dies(w)
  \/ PowerLoss
  \/ OrphanArrives

\* File operations return, and S3 calls end at their deadline; the store and
\* the network owe nothing.
Spec == Init /\ [][Next]_vars /\ \A w \in Writers : WF_vars(FileStep(w) \/ PutStep(w))

----------------------------------------------------------------------------
(* Ingest sees the guard written in one step and the object in another. *)

CallOf(w) ==
  IF step[w] = "away" THEN "away"
  ELSE IF step[w] = "check" THEN "cleanup"
  ELSE IF step[w] = "remove" THEN "remove" ELSE part[w]

Raw == INSTANCE RawWrites WITH
  guard <- [i \in EventIds |-> store[<<"guard", i>>]],
  object <- [k \in Keys |-> store[<<"object", k>>]],
  late <- orphans,
  call <- [w \in Writers |-> CallOf(w)]

\* However the calls of concurrent writers, lost replies, repeated puts, dying
\* processes and a loss of power interleave, either adapter shows its callers
\* nothing but the atomic writes that Ingest is built on: no partial text is
\* ever read, a late put finds its place taken, and a guard is only removed by
\* the call that made it.
WritesAreAtomic == Raw!RawSpec

\* Every call returns, whatever the store does with its puts: a repeated or
\* unanswered PutObject ends at its deadline.
WritesEnd == \A w \in Writers : ~At(w, "away") ~> At(w, "away")

ASSUME AdaptersAssumption ==
  /\ Torn \notin Envelopes \cup {None}
  /\ None \notin {"created", "exists"}
=============================================================================
