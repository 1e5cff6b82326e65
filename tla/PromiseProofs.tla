--------------------------- MODULE PromiseProofs ----------------------------
(***************************************************************************)
(* With the event hash checked, what the service says is true of its       *)
(* archive, and the service implements WriteOnce: with the S3 adapter      *)
(* always, with the filesystem adapter while nothing is retained.          *)
(***************************************************************************)
EXTENDS ArchiveFirstProofs

Acknowledged(h) == answer[h] # None /\ answer[h].status \in {"stored", "duplicate"}

\* A handler that is answered "stored" or "duplicate" by a step has its
\* envelope in the archive after the step.
LEMMA AckStep ==
  ASSUME TypeInv, ArchiveFirstInv, AckIsArchived, RequireEventHash, Adapter = "s3",
         NEW h \in Handlers, IngestStep(h), Grows,
         answer'[h] # None, answer'[h].status \in {"stored", "duplicate"}
  PROVE  env'[h] = env[h] /\ Archived(env[h]) /\ object'[Key(env[h])] = env[h]
  <1>. DEFINE e == env[h]
  <1>. USE DEF TypeInv, TypeOK, IngestTypeOK, ArchiveFirstInv, HandlerInv,
               At, Goto, SetAnswer, Report, ArchiveFirst
  <1>1. CASE answer'[h] = answer[h] /\ env'[h] = env[h]
    <2>1. e \in Envelopes /\ Archived(e)
      BY <1>1 DEF AckIsArchived, AnswerInv
    <2>. QED BY <1>1, <2>1, ArchivedStays
  <1>2. ASSUME pc[h] # "idle", env' = env, Archived(e)
        PROVE  env'[h] = e /\ Archived(e) /\ object'[Key(e)] = e
    BY <1>2, ArchivedStays
  <1>3. ASSUME pc[h] # "idle", env' = env, Exists(e.id), IsDuplicate(rows[e.id], e)
        PROVE  env'[h] = e /\ Archived(e) /\ object'[Key(e)] = e
    <2>1. /\ e \in Envelopes /\ HashesValid(e) /\ e.id \in EventIds
          /\ rows[e.id].raw \in Envelopes /\ HashesValid(rows[e.id].raw) /\ Archived(rows[e.id].raw)
      BY <1>3, EnvelopeFields DEF RowInv, LedgerTypeOK, Exists, Row
    <2>2. rows[e.id].raw = e
      BY <1>3, <2>1, SameHashesSameEnvelope DEF IsDuplicate
    <2>. QED BY <1>2, <1>3, <2>1, <2>2
  <1>4. CASE Lookup(h)
    <2>1. env' = env /\ pc[h] # "idle"
      BY <1>4 DEF Lookup
    <2>2. CASE AnswerConflict(h, rows[e.id])
      BY <2>2 DEF AnswerConflict
    <2>3. CASE AnswerDuplicate(h, rows[e.id]) /\ Exists(e.id)
      BY <2>1, <2>3, <1>3 DEF AnswerDuplicate
    <2>4. CASE answer' = answer
      BY <2>1, <2>4, <1>1
    <2>. QED BY <1>4, <2>2, <2>3, <2>4 DEF Lookup, HandleExisting, StoreAndMark
  <1>5. CASE Reread(h) \/ MarkRead(h)
    <2>1. pc[h] # "idle" /\ env' = env /\ Archived(e)
      BY <1>5 DEF Reread, MarkRead
    <2>. QED BY <2>1, <1>2
  <1>6. CASE \E f \in Envelopes : Begin(h, f)
    BY <1>6 DEF Begin
  <1>7. CASE Guard(h) \/ Object(h)
    BY <1>7, <1>1 DEF Guard, Object, GiveUpWrite
  <1>8. CASE Insert(h) \/ Cleanup(h) \/ Remove(h) \/ Mark(h) \/ RecordIt(h) \/ Fail(h)
    BY <1>8, <1>1 DEF Insert, Cleanup, Remove, Mark, RecordIt, Fail
  <1>9. CASE CallFails(h)
    BY <1>9, <1>1 DEF CallFails, LedgerFails, StorageFails, GiveUpWrite
  <1>10. CASE Crash(h)
    BY <1>10 DEF Crash
  <1>. QED BY <1>4, <1>5, <1>6, <1>7, <1>8, <1>9, <1>10 DEF IngestStep, IngestNext, Proceed

LEMMA AckKept ==
  ASSUME TypeInv, ArchiveFirstInv, AckIsArchived, RequireEventHash, Adapter = "s3", [Next]_vars
  PROVE  AckIsArchived'
  <1>1. ASSUME NEW h \in Handlers, IngestStep(h)  PROVE AckIsArchived'
    <2>1. Grows
      BY <1>1, IngestKeepsInv
    <2>2. ASSUME NEW g \in Handlers, answer'[g] # None, answer'[g].status \in {"stored", "duplicate"}
          PROVE  object'[Key(env'[g])] = env'[g]
      <3>1. CASE g = h
        BY <1>1, <2>1, <2>2, <3>1, AckStep
      <3>2. CASE g # h
        <4>1. env'[g] = env[g] /\ answer'[g] = answer[g]
          BY <1>1, <3>2, HandlerFrame
        <4>2. env[g] \in Envelopes /\ Archived(env[g])
          BY <2>2, <4>1 DEF AckIsArchived, ArchiveFirstInv, AnswerInv
        <4>. QED BY <4>1, <4>2, <2>1, ArchivedStays
      <3>. QED BY <3>1, <3>2
    <2>. QED BY <2>2 DEF AckIsArchived, Archived
  <1>2. CASE UNCHANGED <<archiveVars, handlerVars>>
    BY <1>2 DEF AckIsArchived, Archived, archiveVars, handlerVars
  <1>3. ASSUME NEW r \in Runners, RetentionStep(r)  PROVE UNCHANGED <<archiveVars, handlerVars>>
    BY <1>3, RetentionKeepsInv DEF RetentionStep
  <1>4. ASSUME ArchiveStep  PROVE AckIsArchived'
    <2>1. Grows /\ UNCHANGED handlerVars
      BY <1>4, ArriveKeepsInv DEF ArchiveStep, Arrive
    <2>2. ASSUME NEW h \in Handlers, answer[h] # None, answer[h].status \in {"stored", "duplicate"}
          PROVE  object'[Key(env[h])] = env[h]
      <3>1. env[h] \in Envelopes /\ Archived(env[h])
        BY <2>2 DEF AckIsArchived, ArchiveFirstInv, AnswerInv
      <3>. QED BY <3>1, <2>1, ArchivedStays
    <2>. QED BY <2>1, <2>2 DEF AckIsArchived, Archived, handlerVars
  <1>. QED BY <1>1, <1>2, <1>3, <1>4 DEF Next, ReplayStep, vars

\* A request that was answered "stored" or "duplicate" has its own envelope
\* in the archive, for good.
THEOREM AckTheorem ==
  ASSUME Adapter = "s3", RequireEventHash
  PROVE  Spec => []AckIsArchived
  <1>1. Init => AckIsArchived
    BY DEF Init, IngestInit, AckIsArchived
  <1>2. TypeInv /\ ArchiveFirstInv /\ AckIsArchived /\ [Next]_vars => AckIsArchived'
    BY AckKept
  <1>. QED BY ArchiveFirstCorrect, <1>1, <1>2, PTL DEF Spec

----------------------------------------------------------------------------
(* The service implements WriteOnce. *)

\* A handler has no answer before it decides.
Undecided ==
  \A h \in Handlers :
    pc[h] \in {"lookup", "insert", "reread", "guard", "object", "mark", "markread"}
      => answer[h] = None

LEMMA UndecidedStep ==
  ASSUME TypeInv, Undecided, [Next]_vars
  PROVE  Undecided'
  <1>. USE DEF Undecided
  <1>4. ASSUME ArchiveStep  PROVE UNCHANGED handlerVars
    BY <1>4 DEF ArchiveStep, Arrive
  <1>1. ASSUME NEW h \in Handlers, IngestStep(h)  PROVE Undecided'
    <2>1. \A g \in Handlers : g # h => pc'[g] = pc[g] /\ answer'[g] = answer[g]
      BY <1>1, HandlerFrame
    <2>2. pc'[h] \in {"lookup", "insert", "reread", "guard", "object", "mark", "markread"}
            => answer'[h] = None
      <3>. USE DEF TypeInv, TypeOK, IngestTypeOK, At, Goto, SetAnswer, Report
      <3>1. CASE \E e \in Envelopes : Begin(h, e)
        BY <3>1 DEF Begin
      <3>2. CASE Lookup(h) \/ Reread(h)
        BY <3>2 DEF Lookup, Reread, HandleExisting, AnswerConflict, AnswerDuplicate, StoreAndMark
      <3>3. CASE Insert(h) \/ Guard(h) \/ Object(h) \/ Cleanup(h) \/ Remove(h)
        BY <3>3 DEF Insert, Guard, Object, GiveUpWrite, Cleanup, Remove
      <3>4. CASE Mark(h) \/ MarkRead(h) \/ RecordIt(h) \/ Fail(h) \/ Crash(h)
        BY <3>4 DEF Mark, MarkRead, RecordIt, Fail, Crash
      <3>5. CASE CallFails(h)
        BY <3>5 DEF CallFails, LedgerFails, StorageFails, GiveUpWrite
      <3>. QED BY <1>1, <3>1, <3>2, <3>3, <3>4, <3>5 DEF IngestStep, IngestNext, Proceed
    <2>. QED BY <2>1, <2>2
  <1>2. CASE UNCHANGED handlerVars
    BY <1>2 DEF handlerVars
  <1>3. ASSUME NEW r \in Runners, RetentionStep(r)  PROVE UNCHANGED handlerVars
    BY <1>3 DEF RetentionStep
  <1>. QED BY <1>1, <1>2, <1>3, <1>4 DEF Next, ReplayStep, vars

Published == {e \in Envelopes : Archived(e)}
Told == [h \in Handlers |-> VerdictOf(answer[h])]
Abandoned == {p[2] : p \in late}

\* Writing an object publishes its envelope, unless the place was taken.
LEMMA WriteObjectPublishes ==
  ASSUME ArchiveTypeOK, NEW e \in Envelopes, WriteObject(e)
  PROVE  \/ object[Key(e)] = None /\ Published' = Published \cup {e}
         \/ object[Key(e)] # None /\ UNCHANGED Published
  <1>. USE DEF ArchiveTypeOK
  <1>1. CASE object[Key(e)] = None
    <2>1. ASSUME NEW f \in Envelopes
          PROVE  object'[Key(f)] = f <=> (object[Key(f)] = f \/ f = e)
      BY <1>1, EnvelopeFields DEF WriteObject
    <2>. QED BY <1>1, <2>1 DEF Published, Archived
  <1>2. CASE object[Key(e)] # None
    BY <1>2, EnvelopeFields DEF WriteObject, Published, Archived
  <1>. QED BY <1>1, <1>2

\* A put claims the event id, publishes its envelope or changes nothing.
LEMMA PutWork ==
  ASSUME TypeInv, ArchiveFirstInv, Adapter = "s3", NEW p, Puts(p)
  PROVE  /\ Promise!Claim(p[2]) \/ Promise!Publish(p[2]) \/ UNCHANGED <<Claims, Published>>
         /\ IsFree(p) => Promise!Claim(p[2]) \/ Promise!Publish(p[2])
         /\ Abandoned' \subseteq Abandoned
  <1>. DEFINE e == p[2]
  <1>. USE DEF TypeInv, TypeOK, ArchiveTypeOK
  <1>c. Claims = guard /\ Claims' = guard'
    BY DEF Claims, ArchiveFirst
  <1>e. /\ e \in Envelopes /\ e.id \in EventIds /\ Key(e) \in Keys /\ e # None
        /\ p[1] = "object" => guard[e.id] = e
    BY InFlightPuts, EnvelopeFields DEF Puts, ArchiveFirstInv
  <1>a. Abandoned' \subseteq Abandoned
    BY DEF Abandoned, Puts, StillLate
  <1>1. CASE p[1] = "guard" /\ WriteGuard(e) /\ UNCHANGED object
    <2>1. UNCHANGED Published
      BY <1>1 DEF Published, Archived
    <2>2. CASE guard[e.id] = None
      BY <1>1, <1>a, <1>c, <2>1, <2>2 DEF WriteGuard, Promise!Claim, Published
    <2>3. CASE guard[e.id] # None
      BY <1>1, <1>a, <1>c, <1>e, <2>1, <2>3 DEF WriteGuard, IsFree
    <2>. QED BY <2>2, <2>3
  <1>2. CASE p[1] = "object" /\ WriteObject(e) /\ UNCHANGED guard
    <2>1. guard[e.id] = e
      BY <1>2, <1>e
    <2>2. CASE object[Key(e)] = None /\ Published' = Published \cup {e}
      BY <1>2, <1>a, <1>c, <2>1, <2>2 DEF Promise!Publish, Published
    <2>3. CASE object[Key(e)] # None /\ UNCHANGED Published
      BY <1>2, <1>a, <1>c, <2>3 DEF IsFree
    <2>. QED BY <1>2, <1>e, <2>2, <2>3, WriteObjectPublishes
  <1>. QED BY <1>1, <1>2 DEF Puts

\* What a step of a handler does to the archive is a claim, a publication or
\* nothing, and it abandons its put only where no answer is given.
LEMMA ArchiveWork ==
  ASSUME TypeInv, ArchiveFirstInv, Adapter = "s3", NEW h \in Handlers, IngestStep(h),
         env[h] \in Envelopes
  PROVE  /\ Promise!Claim(env[h]) \/ Promise!Publish(env[h]) \/ UNCHANGED <<Claims, Published>>
         /\ \/ Abandoned' \subseteq Abandoned
            \/ /\ pc[h] \in {"guard", "object"} /\ Abandoned' \subseteq Abandoned \cup {env[h]}
               /\ StorageFails(h) \/ Crash(h)
  <1>. DEFINE e == env[h]
  <1>1. CASE UNCHANGED archiveVars
    BY <1>1 DEF Claims, ArchiveFirst, Published, Archived, Abandoned, archiveVars
  <1>2. CASE pc[h] \in {"guard", "object"} /\ Puts(<<pc[h], e>>)
    BY <1>2, PutWork
  <1>3. CASE pc[h] \in {"guard", "object"} /\ Abandon(<<pc[h], e>>) /\ (StorageFails(h) \/ Crash(h))
    BY <1>3 DEF Abandon, Claims, ArchiveFirst, Published, Archived, Abandoned
  <1>. QED BY <1>1, <1>2, <1>3, ArchiveSteps DEF ArchiveStepOf, ArchiveFirstInv

LEMMA AbandonAnswer ==
  ASSUME TypeInv, Undecided, NEW h \in Handlers, pc[h] \in {"guard", "object"},
         StorageFails(h) \/ Crash(h)
  PROVE  answer[h] = None /\ VerdictOf(answer'[h]) \in {None, "error"}
  BY IngestAssumption
  DEF TypeInv, TypeOK, IngestTypeOK, Undecided, StorageFails, GiveUpWrite, Crash, At, Report,
      SetAnswer, VerdictOf

\* A step changes its handler's answer by giving or withdrawing it.
LEMMA AnswerChange ==
  ASSUME TypeInv, Undecided, NEW h \in Handlers, IngestStep(h)
  PROVE  \/ \E e \in Envelopes : Begin(h, e)
         \/ /\ env[h] \in Envelopes /\ UNCHANGED env
            /\ answer'[h] = answer[h] \/ answer[h] = None \/ answer'[h] = None
  <1>. USE DEF TypeInv, TypeOK, IngestTypeOK, Busy, Undecided, At
  <1>1. CASE Lookup(h) \/ Insert(h) \/ Reread(h) \/ Guard(h) \/ Object(h) \/ Mark(h) \/ MarkRead(h)
    BY <1>1 DEF Lookup, Insert, Reread, Guard, Object, Mark, MarkRead
  <1>2. CASE Cleanup(h) \/ Remove(h) \/ RecordIt(h) \/ Fail(h)
    BY <1>2 DEF Cleanup, Remove, RecordIt, Fail
  <1>3. CASE CallFails(h)
    BY <1>3 DEF CallFails, LedgerFails, StorageFails
  <1>4. CASE Crash(h)
    BY <1>4 DEF Crash
  <1>. QED BY <1>1, <1>2, <1>3, <1>4 DEF IngestStep, IngestNext, Proceed

LEMMA ToldChange ==
  ASSUME TypeInv, NEW h \in Handlers, IngestStep(h)
  PROVE  Told' = [Told EXCEPT ![h] = VerdictOf(answer'[h])]
  BY HandlerFrame DEF Told, VerdictOf

\* A verdict given by a step is borne out by the state it is given in.
LEMMA VerdictIsTrue ==
  ASSUME TypeInv, ArchiveFirstInv, AckIsArchived, RequireEventHash, Adapter = "s3",
         NEW h \in Handlers, IngestStep(h), env[h] \in Envelopes, UNCHANGED env
  PROVE  /\ VerdictOf(answer'[h]) = "ok" => env[h] \in Published
         /\ VerdictOf(answer'[h]) = "conflict" => Claims[env[h].id] \notin {None, env[h]}
  <1>. DEFINE e == env[h]
  <1>1. Grows /\ HandlerAfter(h)
    BY IngestKeepsInv, HandlerStep
  <1>2. VerdictOf(answer'[h]) = "ok" => e \in Published
    BY <1>1, AckStep, VerdictAssumption DEF VerdictOf, Published
  <1>3. VerdictOf(answer'[h]) = "conflict" => guard'[e.id] \notin {None, e}
    BY <1>1, VerdictAssumption DEF VerdictOf, HandlerAfter
  <1>4. guard'[e.id] \notin {None, e} => guard[e.id] \notin {None, e}
    BY <1>1, EnvelopeFields, ArchiveSteps
    DEF ArchiveStepOf, Puts, Abandon, Grows, WriteGuard, archiveVars, ArchiveFirstInv, TypeInv, TypeOK, ArchiveTypeOK
  <1>. QED BY <1>2, <1>3, <1>4 DEF Claims, ArchiveFirst

LEMMA IngestKeepsPromise ==
  ASSUME TypeInv, ArchiveFirstInv, AckIsArchived, Undecided, RequireEventHash, Adapter = "s3",
         NEW h \in Handlers, IngestStep(h)
  PROVE  Promise!WNext
  <1>t. Told' = [Told EXCEPT ![h] = VerdictOf(answer'[h])]
    BY ToldChange
  <1>1. CASE \E e \in Envelopes : Begin(h, e)
    <2>1. PICK e \in Envelopes : Begin(h, e)
      BY <1>1
    <2>2. env' = [env EXCEPT ![h] = e] /\ UNCHANGED <<Claims, Published>>
      BY <2>1 DEF Begin, Claims, Exists, Published, Archived, archiveVars
    <2>3. VerdictOf(answer'[h]) \in {None, "error"}
      BY <2>1, IngestAssumption
      DEF Begin, SetAnswer, VerdictOf, TypeInv, TypeOK, IngestTypeOK
    <2>4. UNCHANGED Abandoned
      BY <2>1 DEF Begin, Abandoned, archiveVars
    <2>5. Promise!Ask(h, e)
      BY <1>t, <2>2, <2>3, <2>4 DEF Promise!Ask, Told, Published, Abandoned
    <2>. QED BY <2>5 DEF Promise!WNext
  <1>2. CASE /\ env[h] \in Envelopes /\ UNCHANGED env
             /\ answer'[h] = answer[h] \/ answer[h] = None \/ answer'[h] = None
    <2>. DEFINE v == VerdictOf(answer'[h])
    <2>1. Promise!Claim(env[h]) \/ Promise!Publish(env[h]) \/ UNCHANGED <<Claims, Published>>
      BY <1>2, ArchiveWork
    <2>2. v \in {"ok", "conflict", "error", None}
      BY DEF VerdictOf
    <2>3. CASE answer'[h] = answer[h] /\ Abandoned' \subseteq Abandoned
      <3>1. Told' = Told
        BY <1>t, <2>3 DEF Told
      <3>. QED BY <1>2, <2>1, <2>3, <3>1 DEF Promise!WNext, Promise!Work, Told, Published, Abandoned
    <2>4. CASE (answer[h] = None \/ answer'[h] = None) /\ Abandoned' \subseteq Abandoned
      <3>1. v # None => Told[h] = None
        BY <2>4 DEF VerdictOf, Told
      <3>2. Promise!Decide(h)
        BY <1>2, <1>t, <2>2, <2>4, <3>1, VerdictIsTrue, VerdictAssumption
        DEF Promise!Decide, Promise!Verdicts, Told, Published, Abandoned
      <3>. QED BY <1>2, <2>1, <3>2 DEF Promise!WNext, Promise!Work, Told, Published, Abandoned
    <2>5. CASE /\ pc[h] \in {"guard", "object"}
               /\ StorageFails(h) \/ Crash(h)
               /\ Abandoned' \subseteq Abandoned \cup {env[h]}
      <3>1. v \in {None, "error"} /\ Told[h] = None
        <4>1. answer[h] = None /\ v \in {None, "error"}
          BY <2>5, AbandonAnswer
        <4>. QED BY <4>1 DEF Told, VerdictOf
      <3>2. Promise!Decide(h)
        BY <1>2, <1>t, <2>5, <3>1, VerdictAssumption
        DEF Promise!Decide, Promise!Verdicts, Told, Published, Abandoned
      <3>. QED BY <1>2, <2>1, <3>2 DEF Promise!WNext, Promise!Work, Told, Published, Abandoned
    <2>. QED BY <1>2, <2>3, <2>4, <2>5, ArchiveWork
  <1>. QED BY <1>1, <1>2, AnswerChange

\* With the S3 adapter and checked event hashes, the service implements the
\* write-once store: the first envelope to claim an event id is the only one
\* ever archived under it, and every answer is true of the archive.
THEOREM PromiseTheorem ==
  ASSUME Adapter = "s3", RequireEventHash
  PROVE  Spec => KeepsPromise
  <1>1. Init => Promise!WInit
    BY EnvelopeFields
    DEF Init, ArchiveInit, IngestInit, Promise!WInit, Claims, ArchiveFirst, Archived, VerdictOf
  <1>2. Init => Undecided
    BY DEF Init, IngestInit, Undecided
  <1>3. /\ TypeInv /\ ArchiveFirstInv /\ AckIsArchived /\ Undecided /\ [Next]_vars
        => [Promise!WNext]_(Promise!wvars)
    <2>. SUFFICES ASSUME TypeInv, ArchiveFirstInv, AckIsArchived, Undecided, [Next]_vars
                  PROVE  Promise!WNext \/ UNCHANGED Promise!wvars
      OBVIOUS
    <2>1. ASSUME NEW h \in Handlers, IngestStep(h)  PROVE Promise!WNext
      BY <2>1, IngestKeepsPromise
    <2>2. CASE UNCHANGED <<archiveVars, handlerVars>>
      BY <2>2 DEF Promise!wvars, Claims, ArchiveFirst, Archived, archiveVars, handlerVars
    <2>3. ASSUME NEW r \in Runners, RetentionStep(r)  PROVE UNCHANGED <<archiveVars, handlerVars>>
      BY <2>3, RetentionKeepsInv DEF RetentionStep
    <2>4. ASSUME ArchiveStep  PROVE Promise!WNext
      <3>1. PICK p \in InFlight : Puts(p) /\ IsFree(p) /\ UNCHANGED handlerVars
        BY <2>4 DEF ArchiveStep, Arrive, Puts
      <3>2. /\ Promise!Claim(p[2]) \/ Promise!Publish(p[2])
            /\ Abandoned' \subseteq Abandoned
        BY <3>1, PutWork
      <3>3. UNCHANGED <<env, Told>>
        BY <3>1 DEF Told, handlerVars
      <3>4. CASE p \in late
        <4>1. p[2] \in Abandoned /\ p[2] \in Envelopes
          BY <3>4 DEF Abandoned, TypeInv, TypeOK, ArchiveTypeOK, Put
        <4>. QED BY <3>2, <3>3, <4>1 DEF Promise!WNext, Promise!Late, Told, Published, Abandoned
      <3>5. ASSUME NEW h \in Handlers, p = <<pc[h], env[h]>>, env[h] \in Envelopes
            PROVE  Promise!WNext
        BY <3>2, <3>3, <3>5 DEF Promise!WNext, Promise!Work, Told, Published, Abandoned
      <3>. QED BY <3>4, <3>5 DEF InFlight, TypeInv, Busy
    <2>. QED BY <2>1, <2>2, <2>3, <2>4 DEF Next, ReplayStep, vars
  <1>4. TypeInv /\ Undecided /\ [Next]_vars => Undecided'
    BY UndecidedStep
  <1>. QED
    BY ArchiveFirstCorrect, AckTheorem, <1>1, <1>2, <1>3, <1>4, PTL
    DEF Spec, KeepsPromise, Promise!WSpec

----------------------------------------------------------------------------
(* The filesystem adapter without retention: the ledger comes first.  Rows *)
(* and objects stay, guards may be taken back.                             *)

LedgerFirst == Adapter = "filesystem" /\ Runners = {} /\ RequireEventHash

LEMMA InitLedgerFirst == Init => LedgerFirstInv
  BY DEF Init, LedgerInit, ArchiveInit, IngestInit, LedgerFirstInv, ClaimInv, ClaimRowInv,
         ClaimantInv, TruthInv, Exists

\* What the service has recorded of an event stays recorded.
Records ==
  /\ \A i \in EventIds : Exists(i) => Exists(i)' /\ rows'[i].raw = rows[i].raw
  /\ \A k \in Keys : object[k] # None => object'[k] = object[k]

\* The row that a step leaves for an event id holds this envelope.
HeldThen(e) == rows'[e.id] # None /\ rows'[e.id].raw = e

LEMMA RecordedStays ==
  ASSUME Records, NEW e \in Envelopes
  PROVE  /\ Held(e) => HeldThen(e)
         /\ Exists(e.id) /\ ~Held(e) => rows'[e.id] # None /\ ~HeldThen(e)
         /\ Archived(e) => object'[Key(e)] = e
  BY EnvelopeFields DEF Records, Held, HeldThen, Exists, Archived

\* What a step of a request does to the archive.
ArchiveStepFs(h) ==
  \/ UNCHANGED archiveVars
  \/ pc[h] = "guard" /\ WriteGuard(env[h]) /\ UNCHANGED object /\ StillLate
  \/ pc[h] = "object" /\ WriteObject(env[h]) /\ UNCHANGED guard /\ StillLate
  \/ pc[h] = "remove" /\ guard' = [guard EXCEPT ![env[h].id] = None] /\ UNCHANGED <<object, late>>

LEMMA ArchiveStepsFs ==
  ASSUME NEW h \in Handlers, IngestStep(h), LedgerFirst
  PROVE  ArchiveStepFs(h)
  <1>1. ~ArchiveFirst
    BY DEF LedgerFirst, ArchiveFirst
  <1>2. HearsNoMore(h) => UNCHANGED archiveVars
    BY <1>1 DEF HearsNoMore
  <1>3. \/ UNCHANGED archiveVars \/ Guard(h) \/ Object(h) \/ Remove(h)
    BY <1>2 DEF IngestStep, IngestNext, Begin, Proceed, Lookup, Insert, Reread, Cleanup,
                Mark, MarkRead, RecordIt, Fail, CallFails, StorageFails, Crash
  <1>. QED BY <1>3 DEF Guard, Object, Remove, At, ArchiveStepFs

LEMMA RecordsStep ==
  ASSUME TypeInv, NEW h \in Handlers, IngestStep(h), LedgerFirst
  PROVE  Records
  <1>1. \A i \in EventIds : Exists(i) => Exists(i)' /\ rows'[i].raw = rows[i].raw
    BY RequestRows DEF ToRecord
  <1>2. \A k \in Keys : object[k] # None => object'[k] = object[k]
    BY ObjectsStay DEF Next
  <1>. QED BY <1>1, <1>2 DEF Records

\* Guards and objects are written for the row's envelope only.
LEMMA ClaimKept ==
  ASSUME TypeInv, LedgerFirstInv, NEW h \in Handlers, IngestStep(h), LedgerFirst
  PROVE  ClaimInv'
  <1>. USE DEF LedgerFirstInv, ClaimInv, TypeInv, TypeOK, ArchiveTypeOK
  <1>. DEFINE e == env[h]
  <1>1. late' = {}
    BY ArchiveStepsFs DEF ArchiveStepFs, StillLate, archiveVars
  <1>2. pc[h] \in {"guard", "object", "remove"} =>
          e \in Envelopes /\ e.id \in EventIds /\ Key(e) \in Keys /\ HeldThen(e)
    BY RecordsStep, RecordedStays, EnvelopeFields DEF ClaimantInv
  <1>3. ASSUME NEW i \in EventIds, guard'[i] # None
        PROVE  guard'[i].id = i /\ HeldThen(guard'[i])
    <2>1. CASE guard'[i] = guard[i]
      <3>1. guard[i] \in Envelopes
        BY <1>3, <2>1
      <3>2. HeldThen(guard[i])
        BY <1>3, <2>1, <3>1, RecordsStep, RecordedStays
      <3>. QED BY <1>3, <2>1, <3>2 DEF HeldThen
    <2>2. CASE guard'[i] # guard[i]
      <3>1. i = e.id /\ guard'[i] = e /\ pc[h] = "guard"
        BY <1>2, <1>3, <2>2, ArchiveStepsFs DEF ArchiveStepFs, WriteGuard, archiveVars
      <3>. QED BY <1>2, <3>1 DEF HeldThen
    <2>. QED BY <2>1, <2>2
  <1>4. ASSUME NEW k \in Keys, object'[k] # None
        PROVE  Key(object'[k]) = k /\ HeldThen(object'[k])
    <2>1. CASE object'[k] = object[k]
      <3>1. object[k] \in Envelopes
        BY <1>4, <2>1
      <3>2. HeldThen(object[k])
        BY <1>4, <2>1, <3>1, RecordsStep, RecordedStays
      <3>. QED BY <1>4, <2>1, <3>2 DEF HeldThen
    <2>2. CASE object'[k] # object[k]
      <3>1. k = Key(e) /\ object'[k] = e /\ pc[h] = "object"
        BY <1>2, <1>4, <2>2, ArchiveStepsFs DEF ArchiveStepFs, WriteObject, archiveVars
      <3>. QED BY <1>2, <3>1 DEF HeldThen
    <2>. QED BY <2>1, <2>2
  <1>. QED BY <1>1, <1>3, <1>4 DEF HeldThen, Held, Exists

LEMMA ClaimRowKept ==
  ASSUME TypeInv, LedgerFirstInv, NEW h \in Handlers, IngestStep(h), LedgerFirst
  PROVE  ClaimRowInv'
  <1>. USE DEF TypeInv, TypeOK, LedgerTypeOK, LedgerFirstInv, ClaimRowInv
  <1>1. SUFFICES ASSUME NEW i \in EventIds, rows'[i] # None
                 PROVE  /\ rows'[i].raw.id = i
                        /\ HashesValid(rows'[i].raw)
                        /\ rows'[i].status = "stored" =>
                             /\ rows'[i].uri = Key(rows'[i].raw)
                             /\ object'[Key(rows'[i].raw)] = rows'[i].raw
    BY DEF Exists, IsStored, Archived
  <1>2. CASE Exists(i)
    <2>1. rows[i] \in Row /\ rows[i].raw \in Envelopes /\ rows'[i].raw = rows[i].raw
      BY <1>2, RecordsStep DEF Exists, Row, Records
    <2>2. CASE rows'[i] = rows[i]
      BY <1>2, <2>1, <2>2, RecordsStep, RecordedStays DEF IsStored
    <2>3. CASE pc[h] = "mark" /\ i = env[h].id /\ rows'[i].uri = Key(env[h])
      <3>1. rows[i].raw = env[h] /\ Archived(env[h])
        BY <2>3 DEF ClaimantInv, Held
      <3>. QED BY <1>2, <2>1, <2>3, <3>1, RecordsStep, RecordedStays
    <2>. QED BY <1>1, <1>2, <2>1, <2>2, <2>3, StoredSteps
  <1>3. CASE ~Exists(i)
    <2>. HIDE DEF LedgerFirstInv, ClaimRowInv
    <2>1. /\ pc[h] = "insert" /\ env[h].id = i
          /\ rows'[i] = [cursor |-> nextCursor, raw |-> env[h], status |-> "received", uri |-> None]
      BY <1>1, <1>3, RequestRows DEF Exists
    <2>2. env[h].id = i /\ HashesValid(env[h])
      BY <2>1 DEF LedgerFirstInv, ClaimantInv
    <2>. QED BY <2>1, <2>2
  <1>. QED BY <1>2, <1>3

----------------------------------------------------------------------------

\* The row that a request with its event hash finds is its own.
LEMMA SameRow ==
  ASSUME TypeInv, ClaimRowInv, RequireEventHash, NEW e \in Envelopes, HashesValid(e), Exists(e.id)
  PROVE  /\ e.id \in EventIds /\ rows[e.id] \in Row /\ rows[e.id].raw \in Envelopes
         /\ rows[e.id].raw.eventSHA = e.eventSHA <=> Held(e)
         /\ SameHashes(rows[e.id].raw, e) <=> Held(e)
         /\ IsDuplicate(rows[e.id], e) => Archived(e)
  <1>1. e.id \in EventIds /\ rows[e.id] \in Row /\ rows[e.id].raw \in Envelopes
    BY EnvelopeFields DEF TypeInv, TypeOK, LedgerTypeOK, Exists, Row
  <1>2. HashesValid(rows[e.id].raw)
    BY <1>1 DEF ClaimRowInv
  <1>3. rows[e.id].raw.eventSHA = e.eventSHA => Held(e)
    <2>1. ASSUME rows[e.id].raw.eventSHA = e.eventSHA  PROVE SameHashes(rows[e.id].raw, e)
      BY <1>2, <2>1 DEF HashesValid, EventHash, SameHashes
    <2>. QED BY <1>1, <1>2, <2>1, SameHashesSameEnvelope DEF Held
  <1>4. Held(e) => SameHashes(rows[e.id].raw, e)
    BY DEF Held, SameHashes
  <1>5. IsDuplicate(rows[e.id], e) => Archived(e)
    <2>1. ASSUME IsDuplicate(rows[e.id], e)  PROVE IsStored(e.id) /\ Held(e)
      BY <1>3, <2>1 DEF IsDuplicate, SameHashes, IsStored
    <2>. QED BY <1>1, <2>1 DEF ClaimRowInv, Held
  <1>. QED BY <1>1, <1>3, <1>4, <1>5 DEF SameHashes, Held

\* What ClaimantInv and TruthInv say of one handler, after a step.
ClaimantAfter(h) ==
  /\ pc'[h] # "idle" => env'[h] \in Envelopes /\ HashesValid(env'[h])
  /\ pc'[h] = "reread" => rows'[env'[h].id] # None
  /\ pc'[h] \in {"guard", "object"} => inserted'[h]
  /\ pc'[h] \in {"guard", "object", "cleanup", "remove", "mark", "markread"} => HeldThen(env'[h])
  /\ pc'[h] \in {"mark", "markread"} => object'[Key(env'[h])] = env'[h]
  /\ answer'[h] # None =>
       /\ env'[h] \in Envelopes
       /\ answer'[h].status = "hash_conflict" => rows'[env'[h].id] # None /\ ~HeldThen(env'[h])
       /\ answer'[h].status \in {"stored", "duplicate"} => object'[Key(env'[h])] = env'[h]

LEMMA ClaimantStep ==
  ASSUME TypeInv, LedgerFirstInv, NEW h \in Handlers, IngestStep(h), LedgerFirst
  PROVE  ClaimantAfter(h)
  <1>. USE DEF TypeInv, TypeOK, IngestTypeOK, LedgerFirstInv, ClaimantInv, TruthInv, ClaimantAfter,
               At, Goto, SetAnswer, Report
  <1>. DEFINE e == env[h]
  <1>l. ~ArchiveFirst /\ RequireEventHash
    BY DEF LedgerFirst, ArchiveFirst
  <1>e. env[h] \in Envelopes =>
          /\ e.id \in EventIds /\ Key(e) \in Keys /\ e # None
          /\ Held(e) => HeldThen(e)
          /\ Exists(e.id) => rows'[e.id] # None
          /\ Exists(e.id) /\ ~Held(e) => ~HeldThen(e)
          /\ Archived(e) => object'[Key(e)] = e
    BY EnvelopeFields, RecordsStep, RecordedStays DEF Held, HeldThen
  <1>a. \A s, u : [status |-> s, uri |-> u] = None => s \notin AnswerStatus \/ u \notin Keys \cup {None}
    BY IngestAssumption DEF Answer
  <1>r. pc[h] # "idle" /\ Exists(e.id) =>
          /\ rows[e.id] \in Row /\ rows[e.id].uri \in Keys \cup {None}
          /\ rows[e.id].raw.eventSHA = e.eventSHA <=> Held(e)
          /\ SameHashes(rows[e.id].raw, e) <=> Held(e)
          /\ IsDuplicate(rows[e.id], e) => Archived(e)
    BY <1>l, SameRow DEF Row
  <1>x. ASSUME pc[h] # "idle", Exists(e.id), HandleExisting(h, rows[e.id]), env' = env
        PROVE  ClaimantAfter(h)
    <2>1. CASE AnswerConflict(h, rows[e.id])
      BY <1>x, <1>e, <1>r, <1>a, <2>1 DEF AnswerConflict, AnswerStatus
    <2>2. CASE AnswerDuplicate(h, rows[e.id])
      BY <1>x, <1>e, <1>r, <1>a, <2>2 DEF AnswerDuplicate, AnswerStatus
    <2>3. CASE SameHashes(rows[e.id].raw, e) /\ StoreAndMark(h)
      BY <1>x, <1>e, <1>r, <2>3 DEF StoreAndMark
    <2>. QED BY <1>x, <2>1, <2>2, <2>3 DEF HandleExisting
  <1>1. CASE \E f \in Envelopes : Begin(h, f)
    BY <1>1, <1>a DEF Begin, AnswerStatus
  <1>2. CASE Lookup(h)
    BY <1>2, <1>l, <1>e, <1>x DEF Lookup
  <1>3. CASE Insert(h)
    <2>1. rows'[e.id] # None
      <3>1. CASE Exists(e.id)
        BY <1>3, <1>e, <3>1 DEF Insert
      <3>2. CASE ~Exists(e.id)
        <4>1. rows'[e.id] = [cursor |-> nextCursor, raw |-> e, status |-> "received", uri |-> None]
          BY <1>3, <1>e, <3>2 DEF Insert, InsertReceived, LedgerTypeOK
        <4>2. nextCursor \in 1..MaxCursor
          BY <1>3, <3>2, LedgerAssumption DEF Insert, CanInsert, LedgerTypeOK
        <4>. QED BY <1>3, <1>e, <4>1, <4>2, LedgerAssumption DEF Insert, Row
      <3>. QED BY <3>1, <3>2
    <2>. QED BY <1>3, <1>e, <2>1 DEF Insert
  <1>4. CASE Reread(h)
    <2>1. Exists(e.id) /\ rows[e.id] # None /\ pc[h] # "idle" /\ env' = env
      BY <1>4 DEF Reread, Exists
    <2>2. CASE HandleExisting(h, rows[e.id])
      BY <1>x, <2>1, <2>2
    <2>3. CASE rows[e.id].raw.eventSHA = e.eventSHA /\ StoreAndMark(h)
      BY <1>4, <1>e, <1>r, <2>1, <2>3 DEF StoreAndMark
    <2>. QED BY <1>4, <1>l, <2>1, <2>2, <2>3 DEF Reread
  <1>5. CASE Guard(h)
    <2>1. GuardAccepts(e)
      BY <1>5, <1>e DEF Guard, GuardAccepts, ClaimInv, Held
    <2>. QED BY <1>5, <1>e, <2>1 DEF Guard
  <1>6. CASE Object(h)
    <2>1. ObjectAccepts(e)
      BY <1>6, <1>e DEF Object, ObjectAccepts, ClaimInv, Held, Key
    <2>2. object'[Key(e)] = e
      BY <1>6, <1>e, <2>1 DEF Object, WriteObject, ObjectAccepts, ArchiveTypeOK
    <2>. QED BY <1>6, <1>e, <2>1, <2>2 DEF Object
  <1>7. CASE Cleanup(h) \/ Remove(h)
    BY <1>7, <1>e DEF Cleanup, Remove
  <1>8. CASE Mark(h)
    BY <1>8, <1>e DEF Mark
  <1>9. CASE MarkRead(h)
    BY <1>9, <1>e, <1>r, <1>a DEF MarkRead, AnswerStatus
  <1>10. CASE RecordIt(h) \/ Fail(h)
    BY <1>10, <1>e DEF RecordIt, Fail
  <1>11. CASE CallFails(h)
    BY <1>11, <1>e, <1>a DEF CallFails, LedgerFails, StorageFails, GiveUpWrite, AnswerStatus
  <1>12. CASE Crash(h)
    BY <1>12 DEF Crash
  <1>. QED
    BY <1>1, <1>2, <1>3, <1>4, <1>5, <1>6, <1>7, <1>8, <1>9, <1>10, <1>11, <1>12
    DEF IngestStep, IngestNext, Proceed

LEMMA RequestKeepsLedgerFirst ==
  ASSUME TypeInv, LedgerFirstInv, NEW h \in Handlers, IngestStep(h), LedgerFirst
  PROVE  LedgerFirstInv'
  <1>1. \A g \in Handlers : ClaimantAfter(g)
    <2>1. ASSUME NEW g \in Handlers, g # h  PROVE ClaimantAfter(g)
      <3>1. /\ pc'[g] = pc[g] /\ env'[g] = env[g] /\ answer'[g] = answer[g]
            /\ inserted'[g] = inserted[g]
        BY <2>1, HandlerFrame
      <3>2. env[g] \in Envelopes =>
              /\ Held(env[g]) => HeldThen(env[g])
              /\ Exists(env[g].id) => rows'[env[g].id] # None
              /\ Exists(env[g].id) /\ ~Held(env[g]) => ~HeldThen(env[g])
              /\ Archived(env[g]) => object'[Key(env[g])] = env[g]
        BY RecordsStep, RecordedStays DEF Held, HeldThen
      <3>. QED BY <3>1, <3>2 DEF ClaimantAfter, LedgerFirstInv, ClaimantInv, TruthInv
    <2>. QED BY <2>1, ClaimantStep
  <1>2. ClaimantInv' /\ TruthInv'
    BY <1>1 DEF ClaimantAfter, ClaimantInv, TruthInv, Held, HeldThen, Exists, Archived
  <1>. QED BY <1>2, ClaimKept, ClaimRowKept DEF LedgerFirstInv

\* No put is late and nothing is retained: requests and consumers are all that
\* steps.
LEMMA StepsFs ==
  ASSUME LedgerFirst, [Next]_vars
  PROVE  \/ \E h \in Handlers : IngestStep(h)
         \/ UNCHANGED <<ledgerVars, archiveVars, handlerVars>>
  BY DEF LedgerFirst, Next, ArchiveStep, Arrive, ArchiveFirst, ReplayStep, vars

LEMMA LedgerFirstStep ==
  ASSUME TypeInv, LedgerFirstInv, LedgerFirst, [Next]_vars
  PROVE  LedgerFirstInv'
  <1>1. CASE UNCHANGED <<ledgerVars, archiveVars, handlerVars>>
    BY <1>1 DEF LedgerFirstInv, ClaimInv, ClaimRowInv, ClaimantInv, TruthInv, Held, Exists, IsStored,
                Archived, ledgerVars, archiveVars, handlerVars
  <1>. QED BY <1>1, StepsFs, RequestKeepsLedgerFirst

\* The invariant of the ledger-first order holds in every state, for any number
\* of requests, while nothing is retained.
THEOREM LedgerFirstCorrect ==
  ASSUME LedgerFirst
  PROVE  Spec => [](TypeInv /\ LedgerFirstInv)
  <1>1. TypeInv /\ LedgerFirstInv /\ [Next]_vars => (TypeInv /\ LedgerFirstInv)'
    BY LedgerFirstStep, TypeStep
  <1>. QED BY InitTypes, InitLedgerFirst, <1>1, PTL DEF Spec

\* The directory never holds two objects for one event id, although guards are
\* taken back: the row outlives them.
THEOREM OneEnvelopeFsTheorem ==
  ASSUME LedgerFirst
  PROVE  Spec => []OneEnvelopePerEvent
  <1>1. LedgerFirstInv => OneEnvelopePerEvent
    BY DEF LedgerFirstInv, ClaimInv, Held, OneEnvelopePerEvent
  <1>. QED BY LedgerFirstCorrect, <1>1, PTL

\* A row marked stored names the file that holds its raw envelope, although it
\* was inserted before the file was written.
THEOREM StoredFsTheorem ==
  ASSUME LedgerFirst
  PROVE  Spec => []StoredIsArchived
  <1>1. TypeInv /\ LedgerFirstInv => StoredIsArchived
    <2>1. ASSUME TypeInv, LedgerFirstInv, NEW i \in EventIds, IsStored(i)
          PROVE  rows[i].uri # None /\ object[rows[i].uri] = rows[i].raw
      <3>1. rows[i].raw \in Envelopes /\ rows[i].uri = Key(rows[i].raw) /\ Archived(rows[i].raw)
        BY <2>1 DEF LedgerFirstInv, ClaimRowInv, IsStored, Exists, TypeInv, TypeOK, LedgerTypeOK, Row
      <3>. QED BY <3>1, EnvelopeFields DEF Archived
    <2>. QED BY <2>1 DEF StoredIsArchived
  <1>. QED BY LedgerFirstCorrect, <1>1, PTL

\* With the filesystem adapter too, who was answered "stored" or "duplicate" has
\* its own envelope in the archive, and who was answered "hash_conflict" never
\* gets it there.
THEOREM AnswersFsTheorem ==
  ASSUME LedgerFirst
  PROVE  Spec => [](AckIsArchived /\ ConflictIsNotArchived)
  <1>1. TypeInv /\ LedgerFirstInv => AckIsArchived
    BY DEF LedgerFirstInv, TruthInv, AckIsArchived
  <1>2. TypeInv /\ LedgerFirstInv => ConflictIsNotArchived
    <2>1. ASSUME LedgerFirstInv, NEW e \in Envelopes, Archived(e)  PROVE Held(e)
      BY <2>1, EnvelopeFields DEF LedgerFirstInv, ClaimInv, Archived
    <2>. QED BY <2>1 DEF LedgerFirstInv, TruthInv, ConflictIsNotArchived
  <1>. QED BY LedgerFirstCorrect, <1>1, <1>2, PTL

LEMMA AuditKeptFs ==
  ASSUME TypeInv, LedgerFirstInv, AuditIsArchived, LedgerFirst, [Next]_vars
  PROVE  AuditIsArchived'
  <1>1. DecidedIsArchived
    BY DEF LedgerFirstInv, TruthInv, DecidedIsArchived, EventArchived
  <1>2. \A i : EventArchived(i) => \E e \in Envelopes : e.id = i /\ object'[Key(e)] = e
    BY ObjectsStay, EnvelopeFields DEF EventArchived, Archived
  <1>3. ASSUME NEW i \in EventIds, NEW s \in {"stored", "duplicate"}, <<i, s>> \in attempts'
        PROVE  EventArchived(i)
    <2>1. CASE <<i, s>> \in attempts
      BY <2>1 DEF AuditIsArchived, EventArchived
    <2>2. CASE <<i, s>> \notin attempts
      BY <1>1, <1>3, <2>2, StepsFs, AttemptIsDecided DEF ledgerVars
    <2>. QED BY <2>1, <2>2
  <1>. QED BY <1>2, <1>3 DEF AuditIsArchived, Archived

\* A "stored" or "duplicate" in the attempt log is for an archived event id with
\* the filesystem adapter too, although there the row comes before the file.
THEOREM AuditFsTheorem ==
  ASSUME LedgerFirst
  PROVE  Spec => []AuditIsArchived
  <1>1. Init => AuditIsArchived
    BY DEF Init, LedgerInit, AuditIsArchived
  <1>2. TypeInv /\ LedgerFirstInv /\ AuditIsArchived /\ [Next]_vars => AuditIsArchived'
    BY AuditKeptFs
  <1>. QED BY LedgerFirstCorrect, <1>1, <1>2, PTL DEF Spec

\* With the filesystem adapter too, consumers are served what the archive holds,
\* as long as nothing is retained: rows that are not archived yet are not served.
THEOREM DeliveredFsTheorem ==
  ASSUME LedgerFirst
  PROVE  Spec => []DeliveredIsArchived
  <1>1. Init => DeliveredIsArchived
    BY DEF Init, ReplayInit, DeliveredIsArchived
  <1>2. LedgerFirstInv => StoredRowsArchived
    BY DEF LedgerFirstInv, ClaimRowInv, StoredRowsArchived, IsStored
  <1>3. TypeInv /\ StoredRowsArchived /\ DeliveredIsArchived /\ [Next]_vars => DeliveredIsArchived'
    BY DeliveredKept
  <1>. QED BY LedgerFirstCorrect, <1>1, <1>2, <1>3, PTL DEF Spec

----------------------------------------------------------------------------
(* With the filesystem adapter too, the service implements WriteOnce.      *)

\* A request claims its event id with its row, publishes under its own claim or
\* changes neither.
LEMMA WorkFs ==
  ASSUME TypeInv, LedgerFirstInv, NEW h \in Handlers, IngestStep(h), LedgerFirst
  PROVE  /\ pc[h] # "idle" => \/ Promise!Claim(env[h]) \/ Promise!Publish(env[h])
                              \/ UNCHANGED <<Claims, Published>>
         /\ pc[h] = "idle" => UNCHANGED <<Claims, Published>>
         /\ Abandoned = {} /\ Abandoned' = {}
  <1>. DEFINE e == env[h]
  <1>c. /\ Claims = [i \in EventIds |-> IF Exists(i) THEN rows[i].raw ELSE None]
        /\ Claims' = [i \in EventIds |-> IF rows'[i] # None THEN rows'[i].raw ELSE None]
    BY DEF Claims, LedgerFirst, ArchiveFirst, Exists
  <1>e. pc[h] # "idle" => e \in Envelopes /\ e.id \in EventIds /\ Key(e) \in Keys
    BY EnvelopeFields DEF LedgerFirstInv, ClaimantInv
  <1>a. Abandoned = {} /\ Abandoned' = {}
    BY ClaimKept DEF Abandoned, LedgerFirstInv, ClaimInv
  <1>r. \A i \in EventIds : /\ rows[i] # None => rows'[i] # None /\ rows'[i].raw = rows[i].raw
                            /\ rows[i] = None /\ rows'[i] # None =>
                                 pc[h] = "insert" /\ i = e.id /\ rows'[i].raw = e
    <2>1. ASSUME NEW i \in EventIds, ~Exists(i), Exists(i)'
          PROVE  pc[h] = "insert" /\ i = e.id /\ rows'[i].raw = e
      <3>1. /\ pc[h] = "insert" /\ env[h].id = i
            /\ rows'[i] = [cursor |-> nextCursor, raw |-> env[h], status |-> "received", uri |-> None]
        BY <2>1, RequestRows
      <3>. QED BY <3>1
    <2>. QED BY <2>1, RecordsStep DEF Records, Exists
  <1>1. CASE pc[h] = "insert" /\ rows[e.id] = None /\ rows'[e.id] # None
    <2>1. Claims[e.id] = None /\ Claims' = [Claims EXCEPT ![e.id] = e]
      BY <1>1, <1>c, <1>e, <1>r DEF Exists
    <2>2. UNCHANGED Published
      BY <1>1, ArchiveStepsFs DEF ArchiveStepFs, Published, Archived, archiveVars
    <2>. QED BY <1>1, <1>a, <2>1, <2>2 DEF Promise!Claim, Published
  <1>2. CASE ~(pc[h] = "insert" /\ rows[e.id] = None /\ rows'[e.id] # None)
    <2>1. UNCHANGED Claims
      BY <1>2, <1>c, <1>r DEF Exists
    <2>2. CASE pc[h] = "object" /\ WriteObject(e)
      <3>1. Claims[e.id] = e
        BY <1>c, <1>e, <2>2 DEF LedgerFirstInv, ClaimantInv, Held
      <3>. QED BY <1>a, <1>e, <2>1, <2>2, <3>1, WriteObjectPublishes
               DEF Promise!Publish, Published, TypeInv, TypeOK
    <2>3. CASE UNCHANGED object
      BY <1>a, <2>1, <2>3 DEF Published, Archived
    <2>. QED BY <2>2, <2>3, ArchiveStepsFs DEF ArchiveStepFs, archiveVars
  <1>. QED BY <1>1, <1>2

\* An answer is true of the state it is given in.
LEMMA VerdictIsTrueFs ==
  ASSUME TypeInv, LedgerFirstInv, LedgerFirst, NEW h \in Handlers, IngestStep(h),
         env[h] \in Envelopes, UNCHANGED env, answer'[h] # answer[h], answer'[h] # None
  PROVE  /\ answer'[h].status \in {"stored", "duplicate"} => env[h] \in Published
         /\ answer'[h].status = "hash_conflict" => Exists(env[h].id) /\ ~Held(env[h])
  <1>. DEFINE e == env[h]
  <1>. USE DEF TypeInv, TypeOK, IngestTypeOK, At, Goto, SetAnswer, Report
  <1>i. pc[h] # "idle" => HashesValid(e)
    BY DEF LedgerFirstInv, ClaimantInv
  <1>r. pc[h] # "idle" /\ Exists(e.id) =>
          /\ SameHashes(rows[e.id].raw, e) <=> Held(e)
          /\ IsDuplicate(rows[e.id], e) => Archived(e)
    BY <1>i, SameRow DEF LedgerFirst, LedgerFirstInv
  <1>1. ASSUME pc[h] # "idle", Exists(e.id), HandleExisting(h, rows[e.id])
        PROVE  /\ answer'[h].status \in {"stored", "duplicate"} => e \in Published
               /\ answer'[h].status = "hash_conflict" => Exists(e.id) /\ ~Held(e)
    BY <1>1, <1>r
    DEF HandleExisting, AnswerConflict, AnswerDuplicate, StoreAndMark, Published
  <1>2. CASE Lookup(h)
    BY <1>1, <1>2 DEF Lookup
  <1>3. CASE Reread(h)
    <2>1. Exists(e.id) /\ rows[e.id] # None /\ pc[h] # "idle"
      BY <1>3 DEF Reread, Exists, LedgerFirstInv, ClaimantInv
    <2>. QED BY <1>1, <1>3, <2>1 DEF Reread, StoreAndMark, LedgerFirst, ArchiveFirst
  <1>4. CASE Guard(h)
    <2>1. GuardAccepts(e)
      BY <1>4, EnvelopeFields DEF Guard, GuardAccepts, LedgerFirstInv, ClaimInv, ClaimantInv, Held
    <2>. QED BY <1>4, <2>1 DEF Guard
  <1>5. CASE Object(h)
    <2>1. ObjectAccepts(e)
      BY <1>5, EnvelopeFields DEF Object, ObjectAccepts, LedgerFirstInv, ClaimInv, ClaimantInv, Held, Key
    <2>. QED BY <1>5, <2>1 DEF Object
  <1>6. CASE MarkRead(h)
    <2>1. Archived(e)
      BY <1>6 DEF MarkRead, LedgerFirstInv, ClaimantInv
    <2>. QED BY <1>6, <2>1 DEF MarkRead, Published
  <1>7. CASE Insert(h) \/ Cleanup(h) \/ Remove(h) \/ Mark(h) \/ RecordIt(h) \/ Fail(h)
    BY <1>7 DEF Insert, Cleanup, Remove, Mark, RecordIt, Fail
  <1>8. CASE CallFails(h) \/ Crash(h) \/ \E f \in Envelopes : Begin(h, f)
    BY <1>8 DEF CallFails, LedgerFails, StorageFails, GiveUpWrite, Crash, Begin
  <1>. QED BY <1>2, <1>3, <1>4, <1>5, <1>6, <1>7, <1>8 DEF IngestStep, IngestNext, Proceed

LEMMA RequestKeepsPromiseFs ==
  ASSUME TypeInv, LedgerFirstInv, Undecided, LedgerFirst, NEW h \in Handlers, IngestStep(h)
  PROVE  Promise!WNext
  <1>t. Told' = [Told EXCEPT ![h] = VerdictOf(answer'[h])]
    BY ToldChange
  <1>w. /\ pc[h] # "idle" => \/ Promise!Claim(env[h]) \/ Promise!Publish(env[h])
                             \/ UNCHANGED <<Claims, Published>>
        /\ pc[h] = "idle" => UNCHANGED <<Claims, Published>>
        /\ Abandoned = {} /\ Abandoned' = {}
    BY WorkFs
  <1>1. CASE \E e \in Envelopes : Begin(h, e)
    <2>1. PICK e \in Envelopes : Begin(h, e)
      BY <1>1
    <2>2. env' = [env EXCEPT ![h] = e] /\ UNCHANGED <<Claims, Published>>
      BY <1>w, <2>1 DEF Begin, At
    <2>3. VerdictOf(answer'[h]) \in {None, "error"}
      BY <2>1, IngestAssumption
      DEF Begin, SetAnswer, VerdictOf, TypeInv, TypeOK, IngestTypeOK
    <2>4. Promise!Ask(h, e)
      BY <1>t, <1>w, <2>2, <2>3 DEF Promise!Ask, Told, Published, Abandoned
    <2>. QED BY <2>4 DEF Promise!WNext
  <1>2. CASE /\ env[h] \in Envelopes /\ UNCHANGED env
             /\ answer'[h] = answer[h] \/ answer[h] = None \/ answer'[h] = None
    <2>. DEFINE v == VerdictOf(answer'[h])
    <2>1. Promise!Claim(env[h]) \/ Promise!Publish(env[h]) \/ UNCHANGED <<Claims, Published>>
      BY <1>w
    <2>2. CASE answer'[h] = answer[h]
      <3>1. Told' = Told
        BY <1>t, <2>2 DEF Told
      <3>. QED BY <1>2, <1>w, <2>1, <3>1 DEF Promise!WNext, Promise!Work, Told, Published, Abandoned
    <2>3. CASE answer'[h] # answer[h]
      <3>1. v \in {"ok", "conflict", "error", None} /\ (v # None => Told[h] = None)
        BY <1>2, <2>3 DEF VerdictOf, Told
      <3>2. /\ v = "ok" => answer'[h] # None /\ answer'[h].status \in {"stored", "duplicate"}
            /\ v = "conflict" => answer'[h] # None /\ answer'[h].status = "hash_conflict"
        BY VerdictAssumption DEF VerdictOf
      <3>3. /\ v = "ok" => env[h] \in Published
            /\ v = "conflict" => Exists(env[h].id) /\ ~Held(env[h])
        BY <1>2, <2>3, <3>2, VerdictIsTrueFs
      <3>4. v = "conflict" => Claims[env[h].id] \notin {None, env[h]}
        <4>1. ASSUME Exists(env[h].id), ~Held(env[h])
              PROVE  rows[env[h].id].raw \notin {None, env[h]}
          BY <1>2, <4>1, EnvelopeFields
          DEF Held, Exists, TypeInv, TypeOK, LedgerTypeOK, Row
        <4>. QED BY <1>2, <3>3, <4>1, EnvelopeFields DEF Claims, LedgerFirst, ArchiveFirst
      <3>5. Promise!Decide(h)
        BY <1>2, <1>t, <1>w, <3>1, <3>3, <3>4, VerdictAssumption
        DEF Promise!Decide, Promise!Verdicts, Told, Published, Abandoned
      <3>. QED BY <1>2, <2>1, <3>5 DEF Promise!WNext, Promise!Work, Told, Published, Abandoned
    <2>. QED BY <2>2, <2>3
  <1>. QED BY <1>1, <1>2, AnswerChange

\* With the filesystem adapter and checked event hashes, and while nothing is
\* retained, the service implements the write-once store as well: the first
\* envelope to get a row is the only one ever archived under its event id.
THEOREM PromiseFsTheorem ==
  ASSUME LedgerFirst
  PROVE  Spec => KeepsPromise
  <1>1. Init => Promise!WInit
    BY EnvelopeFields
    DEF Init, LedgerInit, ArchiveInit, IngestInit, Promise!WInit, Claims, ArchiveFirst, Exists,
        Archived, VerdictOf
  <1>2. Init => Undecided
    BY DEF Init, IngestInit, Undecided
  <1>3. TypeInv /\ LedgerFirstInv /\ Undecided /\ [Next]_vars => [Promise!WNext]_(Promise!wvars)
    <2>1. ASSUME UNCHANGED <<ledgerVars, archiveVars, handlerVars>>  PROVE UNCHANGED Promise!wvars
      BY <2>1 DEF Promise!wvars, Claims, ArchiveFirst, Exists, Archived, ledgerVars, archiveVars,
                  handlerVars
    <2>. QED BY <2>1, StepsFs, RequestKeepsPromiseFs
  <1>4. TypeInv /\ Undecided /\ [Next]_vars => Undecided'
    BY UndecidedStep
  <1>. QED
    BY LedgerFirstCorrect, <1>1, <1>2, <1>3, <1>4, PTL DEF Spec, KeepsPromise, Promise!WSpec

=============================================================================
