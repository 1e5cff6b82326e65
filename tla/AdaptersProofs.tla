-------------------------- MODULE AdaptersProofs ----------------------------
(***************************************************************************)
(* Either storage adapter, call by call, implements the atomic writes of   *)
(* RawWrites that Ingest is built on: for any number of writers and any    *)
(* envelopes.                                                              *)
(***************************************************************************)
EXTENDS Adapters, TLAPS

\* The file system: a file gets its name only after its data is on disk, and a
\* call takes a guard back only if it made it.
FileWriter(w) ==
  /\ step[w] = "link" => synced[w]
  /\ step[w] # "away" /\ part[w] = "guard" => ~made[w]
  /\ step[w] \in {"check", "remove"} => part[w] = "object" /\ made[w]
  /\ ~resent[w]
FileInv == unsynced = {} /\ orphans = {} /\ \A w \in Writers : FileWriter(w)

\* S3: a put that is on its way has a caller that still waits for the place, or
\* would still find it free; "created" is said of what is there.
IsVacant(o) == store[Place(o[1], o[2])] = None
PutWriter(w) ==
  /\ ~made[w]
  /\ resent[w] => step[w] \in {"wait", "read"}
  /\ step[w] = "wait" /\ reply[w] = "created" => Found(w) = text[w]
PutInv == unsynced = {} /\ (\A o \in orphans : IsVacant(o)) /\ \A w \in Writers : PutWriter(w)

BusyText == \A w \in Writers : step[w] # "away" => text[w] \in Envelopes

AdapterInv ==
  /\ TypeOK /\ BusyText
  /\ adapter = "filesystem" => FileInv
  /\ adapter = "s3" => PutInv

LEMMA PlaceTypes ==
  ASSUME NEW e \in Envelopes
  PROVE  /\ e.id \in EventIds /\ Key(e) \in Keys /\ e # None /\ e # Torn
         /\ <<"guard", e.id>> \in Places /\ <<"object", Key(e)>> \in Places
         /\ Place("guard", e) = <<"guard", e.id>> /\ Place("object", e) = <<"object", Key(e)>>
         /\ \A p \in Parts : Place(p, e) \in Places
  <1>1. e.id \in EventIds /\ Key(e) \in Keys
    BY EnvelopeAssumption DEF Keys
  <1>2. e # None /\ e # Torn
    BY EnvelopeAssumption, AdaptersAssumption
  <1>3. <<"guard", e.id>> \in Places /\ <<"object", Key(e)>> \in Places
    BY <1>1 DEF Places
  <1>4. Place("guard", e) = <<"guard", e.id>> /\ Place("object", e) = <<"object", Key(e)>>
    BY DEF Place
  <1>. QED BY <1>1, <1>2, <1>3, <1>4 DEF Parts

LEMMA InitAdapter == Init => AdapterInv
  BY DEF Init, AdapterInv, TypeOK, BusyText, FileInv, FileWriter, PutInv, PutWriter, Parts,
         FileSteps, PutSteps

LEMMA EnterKeeps ==
  ASSUME AdapterInv, NEW w \in Writers, NEW e \in Envelopes, Enter(w, e), UNCHANGED adapter
  PROVE  AdapterInv'
  <1>. USE DEF AdapterInv, TypeOK, At, Goto, FirstStep, Enter, wireVars
  <1>1. TypeOK'
    BY DEF Parts, FileSteps, PutSteps
  <1>2. BusyText'
    BY DEF BusyText
  <1>3. adapter = "filesystem" => FileInv'
    BY DEF FileInv, FileWriter
  <1>4. adapter = "s3" => PutInv'
    BY DEF PutInv, PutWriter, IsVacant, Found, Here
  <1>. QED BY <1>1, <1>2, <1>3, <1>4

\* Where Written, NotWritten and Compare lead.
Leads(w) ==
  \/ Written(w)
  \/ \E r \in {"conflict", "error"} : NotWritten(w, r)

Steps == {"away"} \cup IF adapter = "s3" THEN PutSteps ELSE FileSteps
Results == {None, "ok", "conflict", "error"}

LEMMA LeadsOn ==
  ASSUME TypeOK, NEW w \in Writers, Leads(w), made[w] => adapter = "filesystem"
  PROVE  /\ step' \in [Writers -> Steps] /\ part' \in [Writers -> Parts]
         /\ result' \in [Writers -> Results]
         /\ \A v \in Writers \ {w} : /\ step'[v] = step[v] /\ part'[v] = part[v]
                                     /\ result'[v] = result[v]
         /\ step'[w] \in {"away", FirstStep, "check"}
         /\ step'[w] # "away" => part'[w] = "object"
         /\ step'[w] = "check" => made[w] /\ part[w] = "object"
  <1>. USE DEF TypeOK, FirstStep, Goto, Return, Parts, FileSteps, PutSteps, Steps, Results
  <1>1. CASE Written(w)
    BY <1>1 DEF Written
  <1>2. CASE \E r \in {"conflict", "error"} : NotWritten(w, r)
    BY <1>2 DEF NotWritten
  <1>. QED BY <1>1, <1>2 DEF Leads

\* A step of a call keeps the call's text.
LEMMA BusyKept ==
  ASSUME BusyText, UNCHANGED text,
         \A v \in Writers : step'[v] # "away" => step[v] # "away"
  PROVE  BusyText'
  BY DEF BusyText

LEMMA FileStepTypes ==
  ASSUME AdapterInv, NEW w \in Writers, step[w] \in FileSteps
  PROVE  /\ adapter = "filesystem" /\ text[w] \in Envelopes /\ FirstStep = "look"
         /\ Here(w) \in Places /\ GuardOf(w) \in Places
         /\ part[w] = "object" \/ ~made[w]
  <1>1. adapter = "filesystem" /\ step[w] # "away"
    BY DEF AdapterInv, TypeOK, FileSteps, PutSteps
  <1>2. text[w] \in Envelopes /\ part[w] \in Parts /\ FirstStep = "look"
    BY <1>1 DEF AdapterInv, TypeOK, BusyText, FirstStep
  <1>3. part[w] = "object" \/ ~made[w]
    BY <1>1, <1>2 DEF AdapterInv, FileInv, FileWriter, Parts
  <1>. QED BY <1>1, <1>2, <1>3, PlaceTypes DEF Here, GuardOf, Parts

LEMMA FileStepKeeps ==
  ASSUME AdapterInv, NEW w \in Writers, FileStep(w)
  PROVE  AdapterInv'
  <1>. USE DEF AdapterInv, FileStep, At, Goto, wireVars, fileVars
  <1>1. step[w] \in FileSteps
    BY DEF Look, Fill, Sync, Link, Reread, Check, Remove, FileFails, FileSteps
  <1>2. /\ adapter = "filesystem" /\ text[w] \in Envelopes /\ FirstStep = "look"
        /\ Here(w) \in Places /\ GuardOf(w) \in Places
    BY <1>1, FileStepTypes
  <1>3. SUFFICES TypeOK' /\ FileInv' /\ \A v \in Writers : step'[v] # "away" => step[v] # "away"
    BY <1>2, BusyKept DEF TypeOK
  <1>. DEFINE Good == TypeOK' /\ FileInv' /\ \A v \in Writers : step'[v] # "away" => step[v] # "away"
  <1>4. ASSUME Leads(w), UNCHANGED <<store, fileVars>>  PROVE Good
    <2>1. /\ step' \in [Writers -> Steps] /\ part' \in [Writers -> Parts]
          /\ result' \in [Writers -> Results]
          /\ \A v \in Writers \ {w} : step'[v] = step[v] /\ part'[v] = part[v]
          /\ step'[w] \in {"away", "look", "check"}
          /\ step'[w] # "away" => part'[w] = "object"
          /\ step'[w] = "check" => made[w]
      BY <1>2, <1>4, LeadsOn
    <2>2. TypeOK'
      BY <1>4, <2>1 DEF TypeOK, Steps, Results
    <2>3. FileInv'
      BY <1>2, <1>4, <2>1 DEF FileInv, FileWriter
    <2>. QED BY <1>1, <2>1, <2>2, <2>3 DEF FileSteps
  <1>5. ASSUME NEW s \in FileSteps \ {"look", "remove", "check"}, Goto(w, s),
               synced' = [synced EXCEPT ![w] = s = "link"] \/ (synced' = synced /\ s = "reread"),
               UNCHANGED <<store, unsynced, made, part, result>>,
               step[w] \in {"look", "fill", "sync", "link"}
        PROVE  Good
    <2>1. TypeOK'
      BY <1>2, <1>5 DEF TypeOK, FileSteps
    <2>2. FileInv'
      BY <1>2, <1>5 DEF FileInv, FileWriter, TypeOK, FileSteps
    <2>. QED BY <1>5, <2>1, <2>2 DEF TypeOK
  <1>6. ASSUME NEW s \in {"away", "remove"}, Goto(w, s), s = "remove" => step[w] = "check",
               UNCHANGED <<fileVars, part, result>>,
               store' = store \/ store' = [store EXCEPT ![GuardOf(w)] = None]
        PROVE  Good
    <2>1. TypeOK'
      BY <1>2, <1>6 DEF TypeOK, FileSteps
    <2>2. FileInv'
      BY <1>2, <1>6 DEF FileInv, FileWriter, TypeOK
    <2>. QED BY <1>1, <1>6, <2>1, <2>2 DEF TypeOK, FileSteps
  <1>7. CASE Look(w)
    <2>1. CASE Found(w) # None /\ Compare(w)
      BY <1>4, <1>7, <2>1 DEF Look, Compare, Leads
    <2>2. CASE Found(w) = None /\ Goto(w, "fill") /\ UNCHANGED <<part, result>>
      <3>1. TypeOK'
        BY <1>2, <1>7, <2>2 DEF TypeOK, Look, FileSteps
      <3>2. FileInv'
        BY <1>2, <1>7, <2>2 DEF FileInv, FileWriter, TypeOK, Look
      <3>. QED BY <1>7, <2>2, <3>1, <3>2 DEF TypeOK, Look
    <2>. QED BY <1>7, <2>1, <2>2 DEF Look
  <1>8. CASE Fill(w)
    BY <1>5, <1>8 DEF Fill, FileSteps
  <1>9. CASE Sync(w)
    BY <1>5, <1>9 DEF Sync, FileSteps
  <1>10. CASE Link(w)
    <2>1. CASE Found(w) # None
      BY <1>5, <1>10, <2>1 DEF Link, FileSteps
    <2>2. CASE Found(w) = None
      <3>1. /\ store' = [store EXCEPT ![Here(w)] = text[w]]
            /\ unsynced' = {} /\ synced' = synced
            /\ made' = IF part[w] = "guard" THEN [made EXCEPT ![w] = TRUE] ELSE made
            /\ Written(w)
        BY <1>2, <1>10, <2>2 DEF Link, FileInv, FileWriter
      <3>2. /\ step' \in [Writers -> Steps] /\ part' \in [Writers -> Parts]
            /\ result' \in [Writers -> Results]
            /\ \A v \in Writers \ {w} : step'[v] = step[v] /\ part'[v] = part[v]
            /\ step'[w] \in {"away", "look"}
            /\ step'[w] # "away" => part'[w] = "object"
        BY <1>2, <3>1 DEF Written, Goto, Return, TypeOK, Steps, Results, FileSteps, Parts
      <3>3. TypeOK'
        BY <1>2, <3>1, <3>2 DEF TypeOK, Steps, Results
      <3>4. FileInv'
        BY <1>2, <3>1, <3>2 DEF FileInv, FileWriter, TypeOK
      <3>. QED BY <1>10, <3>2, <3>3, <3>4 DEF Link
    <2>. QED BY <2>1, <2>2
  <1>11. CASE Reread(w)
    BY <1>4, <1>11 DEF Reread, Compare, Leads
  <1>12. CASE Check(w)
    BY <1>6, <1>12 DEF Check
  <1>13. CASE Remove(w)
    <2>1. unsynced' = unsynced
      BY <1>2, <1>13 DEF Remove, FileInv
    <2>. QED BY <1>6, <1>13, <2>1 DEF Remove
  <1>14. CASE FileFails(w)
    <2>1. CASE NotWritten(w, "error")
      BY <1>4, <1>14, <2>1 DEF FileFails, Leads
    <2>2. CASE Goto(w, "away") /\ UNCHANGED <<part, result>>
      BY <1>6, <1>14, <2>2 DEF FileFails
    <2>. QED BY <1>14, <2>1, <2>2 DEF FileFails
  <1>. QED BY <1>7, <1>8, <1>9, <1>10, <1>11, <1>12, <1>13, <1>14

LEMMA PutStepTypes ==
  ASSUME AdapterInv, NEW w \in Writers, step[w] \in PutSteps
  PROVE  /\ adapter = "s3" /\ text[w] \in Envelopes /\ FirstStep = "send"
         /\ part[w] \in Parts /\ Here(w) \in Places /\ ~made[w]
  <1>1. adapter = "s3" /\ step[w] # "away"
    BY DEF AdapterInv, TypeOK, FileSteps, PutSteps
  <1>2. text[w] \in Envelopes /\ part[w] \in Parts /\ FirstStep = "send"
    BY <1>1 DEF AdapterInv, TypeOK, BusyText, FirstStep
  <1>. QED BY <1>1, <1>2, PlaceTypes DEF Here, AdapterInv, PutInv, PutWriter

\* What a call leaves on its way would still find its place free.
LEMMA LeavesVacant ==
  ASSUME AdapterInv, adapter = "s3", NEW w \in Writers, step[w] # "away",
         LeavesCopies(w), store' = store
  PROVE  /\ orphans' \subseteq Parts \X Envelopes /\ \A o \in orphans' : IsVacant(o)'
         /\ resent' \in [Writers -> BOOLEAN] /\ ~resent'[w]
         /\ \A v \in Writers \ {w} : resent'[v] = resent[v]
  <1>1. part[w] \in Parts /\ text[w] \in Envelopes
    BY DEF AdapterInv, TypeOK, BusyText
  <1>2. \A o \in orphans' : o \in orphans \/ (o = <<part[w], text[w]>> /\ Found(w) = None)
    BY DEF LeavesCopies
  <1>3. orphans' \subseteq Parts \X Envelopes
    BY <1>1, <1>2 DEF AdapterInv, TypeOK
  <1>4. ASSUME NEW o \in orphans'  PROVE IsVacant(o)'
    <2>1. CASE o \in orphans
      BY <2>1 DEF AdapterInv, PutInv, IsVacant
    <2>2. CASE o = <<part[w], text[w]>> /\ Found(w) = None
      BY <2>2 DEF IsVacant, Found, Here
    <2>. QED BY <1>2, <2>1, <2>2
  <1>. QED BY <1>3, <1>4 DEF LeavesCopies, AdapterInv, TypeOK

LEMMA PutStepKeeps ==
  ASSUME AdapterInv, NEW w \in Writers, PutStep(w)
  PROVE  AdapterInv'
  <1>. USE DEF AdapterInv, PutStep, At, Goto, fileVars
  <1>1. step[w] \in PutSteps
    BY DEF Send, Hear, Read, GivesUp, PutSteps
  <1>2. /\ adapter = "s3" /\ text[w] \in Envelopes /\ FirstStep = "send"
        /\ Here(w) \in Places /\ ~made[w] /\ step[w] # "away"
    BY <1>1, PutStepTypes DEF PutSteps
  <1>3. SUFFICES TypeOK' /\ PutInv' /\ \A v \in Writers : step'[v] # "away" => step[v] # "away"
    BY <1>2, BusyKept DEF TypeOK
  <1>4. ASSUME Leads(w), LeavesCopies(w), UNCHANGED <<store, reply>>
        PROVE  TypeOK' /\ PutInv' /\ \A v \in Writers : step'[v] # "away" => step[v] # "away"
    <2>1. /\ step' \in [Writers -> Steps] /\ part' \in [Writers -> Parts]
          /\ result' \in [Writers -> Results]
          /\ \A v \in Writers \ {w} : step'[v] = step[v] /\ part'[v] = part[v]
          /\ step'[w] \in {"away", "send", "check"}
      BY <1>2, <1>4, LeadsOn
    <2>2. /\ orphans' \subseteq Parts \X Envelopes /\ \A o \in orphans' : IsVacant(o)'
          /\ resent' \in [Writers -> BOOLEAN] /\ ~resent'[w]
          /\ \A v \in Writers \ {w} : resent'[v] = resent[v]
      BY <1>2, <1>4, LeavesVacant
    <2>3. TypeOK'
      BY <1>4, <2>1, <2>2 DEF TypeOK, Steps, Results
    <2>4. PutInv'
      BY <1>2, <1>4, <2>1, <2>2 DEF PutInv, PutWriter, Found, Here
    <2>. QED BY <1>2, <2>1, <2>3, <2>4
  <1>5. CASE Send(w)
    <2>1. TypeOK'
      BY <1>2, <1>5 DEF Send, TypeOK, PutSteps
    <2>2. PutInv'
      BY <1>2, <1>5, AdaptersAssumption DEF Send, TypeOK, PutInv, PutWriter, Found, Here, IsVacant
    <2>. QED BY <1>5, <2>1, <2>2 DEF Send, TypeOK
  <1>6. CASE Hear(w)
    <2>1. CASE reply[w] = "created"
      BY <1>4, <1>6, <2>1 DEF Hear, Leads
    <2>2. CASE reply[w] # "created"
      <3>1. TypeOK'
        BY <1>2, <1>6, <2>2 DEF Hear, TypeOK, PutSteps
      <3>2. PutInv'
        BY <1>2, <1>6, <2>2 DEF Hear, TypeOK, PutInv, PutWriter, Found, Here, IsVacant
      <3>. QED BY <1>6, <2>2, <3>1, <3>2 DEF Hear, TypeOK
    <2>. QED BY <2>1, <2>2
  <1>7. CASE Read(w)
    BY <1>4, <1>7 DEF Read, Compare, Leads
  <1>8. CASE GivesUp(w)
    BY <1>4, <1>8 DEF GivesUp, Leads
  <1>. QED BY <1>5, <1>6, <1>7, <1>8

\* A put that takes effect is what its place holds from then on.
LEMMA StoreKeeps ==
  ASSUME TypeOK, BusyText, PutInv, NEW p \in Parts, NEW e \in Envelopes, Store(p, e)
  PROVE  /\ store' \in [Places -> Envelopes \cup {None, Torn}] /\ store'[Place(p, e)] = e
         /\ orphans' \subseteq orphans
         /\ \A o \in orphans' : store'[Place(o[1], o[2])] = None
         /\ \A v \in Writers : step[v] # "away" /\ Found(v) = text[v] => store'[Here(v)] = text[v]
  <1>1. Place(p, e) \in Places
    BY PlaceTypes
  <1>2. /\ store' = [store EXCEPT ![Place(p, e)] = e] /\ store[Place(p, e)] = None
        /\ orphans' = {o \in orphans : Place(o[1], o[2]) # Place(p, e)}
    BY DEF Store
  <1>3. ASSUME NEW o \in orphans'  PROVE store'[Place(o[1], o[2])] = None
    <2>1. o \in orphans /\ Place(o[1], o[2]) # Place(p, e) /\ o[1] \in Parts /\ o[2] \in Envelopes
      BY <1>2 DEF TypeOK
    <2>2. Place(o[1], o[2]) \in Places /\ store[Place(o[1], o[2])] = None
      BY <2>1, PlaceTypes DEF PutInv, IsVacant
    <2>. QED BY <1>2, <2>1, <2>2 DEF TypeOK
  <1>4. ASSUME NEW v \in Writers, step[v] # "away", Found(v) = text[v]
        PROVE  store'[Here(v)] = text[v]
    <2>1. text[v] \in Envelopes /\ part[v] \in Parts /\ text[v] # None /\ Here(v) \in Places
      BY <1>4, PlaceTypes DEF TypeOK, BusyText, Here
    <2>. QED BY <1>1, <1>2, <1>4, <2>1 DEF TypeOK, Found
  <1>. QED BY <1>1, <1>2, <1>3, <1>4 DEF TypeOK

LEMMA WireStepKeeps ==
  ASSUME AdapterInv, NEW w \in Writers, WireStep(w)
  PROVE  AdapterInv'
  <1>. USE DEF AdapterInv, WireStep, At, fileVars
  <1>1. adapter = "s3"
    BY DEF TypeOK, FileInv, FileWriter, Handle, Resend, CopyArrives, Awaited, FileSteps
  <1>2. step[w] \in {"wait", "read"} /\ step' = step
    BY <1>1 DEF Handle, Resend, CopyArrives, Awaited, PutInv, PutWriter
  <1>3. text[w] \in Envelopes /\ part[w] \in Parts /\ Place(part[w], text[w]) = Here(w)
    BY <1>1, <1>2, PutStepTypes DEF PutSteps, Here
  <1>4. SUFFICES TypeOK' /\ PutInv'
    BY <1>1, <1>2, BusyKept DEF TypeOK
  <1>5. ASSUME Store(part[w], text[w]), UNCHANGED part,
               reply' \in [Writers -> {None, "created", "exists"}],
               resent' \in [Writers -> BOOLEAN],
               \A v \in Writers : resent'[v] => resent[v],
               \A v \in Writers \ {w} : reply'[v] = reply[v],
               UNCHANGED result
        PROVE  TypeOK' /\ PutInv'
    <2>1. /\ store' \in [Places -> Envelopes \cup {None, Torn}] /\ store'[Here(w)] = text[w]
          /\ orphans' \subseteq orphans
          /\ \A o \in orphans' : store'[Place(o[1], o[2])] = None
          /\ \A v \in Writers : step[v] # "away" /\ Found(v) = text[v] => store'[Here(v)] = text[v]
      BY <1>1, <1>3, <1>5, StoreKeeps
    <2>2. TypeOK'
      BY <1>2, <1>5, <2>1 DEF TypeOK
    <2>3. PutInv'
      BY <1>1, <1>2, <1>5, <2>1 DEF PutInv, PutWriter, IsVacant, Found, Here
    <2>. QED BY <2>2, <2>3
  <1>6. ASSUME UNCHANGED <<store, orphans, part, result>>,
               reply' \in [Writers -> {None, "created", "exists"}],
               resent' \in [Writers -> BOOLEAN],
               \A v \in Writers : resent'[v] => resent[v] \/ step[v] = "wait",
               \A v \in Writers : reply'[v] = reply[v] \/ reply'[v] # "created"
        PROVE  TypeOK' /\ PutInv'
    <2>1. TypeOK'
      BY <1>2, <1>6 DEF TypeOK
    <2>2. PutInv'
      BY <1>1, <1>2, <1>6 DEF PutInv, PutWriter, IsVacant, Found, Here
    <2>. QED BY <2>1, <2>2
  <1>7. CASE Handle(w)
    <2>1. CASE Store(part[w], text[w]) /\ reply' = [reply EXCEPT ![w] = "created"]
      BY <1>5, <1>7, <2>1 DEF Handle, TypeOK
    <2>2. CASE reply' = [reply EXCEPT ![w] = "exists"] /\ UNCHANGED <<store, orphans>>
      BY <1>6, <1>7, <2>2 DEF Handle, TypeOK
    <2>. QED BY <1>7, <2>1, <2>2 DEF Handle
  <1>8. CASE Resend(w)
    <2>1. /\ reply' \in [Writers -> {None, "created", "exists"}]
          /\ resent' \in [Writers -> BOOLEAN]
      BY <1>8 DEF Resend, TypeOK
    <2>2. /\ \A v \in Writers : resent'[v] => resent[v] \/ step[v] = "wait"
          /\ \A v \in Writers : reply'[v] = reply[v] \/ reply'[v] # "created"
      BY <1>8, AdaptersAssumption DEF Resend, TypeOK
    <2>. QED BY <1>6, <1>8, <2>1, <2>2 DEF Resend
  <1>9. CASE CopyArrives(w)
    <2>1. CASE Store(part[w], text[w])
      BY <1>5, <1>9, <2>1 DEF CopyArrives, TypeOK
    <2>2. CASE UNCHANGED <<store, orphans>>
      BY <1>6, <1>9, <2>2 DEF CopyArrives, TypeOK
    <2>. QED BY <1>9, <2>1, <2>2 DEF CopyArrives
  <1>. QED BY <1>7, <1>8, <1>9

LEMMA OrphanKeeps ==
  ASSUME AdapterInv, OrphanArrives
  PROVE  AdapterInv'
  <1>. USE DEF AdapterInv, OrphanArrives, fileVars
  <1>1. PICK o \in orphans : Store(o[1], o[2])
    OBVIOUS
  <1>2. adapter = "s3" /\ o[1] \in Parts /\ o[2] \in Envelopes
    BY DEF TypeOK, FileInv
  <1>3. /\ store' \in [Places -> Envelopes \cup {None, Torn}]
        /\ orphans' \subseteq orphans
        /\ \A q \in orphans' : store'[Place(q[1], q[2])] = None
        /\ \A v \in Writers : step[v] # "away" /\ Found(v) = text[v] => store'[Here(v)] = text[v]
    BY <1>1, <1>2, StoreKeeps
  <1>4. TypeOK'
    BY <1>3 DEF TypeOK
  <1>5. PutInv'
    BY <1>2, <1>3 DEF PutInv, PutWriter, IsVacant, Found, Here
  <1>. QED BY <1>2, <1>4, <1>5, BusyKept DEF TypeOK

LEMMA DeathKeeps ==
  ASSUME AdapterInv, NEW w \in Writers, Dies(w)
  PROVE  AdapterInv'
  <1>. USE DEF AdapterInv, Dies, Return, At, Goto, fileVars
  <1>1. step[w] # "away" /\ \A v \in Writers : step'[v] # "away" => step'[v] = step[v]
    BY DEF TypeOK
  <1>2. CASE adapter = "filesystem"
    <2>1. orphans' = {} /\ resent' = resent
      BY <1>2 DEF LeavesCopies, OnItsWay, Awaited, FileInv, FileWriter, TypeOK, FileSteps
    <2>2. TypeOK'
      BY <1>2, <2>1 DEF TypeOK, FileInv
    <2>3. FileInv'
      BY <1>1, <1>2, <2>1 DEF FileInv, FileWriter
    <2>. QED BY <1>1, <1>2, <2>2, <2>3, BusyKept
  <1>3. CASE adapter = "s3"
    <2>1. /\ orphans' \subseteq Parts \X Envelopes /\ \A o \in orphans' : IsVacant(o)'
          /\ resent' \in [Writers -> BOOLEAN] /\ ~resent'[w]
          /\ \A v \in Writers \ {w} : resent'[v] = resent[v]
      BY <1>1, <1>3, LeavesVacant
    <2>2. TypeOK'
      BY <1>3, <2>1 DEF TypeOK
    <2>3. PutInv'
      BY <1>1, <1>3, <2>1 DEF PutInv, PutWriter, Found, Here, TypeOK
    <2>. QED BY <1>1, <1>3, <2>2, <2>3, BusyKept
  <1>. QED BY <1>2, <1>3 DEF TypeOK

LEMMA PowerLossKeeps ==
  ASSUME AdapterInv, PowerLoss
  PROVE  AdapterInv' /\ store' = store
  <1>. USE DEF AdapterInv, PowerLoss, At, wireVars
  <1>1. adapter = "filesystem" /\ unsynced = {} /\ unsynced' = {} /\ orphans' = {}
    BY DEF FileInv
  <1>2. store' = store
    BY <1>1 DEF TypeOK
  <1>3. TypeOK'
    BY <1>1, <1>2 DEF TypeOK
  <1>4. FileInv' /\ BusyText'
    BY <1>1 DEF FileInv, FileWriter, BusyText
  <1>. QED BY <1>1, <1>2, <1>3, <1>4 DEF TypeOK

LEMMA AdapterInvariant == Spec => []AdapterInv
  <1>1. AdapterInv /\ [Next]_vars => AdapterInv'
    <2>1. ASSUME AdapterInv, UNCHANGED vars  PROVE AdapterInv'
      BY <2>1 DEF vars, fileVars, wireVars, AdapterInv, TypeOK, BusyText, FileInv, FileWriter,
                  PutInv, PutWriter, IsVacant, Found, Here
    <2>. QED BY <2>1, EnterKeeps, FileStepKeeps, PutStepKeeps, WireStepKeeps, DeathKeeps,
                PowerLossKeeps, OrphanKeeps DEF Next
  <1>. QED BY InitAdapter, <1>1, PTL DEF Spec

\* Every variable of the adapters keeps to its type; with S3 no call is ever at
\* a file operation, nor the other way round.
THEOREM AdaptersTypes == Spec => []TypeOK
  <1>1. AdapterInv => TypeOK
    BY DEF AdapterInv
  <1>. QED BY AdapterInvariant, <1>1, PTL

----------------------------------------------------------------------------
(* The refinement: each step of an adapter is a step of RawWrites, or no     *)
(* step of it.                                                               *)

Guards == [i \in EventIds |-> store[<<"guard", i>>]]
Objects == [k \in Keys |-> store[<<"object", k>>]]
Calls == [w \in Writers |-> CallOf(w)]

\* A step of one call moves that call alone.
LEMMA CallMoves ==
  ASSUME NEW w \in Writers,
         \A v \in Writers \ {w} : step'[v] = step[v] /\ part'[v] = part[v]
  PROVE  Calls' = [Calls EXCEPT ![w] = CallOf(w)'] /\ Calls[w] = CallOf(w)
  BY DEF Calls, CallOf

LEMMA HereHolds ==
  ASSUME NEW w \in Writers, part[w] \in Parts, text[w] \in Envelopes
  PROVE  /\ text[w].id \in EventIds /\ Key(text[w]) \in Keys
         /\ GuardOf(w) = <<"guard", text[w].id>>
         /\ Guards[text[w].id] = store[GuardOf(w)]
         /\ part[w] = "guard" => Found(w) = Guards[text[w].id]
         /\ part[w] = "object" => Found(w) = Objects[Key(text[w])]
  BY PlaceTypes DEF Guards, Objects, Found, Here, GuardOf

\* A put changes the guard it writes, or the object, and no other place.
LEMMA StoreMoves ==
  ASSUME TypeOK, NEW p \in Parts, NEW e \in Envelopes, NEW x,
         store' = [store EXCEPT ![Place(p, e)] = x]
  PROVE  /\ p = "guard" => /\ Guards' = [Guards EXCEPT ![e.id] = x] /\ Objects' = Objects
         /\ p = "object" => /\ Objects' = [Objects EXCEPT ![Key(e)] = x] /\ Guards' = Guards
  <1>1. \A i \in EventIds : <<"guard", i>> \in Places
    BY DEF Places
  <1>2. \A k \in Keys : <<"object", k>> \in Places
    BY DEF Places
  <1>3. e.id \in EventIds /\ Key(e) \in Keys
    BY PlaceTypes
  <1>4. ASSUME p = "guard"
        PROVE  Guards' = [Guards EXCEPT ![e.id] = x] /\ Objects' = Objects
    <2>1. store' = [store EXCEPT ![<<"guard", e.id>>] = x]
      BY <1>4, PlaceTypes
    <2>. QED BY <1>1, <1>2, <1>3, <2>1 DEF Guards, Objects, TypeOK
  <1>5. ASSUME p = "object"
        PROVE  Objects' = [Objects EXCEPT ![Key(e)] = x] /\ Guards' = Guards
    <2>1. store' = [store EXCEPT ![<<"object", Key(e)>>] = x]
      BY <1>5, PlaceTypes
    <2>. QED BY <1>1, <1>2, <1>3, <2>1 DEF Guards, Objects, TypeOK
  <1>. QED BY <1>4, <1>5

\* RawWrites calls a place free when it is vacant.
LEMMA FreeIsVacant ==
  ASSUME NEW o \in Parts \X Envelopes
  PROVE  Raw!IsFree(o) <=> IsVacant(o)
  <1>1. o[1] \in Parts /\ o[2] \in Envelopes
    OBVIOUS
  <1>. QED BY <1>1, PlaceTypes DEF Raw!IsFree, Raw!Key, IsVacant, Parts, Key

\* Where no put takes effect, no late put finds its place taken.
LEMMA LateStays ==
  ASSUME AdapterInv, store' = store, orphans' = orphans
  PROVE  Raw!StillLate
  <1>1. \A o \in orphans : o \in Parts \X Envelopes /\ IsVacant(o)
    BY DEF AdapterInv, TypeOK, FileInv, PutInv
  <1>2. \A o \in orphans : Raw!IsFree(o)
    BY <1>1, FreeIsVacant
  <1>3. \A o \in orphans : Raw!IsFree(o)'
    BY <1>2 DEF Raw!IsFree
  <1>. QED BY <1>3 DEF Raw!StillLate

LEMMA EnterRefines ==
  ASSUME AdapterInv, NEW w \in Writers, NEW e \in Envelopes, Enter(w, e), UNCHANGED adapter
  PROVE  Raw!Enter(w, e)
  <1>. USE DEF AdapterInv, TypeOK, Enter, At, Goto
  <1>1. CallOf(w) = "away" /\ CallOf(w)' = "guard"
    BY DEF CallOf, FirstStep
  <1>2. Calls' = [Calls EXCEPT ![w] = "guard"] /\ Calls[w] = "away"
    BY <1>1, CallMoves
  <1>. QED BY <1>2 DEF Raw!Enter, Raw!RAt, Raw!RGoto, Raw!archiveVars, Calls, wireVars

\* A place that is found taken is accepted or refused for what it holds.
LEMMA FoundRefines ==
  ASSUME AdapterInv, NEW w \in Writers, step[w] \notin {"away", "check", "remove"},
         Found(w) # None, Compare(w), UNCHANGED <<adapter, store, text, made, orphans>>
  PROVE  Raw!PutGuard(w) \/ Raw!PutObject(w)
  <1>1. /\ text[w] \in Envelopes /\ part[w] \in Parts /\ CallOf(w) = part[w]
        /\ made[w] => adapter = "filesystem"
    BY DEF AdapterInv, TypeOK, BusyText, CallOf, PutInv, PutWriter
  <1>2. /\ \A v \in Writers \ {w} : step'[v] = step[v] /\ part'[v] = part[v]
        /\ step' \in [Writers -> Steps] /\ part' \in [Writers -> Parts]
    BY <1>1, LeadsOn DEF Compare, Leads, AdapterInv
  <1>3. Calls' = [Calls EXCEPT ![w] = CallOf(w)'] /\ Calls[w] = part[w]
    BY <1>1, <1>2, CallMoves
  <1>4. Raw!StillLate
    BY LateStays
  <1>5. CASE part[w] = "guard"
    <2>1. ~made[w] /\ Guards[text[w].id] = Found(w) /\ text[w].id \in EventIds
      BY <1>1, <1>5, HereHolds DEF AdapterInv, TypeOK, FileInv, FileWriter, PutInv, PutWriter
    <2>2. Raw!WriteGuard(text[w]) /\ UNCHANGED Objects
      BY <2>1 DEF Raw!WriteGuard, Guards, Objects
    <2>3. made' = [made EXCEPT ![w] = adapter = "filesystem" /\ Guards[text[w].id] = None]
      BY <2>1 DEF AdapterInv, TypeOK
    <2>4. CASE Found(w) = text[w]
      <3>1. CallOf(w)' = "object" /\ result' = result
        BY <1>2, <1>5, <2>4 DEF Compare, Written, CallOf, Goto, FirstStep, Steps, AdapterInv, TypeOK
      <3>2. Raw!GuardAccepts(text[w])
        BY <2>1, <2>4 DEF Raw!GuardAccepts, Guards
      <3>. QED BY <1>3, <1>4, <1>5, <2>2, <2>3, <3>1, <3>2
           DEF Raw!PutGuard, Raw!RAt, Raw!RGoto, Guards, Objects, Calls
    <2>5. CASE Found(w) # text[w]
      <3>1. CallOf(w)' = "away" /\ result' = [result EXCEPT ![w] = "conflict"]
        BY <1>5, <2>5 DEF Compare, NotWritten, Return, CallOf, Goto, AdapterInv, TypeOK
      <3>2. ~Raw!GuardAccepts(text[w])
        BY <2>1, <2>5 DEF Raw!GuardAccepts, Guards
      <3>. QED BY <1>3, <1>4, <1>5, <2>2, <2>3, <3>1, <3>2
           DEF Raw!PutGuard, Raw!RAt, Raw!RGoto, Raw!Return, Guards, Objects, Calls
    <2>. QED BY <2>4, <2>5
  <1>6. CASE part[w] = "object"
    <2>1. Objects[Key(text[w])] = Found(w) /\ Key(text[w]) \in Keys
      BY <1>1, <1>6, HereHolds
    <2>2. Raw!WriteObject(text[w]) /\ UNCHANGED Guards
      BY <2>1 DEF Raw!WriteObject, Raw!Key, Key, Guards, Objects
    <2>4. CASE Found(w) = text[w]
      <3>1. CallOf(w)' = "away" /\ result' = [result EXCEPT ![w] = "ok"]
        BY <1>6, <2>4 DEF Compare, Written, Return, CallOf, Goto, AdapterInv, TypeOK
      <3>2. Raw!ObjectAccepts(text[w])
        BY <2>1, <2>4 DEF Raw!ObjectAccepts, Raw!Key, Key, Objects
      <3>. QED BY <1>3, <1>4, <1>6, <2>2, <3>1, <3>2
           DEF Raw!PutObject, Raw!RAt, Raw!RGoto, Raw!Return, Guards, Objects, Calls
    <2>5. CASE Found(w) # text[w]
      <3>1. CallOf(w)' = (IF made[w] THEN "cleanup" ELSE "away")
        BY <1>6, <2>5 DEF Compare, NotWritten, Return, CallOf, Goto, AdapterInv, TypeOK
      <3>2. ~Raw!ObjectAccepts(text[w])
        BY <2>1, <2>5 DEF Raw!ObjectAccepts, Raw!Key, Key, Objects
      <3>3. result' = [result EXCEPT ![w] = "conflict"]
        BY <2>5 DEF Compare, NotWritten, Return
      <3>. QED BY <1>3, <1>4, <1>6, <2>2, <3>1, <3>2, <3>3
           DEF Raw!PutObject, Raw!RAt, Raw!RGoto, Raw!Withdraw, Guards, Objects, Calls
    <2>. QED BY <2>4, <2>5
  <1>. QED BY <1>1, <1>5, <1>6 DEF Parts

\* A link that takes its name is the atomic write.
LEMMA LinkRefines ==
  ASSUME AdapterInv, NEW w \in Writers, Link(w), Found(w) = None, UNCHANGED <<adapter, text, wireVars>>
  PROVE  Raw!PutGuard(w) \/ Raw!PutObject(w)
  <1>. USE DEF AdapterInv, At, wireVars
  <1>1. /\ adapter = "filesystem" /\ text[w] \in Envelopes /\ FirstStep = "look"
        /\ part[w] \in Parts /\ orphans = {} /\ orphans' = {}
    BY FileStepTypes DEF Link, FileSteps, TypeOK, FileInv
  <1>2. /\ store' = [store EXCEPT ![Place(part[w], text[w])] = text[w]] /\ Written(w)
        /\ made' = IF part[w] = "guard" THEN [made EXCEPT ![w] = TRUE] ELSE made
    BY DEF Link, Here
  <1>3. /\ \A v \in Writers \ {w} : step'[v] = step[v] /\ part'[v] = part[v]
        /\ CallOf(w) = part[w]
        /\ part[w] = "guard" => CallOf(w)' = "object"
        /\ part[w] = "object" => CallOf(w)' = "away"
    BY <1>1, <1>2 DEF Written, Return, Goto, CallOf, Link, TypeOK
  <1>4. Calls' = [Calls EXCEPT ![w] = CallOf(w)'] /\ Calls[w] = part[w]
    BY <1>3, CallMoves
  <1>5. Raw!StillLate
    BY <1>1 DEF Raw!StillLate
  <1>6. CASE part[w] = "guard"
    <2>1. Guards[text[w].id] = None /\ text[w].id \in EventIds
      BY <1>1, <1>6, HereHolds
    <2>2. Guards' = [Guards EXCEPT ![text[w].id] = text[w]] /\ Objects' = Objects
      BY <1>1, <1>2, <1>6, StoreMoves
    <2>3. Raw!WriteGuard(text[w]) /\ Raw!GuardAccepts(text[w])
      BY <2>1, <2>2 DEF Raw!WriteGuard, Raw!GuardAccepts, Guards
    <2>4. made' = [made EXCEPT ![w] = adapter = "filesystem" /\ Guards[text[w].id] = None]
      BY <1>1, <1>2, <1>6, <2>1
    <2>5. result' = result
      BY <1>2, <1>6 DEF Written
    <2>. QED BY <1>3, <1>4, <1>5, <1>6, <2>2, <2>3, <2>4, <2>5
         DEF Raw!PutGuard, Raw!RAt, Raw!RGoto, Guards, Objects, Calls
  <1>7. CASE part[w] = "object"
    <2>1. Objects[Key(text[w])] = None /\ Key(text[w]) \in Keys
      BY <1>1, <1>7, HereHolds
    <2>2. Objects' = [Objects EXCEPT ![Key(text[w])] = text[w]] /\ Guards' = Guards
      BY <1>1, <1>2, <1>7, StoreMoves
    <2>3. Raw!WriteObject(text[w]) /\ Raw!ObjectAccepts(text[w])
      BY <2>1, <2>2 DEF Raw!WriteObject, Raw!ObjectAccepts, Raw!Key, Key, Objects
    <2>4. result' = [result EXCEPT ![w] = "ok"] /\ made' = made
      BY <1>2, <1>7 DEF Written, Return
    <2>. QED BY <1>3, <1>4, <1>5, <1>7, <2>2, <2>3, <2>4
         DEF Raw!PutObject, Raw!RAt, Raw!RGoto, Raw!Return, Guards, Objects, Calls
  <1>. QED BY <1>1, <1>6, <1>7 DEF Parts

\* A put of the store's is LandPut: a late one, or that of a call under way.
LEMMA StoreRefines ==
  ASSUME AdapterInv, adapter = "s3", NEW o \in Parts \X Envelopes, Store(o[1], o[2]),
         o \in orphans \/ \E w \in Writers : CallOf(w) \in Parts /\ o = <<CallOf(w), text[w]>>,
         UNCHANGED <<adapter, step, part, text, made, result>>
  PROVE  Raw!LandPut
  <1>1. /\ o[1] \in Parts /\ o[2] \in Envelopes /\ store[Place(o[1], o[2])] = None
        /\ store' = [store EXCEPT ![Place(o[1], o[2])] = o[2]]
        /\ orphans' = {q \in orphans : Place(q[1], q[2]) # Place(o[1], o[2])}
    BY DEF Store
  <1>2. /\ o[1] = "guard" => /\ Guards' = [Guards EXCEPT ![o[2].id] = o[2]] /\ Objects' = Objects
        /\ o[1] = "object" => /\ Objects' = [Objects EXCEPT ![Key(o[2])] = o[2]] /\ Guards' = Guards
    BY <1>1, StoreMoves DEF AdapterInv
  <1>3. Raw!IsFree(o)
    BY <1>1, FreeIsVacant DEF IsVacant
  <1>4. o[2].id \in EventIds /\ Key(o[2]) \in Keys
    BY <1>1, PlaceTypes
  <1>5. \/ o[1] = "guard" /\ Raw!WriteGuard(o[2]) /\ UNCHANGED Objects
        \/ o[1] = "object" /\ Raw!WriteObject(o[2]) /\ UNCHANGED Guards
    BY <1>1, <1>2, <1>3, <1>4
       DEF Parts, Raw!IsFree, Raw!WriteGuard, Raw!WriteObject, Raw!Key, Key, Guards, Objects
  <1>6. ASSUME NEW q \in orphans
        PROVE  Raw!IsFree(q)' <=> Place(q[1], q[2]) # Place(o[1], o[2])
    <2>1. q \in Parts \X Envelopes /\ q[1] \in Parts /\ q[2] \in Envelopes /\ IsVacant(q)
      BY <1>6 DEF AdapterInv, TypeOK, PutInv
    <2>2. Raw!IsFree(q)' <=> IsVacant(q)'
      BY <2>1, PlaceTypes DEF Raw!IsFree, Raw!Key, IsVacant, Parts, Key
    <2>3. Place(q[1], q[2]) \in Places /\ Place(o[1], o[2]) \in Places /\ o[2] # None
      BY <1>1, <2>1, PlaceTypes
    <2>. QED BY <1>1, <2>1, <2>2, <2>3 DEF IsVacant, AdapterInv, TypeOK
  <1>7. Raw!StillLate
    BY <1>1, <1>6 DEF Raw!StillLate
  <1>8. UNCHANGED Calls
    BY DEF Calls, CallOf
  <1>9. o \in orphans \cup {<<Calls[w], text[w]>> :
                              w \in {v \in Writers : Calls[v] \in {"guard", "object"}}}
    BY DEF Calls, Parts
  <1>. QED BY <1>3, <1>5, <1>7, <1>8, <1>9 DEF Raw!LandPut, Calls, Guards, Objects

\* A call that ends without writing its place, by an error or by its death,
\* may leave its put behind.
LEMMA BreakRefines ==
  ASSUME AdapterInv, NEW w \in Writers, step[w] # "away",
         UNCHANGED <<adapter, store, text, made>>,
         \/ orphans' = orphans
         \/ /\ adapter = "s3" /\ Found(w) = None /\ step[w] \in PutSteps
            /\ orphans' = orphans \cup {<<part[w], text[w]>>},
         \/ step[w] \notin {"check", "remove"} /\ NotWritten(w, "error")
         \/ step[w] \in {"check", "remove"} /\ Goto(w, "away") /\ UNCHANGED <<part, result>>
         \/ Return(w, None)
  PROVE  Raw!CallBreaks(w)
  <1>1. text[w] \in Envelopes /\ part[w] \in Parts
    BY DEF AdapterInv, TypeOK, BusyText
  <1>2. /\ \A v \in Writers \ {w} : step'[v] = step[v] /\ part'[v] = part[v]
        /\ CallOf(w)' = IF step'[w] = "check" THEN "cleanup" ELSE "away"
        /\ step'[w] = "check" <=> step[w] \notin {"check", "remove"} /\ NotWritten(w, "error")
                                  /\ part[w] = "object" /\ made[w]
    BY DEF AdapterInv, TypeOK, NotWritten, Return, Goto, CallOf
  <1>3. Calls' = [Calls EXCEPT ![w] = CallOf(w)'] /\ Calls[w] = CallOf(w)
    BY <1>2, CallMoves
  <1>4. UNCHANGED <<Guards, Objects>>
    BY DEF Guards, Objects
  <1>5. Raw!LeavePut(w)
    <2>1. CASE orphans' = orphans
      BY <1>4, <2>1 DEF Raw!LeavePut, Raw!archiveVars, Guards, Objects
    <2>2. CASE /\ adapter = "s3" /\ Found(w) = None /\ step[w] \in PutSteps
               /\ orphans' = orphans \cup {<<part[w], text[w]>>}
      <3>1. Calls[w] = part[w]
        BY <1>3, <2>2 DEF CallOf, PutSteps
      <3>2. IsVacant(<<part[w], text[w]>>)
        BY <2>2 DEF IsVacant, Found, Here
      <3>3. Raw!IsFree(<<part[w], text[w]>>)
        BY <1>1, <3>2, FreeIsVacant
      <3>4. Raw!Abandon(<<part[w], text[w]>>)
        BY <1>4, <2>2, <3>3 DEF Raw!Abandon, Guards, Objects
      <3>. QED BY <1>1, <2>2, <3>1, <3>4 DEF Raw!LeavePut, Calls, Parts
    <2>. QED BY <2>1, <2>2
  <1>6. \/ Calls[w] = "guard" /\ Calls' = [Calls EXCEPT ![w] = "away"]
                              /\ result' = [result EXCEPT ![w] = "error"]
        \/ Calls[w] = "object" /\ Calls' = [Calls EXCEPT ![w] = IF made[w] THEN "cleanup" ELSE "away"]
                               /\ result' = [result EXCEPT ![w] = "error"]
        \/ Calls[w] \in {"cleanup", "remove"} /\ Calls' = [Calls EXCEPT ![w] = "away"] /\ UNCHANGED result
        \/ Calls[w] # "away" /\ Calls' = [Calls EXCEPT ![w] = "away"]
                             /\ result' = [result EXCEPT ![w] = None]
    <2>1. CASE step[w] \notin {"check", "remove"} /\ NotWritten(w, "error")
      <3>1. Calls[w] = part[w] /\ result' = [result EXCEPT ![w] = "error"]
        BY <1>3, <2>1 DEF CallOf, NotWritten, Return
      <3>2. CallOf(w)' = IF part[w] = "object" /\ made[w] THEN "cleanup" ELSE "away"
        BY <1>2, <2>1
      <3>. QED BY <1>1, <1>3, <3>1, <3>2 DEF Parts
    <2>2. CASE step[w] \in {"check", "remove"} /\ Goto(w, "away") /\ UNCHANGED <<part, result>>
      <3>1. Calls[w] \in {"cleanup", "remove"}
        BY <1>3, <2>2 DEF CallOf
      <3>2. CallOf(w)' = "away"
        BY <2>2 DEF CallOf, Goto, AdapterInv, TypeOK
      <3>. QED BY <1>3, <2>2, <3>1, <3>2
    <2>3. CASE Return(w, None)
      <3>1. Calls[w] # "away"
        BY <1>1, <1>3 DEF CallOf, Parts
      <3>2. CallOf(w)' = "away" /\ result' = [result EXCEPT ![w] = None]
        BY <2>3 DEF CallOf, Return, Goto, AdapterInv, TypeOK
      <3>. QED BY <1>3, <2>3, <3>1, <3>2
    <2>. QED BY <2>1, <2>2, <2>3
  <1>. QED BY <1>5, <1>6 DEF Raw!CallBreaks, Raw!RAt, Raw!RGoto, Raw!Return, Raw!Withdraw, Calls

Unseen == UNCHANGED Raw!rawVars

LEMMA StutterRefines ==
  ASSUME UNCHANGED <<adapter, store, orphans, text, made, result>>,
         \A v \in Writers : CallOf(v)' = CallOf(v)
  PROVE  Unseen
  BY DEF Unseen, Raw!rawVars, Raw!archiveVars

LEMMA FileStepRefines ==
  ASSUME AdapterInv, NEW w \in Writers, FileStep(w)
  PROVE  Unseen \/ (Raw!RawNext /\ UNCHANGED adapter)
  <1>. USE DEF FileStep, At, wireVars, fileVars
  <1>1. step[w] \in FileSteps /\ step[w] # "away" /\ step \in [Writers -> Steps]
    BY DEF Look, Fill, Sync, Link, Reread, Check, Remove, FileFails, FileSteps,
           AdapterInv, TypeOK, Steps
  <1>2. text[w] \in Envelopes /\ part[w] \in Parts
    BY <1>1, FileStepTypes DEF AdapterInv, TypeOK
  <1>3. CASE Found(w) # None /\ Compare(w) /\ (Look(w) \/ Reread(w))
    <2>1. Raw!PutGuard(w) \/ Raw!PutObject(w)
      BY <1>3, FoundRefines DEF Look, Reread
    <2>. QED BY <2>1 DEF Raw!RawNext
  <1>4. CASE \/ Look(w) /\ Goto(w, "fill") /\ UNCHANGED <<part, result>>
             \/ Fill(w) \/ Sync(w)
             \/ Link(w) /\ Found(w) # None
    <2>1. /\ UNCHANGED <<adapter, store, orphans, text, made, result>>
          /\ \A v \in Writers : CallOf(v)' = CallOf(v)
      BY <1>1, <1>4 DEF Look, Fill, Sync, Link, Goto, CallOf
    <2>. QED BY <2>1, StutterRefines
  <1>5. CASE Link(w) /\ Found(w) = None
    <2>1. Raw!PutGuard(w) \/ Raw!PutObject(w)
      BY <1>5, LinkRefines
    <2>. QED BY <2>1 DEF Raw!RawNext
  <1>6. CASE FileFails(w) \/ (Reread(w) /\ Found(w) = None)
    <2>1. \/ step[w] \notin {"check", "remove"} /\ NotWritten(w, "error")
          \/ step[w] \in {"check", "remove"} /\ Goto(w, "away") /\ UNCHANGED <<part, result>>
      BY <1>6 DEF FileFails, Reread
    <2>2. UNCHANGED <<adapter, store, text, made, orphans>>
      BY <1>6 DEF FileFails, Reread
    <2>3. Raw!CallBreaks(w)
      BY <1>1, <2>1, <2>2, BreakRefines
    <2>. QED BY <2>3 DEF Raw!RawNext
  <1>7. CASE Check(w) \/ Remove(w)
    <2>1. /\ \A v \in Writers \ {w} : step'[v] = step[v] /\ part'[v] = part[v]
          /\ UNCHANGED <<adapter, text, made, result, orphans>>
      BY <1>1, <1>7 DEF Check, Remove, Goto
    <2>2. Calls' = [Calls EXCEPT ![w] = CallOf(w)'] /\ Calls[w] = CallOf(w)
      BY <2>1, CallMoves
    <2>3. Guards[text[w].id] = store[GuardOf(w)] /\ text[w].id \in EventIds
      BY <1>2, HereHolds
    <2>4. CASE Check(w)
      <3>1. /\ CallOf(w) = "cleanup"
            /\ CallOf(w)' = IF store[GuardOf(w)] = text[w] THEN "remove" ELSE "away"
            /\ store' = store
        BY <1>1, <2>4 DEF Check, Goto, CallOf
      <3>2. Guards' = Guards /\ Objects' = Objects
        BY <3>1 DEF Guards, Objects
      <3>3. Raw!TakeBack(w)
        BY <2>1, <2>2, <2>3, <3>1, <3>2 DEF Raw!TakeBack, Raw!RAt, Raw!RGoto, Calls, Guards, Objects
      <3>. QED BY <2>1, <3>3 DEF Raw!RawNext
    <2>5. CASE Remove(w)
      <3>1. CallOf(w) = "remove" /\ CallOf(w)' = "away"
        BY <1>1, <2>5 DEF Remove, Goto, CallOf
      <3>2. Guards' = [Guards EXCEPT ![text[w].id] = None] /\ Objects' = Objects
        BY <1>2, <2>5, StoreMoves DEF Remove, GuardOf, AdapterInv, Parts
      <3>3. Raw!TakeBack(w)
        BY <2>1, <2>2, <3>1, <3>2 DEF Raw!TakeBack, Raw!RAt, Raw!RGoto, Calls, Guards, Objects
      <3>. QED BY <2>1, <3>3 DEF Raw!RawNext
    <2>. QED BY <1>7, <2>4, <2>5
  <1>. QED BY <1>3, <1>4, <1>5, <1>6, <1>7 DEF Look, Reread

LEMMA PutStepRefines ==
  ASSUME AdapterInv, NEW w \in Writers, PutStep(w)
  PROVE  Unseen \/ (Raw!RawNext /\ UNCHANGED adapter)
  <1>. USE DEF PutStep, At, fileVars
  <1>1. step[w] \in PutSteps /\ step[w] \notin {"away", "check", "remove"}
    BY DEF Send, Hear, Read, GivesUp, PutSteps
  <1>2. adapter = "s3" /\ text[w] \in Envelopes /\ step \in [Writers -> Steps]
    BY <1>1, PutStepTypes DEF AdapterInv, TypeOK, Steps
  <1>3. ASSUME Found(w) # None, Compare(w), LeavesCopies(w), UNCHANGED store
        PROVE  Raw!RawNext /\ UNCHANGED adapter
    <2>1. orphans' = orphans
      BY <1>3 DEF LeavesCopies
    <2>2. Raw!PutGuard(w) \/ Raw!PutObject(w)
      BY <1>1, <1>3, <2>1, FoundRefines
    <2>. QED BY <2>2 DEF Raw!RawNext
  <1>4. ASSUME NotWritten(w, "error"), LeavesCopies(w), UNCHANGED store
        PROVE  Raw!RawNext /\ UNCHANGED adapter
    <2>1. \/ orphans' = orphans
          \/ Found(w) = None /\ orphans' = orphans \cup {<<part[w], text[w]>>}
      BY <1>4 DEF LeavesCopies
    <2>2. Raw!CallBreaks(w)
      BY <1>1, <1>2, <1>4, <2>1, BreakRefines
    <2>. QED BY <2>2 DEF Raw!RawNext
  <1>5. CASE Send(w) \/ (Hear(w) /\ reply[w] # "created")
    <2>1. /\ UNCHANGED <<adapter, store, orphans, text, made, result>>
          /\ \A v \in Writers : CallOf(v)' = CallOf(v)
      BY <1>1, <1>2, <1>5 DEF Send, Hear, Goto, CallOf
    <2>. QED BY <2>1, StutterRefines
  <1>6. CASE Hear(w) /\ reply[w] = "created"
    <2>1. Found(w) = text[w] /\ text[w] # None
      BY <1>2, <1>6, PlaceTypes DEF Hear, AdapterInv, PutInv, PutWriter
    <2>. QED BY <1>3, <1>6, <2>1 DEF Hear, Compare
  <1>7. CASE Read(w)
    BY <1>3, <1>4, <1>7 DEF Read
  <1>8. CASE GivesUp(w)
    BY <1>4, <1>8 DEF GivesUp
  <1>. QED BY <1>5, <1>6, <1>7, <1>8

LEMMA WireStepRefines ==
  ASSUME AdapterInv, NEW w \in Writers, WireStep(w)
  PROVE  Unseen \/ (Raw!RawNext /\ UNCHANGED adapter)
  <1>. USE DEF WireStep, At, fileVars
  <1>1. adapter = "s3"
    BY DEF AdapterInv, TypeOK, FileInv, FileWriter, Handle, Resend, CopyArrives, Awaited, FileSteps
  <1>2. step[w] \in {"wait", "read"} /\ UNCHANGED <<step, part, result>>
    BY <1>1 DEF Handle, Resend, CopyArrives, Awaited, AdapterInv, PutInv, PutWriter
  <1>3. /\ text[w] \in Envelopes /\ part[w] \in Parts /\ CallOf(w) = part[w]
        /\ <<part[w], text[w]>> \in Parts \X Envelopes
    BY <1>1, <1>2, PutStepTypes DEF PutSteps, CallOf
  <1>4. CASE Store(part[w], text[w])
    <2>1. Raw!LandPut
      BY <1>1, <1>2, <1>3, <1>4, StoreRefines
    <2>. QED BY <2>1 DEF Raw!RawNext
  <1>5. CASE UNCHANGED <<store, orphans>>
    BY <1>2, <1>5, StutterRefines DEF CallOf
  <1>. QED BY <1>4, <1>5 DEF Handle, Resend, CopyArrives

LEMMA DeathRefines ==
  ASSUME AdapterInv, NEW w \in Writers, Dies(w)
  PROVE  Raw!RawNext /\ UNCHANGED adapter
  <1>1. step[w] # "away" /\ Return(w, None) /\ UNCHANGED <<adapter, store, text, made>>
    BY DEF Dies, At, fileVars
  <1>2. \/ orphans' = orphans
        \/ /\ adapter = "s3" /\ Found(w) = None /\ step[w] \in PutSteps
           /\ orphans' = orphans \cup {<<part[w], text[w]>>}
    BY DEF Dies, LeavesCopies, OnItsWay, Awaited, At, AdapterInv, TypeOK, FileInv, FileWriter,
           PutInv, PutWriter, FileSteps, PutSteps
  <1>3. Raw!CallBreaks(w)
    BY <1>1, <1>2, BreakRefines
  <1>. QED BY <1>1, <1>3 DEF Raw!RawNext

LEMMA PowerLossRefines ==
  ASSUME AdapterInv, PowerLoss
  PROVE  Raw!RawNext /\ UNCHANGED adapter
  <1>1. store' = store /\ UNCHANGED <<adapter, orphans, text, made>>
    BY PowerLossKeeps DEF PowerLoss, wireVars
  <1>2. Calls' = [w \in Writers |-> "away"]
    BY DEF Calls, CallOf, PowerLoss
  <1>3. \A w \in Writers : Calls[w] = "away" <=> step[w] = "away"
    BY DEF Calls, CallOf, AdapterInv, TypeOK, Parts
  <1>4. result' = [w \in Writers |-> IF Calls[w] = "away" THEN result[w] ELSE None]
    BY <1>3 DEF PowerLoss, At
  <1>5. Raw!MachineStops
    BY <1>1, <1>2, <1>4 DEF PowerLoss, Raw!MachineStops, Raw!RAt, Raw!archiveVars, Calls
  <1>. QED BY <1>1, <1>5 DEF Raw!RawNext

LEMMA InitRefines == Init => Raw!RawInit
  <1>. SUFFICES ASSUME Init PROVE Raw!RawInit
    OBVIOUS
  <1>1. /\ \A i \in EventIds : store[<<"guard", i>>] = None
        /\ \A k \in Keys : store[<<"object", k>>] = None
    BY DEF Init, Places
  <1>2. Raw!Keys = Keys
    BY DEF Raw!Keys, Raw!Key, Keys, Key
  <1>. QED BY <1>1, <1>2 DEF Init, Raw!RawInit, Raw!ArchiveInit, CallOf

\* Either adapter implements the atomic writes that the archive steps of Ingest
\* are: with any number of concurrent writers, lost replies, repeated and late
\* puts, dying processes and losses of power.
THEOREM WritesAreAtomicTheorem == Spec => WritesAreAtomic
  <1>1. AdapterInv /\ [Next]_vars => [Raw!RawNext]_(Raw!rawVars)
    <2>1. ASSUME AdapterInv, UNCHANGED vars  PROVE Unseen
      BY <2>1, StutterRefines DEF vars, fileVars, wireVars, CallOf
    <2>2. ASSUME AdapterInv, NEW w \in Writers, NEW e \in Envelopes, Enter(w, e), UNCHANGED adapter
          PROVE  Raw!RawNext
      BY <2>2, EnterRefines DEF Raw!RawNext
    <2>3. ASSUME AdapterInv, OrphanArrives  PROVE Raw!RawNext
      <3>1. PICK o \in orphans : Store(o[1], o[2])
        BY <2>3 DEF OrphanArrives
      <3>2. adapter = "s3" /\ o \in Parts \X Envelopes
        BY <2>3 DEF AdapterInv, TypeOK, FileInv
      <3>3. Raw!LandPut
        BY <2>3, <3>1, <3>2, StoreRefines DEF OrphanArrives, fileVars
      <3>. QED BY <2>3, <3>3 DEF Raw!RawNext, OrphanArrives
    <2>. QED BY <2>1, <2>2, <2>3, FileStepRefines, PutStepRefines, WireStepRefines, DeathRefines,
                PowerLossRefines DEF Next, Unseen
  <1>. QED BY AdapterInvariant, InitRefines, <1>1, PTL DEF Spec, WritesAreAtomic, Raw!RawSpec

=============================================================================
