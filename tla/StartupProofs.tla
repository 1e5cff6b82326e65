--------------------------- MODULE StartupProofs ---------------------------
(* The schema and the handles of starts, for any processes, files and       *)
(* environments.                                                            *)
EXTENDS Startup, TLAPS

Here == Expand(file.address)
Results == {None, "ok", "refused", "failed", "unreachable", "exists"}
Steps == {"away", "load", "open", "storage", "look", "create", "work", "serve", "close"}

\* The part of TypeOK that does not ask what a token looks like.
StartTypes ==
  /\ file \in Files /\ env \in Envs
  /\ schema \in [Locations -> SUBSET AllObjects]
  /\ kind \in [Processes -> Kinds] /\ step \in [Processes -> Steps]
  /\ at \in [Processes -> 1..4] /\ held \subseteq Processes
  /\ result \in [Processes -> Results]

\* What a migration has passed over is there.
MigratedSoFar ==
  \A p \in Processes :
    /\ step[p] \in {"look", "create"} => \A i \in 1..4 : i < at[p] => Objects[i] \in schema[Here]
    /\ step[p] \in {"load", "open", "storage"} => at[p] = 1

\* Only servers serve.
ServersServe == \A p \in Processes : At(p, "serve") => kind[p] = "server"

\* A command that has not opened the ledger has nothing to close.
NotYetOpen == \A p \in Processes : step[p] \in {"load", "open"} => p \notin held

StartupInv ==
  /\ StartTypes /\ MigratedSoFar /\ NotYetOpen /\ ServersServe
  /\ ServesOnSchema /\ InitServesServers /\ EndedIsClosed

LEMMA ObjectsFour ==
  /\ Len(Objects) = 4 /\ DOMAIN Objects = 1..4
  /\ AllObjects = {Objects[1], Objects[2], Objects[3], Objects[4]}
  <1>1. Objects \in Seq({Objects[1], Objects[2], Objects[3], Objects[4]}) /\ Len(Objects) = 4
    BY DEF Objects
  <1>2. DOMAIN Objects = 1..4
    BY <1>1
  <1>3. \A i \in 1..4 : i = 1 \/ i = 2 \/ i = 3 \/ i = 4
    OBVIOUS
  <1>. QED BY <1>1, <1>2, <1>3 DEF AllObjects

LEMMA HereIsALocation ==
  ASSUME file \in Files, env \in Envs
  PROVE  Here \in Locations
  BY DEF Here, Expand, Locations

LEMMA StartupInit == ASSUME Init PROVE StartupInv
  <1>1. StartTypes
    <2>1. file \in Files /\ env \in Envs /\ held \subseteq Processes
      BY DEF Init
    <2>2. schema \in [Locations -> SUBSET AllObjects]
      BY DEF Init
    <2>3. at \in [Processes -> 1..4]
      <3>1. 1 \in 1..4
        OBVIOUS
      <3>. QED BY <3>1, Zenon DEF Init
    <2>4. kind \in [Processes -> Kinds] /\ step \in [Processes -> Steps]
      BY DEF Init, Kinds, Steps
    <2>5. result \in [Processes -> Results]
      BY DEF Init, Results
    <2>. QED BY <2>1, <2>2, <2>3, <2>4, <2>5 DEF StartTypes
  <1>2. MigratedSoFar
    BY DEF Init, MigratedSoFar
  <1>3. NotYetOpen /\ ServersServe /\ EndedIsClosed
    BY DEF Init, NotYetOpen, ServersServe, EndedIsClosed, At
  <1>4. ServesOnSchema /\ InitServesServers
    BY DEF Init, ServesOnSchema, InitServesServers
  <1>. QED BY <1>1, <1>2, <1>3, <1>4 DEF StartupInv

\* The process takes the step s with the schema growing at most.
LEMMA MoveKeepsInv ==
  ASSUME StartupInv, NEW p \in Processes, UNCHANGED <<file, env>>,
         NEW s \in Steps, NEW k \in Kinds, NEW n \in 1..4,
         NEW r \in Results,
         schema' \in [Locations -> SUBSET AllObjects],
         \A l \in Locations : schema[l] \subseteq schema'[l],
         step' = [step EXCEPT ![p] = s], kind' = [kind EXCEPT ![p] = k],
         at' = [at EXCEPT ![p] = n], result' = [result EXCEPT ![p] = r],
         held' \subseteq Processes, held' \ {p} \subseteq held,
         s \in {"load", "open"} => p \notin held',
         s = "away" => p \notin held' \/ (file.ledger = "postgres" /\ r = "unreachable"),
         s \in {"look", "create"} => \A i \in 1..4 : i < n => Objects[i] \in schema'[Here],
         s \in {"load", "open", "storage"} => n = 1,
         s = "serve" => k = "server",
         (s \in {"work", "serve"} \/ (k = "init" /\ r = "ok")) => AllObjects \subseteq schema'[Here]
  PROVE  StartupInv'
  <1>1. Here' = Here /\ Here \in Locations
    BY HereIsALocation DEF StartupInv, StartTypes, Here, Expand
  <1>2. StartTypes'
    BY DEF StartupInv, StartTypes
  <1>3. MigratedSoFar'
    BY <1>1 DEF StartupInv, StartTypes, MigratedSoFar, Steps
  <1>4. NotYetOpen' /\ ServersServe' /\ EndedIsClosed'
    BY DEF StartupInv, StartTypes, NotYetOpen, ServersServe, EndedIsClosed, At
  <1>5. ServesOnSchema' /\ InitServesServers'
    BY <1>1 DEF StartupInv, StartTypes, ServesOnSchema, InitServesServers, Complete, Here
  <1>. QED BY <1>2, <1>3, <1>4, <1>5 DEF StartupInv

\* The migration goes past an object that is there.
LEMMA ContinueKeepsInv ==
  ASSUME StartupInv, NEW p \in Processes, UNCHANGED <<file, env, kind, held>>,
         step[p] \in {"look", "create"},
         schema' \in [Locations -> SUBSET AllObjects],
         \A l \in Locations : schema[l] \subseteq schema'[l],
         Object(p) \in schema'[Here],
         NEW s \in {"look", "create"}, Continue(p, s)
  PROVE  StartupInv'
  <1>. DEFINE n == IF IsLast(p) THEN 1 ELSE at[p] + 1
              t == IF ~IsLast(p) THEN s ELSE IF kind[p] = "init" THEN "close" ELSE "work"
              r == IF IsLast(p) /\ kind[p] = "init" THEN "ok" ELSE result[p]
  <1>1. at[p] \in 1..4 /\ kind[p] \in Kinds /\ Here \in Locations /\ held \subseteq Processes
        /\ result[p] \in Results
    BY HereIsALocation DEF StartupInv, StartTypes
  <1>2. \A i \in 1..4 : i <= at[p] => Objects[i] \in schema'[Here]
    BY <1>1 DEF StartupInv, MigratedSoFar, Object
  <1>3. IsLast(p) => AllObjects \subseteq schema'[Here]
    BY <1>2, ObjectsFour DEF IsLast
  <1>4. kind[p] = "init" /\ result[p] = "ok" => AllObjects \subseteq schema'[Here]
    BY <1>1 DEF StartupInv, InitServesServers, Complete, Here
  <1>5. /\ n \in 1..4 /\ t \in Steps
        /\ r \in Results
        /\ t \in {"look", "create"} => \A i \in 1..4 : i < n => Objects[i] \in schema'[Here]
        /\ t \notin {"load", "open", "storage", "serve", "away"}
        /\ (t \in {"work", "serve"} \/ (kind[p] = "init" /\ r = "ok")) => AllObjects \subseteq schema'[Here]
    <2>1. CASE IsLast(p)
      <3>1. n = 1 /\ t = (IF kind[p] = "init" THEN "close" ELSE "work")
            /\ r = (IF kind[p] = "init" THEN "ok" ELSE result[p])
        BY <2>1
      <3>2. t \in {"close", "work"} /\ r \in Results
        BY <3>1, <1>1 DEF Results
      <3>3. AllObjects \subseteq schema'[Here]
        BY <2>1, <1>3
      <3>4. n \in 1..4
        BY <3>1
      <3>. HIDE DEF n, t, r
      <3>. QED BY <3>2, <3>3, <3>4 DEF Steps
    <2>2. CASE ~IsLast(p)
      <3>1. n \in 1..4 /\ n = at[p] + 1 /\ \A i \in 1..4 : i < n => i <= at[p]
        BY <2>2, <1>1, ObjectsFour DEF IsLast
      <3>2. t = s /\ r = result[p]
        BY <2>2
      <3>3. \A i \in 1..4 : i < n => Objects[i] \in schema'[Here]
        BY <3>1, <1>2
      <3>. HIDE DEF n, t, r
      <3>. QED BY <3>1, <3>2, <3>3, <1>1, <1>4 DEF Steps
    <2>. QED BY <2>1, <2>2
  <1>6. /\ step' = [step EXCEPT ![p] = t] /\ at' = [at EXCEPT ![p] = n]
        /\ result' = [result EXCEPT ![p] = r] /\ kind' = [kind EXCEPT ![p] = kind[p]]
    BY DEF Continue, Goto, StartupInv, StartTypes
  <1>. HIDE DEF n, t, r
  <1>. QED BY <1>1, <1>5, <1>6, MoveKeepsInv

\* A step that leaves the schema alone.
LEMMA StepKeepsInv ==
  ASSUME StartupInv, NEW p \in Processes, UNCHANGED <<file, env, schema, kind, at>>,
         NEW s \in Steps, NEW r \in Results,
         step' = [step EXCEPT ![p] = s], result' = [result EXCEPT ![p] = r],
         held' \subseteq Processes, held' \ {p} \subseteq held,
         s = "open" => p \notin held',
         s = "away" => p \notin held' \/ (file.ledger = "postgres" /\ r = "unreachable"),
         s \in {"open", "storage"} => step[p] \in {"load", "open", "storage"},
         s = "look" => step[p] \in {"load", "open", "storage", "look"},
         s = "create" => step[p] = "look",
         s = "work" => step[p] = "work",
         s = "serve" => step[p] = "work" /\ kind[p] = "server",
         s # "load", r = "ok" => result[p] = "ok" \/ kind[p] # "init"
  PROVE  StartupInv'
  <1>1. Here' = Here
    BY DEF Here, Expand
  <1>2. StartTypes'
    BY DEF StartupInv, StartTypes
  <1>3. MigratedSoFar'
    <2>1. \A i \in 1..4 : ~(i < 1)
      OBVIOUS
    <2>2. \A q \in Processes : step'[q] \in {"load", "open", "storage"} => at[q] = 1
      BY DEF StartupInv, StartTypes, MigratedSoFar
    <2>3. \A q \in Processes : step'[q] \in {"look", "create"} =>
            \A i \in 1..4 : i < at[q] => Objects[i] \in schema[Here]
      BY <2>1 DEF StartupInv, StartTypes, MigratedSoFar
    <2>. QED BY <1>1, <2>2, <2>3 DEF MigratedSoFar
  <1>4. NotYetOpen' /\ ServersServe' /\ EndedIsClosed'
    BY DEF StartupInv, StartTypes, NotYetOpen, ServersServe, EndedIsClosed, At
  <1>5. ServesOnSchema' /\ InitServesServers'
    BY <1>1 DEF StartupInv, StartTypes, ServesOnSchema, InitServesServers, Complete, Here
  <1>. QED BY <1>2, <1>3, <1>4, <1>5 DEF StartupInv

LEMMA ProceedKeepsInv ==
  ASSUME StartupInv, NEW p \in Processes, Proceed(p)
  PROVE  StartupInv'
  <1>0. /\ UNCHANGED <<file, env>> /\ result[p] \in Results /\ held \subseteq Processes
        /\ result = [result EXCEPT ![p] = result[p]]
        /\ step[p] \in {"load", "open"} => p \notin held
    BY DEF Proceed, StartupInv, StartTypes, NotYetOpen
  <1>1. CASE LoadConfig(p)
    <2>1. CASE Goto(p, "open") /\ UNCHANGED result
      BY <1>0, <1>1, <2>1, StepKeepsInv DEF LoadConfig, Goto, At, Steps
    <2>2. CASE Return(p, "refused")
      BY <1>0, <1>1, <2>2, StepKeepsInv DEF LoadConfig, Return, Goto, At, Steps, Results
    <2>. QED BY <1>1, <2>1, <2>2 DEF LoadConfig
  <1>2. CASE OpenLedger(p)
    BY <1>0, <1>2, StepKeepsInv DEF OpenLedger, Goto, At, Steps
  <1>3. CASE OpenStorage(p)
    BY <1>0, <1>3, StepKeepsInv DEF OpenStorage, Goto, At, Steps
  <1>4. CASE Look(p)
    <2>1. CASE Object(p) \in Schema(p) /\ Continue(p, "look")
      BY <1>0, <1>4, <2>1, ContinueKeepsInv DEF Look, At, Schema, LedgerOf, Here, StartupInv, StartTypes
    <2>2. CASE Goto(p, "create") /\ UNCHANGED <<at, result>>
      BY <1>0, <1>4, <2>2, StepKeepsInv DEF Look, Goto, At, Steps
    <2>. QED BY <1>4, <2>1, <2>2 DEF Look
  <1>5. CASE Create(p)
    <2>0. at[p] \in 1..4 /\ Here \in Locations /\ schema \in [Locations -> SUBSET AllObjects]
      BY HereIsALocation DEF StartupInv, StartTypes
    <2>. DEFINE s == IF ~IsLast(p) /\ Objects[at[p] + 1].table = Object(p).table THEN "create" ELSE "look"
    <2>1. CASE /\ schema' = [schema EXCEPT ![Here] = @ \cup {Object(p)}]
               /\ Continue(p, s) /\ UNCHANGED held
      <3>1. Object(p) \in AllObjects
        BY <2>0, ObjectsFour DEF Object, AllObjects
      <3>2. /\ schema' \in [Locations -> SUBSET AllObjects]
            /\ \A l \in Locations : schema[l] \subseteq schema'[l]
            /\ Object(p) \in schema'[Here]
        BY <2>0, <2>1, <3>1
      <3>3. s \in {"look", "create"}
        OBVIOUS
      <3>. HIDE DEF s
      <3>. QED BY <1>0, <1>5, <2>1, <3>2, <3>3, ContinueKeepsInv DEF Create, At
    <2>2. CASE Object(p) \in schema[Here] /\ Continue(p, "look") /\ UNCHANGED <<held, schema>>
      BY <1>0, <1>5, <2>0, <2>2, ContinueKeepsInv DEF Create, At
    <2>3. CASE GiveUp(p, "exists") /\ UNCHANGED <<at, schema>>
      BY <1>0, <1>5, <2>3, StepKeepsInv DEF Create, GiveUp, Return, Goto, Steps, Results
    <2>. QED BY <1>5, <2>1, <2>2, <2>3 DEF Create, Schema, LedgerOf, Here
  <1>6. CASE BuildRouter(p)
    BY <1>0, <1>6, StepKeepsInv DEF BuildRouter, Goto, At, Steps
  <1>7. CASE CloseLedger(p)
    BY <1>0, <1>7, StepKeepsInv DEF CloseLedger, Goto, At, Steps
  <1>. QED BY <1>1, <1>2, <1>3, <1>4, <1>5, <1>6, <1>7 DEF Proceed

LEMMA NextKeepsInv == ASSUME StartupInv, [Next]_vars PROVE StartupInv'
  <1>0. /\ held \subseteq Processes
        /\ \A p \in Processes : result[p] \in Results /\ result = [result EXCEPT ![p] = result[p]]
    BY DEF StartupInv, StartTypes
  <1>1. ASSUME NEW p \in Processes, NEW k \in Kinds, Start(p, k), UNCHANGED <<file, env>>
        PROVE  StartupInv'
    <2>1. /\ step' = [step EXCEPT ![p] = "load"] /\ kind' = [kind EXCEPT ![p] = k]
          /\ at' = [at EXCEPT ![p] = 1] /\ result' = [result EXCEPT ![p] = None]
          /\ schema' \in [Locations -> SUBSET AllObjects]
          /\ \A l \in Locations : schema[l] \subseteq schema'[l]
          /\ held' = held \ {p} /\ None # "ok"
      BY <1>1, NoneIsNoResult DEF Start, Goto, At, StartupInv, StartTypes
    <2>2. "load" \in Steps /\ None \in Results /\ 1 \in 1..4
      BY DEF Steps, Results
    <2>. QED BY <1>0, <1>1, <2>1, <2>2, MoveKeepsInv
  <1>2. ASSUME NEW p \in Processes, Ends(p), UNCHANGED <<file, env>>
        PROVE  StartupInv'
    <2>1. PICK r \in {"ok", "failed"} : result' = [result EXCEPT ![p] = r]
      BY <1>2 DEF Ends
    <2>2. kind[p] # "init"
      BY <1>2 DEF Ends, At, StartupInv, ServersServe
    <2>. QED BY <1>0, <1>2, <2>1, <2>2, StepKeepsInv DEF Ends, Goto, At, Steps, Results
  <1>3. ASSUME NEW p \in Processes, CallFails(p), UNCHANGED <<file, env>>
        PROVE  StartupInv'
    <2>1. CASE At(p, "open") /\ Return(p, "failed") /\ UNCHANGED held
      BY <1>0, <1>3, <2>1, StepKeepsInv
      DEF CallFails, Return, Goto, At, Steps, Results, StartupInv, NotYetOpen
    <2>2. CASE GiveUp(p, "failed")
      BY <1>0, <1>3, <2>2, StepKeepsInv DEF CallFails, GiveUp, Return, Goto, Steps, Results
    <2>3. CASE /\ At(p, "open") /\ file.ledger = "postgres"
               /\ Return(p, "unreachable") /\ held' = held \cup {p}
      BY <1>0, <1>3, <2>3, StepKeepsInv DEF CallFails, Return, Goto, At, Steps, Results
    <2>. QED BY <1>3, <2>1, <2>2, <2>3 DEF CallFails
  <1>4. ASSUME NEW p \in Processes, Dies(p), UNCHANGED <<file, env>>
        PROVE  StartupInv'
    BY <1>0, <1>4, NoneIsNoResult, StepKeepsInv DEF Dies, Return, Goto, Steps, Results
  <1>5. CASE UNCHANGED vars
    <2>1. Here' = Here
      BY <1>5 DEF vars, Here, Expand
    <2>. QED
      BY <1>5, <2>1
      DEF vars, StartupInv, StartTypes, MigratedSoFar, NotYetOpen, ServersServe, At,
          ServesOnSchema, InitServesServers, EndedIsClosed, Complete, Here
  <1>. QED BY <1>1, <1>2, <1>3, <1>4, <1>5, ProceedKeepsInv DEF Next, Failure

LEMMA StartupCorrect == Spec => []StartupInv
  <1>1. Init => StartupInv
    BY StartupInit
  <1>2. StartupInv /\ [Next]_vars => StartupInv'
    BY NextKeepsInv
  <1>. QED BY <1>1, <1>2, PTL DEF Spec

\* Whatever starts collide, fail or die, a command that works on the ledger has
\* the whole schema.
THEOREM ServesOnSchemaTheorem == Spec => []ServesOnSchema
  BY StartupCorrect, PTL DEF StartupInv

\* A db init that succeeds has prepared the ledger of every server of its file.
THEOREM InitServesTheorem == Spec => []InitServesServers
  BY StartupCorrect, PTL DEF StartupInv

\* No way out of a command leaves its ledger open, but a ping that a PostgreSQL
\* does not answer: NewPostgres returns without the pool that it has opened.
THEOREM ClosedTheorem == Spec => []EndedIsClosed
  BY StartupCorrect, PTL DEF StartupInv
----------------------------------------------------------------------------
(* The tokens before the routes.                                             *)

\* A process past its configuration has one that loads, unless it is db init;
\* a server has put its tokens before the routes.
RouterInv ==
  /\ router \in [Processes -> [Routes -> Texts]]
  /\ \A p \in Processes : kind[p] # "init" /\ step[p] \notin {"away", "load"} => Loads
  /\ \A p \in Processes : At(p, "serve") => router[p] = Tokens

LEMMA TokenTexts ==
  ASSUME file \in Files, env \in Envs
  PROVE  Tokens \in [Routes -> Texts]
  <1>0. Given \subseteq Texts
    BY Zenon DEF Texts
  <1>1. \A v \in Vars : env[v] \in Texts
    BY <1>0 DEF Given
  <1>2. file.producerToken \in Texts /\ file.internalToken \in Texts
    BY <1>0 DEF Given
  <1>3. \A t \in Texts : Expand(t) \in Texts
    BY <1>1 DEF Expand
  <1>4. \A d \in Texts, n \in Vars \cup {""} : TokenOf(d, n) \in Texts
    BY <1>1, <1>3, Zenon DEF TokenOf
  <1>5. ProducerToken \in Texts /\ InternalToken \in Texts
    BY <1>2, <1>4, TextsAssumption, Zenon DEF ProducerToken, InternalToken
  <1>6. DebugToken \in Texts
    BY <1>5, Zenon DEF DebugToken
  <1>. QED BY <1>5, <1>6 DEF Tokens, Routes

\* A token that is named and not refused is there; one that is not named is not.
LEMMA TokenThere ==
  ASSUME NEW direct, NEW name, ~TokenRefused(direct, name)
  PROVE  TokenOf(direct, name) # "" <=> {direct, name} # {""}
  <1>1. \A t : ~Blank(t) => t # ""
    BY Zenon DEF Blank
  <1>2. name # "" => env[name] # ""
    BY <1>1 DEF TokenRefused
  <1>3. direct # "" => Expand(direct) # ""
    BY <1>1 DEF TokenRefused
  <1>4. Expand("") = ""
    BY TextsAssumption DEF Expand
  <1>. QED BY <1>2, <1>3, <1>4 DEF TokenOf

LEMMA NoTokens == [r \in Routes |-> ""] \in [Routes -> Texts]
  <1>1. \A t \in Texts : [r \in Routes |-> t] \in [Routes -> Texts]
    OBVIOUS
  <1>2. "" \in Texts
    BY Zenon DEF Texts
  <1>. QED BY <1>1, <1>2, Zenon

\* The configuration says the same as long as the file and the environment do.
LEMMA SameConfiguration ==
  ASSUME UNCHANGED <<file, env>>
  PROVE  (Loads <=> Loads') /\ Tokens' = Tokens
  <1>0. file' = file
    OBVIOUS
  <1>1. \A t : Expand(t)' = Expand(t)
    BY DEF Expand
  <1>2. \A d, n : TokenRefused(d, n)' <=> TokenRefused(d, n)
    BY <1>1, Zenon DEF TokenRefused
  <1>3. \A d, n : TokenOf(d, n)' = TokenOf(d, n)
    BY <1>1, Zenon DEF TokenOf
  <1>4. ProducerToken' = ProducerToken /\ InternalToken' = InternalToken
    BY <1>3, Zenon DEF ProducerToken, InternalToken
  <1>5. Tokens' = Tokens
    BY <1>4, Zenon DEF Tokens, DebugToken
  <1>6. (ServerValid' <=> ServerValid) /\ (Blank(file.hotWindow)' <=> Blank(file.hotWindow))
    BY <1>0, Zenon DEF ServerValid, Blank
  <1>7. (LedgerValid' <=> LedgerValid) /\ (StorageValid' <=> StorageValid) /\ (ReplayValid' <=> ReplayValid)
    BY <1>1, Zenon DEF LedgerValid, StorageValid, ReplayValid
  <1>. QED BY <1>2, <1>5, <1>6, <1>7 DEF Loads

LEMMA RouterInit == ASSUME Init PROVE RouterInv
  <1>1. router \in [Processes -> [Routes -> Texts]]
    BY NoTokens, Zenon DEF Init
  <1>2. \A p \in Processes : step[p] = "away"
    BY DEF Init
  <1>. QED BY <1>1, <1>2 DEF RouterInv, At

LEMMA RouterStep ==
  ASSUME StartupInv, RouterInv, [Next]_vars
  PROVE  RouterInv'
  <1>. USE DEF RouterInv, StartupInv, StartTypes, At, Goto
  <1>1. file' = file /\ env' = env
    BY DEF Next, Proceed, Failure, vars
  <1>2. (Loads <=> Loads') /\ Tokens' = Tokens
    BY <1>1, SameConfiguration
  <1>3. ASSUME NEW p \in Processes, UNCHANGED <<kind, router>>,
               \A q \in Processes \ {p} : step'[q] = step[q],
               step'[p] # "serve",
               step'[p] \notin {"away", "load"} /\ kind[p] # "init"
                 => step[p] \notin {"away", "load"} \/ Loads
        PROVE  RouterInv'
    BY <1>2, <1>3
  <1>4. ASSUME NEW p \in Processes, BuildRouter(p)  PROVE RouterInv'
    <2>1. Tokens \in [Routes -> Texts]
      BY TokenTexts
    <2>. QED BY <1>2, <1>4, <2>1 DEF BuildRouter
  <1>5. ASSUME NEW p \in Processes, NEW k \in Kinds, Start(p, k)  PROVE RouterInv'
    <2>1. PICK none \in [Routes -> Texts] : router' = [router EXCEPT ![p] = none]
      BY <1>5, NoTokens, Zenon DEF Start
    <2>2. UNCHANGED file /\ step' = [step EXCEPT ![p] = "load"] /\ kind' = [kind EXCEPT ![p] = k]
      BY <1>1, <1>5, Zenon DEF Start
    <2>. QED BY <1>2, <2>1, <2>2
  <1>6. ASSUME NEW p \in Processes,
               LoadConfig(p) \/ OpenLedger(p) \/ OpenStorage(p) \/ CloseLedger(p) \/ Ends(p)
                 \/ CallFails(p) \/ Dies(p)
        PROVE  RouterInv'
    BY <1>3, <1>6
    DEF LoadConfig, OpenLedger, OpenStorage, CloseLedger, Ends, CallFails, Dies, Return, GiveUp
  <1>7. ASSUME NEW p \in Processes, Look(p) \/ Create(p)  PROVE RouterInv'
    <2>1. step[p] \in {"look", "create"} /\ UNCHANGED <<kind, router>>
      BY <1>7 DEF Look, Create
    <2>2. PICK t \in {"away", "look", "create", "work", "close"} : step' = [step EXCEPT ![p] = t]
      <3>1. ASSUME NEW s \in {"look", "create"}, Continue(p, s)
            PROVE  \E t \in {"look", "create", "work", "close"} : step' = [step EXCEPT ![p] = t]
        BY <3>1 DEF Continue
      <3>2. CASE Goto(p, "create") \/ GiveUp(p, "exists")
        BY <3>2 DEF GiveUp, Return
      <3>. QED BY <1>7, <3>1, <3>2 DEF Look, Create
    <2>. QED BY <1>3, <2>1, <2>2
  <1>8. CASE UNCHANGED vars
    BY <1>2, <1>8 DEF vars
  <1>. QED BY <1>4, <1>5, <1>6, <1>7, <1>8 DEF Next, Proceed, Failure

LEMMA RouterCorrect == Spec => [](StartupInv /\ RouterInv)
  <1>1. Init => RouterInv
    BY RouterInit
  <1>2. StartupInv /\ RouterInv /\ [Next]_vars => RouterInv'
    BY RouterStep
  <1>. QED BY StartupCorrect, <1>1, <1>2, PTL DEF Spec

\* Every variable of a start keeps to its type, the tokens included.
THEOREM StartupTypes == Spec => []TypeOK
  <1>1. StartupInv /\ RouterInv => TypeOK
    BY ObjectsFour DEF StartupInv, RouterInv, StartTypes, TypeOK, Steps, Results
  <1>. QED BY RouterCorrect, <1>1, PTL

\* Whatever the file and the environment hold, a server that runs asks for a
\* token exactly on the routes for which the file names one, and takes the
\* producer's on the debug routes when there is no other, unless it has a blank
\* in it, which no header can hold.
THEOREM RoutesAskForTokensTheorem == Spec => []RoutesAskForTokens
  <1>1. ASSUME StartupInv, RouterInv  PROVE RoutesAskForTokens
    <2>. SUFFICES ASSUME NEW p \in Processes, At(p, "serve")
                  PROVE  /\ Opens(p, "producer", <<>>) <=> ~Named.producer
                         /\ Opens(p, "internal", <<>>) <=> ~Named.internal
                         /\ Opens(p, "debug", <<>>) <=> (~Named.producer /\ ~Named.internal)
                         /\ (Named.producer /\ ~Named.internal)
                              => \A s \in Bearer : Opens(p, "debug", <<s, ProducerToken>>)
                                                     <=> ProducerToken \notin Spaced
      BY DEF RoutesAskForTokens
    <2>1. Loads /\ router[p] = Tokens
      BY <1>1 DEF StartupInv, ServersServe, RouterInv, At
    <2>2. /\ ProducerToken # "" <=> Named.producer
          /\ InternalToken # "" <=> Named.internal
      <3>1. /\ ~TokenRefused(file.producerToken, file.producerTokenEnv)
            /\ ~TokenRefused(file.internalToken, file.internalTokenEnv)
        BY <2>1 DEF Loads
      <3>. QED BY <3>1, TokenThere, Zenon DEF ProducerToken, InternalToken, Named
    <2>3. /\ router[p]["producer"] = ProducerToken /\ router[p]["internal"] = InternalToken
          /\ router[p]["debug"] = DebugToken
      BY <2>1 DEF Tokens
    <2>4. \A r \in Routes : Opens(p, r, <<>>) <=> router[p][r] = ""
      BY DEF Opens
    <2>5. \A r \in Routes, s \in Bearer :
            router[p][r] # "" => (Opens(p, r, <<s, router[p][r]>>) <=> router[p][r] \notin Spaced)
      <3>1. \A s, t : Len(<<s, t>>) = 2 /\ <<s, t>>[1] = s /\ <<s, t>>[2] = t
        OBVIOUS
      <3>2. \A s \in Bearer : s \notin Spaced
        BY TextsAssumption, Zenon
      <3>3. \A i \in 1..2 : i = 1 \/ i = 2
        OBVIOUS
      <3>4. 1 \in 1..2 /\ 2 \in 1..2
        OBVIOUS
      <3>. SUFFICES ASSUME NEW r \in Routes, NEW s \in Bearer, router[p][r] # ""
                    PROVE  Opens(p, r, <<s, router[p][r]>>) <=> router[p][r] \notin Spaced
        OBVIOUS
      <3>. DEFINE t == router[p][r]
                  header == <<s, t>>
      <3>5. Len(header) = 2 /\ header[1] = s /\ header[2] = t
        BY <3>1
      <3>6. (\A i \in 1..2 : header[i] \notin Spaced) <=> t \notin Spaced
        <4>. HIDE DEF header, t
        <4>. QED BY <3>2, <3>3, <3>4, <3>5, Zenon
      <3>7. Opens(p, r, header) <=> (Len(header) = 2 /\ header[1] \in Bearer /\ header[2] = t
                                       /\ \A i \in 1..2 : header[i] \notin Spaced)
        BY DEF Opens
      <3>. HIDE DEF header, t
      <3>8. Opens(p, r, header) <=> t \notin Spaced
        BY <3>5, <3>6, <3>7
      <3>. QED BY <3>8 DEF header, t
    <2>6. ASSUME Named.producer, ~Named.internal
          PROVE  \A s \in Bearer : Opens(p, "debug", <<s, ProducerToken>>) <=> ProducerToken \notin Spaced
      <3>1. "debug" \in Routes
        BY DEF Routes
      <3>2. router[p]["debug"] = ProducerToken /\ router[p]["debug"] # ""
        BY <2>2, <2>3, <2>6, Zenon DEF DebugToken
      <3>. QED BY <2>5, <3>1, <3>2, Zenon
    <2>. QED BY <2>2, <2>3, <2>4, <2>6, Zenon DEF Routes, DebugToken
  <1>. QED BY RouterCorrect, <1>1, PTL
=============================================================================
