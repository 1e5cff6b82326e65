------------------------------ MODULE Startup ------------------------------
(***************************************************************************)
(* How a command gets to work: internal/config loads and checks the file,  *)
(* internal/runtime opens the ledger and the archive and migrates the      *)
(* schema, internal/cli closes again what was opened, and internal/api     *)
(* puts the tokens before the routes.  Processes start at any time, on one *)
(* ledger, with one file and one environment.                              *)
(***************************************************************************)
EXTENDS Naturals, Sequences, FiniteSets

CONSTANTS Processes,  \* what may be run at the same time
          Files,      \* the configuration files of the instance
          Envs,       \* and the environments: variable -> value, "" if unset
          Vars,       \* a text that is in Vars refers to that variable
          Spaced,     \* the texts with a blank in them: strings.Fields divides them
          None

ASSUME NoneIsNoResult == None \notin {"ok", "refused", "failed", "unreachable", "exists"}

\* The spellings of the scheme that EqualFold takes.
Bearer == {"Bearer", "bearer", "BEARER"}

\* The variables a file names are among those of the environments; no variable
\* has an empty name.
ASSUME TextsAssumption ==
  /\ "" \notin Vars /\ Bearer \cap Spaced = {}
  /\ \A f \in Files : {f.producerTokenEnv, f.internalTokenEnv} \subseteq Vars \cup {""}

VARIABLES file,    \* the configuration file
          env,     \* the environment
          schema,  \* location -> what of Objects exists there
          kind,    \* process -> what its command is
          step,    \* process -> what it does next, "away" before and after
          at,      \* process -> the next of Objects to migrate
          held,    \* processes that have a ledger open
          router,  \* process -> route -> the token before it, "" for none
          result   \* process -> how its last command ended, or None
vars == <<file, env, schema, kind, step, at, held, router, result>>

\* `db init`, `server run` and what else works on the ledger.
Kinds == {"init", "server", "command"}
Routes == {"producer", "internal", "debug"}

\* What AutoMigrate creates of Event, Attempt and ReplayWatermark, in its
\* order; the unique index stands for the other indexes as well.
Objects ==
  <<[table |-> "ingest_event", index |-> "none"], [table |-> "ingest_event", index |-> "unique event_id"],
    [table |-> "ingest_attempt", index |-> "none"], [table |-> "replay_watermark", index |-> "none"]>>
AllObjects == {Objects[i] : i \in DOMAIN Objects}

----------------------------------------------------------------------------
(* The configuration. *)

Blank(t) == t \in {"", " "}
\* os.ExpandEnv
Expand(t) == IF t \in Vars THEN env[t] ELSE t

\* A slip: a secret that resolves to nothing is as good as none.
NeverRefused(direct, name) == FALSE

\* expandOptionalSecret of the token, tokenFromEnv of the variable named.
TokenRefused(direct, name) ==
  \/ direct # "" /\ Blank(Expand(direct))
  \/ name # "" /\ Blank(env[name])

TokenOf(direct, name) == IF name # "" THEN env[name] ELSE Expand(direct)
ProducerToken == TokenOf(file.producerToken, file.producerTokenEnv)
InternalToken == TokenOf(file.internalToken, file.internalTokenEnv)

Ports == 1..65535
ServerValid == file.host # "" /\ file.port \in Ports

LedgerValid == file.ledger \in {"sqlite", "postgres"} /\ Expand(file.address) # ""

StorageValid ==
  \/ file.storage = "filesystem" /\ Expand(file.root) # ""
  \/ file.storage = "s3" /\ Expand(file.bucket) # "" /\ Expand(file.region) # ""

ReplayValid == file.defaultLimit >= 1 /\ file.maxLimit >= file.defaultLimit

\* Load.  file.unknown are the sections with a key that is not known.
Loads ==
  /\ file.unknown = {}
  /\ ~TokenRefused(file.producerToken, file.producerTokenEnv)
  /\ ~TokenRefused(file.internalToken, file.internalTokenEnv)
  /\ ServerValid /\ LedgerValid /\ StorageValid /\ ReplayValid
  /\ Blank(file.hotWindow)

\* LoadLedger leaves the other sections undecoded.
LoadsLedger == file.unknown \cap {"top", "ledger"} = {} /\ LedgerValid

\* A slip: db init takes the path as it is written.
InitUnexpanded(k) == IF k = "init" THEN file.address ELSE Expand(file.address)

\* Where the ledger is: its path from the directory of the file, or its DSN.
LedgerOf(k) == Expand(file.address)

\* What a token may be.
Given == {f.producerToken : f \in Files} \cup {f.internalToken : f \in Files} \cup {e[v] : e \in Envs, v \in Vars}
Texts == {""} \cup Given

Locations == {f.address : f \in Files} \cup {e[v] : e \in Envs, v \in Vars}

----------------------------------------------------------------------------

TypeOK ==
  /\ file \in Files /\ env \in Envs
  /\ schema \in [Locations -> SUBSET AllObjects]
  /\ kind \in [Processes -> Kinds]
  /\ step \in [Processes -> {"away", "load", "open", "storage", "look", "create", "work", "serve", "close"}]
  /\ at \in [Processes -> DOMAIN Objects] /\ held \subseteq Processes
  /\ router \in [Processes -> [Routes -> Texts]]
  /\ result \in [Processes -> {None, "ok", "refused", "failed", "unreachable", "exists"}]

Init ==
  /\ file \in Files /\ env \in Envs
  /\ schema = [l \in Locations |-> {}]
  /\ kind = [p \in Processes |-> "server"]
  /\ step = [p \in Processes |-> "away"]
  /\ at = [p \in Processes |-> 1] /\ held = {}
  /\ router = [p \in Processes |-> [r \in Routes |-> ""]]
  /\ result = [p \in Processes |-> None]

At(p, s) == step[p] = s
Goto(p, s) == step' = [step EXCEPT ![p] = s]
\* The command returns; what it did not close stays open until its process ends.
Return(p, r) == Goto(p, "away") /\ result' = [result EXCEPT ![p] = r]
Schema(p) == schema[LedgerOf(kind[p])]

Start(p, k) ==
  /\ At(p, "away") /\ Goto(p, "load")
  /\ kind' = [kind EXCEPT ![p] = k]
  /\ result' = [result EXCEPT ![p] = None]
  /\ at' = [at EXCEPT ![p] = 1]
  /\ router' = [router EXCEPT ![p] = [r \in Routes |-> ""]]
  /\ held' = held \ {p}
  /\ UNCHANGED schema

LoadConfig(p) ==
  /\ At(p, "load")
  /\ IF (IF kind[p] = "init" THEN LoadsLedger ELSE Loads)
       THEN Goto(p, "open") /\ UNCHANGED result
       ELSE Return(p, "refused")
  /\ UNCHANGED <<schema, kind, at, held, router>>

\* newLedger
OpenLedger(p) ==
  /\ At(p, "open")
  /\ held' = held \cup {p}
  /\ Goto(p, IF kind[p] = "init" THEN "look" ELSE "storage")
  /\ UNCHANGED <<schema, kind, at, router, result>>

\* newStorage
OpenStorage(p) ==
  /\ At(p, "storage") /\ Goto(p, "look")
  /\ UNCHANGED <<schema, kind, at, held, router, result>>

\* Initialize looks for each table and index and creates what is missing; the
\* indexes of a table that it has just created are created without a look.
Object(p) == Objects[at[p]]
IsLast(p) == at[p] = Len(Objects)

\* A slip: the migration goes on after its last object.
GoOn(p, s) == at' = [at EXCEPT ![p] = @ + 1] /\ Goto(p, s) /\ UNCHANGED result

Continue(p, s) ==
  /\ at' = [at EXCEPT ![p] = IF IsLast(p) THEN 1 ELSE @ + 1]
  /\ Goto(p, IF ~IsLast(p) THEN s ELSE IF kind[p] = "init" THEN "close" ELSE "work")
  /\ result' = IF IsLast(p) /\ kind[p] = "init" THEN [result EXCEPT ![p] = "ok"] ELSE result

\* A slip: the service starts on whatever schema is there.
AssumeThere(p) == At(p, "look") /\ Continue(p, "look") /\ UNCHANGED <<schema, kind, held, router>>

\* A slip: the statements are issued without a look.
CreateAll(p) ==
  /\ At(p, "look") /\ Goto(p, "create")
  /\ UNCHANGED <<schema, kind, at, held, router, result>>

Look(p) ==
  /\ At(p, "look")
  /\ \/ Object(p) \in Schema(p) /\ Continue(p, "look")
     \/ Object(p) \notin Schema(p) /\ Goto(p, "create") /\ UNCHANGED <<at, result>>
  /\ UNCHANGED <<schema, kind, held, router>>

\* A slip: the ledger stays open.
ReturnOnly(p, r) == Return(p, r) /\ UNCHANGED held

\* NewService and InitializeLedger close the ledger when they fail.
GiveUp(p, r) == Return(p, r) /\ held' = held \ {p}

\* What another process created in the meantime makes the statement fail,
\* unless it was written IF NOT EXISTS.
Create(p) ==
  /\ At(p, "create")
  /\ \/ /\ Object(p) \notin Schema(p)
        /\ schema' = [schema EXCEPT ![LedgerOf(kind[p])] = @ \cup {Object(p)}]
        /\ Continue(p, IF ~IsLast(p) /\ Objects[at[p] + 1].table = Object(p).table
                         THEN "create" ELSE "look")
        /\ UNCHANGED held
     \/ /\ Object(p) \in Schema(p)
        /\ \/ Continue(p, "look") /\ UNCHANGED held
           \/ GiveUp(p, "exists") /\ UNCHANGED at
        /\ UNCHANGED schema
  /\ UNCHANGED <<kind, router>>

DebugToken == IF InternalToken # "" THEN InternalToken ELSE ProducerToken
Tokens == [producer |-> ProducerToken, internal |-> InternalToken, debug |-> DebugToken]

\* runServer: NewRouter, with the debug routes of SIGINT_ENV=debug.
BuildRouter(p) ==
  /\ At(p, "work") /\ kind[p] = "server" /\ Goto(p, "serve")
  /\ router' = [router EXCEPT ![p] = Tokens]
  /\ UNCHANGED <<schema, kind, at, held, result>>

\* A server stops; another command has parsed its arguments, called the service
\* and printed the answer, or failed in one of these.
Ends(p) ==
  /\ \/ At(p, "serve")
     \/ At(p, "work") /\ kind[p] = "command"
  /\ Goto(p, "close")
  /\ \E r \in {"ok", "failed"} : result' = [result EXCEPT ![p] = r]
  /\ UNCHANGED <<schema, kind, at, held, router>>

\* The deferred Close.
CloseLedger(p) ==
  /\ At(p, "close") /\ Goto(p, "away")
  /\ held' = held \ {p}
  /\ UNCHANGED <<schema, kind, at, router, result>>

\* Directory, database, SDK configuration or a statement of the migration.  When
\* the ping fails, NewPostgres returns without the pool that it has opened.
CallFails(p) ==
  /\ \/ At(p, "open") /\ Return(p, "failed") /\ UNCHANGED held
     \/ At(p, "open") /\ file.ledger = "postgres" /\ Return(p, "unreachable") /\ held' = held \cup {p}
     \/ step[p] \in {"storage", "look", "create"} /\ GiveUp(p, "failed")
  /\ UNCHANGED <<schema, kind, at, router>>

\* The system closes what a process that dies has open.
Dies(p) ==
  /\ ~At(p, "away") /\ Return(p, None)
  /\ held' = held \ {p}
  /\ UNCHANGED <<schema, kind, at, router>>

Proceed(p) ==
  /\ \/ LoadConfig(p) \/ OpenLedger(p) \/ OpenStorage(p) \/ Look(p) \/ Create(p)
     \/ BuildRouter(p) \/ CloseLedger(p)
  /\ UNCHANGED <<file, env>>

Failure == \E p \in Processes : (CallFails(p) \/ Dies(p)) /\ UNCHANGED <<file, env>>

Next ==
  \/ \E p \in Processes : \/ Proceed(p)
                          \/ /\ Ends(p) \/ \E k \in Kinds : Start(p, k)
                             /\ UNCHANGED <<file, env>>
  \/ Failure

\* Calls return; nobody has to start or to stop anything.
Spec == Init /\ [][Next]_vars /\ \A p \in Processes : WF_vars(Proceed(p))

----------------------------------------------------------------------------

Complete(l) == AllObjects \subseteq schema[l]

\* Whatever starts collided or died half-way, a command that works on the
\* ledger has every table and the unique index that ingestion relies on.
ServesOnSchema == \A p \in Processes : step[p] \in {"work", "serve"} => Complete(Expand(file.address))

\* `db init` prepares the ledger that a server with the same file opens: when
\* it has reported success, no start finds anything to create there.
InitServesServers ==
  \A p \in Processes : kind[p] = "init" /\ result[p] = "ok" => Complete(Expand(file.address))

\* Every path out of a command, also out of a half-built service, closes the
\* ledger, but for one: the pool of a PostgreSQL that does not answer the ping
\* stays open until the process ends.
EndedIsClosed ==
  \A p \in held : At(p, "away") => file.ledger = "postgres" /\ result[p] = "unreachable"

Named == [producer |-> {file.producerToken, file.producerTokenEnv} # {""},
          internal |-> {file.internalToken, file.internalTokenEnv} # {""}]

\* validBearerToken: the words of the Authorization header, in none of which
\* strings.Fields leaves a blank.
Opens(p, r, header) ==
  \/ router[p][r] = ""
  \/ /\ Len(header) = 2 /\ header[1] \in Bearer /\ header[2] = router[p][r]
     /\ \A i \in 1..2 : header[i] \notin Spaced

\* A server that runs asks for a token exactly on the routes for which the file
\* names one, however it names it and whatever the environment holds; the
\* debug routes take the producer's token when there is no internal one, and no
\* header opens a route whose token has a blank in it.
RoutesAskForTokens ==
  \A p \in Processes : At(p, "serve") =>
    /\ Opens(p, "producer", <<>>) <=> ~Named.producer
    /\ Opens(p, "internal", <<>>) <=> ~Named.internal
    /\ Opens(p, "debug", <<>>) <=> (~Named.producer /\ ~Named.internal)
    /\ (Named.producer /\ ~Named.internal) =>
         \A s \in Bearer : Opens(p, "debug", <<s, ProducerToken>>) <=> ProducerToken \notin Spaced

\* When failures stop, a server that is started again and again with a file
\* that loads gets to serve: no partial schema and no collision keeps it out.
StartsConverge ==
  \A p \in Processes :
    (<>[][~Failure]_vars /\ Loads /\ []<>(At(p, "load") /\ kind[p] = "server")) => <>At(p, "serve")
=============================================================================
