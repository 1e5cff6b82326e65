# A TLA+ model of sigint

sigint collects events over HTTP, keeps a raw copy of each in an archive (a
directory or an S3 bucket), records them in an SQL ledger (SQLite or
PostgreSQL) and replays the stored ones to consumers by cursor. A retention
command deletes archived rows from the ledger.

## The system's parts

| Part | Source | State | Operations | Model |
| --- | --- | --- | --- | --- |
| Event envelope | `internal/events` | none | decode, validate, canonical text, hashes | `Envelope` |
| Ingest service | `internal/ingest/service.go` | none of its own: each request carries its envelope and what its calls returned | `Ingest` | `Ingest`, `WriteOnce` |
| Retention | `internal/ingest/retention.go` | none of its own | `RetainHotEvents` | `Retention` |
| Replay | `internal/ingest/service.go`, `internal/events/replay.go` | none; the consumer keeps its cursor | `ReplayEvents` | `Replay` |
| SQL ledger | `internal/ledger/gorm.go` | event rows, attempts, replay watermark | one statement or transaction per method | `Ledger` |
| Archive | `internal/storage` | one guard per event id, one object per path | `WriteRawEvent`, `ConfirmRawEvent` | `Adapters` call by call, `RawWrites` and `Archive` as the service sees it |
| HTTP API | `internal/api` | none | routes, batches, status codes, tokens | `HttpServer`; inside, a request is a handler of `Ingest` or a consumer of `Replay` |
| Debug bus | `internal/debugstream` | history, subscribers, closed flag | subscribe, publish, close | `DebugBus` |
| Server lifecycle | `internal/cli/server.go` | processes, pid file | shutdown; background start, stop | `HttpServer`; `Lifecycle` |
| Configuration, wiring, commands | `internal/config`, `internal/runtime`, `internal/cli` | the schema of the ledger; open handles | load, validate, open, migrate, work, close | `Startup`; the switches that change the service are constants of `Ingest` and `Envelope` |
| Debug page, generated API text, test support | `internal/api/controller/debug_*.go`, `docs`, `internal/testsupport` | none | none | left out: text and fixtures |

The service's parts meet only in the ledger and the archive. A request makes a sequence
of calls, each of them atomic, and nothing holds a lock or a transaction across
two calls; several processes (servers, `ingest file`, `retention run`) may work
on one ledger and one archive. So the hard behaviours are:

* **Interleaving.** Between two calls of one request any other request, a
  retention command or a consumer may act on the same event id.
* **Two stores without a common transaction.** A failure or a crash leaves the
  archive ahead of the ledger (S3, archive first) or the ledger ahead of the
  archive (filesystem, row first). Only the producer's retry repairs it.
* **Lost and late calls.** A PutObject or a statement may have taken effect
  although its caller sees an error; a put may take effect after its caller has
  given up; the SDK may send one twice.
* **Locks left too early.** The debug bus sends outside its mutex, to channels
  that are closed under it.
* **Starting beside one another.** Several processes migrate one ledger, look
  and then create, and may die between a table and its unique index.
* **Processes.** A start command, its child, another server on the port and a
  stop command act on one port and one pid file.
* **Order.** Cursors are allotted when a row is inserted, rows become visible
  when they are marked stored, and the watermark is a cursor.

What makes the parts correct:

* *archive*: no two contents of one event id are archived, ever; its calls look
  atomic to the service;
* *start*: who works on a ledger finds the whole schema, closes what it opened (but for a failing ping)
  and asks for the tokens the file names;
* *ingest*: every answer, stored row and logged attempt agrees with the archive;
  a request ends; retries converge;
* *retention*: nothing leaves the ledger unless it is archived, and consumers
  below what has left are told so;
* *replay*: a consumer gets each stored event once, in the form archived;
* *debug bus*: a subscriber gets every line once, and nobody else notices it;
* *server*: it drains when told to stop; a start or a stop that reports success
  or failure has done what it says.

## Modules

| Module | What it is |
| --- | --- |
| `Envelope` | envelopes as records of identity, path, payload and the two claimed hashes; which hashes are valid, when two envelopes look alike to the service |
| `Archive` | `guard` and `object`, put-if-absent and confirmation |
| `Ledger` | `rows`, `nextCursor`, `floor`, `attempts`; one operator per SQL statement |
| `RawWrites` | the abstract specification of `WriteRawEvent`: one step for the guard, one for the object, and late puts |
| `Adapters` | `WriteRawEvent` of both adapters call by call: files, names and syncs; conditional puts, the SDK and the store; implements `RawWrites` |
| `Ingest` | `Service.Ingest`: one action per ledger or archive call, `pc[h]` naming the next call of request `h`; failing calls and crashes |
| `Retention` | `RetainHotEvents`: `ReadFloor`, `ReadCandidates`, `Confirm`, `Commit`, `Abort` |
| `Replay` | `ReplayEvents` in its two reads, `CheckFloor` and `ReadPage`, and a consumer that follows the cursors |
| `Sigint` | the three composed over one ledger and archive; fairness; all properties |
| `WriteOnce` | the abstract specification of what ingestion promises producers |
| `DebugBus` | the bus: `Publish` under the mutex, `SendTo` and `SendPanics` after it, `Subscribe`, `Unsubscribe`, `ClearHistory`, `Close` |
| `HttpServer` | over the bus: POSTs that carry events one after the other to the bus and to ingestion, debug streams, the graceful shutdown of `runServer` |
| `Lifecycle` | `server start --background` and `server stop`: commands, their child processes, the port and the pid file |
| `Startup` | how a command loads its file, opens, migrates, works and closes; the tokens before the routes |
| `MCSigint`, `MCAdapters`, `MCStartup`, `MCHttpServer`, `MCLifecycle` | the small instances of the runs |
| `SigintTypes` | proof of type correctness, and that what is archived stays |
| `ArchiveFirstProofs` | S3: the archive-first invariant and what follows from it |
| `PromiseProofs` | the ledger-first invariant, and that both orders implement `WriteOnce` |
| `ReplayWindowProofs` | deletion, the watermark and what consumers are served, with either adapter |
| `AdaptersProofs` | that both adapters implement `RawWrites` |
| `HttpServerProofs` | the registered channels are the open ones; every line once |
| `LifecycleProofs` | a failed start leaves no server but one the pid file names, a successful one saw its own listen |
| `StartupProofs` | the schema, the handles, and the tokens before the routes |

Definitions marked "A slip" are not part of the model: each is the mutated form
of the definition that follows it, and a run shows that a property notices it.

### How the model corresponds to the code

*Requests.* `Begin` is a request with a decoded envelope up to its first call
(`validateHashes`, `CanonicalJSONText`). The action named for a call is that
call and the code that decides from its result, up to the next call: `Lookup`
(`GetEvent`), `Insert` and `Reread` (the two statements of `InsertReceived`),
`Guard` and `Object` (the two writes of `WriteRawEvent`), `Cleanup` and
`Remove` (`removeFileIfContentMatches`), `Mark` and `MarkRead` (the two
statements of `MarkStored`), `RecordIt` (`RecordAttempt`), `Fail`
(`MarkFailed`). `ArchiveFirst` chooses the order: with S3 `storeInsertAndMark`,
with the filesystem `InsertReceived` and `storeAndMark`. `inserted[h]` says
which of them the request is in, since only `storeAndMark` marks the row failed.

*The archive as the service sees it.* A put-if-absent and, when the place is
taken, the comparison with what is there, are one step: what is written is not
changed afterwards, except that a filesystem guard may be removed; a request
that meets that sees a failing call. With S3 the caller of a put may stop
waiting while the put is under way (`HearsNoMore`, which is an error or a death
that abandons the put), and the put then stays in `late` until it arrives or
its place is taken; a put may also arrive before its caller hears of it
(`Arrive`). That the adapters are no worse than this is what `Adapters` shows.
Hashes are injective, so the hash of a value is the value; a hash the producer
claims may be any value.

*The adapters.* `writeFileIfAbsent` is `Look`, `Fill` (the temporary file),
`Sync`, `Link` and, when the name is taken, `Reread`; `Check` and `Remove` take a
guard back. Losing power kills every process and tears each file whose data is
not synced; names are taken to survive it. Temporary files that a dead process
leaves behind are nobody's. `writeObjectAtKey` is `Send`, `Hear` and `Read`; the
store handles a put when it likes (`Handle`), and refuses it because the place
is taken or another put for it is under way. `Resend` is the SDK's retry, whose
former copy may still arrive; when a call ends, what is on its way becomes an
orphan. Orphans that would find their place taken are forgotten, since the store
would refuse them and nobody would hear.

*Starts.* One file and one environment are fixed for all processes. A text in
`Vars` is a reference to that variable, any other stands for itself; a variable
that is unset is `""`, which is what `os.ExpandEnv` and `os.Getenv` make of it.
`LoadConfig` is `Load`, or `LoadLedger` for `db init`, which decodes the ledger
section alone; a section with an unknown key is in `file.unknown`. `OpenLedger`
and `OpenStorage` are `newLedger` and `newStorage`. `NewPostgres` opens its pool
before it pings, and returns without closing it when the ping fails: the result
is then "unreachable" and the process keeps the ledger open until it ends, which is
no later than its next `Start`.
`Look` and `Create` are `Initialize`, GORM's `AutoMigrate`: an object is created
when a look found it missing, and the indexes of a table that was just created
without a look. One unique index stands for all indexes. A statement that meets
what another process has created fails with "exists", or succeeds where it
says IF NOT EXISTS; both are allowed. Every command but `db init` is opened and
migrated before it looks at its arguments, which is why `Ends` follows `work`.
The router is that of `SIGINT_ENV=debug`, which has the most routes. `Opens` is
`validBearerToken` over the words of a header: the scheme in any case (three
spellings stand for all) and one word more; no text of `Spaced` is a word.

*The ledger.* Each statement is one step (the code uses autocommit, and one
transaction in `RetainStoredEvents`). `rows[i]` is the row with the unique
`event_id` i. `floor = 0` stands for no watermark, as the code treats both
alike: a request without a cursor counts as cursor 0. The gaps PostgreSQL
leaves in a sequence after a conflicting insert are left out. `CanInsert` is the
model's bound on cursors, which the code does not have: a new row cannot be inserted
once the ids up to `MaxCursor` are used, and the request ends with an error.

*Failures.* With `Faults`, any call of any request may fail at any time, a
failing S3 put may take effect before, later or never, a failing SQL write may
or may not have taken effect, and a request may
vanish between any two steps (the process died, or the client's context was
cancelled and no further call succeeds). There is no bound on the number of
failures. `RetentionFaults` is the same for the retention command.

*Retention.* The loop that confirms candidates is one step: archived objects
are never removed, so what a read in the loop finds is what a read at its end
would find; a failing read ends the loop early, as the code does.

*Replay limits.* A request asks with any of `AskedLimits`. `ApiLimit` is what
the controller makes of it with the configured bounds, `LedgerLimit` what the
ledger makes of that with its own maximum of 1000 (`LedgerMaxLimit`); the runs
configure an API that allows more than the ledger, as the loader does, and so
contain requests that only the ledger refuses.

*The HTTP server.* A POST of one event is a batch of one. `Item` decodes the
next event and runs `Publish` up to the release of the mutex, `Send` is one send
of its loop, `IngestItem` the whole of `Service.Ingest`, which `Ingest` opens.
A stream's loop is `Receive`, `Timer` followed by `Poll` (the bus may close
between the timer and the question), `Disconnect`, and `Finish` for the
deferred `Unsubscribe`. The bus is there, as under `SIGINT_ENV=debug`.
`runServer` is `Signal`, `CloseBus`, `Shutdown`, then `Drained` or `Deadline`.

*Processes.* A server is "booting" until `net.Listen`, and a pid is the start
command that launched it. Anything may kill a server at any time (`Die`), which
also stands for a ledger that cannot be opened and a port that is taken; a
server may hang while booting. Whoever listens on the port answers readiness.
`WritePid` and `RemovePid` write and remove the pid file, and either may fail;
`PrintStarted` and `PrintStopped` are the `writeJSON` at the end, whose error is the
command's own. A start whose pid is written and whose output fails therefore reports a
failure and leaves its server running. `ousted` is history: the starts whose pid
another command has replaced or removed.

*Replay filters* are equalities on columns that an insert takes from the
envelope; `Wanted[c]` is the set of envelopes that the filters of consumer c match,
and a consumer keeps its filters.

*The consumer* is not part of the repository. It does what the API asks of it:
it takes the last cursor of a page as its next one, and when it is told that
its window has expired it resumes at the floor the answer names.

## Runs

The runs of the service use `MCSigint`. Bounds: the event ids, envelopes, handlers, runners
and consumers below, and `MaxCursor` ids. Requests are unbounded: a handler
that has ended begins again with any envelope, so a run contains all sequences
of retries. Two handlers show every race of two requests; with S3, the late puts
of any number of former requests take part in it, and a retention command drops
rows under it, so that `MaxCursor = 2` lets a row be replaced by another. More
requests than two at a time are covered by the theorems. One event id is enough where the
property is about one id; two are used where cursors matter. Symmetry among
handlers is used in the runs without liveness. `CHECK_DEADLOCK FALSE`
because a service that nobody calls does nothing, and a server that is down
stays down.

`Server` has two publishers and two streams, the least at which a panic keeps a
line from a third party and publishers overtake one another; queues and history
hold one line instead of a thousand, so that full channels and a cut history
are common. `Adapters` has two writers, the least at which one takes a guard back that the
other has seen, and three contents of one event id, two of them at one path;
the store forgets nothing, so any number of copies of a put may be under way.
`Startup` has two processes, the least that collide in a migration, every way to
name a token, and files that are wrong in one place (two dozen), each under
four environments. `BatchLost` needs one stream and a batch of two. `Lifecycle` has two
starts, the least at which one server answers for another, and two stops.

| Run | Instance | Shows |
| --- | --- | --- |
| `S3Ingest` | 2 requests, late puts, retention, faults, two honest contents and a forged one | `ArchiveFirstInv` (the inductive invariant), `OneEnvelopePerEvent`, `StoredIsArchived`, `AckIsArchived`, `ConflictIsNotArchived`, `AuditIsArchived`, and that the service implements `WriteOnce` (`KeepsPromise`) |
| `FsIngest` | 2 requests and a consumer, faults, contents that clash in path, in payload and in both | without retention: `LedgerFirstInv` (the inductive invariant), `OneEnvelopePerEvent`, `StoredIsArchived`, `DeliveredOnce` and `KeepsPromise` for the ledger-first order |
| `Retention` | 2 requests, one retention command with faults, filesystem | `DeletedIsArchived`, `DeletedIsBelowFloor`, `FloorIsMonotone` |
| `OneWriter` | 1 request at a time, retention and a consumer that filters by name | `NothingIsSkipped`, `DeliveredIsArchived`, `TypeOK`, `ConsumersCatchUp` |
| `Progress` | 2 requests, retention, faults, under `FairSpec` | `RequestsEnd`, `RetriesConverge` |
| `Server` | 2 publishers, 2 debug streams, shutdown, under `FairSpec` | `TypeOK`, `RegisteredIsOpen`, `ExactlyOnce`, `ShutdownDrains` |
| `Lifecycle` | 2 background starts, 2 stops, under `FairSpec` | `FailedStartLeavesNoServer`, `StartedServerListened`, `StartEnds`, `StopEnds` |
| `Adapters` | 2 writers of one event id, either adapter, lost, repeated and late puts, deaths and loss of power | `TypeOK`, that the adapters implement `RawWrites` (`WritesAreAtomic`), `WritesEnd` |
| `Startup` | 2 processes of any command, every file and environment, failing calls and deaths | `TypeOK`, `ServesOnSchema`, `InitServesServers`, `EndedIsClosed`, `RoutesAskForTokens`, `StartsConverge` |
| `LateVisible` | 2 requests and a consumer | violated: `NothingIsSkipped` |
| `FsGuardLost` | 2 requests, faults, retention, filesystem | violated: `OneEnvelopePerEvent` |
| `BatchLost` | a batch of two and a debug stream | violated: `OneResultPerEvent` |

Fairness (`FairSpec` of `Sigint`): a running handler in the end takes a step, by success or
by failure (`WF` on `Proceed \/ CallFails`). The code justifies it: every S3
call carries a deadline, and SQL statements and file operations return. Nothing
is assumed of crashes, of new requests, of retention or of consumers;
`RetriesConverge` assumes in the property itself that failures stop and that
the envelope is asked for again and again, and says that it is stored, or its
sender told of a conflict, again and again: what was true once before the last failure or
retention does not count. Behaviours in which retention makes requests use up the ids are
outside it, since an insert that the bound refuses is a failing call.
`ConsumersCatchUp` assumes likewise that a consumer is given pages again and again.

In `HttpServer`, handlers and `runServer` go on and a stream's client reads what
it is sent; no client has to leave and the five seconds of `Shutdown` need not
pass, so `ShutdownDrains` rests on the bus alone. In `Lifecycle`, commands go
on, time passes, a process reacts to SIGTERM and drains within its five seconds;
the deadline of the readiness poll gets strong fairness, since the `select`
chooses at random between it and the ticker. Booting is not fair: it may hang.

In `Adapters`, a running call goes on: file operations return, and an S3 call ends
at its deadline (`WF` on `FileStep \/ PutStep`). The store and the network owe
nothing: `Handle`, `Resend`, `CopyArrives` and `OrphanArrives` need never happen.
In `Startup`, calls return (`WF` on `Proceed`); nobody has to start or stop
anything, and `StartsConverge` assumes in the property that failures stop, that
the file loads and that the server is started again and again. A collision with
another process is not a failure there: it is what the property is about.

### What the violated runs say of the code

* `LateVisible`: cursors are allotted at insert, rows become visible at
  `MarkStored`. A slow request's row is passed over by consumers that have taken
  later cursors.
* `FsGuardLost`: a request that created the guard and fails to write the object
  removes the guard, also when another request has found it and gone on. After
  retention has dropped the row as well, other content can be archived for the
  id. With S3 no guard is ever removed, and `OneEnvelopePerEvent` is a theorem.
* `BatchLost`: a debug stream ends between the release of the mutex and the send;
  the send panics on the closed channel and takes the publisher's request with
  it. The run shows it at the first event of a batch: an event is published
  before it is ingested, so nothing of the batch is, and no result is given. In the
  same way a panic at a later event leaves those before it ingested, also without
  results.

The model holds more behaviour of this kind, for which the repository makes no
promise that a run could quote. Retention passes over a row that is not stored
yet and moves the watermark above it, as consumers do in `LateVisible`. The
watermark is assigned, not raised, so that two overlapping retention commands
can leave it below deleted rows: `FloorIsMonotone` is stated of one command. The
floor check and the page are two reads, so that a page may be served for a cursor
that expired in between. A stop removes the pid file by name, also when a start
has written its own pid since.

`MarkFailed` asks nothing of the row: a request whose archive write fails turns a
row that another request has stored meanwhile into a failed one, with its URI
left in place. The acknowledged event is not replayed until somebody sends it
again, which `RetriesConverge` shows to bring it back: its mutant, which takes a row
that was stored once for a duplicate, leaves it failed for ever. A background start on an
occupied port takes its readiness from the other server, writes its own child's
pid and reports "started" before the child fails to listen; the pid file then
names no server. `StartedServerListened` is what remains: a start that has the
port to itself reports success only after its own server has listened. In
`Adapters`, a put that is refused because another is under way is taken for an
object that is there; when that other put is lost, the read back finds nothing
and the call fails although nobody holds the place. A start that fails only in its last
output leaves its server running, which `FailedStartLeavesNoServer` allows as long as
the pid file names it, and a PostgreSQL that does not answer the ping leaves its
pool open, which `EndedIsClosed` allows; the process of such a command ends
soon after.

The configuration has three habits of this kind, which `Startup` contains. The
loader accepts a `replay.max_limit` above the ledger's 1000, with which requests
fail that the API lets through. It accepts a token with a blank inside or
around it, which no `Authorization` header matches, since the router compares it
with one word (`RoutesAskForTokens` says so of the debug routes). And `db init` does not notice a mistake in the other sections.

Two more follow from retention dropping the row by which duplicates are
recognised: an event that is sent again after retention is inserted under a new
cursor and served again, and with the filesystem adapter other content for a
retained id takes the row first, so that the archived envelope itself is
answered with a conflict. A former request of the retained envelope that still
has to mark then marks the other content's row stored, with its own URI, so that
with two requests a stored row need not be archived. For the filesystem adapter `StoredIsArchived`,
`DeliveredOnce` and `KeepsPromise` are therefore stated of `FsIngest`, which has
no retention, and `DeliveredIsArchived` of `OneWriter`. With S3 the guard stands
when the row is gone: `S3Ingest` has retention, and the mutant that writes the row first
there too breaks `StoredIsArchived` and `ConflictIsNotArchived` in just these two ways.

## Proofs

The theorems are about `Spec`, for every value of the constants: any number of
processes, requests, retention commands, consumers, event ids and envelopes, any
limits, and unless said otherwise any failures and deaths. Every invariant and
every safety property of a step that a passing run checks has one. What is assumed of the
constants is named where they are declared and evaluated by the runs; a
theorem that needs more says so in its `ASSUME`.

### The archive-first order (S3)

`TypeCorrect` is the types, for either adapter; its invariant adds `Busy` (a
handler with a next call has an envelope). `ArchiveFirstCorrect` is
`ArchiveFirstInv`, which is inductive and also checked in `S3Ingest`. A guard is never
replaced (`GuardInv`), an object is its guard's envelope (`ObjectInv`), a row is
only inserted for an archived envelope (`RowInv`), a conflict was caused by a
guard (`AnswerInv`), and `HandlerInv` is what a request may rely on between two
calls. A put that is under way or late has a rightful place too: its event id
has its guard already (`LateInv`, lemmas `LateStays` and `InFlightPuts`).
`StoredIsArchived` alone is not inductive: `Mark` needs to know that the row
belongs to an archived envelope.

From it follow `OneEnvelopeTheorem`, `StoredTheorem`, `ConflictTheorem`,
`AuditTheorem` (a request that logs "stored" or "duplicate" has an archived event id,
and the archive outlives whoever logged it) and `DeliveredTheorem` (a page
shows stored rows, and what is archived stays: `ObjectsStay`), all beside any number
of retention commands. With `RequireEventHash`, `AckTheorem` and
`PromiseTheorem`: every step of the service is a step of `WriteOnce` or a
stutter (the claim is the guard, published are the archived envelopes). Without
required hashes two envelopes may claim the same hashes and the second is told
"duplicate".

### The ledger-first order (filesystem)

`LedgerFirstCorrect` is `LedgerFirstInv`, also checked in `FsIngest`. Guards may be
taken back here, so the claim is the row: guards and objects hold nothing but
the row's raw envelope (`ClaimInv`), a stored row has its object (`ClaimRowInv`), only
requests for the row's own envelope get past the ledger (`ClaimantInv`), and an answer
is true of row and archive (`TruthInv`). It does not say who holds a guard: a
request whose guard another takes back archives all the same, and does no harm while
the row stands. From it follow `OneEnvelopeFsTheorem`, `StoredFsTheorem`, `AnswersFsTheorem`
(acknowledged is archived, a conflict never is), `AuditFsTheorem`,
`DeliveredFsTheorem` and `PromiseFsTheorem`, the refinement with the row as the
claim. All assume `LedgerFirst`: the filesystem adapter, event hashes, and no retention command.
The last is needed: `FsGuardLost` and the paragraph on retention above
are what happens otherwise.

### Retention and replay, either adapter

* `DeletedTheorem`: any number of overlapping commands delete only what is
  archived. A command deletes by cursor what it confirmed by envelope, so the
  invariant (`BatchInv`) says that cursors are given out once, that a row under a
  candidate's cursor has the candidate's envelope, and that a batch about to be committed
  was confirmed.
* `FloorTheorem`, `DeletedIsBelowFloorTheorem`: the watermark never moves back, and
  every deleted cursor is below it, while at most one command runs (`OneRunner`).
  Two commands may overwrite each other's watermark, as said above.
* `DeliveredOnceTheorem`: without retention no consumer is served an event id twice.
  What was delivered is still the row of its id (`ServedInv`).
* `NothingIsSkippedTheorem`, `DeliveredOneByOneTheorem`: under `OneByOne` (one request at a
  time, no failing call, event hashes, one retention command) consumers miss no stored event that
  retention has left, and are served what is archived. A row that is
  not stored is the newest, ahead of the watermark, of every consumer and of every
  batch, and the request is about to store it; or its guard is another's, and it
  never will be (`PendingInv`). With two requests or a failing call this is what
  `LateVisible` violates.

### The adapters

`WritesAreAtomicTheorem`: every step of `Adapters` is a step of `RawWrites` or a stutter,
for any writers and envelopes. The mapping forgets files and puts, and shows guards,
objects and the call as `Ingest` sees it. Of the file system the invariant says that a file is
named after its data is on disk and that a call takes back only a guard it made
(`FileInv`); of S3, that a former copy of a put would still find its place free and
that "created" was said of what is there (`PutInv`). `AdaptersTypes` rests on
the same invariant. `AdaptersAssumption` says that a torn file, "nothing", and the replies of the
store are different things.

### The HTTP server and the bus

`RegisteredTheorem`: registered channels are the open ones. The invariant adds
that a stream that has not subscribed has no channel; the publisher sends
outside the lock and never touches a channel's state.

`ExactlyOnceTheorem`: a registered stream gets each line once, unless its channel was full
or a publisher is at it or has died of a panic. History has no line twice
(`HistoryInv`); no two requests send one line, and only to streams that have
subscribed (`SenderInv`); a stream has been sent no line that a publisher still
has for it, and every line since it subscribed was sent, is on its way or excused (`StreamInv`).
`Subscribe` copies the history and registers under one lock; this is what makes
history and channel meet without a gap. `HttpServerTypes` is the types; a
request that is sending is at an event of its batch.

### Processes

`FailedStartTheorem`, `StartedTheorem`: for any number of background starts and stops. A
start that reports a failure has taken its server with it, or the pid file names
the server until another command takes the name out. The invariant adds that a
command that has not begun has no server, that the pid a start is about to print
stands in the file or was taken out (`WrittenIsNamed`), that a stop signals only a pid it read (`SignalsAServer`), that who listens has had the
port, and that no start is answered before somebody has had it
(`AnswersAreServers`).

`ServesOnSchemaTheorem`, `InitServesTheorem`, `ClosedTheorem`: any processes, files and
environments. `ServesOnSchema` says nothing of a migration under way, so the
invariant adds `MigratedSoFar`: what a migration has passed over exists, since a
schema only grows. `NotYetOpen` and `ServersServe` say that a command has nothing to
close before it has opened the ledger, and that `db init` does not get to serve.
`RoutesAskForTokensTheorem` and `StartupTypes` add what the router holds
(`RouterInv`): a server past its configuration has one that loads, and serves
with the tokens of that file and environment. `TextsAssumption` says that the
variables a file names are among those of the environments, and that the scheme
has no blank in it. `ClosedTheorem` has one exception, the ping of `NewPostgres`.

### Only model-checked

Liveness under fairness, which the prover does not reach: `ConsumersCatchUp`, `RequestsEnd`,
`RetriesConverge`, `WritesEnd`, `StartsConverge`, `ShutdownDrains`, `StartEnds` and
`StopEnds`.

## Plan

1. *(done)* Envelope, archive, ledger, ingest, retention, replay and their
   composition; the abstract specification; type correctness and the
   archive-first invariant proved, and the refinement.
2. *(done)* `DebugBus` and `HttpServer`: the mutex, the channels and the publisher
   outside the lock, composed with batches and graceful shutdown.
3. *(done)* `Lifecycle`: background start, readiness polling, pid file, stop.
4. *(done)* `Adapters`: the archive adapters call by call, shown to implement the
   atomic writes of `RawWrites`; late puts in `Ingest` and in its proofs.
5. *(done)* `Startup`: configuration, wiring, migration and commands; its schema
   and handles proved.
6. *(done)* Proofs about retention and replay with either adapter, and the delivery
   properties for S3.
7. *(done)* Proofs about the bus, the tokens, and `Adapters` against `RawWrites`.
8. *(done)* The ledger-first invariant and its refinement of `WriteOnce`.
9. What the filesystem adapter keeps beside retention with several requests:
   `DeliveredIsArchived` is proved with one request at a time and may hold under
   less; `NothingIsSkipped` with failing calls of a single request.
10. Safety steps behind the liveness properties: that every call of a request
    leads nearer to its end, as an invariant on what may come next.

## Not modelled

* JSON decoding, field validation and canonical text: pure functions of one
  value, before any state is touched.
* The lookups by event id and the readiness probes, which change nothing that
  stays.
* The debug page. It is a script for a browser held in a Go string; the bus, the
  history and the stream that it reads are in `HttpServer`.
* Generated API text and the fixtures of the tests.
* Of the S3 adapter, encryption options and metadata; of the configuration, a
  text that mixes literal text with variables, and `FromEnv`, which nothing
  calls; of the commands, flags and output.
