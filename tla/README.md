# A TLA+ verification of SchemaIQ

SchemaIQ imports customers' CSV files into PostgreSQL tables and connects to
customers' MySQL databases. It is a NestJS API (`src/apps/api`), a Next.js web
application (`src/apps/web`) and a package of shared types
(`src/packages/types`). This directory holds TLA+ modules translated from that
code, the TLC configurations that check them, and proofs that TLAPS checks.

    tlc -workers 2 -config imports_faults.cfg MCImports    # one run
    tlapm Imports_proofs.tla                               # the proofs

`PROJECT.json` lists the components, the runs, the source lines each definition
models, the known hazards, the mutants that show each property can fail, and
the theorems.

## The system

Paths are relative to `src/apps/api/src`. The API is one Node process: code is
atomic from one `await` to the next, and anything may happen at an `await`. The
state it shares is in PostgreSQL, in Redis (the BullMQ queue), in a directory of
uploaded files, and in the memory of the connection manager.

| Component | State | Operations | What makes it correct |
|---|---|---|---|
| Imports (`imports/imports.service.ts`, controller) | table `data_imports`; entities in memory | create, retry, cancel, remove, processQueued, queries | a file is loaded once and wholly; a status tells the truth about the target table; a queued import is not lost |
| Status rules (`imports/import-status.ts`), duplicate check (`imports/hashing`), unique index (migrations) | none of their own | canTransition, assertNotDuplicate, the index | one active import per organization, table and file |
| Queue and worker (`imports/queue`) | BullMQ jobs | start, enqueue, cancel; process | a job for each queued import, one loader per import |
| File cleaner (`imports/import-file-cleanup.service.ts`) | `file_deleted_at`, files | cleanupExpired on a timer | it deletes only what nobody needs |
| Upload and storage (`csv-import-upload.interceptor.ts`, `imports/storage`) | files | store, delete, exists, openReadStream | a stored file lives as long as its import needs it |
| COPY (`imports/postgres/postgres-copy.service.ts`) | a transaction | copy | all or nothing |
| CSV processor, validators, transformers (`imports/processors`, `validators`, `validation`, `transformation`) | none | prepare, process; header, mapping, row and value rules | the row that arrives is the row of the file; each error is reported |
| Target tables (`imports/postgres/postgres-table-metadata.service.ts`, identifiers, policy) | target schema | getTable, createTable, listTables | only allowed tables, quoted identifiers |
| Connection manager (`database-connections/database-connection.manager.ts`) | `registry`, `inFlight`, `blocked`, `accepting`, the entries | getOrCreateDataSource, withDataSource, idle cleanup, invalidate, closeAll, testConfig | one connection per datasource, bounded, current, closed at the end |
| Datasources (`datasources/datasources.service.ts`), resolver, credentials | tables `datasources`, ssh configs, secrets | create, test, update, remove, resolve | a connection uses one saved configuration; a disabled datasource is not used |
| SSH tunnel, MySQL connector (`ssh`, `database-connectors`) | a listener and an SSH client; a pool | createTunnel, close; createDataSource, close | closed on every path |
| Redis, audit, health, configuration, exception filter, auth, organizations | a Redis client; an audit table | connect, record, ... | wiring |
| Web (`src/apps/web`) | the import wizard's reducer, the query cache | wizard actions, polling | the wizard submits what it shows; polling ends with the import |

How they interact: a request enters `ImportsService` after the interceptor has
stored the file; it calls the duplicate check, the processor and the queue, and
writes the row by conditional `update`s or by `save` of a whole entity. The
worker receives a job and calls back `processQueued`. The cleaner and `remove`
delete files that `retry` and the worker read. `DatasourcesService.update` saves
the datasource and then calls the manager's `invalidateDatasource`; the manager
calls the resolver, the tunnel service and the connector. The parts share no
memory other than the row, the queue, the files and the manager's maps.

What is hard here: requests, workers and the cleaner interleave on one row; an
entity in memory is stale when it is saved; several external systems change in
turn and any call may fail; the process may die between two of them; promises
are shared by callers who then act in an order that no test arranges.
`PROJECT.json` lists these hazards at their lines, with the properties that
cover each.

## Modules

| Module | Models |
|---|---|
| `ImportStatus` | the statuses, the transition table, and the sets of statuses, which differ from service to service |
| `ImportLifecycle` | abstract: what the import service promises, as a machine over statuses and "the rows are in the table" |
| `Imports` | the import service, queue, worker and cleaner, one action per awaited call; faults; `Promise` maps it to `ImportLifecycle` |
| `CsvValues` | pure: null tokens, value transformers, header and mapping validators, the row validator, COPY's quoting and what PostgreSQL reads of it |
| `TargetTables` | pure, extends `CsvValues`: the target policy, the lists of targets, the columns and the trigger of a table that is created |
| `CsvImport` | extends `TargetTables`: prepare, the row stream and COPY, progress, row errors and counters, attempt after attempt |
| `Datasources` | the datasource service over its three tables, the resolver's reads, and the connections built from them |
| `ConnectionManager` | the connection manager, with the update and the resolver's read as it sees them |
| `SshTunnel` | one tunnelled connection: the closure of `createTunnel`, its sockets, the pool, and the owner that opens and closes them |
| `ImportWizard` | extends `TargetTables`: the page that starts an import |
| `ImportPages` | extends `ImportWizard`, `ImportStatus`: the pages, the query cache, the mutations, over a server that moves the imports on |
| `MCImports`, `MCCsvImport`, `MCDatasources`, `MCConnections`, `MCImportWizard`, `MCImportPages` | instances for TLC (`SshTunnel` needs none) |
| `Imports_proofs`, `ImportsPromise_proofs`, `ConnectionManagerEffects`, `ConnectionManager_proofs`, `Datasources_proofs`, `SshTunnel_proofs`, `CsvImport_proofs`, `ImportPages_proofs` | theorems and lemmas |

How they fit: `Imports` says who runs an attempt and when, and takes its COPY as
a call that commits or throws; `CsvImport` opens that call and takes the
scheduling as given. `Datasources` reduces the connection manager to what
`ConnectionManager` specifies (one initialization at a time, an invalidation that
waits for it); `ConnectionManager` reduces tunnel and pool to what `SshTunnel`
specifies (a health flag, a close that ends). `ImportWizard` states acceptance with
the server's own rules, `TargetTables` and `CsvValues`, and `ImportPages` composes
it with the server's status rules.

### Imports

A request or a worker is a record in `proc`: the call it awaits (`pc`), the
handler (`op`), its import, the job it has added or been given, and the entity
it holds in memory (`ent`). An action is the completion of the awaited call with
the code up to the next await: `Check` is `assertNotDuplicate`, `Claim` the
conditional `UPDATE ... WHERE status = 'QUEUED'` of `processQueued`, `Save` is
`repository.save(entity)` with what the caller does next. `Goto`, `Finish`,
`SaveStatus`, `Fail` and `Transition` are the pieces of synchronous code in
which actions end. A row keeps its status, `queueJobId` and whether
`fileDeletedAt` is set. `commits` counts the COPY transactions that committed
for each import: it is what the target table knows of it.

`CallThrows`, `CommitLost`, `SweepThrows` and `Crash` are the faults, counted by
`faults`. A missing file, a refused header, a violated constraint, a strict-mode
error or a timeout is no fault: `PrepareThrows` and `CopyThrows` may happen at
any time. After a crash BullMQ gives active jobs back, or fails those that
stalled before.

Abstractions: `save` is one step (TypeORM reads and then writes; nothing runs
between in which a property differs); the order of jobs is left open; two awaits
that nothing can tell apart are merged (the row read on arrival of a request;
audit records whose failure ends like a failure of the next call); a request
that is refused on arrival is no step; one sweep runs at a time; a call that
fails has no effect, except the COPY whose commit is lost; a live worker's job
does not stall. Progress, counters and row errors are in `CsvImport`.

### ConnectionManager

`registry`, `inFlight`, `blocked` are the manager's maps. `ahead` keeps the order
in which `inFlight` lists its keys, which `ensureCapacity` counts. `stage` is
`accepting` with the progress of `closeAll`. A user is one call of
`withDataSource` or `getOrCreateDataSource` (which gives its lease back at once);
its `pc` is the call it awaits in `acquire`, `refresh` or `initialize`. An
invalidator is a call of `DatasourcesService.update` from its commit on.
`version` stands for the saved configuration and an entry carries the version it
was built from.

One completed call runs all the promise reactions that hang on it before
anything else happens. So `Connected` registers the entry, leases it to the user
and to everybody in `WaitingFor`, leaves `inFlight` and moves the invalidations
in `AwaitingInit`, in one step; `InitFails` answers all of them likewise.
`waitForIdle` polls until the entry is idle or its deadline passes, so
`StopWaiting` may come at any time. The least recently used entry and the idle
timeout are choices over all entries without operations. Users of another
organization (`Foreign`) may find, join or start an initialization, and
`resolve` fails for them. Closing may throw; it then counts as closed.

### CsvValues and TargetTables

A cell is one of the samples of `Raw`, chosen so that each transformer accepts
some, changes some and refuses some: null tokens, a padded number, `1e3`, a number
beyond its column, words that are booleans, dates of two formats and one that
does not exist, text with a comma, an array, JSON, a UUID in capitals, `\.`. Each
transformer is the function from what it accepts to what it makes of it, and a
result is the set of at most one value. `ValidHeaders`, `ValidMapping`,
`FailingFields` and `Transformed` are the validators. `escapeCsvField` keeps
whether a field is quoted, since that is how COPY tells an empty text from null;
`PgReads`, `PgRow`, `EndOfData` and `PgStores` are PostgreSQL's side, external to the
repository. Tables are functions from column names to columns. `QuotingTypes` are the
column types whose error message quotes the cell: the messages of texts, arrays and
nulls are fixed and short.

### CsvImport

An attempt (`attempts[i]`) holds what the processor has in memory: how far the
parser is, the lines given to COPY, the errors so far. `ReadHeaders`,
`CheckTable`, `CreateTable`, `CreateTrigger` and `Prepare` are the awaits of
`prepare`, `Stream` is one record of `generate`, `Commit` and `CopyRefused` the end
of COPY, `SaveErrors` and `Finish` the rest of `execute`. Two attempts of different
imports interleave on the target tables. A progress update is sent from the meter
in the stream and lands at some later time; the final statements of the stream
wait for it, but the parser may fail first. Any call may throw, and had its effect
(`AnswerLost`: a table, a trigger, a COMMIT, saved errors) or not (`Throws`). Row
errors are also refused by a message that is too long (`ErrorsRefused`).

`contents` is the target table as far as imports have filled it, with the import,
the attempt and the line a row came from (history that the database lacks).
`TableHasTheFile` compares what all attempts have put there with the file, by the
names of the headers, while the code goes by positions. `failedLate` (history) are the
imports of which an attempt failed after its COPY had committed: its rows and errors
stay, and a retry adds its own. The properties say for these what still holds: the
same rows, though some of them twice, and the same skipped lines. They exclude a file of one
column with a line `\.`, which ends COPY's data on PostgreSQL 17 and older.

### Datasources

A request is a handler: `create`, `update`, `testSaved`, `remove`, or an
initialization of the manager (`connect`). It holds the row, the secrets and the
configuration it has read or built. `rows`, `ssh` and `secrets` are the three
tables. A host stands for the whole endpoint of a database (host, port, name,
user, TLS) and a bastion for that of an SSH server. Three details of the code
are in the model because they decide what the service does:

- `field in input` is true for every field of a DTO instance (class fields are
  initialized in the ES2023 target), so that each update counts as critical and
  is tested, also one that only disables the datasource;
- `updateSshConfig` always inserts, so an update whose result is tunnelled fails
  on the unique index if there is a configuration already;
- `save` of the entity read before the test first reads the row again (`ReadStored`)
  and then writes only the columns in which the two differ (`Written`), with the
  row locked up to the end of the transaction; it inserts the row again when it was
  removed meanwhile.

The last makes concurrent changes of one datasource undo each other, or mix: a change
to DIRECT and an overlapping one to an SSH tunnel may leave a direct row with an SSH
configuration. `contended` remembers datasources that two updates or removals
changed at once. `SavedWasTested` and `ConnectionIsCurrent` exclude them, and so does
`NoLeftoverSecrets` where it compares the mode with the SSH configuration; that the
secrets fit the SSH configuration it says of every overlap. All other interleavings
(with tests, connections, resolver reads, failures) are included.

### SshTunnel

`tunnel` is the closure of `createTunnel`: the client, the server, `healthy`,
`closePromise` (`closing`), whether the promise of the handle is settled, and what
a next `'error'` of the client calls (`onError`), which is what decides whether the
process survives. `socket` and `pool` are the two ends of each forwarded connection.
`owner` is `initialize` followed by `closeEntry`, or `testConfig`, which opens and
closes in the same order. `early`, `late` and `kept` are history: the client failed
between `'ready'` and the callback of `listen`; a connection was made after the
client was lost; the pool was left open. In those windows the code leaks the
listener, may end the process, and waits for ever, and the properties name them.
Not modelled: an `'error'` of a socket before its channel is open.

### ImportWizard and ImportPages

`page` is the reducer's state. A click is an action with every dispatch it makes
and with the effect that fills an empty mapping, since React runs that before the
next event. `reading` are files whose preview is being read: `SET_FILE` arrives at
whatever step the page has come to. Headers are those the server reads;
`csvHeaders` gives the preview's view, which trims them.

`ImportPages` adds a query for the list and one for each import: what it shows,
the fetch under way and what that fetch has read. `Mounted`, `Unmounted`,
`Answered` and `Invalidated` are TanStack Query as the application uses it,
external: one retry, an invalidation refetches the open page and drops what its
query was reading, unless the query has no data yet. An import of the server has a
version, so that a property can say how recent what is shown is. Several mutations
may be pending (`calls`); a button is disabled only where the page disables it. A
retry is served in two steps, since the row is QUEUED before the job is in the queue:
the queue may refuse it (`EnqueueFails`), which saves FAILED over whatever the import
has become and answers 503. `loading` counts the workers of an import; one that
finishes saves over whatever is there (`Finishes`), as `Imports` shows.

`excused` (history) remembers what the user cannot see: another user's change, two lost
answers in a row, a lost answer of a mutation, leaving a page while something was under
way. `undone` remembers that a status was saved over: a retry refused after it had
queued the import, or a worker's save over a later status. No answer invalidates the
page then, and a page that shows a terminal status does not poll, so that it stays
behind for good; `PageCatchesUp` excludes these by name.

## Runs

Bounds are constants of the modules, set in the `.cfg` files: `MaxRetries`,
`MaxFaults`, `MaxUpdates`, `MaxCalls`, `MaxThrows`, `MaxErrors`, `MaxEdits`,
`MaxServerSteps`, `MaxFailures`, and the sets of ids (`Jobs`; `Mutations`;
`Entries`, which are used again once nobody holds them).

| Run | Shows | Bounds |
|---|---|---|
| `imports_requests` | with no faults and room in the queue: `SingleLoader`, `LoaderOwnsRow`, `AllOrNothing`, `NoDoubleImport`, `QueuedIsServed`, `JobIsOwn`, and that every behaviour is one of `ImportLifecycle` | 2 uploads of one file (one queued, one loaded by its request), 2 requests, 2 workers, 3 jobs, create, retry and cancel; `MaxActiveJobs` 4 |
| `imports_faults` | whatever fails: `TypeOK`, `CompletedHasRows`, `LoadedOncePerRequest` | 1 import, every operation and the cleaner, 2 requests, a worker, a retry, 2 faults |
| `imports_live` | `QueuedIsSettled`, `ProcessingEnds` | 2 uploads, create, retry and cancel, no faults |
| `connections` | `TypeOK`, `LeaseCount`, `OneInitialization`, `InUseIsKept`, `OwnOrganization`, `StaleIsPending`, `NothingLeaks` | 2 datasources (one tunnelled), capacity 1, 4 users (one foreign), 1 invalidator, cleanup, broken tunnels, shutdown |
| `connections_live` | `WaiterIsAnswered`, `BlockIsLifted`, `ShutdownCloses` | 2 datasources, 2 users, 1 invalidator, cleanup and shutdown |
| `datasources` | `TypeOK`, `NoLeftoverSecrets`, `SavedWasTested`, `ConnectionIsCurrent` | 1 datasource, 3 requests, 4 calls, 3 ways to create it, 7 updates |
| `csv` | `TypeOK`, `TableHasTheFile`, `SkippedAreReported`, `StrictIsAllOrNothing`, `TriggerFollows`, `FinalIsKept` | 2 imports of 21 inputs into an existing and a new table, one retry, one call that throws, with its effect or without |
| `wizard` | `ReviewedIsSent`, `AcceptedIfMapped` | 3 files, 2 tables and a new one, 2 edits of the mapping |
| `web` | `ReadYourWrites`, `PageCatchesUp` | 1 import, 4 steps of the server, 2 mutations, one lost answer; only while not `excused` |
| `tunnel` | `HealthyIsUsable`, `NothingIsLeft`, `OneErrorIsSurvived`, `CloseEnds` | a pool of 2, 2 errors of the client |

Two uploads of one key are enough for each race on the index, since it relates two
rows; a second request and a second worker give each handler one opponent of its
own kind; three jobs let one import be queued again while an old job is still
there; with `MaxActiveJobs` above the number of jobs the queue is never full
(`imports_twice` and `imports_faults` are the runs where it is). Two faults let a
handler of a failure fail itself, and a crash meet what a failure has left. In the
manager, capacity one makes each new datasource evict or fail, two users can wait
for a third, and the fourth is of another organization. Requests on different
datasources share nothing, so one datasource suffices; its fourth call lets a
connection, a test and an update meet after it was created, and the seven updates
are one of each field and both changes of the mode. Two imports are enough for the
race to create a table; the inputs are at least one for each branch of the row
pipeline (a refused cell in either mode, a record of another width, a constraint
and a range that only PostgreSQL checks, a message that is too long, each reason
to refuse a header, a mapping or a new table, a date format that the code does not
know, since `dateFormat` is any string). Of the wizard's three files one has a
header that the preview trims, one two headers that become one name, one a header
that is no name. Two mutations, one lost answer
and four steps of the server are what the polling of one import can cross: a retry
that is refused after it has queued the import, with a worker that still saves over
it. The run ends where something has excused the page (`CONSTRAINT NotExcused`): both
properties are about states, or whole behaviours, that are not excused, and an excuse
is never taken back, so what lies beyond cannot violate either. Two connections show that a close waits for the last, and the
second error of the client is the one the code does not survive.

`CHECK_DEADLOCK FALSE` is said where the system may stop: bounded requests that
have all ended, a closed or crashed process, an import that is over.

Two runs are expected to find a violation, a disagreement of the code with its
documents; `PROJECT.json` quotes the lines:

| Run | What TLC finds |
|---|---|
| `csv_failed_rows` | COPY commits, saving the row errors fails because an integer column has refused a long value, which its message quotes beyond the 500 characters of `error_message`, and the import is FAILED with its rows in the table. A retry loads them again. |
| `imports_twice` | A retry sets the row to QUEUED; a worker that still has an old job of the import claims it; the retry finds the queue full and its `fail` saves FAILED over the claim; the next retry loads the file again. |

Other disagreements are in the models, and no run is spent on them:

- The cleaner deletes the file of an import that a retry has queued since its
  query (`import-file-cleanup.service.ts:55`; `SECURITY.md:19`: it deletes
  terminal files).
- Of two creates that race, the loser is recorded as FAILED when it is queued, not
  refused as a duplicate (`imports.service.ts:117`; hardening design, line 52).
- Two initializations are in flight; the later one checks first and evicts, then
  the earlier one finds room, and both register, above the maximum
  (`database-connection.manager.ts:247`; `DECISIONS.md:113`).
- Two updates of one datasource overlap. The first invalidation to end lifts the
  block, a user registers a new entry, and the second deletes the key and closes
  only the old entry (`database-connection.manager.ts:185`; `SECURITY.md:53`).
- Of two updates of one datasource that overlap, one may write the mode and the other
  its SSH configuration and secrets, or one undoes what the other has changed
  (`datasources.service.ts:183`; what is then stored need not be what
  either of them has tested).
- An attempt that fails after its COPY has committed (a lost answer of COMMIT, a
  failing save of the row errors) leaves its rows, and a retry loads
  them again (`imports.service.ts:334`, `postgres-copy.service.ts:53`).
- A retry that the queue refuses has changed the import twice and answers 503, and the
  web application invalidates nothing on an error, so its own page is left behind
  (`imports.service.ts:191`; `imports-mutations.ts:11`).
- A header the wizard is told not to import is sent without a mapping, and the
  server imports it when it is the name of a column
  (`column-mapping-table.tsx:48`, "Do not import").
- A strict import finds a bad row while COPY is running, and relies on the
  rollback (`csv-import.processor.ts:130`; hardening design, line 121: it aborts
  before any COPY starts).

### Fairness

`Imports!LiveSpec`: weak fairness for each request and worker. Every awaited call
returns or throws (statement, connection and job timeouts), and BullMQ hands a
waiting job to an idle worker. Clients, the cleaner and faults owe nothing.
`ConnectionManager!LiveSpec`: weak fairness for the steps of an initialization
(the resolver, closing and connecting end; `connectTimeoutMs` bounds
connecting), of an invalidation (`waitForIdle` has a deadline), of closes and of
`closeAll`. The operation of a user need not end. That closing ends is an
assumption there; `CloseEnds` of `SshTunnel` reduces it to the pool's own
`destroy`. `SshTunnel!Spec`: the client answers or gives up (`readyTimeout`,
keepalive), `listen` and `forwardOut` are answered, a pipe whose other end is
gone ends, a server without sockets closes, and the owner goes on when what it
awaits is there; nothing makes anybody close an entry. `ImportPages!Spec`: a
fetch and a mutation are served and answered or fail (a failure is bounded), and
polling goes on (the interval of the query); users and the server owe nothing.

## Proofs

`Imports_proofs` proves for every number of uploads, requests, workers, jobs,
retries and faults, and for every set of operations, from `ConstantsAssumption`
only:

- `TypeCorrect`: `Spec => []TypeOK`
- `CompletedIsLoaded`: `Spec => []CompletedHasRows`
- `JobOwnership`: `Spec => []JobIsOwn`

`CompletedHasRows` and `JobIsOwn` are not inductive: a stale entity may be saved
at any time. The inductive invariant `IInv` says of each process what it knows
between two awaits (`ProcOK`): its entity is a row, an entity with a done status
or a process about to save row errors has a committed COPY, and the job in an
entity or one just added belongs to its import; and of the queue (`JobsOK`) that
jobs that wait or run have an import. Since jobs keep their import and commits
never decrease (`Monotone`), what one process knows survives the steps of the
others (`OthersKeep`), so each action needs a proof about its own process and
row only. `JobOwnership` holds under faults and crashes too, where the run
`imports_requests` checks it without.

`ImportsPromise_proofs` proves what holds as long as nothing fails, again for
every number of uploads, requests, workers, jobs and retries. It rests on one fact
about PostgreSQL, `OneActivePerKey`: the unique index admits no two active imports of
a key, which the model has as a guard of each write (`IndexRefuses`).

- `ExclusiveLoad`: `FaultFree => (Spec /\ []Room => []SingleLoader)`
- `LoadedIsProcessing`, likewise for `LoaderOwnsRow`
- `Atomicity`, likewise for `AllOrNothing`
- `ImportedFilesDiffer`, likewise for `NoDoubleImport`
- `NotForgotten`, likewise for `QueuedIsServed`
- `Refinement`: `FaultFree => (Spec /\ []Room => Lifecycle)`

`FaultFree` says that `MaxFaults` is 0 and that imports are not removed, as in the
run `imports_requests`. A missing file, a refused header, a strict-mode error and
a failed COPY are no faults and are included. `Room` says that the queue is not
full. It is a hypothesis on the behaviour because without it the code loads a file
twice: `imports_twice` shows the retry that finds the queue
full and saves FAILED over a worker's claim.

The question in these proofs is who may save an entity. A process holds an import
(`Holds`) while it creates it, up to its queueing, and from a worker's claim on.
`Alone` says that an import has one holder at most (`OneHolder`), which statuses
its row and its entity have at each await (`HeldOK`), and that `commits` is 1 if
the row is done or its holder is about to say so, and otherwise 0 (`CommitsOK`). A
worker's claim needs QUEUED, a row becomes QUEUED only when its creator lets go of
it, and COMPLETED is never left; that is why COPY commits once. `Served` says by
whom each queued row is seen to: a job that waits or runs, a request about to add
one, or a cancel that has withdrawn the job and is about to cancel the row. For
the refinement each step of a process is shown to be a step of `ImportLifecycle`
or invisible: `Save`, `Claim`, `Requeue` and `CancelRow` are `Advance` (with the
index as its guard), `Insert` is `Upload`, and `Copy` is `LoadRows`.

`ConnectionManager_proofs` proves, for every number of datasources, users,
invalidations and entries, every capacity and number of updates, from
`ConstantsAssumption` only:

- `TypeCorrect`: `Spec => []TypeOK`
- `LeasesCounted`: `Spec => []LeaseCount`
- `SingleInitialization`: `Spec => []OneInitialization`
- `UsedAreKept`: `Spec => []InUseIsKept`
- `Isolation`: `Spec => []OwnOrganization`
- `StaleInvalidated`: `Spec => []StaleIsPending`
- `NoLeak`: `OneInvalidation => (Spec => []NothingLeaks)`

The invariant has one part for each question, and a lemma that each step keeps it.
`LeaseCount` is inductive with the shapes of the calls (`ShapeOK`): a lease adds
one user to `Using(e)`, the end of an operation removes one, and a new entry has
none before its first leases. `InitOK` says that the owner of an initialization
holds a marker in `inFlight` and that no entry is registered meanwhile.
`RegistryOK` says that registered entries are open and distinct and that who
closes an entry holds an unregistered one; with it, what is being closed cannot be
leased again (`KeptOK`). `StaleOK` says by whom a stale entry is about to be
invalidated: an update that has just committed, an invalidation that waits for the
initialization, or one that waits for that very entry. `NoLeak` needs `BlockOK`
besides: while an invalidation waits for an entry, the block keeps another from
being registered. That fails with two invalidations of a datasource, since the
first to end lifts the block of both; so the assumption `OneInvalidation` is
needed. `ConnectionManagerEffects` states the effect of each action on its user,
its invalidation and its entry once, so that these proofs do not open records.

`SshTunnel_proofs` proves, for every pool and every number of errors, with no
assumption:

- `Typing`: `Spec => []TypeOK`
- `Healthy`: `Spec => []HealthyIsUsable`
- `NothingLeft`: `Spec => []NothingIsLeft`
- `Survival`: `Spec => []OneErrorIsSurvived`

`TunnelOK` is what the closure knows of itself as long as the client has not
failed while the server was binding: which of client, server, handle and listeners
may stand where, and that `healthy` implies all of them are in place. `OwnerOK` is
what the manager knows: it holds the handle until it closes, and what it waits for
has begun. `SocketsOK`: sockets exist only while the server listens or closes.
`ErrorsOK` needs no such condition: the client is without a listener for `'error'`
only after it has had one.

`Datasources_proofs` proves, for every number of datasources and requests, all
creations and updates and every number of calls, from the module's assumptions:

- `Typing`: `Spec => []TypeOK`
- `NothingLeftOver`: `Spec => []NoLeftoverSecrets`
- `TestedBeforeSaved`: `Spec => []SavedWasTested`
- `ConnectedAsSaved`: `Spec => []ConnectionIsCurrent`

A request reads the three tables in separate transactions, tests for seconds
and saves what it has read. The invariant `DInv` says for each request in flight that
what it has read or merged so far is what the tables say, unless the datasource is
`contended` or an update that has saved is about to invalidate what is being built.
Since two changes of one datasource make it contended (`OneChange`), only a step of
the request itself, or the one save of an update, can disturb that. What
`NothingLeftOver` says of secrets needs none of this: each save writes the SSH
configuration and deletes or upserts the secrets together, under the lock of the
row, so that they fit each other after any sequence of saves, while the mode of the
row may be another's.

`CsvImport_proofs` proves, for every number of imports, files of any length and
width over the sample cells, all tables and any number of retries and throws, from
the module's assumptions:

- `Typing`: `Spec => []TypeOK`
- `TableIsTheFile`: `Spec => []TableHasTheFile`
- `Reported`: `Spec => []SkippedAreReported`
- `StrictIsAtomic`: `Spec => []StrictIsAllOrNothing`
- `TriggerIsAttached`: `Spec => []TriggerFollows`
- `FinalStays`: `Spec => FinalIsKept`

The lemmas on `CsvValues` come first: a transformer gives at most one text and
never the one that ends COPY's data, what `escapeCsvField` quotes is read back as
it was, and so is a line. `ImportOK` then says that all that an attempt holds
(headers, lines sent, errors, position) is a function of its input, of how far the
parser is and of the columns of its table. No import changes the columns of a
table that is there (`ColumnsKept`), so what one attempt holds survives the steps
of the others. With it the commit of one attempt puts into `contents` what the
property compares, a function of the file that is the same in each attempt; and only
`failedLate` imports are retried with rows in the table, so the rows of all attempts
together are those of one, and those of an import not in `failedLate` are there once.
The sample cells are data of the model: a transformer's behaviour on other texts is
not proved.

`ImportPages_proofs` proves, for all files, headers, tables and imports and any
number of clicks, edits, lost answers and steps of the server, from
`WizardAssumption` and `PagesAssumption`:

- `Reviewing`: `WizardSpec => []ReviewedIsSent`
- `Accepted`: `WizardSpec => []AcceptedIfMapped`
- `ReviewingAmongPages`: `Spec => [](ReviewedIsSent /\ AcceptedIfMapped)`
- `ReadsItsWrites`: `Spec => []ReadYourWrites`

`WInv` says that no step of the wizard is reached without what the earlier steps
ask for (`Placed`), that, unless a preview arrived after the page had moved on,
the mapping is the one of the page's file and obeys the rules once its step is
past (`Sound`), and that an upload is the request of a page that has been reviewed
(`UploadOK`). `Accepted` then compares two sets of rules. It needs that distinct
columns given to all headers are as many as the headers, and what
`AcceptedIfMapped` names because the page does not look at it: a column chosen
twice, a generated column, and a schema whose name `createTable` refuses although
the page lists it. `PInv` is about time: the user never knows of a version that
the server has not reached, nor is any pending mutation about to tell him of one
(`Honest`), only the open page's queries are fetching
(`OnlyOpen`), who awaits an answer has not left its page (`Waiting`), and what the
open page shows, or has read and not dropped, is at least as recent as what its
user knows (`FreshAt`), which is why an invalidation must drop what was being
read.

Every safety property of the passing runs but one is stated by a theorem, and so is
the refinement. Only model-checked are `LoadedOncePerRequest`, which counts processes,
and the liveness properties `QueuedIsSettled`, `ProcessingEnds`, `WaiterIsAnswered`,
`BlockIsLifted`, `ShutdownCloses`, `PageCatchesUp` and `CloseEnds`, since TLAPS proves
no liveness under fairness here. The proofs rest on the abstractions above and, for `CsvImport`, on its
sample of cells.

## Not modelled

The text of messages, DTO validation beyond what a request may contain, the HTTP
framework, authentication and configuration have no state that interacts.
Cryptography and DNS appear as calls that may fail. The memoized start of the
queue and the Redis client have one state each; a failed start is an enqueue that
throws. Streaming and hashing of an upload happen before the handlers see it. The
read-only queries of the import service change nothing. Bytes and dialects of
CSV (delimiters, quoted line breaks in a header) are below the abstraction
of a file as headers and records. The datasource pages, the metrics and the
marketing pages of the web application keep no state beyond one query each.

## Plan

1. Imports: lifecycle, queue, worker, cleaner, faults, first proofs. *Done.*
2. Connection manager. *Done.*
3. Datasources, resolver, SSH tunnel. *Done.*
4. Row pipeline, target tables, COPY, progress, row errors. *Done.*
5. The wizard and the pages over the query cache. *Done.*
6. Proofs of the safety properties and of the refinement. *Done.*
7. Left: a proof of `LoadedOncePerRequest`; the properties of the fault-free imports from a weaker hypothesis than
   `[]Room` (a full queue that no retry meets while an old job is active); the file a
   queued import needs, with a cleaner that respects it; lemmas on the header and
   name rules of `TargetTables` that hold beyond the pages.
