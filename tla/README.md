# A TLA+ model of the Exograph server

Exograph turns a declarative model (`.exo` files) into a server that answers
GraphQL, JSON-RPC and MCP requests from a PostgreSQL database, with operations
and interceptors optionally written in JavaScript and run by Deno. This project
models the parts of that server, and of the command line tool around it, whose
correctness depends on the order of steps, often of several actors: requests that
share database connections, requests that share Deno threads, intercepted
operations under access rules, mutations of nested rows, migrations of a database
that others migrate too, the watcher of `exo dev`, and processes that share an
installation directory. Every definition of the models carries the name of the
function it stands for where TLA+ allows it; `PROJECT.json` ("map") gives the
lines.

## Inventory

| Component | State | Operations | What makes it correct |
|---|---|---|---|
| Transaction holder (`pg-connect/transaction_holder.rs`) | flag, status Idle/Active/Finalized, client | ensure_transaction, with_tx, finalize, drop | a request is all-or-nothing; nothing happens after finalize |
| Connections (`pg-connect/connect/`) | free and taken clients, the session behind each | get_client, return by drop | one holder per client; a session carries nothing over to the next holder; waiters are served |
| Statement execution (`pg-connect/execution.rs`, `pg_backend.rs`) | steps left | one step after the other, stop at the first error | a script of several steps is atomic |
| Request context (`common/context/`) | cached context fields | internal @query requests, finalize unless internal | an internal request does not end its parent's transaction |
| GraphQL router, system and field resolvers | fields left, outcomes | resolve fields in order, commit or roll back, answer | acknowledged implies durable, error implies undone |
| JSON-RPC router | items left, outcomes | single calls, batches, notifications | the same, for the batch as a whole |
| Deno actor pool (`exo-deno`) | pool map under a lock, per actor: thread, channels, receiver lock, busy flag | select or create an actor, send, relay callbacks, receive the result | no call and no callback is lost, callers do not wait in a circle, results and callbacks go to the right caller |
| Deno ops (`deno-core-resolver`) | response headers in the module's storage | callbacks, addHeader | headers go with the call that set them |
| Shared installation (`common/download.rs`, `cli/commands/update.rs`) | lock files, the cache directory, bin and bin.old | lock with timeout, download if needed, swap directories | one process at a time; a directory is whole or absent; bin is not lost |
| Interception (`interceptor_weaver.rs`, `core-resolver/interception.rs`) | the tree | weave, resolve with proceed | an interceptor runs around what it wraps, and a failing `@before` keeps the operation from running |
| Access solver (`core-resolver/access_solver.rs`, `postgres-core-resolver/access/`, `auth_util.rs`) | none | solve, check_access | what it leaves of a rule grants what the rule grants, also when claims are missing |
| Authentication (`common/context/provider/jwt/`) | the claims of a request | verify once, extract fields | a request keeps one identity |
| Mutations (`exo-sql/pg/transform/`, `exo-sql/pg/core/`, `postgres_mutation.rs`) | the script, the results of its steps | make the script, resolve and run steps | nested rows go where the request says, and the answer is about the rows it matched |
| Migration (`exo-sql/pg-schema/`, `commands/schema/migrate.rs`) | the database's catalog | diff, order, ask, apply, verify, wipe | nothing is lost unasked; it converges; a verified schema fits the model |
| Watcher (`cli/util/watcher.rs`, `dev.rs`, `yolo.rs`) | the build, the server process, changes not yet seen | build, prestart, spawn, kill | the latest files get served, on their own schema |
| Trusted documents, validation, introspection, builder | none between calls | pure functions | not modelled, see the end |
| Language server, other commands, playground, HTTP hosts but for the start of a server | open documents; - | I/O | not modelled, see the end |

Components interact as follows. An HTTP host runs one task per request. The
task creates a `RequestContext`, which owns the `TransactionHolder`, and hands
it to the routers. A router resolves the operations of the request one after
the other; a Postgres operation goes to `PgBackend::execute` and so to the
holder; an operation written in JavaScript, or intercepted by such code, goes
through the `DenoExecutorPool` to a thread, which calls back into the same
resolvers, within the same task and the same transaction. At the end the router
finalizes the holder and answers. Dropping the context drops the holder and
returns its client. Before a Postgres operation goes to the backend, its access
rule is solved against the claims of the request and becomes part of the SQL, or a
precheck in front of it, and a mutation becomes a script of statements that refer
to each other's results. Processes of the command line tool are separate from all
this: they meet in the file system (installation, build output), in the database
(migrations), and as parent and child (watcher and server).

Hard behaviours: requests interleave at every await; connections are scarce and
carry state; PostgreSQL aborts a transaction on the first error and its COMMIT
then silently rolls back; a COMMIT can be rejected, or its answer lost; HTTP
hosts drop the future of a request whose client went away, at any await;
JavaScript can catch errors and go on; the busy flag of an actor is set by
another thread than the one that reads it; the callbacks of all calls of an
actor share one channel; PostgreSQL's read committed lets every statement see
another state; a migration is computed from a schema that may no longer be there;
files change while they are built; and processes that share the installation can be killed
between any two system calls. The list, with lines, is in `PROJECT.json` ("hazards").

## Modules

| Module | What it is |
|---|---|
| `RequestTransaction` | routers, resolvers, transaction holder, connections, PostgreSQL sessions; its properties and inductive invariants |
| `AtomicRequests` | what the server promises the sender of a request; `RequestTransaction` implements it |
| `MCRequestTransaction` | symmetry sets for TLC |
| `RequestTransactionProofs` | isolation, all-or-nothing, finality, what an answer says of the database; the implementation of `AtomicRequests` |
| `DenoActorPool` | callers, actors, channels and locks of the pool of one script |
| `MCDenoActorPool` | which calls are nested in which, for TLC |
| `DenoActorPoolProofs` | calls, callbacks, headers and the locks of the receivers are accounted for |
| `Installation` | processes that update the installation or fill the cache: lock files and directories |
| `MCInstallation` | the symmetry set for TLC |
| `InstallationProofs` | the cache is whole, downloads exclude each other, overlapping updates leave an installation |
| `SchemaSpec` | specifications of schemas, their difference, and the statements it becomes |
| `Catalog` | PostgreSQL's catalog: what each statement needs and does (external) |
| `SchemaMigration` | processes that migrate, verify or wipe one database |
| `MCSchemaMigration` | six versions of a model, of which a run takes some |
| `SchemaMigrationProofs` | what a migration may lose and touch, no dangling references, what `verify` vouches for |
| `DevWatcher` | `exo dev` and `exo yolo`: files, loop, callback, server processes |
| `DevWatcherProofs` | what is served at rest, and on which schema |
| `AccessSolver` | predicates, solutions, the two solvers, check_access, and the reference meaning of a rule |
| `AccessSolverProofs` | the solvers decide what the reference says |
| `GuardedOperation` | intercepted operations of concurrent requests under access rules; extends `AccessSolver` |
| `MCGuardedOperation` | rules, deployments, identities, requests and databases |
| `GuardedOperationProofs` | every safety property of `GuardedOperation`; extends `AccessSolverProofs` |
| `NestedMutation` | from the data argument of a mutation to its script, and the script's execution |
| `MCNestedMutation` | requests, users and databases |
| `NestedMutationProofs` | references stay intact, nested statements stay below matched rows, the answer is about them |

`SchemaMigration` extends `Catalog`, which extends `SchemaSpec`; `GuardedOperation`
extends `AccessSolver`. The other modules meet only in what they leave to each other:
`GuardedOperation` and `NestedMutation` take for granted that a request is a
transaction that is committed or undone as a whole, which is what
`RequestTransaction` establishes, and `DevWatcher` reduces a migration to success or
failure, which `SchemaMigration` details.

### RequestTransaction

*State.* Per request, `pc` (which await it is at), `entry` (the router), `left`
and `results` (operations to come, outcomes so far), `running`/`calls` (what
resolves the current operation, and how many queries it may still issue),
`steps` (statements left in the current script), `internal` (its context query)
and `reply`. The holder is `needs`, `status`, `client`, with the names of the
Rust fields. PostgreSQL is `tx` (none, open, aborted, closed) and `pending` per
session, and `durable`, the committed writes. Writes are numbered per request
and every successful statement is a write: a read is a statement nobody looks
for later.

*Actions.* One per stretch of code between two awaits:

- `resolve_operations`, `handle_single`, `handle_batch` take a request in and
  decide whether it needs a transaction; `resolve_operation`,
  `resolve_without_database`, `execute_query`, `return_from_script` walk through
  its operations; `extract_context_field` starts the internal request of a
  `@query` context field;
- `with_tx`, `get_client`, `get_client_fails`, `begin_transaction`,
  `execute_step`, `step_fails`, `convert_rows` are `PgBackend::execute` down to
  the single statement;
- `finish_graphql`, `finish_single`, `finish_batch` finalize and answer;
  `finalize_internal` is `finalize_transaction` of an internal request;
- `drop` drops the context after the response, `disconnect` before.

*External parts.* The pool (deadpool: any free client, none while all are
taken, no cleaning with `RecyclingMethod::Fast` except that closed connections
are replaced) and PostgreSQL (an error aborts the open transaction; COMMIT of an
aborted one rolls back without an error; BEGIN in an open one is a warning; a
lost connection loses the open transaction, and a COMMIT or autocommitted
statement under way may or may not have been performed).

*What can go wrong* is a parameter, `Faults`, so that a run or a theorem says
under which failures it holds.

### DenoActorPool

*State.* Per call: `pc`, the `actor` it got, its `result` channel and the
`headers` that came with it. Per actor: `thread`, `cur`, the `busy` flag, the
call channel `queue`, the `callback` channel, `lockq` (holder and waiters of the
receiver's lock, in order), `storage` (the module's op state) and `budget`.

*Actions of the caller.* `get_executor`, `is_busy` (one read of one flag),
`create_actor`, `send_call`, `lock_receiver`, `relay_callback`,
`process_callback`, `receive_result`, `disconnect`. A caller is one task:
`DenoExecutor::execute` polls `DenoActor::execute` and processes callbacks in
the same task, so while it processes one it keeps its place in, or even holds,
the receiver's lock. *Actions of the thread*: `load_module`, `receive_call`,
`begin_call` (sets the busy flag), `add_header`, `op_exograph_execute_query`,
`send_result`, `unmark_busy`.

`Parent` says which call is made from within the processing of which call's
callback (an intercepted operation implemented in JavaScript, for instance);
its depth is one. A function awaits its callbacks one by one; functions that
issue several at once are not modelled.

### Installation

*State.* Per process `lock` (the lock it takes, hence the function it runs:
`update_exograph` or `download_dir_if_needed`), `pc` (its next system call on a
shared path), `alive`, `waits` and the lock `file` it has open. Per lock the file
now at its path (`lockfile`), per file its `owner`; and the directories `cache`,
`bin` and `old` (`bin.old`), each absent, being emptied ("partial") or whole. A
lock belongs to an open file, not to a name, which is what the properties turn
on. *Actions*: one per system call, in the order of `take_file_lock`, the two
functions and `atomic_dir_swap`, and `crash`. Everything that happens in a
process's own temporary directory is one step, `fetch`. Renaming is that of
Linux: a directory replaces an empty one and no other. What `remove_dir_all` does
if someone else removes the same directory at the same time is left open.

### SchemaSpec, Catalog, SchemaMigration

*State.* The catalog `db` (tables with columns, indices and triggers; enums,
functions, sequences, extensions, schemas), per process the command it runs (`cmd`:
the model, whether destructive changes are permitted, the specification it read, the
answers it got, its list of statements), and counters. A column remembers in `born`
which migration created it: its data is lost when that column is gone.

*Actions.* `from_db_and_model` (`exo schema migrate` without questions) and
`migrate_interactively` read the schema, which is an error, and the end of the command,
if a table of the scope refers to one outside it (`Readable`); `handle_table_delete` is one
answer, of the user or of the interactions file (rename, delete, leave), where the file may name
a table that is not about to be created (`FileNames`), and `finish_asking` computes the rest;
`wipe_database`;
`apply` runs the list in one transaction, in which PostgreSQL may refuse a statement;
`abandon` ends a command. Any number of other commands may run between reading and
applying.

*Operators.* `diff`, `table_diff`, `column_diff` and the others are the functions of the
same names, over records instead of Rust structs. A table, an enum and a type is the
pair of its schema and its name (`SchemaObjectName`), where built-in types have no schema; a
default is its name. Where the code iterates over a map, `Each` lists what it makes of
every key, in an order that is fixed but unknown. `Catalog` gives PostgreSQL's part in four steps:
when a statement is refused (`Refuses`), what it makes of one table (`Altered`), of all
tables (`Tables`) and of the catalog (`Effect`); `Run` is a transaction.

`from_live_database` is what reading the catalog back gives: all of the scope, except that
triggers are looked for by a qualified name where the catalog has a bare one, so that none is
found outside `public` and those of a namesake in another schema are found in it (`TriggersRead`).
`rename_ops` renames the sequences of serial columns with their table, by names without a schema,
which PostgreSQL refuses outside `public`. `verify` is what `exo schema verify` accepts. `to_sql`
gives the statement of an operation with those that go before and after it. A migration may always
be refused for the rows it meets.

### DevWatcher

*State.* The files (`saved`: a version and whether it builds), the changes the
debouncer holds (`dirty`) and the channel of one place (`queued`), the place in the
loop (`pc`), the versions the build read (`built`), wrote (`ir`) and the callback read
(`model`), that of the database (`schema`), and the servers (`server`, and `next`
between its spawn and the drop of the old one). `TypeOK` includes that the watcher answers for
them (`HeldServers`): `next` is there only until it replaces `server`, and none outlives the
watcher, whichever error or signal ends it.

*Actions.* `save`, `debounce`, `interrupt` and `die` are the world's; the loop has
`build_read`, `build_write`, the callback of dev (`verify`, `apply_migration`, `ask`,
`confirm`, `migration_refused`, `retry`) or of yolo (the same migration, then
`wipe_database`, `go_on`, `seed`), `prestart_error`, `spawn`, `replace`, and the
branches of its select: `change`, `server_death`, `ctrl_c`. `fail` is an unrecoverable error of
the build, a script or the spawn. An interrupt ends `exo dev` at once, in the signal handler;
`exo yolo` turns that off and serves the signal in its select. `load_and_bind` is
`exo-server` (`server-actix/src/main.rs`) reading the build output and binding its port; it ends
if the old server still has it.

### AccessSolver and GuardedOperation

*The entity* is a document with an owner, a flag and a project that has an owner of
its own: the smallest schema in which a rule can speak of a column, of a column of
a related row and of a claim. A predicate keeps the constructors True and False apart,
because the code compares with them, and is otherwise what it holds on and which column paths
it has. What a precheck leaves speaks of a document and of a project (`Readings`): a condition on
a path is about the project by itself where the input names it, but a comparison of two paths
keeps the whole path from the document. The paths decide the lead tables (`Leads`), and a precheck
query exists for one lead table only (`OneLead`). A rule
is an expression of literals, claims, paths, `==`, `!=`, `&&`, `||` and `!`.
`Says` is the reference: three-valued logic, a comparison with a missing claim being
unknown.

*State.* Per request where it is in the interception tree (`pc`), its operation, token
and claims, its `plan` (the predicates), the rows its statement matched (`hits`) and
wrote (`work`), the answer on its way outwards; the committed documents and projects.

*Actions.* `receive`; `before`, `around`, `after` for interceptors, which return, throw or,
around, call `proceed()` any number of times up to a bound; `check` (read the claims, solve the
rule), `precheck` (which panics if there is no query for it), `insert`, `select`, `scan` and
`write` (the two halves of an update or delete, between which another request may commit the same
row), `finish`; `expire` and `transfer` are the world's.

### NestedMutation

*The tables* are venues, their concerts and the concerts' artists. *State*: the
committed rows, and per request the abstract operation with the read rule of the select that
answers it, the script, the results of the
steps so far, the statements of the current step still to run, its own writes, and, for
the properties, which venues its root statement matched.

*Actions.* `receive` makes the script (`insert_script`, `update_script`, with the
numbering of steps that `add_step` gives); `refuse` is an authorization error, of the mutation, of
a nested part or of the read rule;
`next_step` resolves the next step against the results before it; `run_query` runs one
statement; `precheck`, `violation` (a constraint), `deadlock`, `panic` and `finish`
end a step or a request. A statement waits for rows that another request has written
and goes on with what that one commits.

## Runs

| Run | Expect | Shows |
|---|---|---|
| `request_graphql` | pass | two GraphQL requests, one pooled connection, 2 fields of up to 2 queries of up to 2 statements; failures of statements, prechecks, conversion, COMMIT, connection: `TypeOK`, `Isolation`, `AckedIsDurable`, `NeverSpent`, `FinalizedIsFinal`, and implementation of `AtomicRequests` (`AtomicSpec`) |
| `request_direct` | pass | GraphQL requests, single RPC calls and batches of 0 to 2 items on direct connections, dropped at any await, with scripts that catch errors and rejected COMMITs: `ErrorLeavesNothing`, `AllOrNothing` |
| `request_progress` | pass | two requests compete for one connection, either may be dropped: `EveryRequestEnds` |
| `deno_callers` | pass | two requests, one of which makes a nested call, up to three actors, callers dropped and modules that do not load: no deadlock, `TypeOK` (which includes `LockAccountedFor`), `OwnHeaders`, `CallAccountedFor`, `CallbackAccountedFor`, `EveryCallEnds` |
| `installation_processes` | pass | three processes, each of either kind, killed at any point or failing to download: `TypeOK`, `CacheIsWhole`, `ExclusiveDownload`, `UpdatesLeaveInstallation`, `EveryProcessEnds` |
| `schema_migration` | pass | two processes, five models, three commands with or without permission, renames that the prompt or the interactions file gives: `NothingLostUnasked`, `ScopeRespected` (no matter what happened since the schema was read), `Settles`, `CreatesFromNothing`, `VerifiedIsUsable` (between commands), `TypeOK` (which includes that references have targets and that a table is asked about once) |
| `dev_watcher` | pass | both commands, four versions of the files, saved at any time: `ServesLatest`, `SchemaOfServed`, `ComesToServe`, `TypeOK` (which includes `HeldServers`) |
| `guarded_operation` | pass | two requests, six deployments: `Woven`, `IdentityKept`, `ActsWithinRule`, `OwnersKeep`, `CreatesAllowed`, `RefusesOnlyWithoutGrants`, `TypeOK`; no deadlock |
| `nested_mutation` | pass | two requests of eight kinds for two users: `CreatesInPlace`, `AnswersMatched`, `TouchesOwnOnly`, `TypeOK`; no deadlock other than the one PostgreSQL breaks |
| `request_dropped` | violation | `DroppedRollsBack`: a pooled connection is recycled inside a transaction |
| `nested_composite` | violation | `AnswersMatched`, for keys of two columns: each column is compared by itself |
| `migration_trigger` | violation | `TriggersAfterFunctions`: the sort does not order what it is meant to |

Each violation contradicts a comment or test quoted in `PROJECT.json` ("findings"). A passing run
leaves out the fault that leads to a violation of its own properties, and its constants say so:
`request_graphql` has neither "caught" nor "disconnect", `nested_mutation` has keys of one column,
`schema_migration` no model that adds a trigger and a table at once. `request_direct` has both
faults, because its properties hold in spite of them on direct connections. The other defects told
below are in the runs: `guarded_operation` has prechecks that panic, `installation_processes`
updates killed between the renames, and `schema_migration` a model with a trigger outside `public`
(`CreatesFromNothing` says that these triggers, and nothing else, are left to do after the first
migration). `UpdatesLeaveInstallation` is about updates that are not killed: the comment on
`atomic_dir_swap`, "No intermediate state where target directory is missing", does not hold
between the two renames, and if the process is killed there it stays so. `schema_migration` and
`dev_watcher` do not check for deadlock: commands are bounded, and a watcher may have exited.

*Bounds.* Two requests and one connection are enough for a connection to change
hands, in both directions, while another request waits for it; a third request
adds another waiter that behaves like the second. Two operations, two queries per
script and two statements per query make every "first", "middle" and "last" case
of the loops happen. `MaxActors` equals the number of calls, so that the pool,
which is unbounded in the code, never meets the bound. `MaxCallbacks` = 1: a
function that makes several callbacks goes through the same states again. Three
processes are enough for a lock file to be held by one,
waited for by the second after its removal, and created anew by the third.
`MaxWait` stands for the 3000 attempts of `take_file_lock`; a process may be
slow between any two steps, so one is enough to wait and to give up.

Three migrations are enough for one to follow another's interference and to find out
whether what it left settles; the models differ in one kind of change each
(nullability, defaults, types, uniqueness, enums, extensions, renames, schemas, references
between schemas, triggers). Three saves after the first make a change arrive before, during and after a
build that itself follows a change. The rules cover each kind of operand and connective,
once alone and once under a connective that has to carry an unknown through; one
document suffices because statements treat rows independently, and one transfer of a
project to come between a precheck and its statement. Three venues and two concerts
let a mutation match none, one, or two, with a concert below a matched venue, below
another, or below none that the rule admits; one user may read every venue and one only some, so that
answers are complete and partial.

*Fairness.* The async runtime polls every task that can go on, and threads run:
weak fairness of the steps of each started request, caller and thread. Waiters
of the pool and of a full channel are served in the order they arrive
(tokio semaphores): strong fairness of `get_client` and `send_call`. Nothing
forces a request to arrive, a client to disconnect, or a fault to happen.
A command that has been started runs until it ends or is killed.
For the watcher: weak fairness of the debouncer's thread, of the loop as a whole
(it is one task; that a change rather than the death of a server is served first is not
assumed) and of a starting server. Prompts are answered, because the loop blocks
on them; that the user ever gives up asking is not assumed (`ComesToServe` excepts it),
and neither is that servers stay alive.
JavaScript functions are assumed to end, by `MaxCalls` and `MaxCallbacks`.

## Proofs

Theorems are about `Spec` of their module for every value of the constants: any numbers
of requests, clients, actors, processes and changes, any bounds. Each safety theorem
rests on an invariant that is inductive, which the property itself rarely is; the
invariants were model-checked on the instances of the runs before they were proved.

### RequestTransaction

All theorems take `NoOrphans`: connections are direct, or requests are not dropped
before they end. `request_dropped` shows that it is needed.

- `TypeCorrect`, `IsolationHolds`, `NeverSpentHolds` (module
  `RequestTransactionProofs`) follow from the inductive invariant `SessionInv`:
  types; a client is held by one request (`ExclusiveClient`); a request that
  talks to the database holds a client (`Holding`); the server is inside a
  transaction only if the holder's status says so, and not after the response
  (`HolderKnows`); outside a transaction nothing is pending (`Settled`); and
  `Isolation` itself. Isolation alone is not inductive: what makes a returned
  client clean is that COMMIT or ROLLBACK was sent, which depends on the holder
  knowing that a transaction is open.
- `AllOrNothingHolds`, `FinalizedIsFinalHolds` rest on `AtomicInv`, which adds, for each request:
  without the flag it consists of one operation (`SingleOperation`); outside a
  transaction it has at most one statement behind it (`OneStatement`); inside
  an open one, what is pending is all it did (`PendingIsAll`); and before the
  response nothing of it is durable (`NothingEarly`). `AllOrNothing` is stated for all
  requests but single RPC calls of JavaScript methods (`Bare`), for which it does not
  hold: see below.
- `AckedIsDurableHolds` adds `AckInv`: no answer before the
  end (`Unanswered`), every write is committed or pending unless the server gave up the
  transaction (`NoneMissing`), and an aborted transaction shows as an error among the
  results (`AbortShows`). It takes `Uncaught` (no
  script hides a failed query) and `Reported` (the routers are GraphQL's, or no COMMIT
  fails): without them the property is false, as told below.
- `ErrorLeavesNothingHolds` rests on `ErrInv`: an operation outside a transaction leaves
  one result, and it is a success if something was written (`OneResult`, `WrittenIsOk`). It
  takes `Sure`: the connection does not break, where the outcome of a COMMIT is unknown
  to everyone, and the rows that an autocommitted statement returns can be converted.
- `ImplementsAtomicRequests`: under the hypotheses of `AckedIsDurableHolds` and without
  single RPC calls (`NoRpc`), `Spec => AtomicSpec`. Every step but the arrival of a request, the
  statements, the end of a transaction and the response is a stutter of `AtomicRequests`;
  that writes become durable together, and only together, is `AtomicInv`.

### Installation

`CacheIsWholeHolds`, `ExclusiveDownloadHolds`, `UpdatesLeaveInstallationHolds` and `TypeCorrect`
(module `InstallationProofs`), without further hypotheses. The invariant `LockInv` says who owns
which file: whoever has passed `take_file_lock` and lives owns the file it has open (`OwnsLock`);
as long as there is no cache, every downloader has the same lock file open, because only those
that found or made the cache remove it (`OneLockFile`); those downloading entered when there was
no cache (`OneDownload`); and neither kind of process is at a step of the other kind
(`KeepsToPart`). That the directory entry may point to another file than the one locked is what a
proof of mutual exclusion has to get around here. Updates do not exclude each other; that `bin` is
whole, or missing where some updater is to put a new one (`Installed`), is inductive all the same.

### DenoActorPool

`OwnHeadersHolds`, `CallAccountedForHolds`, `CallbackAccountedForHolds`, `LockAccountedForHolds`
and `TypeCorrect` (module `DenoActorPoolProofs`), without further hypotheses. `PoolInv` says when
a caller has an actor (`Given`), what the thread of an actor executes and whose headers it has
stored (`Executing`), that no call is forgotten before there is a result (`Answered`), and, caller
by caller, that at most one relays the callback of an actor, and one does exactly while the
function awaits its answer (`Relaying`).

`LockAccountedFor` is about the queue of the lock that tokio keeps for the callers of an
actor. A dropped request takes several callers out of several queues at once (`Leave`, a
recursive function); that what is left are the others, each once and still in order, is shown by
induction on the length of a queue (`LeftExists` for the function itself,
`LeaveMembers` for what it keeps). That a caller is in line exactly while it waits or
relays (`LocksOK`) is inductive together with `Given`.

### SchemaMigration

`TypeCorrect`, `NothingLostUnaskedHolds`, `ScopeRespectedHolds` and
`VerifiedIsUsableHolds` (module `SchemaMigrationProofs`) are for any finite models and any
number of processes. A list of statements is made from one catalog and runs
against another, so the invariant `Inv` says of a list only what does not depend on where it
came from (`CommandOK`): its statements make what some model has (`Proper`),
touch only the scope of the model (`Local`) and lose no data the user did not give up
(`Harmless`) unless they are marked destructive. Of the catalog it says that the tables
have names of models or of the interactions file, that references have targets and depend only on
schemas that models let them, and that a trigger has the schema of its table
(`CatalogOK`). The argument has three layers:

- *Statements.* `AlterStep`, `CreateTableStep`, `DropStep`, `RenameStep` and `EverywhereStep` take
  one statement of each kind that PostgreSQL does not refuse: the catalog stays well formed; if
  the statement is harmless, every column outside the tables given up is still there with its
  data; if it is local, no other schema is touched. CASCADE makes this more than a look at one
  table. `RunStep` extends it to a transaction by induction on the length of the list.
- *Lists.* `ColumnDiff`, `IndicesDiff`, `UniquesDiff` and the others up to `Diff` say which
  operations a difference can contain, and `FromDiffs` what they become; `TableActions` does so
  for the answers of the user, with `RenameOps` for what a rename does to sequences. `TableRead`
  and `LiveSpec` say what the schema read back has in common with the catalog. `ListSort` shows
  that the sort loses and invents nothing. `Each`, `FlattenSeq`, `sort_changes`, `Run` and the
  renames are recursive functions, each with a lemma that they exist.
- *Commands.* One lemma per action; `Invariance` combines them.

For `VerifiedIsUsableHolds` the same lemmas say the converse: each difference that queries
would notice is among the operations of `diff`, and `error_string` reports it.

The hypotheses, which TLC evaluates on the models of the run (`WithinTheorems`), come from
attempts to do without them:

- `SelfContained` (for `ScopeRespected`): no table depends on an enum or a table in the
  scope of a model that does not cover the table itself, since DROP ... CASCADE would
  reach it; and every model has a table in `public`, since DROP INDEX does not name the
  schema and finds the index in `public`.
- `EnumsInScope` and `IndexNamesTell` (for `VerifiedIsUsable`): the scope is made from the
  schemas of tables, so an enum in another schema is not compared; and the index to compare with
  is the first that has the same name or covers the same columns, so that of two
  candidates the wrong one may be found.
- `NothingLostUnasked` has no hypothesis, but excepts, besides the tables that the user
  chose to delete, those renamed into another schema (`Displaced`). RENAME TO leaves them in
  their own schema; if another process has meanwhile dropped a table of that name there
  which this user had agreed to delete, the DROP TABLE that follows finds the
  renamed table instead.

### DevWatcher

`ServesLatestHolds`, `SchemaOfServedHolds` and `TypeCorrect` (module `DevWatcherProofs`), without
further hypotheses. `WatchInv` carries along which version each stage has read: if no
change is on its way, the last build has read the files as they are (`BuiltIsSaved`) and
has got as far as a server exactly if they build (`SucceededIsOk`); its output is what a
server started since has loaded (`IrIsBuilt`, `ServesIr`); the callback has read the same
files (`ModelIsSaved`), and the schema it leaves is theirs unless that was waived
(`SchemaIsSaved`). Each of these fails for a stage that a change has overtaken, hence the
hypothesis `Fresh` in each.

### AccessSolver and GuardedOperation

An access rule is any finite expression, and the assumptions on `Rules` are what the
type checker accepts; that every set of expressions has one with no operand in it is
what being finite means, and is the induction principle of the proofs. `solve` and `Says` are
recursive functions over `Rules`; `RecursionExists` shows, by that principle, that they
satisfy their equations (module `AccessSolverProofs`).

- `DatabaseSolverIsExact`: a document satisfies what the database solver leaves of a rule
  exactly if the rule grants it, whatever claims are missing. By induction each solution
  is `Sound`: it holds on a row exactly if the reference says "true". For the operand of a
  negation that is not enough, since unknown must not become true; it has to be decided
  (`Decides`), which a comparison is and a compound with an undecided side is not. Hence the
  hypothesis `NegatesSimpleOnly`: rules negate literals and comparisons.
- `PrecheckSolverIsExact`: the precheck of a create in which every column has a value, if what the
  solver leaves is a constant or has one lead table, passes exactly if the rule grants the
  document; the lead table is then that of the projects. What the solver leaves selects at most
  the project that the input names (`Tied`). The negation of a path rule negates its tie to that
  project too; hence `NegatesFieldsOnly`. A condition with several lead tables is outside the
  theorem because the code has no query for it (see below).
- `PrecheckRefusesOnlyUngranted`: the same without the values: what is refused outright,
  no document that agrees with the input is granted. `PairsWithoutPublic` is needed because a
  comparison of the column `public` with another is ignored, whatever its outcome, when the input leaves
  `public` out, and its negation refused.
- `TypeCorrect`, `WovenHolds`, `IdentityKeptHolds` (module `GuardedOperationProofs`)
  follow from `Inv`, without hypotheses on the rules: where a request is in the tree says what has run,
  what the answer can be and whether it can have written (`Weave`); claims once read are
  those of every later check (`ClaimsHold`); the predicates in use are those of the caller
  (`Planned`), and the precheck passed on the projects it saw (`Passed`).
- `ActsWithinRuleHolds`, `CreatesAllowedHolds`, `RefusesOnlyWithoutGrantsHolds` combine `Inv` with
  the theorem on the solver that each needs, and inherit its hypotheses on rules.
  `CreatesAllowedHolds` needs none on lead tables: a precheck that has several panics, and nothing is
  inserted. TLC evaluates these
  on the rules of the run (`WithinTheorems`), so that they are not empty; that rules outside of them are
  answered otherwise is told below.
- `OwnersKeepHolds`, without hypotheses, from `OwnInv`: no two transactions have written the same row
  (`Disjoint`), and what a caller that is not an administrator has written was, and is, its
  own (`WritesOwn`). The latter needs the former: another commit between a statement
  and the commit could otherwise change whose document it is.

### NestedMutation

`TypeCorrect`, `TouchesOwn` and `AnswersAreMatched` (module `NestedMutationProofs`) take what
the module assumes of its constants: nested data is a forest in which every row follows the
one around it, and the tables are finite and without dangling references at the start.

- `TypeCorrect` says, besides types, that references between committed rows stay intact. That
  is not inductive, since what a transaction checked may be undone by the commit of
  another. `TableInv` adds that each transaction sees intact tables, that no row is written by two
  (`Apart`), and that no row refers to one that another has deleted, which is what
  PostgreSQL's waiting achieves.
- `TouchesOwn` needs to know which statements can come. `ScriptInv` says what stands at
  each position of a script, where a step refers only to earlier ones and a nested one to the root
  step (`Fits`); that the root step returned matched venues (`Resulted`); and that
  the statements still to run are about these (`Comes`, `Pending`). The number of insertions is not
  bounded: `ScriptWithExists` shows that the recursion over them has a
  solution, and `BoundedInduction` that each stage fits.
- `AnswersAreMatched` takes `OneColumnKeys`; `nested_composite` shows that it is needed. `AnswerInv`
  says how a script ends (`Ends`), that its last step carries the read rule of the mutation, that the
  matched venues are exactly what the steps the last one selects by have returned (`Matched`), and
  that keys keep one column (`Keyed`). The answer then has exactly those of the created, matched or
  deleted venues that are there and that the read rule admits: as they were for a deletion, as
  they have become for anything else.

*Only model-checked*, and why:

- Liveness (`EveryRequestEnds`, `EveryCallEnds`, `EveryProcessEnds`, `ComesToServe`):
  fairness and ENABLED are outside what the prover handles.
- `SchemaMigration!Settles` and `CreatesFromNothing`: they say that a second difference is empty, which
  takes the exact catalog that a list of statements leaves, statement by statement and in
  their order. The theorems about migrations need only what each statement can at most do.
- `NestedMutation!CreatesInPlace`: it counts the new rows below each row, so that an invariant
  has to relate the cardinality of what each step inserted to the results of its parent step.
- The properties of the runs that expect a violation, which do not hold.

## Where code and intention part

The three runs that expect a violation show the clearest cases. Modelling met others,
which the passing runs either leave out of their constants or include with what the code does:

*Transactions.* A script that catches a database error and returns normally is
answered with success while the COMMIT of its aborted transaction rolls back without an
error (`transaction_holder.rs:190`); `AckedIsDurable` fails once `Faults` has "caught". A
failed COMMIT of a batch is logged and the items are still answered as successful
(`rpc_router.rs:332`). A JavaScript method called by RPC runs in autocommit mode, so that
an error leaves its earlier writes behind (`deno-rpc-resolver/executor.rs:43`).

*Deno.* Callers that came to share an actor may take each other's callbacks from its
channel, so that a callback is processed in the wrong request's context
(`deno_actor.rs:237`). An actor whose module did not load stays in the pool and is
selected again; the call fails.

*Installation.* `update_exograph` removes its lock file while others wait for it, after which two
of them may update at the same time. `atomic_dir_swap` is two renames: killed between them, a
process leaves no `bin`, and the old one only as `bin.old`, which the next update begins by
removing; if that one is killed as well, before its second rename, neither is left, against the
comment at `download.rs:239` ("the old directory can be manually recovered from `.old`").

*Migration.* The following need a second migration, or are refused and rolled back: a column that
is created anew loses its index, constraint and reference until then, and a foreign key column is
created anew when its nullability or default changes, since the group of a reference is read back
under another name than the model gives it; for an enum whose variants change, the code creates
the enum again, with the variants it has, which PostgreSQL refuses; sequences are dropped before
the columns that use them; `ALTER TABLE ... RENAME TO` is given a schema-qualified name, and
cannot move a table to another schema, though the user may choose a table of another schema as the
new name; the sequences of serial columns are renamed with their table by an unqualified name,
which is refused outside `public` (`op.rs:193`); functions are compared without regard to the
scope; DROP INDEX does not name the schema of the index; an enum outside the schemas of the tables
is neither compared nor verified. The trigger of a table outside `public` is never read back
(`trigger_spec.rs:11`): once it is there, the model verifies no more and cannot be migrated
either, since CREATE TRIGGER is refused, against the documentation of `exo schema verify` ("One
way to fix any issues that `schema verify` finds is to perform a migration"). A foreign key to a
table outside the scope, left by another model, makes reading the schema fail, and with it every
command (`column_spec.rs:224`). A column that joins the primary key, or whose default becomes a
sequence of its own, never settles and is not among the models.

*Watcher.* If the callback before the start fails, the error is printed and the server is
started all the same (`watcher.rs:148`): under yolo without the environment that points it to
the ephemeral database (`yolo.rs:108`). The new server is started before the old one is killed and may
die because the port is taken; the loop meets its death like any other and the watcher exits
(`watcher.rs:112`; `ComesToServe` allows it).

*Access.* A comparison of two paths through a relation leaves a precheck over two lead tables; the
error is unwrapped and the request panics (`pg/transform/precheck.rs:18`), on creates that the
rule grants and on updates alike; a test of the solver gives such a create as an example
(`postgres-graphql-resolver/src/access/precheck_solver/tests.rs:234`). If the input does not name
the related row, the query is over all rows of the entity's own table, and passes if exactly one
satisfies the comparison. A rule on a related row that the input of an update does not name is
evaluated over any row of that table, so that the update is refused when there is none; a test
says such a rule "should be ignored" (`access/precheck_solver/tests.rs:386`). A negation is not
pushed into an unsolvable disjunct, and a negated path rule negates the tie to the related row as
well. A precheck and the statement it guards see different snapshots: `OwnersKeep` and
`CreatesAllowed` therefore speak of the projects as the check saw them.

*Nested mutations.* An update with nested creates that matches no row panics when the following
step reads row 0 of an empty result (`TransactionContext::resolve_value`), where a comment in
`insert.rs` says that the operation need not be performed; the request ends without an answer, and
its transaction is undone. Prechecks of nested updates and deletes are computed and not put into
the script. The select that answers a mutation has the read rule of its own
(`postgres_mutation.rs:50`): rows that were written and may not be read are missing from the
answer, and a caller who may read nothing is refused the mutation.

## Not modelled

- *Pure functions of one input*: GraphQL parsing and validation, introspection, the parser, type
  checker and builders of the model, trusted documents, environment lookup. They hold no state
  between calls and have no second actor; what they compute is separated by small unit tests. They
  are the larger part of the repository, together with rendering SQL and the command line's input
  and output, and the reason why the share of lines that the models cover is small.
- *The text of SQL and the meaning of expressions in it*: the transformation of selects, ordering,
  grouping, and the decoding of rows.
- *Other code's work*: HTTP hosts (their effect here is to run or to drop a request, and to bind a
  port), JavaScript and WASM, cryptography and key sets, Postgres types.
- *Parts of modelled components*: access rules of single fields, `some`, `in`, `<` and the like,
  nullable columns in rules; the matching of interceptor expressions with operations; several
  operations in one intercepted request; updates of primary keys; views; callbacks that a function
  issues concurrently.
- *The language server*: it keeps a table of workspaces and documents that concurrent
  notifications change; a candidate for a module of its own.

Wording and layout of responses are left out throughout. Simplifications that a reader of the
models should know: the outcome of a precheck in `NestedMutation` is left open (`GuardedOperation`
has its meaning); a statement that waited sees the newest committed rows; an object given where a
list is allowed is a list of one; a nested row of a create gets its foreign key from the row
around it (the code leaves a column that the row already gives as it is). In `SchemaMigration`,
the sequence of a serial column is renamed with the table when both are in `public`: that a column
became serial between reading and renaming, or that a table in `public` has the name of a renamed
one, is left out. The interactions file names tables of models that the database does not have; a
name that is taken would be refused. In `DevWatcher`, the debouncer reports every change: a batch
that is an error, which the loop drops (`watcher.rs:101`), stands for changes that the operating
system did not report.

## Plan

What is left is proof:

1. `NestedMutation`: `CreatesInPlace`, from an invariant that says, for every insertion of
   the script, which rows it has added below which row of the step it refers to.
2. `SchemaMigration`: `CreatesFromNothing`, for which the lemmas about one statement have to
   give the catalog exactly, for lists in the order of `from_diffs`.
