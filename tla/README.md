# A TLA+ model of POID

POID is an "application as document" container: a ZIP file holds a web
application, its manifest and, in some storage modes, its data. A *reader* (the
desktop Studio or the Web Reader) runs the application in a sandboxed iframe and
gives it a data engine, network access and connections through a broker. This
directory models the parts of the repository where state, concurrency and
failure meet. Every definition is translated from the source; the `map` of
`PROJECT.json` names the lines.

## Inventory

| Component | State | Operations | What is hard |
|---|---|---|---|
| SQL engine (`poid-host/sql-engine.ts`) | connection, open transaction, mutex chain, idle timer, dirty counter, persist chain | exec, begin, commit, rollback, snapshot, flush, expiry | calls interleave at every await; SQLite ends transactions by itself; persistence is write-behind and skips open transactions |
| SQL persistence and seeding (`sql-persistence.ts`, `sql-ipc.ts`) | one promise per seeded scope, stored bytes | seed, load, persist, dump | crash between seeding, stamping and saving |
| Migrations (`migrations.ts`) | `user_version`, pending scripts | parse, apply, stamp | failure and crash between two scripts |
| Vault document and store (`poid-vault`) | CRDT document per instance: slots, current pointer, entries; SQL blobs | kv_set/delete/clear, slot switch, merge, flush | quota over all slots, document changed before a failing flush |
| Desktop vault session (`vault_state.rs`, `commands.rs`, `vault-ipc-engine.ts`, `reader-main.ts`) | window bindings, open instances; a mirror and a write queue per window | hydrate, write-through, flush, switch slot | the slot is resolved when a queued write arrives; windows that share memory share the current slot |
| Instance identity (`index.rs`, `document.rs`, `commands.rs`) | index of instance id to path, ids inside the files | open, register, move, fork, share | crash or failure between file, index and memory |
| Broker, bridge, reader, watchdog (`poid-host`) | sessions, rate buckets, registrations, ping sequence | register, handle, post, stop, tick, pong | answers after teardown, Stop during start-up |
| Connections (`poid-connections`, `connections*.rs`) | records file, keychain, bindings, SQL session per window | upsert, remove, bind, query, close | two stores updated one after the other; close races an opening session |
| Broker policy (`poid-broker`) | none | allow-list, redirects, scrubbing | pure decisions |
| Container core (`poid-core`) | files and manifest | read, write, sign, update_program, save_path | what an update keeps |
| CLI, conversion, WASM bindings, SDK, UI, toolchain | little | | sequential |

The reader wires them together: the sandbox posts a request, the bridge
attributes it to a window, the broker checks capability, rate and quota and
calls an engine or a handler. The SQL handler seeds a scope on first use
(loading bytes, migrating), then drives the SQL engine, whose persist callback
writes IndexedDB or, over IPC, the vault. The kv tier of vault mode is a mirror
with a write queue over the same IPC.

### What makes each part correct

* SQL engine: isolation of API transactions; only committed states are stored,
  and in order; nothing committed is forgotten; every call is answered.
* Migrations: each script takes effect once and whole, with its version, across
  crashes.
* Vault session: a write an application made in a slot is applied to that slot;
  mirror and vault agree once the queue is drained.
* Identity: two files never share memory unless the user chose Share; a crash
  never loses memory.
* Broker and reader: no effect and no answer after teardown; Stop always stops.
* Connections: no usable-looking connection without a credential, no binding to
  a removed connection, no session without a window.

## Modules

| Module | Models | Proofs |
|---|---|---|
| `SqlEngine` | one open scope of the SQL engine | `SqlEngineProofs` |
| `DurableStore` | what the SQL tier promises, implemented by `SqlEngine` | the refinement, in `SqlEngineProofs` |
| `VaultSlots` | one vault instance and the windows bound to it | `VaultSlotsProofs` |
| `Migrations` | the database of a scope over releases and crashes | `MigrationsProofs` |
| `InstanceIdentity` | which memory a file addresses | `InstanceIdentityProofs` |
| `Connections` | registry, keychain, bindings, the connection prompt | `ConnectionsProofs` |
| `SqlSessions` | statements of windows against the user's own database | `SqlSessionsProofs` |
| `NetFetch` | a brokered fetch, hop by hop | `NetFetchProofs` |
| `ContainerRules` | what pack and open accept | its rules, in `ContainersProofs` |
| `Containers` | the life of one `.poid` file under several programs | `ContainersProofs` |

What one module takes from another: `Migrations` takes from `SqlEngine` that
saves store committed states in order; `VaultSlots` what a flush waits for;
`SqlSessions` and `NetFetch` take from `Connections` which connection has a record
and a credential; `Containers` composes `ContainerRules` with every operation that
rewrites a file. `MC*` modules and `.cfg` files are the instances TLC checks.

All runs:

| Run | Module | Properties |
|---|---|---|
| `sql_gate` | `SqlEngine` | `GateMatchesConnection`, `NoDirtyRead`, `PersistedWasCommitted`, `SnapshotIsClean` |
| `sql_flush` | `SqlEngine` | `TypeOK`, `UnsavedIsQueued`, `CleanMeansDurable`, `CalmFlushDrains`, `ImplementsStore` |
| `sql_live` | `SqlEngine` | `AbandonedTxEnds`, `CallsAreAnswered` |
| `vault_kv` | `VaultSlots` | `TypeOK`, `OnlyLateStray`, `MirrorIsAhead`, `SwitchDrains`, `WithinQuota` |
| `vault_live` | `VaultSlots` | `OnlyLateOverwrites`, `SwitchEnds` |
| `vault_isolation` | `VaultSlots` | `SlotIsolation`, violated |
| `migrations` | `Migrations` | `TypeOK`, `StoredAgrees`, `ReadyIsCurrent`, `NoRerun` |
| `identity` | `InstanceIdentity` | `TypeOK`, `NoSilentSharing`, `MemoryFollowsFile`, `AskedOnce` |
| `connections` | `Connections` | `RemovedIsGone`, `FitsUnlessCut`, `DeclineStands` |
| `sessions` | `SqlSessions` | `NoForeignTx`, `StatementsEnd`, `QuietCloseEndsSession` |
| `netfetch` | `NetFetch` | `StaysWithinGrant`, `CredentialStaysHome`, `BodyFollowsStatus`, `FetchEnds` |
| `containers` | `Containers` | `AlwaysConforms`, `NothingProhibited`, `DataKept`, `ConsentCovers` |

A cfg switches the deadlock check off where the system may really stop: when
nobody acts, or when a bound on what is created has been used up.

## SqlEngine

One open scope of `WaSqliteEngine`. JavaScript runs one task at a time, so a
step is what runs between two awaits.

| Model | Code |
|---|---|
| `committed`, `work`, `inTx` | the SQLite connection (external), `get_autocommit` |
| `file`, `dirty` | main file of `ScopeVfs`; `vfs.writes !== persistedWrites` |
| `stray` | the ROLLBACK `enforceTxDiscipline` issues and does not await |
| `tx`, `timer`, `waiters` | `ScopeState.tx`, its timer, the calls awaiting `tx.closed` |
| `chain` | the promise chain of `locked()` |
| `call` | the call each client has under way |
| `persistQueued`, `job`, `image`, `durable`, `persistFailure` | `schedulePersist`, its job, `options.persist` |
| `flush` | `flush()` |
| `Request`, `RefuseToken`, `Retry` | `gated()` |
| `ExecStart`, `Stmt*`, `ExecFails`, `ExecReturns`, `ExecRejects*` | `exec`, `run`, `reconcileTx`, `enforceTxDiscipline` |
| `Begin`, `Commit`, `Rollback`, `Snapshot`, `TimerFires`, `ExpireTx` | the methods of the same name |
| `JobStart`, `JobSnapshot`, `JobSkip`, `SaveSucceeds`, `SaveFails` | the job of `schedulePersist` |

Abstractions:

* Database content is a set of changes; SQL text is a sequence of steps: reads,
  writes of a change, BEGIN, COMMIT, ROLLBACK, and a failure at any point (a
  result cap or a bad parameter is one more reason to fail).
* SQLite spills pages of an open transaction to the file at will, and a failing
  statement may roll the whole transaction back (`SQLITE_FULL`). A COMMIT that
  fails leaves its transaction open: with the in-memory VFS only a deferred
  constraint can fail it.
* The idle timer may fire at any time. A timer that fires while its transaction
  is in use queues an expiry all the same, as in the code.
* A transaction id is fresh if nothing refers to it (UUIDs).
* Calls arrive in macrotasks, and a call whose turn finds a begin ahead of it
  goes back to waiting in microtasks: `Settled`.
* The branch of `commit` for a transaction SQLite already ended has no step:
  `GateMatchesConnection` shows it is dead code.
* Left out: `closeScope` (nothing in the product calls it), a ROLLBACK that
  fails inside `expireTx`, and `usage`.

`DurableStore` is the promise: the database moves from one committed state to a
later one, and the stored bytes move, in the same order, through some of them.

### Runs

| Run | Instance | Shows |
|---|---|---|
| `sql_gate` | 2 clients, 3 tokens, manual BEGIN and COMMIT text, symmetry | `GateMatchesConnection`, `NoDirtyRead`, `PersistedWasCommitted`, `SnapshotIsClean` |
| `sql_flush` | 1 client, all text, 1 flusher | `TypeOK`, `UnsavedIsQueued`, `CleanMeansDurable`, `CalmFlushDrains`, refinement of `DurableStore` |
| `sql_live` | 3 clients, begin and commit only, fairness | `AbandonedTxEnds`, `CallsAreAnswered` |

Bounds. Two clients are enough for one to hold a transaction while the other
waits, retries or carries a stale token; a third token lets a stale one differ
from the open one and from a fresh one. One change distinguishes stored from
not stored, spilled from not spilled. Three clients are needed for a call to be
overtaken again and again. The number of jobs a flush waits for is at most two
(one running, one queued), which `TypeOK` checks. The theorems below lift all of
these bounds except liveness.

Fairness. The event loop runs what is ready (`MutexMoves`, `JobStart`,
`FlushReturns`, `StrayRollback`), SQL text ends, a save comes back, and the timer
of a transaction no call carries fires. Nothing obliges a client to call.
`CallsAreAnswered` therefore assumes that no single transaction is kept in use
for ever (`[]<>(tx = NoTx)`): an application that keeps using one token does
block its own other calls, by design.

### Where code and comments differ

* The comment at `sql-engine.ts:618` says "tx end reschedules", but an expired
  transaction, or one ended by COMMIT or ROLLBACK text, does not. A write before
  the `begin` whose persist job found the transaction open stays unsaved until
  the next write. `flush()` can then resolve with it unsaved, and Studio drains
  this way before it switches slots. `UnsavedIsQueued` and `CalmFlushDrains` say
  what remains true: their exemption (`silent`, `behind`) is exactly this case.
* `snapshot()` waits for API transactions only, so it can copy spilled pages of a
  manual one. Text that fails after its `BEGIN` leaves one open, and the ROLLBACK
  of text that succeeds is not awaited. `SnapshotIsClean` bounds the damage: what
  a snapshot copies beyond the committed state is manual work (`loose`), never a
  change of an API transaction.

### What is proved

`SqlEngineProofs` proves, for any sets of clients, tokens, changes and flushers,
every safety property of the passing runs: `TypeCorrect`, `GateAgrees`,
`Isolation`, `SavesAreCommitted`, `SnapshotsAreClean`, `NothingForgotten`,
`CleanIsDurable`, `FlushIsHonest` and `Refinement`. The assumptions are those of
`SqlEngineAssumption`: "no transaction" is not a token, and the mutex's own users
are not clients.

The inductive invariant `Inv` adds to the properties what they rest on: begin and
snapshot carry no token (`TokenlessCalls`); a running batch is at the head of the
mutex and holds the open transaction's token (`BatchHoldsMutex`); outside a
transaction the file is the committed state (`QuietFile`); uncommitted work
outside an API transaction is `loose` (`LooseWork`); the stored state, the state
being stored and the committed state are in order (`Rising`); and what a flush
still waits for covers its target (`CleanFile`, `FlushCovered`, `FlushOver`). For
example `NoDirtyRead` alone is not inductive: a batch without a token could run
inside a foreign transaction unless `BatchHoldsMutex` excludes it.
`SnapshotsAreClean` rests on `LooseWork` and on `FileBetween`: the file never holds
more than the committed state and the work of the open transaction.

Only model-checked: liveness (`sql_live`), which is out of the prover's reach.

## VaultSlots

One vault instance and the Reader windows bound to it.

| Model | Code |
|---|---|
| `doc`, `current` | the open `InstanceDoc`: entries of each slot, current pointer |
| `disk`, `blob` | the document file and the SQL file of each slot |
| `up`, `slot`, `mirror`, `queue`, `failed` | an open window and its `VaultIpcEngine` |
| `sql` | the SQL tier of the window, in the summary below |
| `switch` | the slot bar's handler in `reader-main.ts` |
| `OpenWindow`, `Reload` | `vault_hydrate`, at start and after a switch |
| `CloseWindow`, `Crash` | the window, or the process, goes away with all it held |
| `KvSet`, `KvDelete`, `KvClear` | the engine's methods: mirror at once, command queued |
| `Apply` | `vault_kv_set`, `vault_kv_delete`, `vault_kv_clear`: quota, change, flush |
| `SqlWake`, `SqlChange`, `SqlSave`, `SqlSkip` | `vault_sql_load`, a write, `vault_sql_save`, a persist job that found a transaction open |
| `StartSwitch`, `KvDrained`, `SqlDrained`, `MoveSlot` | the awaits of the handler, in order |
| `CommandSlot` | commands carry no slot: each means the slot current when it runs |

Abstractions:

* A command is one step. Tauri runs these synchronous commands on the main
  thread, one at a time. A write under way when its window reloads is applied
  before the new hydration.
* A write is what it puts and what it deletes. A key has length 1, a value one
  of `Lens`. A size is the number of bytes stored, counted as a set (`Bytes`).
* Entries and changes carry, as history, the slot their writer was hydrated in
  (`from`) and whether it wrote them after a switch began or once the pointer
  had moved (`late`). No guard reads either.
* A flush that fails leaves the document in memory changed, and, in `MoveSlot`,
  the pointer moved, as in the code.
* The SQL tier is `SqlEngine` seen from outside: a set of changes, one flag for
  unsaved ones, one for a failed save.
* All files of an instance have the same quota. A window runs one switch at a
  time.
* Automerge is external: a document is a map. Merging is not modelled here.

### Runs

| Run | Instance | Shows |
|---|---|---|
| `vault_kv` | 1 window, 2 slots, 1 key, 2 lengths | `TypeOK`, `OnlyLateStray`, `MirrorIsAhead`, `SwitchDrains`, `WithinQuota` |
| `vault_live` | 1 window, both tiers, no keys (writes are `clear`), fairness | `OnlyLateOverwrites`, `SwitchEnds` |
| `vault_isolation` | 1 window, 2 slots, 1 key | `SlotIsolation` is violated, see below |

Bounds. Two slots are the least a switch needs. A queue of two holds one write
that a switch awaits and one that came after; `vault_live` needs only one
place, which the application fills again as soon as it is free. The quota is small enough that two
slots together exceed it while each alone does not. One window: with a second
one the state space leaves TLC's reach, and what a second window adds is the same
case, a pointer that moved under a mounted application.

Fairness. Commands return, the SQL chain moves on, the browser reloads. Nothing
obliges the application to stop writing: `SwitchEnds` holds although it does not.

### Where code and comments differ

* The comment at `reader-main.ts:399` says the application must "never observe
  the switch". The run `vault_isolation` shows that it can (`SlotIsolation`): the
  application keeps running between the drain and the reload. A write it makes
  then is applied to the slot switched to. A switch whose flush fails leaves the
  pointer moved and the application in its old slot. `OnlyLateStray` and
  `OnlyLateOverwrites` bound the damage: nothing written before the switch goes
  astray.
* The host counts one slot and gives no credit for the entry it replaces, the
  vault counts all slots and does. A write the host accepted can be refused by
  the vault later, when the application has its answer.

### What is proved

`VaultSlotsProofs`, for any windows, slots, keys, lengths, quota and queue bound
that satisfy `VaultSlotsAssumption`:

* `VaultTypeCorrect` and `SwitchLeavesNothing` (`SwitchDrains`), for any number of
  windows. `SwitchDrains` is not inductive: a drain ends when its count is zero,
  so the invariant `Drains` adds `Counted`: while the count is above zero, what
  it counts is the front of the queue and all behind it is late. Only the
  window's own `Apply` takes from the front, and lowers the count with it.
* `EarlyWritesStay` (`OnlyLateStray`), for one window (`Lone`). `LoneInv` adds
  `Pointed`, that a queued write which is not late was made in the slot that is
  current, and `NoStray` of the document and of its file, which a crash brings
  back. The pointer moves only behind a drained queue. With a second window
  this fails: its switch moves the pointer under a queue it does not drain.

* `EarlyChangesStay` (`OnlyLateOverwrites`), for one window. `OverInv` adds `Away`,
  that a switch goes to another slot than the window's own, and `SqlOK`: in its
  own slot the window's database has no foreign change without a late one, and
  what is due to be saved has a late one as soon as the switch has passed the
  saves and the pointer may move.
* `MirrorStaysAhead` (`MirrorIsAhead`): for every key, the last queued write that
  touches it, or the document when none does, is what the mirror holds. The
  property speaks of a window whose slot is current, so the invariant
  (`MirrorInv`) needs `Away` again: `MoveSlot` always takes the pointer off that
  slot, and only the reload's hydration brings the two together.
* `QuotaHolds` (`WithinQuota`), for any number of windows. `QuotaInv` adds that a
  write puts one key at most (`OneKey`), that the file keeps the quota too, which
  a crash brings back, and that the bytes stored are finitely many. A put takes
  away the bytes of the entry it replaces and adds its own (`PutFits`), which is
  the sum the vault weighed before it.

Only model-checked: `SwitchEnds` (liveness).

## Migrations

The database of one scope over the releases of its application.

| Model | Code |
|---|---|
| `file` | the container: the release (`storage.schema_version`, `migrations/`), and `data/database.sql` |
| `stored`, `image`, `dirty` | the persisted bytes, a save under way, `vfs.writes !== persistedWrites` |
| `phase` | the await `seedScope` and `applyMigrations` are at |
| `run`, `db` | the window's options and its database, as committed |
| `work`, `script`, `pending` | the transaction of a script, and the list left |
| `Open`, `Seed`, `Stamp` | `seedScope` |
| `ReadVersion`, `Begin`, `RunScript`, `Bump`, `Commit`, `Migrated` | `applyMigrations` |
| `LoadFails`, `Fail` | any of these rejecting, with the rollback |
| `Write`, `Copy`, `SaveEnds`, `Close` | the application, the persist job, the end of the window |
| `Download`, `Update`, `Carry` | the Web Reader's download, `update_program`, the file opened elsewhere |

Abstractions: a schema is the set of scripts whose effect the tables have; code
of version t builds `UpTo(t)`. `parseMigrations` is what it returns, a set of
versions: it rejects duplicates and zero. A release ships every script up to its
target. A dump replays as one transaction. A script that meets no tables fails or
makes none of them. Scripts contain no transaction statements of their own. One
window has the scope open.

`raw`, a history field no guard reads, marks data whose recorded version says
nothing of it: a dump not stamped yet, a dump of another schema, tables that a
release without versions built on a newer database. The properties exempt raw
data. What the exemption hides: when the seed is saved and its stamp is not,
the next opening runs scripts on data that already has them; and the dump of a
container that was updated without being opened is stamped as current and not
migrated.

| Run | Instance | Shows |
|---|---|---|
| `migrations` | scripts 1 and 3; releases 0, 1 and 3 | `TypeOK`, `StoredAgrees`, `ReadyIsCurrent`, `NoRerun` |

Bounds. Two scripts are the least that can be torn apart by a crash; the missing
version 2 and the release that ships a script above its target exercise both ends
of the filter. Release 0 skips the reconciliation, so it also skips the refusal of
newer data; `ReadyIsCurrent` is therefore about releases with versions. A stamp
that is saved before the application built its tables makes the next release run
its scripts on no tables; the model has these steps and the properties allow them.

`MigrationsProofs` proves the four properties of the passing run for any set of
scripts and releases: `MigrationsTypeCorrect`, `StoredVersionTrue`,
`SchemaIsCurrent`, `ScriptsRunOnce`. The assumption, `MigrationsAssumption`, is
that scripts have positive numbers and a release ships all scripts up to its
target. `StoredAgrees` alone is not inductive: what is stored comes from `db`,
`db` from `work`, and `work` is right at the commit only because the script is
the least one pending and pending is what the committed version leaves
(`Migrating`, `Transaction`); `Level` carries the result into the tables an
application builds later.

## InstanceIdentity

Which memory of the vault a container file addresses, and how files keep it when
they are copied, moved, forked and opened again.

| Model | Code |
|---|---|
| `file` | the containers on disk: the id inside, the storage mode |
| `mem` | the vault's memory of an id, as the files that wrote to it |
| `indexDisk`, `index` | `index.json` and `InstanceIndex.entries` |
| `docs`, `bound`, `seq` | `Documents`, `VaultState.windows`, `READER_SEQ` |
| `job` | a command between two of its writes |
| `Arrive`, `CopyFile`, `MoveFile` | the user's file manager |
| `Disposition`, `RecordMove`, `AddShared` | `poid-vault/src/index.rs` |
| `LoadFresh`, `LoadRegister`, `LoadKnown`, `LoadEmbedded` | `load` in `document.rs`, `open_reader` in `windows.rs` |
| `AnswerMove`, `AnswerShare` | `resolve_copy_conflict` |
| `ForkCopy`, `ForkSave`, `ForkRegister` | `fork`: copy the memory, save the file, register it |
| `Write`, `CloseWindow`, `Restart` | a vault command, the end of a window, of the process |

Abstractions: a file carries a token that tells it from a copy with the same
bytes; the program never sees it. The memory of an id is the set of tokens that
wrote there. Every save of the index may fail and leaves the change in memory, as
in the code; `resolve` saves the index too, and `Recorded` is the change that
follows a save that succeeded. The copy question is answered at most once: the
page asks it of a document that came with a conflict (`reader-main.ts:493`), the
command does not look at the flag. `original`, read by no guard, is the file this
process last opened as the one an id belongs to. Files are not touched from
outside in the middle of a command.

The run `identity` has two paths, two files, two ids and two windows. One file
and its copy is the least the question is about, a fork needs the second id, and
sharing is between two windows. Two files of one id at once are a copy; a third
would be a second copy. A third window matters for `NoSilentSharing` alone, which
is therefore proved for any number of windows.

* `NoSilentSharing`: two windows whose files lie where they were opened, at two
  paths, and were not forked since (`Unforked`) write to one memory only after
  the user said Move or Share, or when the index could not know better
  (`blind`): `load` opens a copy as the original when the index cannot be saved;
  a copy looks moved when the original was moved unseen (`Astray`); and a copy
  put at the registered path opens without a question (`Replaced`). The last
  takes three windows: a file is opened, moved, opened again, moved back, and a
  copy is opened at the place it came back from. The first and the third window
  then write to one memory. `Disposition` compares paths, so nothing in
  `index.rs` could tell.
* `MemoryFollowsFile`: what was stored is in the memory the file names now,
  whatever was forked, moved or cut short.
* `AskedOnce`: a confirmed answer stays, in memory and on disk.

`MemoryFollowsFile` is about the kv tier. A fork copies the document and not the
SQL blobs, so a forked file starts with an empty database.

`InstanceIdentityProofs`, for any paths, files, ids and windows:
`IdentityTypeCorrect` (with `JobOK`: a command under way names a file that exists
and a window that is open), `AnswersStay` (`AskedOnce`, with `IdsDrawn`: the id of
a command under way is newer than any answer) and `MemoryStaysWithFile`
(`MemoryFollowsFile`, with `TokensApart` and `CopyReady`: a fork that is about to
save the new id has already copied the memory; this is why the order of the three
steps matters), and `NothingSharedSilently` (`NoSilentSharing`). That two windows
do not share says nothing of how they came to be bound, so its invariant,
`SharingInv`, says of every window that neither an answer nor a blind opening
explains (`Quiet`) why the memory is its own (`Held`): its file, if it still has
the id, is the `original` of the id, and two such files are one file
(`FilesApart`); a file that could not be given an id shares with nobody.
`OriginalKnown`, that an original is in the index, is what makes `Register` safe,
and `BoundDrawn`, that no window is bound to the id of a command under way, makes
the fork and the first opening safe. `Replaced` is a case the
proof asks for and no run with two windows reaches.

## Connections

The user's connections, and which document keeps its data in which.

| Model | Code |
|---|---|
| `keychain` | the operating system's keychain (external) |
| `recDisk`, `rec` | `connections.json` and `ConnectionStore.records` |
| `bindDisk`, `bind` | `bindings.json` and `BindingStore.bindings` |
| `window` | what a Reader window offers and what its user chose |
| `Upsert`, `Rename`, `Remove` | `connection_save`, `connection_rename`, `connection_remove` |
| `OpenDocument`, `Ask`, `Choose`, `Bind` | `connection_choices`, the prompt, `connection_bind` |
| `LoseCredential`, `Restart` | a credential deleted outside, the process dying at any write |

Abstractions: a credential is the number of the save that brought it, and a
record's target that of the credential it was parsed from. Labels and the text of
a DSN are left out. Saving over a connection may change its kind, for the command
does not compare it with the record's. A command is one step, except that its writes can fail or the
process die between them.

The run `connections` has two connections, three credentials, and two windows on
one document. The second connection is what a removal must leave alone, the
third credential is an edit after an edit, and two windows are what it takes to
answer for a document while another one is asking.

* `RemovedIsGone`: after a removal that reported success neither credential, nor
  record, nor binding comes back; a binding may if it was not saved before a
  restart (`lost`).
* `FitsUnlessCut`: record and credential belong together unless the record never
  reached its file (`cut`).
* `DeclineStands`: a user who declined is not asked again.

The two exemptions are real. A removal whose keychain delete is refused hides the
record until the next start, with the credential still there. An edit whose
record cannot be saved leaves the new credential beside the old record.

`ConnectionsProofs` proves `ConnectionsTypeCorrect`, `RemovalIsFinal`,
`CredentialsFit` and `DeclinesStand` for any number of connections, documents,
windows and credentials. The invariant adds `Known` (an id with a record has been
drawn, so a removed id is not given to a new connection) and `FileFits` (what is
in the file fits as what is in memory does, for a restart takes it from there).

## SqlSessions

Statements of `poid.db.sql` against the user's own database.

| Model | Code |
|---|---|
| `usable`, `bind` | what `Connections` decides: a record with a credential, a document's connection |
| `sql`, `lock` | `ConnectionsState.sql`, by window label, and the mutex around it |
| `window`, `call` | the window, the transaction `reader-main.ts` believes in, its statement |
| `Statement`, `Acquire`, `Opened`, `Ends` | `connection_sql_exec`, `sql_for_window`, `connect`, the answer |
| `Drop` | a session the server or the network ended (`is_closed`) |
| `CloseWindow`, `Close` | the `Destroyed` event and `close_sql_for_window` in its task |
| `Reload` | the page of a window loaded again: the application starts anew, the label keeps its session |

Abstractions: a session is its connection and whether a transaction is open. A
window has one statement under way at a time, and a page is reloaded between two
(the program itself reloads pages of vault documents only, `reader-main.ts:401`; a
user may reload any). Statements are begin, commit and
anything else.

The run `sessions` has one connection and two windows on one document: with two
windows one can wait for the mutex while the other connects, or close while the
other runs.

Fairness. A task that waits for the mutex gets it, because tokio's mutex is a
queue (`SF` of `Acquire` and `Close`; weak fairness would let two windows take
turns for ever). A server answers or the driver gives up (`WF` of `Opened` and
`Ends`). The connect itself has no timeout, and the mutex is held over it: where
a driver waits without end, every window waits with it. `StatementsEnd` is
therefore a statement about servers that answer.

* `NoForeignTx`: no statement runs in a transaction its own application did not
  begin. Exempt (`left`) is a window whose page was reloaded inside a transaction:
  nothing rolls it back, and the new page's statements run in it.
* `StatementsEnd`: every statement ends, one mutex for all windows or not.
* `QuietCloseEndsSession`: a window closed between two statements leaves no
  session. One closed during a statement may: the statement opens the session
  after the task that closes it has passed.

A session is found by the window's label, so it also outlives a change of the
binding: statements go on against the connection it was opened for.

`SqlSessionsProofs` proves `SessionsTypeCorrect` and `StatementsStayHome`
(`NoForeignTx`) for any connections, documents and windows. `NoForeignTx` speaks of
statements under way; the invariant says the same, with the same exemption, of
every open session (`OwnTx`), and that a label no window has had has none (`Unborn`).

## NetFetch

`poid.net` on the trusted side, one fetch, hop by hop.

| Model | Code |
|---|---|
| `manifest` | `permissions.network` of the document |
| `keychain` | credentials of the connections for the network |
| `pc`, `req`, `hop`, `creds`, `pinned`, `got` | the locals of `net_fetch` and `brokered_fetch` |
| `OriginParse`, `OfUrl` | `Origin::parse`, `Origin::of_url` |
| `Classify`, `Usable` | `classify`, `usable_addresses` in `network.rs` |
| `Fetch`, `Gathered`, `ForOrigin` | `net_fetch` up to its first await, `OriginCredentials` |
| `Hop`, `Resolve`, `Redirect`, `Respond`, `Chunk`, `Finish`, `Fail` | the loop of `brokered_fetch`, `resolve_redirect`, `read_response` |
| `Enter`, `Forget` | the user changing credentials meanwhile |

Abstractions: a URL is what the parser tells apart (scheme, host, port, what
follows); an address its octets or segments, judged with the code's own prefixes.
`held`, `asked` and `sent` are history.

The run `netfetch` has one manifest with one origin and one with four entries: the
same host on two ports, a private literal and an entry that is no origin. The
resolver answers with the first and last addresses of the blocks, above all those
that are not whole octets wide, with the forms that carry an IPv4 address, and
with two addresses at once. Three redirect statuses stand for the three
treatments, and two redirects let a credential be dropped and picked up again. A
redirect limit of 2 and a body limit of 1 make both limits be met.

* `StaysWithinGrant`: no connection to a reserved address, and no request or
  lookup for an origin the manifest does not declare. The property has the
  registries' blocks in a table of its own.
* `CredentialStaysHome`: a credential goes only to an origin its connection
  covers, over any chain of redirects.
* `BodyFollowsStatus`: a body that was dropped is not sent again, one that must be
  kept is.
* `FetchEnds`: with `WF` of a hop, of a lookup (the resolver answers or gives
  up; the code sets no timeout of its own for it) and of the failure `reqwest`'s
  timeout brings about.

Seen on the way, and none of the properties is about them: a 301 or 302 turns
every method but GET into GET, HEAD included; a relative `Location` with `://` in its
query is taken for an absolute one and refused; a credential removed during a
fetch is still sent on its later hops.

`NetFetchProofs` proves the three invariants for any manifests, answers, connections
and limits, on one assumption (`NetFetchAssumption`): what resolves is an
address, and the connections are numbered. `BodiesFollowStatus` needs `Onward`: the
request at hand is what the last answer made of the last request; without it
nothing relates two requests that are not neighbours. `NothingOutsideGrant` and
`CredentialsStayHome` need `Granted` (a name is resolved only for an origin that
has been checked) and `Home` (what was gathered is what the connections held when
the fetch began). The core of the first is a fact about all addresses,
`ReservedNotUsable`: whatever lies in a block of the table, or carries an IPv4
address of one, is refused by `Classify`. It rests on digits and bits: a prefix
agrees digit by digit (`PrefixByDigit`), and the leading bits of a segment are
those of its two octets (`HighOctet`, `LowOctet`, `Octets`, `PairPrefix`).

## ContainerRules and Containers

`ContainerRules` is what pack and open accept: paths, nested archives, limits,
the blocks of the manifest, the rules of each type, and what the CLI collects from
a project directory. `Containers` is the life of one file under them.

| Model | Code |
|---|---|
| `PathOk`, `FoldUnique`, `Scan`, `InsideOk`, `Bytes`, `EntryOk`, `RatioOk`, `WithinLimits` | `paths.rs`, `read.rs`, `limits.rs` |
| `Admissible`, `WriterAccepts`, `ReaderAccepts`, `ValidateBlocks`, `TypeRules` | `write.rs`, `read.rs`, `manifest.rs` |
| `Collected`, `Resolves`, `Built` | `poid-cli`: `project.rs`, `stdlib.rs`, `build_app` |
| `file`, `vault` | the file on disk, the vault entry of its instance |
| `edit` | the container a program has opened, changed and not yet saved |
| `Pack`, `Convert` | `poid pack`, `poid convert` with their self-check |
| `Sign`, `Update`, `Protect`, `Unprotect` | the commands, `update_program`, `protect.rs` |
| `Sources`, `Covers` | any container `poid update` can open, and whether its signature is valid over its program |
| `FirstOpen`, `Download` | `set_instance_id`, the Web Reader's download |
| `ToVault`, `ToEmbedded`, `Duplicate` | `poid-vault/src/convert.rs`, `clear_data` |
| `Store` | a window of the vault-mode file writing, at any time |
| `Save`, `Crash` | `save_path`, and a program that dies before it |

Abstractions: a program is a name for the files a project is built into, a digest
the program it was computed from, a signature its key and what it covers, with one
mark no guard reads: `mismatched`, set when an update takes it over from a source
where it did not cover the program. What an update is given is any container that
opens (`Sources`), unsigned, signed, or with a signature over something else: the
source may have been put together or changed by hand. A state tree is the set of its
keys. The entries of nested archives are one set, each with its depth and the
archive it is in, so that a scan is a quantifier. Files are read, changed and
written back without a lock, so operations of two programs interleave; a save that
overwrites one it had not read is marked (`lost`), and so is one that takes a
container out of the vault after a window has stored something else there. The data
a project ships counts as stored where a reader reads it: in embedded mode. An
envelope opens with its passphrase.

The run `containers` has two programs, two keys, one slot, at most three operations
beside the saves, and limits scaled down to where a file of a few units meets each.
Three operations are an update between a program's opening and its save, or a move
into the vault, the way back and in again; one key's value compresses beyond the
reader's cap. The projects hold, next to three versions of an application in two
storage modes and one that ships data into the vault, one case for every rule that
refuses: native code and links at each depth, archives too deep or too large, names,
and malformed manifests. The latter come with a file that fills the budget, so that
they cannot be converted either: each would start a file of its own that differs from
the others in its name only.

* `AlwaysConforms`: whatever was done to the file, it opens, its digests match and
  its signature is valid, unless an update took over one that was invalid already.
* `NothingProhibited`: nothing prohibited gets in, at any depth.
* `DataKept`: what the user last stored is in the file or its vault entry, unless
  a save overwrote another or the operation is one of those that drop state.
* `ConsentCovers`: the program never asks for more than was agreed to or reported.

What the exemptions stand for. `poid update` opens its source and no more
(`commands.rs:725-729`; opening checks neither digests nor signature), and
`update_program` copies `signature/` with the program and makes the digests anew
(`poid.rs:313-339`). A source whose signature is stale therefore yields a file that
`poid conformance` refuses, and an update can replace a valid signature by an invalid
one. `spec/SPEC.md:684` says "A valid `signature/` from the newer POID replaces the
old one", and the comment at `poid.rs:336-338` that "`newer`'s signature ... stays
valid": both hold when it was valid to begin with. `AlwaysConforms` says that this is
the only way: digests always match, and no other operation, and no update from a
source whose signature covers its program, leaves an invalid signature.

Pack scans for prohibited content as the reader
does (`write.rs:86`) but checks neither the ratio, nor the number of its own
entries, nor the budget of the archive as a whole, so a save can write a file that
nothing opens. `AlwaysConforms` exempts a state tree that compresses beyond the
cap (without it the run fails) and state that takes the file over the entries or
the budget (`WithinLimits`, which the run never reaches and the proof needs).
Moving into the vault does not read a SQL dump or an
envelope and drops both, and a download over an envelope replaces it. Two more
facts the model has and no property forbids: a protected container can come to
hold plain text (a download, a dump that `protect` leaves alone, and
`vault_to_embedded` and `clear_data`, which keep the flag; `spec/SPEC.md:598`), and a
key deleted in embedded mode comes back when the file had been in the vault
before, since seeding only sets keys. `convert.rs`, `clear_data` and
`convert_storage_mode` have no caller outside their tests. An update that leaves
out `storage.requires` is refused when a file in connection mode is saved.

`ContainersProofs` proves all four properties for any projects, programs, keys,
slots, passphrases and limits, on `ContainersAssumption`: a key is not the mark of
a tree that is not there, and a project has a storage mode. The invariant `Inv`
(`FileInvariant`) has four parts:

* `TypeOK`, the shape of the file, the vault and the copies.
* `FileOK`: what was packed was accepted (`Packs`, `Verify`), a signature covers
  what it is next to unless it came `mismatched`, and the program keeps within the
  ratio (`Sound`), the
  permissions were agreed to, and what was stored is there (`Kept`).
* `CopyOK`, the same of every copy a program is about to save, unless its save
  will be marked. A copy `Carries` what the file has, or the trees it stores
  itself. A copy that is in the vault stores nothing and `Follows` the file: it
  stays with the vault entry of the file, unless it is an empty duplicate. Without
  that, a window storing in the vault while a program holds a copy of the file
  would refute `Kept` after the save.
* `NoDumps`: no operation puts a SQL dump into the vault.

Every operation is one shape, `EditStep`: it starts a copy that is `Sound`, covered
by consent and carries what the file has, and the vault only gains (`EditSteps`, one
lemma per operation). That such a step keeps `Inv` is proved once (`EditKeeps`);
`Save`, `Crash`, `Store` and the creation of the file have a lemma each. `FileClean`
needs no history: whatever `pack` accepted holds nothing prohibited at any depth.

## Checked and proved

Proved for every value of the constants: all properties of `sql_gate`, `sql_flush`,
`migrations` and `connections`; all of `vault_kv`, and `OnlyLateOverwrites`
(`OnlyLateStray`, `OnlyLateOverwrites` and `MirrorIsAhead` are about one window);
all of `identity`; `NoForeignTx` of `SqlSessions`; `StaysWithinGrant`,
`CredentialStaysHome` and `BodyFollowsStatus` of `NetFetch`; all of `containers`.

Only model-checked is liveness: `AbandonedTxEnds`, `CallsAreAnswered`, `SwitchEnds`,
`StatementsEnd`, `QuietCloseEndsSession`, `FetchEnds`. Liveness under fairness is out
of the prover's reach. So is induction over data; the models that are proved about
use no recursive operator, and where a fold would be the obvious definition
(sizes, the queue over the mirror) they use cardinalities and quantifiers.

Hazards that fall into an exemption are listed in `PROJECT.json` with a note and no
property: a lost stamp or a dump seeds raw data (`sql-persistence.ts:140`, `:136`),
host and vault disagree on the quota (`vault-ipc-engine.ts:9`), a second delete finds
nothing (`store.rs:221`), a statement outlives its window (`lib.rs:126`), a save beyond
the reader's limits (`write.rs:86`), and a credential removed during a fetch
(`connections.rs:454`). The models contain them; no run claims they do no harm. A save
over what another program saved (`poid.rs:239`) is modelled too: `DataKept` exempts it
(`lost`), `AlwaysConforms` and `ConsentCovers` do not.

## What is left

* The broker, the bridge, the reader's life cycle and its watchdog: Stop while
  the origin is prepared, answers after a window has closed.
* Two files of one instance with different quotas (`vault_state.rs:91`).

## Not modelled

`PROJECT.json` lists every component with its status and reason.

* The broker, bridge, reader and watchdog of `poid-host`, and the SDK: event
  wiring of one window. Their hazards are listed with a note.
* The KV and document engines on IndexedDB: the same write queue as the vault's
  mirror, and the translation of queries to predicates.
* Manifest facts and explanations, `scrub.rs`, DSN parsing, the classification of
  HTML: mappings of text without state.
* Cryptography, ZIP, JSON and wire formats, the text of SQL and CSP, the
  PostgreSQL and HTTP protocols, Automerge and the keychain: external.
* The UI, fixtures, build tools, standard library, cloud and MCP stubs.
