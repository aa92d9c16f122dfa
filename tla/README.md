# A TLA+ model of refluxdbextended

refluxdbextended is a fork of InfluxDB 3 Core in which several processes (writers,
a compactor, queriers) share nothing but an object store. This directory holds TLA+
modules for the protocols between those processes and inside them, TLC
configurations that check them on small instances, and proofs that TLAPS checks for
every instance. Paths below are relative to the repository; `wal/` stands for
`src/influxdb3_wal/src/` and `write/` for `src/influxdb3_write/src/`.

1. [The system](#1-the-system)
2. [The plan](#2-the-plan)
3. [Modules and how they follow the code](#3-modules-and-how-they-follow-the-code)
4. [Runs](#4-runs)
5. [Where the code and its own documentation disagree](#5-where-the-code-and-its-own-documentation-disagree)
6. [Fairness](#6-fairness)
7. [Proofs](#7-proofs)
8. [What is left out](#8-what-is-left-out)

## 1. The system

### Parts

| Part | Code | State | Operations |
|---|---|---|---|
| Snapshot tracker | `wal/snapshot_tracker.rs` | WAL periods, snapshot number | `add_wal_period`, `snapshot` |
| Write-ahead log | `wal/object_store.rs`, `wal/lib.rs` | the buffer of unflushed operations, the snapshot permit, the WAL remover; WAL files in the store | `write_ops`, `flush_buffer`, `force_flush_buffer`, `replay`, `shutdown`, `cleanup_snapshot` |
| Queryable buffer | `write/write_buffer/queryable_buffer.rs`, `table_buffer.rs` | mutable chunks, chunks under snapshot | `notify`, `notify_and_snapshot`, the snapshot task |
| Write buffer | `write/write_buffer/mod.rs` | wires the above | `write_lp`, `check_mem_and_force_snapshot`, startup |
| Persister | `write/persister.rs` | manifests and checkpoints of one node | `persist_snapshot`, `load_snapshots`, `persist_compaction_snapshot` |
| Persisted file index | `write/write_buffer/persisted_files.rs` | files per table, tombstones, deletion marks | fold a manifest, add, remove, collect tombstones |
| Shared inventory | `write/shared_inventory.rs` | `_inventory/{wal,compactions,checkpoints,consumers}` in the store | publish, list, `load_full_state`, `all_live_consumers_folded` |
| Inventory poller | `write/inventory_poller.rs` | two cursors, the reported cursor | `tick`, heartbeat |
| Compactor | `write/compaction.rs` | a cycle, jobs in flight, deletion tasks, claims | `run_compaction_cycle`, `execute_compaction_job`, `publish_compaction`, `write_inventory_checkpoint`, cold-GC |
| Reference validator | `write/ref_validator.rs` | none | `validate_once` |
| Role leases | `write/leases.rs` | a lease object per role, the cached expiry of its holder | `try_acquire`, `refresh`, `release` |
| WAL tail of a querier | `write/wal_tail.rs`, `composite_write_buffer.rs` | rows of WAL files not yet snapshotted | tail, evict by watermark |
| Catalog | `src/influxdb3_catalog/src` | the catalog log and its in-memory copy | optimistic append, catch-up |
| Deleter, retention | `write/deleter.rs`, `retention_period_handler.rs` | scheduled deletions | hard delete, expire |
| Caches | `src/influxdb3_cache/src` | last-value, distinct-value and parquet caches | fed by the WAL notifier, fetch, evict |
| Shutdown, server, query executor, processing engine, clients | other crates | | |

### How they interact

A write is validated, appended to the in-memory WAL buffer and answered once a
flush has put the buffer as a numbered WAL file. Each flushed file becomes a
*period*; when enough periods are known the flush also decides a *snapshot*: the
rows before an end marker are moved out of the queryable buffer, persisted as
parquet files, listed in a *manifest*, and the WAL files it covers are deleted. A
restart loads the manifests, then replays the WAL files above the newest one.

The manifest is also copied to the shared inventory. Queriers and the compactor poll
the inventory and fold manifests into their index of files. The compactor replaces
several files of one generation by one of the next, publishes that as a compaction
manifest, and deletes the inputs only when the heartbeat of every live querier says
that it has folded the compaction. Now and then it writes a *checkpoint*, the merged
view with the two high-waters up to which a loader may skip manifests.

### What makes it hard

- Three kinds of tasks flush or wait: the timer, the memory check, the snapshot task
  with its cleanup. They share one mutex and one permit.
- A crash can fall between the WAL put, the parquet puts, the manifest and each WAL
  deletion; a put of the dead process may land after the restart has listed the WAL.
- Puts fail and are retried, then given up, after other state has moved on.
- Two streams of manifests are listed one after the other and folded while new ones
  appear; a removal can be folded before the addition it cancels.
- Compaction ids order the stream, but are taken before the work and published after.
- A querier boots for minutes while its files are being compacted and deleted.
- Publication to the inventory is best effort.

### What should hold

An acknowledged row survives any crash and can be queried; a WAL file goes only when
its rows are in a manifest; snapshots are exclusive and their manifests numbered
without a hole; everyone who waits is answered. A querier never names an object that
is gone, never loses a row that it has folded; compaction never deletes the last copy
of a row; a checkpoint holds all that it tells a loader to skip.

`PROJECT.json` lists every part with its status and every hazard at its line.

## 2. The plan

The order is by what would hurt most: losing acknowledged data, then serving wrong
data, then not making progress.

| Step | Module | What | Status |
|---|---|---|---|
| 1 | `SnapshotTracker` | the snapshot decision as operators, with lemmas | done |
| 2 | `Writer` | write path of one node with crash, replay, shutdown, failures | done |
| 3 | `DurableWrites` | the Wal trait's promise; `Writer` implements it | done (refinement model-checked) |
| 4 | `Inventory` | manifests, poller, compactor, checkpoints, gated deletion | done for one compactor |
| 5 | `Lease` | acquisition, refresh, takeover, release over conditional puts; at most one leader, no stomping, a standby takes over | next |
| 6 | `Claims` | several compactors: per-table claims with a time to live, over `Inventory`'s jobs | next |
| 7 | `Inventory`, extended | cold-GC, manifests whose GET fails, the queriers' own validator, lost publications as a run | next |
| 8 | `WalTail` | composition of `Writer`'s WAL and manifests with a querier that tails: freshness without a gap or a double count | next |
| 9 | `Catalog` | optimistic append to the catalog log by several nodes, an abstract sequence of changes as the specification it implements | next |
| 10 | `Deletion` | hard deletes, retention and the deletion marks of the file index | later |
| 11 | two writers | two processes with one prefix, during a lease takeover (`Writer` with `Lease`) | later |
| 12 | caches, shutdown order | the parquet cache's fetch and evict; the order in which components stop | later |

Theorems worth proving, most valuable first:

1. types of the write path, and conservation of the snapshot permit (done);
2. what a snapshot covers: every period handed over ends before the marker (done);
3. `AckedDurable` for one flusher, puts that are not given up, no late puts and
   non-negative timestamps. The strengthening needed: at most one WAL file carries a
   snapshot above the newest manifest; a row of a processed file above the newest
   manifest is in the buffer, in the task's jobs, or in a manifest; a processed file
   that is not drained has a period at least as late as its rows;
4. `DeletesOnlySnapshotted` from the same invariant, and then the refinement
   `Spec => Promise!Spec`;
5. types of `Inventory`, `CheckpointCoversMarks` and, for `MaxConcurrent = 1`,
   `NoPhantomRefs`;
6. the lease's mutual exclusion under the condition that makes it hold.

## 3. Modules and how they follow the code

| Module | Contents |
|---|---|
| `SnapshotTracker` | operators for `wal/snapshot_tracker.rs` and the chunk arithmetic |
| `Writer` | the write path of one process, with its object store |
| `DurableWrites` | the promise of the `Wal` trait, as an abstract specification |
| `Inventory` | writer manifests, queriers, one compactor and the shared inventory |
| `MCWriter`, `MCInventory` | instances for TLC, with the `MC*.cfg` files |
| `SnapshotTrackerProofs`, `WriterProofs` | lemmas and theorems |

`PROJECT.json` maps every definition to its lines. Definitions whose comment starts
with "Mutant" are plausible mistakes in the definition that follows; they are used
only to show that a property notices them.

### SnapshotTracker

The tracker's vector of periods is ordered by file number, so it is a set of
`[num, max]` records. `TrackerSnapshot` is `snapshot`, with its two branches;
`Drained` is what leaves the vector. `RustRem` keeps the sign rule of Rust's `%`,
which TLA+'s does not share; `ChunkTime` is `chunk_time_for_timestamp`.

### Writer

One process, one table (tables are independent here: a snapshot treats each alike).
A row is its request and its timestamp. The actions are:

- clients: `WriteOps`, `WriteOpsUnconfirmed` (no_sync), `WriteRejected`;
- a flush, in the steps between its awaits: `FlushWrites` or `FlushNoop` (take the
  buffer, record the period, decide on a snapshot), `AcquireSnapshotPermit` (still
  under the mutex, variable `lock`), `PutOk` / `PutExists` / `PutGiveUp`, then
  `Notify` or `FlushBufferWithFailure`;
- the snapshot task: `PersistChunk` per chunk, `PersistSnapshot`, and the WAL
  cleanup `BeginCleanup`, `DeleteWalFile`, `FinishCleanup`;
- the process: `AskStop`, `ShutdownWal`, `Exit`, `Crash`, `LatePutLands`, and
  startup as `Restart`, `ReplayFile`, `Serve`.

The retries of a put are folded into the outcomes they end in. A crash may hit any
state, also during replay. `buf.opCount` stays 0 because nothing in the code
increments it. Not in the model: skipping of corrupt WAL files
(`wal_replay_fail_on_error = false`), `first_wal_sequence_number` (never read), the
persister's checkpoints as a shortcut for old manifests, and a limit on the manifests
loaded at startup (`n_snapshots_to_load_on_start` is taken to be large enough).

`DurableWrites` has the clients' view only: a request is acknowledged when its rows
are recoverable, and from then on they stay so. `Promise` maps its `recoverable` to
what a restart of `Writer` would load.

### Inventory

Files are records of their path (table, generation, naming number) and the rows they
hold; a row is the snapshot that first persisted it. The nodes are the queriers and
one compactor; the writer is the action `PublishWalSnapshot`.

- A node boots with `Boot` (a querier registers its heartbeat first), the compactor
  folds its own manifests (`LoadOwnCompaction`), then everyone runs
  `load_full_state`: `LoadCheckpoint`, the two listings, the folds, `FinishLoad`.
- A tick of the poller is `ListWalSnapshots`, `ListCompactions`, `FoldWalSnapshot`
  and `FoldCompaction` one manifest at a time in order, and `FinishTick`, which
  collects tombstones, or `QuietTick`. Both end in `Report`, which hands the cursors to
  the heartbeat task and to the compactor's checkpoints. `Heartbeat` is a task of its
  own.
- The compactor runs `BeginCycle`, `ExecuteJob`, `PublishCompaction`,
  `ApplyCompaction`, and `FinishCycle` or a checkpoint (`BeginCheckpoint`,
  `MergeCheckpoint`, `WriteCheckpoint`), while its own poller goes on.
- A deletion task is `PassGate` or `GateTimesOut`, then `DeleteInput` per object.
- `Stop` kills a node with its tasks.

Simplifications, each an over-approximation or explained:

- Whether the files of a generation span the next one's duration is left open, so a
  cycle may pick any of the possible jobs. A job that is not run stands for one whose
  claim is held, whose inputs cannot be read or whose put fails; the object it may
  have uploaded is named nowhere.
- Taking the id, the upload and the compactor's own manifest are one step: only the
  publication is visible to others. The order of publications stays free.
- `delete_grace` and `keep_window` are delays of any length; a delete that fails after
  its retries is a delete that does not happen.
- `staleness_ttl` is many heartbeat intervals and heartbeats get through: a live
  querier does not go stale (`HeartbeatExpires`). The gate's listing of heartbeats is
  one step, which is sound because cursors of a live querier only grow.
- Reading the newest checkpoint's high-water and putting the boot heartbeat are one
  step; a tick that fails is a tick that has not begun.
- The number in a gen1 path is a WAL file's, not the snapshot's, and tombstones of
  gen1 files are compared across the two; `WalPerSnapshot` keeps them apart.
- The periodic validator of a querier is left out: it would hide a phantom reference
  after the fact.

## 4. Runs

Bounds are constants of the modules. `Gen1 = 2` puts the timestamps 0, 2 and 4 into
three chunks; `SnapshotSize = 1` lets the first file after a later chunk trigger an
in-order snapshot, and the third file a snapshot of everything, so three or four
writes reach both kinds, overlapping and in sequence.

| Run | Checks | On |
|---|---|---|
| `crash` | `AckedDurable`, `ReplayRedoesSnapshots`, `AckedQueryable`, `RemoverInRange`, `ShutdownAnswersAll`, `DeletesOnlySnapshotted` | four requests (one no_sync), two crashes, the timer's flush only |
| `recovery` | `ImplementsPromise`, `SnapshotsCompleted` | three requests, two crashes, fairness |
| `faults` | `TypeOK`, `OneSnapshot`, `WritesAnswered` | puts given up and landing late, one crash, two WAL files kept |
| `forces` | `OneSnapshot`, `ManifestsGapless` | timer and two forced flushes, empty ones included, one crash |
| `convergence` | `NoPhantomRefs`, `FoldedRowsVisible`, `CheckpointCoversMarks` | one querier, one table, two snapshots, two compactions one at a time, a checkpoint, a restart of either node |
| `storage` | `RowsStored` | two tables, three generations, concurrent jobs, lost publications, gates that time out, a restart of the compactor |
| `forcedLoss`, `giveUpLoss`, `negativeTimes` | `AckedDurable` is violated | see the next section |
| `circularWait` | `WritesAnswered` is violated | |
| `queryGap` | `Queryable` is violated | |
| `publishOrder` | `NoPhantomRefs` is violated | |

Two crashes cover a crash during the recovery from a crash. Two snapshots, two
compactions and a restart are what it takes for a removal to overtake its addition, a
checkpoint to lag behind a fold, and a querier to boot into a deletion. One querier
is enough for `NoPhantomRefs`: queriers do not interact, and a further one only makes
the gate stricter. `AckedDurable` is checked where the code keeps it: one flusher,
no put given up, no put that lands after a restart has listed the WAL, non-negative
timestamps. Each condition is needed: section 5 shows three of them, and with
`LatePuts` the instance of `crash` violates it after some two million states (the
successor, refused the late file's number, uses its snapshot number once more, and
the second manifest replaces the first). `MCWriterWait.cfg` switches deadlock checking
off, since the circular wait it is about is a deadlock of the whole model.

## 5. Where the code and its own documentation disagree

- `forcedLoss`: the forced flush of the memory check overlaps the timer's flush.
  `snapshot_all` drains every period, also that of a file the other flush has taken
  from the buffer and not yet put. The manifest then claims a WAL file whose rows it
  does not hold; a restart does not replay it.
- `giveUpLoss`: after more than 100 failed puts a flush returns with its snapshot
  dropped, but the tracker has already forgotten the periods. A later snapshot covers
  their files by number and not by time.
- `negativeTimes`: both the chunk of a row and the end marker are rounded with `%`,
  towards zero. The chunk of a row at -1 is 0, the marker of its period is 0, and
  `k < older_than_chunk_time` leaves the row out of the snapshot that covers its file.
- `circularWait`: a flush waits for the permit under the `flush_buffer` mutex; the
  flush that holds the permit gives its put up and needs the mutex before it drops it.
- `queryGap`: each persist job clears all chunks of its table under snapshot, also
  those whose file is not in the index yet.
- `publishOrder`: compaction ids are taken before the work and published after it.
  When a larger id is published and folded first, a querier's cursor passes the
  smaller one: the querier never folds it, and the gate counts it as folded.

`PROJECT.json` quotes the statements that these contradict. Outside the listed runs,
`NoPhantomRefs` also fails when `PublishMayFail` holds: the inputs of a compaction
whose publication was lost are deleted all the same. The plan has a run for it.

## 6. Fairness

`FairSpec` of `Writer` assumes weak fairness of what the runtime and the store
guarantee: the flush timer ticks, a put is answered in the end (by success, by
AlreadyExists or by giving up), spawned tasks run, `shutdown` goes on, a supervisor
restarts the process. Nothing is assumed of clients, of signals, of crashes or of the
memory check. `Inventory` has no fairness: its properties are safety.

## 7. Proofs

For every value of the constants that `WriterAssumption`, `Gen1Assumption` and
`SnapshotSizeAssumption` allow:

- `TypeCorrect` (`WriterProofs`): `Spec => []TypeOK`. `TypeOK` is inductive as it
  stands; there is one lemma per group of actions. What it says beyond types is that
  file numbers and deletion ranges stay natural numbers, for which `BeginCleanup`
  needs its check and the tracker lemmas say that the maxima exist.
- `SnapshotsExclusive` (`WriterProofs`): `Spec => []OneSnapshot`, with puts given up,
  late puts, crashes and forced flushes. `OneSnapshot` speaks of a set of holders;
  the proof goes through `PermitInv`, which says that the permit is available exactly
  when neither the task nor a flush holds it and that no two of them do. To be
  inductive it also says that a flush waits for the permit only for a snapshot, that
  the cleanup runs only with the permit, and that no flush is under way while the
  process is down or replaying: `ReplayFile` takes the permit without looking.
- `SnapshotCoversPeriods` (`SnapshotTrackerProofs`): a row of a drained period with
  a non-negative timestamp lies in a chunk before the snapshot's end marker. It is the
  fact behind `AckedDurable`, and `negativeTimes` shows that its restriction is real.
- Lemmas on maxima and minima of finite sets, on chunk arithmetic, and that what the
  tracker drains is a prefix of the files.

Model-checked only: `AckedDurable`, `DeletesOnlySnapshotted`, the refinement of
`DurableWrites`, the other invariants of `Writer` and all of `Inventory` (proofs are
planned), and liveness, which is outside what the prover handles.

## 8. What is left out

Parts with status `not_modelled` in `PROJECT.json` are either planned (leases, claims,
cold-GC, the WAL tail, the catalog, deletions, caches, shutdown order) or have no
protocol to check: line-protocol parsing, HTTP and Flight routing, query planning,
the vendored IOx crates, command line and client. Within the modelled parts, the
omissions are those named in section 3 and in the notes of `PROJECT.json`.
