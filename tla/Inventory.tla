------------------------------ MODULE Inventory ------------------------------
(***************************************************************************)
(* The shared inventory: how parquet files named by the writer's snapshot  *)
(* manifests reach the queriers, are replaced by compactions, and are      *)
(* deleted once every live querier has folded the replacement.             *)
(*                                                                         *)
(* Nodes meet only in the object store.  A writer publishes one manifest   *)
(* per snapshot; the compactor publishes one manifest per compaction and,  *)
(* now and then, a checkpoint; every querier publishes a heartbeat with    *)
(* the id of the last compaction it has folded.  The compactor and the     *)
(* queriers run the same poller over the manifests.                        *)
(*                                                                         *)
(* A file is the record of its path: table, generation, the number that    *)
(* names it (a snapshot's sequence, or the id of the compaction that wrote *)
(* it) and the rows it holds, a row being the snapshot that first          *)
(* persisted it.                                                           *)
(***************************************************************************)
EXTENDS Integers, FiniteSets, FiniteSetsExt

CONSTANTS
    Queriers,
    Compactor,
    Tables,
    MinFiles,       \* min_files_for_compaction
    MaxGen,         \* the last configured generation
    MaxConcurrent,  \* max_concurrent_compactions
    WalPerSnapshot, \* WAL files per snapshot: names gen1 files apart from it
    PublishMayFail, \* whether a put to the shared inventory may fail
    GateMayTimeOut, \* whether max_wait is short enough to run out
    MaxSnapshots, MaxCompactions, MaxCheckpoints, MaxRestarts   \* bounds

Nodes == Queriers \cup {Compactor}

ASSUME InventoryAssumption ==
    /\ Compactor \notin Queriers
    /\ IsFiniteSet(Queriers) /\ IsFiniteSet(Tables)
    /\ {MinFiles, MaxGen, MaxConcurrent, WalPerSnapshot} \subseteq Nat \ {0}
    /\ {PublishMayFail, GateMayTimeOut} \subseteq BOOLEAN
    /\ {MaxSnapshots, MaxCompactions, MaxCheckpoints, MaxRestarts} \subseteq Nat

VARIABLES
    objects,     \* the parquet objects in the store
    persisted,   \* the snapshot manifests of the writer, by sequence
    walInv,      \* those of them in _inventory/wal
    manifests,   \* the compaction manifests, by id
    compInv,     \* the ids of those in _inventory/compactions
    checkpoint,  \* the newest inventory checkpoint
    heartbeat,   \* _inventory/consumers, per querier
    node,        \* per node: PersistedFiles and the poller
    marks,       \* the compactor's published watermarks
    cycle,       \* the compaction cycle: its waiting jobs and its phase
    running,     \* the compaction jobs in flight
    deletions,   \* the spawned deletion tasks
    minted,      \* the newest compaction id
    restarts

store == <<objects, persisted, walInv, manifests, compInv, checkpoint>>
service == <<cycle, running, deletions, minted>>
vars == <<store, heartbeat, node, marks, service, restarts>>

Ids == 1 .. MaxCompactions
Seqs == 1 .. MaxSnapshots

RowsIn(files) == UNION {f.rows : f \in files}

-----------------------------------------------------------------------------
(* PersistedFiles: the folded view of a node.                              *)

NoFiles ==
    [refs |-> {}, tombs |-> {}, walCursor |-> 0, compCursor |-> 0]

\* What lets a tombstone go: the WAL high-water for a gen1 file, the removing
\* compaction for a later one, nothing for an object known to be gone.
ObjectGone == -1
Tombstone(f, by) == [file |-> f, by |-> IF f.gen = 1 /\ by > 0 THEN 0 ELSE by]

Buried(v) == {t.file : t \in v.tombs}

\* One manifest: adds first, unless a tombstone suppresses them, then removals.
\* A removal that finds nothing leaves a tombstone: keyed by the WAL sequence in
\* the path of a gen1 file, else by the removing compaction when one is known.
UpdatePersistedFiles(v, added, removed, by) ==
    LET present == v.refs \cup (added \ Buried(v))
        buried == {f \in removed \ present : f.gen = 1 \/ by # 0}
    IN  [v EXCEPT !.refs = present \ removed,
                  !.tombs = {t \in @ : t.file \notin buried}
                            \cup {Tombstone(f, by) : f \in buried}]

\* The WAL file number in the path of the gen1 file of a snapshot.
WalSeq(f) == f.id * WalPerSnapshot

GcTombstones(tombs, walHighWater, compHighWater) ==
    {t \in tombs : \/ t.by = ObjectGone
                   \/ t.by = 0 /\ walHighWater < WalSeq(t.file)
                   \/ t.by > 0 /\ compHighWater < t.by}

-----------------------------------------------------------------------------
(* The writer.                                                             *)

Gen1File(t, n) == [table |-> t, gen |-> 1, id |-> n, rows |-> {n}]

\* A snapshot of the writer: upload, manifest, then the best-effort copy of
\* the manifest in the shared inventory.
PublishWalSnapshot(t) ==
    LET n == Cardinality(DOMAIN persisted) + 1
    IN  /\ n \in Seqs
        /\ objects' = objects \cup {Gen1File(t, n)}
        /\ persisted' = [m \in 1 .. n |->
                             IF m = n THEN Gen1File(t, n) ELSE persisted[m]]
        /\ \/ walInv' = walInv \cup {n}
           \/ PublishMayFail /\ UNCHANGED walInv
        /\ UNCHANGED <<manifests, compInv, checkpoint, heartbeat, node, marks,
                       service, restarts>>

-----------------------------------------------------------------------------
(* Booting a node and polling the inventory.                               *)

Down == [pc |-> "down", ready |-> FALSE, files |-> NoFiles,
         own |-> {}, wal |-> {}, comps |-> {}, reported |-> 0]

\* Mutant: a querier is not registered until its poller runs.
BootUnregistered(n) ==
    /\ node[n].pc = "down"
    /\ node' = [node EXCEPT ![n] =
                    [Down EXCEPT !.pc = "own",
                                 !.own = IF n = Compactor THEN DOMAIN manifests
                                                          ELSE {},
                                 !.reported = checkpoint.comp]]
    /\ UNCHANGED <<heartbeat, store, marks, service, restarts>>

\* A querier registers with the newest checkpoint's high-water before it loads
\* anything; the compactor first folds its own manifests.
Boot(n) ==
    /\ node[n].pc = "down"
    /\ node' = [node EXCEPT ![n] =
                    [Down EXCEPT !.pc = "own",
                                 !.own = IF n = Compactor THEN DOMAIN manifests
                                                          ELSE {},
                                 !.reported = checkpoint.comp]]
    /\ heartbeat' = IF n = Compactor THEN heartbeat
                    ELSE [heartbeat EXCEPT ![n] =
                              [live |-> TRUE, cursor |-> checkpoint.comp]]
    /\ UNCHANGED <<store, marks, service, restarts>>

LoadOwnCompaction(n) ==
    LET id == Min(node[n].own)
        m == manifests[id]
    IN  /\ node[n].pc = "own" /\ node[n].own # {}
        /\ node' = [node EXCEPT
               ![n].own = @ \ {id},
               ![n].files = UpdatePersistedFiles(@, {m.added}, m.removed, 0)]
        /\ UNCHANGED <<store, heartbeat, marks, service, restarts>>

\* load_full_state: the checkpoint, its tombstones seeded before anything is
\* folded on top of them.
SeedFromCheckpoint(v) ==
    LET seeded == [v EXCEPT !.tombs =
                       {t \in @ : t.file \notin {s.file : s \in checkpoint.tombs}}
                       \cup checkpoint.tombs,
                     !.walCursor = checkpoint.wal,
                     !.compCursor = checkpoint.comp]
    IN  UpdatePersistedFiles(seeded, checkpoint.merged, {}, 0)

LoadCheckpoint(n) ==
    /\ node[n].pc = "own" /\ node[n].own = {}
    /\ node' = [node EXCEPT ![n].pc = "loadWal",
                            ![n].files = SeedFromCheckpoint(@)]
    /\ UNCHANGED <<store, heartbeat, marks, service, restarts>>

\* The listings, of the load and of a tick: WAL manifests, then compactions.
ListWalSnapshots(n) ==
    /\ node[n].pc \in {"loadWal", "idle"}
    /\ node' = [node EXCEPT
           ![n].pc = IF @ = "loadWal" THEN "loadComps" ELSE "tickComps",
           ![n].wal = {s \in walInv : s > node[n].files.walCursor}]
    /\ UNCHANGED <<store, heartbeat, marks, service, restarts>>

NewCompactions(n) == {c \in compInv : c > node[n].files.compCursor}

ListCompactions(n) ==
    /\ \/ node[n].pc = "loadComps"
       \/ node[n].pc = "tickComps" /\ node[n].wal \cup NewCompactions(n) # {}
    /\ node' = [node EXCEPT
           ![n].pc = IF @ = "loadComps" THEN "loadFold" ELSE "tickFold",
           ![n].comps = NewCompactions(n)]
    /\ UNCHANGED <<store, heartbeat, marks, service, restarts>>

FoldWalSnapshot(n) ==
    LET s == Min(node[n].wal)
    IN  /\ node[n].pc \in {"loadFold", "tickFold"} /\ node[n].wal # {}
        /\ node' = [node EXCEPT
               ![n].wal = @ \ {s},
               ![n].files = [UpdatePersistedFiles(@, {persisted[s]}, {}, 0)
                                 EXCEPT !.walCursor = Max({@, s})]]
        /\ UNCHANGED <<store, heartbeat, marks, service, restarts>>

\* Only the poller knows the id of the compaction that it folds.
FoldCompaction(n) ==
    LET c == Min(node[n].comps)
        m == manifests[c]
        by == IF node[n].pc = "tickFold" THEN c ELSE 0
    IN  /\ node[n].pc \in {"loadFold", "tickFold"}
        /\ node[n].wal = {} /\ node[n].comps # {}
        /\ node' = [node EXCEPT
               ![n].comps = @ \ {c},
               ![n].files = [UpdatePersistedFiles(@, {m.added}, m.removed, by)
                                 EXCEPT !.compCursor = c]]
        /\ UNCHANGED <<store, heartbeat, marks, service, restarts>>

\* The cursors a finished load or tick hands on: to the heartbeat task, and to
\* the checkpoints of a compactor.
Report(n, v) ==
    /\ node' = [node EXCEPT ![n].pc = "idle", ![n].files = v,
                            ![n].ready = @ \/ node[n].pc # "loadFold",
                            ![n].reported = v.compCursor]
    /\ marks' = IF n = Compactor
                THEN [wal |-> v.walCursor, comp |-> v.compCursor] ELSE marks
    /\ UNCHANGED <<store, heartbeat, service, restarts>>

FinishLoad(n) ==
    /\ node[n].pc = "loadFold" /\ node[n].wal = {} /\ node[n].comps = {}
    /\ Report(n, node[n].files)

\* A tick that lists nothing new returns before the tombstones are collected.
QuietTick(n) ==
    /\ node[n].pc = "tickComps" /\ node[n].wal \cup NewCompactions(n) = {}
    /\ Report(n, node[n].files)

FinishTick(n) ==
    LET v == node[n].files
    IN  /\ node[n].pc = "tickFold" /\ node[n].wal = {} /\ node[n].comps = {}
        /\ Report(n, [v EXCEPT !.tombs =
                          GcTombstones(@, v.walCursor, v.compCursor)])

\* The heartbeat task runs beside the poller; during the load it repeats the
\* high-water that the querier registered with.
Heartbeat(q) ==
    /\ node[q].pc # "down"
    /\ heartbeat[q] # [live |-> TRUE, cursor |-> node[q].reported]
    /\ heartbeat' = [heartbeat EXCEPT ![q] =
                         [live |-> TRUE, cursor |-> node[q].reported]]
    /\ UNCHANGED <<store, node, marks, service, restarts>>

\* staleness_ttl is many heartbeat intervals: only a stopped querier gets stale.
HeartbeatExpires(q) ==
    /\ node[q].pc = "down" /\ heartbeat[q].live
    /\ heartbeat' = [heartbeat EXCEPT ![q].live = FALSE]
    /\ UNCHANGED <<store, node, marks, service, restarts>>

-----------------------------------------------------------------------------
(* The compaction service.                                                 *)

Idle == [pc |-> "idle", jobs |-> {}, wal |-> 0, comp |-> 0, merged |-> {},
         tombs |-> {}]

View == node[Compactor].files

Serving(n) == node[n].pc \in {"idle", "tickComps", "tickFold"}

FilesOf(t, g) == {f \in View.refs : f.table = t /\ f.gen = g}

\* Each generation of each table with enough files; whether they span the
\* duration of the next generation is left open, in BeginCycle.
CompactionJobs ==
    {[table |-> t, gen |-> g, files |-> FilesOf(t, g)] :
        <<t, g>> \in {tg \in Tables \X (1 .. MaxGen - 1) :
                         Cardinality(FilesOf(tg[1], tg[2])) >= MinFiles}}

BeginCycle ==
    /\ Serving(Compactor) /\ cycle.pc = "idle"
    /\ \E jobs \in SUBSET CompactionJobs \ {{}} :
           cycle' = [Idle EXCEPT !.pc = "run", !.jobs = jobs]
    /\ UNCHANGED <<store, heartbeat, node, marks, running, deletions, minted,
                   restarts>>

\* Mutant: the manifest is put although the upload failed.
ExecuteJobUnuploaded(j) ==
    LET id == minted + 1
        out == [table |-> j.table, gen |-> j.gen + 1, id |-> id,
                rows |-> RowsIn(j.files)]
        m == [added |-> out, removed |-> j.files]
    IN  /\ cycle.pc = "run" /\ Cardinality(running) < MaxConcurrent
        /\ j.files \subseteq objects
        /\ id \in Ids
        /\ minted' = id
        /\ manifests' = [c \in 1 .. id |-> IF c = id THEN m ELSE manifests[c]]
        /\ cycle' = [cycle EXCEPT !.jobs = @ \ {j}]
        /\ running' = running \cup {[pc |-> "publish", id |-> id]}
        /\ UNCHANGED <<objects, persisted, walInv, compInv, checkpoint,
                       heartbeat, node, marks, deletions, restarts>>

\* The inputs are read, the output is uploaded under a fresh id and the manifest
\* put beside the compactor's own; a failure before that leaves nothing but an
\* unnamed object.
ExecuteJob(j) ==
    LET id == minted + 1
        out == [table |-> j.table, gen |-> j.gen + 1, id |-> id,
                rows |-> RowsIn(j.files)]
        m == [added |-> out, removed |-> j.files]
    IN  /\ cycle.pc = "run" /\ Cardinality(running) < MaxConcurrent
        /\ j.files \subseteq objects
        /\ id \in Ids
        /\ minted' = id
        /\ objects' = objects \cup {out}
        /\ manifests' = [c \in 1 .. id |-> IF c = id THEN m ELSE manifests[c]]
        /\ cycle' = [cycle EXCEPT !.jobs = @ \ {j}]
        /\ running' = running \cup {[pc |-> "publish", id |-> id]}
        /\ UNCHANGED <<persisted, walInv, compInv, checkpoint, heartbeat, node,
                       marks, deletions, restarts>>

PublishCompaction(r) ==
    /\ r.pc = "publish"
    /\ \/ compInv' = compInv \cup {r.id}
       \/ PublishMayFail /\ UNCHANGED compInv
    /\ running' = (running \ {r}) \cup {[r EXCEPT !.pc = "apply"]}
    /\ UNCHANGED <<objects, persisted, walInv, manifests, checkpoint, heartbeat,
                   node, marks, cycle, deletions, minted, restarts>>

\* The compactor's own view changes without tombstones, and the deletion of the
\* inputs is spawned.
ApplyCompaction(r) ==
    LET m == manifests[r.id]
    IN  /\ r.pc = "apply"
        /\ node' = [node EXCEPT ![Compactor].files.refs =
                        (@ \cup {m.added}) \ m.removed]
        /\ running' = running \ {r}
        /\ deletions' = deletions \cup
               {[pc |-> "gate", id |-> r.id, files |-> m.removed]}
        /\ UNCHANGED <<store, heartbeat, marks, cycle, minted, restarts>>

\* Jobs may be left: their claim was held, an input could not be read, or a put
\* failed.
CycleDone == cycle.pc = "run" /\ running = {}

FinishCycle ==
    /\ CycleDone
    /\ cycle' = Idle
    /\ UNCHANGED <<store, heartbeat, node, marks, running, deletions, minted,
                   restarts>>

-----------------------------------------------------------------------------
(* Checkpoints, written at the end of a cycle.                             *)

BeginCheckpoint ==
    /\ CycleDone /\ checkpoint.num < MaxCheckpoints
    /\ cycle' = [Idle EXCEPT !.pc = "merge", !.wal = marks.wal,
                             !.comp = marks.comp]
    /\ UNCHANGED <<store, heartbeat, node, marks, running, deletions, minted,
                   restarts>>

\* The live view without the files that are missing from the store.
ValidateRefs(v) ==
    LET missing == v.refs \ objects
    IN  [v EXCEPT !.refs = @ \ missing,
                  !.tombs = @ \cup {Tombstone(f, ObjectGone) :
                                       f \in missing \ Buried(v)}]

MergeCheckpoint ==
    LET valid == ValidateRefs(View)
        tombs == GcTombstones(valid.tombs, cycle.wal, cycle.comp)
    IN  /\ cycle.pc = "merge"
        /\ node' = [node EXCEPT ![Compactor].files =
                        [valid EXCEPT !.tombs = tombs]]
        /\ cycle' = [cycle EXCEPT !.pc = "write", !.merged = valid.refs,
                                  !.tombs = {t \in tombs : t.by # ObjectGone}]
        /\ UNCHANGED <<store, heartbeat, marks, running, deletions, minted,
                       restarts>>

\* Mutant: whatever the merged view lacks is taken for deleted.
SurvivorsUnconfirmed ==
    {f \in {persisted[s] : s \in {n \in walInv : n > cycle.wal}} :
        f \notin cycle.merged}

\* Files that a WAL manifest above the high-water would bring back: not in the
\* merged view, and confirmed missing from the store.
Survivors ==
    {f \in {persisted[s] : s \in {n \in walInv : n > cycle.wal}} :
        f \notin cycle.merged /\ f \notin objects}

\* Mutant: the marks are read when the checkpoint is written.
WriteCheckpointLateMarks ==
    /\ cycle.pc = "write"
    /\ checkpoint' = [num |-> checkpoint.num + 1,
                      wal |-> marks.wal, comp |-> marks.comp,
                      merged |-> cycle.merged,
                      tombs |-> cycle.tombs
                                \cup {Tombstone(f, 0) : f \in Survivors}]
    /\ cycle' = Idle
    /\ UNCHANGED <<objects, persisted, walInv, manifests, compInv, heartbeat,
                   node, marks, running, deletions, minted, restarts>>

WriteCheckpoint ==
    /\ cycle.pc = "write"
    /\ checkpoint' = [num |-> checkpoint.num + 1,
                      wal |-> cycle.wal, comp |-> cycle.comp,
                      merged |-> cycle.merged,
                      tombs |-> {t \in cycle.tombs : t.file \notin Survivors}
                                \cup {Tombstone(f, 0) : f \in Survivors}]
    /\ cycle' = Idle
    /\ UNCHANGED <<objects, persisted, walInv, manifests, compInv, heartbeat,
                   node, marks, running, deletions, minted, restarts>>

-----------------------------------------------------------------------------
(* Deleting the inputs of a compaction.                                    *)

AllLiveConsumersFolded(id) ==
    \A q \in Queriers : heartbeat[q].live => heartbeat[q].cursor >= id

PassGate(d) ==
    /\ d.pc = "gate" /\ AllLiveConsumersFolded(d.id)
    /\ deletions' = (deletions \ {d}) \cup {[d EXCEPT !.pc = "delete"]}
    /\ UNCHANGED <<store, heartbeat, node, marks, cycle, running, minted,
                   restarts>>

\* max_wait runs out, with a querier behind or the heartbeats unreadable: the
\* inputs are kept for good.
GateTimesOut(d) ==
    /\ d.pc = "gate" /\ GateMayTimeOut
    /\ deletions' = deletions \ {d}
    /\ UNCHANGED <<store, heartbeat, node, marks, cycle, running, minted,
                   restarts>>

DeleteInput(d) ==
    \E f \in d.files :
        /\ d.pc = "delete"
        /\ objects' = objects \ {f}
        /\ deletions' = (deletions \ {d}) \cup
               {e \in {[d EXCEPT !.files = @ \ {f}]} : e.files # {}}
        /\ UNCHANGED <<persisted, walInv, manifests, compInv, checkpoint,
                       heartbeat, node, marks, cycle, running, minted, restarts>>

-----------------------------------------------------------------------------
(* Stopping a node loses its memory and its tasks.                         *)

Stop(n) ==
    /\ node[n].pc # "down" /\ restarts < MaxRestarts
    /\ restarts' = restarts + 1
    /\ node' = [node EXCEPT ![n] = Down]
    /\ IF n = Compactor
       THEN /\ cycle' = Idle /\ running' = {} /\ deletions' = {}
            /\ marks' = [wal |-> 0, comp |-> 0]
       ELSE UNCHANGED <<cycle, running, deletions, marks>>
    /\ UNCHANGED <<store, heartbeat, minted>>

-----------------------------------------------------------------------------

Init ==
    /\ objects = {} /\ persisted = <<>> /\ walInv = {}
    /\ manifests = <<>> /\ compInv = {}
    /\ checkpoint = [num |-> 0, wal |-> 0, comp |-> 0, merged |-> {}, tombs |-> {}]
    /\ heartbeat = [q \in Queriers |-> [live |-> FALSE, cursor |-> 0]]
    /\ node = [n \in Nodes |-> IF n = Compactor THEN [Down EXCEPT !.pc = "idle"]
                                               ELSE Down]
    /\ marks = [wal |-> 0, comp |-> 0]
    /\ cycle = Idle /\ running = {} /\ deletions = {}
    /\ minted = 0 /\ restarts = 0

Load(n) ==
    \/ LoadOwnCompaction(n) \/ LoadCheckpoint(n) \/ FinishLoad(n)

Poll(n) ==
    \/ ListWalSnapshots(n) \/ ListCompactions(n) \/ FoldWalSnapshot(n)
    \/ FoldCompaction(n) \/ QuietTick(n) \/ FinishTick(n)

Compact ==
    \/ BeginCycle
    \/ \E j \in cycle.jobs : ExecuteJob(j)
    \/ \E r \in running : PublishCompaction(r) \/ ApplyCompaction(r)
    \/ FinishCycle

Checkpointing ==
    BeginCheckpoint \/ MergeCheckpoint \/ WriteCheckpoint

Delete == \E d \in deletions : PassGate(d) \/ GateTimesOut(d) \/ DeleteInput(d)

Next ==
    \/ \E t \in Tables : PublishWalSnapshot(t)
    \/ \E n \in Nodes : Boot(n) \/ Load(n) \/ Poll(n) \/ Stop(n)
    \/ \E q \in Queriers : Heartbeat(q) \/ HeartbeatExpires(q)
    \/ Compact \/ Checkpointing \/ Delete

Spec == Init /\ [][Next]_vars

-----------------------------------------------------------------------------
(* Properties.                                                             *)

\* The convergence gate (all_live_consumers_folded, the boot heartbeat, the
\* cursor that follows the fold, the tombstones): a querier that answers
\* queries names only objects that are still in the store.
NoPhantomRefs ==
    \A q \in Queriers : node[q].ready => node[q].files.refs \subseteq objects

\* Rows do not get lost on the way through compactions, tombstones, checkpoints
\* and restarts: what a querier has folded stays in the files it scans.
FoldedRowsVisible ==
    \A q \in Queriers : node[q].ready =>
        \A s \in walInv : s <= node[q].files.walCursor =>
            s \in RowsIn(node[q].files.refs)

\* Deleting inputs never takes the last copy of a row, whatever is lost on the
\* way to the shared inventory: publish_compaction spawns the deletion only once
\* the output and its manifest are stored.
RowsStored == DOMAIN persisted \subseteq RowsIn(objects)

\* A checkpoint holds all that its high-waters tell a loader to skip: the rows
\* of every manifest up to wal_high_water, and no input of a compaction up to
\* compactions_high_water (write_inventory_checkpoint reads the marks first).
CheckpointCoversMarks ==
    /\ \A s \in walInv : s <= checkpoint.wal => s \in RowsIn(checkpoint.merged)
    /\ \A c \in compInv : c <= checkpoint.comp =>
           manifests[c].removed \cap checkpoint.merged = {}

=============================================================================
