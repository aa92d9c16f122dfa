------------------------------- MODULE Writer --------------------------------
(***************************************************************************)
(* The write path of one node: the write-ahead log in the object store     *)
(* (influxdb3_wal/src/object_store.rs), the queryable buffer and its       *)
(* snapshot task (influxdb3_write/src/write_buffer), crash and replay.     *)
(*                                                                         *)
(* A write request is a set of rows of one table; a row is told apart by   *)
(* its request and its timestamp, so distinct rows never overwrite each    *)
(* other.  Tables are independent in this code, so one table is enough.    *)
(* The flush_buffer mutex is held across an await in one place only, the   *)
(* wait for the snapshot permit; "lock" records that holder and every      *)
(* other critical section is one atomic step.                              *)
(***************************************************************************)
EXTENDS SnapshotTracker

CONSTANTS
    Writes,        \* identities of the write requests
    NoSync,        \* the requests among them sent with no_sync
    Batches,       \* the sets of timestamps one request may carry
    NoopTimes,     \* wall-clock readings an empty forced flush may record
    Flushers,      \* tasks that flush: "bg" (timer) and "mem" (memory check)
    OpLimit,       \* max_write_buffer_size
    Keep,          \* snapshotted_wal_files_to_keep
    PutMayGiveUp,  \* a WAL put may fail more than 100 times in a row
    LatePuts,      \* a crashed process's put may land after the next LIST
    MaxForced,     \* bound: forced flushes in a behaviour
    MaxCrashes     \* bound: crashes in a behaviour

ASSUME WriterAssumption ==
    /\ IsFiniteSet(Writes)
    /\ NoSync \subseteq Writes
    /\ Batches \subseteq (SUBSET Int) \ {{}}
    /\ IsFiniteSet(UNION Batches)
    /\ NoopTimes \subseteq Int
    /\ Flushers \in {{"bg"}, {"bg", "mem"}}
    /\ OpLimit \in Nat /\ Keep \in Nat
    /\ PutMayGiveUp \in BOOLEAN /\ LatePuts \in BOOLEAN
    /\ MaxForced \in Nat /\ MaxCrashes \in Nat

VARIABLES
    wal,           \* object store: the WAL files
    manifests,     \* object store: the snapshot manifests of this node
    limbo,         \* WAL puts of a dead process that may still land
    status,        \* what each request's client knows
    rowsOf,        \* the rows each request carries
    mode,          \* the process: "down", "replay" or "up"
    stop,          \* progress of a graceful shutdown
    buf,           \* WalBuffer: state, number of the file to come, contents
    lock,          \* who holds the flush_buffer mutex across an await
    periods,       \* SnapshotTracker.wal_periods
    lastSnap,      \* SnapshotTracker.last_snapshot_sequence_number
    permit,        \* is the snapshot semaphore's permit available
    flush,         \* flush_buffer() of each flusher
    qbuf,          \* rows in the mutable chunks of the queryable buffer
    snapshotting,  \* rows in TableBuffer.snapshotting_chunks
    files,         \* rows of the parquet files PersistedFiles refers to
    task,          \* the snapshot in progress, then its WAL cleanup
    remover,       \* WalFileRemover
    del,           \* the range of WAL files being deleted
    replay,        \* files left to replay, snapshot number found at startup
    forced,        \* forced flushes so far
    crashes        \* crashes so far

store   == <<wal, manifests, limbo>>
clients == <<status, rowsOf>>
walbuf  == <<buf, lock, periods, lastSnap>>
memory  == <<qbuf, snapshotting, files>>
cleanup == <<remover, del>>
bounds  == <<forced, crashes>>

vars == <<store, clients, mode, stop, walbuf, permit, flush, memory, task,
          cleanup, replay, bounds>>

-----------------------------------------------------------------------------
Times  == UNION Batches
Row    == [write : Writes, time : Times]
NoOne  == "none"

WalFile  == [num : Nat, rows : SUBSET Row, max : Int, snap : Details]
Manifest == [seq : Nat, last : Nat, rows : SUBSET Row]

FlushJob == [pc : {"idle", "permit", "put", "failed", "notify"}, num : Nat,
             rows : SUBSET Row, max : Int, snap : Details,
             waiting : SUBSET Writes]

IdleFlush == [pc |-> "idle", num |-> 0, rows |-> {}, max |-> 0,
              snap |-> NoSnap, waiting |-> {}]

IdleTask == [pc |-> "idle", det |-> NoSnap, info |-> NoSnap,
             jobs |-> {}, done |-> {}]

EmptyBuf(num, state) ==
    [state |-> state, num |-> num, rows |-> {}, waiting |-> {}, opCount |-> 0]

RowsOf(w, batch) == {[write |-> w, time |-> t] : t \in batch}

\* What a restart reads off the manifests: the newest one decides both.
NewestSeq  == Max({m.seq : m \in manifests} \cup {0})
NewestLast ==
    IF manifests = {} THEN 0
    ELSE (CHOOSE m \in manifests : m.seq = NewestSeq).last
ManifestRows == UNION {m.rows : m \in manifests}

WalNums == {f.num : f \in wal}

\* Rows whose chunk starts before the snapshot's end_time_marker.
SnapshotRows(rows, det) == {r \in rows : ChunkTime(r.time) < det.end}

Answer(ws, result) ==
    status' = [w \in Writes |-> IF w \in ws THEN result ELSE status[w]]

-----------------------------------------------------------------------------
(* Clients *)

\* WalObjectStore::write_ops: buffer the rows, wait for the flush's answer.
WriteOps(w, batch) ==
    /\ mode = "up" /\ lock = NoOne
    /\ status[w] = "new" /\ w \notin NoSync
    /\ buf.state = "accepting" /\ buf.opCount < OpLimit
    /\ buf' = [buf EXCEPT !.rows = @ \cup RowsOf(w, batch),
                          !.waiting = @ \cup {w}]
    /\ rowsOf' = [rowsOf EXCEPT ![w] = RowsOf(w, batch)]
    /\ Answer({w}, "pending")
    /\ UNCHANGED <<store, mode, stop, lock, periods, lastSnap, permit, flush,
                   memory, task, cleanup, replay, bounds>>

\* write_ops_unconfirmed: the client is told Ok before anything is durable.
WriteOpsUnconfirmed(w, batch) ==
    /\ mode = "up" /\ lock = NoOne
    /\ status[w] = "new" /\ w \in NoSync
    /\ buf.state = "accepting" /\ buf.opCount < OpLimit
    /\ buf' = [buf EXCEPT !.rows = @ \cup RowsOf(w, batch)]
    /\ rowsOf' = [rowsOf EXCEPT ![w] = RowsOf(w, batch)]
    /\ Answer({w}, "unsynced")
    /\ UNCHANGED <<store, mode, stop, lock, periods, lastSnap, permit, flush,
                   memory, task, cleanup, replay, bounds>>

\* Error::Shutdown or Error::BufferFull.
WriteRejected(w) ==
    /\ mode = "up" /\ lock = NoOne
    /\ status[w] = "new"
    /\ buf.state # "accepting" \/ buf.opCount >= OpLimit
    /\ Answer({w}, "failed")
    /\ UNCHANGED <<store, rowsOf, mode, stop, walbuf, permit, flush, memory,
                   task, cleanup, replay, bounds>>

-----------------------------------------------------------------------------
(* Flushing the WAL buffer to a file *)

\* flush_buffer_into_contents_and_responses: take the buffer, record its
\* period, let the tracker decide on a snapshot.  With a snapshot the mutex
\* stays locked until the permit is there.
Flush(f, max) ==
    LET ps   == periods \cup {[num |-> buf.num, max |-> max]}
        snap == TrackerSnapshot(ps, f = "mem", lastSnap)
    IN  /\ mode = "up" /\ lock = NoOne
        /\ flush[f].pc = "idle"
        /\ flush' = [flush EXCEPT ![f] =
                        [pc |-> IF snap = NoSnap THEN "put" ELSE "permit",
                         num |-> buf.num, rows |-> buf.rows, max |-> max,
                         snap |-> snap, waiting |-> buf.waiting]]
        /\ lock' = IF snap = NoSnap THEN NoOne ELSE f
        /\ periods' = ps \ Drained(ps, f = "mem")
        /\ lastSnap' = IF snap = NoSnap THEN lastSnap ELSE snap.seq
        /\ buf' = EmptyBuf(buf.num + 1, buf.state)
        /\ stop' = CASE ~(f = "bg" /\ stop = "flush") -> stop
                     [] snap = NoSnap -> "wait"
                     [] OTHER -> "waitSnap"
        /\ forced' = IF f = "mem" THEN forced + 1 ELSE forced
        /\ UNCHANGED <<store, clients, mode, permit, memory, task, cleanup,
                       replay, crashes>>

\* check_mem_and_force_snapshot: the mutable chunks outgrew the threshold.
MemPressure == qbuf # {} /\ forced < MaxForced

\* Mutant: the shutdown signal ends the flush loop before the last flush.
FlushWritesUntilAsked(f) ==
    /\ buf.rows # {}
    /\ f = "mem" => MemPressure
    /\ f = "bg" => stop = "no"
    /\ Flush(f, Max({r.time : r \in buf.rows}))

\* Both flushers: the timer's flush does nothing on an empty buffer.
FlushWrites(f) ==
    /\ buf.rows # {}
    /\ f = "mem" => MemPressure
    /\ f = "bg" => stop \notin {"wait", "waitSnap"}
    /\ Flush(f, Max({r.time : r \in buf.rows}))

\* A forced flush of an empty buffer writes a no-op stamped with the clock.
FlushNoop(now) ==
    /\ "mem" \in Flushers
    /\ buf.rows = {}
    /\ MemPressure
    /\ Flush("mem", now + 1)

\* Mutant: the permit is not waited for.
AcquireWithoutWaiting(f) ==
    /\ flush[f].pc = "permit"
    /\ permit' = FALSE
    /\ lock' = NoOne
    /\ flush' = [flush EXCEPT ![f].pc = "put"]
    /\ UNCHANGED <<store, clients, mode, stop, buf, periods, lastSnap, memory,
                   task, cleanup, replay, bounds>>

\* The permit arrives; the mutex is released with it.
AcquireSnapshotPermit(f) ==
    /\ flush[f].pc = "permit"
    /\ permit
    /\ permit' = FALSE
    /\ lock' = NoOne
    /\ flush' = [flush EXCEPT ![f].pc = "put"]
    /\ UNCHANGED <<store, clients, mode, stop, buf, periods, lastSnap, memory,
                   task, cleanup, replay, bounds>>

FlushedFile(f) ==
    [num |-> flush[f].num, rows |-> flush[f].rows, max |-> flush[f].max,
     snap |-> flush[f].snap]

\* The conditional create succeeds, on the first attempt or on a retry.
PutOk(f) ==
    /\ flush[f].pc = "put"
    /\ flush[f].num \notin WalNums
    /\ wal' = wal \cup {FlushedFile(f)}
    /\ flush' = [flush EXCEPT ![f].pc = "notify"]
    /\ UNCHANGED <<manifests, limbo, clients, mode, stop, walbuf, permit,
                   memory, task, cleanup, replay, bounds>>

\* Mutant: a flush without a snapshot releases the permit too.
ReleasePermitAlways(f) == permit' = TRUE

\* Returning from flush_buffer without a snapshot drops the permit it holds.
ReleasePermit(f) == permit' = (permit \/ flush[f].snap # NoSnap)

\* AlreadyExists: refuse new writes, fail this file's writes, ask to stop.
PutExists(f) ==
    /\ flush[f].pc = "put"
    /\ flush[f].num \in WalNums
    /\ lock = NoOne
    /\ buf' = [buf EXCEPT !.state = "error"]
    /\ Answer(flush[f].waiting, "failed")
    /\ stop' = IF stop = "no" THEN "asked" ELSE stop
    /\ ReleasePermit(f)
    /\ flush' = [flush EXCEPT ![f] = IdleFlush]
    /\ UNCHANGED <<store, rowsOf, mode, lock, periods, lastSnap, memory, task,
                   cleanup, replay, bounds>>

\* More than 100 failed attempts; the last of them may have reached the store.
PutGiveUp(f) ==
    /\ PutMayGiveUp
    /\ flush[f].pc = "put"
    /\ \/ UNCHANGED wal
       \/ /\ flush[f].num \notin WalNums
          /\ wal' = wal \cup {FlushedFile(f)}
    /\ Answer(flush[f].waiting, "failed")
    /\ flush' = [flush EXCEPT ![f].pc = "failed"]
    /\ UNCHANGED <<manifests, limbo, rowsOf, mode, stop, walbuf, permit,
                   memory, task, cleanup, replay, bounds>>

\* flush_buffer_with_failure: fail and forget what was buffered meanwhile.
FlushBufferWithFailure(f) ==
    /\ flush[f].pc = "failed"
    /\ lock = NoOne
    /\ Answer(buf.waiting, "failed")
    /\ buf' = EmptyBuf(buf.num + 1, buf.state)
    /\ ReleasePermit(f)
    /\ flush' = [flush EXCEPT ![f] = IdleFlush]
    /\ UNCHANGED <<store, rowsOf, mode, stop, lock, periods, lastSnap, memory,
                   task, cleanup, replay, bounds>>

-----------------------------------------------------------------------------
(* Making a WAL file queryable, snapshotting, cleaning up *)

\* QueryableBuffer::buffer_wal_contents[_and_persist_snapshotted_data]: buffer
\* the rows, then move the chunks the snapshot covers out of the buffer.
BufferContents(rows, det) ==
    LET known == qbuf \cup rows
        moved == SnapshotRows(known, det)
    IN  IF det = NoSnap
        THEN qbuf' = known /\ UNCHANGED snapshotting
        ELSE qbuf' = known \ moved /\ snapshotting' = moved

\* Mutant: snapshot before buffering the file's own rows.
StartTaskUnbuffered(rows, det, info) ==
    [pc |-> "persist", det |-> det, info |-> info,
     jobs |-> SnapshotRows(qbuf, det), done |-> {}]

\* The spawned snapshot task; info is what its WAL cleanup will use.
StartTask(rows, det, info) ==
    [pc |-> "persist", det |-> det, info |-> info,
     jobs |-> SnapshotRows(qbuf \cup rows, det), done |-> {}]

\* notify or notify_and_snapshot, then Success to the waiting clients.
Notify(f) ==
    /\ flush[f].pc = "notify"
    /\ BufferContents(flush[f].rows, flush[f].snap)
    /\ task' = IF flush[f].snap = NoSnap THEN task
               ELSE StartTask(flush[f].rows, flush[f].snap, flush[f].snap)
    /\ Answer(flush[f].waiting, "acked")
    /\ flush' = [flush EXCEPT ![f] = IdleFlush]
    /\ UNCHANGED <<store, rowsOf, mode, stop, walbuf, permit, files, cleanup,
                   replay, bounds>>

\* One persist job: upload the chunk's parquet file (retried for ever), add
\* it to PersistedFiles and clear the table's snapshotting chunks.
PersistChunk(c) ==
    LET chunk == {r \in task.jobs : ChunkTime(r.time) = c}
    IN  /\ task.pc = "persist"
        /\ chunk # {}
        /\ files' = files \cup chunk
        /\ snapshotting' = {}
        /\ task' = [task EXCEPT !.jobs = @ \ chunk, !.done = @ \cup chunk]
        /\ UNCHANGED <<store, clients, mode, stop, walbuf, permit, flush, qbuf,
                       cleanup, replay, bounds>>

\* Mutant: no manifest for a snapshot without files.
PersistSnapshotUnlessEmpty ==
    /\ task.pc = "persist" /\ task.jobs = {}
    /\ manifests' = IF task.done = {} THEN manifests
                    ELSE manifests \cup {[seq |-> task.det.seq,
                                          last |-> task.det.last,
                                          rows |-> task.done]}
    /\ task' = IF task.info = NoSnap THEN IdleTask
               ELSE [task EXCEPT !.pc = "cleanup"]
    /\ UNCHANGED <<wal, limbo, clients, mode, stop, walbuf, permit, flush,
                   memory, cleanup, replay, bounds>>

\* persist_snapshot: an unconditional put at the path of the sequence number.
PersistSnapshot ==
    /\ task.pc = "persist" /\ task.jobs = {}
    /\ manifests' = {m \in manifests : m.seq # task.det.seq}
                    \cup {[seq |-> task.det.seq, last |-> task.det.last,
                           rows |-> task.done]}
    /\ task' = IF task.info = NoSnap THEN IdleTask
               ELSE [task EXCEPT !.pc = "cleanup"]
    /\ UNCHANGED <<wal, limbo, clients, mode, stop, walbuf, permit, flush,
                   memory, cleanup, replay, bounds>>

\* Mutant: no check that there are more files than to keep.
AlwaysTrims == TRUE

\* More snapshotted files in the store than snapshotted_wal_files_to_keep.
HasFilesToDelete == task.info.last - remover.oldest > Keep

\* Mutant: up to the last file written instead of the last one snapshotted.
LastWritten == buf.num - Keep

\* last_to_delete, the exclusive end of the loop's range.
LastToDelete == task.info.last - Keep

\* remove_snapshot_wal_files, up to the loop.
BeginCleanup ==
    /\ task.pc = "cleanup"
    /\ remover' = [remover EXCEPT !.last = task.info.last]
    /\ IF HasFilesToDelete
       THEN /\ del' = [idx |-> remover.oldest, end |-> LastToDelete]
            /\ task' = [task EXCEPT !.pc = "delete"]
            /\ UNCHANGED permit
       ELSE /\ permit' = TRUE
            /\ task' = IdleTask
            /\ UNCHANGED del
    /\ UNCHANGED <<store, clients, mode, stop, walbuf, flush, memory, replay,
                   bounds>>

\* One turn of the loop.  A Generic error is retried, any other is skipped.
DeleteWalFile ==
    /\ task.pc = "delete" /\ del.idx < del.end
    /\ \/ wal' = {f \in wal : f.num # del.idx}
       \/ UNCHANGED wal
    /\ del' = [del EXCEPT !.idx = @ + 1]
    /\ UNCHANGED <<manifests, limbo, clients, mode, stop, walbuf, permit,
                   flush, memory, task, remover, replay, bounds>>

FinishCleanup ==
    /\ task.pc = "delete" /\ del.idx = del.end
    /\ remover' = [remover EXCEPT !.oldest = del.end]
    /\ permit' = TRUE
    /\ task' = IdleTask
    /\ UNCHANGED <<store, clients, mode, stop, walbuf, flush, memory, del,
                   replay, bounds>>

-----------------------------------------------------------------------------
(* Shutdown, crash, restart *)

\* The shutdown signal; background_wal_flush notices it between two flushes.
AskStop ==
    /\ mode = "up" /\ stop = "no"
    /\ stop' = "asked"
    /\ UNCHANGED <<store, clients, mode, walbuf, permit, flush, memory, task,
                   cleanup, replay, bounds>>

\* Wal::shutdown, before its last flush.
ShutdownWal ==
    /\ mode = "up" /\ stop = "asked"
    /\ flush["bg"].pc = "idle" /\ lock = NoOne
    /\ buf' = [buf EXCEPT !.state = "shutting"]
    /\ stop' = "flush"
    /\ UNCHANGED <<store, clients, mode, lock, periods, lastSnap, permit,
                   flush, memory, task, cleanup, replay, bounds>>

\* Everything the process held in memory is gone.
Down ==
    /\ mode' = "down"
    /\ stop' = "no"
    /\ Answer({w \in Writes : status[w] = "pending"}, "failed")
    /\ buf' = EmptyBuf(0, "accepting")
    /\ lock' = NoOne
    /\ periods' = {} /\ lastSnap' = 0
    /\ permit' = TRUE
    /\ flush' = [f \in Flushers |-> IdleFlush]
    /\ qbuf' = {} /\ snapshotting' = {} /\ files' = {}
    /\ task' = IdleTask
    /\ remover' = [oldest |-> 1, last |-> 1]
    /\ del' = [idx |-> 0, end |-> 0]
    /\ replay' = [todo |-> {}, base |-> 0]
    /\ UNCHANGED <<wal, manifests, rowsOf, forced>>

\* Mutant: shutdown without the last flush.
ShutdownUnflushed ==
    \/ stop = "flush" /\ lock = NoOne
    \/ stop = "wait"
    \/ stop = "waitSnap" /\ task.pc = "idle"

\* Nothing was left to flush, or the last flush is done with its snapshot.
ShutdownDone ==
    \/ stop = "flush" /\ lock = NoOne /\ buf.rows = {}
    \/ stop = "wait"
    \/ stop = "waitSnap" /\ task.pc = "idle"

\* Wal::shutdown returns and the process exits.
Exit ==
    /\ mode = "up" /\ flush["bg"].pc = "idle"
    /\ ShutdownDone
    /\ Down
    /\ UNCHANGED <<limbo, crashes>>

InFlightPuts == {FlushedFile(f) : f \in {g \in Flushers : flush[g].pc = "put"}}

\* A kill at any point; the store may still be working on a put.
Crash ==
    /\ mode # "down" /\ crashes < MaxCrashes
    /\ crashes' = crashes + 1
    /\ \E late \in SUBSET (IF LatePuts THEN InFlightPuts ELSE {}) :
           limbo' = limbo \cup late
    /\ Down

LatePutLands ==
    \E f \in limbo :
        /\ limbo' = limbo \ {f}
        /\ wal' = IF f.num \in WalNums THEN wal ELSE wal \cup {f}
        /\ UNCHANGED <<manifests, clients, mode, stop, walbuf, permit, flush,
                       memory, task, cleanup, replay, bounds>>

\* Mutant: the listing is not sorted before its first entry is taken.
NewestWalFile == IF wal = {} THEN 1 ELSE Max(WalNums)

\* oldest_wal_file_num of the listing.
OldestWalFile == IF wal = {} THEN 1 ELSE Min(WalNums)

\* Mutant: the last snapshotted file is replayed too.
FilesFromNewestLast == {n \in WalNums : n >= NewestLast}

\* load_existing_wal_file_paths.
FilesToReplay == {n \in WalNums : n > NewestLast}

\* WriteBufferImpl::new and WalObjectStore::new up to the replay.
Restart ==
    /\ mode = "down"
    /\ mode' = "replay"
    /\ files' = ManifestRows
    /\ lastSnap' = NewestSeq
    /\ buf' = EmptyBuf(NewestLast + 1, "accepting")
    /\ remover' = [oldest |-> OldestWalFile,
                   last   |-> IF manifests = {} THEN 1 ELSE NewestLast]
    /\ replay' = [todo |-> FilesToReplay, base |-> NewestSeq]
    /\ UNCHANGED <<store, clients, stop, lock, periods, permit, flush, qbuf,
                   snapshotting, task, del, bounds>>

\* Mutant: off by one, the snapshot to redo counts as taken.
TakenOffByOne(f) == f.snap.seq <= replay.base + 1

\* The snapshot recorded in the file already has its manifest.
AlreadyTaken(f) == f.snap.seq <= replay.base

\* One turn of WalObjectStore::replay.  A snapshot that has its manifest is
\* not taken again; the tracker is asked in either case.
ReplayFile ==
    /\ mode = "replay" /\ task.pc = "idle"
    /\ replay.todo # {}
    /\ \E f \in wal :
        LET ps   == periods \cup {[num |-> f.num, max |-> f.max]}
            info == IF f.snap = NoSnap THEN NoSnap
                    ELSE TrackerSnapshot(ps, f.snap.forced, lastSnap)
            det  == IF AlreadyTaken(f) THEN NoSnap ELSE f.snap
        IN  /\ f.num = Min(replay.todo)
            /\ replay' = [replay EXCEPT !.todo = @ \ {f.num}]
            /\ buf' = [buf EXCEPT !.num = f.num + 1]
            /\ periods' = IF info = NoSnap THEN ps
                          ELSE ps \ Drained(ps, f.snap.forced)
            /\ lastSnap' = IF info = NoSnap THEN lastSnap ELSE info.seq
            /\ permit' = (info = NoSnap)
            /\ BufferContents(f.rows, det)
            /\ task' = CASE det # NoSnap -> StartTask(f.rows, det, info)
                         [] det = NoSnap /\ info # NoSnap ->
                                [IdleTask EXCEPT !.pc = "cleanup",
                                                 !.info = info]
                         [] OTHER -> IdleTask
    /\ UNCHANGED <<store, clients, mode, stop, lock, flush, files, cleanup,
                   bounds>>

\* Replay is over; the background tasks start and requests are served.
Serve ==
    /\ mode = "replay" /\ task.pc = "idle" /\ replay.todo = {}
    /\ mode' = "up"
    /\ UNCHANGED <<store, clients, stop, walbuf, permit, flush, memory, task,
                   cleanup, replay, bounds>>

-----------------------------------------------------------------------------
Init ==
    /\ wal = {} /\ manifests = {} /\ limbo = {}
    /\ status = [w \in Writes |-> "new"]
    /\ rowsOf = [w \in Writes |-> {}]
    /\ mode = "down" /\ stop = "no"
    /\ buf = EmptyBuf(0, "accepting")
    /\ lock = NoOne
    /\ periods = {} /\ lastSnap = 0
    /\ permit = TRUE
    /\ flush = [f \in Flushers |-> IdleFlush]
    /\ qbuf = {} /\ snapshotting = {} /\ files = {}
    /\ task = IdleTask
    /\ remover = [oldest |-> 1, last |-> 1]
    /\ del = [idx |-> 0, end |-> 0]
    /\ replay = [todo |-> {}, base |-> 0]
    /\ forced = 0 /\ crashes = 0

Request ==
    \E w \in Writes :
        \/ \E batch \in Batches : WriteOps(w, batch)
        \/ \E batch \in Batches : WriteOpsUnconfirmed(w, batch)
        \/ WriteRejected(w)

FlushStep(f) ==
    \/ FlushWrites(f)
    \/ AcquireSnapshotPermit(f)
    \/ PutOk(f)
    \/ PutExists(f)
    \/ PutGiveUp(f)
    \/ FlushBufferWithFailure(f)
    \/ Notify(f)

TaskStep ==
    \/ \E c \in {ChunkTime(t) : t \in Times} : PersistChunk(c)
    \/ PersistSnapshot
    \/ BeginCleanup
    \/ DeleteWalFile
    \/ FinishCleanup

Startup == Restart \/ ReplayFile \/ Serve

Next ==
    \/ Request
    \/ \E f \in Flushers : FlushStep(f)
    \/ \E now \in NoopTimes : FlushNoop(now)
    \/ TaskStep
    \/ AskStop \/ ShutdownWal \/ Exit
    \/ Crash \/ LatePutLands
    \/ Startup

Spec == Init /\ [][Next]_vars

\* The object store answers in the end, spawned tasks run, the flush timer
\* ticks, a supervisor restarts the process.  Nothing is assumed of clients,
\* signals, crashes, or of the memory check finding the buffer too large.
Fairness ==
    /\ WF_vars(FlushWrites("bg"))
    /\ \A f \in Flushers :
        /\ WF_vars(AcquireSnapshotPermit(f))
        /\ WF_vars(PutOk(f))
        /\ WF_vars(PutExists(f))
        /\ WF_vars(FlushBufferWithFailure(f))
        /\ WF_vars(Notify(f))
    /\ WF_vars(TaskStep)
    /\ WF_vars(ShutdownWal)
    /\ WF_vars(Exit)
    /\ WF_vars(Startup)

FairSpec == Spec /\ Fairness

-----------------------------------------------------------------------------
(* Properties *)

AckedRows == UNION {rowsOf[w] : w \in {v \in Writes : status[v] = "acked"}}

\* What a restart would bring back: the manifests' parquet files and the WAL
\* files after the newest manifest's wal_file_sequence_number.
Recoverable ==
    ManifestRows \cup UNION {f.rows : f \in {g \in wal : g.num > NewestLast}}

StoreOK ==
    /\ wal \subseteq WalFile /\ IsFiniteSet(wal)
    /\ manifests \subseteq Manifest /\ IsFiniteSet(manifests)
    /\ limbo \subseteq WalFile

ClientsOK ==
    /\ status \in [Writes -> {"new", "pending", "acked", "failed", "unsynced"}]
    /\ rowsOf \in [Writes -> SUBSET Row]

WalBufOK ==
    /\ buf \in [state : {"accepting", "error", "shutting"}, num : Nat,
                rows : SUBSET Row, waiting : SUBSET Writes, opCount : Nat]
    /\ lock \in Flushers \cup {NoOne}
    /\ periods \subseteq Period /\ IsFiniteSet(periods)
    /\ lastSnap \in Nat

MemoryOK ==
    /\ qbuf \subseteq Row /\ snapshotting \subseteq Row /\ files \subseteq Row

TaskOK ==
    task \in [pc : {"idle", "persist", "cleanup", "delete"},
              det : Details, info : Details,
              jobs : SUBSET Row, done : SUBSET Row]

CleanupOK ==
    /\ remover \in [oldest : Nat, last : Nat]
    /\ del \in [idx : Nat, end : Nat]

ProcessOK ==
    /\ mode \in {"down", "replay", "up"}
    /\ stop \in {"no", "asked", "flush", "wait", "waitSnap"}
    /\ permit \in BOOLEAN
    /\ replay \in [todo : SUBSET Nat, base : Nat]
    /\ forced \in Nat /\ crashes \in Nat

\* Every variable has its type; in particular no file number, snapshot number
\* or deletion range underflows the u64 the code keeps it in.
TypeOK ==
    /\ StoreOK /\ ClientsOK /\ WalBufOK /\ MemoryOK /\ TaskOK
    /\ CleanupOK /\ ProcessOK
    /\ flush \in [Flushers -> FlushJob]

\* An acknowledged write survives any crash: WalObjectStore::write_ops returns
\* Ok only for rows that the next startup will load.
AckedDurable == AckedRows \subseteq Recoverable

\* A WAL file is deleted only when every row in it is in the parquet files of
\* a persisted manifest (remove_snapshot_wal_files).
DeletesOnlySnapshotted ==
    [][\A f \in wal : f \in wal' \/ f.rows \subseteq ManifestRows]_vars

\* The tracker, fed the replayed files, cuts the same snapshots the running
\* process cut: the WAL cleanup after a replayed snapshot uses the details
\* recorded in the file, and no cleanup follows a snapshot already persisted.
ReplayRedoesSnapshots == task.info = task.det

\* Between snapshots a running process can answer a query for every
\* acknowledged row from its buffer or its persisted files.
AckedQueryable ==
    mode = "up" /\ task.pc # "persist" => AckedRows \subseteq qbuf \cup files

\* The same at every moment, also while the snapshot's files are uploaded
\* (write_lp: "the data is both durable and queryable").
Queryable ==
    mode = "up" => AckedRows \subseteq qbuf \cup snapshotting \cup files

\* Manifests are numbered without a hole and each covers more WAL files than
\* the one before (the consumers walk them by exact number).
ManifestsGapless ==
    /\ {m.seq : m \in manifests} = 1..NewestSeq
    /\ \A m, n \in manifests : m.seq < n.seq => m.last < n.last

\* Who owns the one permit: a flush on its way to the snapshot task, or the
\* task until its cleanup is over.
PermitHolders ==
    {f \in Flushers : /\ flush[f].snap # NoSnap
                      /\ flush[f].pc \in {"put", "failed", "notify"}}
    \cup {t \in {"task"} : task.info # NoSnap}

\* The permit is handed from the flush to the snapshot and its cleanup without
\* being lost or duplicated, whatever fails on the way: snapshots are
\* exclusive and the next one can always start.
OneSnapshot ==
    IF permit THEN PermitHolders = {}
    ELSE \E h \in Flushers \cup {"task"} : PermitHolders = {h}

\* The number of files to delete, last - oldest in u64, does not underflow.
RemoverInRange ==
    task.pc \in {"cleanup", "delete"} => remover.oldest <= task.info.last

\* A graceful exit leaves no accepted write unanswered.
ShutdownAnswersAll ==
    [][mode = "up" /\ mode' = "down" /\ crashes' = crashes
       => \A w \in Writes : status[w] # "pending"]_vars

\* Every write that waits for its flush is answered.
WritesAnswered ==
    \A w \in Writes : status[w] = "pending" ~> status[w] # "pending"

\* A snapshot recorded in a WAL file gets its manifest in the end, across any
\* number of crashes: replay takes it up again.
SnapshotsCompleted ==
    \A n \in 1..Cardinality(Writes) :
        (\E f \in wal : f.snap.seq = n) ~> (\E m \in manifests : m.seq = n)

\* The Wal trait's promise, with the rows a restart would load as the durable
\* state: the write path implements it.
Promise == INSTANCE DurableWrites WITH recoverable <- Recoverable

ImplementsPromise == Promise!Spec
=============================================================================
