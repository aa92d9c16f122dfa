---------------------------- MODULE WriterProofs -----------------------------
(***************************************************************************)
(* Theorems about the write path of one node, for any set of requests, any *)
(* timestamps, any number of crashes, failures and forced flushes.         *)
(***************************************************************************)
EXTENDS Writer, SnapshotTrackerProofs

USE DEF store, clients, walbuf, memory, cleanup, bounds

-----------------------------------------------------------------------------
(* Types of the operators the actions are built from *)

\* The records a fresh process starts from have their types.
LEMMA InitialRecords ==
    /\ NoSnap \in Details
    /\ IdleFlush \in FlushJob
    /\ IdleTask \in [pc : {"idle", "persist", "cleanup", "delete"},
                     det : Details, info : Details,
                     jobs : SUBSET Row, done : SUBSET Row]
    /\ \A n \in Nat, s \in {"accepting", "error", "shutting"} :
           EmptyBuf(n, s) \in
               [state : {"accepting", "error", "shutting"}, num : Nat,
                rows : SUBSET Row, waiting : SUBSET Writes, opCount : Nat]
BY DEF NoSnap, Details, IdleFlush, FlushJob, IdleTask, EmptyBuf

\* Rows of a request, and the rows a snapshot takes from a buffer, are rows.
LEMMA RowTypes ==
    /\ \A w \in Writes, b \in Batches : RowsOf(w, b) \subseteq Row
    /\ \A rows \in SUBSET Row : \A det : SnapshotRows(rows, det) \subseteq rows
    /\ \A r \in Row : r.time \in Int
<1>1. Times \subseteq Int /\ \A b \in Batches : b \subseteq Times
    BY WriterAssumption DEF Times
<1>2. \A w \in Writes, b \in Batches : RowsOf(w, b) \subseteq Row
    BY <1>1 DEF RowsOf, Row
<1>3. \A rows \in SUBSET Row : \A det : SnapshotRows(rows, det) \subseteq rows
    BY DEF SnapshotRows
<1>4. \A r \in Row : r.time \in Int
    BY Zenon, <1>1 DEF Row
<1> QED
    BY <1>2, <1>3, <1>4

\* The largest timestamp of a nonempty set of rows is one of theirs.
LEMMA MaxRowTime ==
    ASSUME NEW rows \in SUBSET Row, rows # {}
    PROVE  /\ Max({r.time : r \in rows}) \in Int
           /\ \A r \in rows : r.time <= Max({s.time : s \in rows})
<1> DEFINE T == {r.time : r \in rows}
<1>1. T \subseteq Times /\ T \in SUBSET Int /\ T # {}
    BY WriterAssumption DEF Row, Times
<1>2. IsFiniteSet(T)
    BY SMTT(60), <1>1, WriterAssumption, FS_Subset DEF Times
<1> HIDE DEF T
<1>3. Max(T) \in T /\ \A y \in T : y <= Max(T)
    BY <1>1, <1>2, MaxLargest
<1> USE DEF T
<1> QED
    BY <1>1, <1>3

\* What a restart reads off the store.
LEMMA NewestTypes ==
    ASSUME StoreOK
    PROVE  /\ NewestSeq \in Nat /\ NewestLast \in Nat
           /\ ManifestRows \subseteq Row
           /\ WalNums \subseteq Nat /\ IsFiniteSet(WalNums)
           /\ \A m \in manifests : m.seq <= NewestSeq
           /\ manifests # {} =>
                  \E m \in manifests : m.seq = NewestSeq /\ m.last = NewestLast
           /\ manifests = {} => NewestSeq = 0 /\ NewestLast = 0
<1> DEFINE S == {m.seq : m \in manifests}
<1>1. IsFiniteSet(S)
    BY Zenon, NumsFinite DEF StoreOK
<1>2. S \subseteq Nat
    BY DEF StoreOK, Manifest
<1>3. IsFiniteSet(S \cup {0}) /\ S \cup {0} \in SUBSET Int
    BY <1>1, <1>2, FS_AddElement
<1>4. NewestSeq \in S \cup {0} /\ \A y \in S \cup {0} : y <= NewestSeq
    BY Zenon, <1>3, MaxLargest DEF NewestSeq
<1>5. \A m \in manifests : m.seq <= NewestSeq
    BY <1>4
<1>6. ASSUME manifests # {}
      PROVE  \E m \in manifests : m.seq = NewestSeq
    BY <1>2, <1>4, <1>6
<1>7. manifests # {} =>
          \E m \in manifests : m.seq = NewestSeq /\ m.last = NewestLast
    BY Zenon, <1>6 DEF NewestLast
<1>8. ManifestRows \subseteq Row
    BY DEF StoreOK, Manifest, ManifestRows
<1>9. WalNums \subseteq Nat /\ IsFiniteSet(WalNums)
    BY Zenon, NumsFinite DEF StoreOK, WalFile, WalNums
<1>10. manifests = {} => NewestSeq = 0 /\ NewestLast = 0
    BY <1>4 DEF NewestLast
<1> QED
    BY <1>2, <1>4, <1>5, <1>7, <1>8, <1>9, <1>10 DEF NewestLast, StoreOK, Manifest

-----------------------------------------------------------------------------
(* Type correctness, action by action *)

\* A client's request keeps the types.
LEMMA RequestType ==
    ASSUME TypeOK, Request
    PROVE  TypeOK'
<1> USE DEF TypeOK
<1>1. ASSUME NEW w \in Writes, NEW b \in Batches,
             WriteOps(w, b) \/ WriteOpsUnconfirmed(w, b)
      PROVE  TypeOK'
  <2>1. RowsOf(w, b) \subseteq Row
    BY RowTypes
  <2>2. ClientsOK'
    BY <1>1, <2>1 DEF ClientsOK, WriteOps, WriteOpsUnconfirmed, Answer
  <2>3. WalBufOK'
    <3>1. UNCHANGED <<lock, periods, lastSnap>>
      BY <1>1 DEF WriteOps, WriteOpsUnconfirmed
    <3>2. CASE WriteOps(w, b)
      BY Zenon, <2>1, <3>1, <3>2 DEF WalBufOK, WriteOps
    <3>3. CASE WriteOpsUnconfirmed(w, b)
      BY <2>1, <3>1, <3>3 DEF WalBufOK, WriteOpsUnconfirmed
    <3> QED
      BY <1>1, <3>2, <3>3
  <2> QED
    BY <1>1, <2>2, <2>3 DEF WriteOps, WriteOpsUnconfirmed, StoreOK, MemoryOK,
       TaskOK, CleanupOK, ProcessOK
<1>2. ASSUME NEW w \in Writes, WriteRejected(w)
      PROVE  TypeOK'
    BY <1>2 DEF WriteRejected, Answer, ClientsOK, StoreOK, WalBufOK, MemoryOK,
       TaskOK, CleanupOK, ProcessOK
<1> QED
    BY <1>1, <1>2 DEF Request

\* Taking the buffer for a flush keeps the types.
LEMMA FlushType ==
    ASSUME TypeOK, NEW f \in Flushers, NEW max \in Int, Flush(f, max)
    PROVE  TypeOK'
<1> DEFINE ps   == periods \cup {[num |-> buf.num, max |-> max]}
           snap == TrackerSnapshot(ps, f = "mem", lastSnap)
<1>0. ps \in SUBSET Period
    BY DEF TypeOK, WalBufOK, Period
<1>1. IsFiniteSet(ps)
    BY Zenon, FS_AddElement DEF TypeOK, WalBufOK
<1>2. /\ snap \in Details
      /\ ps \ Drained(ps, f = "mem") \subseteq Period
      /\ IsFiniteSet(ps \ Drained(ps, f = "mem"))
    BY Zenon, <1>0, <1>1, TrackerTypes DEF TypeOK, WalBufOK
<1>3. snap.seq \in Nat
    BY <1>2 DEF Details
<1> HIDE DEF ps, snap
<1>4. flush' \in [Flushers -> FlushJob]
  <2>1. [pc |-> IF snap = NoSnap THEN "put" ELSE "permit",
         num |-> buf.num, rows |-> buf.rows, max |-> max,
         snap |-> snap, waiting |-> buf.waiting] \in FlushJob
    BY <1>2 DEF TypeOK, WalBufOK, FlushJob
  <2> QED
    BY <2>1 DEF Flush, TypeOK, ps, snap
<1>5. WalBufOK'
  <2>1. buf' \in [state : {"accepting", "error", "shutting"}, num : Nat,
                  rows : SUBSET Row, waiting : SUBSET Writes, opCount : Nat]
    BY InitialRecords DEF Flush, TypeOK, WalBufOK
  <2>2. periods' \subseteq Period /\ IsFiniteSet(periods')
    BY Zenon, <1>2 DEF Flush, ps
  <2>3. lastSnap' \in Nat /\ lock' \in Flushers \cup {NoOne}
    BY Zenon, <1>3 DEF Flush, TypeOK, WalBufOK, ps, snap
  <2> QED
    BY <2>1, <2>2, <2>3 DEF WalBufOK
<1>6. ProcessOK'
    BY DEF Flush, TypeOK, ProcessOK
<1> QED
    BY <1>4, <1>5, <1>6 DEF TypeOK, Flush, ClientsOK, StoreOK, MemoryOK, TaskOK,
       CleanupOK
\* The fields of a flush under way have their types.
LEMMA FlushJobTypes ==
    ASSUME flush \in [Flushers -> FlushJob], NEW f \in Flushers
    PROVE  /\ FlushedFile(f) \in WalFile
           /\ \A pc \in {"idle", "permit", "put", "failed", "notify"} :
                  [flush EXCEPT ![f].pc = pc] \in [Flushers -> FlushJob]
           /\ [flush EXCEPT ![f] = IdleFlush] \in [Flushers -> FlushJob]
<1>1. flush[f] \in FlushJob
    OBVIOUS
<1>2. FlushedFile(f) \in WalFile
    BY <1>1 DEF FlushedFile, FlushJob, WalFile
<1>3. ASSUME NEW pc \in {"idle", "permit", "put", "failed", "notify"}
      PROVE  [flush EXCEPT ![f].pc = pc] \in [Flushers -> FlushJob]
  <2>1. [flush[f] EXCEPT !.pc = pc] \in FlushJob
    BY SMTT(60), <1>1 DEF FlushJob
  <2> QED
    BY <2>1
<1> QED
    BY <1>2, <1>3, InitialRecords

\* Every step of flush_buffer keeps the types.
LEMMA FlushStepType ==
    ASSUME TypeOK, NEW f \in Flushers, FlushStep(f)
    PROVE  TypeOK'
<1> USE DEF TypeOK
<1>1. CASE FlushWrites(f)
  <2>1. Max({r.time : r \in buf.rows}) \in Int
    BY Zenon, <1>1, MaxRowTime DEF FlushWrites, WalBufOK
  <2> QED
    BY SMTT(60), <1>1, <2>1, FlushType DEF FlushWrites
<1>2. CASE AcquireSnapshotPermit(f)
  <2>1. flush' \in [Flushers -> FlushJob]
    BY Zenon, <1>2, FlushJobTypes DEF AcquireSnapshotPermit
  <2> QED
    BY Zenon, <1>2, <2>1 DEF AcquireSnapshotPermit, StoreOK, ClientsOK, WalBufOK,
       MemoryOK, TaskOK, CleanupOK, ProcessOK
<1>3. CASE PutOk(f)
  <2>1. StoreOK'
    <3>1. IsFiniteSet(wal')
      BY <1>3, FS_AddElement DEF PutOk, StoreOK
    <3> QED
      BY Zenon, <1>3, <3>1, FlushJobTypes DEF PutOk, StoreOK
  <2>2. flush' \in [Flushers -> FlushJob]
    BY Zenon, <1>3, FlushJobTypes DEF PutOk
  <2> QED
    BY <1>3, <2>1, <2>2 DEF PutOk, ClientsOK, WalBufOK, MemoryOK, TaskOK,
       CleanupOK, ProcessOK
<1>4. CASE PutExists(f)
  <2>1. flush' \in [Flushers -> FlushJob]
    BY <1>4, InitialRecords DEF PutExists
  <2>2. ProcessOK'
    BY <1>4 DEF PutExists, ReleasePermit, ProcessOK
  <2> QED
    BY <1>4, <2>1, <2>2 DEF PutExists, Answer, StoreOK, ClientsOK, WalBufOK,
       MemoryOK, TaskOK, CleanupOK
<1>5. CASE PutGiveUp(f)
  <2>1. StoreOK'
    <3>1. IsFiniteSet(wal \cup {FlushedFile(f)})
      BY FS_AddElement DEF StoreOK
    <3>2. wal' = wal \/ wal' = wal \cup {FlushedFile(f)}
      BY <1>5 DEF PutGiveUp
    <3> QED
      BY Zenon, <1>5, <3>1, <3>2, FlushJobTypes DEF PutGiveUp, StoreOK
  <2>3. flush' \in [Flushers -> FlushJob]
    BY Zenon, <1>5, FlushJobTypes DEF PutGiveUp
  <2>2. ClientsOK'
    BY <1>5 DEF PutGiveUp, Answer, ClientsOK
  <2> QED
    BY <1>5, <2>1, <2>2, <2>3 DEF PutGiveUp, WalBufOK, MemoryOK, TaskOK,
       CleanupOK, ProcessOK
<1>6. CASE FlushBufferWithFailure(f)
  <2>1. flush' \in [Flushers -> FlushJob]
    BY <1>6, InitialRecords DEF FlushBufferWithFailure
  <2>2. ProcessOK'
    BY <1>6 DEF FlushBufferWithFailure, ReleasePermit, ProcessOK
  <2>3. WalBufOK'
    <3>1. buf.num + 1 \in Nat /\ buf.state \in {"accepting", "error", "shutting"}
      BY SMTT(60) DEF WalBufOK
    <3> QED
      BY ZenonT(60), <1>6, <3>1, InitialRecords DEF FlushBufferWithFailure, WalBufOK
  <2> QED
    BY SMTT(60), <1>6, <2>1, <2>2, <2>3 DEF FlushBufferWithFailure, Answer, StoreOK,
       ClientsOK, MemoryOK, TaskOK, CleanupOK
<1>7. CASE Notify(f)
  <2>1. flush[f].rows \in SUBSET Row /\ flush[f].snap \in Details
    BY DEF FlushJob
  <2>2. flush' \in [Flushers -> FlushJob]
    BY <1>7, InitialRecords DEF Notify
  <2>3. SnapshotRows(qbuf \cup flush[f].rows, flush[f].snap) \subseteq Row
    BY SMTT(60), <2>1, RowTypes DEF MemoryOK
  <2>4. MemoryOK'
    BY SMTT(60), <1>7, <2>1, <2>3 DEF Notify, BufferContents, MemoryOK
  <2>5. TaskOK'
    BY Zenon, <1>7, <2>1, <2>3 DEF Notify, StartTask, TaskOK
  <2> QED
    BY <1>7, <2>2, <2>4, <2>5 DEF Notify, Answer, StoreOK, ClientsOK, WalBufOK,
       CleanupOK, ProcessOK
<1> QED
    BY SMTT(60), <1>1, <1>2, <1>3, <1>4, <1>5, <1>6, <1>7 DEF FlushStep

\* Every step of the snapshot task and its cleanup keeps the types.
LEMMA TaskStepType ==
    ASSUME TypeOK, TaskStep
    PROVE  TypeOK'
<1> USE DEF TypeOK
<1>1. ASSUME NEW c, PersistChunk(c)
      PROVE  TypeOK'
  <2> DEFINE chunk == {r \in task.jobs : ChunkTime(r.time) = c}
  <2>1. chunk \subseteq Row
    BY SMTT(60) DEF TaskOK
  <2> HIDE DEF chunk
  <2>2. TaskOK' /\ MemoryOK'
    BY Zenon, <1>1, <2>1 DEF PersistChunk, TaskOK, MemoryOK, chunk
  <2> QED
    BY <1>1, <2>2 DEF PersistChunk, StoreOK, ClientsOK, WalBufOK, CleanupOK,
       ProcessOK
<1>2. CASE PersistSnapshot
  <2> DEFINE new == [seq |-> task.det.seq, last |-> task.det.last,
                     rows |-> task.done]
  <2>1. new \in Manifest
    BY DEF TaskOK, Details, Manifest
  <2>2. IsFiniteSet({m \in manifests : m.seq # task.det.seq})
    BY FS_Subset DEF StoreOK
  <2>3. IsFiniteSet({m \in manifests : m.seq # task.det.seq} \cup {new})
    BY <2>2, FS_AddElement
  <2> HIDE DEF new
  <2>4. StoreOK'
    BY <1>2, <2>1, <2>3 DEF PersistSnapshot, StoreOK, new
  <2>5. TaskOK'
    BY <1>2, InitialRecords DEF PersistSnapshot, TaskOK
  <2> QED
    BY <1>2, <2>4, <2>5 DEF PersistSnapshot, ClientsOK, WalBufOK, MemoryOK,
       CleanupOK, ProcessOK
<1>3. CASE BeginCleanup
  <2>1. task.info.last \in Nat
    BY DEF TaskOK, Details
  <2>2. CleanupOK'
    BY <1>3, <2>1, WriterAssumption DEF BeginCleanup, CleanupOK, HasFilesToDelete, LastToDelete
  <2>3. TaskOK'
    BY <1>3, InitialRecords DEF BeginCleanup, TaskOK
  <2>4. ProcessOK'
    BY ZenonT(60), <1>3 DEF BeginCleanup, ProcessOK
  <2> QED
    BY <1>3, <2>2, <2>3, <2>4 DEF BeginCleanup, StoreOK, ClientsOK, WalBufOK, MemoryOK
<1>4. CASE DeleteWalFile
  <2>1. wal' \subseteq wal
    BY <1>4 DEF DeleteWalFile
  <2>2. StoreOK'
    BY <1>4, <2>1, FS_Subset DEF DeleteWalFile, StoreOK
  <2>3. CleanupOK'
    BY <1>4 DEF DeleteWalFile, CleanupOK
  <2> QED
    BY <1>4, <2>2, <2>3 DEF DeleteWalFile, ClientsOK, WalBufOK, MemoryOK, TaskOK,
       ProcessOK
<1>5. CASE FinishCleanup
    BY <1>5, InitialRecords DEF FinishCleanup, StoreOK, ClientsOK, WalBufOK,
       MemoryOK, TaskOK, CleanupOK, ProcessOK
<1> QED
    BY <1>1, <1>2, <1>3, <1>4, <1>5 DEF TaskStep

\* Losing the memory of the process keeps the types.
LEMMA DownType ==
    ASSUME TypeOK, Down, limbo' \subseteq WalFile, crashes' \in Nat
    PROVE  TypeOK'
<1> USE DEF TypeOK
<1>1. WalBufOK'
  <2>1. IsFiniteSet(periods')
    BY FS_EmptySet DEF Down
  <2> QED
    BY Zenon, <2>1, InitialRecords DEF Down, WalBufOK
<1>2. flush' \in [Flushers -> FlushJob]
    BY InitialRecords DEF Down
<1>3. TaskOK'
    BY ZenonT(60), InitialRecords DEF Down, TaskOK
<1>4. StoreOK' /\ ClientsOK'
    BY DEF Down, Answer, StoreOK, ClientsOK
<1>5. ProcessOK' /\ CleanupOK' /\ MemoryOK'
    BY DEF Down, ProcessOK, CleanupOK, MemoryOK
<1> QED
    BY <1>1, <1>2, <1>3, <1>4, <1>5

\* Shutdown, crash and a late put keep the types.
LEMMA ProcessStepType ==
    ASSUME TypeOK, AskStop \/ ShutdownWal \/ Exit \/ Crash \/ LatePutLands
    PROVE  TypeOK'
<1> USE DEF TypeOK
<1>1. CASE AskStop
    BY <1>1 DEF AskStop, StoreOK, ClientsOK, WalBufOK, MemoryOK, TaskOK,
       CleanupOK, ProcessOK
<1>2. CASE ShutdownWal
    BY SMTT(60), <1>2 DEF ShutdownWal, StoreOK, ClientsOK, WalBufOK, MemoryOK, TaskOK,
       CleanupOK, ProcessOK
<1>3. CASE Exit
    BY <1>3, DownType DEF Exit, StoreOK, ProcessOK
<1>4. CASE Crash
  <2>1. InFlightPuts \subseteq WalFile
    BY Zenon, FlushJobTypes DEF InFlightPuts
  <2>2. limbo' \subseteq WalFile
    BY SMTT(60), <1>4, <2>1 DEF Crash, StoreOK
  <2> QED
    BY <1>4, <2>2, DownType DEF Crash, ProcessOK
<1>5. CASE LatePutLands
  <2>1. PICK f \in limbo :
            /\ limbo' = limbo \ {f}
            /\ wal' = IF f.num \in WalNums THEN wal ELSE wal \cup {f}
            /\ UNCHANGED <<manifests, clients, mode, stop, walbuf, permit, flush,
                           memory, task, cleanup, replay, bounds>>
    BY <1>5 DEF LatePutLands
  <2>2. IsFiniteSet(wal \cup {f})
    BY FS_AddElement DEF StoreOK
  <2>3. StoreOK'
    BY SMTT(60), <2>1, <2>2 DEF StoreOK
  <2> QED
    BY SMTT(60), <2>1, <2>3 DEF ClientsOK, WalBufOK, MemoryOK, TaskOK, CleanupOK, ProcessOK
<1> QED
    BY SMTT(60), <1>1, <1>2, <1>3, <1>4, <1>5

\* Reading the manifests and listing the WAL files keeps the types.
LEMMA RestartType ==
    ASSUME TypeOK, Restart
    PROVE  TypeOK'
<1> USE DEF TypeOK
<1>1. /\ NewestSeq \in Nat /\ NewestLast \in Nat /\ ManifestRows \subseteq Row
      /\ WalNums \subseteq Nat /\ IsFiniteSet(WalNums)
    BY NewestTypes
<1>2. OldestWalFile \in Nat
  <2>1. wal # {} => WalNums # {}
    BY DEF WalNums
  <2>2. WalNums # {} => Min(WalNums) \in WalNums
    BY SMTT(60), <1>1, MinSmallest
  <2> QED
    BY Zenon, <1>1, <2>1, <2>2 DEF OldestWalFile
<1>3. CleanupOK'
    BY <1>1, <1>2 DEF Restart, CleanupOK
<1>4. WalBufOK'
  <2>1. NewestLast + 1 \in Nat
    BY <1>1
  <2> QED
    BY Zenon, <1>1, <2>1, InitialRecords DEF Restart, WalBufOK
<1>5. ProcessOK'
    BY ZenonT(60), <1>1 DEF Restart, ProcessOK, FilesToReplay
<1>6. MemoryOK'
    BY <1>1 DEF Restart, MemoryOK
<1> QED
    BY <1>3, <1>4, <1>5, <1>6 DEF Restart, StoreOK, ClientsOK, TaskOK

\* Replaying one WAL file keeps the types.
LEMMA ReplayFileType ==
    ASSUME TypeOK, ReplayFile
    PROVE  TypeOK'
<1> USE DEF TypeOK
<1>1. PICK f \in wal :
        LET ps   == periods \cup {[num |-> f.num, max |-> f.max]}
            info == IF f.snap = NoSnap THEN NoSnap
                    ELSE TrackerSnapshot(ps, f.snap.forced, lastSnap)
            det  == IF AlreadyTaken(f) THEN NoSnap ELSE f.snap
        IN  /\ replay' = [replay EXCEPT !.todo = @ \ {f.num}]
            /\ buf' = [buf EXCEPT !.num = f.num + 1]
            /\ periods' = IF info = NoSnap THEN ps
                          ELSE ps \ Drained(ps, f.snap.forced)
            /\ lastSnap' = IF info = NoSnap THEN lastSnap ELSE info.seq
            /\ permit' = (info = NoSnap)
            /\ BufferContents(f.rows, det)
            /\ task' = CASE det # NoSnap -> StartTask(f.rows, det, info)
                         [] det = NoSnap /\ info # NoSnap ->
                                [IdleTask EXCEPT !.pc = "cleanup",
                                                 !.info = info]
                         [] OTHER -> IdleTask
    BY Zenon DEF ReplayFile
<1> DEFINE ps   == periods \cup {[num |-> f.num, max |-> f.max]}
           info == IF f.snap = NoSnap THEN NoSnap
                   ELSE TrackerSnapshot(ps, f.snap.forced, lastSnap)
           det  == IF AlreadyTaken(f) THEN NoSnap ELSE f.snap
<1>2. /\ f.num \in Nat /\ f.rows \in SUBSET Row /\ f.max \in Int
      /\ f.snap \in Details /\ f.snap.forced \in BOOLEAN
    BY DEF StoreOK, WalFile, Details
<1>3. ps \in SUBSET Period
    BY SMTT(60), <1>2 DEF WalBufOK, Period
<1>4. IsFiniteSet(ps)
  <2>1. IsFiniteSet(periods)
    BY DEF WalBufOK
  <2> HIDE DEF TypeOK
  <2> QED
    BY Zenon, <2>1, FS_AddElement
<1>5. /\ TrackerSnapshot(ps, f.snap.forced, lastSnap) \in Details
      /\ ps \ Drained(ps, f.snap.forced) \subseteq Period
      /\ IsFiniteSet(ps \ Drained(ps, f.snap.forced))
    BY ZenonT(60), <1>2, <1>3, <1>4, TrackerTypes DEF WalBufOK
<1>6. info \in Details /\ det \in Details /\ info.seq \in Nat
    BY SMTT(60), <1>2, <1>5, InitialRecords DEF Details
<1>7. SnapshotRows(qbuf \cup f.rows, det) \subseteq Row
    BY <1>2, RowTypes DEF MemoryOK
<1>8. /\ replay' = [replay EXCEPT !.todo = @ \ {f.num}]
      /\ buf' = [buf EXCEPT !.num = f.num + 1]
      /\ periods' = IF info = NoSnap THEN ps ELSE ps \ Drained(ps, f.snap.forced)
      /\ lastSnap' = IF info = NoSnap THEN lastSnap ELSE info.seq
      /\ permit' = (info = NoSnap)
      /\ BufferContents(f.rows, det)
      /\ task' = CASE det # NoSnap -> StartTask(f.rows, det, info)
                   [] det = NoSnap /\ info # NoSnap ->
                          [IdleTask EXCEPT !.pc = "cleanup", !.info = info]
                   [] OTHER -> IdleTask
    BY <1>1
<1>9. UNCHANGED <<store, clients, mode, stop, lock, flush, files, cleanup, bounds>>
    BY DEF ReplayFile
<1> HIDE DEF ps, info, det
<1>10. WalBufOK'
  <2>1. periods' \subseteq Period /\ IsFiniteSet(periods')
    BY <1>3, <1>4, <1>5, <1>8
  <2> QED
    BY SMTT(60), <1>2, <1>6, <1>8, <1>9, <2>1 DEF WalBufOK
<1>11. MemoryOK'
    BY SMTT(60), <1>2, <1>7, <1>8, <1>9 DEF BufferContents, MemoryOK
<1>12. TaskOK'
  <2>1. StartTask(f.rows, det, info) \in
            [pc : {"idle", "persist", "cleanup", "delete"}, det : Details,
             info : Details, jobs : SUBSET Row, done : SUBSET Row]
    BY Zenon, <1>6, <1>7 DEF StartTask
  <2>2. [IdleTask EXCEPT !.pc = "cleanup", !.info = info] \in
            [pc : {"idle", "persist", "cleanup", "delete"}, det : Details,
             info : Details, jobs : SUBSET Row, done : SUBSET Row]
    BY Zenon, <1>6, InitialRecords DEF IdleTask
  <2> QED
    BY SMTT(60), <1>8, <2>1, <2>2, InitialRecords DEF TaskOK
<1>13. ProcessOK'
    BY <1>8, <1>9 DEF ProcessOK
<1> QED
    BY <1>9, <1>10, <1>11, <1>12, <1>13 DEF StoreOK, ClientsOK, CleanupOK

\* Every reachable state is well typed: no file number, snapshot number or
\* deletion range of the write path leaves its type, whatever crashes, fails
\* or is forced (WalObjectStore, SnapshotTracker, WalFileRemover).
THEOREM TypeCorrect == Spec => []TypeOK
<1>1. Init => TypeOK
  <2> SUFFICES ASSUME Init PROVE TypeOK
    BY SMTT(60)
  <2>0. IsFiniteSet(wal) /\ IsFiniteSet(manifests) /\ IsFiniteSet(periods)
    BY SMTT(60), FS_EmptySet DEF Init
  <2>1. WalBufOK /\ StoreOK
    BY Zenon, <2>0, InitialRecords DEF Init, WalBufOK, StoreOK
  <2>2. TaskOK /\ flush \in [Flushers -> FlushJob]
    BY Zenon, InitialRecords DEF Init, TaskOK
  <2> QED
    BY Zenon, <2>1, <2>2 DEF Init, TypeOK, ClientsOK, MemoryOK, CleanupOK, ProcessOK
<1>2. TypeOK /\ [Next]_vars => TypeOK'
  <2> SUFFICES ASSUME TypeOK, [Next]_vars PROVE TypeOK'
    OBVIOUS
  <2>1. CASE Request
    BY <2>1, RequestType
  <2>2. CASE \E f \in Flushers : FlushStep(f)
    BY <2>2, FlushStepType
  <2>3. CASE \E now \in NoopTimes : FlushNoop(now)
    <3>1. PICK now \in NoopTimes : FlushNoop(now)
      BY <2>3
    <3>2. now + 1 \in Int /\ "mem" \in Flushers
      BY <3>1, WriterAssumption DEF FlushNoop
    <3> QED
      BY <3>1, <3>2, FlushType DEF FlushNoop
  <2>4. CASE TaskStep
    BY <2>4, TaskStepType
  <2>5. CASE AskStop \/ ShutdownWal \/ Exit \/ Crash \/ LatePutLands
    BY <2>5, ProcessStepType
  <2>6. CASE Startup
    <3>1. CASE Serve
      BY SMTT(60), <3>1 DEF Serve, TypeOK, StoreOK, ClientsOK, WalBufOK, MemoryOK, TaskOK,
         CleanupOK, ProcessOK
    <3> QED
      BY SMTT(60), <2>6, <3>1, RestartType, ReplayFileType DEF Startup
  <2>7. CASE UNCHANGED vars
    BY <2>7 DEF vars, TypeOK, StoreOK, ClientsOK, WalBufOK, MemoryOK, TaskOK,
       CleanupOK, ProcessOK
  <2> QED
    BY <2>1, <2>2, <2>3, <2>4, <2>5, <2>6, <2>7 DEF Next
<1> QED
    BY <1>1, <1>2, PTL DEF Spec

-----------------------------------------------------------------------------
(* The snapshot permit *)

Held(f) == flush[f].snap # NoSnap /\ flush[f].pc \in {"put", "failed", "notify"}

\* OneSnapshot holder by holder, and what it needs to be inductive: a flush
\* waits for the permit only for a snapshot, the cleanup runs only with the
\* permit, and no flush is under way while the process is down or replaying.
PermitInv ==
    /\ permit <=> (task.info = NoSnap /\ \A f \in Flushers : ~Held(f))
    /\ \A f \in Flushers : Held(f) => task.info = NoSnap
    /\ \A f, g \in Flushers : Held(f) /\ Held(g) => f = g
    /\ \A f \in Flushers : flush[f].pc = "permit" => flush[f].snap # NoSnap
    /\ task.pc \in {"cleanup", "delete"} => task.info # NoSnap
    /\ mode # "up" => \A f \in Flushers : flush[f].pc = "idle"

\* The holder-by-holder form gives the property the runs check.
LEMMA PermitInvMeans ==
    ASSUME TypeOK, PermitInv
    PROVE  OneSnapshot
<1>1. \A h : h \in PermitHolders <=> \/ h \in Flushers /\ Held(h)
                                     \/ h = "task" /\ task.info # NoSnap
    BY SMTT(60) DEF PermitHolders, Held
<1>2. CASE permit
    BY <1>1, <1>2 DEF OneSnapshot, PermitInv
<1>3. CASE ~permit /\ task.info # NoSnap
  <2>1. PermitHolders = {"task"}
    BY <1>1, <1>3 DEF PermitInv
  <2> QED
    BY <1>3, <2>1 DEF OneSnapshot
<1>4. CASE ~permit /\ task.info = NoSnap
  <2>1. PICK f \in Flushers : Held(f)
    BY <1>4 DEF PermitInv
  <2>2. PermitHolders = {f}
    BY SMTT(60), <1>1, <1>4, <2>1 DEF PermitInv
  <2> QED
    BY <1>4, <2>2 DEF OneSnapshot
<1> QED
    BY SMTT(60), <1>2, <1>3, <1>4 DEF TypeOK, ProcessOK

\* A step that leaves the permit, the flushes, the task and the mode alone.
LEMMA PermitFrame ==
    ASSUME PermitInv, UNCHANGED <<permit, flush, task, mode>>
    PROVE  PermitInv'
BY SMTT(60) DEF PermitInv, Held

\* A flush takes no permit with it when it starts: it has none, or waits.
LEMMA FlushPermit ==
    ASSUME TypeOK, PermitInv, NEW f \in Flushers, NEW max, Flush(f, max)
    PROVE  PermitInv'
<1> DEFINE snap == TrackerSnapshot(periods \cup {[num |-> buf.num, max |-> max]},
                                  f = "mem", lastSnap)
           job == [pc |-> IF snap = NoSnap THEN "put" ELSE "permit",
                   num |-> buf.num, rows |-> buf.rows, max |-> max,
                   snap |-> snap, waiting |-> buf.waiting]
<1>0. flush' = [flush EXCEPT ![f] = job]
    BY SMTT(60) DEF Flush
<1> HIDE DEF snap
<1>1. /\ flush' = [flush EXCEPT ![f] = job]
      /\ job.pc = (IF job.snap = NoSnap THEN "put" ELSE "permit")
    BY <1>0
<1> HIDE DEF job
<1>2. flush[f].pc = "idle" /\ mode = "up" /\ UNCHANGED <<permit, task, mode>>
    BY DEF Flush
<1>3. flush'[f] = job /\ \A g \in Flushers \ {f} : flush'[g] = flush[g]
    BY <1>1 DEF TypeOK
<1>4. ~Held(f) /\ ~Held(f)' /\ \A g \in Flushers \ {f} : Held(g)' = Held(g)
    BY <1>1, <1>2, <1>3 DEF Held
<1> QED
    BY <1>1, <1>2, <1>3, <1>4 DEF PermitInv

\* The permit through one flush: taken with the wait, kept by the put, given
\* back by both failures, handed over by the notification.
LEMMA FlushStepPermit ==
    ASSUME TypeOK, PermitInv, NEW f \in Flushers, FlushStep(f)
    PROVE  PermitInv'
<1>0. flush \in [Flushers -> FlushJob] /\ permit \in BOOLEAN
    BY SMTT(60) DEF TypeOK, ProcessOK
<1>m. flush[f].pc # "idle" => mode = "up"
    BY DEF PermitInv
<1>i. IdleFlush.pc = "idle" /\ IdleFlush.snap = NoSnap
    BY DEF IdleFlush
<1>1. CASE FlushWrites(f)
    BY SMTT(60), <1>1, FlushPermit DEF FlushWrites
<1>2. CASE AcquireSnapshotPermit(f)
  <2>1. /\ flush'[f].pc = "put" /\ flush'[f].snap = flush[f].snap
        /\ \A g \in Flushers \ {f} : flush'[g] = flush[g]
    BY <1>0, <1>2 DEF AcquireSnapshotPermit, FlushJob
  <2>2. /\ permit /\ permit' = FALSE /\ UNCHANGED <<task, mode>>
        /\ flush[f].pc = "permit" /\ flush[f].snap # NoSnap
    BY SMTT(60), <1>2 DEF AcquireSnapshotPermit, PermitInv
  <2>3. Held(f)' /\ \A g \in Flushers \ {f} : Held(g)' = Held(g)
    BY SMTT(60), <2>1, <2>2 DEF Held
  <2> QED
    BY <1>m, <2>1, <2>2, <2>3 DEF PermitInv
<1>3. CASE PutOk(f) \/ PutGiveUp(f)
  <2>1. /\ flush'[f].pc \in {"notify", "failed"} /\ flush'[f].snap = flush[f].snap
        /\ \A g \in Flushers \ {f} : flush'[g] = flush[g]
    BY <1>0, <1>3 DEF PutOk, PutGiveUp, FlushJob
  <2>2. flush[f].pc = "put" /\ UNCHANGED <<permit, task, mode>>
    BY SMTT(60), <1>3 DEF PutOk, PutGiveUp
  <2>3. \A g \in Flushers : Held(g)' = Held(g)
    BY SMTT(60), <2>1, <2>2 DEF Held
  <2> QED
    BY <1>m, <2>1, <2>2, <2>3 DEF PermitInv
<1>4. CASE PutExists(f) \/ FlushBufferWithFailure(f)
  <2>1. /\ flush'[f] = IdleFlush
        /\ \A g \in Flushers \ {f} : flush'[g] = flush[g]
    BY <1>0, <1>4 DEF PutExists, FlushBufferWithFailure
  <2>2. /\ flush[f].pc \in {"put", "failed"} /\ UNCHANGED <<task, mode>>
        /\ permit' = (permit \/ flush[f].snap # NoSnap)
    BY SMTT(60), <1>4 DEF PutExists, FlushBufferWithFailure, ReleasePermit
  <2>3. /\ ~Held(f)' /\ \A g \in Flushers \ {f} : Held(g)' = Held(g)
        /\ Held(f) <=> flush[f].snap # NoSnap
    BY SMTT(60), <1>i, <2>1, <2>2 DEF Held
  <2> QED
    BY ZenonT(60), <1>0, <1>i, <1>m, <2>1, <2>2, <2>3 DEF PermitInv
<1>5. CASE Notify(f)
  <2>1. /\ flush'[f] = IdleFlush
        /\ \A g \in Flushers \ {f} : flush'[g] = flush[g]
    BY SMTT(60), <1>0, <1>5 DEF Notify
  <2>2. flush[f].pc = "notify" /\ UNCHANGED <<permit, mode>>
    BY SMTT(60), <1>5 DEF Notify
  <2>3. /\ ~Held(f)' /\ \A g \in Flushers \ {f} : Held(g)' = Held(g)
        /\ Held(f) <=> flush[f].snap # NoSnap
    BY SMTT(60), <1>i, <2>1, <2>2 DEF Held
  <2>4. IF flush[f].snap = NoSnap THEN task' = task
        ELSE task'.info = flush[f].snap /\ task'.pc = "persist"
    BY Zenon, <1>5 DEF Notify, StartTask
  <2> QED
    BY SMTT(60), <1>0, <1>i, <1>m, <2>1, <2>2, <2>3, <2>4 DEF PermitInv
<1> QED
    BY SMTT(60), <1>1, <1>2, <1>3, <1>4, <1>5 DEF FlushStep

\* The snapshot task keeps the permit until its cleanup is over.
LEMMA TaskStepPermit ==
    ASSUME TypeOK, PermitInv, TaskStep
    PROVE  PermitInv'
<1>0. \A f : flush' = flush => Held(f)' = Held(f)
    BY DEF Held
<1>i. IdleTask.pc = "idle" /\ IdleTask.info = NoSnap
    BY DEF IdleTask
<1>1. ASSUME NEW c, PersistChunk(c) PROVE PermitInv'
  <2>1. task'.pc = task.pc /\ task'.info = task.info
    BY <1>1 DEF PersistChunk, TypeOK, TaskOK
  <2> QED
    BY <1>0, <1>1, <2>1 DEF PersistChunk, PermitInv
<1>2. CASE PersistSnapshot
  <2>1. /\ task'.info = task.info
        /\ task'.pc \in {"cleanup", "delete"} => task.info # NoSnap
    BY <1>2, <1>i DEF PersistSnapshot, TypeOK, TaskOK
  <2> QED
    BY <1>0, <1>2, <2>1 DEF PersistSnapshot, PermitInv
<1>3. CASE BeginCleanup
  <2>1. CASE HasFilesToDelete
    <3>1. task'.info = task.info /\ UNCHANGED permit
      BY <1>3, <2>1 DEF BeginCleanup, TypeOK, TaskOK
    <3> QED
      BY <1>0, <1>3, <3>1 DEF BeginCleanup, PermitInv
  <2>2. CASE ~HasFilesToDelete
    BY <1>0, <1>i, <1>3, <2>2 DEF BeginCleanup, PermitInv
  <2> QED
    BY <2>1, <2>2
<1>4. CASE DeleteWalFile
    BY <1>4, PermitFrame DEF DeleteWalFile
<1>5. CASE FinishCleanup
    BY <1>0, <1>i, <1>5 DEF FinishCleanup, PermitInv
<1> QED
    BY SMTT(60), <1>1, <1>2, <1>3, <1>4, <1>5 DEF TaskStep

\* The snapshot permit is neither lost nor duplicated, whatever fails, crashes
\* or is forced: one snapshot at a time, and the next one can always start
\* (acquire_snapshot_permit, the failure paths of flush_buffer, replay).
THEOREM SnapshotsExclusive == Spec => []OneSnapshot
<1>1. Init => PermitInv
    BY DEF Init, PermitInv, Held, IdleFlush, IdleTask
<1>2. TypeOK /\ PermitInv /\ [Next]_vars => PermitInv'
  <2> SUFFICES ASSUME TypeOK, PermitInv, [Next]_vars PROVE PermitInv'
    BY SMTT(60)
  <2>1. CASE Request \/ AskStop \/ ShutdownWal \/ LatePutLands
    BY Zenon, <2>1, PermitFrame DEF Request, WriteOps, WriteOpsUnconfirmed,
       WriteRejected, AskStop, ShutdownWal, LatePutLands
  <2>2. CASE \E f \in Flushers : FlushStep(f)
    BY SMTT(60), <2>2, FlushStepPermit
  <2>3. CASE \E now \in NoopTimes : FlushNoop(now)
    BY <2>3, FlushPermit DEF FlushNoop
  <2>4. CASE TaskStep
    BY SMTT(60), <2>4, TaskStepPermit
  <2>5. CASE Exit \/ Crash
    <3>1. /\ permit' = TRUE /\ task' = IdleTask
          /\ flush' = [f \in Flushers |-> IdleFlush]
      BY Zenon, <2>5 DEF Exit, Crash, Down
    <3>2. task'.info = NoSnap /\ task'.pc = "idle"
      BY SMTT(60), <3>1 DEF IdleTask
    <3>3. \A f \in Flushers : flush'[f].pc = "idle" /\ flush'[f].snap = NoSnap
      BY SMTT(60), <3>1 DEF IdleFlush
    <3> QED
      BY <3>1, <3>2, <3>3 DEF PermitInv, Held
  <2>6. CASE Restart
    BY <2>6 DEF Restart, PermitInv, Held
  <2>7. CASE ReplayFile
    <3>1. PICK info : permit' = (info = NoSnap) /\ task'.info = info
                      /\ (task'.pc = "cleanup" => info # NoSnap)
                      /\ task'.pc # "delete"
      BY <2>7 DEF ReplayFile, StartTask, IdleTask
    <3>2. mode = "replay" /\ UNCHANGED <<mode, flush>>
      BY SMTT(60), <2>7 DEF ReplayFile
    <3> QED
      BY ZenonT(60), <3>1, <3>2 DEF PermitInv, Held
  <2>8. CASE Serve
    BY SMTT(60), <2>8 DEF Serve, PermitInv, Held
  <2>9. CASE UNCHANGED vars
    BY <2>9, PermitFrame DEF vars
  <2> QED
    BY SMTT(60), <2>1, <2>2, <2>3, <2>4, <2>5, <2>6, <2>7, <2>8, <2>9 DEF Next, Startup
<1> QED
    BY <1>1, <1>2, TypeCorrect, PermitInvMeans, PTL DEF Spec

=============================================================================
