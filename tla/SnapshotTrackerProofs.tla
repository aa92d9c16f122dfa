----------------------- MODULE SnapshotTrackerProofs ------------------------
(***************************************************************************)
(* What the snapshot tracker guarantees for any history of WAL files: the  *)
(* facts about SnapshotTracker that the proofs about the write path use.   *)
(***************************************************************************)
EXTENDS SnapshotTracker, FiniteSetTheorems, TLAPS

\* A finite nonempty set of integers has a largest element.
LEMMA MaxExists ==
    ASSUME NEW S \in SUBSET Int, IsFiniteSet(S), S # {}
    PROVE  \E x \in S : \A y \in S : x >= y
<1> DEFINE Bad == {T \in FiniteSubsetsOf(Int) :
                      T # {} /\ ~ \E x \in T : \A y \in T : x >= y}
<1>1. SUFFICES ASSUME Bad # {} PROVE FALSE
    BY DEF FiniteSubsetsOf
<1>2. Bad \subseteq FiniteSubsetsOf(Int)
    OBVIOUS
<1>3. PICK T \in Bad :
          \A U \in Bad : ~ (<<U, T>> \in StrictSubsetOrdering(Int))
    BY <1>1, <1>2, WFMin, FS_StrictSubsetOrderingWellFounded
<1>4. T \subseteq Int /\ IsFiniteSet(T) /\ T # {}
    BY DEF FiniteSubsetsOf
<1>5. PICK x \in T : TRUE
    BY <1>4
<1> DEFINE U == T \ {x}
<1>6. IsFiniteSet(U) /\ U \subseteq Int
    BY <1>4, FS_RemoveElement
<1>7. U \notin Bad
    BY <1>3, <1>4, <1>5, <1>6 DEF StrictSubsetOrdering
<1>8. U = {} \/ \E m \in U : \A y \in U : m >= y
    BY <1>6, <1>7 DEF FiniteSubsetsOf
<1>9. \E m \in T : \A y \in T : m >= y
  <2>1. CASE U = {}
    BY <2>1, <1>4, <1>5
  <2>2. CASE \E m \in U : \A y \in U : m >= y
    BY <2>2, <1>4, <1>5
  <2> QED
    BY <2>1, <2>2, <1>8
<1> QED
    BY <1>9

\* Max returns the largest element of a finite nonempty set of integers.
LEMMA MaxLargest ==
    ASSUME NEW S \in SUBSET Int, IsFiniteSet(S), S # {}
    PROVE  Max(S) \in S /\ \A y \in S : y <= Max(S)
<1>1. PICK x \in S : \A y \in S : x >= y
    BY MaxExists
<1>2. Max(S) \in S /\ \A y \in S : Max(S) >= y
    BY <1>1 DEF Max
<1> QED
    BY <1>2

\* The image of a finite set of records under the selection of a field.
LEMMA NumsFinite ==
    ASSUME NEW S, IsFiniteSet(S)
    PROVE  /\ IsFiniteSet({x.num : x \in S})
           /\ IsFiniteSet({x.seq : x \in S})
           /\ IsFiniteSet({x.max : x \in S})
<1>1. [x \in S |-> x.num] \in Surjection(S, {x.num : x \in S})
    BY DEF Surjection
<1>2. [x \in S |-> x.seq] \in Surjection(S, {x.seq : x \in S})
    BY DEF Surjection
<1>3. [x \in S |-> x.max] \in Surjection(S, {x.max : x \in S})
    BY DEF Surjection
<1> QED
    BY <1>1, <1>2, <1>3, FS_Surjection

\* Min returns the smallest element of a finite nonempty set of integers.
LEMMA MinSmallest ==
    ASSUME NEW S \in SUBSET Int, IsFiniteSet(S), S # {}
    PROVE  Min(S) \in S /\ \A y \in S : Min(S) <= y
<1> DEFINE T == {-x : x \in S}
<1>1. [x \in S |-> -x] \in Surjection(S, T)
    BY DEF Surjection
<1>2. T \in SUBSET Int /\ IsFiniteSet(T) /\ T # {}
    BY <1>1, FS_Surjection
<1>3. PICK m \in T : \A y \in T : m >= y
    BY <1>2, MaxExists
<1>4. PICK x \in S : m = -x
    BY <1>3
<1>5. \A y \in S : x <= y
    BY <1>3, <1>4
<1>6. Min(S) \in S /\ \A y \in S : Min(S) =< y
    BY <1>4, <1>5 DEF Min
<1> QED
    BY <1>6

-----------------------------------------------------------------------------
(* The snapshot tracker *)

\* A chunk starts at or before the timestamps it holds, by less than Gen1.
LEMMA ChunkTimeBounds ==
    ASSUME NEW t \in Int
    PROVE  /\ ChunkTime(t) \in Int
           /\ t >= 0 => ChunkTime(t) <= t /\ t < ChunkTime(t) + Gen1
<1>1. \A n \in Nat : n % Gen1 \in Int /\ 0 <= n % Gen1 /\ n % Gen1 < Gen1
    BY Gen1Assumption
<1> QED
    BY <1>1, Gen1Assumption DEF ChunkTime, RustRem

\* LastPeriod is the period of the newest file.
LEMMA LastPeriodIsLast ==
    ASSUME NEW ps \in SUBSET Period, IsFiniteSet(ps), ps # {}
    PROVE  LastPeriod(ps) \in ps /\ \A q \in ps : q.num <= LastPeriod(ps).num
<1> DEFINE N == {p.num : p \in ps}
<1>1. IsFiniteSet(N)
    BY NumsFinite
<1>0. N \in SUBSET Int /\ N # {}
    BY DEF Period
<1>2. PICK n \in N : \A m \in N : n >= m
    BY <1>1, <1>0, MaxExists
<1>3. \E p \in ps : \A q \in ps : q.num <= p.num
    BY <1>2 DEF Period
<1> QED
    BY <1>3 DEF LastPeriod

\* The tracker hands over some of its periods, and its details are well typed.
LEMMA TrackerTypes ==
    ASSUME NEW ps \in SUBSET Period, IsFiniteSet(ps),
           NEW force \in BOOLEAN, NEW prev \in Nat
    PROVE  /\ Drained(ps, force) \subseteq ps
           /\ IsFiniteSet(ps \ Drained(ps, force))
           /\ TrackerSnapshot(ps, force, prev) \in Details
           /\ TrackerSnapshot(ps, force, prev) # NoSnap
              => TrackerSnapshot(ps, force, prev).seq = prev + 1
<1>1. Drained(ps, force) \subseteq ps
    BY DEF Drained, InOrderPeriods
<1>2. IsFiniteSet(ps \ Drained(ps, force)) /\ IsFiniteSet(Drained(ps, force))
    BY <1>1, FS_Subset
<1>3. NoSnap \in Details
    BY DEF NoSnap, Details
<1>4. ASSUME Drained(ps, force) # {}
      PROVE  /\ LastDrained(ps, force) \in Nat
             /\ InOrderEnd(ps) \in Int
             /\ ChunkTime(MaxTime(ps)) + Gen1 \in Int
  <2>1. ps # {}
    BY <1>1, <1>4
  <2>2. {p.num : p \in Drained(ps, force)} \in SUBSET Nat
    BY <1>1 DEF Period
  <2>3. LastDrained(ps, force) \in Nat
    <3> DEFINE N == {p.num : p \in Drained(ps, force)}
    <3>1. IsFiniteSet(N)
      BY <1>2, NumsFinite
    <3>2. N \in SUBSET Nat /\ N # {}
      BY <1>4, <2>2
    <3> HIDE DEF N
    <3>3. Max(N) \in N
      BY <3>1, <3>2, MaxLargest
    <3> USE DEF N
    <3> QED
      BY <3>2, <3>3 DEF LastDrained, LastNum
  <2>4. LastPeriod(ps).max \in Int
    BY <2>1, LastPeriodIsLast DEF Period
  <2>5. {p.max : p \in ps} \in SUBSET Int
    BY DEF Period
  <2>6. MaxTime(ps) \in Int
    BY <2>1, <2>5, NumsFinite, MaxLargest DEF MaxTime
  <2> QED
    BY <2>3, <2>4, <2>6, ChunkTimeBounds, Gen1Assumption DEF InOrderEnd
<1>5. SnapshotsAll(ps, force) \in BOOLEAN
    BY DEF SnapshotsAll
<1>6. CASE Drained(ps, force) = {}
    BY <1>1, <1>2, <1>3, <1>6 DEF TrackerSnapshot
<1>7. CASE Drained(ps, force) # {}
    BY <1>1, <1>2, <1>4, <1>5, <1>7 DEF TrackerSnapshot, Details
<1> QED
    BY <1>6, <1>7

\* The periods handed over are the oldest ones, and last_wal_sequence_number
\* is the newest file among them.
LEMMA DrainedIsPrefix ==
    ASSUME NEW ps \in SUBSET Period, IsFiniteSet(ps), NEW force \in BOOLEAN,
           NEW p \in Drained(ps, force)
    PROVE  /\ \A q \in ps : q.num <= p.num => q \in Drained(ps, force)
           /\ p.num <= LastDrained(ps, force)
           /\ \E q \in Drained(ps, force) : q.num = LastDrained(ps, force)
<1>1. Drained(ps, force) \subseteq ps
    BY DEF Drained, InOrderPeriods
<1>2. \A q \in ps : q.num <= p.num => q \in Drained(ps, force)
  <2>1. CASE SnapshotsAll(ps, force)
    BY <2>1 DEF Drained
  <2>2. CASE ~SnapshotsAll(ps, force)
    <3>1. Drained(ps, force) = InOrderPeriods(ps)
      BY <2>2 DEF Drained
    <3> QED
      BY <1>1, <3>1 DEF InOrderPeriods, Period
  <2> QED
    BY <2>1, <2>2
<1> DEFINE N == {q.num : q \in Drained(ps, force)}
<1>3. IsFiniteSet(N)
    BY <1>1, FS_Subset, NumsFinite
<1>4. N \in SUBSET Int /\ N # {} /\ p.num \in N
    BY <1>1 DEF Period
<1> HIDE DEF N
<1>5. Max(N) \in N /\ p.num <= Max(N)
    BY <1>3, <1>4, MaxLargest
<1> USE DEF N
<1> QED
    BY <1>2, <1>5 DEF LastDrained, LastNum

\* Every row of a file the snapshot covers lies in a chunk the snapshot
\* persists: end_time_marker is beyond the chunks of all covered periods.
\* This holds for timestamps from 1970 on; RustRem truncates towards zero.
THEOREM SnapshotCoversPeriods ==
    ASSUME NEW ps \in SUBSET Period, IsFiniteSet(ps), NEW force \in BOOLEAN,
           NEW prev \in Nat, NEW p \in Drained(ps, force),
           NEW t \in Nat, t <= p.max
    PROVE  ChunkTime(t) < TrackerSnapshot(ps, force, prev).end
<1>1. p \in ps /\ p.max \in Int /\ Drained(ps, force) # {}
    BY DEF Drained, InOrderPeriods, Period
<1>2. ChunkTime(t) \in Int /\ ChunkTime(t) <= t
    BY ChunkTimeBounds
<1>3. CASE SnapshotsAll(ps, force)
  <2> DEFINE M == {q.max : q \in ps}
  <2>1. IsFiniteSet(M)
    BY NumsFinite
  <2>2. M \in SUBSET Int /\ M # {} /\ p.max \in M
    BY <1>1 DEF Period
  <2> HIDE DEF M
  <2>3. Max(M) \in Int /\ p.max <= Max(M)
    BY <2>1, <2>2, MaxLargest
  <2> USE DEF M
  <2>4. MaxTime(ps) \in Nat /\ p.max <= MaxTime(ps)
    BY <1>1, <2>3 DEF MaxTime
  <2>5. t < ChunkTime(MaxTime(ps)) + Gen1 /\ ChunkTime(MaxTime(ps)) \in Int
    BY <1>1, <2>4, ChunkTimeBounds, Gen1Assumption
  <2> QED
    BY <1>1, <1>2, <1>3, <2>5, Gen1Assumption DEF TrackerSnapshot
<1>4. CASE ~SnapshotsAll(ps, force)
  <2>1. Drained(ps, force) = InOrderPeriods(ps)
    BY <1>1, <1>4 DEF Drained
  <2>2. p.max < InOrderEnd(ps)
    BY <1>1, <2>1 DEF InOrderPeriods, Period
  <2>3. LastPeriod(ps).max \in Int
    BY <1>1, LastPeriodIsLast DEF Period
  <2>4. InOrderEnd(ps) \in Int
    BY <2>3, ChunkTimeBounds DEF InOrderEnd
  <2> QED
    BY <1>1, <1>2, <1>4, <2>2, <2>4 DEF TrackerSnapshot
<1> QED
    BY <1>3, <1>4
=============================================================================
