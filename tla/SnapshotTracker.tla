--------------------------- MODULE SnapshotTracker ---------------------------
(***************************************************************************)
(* influxdb3_wal/src/snapshot_tracker.rs: the decision when to snapshot    *)
(* the write-ahead log and what a snapshot covers.                         *)
(*                                                                         *)
(* A WAL period is the record of one flushed WAL file: its number and the  *)
(* largest row timestamp in it.  The tracker keeps its periods in a Vec in *)
(* increasing file number (add_wal_period asserts it), so a set of         *)
(* [num, max] records with distinct numbers is the same thing.  The        *)
(* smallest timestamp of a period is stored by the code and never read.    *)
(***************************************************************************)
EXTENDS Integers, FiniteSets, FiniteSetsExt

CONSTANTS
    Gen1,          \* gen1_duration: the width of a chunk, in time units
    SnapshotSize   \* snapshot_size: WAL periods per snapshot

ASSUME Gen1Assumption == Gen1 \in Nat \ {0}
ASSUME SnapshotSizeAssumption == SnapshotSize \in Nat

Period == [num : Nat, max : Int]

\* What a snapshot covers: chunks that start before "end", files up to "last".
Details == [seq : Nat, end : Int, last : Nat, forced : BOOLEAN]

\* Option::None of the code; real snapshots are numbered from 1.
NoSnap == [seq |-> 0, end |-> 0, last |-> 0, forced |-> FALSE]

\* Rust's % takes the sign of the dividend; TLA+'s does not.
RustRem(t, d) == IF t >= 0 THEN t % d ELSE -((-t) % d)

\* The start of the gen1 chunk a timestamp belongs to.
ChunkTime(t) == t - RustRem(t, Gen1)

\* The last element of the Vec of periods.
LastPeriod(ps) == CHOOSE p \in ps : \A q \in ps : q.num <= p.num

LastNum(ps) == Max({p.num : p \in ps})

MaxTime(ps) == Max({p.max : p \in ps})

ShouldRunSnapshot(ps, force) ==
    /\ ps # {}
    /\ force \/ Cardinality(ps) >= SnapshotSize + SnapshotSize \div 2

SnapshotsAll(ps, force) == force \/ Cardinality(ps) >= 3 * SnapshotSize

InOrderEnd(ps) == ChunkTime(LastPeriod(ps).max)

\* Mutant: take_while(max_time <= t).
InOrderPeriodsInclusive(ps) ==
    {p \in ps : \A q \in ps : q.num <= p.num => q.max <= InOrderEnd(ps)}

\* take_while(max_time < t): the longest prefix of periods that end before t.
InOrderPeriods(ps) ==
    {p \in ps : \A q \in ps : q.num <= p.num => q.max < InOrderEnd(ps)}

\* The periods the tracker hands over and forgets.
Drained(ps, force) ==
    CASE ~ShouldRunSnapshot(ps, force) -> {}
      [] SnapshotsAll(ps, force) -> ps
      [] OTHER -> InOrderPeriods(ps)

\* Mutant: the last period known, not the last one handed over.
LastKnown(ps, force) == LastNum(ps)

\* last_wal_sequence_number: the newest file the snapshot covers.
LastDrained(ps, force) == LastNum(Drained(ps, force))

\* The details of the snapshot taken of the periods ps after snapshot number
\* "prev", or NoSnap.
TrackerSnapshot(ps, force, prev) ==
    IF Drained(ps, force) = {}
    THEN NoSnap
    ELSE [seq    |-> prev + 1,
          end    |-> IF SnapshotsAll(ps, force)
                     THEN ChunkTime(MaxTime(ps)) + Gen1
                     ELSE InOrderEnd(ps),
          last   |-> LastDrained(ps, force),
          forced |-> SnapshotsAll(ps, force)]
=============================================================================
