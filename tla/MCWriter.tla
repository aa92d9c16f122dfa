------------------------------ MODULE MCWriter -------------------------------
(***************************************************************************)
(* Instances of Writer for TLC.  With Gen1 = 2 the timestamps 0, 2 and 4   *)
(* lie in three chunks; SnapshotSize = 1 makes every second file able to   *)
(* snapshot in order and every third one a snapshot of everything.         *)
(***************************************************************************)
EXTENDS Writer, TLC

Instants == {{0}, {2}, {0, 4}}

TwoInstants == {{0}, {2}}

NegativeInstants == {{-1}, {0}, {2}}

WriteSymmetry == Permutations(Writes \ NoSync)
=============================================================================
