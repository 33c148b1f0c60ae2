--------------------------- MODULE MCDatabaseFiles ---------------------------
(* A database left by an earlier release and a new one, two passwords, two   *)
(* quarantines within one clock reading.                                     *)
EXTENDS DatabaseFiles, TLC
CONSTANTS p1, p2
MCPasswords == {p1, p2}
MCTimes == {1}
MCSymmetry == Permutations(MCPasswords)
=============================================================================
