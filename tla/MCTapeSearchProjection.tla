------------------------ MODULE MCTapeSearchProjection ------------------------
(* Two owners, on one connection or two, and two sessions.  The one entry of  *)
(* a session lies above the lower head and below the higher, so that a head   *)
(* can be behind, and a source can be allowed to read less than there is.     *)
(* No step reads outcome: states that differ in nothing else are one.         *)
EXTENDS TapeSearchProjection, TLC

Symmetry ==
  Permutations(Owners) \cup Permutations(Connections)
    \cup Permutations(Sessions) \cup Permutations(Texts)

Unread == <<disk, seen, holder, conn, available, ready, call, unrecorded, overtaken, faults>>
===============================================================================
