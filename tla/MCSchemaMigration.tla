------------------------- MODULE MCSchemaMigration -------------------------
(***************************************************************************)
(* Two instances, four versions, two owners: "sessions" carries versions 1, *)
(* 2 and 4 (its static SQL indexes a column of version 4), "traces" is      *)
(* introduced by version 3.                                                 *)
(***************************************************************************)
EXTENDS SchemaMigration

CONSTANTS sessions, traces

MCOwners == {sessions, traces}
MCOwnerOf == [v \in 1..4 |-> IF v = 3 THEN traces ELSE sessions]
=============================================================================
