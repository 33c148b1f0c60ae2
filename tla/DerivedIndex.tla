---------------------------- MODULE DerivedIndex ----------------------------
(***************************************************************************)
(* What an index that the services crate derives from a table of record    *)
(* promises to whoever reads it.  The index says of itself whether it is   *)
(* up to date; while it does, it is right about the records.  Writers keep *)
(* the records whatever becomes of the index, and an index that has lost   *)
(* touch with them gets it back by upkeep and never by the next write.     *)
(* AgentMemoryFts and MemoryIngestion are shown to implement this module.  *)
(***************************************************************************)

CONSTANT Right(_, _)   \* the index is right about the records

VARIABLES
  records,  \* the table of record
  index,    \* what was derived from it
  trusted   \* the index claims to be up to date

Init == trusted => Right(records, index)

(* A writer changes the records.  Only an index that was up to date can be *)
(* taken along; otherwise it stays, or becomes, stale.                     *)
Record ==
  /\ records' # records
  /\ trusted' => trusted /\ Right(records', index')

(* Rebuilding, repairing, dropping, damaging or invalidating the index.    *)
Maintain ==
  /\ UNCHANGED records
  /\ trusted' => Right(records, index')

Next == Record \/ Maintain

Spec == Init /\ [][Next]_<<records, index, trusted>>

=============================================================================
