---------------------------- MODULE SchemaLedger ----------------------------
(***************************************************************************)
(* What the schema high-water mark promises to everyone who reads the      *)
(* database: a recorded version stands on a complete schema, and the data  *)
(* conversion of a version happens at most once, in the very step that     *)
(* records the version.  Processes, transactions and crashes do not appear *)
(* here; SchemaMigration is shown to implement this module.                *)
(***************************************************************************)
EXTENDS Integers

CONSTANT MaxVersion   \* newest version any build knows

VARIABLES
  provided,   \* versions whose schema objects are in the file
  converted,  \* versions whose SQL and finalizer have been committed
  recorded    \* versions with a row in schema_versions

ledger == <<provided, converted, recorded>>

Init ==
  /\ provided \in SUBSET (1..MaxVersion)
  /\ \E n \in 0..MaxVersion :
       /\ 1..n \subseteq provided
       /\ recorded = (IF n = 0 THEN {} ELSE {n})
  /\ converted = {}

(* Objects may appear ahead of the record, never the other way round. *)
Provide(objects) ==
  /\ provided' = provided \cup objects
  /\ UNCHANGED <<converted, recorded>>

(* A fresh file is recorded at the newest version without replaying any. *)
Install(n) ==
  /\ n \notin recorded
  /\ 1..n \subseteq provided
  /\ recorded' = recorded \cup {n}
  /\ UNCHANGED <<provided, converted>>

(* One version: its objects, its conversion and its record in one step, on *)
(* top of the objects of every earlier version.                            *)
Migrate(v) ==
  /\ v \notin recorded
  /\ 1..(v - 1) \subseteq provided
  /\ provided' = provided \cup {v}
  /\ converted' = converted \cup {v}
  /\ recorded' = recorded \cup {v}

Next ==
  \/ \E objects \in SUBSET (1..MaxVersion) : Provide(objects)
  \/ \E v \in 1..MaxVersion : Install(v) \/ Migrate(v)

Spec == Init /\ [][Next]_ledger

=============================================================================
