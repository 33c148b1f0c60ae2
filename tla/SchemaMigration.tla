--------------------------- MODULE SchemaMigration ---------------------------
(***************************************************************************)
(* Creation and migration of the production schema: Storage::open_production *)
(* as far as initialize_before_assert, create_static_schema and the          *)
(* MigrationRunner.  Each element of Instances is a running copy of the      *)
(* application with its own connection to the same file; nothing in the      *)
(* services crate keeps two of them apart, only SQLite's write lock does.    *)
(*                                                                           *)
(* A version stands for everything its owners' SQL blocks and finalizers do. *)
(* The shape of the file is the set of versions whose objects it contains.   *)
(***************************************************************************)
EXTENDS Integers, FiniteSets

CONSTANTS
  Instances,    \* running copies of the application
  None,         \* nobody holds the write lock
  MaxVersion,   \* newest version any build knows (69 in the source)
  Owners,       \* table owners of the catalog
  OwnerOf,      \* the owner whose SQL a version carries
  Indexed       \* versions whose columns the owner's static SQL already uses

Versions == 1..MaxVersion

ASSUME MigrationConstants ==
  /\ None \notin Instances
  /\ MaxVersion \in Nat \ {0}
  /\ OwnerOf \in [Versions -> Owners]
  /\ Indexed \subseteq Versions

VARIABLES
  exists,    \* the main file is on disk
  tables,    \* owners whose tables are in the file
  shape,     \* versions whose objects are in the file
  markers,   \* rows of schema_versions
  ran,       \* how often each version's SQL and finalizer were committed
  build,     \* latest_version of the installed build's catalog
  pc,        \* where each instance is in open_production
  fresh,     \* the instance saw no file before it opened one
  version,   \* next version of the instance's loop
  writer     \* holder of the write lock of an open migration transaction

file == <<exists, tables, shape, markers, ran>>
local == <<pc, fresh, version>>
vars == <<file, build, local, writer>>

Steps == {"down", "observed", "creating", "reading", "marking", "migrating",
          "inTransaction", "ready", "failed"}

TypeOK ==
  /\ exists \in BOOLEAN
  /\ tables \subseteq Owners
  /\ shape \subseteq Versions
  /\ markers \subseteq Versions
  /\ ran \in [Versions -> Nat]
  /\ build \in Versions
  /\ pc \in [Instances -> Steps]
  /\ fresh \in [Instances -> BOOLEAN]
  /\ version \in [Instances -> 1..(MaxVersion + 1)]
  /\ writer \in Instances \cup {None}

-----------------------------------------------------------------------------
(* The catalog as one build sees it. *)

KnownOwners(n) == {OwnerOf[v] : v \in 1..n}

(* Versions the CREATE ... IF NOT EXISTS blocks of build n bring along: those *)
(* of the owners that have no table yet.                                      *)
StaticVersions(n) == {v \in 1..n : OwnerOf[v] \notin tables}

(* Static SQL of an owner that already has an older table fails with "no such *)
(* column" when it indexes a column which a later migration adds.             *)
StaticBlocked(n) ==
  \E v \in Indexed : v <= n /\ OwnerOf[v] \in tables /\ v \notin shape

(* SELECT MAX(version), and 0 for an empty table. *)
IsHighWater(c) ==
  /\ c \in markers \cup {0}
  /\ \A m \in markers : m <= c

HighWaterReads == {c \in 0..MaxVersion : IsHighWater(c)}

-----------------------------------------------------------------------------
(* No file, an empty one, or a file left by release n whose mark may predate *)
(* the schema_versions table; and any build.                                 *)
Init ==
  /\ \E n \in 0..MaxVersion :
       /\ tables = KnownOwners(n)
       /\ shape = 1..n
       /\ markers \in {{}, {n} \ {0}}
       /\ exists \in (IF n = 0 THEN BOOLEAN ELSE {TRUE})
  /\ ran = [v \in Versions |-> 0]
  /\ build \in Versions
  /\ pc = [i \in Instances |-> "down"]
  /\ fresh = [i \in Instances |-> FALSE]
  /\ version = [i \in Instances |-> 1]
  /\ writer = None

Goto(i, step) == pc' = [pc EXCEPT ![i] = step]

(* let existed_before = db_path.exists() *)
Observe(i) ==
  /\ pc[i] = "down"
  /\ fresh' = [fresh EXCEPT ![i] = ~exists]
  /\ Goto(i, "observed")
  /\ UNCHANGED <<file, build, version, writer>>

(* Connection::open creates an absent file. *)
Open(i) ==
  /\ pc[i] = "observed"
  /\ exists' = TRUE
  /\ Goto(i, "creating")
  /\ UNCHANGED <<tables, shape, markers, ran, build, fresh, version, writer>>

(* Every owner's CREATE ... IF NOT EXISTS in one transaction. *)
CreateStatic(i) ==
  /\ pc[i] = "creating"
  /\ writer = None
  /\ ~StaticBlocked(build)
  /\ shape' = shape \cup StaticVersions(build)
  /\ tables' = tables \cup KnownOwners(build)
  /\ Goto(i, "reading")
  /\ UNCHANGED <<exists, markers, ran, build, fresh, version, writer>>

(* Seeded faults of ReadHighWater: the fresh flag is not consulted; the loop *)
(* excludes the latest version; it starts one version too late.              *)
ReadIgnoringFresh(i) ==
  /\ pc[i] = "reading"
  /\ \E c \in HighWaterReads :
       /\ version' = [version EXCEPT ![i] = c + 1]
       /\ Goto(i, IF c = 0 THEN "marking"
                  ELSE IF c >= build THEN "ready" ELSE "migrating")
  /\ UNCHANGED <<file, build, fresh, writer>>

ReadExclusiveRange(i) ==
  /\ pc[i] = "reading"
  /\ \E c \in HighWaterReads :
       /\ version' = [version EXCEPT ![i] = c + 1]
       /\ Goto(i, IF fresh[i] /\ c = 0 THEN "marking"
                  ELSE IF c + 1 >= build THEN "ready" ELSE "migrating")
  /\ UNCHANGED <<file, build, fresh, writer>>

ReadSkippingOne(i) ==
  /\ pc[i] = "reading"
  /\ \E c \in HighWaterReads :
       /\ version' = [version EXCEPT ![i] = c + 2]
       /\ Goto(i, IF fresh[i] /\ c = 0 THEN "marking"
                  ELSE IF c >= build THEN "ready" ELSE "migrating")
  /\ UNCHANGED <<file, build, fresh, writer>>

(* schema_versions is created if absent and MAX(version) is read, both       *)
(* outside the transactions that follow.                                     *)
ReadHighWater(i) ==
  /\ pc[i] = "reading"
  /\ \E c \in HighWaterReads :
       /\ version' = [version EXCEPT ![i] = c + 1]
       /\ Goto(i, IF fresh[i] /\ c = 0 THEN "marking"
                  ELSE IF c >= build THEN "ready" ELSE "migrating")
  /\ UNCHANGED <<file, build, fresh, writer>>

(* A fresh file gets the latest version only; a second row for it is refused *)
(* by the primary key.                                                       *)
MarkFresh(i) ==
  /\ pc[i] = "marking"
  /\ writer = None
  /\ build \notin markers
  /\ markers' = markers \cup {build}
  /\ Goto(i, "ready")
  /\ UNCHANGED <<exists, tables, shape, ran, build, fresh, version, writer>>

BeginVersion(i) ==
  /\ pc[i] = "migrating"
  /\ writer = None
  /\ writer' = i
  /\ Goto(i, "inTransaction")
  /\ UNCHANGED <<file, build, fresh, version>>

(* Seeded fault of CommitVersion: INSERT OR REPLACE for the marker. *)
CommitReplacingMarker(i) ==
  /\ pc[i] = "inTransaction"
  /\ tables' = tables \cup {OwnerOf[version[i]]}
  /\ shape' = shape \cup {version[i]}
  /\ ran' = [ran EXCEPT ![version[i]] = @ + 1]
  /\ markers' = markers \cup {version[i]}
  /\ version' = [version EXCEPT ![i] = @ + 1]
  /\ Goto(i, IF version[i] = build THEN "ready" ELSE "migrating")
  /\ writer' = None
  /\ UNCHANGED <<exists, build, fresh>>

(* Statements, finalizer and marker become visible together. *)
CommitVersion(i) ==
  /\ pc[i] = "inTransaction"
  /\ version[i] \notin markers
  /\ tables' = tables \cup {OwnerOf[version[i]]}
  /\ shape' = shape \cup {version[i]}
  /\ ran' = [ran EXCEPT ![version[i]] = @ + 1]
  /\ markers' = markers \cup {version[i]}
  /\ version' = [version EXCEPT ![i] = @ + 1]
  /\ Goto(i, IF version[i] = build THEN "ready" ELSE "migrating")
  /\ writer' = None
  /\ UNCHANGED <<exists, build, fresh>>

(* Seeded fault of RollBackVersion: the statements were not in a transaction, *)
(* only the marker is missing afterwards.                                     *)
RollBackMarkerOnly(i) ==
  /\ pc[i] = "inTransaction"
  /\ tables' = tables \cup {OwnerOf[version[i]]}
  /\ shape' = shape \cup {version[i]}
  /\ ran' = [ran EXCEPT ![version[i]] = @ + 1]
  /\ Goto(i, "failed")
  /\ writer' = None
  /\ UNCHANGED <<exists, markers, build, fresh, version>>

(* A statement, the finalizer, the marker insert (its version may have been  *)
(* recorded by another instance meanwhile) or the commit fails: roll back.   *)
RollBackVersion(i) ==
  /\ pc[i] = "inTransaction"
  /\ Goto(i, "failed")
  /\ writer' = None
  /\ UNCHANGED <<file, build, fresh, version>>

(* Any other step of the initialization reports an error: open or I/O        *)
(* failure, blocked static SQL, a busy lock, a refused fresh marker.         *)
Fail(i) ==
  /\ pc[i] \in {"observed", "creating", "reading", "marking", "migrating"}
  /\ Goto(i, "failed")
  /\ UNCHANGED <<file, build, fresh, version, writer>>

Close(i) ==
  /\ pc[i] \in {"ready", "failed"}
  /\ Goto(i, "down")
  /\ UNCHANGED <<file, build, fresh, version, writer>>

(* The process dies; SQLite discards its open transaction. *)
Crash(i) ==
  /\ pc[i] # "down"
  /\ Goto(i, "down")
  /\ writer' = (IF writer = i THEN None ELSE writer)
  /\ UNCHANGED <<file, build, fresh, version>>

(* Another release is installed, newer or older, while nothing runs. *)
InstallBuild ==
  /\ \A i \in Instances : pc[i] = "down"
  /\ \E n \in Versions \ {build} : build' = n
  /\ UNCHANGED <<file, local, writer>>

(* Asking for the password of a missing file opens it, and thereby creates   *)
(* it empty: whoever observes it from then on takes it for an existing one.  *)
ValidatePassword ==
  /\ ~exists
  /\ exists' = TRUE
  /\ UNCHANGED <<tables, shape, markers, ran, build, local, writer>>

Work(i) ==
  \/ Observe(i)
  \/ Open(i)
  \/ CreateStatic(i)
  \/ ReadHighWater(i)
  \/ MarkFresh(i)
  \/ BeginVersion(i)
  \/ CommitVersion(i)
  \/ RollBackVersion(i)
  \/ Fail(i)

Next ==
  \/ \E i \in Instances : Work(i) \/ Close(i) \/ Crash(i)
  \/ InstallBuild
  \/ ValidatePassword

Spec == Init /\ [][Next]_vars

-----------------------------------------------------------------------------
(* Correctness. *)

(* MAX(version) is the only thing later startups look at, so every version up *)
(* to any recorded one must have its objects in the file: through the fresh   *)
(* shortcut, the crash gap between static creation and the first marker,      *)
(* changes of build and two instances migrating with stale reads of the mark. *)
MarkedVersionsAreProvided == \A m \in markers : 1..m \subseteq shape

(* The data conversion of a version is never committed twice, although the    *)
(* mark is read before the version transactions begin and another instance    *)
(* may have migrated meanwhile.                                               *)
MigratesOnce == \A v \in Versions : ran[v] <= 1

(* An instance that finished the initialization has every object its build's  *)
(* catalog names up to the latest version, and the mark says so.              *)
ReadyIsCurrent ==
  \A i \in Instances :
    pc[i] = "ready" => 1..build \subseteq shape /\ \E m \in markers : m >= build

Ledger == INSTANCE SchemaLedger
            WITH provided <- shape,
                 converted <- {v \in Versions : ran[v] > 0},
                 recorded <- markers

(* Seen from the file, every step of every instance, crashes included, is one *)
(* of the promised ledger steps or leaves the ledger alone.                   *)
ImplementsLedger == Ledger!Spec
=============================================================================
