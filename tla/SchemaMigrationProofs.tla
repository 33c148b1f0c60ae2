----------------------- MODULE SchemaMigrationProofs -----------------------
(***************************************************************************)
(* Proofs about SchemaMigration for any number of instances, versions and  *)
(* owners.  The inductive invariant says what each place in the            *)
(* initialization has already established in the file.                     *)
(***************************************************************************)
EXTENDS SchemaMigration, TLAPS

(* A file that was never opened holds nothing. *)
AbsentFileIsEmpty == ~exists => tables = {} /\ markers = {}

Opened == {"creating", "reading", "marking", "migrating", "inTransaction"}

OpenedFileExists == \A i \in Instances : pc[i] \in Opened => exists

(* While an instance that saw no file runs, the file can only have been made *)
(* by this build, so no table in it has an older shape.                      *)
FreshFileIsFull ==
  \A i \in Instances : pc[i] # "down" /\ fresh[i] =>
    \A v \in 1..build : OwnerOf[v] \in tables => v \in shape

StaticCreated ==
  \A i \in Instances :
    pc[i] \in {"reading", "marking", "migrating", "inTransaction"} =>
      \A v \in 1..build : OwnerOf[v] \in tables

OnlyFreshMarks == \A i \in Instances : pc[i] = "marking" => fresh[i]

(* The loop never leaves the range current + 1 .. latest of its build. *)
LoopInRange ==
  \A i \in Instances :
    pc[i] \in {"migrating", "inTransaction"} => version[i] <= build

(* The loop stands on a complete prefix. *)
LoopOnPrefix ==
  \A i \in Instances : pc[i] \in {"migrating", "inTransaction"} =>
    1..(version[i] - 1) \subseteq shape

RanIsMarked == \A v \in Versions : ran[v] > 0 => v \in markers

IInv ==
  /\ TypeOK
  /\ LoopInRange
  /\ MarkedVersionsAreProvided
  /\ MigratesOnce
  /\ ReadyIsCurrent
  /\ AbsentFileIsEmpty
  /\ OpenedFileExists
  /\ FreshFileIsFull
  /\ StaticCreated
  /\ OnlyFreshMarks
  /\ LoopOnPrefix
  /\ RanIsMarked

-----------------------------------------------------------------------------
(* Type correctness. *)

LEMMA KnownOwnersType ==
  ASSUME NEW n \in 0..MaxVersion
  PROVE  KnownOwners(n) \subseteq Owners
<1> SUFFICES ASSUME NEW v \in 1..n PROVE OwnerOf[v] \in Owners
  BY DEF KnownOwners
<1>1. v \in Versions
  BY MigrationConstants DEF Versions
<1> QED
  BY <1>1, MigrationConstants

LEMMA TypeInit == Init => TypeOK /\ LoopInRange
<1> SUFFICES ASSUME Init PROVE TypeOK /\ LoopInRange
  OBVIOUS
<1>1. PICK n \in 0..MaxVersion :
        /\ tables = KnownOwners(n)
        /\ shape = 1..n
        /\ markers \in {{}, {n} \ {0}}
        /\ exists \in (IF n = 0 THEN BOOLEAN ELSE {TRUE})
  BY DEF Init
<1>2. tables \subseteq Owners
  BY <1>1, KnownOwnersType
<1>3. shape \subseteq Versions /\ markers \subseteq Versions
  BY <1>1, MigrationConstants DEF Versions
<1>4. exists \in BOOLEAN
  BY <1>1
<1>5. version \in [Instances -> 1..(MaxVersion + 1)]
  BY MigrationConstants DEF Init
<1> QED
  BY <1>2, <1>3, <1>4, <1>5 DEF Init, TypeOK, LoopInRange, Steps

LEMMA TypeStep ==
  TypeOK /\ LoopInRange /\ [Next]_vars => TypeOK' /\ LoopInRange'
<1> SUFFICES ASSUME TypeOK, LoopInRange, [Next]_vars
             PROVE  TypeOK' /\ LoopInRange'
  OBVIOUS
<1> USE DEF TypeOK, LoopInRange, Goto, Steps, file, local
<1>1. ASSUME NEW i \in Instances, Observe(i)
      PROVE  TypeOK' /\ LoopInRange'
  BY <1>1, MigrationConstants DEF Observe
<1>2. ASSUME NEW i \in Instances, Open(i)
      PROVE  TypeOK' /\ LoopInRange'
  BY <1>2, MigrationConstants DEF Open
<1>3. ASSUME NEW i \in Instances, CreateStatic(i)
      PROVE  TypeOK' /\ LoopInRange'
  BY <1>3, MigrationConstants DEF CreateStatic, StaticVersions, KnownOwners, Versions
<1>4. ASSUME NEW i \in Instances, ReadHighWater(i)
      PROVE  TypeOK' /\ LoopInRange'
  BY <1>4, MigrationConstants DEF ReadHighWater, HighWaterReads, IsHighWater, Versions
<1>5. ASSUME NEW i \in Instances, MarkFresh(i)
      PROVE  TypeOK' /\ LoopInRange'
  BY <1>5, MigrationConstants DEF MarkFresh
<1>6. ASSUME NEW i \in Instances, BeginVersion(i)
      PROVE  TypeOK' /\ LoopInRange'
  BY <1>6, MigrationConstants DEF BeginVersion
<1>7. ASSUME NEW i \in Instances, CommitVersion(i)
      PROVE  TypeOK' /\ LoopInRange'
  <2>1. version[i] \in Versions /\ version[i] + 1 \in 1..(MaxVersion + 1)
    BY <1>7, MigrationConstants DEF CommitVersion, Versions
  <2>2. OwnerOf[version[i]] \in Owners
    BY <2>1, MigrationConstants
  <2>3. tables' \subseteq Owners /\ shape' \subseteq Versions /\ markers' \subseteq Versions
    BY <1>7, <2>1, <2>2 DEF CommitVersion
  <2>4. ran' \in [Versions -> Nat]
    BY <1>7, <2>1 DEF CommitVersion
  <2>5. version' \in [Instances -> 1..(MaxVersion + 1)]
    BY <1>7, <2>1 DEF CommitVersion
  <2>6. LoopInRange'
    BY <1>7, <2>1, MigrationConstants DEF CommitVersion, Versions
  <2> QED
    BY <1>7, <2>3, <2>4, <2>5, <2>6 DEF CommitVersion
<1>8. ASSUME NEW i \in Instances, RollBackVersion(i)
      PROVE  TypeOK' /\ LoopInRange'
  BY <1>8, MigrationConstants DEF RollBackVersion
<1>9. ASSUME NEW i \in Instances, Fail(i)
      PROVE  TypeOK' /\ LoopInRange'
  BY <1>9, MigrationConstants DEF Fail
<1>10. ASSUME NEW i \in Instances, Close(i)
      PROVE  TypeOK' /\ LoopInRange'
  BY <1>10, MigrationConstants DEF Close
<1>11. ASSUME NEW i \in Instances, Crash(i)
      PROVE  TypeOK' /\ LoopInRange'
  BY <1>11, MigrationConstants DEF Crash
<1>12. CASE InstallBuild
  BY <1>12 DEF InstallBuild
<1>13. CASE ValidatePassword
  BY <1>13 DEF ValidatePassword
<1>14. CASE UNCHANGED vars
  BY <1>14 DEF vars
<1>15. QED
  BY <1>1, <1>2, <1>3, <1>4, <1>5, <1>6, <1>7, <1>8, <1>9, <1>10, <1>11, <1>12, <1>13, <1>14
     DEF Next, Work

(* In every reachable state the variables have the types TypeOK states. *)
THEOREM TypeCorrect == Spec => []TypeOK
  BY TypeInit, TypeStep, PTL DEF Spec

-----------------------------------------------------------------------------
(* The inductive invariant. *)

SafeFile ==
  /\ MarkedVersionsAreProvided
  /\ MigratesOnce
  /\ AbsentFileIsEmpty
  /\ RanIsMarked

SafeLocal ==
  /\ ReadyIsCurrent
  /\ OpenedFileExists
  /\ FreshFileIsFull
  /\ StaticCreated
  /\ OnlyFreshMarks
  /\ LoopOnPrefix

LEMMA Split == IInv <=> TypeOK /\ LoopInRange /\ SafeFile /\ SafeLocal
  BY DEF IInv, SafeFile, SafeLocal

LEMMA InvInit == Init => IInv
<1> SUFFICES ASSUME Init PROVE IInv
  OBVIOUS
<1>1. TypeOK /\ LoopInRange
  BY TypeInit
<1>2. PICK n \in 0..MaxVersion :
        /\ tables = KnownOwners(n)
        /\ shape = 1..n
        /\ markers \in {{}, {n} \ {0}}
        /\ exists \in (IF n = 0 THEN BOOLEAN ELSE {TRUE})
  BY DEF Init
<1>3. MarkedVersionsAreProvided
  BY <1>2 DEF MarkedVersionsAreProvided
<1>4. ~exists => tables = {} /\ markers = {}
  <2> SUFFICES ASSUME ~exists PROVE tables = {} /\ markers = {}
    OBVIOUS
  <2>1. n = 0
    BY <1>2
  <2>2. 1..n = {}
    BY <2>1
  <2> QED
    BY <1>2, <2>1, <2>2 DEF KnownOwners
<1>5. SafeFile
  BY <1>3, <1>4 DEF SafeFile, Init, MigratesOnce, AbsentFileIsEmpty, RanIsMarked
<1>6. SafeLocal
  BY DEF SafeLocal, Init, ReadyIsCurrent, OpenedFileExists, FreshFileIsFull,
         StaticCreated, OnlyFreshMarks, LoopOnPrefix, Opened
<1> QED
  BY <1>1, <1>5, <1>6, Split

(* Steps that leave the file and its lock's work alone move one instance to a *)
(* place that claims no more than the place it came from.                     *)
LEMMA QuietStep ==
  ASSUME IInv, NEW i \in Instances,
         \/ Observe(i) \/ Open(i) \/ BeginVersion(i) \/ RollBackVersion(i)
         \/ Fail(i) \/ Close(i) \/ Crash(i)
  PROVE  SafeFile' /\ SafeLocal'
<1> USE DEF IInv, TypeOK, Goto, file, local, Opened
<1>1. SafeFile'
  BY DEF SafeFile, MarkedVersionsAreProvided, MigratesOnce, AbsentFileIsEmpty,
         RanIsMarked, Observe, Open, BeginVersion, RollBackVersion, Fail, Close, Crash
<1>2. ReadyIsCurrent'
  BY DEF ReadyIsCurrent, Observe, Open, BeginVersion, RollBackVersion, Fail, Close, Crash
<1>3. OpenedFileExists'
  BY DEF OpenedFileExists, Observe, Open, BeginVersion, RollBackVersion, Fail, Close, Crash
<1>4. FreshFileIsFull'
  BY DEF FreshFileIsFull, AbsentFileIsEmpty, Observe, Open, BeginVersion, RollBackVersion,
         Fail, Close, Crash
<1>5. StaticCreated'
  BY DEF StaticCreated, Observe, Open, BeginVersion, RollBackVersion, Fail, Close, Crash
<1>6. OnlyFreshMarks'
  BY DEF OnlyFreshMarks, Observe, Open, BeginVersion, RollBackVersion, Fail, Close, Crash
<1>7. LoopOnPrefix'
  BY DEF LoopOnPrefix, Observe, Open, BeginVersion, RollBackVersion, Fail, Close, Crash
<1> QED
  BY <1>1, <1>2, <1>3, <1>4, <1>5, <1>6, <1>7 DEF SafeLocal

LEMMA CreateStaticStep ==
  ASSUME IInv, NEW i \in Instances, CreateStatic(i)
  PROVE  SafeFile' /\ SafeLocal'
<1> USE DEF IInv, TypeOK, Goto, Opened, CreateStatic
<1>1. /\ shape \subseteq shape'
      /\ UNCHANGED <<exists, markers, ran, build, fresh, version>>
      /\ pc[i] = "creating" /\ pc' = [pc EXCEPT ![i] = "reading"]
  OBVIOUS
<1>2. \A v \in 1..build : OwnerOf[v] \in tables'
  BY DEF KnownOwners
<1>3. \A v \in 1..build : OwnerOf[v] \notin tables => v \in shape'
  BY DEF StaticVersions
<1>4. SafeFile'
  BY <1>1 DEF SafeFile, MarkedVersionsAreProvided, MigratesOnce, AbsentFileIsEmpty,
              OpenedFileExists, RanIsMarked
<1>5. ReadyIsCurrent'
  BY <1>1 DEF ReadyIsCurrent
<1>6. OpenedFileExists' /\ OnlyFreshMarks'
  BY <1>1 DEF OpenedFileExists, OnlyFreshMarks
<1>7. FreshFileIsFull'
  BY <1>1, <1>3 DEF FreshFileIsFull
<1>8. StaticCreated'
  BY <1>1, <1>2 DEF StaticCreated
<1>9. LoopOnPrefix'
  BY <1>1 DEF LoopOnPrefix
<1> QED
  BY <1>4, <1>5, <1>6, <1>7, <1>8, <1>9 DEF SafeLocal

(* A recorded mark c is backed, so the loop starts on the prefix 1 .. c. *)
LEMMA ReadHighWaterStep ==
  ASSUME IInv, NEW i \in Instances, ReadHighWater(i)
  PROVE  SafeFile' /\ SafeLocal'
<1> USE DEF IInv, TypeOK, Goto, Opened
<1>1. PICK c \in HighWaterReads :
        /\ version' = [version EXCEPT ![i] = c + 1]
        /\ pc' = [pc EXCEPT ![i] = IF fresh[i] /\ c = 0 THEN "marking"
                                   ELSE IF c >= build THEN "ready" ELSE "migrating"]
  BY DEF ReadHighWater
<1>2. UNCHANGED <<exists, tables, shape, markers, ran, build, fresh>> /\ pc[i] = "reading"
  BY DEF ReadHighWater, file
<1>3. c \in 0..MaxVersion /\ c \in markers \cup {0}
  BY DEF HighWaterReads, IsHighWater
<1>4. 1..c \subseteq shape
  BY <1>3 DEF MarkedVersionsAreProvided
<1>5. build \in Nat /\ build > 0
  BY MigrationConstants DEF Versions
<1>6. SafeFile'
  BY <1>2 DEF SafeFile, MarkedVersionsAreProvided, MigratesOnce, AbsentFileIsEmpty,
              RanIsMarked
<1>7. ReadyIsCurrent'
  <2> SUFFICES ASSUME NEW j \in Instances, pc'[j] = "ready"
               PROVE  1..build \subseteq shape /\ \E m \in markers : m >= build
    BY <1>2 DEF ReadyIsCurrent
  <2>1. CASE j = i
    <3>1. c >= build
      BY <1>1, <2>1
    <3>2. c \in markers
      BY <1>3, <1>5, <3>1
    <3>3. 1..build \subseteq 1..c
      BY <1>3, <1>5, <3>1
    <3> QED
      BY <1>4, <3>1, <3>2, <3>3
  <2>2. CASE j # i
    BY <1>1, <2>2 DEF ReadyIsCurrent
  <2> QED
    BY <2>1, <2>2
<1>8. OpenedFileExists' /\ StaticCreated' /\ FreshFileIsFull'
  BY <1>1, <1>2 DEF OpenedFileExists, StaticCreated, FreshFileIsFull
<1>9. OnlyFreshMarks'
  BY <1>1, <1>2 DEF OnlyFreshMarks
<1>10. LoopOnPrefix'
  <2> SUFFICES ASSUME NEW j \in Instances, pc'[j] \in {"migrating", "inTransaction"}
               PROVE  1..(version'[j] - 1) \subseteq shape
    BY <1>2 DEF LoopOnPrefix
  <2>1. CASE j = i
    <3>1. version'[j] - 1 = c
      BY <1>1, <1>3, <2>1
    <3> QED
      BY <1>4, <3>1
  <2>2. CASE j # i
    BY <1>1, <2>2 DEF LoopOnPrefix
  <2> QED
    BY <2>1, <2>2
<1> QED
  BY <1>6, <1>7, <1>8, <1>9, <1>10 DEF SafeLocal

(* A fresh file has every object of the build, so its latest version may be *)
(* recorded directly.                                                       *)
LEMMA FreshPrefix ==
  ASSUME IInv, NEW i \in Instances, pc[i] = "marking"
  PROVE  1..build \subseteq shape
<1>1. fresh[i]
  BY DEF IInv, OnlyFreshMarks
<1>2. \A v \in 1..build : OwnerOf[v] \in tables
  BY DEF IInv, StaticCreated
<1> QED
  BY <1>1, <1>2 DEF IInv, FreshFileIsFull

LEMMA MarkFreshStep ==
  ASSUME IInv, NEW i \in Instances, MarkFresh(i)
  PROVE  SafeFile' /\ SafeLocal'
<1> USE DEF IInv, TypeOK, Goto, Opened
<1>1. /\ UNCHANGED <<exists, tables, shape, ran, build, fresh, version>>
      /\ pc[i] = "marking" /\ pc' = [pc EXCEPT ![i] = "ready"]
      /\ markers' = markers \cup {build}
  BY DEF MarkFresh
<1>2. 1..build \subseteq shape
  BY <1>1, FreshPrefix
<1>3. exists
  BY <1>1 DEF OpenedFileExists
<1>4. build \in Nat
  BY MigrationConstants DEF Versions
<1>5. MarkedVersionsAreProvided'
  BY <1>1, <1>2 DEF MarkedVersionsAreProvided
<1>6. SafeFile'
  BY <1>1, <1>3, <1>5 DEF SafeFile, MigratesOnce, AbsentFileIsEmpty, RanIsMarked
<1>7. ReadyIsCurrent'
  <2> SUFFICES ASSUME NEW j \in Instances, pc'[j] = "ready"
               PROVE  1..build \subseteq shape /\ \E m \in markers' : m >= build
    BY <1>1 DEF ReadyIsCurrent
  <2>1. build \in markers' /\ build >= build
    BY <1>1, <1>4
  <2> QED
    BY <1>2, <2>1
<1>8. /\ OpenedFileExists' /\ FreshFileIsFull' /\ StaticCreated'
      /\ OnlyFreshMarks' /\ LoopOnPrefix'
  BY <1>1 DEF OpenedFileExists, FreshFileIsFull, StaticCreated, OnlyFreshMarks, LoopOnPrefix
<1> QED
  BY <1>6, <1>7, <1>8 DEF SafeLocal

(* The loop's prefix and the new version together back the new mark, and the *)
(* primary key keeps a version that is already recorded from running again.  *)
LEMMA CommitVersionStep ==
  ASSUME IInv, NEW i \in Instances, CommitVersion(i)
  PROVE  SafeFile' /\ SafeLocal'
<1> DEFINE v == version[i]
<1> USE DEF IInv, TypeOK, Goto, Opened
<1>1. /\ UNCHANGED <<exists, build, fresh>>
      /\ pc[i] = "inTransaction"
      /\ pc' = [pc EXCEPT ![i] = IF v = build THEN "ready" ELSE "migrating"]
      /\ version' = [version EXCEPT ![i] = v + 1]
      /\ tables' = tables \cup {OwnerOf[v]}
      /\ shape' = shape \cup {v}
      /\ markers' = markers \cup {v}
      /\ ran' = [ran EXCEPT ![v] = @ + 1]
      /\ v \notin markers
  BY DEF CommitVersion
<1>2. v \in 1..build /\ v \in Versions /\ build \in Nat
  BY <1>1, MigrationConstants DEF LoopInRange, Versions
<1>3. 1..v \subseteq shape'
  <2>1. 1..(v - 1) \subseteq shape
    BY <1>1 DEF LoopOnPrefix
  <2>2. \A w \in 1..v : w \in 1..(v - 1) \/ w = v
    BY <1>2
  <2> QED
    BY <1>1, <2>1, <2>2
<1>4. exists
  BY <1>1 DEF OpenedFileExists
<1>5. ran[v] = 0
  BY <1>1, <1>2 DEF RanIsMarked
<1> HIDE DEF v
<1>6. MarkedVersionsAreProvided'
  BY <1>1, <1>3 DEF MarkedVersionsAreProvided
<1>7. MigratesOnce' /\ RanIsMarked'
  BY <1>1, <1>2, <1>5 DEF MigratesOnce, RanIsMarked
<1>8. SafeFile'
  BY <1>1, <1>4, <1>6, <1>7 DEF SafeFile, AbsentFileIsEmpty
<1>9. ReadyIsCurrent'
  <2> SUFFICES ASSUME NEW j \in Instances, pc'[j] = "ready"
               PROVE  1..build \subseteq shape' /\ \E m \in markers' : m >= build
    BY <1>1 DEF ReadyIsCurrent
  <2>1. CASE j = i
    <3>1. v = build
      BY <1>1, <2>1
    <3>2. v \in markers' /\ v >= build
      BY <1>1, <1>2, <3>1
    <3> QED
      BY <1>3, <3>1, <3>2
  <2>2. CASE j # i
    BY <1>1, <2>2 DEF ReadyIsCurrent
  <2> QED
    BY <2>1, <2>2
<1>10. OwnerOf[v] \in tables
  BY <1>1, <1>2 DEF StaticCreated
<1>11. OpenedFileExists' /\ OnlyFreshMarks'
  BY <1>1 DEF OpenedFileExists, OnlyFreshMarks
<1>12. FreshFileIsFull' /\ StaticCreated'
  BY <1>1, <1>10 DEF FreshFileIsFull, StaticCreated
<1>13. LoopOnPrefix'
  <2> SUFFICES ASSUME NEW j \in Instances, pc'[j] \in {"migrating", "inTransaction"}
               PROVE  1..(version'[j] - 1) \subseteq shape'
    BY DEF LoopOnPrefix
  <2>1. CASE j = i
    <3>1. version'[j] - 1 = v
      BY <1>1, <1>2, <2>1 DEF Versions
    <3> QED
      BY <1>3, <3>1
  <2>2. CASE j # i
    BY <1>1, <2>2 DEF LoopOnPrefix
  <2> QED
    BY <2>1, <2>2
<1> QED
  BY <1>8, <1>9, <1>11, <1>12, <1>13 DEF SafeLocal

(* A build is only replaced while nothing runs, when no place claims anything. *)
LEMMA InstallBuildStep == IInv /\ InstallBuild => SafeFile' /\ SafeLocal'
<1> SUFFICES ASSUME IInv, InstallBuild PROVE SafeFile' /\ SafeLocal'
  OBVIOUS
<1>1. \A i \in Instances : pc'[i] = "down"
  BY DEF InstallBuild, local
<1>2. SafeFile'
  BY DEF IInv, InstallBuild, file, SafeFile, MarkedVersionsAreProvided, MigratesOnce,
         AbsentFileIsEmpty, RanIsMarked
<1>3. SafeLocal'
  BY <1>1 DEF SafeLocal, ReadyIsCurrent, OpenedFileExists, FreshFileIsFull, StaticCreated,
              OnlyFreshMarks, LoopOnPrefix, Opened
<1> QED
  BY <1>2, <1>3

(* A file created empty behind an instance's back takes nothing from what the *)
(* instance knows: one that saw no file still finds only tables of its build. *)
LEMMA ValidatePasswordStep == IInv /\ ValidatePassword => SafeFile' /\ SafeLocal'
  BY DEF IInv, ValidatePassword, local, SafeFile, MarkedVersionsAreProvided, MigratesOnce,
         AbsentFileIsEmpty, RanIsMarked, SafeLocal, ReadyIsCurrent, OpenedFileExists,
         FreshFileIsFull, StaticCreated, OnlyFreshMarks, LoopOnPrefix

LEMMA StutterStep == IInv /\ UNCHANGED vars => SafeFile' /\ SafeLocal'
  BY DEF IInv, vars, file, local, SafeFile, MarkedVersionsAreProvided, MigratesOnce,
         AbsentFileIsEmpty, RanIsMarked, SafeLocal, ReadyIsCurrent, OpenedFileExists,
         FreshFileIsFull, StaticCreated, OnlyFreshMarks, LoopOnPrefix

LEMMA InvStep == IInv /\ [Next]_vars => IInv'
<1> SUFFICES ASSUME IInv, [Next]_vars PROVE IInv'
  OBVIOUS
<1>1. TypeOK' /\ LoopInRange'
  BY TypeStep, Split
<1>2. SafeFile' /\ SafeLocal'
  BY QuietStep, CreateStaticStep, ReadHighWaterStep, MarkFreshStep, CommitVersionStep,
     InstallBuildStep, ValidatePasswordStep, StutterStep DEF Next, Work
<1>3. IInv' <=> TypeOK' /\ LoopInRange' /\ SafeFile' /\ SafeLocal'
  BY DEF IInv, SafeFile, SafeLocal
<1> QED
  BY <1>1, <1>2, <1>3

THEOREM Invariance == Spec => []IInv
  BY InvInit, InvStep, PTL DEF Spec

(* Whatever the number of instances, versions and crashes: the recorded mark *)
(* never claims objects the file does not have.                              *)
THEOREM MarkIsBacked == Spec => []MarkedVersionsAreProvided
<1>1. IInv => MarkedVersionsAreProvided
  BY DEF IInv
<1> QED
  BY <1>1, Invariance, PTL

(* No version's SQL and finalizer are committed twice. *)
THEOREM ConversionsRunOnce == Spec => []MigratesOnce
<1>1. IInv => MigratesOnce
  BY DEF IInv
<1> QED
  BY <1>1, Invariance, PTL

(* A finished initialization leaves the build's whole schema behind. *)
THEOREM ReadyMeansCurrent == Spec => []ReadyIsCurrent
<1>1. IInv => ReadyIsCurrent
  BY DEF IInv
<1> QED
  BY <1>1, Invariance, PTL

-----------------------------------------------------------------------------
(* Refinement of SchemaLedger. *)

LEMMA LedgerInit == Init => Ledger!Init
<1> SUFFICES ASSUME Init PROVE Ledger!Init
  OBVIOUS
<1>1. PICK n \in 0..MaxVersion :
        /\ shape = 1..n
        /\ markers \in {{}, {n} \ {0}}
  BY DEF Init
<1>2. shape \in SUBSET (1..MaxVersion)
  BY <1>1, MigrationConstants
<1>3. \E m \in 0..MaxVersion :
        1..m \subseteq shape /\ markers = (IF m = 0 THEN {} ELSE {m})
  <2>1. CASE markers = {}
    <3>1. 1..0 = {} /\ 0 \in 0..MaxVersion
      BY MigrationConstants
    <3> QED
      BY <2>1, <3>1
  <2>2. CASE markers # {}
    BY <1>1, <2>2
  <2> QED
    BY <2>1, <2>2
<1>4. {v \in Versions : ran[v] > 0} = {}
  BY DEF Init
<1> QED
  BY <1>2, <1>3, <1>4 DEF Ledger!Init

(* Static creation provides, the fresh marker installs, a committed version  *)
(* migrates, and every other step is invisible to the ledger.                *)
LEMMA LedgerStep == IInv /\ [Next]_vars => [Ledger!Next]_(Ledger!ledger)
<1> SUFFICES ASSUME IInv, [Next]_vars PROVE [Ledger!Next]_(Ledger!ledger)
  OBVIOUS
<1> USE DEF Ledger!ledger
<1>1. ASSUME UNCHANGED <<shape, markers, ran>> PROVE UNCHANGED Ledger!ledger
  BY <1>1
<1>2. ASSUME NEW i \in Instances,
             \/ Observe(i) \/ Open(i) \/ ReadHighWater(i) \/ BeginVersion(i)
             \/ RollBackVersion(i) \/ Fail(i) \/ Close(i) \/ Crash(i)
      PROVE  UNCHANGED <<shape, markers, ran>>
  BY <1>2 DEF Observe, Open, ReadHighWater, BeginVersion, RollBackVersion, Fail, Close,
              Crash, file
<1>3. ASSUME NEW i \in Instances, CreateStatic(i) PROVE Ledger!Next
  <2>1. StaticVersions(build) \in SUBSET (1..MaxVersion)
    BY MigrationConstants DEF StaticVersions, IInv, TypeOK, Versions
  <2>2. shape' = shape \cup StaticVersions(build) /\ UNCHANGED <<markers, ran>>
    BY <1>3 DEF CreateStatic
  <2>3. Ledger!Provide(StaticVersions(build))
    BY <2>2 DEF Ledger!Provide
  <2> QED
    BY <2>1, <2>3 DEF Ledger!Next
<1>4. ASSUME NEW i \in Instances, MarkFresh(i) PROVE Ledger!Next
  <2>1. 1..build \subseteq shape
    BY <1>4, FreshPrefix DEF MarkFresh
  <2>2. Ledger!Install(build)
    BY <1>4, <2>1 DEF MarkFresh, Ledger!Install
  <2>3. build \in 1..MaxVersion
    BY DEF IInv, TypeOK, Versions
  <2> QED
    BY <2>2, <2>3 DEF Ledger!Next
<1>5. ASSUME NEW i \in Instances, CommitVersion(i) PROVE Ledger!Next
  <2> DEFINE v == version[i]
  <2>1. v \in 1..MaxVersion
    BY <1>5, MigrationConstants DEF CommitVersion, IInv, TypeOK, LoopInRange, Versions
  <2>2. 1..(v - 1) \subseteq shape
    BY <1>5 DEF CommitVersion, IInv, LoopOnPrefix
  <2>3. {w \in Versions : ran'[w] > 0} = {w \in Versions : ran[w] > 0} \cup {v}
    BY <1>5, <2>1 DEF CommitVersion, IInv, TypeOK, Versions
  <2>4. Ledger!Migrate(v)
    BY <1>5, <2>2, <2>3 DEF CommitVersion, Ledger!Migrate
  <2>5. \E w \in 1..MaxVersion : Ledger!Migrate(w)
    BY <2>1, <2>4 DEF Ledger!Migrate
  <2> QED
    BY <2>5 DEF Ledger!Next
<1>6. InstallBuild => UNCHANGED <<shape, markers, ran>>
  BY DEF InstallBuild, file
<1>7. ValidatePassword => UNCHANGED <<shape, markers, ran>>
  BY DEF ValidatePassword
<1>8. UNCHANGED vars => UNCHANGED <<shape, markers, ran>>
  BY DEF vars, file
<1> QED
  BY <1>1, <1>2, <1>3, <1>4, <1>5, <1>6, <1>7, <1>8 DEF Next, Work

(* Every behaviour of the instances, seen from the file, is a behaviour of   *)
(* the ledger that later startups rely on.                                   *)
THEOREM RefinesLedger == Spec => ImplementsLedger
  BY LedgerInit, LedgerStep, Invariance, PTL DEF Spec, ImplementsLedger, Ledger!Spec

=============================================================================
