------------------------ MODULE AgentMemoryFtsProofs ------------------------
(*****************************************************************************)
(* Proofs about AgentMemoryFts for any memories, contents, generations and   *)
(* faults.  A session without trigram drops the mirror and from then on      *)
(* writes memories without touching the generations: that the drop took      *)
(* place (~DropMayFail) is a hypothesis of what is said about the mirror.    *)
(*****************************************************************************)
EXTENDS AgentMemoryFts, FiniteSetTheorems, TLAPS

(* The connection sees what is committed unless a transaction is open. *)
SeenIsCommitted == ~inTxn => seen = disk

(* An owner that trusts its mirror probed trigram, and the generations agree. *)
ReadyIsTrigram == ready => capability = "trigram" /\ pc # "closed"

ReadyIsValid == ready /\ ~inTxn => IsValid(disk)

(* Where memories are written without their mirror there is none. *)
UnmirroredIsAbsent == pc # "closed" /\ capability # "trigram" /\ ~inTxn => disk.index = Absent

Safe ==
  /\ SeenIsCommitted
  /\ ReadyIsTrigram
  /\ ReadyIsValid
  /\ UnmirroredIsAbsent
  /\ ValidOnDiskIsExact

IInv == TypeOK /\ Safe
-----------------------------------------------------------------------------
(* What the operators of the module return. *)

LEMMA RowTypes ==
  /\ \A row \in Rows : Recallable(row) \in Contents \cup {None}
  /\ \A memory \in [Ids -> Rows] : Mirror(memory) \in Mirrors
  /\ [i \in Ids |-> None] \in Mirrors
  BY DEF Recallable, Mirror, Mirrors, Rows

LEMMA IndexTypes == \A index \in Mirrors : index \notin {Absent, Broken}
  BY FtsConstants

LEMMA MetaType ==
  ASSUME NEW meta
  PROVE  meta \in Metas \ {NoMeta} <=>
           /\ meta \in [current : BOOLEAN, mutation : Generations, indexed : Generations]
           /\ meta.indexed <= meta.mutation
  BY FtsConstants DEF Metas

LEMMA StoreParts ==
  ASSUME NEW store \in Stores
  PROVE  /\ store.memory \in [Ids -> Rows]
         /\ store.index \in Mirrors \cup {Absent, Broken}
         /\ store.meta \in Metas
  BY DEF Stores

(* A store whose parts are replaced by parts of their types is a store.      *)
LEMMA StoreReplaced ==
  ASSUME NEW store \in Stores
  PROVE  /\ \A memory \in [Ids -> Rows] : [store EXCEPT !.memory = memory] \in Stores
         /\ \A index \in Mirrors \cup {Absent, Broken} : [store EXCEPT !.index = index] \in Stores
         /\ \A meta \in Metas : [store EXCEPT !.meta = meta] \in Stores
  BY DEF Stores

LEMMA ChangeType ==
  ASSUME NEW c \in Changes
  PROVE  /\ DOMAIN c \subseteq Ids /\ DOMAIN c # {} /\ IsFiniteSet(DOMAIN c)
         /\ \A i \in DOMAIN c : c[i] \in Rows
         /\ Cardinality(DOMAIN c) \in Nat /\ Cardinality(DOMAIN c) > 0
<1>1. DOMAIN c \subseteq Ids /\ DOMAIN c # {} /\ \A i \in DOMAIN c : c[i] \in Rows
  BY DEF Changes
<1>2. IsFiniteSet(DOMAIN c)
  BY <1>1, FtsConstants, FS_Subset
<1>3. Cardinality(DOMAIN c) \in Nat /\ Cardinality(DOMAIN c) # 0
  BY <1>1, <1>2, FS_CardinalityType, FS_EmptySet
<1> QED
  BY <1>1, <1>2, <1>3

LEMMA UpdatedTypes ==
  ASSUME NEW c \in Changes, NEW memory \in [Ids -> Rows], NEW index \in Mirrors,
         NEW done \in SUBSET DOMAIN c
  PROVE  /\ Updated(memory, c) \in [Ids -> Rows]
         /\ Updated(index, [i \in done |-> Recallable(c[i])]) \in Mirrors
         /\ Updated(Mirror(memory), Mirrored(c)) = Mirror(Updated(memory, c))
<1>1. \A i \in DOMAIN c : c[i] \in Rows
  BY ChangeType
<1>2. \A i \in done : Recallable(c[i]) \in Contents \cup {None}
  BY <1>1, RowTypes
<1>3. Updated(memory, c) \in [Ids -> Rows]
  BY <1>1 DEF Updated
<1>4. Updated(index, [i \in done |-> Recallable(c[i])]) \in Mirrors
  BY <1>2 DEF Updated, Mirrors
<1>5. ASSUME NEW i \in Ids
      PROVE  Updated(Mirror(memory), Mirrored(c))[i] = Mirror(Updated(memory, c))[i]
  BY DEF Updated, Mirror, Mirrored
<1> QED
  BY <1>3, <1>4, <1>5 DEF Updated, Mirror

(* Marking rows dirty and some of them indexed leaves equal generations      *)
(* behind only when all were indexed.                                        *)
LEMMA MarkedType ==
  ASSUME NEW meta \in Metas \ {NoMeta}, NEW c \in Changes, NEW done \in SUBSET DOMAIN c,
         meta.mutation + Cardinality(DOMAIN c) <= MaxGeneration
  PROVE  /\ Marked(meta, c, done) \in Metas \ {NoMeta}
         /\ Marked(meta, c, done).current = meta.current
         /\ Marked(meta, c, done).mutation = Marked(meta, c, done).indexed <=> done = DOMAIN c
<1> DEFINE n == Cardinality(DOMAIN c)
           k == Cardinality(done)
<1>1. /\ meta \in [current : BOOLEAN, mutation : Generations, indexed : Generations]
      /\ meta.mutation \in Nat /\ meta.indexed \in Nat /\ meta.indexed <= meta.mutation
  BY MetaType DEF Generations
<1>2. n \in Nat /\ n > 0 /\ IsFiniteSet(DOMAIN c) /\ DOMAIN c # {}
  BY ChangeType
<1>3. k \in Nat /\ k <= n /\ (k = n <=> done = DOMAIN c)
  BY <1>2, FS_Subset, FS_CardinalityType
<1>4. Marked(meta, c, done) = [meta EXCEPT !.mutation = meta.mutation + n,
                                 !.indexed = IF done = {} THEN meta.indexed ELSE meta.mutation + k]
  BY DEF Marked
<1> HIDE DEF n, k
<1>5. /\ Marked(meta, c, done)
           \in [current : BOOLEAN, mutation : Generations, indexed : Generations]
      /\ Marked(meta, c, done).current = meta.current
      /\ Marked(meta, c, done).mutation = meta.mutation + n
      /\ Marked(meta, c, done).indexed = (IF done = {} THEN meta.indexed ELSE meta.mutation + k)
  <2>1. meta.mutation + n \in Generations /\ meta.mutation + k \in Generations
    BY <1>1, <1>2, <1>3, FtsConstants DEF Generations, n
  <2> QED
    BY <1>1, <1>4, <2>1
<1>6. Marked(meta, c, done).indexed <= Marked(meta, c, done).mutation
  BY <1>1, <1>2, <1>3, <1>5
<1>7. Marked(meta, c, done).mutation = Marked(meta, c, done).indexed <=> done = DOMAIN c
  BY <1>1, <1>2, <1>3, <1>5
<1> QED
  BY <1>5, <1>6, <1>7, MetaType

-----------------------------------------------------------------------------
(* Type correctness. *)

LEMMA FaultsType == ASSUME TypeOK, Fault \/ NoFault PROVE faults' \in 0..MaxFaults
  BY FtsConstants DEF Fault, NoFault, TypeOK

LEMMA AutocommitType ==
  ASSUME TypeOK, NEW store \in Stores, Autocommit(store)
  PROVE  disk' \in Stores /\ seen' \in Stores /\ leftOpen' \in {"none", "rebuild", "commit"}
  BY DEF Autocommit, TypeOK

LEMMA RebuildType ==
  ASSUME TypeOK, Rebuild \/ RebuildUnrecorded \/ RebuildAborted
  PROVE  disk' \in Stores /\ seen' \in Stores /\ leftOpen' \in {"none", "rebuild", "commit"}
<1> DEFINE mirrored == [seen EXCEPT !.index = Mirror(seen.memory)]
           generation == Generation(seen.meta)
           meta == [current |-> TRUE, mutation |-> generation, indexed |-> generation]
<1>1. seen \in Stores /\ Mirror(seen.memory) \in Mirrors
  BY StoreParts, RowTypes DEF TypeOK
<1>2. mirrored \in Stores /\ mirrored.index = Mirror(seen.memory)
  BY <1>1, StoreReplaced DEF Stores
<1>3. generation \in Generations
  BY <1>1, StoreParts, MetaType, FtsConstants DEF Generation, Generations
<1>4. meta \in Metas
  <2>1. meta.indexed <= meta.mutation
    BY <1>3 DEF Generations
  <2> QED
    BY <1>3, <2>1, MetaType
<1>5. CASE Rebuild
  <2>1. [seen EXCEPT !.index = Mirror(seen.memory), !.meta = meta] = [mirrored EXCEPT !.meta = meta]
    BY <1>1 DEF Stores
  <2>2. [mirrored EXCEPT !.meta = meta] \in Stores
    BY <1>2, <1>4, StoreReplaced
  <2> QED
    BY <1>5, <2>1, <2>2, AutocommitType DEF Rebuild
<1>6. CASE RebuildUnrecorded
  BY <1>2, <1>6, AutocommitType DEF RebuildUnrecorded
<1>7. CASE RebuildAborted
  <2>1. \A index \in {seen.index, Absent, [i \in Ids |-> None], Mirror(seen.memory)} :
          [seen EXCEPT !.index = index] \in Stores
    BY <1>1, StoreParts, RowTypes, StoreReplaced
  <2> QED
    BY <1>7, <2>1 DEF RebuildAborted, TypeOK
<1> QED
  BY <1>5, <1>6, <1>7

LEMMA DiscardType ==
  ASSUME TypeOK, Discard
  PROVE  /\ disk' \in Stores /\ seen' \in Stores
         /\ leftOpen' \in {"none", "rebuild", "commit"} /\ ready' \in BOOLEAN
<1>1. PICK index \in {Absent, seen.index} : Autocommit([seen EXCEPT !.index = index])
  BY DEF Discard
<1>2. [seen EXCEPT !.index = index] \in Stores
  BY StoreParts, StoreReplaced DEF TypeOK
<1> QED
  BY <1>1, <1>2, AutocommitType DEF Discard

LEMMA EnsureType ==
  ASSUME TypeOK, EnsureIndex \/ EnsureFails
  PROVE  /\ disk' \in Stores /\ seen' \in Stores
         /\ leftOpen' \in {"none", "rebuild", "commit"} /\ ready' \in BOOLEAN
  BY RebuildType, DiscardType DEF EnsureIndex, EnsureFails, TypeOK, db

(* The store a mutation writes: the rows, and whichever of them were         *)
(* mirrored before the mirror failed.                                        *)
LEMMA WriteForm ==
  ASSUME TypeOK, NEW c \in Changes, Write(c)
  PROVE  /\ ready' \in BOOLEAN /\ faults' \in 0..MaxFaults
         /\ \/ /\ capability # "trigram" /\ UNCHANGED ready
               /\ seen' = [seen EXCEPT !.memory = Updated(@, c)]
            \/ /\ capability = "trigram"
               /\ seen.meta # NoMeta
               /\ seen.meta.mutation + Cardinality(DOMAIN c) <= MaxGeneration
               /\ \E done \in SUBSET DOMAIN c :
                    /\ done # {} => seen.index \notin {Absent, Broken}
                    /\ ready' = (ready /\ done = DOMAIN c)
                    /\ done = DOMAIN c => ready
                    /\ seen' = [memory |-> Updated(seen.memory, c),
                                index |-> IF done = {} THEN seen.index
                                          ELSE Updated(seen.index, [i \in done |-> Recallable(c[i])]),
                                meta |-> Marked(seen.meta, c, done)]
<1>1. DOMAIN c # {} /\ seen \in Stores
  BY ChangeType DEF TypeOK
<1>2. ready' \in BOOLEAN /\ faults' \in 0..MaxFaults
  <2>1. CASE WriteUnmirrored(c) \/ WriteDirty(c) \/ WriteMirrored(c)
    BY <2>1 DEF WriteUnmirrored, WriteDirty, WriteMirrored, NoFault, TypeOK
  <2>2. CASE WriteDegraded(c)
    <3>1. ready' = FALSE /\ (Fault \/ NoFault)
      BY <2>2, Zenon DEF WriteDegraded
    <3> QED
      BY <3>1, FaultsType
  <2> QED
    BY <2>1, <2>2 DEF Write
<1>3. CASE WriteUnmirrored(c)
  BY <1>2, <1>3 DEF WriteUnmirrored
<1>4. CASE ~WriteUnmirrored(c)
  <2> DEFINE Form(done) ==
        /\ done # {} => seen.index \notin {Absent, Broken}
        /\ ready' = (ready /\ done = DOMAIN c)
        /\ done = DOMAIN c => ready
        /\ seen' = [memory |-> Updated(seen.memory, c),
                    index |-> IF done = {} THEN seen.index
                              ELSE Updated(seen.index, [i \in done |-> Recallable(c[i])]),
                    meta |-> Marked(seen.meta, c, done)]
  <2>1. /\ seen.meta # NoMeta
        /\ seen.meta.mutation + Cardinality(DOMAIN c) <= MaxGeneration
        /\ capability = "trigram"
    BY <1>4 DEF Write, WriteDirty, WriteMirrored, WriteDegraded
  <2>2. CASE WriteDirty(c)
    <3>1. Form({})
      BY <1>1, <2>2 DEF WriteDirty, Stores, TypeOK
    <3> QED
      BY <1>2, <2>1, <3>1
  <2>3. CASE WriteMirrored(c)
    <3>1. Form(DOMAIN c)
      BY <1>1, <2>3 DEF WriteMirrored, Maintainable, Mirrored, TypeOK
    <3> QED
      BY <1>2, <2>1, <3>1
  <2>4. CASE WriteDegraded(c)
    <3>1. PICK done \in SUBSET DOMAIN c : Form(done)
      BY <1>1, <2>4 DEF WriteDegraded, Maintainable
    <3> QED
      BY <1>2, <2>1, <3>1
  <2> QED
    BY <1>4, <2>2, <2>3, <2>4 DEF Write
<1> QED
  BY <1>3, <1>4

LEMMA WriteType ==
  ASSUME TypeOK, NEW c \in Changes, Write(c)
  PROVE  seen' \in Stores /\ seen'.memory = Updated(seen.memory, c)
<1>1. /\ seen \in Stores /\ seen.memory \in [Ids -> Rows]
      /\ seen.index \in Mirrors \cup {Absent, Broken} /\ seen.meta \in Metas
  BY StoreParts DEF TypeOK
<1>2. Updated(seen.memory, c) \in [Ids -> Rows]
  BY <1>1, RowTypes, UpdatedTypes
<1>3. CASE seen' = [seen EXCEPT !.memory = Updated(@, c)]
  BY <1>1, <1>2, <1>3 DEF Stores
<1>4. CASE seen' # [seen EXCEPT !.memory = Updated(@, c)]
  <2>1. PICK done \in SUBSET DOMAIN c :
          /\ seen.meta # NoMeta
          /\ seen.meta.mutation + Cardinality(DOMAIN c) <= MaxGeneration
          /\ done # {} => seen.index \notin {Absent, Broken}
          /\ seen' = [memory |-> Updated(seen.memory, c),
                      index |-> IF done = {} THEN seen.index
                                ELSE Updated(seen.index, [i \in done |-> Recallable(c[i])]),
                      meta |-> Marked(seen.meta, c, done)]
    BY <1>4, WriteForm
  <2>2. Marked(seen.meta, c, done) \in Metas
    BY <1>1, <2>1, MarkedType
  <2>3. CASE done = {}
    BY <1>1, <1>2, <2>1, <2>2, <2>3 DEF Stores
  <2>4. CASE done # {}
    <3>1. Updated(seen.index, [i \in done |-> Recallable(c[i])]) \in Mirrors
      BY <1>1, <2>1, <2>4, UpdatedTypes
    <3> QED
      BY <1>2, <2>1, <2>2, <2>4, <3>1 DEF Stores
  <2> QED
    BY <2>3, <2>4
<1> QED
  BY <1>3, <1>4

LEMMA TypeInit == Init => TypeOK
<1> SUFFICES ASSUME Init PROVE TypeOK
  OBVIOUS
<1>1. PICK memory \in [Ids -> Rows], meta \in Metas :
        \E index \in {Absent, Mirror(memory), [i \in Ids |-> None]} :
          disk = [memory |-> memory, index |-> index, meta |-> meta]
  BY DEF Init
<1>2. disk \in Stores
  BY <1>1, RowTypes DEF Stores
<1>3. 0 \in 0..MaxFaults
  BY FtsConstants
<1> QED
  BY <1>2, <1>3 DEF Init, TypeOK, Capabilities

LEMMA TypeStep == TypeOK /\ [Next]_vars => TypeOK'
<1> SUFFICES ASSUME TypeOK, [Next]_vars PROVE TypeOK'
  OBVIOUS
<1> USE DEF db, owner
<1>1. CASE Open \/ OpenFails
  BY <1>1, FaultsType, EnsureType DEF Open, OpenFails, EnsureFails, TypeOK, Capabilities
<1>2. CASE Mutate
  BY <1>2, WriteType, WriteForm DEF Mutate, Idle, TypeOK
<1>3. CASE MutateFails
  BY <1>3, FaultsType DEF MutateFails, Idle, TypeOK
<1>4. CASE CommitFails
  BY <1>4, WriteType, WriteForm DEF CommitFails, Idle, TypeOK
<1>5. CASE MutateRefused
  BY <1>5 DEF MutateRefused, Idle, TypeOK
<1>6. CASE Recover
  <2>1. EnsureIndex \/ EnsureFails
    BY <1>6 DEF Recover
  <2>2. Fault \/ NoFault
    BY <1>6 DEF Recover
  <2>3. cooling' \in BOOLEAN /\ pc' = "reading" /\ UNCHANGED <<capability, outcome>>
    BY <1>6, Zenon DEF Recover
  <2> QED
    BY <2>1, <2>2, <2>3, FaultsType, EnsureType DEF TypeOK
<1>7. CASE NoRecovery \/ Answer
  BY <1>7 DEF NoRecovery, Answer, TypeOK
<1>8. CASE AnswerFails
  <2>1. ASSUME seen.meta # NoMeta, seen.meta.mutation < MaxGeneration
        PROVE  [seen EXCEPT !.meta.mutation = @ + 1] \in Stores
    <3>1. /\ seen \in Stores /\ seen.meta \in Metas \ {NoMeta}
      BY <2>1, StoreParts DEF TypeOK
    <3>2. [seen.meta EXCEPT !.mutation = @ + 1] \in Metas
      BY <2>1, <3>1, MetaType, FtsConstants DEF Generations
    <3> QED
      BY <3>1, <3>2 DEF Stores
  <2>2. disk' \in Stores /\ seen' \in Stores /\ leftOpen' \in {"none", "rebuild", "commit"}
    BY <1>8, <2>1, AutocommitType DEF AnswerFails, TypeOK
  <2> QED
    BY <1>8, <2>2, FaultsType DEF AnswerFails, TypeOK
<1>9. CASE CooldownEnds
  BY <1>9 DEF CooldownEnds, TypeOK
<1>10. CASE Close
  BY <1>10 DEF Close, TypeOK
<1>11. CASE RepairMemories
  <2>1. PICK i \in Ids, row \in Rows :
          Autocommit([disk EXCEPT !.memory[i] = row, !.meta = NoMeta])
    BY <1>11 DEF RepairMemories
  <2>2. [disk EXCEPT !.memory[i] = row, !.meta = NoMeta] \in Stores
    BY <2>1, FtsConstants DEF TypeOK, Stores, Metas
  <2> QED
    BY <1>11, <2>1, <2>2, AutocommitType DEF RepairMemories, TypeOK
<1>12. CASE Damage
  <2>1. [disk EXCEPT !.index = Broken] \in Stores
    BY StoreReplaced DEF TypeOK
  <2> QED
    BY <1>12, <2>1, FaultsType, AutocommitType DEF Damage, TypeOK
<1>13. CASE UNCHANGED vars
  BY <1>13 DEF vars, TypeOK
<1> QED
  BY <1>1, <1>2, <1>3, <1>4, <1>5, <1>6, <1>7, <1>8, <1>9, <1>10, <1>11, <1>12, <1>13
     DEF Next, Search

(* Every reachable state is well typed: the generation indexed never passes  *)
(* the generation of the mutations, for bulk writes of any size.             *)
THEOREM TypeCorrect == Spec => []TypeOK
  BY TypeInit, TypeStep, PTL DEF Spec

-----------------------------------------------------------------------------
(* The memories.  Upkeep of the mirror leaves them alone, on the connection  *)
(* and on disk, and nothing is seen that is not committed or still open.     *)

LEMMA AutocommitKeeps ==
  ASSUME TypeOK, SeenIsCommitted, NEW store, Autocommit(store)
  PROVE  /\ SeenIsCommitted' /\ leftOpen' = leftOpen /\ seen' = store
         /\ inTxn => UNCHANGED disk
         /\ ~inTxn => disk' = store
         /\ store.memory = seen.memory =>
              disk'.memory = disk.memory /\ seen'.memory = seen.memory
  BY DEF Autocommit, SeenIsCommitted, inTxn

LEMMA RebuildKeeps ==
  ASSUME TypeOK, SeenIsCommitted, Rebuild \/ RebuildUnrecorded \/ RebuildAborted
  PROVE  SeenIsCommitted' /\ disk'.memory = disk.memory /\ seen'.memory = seen.memory
<1>1. seen \in Stores
  BY DEF TypeOK
<1>2. CASE RebuildAborted
  BY <1>1, <1>2 DEF RebuildAborted, SeenIsCommitted, inTxn, Stores
<1>3. ASSUME NEW store, store.memory = seen.memory, Autocommit(store)
      PROVE  SeenIsCommitted' /\ disk'.memory = disk.memory /\ seen'.memory = seen.memory
  BY <1>3, AutocommitKeeps
<1>4. CASE Rebuild
  <2> DEFINE store == [seen EXCEPT !.index = Mirror(seen.memory),
                         !.meta = [current |-> TRUE, mutation |-> Generation(seen.meta),
                                   indexed |-> Generation(seen.meta)]]
  <2>1. store.memory = seen.memory
    BY <1>1 DEF Stores
  <2>2. Autocommit(store)
    BY <1>4 DEF Rebuild
  <2> HIDE DEF store
  <2> QED
    BY <1>3, <2>1, <2>2
<1>5. CASE RebuildUnrecorded
  <2>1. [seen EXCEPT !.index = Mirror(seen.memory)].memory = seen.memory
    BY <1>1 DEF Stores
  <2> QED
    BY <1>3, <1>5, <2>1 DEF RebuildUnrecorded
<1> QED
  BY <1>2, <1>4, <1>5

LEMMA EnsureKeeps ==
  ASSUME TypeOK, SeenIsCommitted, EnsureIndex \/ EnsureFails
  PROVE  SeenIsCommitted' /\ disk'.memory = disk.memory /\ seen'.memory = seen.memory
<1>1. CASE UNCHANGED db
  BY <1>1 DEF db, SeenIsCommitted, inTxn
<1>2. CASE Discard
  <2>1. PICK index \in {Absent, seen.index} : Autocommit([seen EXCEPT !.index = index])
    BY <1>2 DEF Discard
  <2>2. [seen EXCEPT !.index = index].memory = seen.memory
    BY DEF TypeOK, Stores
  <2> QED
    BY <2>1, <2>2, AutocommitKeeps
<1> QED
  BY <1>1, <1>2, RebuildKeeps DEF EnsureIndex, EnsureFails, db

(* One step, seen by the memories.                                           *)
AllOrNothing ==
  /\ pc = "idle" /\ outcome' = "ok" /\ seen'.memory # seen.memory
       => disk'.memory = seen'.memory
  /\ pc # "closed" /\ disk'.memory # disk.memory => outcome' = "ok"

LEMMA MemoriesStep ==
  TypeOK /\ SeenIsCommitted /\ [Next]_vars => SeenIsCommitted' /\ AllOrNothing
<1> SUFFICES ASSUME TypeOK, SeenIsCommitted, [Next]_vars PROVE SeenIsCommitted' /\ AllOrNothing
  OBVIOUS
<1> USE DEF db, owner
<1>1. ASSUME disk'.memory = disk.memory, seen'.memory = seen.memory PROVE AllOrNothing
  BY <1>1 DEF AllOrNothing
<1>2. CASE UNCHANGED db
  BY <1>1, <1>2 DEF SeenIsCommitted, inTxn
<1>3. CASE Open \/ OpenFails \/ Recover
  BY <1>1, <1>2, <1>3, EnsureKeeps DEF Open, OpenFails, Recover
<1>4. CASE Mutate
  BY <1>4 DEF Mutate, SeenIsCommitted, AllOrNothing
<1>5. CASE CommitFails
  BY <1>5 DEF CommitFails, SeenIsCommitted, inTxn, AllOrNothing
<1>6. CASE MutateFails \/ MutateRefused \/ NoRecovery \/ Answer \/ CooldownEnds \/ UNCHANGED vars
  BY <1>2, <1>6 DEF MutateFails, MutateRefused, NoRecovery, Answer, CooldownEnds, vars
<1>7. CASE AnswerFails
  <2> DEFINE store == [seen EXCEPT !.meta.mutation = @ + 1]
  <2>1. store.memory = seen.memory
    BY DEF TypeOK, Stores
  <2>2. UNCHANGED db \/ Autocommit(store)
    BY <1>7, Zenon DEF AnswerFails
  <2> HIDE DEF store
  <2> QED
    BY <1>1, <1>2, <2>1, <2>2, AutocommitKeeps
<1>8. CASE Close
  BY <1>8 DEF Close, SeenIsCommitted, AllOrNothing
<1>9. CASE RepairMemories
  BY <1>9, AutocommitKeeps DEF RepairMemories, AllOrNothing
<1>10. CASE Damage
  <2> DEFINE store == [disk EXCEPT !.index = Broken]
  <2>1. store.memory = disk.memory
    BY DEF TypeOK, Stores
  <2>2. seen = disk /\ Autocommit(store)
    BY <1>10 DEF Damage, SeenIsCommitted
  <2> HIDE DEF store
  <2> QED
    BY <1>1, <2>1, <2>2, AutocommitKeeps
<1> QED
  BY <1>3, <1>4, <1>5, <1>6, <1>7, <1>8, <1>9, <1>10 DEF Next, Search

LEMMA Committed == Spec => []SeenIsCommitted
<1>1. Init => SeenIsCommitted
  BY DEF Init, SeenIsCommitted
<1> QED
  BY <1>1, MemoriesStep, TypeCorrect, PTL DEF Spec

(* A mutation that reports success is on disk, one that reports failure      *)
(* never gets there, and upkeep of the mirror changes no memory.             *)
THEOREM MutationsHold == Spec => MutationsAreAllOrNothing
<1>1. TypeOK /\ SeenIsCommitted /\ [Next]_vars => AllOrNothing
  BY MemoriesStep
<1> QED
  BY <1>1, TypeCorrect, Committed, PTL DEF Spec, MutationsAreAllOrNothing, AllOrNothing

-----------------------------------------------------------------------------
(* The mirror.  What upkeep leaves behind, by what it did to the store the   *)
(* connection sees.                                                          *)

Exact(store) == IsValid(store) => store.index \in {Mirror(store.memory), Broken}

LEMMA AutocommitSafe ==
  ASSUME IInv, NEW store, Autocommit(store), Exact(store)
  PROVE  ValidOnDiskIsExact'
  BY DEF IInv, Safe, Autocommit, ValidOnDiskIsExact, Exact, IsValid, Mirror

LEMMA RebuildSafe ==
  ASSUME IInv, Rebuild \/ RebuildUnrecorded \/ RebuildAborted
  PROVE  /\ ValidOnDiskIsExact'
         /\ Rebuild /\ ~inTxn => IsValid(disk')
<1>1. /\ seen \in Stores /\ seen.memory \in [Ids -> Rows]
      /\ Mirror(seen.memory) \in Mirrors /\ Mirror(seen.memory) \notin {Absent, Broken}
  BY StoreParts, RowTypes, IndexTypes DEF IInv, TypeOK
<1> DEFINE generation == Generation(seen.meta)
           meta == [current |-> TRUE, mutation |-> generation, indexed |-> generation]
           store == [seen EXCEPT !.index = Mirror(seen.memory), !.meta = meta]
           unrecorded == [seen EXCEPT !.index = Mirror(seen.memory)]
<1>2. CASE Rebuild
  <2>1. meta # NoMeta
    <3>1. generation \in Generations
      BY <1>1, StoreParts, MetaType, FtsConstants DEF Generation, Generations
    <3>2. meta.indexed <= meta.mutation
      BY <3>1 DEF Generations
    <3> QED
      BY <3>1, <3>2, MetaType
  <2>2. store.memory = seen.memory /\ store.index = Mirror(seen.memory) /\ store.meta = meta
    BY <1>1 DEF Stores
  <2>3. IsValid(store) /\ Exact(store)
    BY <1>1, <2>1, <2>2 DEF IsValid, Exact
  <2>4. Autocommit(store)
    BY <1>2 DEF Rebuild
  <2> HIDE DEF store
  <2> QED
    BY <2>3, <2>4, AutocommitSafe DEF Autocommit
<1>3. CASE RebuildUnrecorded
  <2>1. unrecorded.memory = seen.memory /\ unrecorded.index = Mirror(seen.memory)
    BY <1>1 DEF Stores
  <2>2. Autocommit(unrecorded)
    BY <1>3 DEF RebuildUnrecorded
  <2> HIDE DEF unrecorded
  <2> QED
    BY <1>2, <2>1, <2>2, AutocommitSafe DEF Exact
<1>4. CASE RebuildAborted
  <2>1. UNCHANGED disk
    BY <1>4 DEF RebuildAborted
  <2> QED
    BY <1>2, <2>1 DEF IInv, Safe, ValidOnDiskIsExact, IsValid, Mirror
<1> QED
  BY <1>2, <1>3, <1>4

LEMMA EnsureSafe ==
  ASSUME IInv, ~DropMayFail, EnsureIndex
  PROVE  /\ ValidOnDiskIsExact' /\ leftOpen' = leftOpen
         /\ ready' => capability' = "trigram" /\ (~inTxn => IsValid(disk'))
         /\ capability' # "trigram" /\ ~inTxn => disk'.index = Absent
<1>1. seen \in Stores /\ (~inTxn => seen = disk)
  BY DEF IInv, Safe, TypeOK, SeenIsCommitted
<1>2. CASE capability' # "trigram"
  <2> DEFINE store == [seen EXCEPT !.index = Absent]
  <2>1. Autocommit(store) /\ ready' = FALSE
    BY <1>2 DEF EnsureIndex, Discard
  <2>2. store.index = Absent
    BY <1>1 DEF Stores
  <2>3. Exact(store)
    BY <2>2 DEF Exact, IsValid
  <2> HIDE DEF store
  <2> QED
    BY <1>2, <2>1, <2>2, <2>3, AutocommitSafe DEF Autocommit
<1>3. CASE capability' = "trigram" /\ IsValid(seen)
  <2>1. UNCHANGED db /\ ready' = TRUE
    BY <1>3 DEF EnsureIndex
  <2> QED
    BY <1>1, <1>3, <2>1 DEF db, IInv, Safe, ValidOnDiskIsExact, IsValid, Mirror
<1>4. CASE capability' = "trigram" /\ ~IsValid(seen)
  <2>1. Rebuild
    BY <1>4 DEF EnsureIndex
  <2>2. leftOpen' = leftOpen
    BY <2>1 DEF Rebuild, Autocommit
  <2> QED
    BY <1>4, <2>1, <2>2, RebuildSafe
<1> QED
  BY <1>2, <1>3, <1>4

LEMMA EnsureFailsSafe ==
  ASSUME IInv, EnsureFails
  PROVE  ValidOnDiskIsExact' /\ ready' = ready /\ capability' = "trigram"
<1>1. CASE UNCHANGED db
  BY <1>1 DEF EnsureFails, db, IInv, Safe, ValidOnDiskIsExact, IsValid, Mirror
<1>2. CASE RebuildAborted \/ RebuildUnrecorded
  BY <1>2, RebuildSafe DEF EnsureFails
<1> QED
  BY <1>1, <1>2 DEF EnsureFails

(* A mutation whose transaction commits: a mirror that counts as valid was   *)
(* valid before and took every row along.                                    *)
LEMMA WriteSafe ==
  ASSUME IInv, ~inTxn, pc = "idle", NEW c \in Changes, Write(c)
  PROVE  /\ Exact(seen')
         /\ IsValid(seen') => IsValid(disk)
         /\ ready' => ready /\ IsValid(seen')
         /\ capability # "trigram" => seen'.index = Absent
<1>1. /\ seen = disk /\ seen \in Stores /\ seen.memory \in [Ids -> Rows]
      /\ seen.index \in Mirrors \cup {Absent, Broken} /\ seen.meta \in Metas
  BY StoreParts DEF IInv, Safe, TypeOK, SeenIsCommitted
<1>2. TypeOK /\ DOMAIN c # {}
  BY ChangeType DEF IInv
<1>3. CASE capability # "trigram"
  <2>1. seen' = [seen EXCEPT !.memory = Updated(@, c)] /\ ~ready'
    BY <1>2, <1>3, WriteForm DEF IInv, Safe, ReadyIsTrigram
  <2>2. seen'.index = seen.index /\ disk.index = Absent
    BY <1>1, <1>3, <2>1 DEF Stores, IInv, Safe, UnmirroredIsAbsent
  <2> QED
    BY <1>1, <2>1, <2>2 DEF Exact, IsValid
<1>4. CASE capability = "trigram"
  <2>1. PICK done \in SUBSET DOMAIN c :
          /\ seen.meta # NoMeta
          /\ seen.meta.mutation + Cardinality(DOMAIN c) <= MaxGeneration
          /\ done # {} => seen.index \notin {Absent, Broken}
          /\ ready' = (ready /\ done = DOMAIN c)
          /\ done = DOMAIN c => ready
          /\ seen' = [memory |-> Updated(seen.memory, c),
                      index |-> IF done = {} THEN seen.index
                                ELSE Updated(seen.index, [i \in done |-> Recallable(c[i])]),
                      meta |-> Marked(seen.meta, c, done)]
    BY <1>2, <1>4, WriteForm
  <2>2. /\ seen'.meta # NoMeta /\ seen'.meta.current = seen.meta.current
        /\ seen'.meta.mutation = seen'.meta.indexed <=> done = DOMAIN c
    BY <1>1, <2>1, MarkedType
  <2>3. CASE done # DOMAIN c
    BY <1>4, <2>1, <2>2, <2>3 DEF Exact, IsValid
  <2>4. CASE done = DOMAIN c
    <3>1. ready /\ IsValid(disk) /\ seen.index \in Mirrors
      BY <1>1, <1>2, <2>1, <2>4 DEF IInv, Safe, ReadyIsValid
    <3>2. seen.index = Mirror(seen.memory)
      BY <1>1, <2>1, <1>2, <2>4, <3>1 DEF IInv, Safe, ValidOnDiskIsExact
    <3>3. seen'.index = Updated(seen.index, Mirrored(c)) /\ seen'.memory = Updated(seen.memory, c)
      BY <1>2, <2>1, <2>4 DEF Mirrored
    <3>4. seen'.index = Mirror(seen'.memory)
      BY <1>1, <3>1, <3>2, <3>3, UpdatedTypes
    <3>5. seen'.index # Absent
      BY <1>1, <3>3, <3>4, RowTypes, IndexTypes, UpdatedTypes
    <3>6. IsValid(seen')
      BY <1>1, <2>2, <2>4, <3>1, <3>5 DEF IsValid
    <3> QED
      BY <1>4, <3>1, <3>4, <3>6 DEF Exact
  <2> QED
    BY <2>3, <2>4
<1> QED
  BY <1>3, <1>4

LEMMA SafeInit == Init => Safe
<1> SUFFICES ASSUME Init PROVE Safe
  OBVIOUS
<1>1. IsValid(disk) => disk.index = Mirror(disk.memory)
  BY DEF Init
<1> QED
  BY <1>1 DEF Init, Safe, SeenIsCommitted, ReadyIsTrigram, ReadyIsValid, UnmirroredIsAbsent,
              ValidOnDiskIsExact, inTxn

(* A step that leaves what is committed alone, or only closes a transaction. *)
LEMMA QuietSafe ==
  ASSUME IInv, UNCHANGED disk, SeenIsCommitted', ReadyIsTrigram',
         ready' => ready, ~inTxn' /\ pc' # "closed" => ~inTxn /\ pc # "closed",
         capability' = capability
  PROVE  Safe'
  BY DEF IInv, Safe, ReadyIsTrigram, ReadyIsValid, UnmirroredIsAbsent, ValidOnDiskIsExact,
         IsValid, Mirror

LEMMA SafeStep == ~DropMayFail /\ IInv /\ [Next]_vars => Safe'
<1> SUFFICES ASSUME ~DropMayFail, IInv, [Next]_vars PROVE Safe'
  OBVIOUS
<1> USE DEF db, owner, inTxn
<1>0. SeenIsCommitted' /\ TypeOK /\ SeenIsCommitted
  BY MemoriesStep DEF IInv, Safe
<1>1. CASE Open
  <2>1. pc' = "idle" /\ EnsureIndex
    BY <1>1 DEF Open
  <2> QED
    BY <1>0, <2>1, EnsureSafe DEF Safe, ReadyIsTrigram, ReadyIsValid, UnmirroredIsAbsent
<1>2. CASE OpenFails
  <2>1. pc' = "closed" /\ EnsureFails /\ ~ready
    BY <1>2 DEF OpenFails, IInv, Safe, ReadyIsTrigram
  <2> QED
    BY <1>0, <2>1, EnsureFailsSafe DEF Safe, ReadyIsTrigram, ReadyIsValid, UnmirroredIsAbsent
<1>3. CASE Mutate
  <2>1. PICK c \in Changes : Write(c)
    BY <1>3 DEF Mutate
  <2>2. /\ ~inTxn /\ pc = "idle" /\ pc' = "idle" /\ capability' = capability
        /\ disk' = seen' /\ ~inTxn'
    BY <1>3 DEF Mutate, Idle
  <2>3. /\ Exact(seen') /\ (ready' => ready /\ IsValid(seen'))
        /\ capability # "trigram" => seen'.index = Absent
    BY <2>1, <2>2, WriteSafe
  <2>4. ValidOnDiskIsExact'
    BY <2>2, <2>3 DEF ValidOnDiskIsExact, Exact, IsValid, Mirror
  <2> QED
    BY <1>0, <2>2, <2>3, <2>4 DEF IInv, Safe, ReadyIsTrigram, ReadyIsValid,
                            UnmirroredIsAbsent, IsValid
<1>4. CASE MutateFails \/ MutateRefused
  <2>1. UNCHANGED <<disk, seen, leftOpen, capability, pc>>
    BY <1>4 DEF MutateFails, MutateRefused, Idle
  <2>2. ready' => ready
    BY <1>4, Zenon DEF MutateFails, MutateRefused
  <2> QED
    BY <1>0, <2>1, <2>2, QuietSafe DEF IInv, Safe, ReadyIsTrigram
<1>5. CASE CommitFails
  <2>1. PICK c \in Changes : Write(c)
    BY <1>5 DEF CommitFails
  <2>2. /\ ~inTxn /\ pc = "idle" /\ pc' = "idle" /\ capability' = capability
        /\ UNCHANGED disk /\ inTxn'
    BY <1>5 DEF CommitFails, Idle
  <2>3. ready' => ready
    BY <2>1, <2>2, WriteSafe
  <2> QED
    BY <1>0, <2>2, <2>3, QuietSafe DEF IInv, Safe, ReadyIsTrigram
<1>6. CASE Recover
  <2>1. /\ pc = "idle" /\ pc' = "reading" /\ ~ready /\ capability' = capability
        /\ EnsureIndex \/ EnsureFails
    BY <1>6 DEF Recover, RecoveryDue
  <2>2. CASE EnsureIndex
    BY <1>0, <2>1, <2>2, EnsureSafe DEF Safe, ReadyIsTrigram, ReadyIsValid, UnmirroredIsAbsent
  <2>3. CASE EnsureFails
    BY <1>0, <2>1, <2>3, EnsureFailsSafe DEF Safe, ReadyIsTrigram, ReadyIsValid, UnmirroredIsAbsent
  <2> QED
    BY <2>1, <2>2, <2>3
<1>7. CASE NoRecovery \/ Answer \/ CooldownEnds
  <2>1. UNCHANGED <<disk, seen, leftOpen, capability, ready>> /\ (pc' = "closed" <=> pc = "closed")
    BY <1>7 DEF NoRecovery, Answer, CooldownEnds
  <2> QED
    BY <1>0, <2>1, QuietSafe DEF IInv, Safe, ReadyIsTrigram
<1>8. CASE AnswerFails
  <2>1. /\ pc = "reading" /\ pc' = "idle" /\ ready /\ ~ready' /\ capability' = capability
        /\ capability = "trigram"
    BY <1>8 DEF AnswerFails, IInv, Safe, ReadyIsTrigram
  <2>2. CASE UNCHANGED db
    BY <1>0, <2>1, <2>2, QuietSafe DEF IInv, Safe, ReadyIsTrigram
  <2>3. ASSUME seen.meta # NoMeta, Autocommit([seen EXCEPT !.meta.mutation = @ + 1])
        PROVE  Safe'
    <3> DEFINE store == [seen EXCEPT !.meta.mutation = @ + 1]
    <3>1. seen \in Stores /\ seen.meta \in Metas \ {NoMeta}
      BY <2>3, StoreParts DEF IInv, TypeOK
    <3>2. store.meta.mutation = seen.meta.mutation + 1 /\ store.meta.indexed = seen.meta.indexed
      BY <3>1, MetaType DEF Stores
    <3>3. ~IsValid(store)
      BY <3>1, <3>2, MetaType DEF IsValid, Generations
    <3>4. Exact(store)
      BY <3>3 DEF Exact
    <3> HIDE DEF store
    <3> QED
      BY <1>0, <2>1, <2>3, <3>4, AutocommitSafe
         DEF store, Autocommit, Safe, ReadyIsTrigram, ReadyIsValid,
                                              UnmirroredIsAbsent
  <2> QED
    BY <1>8, <2>2, <2>3 DEF AnswerFails
<1>9. CASE Close
  <2>1. UNCHANGED disk /\ seen' = disk /\ ~ready' /\ pc' = "closed" /\ capability' = capability
    BY <1>9 DEF Close
  <2> QED
    BY <1>0, <2>1, QuietSafe DEF ReadyIsTrigram
<1>10. CASE RepairMemories
  <2>1. PICK i \in Ids, row \in Rows :
          Autocommit([disk EXCEPT !.memory[i] = row, !.meta = NoMeta])
    BY <1>10 DEF RepairMemories
  <2> DEFINE store == [disk EXCEPT !.memory[i] = row, !.meta = NoMeta]
  <2>2. store.meta = NoMeta
    BY DEF IInv, TypeOK, Stores
  <2>3. Exact(store)
    BY <2>2 DEF Exact, IsValid
  <2>4. pc = "closed" /\ pc' = "closed" /\ ~ready /\ ~ready'
    BY <1>10 DEF RepairMemories, IInv, Safe, ReadyIsTrigram
  <2> HIDE DEF store
  <2> QED
    BY <1>0, <2>1, <2>3, <2>4, AutocommitSafe
       DEF store, Autocommit, Safe, ReadyIsTrigram, ReadyIsValid,
                                            UnmirroredIsAbsent
<1>11. CASE Damage
  <2> DEFINE store == [disk EXCEPT !.index = Broken]
  <2>1. /\ disk.index # Absent /\ ~inTxn /\ Autocommit(store)
        /\ UNCHANGED <<capability, ready, pc>>
    BY <1>11 DEF Damage
  <2>2. store.index = Broken /\ store.meta = disk.meta
    BY DEF IInv, TypeOK, Stores
  <2>3. Exact(store) /\ (IsValid(disk) => IsValid(store))
    BY <2>2, FtsConstants DEF Exact, IsValid
  <2>4. disk' = store /\ ValidOnDiskIsExact' /\ ~inTxn'
    BY <2>1, <2>3, AutocommitSafe DEF Autocommit
  <2> HIDE DEF store
  <2> QED
    BY <1>0, <2>1, <2>3, <2>4 DEF IInv, Safe, ReadyIsTrigram, ReadyIsValid,
                                  UnmirroredIsAbsent, IsValid
<1>12. CASE UNCHANGED vars
  BY <1>0, <1>12, QuietSafe DEF vars, IInv, Safe, ReadyIsTrigram
<1> QED
  BY <1>1, <1>2, <1>3, <1>4, <1>5, <1>6, <1>7, <1>8, <1>9, <1>10, <1>11, <1>12 DEF Next, Search

(* The inductive invariant: what the generations, the owner's flag and the   *)
(* tokenizer each say of the mirror.                                         *)
THEOREM Invariance == ASSUME ~DropMayFail PROVE Spec => []IInv
<1>1. Init => IInv
  BY TypeInit, SafeInit DEF IInv
<1>2. IInv /\ [Next]_vars => IInv'
  BY TypeStep, SafeStep DEF IInv
<1> QED
  BY <1>1, <1>2, PTL DEF Spec

(* Whatever failed before: an owner that trusts its mirror answers from one  *)
(* that holds exactly the recallable memories, or that FTS5 cannot read.     *)
THEOREM ReadyIsExact == ASSUME ~DropMayFail PROVE Spec => []ReadyMirrorIsExact
<1>1. IInv => ReadyMirrorIsExact
  BY DEF IInv, Safe, SeenIsCommitted, ReadyIsValid, ValidOnDiskIsExact, ReadyMirrorIsExact
<1> QED
  BY <1>1, Invariance, PTL

(* Generations that agree on disk are the generations of an exact mirror.    *)
THEOREM ValidIsExact == ASSUME ~DropMayFail PROVE Spec => []ValidOnDiskIsExact
<1>1. IInv => ValidOnDiskIsExact
  BY DEF IInv, Safe
<1> QED
  BY <1>1, Invariance, PTL

-----------------------------------------------------------------------------
(* Refinement of DerivedIndex. *)

LEMMA IndexInit == Init => Index!Init
<1> SUFFICES ASSUME Init PROVE Index!Init
  OBVIOUS
<1>1. IsValid(disk) => disk.index = Mirror(disk.memory)
  BY DEF Init
<1> QED
  BY <1>1 DEF Index!Init, MirrorsExactly

(* No mutation makes a mirror valid that was not: what a writer commits      *)
(* without its mirror stays marked until a rebuild.                          *)
LEMMA StaleStaysStale ==
  ASSUME IInv, [Next]_vars, disk'.memory # disk.memory, IsValid(disk')
  PROVE  IsValid(disk)
<1> USE DEF db, owner
<1>1. TypeOK /\ SeenIsCommitted
  BY DEF IInv, Safe
<1>2. CASE Mutate
  <2>1. PICK c \in Changes : Write(c)
    BY <1>2 DEF Mutate
  <2> QED
    BY <1>2, <2>1, WriteSafe DEF Mutate, Idle
<1>3. CASE RepairMemories
  <2>1. PICK i \in Ids, row \in Rows :
          ~inTxn /\ Autocommit([disk EXCEPT !.memory[i] = row, !.meta = NoMeta])
    BY <1>3 DEF RepairMemories
  <2>2. [disk EXCEPT !.memory[i] = row, !.meta = NoMeta].meta = NoMeta
    BY <1>1 DEF TypeOK, Stores
  <2> QED
    BY <1>1, <2>1, <2>2, AutocommitKeeps DEF IsValid
<1>4. CASE Open \/ OpenFails \/ Recover
  BY <1>1, <1>4, EnsureKeeps DEF Open, OpenFails, Recover
<1>5. CASE AnswerFails
  <2>1. [seen EXCEPT !.meta.mutation = @ + 1].memory = seen.memory
    BY <1>1 DEF TypeOK, Stores
  <2>2. UNCHANGED db \/ Autocommit([seen EXCEPT !.meta.mutation = @ + 1])
    BY <1>5, Zenon DEF AnswerFails
  <2> QED
    BY <1>1, <2>1, <2>2, AutocommitKeeps
<1>6. CASE Damage
  <2>1. [disk EXCEPT !.index = Broken].memory = disk.memory
    BY <1>1 DEF TypeOK, Stores
  <2>2. seen = disk /\ Autocommit([disk EXCEPT !.index = Broken])
    BY <1>1, <1>6 DEF Damage, SeenIsCommitted
  <2> QED
    BY <1>1, <2>1, <2>2, AutocommitKeeps
<1>7. ASSUME \/ MutateFails \/ CommitFails \/ MutateRefused \/ NoRecovery \/ Answer
             \/ CooldownEnds \/ Close \/ UNCHANGED vars
      PROVE  UNCHANGED disk
  BY <1>7 DEF MutateFails, CommitFails, MutateRefused, NoRecovery, Answer, CooldownEnds, Close, vars
<1> QED
  BY <1>2, <1>3, <1>4, <1>5, <1>6, <1>7 DEF Next, Search

(* Mutations and repairs are records, and every other step is upkeep.        *)
LEMMA IndexStep ==
  IInv /\ ValidOnDiskIsExact' /\ [Next]_vars
    => [Index!Next]_<<disk.memory, disk.index, IsValid(disk)>>
<1> SUFFICES ASSUME IInv, ValidOnDiskIsExact', [Next]_vars PROVE Index!Next
  OBVIOUS
<1>1. IsValid(disk)' => MirrorsExactly(disk'.memory, disk'.index)
  BY DEF ValidOnDiskIsExact, MirrorsExactly, IsValid, Mirror
<1>2. CASE disk'.memory = disk.memory
  BY <1>1, <1>2 DEF Index!Next, Index!Maintain, MirrorsExactly, IsValid
<1>3. CASE disk'.memory # disk.memory
  BY <1>1, <1>3, StaleStaysStale DEF Index!Next, Index!Record, MirrorsExactly, IsValid
<1> QED
  BY <1>2, <1>3

(* The mirror on disk implements the abstract derived index.                 *)
THEOREM RefinesDerivedIndex == ASSUME ~DropMayFail PROVE Spec => MirrorIsADerivedIndex
  BY IndexInit, IndexStep, Invariance, ValidIsExact, PTL
     DEF Spec, MirrorIsADerivedIndex, Index!Spec
=============================================================================
