---------------------------- MODULE AgentMemoryFts ----------------------------
(*****************************************************************************)
(* The full-text mirror of agent_memory that AgentMemoryFts keeps on one     *)
(* connection: authoritative mutations with the mirror behind a savepoint,   *)
(* generations that tell a stale mirror, searches that fall back to LIKE and *)
(* recover after a cooldown.                                                 *)
(*                                                                           *)
(* "disk" is what is committed, "seen" what the connection reads; the two    *)
(* differ while a transaction is open.  The process may die at any time.     *)
(*****************************************************************************)
EXTENDS Naturals, FiniteSets

CONSTANTS
  Ids,             \* memories
  Contents,        \* what a recallable memory says
  Absent, Broken,  \* no mirror table; one that FTS5 cannot read
  NoMeta,          \* no row in agent_memory_fts_meta
  MaxGeneration,   \* bound on the mutation generation
  MaxFaults,       \* bound on the storage faults of a behaviour
  DropMayFail      \* a mirror that is not wanted may resist DROP TABLE

Hidden == "hidden"   \* archived, conflicted, superseded, persona or working
None == "none"

Rows == Contents \cup {Hidden, None}
Mirrors == [Ids -> Contents \cup {None}]
Generations == 0..MaxGeneration
Metas ==
  {NoMeta} \cup
  {m \in [current : BOOLEAN, mutation : Generations, indexed : Generations] :
     m.indexed <= m.mutation}
Stores == [memory : [Ids -> Rows], index : Mirrors \cup {Absent, Broken}, meta : Metas]
Capabilities == {"trigram", "unicode61", "unavailable"}

ASSUME FtsConstants ==
  /\ IsFiniteSet(Ids)
  /\ Contents \cap {Hidden, None} = {}
  /\ Absent \notin Mirrors /\ Broken \notin Mirrors /\ Absent # Broken
  /\ NoMeta \notin [current : BOOLEAN, mutation : Generations, indexed : Generations]
  /\ MaxGeneration \in Nat /\ MaxFaults \in Nat
  /\ DropMayFail \in BOOLEAN

VARIABLES
  disk,        \* committed tables
  seen,        \* the connection's view of them
  leftOpen,    \* the transaction a failed call left open on the connection
  capability,  \* tokenizer probed for the connection
  ready,       \* the owner believes in the mirror
  cooling,     \* recovery_after lies in the future
  pc,          \* "closed", "idle" or inside a search: "reading"
  outcome,     \* how the last authoritative mutation ended
  faults       \* storage faults so far

db == <<disk, seen, leftOpen>>
owner == <<capability, ready, cooling>>
vars == <<db, owner, pc, outcome, faults>>

inTxn == leftOpen # "none"

TypeOK ==
  /\ disk \in Stores /\ seen \in Stores
  /\ leftOpen \in {"none", "rebuild", "commit"}
  /\ ready \in BOOLEAN /\ cooling \in BOOLEAN
  /\ capability \in Capabilities
  /\ pc \in {"closed", "idle", "reading"}
  /\ outcome \in {"none", "ok", "failed", "refused"}
  /\ faults \in 0..MaxFaults

-----------------------------------------------------------------------------
Recallable(row) == IF row \in Contents THEN row ELSE None

Mirror(memory) == [i \in Ids |-> Recallable(memory[i])]

IsValid(store) ==
  /\ store.index # Absent
  /\ store.meta # NoMeta
  /\ store.meta.current
  /\ store.meta.mutation = store.meta.indexed

Fault == faults < MaxFaults /\ faults' = faults + 1

NoFault == UNCHANGED faults

(* A statement outside a mutation's transaction: committed at once unless an *)
(* earlier call left a transaction open.                                     *)
Autocommit(store) ==
  /\ seen' = store
  /\ disk' = (IF inTxn THEN disk ELSE store)
  /\ UNCHANGED leftOpen

(* Older builds, other tokenizers and crashes leave any mirror behind, but a *)
(* valid generation only with a mirror that was built for it.                *)
Init ==
  /\ \E memory \in [Ids -> Rows], meta \in Metas :
       /\ meta \in {NoMeta} \cup [current : BOOLEAN, mutation : {0, 1}, indexed : {0}]
       /\ \E index \in {Absent, Mirror(memory), [i \in Ids |-> None]} :
            disk = [memory |-> memory, index |-> index, meta |-> meta]
  /\ IsValid(disk) => disk.index = Mirror(disk.memory)
  /\ seen = disk
  /\ leftOpen = "none"
  /\ capability = "unavailable" /\ ready = FALSE /\ cooling = FALSE
  /\ pc = "closed"
  /\ outcome = "none"
  /\ faults = 0

-----------------------------------------------------------------------------
(* ensure_index and rebuild *)

Generation(meta) == IF meta = NoMeta THEN 0 ELSE meta.mutation

(* Savepoint, DROP, CREATE, INSERT, RELEASE; then the meta row on its own. *)
Rebuild ==
  Autocommit([seen EXCEPT
    !.index = Mirror(seen.memory),
    !.meta = [current |-> TRUE, mutation |-> Generation(seen.meta),
              indexed |-> Generation(seen.meta)]])

(* A statement of the batch fails, RELEASE over the whole mirror being the   *)
(* last: nobody rolls the savepoint back, so the connection stays in the     *)
(* transaction that it opened.                                               *)
RebuildAborted ==
  /\ \E index \in {seen.index, Absent, [i \in Ids |-> None], Mirror(seen.memory)} :
       seen' = [seen EXCEPT !.index = index]
  /\ leftOpen' = (IF inTxn THEN leftOpen ELSE "rebuild")
  /\ UNCHANGED disk

(* The mirror is there, the meta row is not written. *)
RebuildUnrecorded == Autocommit([seen EXCEPT !.index = Mirror(seen.memory)])

(* Without trigram the mirror is dropped; an error of the drop is ignored. *)
Discard ==
  /\ \E index \in {Absent} \cup (IF DropMayFail THEN {seen.index} ELSE {}) :
       Autocommit([seen EXCEPT !.index = index])
  /\ ready' = FALSE

(* Seeded fault of EnsureIndex: a mirror found valid is not declared ready. *)
EnsureReadyAfterRebuild ==
  IF capability' # "trigram" THEN Discard
  ELSE IF IsValid(seen) THEN UNCHANGED <<db, ready>>
  ELSE Rebuild /\ ready' = TRUE

(* Seeded fault of EnsureIndex: only the versions are compared. *)
EnsureIgnoringGenerations ==
  IF capability' # "trigram" THEN Discard
  ELSE IF seen.index # Absent /\ seen.meta # NoMeta /\ seen.meta.current
    THEN UNCHANGED db /\ ready' = TRUE
  ELSE Rebuild /\ ready' = TRUE

EnsureIndex ==
  IF capability' # "trigram" THEN Discard
  ELSE IF IsValid(seen) THEN UNCHANGED db /\ ready' = TRUE
  ELSE Rebuild /\ ready' = TRUE

EnsureFails ==
  /\ capability' = "trigram"
  /\ UNCHANGED ready
  /\ \/ UNCHANGED db
     \/ ~IsValid(seen) /\ (RebuildAborted \/ RebuildUnrecorded)

(* AgentMemoryFts::new; an owner exists only when it succeeds. *)
Open ==
  /\ pc = "closed"
  /\ capability' \in Capabilities
  /\ EnsureIndex
  /\ cooling' = FALSE
  /\ pc' = "idle"
  /\ NoFault
  /\ UNCHANGED outcome

OpenFails ==
  /\ pc = "closed"
  /\ EnsureFails
  /\ Fault
  /\ UNCHANGED <<cooling, pc, outcome>>

-----------------------------------------------------------------------------
(* upsert, bulk_upsert and delete: all rows and their mirror in one          *)
(* transaction begun with BEGIN IMMEDIATE.                                   *)

(* A deletion changes one row; deleting nothing maintains nothing. *)
Changes ==
  {c \in UNION {[S -> Rows] : S \in SUBSET Ids \ {{}}} :
     /\ None \in {c[i] : i \in DOMAIN c} => Cardinality(DOMAIN c) = 1
     /\ \E i \in DOMAIN c : c[i] # None \/ seen.memory[i] # None}

Updated(function, c) == [i \in Ids |-> IF i \in DOMAIN c THEN c[i] ELSE function[i]]

Mirrored(c) == [i \in DOMAIN c |-> Recallable(c[i])]

(* Seeded fault of Marked: a batch is counted once, its mirrored rows one by *)
(* one.                                                                      *)
MarkedPerBatch(meta, c, done) ==
  [meta EXCEPT !.mutation = @ + 1,
               !.indexed = IF done = {} THEN @ ELSE meta.mutation + Cardinality(done)]

(* mark_dirty counts every row, mark_indexed follows for the rows in done. *)
Marked(meta, c, done) ==
  [meta EXCEPT !.mutation = @ + Cardinality(DOMAIN c),
               !.indexed = IF done = {} THEN @ ELSE meta.mutation + Cardinality(done)]

Maintainable == seen.index \notin {Absent, Broken}

(* Without trigram only the authoritative rows are written. *)
WriteUnmirrored(c) ==
  /\ capability # "trigram"
  /\ seen' = [seen EXCEPT !.memory = Updated(@, c)]
  /\ UNCHANGED ready
  /\ NoFault

(* Seeded fault of WriteDirty: an owner that is not ready maintains the       *)
(* mirror all the same.                                                       *)
WriteDirtyMirrored(c) ==
  /\ capability = "trigram" /\ ~ready
  /\ seen' = (IF Maintainable
              THEN [memory |-> Updated(seen.memory, c),
                    index |-> Updated(seen.index, Mirrored(c)),
                    meta |-> Marked(seen.meta, c, DOMAIN c)]
              ELSE [seen EXCEPT !.memory = Updated(@, c), !.meta = Marked(@, c, {})])
  /\ UNCHANGED ready
  /\ NoFault

(* An owner that is not ready only marks the mirror dirty. *)
WriteDirty(c) ==
  /\ capability = "trigram" /\ ~ready
  /\ seen' = [seen EXCEPT !.memory = Updated(@, c), !.meta = Marked(@, c, {})]
  /\ UNCHANGED ready
  /\ NoFault

(* Seeded fault of WriteMirrored: the mirror keeps rows that stopped being   *)
(* recallable.                                                               *)
WriteMirroredStale(c) ==
  /\ capability = "trigram" /\ ready /\ Maintainable
  /\ seen' = [memory |-> Updated(seen.memory, c),
              index |-> Updated(seen.index, [i \in {j \in DOMAIN c : c[j] \in Contents} |-> c[i]]),
              meta |-> Marked(seen.meta, c, DOMAIN c)]
  /\ UNCHANGED ready
  /\ NoFault

WriteMirrored(c) ==
  /\ capability = "trigram" /\ ready /\ Maintainable
  /\ seen' = [memory |-> Updated(seen.memory, c),
              index |-> Updated(seen.index, Mirrored(c)),
              meta |-> Marked(seen.meta, c, DOMAIN c)]
  /\ UNCHANGED ready
  /\ NoFault

(* The mirror fails at some row: its savepoint is undone, the rows before it *)
(* stay mirrored, the owner is not ready for those after it.                 *)
WriteDegraded(c) ==
  /\ capability = "trigram" /\ ready
  /\ IF Maintainable THEN Fault ELSE NoFault
  /\ \E done \in SUBSET (IF Maintainable THEN DOMAIN c ELSE {}) :
       /\ done # DOMAIN c
       /\ seen' = [memory |-> Updated(seen.memory, c),
                   index |-> IF done = {} THEN seen.index
                             ELSE Updated(seen.index, [i \in done |-> Recallable(c[i])]),
                   meta |-> Marked(seen.meta, c, done)]
  /\ ready' = FALSE

Write(c) ==
  \/ WriteUnmirrored(c)
  \/ /\ seen.meta # NoMeta
     /\ seen.meta.mutation + Cardinality(DOMAIN c) <= MaxGeneration
     /\ WriteDirty(c) \/ WriteMirrored(c) \/ WriteDegraded(c)

Idle == pc = "idle" /\ UNCHANGED <<capability, cooling, pc>>

(* The transaction commits, and the caller is told so. *)
Mutate ==
  /\ Idle /\ ~inTxn
  /\ \E c \in Changes : Write(c)
  /\ disk' = seen'
  /\ outcome' = "ok"
  /\ UNCHANGED leftOpen

(* Busy at BEGIN, a failing statement or meta row: everything is rolled back, *)
(* only the owner's own flag may already have been cleared.                   *)
MutateFails ==
  /\ Idle /\ ~inTxn
  /\ Fault
  /\ ready' \in {ready, FALSE}
  /\ outcome' = "failed"
  /\ UNCHANGED db

(* Seeded fault of CommitFails: what could not be committed is reported done. *)
CommitFailsSilently ==
  /\ Idle /\ ~inTxn
  /\ \E c \in Changes : WriteUnmirrored(c) \/ Write(c)
  /\ leftOpen' = "commit"
  /\ outcome' = "ok"
  /\ UNCHANGED disk

(* COMMIT reports an error and is not followed by a ROLLBACK. *)
CommitFails ==
  /\ Idle /\ ~inTxn
  /\ faults < MaxFaults
  /\ \E c \in Changes : Write(c)
  /\ leftOpen' = "commit"
  /\ outcome' = "failed"
  /\ UNCHANGED disk

(* BEGIN inside the transaction an earlier call left open, or no meta row. *)
MutateRefused ==
  /\ Idle
  /\ inTxn \/ (capability = "trigram" /\ seen.meta = NoMeta)
  /\ outcome' = "refused"
  /\ UNCHANGED <<db, ready, faults>>

-----------------------------------------------------------------------------
(* search *)

RecoveryDue == ~ready /\ capability # "unicode61" /\ ~cooling

(* recover_if_needed: one attempt per cooldown. *)
Recover ==
  /\ pc = "idle" /\ RecoveryDue
  /\ UNCHANGED <<capability, outcome>>
  /\ \/ EnsureIndex /\ NoFault
     \/ EnsureFails /\ Fault
  /\ cooling' = ~ready'
  /\ pc' = "reading"

NoRecovery ==
  /\ pc = "idle" /\ ~RecoveryDue
  /\ pc' = "reading"
  /\ UNCHANGED <<db, owner, outcome, faults>>

(* FTS answers; LIKE does for want of a mirror, for a short term or after a   *)
(* transient error; an empty query is answered without either.               *)
Answer ==
  /\ pc = "reading"
  /\ pc' = "idle"
  /\ UNCHANGED <<db, owner, outcome, faults>>

(* Any other error of the mirror: not ready, cooling down, dirty as far as   *)
(* the meta row can be written.                                              *)
AnswerFails ==
  /\ pc = "reading" /\ ready
  /\ IF seen.index \in {Absent, Broken} THEN NoFault ELSE Fault
  /\ ready' = FALSE /\ cooling' = TRUE
  /\ \/ /\ seen.meta # NoMeta
        /\ seen.meta.mutation < MaxGeneration
        /\ Autocommit([seen EXCEPT !.meta.mutation = @ + 1])
     \/ UNCHANGED db
  /\ pc' = "idle"
  /\ UNCHANGED <<capability, outcome>>

(* Thirty seconds pass. *)
CooldownEnds ==
  /\ cooling
  /\ cooling' = FALSE
  /\ UNCHANGED <<db, capability, ready, pc, outcome, faults>>

-----------------------------------------------------------------------------
(* The connection is closed or the process dies; SQLite discards what was    *)
(* not committed.                                                            *)
Close ==
  /\ pc # "closed" \/ inTxn
  /\ seen' = disk
  /\ leftOpen' = "none"
  /\ ready' = FALSE /\ cooling' = FALSE
  /\ pc' = "closed"
  /\ UNCHANGED <<disk, capability, outcome, faults>>

(* Between sessions the schema repair rewrites memories and deletes the meta *)
(* row, or the mirror's pages are damaged.                                   *)
RepairMemories ==
  /\ pc = "closed" /\ ~inTxn
  /\ \E i \in Ids, row \in Rows \ {None} :
       /\ disk.memory[i] # None
       /\ Autocommit([disk EXCEPT !.memory[i] = row, !.meta = NoMeta])
  /\ UNCHANGED <<owner, pc, outcome, faults>>

Damage ==
  /\ disk.index # Absent /\ ~inTxn
  /\ Fault
  /\ Autocommit([disk EXCEPT !.index = Broken])
  /\ UNCHANGED <<owner, pc, outcome>>

Search == Recover \/ NoRecovery \/ Answer \/ AnswerFails

Next ==
  \/ Open \/ OpenFails
  \/ Mutate \/ MutateFails \/ CommitFails \/ MutateRefused
  \/ Search
  \/ CooldownEnds
  \/ Close
  \/ RepairMemories
  \/ Damage

Spec == Init /\ [][Next]_vars

(* The caller goes on searching and time passes. *)
FairSpec == Spec /\ WF_vars(Search) /\ WF_vars(CooldownEnds)

-----------------------------------------------------------------------------
(* Correctness. *)

(* A mirror the owner answers from holds exactly the recallable memories the *)
(* connection sees, unless FTS5 cannot read it at all: after failed          *)
(* mutations, degraded bulk writes, repairs and restarts, as long as no      *)
(* transaction was left open.                                                *)
ReadyMirrorIsExact == ready /\ ~inTxn => seen.index \in {Mirror(seen.memory), Broken}

(* What a crash leaves on disk either is an exact mirror or says that it is  *)
(* not: the generations agree only when every mutation reached the mirror.   *)
ValidOnDiskIsExact == IsValid(disk) => disk.index \in {Mirror(disk.memory), Broken}

(* An authoritative mutation that reports success is committed, one that     *)
(* reports failure never becomes so, and maintaining, rebuilding or          *)
(* recovering the mirror never touches the memories.                         *)
MutationsAreAllOrNothing ==
  [][/\ pc = "idle" /\ outcome' = "ok" /\ seen'.memory # seen.memory
          => disk'.memory = seen'.memory
     /\ pc # "closed" /\ disk'.memory # disk.memory => outcome' = "ok"]_vars

(* The mirror on disk is a DerivedIndex of the memories: whatever bulk       *)
(* writes, failures, rebuilds and restarts do, generations that have parted  *)
(* agree again only through a rebuild, never through a later mutation that   *)
(* mirrors its own rows.                                                     *)
MirrorsExactly(memory, index) == index \in {Mirror(memory), Broken}

Index == INSTANCE DerivedIndex WITH
  records <- disk.memory, index <- disk.index, trusted <- IsValid(disk), Right <- MirrorsExactly

MirrorIsADerivedIndex == Index!Spec

(* A mirror that stopped being ready is back in use once the faults are over, *)
(* the cooldown has passed and searches go on.                                *)
MirrorRecovers == (pc # "closed" /\ capability = "trigram") ~> (ready \/ pc = "closed")

(* A failing mirror leaves authoritative mutations alone: none is refused    *)
(* because of what a rebuild left behind.                                    *)
MirrorNeverBlocksMutations == ~(outcome = "refused" /\ leftOpen = "rebuild")
=============================================================================
