--------------------------- MODULE MemoryIngestion ---------------------------
(*****************************************************************************)
(* The memory-ingestion projection of one session: one row per final message *)
(* of the Tape, kept up entry by entry as the Tape grows or rebuilt from a   *)
(* reading of it, and a head that says how far the rows go.  Writers on      *)
(* several connections interleave; sessions do not touch each other's rows.  *)
(*                                                                           *)
(* Of a Tape entry only its effect counts: a final version of a message      *)
(* (with or without finished tool blocks in its content), a version that is  *)
(* a retired workflow result, a retraction, a finished tool call, or         *)
(* anything else (context, unfinished versions, malformed entries).          *)
(*****************************************************************************)
EXTENDS Naturals, FiniteSets, FiniteSetsExt

CONSTANTS
  Messages,
  MaxEntry,     \* bound on the entry ids of the Tape
  None,         \* no entry, no row, nothing read
  NoMeta, Old   \* no meta row; one of an earlier projection version

Ids == 1..MaxEntry

Kinds ==
  [kind : {"final"}, message : Messages, blocks : BOOLEAN] \cup
  [kind : {"retired", "retraction", "tool"}, message : Messages] \cup
  [kind : {"other"}]

ProjectedRows == [entry : Ids, tool : BOOLEAN] \cup {None}

ASSUME IngestionConstants ==
  /\ MaxEntry \in Nat \ {0}
  /\ None \notin Kinds /\ None \notin [entry : Ids, tool : BOOLEAN]
  /\ \A S \in SUBSET Ids : S # None
  /\ NoMeta \notin 0..MaxEntry /\ Old \notin 0..MaxEntry

VARIABLES
  tape,      \* deepchat_tape_entries
  rows,      \* deepchat_memory_ingestion_projection
  meta,      \* the head in deepchat_memory_ingestion_projection_meta
  snapshot,  \* the entries a rebuilding caller has read
  projected  \* what the last append reported

vars == <<tape, rows, meta, snapshot, projected>>

EntriesOf(t) == {i \in Ids : t[i] # None}

ids == EntriesOf(tape)

Head(S) == IF S = {} THEN 0 ELSE Max(S)

TypeOK ==
  /\ tape \in [Ids -> Kinds \cup {None}]
  /\ rows \in [Messages -> ProjectedRows]
  /\ \A m \in Messages : rows[m] # None => rows[m].entry \in ids
  /\ meta \in {NoMeta, Old} \cup 0..Head(ids)
  /\ snapshot \in {None} \cup SUBSET ids
  /\ projected \in BOOLEAN

NoRows == [m \in Messages |-> None]

Init ==
  /\ tape = [i \in Ids |-> None]
  /\ rows = NoRows
  /\ meta \in {NoMeta, Old}
  /\ snapshot = None
  /\ projected = FALSE

-----------------------------------------------------------------------------
(* apply_entry_db: the rows and the head after entry e with id i, previous   *)
(* being the head of the Tape before it.                                     *)

(* Seeded fault of Contiguous: any current head will do. *)
ContiguousIfCurrent(previous) ==
  meta \in Nat \/ (meta = NoMeta /\ previous = 0)

(* Seeded fault of Contiguous: a session without a head takes up anywhere. *)
ContiguousWithoutHead(previous) == meta \in {previous, NoMeta}

Contiguous(previous) == meta = previous \/ (meta = NoMeta /\ previous = 0)

(* ON CONFLICT keeps the flag, and the whole row against an older version. *)
Upserted(e, i) ==
  CASE rows[e.message] = None -> [entry |-> i, tool |-> e.blocks]
    [] rows[e.message] # None /\ i > rows[e.message].entry ->
         [rows[e.message] EXCEPT !.entry = i]
    [] OTHER -> rows[e.message]

AppliedRows(e, i) ==
  CASE e.kind = "final" -> [rows EXCEPT ![e.message] = Upserted(e, i)]
    [] e.kind = "retraction" -> [rows EXCEPT ![e.message] = None]
    [] e.kind = "tool" /\ rows[e.message] # None -> [rows EXCEPT ![e.message].tool = TRUE]
    [] OTHER -> rows

(* Seeded fault of AppliedHead: the head is the next id. *)
AppliedHeadNext(e, i) == IF e.kind = "retraction" THEN NoMeta ELSE i + 1

AppliedHead(e, i) == IF e.kind = "retraction" THEN NoMeta ELSE i

Apply(e, i, previous) ==
  IF Contiguous(previous)
  THEN /\ rows' = AppliedRows(e, i)
       /\ meta' = AppliedHead(e, i)
  ELSE meta' = NoMeta /\ UNCHANGED rows

(* A statement fails; the caller deletes the meta row. *)
ApplyFails(e, i, previous) ==
  /\ rows' \in {rows} \cup (IF Contiguous(previous) THEN {AppliedRows(e, i)} ELSE {})
  /\ meta' = NoMeta

(* append_tape_entry_with_projection: ids come from the caller, who is taken *)
(* to append at the end but may leave gaps; the entry stays when its         *)
(* projection fails.  When anything else fails the transaction leaves        *)
(* nothing behind.                                                           *)
Append(i, e) ==
  /\ i > Head(ids)
  /\ tape' = [tape EXCEPT ![i] = e]
  /\ \/ /\ Apply(e, i, Head(ids))
        /\ projected' = (Contiguous(Head(ids)) /\ e.kind # "retraction")
     \/ ApplyFails(e, i, Head(ids)) /\ projected' = FALSE
  /\ UNCHANGED snapshot

(* An entry written by other means ... *)
Insert(i, e) ==
  /\ i > Head(ids)
  /\ tape' = [tape EXCEPT ![i] = e]
  /\ projected' = FALSE
  /\ UNCHANGED <<rows, meta, snapshot>>

(* ... is projected by apply_appended_entry, which is not a transaction: a   *)
(* failure or crash leaves the row without its head.                         *)
ApplyAppended(i) ==
  /\ tape[i] # None
  /\ LET previous == Head({j \in ids : j < i})
     IN  \/ Apply(tape[i], i, previous)
         \/ Contiguous(previous) /\ rows' = AppliedRows(tape[i], i) /\ UNCHANGED meta
  /\ projected' = FALSE
  /\ UNCHANGED <<tape, snapshot>>

-----------------------------------------------------------------------------
(* replace_session with the effective rows of the entries the caller read    *)
(* earlier: the last version of a message counts, unless it is retired or    *)
(* retracted; tool calls count wherever they stand.                          *)

Versions(t, S, m) == {i \in S : t[i].kind \in {"final", "retired"} /\ t[i].message = m}

Retracted(t, S, m, i) ==
  \E r \in S : r > i /\ t[r].kind = "retraction" /\ t[r].message = m

UsedTool(S, m) == \E t \in S : tape[t].kind = "tool" /\ tape[t].message = m

(* Seeded fault of EffectiveRow: one pass, which knows a message's tool calls *)
(* only up to the version that counts.                                       *)
EffectiveInOnePass(S, m) ==
  LET i == Head(Versions(tape, S, m))
  IN  IF i # 0 /\ tape[i].kind = "final" /\ ~Retracted(tape, S, m, i)
      THEN [entry |-> i, tool |-> UsedTool({t \in S : t < i}, m)] ELSE None

EffectiveRow(S, m) ==
  LET i == Head(Versions(tape, S, m))
  IN  IF i # 0 /\ tape[i].kind = "final" /\ ~Retracted(tape, S, m, i)
      THEN [entry |-> i, tool |-> UsedTool(S, m)] ELSE None

ReadTape ==
  /\ snapshot' = ids
  /\ projected' = FALSE
  /\ UNCHANGED <<tape, rows, meta>>

Replace ==
  /\ snapshot # None
  /\ rows' = [m \in Messages |-> EffectiveRow(snapshot, m)]
  /\ meta' = Head(snapshot)
  /\ snapshot' = None
  /\ projected' = FALSE
  /\ UNCHANGED tape

InvalidateSession ==
  /\ meta' = NoMeta
  /\ projected' = FALSE
  /\ UNCHANGED <<tape, rows, snapshot>>

DeleteBySession ==
  /\ rows' = NoRows /\ meta' = NoMeta
  /\ projected' = FALSE
  /\ UNCHANGED <<tape, snapshot>>

Next ==
  \/ \E i \in Ids, e \in Kinds : Append(i, e) \/ Insert(i, e)
  \/ \E i \in Ids : ApplyAppended(i)
  \/ ReadTape \/ Replace
  \/ InvalidateSession \/ DeleteBySession

Spec == Init /\ [][Next]_vars

-----------------------------------------------------------------------------
(* Correctness. *)

(* read_current_range compares the two heads in the statement that returns   *)
(* the rows.                                                                 *)
Current == meta = Head(ids)

(* Versions of a message since it was last retracted. *)
Live(t, m) == {i \in Versions(t, EntriesOf(t), m) : ~Retracted(t, EntriesOf(t), m, i)}
LiveFinals(t, m) == {i \in Live(t, m) : t[i].kind = "final"}

(* A retired version may leave the final one before it. *)
RowsFollow(t, r) ==
  \A m \in Messages :
    IF LiveFinals(t, m) = {} THEN r[m] = None
    ELSE \/ r[m] # None /\ r[m].entry = Max(LiveFinals(t, m))
         \/ r[m] = None /\ Max(Live(t, m)) # Max(LiveFinals(t, m))

(* What a current session hands to memory ingestion is the last version of   *)
(* each message that was not retracted, and no row of any other message: no  *)
(* gap in the appended ids, late or repeated projection, lost statement,     *)
(* stale rebuild or invalidation can make other rows current.                *)
CurrentRowsAreTheLastVersions == Current => RowsFollow(tape, rows)

(* Every tool call of a message after the version its current row holds has  *)
(* set the row's tool flag, and the flag is never set without a tool call or *)
(* finished tool blocks of the message.  What a version that replaces another *)
(* does to the flag is left open: see LaterVersionsRecordTheirBlocks.        *)
LaterToolCallsCount ==
  Current => \A m \in Messages : rows[m] # None =>
    /\ \A t \in ids :
         t > rows[m].entry /\ tape[t].kind = "tool" /\ tape[t].message = m => rows[m].tool
    /\ rows[m].tool => UsedTool(ids, m) \/ \E i \in LiveFinals(tape, m) : tape[i].blocks

(* "A later final assistant message derives had_tool_use from its own        *)
(* effective message blocks": a version with finished tool blocks that is    *)
(* projected over an earlier one sets the row's flag.                        *)
LaterVersionsRecordTheirBlocks ==
  [][\A m \in Messages :
       /\ rows[m] # None /\ rows'[m] # None /\ rows'[m].entry # rows[m].entry
       /\ projected' /\ tape'[rows'[m].entry].blocks
       => rows'[m].tool]_vars

(* The rows are a DerivedIndex of the Tape: a session that went stale (a gap, *)
(* a retraction, a failed projection) is made current by applying what was   *)
(* inserted or by a rebuild, never by the next append; a Tape without        *)
(* entries needs no head.                                                    *)
Index == INSTANCE DerivedIndex WITH
  records <- tape, index <- rows, trusted <- Current \/ ids = {}, Right <- RowsFollow

RowsAreADerivedIndex == Index!Spec

(* An append that is reported projected makes the session current, any other *)
(* leaves it stale, and none of them loses a Tape entry.                     *)
AppendsReportTruthfully ==
  [][/\ \A i \in ids : tape'[i] = tape[i]
     /\ ids' # ids => (projected' <=> Current')]_vars

(* Rebuilding a current session from the whole Tape changes nothing. *)
RebuildingChangesNothing == [][Current /\ snapshot = ids /\ Replace => UNCHANGED rows]_vars
==============================================================================
