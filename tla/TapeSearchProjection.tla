------------------------ MODULE TapeSearchProjection ------------------------
(*****************************************************************************)
(* The search projection of the Tape: projected rows per session, their      *)
(* full-text copy in deepchat_tape_search_fts, and a head for each of the    *)
(* two.  Several TapeSearchProjection owners work on one file, each with its *)
(* own belief that the full-text table is usable, on one connection or on    *)
(* connections of their own.                                                 *)
(*                                                                           *)
(* A write is one IMMEDIATE transaction.  A search reads the head, the rows, *)
(* and then begins a transaction, so that another connection can write in    *)
(* between.  A COMMIT that fails leaves its transaction open: "disk" is what *)
(* is committed, "seen" what the connection with that transaction reads.     *)
(*****************************************************************************)
EXTENDS Naturals, FiniteSets

CONSTANTS
  Owners,          \* TapeSearchProjection values
  Connections,
  Sessions,
  Entries,         \* entry ids of a session
  Heads,           \* highest entry ids a projection is made for
  Texts,           \* search texts
  None,            \* no such row, owner, session or connection
  NoHead, Old,     \* no meta row; a meta row of an earlier projection version
  Absent, Broken,  \* no full-text table; one that FTS5 cannot read
  MaxFaults        \* bound on the storage faults of a behaviour

Rows == [Entries -> Texts \cup {None}]
Tables == [Sessions -> Rows]
Metas == [Sessions -> Heads \cup {NoHead, Old}]
Stores == [rows : Tables,                        \* deepchat_tape_search_projection
           head : Metas,                         \* ..._projection_meta
           table : Tables \cup {Absent, Broken}, \* deepchat_tape_search_fts
           ftsHead : Metas]                      \* ..._fts_meta

Empty == [e \in Entries |-> None]
EmptyTable == [s \in Sessions |-> Empty]

Calls == [stage : {"idle", "rows", "rebuild", "answer"}, owner : Owners \cup {None},
          session : Sessions \cup {None}, head : Heads \cup {NoHead}, rows : Rows]

NoCall == [stage |-> "idle", owner |-> None, session |-> None, head |-> NoHead, rows |-> Empty]

ASSUME SearchConstants ==
  /\ None \notin Owners \cup Connections \cup Sessions \cup Texts
  /\ Entries \subseteq Nat /\ Heads \subseteq Nat
  /\ NoHead \notin Heads /\ Old \notin Heads /\ NoHead # Old
  /\ \A table \in Tables : table # Absent /\ table # Broken
  /\ Absent # Broken
  /\ MaxFaults \in Nat

VARIABLES
  disk,        \* committed tables
  seen,        \* tables as the connection of the open transaction sees them
  holder,      \* the connection with a transaction left open, or None
  conn,        \* the connection of each owner
  available,   \* the connections' probe found a tokenizer
  ready,       \* fts_ready of each owner, "none" before new
  call,        \* the search each connection is inside
  outcome,     \* of the step, when it was a write
  unrecorded,  \* history: full-text rows went away and their heads stayed
  overtaken,   \* history: rows were mirrored that had been replaced, under a kept head
  faults

db == <<disk, seen, holder>>
history == <<unrecorded, overtaken>>
vars == <<db, conn, available, ready, call, outcome, history, faults>>

Serving == \E o \in Owners : ready[o] # "none"

TypeOK ==
  /\ disk \in Stores /\ seen \in Stores
  /\ holder \in Connections \cup {None}
  /\ holder = None => seen = disk
  /\ conn \in [Owners -> Connections]
  /\ ready \in [Owners -> {"none", "ready", "unready"}]
  /\ call \in [Connections -> Calls]
  /\ outcome \in {"none", "ok", "failed"}
  /\ available \in BOOLEAN /\ unrecorded \in BOOLEAN /\ overtaken \in BOOLEAN
  /\ faults \in 0..MaxFaults
  /\ Serving => \A s \in Sessions : disk.head[s] # Old /\ disk.ftsHead[s] # Old

-----------------------------------------------------------------------------
Overlay(old, new) == [e \in Entries |-> IF e \in DOMAIN new THEN new[e] ELSE old[e]]

Usable(store) == store.table \notin {Absent, Broken}
Complete(store, s) == Usable(store) /\ store.table[s] = store.rows[s]

Fault == faults < MaxFaults /\ faults' = faults + 1
NoFault == UNCHANGED faults

View(c) == IF holder = c THEN seen ELSE disk

(* One writer at a time: another connection's open transaction keeps c from  *)
(* writing.                                                                  *)
Writable(c) == holder \in {None, c}

Committed(store) == disk' = store /\ seen' = store /\ holder' = None

LeftOpen(c, store) == seen' = store /\ holder' = c /\ UNCHANGED disk

RolledBack == seen' = disk /\ holder' = None /\ UNCHANGED disk

(* A statement outside BEGIN and COMMIT joins the transaction that its       *)
(* connection has open, or is committed at once.                             *)
Statement(c, store) ==
  IF holder = c THEN LeftOpen(c, store) ELSE holder = None /\ Committed(store)

(* What earlier runs and earlier builds leave in one session: any versions   *)
(* and heads, full-text rows that may be behind where the heads differ, and  *)
(* anything where a version is old or missing.                               *)
Init ==
  /\ \E s \in Sessions, content \in Rows, indexed \in Rows, h, f \in Heads \cup {NoHead, Old} :
       /\ h \in Heads /\ f \in Heads => \A e \in Entries : indexed[e] \in {None, content[e]}
       /\ h \in Heads /\ f = h => indexed = content
       /\ \E table \in {[EmptyTable EXCEPT ![s] = indexed]}
                         \cup (IF f \in Heads THEN {} ELSE {Absent}) :
            disk = [rows |-> [EmptyTable EXCEPT ![s] = content],
                    head |-> [[t \in Sessions |-> NoHead] EXCEPT ![s] = h],
                    table |-> table,
                    ftsHead |-> [[t \in Sessions |-> NoHead] EXCEPT ![s] = f]]
  /\ seen = disk /\ holder = None
  /\ conn \in [Owners -> Connections]
  /\ available \in BOOLEAN
  /\ ready = [o \in Owners |-> "none"]
  /\ call = [c \in Connections |-> NoCall]
  /\ outcome = "none" /\ unrecorded = FALSE /\ overtaken = FALSE /\ faults = 0

-----------------------------------------------------------------------------
(* new *)

Valid(store, s) == store.head[s] \in Heads

(* Seeded fault of Kept: the full-text meta row's own version is ignored. *)
KeptByProjection(store, s) == Valid(store, s)

Kept(store, s) == Valid(store, s) /\ store.ftsHead[s] \in Heads

(* prune_invalid drops what has no current meta row, and the whole full-text *)
(* table with all its meta rows when it cannot be read.                      *)
Pruned(store) ==
  [rows |-> [s \in Sessions |-> IF Valid(store, s) THEN store.rows[s] ELSE Empty],
   head |-> [s \in Sessions |-> IF Valid(store, s) THEN store.head[s] ELSE NoHead],
   table |-> IF Usable(store)
             THEN [s \in Sessions |-> IF Kept(store, s) THEN store.table[s] ELSE Empty]
             ELSE Absent,
   ftsHead |-> [s \in Sessions |->
                  IF Kept(store, s) /\ store.table # Broken THEN store.ftsHead[s] ELSE NoHead]]

(* ensure_fts creates a missing table. *)
Ensured(store) == [store EXCEPT !.table = IF @ = Absent THEN EmptyTable ELSE @]

Idle(o) == call[conn[o]].stage = "idle" /\ UNCHANGED <<call, conn, available>>

New(o) ==
  /\ Idle(o) /\ ready[o] = "none" /\ holder = None
  /\ \/ /\ available /\ NoFault
        /\ Committed(Ensured(Pruned(disk))) /\ ready' = [ready EXCEPT ![o] = "ready"]
     \/ /\ IF available THEN Fault ELSE NoFault
        /\ Committed(Pruned(disk)) /\ ready' = [ready EXCEPT ![o] = "unready"]
  /\ outcome' = "none"
  /\ UNCHANGED history

(* The COMMIT of prune_invalid fails; there is no owner. *)
NewFails(o) ==
  /\ Idle(o) /\ ready[o] = "none" /\ holder = None
  /\ Fault
  /\ LeftOpen(conn[o], Pruned(disk))
  /\ outcome' = "none"
  /\ UNCHANGED <<ready, history>>

-----------------------------------------------------------------------------
(* append_session, replace_session, delete_by_session and clear_all *)

Contents == UNION {[E -> Texts] : E \in SUBSET Entries}

(* Seeded fault of Incremental: any earlier full-text head will do. *)
IncrementalUnlessMissing(s) == disk.ftsHead[s] # NoHead

(* The full-text rows are known to copy the projection before the append. *)
Incremental(s) == disk.ftsHead[s] # NoHead /\ disk.ftsHead[s] = disk.head[s]

(* Seeded fault of FtsCleared: only the head goes. *)
FtsHeadCleared(store, s) == [store EXCEPT !.ftsHead[s] = NoHead]

(* clear_session_fts *)
FtsCleared(store, s) ==
  [store EXCEPT !.ftsHead[s] = NoHead,
                !.table = IF Usable(store) THEN [@ EXCEPT ![s] = Empty] ELSE @]

(* A ready owner mirrors the new rows, or all rows when the full-text copy   *)
(* is not known to be level; any other owner clears the copy.                *)
Written(o, s, old, new, h, incremental) ==
  LET projected == [disk EXCEPT !.rows[s] = Overlay(old, new), !.head[s] = h]
  IN  IF ready[o] = "ready"
      THEN [projected EXCEPT
              !.table[s] = Overlay(IF incremental THEN disk.table[s] ELSE old, new),
              !.ftsHead[s] = h]
      ELSE FtsCleared(projected, s)

Appended(o, s, new, h) == Written(o, s, disk.rows[s], new, h, Incremental(s))

Replaced(o, s, new, h) == Written(o, s, Empty, new, h, FALSE)

Deleted(s) == FtsCleared([disk EXCEPT !.rows[s] = Empty, !.head[s] = NoHead], s)

AllCleared ==
  [rows |-> EmptyTable, head |-> [s \in Sessions |-> NoHead],
   table |-> IF Usable(disk) THEN EmptyTable ELSE disk.table,
   ftsHead |-> [s \in Sessions |-> NoHead]]

(* A full-text table that is to be written must be there and readable. *)
Transactions(o) ==
  (IF ~Usable(disk) /\ (ready[o] = "ready" \/ disk.table = Broken) THEN {}
   ELSE UNION {{Appended(o, s, new, h), Replaced(o, s, new, h)} :
                 s \in Sessions, new \in Contents, h \in Heads})
  \cup (IF disk.table = Broken THEN {} ELSE {Deleted(s) : s \in Sessions} \cup {AllCleared})

Writing(o) == Idle(o) /\ ready[o] # "none" /\ UNCHANGED history

Write(o) ==
  /\ Writing(o) /\ holder = None
  /\ \E store \in Transactions(o) : Committed(store)
  /\ outcome' = "ok"
  /\ NoFault /\ UNCHANGED ready

(* COMMIT reports an error and is not followed by a ROLLBACK; the owner goes *)
(* on trusting the table.                                                    *)
CommitFails(o) ==
  /\ Writing(o) /\ holder = None
  /\ Fault
  /\ \E store \in Transactions(o) : LeftOpen(conn[o], store)
  /\ outcome' = "failed"
  /\ UNCHANGED ready

(* Seeded fault of RollBack: the projected rows are in a transaction of their *)
(* own.                                                                       *)
RollBackFts(o) ==
  /\ ready' = [ready EXCEPT ![o] = "unready"]
  /\ \E s \in Sessions, e \in Entries, x \in Texts : Committed([disk EXCEPT !.rows[s][e] = x])

(* Rolled back; a failed append or replacement makes the owner distrust the  *)
(* table, a failed BEGIN or deletion does not.                               *)
RollBack(o) ==
  /\ ready' \in {ready, [ready EXCEPT ![o] = "unready"]}
  /\ UNCHANGED db

WriteFails(o) ==
  /\ Writing(o) /\ holder = None
  /\ IF Usable(disk) \/ (disk.table = Absent /\ ready[o] # "ready") THEN Fault ELSE NoFault
  /\ RollBack(o)
  /\ outcome' = "failed"

(* BEGIN IMMEDIATE while a transaction is open, here or elsewhere. *)
WriteRefused(o) ==
  /\ Writing(o) /\ holder # None
  /\ outcome' = "failed"
  /\ NoFault /\ UNCHANGED <<db, ready>>

-----------------------------------------------------------------------------
(* search: recover_session_fts reads the head, then the rows, then begins a  *)
(* transaction; after it FTS answers and LIKE fills up.                      *)

(* Seeded fault of Level: an existing head counts as level. *)
LevelIfPresent(store, s) == store.ftsHead[s] # NoHead

Level(store, s) == store.ftsHead[s] = store.head[s]

RecoveryDue(o, s) ==
  LET store == View(conn[o])
  IN  store.head[s] # NoHead /\ (IF ready[o] = "ready" THEN ~Level(store, s) ELSE available)

Calling(o, s, stage, head) ==
  call' = [call EXCEPT ![conn[o]] =
             [stage |-> stage, owner |-> o, session |-> s, head |-> head, rows |-> Empty]]

(* The head is not there or cannot be read: what is left of the copy is      *)
(* cleared by two statements on their own, and an error of theirs ignored.   *)
RecoverUnprojected(o, s) ==
  LET c == conn[o]
  IN  /\ \/ View(c).head[s] = NoHead /\ NoFault
            /\ IF Writable(c) THEN Statement(c, FtsCleared(View(c), s)) ELSE UNCHANGED db
         \/ Fault
            /\ \/ Writable(c) /\ Statement(c, FtsCleared(View(c), s))
               \/ Writable(c) /\ Statement(c, [View(c) EXCEPT !.ftsHead[s] = NoHead])
               \/ UNCHANGED db
      /\ Calling(o, s, "answer", NoHead)
      /\ UNCHANGED ready

NoRecovery(o, s) ==
  /\ View(conn[o]).head[s] # NoHead /\ ~RecoveryDue(o, s)
  /\ Calling(o, s, "answer", NoHead)
  /\ NoFault /\ UNCHANGED <<db, ready>>

(* An owner that is not ready first brings a missing table back. *)
RecoverBehind(o, s) ==
  LET c == conn[o]
      store == IF ready[o] = "ready" THEN View(c) ELSE Ensured(View(c))
  IN  /\ RecoveryDue(o, s)
      /\ IF store = View(c) THEN UNCHANGED db ELSE Statement(c, store)
      /\ ready' = [ready EXCEPT ![o] = "ready"]
      /\ Calling(o, s, "rows", View(c).head[s])
      /\ NoFault

EnsureFails(o, s) ==
  /\ RecoveryDue(o, s) /\ ready[o] = "unready"
  /\ IF View(conn[o]).table = Absent /\ ~Writable(conn[o]) THEN NoFault ELSE Fault
  /\ Calling(o, s, "answer", NoHead)
  /\ UNCHANGED <<db, ready>>

BeginSearch(o, s) ==
  /\ call[conn[o]].stage = "idle" /\ ready[o] # "none"
  /\ \/ RecoverUnprojected(o, s) \/ NoRecovery(o, s)
     \/ RecoverBehind(o, s) \/ EnsureFails(o, s)
  /\ outcome' = "none"
  /\ UNCHANGED <<conn, available, history>>

Reading(c, stage) ==
  call[c].stage = stage /\ outcome' = "none" /\ UNCHANGED <<conn, available>>

ReadRows(c) ==
  /\ Reading(c, "rows")
  /\ call' = [call EXCEPT ![c].stage = "rebuild", ![c].rows = View(c).rows[call[c].session]]
  /\ NoFault /\ UNCHANGED <<db, ready, history>>

(* The recovery is given up, and the owner stays ready. *)
ReadRowsFails(c) ==
  /\ Reading(c, "rows")
  /\ Fault
  /\ call' = [call EXCEPT ![c].stage = "answer", ![c].head = NoHead]
  /\ UNCHANGED <<db, ready, history>>

(* Seeded fault of Rebuilt: the head is read again when the rows are written. *)
RebuiltUnderLastHead(store, reading) ==
  [store EXCEPT !.table[reading.session] = reading.rows,
                !.ftsHead[reading.session] = store.head[reading.session]]

Rebuilt(store, reading) ==
  [store EXCEPT !.table[reading.session] = reading.rows,
                !.ftsHead[reading.session] = reading.head]

Rebuilding(c) ==
  /\ Reading(c, "rebuild")
  /\ call' = [call EXCEPT ![c].stage = "answer", ![c].head = NoHead, ![c].rows = Empty]

Distrusted(c) == ready' = [ready EXCEPT ![call[c].owner] = "unready"]

(* Other rows were projected under the same head since they were read. *)
Overtaken(c) ==
  LET s == call[c].session
  IN  View(c).head[s] = call[c].head /\ View(c).rows[s] # call[c].rows

(* Whether BEGIN worked or not, COMMIT ends the transaction of the           *)
(* connection, one that an earlier call left open included.                  *)
Rebuild(c) ==
  /\ Rebuilding(c)
  /\ Writable(c) /\ Usable(View(c))
  /\ Committed(Rebuilt(View(c), call[c]))
  /\ overtaken' = (overtaken \/ Overtaken(c))
  /\ NoFault /\ UNCHANGED <<ready, unrecorded>>

RebuildUncommitted(c) ==
  /\ Rebuilding(c)
  /\ Writable(c) /\ Usable(View(c))
  /\ Fault
  /\ LeftOpen(c, Rebuilt(View(c), call[c]))
  /\ overtaken' = (overtaken \/ Overtaken(c))
  /\ Distrusted(c)
  /\ UNCHANGED unrecorded

(* A statement fails; ROLLBACK undoes what the connection has open. *)
RebuildFails(c) ==
  /\ Rebuilding(c)
  /\ IF Writable(c) /\ Usable(View(c)) THEN Fault ELSE NoFault
  /\ IF Writable(c) THEN RolledBack ELSE UNCHANGED db
  /\ Distrusted(c)
  /\ UNCHANGED history

(* BEGIN fails unnoticed with nothing open: the statements that still work   *)
(* are committed one by one, and COMMIT has nothing to commit.               *)
RebuildUnlocked(c) ==
  /\ Rebuilding(c)
  /\ holder = None /\ Usable(disk)
  /\ Fault
  /\ \E E \in SUBSET Entries :
       LET store == Rebuilt(disk, [call[c] EXCEPT !.rows =
                                     [e \in Entries |-> IF e \in E THEN @[e] ELSE None]])
           whole == store.table = Rebuilt(disk, call[c]).table
       IN  /\ \/ Committed([store EXCEPT !.ftsHead = disk.ftsHead])
              \/ whole /\ Committed(store)
           /\ unrecorded' = (unrecorded \/ ~whole)
  /\ overtaken' = (overtaken \/ disk.rows[call[c].session] # call[c].rows)
  /\ Distrusted(c)

Answering(c) ==
  /\ Reading(c, "answer")
  /\ call' = [call EXCEPT ![c] = NoCall]

Answer(c) ==
  /\ Answering(c)
  /\ ready[call[c].owner] = "ready" => Usable(View(c))
  /\ NoFault /\ UNCHANGED <<db, ready, history>>

(* Any error of the full-text query drops the table, if it can be dropped;   *)
(* the heads stay.                                                           *)
AnswerFails(c) ==
  /\ Answering(c)
  /\ ready[call[c].owner] = "ready"
  /\ IF Usable(View(c)) THEN Fault ELSE NoFault
  /\ Distrusted(c)
  /\ \/ Writable(c) /\ Statement(c, [View(c) EXCEPT !.table = Absent]) /\ unrecorded' = TRUE
     \/ UNCHANGED <<db, unrecorded>>
  /\ UNCHANGED overtaken

-----------------------------------------------------------------------------
(* search_sources_read_only: over several sessions, each with the head the   *)
(* caller is allowed to read up to; it answers only when all are projected   *)
(* up to exactly that head, and writes nothing.                              *)

Sources == UNION {[S -> Heads] : S \in SUBSET Sessions \ {{}}}

Covered(head, sources) == {s \in DOMAIN sources : head[s] = sources[s]}

(* Seeded fault of UsesFts: a ready owner searches its copy at any head. *)
UsesFtsIfReady(o, sources) == ready[o] = "ready" /\ Usable(View(conn[o]))

UsesFts(o, sources) ==
  /\ ready[o] = "ready" /\ Usable(View(conn[o]))
  /\ Covered(View(conn[o]).ftsHead, sources) = DOMAIN sources

Authorized(o, sources) ==
  {row \in (DOMAIN sources) \X Entries :
     row[2] <= sources[row[1]] /\ View(conn[o]).rows[row[1]][row[2]] # None}

(* The full-text query joins the copy with the projection by entry id alone. *)
FtsHits(o, sources, text) ==
  IF UsesFts(o, sources)
  THEN {row \in Authorized(o, sources) : View(conn[o]).table[row[1]][row[2]] = text} ELSE {}

LikeHits(o, sources, text) ==
  {row \in Authorized(o, sources) : View(conn[o]).rows[row[1]][row[2]] = text}

-----------------------------------------------------------------------------
(* The connections end, by a crash or by closing them; SQLite undoes what is *)
(* not committed, and the next ones probe again.                             *)
Restart ==
  /\ Serving \/ holder # None
  /\ seen' = disk /\ holder' = None
  /\ ready' = [o \in Owners |-> "none"]
  /\ call' = [c \in Connections |-> NoCall]
  /\ available' \in BOOLEAN
  /\ outcome' = "none"
  /\ UNCHANGED <<disk, conn, history, faults>>

(* The shadow tables of the full-text table are damaged. *)
Damage ==
  /\ holder = None /\ Usable(disk)
  /\ Fault
  /\ Committed([disk EXCEPT !.table = Broken])
  /\ outcome' = "none"
  /\ UNCHANGED <<conn, available, ready, call, history>>

Search ==
  \/ \E o \in Owners, s \in Sessions : BeginSearch(o, s)
  \/ \E c \in Connections :
       \/ ReadRows(c) \/ ReadRowsFails(c)
       \/ Rebuild(c) \/ RebuildUncommitted(c) \/ RebuildFails(c) \/ RebuildUnlocked(c)
       \/ Answer(c) \/ AnswerFails(c)

Next ==
  \/ \E o \in Owners :
       \/ New(o) \/ NewFails(o)
       \/ Write(o) \/ CommitFails(o) \/ WriteFails(o) \/ WriteRefused(o)
  \/ Search
  \/ Restart
  \/ Damage

Spec == Init /\ [][Next]_vars

-----------------------------------------------------------------------------
(* Correctness. *)

OneConnection == \A o, p \in Owners : conn[o] = conn[p]

(* On one connection the full-text table never holds a row that the          *)
(* projection does not hold with the same text, whichever owner wrote last,  *)
(* after failed writes, damaged tables and restarts, and also in what a      *)
(* failed COMMIT left open.                                                  *)
FtsRowsAreProjected ==
  Serving /\ OneConnection =>
    \A store \in {disk, seen} : Usable(store) =>
      \A s \in Sessions, e \in Entries : store.table[s][e] \in {None, store.rows[s][e]}

(* On any number of connections: as long as no rows vanished without their   *)
(* head and no head stood for two contents while one was being mirrored, a   *)
(* full-text head that is level with the projection's means that all rows    *)
(* are mirrored, so that appending only the new ones is right.               *)
LevelMeansMirrored ==
  Serving /\ ~unrecorded /\ ~overtaken =>
    \A store \in {disk, seen} : Usable(store) =>
      \A s \in Sessions : Level(store, s) /\ store.head[s] # NoHead => Complete(store, s)

(* A search over several sources never lets the copy answer with a row that  *)
(* the projection itself does not find, although its query compares ids and  *)
(* not texts.                                                                *)
SourceHitsAreProjected ==
  ~overtaken =>
    \A o \in Owners, sources \in Sources :
      Covered(View(conn[o]).head, sources) = DOMAIN sources /\ UsesFts(o, sources)
        => \A text \in Texts : FtsHits(o, sources, text) \subseteq LikeHits(o, sources, text)

Projection(store) == <<store.rows, store.head>>

(* A write that is reported failed changes nothing that is committed; what   *)
(* is projected changes later only by a write that succeeds, or when a       *)
(* search on the connection of a failed COMMIT commits that write, whole.    *)
FailedWritesLeaveNoTrace ==
  [][/\ outcome' = "failed" => UNCHANGED disk
     /\ Serving /\ Projection(disk') # Projection(disk)
          => outcome' = "ok" \/ Projection(disk') = Projection(seen)]_vars

(* On one connection, a search that goes on with a full-text table it can    *)
(* read, after a recovery without a fault, has its session mirrored          *)
(* completely.                                                               *)
SearchRebuildsWhatIsBehind ==
  [][\A c \in Connections :
       LET s == call'[c].session
       IN  /\ call'[c].stage = "answer" /\ call[c].stage # "answer"
           /\ ready'[call'[c].owner] = "ready" /\ Usable(View(c)')
           /\ OneConnection /\ NoFault /\ ~unrecorded
           => View(c)'.head[s] = NoHead \/ Complete(View(c)', s)]_vars

(* A session whose full-text head is level is mirrored completely whenever   *)
(* there is a full-text table.                                               *)
LevelHeadsAreTrue ==
  Serving /\ Usable(disk) =>
    \A s \in Sessions : disk.ftsHead[s] \in Heads /\ Level(disk, s) => Complete(disk, s)
=============================================================================
