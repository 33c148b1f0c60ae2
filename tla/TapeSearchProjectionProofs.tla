---------------------- MODULE TapeSearchProjectionProofs ----------------------
(*****************************************************************************)
(* Proofs about TapeSearchProjection for any number of owners, connections,  *)
(* sessions, entries and storage faults.                                     *)
(*                                                                           *)
(* The invariant is about both stores, the committed one and the one that a  *)
(* transaction left open sees, and about what may lie on disk before a       *)
(* TapeSearchProjection is there to prune it.  It speaks of one session at a *)
(* time: nearly every step touches only one.                                 *)
(*****************************************************************************)
EXTENDS TapeSearchProjection, TLAPS

(* The full-text rows of a session, as far as there are any, are its         *)
(* projected rows.                                                           *)
Part(store, s) == \A e \in Entries : store.table[s][e] \in {None, store.rows[s][e]}

ValidAndLevel(store, s) == Valid(store, s) /\ Level(store, s)

(* A session, given whether rows vanished (gone), rows were overtaken        *)
(* (stale), and all owners are on one connection (one): level heads and,     *)
(* before the first pruning, only the rows it will keep are worth anything,  *)
(* and a table made in the place of a missing one meets no head.             *)
GoodSession(store, s, gone, stale, one) ==
  /\ Usable(store) =>
       /\ ~stale /\ ValidAndLevel(store, s) => Part(store, s)
       /\ ~stale /\ ~gone /\ ValidAndLevel(store, s) => store.table[s] = store.rows[s]
       /\ one /\ Kept(store, s) => Part(store, s)
  /\ ~gone /\ store.table = Absent => store.ftsHead[s] \notin Heads

GoodStore(store, gone, stale, one) ==
  store \in Stores /\ \A s \in Sessions : GoodSession(store, s, gone, stale, one)

(* What pruning establishes and every owner keeps. *)
PrunedSession(store, s, one) ==
  /\ store.head[s] # Old /\ store.ftsHead[s] # Old
  /\ store.head[s] = NoHead => store.rows[s] = Empty
  /\ one /\ Usable(store) => Part(store, s)

PrunedStore(store, one) == \A s \in Sessions : PrunedSession(store, s, one)

StoresAreGood ==
  /\ GoodStore(disk, unrecorded, overtaken, OneConnection)
  /\ GoodStore(seen, unrecorded, overtaken, OneConnection)
  /\ holder = None => seen = disk
  /\ Serving => PrunedStore(disk, OneConnection)
  /\ holder # None => PrunedStore(seen, OneConnection)

(* Every call is made by an owner that is there, on that owner's connection. *)
CallsHaveOwners ==
  \A c \in Connections : call[c].stage # "idle" =>
    /\ call[c].owner \in Owners /\ call[c].session \in Sessions
    /\ conn[call[c].owner] = c /\ ready[call[c].owner] # "none"

(* On one connection nobody writes between a search's reading and its        *)
(* rebuilding.                                                               *)
NobodyOvertakes ==
  OneConnection =>
    /\ ~overtaken
    /\ holder # None => \A o \in Owners : conn[o] = holder
    /\ \A c \in Connections : call[c].stage = "rebuild" =>
         call[c].rows = View(c).rows[call[c].session]

OtherTypes ==
  /\ holder \in Connections \cup {None}
  /\ conn \in [Owners -> Connections]
  /\ ready \in [Owners -> {"none", "ready", "unready"}]
  /\ call \in [Connections -> Calls]
  /\ outcome \in {"none", "ok", "failed"}
  /\ available \in BOOLEAN /\ unrecorded \in BOOLEAN /\ overtaken \in BOOLEAN
  /\ faults \in 0..MaxFaults

IInv == OtherTypes /\ StoresAreGood /\ CallsHaveOwners /\ NobodyOvertakes

-----------------------------------------------------------------------------
(* The shape of stores. *)

LEMMA EmptyFacts ==
  /\ Empty \in Rows /\ \A e \in Entries : Empty[e] = None
  /\ EmptyTable \in Tables /\ \A s \in Sessions : EmptyTable[s] = Empty
BY DEF Empty, EmptyTable, Rows, Tables

LEMMA TableFacts ==
  /\ \A table \in Tables : table \notin {Absent, Broken}
  /\ Absent # Broken
BY SearchConstants

LEMMA StoreFields ==
  ASSUME NEW st \in Stores
  PROVE  /\ st.rows \in Tables /\ st.head \in Metas /\ st.ftsHead \in Metas
         /\ st.table \in Tables \cup {Absent, Broken}
         /\ Usable(st) <=> st.table \in Tables
         /\ ~Usable(st) <=> st.table \in {Absent, Broken}
         /\ \A s \in Sessions : st.rows[s] \in Rows
         /\ \A s \in Sessions : st.head[s] \in Heads \cup {NoHead, Old}
         /\ \A s \in Sessions : st.ftsHead[s] \in Heads \cup {NoHead, Old}
         /\ Usable(st) => \A s \in Sessions : st.table[s] \in Rows
         /\ st = [rows |-> st.rows, head |-> st.head, table |-> st.table, ftsHead |-> st.ftsHead]
<1>1. /\ st.rows \in Tables /\ st.head \in Metas /\ st.ftsHead \in Metas
      /\ st.table \in Tables \cup {Absent, Broken}
      /\ st = [rows |-> st.rows, head |-> st.head, table |-> st.table, ftsHead |-> st.ftsHead]
  BY DEF Stores
<1>2. (Usable(st) <=> st.table \in Tables) /\ (~Usable(st) <=> st.table \in {Absent, Broken})
  BY <1>1, TableFacts DEF Usable
<1> QED
  BY <1>1, <1>2 DEF Tables, Metas

LEMMA StoreType ==
  ASSUME NEW r \in Tables, NEW h \in Metas, NEW t \in Tables \cup {Absent, Broken}, NEW f \in Metas
  PROVE  [rows |-> r, head |-> h, table |-> t, ftsHead |-> f] \in Stores
BY DEF Stores

LEMMA OneRowSet ==
  ASSUME NEW table \in Tables, NEW s \in Sessions, NEW r \in Rows
  PROVE  /\ [table EXCEPT ![s] = r] \in Tables
         /\ [table EXCEPT ![s] = r][s] = r
         /\ \A z \in Sessions : z # s => [table EXCEPT ![s] = r][z] = table[z]
BY DEF Tables

LEMMA OneHeadSet ==
  ASSUME NEW meta \in Metas, NEW s \in Sessions, NEW h \in Heads \cup {NoHead, Old}
  PROVE  /\ [meta EXCEPT ![s] = h] \in Metas
         /\ [meta EXCEPT ![s] = h][s] = h
         /\ \A z \in Sessions : z # s => [meta EXCEPT ![s] = h][z] = meta[z]
BY DEF Metas

LEMMA OverlayFacts ==
  ASSUME NEW old \in Rows, NEW new \in Contents \cup Rows
  PROVE  /\ Overlay(old, new) \in Rows
         /\ \A e \in Entries : Overlay(old, new)[e] = IF e \in DOMAIN new THEN new[e] ELSE old[e]
BY DEF Overlay, Rows, Contents

(* Nothing worse has become of a session of x than it was in st. *)
SameSession(x, st, s) ==
  /\ x.rows[s] = st.rows[s] /\ x.head[s] = st.head[s] /\ x.ftsHead[s] = st.ftsHead[s]
  /\ Usable(x) => Usable(st) /\ x.table[s] = st.table[s]
  /\ x.table = Absent => st.table = Absent

LEMMA SameIsGood ==
  ASSUME NEW x, NEW st, NEW s, NEW gone, NEW stale, NEW one, SameSession(x, st, s)
  PROVE  /\ GoodSession(st, s, gone, stale, one) => GoodSession(x, s, gone, stale, one)
         /\ PrunedSession(st, s, one) => PrunedSession(x, s, one)
BY DEF SameSession, GoodSession, PrunedSession, Part, ValidAndLevel, Valid, Level, Kept

(* A history variable that is set asks for less. *)
LEMMA HistoryAsksLess ==
  ASSUME NEW st, NEW gone \in BOOLEAN, NEW stale \in BOOLEAN, NEW one,
         NEW gone2 \in BOOLEAN, NEW stale2 \in BOOLEAN,
         gone => gone2, stale => stale2,
         GoodStore(st, gone, stale, one)
  PROVE  GoodStore(st, gone2, stale2, one)
BY DEF GoodStore, GoodSession

-----------------------------------------------------------------------------
(* What becomes of one session. *)

(* Without a full-text head there is nothing to agree with. *)
LEMMA HeadlessIsGood ==
  ASSUME NEW x, NEW s, NEW gone, NEW stale, NEW one, x.ftsHead[s] = NoHead
  PROVE  GoodSession(x, s, gone, stale, one)
BY SearchConstants DEF GoodSession, ValidAndLevel, Valid, Level, Kept

LEMMA MirroredIsGood ==
  ASSUME NEW x, NEW s, NEW gone, NEW stale, NEW one,
         Usable(x), x.table[s] = x.rows[s]
  PROVE  GoodSession(x, s, gone, stale, one) /\ Part(x, s)
BY TableFacts DEF GoodSession, Part, Usable

LEMMA PrunedFields ==
  ASSUME NEW st \in Stores
  PROVE  /\ Pruned(st) \in Stores
         /\ \A s \in Sessions :
              /\ Pruned(st).rows[s] = IF Valid(st, s) THEN st.rows[s] ELSE Empty
              /\ Pruned(st).head[s] = IF Valid(st, s) THEN st.head[s] ELSE NoHead
              /\ Usable(st) => Pruned(st).table[s] = IF Kept(st, s) THEN st.table[s] ELSE Empty
              /\ Pruned(st).ftsHead[s]
                   = IF Kept(st, s) /\ st.table # Broken THEN st.ftsHead[s] ELSE NoHead
         /\ Usable(Pruned(st)) <=> Usable(st)
         /\ ~Usable(st) => Pruned(st).table = Absent
<1> DEFINE r == [s \in Sessions |-> IF Valid(st, s) THEN st.rows[s] ELSE Empty]
           h == [s \in Sessions |-> IF Valid(st, s) THEN st.head[s] ELSE NoHead]
           t == IF Usable(st)
                THEN [s \in Sessions |-> IF Kept(st, s) THEN st.table[s] ELSE Empty]
                ELSE Absent
           f == [s \in Sessions |->
                   IF Kept(st, s) /\ st.table # Broken THEN st.ftsHead[s] ELSE NoHead]
<1>1. r \in Tables
  BY StoreFields, EmptyFacts DEF Tables
<1>2. h \in Metas /\ f \in Metas
  BY StoreFields DEF Metas
<1>3. Usable(st) => t \in Tables
  BY StoreFields, EmptyFacts DEF Tables
<1>4. ~Usable(st) => t = Absent
  OBVIOUS
<1>5. Pruned(st) = [rows |-> r, head |-> h, table |-> t, ftsHead |-> f]
  BY DEF Pruned
<1>6. /\ Pruned(st).rows = r /\ Pruned(st).head = h
      /\ Pruned(st).table = t /\ Pruned(st).ftsHead = f
  BY <1>5
<1>7. Usable(Pruned(st)) <=> Usable(st)
  <2>1. Usable(st) => t \notin {Absent, Broken}
    BY <1>3, TableFacts
  <2> QED
    BY <1>4, <1>6, <2>1 DEF Usable
<1>8. \A s \in Sessions :
        /\ r[s] = IF Valid(st, s) THEN st.rows[s] ELSE Empty
        /\ h[s] = IF Valid(st, s) THEN st.head[s] ELSE NoHead
        /\ f[s] = IF Kept(st, s) /\ st.table # Broken THEN st.ftsHead[s] ELSE NoHead
        /\ Usable(st) => t[s] = IF Kept(st, s) THEN st.table[s] ELSE Empty
  OBVIOUS
<1> HIDE DEF r, h, t, f
<1>9. Pruned(st) \in Stores
  BY <1>1, <1>2, <1>3, <1>4, <1>5, StoreType
<1> QED
  BY <1>4, <1>6, <1>7, <1>8, <1>9

LEMMA PrunedIsGood ==
  ASSUME NEW st, NEW gone, NEW stale, NEW one, GoodStore(st, gone, stale, one)
  PROVE  GoodStore(Pruned(st), gone, stale, one) /\ PrunedStore(Pruned(st), one)
<1> DEFINE x == Pruned(st)
<1>1. st \in Stores
  BY DEF GoodStore
<1>2. /\ x \in Stores
      /\ \A s \in Sessions :
           /\ x.rows[s] = IF Valid(st, s) THEN st.rows[s] ELSE Empty
           /\ x.head[s] = IF Valid(st, s) THEN st.head[s] ELSE NoHead
           /\ Usable(st) => x.table[s] = IF Kept(st, s) THEN st.table[s] ELSE Empty
           /\ x.ftsHead[s] = IF Kept(st, s) /\ st.table # Broken THEN st.ftsHead[s] ELSE NoHead
      /\ Usable(x) <=> Usable(st)
      /\ ~Usable(st) => x.table = Absent
  BY <1>1, PrunedFields
<1> HIDE DEF x
<1>3. ASSUME NEW s \in Sessions
      PROVE  GoodSession(x, s, gone, stale, one) /\ PrunedSession(x, s, one)
  <2>1. GoodSession(st, s, gone, stale, one)
    BY DEF GoodStore
  <2>2. NoHead \notin Heads /\ Old \notin Heads /\ NoHead # Old
    BY SearchConstants
  <2>3. /\ x.head[s] # Old /\ x.ftsHead[s] # Old
        /\ x.head[s] = NoHead => x.rows[s] = Empty
    BY <1>2, <2>2 DEF Valid, Kept
  <2>4. CASE x.ftsHead[s] = NoHead
    <3>1. GoodSession(x, s, gone, stale, one)
      BY <2>4, HeadlessIsGood
    <3>2. ASSUME one, Usable(x) PROVE Part(x, s)
      <4>1. Usable(st)
        BY <1>2, <3>2
      <4>2. ~Kept(st, s)
        BY <1>2, <2>2, <2>4, <4>1 DEF Kept, Usable
      <4>3. x.table[s] = Empty
        BY <1>2, <4>1, <4>2
      <4> QED
        BY <4>3, EmptyFacts DEF Part
    <3> QED
      BY <2>3, <3>1, <3>2 DEF PrunedSession
  <2>5. CASE x.ftsHead[s] # NoHead
    <3>1. Kept(st, s) /\ Valid(st, s) /\ st.table # Broken
      BY <1>2, <2>5 DEF Kept
    <3>2. /\ x.rows[s] = st.rows[s] /\ x.head[s] = st.head[s] /\ x.ftsHead[s] = st.ftsHead[s]
          /\ Usable(x) => Usable(st) /\ x.table[s] = st.table[s]
      BY <1>2, <3>1
    <3>3. x.table = Absent => st.table = Absent
      BY <1>2, <3>1, TableFacts DEF Usable
    <3>4. SameSession(x, st, s)
      BY <3>2, <3>3 DEF SameSession
    <3>5. GoodSession(x, s, gone, stale, one)
      BY <2>1, <3>4, SameIsGood
    <3>6. Kept(x, s)
      BY <3>1, <3>2 DEF Kept, Valid
    <3> QED
      BY <2>3, <3>5, <3>6 DEF PrunedSession, GoodSession
  <2> QED
    BY <2>4, <2>5
<1> QED
  BY <1>2, <1>3 DEF GoodStore, PrunedStore, x

LEMMA EnsuredFields ==
  ASSUME NEW st \in Stores
  PROVE  /\ Ensured(st) \in Stores
         /\ Ensured(st).rows = st.rows /\ Ensured(st).head = st.head
         /\ Ensured(st).ftsHead = st.ftsHead
         /\ st.table = Absent => Ensured(st).table = EmptyTable
         /\ st.table # Absent => Ensured(st) = st
<1>1. Ensured(st) = [rows |-> st.rows, head |-> st.head, ftsHead |-> st.ftsHead,
                     table |-> IF st.table = Absent THEN EmptyTable ELSE st.table]
  BY StoreFields DEF Ensured
<1> QED
  BY <1>1, StoreFields, StoreType, EmptyFacts

(* A table that is created is empty, which no session with a level head minds. *)
LEMMA EnsuredIsGood ==
  ASSUME NEW st, NEW gone, NEW stale, NEW one, GoodStore(st, gone, stale, one)
  PROVE  /\ GoodStore(Ensured(st), gone, stale, one)
         /\ PrunedStore(st, one) => PrunedStore(Ensured(st), one)
<1> DEFINE x == Ensured(st)
<1>1. st \in Stores
  BY DEF GoodStore
<1>2. /\ x \in Stores
      /\ x.rows = st.rows /\ x.head = st.head /\ x.ftsHead = st.ftsHead
      /\ st.table = Absent => x.table = EmptyTable
      /\ st.table # Absent => x = st
  BY <1>1, EnsuredFields
<1> HIDE DEF x
<1>3. CASE st.table # Absent
  BY <1>2, <1>3 DEF x
<1>4. CASE st.table = Absent
  <2>1. ASSUME NEW s \in Sessions
        PROVE  /\ GoodSession(x, s, gone, stale, one)
               /\ PrunedSession(st, s, one) => PrunedSession(x, s, one)
    <3>1. Part(x, s) /\ x.table # Absent
      BY <1>2, <1>4, EmptyFacts, TableFacts DEF Part
    <3>2. ~gone => ~ValidAndLevel(x, s)
      BY <1>2, <1>4 DEF GoodStore, GoodSession, ValidAndLevel, Valid, Level
    <3> QED
      BY <1>2, <3>1, <3>2 DEF GoodSession, PrunedSession
  <2> QED
    BY <1>2, <2>1 DEF GoodStore, PrunedStore, x
<1> QED
  BY <1>3, <1>4

LEMMA FtsClearedFields ==
  ASSUME NEW st \in Stores, NEW s \in Sessions
  PROVE  /\ FtsCleared(st, s) \in Stores
         /\ FtsCleared(st, s).rows = st.rows /\ FtsCleared(st, s).head = st.head
         /\ FtsCleared(st, s).ftsHead[s] = NoHead
         /\ \A z \in Sessions : z # s => FtsCleared(st, s).ftsHead[z] = st.ftsHead[z]
         /\ Usable(FtsCleared(st, s)) <=> Usable(st)
         /\ ~Usable(st) => FtsCleared(st, s).table = st.table
         /\ Usable(st) => FtsCleared(st, s).table[s] = Empty
         /\ Usable(st) => \A z \in Sessions : z # s => FtsCleared(st, s).table[z] = st.table[z]
<1> DEFINE f == [st.ftsHead EXCEPT ![s] = NoHead]
           t == [st.table EXCEPT ![s] = Empty]
           u == IF Usable(st) THEN t ELSE st.table
<1>1. FtsCleared(st, s) = [rows |-> st.rows, head |-> st.head, table |-> u, ftsHead |-> f]
  <2>1. FtsCleared(st, s) = [st EXCEPT !.ftsHead = f, !.table = u]
    BY DEF FtsCleared
  <2> HIDE DEF f, u
  <2>2. st = [rows |-> st.rows, head |-> st.head, table |-> st.table, ftsHead |-> st.ftsHead]
    BY StoreFields
  <2> QED
    BY <2>1, <2>2
<1>2. f \in Metas /\ f[s] = NoHead /\ \A z \in Sessions : z # s => f[z] = st.ftsHead[z]
  BY StoreFields, OneHeadSet
<1>3. Usable(st) => /\ t \in Tables /\ t[s] = Empty
                    /\ \A z \in Sessions : z # s => t[z] = st.table[z]
  BY StoreFields, OneRowSet, EmptyFacts
<1> HIDE DEF f, t
<1>4. u \in Tables \cup {Absent, Broken} /\ (u \notin {Absent, Broken} <=> Usable(st))
  BY <1>3, StoreFields, TableFacts
<1>5. FtsCleared(st, s) \in Stores
  BY <1>1, <1>2, <1>4, StoreFields, StoreType
<1> QED
  BY <1>1, <1>2, <1>3, <1>4, <1>5 DEF Usable

(* A step that touches one session is judged by that session. *)
LEMMA TouchedIsGood ==
  ASSUME NEW st, NEW x \in Stores, NEW s \in Sessions,
         NEW gone, NEW stale, NEW one,
         GoodStore(st, gone, stale, one),
         \A z \in Sessions : z # s => SameSession(x, st, z),
         GoodSession(x, s, gone, stale, one)
  PROVE  /\ GoodStore(x, gone, stale, one)
         /\ PrunedStore(st, one) /\ PrunedSession(x, s, one) => PrunedStore(x, one)
<1>1. \A z \in Sessions : z # s => GoodSession(x, z, gone, stale, one)
  BY SameIsGood DEF GoodStore
<1>2. PrunedStore(st, one) => \A z \in Sessions : z # s => PrunedSession(x, z, one)
  BY SameIsGood DEF PrunedStore
<1> QED
  BY <1>1, <1>2 DEF GoodStore, PrunedStore

LEMMA FtsClearedIsGood ==
  ASSUME NEW st, NEW s \in Sessions, NEW gone, NEW stale, NEW one,
         GoodStore(st, gone, stale, one)
  PROVE  /\ GoodStore(FtsCleared(st, s), gone, stale, one)
         /\ PrunedStore(st, one) => PrunedStore(FtsCleared(st, s), one)
<1> DEFINE x == FtsCleared(st, s)
<1>1. st \in Stores
  BY DEF GoodStore
<1>2. /\ x \in Stores /\ x.rows = st.rows /\ x.head = st.head
      /\ x.ftsHead[s] = NoHead
      /\ \A z \in Sessions : z # s => x.ftsHead[z] = st.ftsHead[z]
      /\ Usable(x) <=> Usable(st)
      /\ ~Usable(st) => x.table = st.table
      /\ Usable(st) => x.table[s] = Empty
      /\ Usable(st) => \A z \in Sessions : z # s => x.table[z] = st.table[z]
  BY <1>1, FtsClearedFields
<1> HIDE DEF x
<1>3. \A z \in Sessions : z # s => SameSession(x, st, z)
  BY <1>2 DEF SameSession, Usable
<1>4. GoodSession(x, s, gone, stale, one)
  BY <1>2, HeadlessIsGood
<1>5. PrunedSession(st, s, one) => PrunedSession(x, s, one)
  <2>1. Usable(x) => Part(x, s)
    BY <1>2, EmptyFacts DEF Part
  <2> QED
    BY <1>2, <2>1, SearchConstants DEF PrunedSession
<1>6. PrunedStore(st, one) => PrunedSession(x, s, one)
  BY <1>5 DEF PrunedStore
<1> QED
  BY <1>2, <1>3, <1>4, <1>6, TouchedIsGood DEF x

(* Only the full-text head of a session goes. *)
LEMMA HeadGone ==
  ASSUME NEW st, NEW s \in Sessions, NEW gone, NEW stale, NEW one,
         GoodStore(st, gone, stale, one)
  PROVE  /\ GoodStore([st EXCEPT !.ftsHead[s] = NoHead], gone, stale, one)
         /\ PrunedStore(st, one) => PrunedStore([st EXCEPT !.ftsHead[s] = NoHead], one)
<1> DEFINE f == [st.ftsHead EXCEPT ![s] = NoHead]
           x == [st EXCEPT !.ftsHead = f]
<1>1. st \in Stores
  BY DEF GoodStore
<1>2. f \in Metas /\ f[s] = NoHead /\ \A z \in Sessions : z # s => f[z] = st.ftsHead[z]
  BY <1>1, StoreFields, OneHeadSet
<1>3. [st EXCEPT !.ftsHead[s] = NoHead] = x
  OBVIOUS
<1> HIDE DEF f
<1>4. x = [rows |-> st.rows, head |-> st.head, table |-> st.table, ftsHead |-> f]
  BY <1>1, StoreFields
<1>5. x \in Stores /\ x.rows = st.rows /\ x.head = st.head /\ x.table = st.table /\ x.ftsHead = f
  BY <1>1, <1>2, <1>4, StoreFields, StoreType
<1> HIDE DEF x
<1>6. \A z \in Sessions : z # s => SameSession(x, st, z)
  BY <1>2, <1>5 DEF SameSession, Usable
<1>7. GoodSession(x, s, gone, stale, one)
  BY <1>2, <1>5, HeadlessIsGood
<1>8. PrunedStore(st, one) => PrunedSession(x, s, one)
  BY <1>2, <1>5, SearchConstants DEF PrunedStore, PrunedSession, Part, Usable
<1> QED
  BY <1>3, <1>5, <1>6, <1>7, <1>8, TouchedIsGood

-----------------------------------------------------------------------------
(* The transactions of a write. *)

Projecting(st, s, r, h) == [st EXCEPT !.rows[s] = r, !.head[s] = h]
Mirroring(st, s, r, h) == [st EXCEPT !.table[s] = r, !.ftsHead[s] = h]

LEMMA ProjectedFields ==
  ASSUME NEW st \in Stores, NEW s \in Sessions, NEW r \in Rows, NEW h \in Heads \cup {NoHead},
         NEW x, x = Projecting(st, s, r, h)
  PROVE  /\ x \in Stores /\ x.table = st.table /\ x.ftsHead = st.ftsHead
         /\ x.rows[s] = r /\ x.head[s] = h
         /\ \A z \in Sessions : z # s => x.rows[z] = st.rows[z] /\ x.head[z] = st.head[z]
<1> DEFINE rs == [st.rows EXCEPT ![s] = r]
           hs == [st.head EXCEPT ![s] = h]
<1>1. rs \in Tables /\ rs[s] = r /\ \A z \in Sessions : z # s => rs[z] = st.rows[z]
  BY StoreFields, OneRowSet
<1>2. hs \in Metas /\ hs[s] = h /\ \A z \in Sessions : z # s => hs[z] = st.head[z]
  BY StoreFields, OneHeadSet
<1>3. x = [st EXCEPT !.rows = rs, !.head = hs]
  BY DEF Projecting
<1> HIDE DEF rs, hs
<1>4. st = [rows |-> st.rows, head |-> st.head, table |-> st.table, ftsHead |-> st.ftsHead]
  BY StoreFields
<1>5. x = [rows |-> rs, head |-> hs, table |-> st.table, ftsHead |-> st.ftsHead]
  BY <1>3, <1>4
<1>6. x \in Stores
  BY <1>1, <1>2, <1>5, StoreFields, StoreType
<1> QED
  BY <1>1, <1>2, <1>5, <1>6

LEMMA MirrorFields ==
  ASSUME NEW st \in Stores, Usable(st), NEW s \in Sessions, NEW r \in Rows,
         NEW h \in Heads \cup {NoHead, Old},
         NEW x, x = Mirroring(st, s, r, h)
  PROVE  /\ x \in Stores /\ x.rows = st.rows /\ x.head = st.head
         /\ Usable(x)
         /\ x.table[s] = r /\ x.ftsHead[s] = h
         /\ \A z \in Sessions : z # s =>
              x.table[z] = st.table[z] /\ x.ftsHead[z] = st.ftsHead[z]
<1> DEFINE ts == [st.table EXCEPT ![s] = r]
           fs == [st.ftsHead EXCEPT ![s] = h]
<1>1. ts \in Tables /\ ts[s] = r /\ \A z \in Sessions : z # s => ts[z] = st.table[z]
  BY StoreFields, OneRowSet
<1>2. fs \in Metas /\ fs[s] = h /\ \A z \in Sessions : z # s => fs[z] = st.ftsHead[z]
  BY StoreFields, OneHeadSet
<1>3. x = [st EXCEPT !.table = ts, !.ftsHead = fs]
  BY DEF Mirroring
<1>4. ts = [st.table EXCEPT ![s] = r]
  OBVIOUS
<1> HIDE DEF ts, fs
<1>5. st = [rows |-> st.rows, head |-> st.head, table |-> st.table, ftsHead |-> st.ftsHead]
  BY StoreFields
<1>6. x = [rows |-> st.rows, head |-> st.head, table |-> ts, ftsHead |-> fs]
  BY <1>3, <1>5
<1>7. x \in Stores
  BY <1>1, <1>2, <1>6, StoreFields, StoreType
<1>8. Usable(x)
  BY <1>1, <1>6, TableFacts DEF Usable
<1> QED
  BY <1>1, <1>2, <1>4, <1>6, <1>7, <1>8

LEMMA SameSessionTransitive ==
  ASSUME NEW x, NEW y, NEW z, NEW s, SameSession(x, y, s), SameSession(y, z, s)
  PROVE  SameSession(x, z, s)
BY DEF SameSession

(* Rows and head of a session are set, and their copy with them or cleared. *)
LEMMA WrittenIsGood ==
  ASSUME NEW gone, NEW stale, NEW one,
         GoodStore(disk, gone, stale, one), PrunedStore(disk, one),
         NEW o, NEW s \in Sessions, NEW old \in Rows, NEW new \in Contents, NEW h \in Heads,
         NEW incremental \in BOOLEAN,
         incremental => Incremental(s) /\ old = disk.rows[s],
         ready[o] = "ready" => Usable(disk)
  PROVE  /\ GoodStore(Written(o, s, old, new, h, incremental), gone, stale, one)
         /\ PrunedStore(Written(o, s, old, new, h, incremental), one)
<1> DEFINE r == Overlay(old, new)
           p == Projecting(disk, s, r, h)
           copy == Overlay(IF incremental THEN disk.table[s] ELSE old, new)
           x == Mirroring(p, s, copy, h)
           y == FtsCleared(p, s)
<1>1. disk \in Stores /\ GoodSession(disk, s, gone, stale, one) /\ PrunedSession(disk, s, one)
  BY DEF GoodStore, PrunedStore
<1>2. NoHead \notin Heads /\ Old \notin Heads /\ NoHead # Old
  BY SearchConstants
<1>3. /\ r \in Rows
      /\ \A e \in Entries : r[e] = IF e \in DOMAIN new THEN new[e] ELSE old[e]
  BY OverlayFacts
<1>4. /\ p \in Stores /\ p.table = disk.table /\ p.ftsHead = disk.ftsHead
      /\ p.rows[s] = r /\ p.head[s] = h
      /\ \A z \in Sessions : z # s => p.rows[z] = disk.rows[z] /\ p.head[z] = disk.head[z]
  BY <1>1, <1>3, ProjectedFields
<1>5. \A z \in Sessions : z # s => SameSession(p, disk, z)
  BY <1>4 DEF SameSession, Usable
<1>6. h # Old /\ h # NoHead
  BY <1>2
<1>7. Written(o, s, old, new, h, incremental) = IF ready[o] = "ready" THEN x ELSE y
  BY DEF Written, Projecting, Mirroring
<1> HIDE DEF r, p
<1>8. CASE ready[o] = "ready"
  <2>1. Usable(p) /\ Usable(disk)
    BY <1>4, <1>8 DEF Usable
  <2>2. copy \in Rows
    <3>1. disk.table[s] \in Rows
      BY <1>1, <2>1, StoreFields
    <3> QED
      BY <3>1, OverlayFacts
  <2>3. \A e \in Entries :
          copy[e] = IF e \in DOMAIN new THEN new[e]
                    ELSE IF incremental THEN disk.table[s][e] ELSE old[e]
    <3>1. disk.table[s] \in Rows
      BY <1>1, <2>1, StoreFields
    <3> QED
      BY <3>1, OverlayFacts
  <2>0. x = Mirroring(p, s, copy, h) /\ h \in Heads \cup {NoHead, Old}
    OBVIOUS
  <2> HIDE DEF copy, x
  <2>4. /\ x \in Stores /\ x.rows = p.rows /\ x.head = p.head /\ Usable(x)
        /\ x.table[s] = copy /\ x.ftsHead[s] = h
        /\ \A z \in Sessions : z # s => x.table[z] = p.table[z] /\ x.ftsHead[z] = p.ftsHead[z]
    BY <1>4, <2>0, <2>1, <2>2, MirrorFields
  <2>5. incremental => ValidAndLevel(disk, s)
    BY <1>1, StoreFields DEF Incremental, ValidAndLevel, Valid, Level, PrunedSession
  <2>6. \A z \in Sessions : z # s => SameSession(x, p, z)
    BY <2>1, <2>4, TableFacts DEF SameSession, Usable
  <2>7. \A z \in Sessions : z # s => SameSession(x, disk, z)
    BY <1>5, <2>6, SameSessionTransitive
  <2>8. ~stale => Part(x, s)
    <3>1. CASE incremental
      <4>1. ~stale => Part(disk, s)
        BY <1>1, <2>1, <2>5, <3>1 DEF GoodSession
      <4> QED
        BY <1>3, <1>4, <2>3, <2>4, <3>1, <4>1 DEF Part
    <3>2. CASE ~incremental
      BY <1>3, <1>4, <2>3, <2>4, <3>2 DEF Part
    <3> QED
      BY <3>1, <3>2
  <2>9. ~stale /\ ~gone => x.table[s] = x.rows[s]
    <3>1. ASSUME ~stale, ~gone PROVE \A e \in Entries : copy[e] = r[e]
      <4>1. CASE incremental
        <5>1. disk.table[s] = disk.rows[s]
          BY <1>1, <2>1, <2>5, <3>1, <4>1 DEF GoodSession
        <5> QED
          BY <1>3, <2>3, <4>1, <5>1
      <4>2. CASE ~incremental
        BY <1>3, <2>3, <4>2
      <4> QED
        BY <4>1, <4>2
    <3>2. (\A e \in Entries : copy[e] = r[e]) => copy = r
      BY <1>3, <2>2 DEF Rows
    <3> QED
      BY <1>4, <2>4, <3>1, <3>2
  <2>10. one => Part(x, s)
    <3>1. CASE incremental
      <4>1. one => Part(disk, s)
        BY <1>1, <2>1 DEF PrunedSession
      <4> QED
        BY <1>3, <1>4, <2>3, <2>4, <3>1, <4>1 DEF Part
    <3>2. CASE ~incremental
      BY <1>3, <1>4, <2>3, <2>4, <3>2 DEF Part
    <3> QED
      BY <3>1, <3>2
  <2>11. GoodSession(x, s, gone, stale, one)
    BY <2>4, <2>8, <2>9, <2>10 DEF GoodSession, Usable
  <2>12. PrunedSession(x, s, one)
    BY <1>4, <1>6, <2>4, <2>10 DEF PrunedSession
  <2>13. GoodStore(x, gone, stale, one) /\ PrunedStore(x, one)
    BY <2>4, <2>7, <2>11, <2>12, TouchedIsGood
  <2> QED
    BY <1>7, <1>8, <2>13
<1>9. CASE ready[o] # "ready"
  <2>1. /\ y \in Stores /\ y.rows = p.rows /\ y.head = p.head
        /\ y.ftsHead[s] = NoHead
        /\ \A z \in Sessions : z # s => y.ftsHead[z] = p.ftsHead[z]
        /\ Usable(y) <=> Usable(p)
        /\ ~Usable(p) => y.table = p.table
        /\ Usable(p) => y.table[s] = Empty
        /\ Usable(p) => \A z \in Sessions : z # s => y.table[z] = p.table[z]
    BY <1>4, FtsClearedFields
  <2> HIDE DEF y
  <2>2. \A z \in Sessions : z # s => SameSession(y, p, z)
    BY <2>1 DEF SameSession, Usable
  <2>3. \A z \in Sessions : z # s => SameSession(y, disk, z)
    BY <1>5, <2>2, SameSessionTransitive
  <2>4. GoodSession(y, s, gone, stale, one)
    BY <2>1, HeadlessIsGood
  <2>5. Usable(y) => Part(y, s)
    BY <2>1, EmptyFacts DEF Part
  <2>6. PrunedSession(y, s, one)
    BY <1>2, <1>4, <1>6, <2>1, <2>5 DEF PrunedSession
  <2>7. GoodStore(y, gone, stale, one) /\ PrunedStore(y, one)
    BY <2>1, <2>3, <2>4, <2>6, TouchedIsGood
  <2> QED
    BY <1>7, <1>9, <2>7
<1> QED
  BY <1>8, <1>9

LEMMA DeletedIsGood ==
  ASSUME NEW gone, NEW stale, NEW one,
         GoodStore(disk, gone, stale, one), PrunedStore(disk, one), NEW s \in Sessions
  PROVE  GoodStore(Deleted(s), gone, stale, one) /\ PrunedStore(Deleted(s), one)
<1> DEFINE p == Projecting(disk, s, Empty, NoHead)
           y == FtsCleared(p, s)
<1>1. disk \in Stores
  BY DEF GoodStore
<1>2. /\ p \in Stores /\ p.table = disk.table /\ p.ftsHead = disk.ftsHead
      /\ p.rows[s] = Empty /\ p.head[s] = NoHead
      /\ \A z \in Sessions : z # s => p.rows[z] = disk.rows[z] /\ p.head[z] = disk.head[z]
  BY <1>1, EmptyFacts, ProjectedFields
<1>3. Deleted(s) = y
  BY DEF Deleted, Projecting
<1> HIDE DEF p
<1>4. /\ y \in Stores /\ y.rows = p.rows /\ y.head = p.head
      /\ y.ftsHead[s] = NoHead
      /\ \A z \in Sessions : z # s => y.ftsHead[z] = p.ftsHead[z]
      /\ Usable(y) <=> Usable(p)
      /\ ~Usable(p) => y.table = p.table
      /\ Usable(p) => y.table[s] = Empty
      /\ Usable(p) => \A z \in Sessions : z # s => y.table[z] = p.table[z]
  BY <1>2, FtsClearedFields
<1> HIDE DEF y
<1>5. \A z \in Sessions : z # s => SameSession(p, disk, z) /\ SameSession(y, p, z)
  BY <1>2, <1>4 DEF SameSession, Usable
<1>6. \A z \in Sessions : z # s => SameSession(y, disk, z)
  BY <1>5, SameSessionTransitive
<1>7. GoodSession(y, s, gone, stale, one)
  BY <1>4, HeadlessIsGood
<1>8. Usable(y) => Part(y, s)
  BY <1>4, EmptyFacts DEF Part
<1>9. PrunedSession(y, s, one)
  BY <1>2, <1>4, <1>8, SearchConstants DEF PrunedSession
<1>10. GoodStore(y, gone, stale, one) /\ PrunedStore(y, one)
  BY <1>4, <1>6, <1>7, <1>9, TouchedIsGood
<1> QED
  BY <1>3, <1>10

LEMMA AllClearedIsGood ==
  ASSUME NEW gone, NEW stale, NEW one, GoodStore(disk, gone, stale, one)
  PROVE  GoodStore(AllCleared, gone, stale, one) /\ PrunedStore(AllCleared, one)
<1> DEFINE x == AllCleared
           none == [s \in Sessions |-> NoHead]
           t == IF Usable(disk) THEN EmptyTable ELSE disk.table
<1>1. disk \in Stores
  BY DEF GoodStore
<1>2. none \in Metas /\ t \in Tables \cup {Absent, Broken}
  BY <1>1, EmptyFacts, StoreFields DEF Metas
<1>3. x = [rows |-> EmptyTable, head |-> none, table |-> t, ftsHead |-> none]
  BY DEF AllCleared
<1>4. x \in Stores
  BY <1>2, <1>3, EmptyFacts, StoreType
<1>5. /\ x.rows = EmptyTable /\ x.table = t
      /\ \A s \in Sessions : x.head[s] = NoHead /\ x.ftsHead[s] = NoHead
  BY <1>3
<1>6. Usable(x) => x.table = EmptyTable
  BY <1>5 DEF Usable
<1> HIDE DEF x
<1>7. \A s \in Sessions : GoodSession(x, s, gone, stale, one)
  BY <1>5, HeadlessIsGood
<1>8. \A s \in Sessions : PrunedSession(x, s, one)
  BY <1>5, <1>6, EmptyFacts, SearchConstants DEF PrunedSession, Part
<1> QED
  BY <1>4, <1>7, <1>8 DEF GoodStore, PrunedStore, x

(* Every transaction of a write keeps the stores good. *)
LEMMA TransactionsAreGood ==
  ASSUME NEW gone, NEW stale, NEW one,
         GoodStore(disk, gone, stale, one), PrunedStore(disk, one),
         NEW o, NEW store \in Transactions(o)
  PROVE  GoodStore(store, gone, stale, one) /\ PrunedStore(store, one)
<1>1. CASE \E s \in Sessions : store = Deleted(s)
  BY <1>1, DeletedIsGood
<1>2. CASE store = AllCleared
  BY <1>2, AllClearedIsGood
<1>3. CASE /\ ready[o] = "ready" => Usable(disk)
           /\ \E s \in Sessions, new \in Contents, h \in Heads :
                store = Appended(o, s, new, h)
  <2>1. PICK s \in Sessions, new \in Contents, h \in Heads : store = Appended(o, s, new, h)
    BY <1>3
  <2>2. disk.rows[s] \in Rows
    BY StoreFields DEF GoodStore
  <2>3. Incremental(s) \in BOOLEAN
    BY DEF Incremental
  <2> QED
    BY <1>3, <2>1, <2>2, <2>3, WrittenIsGood DEF Appended
<1>4. CASE /\ ready[o] = "ready" => Usable(disk)
           /\ \E s \in Sessions, new \in Contents, h \in Heads :
                store = Replaced(o, s, new, h)
  BY <1>4, EmptyFacts, WrittenIsGood DEF Replaced
<1>5. \/ /\ ready[o] = "ready" => Usable(disk)
         /\ \E s \in Sessions, new \in Contents, h \in Heads :
              store = Appended(o, s, new, h) \/ store = Replaced(o, s, new, h)
      \/ \E s \in Sessions : store = Deleted(s)
      \/ store = AllCleared
  BY DEF Transactions
<1> QED
  BY <1>1, <1>2, <1>3, <1>4, <1>5

-----------------------------------------------------------------------------
(* What a recovery writes, and what becomes of the table as a whole. *)

(* A copy of some rows of a session, under a head or with the head it had. *)
LEMMA CopyIsGood ==
  ASSUME NEW st, NEW x \in Stores, NEW s \in Sessions, NEW gone, NEW stale, NEW one,
         GoodStore(st, gone, stale, one), Usable(st), Usable(x),
         x.rows = st.rows, x.head = st.head,
         \A z \in Sessions : z # s => x.table[z] = st.table[z] /\ x.ftsHead[z] = st.ftsHead[z],
         ~stale /\ ValidAndLevel(x, s) => Part(x, s),
         ~stale /\ ~gone /\ ValidAndLevel(x, s) => x.table[s] = x.rows[s],
         one => Part(x, s)
  PROVE  /\ GoodStore(x, gone, stale, one)
         /\ x.ftsHead[s] # Old /\ PrunedStore(st, one) => PrunedStore(x, one)
<1>1. x.table # Absent
  BY DEF Usable
<1>2. \A z \in Sessions : z # s => SameSession(x, st, z)
  BY <1>1 DEF SameSession
<1>3. GoodSession(x, s, gone, stale, one)
  BY <1>1 DEF GoodSession
<1>4. x.ftsHead[s] # Old /\ PrunedStore(st, one) => PrunedSession(x, s, one)
  BY DEF PrunedStore, PrunedSession
<1> QED
  BY <1>2, <1>3, <1>4, TouchedIsGood

LEMMA RebuiltIsGood ==
  ASSUME NEW st, NEW reading \in Calls, reading.session \in Sessions,
         NEW gone, NEW stale, NEW one,
         GoodStore(st, gone, stale, one), Usable(st),
         ~stale /\ st.head[reading.session] = reading.head
           => reading.rows = st.rows[reading.session],
         one => reading.rows = st.rows[reading.session]
  PROVE  /\ GoodStore(Rebuilt(st, reading), gone, stale, one)
         /\ PrunedStore(st, one) => PrunedStore(Rebuilt(st, reading), one)
         /\ Rebuilt(st, reading).rows = st.rows /\ Rebuilt(st, reading).head = st.head
         /\ Rebuilt(st, reading).table[reading.session] = reading.rows
<1> DEFINE s == reading.session
           x == Rebuilt(st, reading)
<1>1. /\ st \in Stores /\ reading.rows \in Rows
      /\ reading.head \in Heads \cup {NoHead} /\ reading.head # Old
  BY SearchConstants DEF GoodStore, Calls
<1>2. x = Mirroring(st, s, reading.rows, reading.head)
  BY DEF Rebuilt, Mirroring
<1> HIDE DEF x
<1>3. /\ x \in Stores /\ x.rows = st.rows /\ x.head = st.head
      /\ Usable(x)
      /\ x.table[s] = reading.rows /\ x.ftsHead[s] = reading.head
      /\ \A z \in Sessions : z # s => x.table[z] = st.table[z] /\ x.ftsHead[z] = st.ftsHead[z]
  BY <1>1, <1>2, MirrorFields
<1>4. ~stale /\ ValidAndLevel(x, s) => x.table[s] = x.rows[s]
  BY <1>3 DEF ValidAndLevel, Level
<1>5. one => x.table[s] = x.rows[s]
  BY <1>3
<1>6. x.table[s] = x.rows[s] => Part(x, s)
  BY DEF Part
<1> QED
  BY <1>1, <1>3, <1>4, <1>5, <1>6, CopyIsGood DEF x

(* The table is dropped, with its heads staying, or damaged. *)
LEMMA UnusableIsGood ==
  ASSUME NEW st, NEW t \in {Absent, Broken}, NEW gone, NEW stale, NEW one,
         GoodStore(st, gone, stale, one), t = Absent => gone
  PROVE  /\ GoodStore([st EXCEPT !.table = t], gone, stale, one)
         /\ PrunedStore(st, one) => PrunedStore([st EXCEPT !.table = t], one)
<1> DEFINE x == [st EXCEPT !.table = t]
<1>1. st = [rows |-> st.rows, head |-> st.head, table |-> st.table, ftsHead |-> st.ftsHead]
  BY StoreFields DEF GoodStore
<1>2. x = [rows |-> st.rows, head |-> st.head, table |-> t, ftsHead |-> st.ftsHead]
  BY <1>1
<1>3. x \in Stores
  BY <1>2, StoreFields, StoreType DEF GoodStore
<1>4. /\ x.rows = st.rows /\ x.head = st.head /\ x.table = t /\ x.ftsHead = st.ftsHead
      /\ ~Usable(x)
  BY <1>2 DEF Usable
<1> HIDE DEF x
<1>5. \A s \in Sessions : GoodSession(x, s, gone, stale, one)
  BY <1>4, TableFacts DEF GoodSession
<1>6. PrunedStore(st, one) => PrunedStore(x, one)
  BY <1>4 DEF PrunedStore, PrunedSession
<1> QED
  BY <1>3, <1>5, <1>6 DEF GoodStore, x

-----------------------------------------------------------------------------
(* What the steps have in common. *)

LEMMA TypesFollow == IInv => TypeOK
<1> SUFFICES ASSUME IInv PROVE TypeOK
  OBVIOUS
<1>1. disk \in Stores /\ seen \in Stores /\ (holder = None => seen = disk)
  BY DEF IInv, StoresAreGood, GoodStore
<1>2. Serving => \A s \in Sessions : disk.head[s] # Old /\ disk.ftsHead[s] # Old
  BY DEF IInv, StoresAreGood, PrunedStore, PrunedSession
<1> QED
  BY <1>1, <1>2 DEF IInv, OtherTypes, TypeOK

LEMMA ConnectionIsSomething == \A c \in Connections : c # None
BY SearchConstants

LEMMA FaultsType == ASSUME IInv, Fault \/ NoFault PROVE faults' \in 0..MaxFaults
BY SearchConstants DEF IInv, OtherTypes, Fault, NoFault

LEMMA ReadySet ==
  ASSUME NEW r \in [Owners -> {"none", "ready", "unready"}], NEW o \in Owners,
         NEW v \in {"ready", "unready"}
  PROVE  /\ [r EXCEPT ![o] = v] \in [Owners -> {"none", "ready", "unready"}]
         /\ [r EXCEPT ![o] = v][o] = v
         /\ \A p \in Owners : r[p] # "none" => [r EXCEPT ![o] = v][p] # "none"
OBVIOUS

(* A connection reads a good store, and a pruned one when there is an owner. *)
LEMMA ViewFacts ==
  ASSUME IInv, NEW c \in Connections
  PROVE  /\ holder = c => View(c) = seen
         /\ holder # c => View(c) = disk
         /\ GoodStore(View(c), unrecorded, overtaken, OneConnection)
         /\ Serving => PrunedStore(View(c), OneConnection)
         /\ Writable(c) => View(c) = seen
         /\ OneConnection => \A o \in Owners : conn[o] = c => View(c) = seen
<1>1. c # None
  BY ConnectionIsSomething
<1>2. CASE holder = c
  BY <1>1, <1>2 DEF View, IInv, StoresAreGood
<1>3. CASE holder # c
  BY <1>3 DEF View, IInv, StoresAreGood, Writable, NobodyOvertakes
<1> QED
  BY <1>2, <1>3

LEMMA CommittedStores ==
  ASSUME NEW st, Committed(st), UNCHANGED conn,
         GoodStore(st, unrecorded', overtaken', OneConnection),
         Serving' => PrunedStore(st, OneConnection)
  PROVE  StoresAreGood'
<1>1. OneConnection' = OneConnection
  BY DEF OneConnection
<1> QED
  BY <1>1 DEF Committed, StoresAreGood

LEMMA LeftOpenStores ==
  ASSUME NEW st, NEW c \in Connections, LeftOpen(c, st), UNCHANGED conn,
         GoodStore(st, unrecorded', overtaken', OneConnection),
         PrunedStore(st, OneConnection),
         GoodStore(disk, unrecorded', overtaken', OneConnection),
         Serving' => PrunedStore(disk, OneConnection)
  PROVE  StoresAreGood'
<1>1. OneConnection' = OneConnection
  BY DEF OneConnection
<1> QED
  BY <1>1, ConnectionIsSomething DEF LeftOpen, StoresAreGood

LEMMA StatementStores ==
  ASSUME NEW st, NEW c \in Connections, Statement(c, st), UNCHANGED conn,
         GoodStore(st, unrecorded', overtaken', OneConnection),
         PrunedStore(st, OneConnection),
         GoodStore(disk, unrecorded', overtaken', OneConnection),
         Serving' => PrunedStore(disk, OneConnection)
  PROVE  StoresAreGood'
<1>1. CASE holder = c
  <2>1. LeftOpen(c, st)
    BY <1>1 DEF Statement
  <2> QED
    BY <2>1, LeftOpenStores
<1>2. CASE holder # c
  <2>1. Committed(st)
    BY <1>2 DEF Statement
  <2> QED
    BY <2>1, CommittedStores
<1> QED
  BY <1>1, <1>2

LEMMA UnchangedStores ==
  ASSUME IInv, UNCHANGED <<db, conn, unrecorded, overtaken>>,
         Serving' => Serving
  PROVE  StoresAreGood'
<1>1. OneConnection' = OneConnection
  BY DEF OneConnection
<1> QED
  BY <1>1 DEF IInv, StoresAreGood, db

(* An owner whose connection is inside no call: on one connection there is   *)
(* no call at all.                                                           *)
LEMMA IdleMeansNoCall ==
  ASSUME IInv, OneConnection, NEW o \in Owners, call[conn[o]].stage = "idle",
         NEW c \in Connections
  PROVE  call[c].stage = "idle"
BY DEF IInv, OneConnection, CallsHaveOwners

LEMMA IdleStep ==
  ASSUME IInv, NEW o \in Owners, Idle(o),
         \A p \in Owners : ready[p] # "none" => ready'[p] # "none",
         UNCHANGED overtaken, holder' \in {holder, None, conn[o]}
  PROVE  CallsHaveOwners' /\ NobodyOvertakes'
<1>1. call[conn[o]].stage = "idle" /\ call' = call /\ conn' = conn
  BY DEF Idle
<1>2. CallsHaveOwners'
  BY <1>1 DEF IInv, CallsHaveOwners
<1>3. OneConnection' = OneConnection
  BY <1>1 DEF OneConnection
<1>4. OneConnection => \A c \in Connections : call[c].stage # "rebuild"
  BY <1>1, IdleMeansNoCall
<1>5. OneConnection => ~overtaken /\ (holder' # None => \A p \in Owners : conn[p] = holder')
  BY DEF IInv, NobodyOvertakes, OneConnection
<1> QED
  BY <1>1, <1>2, <1>3, <1>4, <1>5 DEF NobodyOvertakes

(* A step of the call on one connection. *)
LEMMA CallStep ==
  ASSUME IInv, NEW c \in Connections, NEW o \in Owners, conn[o] = c, UNCHANGED conn,
         \A d \in Connections : d # c => call'[d] = call[d],
         \A p \in Owners : ready[p] # "none" => ready'[p] # "none",
         call'[c].stage # "idle" =>
           /\ call'[c].owner = o /\ call'[c].session \in Sessions /\ ready'[o] # "none",
         OneConnection => ~overtaken',
         holder' \in {holder, None, c},
         OneConnection /\ call'[c].stage = "rebuild"
           => call'[c].rows = View(c)'.rows[call'[c].session]
  PROVE  CallsHaveOwners' /\ NobodyOvertakes'
<1>1. CallsHaveOwners'
  BY DEF IInv, CallsHaveOwners
<1>2. OneConnection' = OneConnection
  BY DEF OneConnection
<1>3. OneConnection => \A d \in Connections : d # c => call[d].stage = "idle"
  BY DEF IInv, OneConnection, CallsHaveOwners
<1>4. OneConnection => (holder' # None => \A p \in Owners : conn[p] = holder')
  BY DEF IInv, NobodyOvertakes, OneConnection
<1>5. OneConnection =>
        \A d \in Connections : call'[d].stage = "rebuild" =>
          call'[d].rows = View(d)'.rows[call'[d].session]
  BY <1>3
<1> QED
  BY <1>1, <1>2, <1>4, <1>5 DEF NobodyOvertakes

-----------------------------------------------------------------------------
(* The invariant, step by step. *)

LEMMA InitInv == ASSUME Init PROVE IInv
<1>1. PICK s \in Sessions, content \in Rows, indexed \in Rows,
           h \in Heads \cup {NoHead, Old}, f \in Heads \cup {NoHead, Old} :
        /\ h \in Heads /\ f \in Heads => \A e \in Entries : indexed[e] \in {None, content[e]}
        /\ h \in Heads /\ f = h => indexed = content
        /\ \E table \in {[EmptyTable EXCEPT ![s] = indexed]}
                          \cup (IF f \in Heads THEN {} ELSE {Absent}) :
             disk = [rows |-> [EmptyTable EXCEPT ![s] = content],
                     head |-> [[t \in Sessions |-> NoHead] EXCEPT ![s] = h],
                     table |-> table,
                     ftsHead |-> [[t \in Sessions |-> NoHead] EXCEPT ![s] = f]]
  BY DEF Init
<1> DEFINE none == [t \in Sessions |-> NoHead]
           rs == [EmptyTable EXCEPT ![s] = content]
           hs == [none EXCEPT ![s] = h]
           ts == [EmptyTable EXCEPT ![s] = indexed]
           fs == [none EXCEPT ![s] = f]
<1>2. PICK table : /\ table = ts \/ (table = Absent /\ f \notin Heads)
                   /\ disk = [rows |-> rs, head |-> hs, table |-> table, ftsHead |-> fs]
  BY <1>1
<1>3. none \in Metas /\ \A z \in Sessions : none[z] = NoHead
  BY DEF Metas
<1> HIDE DEF none
<1>4. /\ rs \in Tables /\ rs[s] = content
      /\ ts \in Tables /\ ts[s] = indexed
      /\ \A z \in Sessions : z # s => rs[z] = Empty /\ ts[z] = Empty
  <2>1. rs \in Tables /\ rs[s] = content /\ \A z \in Sessions : z # s => rs[z] = EmptyTable[z]
    BY EmptyFacts, OneRowSet
  <2>2. ts \in Tables /\ ts[s] = indexed /\ \A z \in Sessions : z # s => ts[z] = EmptyTable[z]
    BY EmptyFacts, OneRowSet
  <2> QED
    BY <2>1, <2>2, EmptyFacts
<1>5. /\ hs \in Metas /\ hs[s] = h /\ fs \in Metas /\ fs[s] = f
      /\ \A z \in Sessions : z # s => hs[z] = NoHead /\ fs[z] = NoHead
  <2>1. hs \in Metas /\ hs[s] = h /\ \A z \in Sessions : z # s => hs[z] = none[z]
    BY <1>3, OneHeadSet
  <2>2. fs \in Metas /\ fs[s] = f /\ \A z \in Sessions : z # s => fs[z] = none[z]
    BY <1>3, OneHeadSet
  <2> QED
    BY <1>3, <2>1, <2>2
<1> HIDE DEF rs, hs, ts, fs
<1>6. disk \in Stores /\ disk.rows = rs /\ disk.head = hs /\ disk.table = table /\ disk.ftsHead = fs
  BY <1>2, <1>4, <1>5, StoreType
<1>7. Usable(disk) => table = ts
  BY <1>2, <1>6 DEF Usable
<1>8. ASSUME NEW z \in Sessions
      PROVE  GoodSession(disk, z, FALSE, FALSE, OneConnection)
  <2>1. CASE z # s
    BY <1>5, <1>6, <2>1, HeadlessIsGood
  <2>2. CASE z = s
    <3>1. disk.table = Absent => disk.ftsHead[s] \notin Heads
      BY <1>2, <1>4, <1>5, <1>6, TableFacts
    <3>2. ASSUME Usable(disk), Kept(disk, s) PROVE Part(disk, s)
      <4>1. h \in Heads /\ f \in Heads
        BY <1>5, <1>6, <3>2 DEF Kept, Valid
      <4> QED
        BY <1>1, <1>4, <1>6, <1>7, <3>2, <4>1 DEF Part
    <3>3. ASSUME Usable(disk), ValidAndLevel(disk, s) PROVE disk.table[s] = disk.rows[s]
      <4>1. h \in Heads /\ f = h
        BY <1>5, <1>6, <3>3 DEF ValidAndLevel, Valid, Level
      <4> QED
        BY <1>1, <1>4, <1>6, <1>7, <3>3, <4>1
    <3>4. disk.table[s] = disk.rows[s] => Part(disk, s)
      BY DEF Part
    <3> QED
      BY <2>2, <3>1, <3>2, <3>3, <3>4 DEF GoodSession
  <2> QED
    BY <2>1, <2>2
<1>9. /\ seen = disk /\ holder = None /\ conn \in [Owners -> Connections]
      /\ available \in BOOLEAN
      /\ ready = [o \in Owners |-> "none"]
      /\ call = [c \in Connections |-> NoCall]
      /\ outcome = "none" /\ unrecorded = FALSE /\ overtaken = FALSE /\ faults = 0
  BY DEF Init
<1>10. ~Serving
  BY <1>9 DEF Serving
<1>11. StoresAreGood
  BY <1>6, <1>8, <1>9, <1>10 DEF StoresAreGood, GoodStore
<1>12. NoCall \in Calls /\ NoCall.stage = "idle"
  BY EmptyFacts DEF NoCall, Calls
<1>13. OtherTypes
  <2>1. ready \in [Owners -> {"none", "ready", "unready"}]
    BY <1>9
  <2>2. call \in [Connections -> Calls]
    BY <1>9, <1>12
  <2>3. 0 \in 0..MaxFaults
    BY SearchConstants
  <2> QED
    BY <1>9, <2>1, <2>2, <2>3 DEF OtherTypes
<1>14. CallsHaveOwners /\ NobodyOvertakes
  BY <1>9, <1>12 DEF CallsHaveOwners, NobodyOvertakes
<1> QED
  BY <1>11, <1>13, <1>14 DEF IInv

LEMMA NewInv ==
  ASSUME IInv, NEW o \in Owners, New(o)
  PROVE  IInv'
<1>1. /\ Idle(o) /\ holder = None /\ outcome' = "none" /\ UNCHANGED history
      /\ \/ /\ Committed(Ensured(Pruned(disk))) \/ Committed(Pruned(disk))
            /\ ready' = [ready EXCEPT ![o] = "ready"] \/ ready' = [ready EXCEPT ![o] = "unready"]
      /\ Fault \/ NoFault
  BY DEF New
<1>2. UNCHANGED <<call, conn, available, unrecorded, overtaken>>
  BY <1>1 DEF Idle, history
<1>3. GoodStore(disk, unrecorded, overtaken, OneConnection)
  BY DEF IInv, StoresAreGood
<1>4. \A store \in {Pruned(disk), Ensured(Pruned(disk))} :
        GoodStore(store, unrecorded, overtaken, OneConnection) /\ PrunedStore(store, OneConnection)
  BY <1>3, PrunedIsGood, EnsuredIsGood
<1>5. PICK store \in {Pruned(disk), Ensured(Pruned(disk))} : Committed(store)
  BY <1>1
<1>6. StoresAreGood'
  BY <1>2, <1>4, <1>5, CommittedStores
<1>7. /\ ready' \in [Owners -> {"none", "ready", "unready"}]
      /\ \A p \in Owners : ready[p] # "none" => ready'[p] # "none"
  BY <1>1, ReadySet DEF IInv, OtherTypes
<1>8. holder' = None
  BY <1>5 DEF Committed
<1>9. CallsHaveOwners' /\ NobodyOvertakes'
  BY <1>1, <1>2, <1>7, <1>8, IdleStep
<1>10. OtherTypes'
  BY <1>1, <1>2, <1>7, <1>8, FaultsType DEF IInv, OtherTypes
<1> QED
  BY <1>6, <1>9, <1>10 DEF IInv

LEMMA NewFailsInv ==
  ASSUME IInv, NEW o \in Owners, NewFails(o)
  PROVE  IInv'
<1>1. /\ Idle(o) /\ holder = None /\ outcome' = "none" /\ UNCHANGED <<ready, history>> /\ Fault
      /\ LeftOpen(conn[o], Pruned(disk))
  BY DEF NewFails
<1>2. UNCHANGED <<call, conn, available, ready, unrecorded, overtaken>>
  BY <1>1 DEF Idle, history
<1>3. /\ GoodStore(disk, unrecorded, overtaken, OneConnection)
      /\ Serving => PrunedStore(disk, OneConnection)
  BY DEF IInv, StoresAreGood
<1>4. /\ GoodStore(Pruned(disk), unrecorded, overtaken, OneConnection)
      /\ PrunedStore(Pruned(disk), OneConnection)
  BY <1>3, PrunedIsGood
<1>5. conn[o] \in Connections /\ (Serving' => Serving)
  BY <1>2 DEF IInv, OtherTypes, Serving
<1>6. StoresAreGood'
  BY <1>1, <1>2, <1>3, <1>4, <1>5, LeftOpenStores
<1>7. holder' = conn[o]
  BY <1>1 DEF LeftOpen
<1>8. CallsHaveOwners' /\ NobodyOvertakes'
  BY <1>1, <1>2, <1>7, IdleStep
<1>9. OtherTypes'
  BY <1>1, <1>2, <1>5, <1>7, FaultsType DEF IInv, OtherTypes
<1> QED
  BY <1>6, <1>8, <1>9 DEF IInv

(* A call to write, whatever becomes of it. *)
LEMMA WritingFacts ==
  ASSUME IInv, NEW o \in Owners, Writing(o)
  PROVE  /\ Idle(o) /\ Serving /\ conn[o] \in Connections
         /\ UNCHANGED <<call, conn, available, unrecorded, overtaken>>
         /\ GoodStore(disk, unrecorded, overtaken, OneConnection)
         /\ PrunedStore(disk, OneConnection)
         /\ \A store \in Transactions(o) :
              /\ GoodStore(store, unrecorded, overtaken, OneConnection)
              /\ PrunedStore(store, OneConnection)
<1>1. /\ Idle(o) /\ Serving /\ conn[o] \in Connections
      /\ UNCHANGED <<call, conn, available, unrecorded, overtaken>>
  BY DEF Writing, Idle, history, Serving, IInv, OtherTypes
<1>2. /\ GoodStore(disk, unrecorded, overtaken, OneConnection)
      /\ PrunedStore(disk, OneConnection)
  BY <1>1 DEF IInv, StoresAreGood
<1> QED
  BY <1>1, <1>2, TransactionsAreGood

LEMMA WriteInv ==
  ASSUME IInv, NEW o \in Owners, Write(o)
  PROVE  IInv'
<1>1. Writing(o) /\ outcome' = "ok" /\ NoFault /\ ready' = ready
  BY DEF Write
<1>2. PICK store \in Transactions(o) : Committed(store)
  BY DEF Write
<1>3. /\ Idle(o) /\ UNCHANGED <<call, conn, available, unrecorded, overtaken>>
      /\ GoodStore(store, unrecorded, overtaken, OneConnection)
      /\ PrunedStore(store, OneConnection)
  BY <1>1, WritingFacts
<1>4. StoresAreGood'
  BY <1>2, <1>3, CommittedStores
<1>5. holder' = None
  BY <1>2 DEF Committed
<1>6. CallsHaveOwners' /\ NobodyOvertakes'
  BY <1>1, <1>3, <1>5, IdleStep
<1>7. OtherTypes'
  BY <1>1, <1>3, <1>5, FaultsType DEF IInv, OtherTypes
<1> QED
  BY <1>4, <1>6, <1>7 DEF IInv

LEMMA CommitFailsInv ==
  ASSUME IInv, NEW o \in Owners, CommitFails(o)
  PROVE  IInv'
<1>1. Writing(o) /\ outcome' = "failed" /\ Fault /\ ready' = ready
  BY DEF CommitFails
<1>2. PICK store \in Transactions(o) : LeftOpen(conn[o], store)
  BY DEF CommitFails
<1>3. /\ Idle(o) /\ UNCHANGED <<call, conn, available, unrecorded, overtaken>>
      /\ conn[o] \in Connections
      /\ GoodStore(disk, unrecorded, overtaken, OneConnection)
      /\ PrunedStore(disk, OneConnection)
      /\ GoodStore(store, unrecorded, overtaken, OneConnection)
      /\ PrunedStore(store, OneConnection)
  BY <1>1, WritingFacts
<1>4. StoresAreGood'
  BY <1>2, <1>3, LeftOpenStores
<1>5. holder' = conn[o]
  BY <1>2 DEF LeftOpen
<1>6. CallsHaveOwners' /\ NobodyOvertakes'
  BY <1>1, <1>3, <1>5, IdleStep
<1>7. OtherTypes'
  BY <1>1, <1>3, <1>5, FaultsType DEF IInv, OtherTypes
<1> QED
  BY <1>4, <1>6, <1>7 DEF IInv

LEMMA UnwrittenInv ==
  ASSUME IInv, NEW o \in Owners, WriteFails(o) \/ WriteRefused(o)
  PROVE  IInv'
<1>1. /\ Writing(o) /\ outcome' = "failed" /\ (Fault \/ NoFault)
      /\ ready' \in {ready, [ready EXCEPT ![o] = "unready"]} /\ UNCHANGED db
  BY DEF WriteFails, WriteRefused, RollBack
<1>2. Idle(o) /\ Serving /\ UNCHANGED <<call, conn, available, unrecorded, overtaken>>
  BY <1>1, WritingFacts
<1>3. StoresAreGood'
  BY <1>1, <1>2, UnchangedStores
<1>4. /\ ready' \in [Owners -> {"none", "ready", "unready"}]
      /\ \A p \in Owners : ready[p] # "none" => ready'[p] # "none"
  BY <1>1, ReadySet DEF IInv, OtherTypes
<1>5. holder' = holder
  BY <1>1 DEF db
<1>6. CallsHaveOwners' /\ NobodyOvertakes'
  BY <1>2, <1>4, <1>5, IdleStep
<1>7. OtherTypes'
  BY <1>1, <1>2, <1>4, <1>5, FaultsType DEF IInv, OtherTypes
<1> QED
  BY <1>3, <1>6, <1>7 DEF IInv

(* A statement outside a transaction, or none, for an owner that is there. *)
LEMMA StatementOrNone ==
  ASSUME IInv, Serving, NEW c \in Connections, NEW st,
         Statement(c, st) \/ UNCHANGED db,
         GoodStore(st, unrecorded, overtaken, OneConnection),
         PrunedStore(st, OneConnection),
         UNCHANGED <<conn, unrecorded, overtaken>>
  PROVE  StoresAreGood' /\ holder' \in {holder, None, c}
<1>1. /\ GoodStore(disk, unrecorded, overtaken, OneConnection)
      /\ PrunedStore(disk, OneConnection)
  BY DEF IInv, StoresAreGood
<1>2. CASE Statement(c, st)
  BY <1>1, <1>2, StatementStores DEF Statement, LeftOpen, Committed
<1>3. CASE UNCHANGED db
  BY <1>3, UnchangedStores DEF db
<1> QED
  BY <1>2, <1>3

LEMMA CallingFacts ==
  ASSUME IInv, NEW o \in Owners, NEW s \in Sessions, NEW stage \in {"rows", "answer"},
         NEW h \in Heads \cup {NoHead}, Calling(o, s, stage, h)
  PROVE  /\ call' \in [Connections -> Calls]
         /\ conn[o] \in Connections
         /\ \A d \in Connections : d # conn[o] => call'[d] = call[d]
         /\ call'[conn[o]].stage = stage /\ call'[conn[o]].owner = o
         /\ call'[conn[o]].session = s /\ call'[conn[o]].head = h
<1> DEFINE new == [stage |-> stage, owner |-> o, session |-> s, head |-> h, rows |-> Empty]
<1>1. new \in Calls
  BY EmptyFacts DEF Calls
<1>2. /\ new.stage = stage /\ new.owner = o /\ new.session = s /\ new.head = h
  OBVIOUS
<1>3. call' = [call EXCEPT ![conn[o]] = new]
  BY DEF Calling
<1>4. conn[o] \in Connections /\ call \in [Connections -> Calls]
  BY DEF IInv, OtherTypes
<1> HIDE DEF new
<1> QED
  BY <1>1, <1>2, <1>3, <1>4

LEMMA BeginSearchInv ==
  ASSUME IInv, NEW o \in Owners, NEW s \in Sessions, BeginSearch(o, s)
  PROVE  IInv'
<1> DEFINE c == conn[o]
           V == View(c)
<1>1. /\ call[c].stage = "idle" /\ ready[o] # "none" /\ outcome' = "none"
      /\ UNCHANGED <<conn, available, unrecorded, overtaken>>
      /\ \/ RecoverUnprojected(o, s) \/ NoRecovery(o, s)
         \/ RecoverBehind(o, s) \/ EnsureFails(o, s)
  BY DEF BeginSearch, history
<1>2. c \in Connections /\ Serving
  BY <1>1 DEF IInv, OtherTypes, Serving
<1>3. /\ GoodStore(V, unrecorded, overtaken, OneConnection)
      /\ PrunedStore(V, OneConnection)
  BY <1>2, ViewFacts
<1>4. V.head[s] # NoHead => V.head[s] \in Heads
  BY <1>3, StoreFields DEF GoodStore, PrunedStore, PrunedSession
<1> HIDE DEF V
<1>5. \A st : Statement(c, st) \/ UNCHANGED db =>
        (/\ GoodStore(st, unrecorded, overtaken, OneConnection)
         /\ PrunedStore(st, OneConnection)
         => StoresAreGood' /\ holder' \in {holder, None, c})
  BY <1>1, <1>2, StatementOrNone
<1>6. /\ StoresAreGood' /\ holder' \in {holder, None, c}
      /\ ready' = ready \/ ready' = [ready EXCEPT ![o] = "ready"]
      /\ Fault \/ NoFault
      /\ \E stage \in {"rows", "answer"}, h \in Heads \cup {NoHead} : Calling(o, s, stage, h)
  <2>1. CASE RecoverUnprojected(o, s)
    <3>1. \E st \in {V, FtsCleared(V, s), [V EXCEPT !.ftsHead[s] = NoHead]} :
            Statement(c, st) \/ UNCHANGED db
      BY <2>1 DEF RecoverUnprojected, V
    <3>2. \A st \in {V, FtsCleared(V, s), [V EXCEPT !.ftsHead[s] = NoHead]} :
            /\ GoodStore(st, unrecorded, overtaken, OneConnection)
            /\ PrunedStore(st, OneConnection)
      BY <1>3, FtsClearedIsGood, HeadGone
    <3>3. StoresAreGood' /\ holder' \in {holder, None, c}
      BY <1>5, <3>1, <3>2
    <3> QED
      BY <2>1, <3>3 DEF RecoverUnprojected
  <2>2. CASE NoRecovery(o, s) \/ EnsureFails(o, s)
    <3>1. UNCHANGED db
      BY <2>2 DEF NoRecovery, EnsureFails
    <3>2. StoresAreGood' /\ holder' \in {holder, None, c}
      BY <1>3, <1>5, <3>1
    <3> QED
      BY <2>2, <3>2 DEF NoRecovery, EnsureFails
  <2>3. CASE RecoverBehind(o, s)
    <3>1. \E st \in {V, Ensured(V)} : Statement(c, st) \/ UNCHANGED db
      BY <2>3 DEF RecoverBehind, V
    <3>2. \A st \in {V, Ensured(V)} :
            /\ GoodStore(st, unrecorded, overtaken, OneConnection)
            /\ PrunedStore(st, OneConnection)
      BY <1>3, EnsuredIsGood
    <3>3. StoresAreGood' /\ holder' \in {holder, None, c}
      BY <1>5, <3>1, <3>2
    <3>4. V.head[s] \in Heads \cup {NoHead} /\ Calling(o, s, "rows", V.head[s])
      BY <1>4, <2>3 DEF RecoverBehind, V
    <3> QED
      BY <2>3, <3>3, <3>4 DEF RecoverBehind
  <2> QED
    BY <1>1, <2>1, <2>2, <2>3
<1>7. /\ call' \in [Connections -> Calls]
      /\ \A d \in Connections : d # c => call'[d] = call[d]
      /\ call'[c].stage \in {"rows", "answer"}
      /\ call'[c].owner = o /\ call'[c].session = s
  BY <1>6, CallingFacts
<1>8. /\ ready' \in [Owners -> {"none", "ready", "unready"}]
      /\ \A p \in Owners : ready[p] # "none" => ready'[p] # "none"
  BY <1>6, ReadySet DEF IInv, OtherTypes
<1>9. OneConnection => ~overtaken'
  BY <1>1 DEF IInv, NobodyOvertakes
<1>10. CallsHaveOwners' /\ NobodyOvertakes'
  BY <1>1, <1>2, <1>6, <1>7, <1>8, <1>9, CallStep
<1>11. OtherTypes'
  BY <1>1, <1>2, <1>6, <1>7, <1>8, FaultsType DEF IInv, OtherTypes
<1> QED
  BY <1>6, <1>10, <1>11 DEF IInv

(* A search that is under way, and what it leaves of its call. *)
LEMMA ReadingFacts ==
  ASSUME IInv, NEW c \in Connections, NEW stage \in {"rows", "rebuild", "answer"},
         Reading(c, stage)
  PROVE  /\ call[c].stage = stage /\ call[c] \in Calls
         /\ call[c].owner \in Owners /\ call[c].session \in Sessions
         /\ conn[call[c].owner] = c /\ ready[call[c].owner] # "none" /\ Serving
         /\ outcome' = "none" /\ UNCHANGED <<conn, available>>
         /\ GoodStore(View(c), unrecorded, overtaken, OneConnection)
         /\ PrunedStore(View(c), OneConnection)
<1>1. /\ call[c].stage = stage /\ call[c].stage # "idle" /\ call[c] \in Calls
      /\ outcome' = "none" /\ UNCHANGED <<conn, available>>
  BY DEF Reading, IInv, OtherTypes
<1>2. /\ call[c].owner \in Owners /\ call[c].session \in Sessions
      /\ conn[call[c].owner] = c /\ ready[call[c].owner] # "none"
  BY <1>1 DEF IInv, CallsHaveOwners
<1>3. Serving
  BY <1>2 DEF Serving
<1> QED
  BY <1>1, <1>2, <1>3, ViewFacts

LEMMA ReadRowsInv ==
  ASSUME IInv, NEW c \in Connections, ReadRows(c) \/ ReadRowsFails(c)
  PROVE  IInv'
<1> DEFINE o == call[c].owner
           s == call[c].session
           r == View(c).rows[s]
<1>1. /\ Reading(c, "rows") /\ (Fault \/ NoFault)
      /\ UNCHANGED <<db, ready, history>>
  BY DEF ReadRows, ReadRowsFails
<1>2. /\ o \in Owners /\ s \in Sessions /\ conn[o] = c /\ ready[o] # "none"
      /\ call[c] \in Calls
      /\ outcome' = "none" /\ UNCHANGED <<conn, available>>
      /\ GoodStore(View(c), unrecorded, overtaken, OneConnection)
  BY <1>1, ReadingFacts
<1>3. /\ UNCHANGED <<disk, seen, holder, ready, unrecorded, overtaken>>
      /\ View(c)' = View(c)
  BY <1>1 DEF db, history, View
<1>4. r \in Rows
  BY <1>2, StoreFields DEF GoodStore
<1>5. /\ call' \in [Connections -> Calls]
      /\ \A d \in Connections : d # c => call'[d] = call[d]
      /\ call'[c].stage \in {"rebuild", "answer"}
      /\ call'[c].owner = o /\ call'[c].session = s
      /\ call'[c].stage = "rebuild" => call'[c].rows = r
  <2>1. CASE ReadRows(c)
    <3>1. call' = [call EXCEPT ![c].stage = "rebuild", ![c].rows = r]
      BY <2>1 DEF ReadRows
    <3> DEFINE new == [call[c] EXCEPT !.stage = "rebuild", !.rows = r]
    <3>2. /\ new \in Calls /\ new.stage = "rebuild" /\ new.rows = r
          /\ new.owner = o /\ new.session = s
      BY <1>2, <1>4 DEF Calls
    <3>3. call' = [call EXCEPT ![c] = new] /\ call \in [Connections -> Calls]
      BY <3>1 DEF IInv, OtherTypes
    <3> HIDE DEF new
    <3> QED
      BY <3>2, <3>3
  <2>2. CASE ReadRowsFails(c)
    <3>1. call' = [call EXCEPT ![c].stage = "answer", ![c].head = NoHead]
      BY <2>2 DEF ReadRowsFails
    <3> DEFINE new == [call[c] EXCEPT !.stage = "answer", !.head = NoHead]
    <3>2. /\ new \in Calls /\ new.stage = "answer" /\ new.owner = o /\ new.session = s
      BY <1>2 DEF Calls
    <3>3. call' = [call EXCEPT ![c] = new] /\ call \in [Connections -> Calls]
      BY <3>1 DEF IInv, OtherTypes
    <3> HIDE DEF new
    <3> QED
      BY <3>2, <3>3
  <2> QED
    BY <2>1, <2>2
<1>6. OneConnection => ~overtaken'
  BY <1>3 DEF IInv, NobodyOvertakes
<1>7. Serving' => Serving
  BY <1>3 DEF Serving
<1>8. StoresAreGood'
  BY <1>1, <1>2, <1>3, <1>7, UnchangedStores
<1>9. CallsHaveOwners' /\ NobodyOvertakes'
  <2> HIDE DEF o, s
  <2> QED
    BY <1>2, <1>3, <1>5, <1>6, CallStep
<1>10. OtherTypes'
  BY <1>1, <1>2, <1>3, <1>5, FaultsType DEF IInv, OtherTypes
<1> QED
  BY <1>8, <1>9, <1>10 DEF IInv

(* Every rebuilding, whatever becomes of the copy: the call goes on to the   *)
(* answer, and on one connection it writes what the view still holds.        *)
LEMMA RebuildingFacts ==
  ASSUME IInv, NEW c \in Connections, Rebuilding(c)
  PROVE  /\ call' \in [Connections -> Calls]
         /\ \A d \in Connections : d # c => call'[d] = call[d]
         /\ call'[c].stage = "answer"
         /\ call'[c].owner = call[c].owner /\ call'[c].session = call[c].session
         /\ OneConnection => ~overtaken /\ call[c].rows = View(c).rows[call[c].session]
<1> DEFINE new == [call[c] EXCEPT !.stage = "answer", !.head = NoHead, !.rows = Empty]
<1>1. call \in [Connections -> Calls] /\ call[c] \in Calls /\ call[c].stage = "rebuild"
  BY DEF IInv, OtherTypes, Rebuilding, Reading
<1>2. /\ new \in Calls /\ new.stage = "answer"
      /\ new.owner = call[c].owner /\ new.session = call[c].session
  BY <1>1, EmptyFacts DEF Calls
<1>3. call' = [call EXCEPT ![c] = new]
  BY DEF Rebuilding
<1>4. OneConnection => ~overtaken /\ call[c].rows = View(c).rows[call[c].session]
  BY <1>1 DEF IInv, NobodyOvertakes
<1> HIDE DEF new
<1> QED
  BY <1>1, <1>2, <1>3, <1>4

(* What is left to show of a rebuilding is what it does to the stores. *)
LEMMA RebuildingInv ==
  ASSUME IInv, NEW c \in Connections, Rebuilding(c), Fault \/ NoFault,
         ready' = ready \/ Distrusted(c),
         unrecorded' \in BOOLEAN, overtaken' \in BOOLEAN,
         OneConnection => ~overtaken',
         StoresAreGood', holder' \in {holder, None, c}
  PROVE  IInv'
<1> DEFINE o == call[c].owner
<1>1. /\ o \in Owners /\ call[c].session \in Sessions /\ conn[o] = c /\ ready[o] # "none"
      /\ outcome' = "none" /\ UNCHANGED <<conn, available>>
  BY ReadingFacts DEF Rebuilding
<1>2. /\ call' \in [Connections -> Calls]
      /\ \A d \in Connections : d # c => call'[d] = call[d]
      /\ call'[c].stage = "answer"
      /\ call'[c].owner = o /\ call'[c].session = call[c].session
  BY RebuildingFacts
<1>3. /\ ready' \in [Owners -> {"none", "ready", "unready"}]
      /\ \A p \in Owners : ready[p] # "none" => ready'[p] # "none"
  BY <1>1, ReadySet DEF IInv, OtherTypes, Distrusted
<1>4. CallsHaveOwners' /\ NobodyOvertakes'
  <2> HIDE DEF o
  <2> QED
    BY <1>1, <1>2, <1>3, CallStep
<1>5. OtherTypes'
  BY <1>1, <1>2, <1>3, FaultsType DEF IInv, OtherTypes
<1> QED
  BY <1>4, <1>5 DEF IInv

LEMMA WholeRebuildInv ==
  ASSUME IInv, NEW c \in Connections, Rebuild(c) \/ RebuildUncommitted(c)
  PROVE  IInv'
<1> DEFINE V == View(c)
           x == Rebuilt(V, call[c])
           s == call[c].session
<1>1. /\ Rebuilding(c) /\ Usable(V) /\ (Fault \/ NoFault)
      /\ Committed(x) \/ LeftOpen(c, x)
      /\ overtaken' = (overtaken \/ Overtaken(c))
      /\ ready' = ready \/ Distrusted(c)
      /\ unrecorded' = unrecorded
  BY DEF Rebuild, RebuildUncommitted
<1>2. /\ call[c] \in Calls /\ s \in Sessions /\ Serving /\ UNCHANGED conn
      /\ GoodStore(V, unrecorded, overtaken, OneConnection)
      /\ PrunedStore(V, OneConnection)
  BY <1>1, ReadingFacts DEF Rebuilding
<1>3. /\ GoodStore(disk, unrecorded, overtaken, OneConnection)
      /\ PrunedStore(disk, OneConnection)
      /\ unrecorded \in BOOLEAN /\ overtaken \in BOOLEAN
  BY <1>2 DEF IInv, OtherTypes, StoresAreGood
<1>4. OneConnection => ~overtaken /\ call[c].rows = V.rows[s]
  BY <1>1, RebuildingFacts
<1>5. Overtaken(c) <=> V.head[s] = call[c].head /\ V.rows[s] # call[c].rows
  BY DEF Overtaken
<1>6. Overtaken(c) \in BOOLEAN
  BY DEF Overtaken
<1> HIDE DEF V, s
<1>7. overtaken' \in BOOLEAN
  BY <1>1, Zenon
<1>8. /\ overtaken => overtaken'
      /\ ~overtaken' => ~Overtaken(c)
      /\ ~overtaken /\ ~Overtaken(c) => ~overtaken'
  BY <1>1, Zenon
<1>9. /\ GoodStore(V, unrecorded, overtaken', OneConnection)
      /\ GoodStore(disk, unrecorded, overtaken', OneConnection)
  BY <1>2, <1>3, <1>7, <1>8, HistoryAsksLess
<1>10. ~overtaken' /\ V.head[s] = call[c].head => call[c].rows = V.rows[s]
  BY <1>5, <1>8
<1>11. GoodStore(x, unrecorded, overtaken', OneConnection) /\ PrunedStore(x, OneConnection)
  BY <1>1, <1>2, <1>4, <1>9, <1>10, RebuiltIsGood DEF s
<1>12. OneConnection => ~overtaken'
  BY <1>4, <1>5, <1>8
<1> HIDE DEF x
<1>13. StoresAreGood' /\ holder' \in {holder, None, c}
  <2>1. CASE Committed(x)
    BY <1>1, <1>2, <1>11, <2>1, CommittedStores DEF Committed
  <2>2. CASE LeftOpen(c, x)
    BY <1>1, <1>2, <1>3, <1>9, <1>11, <2>2, LeftOpenStores DEF LeftOpen
  <2> QED
    BY <1>1, <2>1, <2>2
<1> QED
  BY <1>1, <1>3, <1>7, <1>12, <1>13, RebuildingInv

LEMMA RebuildFailsInv ==
  ASSUME IInv, NEW c \in Connections, RebuildFails(c)
  PROVE  IInv'
<1>1. /\ Rebuilding(c) /\ (Fault \/ NoFault) /\ Distrusted(c)
      /\ RolledBack \/ UNCHANGED db
      /\ UNCHANGED <<unrecorded, overtaken>>
  BY DEF RebuildFails, history
<1>2. Serving /\ UNCHANGED conn
  BY <1>1, ReadingFacts DEF Rebuilding
<1>3. /\ GoodStore(disk, unrecorded, overtaken, OneConnection)
      /\ PrunedStore(disk, OneConnection)
      /\ unrecorded \in BOOLEAN /\ overtaken \in BOOLEAN
      /\ OneConnection => ~overtaken
  BY <1>2 DEF IInv, OtherTypes, StoresAreGood, NobodyOvertakes
<1>4. StoresAreGood' /\ holder' \in {holder, None, c}
  <2>1. CASE RolledBack
    <3>1. Committed(disk)
      BY <2>1 DEF RolledBack, Committed
    <3> QED
      BY <1>1, <1>2, <1>3, <3>1, CommittedStores DEF Committed
  <2>2. CASE UNCHANGED db
    BY <1>1, <1>2, <2>2, UnchangedStores DEF db
  <2> QED
    BY <1>1, <2>1, <2>2
<1> QED
  BY <1>1, <1>3, <1>4, RebuildingInv

(* The statements that worked without a transaction: some of the rows, and   *)
(* the head only when all of them are there.                                 *)
LEMMA RebuildUnlockedInv ==
  ASSUME IInv, NEW c \in Connections, RebuildUnlocked(c)
  PROVE  IInv'
<1> DEFINE s == call[c].session
           full == Rebuilt(disk, call[c])
           partial(E) == [e \in Entries |-> IF e \in E THEN call[c].rows[e] ELSE None]
           store(E) == Mirroring(disk, s, partial(E), call[c].head)
           headless(E) == [store(E) EXCEPT !.ftsHead = disk.ftsHead]
<1>1. /\ Rebuilding(c) /\ holder = None /\ Usable(disk) /\ Fault /\ Distrusted(c)
      /\ overtaken' = (overtaken \/ disk.rows[s] # call[c].rows)
  BY DEF RebuildUnlocked
<1>call. call[c] \in Calls
  BY DEF IInv, OtherTypes
<1> DEFINE reading(E) == [call[c] EXCEPT !.rows = partial(E)]
<1>stores. \A E \in SUBSET Entries : Rebuilt(disk, reading(E)) = store(E)
  <2>1. \A E \in SUBSET Entries :
          reading(E).session = s /\ reading(E).head = call[c].head /\ reading(E).rows = partial(E)
    BY <1>call DEF Calls
  <2> HIDE DEF partial, reading
  <2> QED
    BY <2>1 DEF Rebuilt, Mirroring
<1>2. PICK E \in SUBSET Entries :
        /\ \/ Committed(headless(E))
           \/ store(E).table = full.table /\ Committed(store(E))
        /\ unrecorded' = (unrecorded \/ ~(store(E).table = full.table))
  <2>1. PICK E \in SUBSET Entries :
          /\ \/ Committed([Rebuilt(disk, reading(E)) EXCEPT !.ftsHead = disk.ftsHead])
             \/ Rebuilt(disk, reading(E)).table = full.table /\ Committed(Rebuilt(disk, reading(E)))
          /\ unrecorded' = (unrecorded \/ ~(Rebuilt(disk, reading(E)).table = full.table))
    BY DEF RebuildUnlocked
  <2>2. Rebuilt(disk, reading(E)) = store(E)
    BY <1>stores
  <2> HIDE DEF store, reading, full, partial
  <2> QED
    BY <2>1, <2>2
<1> DEFINE p == partial(E)
           y == store(E)
           n == headless(E)
           whole == y.table = full.table
<1>3. /\ call[c] \in Calls /\ s \in Sessions /\ Serving /\ UNCHANGED conn
  BY <1>1, ReadingFacts DEF Rebuilding
<1>4. /\ GoodStore(disk, unrecorded, overtaken, OneConnection) /\ disk \in Stores
      /\ PrunedStore(disk, OneConnection)
      /\ unrecorded \in BOOLEAN /\ overtaken \in BOOLEAN
  BY <1>3 DEF IInv, OtherTypes, StoresAreGood, GoodStore
<1>5. OneConnection => ~overtaken /\ call[c].rows = disk.rows[s]
  <2>1. View(c) = disk
    BY <1>1, ConnectionIsSomething DEF View
  <2> QED
    BY <1>1, <2>1, RebuildingFacts
<1>6. /\ call[c].rows \in Rows /\ p \in Rows
      /\ \A e \in Entries : p[e] \in {None, call[c].rows[e]}
      /\ call[c].head \in Heads \cup {NoHead} /\ call[c].head # Old
  BY <1>3, SearchConstants DEF Calls, Rows
<1>7. full = Mirroring(disk, s, call[c].rows, call[c].head)
  BY DEF Rebuilt, Mirroring
<1>8. y = Mirroring(disk, s, p, call[c].head) /\ n = [y EXCEPT !.ftsHead = disk.ftsHead]
  OBVIOUS
<1> HIDE DEF p, full, y, n, store, headless, partial
<1>9. full.table[s] = call[c].rows
  BY <1>1, <1>3, <1>4, <1>6, <1>7, MirrorFields
<1>10. /\ y \in Stores /\ y.rows = disk.rows /\ y.head = disk.head
       /\ Usable(y) /\ y.table[s] = p /\ y.ftsHead[s] = call[c].head
       /\ \A z \in Sessions : z # s =>
            y.table[z] = disk.table[z] /\ y.ftsHead[z] = disk.ftsHead[z]
  BY <1>1, <1>3, <1>4, <1>6, <1>8, MirrorFields
<1>11. /\ n \in Stores /\ n.rows = disk.rows /\ n.head = disk.head
       /\ Usable(n) /\ n.table = y.table /\ n.ftsHead = disk.ftsHead
  <2>1. y = [rows |-> y.rows, head |-> y.head, table |-> y.table, ftsHead |-> y.ftsHead]
    BY <1>10, StoreFields
  <2>2. n = [rows |-> y.rows, head |-> y.head, table |-> y.table, ftsHead |-> disk.ftsHead]
    BY <1>8, <2>1
  <2> QED
    BY <1>4, <1>10, <2>2, StoreFields, StoreType DEF Usable
<1>12. whole => p = call[c].rows
  BY <1>9, <1>10
<1> HIDE DEF whole
<1>13. unrecorded' = (unrecorded \/ ~whole)
  BY <1>2 DEF whole, y
<1>14. /\ unrecorded' \in BOOLEAN /\ (unrecorded => unrecorded') /\ (~unrecorded' => whole)
  BY <1>13, Zenon
<1>15. /\ overtaken' \in BOOLEAN /\ (overtaken => overtaken')
       /\ ~overtaken' => disk.rows[s] = call[c].rows
       /\ ~overtaken /\ disk.rows[s] = call[c].rows => ~overtaken'
  BY <1>1, Zenon
<1>16. OneConnection => ~overtaken'
  BY <1>5, <1>15
<1>17. GoodStore(disk, unrecorded', overtaken', OneConnection)
  BY <1>4, <1>14, <1>15, HistoryAsksLess
<1>18. \A t \in {y, n} :
         /\ t \in Stores /\ Usable(t) /\ t.rows = disk.rows /\ t.head = disk.head
         /\ t.table[s] = p /\ t.ftsHead[s] # Old
         /\ \A z \in Sessions : z # s =>
              t.table[z] = disk.table[z] /\ t.ftsHead[z] = disk.ftsHead[z]
  BY <1>3, <1>4, <1>6, <1>10, <1>11 DEF PrunedStore, PrunedSession
<1>19. \A t \in {y, n} :
         /\ ~overtaken' => Part(t, s)
         /\ ~overtaken' /\ ~unrecorded' => t.table[s] = t.rows[s]
         /\ OneConnection => Part(t, s)
  BY <1>5, <1>6, <1>12, <1>14, <1>15, <1>18 DEF Part
<1>20. \A t \in {y, n} :
         GoodStore(t, unrecorded', overtaken', OneConnection) /\ PrunedStore(t, OneConnection)
  BY <1>1, <1>3, <1>4, <1>17, <1>18, <1>19, CopyIsGood
<1>21. PICK t \in {y, n} : Committed(t)
  BY <1>2 DEF y, n
<1>22. StoresAreGood' /\ holder' = None
  BY <1>3, <1>20, <1>21, CommittedStores DEF Committed
<1> QED
  BY <1>1, <1>14, <1>15, <1>16, <1>22, RebuildingInv

LEMMA AnswerInv ==
  ASSUME IInv, NEW c \in Connections, Answer(c) \/ AnswerFails(c)
  PROVE  IInv'
<1> DEFINE V == View(c)
           dropped == [V EXCEPT !.table = Absent]
           o == call[c].owner
<1>1. /\ Answering(c) /\ Reading(c, "answer") /\ (Fault \/ NoFault)
      /\ ready' = ready \/ Distrusted(c)
      /\ \/ Statement(c, dropped) /\ unrecorded' = TRUE
         \/ UNCHANGED <<db, unrecorded>>
      /\ overtaken' = overtaken
  BY DEF Answer, AnswerFails, Answering, history
<1>2. /\ o \in Owners /\ conn[o] = c /\ ready[o] # "none" /\ Serving
      /\ outcome' = "none" /\ UNCHANGED <<conn, available>>
      /\ GoodStore(V, unrecorded, overtaken, OneConnection)
      /\ PrunedStore(V, OneConnection)
  BY <1>1, ReadingFacts
<1>3. /\ NoCall \in Calls /\ NoCall.stage = "idle"
  BY EmptyFacts DEF NoCall, Calls
<1>4. /\ call' \in [Connections -> Calls]
      /\ \A d \in Connections : d # c => call'[d] = call[d]
      /\ call'[c].stage = "idle"
  BY <1>1, <1>3 DEF Answering, IInv, OtherTypes
<1>5. /\ GoodStore(disk, unrecorded, overtaken, OneConnection)
      /\ PrunedStore(disk, OneConnection)
      /\ unrecorded \in BOOLEAN /\ overtaken \in BOOLEAN
      /\ OneConnection => ~overtaken
  BY <1>2 DEF IInv, OtherTypes, StoresAreGood, NobodyOvertakes
<1> HIDE DEF V, o
<1>6. StoresAreGood' /\ unrecorded' \in BOOLEAN /\ holder' \in {holder, None, c}
  <2>1. CASE Statement(c, dropped) /\ unrecorded' = TRUE
    <3>1. GoodStore(V, TRUE, overtaken, OneConnection)
          /\ GoodStore(disk, TRUE, overtaken, OneConnection)
      BY <1>2, <1>5, HistoryAsksLess
    <3>2. GoodStore(dropped, TRUE, overtaken, OneConnection) /\ PrunedStore(dropped, OneConnection)
      BY <1>2, <3>1, UnusableIsGood
    <3> HIDE DEF dropped
    <3>3. StoresAreGood'
      BY <1>1, <1>2, <1>5, <2>1, <3>1, <3>2, StatementStores
    <3>4. holder' \in {holder, None, c}
      BY <2>1 DEF Statement, LeftOpen, Committed
    <3> QED
      BY <2>1, <3>3, <3>4
  <2>2. CASE UNCHANGED <<db, unrecorded>>
    BY <1>1, <1>2, <1>5, <2>2, UnchangedStores DEF db
  <2> QED
    BY <1>1, <2>1, <2>2
<1>7. /\ ready' \in [Owners -> {"none", "ready", "unready"}]
      /\ \A p \in Owners : ready[p] # "none" => ready'[p] # "none"
  BY <1>1, <1>2, ReadySet DEF IInv, OtherTypes, Distrusted, o
<1>8. CallsHaveOwners' /\ NobodyOvertakes'
  BY <1>1, <1>2, <1>4, <1>5, <1>6, <1>7, CallStep
<1>9. OtherTypes'
  BY <1>1, <1>2, <1>4, <1>5, <1>6, <1>7, FaultsType DEF IInv, OtherTypes
<1> QED
  BY <1>6, <1>8, <1>9 DEF IInv

LEMMA RestartInv == ASSUME IInv, Restart PROVE IInv'
<1>1. /\ seen' = disk /\ holder' = None /\ outcome' = "none" /\ available' \in BOOLEAN
      /\ ready' = [o \in Owners |-> "none"] /\ call' = [c \in Connections |-> NoCall]
      /\ UNCHANGED <<disk, conn, unrecorded, overtaken, faults>>
  BY DEF Restart, history
<1>2. NoCall \in Calls /\ NoCall.stage = "idle"
  BY EmptyFacts DEF NoCall, Calls
<1>3. \A c \in Connections : call'[c].stage = "idle"
  BY <1>1, <1>2
<1>4. ~Serving' /\ OneConnection' = OneConnection
  BY <1>1 DEF Serving, OneConnection
<1>5. StoresAreGood'
  BY <1>1, <1>4 DEF IInv, StoresAreGood
<1>6. CallsHaveOwners'
  BY <1>3 DEF CallsHaveOwners
<1>7. NobodyOvertakes'
  BY <1>1, <1>3, <1>4 DEF IInv, NobodyOvertakes
<1>8. OtherTypes'
  <2>1. call' \in [Connections -> Calls] /\ ready' \in [Owners -> {"none", "ready", "unready"}]
    BY <1>1, <1>2
  <2> QED
    BY <1>1, <2>1 DEF IInv, OtherTypes
<1> QED
  BY <1>5, <1>6, <1>7, <1>8 DEF IInv

LEMMA DamageInv == ASSUME IInv, Damage PROVE IInv'
<1> DEFINE broken == [disk EXCEPT !.table = Broken]
<1>1. /\ Committed(broken) /\ Fault /\ outcome' = "none" /\ holder = None
      /\ UNCHANGED <<conn, available, ready, call, unrecorded, overtaken>>
  BY DEF Damage, history
<1>2. /\ GoodStore(disk, unrecorded, overtaken, OneConnection)
      /\ Serving => PrunedStore(disk, OneConnection)
      /\ seen = disk
  BY <1>1 DEF IInv, StoresAreGood
<1>3. /\ GoodStore(broken, unrecorded, overtaken, OneConnection)
      /\ Serving => PrunedStore(broken, OneConnection)
  BY <1>2, TableFacts, UnusableIsGood
<1>4. broken.rows = disk.rows
  <2>1. disk \in Stores
    BY <1>2 DEF GoodStore
  <2> QED
    BY <2>1, StoreFields
<1> HIDE DEF broken
<1>5. Serving' = Serving /\ OneConnection' = OneConnection
  BY <1>1 DEF Serving, OneConnection
<1>6. StoresAreGood'
  BY <1>1, <1>3, <1>5, CommittedStores
<1>7. CallsHaveOwners'
  BY <1>1 DEF IInv, CallsHaveOwners
<1>8. NobodyOvertakes'
  <2>1. \A c \in Connections : View(c)'.rows = View(c).rows
    BY <1>1, <1>2, <1>4, ConnectionIsSomething DEF View, Committed
  <2> QED
    BY <1>1, <1>5, <2>1 DEF IInv, NobodyOvertakes, Committed
<1>9. OtherTypes'
  BY <1>1, FaultsType DEF IInv, OtherTypes, Committed
<1> QED
  BY <1>6, <1>7, <1>8, <1>9 DEF IInv

LEMMA StepInv == ASSUME IInv, [Next]_vars PROVE IInv'
<1>1. ASSUME NEW o \in Owners, New(o) PROVE IInv'
  BY <1>1, NewInv
<1>2. ASSUME NEW o \in Owners, NewFails(o) PROVE IInv'
  BY <1>2, NewFailsInv
<1>3. ASSUME NEW o \in Owners, Write(o) PROVE IInv'
  BY <1>3, WriteInv
<1>4. ASSUME NEW o \in Owners, CommitFails(o) PROVE IInv'
  BY <1>4, CommitFailsInv
<1>5. ASSUME NEW o \in Owners, WriteFails(o) \/ WriteRefused(o) PROVE IInv'
  BY <1>5, UnwrittenInv
<1>6. ASSUME NEW o \in Owners, NEW s \in Sessions, BeginSearch(o, s) PROVE IInv'
  BY <1>6, BeginSearchInv
<1>7. ASSUME NEW c \in Connections, ReadRows(c) \/ ReadRowsFails(c) PROVE IInv'
  BY <1>7, ReadRowsInv
<1>8. ASSUME NEW c \in Connections, Rebuild(c) \/ RebuildUncommitted(c) PROVE IInv'
  BY <1>8, WholeRebuildInv
<1>9. ASSUME NEW c \in Connections, RebuildFails(c) PROVE IInv'
  BY <1>9, RebuildFailsInv
<1>10. ASSUME NEW c \in Connections, RebuildUnlocked(c) PROVE IInv'
  BY <1>10, RebuildUnlockedInv
<1>11. ASSUME NEW c \in Connections, Answer(c) \/ AnswerFails(c) PROVE IInv'
  BY <1>11, AnswerInv
<1>12. CASE Restart
  BY <1>12, RestartInv
<1>13. CASE Damage
  BY <1>13, DamageInv
<1>14. CASE UNCHANGED vars
  <2>1. /\ UNCHANGED <<db, conn, available, ready, call, outcome, unrecorded, overtaken, faults>>
        /\ UNCHANGED holder
    BY <1>14 DEF vars, history, db
  <2>2. StoresAreGood'
    BY <2>1, UnchangedStores DEF Serving
  <2>3. OtherTypes' /\ CallsHaveOwners'
    BY <2>1 DEF IInv, OtherTypes, CallsHaveOwners
  <2>4. NobodyOvertakes'
    BY <2>1 DEF IInv, NobodyOvertakes, OneConnection, View, db
  <2> QED
    BY <2>2, <2>3, <2>4 DEF IInv
<1> QED
  BY <1>1, <1>2, <1>3, <1>4, <1>5, <1>6, <1>7, <1>8, <1>9, <1>10, <1>11, <1>12, <1>13, <1>14
     DEF Next, Search

(* The invariant holds in every reachable state. *)
THEOREM Invariance == Spec => []IInv
<1>1. Init => IInv
  BY InitInv
<1>2. IInv /\ [Next]_vars => IInv'
  BY StepInv
<1> QED
  BY <1>1, <1>2, PTL DEF Spec

(* The variables have their types, a transaction that is not open sees what  *)
(* is committed, and no meta row of an earlier version outlives the pruning. *)
THEOREM TypeCorrect == Spec => []TypeOK
BY Invariance, TypesFollow, PTL

-----------------------------------------------------------------------------
(* What the invariant says. *)

LEMMA ServedStores ==
  ASSUME IInv, Serving, NEW store \in {disk, seen}
  PROVE  /\ GoodStore(store, unrecorded, overtaken, OneConnection)
         /\ PrunedStore(store, OneConnection)
BY DEF IInv, StoresAreGood

(* Level heads that are there mean that the copy is whole, as long as no     *)
(* rows vanished or were overtaken.                                          *)
LEMMA LevelIsWhole ==
  ASSUME NEW st, GoodStore(st, FALSE, FALSE, OneConnection), PrunedStore(st, OneConnection),
         Usable(st), NEW s \in Sessions, Level(st, s), st.head[s] # NoHead
  PROVE  Complete(st, s)
<1>1. Valid(st, s)
  BY StoreFields DEF Valid, GoodStore, PrunedStore, PrunedSession
<1> QED
  BY <1>1 DEF GoodStore, GoodSession, ValidAndLevel, Complete

(* On one connection the full-text table holds no row that the projection    *)
(* does not hold with the same text.                                         *)
THEOREM CopiedRowsAreProjected == Spec => []FtsRowsAreProjected
<1>1. IInv => FtsRowsAreProjected
  BY ServedStores DEF FtsRowsAreProjected, PrunedStore, PrunedSession, Part
<1> QED
  BY <1>1, Invariance, PTL

(* Appending only the new rows under a level head is right: the copy is      *)
(* whole, on any number of connections, while no rows vanished without their *)
(* head and none were overtaken.                                             *)
THEOREM LevelIsMirrored == Spec => []LevelMeansMirrored
<1>1. IInv => LevelMeansMirrored
  <2> SUFFICES ASSUME IInv, Serving, ~unrecorded, ~overtaken, NEW store \in {disk, seen},
                      Usable(store), NEW s \in Sessions, Level(store, s), store.head[s] # NoHead
               PROVE  Complete(store, s)
    BY DEF LevelMeansMirrored
  <2>1. unrecorded = FALSE /\ overtaken = FALSE
    BY DEF IInv, OtherTypes
  <2>2. GoodStore(store, FALSE, FALSE, OneConnection) /\ PrunedStore(store, OneConnection)
    BY <2>1, ServedStores
  <2> QED
    BY <2>2, LevelIsWhole
<1> QED
  BY <1>1, Invariance, PTL

(* The copy answers a search over several sources with nothing that the      *)
(* projection would not have found.                                          *)
THEOREM SourceHitsAreRight == Spec => []SourceHitsAreProjected
<1>1. IInv => SourceHitsAreProjected
  <2> SUFFICES ASSUME IInv, ~overtaken, NEW o \in Owners, NEW sources \in Sources,
                      Covered(View(conn[o]).head, sources) = DOMAIN sources,
                      UsesFts(o, sources), NEW text \in Texts,
                      NEW row \in FtsHits(o, sources, text)
               PROVE  row \in LikeHits(o, sources, text)
    BY DEF SourceHitsAreProjected
  <2> DEFINE V == View(conn[o])
             s == row[1]
             e == row[2]
  <2>1. row \in Authorized(o, sources) /\ V.table[s][e] = text
    BY DEF FtsHits
  <2>2. s \in DOMAIN sources /\ e \in Entries /\ DOMAIN sources \subseteq Sessions
    BY <2>1 DEF Authorized, Sources
  <2>3. sources[s] \in Heads
    BY <2>2 DEF Sources
  <2>4. V.head[s] = sources[s] /\ V.ftsHead[s] = sources[s] /\ Usable(V)
    BY <2>2 DEF Covered, UsesFts
  <2>5. GoodStore(V, unrecorded, overtaken, OneConnection)
    BY ViewFacts DEF IInv, OtherTypes
  <2>6. ValidAndLevel(V, s)
    BY <2>3, <2>4 DEF ValidAndLevel, Valid, Level
  <2> HIDE DEF V, s, e
  <2>7. V.table[s][e] \in {None, V.rows[s][e]}
    BY <2>2, <2>4, <2>5, <2>6 DEF GoodStore, GoodSession, Part
  <2>8. V.rows[s][e] = text
    BY <2>1, <2>7, SearchConstants
  <2> QED
    BY <2>1, <2>8 DEF LikeHits, V, s, e
<1> QED
  BY <1>1, Invariance, PTL

-----------------------------------------------------------------------------
(* What is projected changes by writes only. *)

(* Pruning drops nothing of a store that is pruned. *)
LEMMA PrunedKeepsProjection ==
  ASSUME NEW st \in Stores, NEW one, PrunedStore(st, one)
  PROVE  Projection(Pruned(st)) = Projection(st)
<1>1. \A s \in Sessions : Pruned(st).rows[s] = st.rows[s] /\ Pruned(st).head[s] = st.head[s]
  BY PrunedFields, StoreFields DEF Valid, PrunedStore, PrunedSession
<1>2. /\ Pruned(st).rows \in Tables /\ st.rows \in Tables
      /\ Pruned(st).head \in Metas /\ st.head \in Metas
  BY PrunedFields, StoreFields
<1>3. Pruned(st).rows = st.rows
  BY <1>1, <1>2 DEF Tables
<1>4. Pruned(st).head = st.head
  BY <1>1, <1>2 DEF Metas
<1> QED
  BY <1>3, <1>4 DEF Projection

(* A statement writes what its connection reads to the disk, or leaves it. *)
LEMMA StatementsKeepProjection ==
  ASSUME IInv, NEW c \in Connections, NEW st, Statement(c, st),
         Projection(st) = Projection(View(c))
  PROVE  Projection(disk') = Projection(disk) /\ Projection(View(c)') = Projection(View(c))
<1>1. CASE holder = c
  BY <1>1, ConnectionIsSomething DEF Statement, LeftOpen, View
<1>2. CASE holder # c
  BY <1>2, ConnectionIsSomething DEF Statement, Committed, View
<1> QED
  BY <1>1, <1>2

LEMMA ClearingKeepsProjection ==
  ASSUME NEW st \in Stores, NEW s \in Sessions
  PROVE  /\ Projection(FtsCleared(st, s)) = Projection(st)
         /\ Projection([st EXCEPT !.ftsHead[s] = NoHead]) = Projection(st)
         /\ Projection(Ensured(st)) = Projection(st)
         /\ \A t : Projection([st EXCEPT !.table = t]) = Projection(st)
<1>1. st = [rows |-> st.rows, head |-> st.head, table |-> st.table, ftsHead |-> st.ftsHead]
  BY StoreFields
<1>2. Projection([st EXCEPT !.ftsHead[s] = NoHead]) = Projection(st)
  <2> DEFINE f == [st.ftsHead EXCEPT ![s] = NoHead]
  <2>1. [st EXCEPT !.ftsHead[s] = NoHead] = [st EXCEPT !.ftsHead = f]
    OBVIOUS
  <2> HIDE DEF f
  <2> QED
    BY <1>1, <2>1 DEF Projection
<1>3. \A t : Projection([st EXCEPT !.table = t]) = Projection(st)
  BY <1>1 DEF Projection
<1> QED
  BY <1>2, <1>3, FtsClearedFields, EnsuredFields DEF Projection

LEMMA SearchesKeepProjection ==
  ASSUME IInv, NEW o \in Owners, NEW s \in Sessions, BeginSearch(o, s)
  PROVE  /\ Projection(disk') = Projection(disk)
         /\ Projection(View(conn[o])') = Projection(View(conn[o]))
<1> DEFINE c == conn[o]
           V == View(c)
<1>1. c \in Connections /\ V \in Stores /\ UNCHANGED conn
  BY ViewFacts DEF IInv, OtherTypes, GoodStore, BeginSearch
<1>2. \/ UNCHANGED db
      \/ \E st \in {FtsCleared(V, s), [V EXCEPT !.ftsHead[s] = NoHead], Ensured(V), V} :
           Statement(c, st)
  BY DEF BeginSearch, RecoverUnprojected, NoRecovery, RecoverBehind, EnsureFails
<1>3. \A st \in {FtsCleared(V, s), [V EXCEPT !.ftsHead[s] = NoHead], Ensured(V), V} :
        Projection(st) = Projection(V)
  <2>1. /\ Projection(FtsCleared(V, s)) = Projection(V)
        /\ Projection([V EXCEPT !.ftsHead[s] = NoHead]) = Projection(V)
        /\ Projection(Ensured(V)) = Projection(V)
    BY <1>1, ClearingKeepsProjection
  <2> HIDE DEF V
  <2> QED
    BY <2>1, Zenon
<1>4. CASE UNCHANGED db
  BY <1>1, <1>4 DEF db, View
<1>5. ASSUME NEW st \in {FtsCleared(V, s), [V EXCEPT !.ftsHead[s] = NoHead], Ensured(V), V},
             Statement(c, st)
      PROVE  Projection(disk') = Projection(disk) /\ Projection(View(c)') = Projection(V)
  BY <1>1, <1>3, <1>5, StatementsKeepProjection
<1>6. View(conn[o])' = View(c)'
  BY <1>1 DEF View
<1> QED
  BY <1>2, <1>4, <1>5, <1>6

LEMMA RebuildsKeepProjection ==
  ASSUME NEW st \in Stores, Usable(st), NEW reading \in Calls, reading.session \in Sessions
  PROVE  Projection(Rebuilt(st, reading)) = Projection(st)
<1> DEFINE x == Rebuilt(st, reading)
<1>1. x = Mirroring(st, reading.session, reading.rows, reading.head)
  BY DEF Rebuilt, Mirroring
<1>2. reading.rows \in Rows /\ reading.head \in Heads \cup {NoHead, Old}
  BY DEF Calls
<1> HIDE DEF x
<1>3. x.rows = st.rows /\ x.head = st.head
  BY <1>1, <1>2, MirrorFields
<1> QED
  BY <1>3 DEF Projection, x

(* The statements that RebuildUnlocked commits are about the copy alone. *)
LEMMA UnlockedKeepsProjection ==
  ASSUME IInv, NEW c \in Connections, RebuildUnlocked(c)
  PROVE  Projection(disk') = Projection(disk)
<1>1. /\ Rebuilding(c) /\ Reading(c, "rebuild") /\ Usable(disk)
  BY DEF RebuildUnlocked, Rebuilding
<1>2. call[c] \in Calls /\ call[c].session \in Sessions /\ disk \in Stores
  BY <1>1, ReadingFacts DEF IInv, StoresAreGood, GoodStore
<1> DEFINE reading(E) ==
             [call[c] EXCEPT !.rows = [e \in Entries |-> IF e \in E THEN @[e] ELSE None]]
<1>3. PICK E \in SUBSET Entries :
        \/ Committed([Rebuilt(disk, reading(E)) EXCEPT !.ftsHead = disk.ftsHead])
        \/ Committed(Rebuilt(disk, reading(E)))
  BY DEF RebuildUnlocked
<1> DEFINE rs == [e \in Entries |-> IF e \in E THEN call[c].rows[e] ELSE None]
           x == Rebuilt(disk, reading(E))
<1>4. reading(E) = [call[c] EXCEPT !.rows = rs]
  OBVIOUS
<1>5. rs \in Rows
  BY <1>2 DEF Rows, Calls
<1> HIDE DEF rs, reading
<1>6. reading(E) \in Calls /\ reading(E).session = call[c].session
  BY <1>2, <1>4, <1>5 DEF Calls
<1>7. Projection(x) = Projection(disk)
  BY <1>1, <1>2, <1>6, RebuildsKeepProjection
<1>8. Projection([x EXCEPT !.ftsHead = disk.ftsHead]) = Projection(x)
  <2>1. x = [disk EXCEPT !.table[reading(E).session] = reading(E).rows,
                         !.ftsHead[reading(E).session] = reading(E).head]
    BY DEF Rebuilt
  <2> DEFINE ts == [disk.table EXCEPT ![reading(E).session] = reading(E).rows]
             fs == [disk.ftsHead EXCEPT ![reading(E).session] = reading(E).head]
  <2>2. x = [disk EXCEPT !.table = ts, !.ftsHead = fs]
    BY <2>1
  <2>3. disk = [rows |-> disk.rows, head |-> disk.head, table |-> disk.table,
                ftsHead |-> disk.ftsHead]
    BY <1>2, StoreFields
  <2> HIDE DEF ts, fs, x
  <2> QED
    BY <2>2, <2>3 DEF Projection
<1> QED
  BY <1>3, <1>7, <1>8 DEF Committed

(* What is committed stays, or takes the projection it has or the one that   *)
(* the open transaction has, or a write succeeds.                            *)
LEMMA ProjectionSteps ==
  ASSUME IInv, Serving, [Next]_vars
  PROVE  \/ Projection(disk') = Projection(disk)
         \/ outcome' = "ok"
         \/ Projection(disk') = Projection(seen)
<1>1. disk \in Stores /\ PrunedStore(disk, OneConnection)
  BY DEF IInv, StoresAreGood, GoodStore
<1>2. ASSUME NEW o \in Owners, New(o) PROVE Projection(disk') = Projection(disk)
  <2>1. Projection(Pruned(disk)) = Projection(disk) /\ Pruned(disk) \in Stores
    BY <1>1, PrunedKeepsProjection, PrunedFields
  <2>2. Projection(Ensured(Pruned(disk))) = Projection(disk)
    BY <2>1, EnsuredFields DEF Projection
  <2>3. Committed(Pruned(disk)) \/ Committed(Ensured(Pruned(disk)))
    BY <1>2 DEF New
  <2> QED
    BY <2>1, <2>2, <2>3 DEF Committed
<1>3. ASSUME NEW o \in Owners,
             NewFails(o) \/ CommitFails(o) \/ WriteFails(o) \/ WriteRefused(o)
      PROVE  disk' = disk
  BY <1>3 DEF NewFails, CommitFails, WriteFails, WriteRefused, LeftOpen, RollBack, db
<1>4. ASSUME NEW o \in Owners, Write(o) PROVE outcome' = "ok"
  BY <1>4 DEF Write
<1>5. ASSUME NEW o \in Owners, NEW s \in Sessions, BeginSearch(o, s)
      PROVE  Projection(disk') = Projection(disk)
  BY <1>5, SearchesKeepProjection
<1>6. ASSUME NEW c \in Connections,
             \/ ReadRows(c) \/ ReadRowsFails(c) \/ RebuildUncommitted(c)
             \/ RebuildFails(c) \/ Answer(c)
      PROVE  disk' = disk
  BY <1>6 DEF ReadRows, ReadRowsFails, RebuildUncommitted, RebuildFails, Answer, LeftOpen,
              RolledBack, db
<1>7. ASSUME NEW c \in Connections, Rebuild(c) PROVE Projection(disk') = Projection(seen)
  <2>1. /\ Reading(c, "rebuild") /\ Writable(c) /\ Usable(View(c))
        /\ disk' = Rebuilt(View(c), call[c])
    BY <1>7 DEF Rebuild, Rebuilding, Committed
  <2>2. View(c) = seen /\ View(c) \in Stores /\ call[c] \in Calls /\ call[c].session \in Sessions
    BY <2>1, ViewFacts, ReadingFacts DEF GoodStore
  <2> QED
    BY <2>1, <2>2, RebuildsKeepProjection
<1>8. ASSUME NEW c \in Connections, RebuildUnlocked(c) PROVE Projection(disk') = Projection(disk)
  BY <1>8, UnlockedKeepsProjection
<1>9. ASSUME NEW c \in Connections, AnswerFails(c) PROVE Projection(disk') = Projection(disk)
  <2>1. CASE UNCHANGED disk
    BY <2>1
  <2>2. CASE Statement(c, [View(c) EXCEPT !.table = Absent])
    <3>1. View(c) \in Stores
      BY ViewFacts DEF GoodStore
    <3>2. Projection([View(c) EXCEPT !.table = Absent]) = Projection(View(c))
      <4>1. View(c) = [rows |-> View(c).rows, head |-> View(c).head, table |-> View(c).table,
                       ftsHead |-> View(c).ftsHead]
        BY <3>1, StoreFields
      <4> QED
        BY <4>1 DEF Projection
    <3> QED
      BY <2>2, <3>2, StatementsKeepProjection
  <2> QED
    BY <1>9, <2>1, <2>2 DEF AnswerFails, db
<1>10. CASE Restart
  BY <1>10 DEF Restart
<1>11. CASE Damage
  <2>1. disk' = [disk EXCEPT !.table = Broken]
    BY <1>11 DEF Damage, Committed
  <2>2. disk = [rows |-> disk.rows, head |-> disk.head, table |-> disk.table,
                ftsHead |-> disk.ftsHead]
    BY <1>1, StoreFields
  <2> QED
    BY <2>1, <2>2 DEF Projection
<1>12. CASE UNCHANGED vars
  BY <1>12 DEF vars, db
<1> QED
  BY <1>2, <1>3, <1>4, <1>5, <1>6, <1>7, <1>8, <1>9, <1>10, <1>11, <1>12 DEF Next, Search

(* Only a write can report a failure. *)
LEMMA FailuresWriteNothing ==
  ASSUME IInv, Next, outcome' = "failed"
  PROVE  UNCHANGED disk
<1>1. ASSUME NEW o \in Owners, CommitFails(o) \/ WriteFails(o) \/ WriteRefused(o)
      PROVE  UNCHANGED disk
  BY <1>1 DEF CommitFails, WriteFails, WriteRefused, LeftOpen, RollBack, db
<1>2. \A o \in Owners : ~New(o) /\ ~NewFails(o) /\ ~Write(o)
  BY DEF New, NewFails, Write
<1>3. \A c \in Connections :
        /\ ~ReadRows(c) /\ ~ReadRowsFails(c) /\ ~Rebuild(c) /\ ~RebuildUncommitted(c)
        /\ ~RebuildFails(c) /\ ~RebuildUnlocked(c) /\ ~Answer(c) /\ ~AnswerFails(c)
  BY DEF ReadRows, ReadRowsFails, Rebuild, RebuildUncommitted, RebuildFails, RebuildUnlocked,
         Answer, AnswerFails, Answering, Rebuilding, Reading
<1>4. /\ \A o \in Owners, s \in Sessions : ~BeginSearch(o, s)
      /\ ~Restart /\ ~Damage
  BY DEF BeginSearch, Restart, Damage
<1> QED
  BY <1>1, <1>2, <1>3, <1>4 DEF Next, Search

(* A write that is reported failed changes nothing that is committed; what   *)
(* is projected changes later only by a write that succeeds, or when a       *)
(* search on the connection of a failed COMMIT commits that write, whole.    *)
THEOREM FailedWritesAreUndone == Spec => FailedWritesLeaveNoTrace
<1> DEFINE Traceless ==
             /\ outcome' = "failed" => UNCHANGED disk
             /\ Serving /\ Projection(disk') # Projection(disk)
                  => outcome' = "ok" \/ Projection(disk') = Projection(seen)
<1>1. ASSUME IInv, [Next]_vars PROVE [Traceless]_vars
  BY <1>1, ProjectionSteps, FailuresWriteNothing
<1> QED
  BY <1>1, Invariance, PTL DEF Spec, FailedWritesLeaveNoTrace

-----------------------------------------------------------------------------
(* A search mirrors what it answers from. *)

LEMMA OneFaultOrNone == IInv => ~(Fault /\ NoFault)
BY SearchConstants DEF IInv, OtherTypes, Fault, NoFault

LEMMA SearchesCall ==
  ASSUME NEW o, NEW s, BeginSearch(o, s)
  PROVE  \E stage, head : Calling(o, s, stage, head)
<1>1. CASE RecoverUnprojected(o, s)
  BY <1>1 DEF RecoverUnprojected
<1>2. CASE NoRecovery(o, s)
  BY <1>2 DEF NoRecovery
<1>3. CASE RecoverBehind(o, s)
  BY <1>3 DEF RecoverBehind
<1>4. CASE EnsureFails(o, s)
  BY <1>4 DEF EnsureFails
<1> QED
  BY <1>1, <1>2, <1>3, <1>4 DEF BeginSearch

(* A recovery that needs nothing or clears what has no projection. *)
LEMMA BegunIsMirrored ==
  ASSUME IInv, OneConnection, ~unrecorded, NoFault,
         NEW o \in Owners, NEW s \in Sessions, BeginSearch(o, s),
         call'[conn[o]].stage = "answer", ready'[o] = "ready",
         Usable(View(conn[o])')
  PROVE  View(conn[o])'.head[s] = NoHead \/ Complete(View(conn[o])', s)
<1> DEFINE c == conn[o]
           V == View(c)
<1>1. c \in Connections /\ UNCHANGED conn /\ ready[o] # "none"
  BY DEF IInv, OtherTypes, BeginSearch
<1>2. Serving /\ ~overtaken /\ V \in Stores
      /\ GoodStore(V, unrecorded, overtaken, OneConnection) /\ PrunedStore(V, OneConnection)
  BY <1>1, ViewFacts DEF IInv, NobodyOvertakes, Serving, GoodStore
<1>3. CASE RecoverUnprojected(o, s)
  <2>1. V.head[s] = NoHead
    BY <1>3, OneFaultOrNone DEF RecoverUnprojected
  <2>2. Projection(View(conn[o])') = Projection(V)
    BY SearchesKeepProjection
  <2> HIDE DEF V
  <2> QED
    BY <2>1, <2>2 DEF Projection
<1>4. CASE NoRecovery(o, s)
  <2>1. /\ V.head[s] # NoHead /\ ~RecoveryDue(o, s) /\ UNCHANGED <<db, ready>>
    BY <1>4 DEF NoRecovery
  <2>2. View(conn[o])' = V
    BY <1>1, <2>1 DEF db, View
  <2>3. Level(V, s)
    BY <2>1 DEF RecoveryDue
  <2>4. GoodStore(V, FALSE, FALSE, OneConnection)
    <3>1. unrecorded = FALSE /\ overtaken = FALSE
      BY <1>2 DEF IInv, OtherTypes
    <3> QED
      BY <1>2, <3>1
  <2> HIDE DEF V
  <2>5. Complete(V, s)
    BY <1>2, <2>1, <2>2, <2>3, <2>4, LevelIsWhole
  <2> QED
    BY <2>2, <2>5
<1>5. CASE RecoverBehind(o, s)
  <2>1. \E h : Calling(o, s, "rows", h) /\ h \in Heads \cup {NoHead}
    BY <1>2, <1>5, StoreFields DEF RecoverBehind, PrunedStore, PrunedSession
  <2>2. call'[conn[o]].stage = "rows"
    BY <2>1, CallingFacts
  <2> QED
    BY <2>2
<1>6. CASE EnsureFails(o, s)
  BY <1>6 DEF EnsureFails
<1> QED
  BY <1>3, <1>4, <1>5, <1>6 DEF BeginSearch

LEMMA RebuiltIsMirrored ==
  ASSUME IInv, OneConnection, NEW c \in Connections, Rebuild(c)
  PROVE  call'[c].session = call[c].session /\ Complete(View(c)', call[c].session)
<1> DEFINE V == View(c)
           s == call[c].session
           x == Rebuilt(V, call[c])
<1>1. /\ Rebuilding(c) /\ Reading(c, "rebuild") /\ Usable(V) /\ Committed(x)
  BY DEF Rebuild, Rebuilding
<1>2. /\ call'[c].session = s /\ call[c].rows = V.rows[s]
  BY <1>1, RebuildingFacts
<1>3. /\ call[c] \in Calls /\ s \in Sessions /\ V \in Stores
      /\ call[c].rows \in Rows /\ call[c].head \in Heads \cup {NoHead, Old}
  BY <1>1, ReadingFacts DEF GoodStore, Calls
<1>4. x = Mirroring(V, s, call[c].rows, call[c].head)
  BY DEF Rebuilt, Mirroring
<1>5. View(c)' = x
  BY <1>1, ConnectionIsSomething DEF Committed, View
<1> HIDE DEF V, s, x
<1>6. x.rows = V.rows /\ Usable(x) /\ x.table[s] = call[c].rows
  BY <1>1, <1>3, <1>4, MirrorFields
<1>7. Complete(x, s)
  BY <1>2, <1>6 DEF Complete
<1> QED
  BY <1>2, <1>5, <1>7 DEF s

(* On one connection, a search that goes on with a full-text table it can    *)
(* read, after a recovery without a fault, has its session mirrored          *)
(* completely.                                                               *)
THEOREM SearchesMirrorFirst == Spec => SearchRebuildsWhatIsBehind
<1> DEFINE Mirrors(c) ==
             LET s == call'[c].session
             IN  /\ call'[c].stage = "answer" /\ call[c].stage # "answer"
                 /\ ready'[call'[c].owner] = "ready" /\ Usable(View(c)')
                 /\ OneConnection /\ NoFault /\ ~unrecorded
                 => View(c)'.head[s] = NoHead \/ Complete(View(c)', s)
<1>1. ASSUME IInv, Next, NEW c \in Connections PROVE Mirrors(c)
  <2> SUFFICES ASSUME call'[c].stage = "answer", call[c].stage # "answer",
                      ready'[call'[c].owner] = "ready", Usable(View(c)'),
                      OneConnection, NoFault, ~unrecorded
               PROVE  \/ View(c)'.head[call'[c].session] = NoHead
                      \/ Complete(View(c)', call'[c].session)
    OBVIOUS
  <2>1. ASSUME NEW o \in Owners, NEW s \in Sessions, BeginSearch(o, s)
        PROVE  \/ View(c)'.head[call'[c].session] = NoHead
               \/ Complete(View(c)', call'[c].session)
    <3>1. \A d \in Connections : d # conn[o] => call'[d] = call[d]
      <4>1. PICK stage, head : Calling(o, s, stage, head)
        BY <2>1, SearchesCall
      <4> QED
        BY <1>1, <4>1 DEF Calling, IInv, OtherTypes
    <3>2. c = conn[o]
      BY <3>1
    <3>3. call'[c].session = s /\ call'[c].owner = o
      <4>1. PICK stage, head : Calling(o, s, stage, head)
        BY <2>1, SearchesCall
      <4>2. conn[o] \in DOMAIN call
        BY <1>1 DEF IInv, OtherTypes
      <4>3. call'[conn[o]] = [stage |-> stage, owner |-> o, session |-> s, head |-> head,
                              rows |-> Empty]
        BY <4>1, <4>2 DEF Calling
      <4> QED
        BY <3>2, <4>3
    <3>4. View(conn[o])' = View(c)'
      BY <2>1, <3>2 DEF BeginSearch, View
    <3> QED
      BY <1>1, <2>1, <3>2, <3>3, <3>4, BegunIsMirrored
  <2>2. ASSUME NEW d \in Connections, Rebuild(d)
        PROVE  \/ View(c)'.head[call'[c].session] = NoHead
               \/ Complete(View(c)', call'[c].session)
    <3>1. d = c
      BY <1>1, <2>2, RebuildingFacts DEF Rebuild
    <3> QED
      BY <1>1, <2>2, <3>1, RebuiltIsMirrored
  <2>3. ASSUME NEW d \in Connections,
               ReadRowsFails(d) \/ RebuildUncommitted(d) \/ RebuildUnlocked(d)
        PROVE  FALSE
    BY <1>1, <2>3, OneFaultOrNone DEF ReadRowsFails, RebuildUncommitted, RebuildUnlocked
  <2>4. ASSUME NEW d \in Connections, RebuildFails(d) PROVE FALSE
    <3>1. Rebuilding(d) /\ Reading(d, "rebuild") /\ Distrusted(d)
      BY <2>4 DEF RebuildFails, Rebuilding
    <3>2. d = c /\ call'[c].owner = call[c].owner
      BY <1>1, <3>1, RebuildingFacts
    <3>3. call[c].owner \in Owners
      BY <1>1, <3>1, <3>2, ReadingFacts
    <3> QED
      BY <1>1, <3>1, <3>2, <3>3 DEF Distrusted, IInv, OtherTypes
  <2>5. ASSUME NEW d \in Connections, ReadRows(d) PROVE FALSE
    BY <1>1, <2>5 DEF ReadRows, IInv, OtherTypes, Calls
  <2>6. ASSUME NEW d \in Connections, Answer(d) \/ AnswerFails(d) PROVE FALSE
    BY <1>1, <2>6 DEF Answer, AnswerFails, Answering, NoCall, IInv, OtherTypes
  <2>7. ASSUME NEW o \in Owners,
               \/ New(o) \/ NewFails(o)
               \/ Write(o) \/ CommitFails(o) \/ WriteFails(o) \/ WriteRefused(o)
        PROVE  FALSE
    BY <2>7 DEF New, NewFails, Write, CommitFails, WriteFails, WriteRefused, Writing, Idle
  <2>8. CASE Restart
    BY <2>8 DEF Restart, NoCall
  <2>9. CASE Damage
    BY <2>9 DEF Damage
  <2> QED
    BY <1>1, <2>1, <2>2, <2>3, <2>4, <2>5, <2>6, <2>7, <2>8, <2>9 DEF Next, Search
<1> HIDE DEF Mirrors
<1>2. ASSUME IInv, [Next]_vars PROVE [\A c \in Connections : Mirrors(c)]_vars
  BY <1>1, <1>2
<1> QED
  BY <1>2, Invariance, PTL DEF Spec, SearchRebuildsWhatIsBehind, Mirrors
=============================================================================
