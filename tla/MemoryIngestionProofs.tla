------------------------ MODULE MemoryIngestionProofs ------------------------
(*****************************************************************************)
(* Proofs about MemoryIngestion for any messages and any length of the Tape. *)
(*                                                                           *)
(* The head is not always that of the Tape: projections lag behind, stop at  *)
(* a failure, start again from nothing over rows that are still there.  The  *)
(* invariant says what the rows are worth at whatever head they have.        *)
(*****************************************************************************)
EXTENDS MemoryIngestion, WellFoundedInduction, TLAPS

(* The entries a head stands for; none when there is no current head. *)
Level == IF meta \in Ids THEN meta ELSE 0

Prefix(t, h) == {i \in EntriesOf(t) : i <= h}

LiveIn(t, S, m) == {i \in Versions(t, S, m) : ~Retracted(t, S, m, i)}
FinalsIn(t, S, m) == {i \in LiveIn(t, S, m) : t[i].kind = "final"}

IsTool(t, k, m) == t[k].kind = "tool" /\ t[k].message = m
IsFinal(t, i, m) == t[i].kind = "final" /\ t[i].message = m

(* A row names a final version of its message, and its flag has a cause,     *)
(* whatever its head says.                                                   *)
FromTape(t, row, m) ==
  row # None =>
    /\ row.entry \in EntriesOf(t) /\ IsFinal(t, row.entry, m)
    /\ row.tool => \E k \in EntriesOf(t) :
                     IsTool(t, k, m) \/ (IsFinal(t, k, m) /\ t[k].blocks)

(* A row is that of the last version up to h, or already of a later entry.   *)
IsLast(t, row, h, m) ==
  row # None =>
    \/ row.entry > h
    \/ /\ row.entry \in FinalsIn(t, Prefix(t, h), m)
       /\ \A j \in FinalsIn(t, Prefix(t, h), m) : j <= row.entry

(* There is no row when there is no final version, when a retired one        *)
(* followed, or when the entry after h, a retraction, was applied already.   *)
IsMissing(t, row, h, m) ==
  row = None =>
    \/ \A i \in FinalsIn(t, Prefix(t, h), m) :
         \E j \in LiveIn(t, Prefix(t, h), m) : j > i /\ t[j].kind = "retired"
    \/ \E r \in EntriesOf(t) :
         /\ r > h /\ t[r].kind = "retraction" /\ t[r].message = m
         /\ \A j \in EntriesOf(t) : j > h => r <= j

(* The flag of a row knows every tool call after its version. *)
FlagIsSet(t, row, h, m) ==
  row # None => \A k \in Prefix(t, h) : k > row.entry /\ IsTool(t, k, m) => row.tool

(* A flag no tool call set is that of a version that still counts.           *)
FlagIsTrue(t, row, h, m) ==
  row # None /\ row.tool =>
    \/ \E k \in EntriesOf(t) : IsTool(t, k, m)
    \/ \E i \in EntriesOf(t) :
         IsFinal(t, i, m) /\ t[i].blocks /\ (i > h \/ i \in FinalsIn(t, Prefix(t, h), m))

RowUpTo(t, row, h, m) ==
  /\ FromTape(t, row, m)
  /\ IsLast(t, row, h, m)
  /\ IsMissing(t, row, h, m)
  /\ FlagIsSet(t, row, h, m)
  /\ FlagIsTrue(t, row, h, m)

RowsKeepUp == \A m \in Messages : RowUpTo(tape, rows[m], Level, m)

(* What a rebuilding caller has read is the Tape up to some entry. *)
SnapshotIsPrefix == snapshot # None => snapshot = Prefix(tape, Head(snapshot))

IInv == TypeOK /\ RowsKeepUp /\ SnapshotIsPrefix

Tapes == [Ids -> Kinds \cup {None}]

-----------------------------------------------------------------------------
(* What the operators of the module return. *)

LEMMA EntryIds ==
  /\ MaxEntry \in Nat /\ MaxEntry > 0
  /\ \A i \in Ids : i \in Nat /\ i > 0 /\ i <= MaxEntry
  /\ \A i \in Nat : i > 0 /\ i <= MaxEntry => i \in Ids
BY IngestionConstants DEF Ids

(* A set of entries has a greatest one. *)
LEMMA GreatestEntry ==
  ASSUME NEW S, S \subseteq Ids, S # {}
  PROVE  Max(S) \in S /\ \A y \in S : y <= Max(S)
<1> DEFINE R == {ss \in Nat \X Nat : ss[1] < ss[2]}
           T == {MaxEntry - x : x \in S}
<1>1. IsWellFoundedOn(R, Nat)
  <2>1. OpToRel(<, Nat) = R
    BY DEF OpToRel
  <2> QED
    BY <2>1, NatLessThanWellFounded
<1>2. \A a, b \in Nat : <<a, b>> \in R <=> a < b
  OBVIOUS
<1>3. T \subseteq Nat /\ T # {}
  <2>1. \A x \in S : MaxEntry - x \in Nat
    BY EntryIds
  <2> QED
    BY <2>1
<1>4. PICK least \in T : \A other \in T : least <= other
  <2> HIDE DEF R, T
  <2>1. PICK least \in T : \A other \in T : ~ (<<other, least>> \in R)
    BY <1>1, <1>3, WFMin
  <2>2. \A other \in T : ~ (other < least)
    BY <1>2, <1>3, <2>1
  <2>3. \A other \in T : least <= other
    BY <1>3, <2>2
  <2> QED
    BY <2>3
<1>5. PICK x \in S : least = MaxEntry - x
  BY <1>4
<1>6. \A y \in S : MaxEntry - x <= MaxEntry - y
  BY <1>4, <1>5
<1>7. \A y \in S : x >= y
  BY <1>6, EntryIds
<1>8. Max(S) \in S /\ \A y \in S : Max(S) >= y
  BY <1>7 DEF Max
<1> QED
  BY <1>8, EntryIds

LEMMA HeadOfEntries ==
  ASSUME NEW S, S \subseteq Ids
  PROVE  /\ Head(S) \in 0..MaxEntry
         /\ S = {} => Head(S) = 0
         /\ S # {} => Head(S) \in S
         /\ \A y \in S : y <= Head(S)
<1>1. CASE S = {}
  BY <1>1, EntryIds DEF Head
<1>2. CASE S # {}
  <2>1. Head(S) = Max(S)
    BY <1>2 DEF Head
  <2>2. Max(S) \in S /\ \A y \in S : y <= Max(S)
    BY <1>2, GreatestEntry
  <2>3. Max(S) \in 0..MaxEntry
    BY <2>2, EntryIds
  <2> QED
    BY <1>2, <2>1, <2>2, <2>3
<1> QED
  BY <1>1, <1>2

(* The head is determined by being the greatest entry. *)
LEMMA HeadIsUnique ==
  ASSUME NEW S, S \subseteq Ids, NEW x \in S, \A y \in S : y <= x
  PROVE  Head(S) = x /\ Max(S) = x
<1>1. Max(S) \in S /\ x <= Max(S) /\ Max(S) <= x
  BY GreatestEntry
<1>2. Max(S) = x
  BY <1>1, EntryIds
<1> QED
  BY <1>2 DEF Head

LEMMA EntryFacts ==
  ASSUME NEW t \in Tapes, NEW i \in EntriesOf(t)
  PROVE  /\ i \in Ids /\ t[i] \in Kinds
         /\ t[i].kind \in {"final", "retired", "retraction", "tool", "other"}
         /\ t[i].kind # "other" => t[i].message \in Messages
         /\ t[i].kind = "final" => t[i].blocks \in BOOLEAN
BY DEF Tapes, EntriesOf, Kinds

(* Without entries up to h only the origin of a row is left to say. *)
LEMMA NothingAtZero ==
  ASSUME NEW t \in Tapes, NEW row, NEW m, FromTape(t, row, m)
  PROVE  RowUpTo(t, row, 0, m)
<1>1. Prefix(t, 0) = {} /\ \A i \in EntriesOf(t) : i > 0
  BY EntryIds DEF Prefix, EntriesOf
<1>2. FinalsIn(t, Prefix(t, 0), m) = {}
  BY <1>1 DEF FinalsIn, LiveIn, Versions
<1>3. IsLast(t, row, 0, m)
  BY <1>1 DEF IsLast, FromTape
<1>4. IsMissing(t, row, 0, m) /\ FlagIsSet(t, row, 0, m)
  BY <1>1, <1>2 DEF IsMissing, FlagIsSet
<1>5. FlagIsTrue(t, row, 0, m)
  BY <1>1 DEF FlagIsTrue, FromTape
<1> QED
  BY <1>3, <1>4, <1>5 DEF RowUpTo

-----------------------------------------------------------------------------
(* The Tape grows at its end; what is true up to a head stays true. *)

Longer(t, i, e) == [t EXCEPT ![i] = e]

LEMMA TapeGrows ==
  ASSUME NEW t \in Tapes, NEW i \in Ids, NEW e \in Kinds, i > Head(EntriesOf(t))
  PROVE  /\ Longer(t, i, e) \in Tapes
         /\ EntriesOf(Longer(t, i, e)) = EntriesOf(t) \cup {i}
         /\ Longer(t, i, e)[i] = e
         /\ \A j \in EntriesOf(t) : j < i /\ j \in Ids /\ Longer(t, i, e)[j] = t[j]
         /\ Head(EntriesOf(Longer(t, i, e))) = i
         /\ {j \in EntriesOf(Longer(t, i, e)) : j < i} = EntriesOf(t)
<1> DEFINE u == Longer(t, i, e)
<1>1. EntriesOf(t) \subseteq Ids
  BY DEF EntriesOf
<1>2. \A j \in EntriesOf(t) : j < i /\ j \in Ids
  BY <1>1, HeadOfEntries, EntryIds
<1>3. u \in Tapes /\ u[i] = e /\ \A j \in Ids : j # i => u[j] = t[j]
  BY DEF Longer, Tapes
<1>4. e # None
  BY IngestionConstants
<1>5. \A j \in EntriesOf(t) : u[j] = t[j]
  BY <1>2, <1>3, EntryIds
<1>6. EntriesOf(u) = EntriesOf(t) \cup {i}
  BY <1>2, <1>3, <1>4 DEF EntriesOf
<1>7. Head(EntriesOf(u)) = i
  <2>1. EntriesOf(u) \subseteq Ids /\ \A y \in EntriesOf(u) : y <= i
    BY <1>1, <1>2, <1>6, EntryIds
  <2> QED
    BY <1>6, <2>1, HeadIsUnique
<1>8. {j \in EntriesOf(u) : j < i} = EntriesOf(t)
  BY <1>2, <1>6, EntryIds
<1> QED
  BY <1>2, <1>3, <1>5, <1>6, <1>7, <1>8

LEMMA PrefixStays ==
  ASSUME NEW t \in Tapes, NEW i \in Ids, NEW e \in Kinds, i > Head(EntriesOf(t)),
         NEW h \in 0..Head(EntriesOf(t))
  PROVE  /\ Prefix(Longer(t, i, e), h) = Prefix(t, h)
         /\ \A m : LiveIn(Longer(t, i, e), Prefix(t, h), m) = LiveIn(t, Prefix(t, h), m)
         /\ \A m : FinalsIn(Longer(t, i, e), Prefix(t, h), m) = FinalsIn(t, Prefix(t, h), m)
<1> DEFINE u == Longer(t, i, e)
<1>1. i > h
  <2>1. Head(EntriesOf(t)) \in 0..MaxEntry
    BY HeadOfEntries DEF EntriesOf
  <2> QED
    BY <2>1, EntryIds
<1>2. Prefix(u, h) = Prefix(t, h)
  <2>1. EntriesOf(u) = EntriesOf(t) \cup {i}
    BY TapeGrows
  <2>2. ~ (i <= h)
    <3>1. Head(EntriesOf(t)) \in 0..MaxEntry
      BY HeadOfEntries DEF EntriesOf
    <3> QED
      BY <1>1, <3>1, EntryIds
  <2> QED
    BY <2>1, <2>2 DEF Prefix
<1>3. \A j \in Prefix(t, h) : u[j] = t[j]
  BY TapeGrows DEF Prefix
<1>4. ASSUME NEW m
      PROVE  LiveIn(u, Prefix(t, h), m) = LiveIn(t, Prefix(t, h), m)
  <2> HIDE DEF u
  <2> QED
    BY <1>3 DEF LiveIn, Versions, Retracted
<1>5. ASSUME NEW m
      PROVE  FinalsIn(u, Prefix(t, h), m) = FinalsIn(t, Prefix(t, h), m)
  <2> HIDE DEF u
  <2>1. \A j \in LiveIn(t, Prefix(t, h), m) : u[j] = t[j]
    BY <1>3 DEF LiveIn, Versions
  <2> QED
    BY <1>4, <2>1 DEF FinalsIn
<1> QED
  BY <1>2, <1>4, <1>5

LEMMA RowSurvivesGrowth ==
  ASSUME NEW t \in Tapes, NEW i \in Ids, NEW e \in Kinds, i > Head(EntriesOf(t)),
         NEW h \in 0..Head(EntriesOf(t)), NEW row, NEW m, RowUpTo(t, row, h, m)
  PROVE  RowUpTo(Longer(t, i, e), row, h, m)
<1> DEFINE u == Longer(t, i, e)
           P == Prefix(t, h)
<1>1. /\ EntriesOf(u) = EntriesOf(t) \cup {i} /\ u[i] = e
      /\ \A j \in EntriesOf(t) : j < i /\ j \in Ids /\ u[j] = t[j]
  BY TapeGrows
<1>2. /\ Prefix(u, h) = P /\ P \subseteq EntriesOf(t)
      /\ LiveIn(u, P, m) = LiveIn(t, P, m)
      /\ FinalsIn(u, P, m) = FinalsIn(t, P, m)
      /\ LiveIn(t, P, m) \subseteq P
  BY PrefixStays DEF Prefix, LiveIn, Versions
<1> HIDE DEF u, P
<1>3. \A j \in EntriesOf(t) :
        /\ IsTool(t, j, m) <=> IsTool(u, j, m)
        /\ IsFinal(t, j, m) <=> IsFinal(u, j, m)
  BY <1>1 DEF IsTool, IsFinal
<1>4. FromTape(u, row, m)
  BY <1>1, <1>3 DEF RowUpTo, FromTape
<1>5. IsLast(u, row, h, m)
  BY <1>2 DEF RowUpTo, IsLast, P
<1>6. IsMissing(u, row, h, m)
  <2> SUFFICES ASSUME row = None PROVE IsMissing(u, row, h, m)
    BY DEF IsMissing
  <2>1. CASE \A f \in FinalsIn(t, P, m) : \E j \in LiveIn(t, P, m) : j > f /\ t[j].kind = "retired"
    BY <1>1, <1>2, <2>1 DEF IsMissing
  <2>2. CASE \E r \in EntriesOf(t) :
               /\ r > h /\ t[r].kind = "retraction" /\ t[r].message = m
               /\ \A j \in EntriesOf(t) : j > h => r <= j
    BY <1>1, <2>2, EntryIds DEF IsMissing
  <2> QED
    BY <2>1, <2>2 DEF RowUpTo, IsMissing, P
<1>7. FlagIsSet(u, row, h, m)
  <2>1. \A k \in P : IsTool(t, k, m) <=> IsTool(u, k, m)
    BY <1>2, <1>3
  <2> QED
    BY <1>2, <2>1 DEF RowUpTo, FlagIsSet, P
<1>8. FlagIsTrue(u, row, h, m)
  BY <1>1, <1>2, <1>3 DEF RowUpTo, FlagIsTrue, P
<1> QED
  BY <1>4, <1>5, <1>6, <1>7, <1>8 DEF RowUpTo, u

-----------------------------------------------------------------------------
(* Applying an entry to the row of one message. *)

IsRetraction(t, i, m) == t[i].kind = "retraction" /\ t[i].message = m

Applied(t, i, row, m) ==
  CASE IsFinal(t, i, m) /\ row = None -> [entry |-> i, tool |-> t[i].blocks]
    [] IsFinal(t, i, m) /\ row # None /\ i > row.entry -> [row EXCEPT !.entry = i]
    [] IsRetraction(t, i, m) -> None
    [] IsTool(t, i, m) /\ row # None -> [row EXCEPT !.tool = TRUE]
    [] OTHER -> row

(* What the row x is worth that comes of it. *)
IsApplied(t, i, row, x, m) ==
  /\ x \in ProjectedRows
  /\ IsFinal(t, i, m) /\ row = None => x # None /\ x.entry = i /\ x.tool = t[i].blocks
  /\ IsFinal(t, i, m) /\ row # None =>
       /\ x # None /\ x.tool = row.tool
       /\ i > row.entry => x.entry = i
       /\ ~ (i > row.entry) => x.entry = row.entry
  /\ IsRetraction(t, i, m) => x = None
  /\ IsTool(t, i, m) /\ row # None => x # None /\ x.entry = row.entry /\ x.tool = TRUE
  /\ IsTool(t, i, m) /\ row = None => x = None
  /\ ~ IsFinal(t, i, m) /\ ~ IsRetraction(t, i, m) /\ ~ IsTool(t, i, m) => x = row

LEMMA AppliedFacts ==
  ASSUME NEW t \in Tapes, NEW i \in EntriesOf(t), NEW row \in ProjectedRows, NEW m
  PROVE  IsApplied(t, i, row, Applied(t, i, row, m), m)
<1> DEFINE x == Applied(t, i, row, m)
<1>1. /\ IsFinal(t, i, m) => ~ IsRetraction(t, i, m) /\ ~ IsTool(t, i, m)
      /\ IsRetraction(t, i, m) => ~ IsTool(t, i, m)
  BY DEF IsFinal, IsRetraction, IsTool
<1>2. i \in Ids /\ (IsFinal(t, i, m) => t[i].blocks \in BOOLEAN)
  BY EntryFacts DEF IsFinal
<1>3. row # None => row \in [entry : Ids, tool : BOOLEAN]
  BY DEF ProjectedRows
<1>4. \A y \in [entry : Ids, tool : BOOLEAN] : y # None /\ y \in ProjectedRows
  BY IngestionConstants DEF ProjectedRows
<1> HIDE DEF x
<1> SUFFICES IsApplied(t, i, row, x, m)
  BY DEF x
<1>5. CASE IsFinal(t, i, m) /\ row = None
  <2>1. x = [entry |-> i, tool |-> t[i].blocks]
    BY <1>1, <1>5 DEF Applied, x
  <2> QED
    BY <1>1, <1>2, <1>4, <1>5, <2>1 DEF IsApplied
<1>6. CASE IsFinal(t, i, m) /\ row # None /\ i > row.entry
  <2>1. x = [row EXCEPT !.entry = i]
    BY <1>1, <1>6 DEF Applied, x
  <2>2. x \in [entry : Ids, tool : BOOLEAN] /\ x.entry = i /\ x.tool = row.tool
    BY <1>2, <1>3, <1>6, <2>1
  <2> QED
    BY <1>1, <1>4, <1>6, <2>2 DEF IsApplied
<1>7. CASE IsFinal(t, i, m) /\ row # None /\ ~ (i > row.entry)
  <2>1. x = row
    BY <1>1, <1>7 DEF Applied, x
  <2> QED
    BY <1>1, <1>7, <2>1 DEF IsApplied
<1>8. CASE IsRetraction(t, i, m)
  <2>1. x = None
    BY <1>1, <1>8 DEF Applied, x
  <2> QED
    BY <1>1, <1>8, <2>1 DEF ProjectedRows, IsApplied
<1>9. CASE IsTool(t, i, m) /\ row # None
  <2>1. x = [row EXCEPT !.tool = TRUE]
    BY <1>1, <1>9 DEF Applied, x
  <2>2. x \in [entry : Ids, tool : BOOLEAN] /\ x.entry = row.entry /\ x.tool = TRUE
    BY <1>3, <1>9, <2>1
  <2> QED
    BY <1>1, <1>4, <1>9, <2>2 DEF IsApplied
<1>10. CASE IsTool(t, i, m) /\ row = None
  <2>1. x = row
    BY <1>1, <1>10 DEF Applied, x
  <2> QED
    BY <1>1, <1>10, <2>1 DEF IsApplied
<1>11. CASE ~ IsFinal(t, i, m) /\ ~ IsRetraction(t, i, m) /\ ~ IsTool(t, i, m)
  <2>1. x = row
    BY <1>11 DEF Applied, x
  <2> QED
    BY <1>11, <2>1 DEF IsApplied
<1> QED
  BY <1>5, <1>6, <1>7, <1>8, <1>9, <1>10, <1>11

(* Whatever the head was, an applied row still comes from the Tape. *)
LEMMA AppliedFromTape ==
  ASSUME NEW t \in Tapes, NEW i \in EntriesOf(t), NEW row \in ProjectedRows, NEW m,
         FromTape(t, row, m)
  PROVE  FromTape(t, Applied(t, i, row, m), m)
<1> DEFINE x == Applied(t, i, row, m)
<1>1. IsApplied(t, i, row, x, m)
  BY AppliedFacts
<1> HIDE DEF x
<1> SUFFICES FromTape(t, x, m)
  BY DEF x
<1>2. CASE IsFinal(t, i, m) /\ row = None
  BY <1>1, <1>2 DEF FromTape, IsApplied
<1>3. CASE IsFinal(t, i, m) /\ row # None
  BY <1>1, <1>3 DEF FromTape, IsApplied
<1>4. CASE IsRetraction(t, i, m) \/ (IsTool(t, i, m) /\ row = None)
  BY <1>1, <1>4 DEF FromTape, IsApplied
<1>5. CASE IsTool(t, i, m) /\ row # None
  BY <1>1, <1>5 DEF FromTape, IsApplied
<1>6. CASE ~ IsFinal(t, i, m) /\ ~ IsRetraction(t, i, m) /\ ~ IsTool(t, i, m)
  BY <1>1, <1>6 DEF IsApplied
<1> QED
  BY <1>2, <1>3, <1>4, <1>5, <1>6

(* The entry n is the next after h. *)
Follows(t, n, h) ==
  /\ n \in EntriesOf(t) /\ h < n
  /\ \A j \in EntriesOf(t) : j > h => n <= j

(* A row that was applied without its head is still one up to the old head: *)
(* applying the entry again will do.                                         *)
LEMMA AppliedAhead ==
  ASSUME NEW t \in Tapes, NEW n, NEW h \in Nat, Follows(t, n, h),
         NEW row \in ProjectedRows, NEW m, RowUpTo(t, row, h, m)
  PROVE  RowUpTo(t, Applied(t, n, row, m), h, m)
<1> DEFINE x == Applied(t, n, row, m)
           finals == FinalsIn(t, Prefix(t, h), m)
           live == LiveIn(t, Prefix(t, h), m)
<1>1. /\ n \in EntriesOf(t) /\ n \in Nat /\ h < n
      /\ \A j \in EntriesOf(t) : j \in Nat /\ (j > h => n <= j)
  BY EntryFacts, EntryIds DEF Follows
<1>2. IsApplied(t, n, row, x, m)
  BY <1>1, AppliedFacts
<1>3. FromTape(t, x, m)
  BY <1>1, AppliedFromTape DEF RowUpTo
<1>4. FromTape(t, row, m) /\ IsLast(t, row, h, m) /\ IsMissing(t, row, h, m)
      /\ FlagIsSet(t, row, h, m) /\ FlagIsTrue(t, row, h, m)
  BY DEF RowUpTo
<1>5. IsFinal(t, n, m) => ~ IsRetraction(t, n, m)
  BY DEF IsFinal, IsRetraction
<1> HIDE DEF x, finals, live
<1>6. IsLast(t, x, h, m)
  <2> SUFFICES ASSUME x # None
               PROVE  \/ x.entry > h
                      \/ x.entry \in finals /\ \A j \in finals : j <= x.entry
    BY DEF IsLast, finals
  <2>1. row # None =>
          \/ row.entry > h
          \/ row.entry \in finals /\ \A j \in finals : j <= row.entry
    BY <1>4 DEF IsLast, finals
  <2>2. CASE IsFinal(t, n, m)
    BY <1>1, <1>2, <2>1, <2>2 DEF IsApplied
  <2>3. CASE ~ IsFinal(t, n, m)
    <3>1. row # None /\ x.entry = row.entry
      BY <1>2, <2>3 DEF IsApplied
    <3> QED
      BY <2>1, <3>1
  <2> QED
    BY <2>2, <2>3
<1>7. IsMissing(t, x, h, m)
  <2> SUFFICES ASSUME x = None PROVE IsMissing(t, x, h, m)
    BY DEF IsMissing
  <2>1. CASE IsRetraction(t, n, m)
    BY <1>1, <2>1 DEF IsMissing, IsRetraction
  <2>2. CASE ~ IsRetraction(t, n, m)
    <3>1. row = None
      BY <1>2, <2>2 DEF IsApplied
    <3> QED
      BY <1>4, <3>1 DEF IsMissing
  <2> QED
    BY <2>1, <2>2
<1>8. FlagIsSet(t, x, h, m)
  <2> SUFFICES ASSUME x # None, NEW k \in Prefix(t, h), k > x.entry, IsTool(t, k, m)
               PROVE  x.tool
    BY DEF FlagIsSet
  <2>1. k \in Nat /\ k <= h
    BY <1>1 DEF Prefix
(* The version applied ahead is after every entry up to h. *)
  <2>2. x.entry # n
    BY <1>1, <2>1
  <2>3. row # None
    BY <1>2, <2>2 DEF IsApplied
  <2>4. x.entry = row.entry /\ (x.tool = row.tool \/ x.tool = TRUE)
    BY <1>2, <1>5, <2>2, <2>3 DEF IsApplied
  <2>5. row.tool
    BY <1>4, <2>3, <2>4 DEF FlagIsSet
  <2> QED
    BY <2>4, <2>5
<1>9. FlagIsTrue(t, x, h, m)
  <2> SUFFICES ASSUME x # None, x.tool
               PROVE  FlagIsTrue(t, x, h, m)
    BY DEF FlagIsTrue
  <2>1. CASE IsTool(t, n, m)
    BY <1>1, <2>1 DEF FlagIsTrue
  <2>2. CASE row # None /\ row.tool
    BY <1>4, <2>2 DEF FlagIsTrue
  <2>3. CASE IsFinal(t, n, m) /\ row = None
    BY <1>1, <1>2, <2>3 DEF FlagIsTrue, IsApplied
  <2> QED
    BY <1>2, <2>1, <2>2, <2>3 DEF IsApplied
<1> QED
  BY <1>3, <1>6, <1>7, <1>8, <1>9 DEF RowUpTo, x

(* Up to the next entry there is that entry more, and the versions that      *)
(* count stay unless it is a retraction.                                     *)
LEMMA PrefixAdvances ==
  ASSUME NEW t \in Tapes, NEW n, NEW h \in Nat, Follows(t, n, h)
  PROVE  /\ Prefix(t, n) = Prefix(t, h) \cup {n}
         /\ n \notin Prefix(t, h)
         /\ \A j \in Prefix(t, h) : j \in Nat /\ j <= h /\ j < n
<1>1. n \in EntriesOf(t) /\ n \in Nat /\ h < n /\ \A j \in EntriesOf(t) : j > h => n <= j
  BY EntryFacts, EntryIds DEF Follows
<1>2. \A j \in EntriesOf(t) : j \in Nat /\ (j <= n <=> j <= h \/ j = n)
  <2> SUFFICES ASSUME NEW j \in EntriesOf(t)
               PROVE  j \in Nat /\ (j <= n <=> j <= h \/ j = n)
    OBVIOUS
  <2>1. j \in Nat
    BY EntryFacts, EntryIds
  <2>2. j > h => n <= j
    BY <1>1
  <2> QED
    BY <1>1, <2>1, <2>2
<1>3. Prefix(t, n) = Prefix(t, h) \cup {n}
  BY <1>1, <1>2 DEF Prefix
<1>4. ASSUME NEW j \in Prefix(t, h)
      PROVE  j \in Nat /\ j <= h /\ j < n
  <2>1. j \in EntriesOf(t) /\ j <= h
    BY DEF Prefix
  <2> QED
    BY <1>1, <1>2, <2>1
<1>5. n \notin Prefix(t, h)
  BY <1>1, <1>4
<1> QED
  BY <1>3, <1>4, <1>5

LEMMA LiveAdvances ==
  ASSUME NEW t \in Tapes, NEW n, NEW h \in Nat, Follows(t, n, h),
         t[n].kind # "retraction", NEW m
  PROVE  /\ \A j : j \in LiveIn(t, Prefix(t, n), m) <=>
              \/ j \in LiveIn(t, Prefix(t, h), m)
              \/ j = n /\ t[n].kind \in {"final", "retired"} /\ t[n].message = m
         /\ \A j : j \in FinalsIn(t, Prefix(t, n), m) <=>
              \/ j \in FinalsIn(t, Prefix(t, h), m)
              \/ j = n /\ IsFinal(t, n, m)
<1> DEFINE P == Prefix(t, h)
           Q == Prefix(t, n)
<1>1. Q = P \cup {n} /\ n \notin P /\ n \in Nat /\ \A j \in P : j \in Nat /\ j < n
  BY PrefixAdvances, EntryFacts, EntryIds DEF Follows
<1> HIDE DEF P, Q
<1>2. \A j \in Q : Retracted(t, Q, m, j) <=> j # n /\ Retracted(t, P, m, j)
  <2>1. \A j \in P : Retracted(t, Q, m, j) <=> Retracted(t, P, m, j)
    BY <1>1 DEF Retracted
  <2>2. ~ Retracted(t, Q, m, n)
    BY <1>1 DEF Retracted
  <2> QED
    BY <1>1, <2>1, <2>2
<1>3. \A j : j \in Versions(t, Q, m) <=>
        \/ j \in Versions(t, P, m)
        \/ j = n /\ t[n].kind \in {"final", "retired"} /\ t[n].message = m
  BY <1>1 DEF Versions
<1>4. Versions(t, P, m) \subseteq P /\ Versions(t, Q, m) \subseteq Q
  BY DEF Versions
<1>5. \A j : j \in LiveIn(t, Q, m) <=>
        \/ j \in LiveIn(t, P, m)
        \/ j = n /\ t[n].kind \in {"final", "retired"} /\ t[n].message = m
  BY <1>1, <1>2, <1>3, <1>4 DEF LiveIn
<1>6. \A j : j \in FinalsIn(t, Q, m) <=>
        \/ j \in FinalsIn(t, P, m)
        \/ j = n /\ IsFinal(t, n, m)
  BY <1>5 DEF FinalsIn, IsFinal
<1> QED
  BY <1>5, <1>6 DEF P, Q

(* A row up to h with the next entry applied is one up to that entry. *)
LEMMA AppliedAdvances ==
  ASSUME NEW t \in Tapes, NEW n, NEW h \in Nat, Follows(t, n, h),
         t[n].kind # "retraction",
         NEW row \in ProjectedRows, NEW m, RowUpTo(t, row, h, m)
  PROVE  RowUpTo(t, Applied(t, n, row, m), n, m)
<1> DEFINE x == Applied(t, n, row, m)
           finals == FinalsIn(t, Prefix(t, h), m)
           live == LiveIn(t, Prefix(t, h), m)
           finals2 == FinalsIn(t, Prefix(t, n), m)
           live2 == LiveIn(t, Prefix(t, n), m)
<1>1. /\ n \in EntriesOf(t) /\ n \in Nat /\ h < n
      /\ \A j \in EntriesOf(t) : j \in Nat /\ (j > h => n <= j)
  BY EntryFacts, EntryIds DEF Follows
<1>2. IsApplied(t, n, row, x, m)
  BY <1>1, AppliedFacts
<1>3. FromTape(t, x, m)
  BY <1>1, AppliedFromTape DEF RowUpTo
<1>4. FromTape(t, row, m) /\ IsLast(t, row, h, m) /\ IsMissing(t, row, h, m)
      /\ FlagIsSet(t, row, h, m) /\ FlagIsTrue(t, row, h, m)
  BY DEF RowUpTo
<1>5. /\ finals \subseteq live /\ live \subseteq Prefix(t, h)
      /\ finals2 \subseteq live2 /\ live2 \subseteq EntriesOf(t)
      /\ \A j \in finals : t[j].kind = "final"
      /\ \A j \in Prefix(t, h) : j \in Nat /\ j <= h /\ j < n
  BY PrefixAdvances DEF FinalsIn, LiveIn, Versions, Prefix
<1>6. /\ \A j : j \in live2 <=>
           \/ j \in live
           \/ j = n /\ t[n].kind \in {"final", "retired"} /\ t[n].message = m
      /\ \A j : j \in finals2 <=> j \in finals \/ (j = n /\ IsFinal(t, n, m))
  BY LiveAdvances
<1>7. /\ IsFinal(t, n, m) => ~ IsRetraction(t, n, m) /\ ~ IsTool(t, n, m)
      /\ ~ IsRetraction(t, n, m)
  BY DEF IsFinal, IsRetraction, IsTool
<1> HIDE DEF x, finals, live, finals2, live2
<1>8. row = None =>
        \A i \in finals : \E j \in live : j > i /\ t[j].kind = "retired"
  <2> SUFFICES ASSUME row = None, NEW r \in EntriesOf(t), r > h,
                      t[r].kind = "retraction",
                      \A j \in EntriesOf(t) : j > h => r <= j
               PROVE  FALSE
    BY <1>4 DEF IsMissing, finals, live
  <2>1. n <= r /\ r \in Nat
    BY <1>1
  <2>2. r <= n
    BY <1>1
  <2>3. r = n
    BY <1>1, <2>1, <2>2
  <2> QED
    BY <2>3
<1>9. row # None => row.entry \in EntriesOf(t) /\ IsFinal(t, row.entry, m) /\ row.entry \in Nat
  BY <1>1, <1>4 DEF FromTape
<1>10. row # None => row.entry > h \/ (row.entry \in finals /\ \A j \in finals : j <= row.entry)
  BY <1>4 DEF IsLast, finals
<1>11. IsLast(t, x, n, m)
  <2> SUFFICES ASSUME x # None
               PROVE  \/ x.entry > n
                      \/ x.entry \in finals2 /\ \A j \in finals2 : j <= x.entry
    BY DEF IsLast, finals2
  <2>1. CASE IsFinal(t, n, m)
    <3>1. n \in finals2 /\ \A j \in finals2 : j <= n
      BY <1>1, <1>5, <1>6, <2>1
    <3>2. x.entry = n \/ x.entry > n
      <4>1. CASE row = None
        BY <1>2, <2>1, <4>1 DEF IsApplied
      <4>2. CASE row # None
        BY <1>1, <1>2, <1>9, <2>1, <4>2 DEF IsApplied
      <4> QED
        BY <4>1, <4>2
    <3> QED
      BY <3>1, <3>2
  <2>2. CASE ~ IsFinal(t, n, m)
    <3>1. row # None /\ x.entry = row.entry
      BY <1>2, <1>7, <2>2 DEF IsApplied
    <3>2. row.entry > h => row.entry > n
      BY <1>1, <1>9, <2>2, <3>1
    <3> QED
      BY <1>6, <1>10, <2>2, <3>1, <3>2
  <2> QED
    BY <2>1, <2>2
<1>12. IsMissing(t, x, n, m)
  <2> SUFFICES ASSUME x = None, NEW i \in finals2
               PROVE  \E j \in live2 : j > i /\ t[j].kind = "retired"
    BY DEF IsMissing, finals2, live2
  <2>1. row = None /\ ~ IsFinal(t, n, m)
    BY <1>2, <1>7 DEF IsApplied
  <2>2. i \in finals
    BY <1>6, <2>1
  <2> QED
    BY <1>6, <1>8, <2>1, <2>2
<1>13. FlagIsSet(t, x, n, m)
  <2> SUFFICES ASSUME x # None, NEW k \in Prefix(t, n), k > x.entry, IsTool(t, k, m)
               PROVE  x.tool
    BY DEF FlagIsSet
  <2>1. CASE IsTool(t, n, m)
    <3>1. row # None
      BY <1>2, <2>1 DEF IsApplied
    <3> QED
      BY <1>2, <2>1, <3>1 DEF IsApplied
  <2>2. CASE ~ IsTool(t, n, m)
    <3>1. k \in Prefix(t, h)
      BY <2>2, PrefixAdvances
    <3>2. k \in Nat /\ k < n
      BY <1>5, <3>1
    <3>3. ~ IsFinal(t, n, m)
      <4> SUFFICES ASSUME IsFinal(t, n, m) PROVE FALSE
        OBVIOUS
      <4>1. x.entry = n \/ (row # None /\ x.entry = row.entry /\ ~ (n > row.entry))
        BY <1>2 DEF IsApplied
      <4> QED
        BY <1>1, <1>9, <3>2, <4>1
    <3>4. x = row
      BY <1>2, <1>7, <2>2, <3>3 DEF IsApplied
    <3> QED
      BY <1>4, <3>1, <3>4 DEF FlagIsSet
  <2> QED
    BY <2>1, <2>2
<1>14. FlagIsTrue(t, x, n, m)
  <2> SUFFICES ASSUME x # None, x.tool
               PROVE  \/ \E k \in EntriesOf(t) : IsTool(t, k, m)
                      \/ \E i \in EntriesOf(t) :
                           IsFinal(t, i, m) /\ t[i].blocks /\ (i > n \/ i \in finals2)
    BY DEF FlagIsTrue, finals2
  <2>1. CASE IsTool(t, n, m)
    BY <1>1, <2>1
  <2>2. CASE row # None /\ row.tool
    <3>1. ASSUME NEW i \in EntriesOf(t), IsFinal(t, i, m), i > h
          PROVE  i > n \/ i \in finals2
      <4>1. i \in Nat /\ n <= i
        BY <1>1, <3>1
      <4>2. i > n \/ i = n
        BY <1>1, <4>1
      <4>3. i = n => i \in finals2
        BY <1>6, <3>1
      <4> QED
        BY <4>2, <4>3
    <3>2. \/ \E k \in EntriesOf(t) : IsTool(t, k, m)
          \/ \E i \in EntriesOf(t) :
               IsFinal(t, i, m) /\ t[i].blocks /\ (i > h \/ i \in finals)
      BY <1>4, <2>2 DEF FlagIsTrue, finals
    <3> QED
      BY <1>6, <3>1, <3>2
  <2>3. CASE IsFinal(t, n, m) /\ row = None
    BY <1>1, <1>2, <1>6, <2>3 DEF IsApplied
  <2> QED
    BY <1>2, <1>7, <2>1, <2>2, <2>3 DEF IsApplied
<1> QED
  BY <1>3, <1>11, <1>12, <1>13, <1>14 DEF RowUpTo, x

-----------------------------------------------------------------------------
(* Rebuilding from a reading of the Tape up to some entry. *)

LEMMA RebuiltRow ==
  ASSUME tape \in Tapes, NEW h \in Nat, NEW m \in Messages
  PROVE  /\ EffectiveRow(Prefix(tape, h), m) \in ProjectedRows
         /\ RowUpTo(tape, EffectiveRow(Prefix(tape, h), m), h, m)
<1> DEFINE S == Prefix(tape, h)
           versions == Versions(tape, S, m)
           i == Head(versions)
           row == EffectiveRow(S, m)
           finals == FinalsIn(tape, S, m)
           live == LiveIn(tape, S, m)
<1>1. S \subseteq EntriesOf(tape) /\ S \subseteq Ids /\ versions \subseteq S /\ versions \subseteq Ids
  BY DEF Prefix, EntriesOf, Versions
<1>2. \A j \in S : j \in Nat /\ j > 0
  BY <1>1, EntryIds
<1>3. /\ i \in Nat
      /\ versions = {} => i = 0
      /\ versions # {} => i \in versions
      /\ \A j \in versions : j <= i
  <2>1. /\ i \in 0..MaxEntry
        /\ versions = {} => i = 0
        /\ versions # {} => i \in versions
        /\ \A j \in versions : j <= i
    BY <1>1, HeadOfEntries
  <2> QED
    BY <2>1, EntryIds
<1>4. \A j \in versions : tape[j].kind \in {"final", "retired"} /\ tape[j].message = m
  BY DEF Versions
<1>5. /\ \A j : j \in live <=> j \in versions /\ ~ Retracted(tape, S, m, j)
      /\ \A j : j \in finals <=> j \in live /\ tape[j].kind = "final"
  BY DEF LiveIn, FinalsIn
<1>6. UsedTool(S, m) \in BOOLEAN
  BY DEF UsedTool
<1>7. \/ /\ i # 0 /\ tape[i].kind = "final" /\ ~ Retracted(tape, S, m, i)
         /\ row = [entry |-> i, tool |-> UsedTool(S, m)]
      \/ /\ ~ (i # 0 /\ tape[i].kind = "final" /\ ~ Retracted(tape, S, m, i))
         /\ row = None
  BY DEF EffectiveRow
<1> HIDE DEF S, versions, i, row, finals, live
<1>8. CASE /\ i # 0 /\ tape[i].kind = "final" /\ ~ Retracted(tape, S, m, i)
           /\ row = [entry |-> i, tool |-> UsedTool(S, m)]
  <2>1. i \in versions /\ i \in finals /\ i \in Ids /\ i \in EntriesOf(tape)
    BY <1>1, <1>3, <1>5, <1>8
  <2>2. row \in ProjectedRows /\ row # None /\ row.entry = i /\ row.tool = UsedTool(S, m)
    BY <1>6, <1>8, <2>1, IngestionConstants DEF ProjectedRows
  <2>3. UsedTool(S, m) => \E k \in EntriesOf(tape) : IsTool(tape, k, m)
    BY <1>1 DEF UsedTool, IsTool
  <2>4. FromTape(tape, row, m)
    BY <1>4, <1>8, <2>1, <2>2, <2>3 DEF FromTape, IsFinal
  <2>5. IsLast(tape, row, h, m)
    BY <1>3, <1>5, <2>1, <2>2 DEF IsLast, finals, S
  <2>6. IsMissing(tape, row, h, m)
    BY <2>2 DEF IsMissing
  <2>7. FlagIsSet(tape, row, h, m)
    BY <2>2 DEF FlagIsSet, UsedTool, IsTool, S
  <2>8. FlagIsTrue(tape, row, h, m)
    BY <2>2, <2>3 DEF FlagIsTrue
  <2> QED
    BY <2>2, <2>4, <2>5, <2>6, <2>7, <2>8 DEF RowUpTo, row, S
<1>9. CASE /\ ~ (i # 0 /\ tape[i].kind = "final" /\ ~ Retracted(tape, S, m, i))
           /\ row = None
  <2>1. ASSUME NEW f \in finals
        PROVE  \E j \in live : j > f /\ tape[j].kind = "retired"
    <3>1. /\ f \in versions /\ ~ Retracted(tape, S, m, f) /\ tape[f].kind = "final"
          /\ i \in versions /\ f <= i /\ f \in Nat /\ i # 0
      BY <1>1, <1>2, <1>3, <1>5
    <3>2. ~ Retracted(tape, S, m, i)
      BY <1>1, <1>2, <1>3, <3>1 DEF Retracted
    <3>3. tape[i].kind = "retired"
      BY <1>4, <1>9, <3>1, <3>2
    <3> QED
      BY <1>3, <1>5, <3>1, <3>2, <3>3
  <2>2. IsMissing(tape, row, h, m)
    BY <2>1 DEF IsMissing, finals, live, S
  <2>3. /\ FromTape(tape, row, m) /\ IsLast(tape, row, h, m)
        /\ FlagIsSet(tape, row, h, m) /\ FlagIsTrue(tape, row, h, m)
    BY <1>9 DEF FromTape, IsLast, FlagIsSet, FlagIsTrue
  <2> QED
    BY <1>9, <2>2, <2>3 DEF RowUpTo, row, S, ProjectedRows
<1> QED
  BY <1>7, <1>8, <1>9

-----------------------------------------------------------------------------
(* The invariant. *)

LEMMA TapeFacts ==
  ASSUME TypeOK
  PROVE  /\ tape \in Tapes /\ ids = EntriesOf(tape) /\ ids \subseteq Ids
         /\ Head(ids) \in 0..MaxEntry /\ Head(ids) \in Nat
         /\ \A i \in ids : i <= Head(ids)
         /\ ids # {} => Head(ids) \in ids
         /\ ids = {} => Head(ids) = 0
<1>1. tape \in Tapes /\ ids = EntriesOf(tape) /\ ids \subseteq Ids
  BY DEF TypeOK, Tapes, ids, EntriesOf
<1> QED
  BY <1>1, HeadOfEntries, EntryIds

LEMMA LevelFacts ==
  ASSUME TypeOK
  PROVE  /\ Level \in 0..Head(ids) /\ Level \in Nat
         /\ \A previous \in 0..MaxEntry : Contiguous(previous) => Level = previous
         /\ Current => Level = Head(ids)
<1>1. Head(ids) \in 0..MaxEntry /\ Head(ids) \in Nat
  BY TapeFacts
<1>2. meta \in {NoMeta, Old} \cup 0..Head(ids)
  BY DEF TypeOK
<1>3. NoMeta \notin 0..MaxEntry /\ Old \notin 0..MaxEntry
  BY IngestionConstants
<1>4. MaxEntry \in Nat /\ \A i : i \in Ids <=> i \in 1..MaxEntry
  BY EntryIds DEF Ids
<1>5. \A i \in 0..Head(ids) : i \in Nat /\ i \in 0..MaxEntry
  BY <1>1, <1>4
<1>6. CASE meta \in 0..Head(ids)
  <2>1. Level = meta
    BY <1>4, <1>5, <1>6 DEF Level
  <2>2. meta # NoMeta
    BY <1>3, <1>5, <1>6
  <2> QED
    BY <1>5, <1>6, <2>1, <2>2 DEF Contiguous, Current
<1>7. CASE meta \in {NoMeta, Old}
  <2>1. meta \notin 0..MaxEntry
    BY <1>3, <1>7
  <2>2. meta \notin Ids
    BY <1>4, <2>1
  <2>3. Level = 0
    BY <2>2 DEF Level
  <2> QED
    BY <1>1, <2>1, <2>3 DEF Contiguous, Current
<1> QED
  BY <1>2, <1>6, <1>7

(* AppliedRows applies the entry to every message's row. *)
LEMMA AppliedRowsFacts ==
  ASSUME NEW t \in Tapes, NEW i \in EntriesOf(t), rows \in [Messages -> ProjectedRows]
  PROVE  AppliedRows(t[i], i) = [m \in Messages |-> Applied(t, i, rows[m], m)]
<1> DEFINE e == t[i]
<1>1. /\ e.kind \in {"final", "retired", "retraction", "tool", "other"}
      /\ e.kind # "other" => e.message \in Messages
  BY EntryFacts
<1>2. \A m : /\ IsFinal(t, i, m) <=> e.kind = "final" /\ e.message = m
             /\ IsRetraction(t, i, m) <=> e.kind = "retraction" /\ e.message = m
             /\ IsTool(t, i, m) <=> e.kind = "tool" /\ e.message = m
  BY DEF IsFinal, IsRetraction, IsTool
<1>3. \A m : e.kind = "final" /\ e.message = m => Applied(t, i, rows[m], m) = Upserted(e, i)
  BY <1>2 DEF Applied, Upserted, IsFinal, IsRetraction, IsTool
<1> HIDE DEF e
<1> SUFFICES AppliedRows(e, i) = [m \in Messages |-> Applied(t, i, rows[m], m)]
  BY DEF e
<1>4. CASE e.kind = "final"
  <2>1. AppliedRows(e, i) = [rows EXCEPT ![e.message] = Upserted(e, i)]
    BY <1>4 DEF AppliedRows
  <2>2. \A m \in Messages : m # e.message => Applied(t, i, rows[m], m) = rows[m]
    BY <1>2, <1>4 DEF Applied
  <2> QED
    BY <1>1, <1>3, <1>4, <2>1, <2>2
<1>5. CASE e.kind = "retraction"
  <2>1. AppliedRows(e, i) = [rows EXCEPT ![e.message] = None]
    BY <1>5 DEF AppliedRows
  <2>2. \A m \in Messages :
          Applied(t, i, rows[m], m) = IF m = e.message THEN None ELSE rows[m]
    BY <1>2, <1>5 DEF Applied
  <2> QED
    BY <1>1, <1>5, <2>1, <2>2
<1>6. CASE e.kind = "tool" /\ rows[e.message] # None
  <2>1. AppliedRows(e, i) = [rows EXCEPT ![e.message].tool = TRUE]
    BY <1>6 DEF AppliedRows
  <2>2. \A m \in Messages :
          Applied(t, i, rows[m], m)
            = IF m = e.message THEN [rows[m] EXCEPT !.tool = TRUE] ELSE rows[m]
    BY <1>2, <1>6 DEF Applied
  <2> QED
    BY <1>1, <1>6, <2>1, <2>2
<1>7. CASE e.kind \in {"retired", "other"} \/ (e.kind = "tool" /\ rows[e.message] = None)
  <2>1. AppliedRows(e, i) = rows
    BY <1>7 DEF AppliedRows
  <2>2. \A m \in Messages : Applied(t, i, rows[m], m) = rows[m]
    BY <1>2, <1>7 DEF Applied
  <2> QED
    BY <2>1, <2>2
<1> QED
  BY <1>1, <1>4, <1>5, <1>6, <1>7

(* Applying an entry, in whole or in part, to rows that keep up with the     *)
(* Tape without it.                                                          *)
LEMMA ApplyKeepsRows ==
  ASSUME NEW t \in Tapes, NEW i \in EntriesOf(t), NEW previous \in 0..MaxEntry,
         previous = Head({j \in EntriesOf(t) : j < i}),
         rows \in [Messages -> ProjectedRows],
         Contiguous(previous) => Level = previous,
         \A m \in Messages : RowUpTo(t, rows[m], Level, m),
         \/ Apply(t[i], i, previous)
         \/ ApplyFails(t[i], i, previous)
         \/ Contiguous(previous) /\ rows' = AppliedRows(t[i], i) /\ UNCHANGED meta
  PROVE  /\ rows' \in [Messages -> ProjectedRows]
         /\ \A m \in Messages : RowUpTo(t, rows'[m], Level', m)
         /\ meta' \in {NoMeta, i, meta}
<1> DEFINE applied == AppliedRows(t[i], i)
<1>1. applied = [m \in Messages |-> Applied(t, i, rows[m], m)]
  BY AppliedRowsFacts
<1>2. applied \in [Messages -> ProjectedRows]
  <2>1. \A m \in Messages : Applied(t, i, rows[m], m) \in ProjectedRows
    BY AppliedFacts DEF IsApplied
  <2> QED
    BY <1>1, <2>1
<1>3. \A m \in Messages : FromTape(t, rows[m], m) /\ FromTape(t, applied[m], m)
  <2>1. \A m \in Messages : rows[m] \in ProjectedRows /\ FromTape(t, rows[m], m)
    BY DEF RowUpTo
  <2> QED
    BY <1>1, <2>1, AppliedFromTape
<1>4. Contiguous(previous) => Follows(t, i, previous)
  <2>1. {j \in EntriesOf(t) : j < i} \subseteq Ids
    BY DEF EntriesOf
  <2>2. \A j \in EntriesOf(t) : j \in Nat /\ j > 0
    BY EntryFacts, EntryIds
  <2>3. previous < i
    BY <2>1, <2>2, HeadOfEntries
  <2>4. \A j \in EntriesOf(t) : j < i => j <= previous
    BY <2>1, HeadOfEntries
  <2>5. previous \in Nat
    BY EntryIds
  <2> QED
    BY <2>2, <2>3, <2>4, <2>5 DEF Follows
<1>5. previous \in Nat
  BY EntryIds
<1>6. meta' = NoMeta => Level' = 0
  BY IngestionConstants DEF Level, Ids
<1>7. meta' = i => Level' = i
  BY DEF Level, EntriesOf
<1>8. Contiguous(previous) => \A m \in Messages : RowUpTo(t, applied[m], Level, m)
  BY <1>1, <1>4, <1>5, AppliedAhead
<1>9. Contiguous(previous) /\ t[i].kind # "retraction" =>
        \A m \in Messages : RowUpTo(t, applied[m], i, m)
  BY <1>1, <1>4, <1>5, AppliedAdvances
<1> HIDE DEF applied
<1>10. \A r \in {rows, applied} : \A m \in Messages : RowUpTo(t, r[m], 0, m)
  BY <1>3, NothingAtZero
<1>11. CASE meta' = NoMeta /\ rows' \in {rows, applied}
  BY <1>2, <1>6, <1>10, <1>11
<1>12. CASE /\ Contiguous(previous) /\ t[i].kind # "retraction"
            /\ rows' = applied /\ meta' = i
  BY <1>2, <1>7, <1>9, <1>12
<1>13. CASE Contiguous(previous) /\ rows' = applied /\ UNCHANGED meta
  <2>1. Level' = Level
    BY <1>13 DEF Level
  <2> QED
    BY <1>2, <1>8, <1>13, <2>1
<1> QED
  BY <1>11, <1>12, <1>13 DEF Apply, ApplyFails, AppliedHead, applied

LEMMA InitInv == ASSUME Init PROVE IInv
<1>1. tape \in Tapes /\ EntriesOf(tape) = {} /\ ids = {}
  BY DEF Init, Tapes, EntriesOf, ids
<1>2. rows = NoRows /\ snapshot = None /\ projected = FALSE /\ meta \in {NoMeta, Old}
  BY DEF Init
<1>3. rows \in [Messages -> ProjectedRows] /\ \A m \in Messages : rows[m] = None
  BY <1>2 DEF NoRows, ProjectedRows
<1>4. TypeOK
  BY <1>1, <1>2, <1>3 DEF TypeOK, Tapes
<1>5. meta \notin Ids
  BY <1>2, IngestionConstants DEF Ids
<1>6. Level = 0
  BY <1>5 DEF Level
<1>7. RowsKeepUp
  BY <1>1, <1>3, <1>6, NothingAtZero DEF RowsKeepUp, FromTape
<1> QED
  BY <1>2, <1>4, <1>7 DEF IInv, SnapshotIsPrefix

(* Rows that keep up come from entries that are there. *)
LEMMA RowsHaveEntries ==
  ASSUME NEW t, NEW r, NEW h, \A m \in Messages : RowUpTo(t, r[m], h, m)
  PROVE  \A m \in Messages : r[m] # None => r[m].entry \in EntriesOf(t)
BY DEF RowUpTo, FromTape

(* The Tape with an entry more, and everything else as it was. *)
LEMMA GrowthKeepsInv ==
  ASSUME IInv, NEW i \in Ids, NEW e \in Kinds, i > Head(ids),
         tape' = [tape EXCEPT ![i] = e], UNCHANGED snapshot
  PROVE  /\ tape' \in Tapes /\ EntriesOf(tape') = ids \cup {i} /\ tape'[i] = e
         /\ Head(ids') = i /\ ids' = ids \cup {i} /\ i \notin ids
         /\ {j \in EntriesOf(tape') : j < i} = ids
         /\ \A j \in ids : tape'[j] = tape[j]
         /\ \A m \in Messages : RowUpTo(tape', rows[m], Level, m)
         /\ snapshot' \in {None} \cup SUBSET ids'
         /\ SnapshotIsPrefix'
<1>1. /\ tape \in Tapes /\ ids = EntriesOf(tape) /\ ids \subseteq Ids
      /\ Head(ids) \in Nat /\ Level \in 0..Head(ids)
  BY TapeFacts, LevelFacts DEF IInv
<1>2. tape' = Longer(tape, i, e)
  BY DEF Longer
<1>3. /\ tape' \in Tapes /\ EntriesOf(tape') = ids \cup {i} /\ tape'[i] = e
      /\ Head(EntriesOf(tape')) = i
      /\ {j \in EntriesOf(tape') : j < i} = ids
      /\ \A j \in ids : tape'[j] = tape[j] /\ j < i
  <2> DEFINE t == Longer(tape, i, e)
  <2>1. /\ t \in Tapes /\ EntriesOf(t) = EntriesOf(tape) \cup {i} /\ t[i] = e
        /\ Head(EntriesOf(t)) = i
        /\ {j \in EntriesOf(t) : j < i} = EntriesOf(tape)
        /\ \A j \in EntriesOf(tape) : t[j] = tape[j] /\ j < i
    BY <1>1, TapeGrows
  <2> HIDE DEF t
  <2>2. tape' = t
    BY <1>2 DEF t
  <2> QED
    BY <1>1, <2>1, <2>2
<1>4. ids' = EntriesOf(tape')
  BY DEF ids
<1>5. i \notin ids
  BY <1>3, EntryIds
<1>6. \A m \in Messages : RowUpTo(tape', rows[m], Level, m)
  <2>1. \A m \in Messages : RowUpTo(tape, rows[m], Level, m)
    BY DEF IInv, RowsKeepUp
  <2>2. \A m \in Messages : RowUpTo(Longer(tape, i, e), rows[m], Level, m)
    BY <1>1, <2>1, RowSurvivesGrowth
  <2> QED
    BY <1>2, <2>2
<1>7. snapshot \in {None} \cup SUBSET ids
  BY DEF IInv, TypeOK
<1>8. SnapshotIsPrefix'
  <2> SUFFICES ASSUME snapshot # None PROVE snapshot = Prefix(tape', Head(snapshot))
    BY DEF SnapshotIsPrefix
  <2>1. snapshot \subseteq ids /\ snapshot \subseteq Ids
    BY <1>1, <1>7
  <2>2. Head(snapshot) \in 0..Head(ids)
    <3>1. Head(snapshot) \in 0..MaxEntry /\ (snapshot = {} => Head(snapshot) = 0)
          /\ (snapshot # {} => Head(snapshot) \in snapshot)
      BY <2>1, HeadOfEntries
    <3>2. \A j \in ids : j <= Head(ids)
      BY <1>1, HeadOfEntries
    <3> QED
      BY <1>1, <2>1, <3>1, <3>2, EntryIds
  <2>3. Prefix(tape', Head(snapshot)) = Prefix(tape, Head(snapshot))
    <3>1. Prefix(Longer(tape, i, e), Head(snapshot)) = Prefix(tape, Head(snapshot))
      BY <1>1, <2>2, PrefixStays
    <3> QED
      BY <1>2, <3>1
  <2> QED
    BY <2>3 DEF IInv, SnapshotIsPrefix
<1> QED
  BY <1>3, <1>4, <1>5, <1>6, <1>7, <1>8

LEMMA AppendInv ==
  ASSUME IInv, NEW i \in Ids, NEW e \in Kinds, Append(i, e)
  PROVE  IInv'
<1>1. /\ i > Head(ids) /\ tape' = [tape EXCEPT ![i] = e] /\ UNCHANGED snapshot
      /\ projected' = (Contiguous(Head(ids)) /\ e.kind # "retraction") \/ projected' = FALSE
      /\ Apply(e, i, Head(ids)) \/ ApplyFails(e, i, Head(ids))
  BY DEF Append
<1>2. /\ tape' \in Tapes /\ EntriesOf(tape') = ids \cup {i} /\ tape'[i] = e
      /\ Head(ids') = i /\ ids' = ids \cup {i}
      /\ {j \in EntriesOf(tape') : j < i} = ids
      /\ \A m \in Messages : RowUpTo(tape', rows[m], Level, m)
      /\ snapshot' \in {None} \cup SUBSET ids'
      /\ SnapshotIsPrefix'
  BY <1>1, GrowthKeepsInv
<1>3. /\ rows \in [Messages -> ProjectedRows] /\ Head(ids) \in 0..MaxEntry
      /\ Contiguous(Head(ids)) => Level = Head(ids)
      /\ meta \in {NoMeta, Old} \cup 0..Head(ids)
  BY TapeFacts, LevelFacts DEF IInv, TypeOK
<1>4. /\ rows' \in [Messages -> ProjectedRows]
      /\ \A m \in Messages : RowUpTo(tape', rows'[m], Level', m)
      /\ meta' \in {NoMeta, i, meta}
  <2> SUFFICES ASSUME NEW t, t = tape'
               PROVE  /\ rows' \in [Messages -> ProjectedRows]
                      /\ \A m \in Messages : RowUpTo(t, rows'[m], Level', m)
                      /\ meta' \in {NoMeta, i, meta}
    OBVIOUS
  <2>1. /\ t \in Tapes /\ i \in EntriesOf(t) /\ t[i] = e
        /\ Head(ids) = Head({j \in EntriesOf(t) : j < i})
        /\ \A m \in Messages : RowUpTo(t, rows[m], Level, m)
    BY <1>2
  <2>2. Apply(t[i], i, Head(ids)) \/ ApplyFails(t[i], i, Head(ids))
    BY <1>1, <2>1
  <2> QED
    BY <1>3, <2>1, <2>2, ApplyKeepsRows
<1>5. meta' \in {NoMeta, Old} \cup 0..i
  BY <1>1, <1>3, <1>4, EntryIds
<1>6. projected' \in BOOLEAN
  BY <1>1, Zenon
<1>7. \A m \in Messages : rows'[m] # None => rows'[m].entry \in ids'
  BY <1>2, <1>4, RowsHaveEntries
<1>8. TypeOK'
  BY <1>2, <1>4, <1>5, <1>6, <1>7 DEF TypeOK, Tapes
<1> QED
  BY <1>2, <1>4, <1>8 DEF IInv, RowsKeepUp

LEMMA InsertInv ==
  ASSUME IInv, NEW i \in Ids, NEW e \in Kinds, Insert(i, e)
  PROVE  IInv'
<1>1. /\ i > Head(ids) /\ tape' = [tape EXCEPT ![i] = e]
      /\ UNCHANGED <<rows, meta, snapshot>> /\ projected' = FALSE
  BY DEF Insert
<1>2. /\ tape' \in Tapes /\ EntriesOf(tape') = ids \cup {i}
      /\ Head(ids') = i /\ ids' = ids \cup {i}
      /\ \A m \in Messages : RowUpTo(tape', rows[m], Level, m)
      /\ snapshot' \in {None} \cup SUBSET ids'
      /\ SnapshotIsPrefix'
  BY <1>1, GrowthKeepsInv
<1>3. Level' = Level
  BY <1>1 DEF Level
<1>4. /\ rows \in [Messages -> ProjectedRows] /\ Head(ids) \in Nat
      /\ meta \in {NoMeta, Old} \cup 0..Head(ids)
  BY TapeFacts DEF IInv, TypeOK
<1>5. meta' \in {NoMeta, Old} \cup 0..i
  BY <1>1, <1>4, EntryIds
<1>6. \A m \in Messages : rows'[m] # None => rows'[m].entry \in ids'
  BY <1>1, <1>2, RowsHaveEntries
<1>7. TypeOK'
  BY <1>1, <1>2, <1>4, <1>5, <1>6 DEF TypeOK, Tapes
<1> QED
  BY <1>1, <1>2, <1>3, <1>7 DEF IInv, RowsKeepUp

LEMMA ApplyAppendedInv ==
  ASSUME IInv, NEW i \in Ids, ApplyAppended(i)
  PROVE  IInv'
<1> DEFINE previous == Head({j \in ids : j < i})
<1>1. /\ tape[i] # None /\ UNCHANGED <<tape, snapshot>> /\ projected' = FALSE
      /\ \/ Apply(tape[i], i, previous)
         \/ Contiguous(previous) /\ rows' = AppliedRows(tape[i], i) /\ UNCHANGED meta
  BY DEF ApplyAppended
<1>2. /\ tape \in Tapes /\ ids = EntriesOf(tape) /\ ids \subseteq Ids
      /\ Head(ids) \in Nat /\ \A j \in ids : j <= Head(ids)
  BY TapeFacts DEF IInv
<1>3. i \in EntriesOf(tape)
  BY <1>1 DEF EntriesOf
<1>4. previous \in 0..MaxEntry
  BY <1>2, HeadOfEntries
<1>5. Contiguous(previous) => Level = previous
  BY <1>4, LevelFacts DEF IInv
<1>6. /\ rows' \in [Messages -> ProjectedRows]
      /\ \A m \in Messages : RowUpTo(tape, rows'[m], Level', m)
      /\ meta' \in {NoMeta, i, meta}
  <2>1. /\ rows \in [Messages -> ProjectedRows]
        /\ \A m \in Messages : RowUpTo(tape, rows[m], Level, m)
        /\ previous = Head({j \in EntriesOf(tape) : j < i})
    BY <1>2 DEF IInv, TypeOK, RowsKeepUp
  <2> HIDE DEF previous
  <2> QED
    BY <1>1, <1>2, <1>3, <1>4, <1>5, <2>1, ApplyKeepsRows
<1>7. ids' = ids
  BY <1>1 DEF ids
<1>8. meta' \in {NoMeta, Old} \cup 0..Head(ids)
  BY <1>2, <1>3, <1>6, EntryIds DEF IInv, TypeOK
<1>9. \A m \in Messages : rows'[m] # None => rows'[m].entry \in ids
  BY <1>2, <1>6, RowsHaveEntries
<1>10. TypeOK'
  BY <1>1, <1>6, <1>7, <1>8, <1>9 DEF TypeOK, IInv
<1>11. SnapshotIsPrefix'
  BY <1>1 DEF IInv, SnapshotIsPrefix
<1> QED
  BY <1>1, <1>6, <1>10, <1>11 DEF IInv, RowsKeepUp

LEMMA ReadTapeInv == ASSUME IInv, ReadTape PROVE IInv'
<1>1. snapshot' = ids /\ projected' = FALSE /\ UNCHANGED <<tape, rows, meta>>
  BY DEF ReadTape
<1>2. ids' = ids /\ Level' = Level
  BY <1>1 DEF ids, Level
<1>3. TypeOK'
  BY <1>1, <1>2 DEF TypeOK, IInv
<1>4. ids = Prefix(tape, Head(ids))
  BY TapeFacts DEF IInv, Prefix
<1> QED
  BY <1>1, <1>2, <1>3, <1>4 DEF IInv, RowsKeepUp, SnapshotIsPrefix

LEMMA ReplaceInv == ASSUME IInv, Replace PROVE IInv'
<1>1. /\ snapshot # None /\ snapshot' = None /\ projected' = FALSE /\ UNCHANGED tape
      /\ meta' = Head(snapshot)
      /\ rows' = [m \in Messages |-> EffectiveRow(snapshot, m)]
  BY DEF Replace
<1>2. /\ tape \in Tapes /\ ids = EntriesOf(tape) /\ ids \subseteq Ids
      /\ Head(ids) \in Nat /\ \A j \in ids : j <= Head(ids)
  BY TapeFacts DEF IInv
<1>3. snapshot \subseteq ids /\ snapshot \subseteq Ids
  BY <1>1, <1>2 DEF IInv, TypeOK
<1>4. /\ Head(snapshot) \in 0..MaxEntry /\ Head(snapshot) \in Nat
      /\ snapshot = {} => Head(snapshot) = 0
      /\ snapshot # {} => Head(snapshot) \in snapshot
  BY <1>3, HeadOfEntries, EntryIds
<1>5. Head(snapshot) \in 0..Head(ids)
  BY <1>2, <1>3, <1>4
<1>6. Level' = Head(snapshot)
  BY <1>1, <1>3, <1>4, EntryIds DEF Level
<1>7. snapshot = Prefix(tape, Head(snapshot))
  BY <1>1 DEF IInv, SnapshotIsPrefix
<1>8. \A m \in Messages :
        EffectiveRow(snapshot, m) \in ProjectedRows
        /\ RowUpTo(tape, EffectiveRow(snapshot, m), Head(snapshot), m)
  BY <1>2, <1>4, <1>7, RebuiltRow
<1>9. /\ rows' \in [Messages -> ProjectedRows]
      /\ \A m \in Messages : RowUpTo(tape, rows'[m], Head(snapshot), m)
  BY <1>1, <1>8
<1>10. ids' = ids
  BY <1>1 DEF ids
<1>11. \A m \in Messages : rows'[m] # None => rows'[m].entry \in ids
  BY <1>2, <1>9, RowsHaveEntries
<1>12. TypeOK'
  BY <1>1, <1>5, <1>9, <1>10, <1>11 DEF TypeOK, IInv
<1> QED
  BY <1>1, <1>6, <1>9, <1>12 DEF IInv, RowsKeepUp, SnapshotIsPrefix

(* Without a head a row need only come from the Tape. *)
LEMMA ForgettingInv ==
  ASSUME IInv, meta' = NoMeta, rows' \in {rows, NoRows}, projected' = FALSE,
         UNCHANGED <<tape, snapshot>>
  PROVE  IInv'
<1>1. Level' = 0
  BY IngestionConstants DEF Level, Ids
<1>2. tape \in Tapes /\ ids' = ids
  BY TapeFacts DEF IInv, ids
<1>3. /\ rows' \in [Messages -> ProjectedRows]
      /\ \A m \in Messages : rows'[m] = rows[m] \/ rows'[m] = None
  BY DEF IInv, TypeOK, NoRows, ProjectedRows
<1>4. \A m \in Messages : FromTape(tape, rows'[m], m)
  <2>1. \A m \in Messages : FromTape(tape, rows[m], m) /\ FromTape(tape, None, m)
    BY DEF IInv, RowsKeepUp, RowUpTo, FromTape
  <2> QED
    BY <1>3, <2>1
<1>5. \A m \in Messages : RowUpTo(tape, rows'[m], 0, m)
  BY <1>2, <1>4, NothingAtZero
<1>6. TypeOK'
  BY <1>2, <1>3 DEF IInv, TypeOK
<1> QED
  BY <1>1, <1>5, <1>6 DEF IInv, RowsKeepUp, SnapshotIsPrefix

LEMMA StepInv == ASSUME IInv, [Next]_vars PROVE IInv'
<1>1. ASSUME NEW i \in Ids, NEW e \in Kinds, Append(i, e) PROVE IInv'
  BY <1>1, AppendInv
<1>2. ASSUME NEW i \in Ids, NEW e \in Kinds, Insert(i, e) PROVE IInv'
  BY <1>2, InsertInv
<1>3. ASSUME NEW i \in Ids, ApplyAppended(i) PROVE IInv'
  BY <1>3, ApplyAppendedInv
<1>4. CASE ReadTape
  BY <1>4, ReadTapeInv
<1>5. CASE Replace
  BY <1>5, ReplaceInv
<1>6. CASE InvalidateSession
  BY <1>6, ForgettingInv DEF InvalidateSession
<1>7. CASE DeleteBySession
  BY <1>7, ForgettingInv DEF DeleteBySession
<1>8. CASE UNCHANGED vars
  <2>1. ids' = ids /\ Level' = Level
    BY <1>8 DEF vars, ids, Level
  <2> QED
    BY <1>8, <2>1 DEF vars, IInv, TypeOK, RowsKeepUp, SnapshotIsPrefix
<1> QED
  BY <1>1, <1>2, <1>3, <1>4, <1>5, <1>6, <1>7, <1>8 DEF Next

(* The invariant holds in every reachable state. *)
THEOREM Invariance == Spec => []IInv
<1>1. Init => IInv
  BY InitInv
<1>2. IInv /\ [Next]_vars => IInv'
  BY StepInv
<1> QED
  BY <1>1, <1>2, PTL DEF Spec

(* Every row is of an entry of the Tape, and no head is beyond it. *)
THEOREM TypeCorrect == Spec => []TypeOK
<1>1. IInv => TypeOK
  BY DEF IInv
<1> QED
  BY <1>1, Invariance, PTL

-----------------------------------------------------------------------------
(* What the rows of a current session are worth. *)

(* Up to the head of the Tape the invariant speaks of every entry. *)
LEMMA WholeTape ==
  ASSUME IInv
  PROVE  /\ Prefix(tape, Head(ids)) = ids /\ ids = EntriesOf(tape) /\ ids \subseteq Ids
         /\ \A j \in ids : j <= Head(ids) /\ j \in Nat /\ ~ (j > Head(ids))
         /\ \A m : LiveIn(tape, ids, m) = Live(tape, m)
         /\ \A m : FinalsIn(tape, ids, m) = LiveFinals(tape, m)
<1>1. /\ ids = EntriesOf(tape) /\ ids \subseteq Ids /\ Head(ids) \in Nat
      /\ \A j \in ids : j <= Head(ids)
  BY TapeFacts DEF IInv
<1>2. \A j \in ids : j \in Nat /\ ~ (j > Head(ids))
  BY <1>1, EntryIds
<1>3. \A m : LiveIn(tape, ids, m) = Live(tape, m)
  BY <1>1 DEF LiveIn, Live
<1>4. \A m : FinalsIn(tape, ids, m) = LiveFinals(tape, m)
  BY <1>3 DEF FinalsIn, LiveFinals
<1> QED
  BY <1>1, <1>2, <1>3, <1>4 DEF Prefix

LEMMA CurrentRows ==
  ASSUME IInv, Current
  PROVE  RowsFollow(tape, rows)
<1> SUFFICES ASSUME NEW m \in Messages
             PROVE  IF LiveFinals(tape, m) = {} THEN rows[m] = None
                    ELSE \/ rows[m] # None /\ rows[m].entry = Max(LiveFinals(tape, m))
                         \/ rows[m] = None /\ Max(Live(tape, m)) # Max(LiveFinals(tape, m))
  BY DEF RowsFollow
<1> DEFINE finals == LiveFinals(tape, m)
           live == Live(tape, m)
<1>1. /\ Prefix(tape, Head(ids)) = ids /\ ids = EntriesOf(tape) /\ ids \subseteq Ids
      /\ \A j \in ids : j \in Nat /\ ~ (j > Head(ids))
      /\ LiveIn(tape, ids, m) = live /\ FinalsIn(tape, ids, m) = finals
  BY WholeTape
<1>2. RowUpTo(tape, rows[m], Head(ids), m)
  BY LevelFacts DEF IInv, RowsKeepUp
<1>3. finals \subseteq live /\ live \subseteq ids /\ finals \subseteq Ids /\ live \subseteq Ids
  BY <1>1 DEF LiveFinals, Live, Versions
<1> HIDE DEF finals, live
<1>4. rows[m] # None => rows[m].entry \in finals /\ \A j \in finals : j <= rows[m].entry
  BY <1>1, <1>2 DEF RowUpTo, FromTape, IsLast
<1>5. rows[m] = None => \A i \in finals : \E j \in live : j > i
  <2>1. \A r \in EntriesOf(tape) : ~ (r > Head(ids))
    BY <1>1
  <2> QED
    BY <1>1, <1>2, <2>1 DEF RowUpTo, IsMissing
<1>6. CASE finals = {}
  BY <1>4, <1>6 DEF finals
<1>7. CASE finals # {} /\ rows[m] # None
  <2>1. rows[m].entry = Max(finals)
    BY <1>3, <1>4, <1>7, HeadIsUnique
  <2> QED
    BY <1>7, <2>1 DEF finals
<1>8. CASE finals # {} /\ rows[m] = None
  <2>1. Max(finals) \in finals
    BY <1>3, <1>8, GreatestEntry
  <2>2. PICK j \in live : j > Max(finals)
    BY <1>5, <1>8, <2>1
  <2>3. j <= Max(live) /\ Max(live) \in live
    BY <1>3, GreatestEntry
  <2>4. j \in Nat /\ Max(live) \in Nat /\ Max(finals) \in Nat
    BY <1>3, <2>1, <2>3, EntryIds
  <2>5. Max(live) # Max(finals)
    BY <2>2, <2>3, <2>4
  <2> QED
    BY <1>8, <2>5 DEF finals, live
<1> QED
  BY <1>6, <1>7, <1>8

(* What a current session hands to memory ingestion is the last version of   *)
(* each message that was not retracted, and no row of any other message.     *)
THEOREM CurrentIsExact == Spec => []CurrentRowsAreTheLastVersions
<1>1. IInv => CurrentRowsAreTheLastVersions
  BY CurrentRows DEF CurrentRowsAreTheLastVersions
<1> QED
  BY <1>1, Invariance, PTL

LEMMA CurrentFlags == ASSUME IInv PROVE LaterToolCallsCount
<1> SUFFICES ASSUME Current, NEW m \in Messages, rows[m] # None
             PROVE  /\ \A t \in ids :
                         t > rows[m].entry /\ tape[t].kind = "tool" /\ tape[t].message = m
                           => rows[m].tool
                    /\ rows[m].tool =>
                         UsedTool(ids, m) \/ \E i \in LiveFinals(tape, m) : tape[i].blocks
  BY DEF LaterToolCallsCount
<1>1. /\ Prefix(tape, Head(ids)) = ids /\ ids = EntriesOf(tape)
      /\ \A j \in ids : ~ (j > Head(ids))
      /\ LiveIn(tape, ids, m) = Live(tape, m) /\ FinalsIn(tape, ids, m) = LiveFinals(tape, m)
  BY WholeTape
<1>2. RowUpTo(tape, rows[m], Head(ids), m)
  BY LevelFacts DEF IInv, RowsKeepUp
<1>3. ASSUME NEW t \in ids,
             t > rows[m].entry, tape[t].kind = "tool", tape[t].message = m
      PROVE  rows[m].tool
  <2>1. IsTool(tape, t, m)
    BY <1>3 DEF IsTool
  <2> QED
    BY <1>1, <1>2, <1>3, <2>1 DEF RowUpTo, FlagIsSet
<1>4. ASSUME rows[m].tool
      PROVE  UsedTool(ids, m) \/ \E i \in LiveFinals(tape, m) : tape[i].blocks
  <2>1. \/ \E k \in EntriesOf(tape) : IsTool(tape, k, m)
        \/ \E i \in EntriesOf(tape) :
             IsFinal(tape, i, m) /\ tape[i].blocks
               /\ (i > Head(ids) \/ i \in FinalsIn(tape, Prefix(tape, Head(ids)), m))
    BY <1>2, <1>4 DEF RowUpTo, FlagIsTrue
  <2>2. CASE \E k \in EntriesOf(tape) : IsTool(tape, k, m)
    BY <1>1, <2>2 DEF IsTool, UsedTool
  <2>3. CASE \E i \in EntriesOf(tape) :
               IsFinal(tape, i, m) /\ tape[i].blocks
                 /\ (i > Head(ids) \/ i \in FinalsIn(tape, Prefix(tape, Head(ids)), m))
    BY <1>1, <2>3
  <2> QED
    BY <2>1, <2>2, <2>3
<1> QED
  BY <1>3, <1>4

(* A tool call after the version of a current row is never missing from its  *)
(* flag, and a flag has a cause; what a version that replaces another does   *)
(* to the flag is not part of the claim.                                     *)
THEOREM LaterToolCallsAreRecorded == Spec => []LaterToolCallsCount
<1>1. IInv => LaterToolCallsCount
  BY CurrentFlags
<1> QED
  BY <1>1, Invariance, PTL

-----------------------------------------------------------------------------
(* What an append does to the claim of being current. *)

(* An entry appended leaves the session current only if it was current, or   *)
(* if the Tape was empty.                                                    *)
LEMMA AppendDecides ==
  ASSUME IInv, NEW i \in Ids, NEW e \in Kinds, Append(i, e)
  PROVE  /\ projected' <=> Current'
         /\ Current' => Current \/ ids = {}
<1>1. /\ i > Head(ids) /\ tape' = [tape EXCEPT ![i] = e] /\ UNCHANGED snapshot
      /\ \/ /\ Apply(e, i, Head(ids))
            /\ projected' = (Contiguous(Head(ids)) /\ e.kind # "retraction")
         \/ ApplyFails(e, i, Head(ids)) /\ projected' = FALSE
  BY DEF Append
<1>2. Head(ids') = i
  BY <1>1, GrowthKeepsInv
<1>3. NoMeta # i
  BY IngestionConstants DEF Ids
<1>4. Current' <=> meta' = i
  BY <1>2 DEF Current
<1>5. CASE Contiguous(Head(ids)) /\ e.kind # "retraction" /\ meta' = i /\ projected' = TRUE
  <2>1. Head(ids) = 0 => ids = {}
    BY TapeFacts, EntryIds DEF IInv
  <2> QED
    BY <1>4, <1>5, <2>1 DEF Contiguous, Current
<1>6. CASE meta' = NoMeta /\ projected' = FALSE
  BY <1>3, <1>4, <1>6
<1>7. \/ Contiguous(Head(ids)) /\ e.kind # "retraction" /\ meta' = i /\ projected' = TRUE
      \/ meta' = NoMeta /\ projected' = FALSE
  <2>1. CASE /\ Apply(e, i, Head(ids))
             /\ projected' = (Contiguous(Head(ids)) /\ e.kind # "retraction")
    <3>1. CASE Contiguous(Head(ids)) /\ e.kind # "retraction"
      <4>1. meta' = i
        BY <2>1, <3>1 DEF Apply, AppliedHead
      <4>2. projected' = TRUE
        BY <2>1, <3>1, Zenon
      <4> QED
        BY <3>1, <4>1, <4>2
    <3>2. CASE ~ (Contiguous(Head(ids)) /\ e.kind # "retraction")
      <4>1. meta' = NoMeta
        BY <2>1, <3>2 DEF Apply, AppliedHead
      <4>2. projected' = FALSE
        BY <2>1, <3>2, Zenon
      <4> QED
        BY <4>1, <4>2
    <3> QED
      BY <3>1, <3>2
  <2>2. CASE ApplyFails(e, i, Head(ids)) /\ projected' = FALSE
    BY <2>2 DEF ApplyFails
  <2> QED
    BY <1>1, <2>1, <2>2
<1> QED
  BY <1>5, <1>6, <1>7

(* An entry written by other means leaves the session stale. *)
LEMMA InsertLeavesStale ==
  ASSUME IInv, NEW i \in Ids, NEW e \in Kinds, Insert(i, e)
  PROVE  ~ Current'
<1>1. i > Head(ids) /\ tape' = [tape EXCEPT ![i] = e] /\ UNCHANGED <<snapshot, meta>>
  BY DEF Insert
<1>2. Head(ids') = i
  BY <1>1, GrowthKeepsInv
<1>3. Head(ids) \in Nat /\ meta \in {NoMeta, Old} \cup 0..Head(ids)
  BY TapeFacts DEF IInv, TypeOK
<1>4. NoMeta # i /\ Old # i
  BY IngestionConstants DEF Ids
<1> QED
  BY <1>1, <1>2, <1>3, <1>4, EntryIds DEF Current

LEMMA OthersKeepTheTape ==
  ASSUME [Next]_vars
  PROVE  \/ \E i \in Ids, e \in Kinds : Append(i, e) \/ Insert(i, e)
         \/ UNCHANGED tape
BY DEF Next, vars, ApplyAppended, ReadTape, Replace, InvalidateSession, DeleteBySession

(* An append that is reported projected makes the session current, any other *)
(* leaves it stale, and none of them loses a Tape entry.                     *)
THEOREM AppendsAreReported == Spec => AppendsReportTruthfully
<1> DEFINE Truthful == /\ \A i \in ids : tape'[i] = tape[i]
                       /\ ids' # ids => (projected' <=> Current')
<1>1. ASSUME IInv, [Next]_vars PROVE [Truthful]_vars
  <2>1. ASSUME NEW i \in Ids, NEW e \in Kinds, Append(i, e) PROVE Truthful
    <3>1. \A j \in ids : tape'[j] = tape[j]
      BY <1>1, <2>1, GrowthKeepsInv DEF Append
    <3> QED
      BY <1>1, <2>1, <3>1, AppendDecides
  <2>2. ASSUME NEW i \in Ids, NEW e \in Kinds, Insert(i, e) PROVE Truthful
    <3>1. \A j \in ids : tape'[j] = tape[j]
      BY <1>1, <2>2, GrowthKeepsInv DEF Insert
    <3>2. projected' = FALSE /\ ~ Current'
      BY <1>1, <2>2, InsertLeavesStale DEF Insert
    <3> QED
      BY <3>1, <3>2
  <2>3. CASE UNCHANGED tape
    BY <2>3 DEF ids
  <2> QED
    BY <1>1, <2>1, <2>2, <2>3, OthersKeepTheTape
<1> QED
  BY <1>1, Invariance, PTL DEF Spec, AppendsReportTruthfully

(* The rows implement DerivedIndex: they are right about the Tape whenever   *)
(* they claim to be, and a stale session gets there by upkeep only.          *)
LEMMA TrustedIsRight == IInv => (Current \/ ids = {} => RowsFollow(tape, rows))
<1> SUFFICES ASSUME IInv, ids = {} PROVE RowsFollow(tape, rows)
  BY CurrentRows
<1>1. \A m \in Messages : rows[m] = None
  BY DEF IInv, TypeOK
<1>2. EntriesOf(tape) = {}
  BY TapeFacts DEF IInv
<1>3. \A m : LiveFinals(tape, m) = {}
  BY <1>2 DEF LiveFinals, Live, Versions
<1> QED
  BY <1>1, <1>3 DEF RowsFollow

THEOREM RefinesDerivedIndex == Spec => RowsAreADerivedIndex
<1> DEFINE trusted == Current \/ ids = {}
<1>1. Init => Index!Init
  BY InitInv, TrustedIsRight DEF Index!Init
<1>2. ASSUME IInv, IInv', [Next]_vars
      PROVE  [Index!Next]_<<tape, rows, trusted>>
  <2>1. trusted' => RowsFollow(tape, rows)'
    <3>1. (IInv => (Current \/ ids = {} => RowsFollow(tape, rows)))'
      BY TrustedIsRight, PTL
    <3> QED
      BY <1>2, <3>1
  <2>2. ASSUME NEW i \in Ids, NEW e \in Kinds, Append(i, e) \/ Insert(i, e)
        PROVE  Index!Record
    <3>1. i > Head(ids) /\ tape' = [tape EXCEPT ![i] = e] /\ UNCHANGED snapshot
      BY <2>2 DEF Append, Insert
    <3>2. ids' = ids \cup {i} /\ i \notin ids
      BY <1>2, <3>1, GrowthKeepsInv
    <3>3. tape' # tape
      BY <3>2 DEF ids
    <3>4. Current' => trusted
      BY <1>2, <2>2, AppendDecides, InsertLeavesStale
    <3>5. trusted' => trusted
      BY <3>2, <3>4
    <3> QED
      BY <2>1, <3>3, <3>5 DEF Index!Record
  <2>3. CASE UNCHANGED tape
    BY <2>1, <2>3 DEF Index!Next, Index!Maintain
  <2> QED
    BY <1>2, <2>2, <2>3, OthersKeepTheTape DEF Index!Next
<1> QED
  BY <1>1, <1>2, Invariance, PTL DEF Spec, RowsAreADerivedIndex, Index!Spec
=============================================================================
