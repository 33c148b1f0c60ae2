---------------------------- MODULE ComposerProofs ----------------------------
(*****************************************************************************)
(* Proofs about Composer for texts of any kinds of characters and any        *)
(* length, and histories of any length.                                      *)
(*                                                                           *)
(* Nearly all of it rests on one fact: an offset the composer keeps is the   *)
(* number of bytes before some character of the text it is kept for.  The    *)
(* first part shows what bytes and units before a character are like, the    *)
(* second that every operation returns such offsets, the third that all      *)
(* steps keep them, and the rest what follows.                               *)
(*****************************************************************************)
EXTENDS Composer, FiniteSetTheorems, SequenceTheorems, NaturalsInduction,
  WellFoundedInduction, TLAPS

-----------------------------------------------------------------------------
(* Texts and their parts. *)

LEMMA TextFacts ==
  ASSUME NEW t \in Texts
  PROVE  /\ t \in Seq(Chars) /\ t \in [1..Len(t) -> Chars]
         /\ Len(t) \in Nat /\ Len(t) <= MaxLength /\ DOMAIN t = 1..Len(t)
<1>1. PICK n \in 0..MaxLength : t \in [1..n -> Chars]
  BY DEF Texts
<1>2. n \in Nat
  BY ComposerConstants
<1>3. t \in Seq(Chars)
  BY <1>1, <1>2, SeqDef
<1> QED
  BY <1>1, <1>2, <1>3, LenProperties

LEMMA TextType ==
  ASSUME NEW t \in Seq(Chars), Len(t) <= MaxLength
  PROVE  t \in Texts
BY LenProperties, ComposerConstants DEF Texts

LEMMA PartFacts ==
  ASSUME NEW t \in Texts, NEW j \in 0..Len(t), NEW k \in j..Len(t)
  PROVE  /\ SubSeq(t, j + 1, k) \in Texts
         /\ Len(SubSeq(t, j + 1, k)) = k - j
         /\ \A i \in 1..(k - j) : SubSeq(t, j + 1, k)[i] = t[j + i]
<1>1. /\ t \in Seq(Chars) /\ t \in [1..Len(t) -> Chars]
      /\ Len(t) \in Nat /\ Len(t) <= MaxLength /\ MaxLength \in Nat
  BY TextFacts, ComposerConstants
<1> DEFINE p == SubSeq(t, j + 1, k)
<1>2. /\ p \in Seq(Chars)
      /\ Len(p) = IF j + 1 <= k THEN k - (j + 1) + 1 ELSE 0
      /\ \A i \in 1..(k - (j + 1) + 1) : p[i] = t[(j + 1) + i - 1]
  <2>1. \A i \in (j + 1)..k : t[i] \in Chars
    BY <1>1
  <2> QED
    BY <1>1, <2>1, SubSeqProperties
<1> HIDE DEF p
<1>3. Len(p) = k - j
  BY <1>1, <1>2
<1>4. \A i \in 1..(k - j) : p[i] = t[j + i]
  BY <1>1, <1>2
<1>5. p \in Texts
  BY <1>1, <1>2, <1>3, TextType
<1> QED
  BY <1>3, <1>4, <1>5 DEF p

LEMMA FirstFacts ==
  ASSUME NEW t \in Texts, NEW k \in 0..Len(t)
  PROVE  /\ First(t, k) \in Texts /\ Len(First(t, k)) = k
         /\ \A i \in 1..k : First(t, k)[i] = t[i]
<1>1. Len(t) \in Nat /\ 0 \in 0..Len(t) /\ k \in 0..Len(t)
  BY TextFacts
<1>2. First(t, k) = SubSeq(t, 0 + 1, k)
  BY DEF First
<1>3. \A i \in 1..(k - 0) : SubSeq(t, 0 + 1, k)[i] = t[0 + i]
  BY <1>1, PartFacts
<1> QED
  BY <1>1, <1>2, <1>3, PartFacts

LEMMA WholeText ==
  ASSUME NEW t \in Texts
  PROVE  First(t, Len(t)) = t /\ First(t, 0) = <<>> /\ <<>> \in Texts /\ Len(<<>>) = 0
<1>1. t \in Seq(Chars) /\ Len(t) \in Nat /\ 0 \in 0..Len(t)
  BY TextFacts
<1>2. First(t, Len(t)) = t
  BY <1>1, SubSeqFull DEF First
<1>3. First(t, 0) = <<>> /\ Len(<<>>) = 0
  BY <1>1, SubSeqEmpty, EmptySeq DEF First
<1>4. First(t, 0) \in Texts
  BY <1>1, FirstFacts
<1> QED
  BY <1>2, <1>3, <1>4

-----------------------------------------------------------------------------
(* Bytes and units. *)

LEMMA CountTo == \A n \in Nat : IsFiniteSet(1..n) /\ Cardinality(1..n) = n
<1> SUFFICES ASSUME NEW n \in Nat PROVE IsFiniteSet(1..n) /\ Cardinality(1..n) = n
  OBVIOUS
<1>1. 1 \in Int /\ n \in Int
  OBVIOUS
<1>2. IsFiniteSet(1..n) /\ Cardinality(1..n) = IF 1 > n THEN 0 ELSE n - 1 + 1
  BY <1>1, FS_Interval
<1> QED
  BY <1>2

Places(t, c) == {i \in DOMAIN t : t[i] = c}

LEMMA PlacesFacts ==
  ASSUME NEW t \in Texts, NEW c
  PROVE  /\ IsFiniteSet(Places(t, c)) /\ Places(t, c) \subseteq 1..Len(t)
         /\ Occurrences(t, c) = Cardinality(Places(t, c))
         /\ Occurrences(t, c) \in Nat /\ Occurrences(t, c) <= Len(t)
<1>1. Len(t) \in Nat /\ DOMAIN t = 1..Len(t)
  BY TextFacts
<1>2. IsFiniteSet(1..Len(t)) /\ Cardinality(1..Len(t)) = Len(t)
  BY <1>1, CountTo
<1>3. Places(t, c) \subseteq 1..Len(t)
  BY <1>1 DEF Places
<1>4. IsFiniteSet(Places(t, c)) /\ Cardinality(Places(t, c)) <= Len(t)
  <2>1. Places(t, c) \in SUBSET (1..Len(t))
    BY <1>3
  <2> QED
    BY <1>2, <2>1, FS_Subset
<1> QED
  BY <1>3, <1>4, FS_CardinalityType DEF Occurrences, Places

LEMMA CountFacts ==
  ASSUME NEW t \in Texts
  PROVE  /\ Bytes(t) = Len(t) + Occurrences(t, "mark") + 3 * Occurrences(t, "emoji")
         /\ Units(t) = Len(t) + Occurrences(t, "emoji")
         /\ Bytes(t) \in Nat /\ Units(t) \in Nat /\ Bytes(t) <= 4 * Len(t)
         /\ Bytes(t) \in Offsets
<1> DEFINE M == Places(t, "mark")
           E == Places(t, "emoji")
<1>1. Len(t) \in Nat /\ Len(t) <= MaxLength /\ MaxLength \in Nat
  BY TextFacts, ComposerConstants
<1>2. /\ IsFiniteSet(M) /\ IsFiniteSet(E) /\ M \subseteq 1..Len(t) /\ E \subseteq 1..Len(t)
      /\ Occurrences(t, "mark") = Cardinality(M) /\ Occurrences(t, "emoji") = Cardinality(E)
      /\ Cardinality(M) \in Nat /\ Cardinality(E) \in Nat
      /\ Cardinality(E) <= Len(t)
  BY PlacesFacts
<1>3. M \cap E = {}
  BY DEF Places
<1>4. Cardinality(M) + Cardinality(E) <= Len(t)
  <2> HIDE DEF M, E
  <2>1. Cardinality(M \cup E) = Cardinality(M) + Cardinality(E)
    <3>1. Cardinality(M \cup E) = Cardinality(M) + Cardinality(E) - Cardinality(M \cap E)
      BY <1>2, FS_Union
    <3>2. Cardinality(M \cap E) = 0
      BY <1>3, FS_EmptySet
    <3> QED
      BY <1>2, <3>1, <3>2
  <2>2. IsFiniteSet(1..Len(t)) /\ Cardinality(1..Len(t)) = Len(t)
    BY <1>1, CountTo
  <2>3. M \cup E \in SUBSET (1..Len(t))
    BY <1>2
  <2>4. Cardinality(M \cup E) <= Cardinality(1..Len(t))
    BY <2>2, <2>3, FS_Subset
  <2> QED
    BY <2>1, <2>2, <2>4
<1>5. /\ Bytes(t) = Len(t) + Cardinality(M) + 3 * Cardinality(E)
      /\ Units(t) = Len(t) + Cardinality(E)
  BY <1>2 DEF Bytes, Units, ByteCount, UnitCount
<1> HIDE DEF M, E
<1>6. Bytes(t) \in Nat /\ Units(t) \in Nat /\ Bytes(t) <= 4 * Len(t)
  BY <1>1, <1>2, <1>4, <1>5
<1>7. Bytes(t) \in Offsets
  BY <1>1, <1>6 DEF Offsets
<1> QED
  BY <1>2, <1>5, <1>6, <1>7

LEMMA OccurrencesGrow ==
  ASSUME NEW t \in Texts, NEW j \in 0..Len(t), NEW k \in j..Len(t), NEW c
  PROVE  Occurrences(First(t, j), c) <= Occurrences(First(t, k), c)
<1>1. /\ k \in 0..Len(t) /\ Len(t) \in Nat
  BY TextFacts
<1>2. /\ First(t, j) \in Texts /\ First(t, k) \in Texts
      /\ Len(First(t, j)) = j /\ Len(First(t, k)) = k
      /\ \A i \in 1..j : First(t, j)[i] = t[i]
      /\ \A i \in 1..k : First(t, k)[i] = t[i]
  BY <1>1, FirstFacts
<1>3. /\ DOMAIN First(t, j) = 1..j /\ DOMAIN First(t, k) = 1..k
  BY <1>2, TextFacts
<1>4. Places(First(t, j), c) \in SUBSET Places(First(t, k), c)
  BY <1>1, <1>2, <1>3 DEF Places
<1>5. /\ IsFiniteSet(Places(First(t, k), c))
      /\ Occurrences(First(t, j), c) = Cardinality(Places(First(t, j), c))
      /\ Occurrences(First(t, k), c) = Cardinality(Places(First(t, k), c))
  BY <1>2, PlacesFacts
<1> QED
  BY <1>4, <1>5, FS_Subset

(* The offset of the character after the first k, in bytes and in units. *)
At(t, k) == Bytes(First(t, k))
UnitAt(t, k) == Units(First(t, k))

LEMMA AtType ==
  ASSUME NEW t \in Texts, NEW k \in 0..Len(t)
  PROVE  At(t, k) \in Nat /\ At(t, k) \in Offsets /\ UnitAt(t, k) \in Nat
BY FirstFacts, CountFacts DEF At, UnitAt

(* Every character takes at least a byte and a unit. *)
LEMMA AtGrows ==
  ASSUME NEW t \in Texts, NEW j \in 0..Len(t), NEW k \in 0..Len(t)
  PROVE  /\ j <= k <=> At(t, j) <= At(t, k)
         /\ j <= k <=> UnitAt(t, j) <= UnitAt(t, k)
         /\ At(t, j) = At(t, k) => j = k
<1>1. ASSUME NEW a \in 0..Len(t), NEW b \in a..Len(t)
      PROVE  At(t, a) + (b - a) <= At(t, b) /\ UnitAt(t, a) + (b - a) <= UnitAt(t, b)
  <2> DEFINE f == First(t, a)
             g == First(t, b)
  <2>1. Len(t) \in Nat /\ b \in 0..Len(t) /\ a \in Nat /\ b \in Nat
    BY TextFacts
  <2>2. f \in Texts /\ g \in Texts /\ Len(f) = a /\ Len(g) = b
    BY <2>1, FirstFacts
  <2>3. /\ Occurrences(f, "mark") <= Occurrences(g, "mark")
        /\ Occurrences(f, "emoji") <= Occurrences(g, "emoji")
    BY OccurrencesGrow
  <2> HIDE DEF f, g
  <2>4. /\ Bytes(f) = a + Occurrences(f, "mark") + 3 * Occurrences(f, "emoji")
        /\ Bytes(g) = b + Occurrences(g, "mark") + 3 * Occurrences(g, "emoji")
        /\ Units(f) = a + Occurrences(f, "emoji") /\ Units(g) = b + Occurrences(g, "emoji")
    BY <2>2, CountFacts
  <2>5. /\ Occurrences(f, "mark") \in Nat /\ Occurrences(g, "mark") \in Nat
        /\ Occurrences(f, "emoji") \in Nat /\ Occurrences(g, "emoji") \in Nat
    BY <2>2, PlacesFacts
  <2> DEFINE m == Occurrences(f, "mark")
             e == Occurrences(f, "emoji")
             n == Occurrences(g, "mark")
             h == Occurrences(g, "emoji")
  <2> HIDE DEF m, e, n, h
  <2>6. /\ (a + m + 3 * e) + (b - a) <= b + n + 3 * h
        /\ (a + e) + (b - a) <= b + h
    <3>1. m \in Nat /\ e \in Nat /\ n \in Nat /\ h \in Nat /\ m <= n /\ e <= h
      BY <2>3, <2>5 DEF m, e, n, h
    <3> QED
      BY <2>1, <3>1
  <2>7. Bytes(f) + (b - a) <= Bytes(g) /\ Units(f) + (b - a) <= Units(g)
    BY <2>4, <2>6 DEF m, e, n, h
  <2> QED
    BY <2>7 DEF At, UnitAt, f, g
<1>2. /\ Len(t) \in Nat
      /\ At(t, j) \in Nat /\ At(t, k) \in Nat /\ UnitAt(t, j) \in Nat /\ UnitAt(t, k) \in Nat
  BY TextFacts, AtType
<1>3. CASE j <= k
  BY <1>1, <1>2, <1>3
<1>4. CASE k < j
  BY <1>1, <1>2, <1>4
<1> QED
  BY <1>2, <1>3, <1>4

LEMMA AtEnds ==
  ASSUME NEW t \in Texts
  PROVE  /\ At(t, 0) = 0 /\ At(t, Len(t)) = Bytes(t)
         /\ UnitAt(t, 0) = 0 /\ UnitAt(t, Len(t)) = Units(t)
<1>1. First(t, Len(t)) = t /\ First(t, 0) = <<>> /\ <<>> \in Texts /\ Len(<<>>) = 0
  BY WholeText
<1>2. Occurrences(<<>>, "mark") = 0 /\ Occurrences(<<>>, "emoji") = 0
  <2>1. \A c : Occurrences(<<>>, c) \in Nat /\ Occurrences(<<>>, c) <= 0
    BY <1>1, PlacesFacts
  <2> QED
    BY <2>1
<1>3. Bytes(<<>>) = 0 /\ Units(<<>>) = 0
  BY <1>1, <1>2, CountFacts
<1> QED
  BY <1>1, <1>3 DEF At, UnitAt

(* A boundary is the offset of one character only. *)
LEMMA BoundaryFacts ==
  ASSUME NEW t \in Texts
  PROVE  /\ CharBoundaries(t) = {At(t, k) : k \in 0..Len(t)}
         /\ CharBoundaries(t) \subseteq Nat /\ CharBoundaries(t) \subseteq Offsets
         /\ \A k \in 0..Len(t) : At(t, k) \in CharBoundaries(t) /\ CharsBefore(t, At(t, k)) = k
         /\ \A b \in CharBoundaries(t) :
              CharsBefore(t, b) \in 0..Len(t) /\ At(t, CharsBefore(t, b)) = b
         /\ 0 \in CharBoundaries(t) /\ Bytes(t) \in CharBoundaries(t)
<1>1. CharBoundaries(t) = {At(t, k) : k \in 0..Len(t)}
  BY DEF CharBoundaries, Boundaries, At
<1>2. \A k \in 0..Len(t) : At(t, k) \in Nat /\ At(t, k) \in Offsets
  BY AtType
<1>3. \A k \in 0..Len(t) : CharsBefore(t, At(t, k)) = k
  <2> SUFFICES ASSUME NEW k \in 0..Len(t) PROVE CharsBefore(t, At(t, k)) = k
    OBVIOUS
  <2>1. \A j \in 0..Len(t) : At(t, j) = At(t, k) => j = k
    BY AtGrows
  <2>2. CharsBefore(t, At(t, k)) = CHOOSE j \in 0..Len(t) : At(t, j) = At(t, k)
    BY DEF CharsBefore, At
  <2> QED
    BY <2>1, <2>2
<1>4. 0 \in 0..Len(t) /\ Len(t) \in 0..Len(t)
  BY TextFacts
<1>5. At(t, 0) = 0 /\ At(t, Len(t)) = Bytes(t)
  BY AtEnds
<1> QED
  BY <1>1, <1>2, <1>3, <1>4, <1>5

-----------------------------------------------------------------------------
(* A text in which the characters between the first j and the first k are    *)
(* replaced.                                                                 *)

Splice(t, j, k, new) == First(t, j) \o new \o SubSeq(t, k + 1, Len(t))

IsSplice(x, t, j, k, new) ==
  /\ x \in Seq(Chars) /\ Len(x) = j + Len(new) + (Len(t) - k)
  /\ \A i \in 1..j : x[i] = t[i]
  /\ \A i \in 1..Len(new) : x[j + i] = new[i]
  /\ \A i \in 1..(Len(t) - k) : x[j + Len(new) + i] = t[k + i]

LEMMA SpliceFacts ==
  ASSUME NEW t \in Texts, NEW j \in 0..Len(t), NEW k \in j..Len(t), NEW new \in Seq(Chars),
         NEW x, x = Splice(t, j, k, new)
  PROVE  IsSplice(x, t, j, k, new)
<1> DEFINE a == First(t, j)
           c == SubSeq(t, k + 1, Len(t))
<1>1. Len(t) \in Nat /\ Len(new) \in Nat /\ k \in 0..Len(t) /\ Len(t) \in k..Len(t)
  BY TextFacts, LenProperties
<1>2. /\ a \in Seq(Chars) /\ Len(a) = j /\ \A i \in 1..j : a[i] = t[i]
  BY FirstFacts, TextFacts
<1>3. /\ c \in Seq(Chars) /\ Len(c) = Len(t) - k
      /\ \A i \in 1..(Len(t) - k) : c[i] = t[k + i]
  BY <1>1, PartFacts, TextFacts
<1>4. x = (a \o new) \o c
  BY DEF Splice
<1> HIDE DEF a, c
<1> DEFINE d == a \o new
<1>5. /\ d \in Seq(Chars) /\ Len(d) = j + Len(new)
      /\ \A i \in 1..(j + Len(new)) : d[i] = IF i <= j THEN a[i] ELSE new[i - j]
  BY <1>2, ConcatProperties
<1>6. x = d \o c
  BY <1>4
<1> HIDE DEF d
<1>7. /\ x \in Seq(Chars) /\ Len(x) = (j + Len(new)) + (Len(t) - k)
      /\ \A i \in 1..((j + Len(new)) + (Len(t) - k)) :
           x[i] = IF i <= j + Len(new) THEN d[i] ELSE c[i - (j + Len(new))]
  <2>1. d \in Seq(Chars) /\ c \in Seq(Chars)
    BY <1>3, <1>5
  <2>2. /\ d \o c \in Seq(Chars) /\ Len(d \o c) = Len(d) + Len(c)
        /\ \A i \in 1..(Len(d) + Len(c)) : (d \o c)[i] = IF i <= Len(d) THEN d[i] ELSE c[i - Len(d)]
    BY <2>1, ConcatProperties
  <2> QED
    BY <1>3, <1>5, <1>6, <2>2
<1>8. \A i \in 1..j : x[i] = t[i]
  <2> SUFFICES ASSUME NEW i \in 1..j PROVE x[i] = t[i]
    OBVIOUS
  <2>1. /\ i \in 1..(j + Len(new)) /\ i <= j /\ i <= j + Len(new)
        /\ i \in 1..((j + Len(new)) + (Len(t) - k))
    BY <1>1
  <2>2. d[i] = a[i] /\ x[i] = d[i]
    BY <1>5, <1>7, <2>1
  <2> QED
    BY <1>2, <2>2
<1>9. \A i \in 1..Len(new) : x[j + i] = new[i]
  <2> SUFFICES ASSUME NEW i \in 1..Len(new) PROVE x[j + i] = new[i]
    OBVIOUS
  <2>1. /\ j + i \in 1..(j + Len(new)) /\ ~ (j + i <= j) /\ (j + i) - j = i
        /\ j + i \in 1..((j + Len(new)) + (Len(t) - k)) /\ j + i <= j + Len(new)
    BY <1>1
  <2>2. d[j + i] = new[i]
    BY <1>5, <2>1
  <2> QED
    BY <1>7, <2>1, <2>2
<1>10. \A i \in 1..(Len(t) - k) : x[j + Len(new) + i] = t[k + i]
  <2> SUFFICES ASSUME NEW i \in 1..(Len(t) - k) PROVE x[j + Len(new) + i] = t[k + i]
    OBVIOUS
  <2>1. /\ j + Len(new) + i \in 1..((j + Len(new)) + (Len(t) - k))
        /\ ~ (j + Len(new) + i <= j + Len(new)) /\ (j + Len(new) + i) - (j + Len(new)) = i
    BY <1>1
  <2>2. x[j + Len(new) + i] = c[i]
    BY <1>7, <2>1
  <2> QED
    BY <1>3, <2>2
<1>11. Len(x) = j + Len(new) + (Len(t) - k)
  BY <1>1, <1>7
<1> QED
  BY <1>7, <1>8, <1>9, <1>10, <1>11 DEF IsSplice

(* Bytes of a text that is put together. *)
Joined(x, s, u) ==
  /\ Len(x) = Len(s) + Len(u)
  /\ \A i \in 1..Len(s) : x[i] = s[i]
  /\ \A i \in 1..Len(u) : x[Len(s) + i] = u[i]

LEMMA JoinedBytes ==
  ASSUME NEW s \in Texts, NEW u \in Texts, NEW x \in Texts, Joined(x, s, u)
  PROVE  Bytes(x) = Bytes(s) + Bytes(u)
<1>1. /\ Len(x) = Len(s) + Len(u)
      /\ \A i \in 1..Len(s) : x[i] = s[i]
      /\ \A i \in 1..Len(u) : x[Len(s) + i] = u[i]
  BY DEF Joined
<1>2. /\ Len(s) \in Nat /\ Len(u) \in Nat /\ Len(x) \in Nat
      /\ DOMAIN s = 1..Len(s) /\ DOMAIN u = 1..Len(u) /\ DOMAIN x = 1..Len(x)
  BY TextFacts
<1>3. ASSUME NEW c PROVE Occurrences(x, c) = Occurrences(s, c) + Occurrences(u, c)
  <2> DEFINE P == Places(s, c)
             Q == Places(u, c)
             R == {Len(s) + i : i \in Q}
             f == [i \in Q |-> Len(s) + i]
  <2>1. /\ IsFiniteSet(P) /\ IsFiniteSet(Q) /\ P \subseteq 1..Len(s) /\ Q \subseteq 1..Len(u)
        /\ Occurrences(s, c) = Cardinality(P) /\ Occurrences(u, c) = Cardinality(Q)
        /\ Occurrences(x, c) = Cardinality(Places(x, c))
        /\ Cardinality(P) \in Nat /\ Cardinality(Q) \in Nat
    BY PlacesFacts
  <2>2. f \in Bijection(Q, R)
    BY <1>2, <2>1 DEF Bijection, Injection, Surjection, IsInjective
  <2>3. IsFiniteSet(R) /\ Cardinality(R) = Cardinality(Q)
    BY <2>1, <2>2, FS_Bijection DEF ExistsBijection
  <2>4. Places(x, c) = P \cup R
    <3>1. \A i \in 1..Len(x) : i \in P \cup R <=> x[i] = c
      <4> SUFFICES ASSUME NEW i \in 1..Len(x) PROVE i \in P \cup R <=> x[i] = c
        OBVIOUS
      <4>1. CASE i <= Len(s)
        <5>1. i \in 1..Len(s) /\ i \notin R
          BY <1>2, <2>1, <4>1
        <5>2. x[i] = s[i]
          BY <1>1, <5>1
        <5> QED
          BY <1>2, <5>1, <5>2 DEF Places
      <4>2. CASE ~ (i <= Len(s))
        <5> DEFINE k == i - Len(s)
        <5>1. k \in 1..Len(u) /\ i = Len(s) + k /\ i \notin P
          BY <1>1, <1>2, <2>1, <4>2
        <5> HIDE DEF k
        <5>2. x[i] = u[k]
          BY <1>1, <5>1
        <5>3. i \in R <=> k \in Q
          BY <1>2, <2>1, <5>1
        <5>4. k \in Q <=> u[k] = c
          BY <1>2, <5>1 DEF Places
        <5> QED
          BY <5>1, <5>2, <5>3, <5>4
      <4> QED
        BY <4>1, <4>2
    <3>2. P \cup R \subseteq 1..Len(x)
      BY <1>1, <1>2, <2>1
    <3> QED
      BY <1>2, <3>1, <3>2 DEF Places
  <2>5. P \cap R = {}
    BY <1>2, <2>1
  <2> HIDE DEF P, R, Q
  <2>6. Cardinality(P \cup R) = Cardinality(P) + Cardinality(R) - Cardinality(P \cap R)
    BY <2>1, <2>3, FS_Union
  <2>7. Cardinality(P \cap R) = 0
    BY <2>5, FS_EmptySet
  <2> QED
    BY <2>1, <2>3, <2>4, <2>6, <2>7
<1>4. /\ Occurrences(x, "mark") = Occurrences(s, "mark") + Occurrences(u, "mark")
      /\ Occurrences(x, "emoji") = Occurrences(s, "emoji") + Occurrences(u, "emoji")
  BY <1>3
<1>5. /\ Occurrences(s, "mark") \in Nat /\ Occurrences(u, "mark") \in Nat
      /\ Occurrences(s, "emoji") \in Nat /\ Occurrences(u, "emoji") \in Nat
  BY PlacesFacts
<1>6. /\ Bytes(s) = Len(s) + Occurrences(s, "mark") + 3 * Occurrences(s, "emoji")
      /\ Bytes(u) = Len(u) + Occurrences(u, "mark") + 3 * Occurrences(u, "emoji")
      /\ Bytes(x) = Len(x) + Occurrences(x, "mark") + 3 * Occurrences(x, "emoji")
  BY CountFacts
<1> QED
  BY <1>1, <1>2, <1>4, <1>5, <1>6

(* Offsets in a spliced text: before the replacement they are what they      *)
(* were, inside it they count from its start.                                *)
LEMMA SpliceOffsets ==
  ASSUME NEW t \in Texts, NEW j \in 0..Len(t), NEW k \in j..Len(t), NEW new \in Texts,
         NEW x \in Texts, x = Splice(t, j, k, new), NEW m \in 0..Len(new)
  PROVE  At(x, j + m) = At(t, j) + At(new, m) /\ j + m \in 0..Len(x)
<1>1. Len(t) \in Nat /\ Len(new) \in Nat /\ new \in Seq(Chars)
  BY TextFacts
<1>2. /\ x \in Seq(Chars) /\ Len(x) = j + Len(new) + (Len(t) - k)
      /\ \A i \in 1..j : x[i] = t[i]
      /\ \A i \in 1..Len(new) : x[j + i] = new[i]
  <2>1. IsSplice(x, t, j, k, new)
    BY <1>1, SpliceFacts
  <2> QED
    BY <2>1 DEF IsSplice
<1>3. j + m \in 0..Len(x)
  BY <1>1, <1>2
<1> DEFINE a == First(t, j)
           b == First(new, m)
           y == First(x, j + m)
<1>4. /\ a \in Texts /\ Len(a) = j /\ \A i \in 1..j : a[i] = t[i]
      /\ b \in Texts /\ Len(b) = m /\ \A i \in 1..m : b[i] = new[i]
      /\ y \in Texts /\ Len(y) = j + m /\ \A i \in 1..(j + m) : y[i] = x[i]
  BY <1>3, FirstFacts
<1> HIDE DEF a, b, y
<1>5. \A i \in 1..Len(a) : y[i] = a[i]
  <2> SUFFICES ASSUME NEW i \in 1..Len(a) PROVE y[i] = a[i]
    OBVIOUS
  <2>1. i \in 1..j /\ i \in 1..(j + m)
    BY <1>1, <1>4
  <2> QED
    BY <1>2, <1>4, <2>1
<1>6. \A i \in 1..Len(b) : y[Len(a) + i] = b[i]
  <2> SUFFICES ASSUME NEW i \in 1..Len(b) PROVE y[Len(a) + i] = b[i]
    OBVIOUS
  <2>1. i \in 1..m /\ i \in 1..Len(new) /\ j + i \in 1..(j + m)
    BY <1>1, <1>4
  <2> QED
    BY <1>2, <1>4, <2>1
<1>7. Bytes(y) = Bytes(a) + Bytes(b)
  <2>1. Joined(y, a, b)
    BY <1>4, <1>5, <1>6 DEF Joined
  <2> QED
    BY <1>4, <2>1, JoinedBytes
<1> QED
  BY <1>3, <1>7 DEF At, a, b, y

-----------------------------------------------------------------------------
(* Greatest and least of a set of numbers. *)

LEMMA LeastNumber ==
  ASSUME NEW S, S \subseteq Nat, S # {}
  PROVE  \E n \in S : \A m \in S : n <= m
<1> DEFINE R == {ss \in Nat \X Nat : ss[1] < ss[2]}
<1>1. OpToRel(<, Nat) = R
  BY DEF OpToRel
<1>2. IsWellFoundedOn(R, Nat)
  BY <1>1, NatLessThanWellFounded
<1>3. \A m, n \in Nat : <<m, n>> \in R <=> m < n
  OBVIOUS
<1> HIDE DEF R
<1>4. PICK n \in S : \A m \in S : ~ (<<m, n>> \in R)
  BY <1>2, WFMin
<1>5. \A m \in S : ~ (m < n)
  BY <1>3, <1>4
<1> QED
  BY <1>5

LEMMA MinFacts ==
  ASSUME NEW S, S \subseteq Nat, S # {}
  PROVE  Min(S) \in S /\ \A m \in S : Min(S) <= m
BY LeastNumber DEF Min

LEMMA MaxFacts ==
  ASSUME NEW S, S \subseteq Nat, S # {}, NEW bound \in Nat, \A m \in S : m <= bound
  PROVE  Max(S) \in S /\ \A m \in S : m <= Max(S)
<1> DEFINE T == {bound - m : m \in S}
<1>1. T \subseteq Nat /\ T # {}
  <2>1. \A m \in S : bound - m \in Nat
    OBVIOUS
  <2> QED
    BY <2>1
<1>2. PICK d \in T : \A e \in T : d <= e
  <2> HIDE DEF T
  <2> QED
    BY <1>1, LeastNumber
<1>3. PICK n \in S : d = bound - n
  BY <1>2
<1>4. \A m \in S : bound - m \in T
  OBVIOUS
<1>5. \A m \in S : bound - n <= bound - m
  BY <1>2, <1>3, <1>4
<1>6. \A m \in S : m <= n
  BY <1>5
<1>7. \A m \in S : n >= m
  BY <1>6
<1>8. Max(S) \in S /\ \A m \in S : Max(S) >= m
  BY <1>7 DEF Max
<1> QED
  BY <1>8

(* A greatest number is found by naming it. *)
LEMMA MaxIs ==
  ASSUME NEW S, S \subseteq Nat, NEW n \in S, \A m \in S : m <= n
  PROVE  Max(S) = n
<1>1. n \in Nat /\ S # {}
  OBVIOUS
<1>2. Max(S) \in S /\ n <= Max(S)
  BY <1>1, MaxFacts
<1>3. Max(S) \in Nat /\ Max(S) <= n
  BY <1>2
<1> QED
  BY <1>1, <1>2, <1>3

-----------------------------------------------------------------------------
(* The operations return character boundaries. *)

Good(t, r) == r \in Offsets \X Offsets /\ IsRange(t, r)

LEMMA GoodRange ==
  ASSUME NEW t \in Texts, NEW a \in CharBoundaries(t), NEW b \in CharBoundaries(t), a <= b
  PROVE  Good(t, <<a, b>>)
BY BoundaryFacts DEF Good, IsRange

LEMMA GoodFacts ==
  ASSUME NEW t \in Texts, NEW r, Good(t, r)
  PROVE  /\ r = <<r[1], r[2]>> /\ r[1] <= r[2]
         /\ r[1] \in Nat /\ r[2] \in Nat
         /\ r[1] \in CharBoundaries(t) /\ r[2] \in CharBoundaries(t)
         /\ CharsBefore(t, r[1]) \in 0..Len(t)
         /\ CharsBefore(t, r[2]) \in CharsBefore(t, r[1])..Len(t)
         /\ r[1] = At(t, CharsBefore(t, r[1])) /\ r[2] = At(t, CharsBefore(t, r[2]))
<1> DEFINE j == CharsBefore(t, r[1])
           k == CharsBefore(t, r[2])
<1>1. /\ r \in Offsets \X Offsets /\ r[1] <= r[2]
      /\ r[1] \in CharBoundaries(t) /\ r[2] \in CharBoundaries(t)
  BY DEF Good, IsRange
<1>2. /\ r[1] \in Nat /\ r[2] \in Nat /\ j \in 0..Len(t) /\ k \in 0..Len(t)
      /\ At(t, j) = r[1] /\ At(t, k) = r[2]
  BY <1>1, BoundaryFacts
<1>3. r = <<r[1], r[2]>>
  BY <1>1
<1> HIDE DEF j, k
<1>4. j <= k
  BY <1>1, <1>2, AtGrows
<1>5. k \in j..Len(t)
  BY <1>2, <1>4, TextFacts
<1> QED
  BY <1>1, <1>2, <1>3, <1>5 DEF j, k

(* offset_from_utf16: the last character boundary at or before the unit. *)
LEMMA FromUtf16Facts ==
  ASSUME NEW t \in Texts, NEW u \in Nat
  PROVE  /\ FromUtf16(t, u) \in CharBoundaries(t)
         /\ \A k \in 0..Len(t) : u = UnitAt(t, k) => FromUtf16(t, u) = At(t, k)
<1> DEFINE S == {j \in 0..Len(t) : UnitAt(t, j) <= u}
<1>1. /\ Len(t) \in Nat /\ UnitAt(t, 0) = 0 /\ 0 \in 0..Len(t)
      /\ \A j \in 0..Len(t) : UnitAt(t, j) \in Nat
  BY TextFacts, AtEnds, AtType
<1>2. S \subseteq Nat /\ S # {} /\ \A m \in S : m <= Len(t)
  BY <1>1
<1>3. FromUtf16(t, u) = At(t, Max(S))
  BY DEF FromUtf16, At, UnitAt
<1>4. Max(S) \in 0..Len(t)
  <2>1. Max(S) \in S
    <3> HIDE DEF S
    <3> QED
      BY <1>1, <1>2, MaxFacts
  <2> QED
    BY <2>1
<1>5. ASSUME NEW k \in 0..Len(t), u = UnitAt(t, k)
      PROVE  Max(S) = k
  <2>1. k \in S
    BY <1>1, <1>5
  <2>2. \A m \in S : m <= k
    BY <1>5, AtGrows
  <2> HIDE DEF S
  <2> QED
    BY <1>2, <2>1, <2>2, MaxIs
<1> HIDE DEF S
<1> QED
  BY <1>3, <1>4, <1>5, BoundaryFacts

LEMMA UnitRangesAreGood ==
  ASSUME NEW t \in Texts, NEW r \in UnitRanges[t]
  PROVE  Good(t, r)
<1>1. /\ r \in {<<FromUtf16(t, u), FromUtf16(t, v)>> : u, v \in 0..Units(t)}
      /\ r \in Offsets \X Offsets /\ r[1] <= r[2]
  BY DEF UnitRanges
<1>2. PICK u \in 0..Units(t), v \in 0..Units(t) : r = <<FromUtf16(t, u), FromUtf16(t, v)>>
  BY <1>1
<1>3. u \in Nat /\ v \in Nat
  BY CountFacts
<1>4. FromUtf16(t, u) \in CharBoundaries(t) /\ FromUtf16(t, v) \in CharBoundaries(t)
  BY <1>3, FromUtf16Facts
<1> QED
  BY <1>1, <1>2, <1>4 DEF Good, IsRange

(* index_for_position: any candidate of any layout gives a boundary. *)
LEMMA HitsAreBoundaries ==
  ASSUME NEW t \in Texts, NEW b \in Hits[t]
  PROVE  b \in CharBoundaries(t)
<1>1. PICK candidate \in Offsets : b = HitIndex(t, candidate)
  BY DEF Hits
<1> DEFINE S == {c \in CharBoundaries(t) : c <= candidate}
<1>2. /\ candidate \in Nat /\ 0 \in CharBoundaries(t) /\ CharBoundaries(t) \subseteq Nat
  BY BoundaryFacts, ComposerConstants DEF Offsets
<1>3. S \subseteq Nat /\ S # {} /\ \A m \in S : m <= candidate
  BY <1>2
<1>4. Max(S) \in S
  <2> HIDE DEF S
  <2> QED
    BY <1>2, <1>3, MaxFacts
<1> QED
  BY <1>1, <1>4 DEF HitIndex

LEMMA GraphemesAreBoundaries ==
  ASSUME NEW t \in Texts
  PROVE  Graphemes(t) \subseteq CharBoundaries(t)
<1>1. Len(t) \in Nat
  BY TextFacts
<1>2. \A k \in 0..(Len(t) - 1) : k \in 0..Len(t)
  BY <1>1
<1> QED
  BY <1>2, BoundaryFacts DEF Graphemes, At

LEMMA PreviousFacts ==
  ASSUME NEW t \in Texts, NEW b \in CharBoundaries(t)
  PROVE  PreviousBoundary(t, b) \in CharBoundaries(t)
<1> DEFINE S == {0} \cup {g \in Graphemes(t) : g < b}
<1>1. /\ CharBoundaries(t) \subseteq Nat /\ 0 \in CharBoundaries(t)
      /\ Graphemes(t) \subseteq CharBoundaries(t)
  BY BoundaryFacts, GraphemesAreBoundaries
<1>2. S \subseteq Nat /\ S # {} /\ b \in Nat /\ \A m \in S : m <= b
  BY <1>1
<1>3. S \subseteq CharBoundaries(t)
  BY <1>1
<1>4. PreviousBoundary(t, b) = Max(S)
  BY DEF PreviousBoundary
<1> HIDE DEF S
<1> QED
  BY <1>2, <1>3, <1>4, MaxFacts

LEMMA NextFacts ==
  ASSUME NEW t \in Texts, NEW b \in CharBoundaries(t)
  PROVE  NextBoundary(t, b) \in CharBoundaries(t)
<1> DEFINE S == {g \in Graphemes(t) : g > b}
<1>1. /\ CharBoundaries(t) \subseteq Nat /\ Bytes(t) \in CharBoundaries(t)
      /\ Graphemes(t) \subseteq CharBoundaries(t)
  BY BoundaryFacts, GraphemesAreBoundaries
<1>2. S \subseteq Nat /\ S \subseteq CharBoundaries(t)
  BY <1>1
<1>3. NextBoundary(t, b) = IF S = {} THEN Bytes(t) ELSE Min(S)
  BY DEF NextBoundary
<1> HIDE DEF S
<1>4. S # {} => Min(S) \in S
  BY <1>2, MinFacts
<1> QED
  BY <1>1, <1>2, <1>3, <1>4

(* select_to: extending a selection to a boundary leaves a selection. *)
LEMMA ExtendedFacts ==
  ASSUME NEW t \in Texts, NEW sel, Good(t, sel), NEW back \in BOOLEAN,
         NEW b \in CharBoundaries(t)
  PROVE  /\ Good(t, Extended(sel, back, b).selection)
         /\ Extended(sel, back, b).reversed \in BOOLEAN
<1> DEFINE start == IF back THEN b ELSE sel[1]
           end == IF back THEN sel[2] ELSE b
           forth == ~back
<1>1. forth \in BOOLEAN
  OBVIOUS
<1>2. /\ sel[1] \in CharBoundaries(t) /\ sel[2] \in CharBoundaries(t)
      /\ CharBoundaries(t) \subseteq Nat
  BY GoodFacts, BoundaryFacts
<1>3. start \in CharBoundaries(t) /\ end \in CharBoundaries(t)
  BY <1>2
<1>4. Extended(sel, back, b) =
        IF end < start THEN [selection |-> <<end, start>>, reversed |-> forth]
        ELSE [selection |-> <<start, end>>, reversed |-> back]
  BY DEF Extended
<1> HIDE DEF start, end, forth
<1>5. CASE end < start
  <2>1. end <= start
    BY <1>2, <1>3, <1>5
  <2>2. Good(t, <<end, start>>)
    BY <1>3, <2>1, GoodRange
  <2>3. Extended(sel, back, b) = [selection |-> <<end, start>>, reversed |-> forth]
    BY <1>4, <1>5
  <2>4. Extended(sel, back, b).selection = <<end, start>>
    BY <2>3
  <2>5. Extended(sel, back, b).reversed = forth
    BY <2>3
  <2> QED
    BY <1>1, <2>2, <2>4, <2>5, Zenon
<1>6. CASE ~ (end < start)
  <2>1. start <= end
    BY <1>2, <1>3, <1>6
  <2>2. Good(t, <<start, end>>)
    BY <1>3, <2>1, GoodRange
  <2>3. Extended(sel, back, b) = [selection |-> <<start, end>>, reversed |-> back]
    BY <1>4, <1>6
  <2>4. Extended(sel, back, b).selection = <<start, end>>
    BY <2>3
  <2>5. Extended(sel, back, b).reversed = back
    BY <2>3
  <2> QED
    BY <1>1, <2>2, <2>4, <2>5, Zenon
<1> QED
  BY <1>5, <1>6

-----------------------------------------------------------------------------
(* The inductive invariant. *)

GoodSnapshots == {s \in Snapshots : IsRange(s.text, s.selection)}

(* The selection is a range of the text. *)
DraftIsSound == text \in Texts /\ Good(text, selection) /\ reversed \in BOOLEAN

(* So are the marked range and the snapshot of a composition; while there is *)
(* one, there is nothing to be redone.                                       *)
CompositionIsSound ==
  /\ marked = None \/ Good(text, marked)
  /\ composition = None \/ composition \in GoodSnapshots
  /\ marked # None => composition # None
  /\ composition # None => redo = <<>>

(* Whatever undo and redo can bring back is sound. *)
HistoryIsSound ==
  /\ undo \in Seq(GoodSnapshots) /\ redo \in Seq(GoodSnapshots)
  /\ Len(undo) + Len(redo) <= MaxEdits

OthersAreSound ==
  /\ selecting \in BOOLEAN
  /\ clipboard \in Texts \cup {None}
  /\ submit_attempts \in 0..MaxSubmits

IInv == DraftIsSound /\ CompositionIsSound /\ HistoryIsSound /\ OthersAreSound

LEMMA SnapshotFacts ==
  ASSUME NEW s \in GoodSnapshots
  PROVE  /\ s.text \in Texts /\ Good(s.text, s.selection) /\ s.reversed \in BOOLEAN
         /\ s # None
<1>1. s \in Snapshots /\ IsRange(s.text, s.selection)
  BY DEF GoodSnapshots
<1>2. s.text \in Texts /\ s.selection \in Offsets \X Offsets /\ s.reversed \in BOOLEAN
  BY <1>1 DEF Snapshots
<1>3. s # None
  BY <1>1, ComposerConstants
<1> QED
  BY <1>1, <1>2, <1>3 DEF Good

LEMMA SnapshotIsGood ==
  ASSUME NEW t \in Texts, NEW sel, Good(t, sel), NEW back \in BOOLEAN,
         NEW s, s = [text |-> t, selection |-> sel, reversed |-> back]
  PROVE  s \in GoodSnapshots
<1>1. sel \in Offsets \X Offsets /\ IsRange(t, sel)
  BY DEF Good
<1>2. s \in Snapshots
  BY <1>1 DEF Snapshots
<1>3. s.text = t /\ s.selection = sel
  OBVIOUS
<1> QED
  BY <1>1, <1>2, <1>3 DEF GoodSnapshots

(* A history entry is pushed and popped at the end. *)
LEMMA PushFacts ==
  ASSUME NEW S, NEW seq \in Seq(S), NEW e \in S, NEW pushed, pushed = Append(seq, e)
  PROVE  /\ pushed \in Seq(S) /\ Len(pushed) = Len(seq) + 1 /\ Last(pushed) = e
         /\ \A i \in 1..Len(seq) : pushed[i] = seq[i]
<1>1. /\ pushed \in Seq(S) /\ Len(pushed) = Len(seq) + 1
      /\ \A i \in 1..Len(seq) : pushed[i] = seq[i]
      /\ pushed[Len(seq) + 1] = e
  BY AppendProperties
<1> QED
  BY <1>1 DEF Last

LEMMA PopFacts ==
  ASSUME NEW S, NEW seq \in Seq(S), seq # <<>>, NEW rest, rest = Front(seq)
  PROVE  /\ Last(seq) \in S /\ Last(seq) = seq[Len(seq)] /\ Len(seq) \in Nat \ {0}
         /\ rest \in Seq(S) /\ Len(rest) = Len(seq) - 1
         /\ \A i \in 1..(Len(seq) - 1) : rest[i] = seq[i]
<1>1. Len(seq) \in Nat \ {0}
  BY EmptySeq
<1>2. \A i \in 1..Len(seq) : seq[i] \in S
  BY ElementOfSeq
<1>3. Last(seq) = seq[Len(seq)] /\ Last(seq) \in S
  BY <1>1, <1>2 DEF Last
<1> DEFINE n == Len(seq) - 1
<1>4. n \in Nat /\ rest = SubSeq(seq, 1, n) /\ \A i \in 1..n : seq[i] \in S
  BY <1>1, <1>2 DEF Front
<1> HIDE DEF n
<1>5. /\ rest \in Seq(S) /\ Len(rest) = IF 1 <= n THEN n - 1 + 1 ELSE 0
      /\ \A i \in 1..(n - 1 + 1) : rest[i] = seq[1 + i - 1]
  BY <1>4, SubSeqProperties
<1>6. Len(rest) = n /\ \A i \in 1..n : rest[i] = seq[i]
  BY <1>4, <1>5
<1> QED
  BY <1>1, <1>3, <1>5, <1>6 DEF n

LEMMA SplicedFacts ==
  ASSUME text \in Texts, NEW range, Good(text, range), NEW new \in Seq(Chars),
         NEW x, x = Spliced(range, new), Len(x) <= MaxLength
  PROVE  /\ x \in Texts /\ new \in Texts
         /\ \A b \in CharBoundaries(new) : range[1] + b \in CharBoundaries(x)
<1> DEFINE j == CharsBefore(text, range[1])
           k == CharsBefore(text, range[2])
<1>1. j \in 0..Len(text) /\ k \in j..Len(text) /\ range[1] = At(text, j)
  BY GoodFacts
<1>2. x = Splice(text, j, k, new)
  BY DEF Spliced, Splice
<1> HIDE DEF j, k
<1>3. /\ x \in Seq(Chars) /\ Len(x) = j + Len(new) + (Len(text) - k)
  <2>1. IsSplice(x, text, j, k, new)
    BY <1>1, <1>2, SpliceFacts
  <2> QED
    BY <2>1 DEF IsSplice
<1>4. x \in Texts
  BY <1>3, TextType
<1>5. new \in Texts
  <2>1. Len(new) \in Nat /\ Len(text) \in Nat /\ MaxLength \in Nat
    BY LenProperties, TextFacts, ComposerConstants
  <2>2. Len(new) <= MaxLength
    BY <1>1, <1>3, <2>1
  <2> QED
    BY <2>2, TextType
<1>6. ASSUME NEW b \in CharBoundaries(new) PROVE range[1] + b \in CharBoundaries(x)
  <2> DEFINE m == CharsBefore(new, b)
  <2>1. m \in 0..Len(new) /\ At(new, m) = b
    BY <1>5, BoundaryFacts
  <2> HIDE DEF m
  <2>2. At(x, j + m) = At(text, j) + At(new, m) /\ j + m \in 0..Len(x)
    BY <1>1, <1>2, <1>4, <1>5, <2>1, SpliceOffsets
  <2>3. At(x, j + m) \in CharBoundaries(x)
    BY <1>4, <2>2, BoundaryFacts
  <2> QED
    BY <1>1, <2>1, <2>2, <2>3
<1> QED
  BY <1>4, <1>5, <1>6

LEMMA PreferredIsGood ==
  ASSUME IInv, NEW sel, Good(text, sel)
  PROVE  Good(text, Preferred(sel))
BY DEF IInv, CompositionIsSound, Preferred

LEMMA ReplacementRangesAreGood ==
  ASSUME IInv, NEW range \in ReplacementRanges
  PROVE  Good(text, range)
<1>1. text \in Texts /\ Good(text, selection)
  BY DEF IInv, DraftIsSound
<1>2. CASE range = Preferred(selection)
  BY <1>1, <1>2, PreferredIsGood
<1>3. CASE range \in UnitRanges[text]
  BY <1>1, <1>3, UnitRangesAreGood
<1> QED
  BY <1>2, <1>3 DEF ReplacementRanges

LEMMA InsertsFacts == \A new \in Inserts : new \in Seq(Chars)
<1> SUFFICES ASSUME NEW new \in Inserts PROVE new \in Seq(Chars)
  OBVIOUS
<1>1. CASE new = <<>>
  BY <1>1, EmptySeq
<1>2. ASSUME NEW c \in Chars, new = <<c>> PROVE new \in Seq(Chars)
  BY <1>2
<1> QED
  BY <1>1, <1>2 DEF Inserts

LEMMA SelectedFacts ==
  ASSUME IInv
  PROVE  Selected \in Texts
<1>1. text \in Texts /\ Good(text, selection)
  BY DEF IInv, DraftIsSound
<1> DEFINE j == CharsBefore(text, selection[1])
           k == CharsBefore(text, selection[2])
<1>2. j \in 0..Len(text) /\ k \in j..Len(text) /\ Len(text) \in Nat
  BY <1>1, GoodFacts, TextFacts
<1>3. Selected = SubSeq(text, j + 1, k)
  BY DEF Selected
<1> HIDE DEF j, k
<1> QED
  BY <1>1, <1>2, <1>3, PartFacts

-----------------------------------------------------------------------------
(* Every step keeps the invariant. *)

LEMMA InitIsSound == Init => IInv
<1> SUFFICES ASSUME Init PROVE IInv
  OBVIOUS
<1>1. <<>> \in Texts /\ 0 \in CharBoundaries(<<>>)
  <2>1. <<>> \in Seq(Chars) /\ Len(<<>>) = 0
    BY EmptySeq
  <2>2. Len(<<>>) <= MaxLength
    BY <2>1, ComposerConstants
  <2>3. <<>> \in Texts
    BY <2>1, <2>2, TextType
  <2> QED
    BY <2>3, BoundaryFacts
<1>2. DraftIsSound
  <2>1. Good(<<>>, <<0, 0>>)
    BY <1>1, GoodRange
  <2> QED
    BY <1>1, <2>1 DEF Init, DraftIsSound
<1>3. CompositionIsSound
  BY DEF Init, CompositionIsSound
<1>4. HistoryIsSound
  <2>1. <<>> \in Seq(GoodSnapshots) /\ Len(<<>>) = 0
    BY EmptySeq
  <2> QED
    BY <2>1, ComposerConstants DEF Init, HistoryIsSound
<1>5. OthersAreSound
  <2>1. MaxSubmits \in Nat
    BY ComposerConstants
  <2>2. 0 \in 0..MaxSubmits
    BY <2>1
  <2> QED
    BY <2>2 DEF Init, OthersAreSound
<1> QED
  BY <1>2, <1>3, <1>4, <1>5 DEF IInv

LEMMA CaretStep ==
  ASSUME IInv, CaretOnly, Good(text, selection'), reversed' \in BOOLEAN, selecting' \in BOOLEAN
  PROVE  IInv'
<1>1. DraftIsSound'
  BY DEF IInv, CaretOnly, DraftIsSound
<1>2. CompositionIsSound'
  BY DEF IInv, CaretOnly, CompositionIsSound
<1>3. HistoryIsSound'
  BY DEF IInv, CaretOnly, HistoryIsSound
<1>4. OthersAreSound'
  BY DEF IInv, CaretOnly, OthersAreSound
<1> QED
  BY <1>1, <1>2, <1>3, <1>4 DEF IInv

LEMMA MoveToStep ==
  ASSUME IInv, NEW b \in CharBoundaries(text), MoveTo(b)
  PROVE  Good(text, selection') /\ reversed' \in BOOLEAN
<1>1. text \in Texts
  BY DEF IInv, DraftIsSound
<1>2. b <= b
  BY <1>1, BoundaryFacts
<1>3. Good(text, <<b, b>>)
  BY <1>1, <1>2, GoodRange
<1> QED
  BY <1>3 DEF MoveTo

LEMMA SelectToStep ==
  ASSUME IInv, NEW b \in CharBoundaries(text), SelectTo(b)
  PROVE  Good(text, selection') /\ reversed' \in BOOLEAN
<1>1. text \in Texts /\ Good(text, selection) /\ reversed \in BOOLEAN
  BY DEF IInv, DraftIsSound
<1>2. /\ Good(text, Extended(selection, reversed, b).selection)
      /\ Extended(selection, reversed, b).reversed \in BOOLEAN
  BY <1>1, ExtendedFacts
<1> QED
  BY <1>2 DEF SelectTo

(* Where the keys move the caret to. *)
LEMMA CaretFacts ==
  ASSUME IInv
  PROVE  /\ selection[1] \in CharBoundaries(text) /\ selection[2] \in CharBoundaries(text)
         /\ Cursor \in CharBoundaries(text)
         /\ PreviousBoundary(text, Cursor) \in CharBoundaries(text)
         /\ NextBoundary(text, Cursor) \in CharBoundaries(text)
         /\ 0 \in CharBoundaries(text) /\ Bytes(text) \in CharBoundaries(text)
         /\ Hits[text] \subseteq CharBoundaries(text)
<1>1. text \in Texts /\ Good(text, selection) /\ reversed \in BOOLEAN
  BY DEF IInv, DraftIsSound
<1>2. selection[1] \in CharBoundaries(text) /\ selection[2] \in CharBoundaries(text)
  BY <1>1, GoodFacts
<1>3. Cursor \in CharBoundaries(text)
  BY <1>2 DEF Cursor
<1> QED
  BY <1>1, <1>2, <1>3, PreviousFacts, NextFacts, BoundaryFacts, HitsAreBoundaries

LEMMA CaretKeysStep ==
  ASSUME IInv, Left \/ Right \/ SelectLeft \/ SelectRight \/ SelectAll \/ Home \/ End
  PROVE  IInv'
<1>1. selecting \in BOOLEAN /\ text \in Texts
  BY DEF IInv, OthersAreSound, DraftIsSound
<1>2. OnlyCaret => CaretOnly /\ selecting' \in BOOLEAN
  BY <1>1 DEF OnlyCaret
<1>3. CASE Left
  <2> DEFINE b == IF IsEmpty THEN PreviousBoundary(text, Cursor) ELSE selection[1]
  <2>1. b \in CharBoundaries(text) /\ MoveTo(b)
    BY <1>3, CaretFacts DEF Left
  <2> HIDE DEF b
  <2> QED
    BY <1>2, <1>3, <2>1, MoveToStep, CaretStep DEF Left
<1>4. CASE Right
  <2> DEFINE b == IF IsEmpty THEN NextBoundary(text, Cursor) ELSE selection[2]
  <2>1. b \in CharBoundaries(text) /\ MoveTo(b)
    BY <1>4, CaretFacts DEF Right
  <2> HIDE DEF b
  <2> QED
    BY <1>2, <1>4, <2>1, MoveToStep, CaretStep DEF Right
<1>5. CASE SelectLeft
  BY <1>2, <1>5, CaretFacts, SelectToStep, CaretStep DEF SelectLeft
<1>6. CASE SelectRight
  BY <1>2, <1>6, CaretFacts, SelectToStep, CaretStep DEF SelectRight
<1>7. CASE SelectAll
  <2>1. 0 <= Bytes(text)
    BY <1>1, CountFacts
  <2>2. Good(text, <<0, Bytes(text)>>)
    BY <1>1, <2>1, CaretFacts, GoodRange
  <2>3. Good(text, selection') /\ reversed' \in BOOLEAN
    BY <1>7, <2>2 DEF SelectAll
  <2> QED
    BY <1>2, <1>7, <2>3, CaretStep DEF SelectAll
<1>8. CASE Home
  BY <1>2, <1>8, CaretFacts, MoveToStep, CaretStep DEF Home
<1>9. CASE End
  BY <1>2, <1>9, CaretFacts, MoveToStep, CaretStep DEF End
<1> QED
  BY <1>3, <1>4, <1>5, <1>6, <1>7, <1>8, <1>9

LEMMA MouseStep ==
  ASSUME IInv, MouseDown \/ MouseMove \/ MouseUp
  PROVE  IInv'
<1>1. CASE MouseDown
  <2>1. PICK b \in Hits[text] : MoveTo(b) \/ SelectTo(b)
    BY <1>1 DEF MouseDown
  <2>2. b \in CharBoundaries(text)
    BY CaretFacts
  <2> QED
    BY <1>1, <2>1, <2>2, MoveToStep, SelectToStep, CaretStep DEF MouseDown
<1>2. CASE MouseMove
  <2>1. PICK b \in Hits[text] : SelectTo(b)
    BY <1>2 DEF MouseMove
  <2>2. b \in CharBoundaries(text) /\ selecting' \in BOOLEAN /\ CaretOnly
    BY <1>2, CaretFacts DEF MouseMove, OnlyCaret, IInv, OthersAreSound
  <2> QED
    BY <2>1, <2>2, SelectToStep, CaretStep
<1>3. CASE MouseUp
  <2>1. CaretOnly /\ selection' = selection /\ reversed' = reversed /\ selecting' \in BOOLEAN
    BY <1>3 DEF MouseUp, CaretOnly, state, edited
  <2> QED
    BY <2>1, CaretStep DEF IInv, DraftIsSound
<1> QED
  BY <1>1, <1>2, <1>3

(* replace, for any sound range and snapshot. *)
LEMMA ReplaceStep ==
  ASSUME IInv, NEW range, Good(text, range), NEW new \in Seq(Chars),
         NEW sel, Good(text, sel), NEW back \in BOOLEAN,
         Replace(range, new, sel, back), OthersAreSound'
  PROVE  IInv'
<1>1. /\ text \in Texts /\ undo \in Seq(GoodSnapshots) /\ Len(undo) < MaxEdits
      /\ composition = None \/ composition \in GoodSnapshots
  BY DEF IInv, DraftIsSound, HistoryIsSound, CompositionIsSound, Replace, Room
<1> DEFINE x == Spliced(range, new)
<1>2. text' = x /\ Len(x) <= MaxLength
  BY DEF Replace
<1> HIDE DEF x
<1>3. /\ x \in Texts /\ new \in Texts
      /\ \A b \in CharBoundaries(new) : range[1] + b \in CharBoundaries(x)
  BY <1>1, <1>2, SplicedFacts DEF x
<1>4. DraftIsSound'
  <2> DEFINE cursor == range[1] + Bytes(new)
  <2>1. cursor \in CharBoundaries(x)
    BY <1>3, BoundaryFacts
  <2>2. selection' = <<cursor, cursor>> /\ reversed' = FALSE
    BY DEF Replace
  <2> HIDE DEF cursor
  <2>3. cursor <= cursor
    BY <1>3, <2>1, BoundaryFacts
  <2>4. Good(x, <<cursor, cursor>>)
    BY <1>3, <2>1, <2>3, GoodRange
  <2> QED
    BY <1>2, <1>3, <2>2, <2>4 DEF DraftIsSound
<1>5. HistoryIsSound'
  <2> DEFINE fresh == [text |-> text, selection |-> sel, reversed |-> back]
             s == IF composition # None THEN composition ELSE fresh
  <2>1. fresh \in GoodSnapshots
    BY <1>1, SnapshotIsGood
  <2>2. undo' = Append(undo, s) /\ redo' = <<>>
    BY DEF Replace, Recorded
  <2> HIDE DEF fresh
  <2>3. s \in GoodSnapshots
    BY <1>1, <2>1
  <2> HIDE DEF s
  <2>4. undo' \in Seq(GoodSnapshots) /\ Len(undo') = Len(undo) + 1
    BY <1>1, <2>2, <2>3, PushFacts
  <2>5. <<>> \in Seq(GoodSnapshots) /\ Len(<<>>) = 0 /\ Len(undo) \in Nat
    BY <1>1, EmptySeq, LenProperties
  <2> QED
    BY <1>1, <2>2, <2>4, <2>5, ComposerConstants DEF HistoryIsSound
<1>6. CompositionIsSound'
  BY DEF Replace, Recorded, CompositionIsSound
<1> QED
  BY <1>4, <1>5, <1>6 DEF IInv

LEMMA EraseStep ==
  ASSUME IInv, Backspace \/ Delete
  PROVE  IInv'
<1>1. text \in Texts /\ Good(text, selection) /\ reversed \in BOOLEAN
  BY DEF IInv, DraftIsSound
<1>2. PICK b \in CharBoundaries(text) : Erase(b) /\ Keyboard
  BY CaretFacts DEF Backspace, Delete
<1> DEFINE e == IF IsEmpty THEN Extended(selection, reversed, b)
                ELSE [selection |-> selection, reversed |-> reversed]
<1>3. Good(text, e.selection) /\ e.reversed \in BOOLEAN
  BY <1>1, ExtendedFacts
<1>4. Replace(Preferred(e.selection), <<>>, e.selection, e.reversed)
  BY <1>2 DEF Erase
<1> DEFINE sel == e.selection
           back == e.reversed
<1> HIDE DEF e
<1>5. <<>> \in Seq(Chars)
  BY EmptySeq
<1>6. OthersAreSound'
  BY <1>2 DEF IInv, OthersAreSound, Keyboard
<1> HIDE DEF sel, back
<1>7. Good(text, sel) /\ back \in BOOLEAN /\ Replace(Preferred(sel), <<>>, sel, back)
  BY <1>3, <1>4 DEF sel, back
<1>8. Good(text, Preferred(sel))
  BY <1>7, PreferredIsGood
<1> QED
  BY <1>5, <1>6, <1>7, <1>8, ReplaceStep

LEMMA EditStep ==
  ASSUME IInv, Insert \/ Paste \/ Cut
  PROVE  IInv'
<1>1. /\ Good(text, selection) /\ reversed \in BOOLEAN /\ <<>> \in Seq(Chars)
      /\ Good(text, Preferred(selection))
  BY PreferredIsGood, EmptySeq DEF IInv, DraftIsSound
<1>2. CASE Insert
  <2>1. PICK new \in Inserts, range \in ReplacementRanges :
          Replace(range, new, selection, reversed)
    BY <1>2 DEF Insert
  <2>2. OthersAreSound'
    BY <1>2 DEF Insert, IInv, OthersAreSound, Keyboard
  <2>3. new \in Seq(Chars) /\ Good(text, range)
    BY InsertsFacts, ReplacementRangesAreGood
  <2> QED
    BY <1>1, <2>1, <2>2, <2>3, ReplaceStep
<1>3. CASE Paste
  <2>1. clipboard \in Seq(Chars)
    BY <1>3, TextFacts DEF Paste, IInv, OthersAreSound
  <2>2. OthersAreSound'
    BY <1>3 DEF Paste, IInv, OthersAreSound, Keyboard
  <2> QED
    BY <1>1, <1>3, <2>1, <2>2, ReplaceStep DEF Paste
<1>4. CASE Cut
  <2>1. OthersAreSound'
    BY <1>4, SelectedFacts DEF Cut, IInv, OthersAreSound
  <2> QED
    BY <1>1, <1>4, <2>1, ReplaceStep DEF Cut
<1> QED
  BY <1>2, <1>3, <1>4

(* An update of a composition: what is chosen lies in the new text. *)
LEMMA ComposeStep ==
  ASSUME IInv, NEW range, Good(text, range), NEW new \in Seq(Chars),
         NEW chosen \in UnitRanges[new], Compose(range, new, chosen), Keyboard
  PROVE  IInv'
<1>1. /\ text \in Texts /\ Good(text, selection) /\ reversed \in BOOLEAN
      /\ composition = None \/ composition \in GoodSnapshots
      /\ range[1] \in Nat
  BY GoodFacts DEF IInv, DraftIsSound, CompositionIsSound
<1> DEFINE x == Spliced(range, new)
<1>2. text' = x /\ Len(x) <= MaxLength
  BY DEF Compose
<1> HIDE DEF x
<1>3. /\ x \in Texts /\ new \in Texts
      /\ \A b \in CharBoundaries(new) : range[1] + b \in CharBoundaries(x)
  BY <1>1, <1>2, SplicedFacts DEF x
<1>4. /\ chosen[1] \in CharBoundaries(new) /\ chosen[2] \in CharBoundaries(new)
      /\ chosen[1] \in Nat /\ chosen[2] \in Nat /\ chosen[1] <= chosen[2]
  <2>1. Good(new, chosen)
    BY <1>3, UnitRangesAreGood
  <2> QED
    BY <1>3, <2>1, GoodFacts
<1>5. DraftIsSound'
  <2> DEFINE a == range[1] + chosen[1]
             b == range[1] + chosen[2]
  <2>1. a \in CharBoundaries(x) /\ b \in CharBoundaries(x) /\ a <= b
    BY <1>1, <1>3, <1>4
  <2>2. selection' = <<a, b>> /\ reversed' = FALSE
    BY DEF Compose
  <2> HIDE DEF a, b
  <2>3. Good(x, <<a, b>>)
    BY <1>3, <2>1, GoodRange
  <2> QED
    BY <1>2, <1>3, <2>2, <2>3 DEF DraftIsSound
<1>6. marked' = None \/ Good(text', marked')
  <2> DEFINE a == range[1]
             b == range[1] + Bytes(new)
  <2>1. a \in CharBoundaries(x) /\ b \in CharBoundaries(x) /\ a <= b
    <3>1. 0 \in CharBoundaries(new) /\ Bytes(new) \in CharBoundaries(new)
      BY <1>3, BoundaryFacts
    <3>2. Bytes(new) \in Nat /\ range[1] + 0 = range[1]
      BY <1>1, <1>3, CountFacts
    <3> QED
      BY <1>1, <1>3, <3>1, <3>2
  <2>2. marked' = None \/ marked' = <<a, b>>
    BY DEF Compose
  <2> HIDE DEF a, b
  <2>3. Good(x, <<a, b>>)
    BY <1>3, <2>1, GoodRange
  <2> QED
    BY <1>2, <2>2, <2>3
<1>7. composition' \in GoodSnapshots /\ redo' = <<>> /\ undo' = undo
  <2>1. Snapshot \in GoodSnapshots
    BY <1>1, SnapshotIsGood DEF Snapshot
  <2> QED
    BY <1>1, <2>1 DEF Compose, Begun, IInv, CompositionIsSound
<1>8. CompositionIsSound'
  BY <1>6, <1>7, SnapshotFacts DEF CompositionIsSound
<1>9. HistoryIsSound'
  <2>1. <<>> \in Seq(GoodSnapshots) /\ Len(<<>>) = 0
    BY EmptySeq
  <2>2. Len(undo) \in Nat /\ Len(redo) \in Nat /\ Len(undo) + Len(redo) <= MaxEdits
    BY LenProperties DEF IInv, HistoryIsSound
  <2> QED
    BY <1>7, <2>1, <2>2, ComposerConstants DEF IInv, HistoryIsSound
<1>10. OthersAreSound'
  BY DEF IInv, OthersAreSound, Keyboard
<1> QED
  BY <1>5, <1>8, <1>9, <1>10 DEF IInv

LEMMA ReplaceAndMarkStep ==
  ASSUME IInv, ReplaceAndMark
  PROVE  IInv'
<1>1. PICK new \in Inserts, range \in ReplacementRanges :
        \E chosen \in UnitRanges[new] : Compose(range, new, chosen)
  BY DEF ReplaceAndMark
<1>2. PICK chosen \in UnitRanges[new] : Compose(range, new, chosen)
  BY <1>1
<1>3. new \in Seq(Chars) /\ Good(text, range)
  BY InsertsFacts, ReplacementRangesAreGood
<1> QED
  BY <1>2, <1>3, ComposeStep DEF ReplaceAndMark

LEMMA UnmarkStep ==
  ASSUME IInv, Unmark
  PROVE  IInv'
<1>1. DraftIsSound'
  BY DEF Unmark, edited, IInv, DraftIsSound
<1>2. OthersAreSound'
  BY DEF Unmark, Keyboard, IInv, OthersAreSound
<1>3. CompositionIsSound'
  BY DEF Unmark, CompositionIsSound
<1>4. HistoryIsSound'
  <2>1. CASE composition # None
    <3>1. /\ composition \in GoodSnapshots /\ undo \in Seq(GoodSnapshots)
          /\ Len(undo) < MaxEdits
      BY <2>1 DEF IInv, CompositionIsSound, HistoryIsSound, Unmark, Room
    <3>2. undo' = Append(undo, composition) /\ redo' = <<>>
      BY <2>1 DEF Unmark, Recorded
    <3>3. undo' \in Seq(GoodSnapshots) /\ Len(undo') = Len(undo) + 1
      BY <3>1, <3>2, PushFacts
    <3>4. <<>> \in Seq(GoodSnapshots) /\ Len(<<>>) = 0 /\ Len(undo) \in Nat
      BY <3>1, EmptySeq, LenProperties
    <3> QED
      BY <3>1, <3>2, <3>3, <3>4, ComposerConstants DEF HistoryIsSound
  <2>2. CASE composition = None
    BY <2>2 DEF Unmark, IInv, HistoryIsSound
  <2> QED
    BY <2>1, <2>2
<1> QED
  BY <1>1, <1>2, <1>3, <1>4 DEF IInv

(* Undo and redo restore a snapshot from one stack, and put the draft they   *)
(* replace on the other.                                                     *)
LEMMA RestoreStep ==
  ASSUME IInv, NEW s \in GoodSnapshots, Restore(s), Keyboard, HistoryIsSound'
  PROVE  IInv'
<1>1. DraftIsSound'
  BY SnapshotFacts DEF Restore, DraftIsSound
<1>2. CompositionIsSound'
  BY DEF Restore, CompositionIsSound
<1>3. OthersAreSound'
  BY DEF Keyboard, IInv, OthersAreSound
<1> QED
  BY <1>1, <1>2, <1>3 DEF IInv

LEMMA UndoStep ==
  ASSUME IInv, Undo
  PROVE  IInv'
<1>1. /\ undo \in Seq(GoodSnapshots) /\ redo \in Seq(GoodSnapshots) /\ undo # <<>>
      /\ Len(undo) + Len(redo) <= MaxEdits /\ Len(redo) \in Nat
      /\ undo' = Front(undo) /\ redo' = Append(redo, Snapshot)
  BY LenProperties DEF IInv, HistoryIsSound, Undo
<1>2. Snapshot \in GoodSnapshots
  BY SnapshotIsGood DEF Snapshot, IInv, DraftIsSound
<1>3. /\ Last(undo) \in GoodSnapshots /\ Len(undo) \in Nat \ {0}
      /\ undo' \in Seq(GoodSnapshots) /\ Len(undo') = Len(undo) - 1
  BY <1>1, PopFacts
<1>4. redo' \in Seq(GoodSnapshots) /\ Len(redo') = Len(redo) + 1
  BY <1>1, <1>2, PushFacts
<1>5. HistoryIsSound'
  BY <1>1, <1>3, <1>4, ComposerConstants DEF HistoryIsSound
<1> QED
  BY <1>3, <1>5, RestoreStep DEF Undo

LEMMA RedoStep ==
  ASSUME IInv, Redo
  PROVE  IInv'
<1>1. /\ undo \in Seq(GoodSnapshots) /\ redo \in Seq(GoodSnapshots) /\ redo # <<>>
      /\ Len(undo) + Len(redo) <= MaxEdits /\ Len(undo) \in Nat
      /\ redo' = Front(redo) /\ undo' = Append(undo, Snapshot)
  BY LenProperties DEF IInv, HistoryIsSound, Redo
<1>2. Snapshot \in GoodSnapshots
  BY SnapshotIsGood DEF Snapshot, IInv, DraftIsSound
<1>3. /\ Last(redo) \in GoodSnapshots /\ Len(redo) \in Nat \ {0}
      /\ redo' \in Seq(GoodSnapshots) /\ Len(redo') = Len(redo) - 1
  BY <1>1, PopFacts
<1>4. undo' \in Seq(GoodSnapshots) /\ Len(undo') = Len(undo) + 1
  BY <1>1, <1>2, PushFacts
<1>5. HistoryIsSound'
  BY <1>1, <1>3, <1>4, ComposerConstants DEF HistoryIsSound
<1> QED
  BY <1>3, <1>5, RestoreStep DEF Redo

LEMMA CopySubmitStep ==
  ASSUME IInv, Copy \/ Submit
  PROVE  IInv'
<1>1. OthersAreSound'
  <2>1. CASE Copy
    BY <2>1, SelectedFacts DEF Copy, IInv, OthersAreSound
  <2>2. CASE Submit
    <3>1. submit_attempts' \in 0..MaxSubmits
      BY <2>2, ComposerConstants DEF Submit, IInv, OthersAreSound
    <3> QED
      BY <2>2, <3>1 DEF Submit, IInv, OthersAreSound
  <2> QED
    BY <2>1, <2>2
<1>2. state' = state
  BY DEF Copy, Submit
<1>3. (DraftIsSound /\ CompositionIsSound /\ HistoryIsSound)'
  BY <1>2 DEF state, edited, IInv, DraftIsSound, CompositionIsSound, HistoryIsSound
<1> QED
  BY <1>1, <1>3 DEF IInv

LEMMA NextIsSound == IInv /\ [Next]_vars => IInv'
<1> SUFFICES ASSUME IInv, [Next]_vars PROVE IInv'
  OBVIOUS
<1>1. CASE Left \/ Right \/ SelectLeft \/ SelectRight \/ SelectAll \/ Home \/ End
  BY <1>1, CaretKeysStep
<1>2. CASE MouseDown \/ MouseMove \/ MouseUp
  BY <1>2, MouseStep
<1>3. CASE Backspace \/ Delete
  BY <1>3, EraseStep
<1>4. CASE Insert \/ Cut \/ Paste
  BY <1>4, EditStep
<1>5. CASE Copy \/ Submit
  BY <1>5, CopySubmitStep
<1>6. CASE ReplaceAndMark
  BY <1>6, ReplaceAndMarkStep
<1>7. CASE Unmark
  BY <1>7, UnmarkStep
<1>8. CASE Undo
  BY <1>8, UndoStep
<1>9. CASE Redo
  BY <1>9, RedoStep
<1>10. CASE UNCHANGED vars
  BY <1>10 DEF vars, state, edited, IInv, DraftIsSound, CompositionIsSound, HistoryIsSound,
                OthersAreSound
<1> QED
  BY <1>1, <1>2, <1>3, <1>4, <1>5, <1>6, <1>7, <1>8, <1>9, <1>10 DEF Next

(* What every state of the composer is like: its offsets are boundaries of   *)
(* the texts they are kept for, marked text is composed, and a composition   *)
(* has nothing to redo.                                                      *)
THEOREM Invariance == Spec => []IInv
BY InitIsSound, NextIsSound, PTL DEF Spec

-----------------------------------------------------------------------------
(* What follows for every state. *)

(* Every variable has its type: text, offsets, flags, clipboard and counts   *)
(* stay in their sets, and the history within its bound.                     *)
THEOREM TypeCorrect == Spec => []TypeOK
<1>1. IInv => TypeOK
  <2> SUFFICES ASSUME IInv PROVE TypeOK
    OBVIOUS
  <2>1. text \in Texts /\ selection \in Offsets \X Offsets /\ reversed \in BOOLEAN
    BY DEF IInv, DraftIsSound, Good
  <2>2. marked = None \/ IsRange(text, marked)
    BY DEF IInv, CompositionIsSound, Good
  <2>3. composition = None \/ IsRange(composition.text, composition.selection)
    BY DEF IInv, CompositionIsSound, GoodSnapshots
  <2> QED
    BY <2>1, <2>2, <2>3 DEF TypeOK, IInv, HistoryIsSound, OthersAreSound
<1> QED
  BY <1>1, Invariance, PTL

(* The selection, and that of every snapshot undo and redo may restore, lies *)
(* on character boundaries of the text it is used to slice.                  *)
THEOREM SelectionsCanBeSliced == Spec => []SelectionsAreSliceable
<1>1. IInv => SelectionsAreSliceable
  <2> SUFFICES ASSUME IInv PROVE SelectionsAreSliceable
    OBVIOUS
  <2>1. IsRange(text, selection)
    BY DEF IInv, DraftIsSound, Good
  <2>2. ASSUME NEW h \in Seq(GoodSnapshots), NEW i \in DOMAIN h
        PROVE  IsRange(h[i].text, h[i].selection)
    <3>1. i \in 1..Len(h)
      BY LenProperties
    <3>2. h[i] \in GoodSnapshots
      BY <3>1, ElementOfSeq
    <3> QED
      BY <3>2 DEF GoodSnapshots
  <2> QED
    BY <2>1, <2>2 DEF SelectionsAreSliceable, IInv, HistoryIsSound
<1> QED
  BY <1>1, Invariance, PTL

(* Text is marked only while a composition is under way, which is what keeps *)
(* Enter from submitting it.                                                 *)
THEOREM MarkedIsComposed == Spec => []MarkedTextIsComposed
<1>1. IInv => MarkedTextIsComposed
  BY DEF IInv, CompositionIsSound, MarkedTextIsComposed
<1> QED
  BY <1>1, Invariance, PTL

(* An offset told to the input method in UTF-16 units comes back as the same *)
(* offset: a boundary has a unit of its own, and the last boundary at or     *)
(* before that unit is the boundary itself.                                  *)
LEMMA UnitsRoundTrip ==
  ASSUME NEW t \in Texts, NEW b \in CharBoundaries(t)
  PROVE  FromUtf16(t, ToUtf16(t, b)) = b
<1> DEFINE k == CharsBefore(t, b)
<1>1. k \in 0..Len(t) /\ At(t, k) = b
  BY BoundaryFacts
<1>2. ToUtf16(t, b) = UnitAt(t, k)
  BY DEF ToUtf16, UnitAt
<1> HIDE DEF k
<1>3. UnitAt(t, k) \in Nat
  BY <1>1, AtType
<1> DEFINE u == ToUtf16(t, b)
<1>4. u \in Nat /\ u = UnitAt(t, k)
  BY <1>2, <1>3
<1> HIDE DEF u
<1>5. FromUtf16(t, u) = At(t, k)
  BY <1>1, <1>4, FromUtf16Facts
<1> QED
  BY <1>1, <1>5 DEF u

(* Selection, marked text and every range the input method may ask for name  *)
(* the same characters when they come back to the composer.                  *)
THEOREM RangesRoundTrip == Spec => []InputMethodNamesTheSameText
<1>1. IInv => InputMethodNamesTheSameText
  <2> SUFFICES ASSUME IInv,
                      NEW range \in {selection} \cup (IF marked = None THEN {} ELSE {marked})
                                      \cup UnitRanges[text],
                      NEW b \in {range[1], range[2]}
               PROVE  FromUtf16(text, ToUtf16(text, b)) = b
    BY DEF InputMethodNamesTheSameText
  <2>1. text \in Texts
    BY DEF IInv, DraftIsSound
  <2>2. Good(text, range)
    <3>1. CASE range = selection
      BY <3>1 DEF IInv, DraftIsSound
    <3>2. CASE marked # None /\ range = marked
      BY <3>2 DEF IInv, CompositionIsSound
    <3>3. CASE range \in UnitRanges[text]
      BY <2>1, <3>3, UnitRangesAreGood
    <3> QED
      BY <3>1, <3>2, <3>3
  <2>3. b \in CharBoundaries(text)
    BY <2>1, <2>2, GoodFacts
  <2> QED
    BY <2>1, <2>3, UnitsRoundTrip
<1> QED
  BY <1>1, Invariance, PTL

-----------------------------------------------------------------------------
(* Undo and redo walk along the timeline. *)

Past(h) == [i \in DOMAIN h |-> h[i].text]
Walk(u, x, r) == Past(u) \o <<x>> \o Reverse(Past(r))

LEMMA SequenceLength ==
  ASSUME NEW S, NEW n \in Nat, NEW s \in [1..n -> S]
  PROVE  s \in Seq(S) /\ Len(s) = n
<1>1. s \in Seq(S)
  BY SeqDef
<1>2. DOMAIN s = 1..Len(s) /\ Len(s) \in Nat /\ DOMAIN s = 1..n
  BY <1>1, LenProperties
<1> DEFINE m == Len(s)
<1> HIDE DEF m
<1>3. m \in Nat /\ 1..m = 1..n
  BY <1>2 DEF m
<1>4. m = n
  <2>1. \A i \in Nat : i \in 1..m <=> i \in 1..n
    BY <1>3
  <2>2. CASE m < n
    BY <1>3, <2>1, <2>2
  <2>3. CASE n < m
    BY <1>3, <2>1, <2>3
  <2> QED
    BY <1>3, <2>2, <2>3
<1> QED
  BY <1>1, <1>4 DEF m

LEMMA PastFacts ==
  ASSUME NEW h \in Seq(GoodSnapshots)
  PROVE  /\ Past(h) \in Seq(Texts) /\ Len(Past(h)) = Len(h) /\ Len(h) \in Nat
         /\ \A i \in 1..Len(h) : Past(h)[i] = h[i].text
<1>1. Len(h) \in Nat /\ DOMAIN h = 1..Len(h)
  BY LenProperties
<1>2. \A i \in 1..Len(h) : h[i].text \in Texts
  BY ElementOfSeq, SnapshotFacts
<1> DEFINE p == Past(h)
<1>3. p \in [1..Len(h) -> Texts] /\ \A i \in 1..Len(h) : p[i] = h[i].text
  BY <1>1, <1>2 DEF Past
<1> HIDE DEF p
<1>4. p \in Seq(Texts) /\ Len(p) = Len(h)
  BY <1>1, <1>3, SequenceLength
<1> QED
  BY <1>1, <1>3, <1>4 DEF p

LEMMA ReverseFacts ==
  ASSUME NEW S, NEW s \in Seq(S)
  PROVE  /\ Reverse(s) \in Seq(S) /\ Len(Reverse(s)) = Len(s)
         /\ \A i \in 1..Len(s) : Reverse(s)[i] = s[Len(s) - i + 1]
<1> DEFINE n == Len(s)
           r == Reverse(s)
<1>1. n \in Nat /\ \A i \in 1..n : s[i] \in S
  BY LenProperties, ElementOfSeq
<1> HIDE DEF n
<1>2. \A i \in 1..n : n - i + 1 \in 1..n
  BY <1>1
<1>3. r \in [1..n -> S] /\ \A i \in 1..n : r[i] = s[n - i + 1]
  BY <1>1, <1>2 DEF Reverse, n
<1> HIDE DEF r
<1>4. r \in Seq(S) /\ Len(r) = n
  BY <1>1, <1>3, SequenceLength
<1> QED
  BY <1>3, <1>4 DEF n, r

IsWalk(w, u, x, r) ==
  /\ w \in Seq(Texts) /\ Len(w) = Len(u) + 1 + Len(r)
  /\ \A i \in 1..Len(u) : w[i] = u[i].text
  /\ w[Len(u) + 1] = x
  /\ \A i \in 1..Len(r) : w[Len(u) + 1 + Len(r) - i + 1] = r[i].text

LEMMA WalkFacts ==
  ASSUME NEW u \in Seq(GoodSnapshots), NEW r \in Seq(GoodSnapshots), NEW x \in Texts
  PROVE  IsWalk(Walk(u, x, r), u, x, r)
<1> DEFINE p == Past(u)
           q == Reverse(Past(r))
           c == p \o <<x>>
           w == c \o q
           m == Len(u)
           n == Len(r)
<1>1. p \in Seq(Texts) /\ Len(p) = m /\ m \in Nat /\ \A i \in 1..m : p[i] = u[i].text
  BY PastFacts
<1>2. /\ q \in Seq(Texts) /\ Len(q) = n /\ n \in Nat
      /\ \A i \in 1..n : q[i] = Past(r)[n - i + 1]
  BY PastFacts, ReverseFacts
<1>3. \A i \in 1..n : Past(r)[i] = r[i].text
  BY PastFacts
<1> HIDE DEF p, q, m, n
<1>4. <<x>> \in Seq(Texts) /\ Len(<<x>>) = 1 /\ <<x>>[1] = x
  OBVIOUS
<1>5. /\ c \in Seq(Texts) /\ Len(c) = m + 1
      /\ \A i \in 1..(m + 1) : c[i] = IF i <= m THEN p[i] ELSE <<x>>[i - m]
  BY <1>1, <1>4, ConcatProperties
<1>6. (\A i \in 1..m : c[i] = p[i]) /\ c[m + 1] = x
  BY <1>1, <1>4, <1>5
<1> HIDE DEF c
<1>7. /\ w \in Seq(Texts) /\ Len(w) = m + 1 + n
      /\ \A i \in 1..(m + 1 + n) : w[i] = IF i <= m + 1 THEN c[i] ELSE q[i - (m + 1)]
  <2>1. /\ c \o q \in Seq(Texts) /\ Len(c \o q) = Len(c) + Len(q)
        /\ \A i \in 1..(Len(c) + Len(q)) :
             (c \o q)[i] = IF i <= Len(c) THEN c[i] ELSE q[i - Len(c)]
    BY <1>2, <1>5, ConcatProperties
  <2> QED
    BY <1>2, <1>5, <2>1
<1> HIDE DEF w
<1>8. \A i \in 1..m : w[i] = u[i].text
  <2> SUFFICES ASSUME NEW i \in 1..m PROVE w[i] = u[i].text
    OBVIOUS
  <2>1. i \in 1..(m + 1 + n) /\ i <= m + 1
    BY <1>1, <1>2
  <2> QED
    BY <1>1, <1>6, <1>7, <2>1
<1>9. w[m + 1] = x
  BY <1>1, <1>2, <1>6, <1>7
<1>10. \A i \in 1..n : w[m + 1 + n - i + 1] = r[i].text
  <2> SUFFICES ASSUME NEW i \in 1..n PROVE w[m + 1 + n - i + 1] = r[i].text
    OBVIOUS
  <2> DEFINE k == m + 1 + n - i + 1
             l == n - i + 1
  <2>1. /\ k \in 1..(m + 1 + n) /\ ~ (k <= m + 1) /\ k - (m + 1) = l
        /\ l \in 1..n /\ n - l + 1 = i
    BY <1>1, <1>2
  <2> HIDE DEF k, l
  <2>2. w[k] = q[l]
    BY <1>7, <2>1
  <2>3. q[l] = r[i].text
    BY <1>2, <1>3, <2>1
  <2> QED
    BY <2>2, <2>3 DEF k
<1> QED
  BY <1>7, <1>8, <1>9, <1>10 DEF IsWalk, Walk, w, c, p, q, m, n

IsPush(pushed, h, e) ==
  /\ Len(pushed) = Len(h) + 1 /\ pushed[Len(pushed)] = e
  /\ \A i \in 1..Len(h) : pushed[i] = h[i]

LEMMA PushedEntry ==
  ASSUME NEW h \in Seq(GoodSnapshots), NEW e \in GoodSnapshots, NEW pushed, pushed = Append(h, e)
  PROVE  IsPush(pushed, h, e)
BY PushFacts DEF IsPush, Last

(* What is popped was pushed on the rest. *)
LEMMA PoppedEntry ==
  ASSUME NEW h \in Seq(GoodSnapshots), h # <<>>, NEW rest, rest = Front(h)
  PROVE  IsPush(h, rest, Last(h))
<1>1. /\ Last(h) = h[Len(h)] /\ Len(h) \in Nat \ {0} /\ Len(rest) = Len(h) - 1
      /\ \A i \in 1..(Len(h) - 1) : rest[i] = h[i]
  BY PopFacts
<1> QED
  BY <1>1 DEF IsPush

(* Moving the present one entry back leaves the timeline as it was. *)
LEMMA StepBack ==
  ASSUME NEW u \in Seq(GoodSnapshots), NEW r \in Seq(GoodSnapshots), NEW x \in Texts,
         NEW v \in Seq(GoodSnapshots), NEW s \in Seq(GoodSnapshots), NEW y \in Texts,
         NEW d, IsPush(u, v, d), d.text = y, NEW e, IsPush(s, r, e), e.text = x
  PROVE  Walk(u, x, r) = Walk(v, y, s)
<1>1. /\ Len(u) = Len(v) + 1 /\ \A i \in 1..Len(v) : u[i] = v[i]
      /\ Len(s) = Len(r) + 1 /\ \A i \in 1..Len(r) : s[i] = r[i]
      /\ u[Len(u)].text = y /\ s[Len(s)].text = x
  BY DEF IsPush
<1> DEFINE w == Walk(u, x, r)
           z == Walk(v, y, s)
           m == Len(v)
           n == Len(r)
<1>2. m \in Nat /\ n \in Nat /\ Len(u) = m + 1 /\ Len(s) = n + 1
  BY <1>1, LenProperties
<1>3. IsWalk(w, u, x, r) /\ IsWalk(z, v, y, s)
  BY WalkFacts
<1> HIDE DEF w, z
<1>4. /\ w \in Seq(Texts) /\ Len(w) = m + 1 + 1 + n
      /\ \A i \in 1..(m + 1) : w[i] = u[i].text
      /\ w[m + 1 + 1] = x
      /\ \A i \in 1..n : w[m + 1 + 1 + n - i + 1] = r[i].text
  BY <1>2, <1>3 DEF IsWalk
<1>5. /\ z \in Seq(Texts) /\ Len(z) = m + 1 + (n + 1)
      /\ \A i \in 1..m : z[i] = v[i].text
      /\ z[m + 1] = y
      /\ \A i \in 1..(n + 1) : z[m + 1 + (n + 1) - i + 1] = s[i].text
  BY <1>2, <1>3 DEF IsWalk
<1>6. ASSUME NEW i \in 1..Len(w) PROVE w[i] = z[i]
  <2>1. i \in Nat /\ i >= 1 /\ i <= m + 1 + 1 + n
    BY <1>2, <1>4
  <2>2. CASE i <= m
    <3>1. i \in 1..m /\ i \in 1..(m + 1)
      BY <1>2, <2>1, <2>2
    <3>2. u[i] = v[i]
      BY <1>1, <3>1
    <3> QED
      BY <1>4, <1>5, <3>1, <3>2
  <2>3. CASE i = m + 1
    <3>1. i \in 1..(m + 1) /\ u[i].text = y
      BY <1>1, <1>2, <2>3
    <3> QED
      BY <1>4, <1>5, <2>3, <3>1
  <2>4. CASE i = m + 1 + 1
    <3>1. n + 1 \in 1..(n + 1) /\ m + 1 + (n + 1) - (n + 1) + 1 = i /\ s[n + 1].text = x
      BY <1>1, <1>2, <2>4
    <3>2. z[i] = s[n + 1].text
      BY <1>5, <3>1
    <3> QED
      BY <1>4, <2>4, <3>1, <3>2
  <2>5. CASE i > m + 1 + 1
    <3> DEFINE k == m + 1 + 1 + n - i + 1
    <3>1. /\ k \in 1..n /\ k \in 1..(n + 1)
          /\ m + 1 + 1 + n - k + 1 = i /\ m + 1 + (n + 1) - k + 1 = i
      BY <1>2, <2>1, <2>5
    <3> HIDE DEF k
    <3>2. w[i] = r[k].text
      BY <1>4, <3>1
    <3>3. z[i] = s[k].text
      BY <1>5, <3>1
    <3>4. s[k] = r[k]
      BY <1>1, <3>1
    <3> QED
      BY <3>2, <3>3, <3>4
  <2>6. i <= m \/ i = m + 1 \/ i = m + 1 + 1 \/ i > m + 1 + 1
    BY <1>2, <2>1
  <2> QED
    BY <2>2, <2>3, <2>4, <2>5, <2>6
<1>7. Len(w) = Len(z)
  BY <1>2, <1>4, <1>5
<1>8. w = z
  BY <1>4, <1>5, <1>6, <1>7, SeqEqual
<1> QED
  BY <1>8 DEF w, z

(* Undo and redo change what is past and what is to come, never the order or *)
(* the texts of the timeline they walk.                                      *)
THEOREM TimelineIsKept == Spec => HistoryIsWalked
<1>1. IInv /\ IInv' /\ (Undo \/ Redo) => Timeline' = Timeline
  <2> SUFFICES ASSUME IInv, IInv', Undo \/ Redo PROVE Timeline' = Timeline
    OBVIOUS
  <2>1. /\ undo \in Seq(GoodSnapshots) /\ redo \in Seq(GoodSnapshots) /\ text \in Texts
        /\ undo' \in Seq(GoodSnapshots) /\ redo' \in Seq(GoodSnapshots) /\ text' \in Texts
        /\ Len(undo) \in Nat /\ Len(redo) \in Nat
    BY LenProperties DEF IInv, HistoryIsSound, DraftIsSound
  <2>2. /\ Timeline = Walk(undo, text, redo)
        /\ Timeline' = Walk(undo', text', redo')
    BY DEF Timeline, Walk, Past
  <2>3. Snapshot \in GoodSnapshots /\ Snapshot.text = text
    BY SnapshotIsGood DEF Snapshot, IInv, DraftIsSound
  <2>4. CASE Undo
    <3>1. /\ undo # <<>> /\ undo' = Front(undo) /\ redo' = Append(redo, Snapshot)
          /\ text' = Last(undo).text
      BY <2>4 DEF Undo, Restore
    <3>2. IsPush(undo, undo', Last(undo)) /\ IsPush(redo', redo, Snapshot)
      BY <2>1, <2>3, <3>1, PoppedEntry, PushedEntry
    <3> DEFINE d == Last(undo)
               e == Snapshot
    <3>3. IsPush(undo, undo', d) /\ d.text = text' /\ IsPush(redo', redo, e) /\ e.text = text
      BY <2>3, <3>1, <3>2
    <3> HIDE DEF d, e
    <3>4. Walk(undo, text, redo) = Walk(undo', text', redo')
      BY <2>1, <3>3, StepBack
    <3> QED
      BY <2>2, <3>4
  <2>5. CASE Redo
    <3>1. /\ redo # <<>> /\ redo' = Front(redo) /\ undo' = Append(undo, Snapshot)
          /\ text' = Last(redo).text
      BY <2>5 DEF Redo, Restore
    <3>2. IsPush(redo, redo', Last(redo)) /\ IsPush(undo', undo, Snapshot)
      BY <2>1, <2>3, <3>1, PoppedEntry, PushedEntry
    <3> DEFINE d == Last(redo)
               e == Snapshot
    <3>3. IsPush(undo', undo, e) /\ e.text = text /\ IsPush(redo, redo', d) /\ d.text = text'
      BY <2>3, <3>1, <3>2
    <3> HIDE DEF d, e
    <3>4. Walk(undo', text', redo') = Walk(undo, text, redo)
      BY <2>1, <3>3, StepBack
    <3> QED
      BY <2>2, <3>4
  <2> QED
    BY <2>4, <2>5
<1>2. IInv /\ IInv' /\ [Next]_vars => [Undo \/ Redo => Timeline' = Timeline]_vars
  BY <1>1
<1> QED
  BY <1>2, Invariance, PTL DEF Spec, HistoryIsWalked

-----------------------------------------------------------------------------
(* A composition is one entry of the history. *)

LEMMA PushedLast ==
  ASSUME NEW S, NEW h \in Seq(S), NEW e \in S
  PROVE  Last(Append(h, e)) = e
<1> DEFINE p == Append(h, e)
<1>1. Len(p) = Len(h) + 1 /\ p[Len(h) + 1] = e
  BY AppendProperties
<1> HIDE DEF p
<1>2. Last(p) = e
  BY <1>1 DEF Last
<1> QED
  BY <1>2 DEF p

CompositionGoesOn ==
  /\ composition = None /\ composition' # None => composition' = Snapshot
  /\ composition # None /\ composition' # None => composition' = composition
  /\ composition # None /\ composition' = None /\ Len(undo') > Len(undo)
       => Last(undo') = composition

LEMMA CompositionEdited ==
  ASSUME IInv, NEW range, NEW new, NEW sel, NEW back, Replace(range, new, sel, back)
  PROVE  CompositionGoesOn
<1>1. composition' = None
  BY DEF Replace
<1>2. ASSUME composition # None PROVE Last(undo') = composition
  <2>1. undo' = Append(undo, composition)
    BY <1>2 DEF Replace, Recorded
  <2>2. undo \in Seq(GoodSnapshots) /\ composition \in GoodSnapshots
    BY <1>2 DEF IInv, HistoryIsSound, CompositionIsSound
  <2> QED
    BY <2>1, <2>2, PushedLast
<1> QED
  BY <1>1, <1>2 DEF CompositionGoesOn

(* Whether it is replaced, committed by the input method or unmarked, the    *)
(* draft from before the composition is what undo then restores.             *)
THEOREM CompositionsAreRecorded == Spec => CompositionsEndInHistory
<1>1. ASSUME IInv, [Next]_vars PROVE [CompositionGoesOn]_vars
  <2>1. CASE composition' = composition
    BY <2>1 DEF CompositionGoesOn
  <2>2. CASE \/ Left \/ Right \/ SelectLeft \/ SelectRight \/ SelectAll \/ Home \/ End
             \/ MouseDown \/ MouseMove \/ MouseUp \/ Copy \/ Submit \/ UNCHANGED vars
    <3>1. composition' = composition
      BY <2>2 DEF Left, Right, SelectLeft, SelectRight, SelectAll, Home, End, MouseDown,
                  MouseMove, MouseUp, Copy, Submit, OnlyCaret, CaretOnly, vars, state
    <3> QED
      BY <2>1, <3>1
  <2>3. CASE Backspace \/ Delete
    BY <1>1, <2>3, CompositionEdited DEF Backspace, Delete, Erase
  <2>4. CASE Insert
    <3>1. PICK new \in Inserts, range \in ReplacementRanges :
            Replace(range, new, selection, reversed)
      BY <2>4 DEF Insert
    <3> QED
      BY <1>1, <3>1, CompositionEdited
  <2>5. CASE Cut \/ Paste
    BY <1>1, <2>5, CompositionEdited DEF Cut, Paste
  <2>6. CASE ReplaceAndMark
    <3>1. Begun
      BY <2>6 DEF ReplaceAndMark, Compose
    <3>2. Snapshot # None
      BY <1>1, SnapshotIsGood, SnapshotFacts DEF Snapshot, IInv, DraftIsSound
    <3> QED
      BY <3>1, <3>2 DEF Begun, CompositionGoesOn
  <2>7. CASE Unmark
    <3>1. ASSUME composition # None PROVE Last(undo') = composition
      <4>1. undo' = Append(undo, composition)
        BY <2>7, <3>1 DEF Unmark, Recorded
      <4>2. undo \in Seq(GoodSnapshots) /\ composition \in GoodSnapshots
        BY <1>1, <3>1 DEF IInv, HistoryIsSound, CompositionIsSound
      <4> QED
        BY <4>1, <4>2, PushedLast
    <3> QED
      BY <2>7, <3>1 DEF Unmark, CompositionGoesOn
  <2>8. CASE Undo
    <3>1. composition' = None /\ undo # <<>> /\ undo' = Front(undo)
      BY <2>8 DEF Undo, Restore
    <3>2. Len(undo') = Len(undo) - 1 /\ Len(undo) \in Nat
      BY <1>1, <3>1, PopFacts DEF IInv, HistoryIsSound
    <3> QED
      BY <3>1, <3>2 DEF CompositionGoesOn
  <2>9. CASE Redo
    <3>1. composition' = None /\ composition = None
      BY <1>1, <2>9 DEF Redo, Restore, IInv, CompositionIsSound
    <3> QED
      BY <3>1 DEF CompositionGoesOn
  <2> QED
    BY <1>1, <2>2, <2>3, <2>4, <2>5, <2>6, <2>7, <2>8, <2>9 DEF Next
<1>2. Spec => [][CompositionGoesOn]_vars
  BY <1>1, Invariance, PTL DEF Spec
<1> QED
  BY <1>2 DEF CompositionsEndInHistory, CompositionGoesOn

-----------------------------------------------------------------------------
(* What is cut can be pasted back. *)

(* What the characters after the first j up to the first k are. *)
Part(t, j, k) == SubSeq(t, j + 1, k)

LEMMA SplicedBack ==
  ASSUME NEW t \in Texts, NEW j \in 0..Len(t), NEW k \in j..Len(t),
         NEW y, y = Splice(t, j, k, <<>>), NEW c, c = Part(t, j, k)
  PROVE  /\ y \in Texts /\ j \in 0..Len(y) /\ At(y, j) = At(t, j)
         /\ Splice(y, j, j, c) = t
<1> DEFINE n == Len(t)
           m == Len(y)
<1>1. n \in Nat /\ j \in Nat /\ k \in Nat /\ j <= k /\ k <= n /\ n <= MaxLength /\ MaxLength \in Nat
  BY TextFacts, ComposerConstants
<1>2. /\ c \in Texts /\ Len(c) = k - j /\ \A i \in 1..(k - j) : c[i] = t[j + i]
  BY PartFacts DEF Part
<1>3. <<>> \in Texts /\ Len(<<>>) = 0 /\ <<>> \in Seq(Chars)
  BY WholeText, TextFacts
<1>4. IsSplice(y, t, j, k, <<>>)
  BY <1>3, SpliceFacts
<1>5. /\ y \in Seq(Chars) /\ m = j + (n - k) /\ \A i \in 1..j : y[i] = t[i]
      /\ \A i \in 1..(n - k) : y[j + i] = t[k + i]
  <2>1. /\ y \in Seq(Chars) /\ m = j + 0 + (n - k) /\ \A i \in 1..j : y[i] = t[i]
        /\ \A i \in 1..(n - k) : y[j + 0 + i] = t[k + i]
    BY <1>3, <1>4 DEF IsSplice
  <2>2. \A i \in 1..(n - k) : j + 0 + i = j + i
    BY <1>1
  <2> QED
    BY <1>1, <2>1, <2>2
<1> HIDE DEF n, m
<1>6. y \in Texts
  <2>1. m <= MaxLength
    BY <1>1, <1>5
  <2> QED
    BY <1>5, <2>1, TextType DEF m
<1>7. j \in 0..m /\ j \in j..m
  BY <1>1, <1>5
<1>8. At(y, j) = At(t, j)
  <2>1. 0 \in 0..Len(<<>>) /\ At(<<>>, 0) = 0
    BY <1>3, AtEnds
  <2>2. At(y, j + 0) = At(t, j) + At(<<>>, 0)
    BY <1>3, <1>6, <2>1, SpliceOffsets
  <2>3. j + 0 = j /\ At(t, j) \in Nat
    BY <1>1, AtType
  <2> QED
    BY <2>1, <2>2, <2>3
<1> DEFINE z == Splice(y, j, j, c)
<1>9. IsSplice(z, y, j, j, c)
  BY <1>2, <1>6, <1>7, TextFacts, SpliceFacts DEF m
<1> HIDE DEF z
<1>10. /\ z \in Seq(Chars) /\ Len(z) = j + (k - j) + (m - j) /\ \A i \in 1..j : z[i] = y[i]
       /\ \A i \in 1..(k - j) : z[j + i] = c[i]
       /\ \A i \in 1..(m - j) : z[j + (k - j) + i] = y[j + i]
  BY <1>2, <1>9 DEF IsSplice, m
<1>11. Len(z) = n
  BY <1>1, <1>5, <1>10
<1>12. ASSUME NEW i \in 1..n PROVE z[i] = t[i]
  <2>1. CASE i <= j
    <3>1. i \in 1..j
      BY <1>1, <2>1
    <3> QED
      BY <1>5, <1>10, <3>1
  <2>2. CASE j < i /\ i <= k
    <3> DEFINE l == i - j
    <3>1. l \in 1..(k - j) /\ j + l = i
      BY <1>1, <2>2
    <3> HIDE DEF l
    <3> QED
      BY <1>2, <1>10, <3>1
  <2>3. CASE k < i
    <3> DEFINE l == i - k
    <3>1. l \in 1..(n - k) /\ l \in 1..(m - j) /\ k + l = i /\ j + (k - j) + l = i
      BY <1>1, <1>5, <2>3
    <3> HIDE DEF l
    <3>2. z[i] = y[j + l]
      BY <1>10, <3>1
    <3>3. y[j + l] = t[i]
      BY <1>5, <3>1
    <3> QED
      BY <3>2, <3>3
  <2>4. i <= j \/ (j < i /\ i <= k) \/ k < i
    BY <1>1
  <2> QED
    BY <2>1, <2>2, <2>3, <2>4
<1>13. z = t
  <2>1. t \in Seq(Chars) /\ Len(z) = Len(t)
    BY <1>11, TextFacts DEF n
  <2> QED
    BY <1>10, <1>12, <2>1, SeqEqual DEF n
<1> QED
  BY <1>6, <1>7, <1>8, <1>13 DEF m, z

(* With nothing marked, Cut puts on the clipboard what it takes away, and    *)
(* pasting at the caret it leaves brings the draft back.                     *)
THEOREM CutsCanBeUndoneByPasting == Spec => CutsCanBePastedBack
<1> DEFINE PastedBack == clipboard' # None /\ Spliced(selection, clipboard)' = text
<1>1. ASSUME IInv, Cut, marked = None PROVE PastedBack
  <2> DEFINE j == CharsBefore(text, selection[1])
             k == CharsBefore(text, selection[2])
             y == Splice(text, j, k, <<>>)
             c == SubSeq(text, j + 1, k)
             b == selection[1]
  <2>1. text \in Texts /\ Good(text, selection)
    BY <1>1 DEF IInv, DraftIsSound
  <2>2. j \in 0..Len(text) /\ k \in j..Len(text) /\ b = At(text, j) /\ b \in Nat
    BY <2>1, GoodFacts
  <2>3. Replace(selection, <<>>, selection, reversed) /\ clipboard' = c
    BY <1>1 DEF Cut, Preferred, Selected
  <2>4. clipboard' # None
    BY <1>1, SelectedFacts, ComposerConstants DEF Cut
  <2>5. text' = y /\ selection' = <<b + Bytes(<<>>), b + Bytes(<<>>)>>
    BY <2>3 DEF Replace, Spliced, Splice
  <2>6. Bytes(<<>>) = 0
    <3>1. <<>> \in Texts /\ Len(<<>>) = 0
      BY <2>1, WholeText
    <3> QED
      BY <3>1, AtEnds DEF At, First
  <2>7. selection' = <<b, b>>
    BY <2>2, <2>5, <2>6
  <2> HIDE DEF j, k, b
  <2>8. y = Splice(text, j, k, <<>>) /\ c = Part(text, j, k)
    BY DEF Part
  <2> HIDE DEF y, c
  <2>9. /\ y \in Texts /\ j \in 0..Len(y) /\ At(y, j) = b /\ Splice(y, j, j, c) = text
    BY <2>1, <2>2, <2>8, SplicedBack
  <2>10. CharsBefore(y, b) = j
    BY <2>9, BoundaryFacts
  <2>11. Spliced(selection, clipboard)' = Splice(y, CharsBefore(y, b), CharsBefore(y, b), c)
    <3>1. Spliced(selection, clipboard)' =
            Splice(text', CharsBefore(text', selection'[1]), CharsBefore(text', selection'[2]),
                   clipboard')
      BY DEF Spliced, Splice
    <3>2. selection'[1] = b /\ selection'[2] = b
      BY <2>7
    <3>3. text' = y /\ clipboard' = c
      BY <2>3, <2>5
    <3> QED
      BY <3>1, <3>2, <3>3
  <2> QED
    BY <2>4, <2>9, <2>10, <2>11
<1>2. IInv /\ [Next]_vars => [Cut /\ marked = None => PastedBack]_vars
  BY <1>1
<1>3. Spec => [][Cut /\ marked = None => PastedBack]_vars
  BY <1>2, Invariance, PTL DEF Spec
<1> QED
  BY <1>3 DEF CutsCanBePastedBack
=============================================================================
