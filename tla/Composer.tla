------------------------------ MODULE Composer ------------------------------
(*****************************************************************************)
(* The text composer of the main window: text, selection, the marked range   *)
(* and snapshot of an input method's composition, undo history, and what it  *)
(* shares with the system: clipboard, mouse, and the input method's queries. *)
(*                                                                           *)
(* All offsets the composer keeps are bytes of UTF-8, those of the input     *)
(* method are UTF-16 units, and a caret step crosses a grapheme; a character *)
(* is one of three kinds that tell the three apart.                          *)
(*****************************************************************************)
EXTENDS Integers, Sequences, FiniteSets, FiniteSetsExt, SequencesExt

CONSTANTS
  Chars,       \* kinds of characters: "letter", "mark" (combining), "emoji"
  None,        \* no marked range, no composition
  MaxLength,   \* bound on the characters of the text
  MaxEdits,    \* bound on the snapshots of the history
  MaxSubmits   \* bound on the submits that are counted

Texts == UNION {[1..n -> Chars] : n \in 0..MaxLength}
Offsets == 0..4 * MaxLength

Snapshots == [text : Texts, selection : Offsets \X Offsets, reversed : BOOLEAN]

ASSUME ComposerConstants ==
  /\ Chars \subseteq {"letter", "mark", "emoji"}
  /\ MaxLength \in Nat /\ MaxEdits \in Nat /\ MaxSubmits \in Nat
  /\ None \notin Texts /\ None \notin Snapshots

VARIABLES
  text,         \* the characters
  selection,    \* its two byte offsets
  reversed,     \* the caret is at the start of the selection
  marked,       \* the marked range
  composition,  \* the snapshot from before the composition
  undo, redo,   \* snapshots
  selecting,    \* the mouse button went down in the composer and is not up
  clipboard,    \* its text, or None
  submit_attempts

edited == <<text, selection, reversed>>
state == <<edited, marked, composition, undo, redo>>
vars == <<state, selecting, clipboard, submit_attempts>>

-----------------------------------------------------------------------------
(* Offsets *)

(* Every character is a byte and a unit; a mark is one byte more, an emoji   *)
(* three bytes and one unit more.                                            *)
Occurrences(t, c) == Cardinality({i \in DOMAIN t : t[i] = c})

ByteCount == [t \in Texts |-> Len(t) + Occurrences(t, "mark") + 3 * Occurrences(t, "emoji")]
UnitCount == [t \in Texts |-> Len(t) + Occurrences(t, "emoji")]

Bytes(t) == ByteCount[t]
Units(t) == UnitCount[t]

(* The first k characters, by count or up to a byte offset. *)
First(t, k) == SubSeq(t, 1, k)
Boundaries == [t \in Texts |-> {Bytes(First(t, k)) : k \in 0..Len(t)}]
CharBoundaries(t) == Boundaries[t]
CharsBefore(t, b) == CHOOSE k \in 0..Len(t) : Bytes(First(t, k)) = b

(* offset_from_utf16 and utf16_range_in: the last character boundary at or   *)
(* before the unit, so that a surrogate pair is never split.                 *)
FromUtf16(t, u) == Bytes(First(t, Max({j \in 0..Len(t) : Units(First(t, j)) <= u})))

(* Seeded fault of ToUtf16: characters are counted. *)
ToUtf16Characters(t, b) == CharsBefore(t, b)

ToUtf16(t, b) == Units(First(t, CharsBefore(t, b)))

(* All ranges of bytes that the input method can ask for in a text. *)
UnitRanges == [t \in Texts |->
  {<<FromUtf16(t, u), FromUtf16(t, v)>> : u, v \in 0..Units(t)} \cap
    {r \in Offsets \X Offsets : r[1] <= r[2]}]

(* grapheme_indices: a combining mark belongs to the character before it. *)
Graphemes(t) == {Bytes(First(t, k)) : k \in {j \in 0..Len(t) - 1 : j = 0 \/ t[j + 1] # "mark"}}

PreviousBoundary(t, b) == Max({0} \cup {g \in Graphemes(t) : g < b})
NextBoundary(t, b) ==
  LET later == {g \in Graphemes(t) : g > b} IN IF later = {} THEN Bytes(t) ELSE Min(later)

(* Seeded fault of HitIndex: the layout's index is only cut to the length. *)
HitIndexUnaligned(t, candidate) == IF candidate > Bytes(t) THEN Bytes(t) ELSE candidate

(* index_for_position, editable_index_for_hit: the candidate comes from the  *)
(* layout last painted, which may be of an earlier text.                     *)
HitIndex(t, candidate) == Max({b \in CharBoundaries(t) : b <= candidate})

Hits == [t \in Texts |-> {HitIndex(t, candidate) : candidate \in Offsets}]

Inserts == {<<>>} \cup {<<c>> : c \in Chars}

Snapshot == [text |-> text, selection |-> selection, reversed |-> reversed]

IsRange(t, r) == r[1] \in CharBoundaries(t) /\ r[2] \in CharBoundaries(t) /\ r[1] <= r[2]

TypeOK ==
  /\ text \in Texts
  /\ selection \in Offsets \X Offsets
  /\ reversed \in BOOLEAN
  /\ marked = None \/ IsRange(text, marked)
  /\ composition = None \/ IsRange(composition.text, composition.selection)
  /\ Len(undo) + Len(redo) <= MaxEdits
  /\ selecting \in BOOLEAN
  /\ clipboard \in Texts \cup {None}
  /\ submit_attempts \in 0..MaxSubmits

Init ==
  /\ text = <<>> /\ selection = <<0, 0>> /\ reversed = FALSE
  /\ marked = None /\ composition = None
  /\ undo = <<>> /\ redo = <<>>
  /\ selecting = FALSE /\ clipboard = None /\ submit_attempts = 0

-----------------------------------------------------------------------------
(* Caret and selection *)

Cursor == IF reversed THEN selection[1] ELSE selection[2]

MoveTo(b) == selection' = <<b, b>> /\ reversed' = FALSE

(* The caret's end of the selection moves; the ends swap when they cross. *)
Extended(sel, back, b) ==
  LET start == IF back THEN b ELSE sel[1]
      end == IF back THEN sel[2] ELSE b
  IN  IF end < start THEN [selection |-> <<end, start>>, reversed |-> ~back]
      ELSE [selection |-> <<start, end>>, reversed |-> back]

SelectTo(b) ==
  LET extended == Extended(selection, reversed, b)
  IN  selection' = extended.selection /\ reversed' = extended.reversed

Keyboard == UNCHANGED <<selecting, clipboard, submit_attempts>>

CaretOnly == UNCHANGED <<text, marked, composition, undo, redo, clipboard, submit_attempts>>

OnlyCaret == CaretOnly /\ UNCHANGED selecting

IsEmpty == selection[1] = selection[2]

Left ==
  OnlyCaret /\ MoveTo(IF IsEmpty THEN PreviousBoundary(text, Cursor) ELSE selection[1])

Right ==
  OnlyCaret /\ MoveTo(IF IsEmpty THEN NextBoundary(text, Cursor) ELSE selection[2])

SelectLeft == OnlyCaret /\ SelectTo(PreviousBoundary(text, Cursor))
SelectRight == OnlyCaret /\ SelectTo(NextBoundary(text, Cursor))
SelectAll == OnlyCaret /\ selection' = <<0, Bytes(text)>> /\ reversed' = FALSE
Home == OnlyCaret /\ MoveTo(0)
End == OnlyCaret /\ MoveTo(Bytes(text))

(* With shift held the selection is extended. *)
MouseDown ==
  /\ selecting' = TRUE
  /\ \E b \in Hits[text] : MoveTo(b) \/ SelectTo(b)
  /\ CaretOnly

MouseMove ==
  /\ selecting
  /\ \E b \in Hits[text] : SelectTo(b)
  /\ OnlyCaret

MouseUp ==
  /\ selecting
  /\ selecting' = FALSE
  /\ UNCHANGED <<state, clipboard, submit_attempts>>

-----------------------------------------------------------------------------
(* Edits.  A range of the input method wins over the marked range, which     *)
(* wins over the selection.                                                  *)

Preferred(sel) == IF marked # None THEN marked ELSE sel
ReplacementRanges == {Preferred(selection)} \cup UnitRanges[text]

Spliced(range, new) ==
  First(text, CharsBefore(text, range[1])) \o new
    \o SubSeq(text, CharsBefore(text, range[2]) + 1, Len(text))

(* A history entry; what was undone before it cannot be redone any more. *)
Recorded(snapshot) == undo' = Append(undo, snapshot) /\ redo' = <<>>

Room == Len(undo) < MaxEdits

(* replace; sel and back are the selection as backspace and delete leave it  *)
(* for the snapshot.                                                         *)
Replace(range, new, sel, back) ==
  LET cursor == range[1] + Bytes(new)
  IN  /\ Room
      /\ Recorded(IF composition # None THEN composition
                  ELSE [text |-> text, selection |-> sel, reversed |-> back])
      /\ Len(Spliced(range, new)) <= MaxLength
      /\ text' = Spliced(range, new)
      /\ selection' = <<cursor, cursor>> /\ reversed' = FALSE
      /\ marked' = None /\ composition' = None

(* backspace and delete extend an empty selection over one grapheme first. *)
Erase(boundary) ==
  LET extended == IF IsEmpty THEN Extended(selection, reversed, boundary)
                  ELSE [selection |-> selection, reversed |-> reversed]
  IN  Replace(Preferred(extended.selection), <<>>, extended.selection, extended.reversed)

Backspace == Erase(PreviousBoundary(text, Cursor)) /\ Keyboard
Delete == Erase(NextBoundary(text, Cursor)) /\ Keyboard

(* insert_newline and the system's replace_text_in_range. *)
Insert ==
  /\ \E new \in Inserts, range \in ReplacementRanges : Replace(range, new, selection, reversed)
  /\ Keyboard

Selected ==
  SubSeq(text, CharsBefore(text, selection[1]) + 1, CharsBefore(text, selection[2]))

Copy ==
  /\ ~IsEmpty
  /\ clipboard' = Selected
  /\ UNCHANGED <<state, selecting, submit_attempts>>

(* What another application copied is pasted as Insert does it. *)
Paste ==
  /\ clipboard # None
  /\ Replace(Preferred(selection), clipboard, selection, reversed)
  /\ Keyboard

(* Seeded fault of Cut: there is nothing selected any more when it copies. *)
CutBeforeCopying ==
  ~IsEmpty /\ Replace(Preferred(selection), <<>>, selection, reversed) /\ Keyboard

(* Copies the selection, and replaces what any edit would replace. *)
Cut ==
  /\ ~IsEmpty
  /\ clipboard' = Selected
  /\ Replace(Preferred(selection), <<>>, selection, reversed)
  /\ UNCHANGED <<selecting, submit_attempts>>

(* Enter.  Nothing is sent: the attempt is counted, and the draft stays. *)
Submit ==
  /\ composition = None
  /\ submit_attempts < MaxSubmits
  /\ submit_attempts' = submit_attempts + 1
  /\ UNCHANGED <<state, selecting, clipboard>>

(* Seeded fault of Begun: every update of the composition takes a snapshot. *)
BegunAfresh == composition' = Snapshot /\ redo' = <<>>

(* The first update of a composition takes the snapshot. *)
Begun ==
  IF composition = None THEN composition' = Snapshot /\ redo' = <<>>
  ELSE UNCHANGED <<composition, redo>>

Compose(range, new, chosen) ==
  /\ Begun
  /\ Len(Spliced(range, new)) <= MaxLength
  /\ text' = Spliced(range, new)
  /\ marked' = IF new = <<>> THEN None ELSE <<range[1], range[1] + Bytes(new)>>
  /\ selection' = <<range[1] + chosen[1], range[1] + chosen[2]>>
  /\ reversed' = FALSE
  /\ UNCHANGED undo

(* replace_and_mark *)
ReplaceAndMark ==
  /\ \E new \in Inserts, range \in ReplacementRanges :
       \E chosen \in UnitRanges[new] : Compose(range, new, chosen)
  /\ Keyboard

Unmark ==
  /\ composition # None => Room
  /\ IF composition # None THEN Recorded(composition) ELSE UNCHANGED <<undo, redo>>
  /\ marked' = None /\ composition' = None
  /\ UNCHANGED edited /\ Keyboard

-----------------------------------------------------------------------------
(* Seeded fault of Restore: the composition's mark stays. *)
RestoreMarked(snapshot) ==
  /\ text' = snapshot.text /\ selection' = snapshot.selection
  /\ reversed' = snapshot.reversed
  /\ composition' = None
  /\ UNCHANGED marked

Restore(snapshot) ==
  /\ text' = snapshot.text /\ selection' = snapshot.selection
  /\ reversed' = snapshot.reversed
  /\ marked' = None /\ composition' = None

(* Seeded fault of Undo: what is undone is not kept. *)
UndoForgetting ==
  /\ undo # <<>>
  /\ Restore(Last(undo))
  /\ undo' = Front(undo)
  /\ UNCHANGED redo /\ Keyboard

Undo ==
  /\ undo # <<>>
  /\ Restore(Last(undo))
  /\ undo' = Front(undo)
  /\ redo' = Append(redo, Snapshot)
  /\ Keyboard

Redo ==
  /\ redo # <<>>
  /\ Restore(Last(redo))
  /\ redo' = Front(redo)
  /\ undo' = Append(undo, Snapshot)
  /\ Keyboard

Next ==
  \/ Left \/ Right \/ SelectLeft \/ SelectRight \/ SelectAll \/ Home \/ End
  \/ MouseDown \/ MouseMove \/ MouseUp
  \/ Backspace \/ Delete \/ Insert
  \/ Copy \/ Cut \/ Paste \/ Submit
  \/ ReplaceAndMark \/ Unmark
  \/ Undo \/ Redo

Spec == Init /\ [][Next]_vars

-----------------------------------------------------------------------------
(* Correctness. *)

(* Whatever mixture of keys, stale hits, input-method ranges and undo led    *)
(* here, the selection lies on character boundaries of the text it is used   *)
(* to slice, now and after any undo or redo: slicing elsewhere panics.       *)
SelectionsAreSliceable ==
  /\ IsRange(text, selection)
  /\ \A i \in DOMAIN undo : IsRange(undo[i].text, undo[i].selection)
  /\ \A i \in DOMAIN redo : IsRange(redo[i].text, redo[i].selection)

(* Marked text is always part of a composition: only a composition keeps     *)
(* Enter from submitting the draft, and its end is what the history records. *)
MarkedTextIsComposed == marked # None => composition # None

(* The texts before, now and after, in the order undo and redo walk them. *)
Timeline ==
  [i \in DOMAIN undo |-> undo[i].text] \o <<text>> \o Reverse([i \in DOMAIN redo |-> redo[i].text])

(* Undo and redo walk along the history without changing it: each undoes the *)
(* other, also across compositions and selections made in between.           *)
HistoryIsWalked == [][Undo \/ Redo => Timeline' = Timeline]_vars

(* A composition that ends by being committed, replaced or unmarked is one   *)
(* entry of the history, holding the draft from before its first update.     *)
CompositionsEndInHistory ==
  [][/\ composition = None /\ composition' # None => composition' = Snapshot
     /\ composition # None /\ composition' # None => composition' = composition
     /\ composition # None /\ composition' = None /\ Len(undo') > Len(undo)
          => Last(undo') = composition]_vars

(* What the input method is told of the selection and of the marked text, in *)
(* UTF-16 units, names the same characters when it comes back as the range   *)
(* of a replacement, and so does the adjusted range of any text it asks for. *)
InputMethodNamesTheSameText ==
  LET told == {selection} \cup (IF marked = None THEN {} ELSE {marked}) \cup UnitRanges[text]
  IN  \A b \in UNION {{range[1], range[2]} : range \in told} :
        FromUtf16(text, ToUtf16(text, b)) = b

(* What Cut takes away it has put on the clipboard, and pasting at the caret *)
(* it leaves brings the draft back.  While text is marked this is not so:    *)
(* the marked text goes and the selection is copied.                         *)
CutsCanBePastedBack ==
  [][Cut /\ marked = None => clipboard' # None /\ Spliced(selection, clipboard)' = text]_vars

(* Every composition is a unit of the history of its own, however it ends:   *)
(* the draft from before it can be reached by undo and redo.                 *)
EveryCompositionIsOneUndoUnit ==
  [][composition # None /\ composition' = None =>
       \E i \in DOMAIN Timeline' : Timeline'[i] = composition.text]_vars
=============================================================================
