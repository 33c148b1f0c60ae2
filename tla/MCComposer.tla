----------------------------- MODULE MCComposer -----------------------------
(* Up to two characters, each a surrogate pair in UTF-16 and four bytes in    *)
(* UTF-8, and two history entries: enough for an edit, a composition over     *)
(* part of its text, and undo and redo across both.  Submit alone reads       *)
(* submit_attempts: states that differ in nothing else are one.               *)
EXTENDS Composer

Uncounted == <<state, selecting, clipboard>>
=============================================================================
