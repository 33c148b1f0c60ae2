SPECIFICATION Spec
CONSTANTS
  Chars = {"emoji"}
  None = none
  MaxLength = 2
  MaxEdits = 2
  MaxSubmits = 1
VIEW Uncounted
INVARIANTS
  TypeOK
  SelectionsAreSliceable
  MarkedTextIsComposed
  InputMethodNamesTheSameText
PROPERTIES
  HistoryIsWalked
  CompositionsEndInHistory
  CutsCanBePastedBack
