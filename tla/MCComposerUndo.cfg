SPECIFICATION Spec
CONSTANTS
  Chars = {"mark", "emoji"}
  None = none
  MaxLength = 2
  MaxEdits = 2
  MaxSubmits = 1
PROPERTY EveryCompositionIsOneUndoUnit
