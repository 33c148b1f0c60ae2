SPECIFICATION Spec
CONSTANTS
  Messages = {m1}
  MaxEntry = 4
  None = none
  NoMeta = noMeta
  Old = old
PROPERTY RebuildingChangesNothing
CHECK_DEADLOCK FALSE
