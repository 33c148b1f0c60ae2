SPECIFICATION Spec
CONSTANTS
  Owners = {o1, o2}
  Connections = {c1, c2}
  Sessions = {s1, s2}
  Entries = {1}
  Heads = {0, 1}
  Texts = {x, y}
  None = none
  NoHead = noHead
  Old = old
  Absent = absent
  Broken = broken
  MaxFaults = 1
SYMMETRY Symmetry
VIEW Unread
INVARIANTS
  TypeOK
  FtsRowsAreProjected
  LevelMeansMirrored
  
PROPERTIES
  FailedWritesLeaveNoTrace
  SearchRebuildsWhatIsBehind
