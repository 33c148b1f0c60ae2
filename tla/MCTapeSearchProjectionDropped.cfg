SPECIFICATION Spec
CONSTANTS
  Owners = {o1}
  Connections = {c1}
  Sessions = {s1, s2}
  Entries = {1}
  Heads = {0, 1}
  Texts = {x}
  None = none
  NoHead = noHead
  Old = old
  Absent = absent
  Broken = broken
  MaxFaults = 1
SYMMETRY Symmetry
INVARIANT LevelHeadsAreTrue
