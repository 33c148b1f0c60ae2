SPECIFICATION Spec
CONSTANTS
  Ids = {m1, m2}
  Contents = {a}
  Absent = absent
  Broken = broken
  NoMeta = noMeta
  MaxGeneration = 3
  MaxFaults = 1
  DropMayFail = FALSE
INVARIANT MirrorNeverBlocksMutations
