SPECIFICATION FairSpec
CONSTANTS
  Ids = {m1, m2}
  Contents = {a}
  Absent = absent
  Broken = broken
  NoMeta = noMeta
  MaxGeneration = 3
  MaxFaults = 2
  DropMayFail = FALSE
INVARIANTS
  TypeOK
  ReadyMirrorIsExact
  ValidOnDiskIsExact
PROPERTIES
  MirrorIsADerivedIndex
  MutationsAreAllOrNothing
  MirrorRecovers
