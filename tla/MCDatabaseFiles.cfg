SPECIFICATION Spec
CONSTANTS
  p1 = p1
  p2 = p2
  Passwords <- MCPasswords
  None = None
  Unkeyed = Unkeyed
  MaxDatabases = 2
  MaxQuarantines = 2
  Times <- MCTimes
SYMMETRY MCSymmetry
INVARIANTS
  TypeOK
  NoForeignWal
  MainKeepsItsWal
  CorruptionIsReal
PROPERTIES
  EvidenceIsKept
