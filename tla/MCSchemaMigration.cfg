SPECIFICATION Spec
CONSTANTS
  sessions = sessions
  traces = traces
  MaxVersion = 4
  Instances = {i1, i2}
  None = none
  Owners <- MCOwners
  OwnerOf <- MCOwnerOf
  Indexed = {4}
INVARIANTS
  TypeOK
  MarkedVersionsAreProvided
  MigratesOnce
  ReadyIsCurrent
PROPERTY
  ImplementsLedger
