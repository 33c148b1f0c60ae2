SPECIFICATION Spec
CONSTANTS
  Messages = {m1}
  MaxEntry = 4
  None = none
  NoMeta = noMeta
  Old = old
INVARIANTS
  TypeOK
  
  
PROPERTIES
  
  AppendsReportTruthfully
CHECK_DEADLOCK FALSE
