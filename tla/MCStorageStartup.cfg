SPECIFICATION FairSpec
CONSTANTS
  table = table
  column = column
  mistyped = mistyped
  lostColumn = lostColumn
  trigger = trigger
  index = index
  Repairable <- MCRepairable
  Manual <- MCManual
  Unseen <- MCUnseen
  Static <- MCStatic
  Added <- MCAdded
  Blocking <- MCBlocking
  Maintained <- MCMaintained
  SharedFile = TRUE
  MaxDamages = 1
INVARIANTS
  TypeOK
  UnreportedMeansCurrent
  ObservationMatchesFile
  OnlyManualIssuesOutliveARepair
PROPERTIES
  RepairsOnlyBackedUpState
  StartupEnds
