SPECIFICATION FairSpec
CONSTANTS
  MaxTargets = 1
  MaxPoints = 3
  MaxQueue = 2
  CntMax = 2
  IgnoreCounts = {0}
  Conditions <- MCNoConditions
  HandleOutlives = {"wp"}
INVARIANTS
  NumbersNeverShared
  RecordsTrackLldb
  EnabledReported
  WatchHitNamed
PROPERTY
  NumbersKept
  DeadRecordsVanish
CHECK_DEADLOCK FALSE
