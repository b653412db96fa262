SPECIFICATION FairSpec
CONSTANTS
  Rows = 1
  Cols = 4
  InitialPieces <- Lane
  PawnStartRow <- MCPawnStartRow
  PromotionRow <- MCPromotionRow
  MsPerCell = 2
  CooldownMs = 4
  AirborneMs = 3
  ShortRestMs = 3
  Restartable = FALSE
  PremoveTargets <- LaneTargets
INVARIANTS
  TypeOK
  RestHasTimer
  MovingHasPending
  PendingOwned
  NothingLeftOver
  SnapshotIsTrue
PROPERTIES
  Ledger
  OnlyMoversMove
  LifecycleSpec
  NothingHangs
