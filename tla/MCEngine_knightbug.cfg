SPECIFICATION Spec
CONSTANTS
  Rows = 2
  Cols = 3
  InitialPieces <- KnightRaid
  PawnStartRow <- MCPawnStartRow
  PromotionRow <- MCPromotionRow
  MsPerCell = 1
  CooldownMs = 2
  AirborneMs = 1
  ShortRestMs = 1
  Restartable = FALSE
  PremoveTargets <- KnightTargets
INVARIANTS
  NoMoveOutlivesItsPiece
