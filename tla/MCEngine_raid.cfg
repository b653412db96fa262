SPECIFICATION Spec
CONSTANTS
  Rows = 4
  Cols = 2
  InitialPieces <- Raid
  PawnStartRow <- MCPawnStartRow
  PromotionRow <- MCPromotionRow
  MsPerCell = 1
  CooldownMs = 1
  AirborneMs = 1
  ShortRestMs = 1
  Restartable = FALSE
  PremoveTargets <- NoTargets
INVARIANTS
  OnePiecePerSquare
  GameOver
PROPERTIES
  FinishedIsFinal
