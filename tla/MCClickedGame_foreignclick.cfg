SPECIFICATION ClickSpec
CONSTANTS
  Rows = 1
  Cols = 3
  InitialPieces <- Rooks
  PawnStartRow <- NoPawns
  PromotionRow <- NoPawns
  MsPerCell = 2
  CooldownMs = 4
  AirborneMs = 3
  ShortRestMs = 3
  Restartable = FALSE
  PremoveTargets <- Cells
PROPERTIES
  CommandsOwnColor
