SPECIFICATION FairSpec
CONSTANTS
  ann = ann
  bob = bob
  Clients <- MCClients
  Conns <- MCConns
  InRange <- AllInRange
  ShardCount = 2
  MaxLegs = 2
  MaxRestarts = 1
  MaxAgain = 1
  LaterKeys <- QuickOrCode
  Codes <- OneCode
  RoomNames <- TypedNames
INVARIANTS CodeIsRouted MatchedMeet SeamlessSession JoinFindsLogin OneAnswer
PROPERTIES RedirectEnds SearchEnds
CHECK_DEADLOCK FALSE
