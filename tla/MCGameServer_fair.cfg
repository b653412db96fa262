SPECIFICATION FairSpec
CONSTANTS
  ann = ann
  bob = bob
  Users <- MCUsers
  InRange <- AllInRange
  NumConns = 3
  TypedKeys <- OneRoom
  GraceTicks = 1
  SearchTicks = 1
  Repeats = FALSE
  Reuse = FALSE
INVARIANTS
  RoutedToItsRoom
  WaitersAreFree
  DecidedIsRated
PROPERTIES
  MatchSpec
  SearchEnds
  ForfeitEnds
