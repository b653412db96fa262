SPECIFICATION FairSpec
CONSTANTS
  Users = {"ann", "bob"}
  Passwords = {"", "x"}
  Servers = {"s1", "s2"}
  Apis = {"api"}
  Gain <- SmallGain
  KFactor = 4
  MaxMatches = 2
  MaxCrashes = 1
INVARIANTS RatingsAreBooked
PROPERTIES BookIsKept RecordingEnds
CHECK_DEADLOCK FALSE
