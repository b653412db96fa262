SPECIFICATION FairSpec
CONSTANTS
  Programs = {"desktop", "web"}
  Registered <- MCRegistered
  TypedNames <- MCNames
  TypedPasswords <- MCPasswords
  PagePasswords <- MCPagePasswords
  MaxEvents = 1
  MaxBacklog = 2
  MaxUnanswered = 2
  MaxDrops = 1
  MaxStale = 1
INVARIANTS WireFaithful ScreenIsTrue EventsInOrder AnswerIsDue
PROPERTIES WaitEnds
CHECK_DEADLOCK FALSE
