SPECIFICATION Spec
CONSTANTS
  Programs = {"desktop"}
  Registered <- MCRegistered
  TypedNames <- MCNames
  TypedPasswords <- MCPasswords
  PagePasswords <- MCPagePasswords
  MaxEvents = 1
  MaxBacklog = 2
  MaxUnanswered = 2
  MaxDrops = 1
  MaxStale = 1
PROPERTIES OnlyTheGoneForfeit
CHECK_DEADLOCK FALSE
