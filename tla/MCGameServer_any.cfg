SPECIFICATION Spec
CONSTANTS
  ann = ann
  bob = bob
  Users <- MCUsers
  InRange <- FarApart
  NumConns = 3
  TypedKeys <- OneRoom
  GraceTicks = 1
  SearchTicks = 1
  Repeats = TRUE
  Reuse = TRUE
SYMMETRY Symmetry
INVARIANTS
  NoStaleEntry
  ForfeitOfTheAbsent
PROPERTIES
  SeatsKept
