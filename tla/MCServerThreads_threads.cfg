SPECIFICATION Spec
CONSTANTS
  Conns = {c1, c2}
  Rooms = {r1}
  Ticker = tick
SYMMETRY Symmetry
INVARIANTS NobodyWaitsInACircle ClosedIsForgotten InOnePlace
