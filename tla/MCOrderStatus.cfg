\* Three calls for one order with two steps to go, two connections.
SPECIFICATION Spec
CONSTANTS
  NoOrder = NoOrder
  Calls = {c1, c2, c3}
  Orders = {o1}
  MaxConns = 2
  MaxCrashes = 1
SYMMETRY Symmetry
INVARIANTS
  TypeOK
  EveryAdvanceCounts
  RefusedMeansAtMaximum
