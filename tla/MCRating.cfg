\* Three ratings, two connections of the pool, one loss of the broker or of the link, one crash.
SPECIFICATION Spec
CONSTANTS
  NoLine = NoLine
  Callers = {c1, c2, c3}
  Ratings = {c1, c2, c3}
  Lines = {l1, l2}
  Stars = {1, 5}
  MaxConns = 2
  ChannelMax = 2
  MaxLosses = 1
  MaxCrashes = 1
SYMMETRY Symmetry
INVARIANTS
  NoSilentRating
  SuccessMeansRated
  SuccessMeansQueued
  RefusedMeansRated
PROPERTIES
  RatedOnce
