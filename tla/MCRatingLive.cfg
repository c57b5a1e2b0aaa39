\* Every rating ends although the connection is lost once and channels are scarce.
SPECIFICATION FairSpec
CONSTANTS
  NoLine = NoLine
  Callers = {c1, c2, h1}
  Ratings = {c1, c2}
  Lines = {l1, l2}
  Stars = {5}
  MaxConns = 2
  ChannelMax = 1
  MaxLosses = 1
  MaxCrashes = 1
PROPERTIES
  EveryCallEnds
