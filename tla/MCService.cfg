\* A checkout, a rating and a probe share one connection of the pool.
SPECIFICATION FairSpec
CONSTANTS
  Requests = {r1}
  Ratings = {c1}
  Probes = {h1}
  Baskets <- MCBaskets
  MenuIds <- MCMenuIds
  Prices <- MCPrices
  NoLine = NoLine
  Lines = {l1}
  Stars = {5}
  MaxConns = 1
  ChannelMax = 1
  MaxLosses = 1
  MaxCrashes = 1
INVARIANTS
  ConnectionsAccountedFor
  OneInsideGetConnection
PROPERTIES
  EveryCallEnds
  CheckoutsOutliveOutage
