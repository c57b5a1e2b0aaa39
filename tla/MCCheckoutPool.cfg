\* Three checkouts compete for one connection, one crash: every call ends.
SPECIFICATION FairSpec
CONSTANTS
  Requests = {r1, r2, r3}
  Baskets <- MCOneBasket
  MenuIds <- MCMenuIds
  Prices <- MCOnePrice
  MaxConns = 1
  MaxCrashes = 1
INVARIANTS
  TypeOK
PROPERTIES
  EveryCallEnds
