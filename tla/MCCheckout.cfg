\* Two concurrent checkouts, connections to spare, one crash.
SPECIFICATION Spec
CONSTANTS
  Requests = {r1, r2}
  Baskets <- MCBaskets
  MenuIds <- MCMenuIds
  Prices <- MCPrices
  MaxConns = 2
  MaxCrashes = 1
INVARIANTS
  NoOrderWithoutPayment
  ChargedAtMostOnce
  AllOrNothing
  PricedByMasterData
  TotalIsSumOfLines
  ClientErrorsLeaveNoTrace
  SuccessMeansPlacedOnce
PROPERTIES
  ImplementsOrderBook
