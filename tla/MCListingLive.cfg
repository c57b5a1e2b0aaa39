\* One reader, of all orders, of the open ones, or with pages of size 0.
SPECIFICATION FairSpec
CONSTANTS
  Clients = {c1}
  Queries <- MCMixedQueries
  NewOrders <- MCFewOrders
  MaxOrders = 3
PROPERTIES
  EveryReaderFinishes
