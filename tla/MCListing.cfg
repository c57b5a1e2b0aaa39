\* One reader of every kind of listing while three orders are placed and moved on.
SPECIFICATION Spec
CONSTANTS
  Clients = {c1}
  Queries <- MCQueries
  NewOrders <- MCNewOrders
  MaxOrders = 3
INVARIANTS
  NoOrderSkipped
  OnlyOwnOrders
  ReportCoversListing
