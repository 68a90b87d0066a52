CONSTANTS
  User = {u1}
  Product = {1}
  Course = {2}
  Key = {k1}
  Order = {1}
  NULL = NULL
  MaxQty = 1
  Entitled = {1}
  Worth <- MCWorth
  AskKey = {k1}
  AskPoints = {FALSE}
  AskStatus = {"refunded"}
  Coupons = {0, 500}
  InitStock <- MCStock
  InitSeats <- MCSeats
  Deltas = {}
  MaxBalance = 1
  StockPatch = {NULL, 1}
  SeatPatch = {}
  Delistable = {1, 2}
  Retypable = {1}
  Tx = {t1, t2}
  Rejected = Rejected
  MaxStock = 1
  MaxSeats = 1
SPECIFICATION FairSpec
PROPERTIES
  Served
  ShopSpec
