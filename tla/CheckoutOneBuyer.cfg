CONSTANTS
  User = {u1}
  Product = {1}
  Course = {2}
  Key = {k1}
  Order = {1, 2}
  NULL = NULL
  MaxQty = 1
  Entitled = {1}
  Worth <- MCWorth
  AskKey = {k1, NULL}
  AskPoints = {TRUE}
  AskStatus = {"processing", "refunded"}
  Coupons = {0}
  InitStock <- MCStock
  InitSeats <- MCSeats
  Deltas <- MCSpend
  MaxBalance = 1
  StockPatch = {}
  SeatPatch = {}
  Delistable = {}
  Retypable = {}
  Tx = {t1, t2}
  Rejected = Rejected
  MaxStock = 2
  MaxSeats = 1
SYMMETRY Symmetry
SPECIFICATION Spec
INVARIANTS
  CartCovered
  BalanceNotStale
  PointsConserved
  KeysIdentifyOrders
PROPERTIES
  PurchaseIsTheCart
