CONSTANTS
  User = {u1}
  Product = {1}
  Course = {}
  Key = {k1}
  Order = {1, 2}
  NULL = NULL
  MaxQty = 1
  Entitled = {1}
  Worth <- MCWorth
  AskKey = {k1}
  AskPoints = {FALSE}
  AskStatus = {}
  Coupons = {0}
  InitStock <- MCStock
  InitSeats <- MCSeats
  Deltas = {}
  MaxBalance = 1
  StockPatch = {}
  SeatPatch = {}
  Delistable = {1}
  Retypable = {}
  Tx = {t1, t2}
  Rejected = Rejected
  MaxStock = 2
  MaxSeats = 1
SYMMETRY Symmetry
SPECIFICATION Spec
PROPERTIES
  NoTwinBehindDelisting
