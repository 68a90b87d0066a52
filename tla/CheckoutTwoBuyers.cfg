CONSTANTS
  User = {u1, u2}
  Product = {1}
  Course = {2}
  Key = {}
  Order = {1, 2}
  NULL = NULL
  MaxQty = 1
  Entitled = {}
  Worth <- MCWorth
  AskKey = {NULL}
  AskPoints = {FALSE}
  AskStatus = {"refunded"}
  Coupons = {0}
  InitStock <- MCStock
  InitSeats <- MCSeats
  Deltas = {}
  MaxBalance = 1
  StockPatch = {}
  SeatPatch = {0, 2}
  Delistable = {}
  Retypable = {}
  Tx = {t1, t2}
  Rejected = Rejected
  MaxStock = 1
  MaxSeats = 1
SYMMETRY Symmetry
SPECIFICATION Spec
INVARIANTS
  NothingSoldTwice
  NoWaitCycle
PROPERTIES
  SeatsNotOversold
