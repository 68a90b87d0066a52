-------------------------- MODULE Checkout_proofs --------------------------
(***************************************************************************)
(* Theorems about Checkout for every value of its constants.               *)
(***************************************************************************)
EXTENDS Checkout, TLAPS

\* std::cmp::min on naturals.
LEMMA LeastNat == ASSUME NEW a \in Nat, NEW b \in Nat
                  PROVE  Least(a, b) \in Nat /\ Least(a, b) <= a /\ Least(a, b) <= b
  BY DEF Least

\* price, pricing.rs: on natural inputs it yields naturals, it spends no more
\* points than the balance has, and the ledger rows of the order do not
\* overdraw the balance.
LEMMA PriceNat ==
  ASSUME NEW s \in Nat, NEW d \in Nat, NEW b \in Nat, NEW use
  PROVE  LET q == price(s, d, b, use) IN
         /\ q.used \in Nat /\ q.used <= b
         /\ q.earned \in Nat
<1>1. AfterCoupon(s, d) \in Nat
  BY DEF AfterCoupon, clamp_coupon_discount, Least
<1> DEFINE a == AfterCoupon(s, d)
<1>2. a \div 100 \in Nat /\ 100 * (a \div 100) <= a
  BY <1>1
<1>3. /\ PointsUsed(s, d, b, use) \in Nat
      /\ PointsUsed(s, d, b, use) <= b
      /\ PointsUsed(s, d, b, use) <= a \div 100
  BY <1>2 DEF PointsUsed, Least
<1> HIDE DEF a
<1>4. TotalCents(s, d, b, use) \in Nat
  BY <1>1, <1>2, <1>3 DEF TotalCents, a
<1>5. PointsEarned(TotalCents(s, d, b, use)) \in Nat
  BY <1>4 DEF PointsEarned
<1> QED
  BY <1>3, <1>5 DEF price

-----------------------------------------------------------------------------
(* The inductive invariant.                                                *)

HoldsUser == {"targets", "lock_items", "reserve", "enrol", "commit"}
HoldsCart == {"reserve", "enrol", "commit"}

\* What a request is, at each label; the order of a status change was bought.
RequestOK(t) ==
  /\ IsCheckout(t) => req[t].user \in User
  /\ IsStatus(t) => /\ req[t].order \in Order /\ Used(req[t].order)
                    /\ req[t].target \in OrderStatus
  /\ pc[t] # "idle" => IsCheckout(t) \/ IsStatus(t)
  /\ pc[t] \in HoldsCart \cup {"replay"} => IsCheckout(t)
  /\ pc[t] \in {"lock_order", "decide", "flip"} => IsStatus(t)

\* A transaction past a lock step holds the lock, and the only user row it holds
\* is its buyer's.
LocksHeld(t) ==
  /\ pc[t] \in HoldsUser => userLock[Buyer(t)] = t
  /\ \A u \in User : userLock[u] = t => pc[t] \in HoldsUser /\ Buyer(t) = u
  /\ pc[t] \in HoldsCart => cartLock[req[t].user] = t

\* The stock found sufficient under the lock is still there.
StockReserved(t) ==
  pc[t] \in {"enrol", "commit"} =>
    \A p \in Lines(snap[t]) \cap Product : InStock(p, snap[t][p])

Consistent(t) == /\ RequestOK(t) /\ LocksHeld(t)
                 /\ CoveredBy(t) /\ SeenIsBalance(t) /\ StockReserved(t)

BuyersKnown == \A o \in Order : Used(o) => orders[o].buyer \in User

Inv == TypeOK /\ BuyersKnown /\ \A t \in Tx : Consistent(t)

USE ShopAssumption, CheckoutAssumption

\* An empty shop with no request in flight is consistent.
LEMMA InitInv == Init => Inv
<1> SUFFICES ASSUME Init PROVE Inv
  OBVIOUS
<1>1. EmptyCart \in Cart
  BY DEF EmptyCart, Cart
<1>2. TypeOK
  BY <1>1 DEF Init, ShopInit, TypeOK, ShopTypeOK, NoOrder, NoPoints, OrderRow, PointRows,
     NoReq, Request, Labels
<1>3. BuyersKnown
  BY DEF Init, ShopInit, BuyersKnown, Used, NoOrder
<1>4. \A t \in Tx : Consistent(t)
  BY DEF Init, ShopInit, Consistent, RequestOK, LocksHeld, CoveredBy, SeenIsBalance,
     StockReserved, InCheckout, HoldsUser, HoldsCart, IsCheckout, IsStatus, NoReq
<1> QED
  BY <1>2, <1>3, <1>4 DEF Inv

-----------------------------------------------------------------------------
(* What a step must leave alone for the transaction s to stay consistent:  *)
(* its own variables and locks, and the rows those locks protect.          *)

OrdersKept == \A o \in Order : Used(o) => Used(o)' /\ orders'[o].buyer = orders[o].buyer

LocalsKept(s) ==
  /\ pc'[s] = pc[s] /\ req'[s] = req[s] /\ seen'[s] = seen[s]
  /\ targets'[s] = targets[s] /\ snap'[s] = snap[s]
  /\ \A u \in User : (userLock'[u] = s <=> userLock[u] = s) /\ (cartLock'[u] = s <=> cartLock[u] = s)
  /\ \A i \in Item : itemLock'[i] = s <=> itemLock[i] = s

RowsKept(s) ==
  /\ \A u \in User : userLock[u] = s =>
       balance'[u] = balance[u] /\ Lines(cart'[u]) \subseteq Lines(cart[u])
  /\ \A u \in User : userLock[u] = s /\ cartLock[u] = s => cart'[u] = cart[u]
  /\ \A p \in Product, n \in Nat : itemLock[p] = s /\ InStock(p, n) => InStock(p, n)'

\* Row locks protect: a transaction whose rows and locks a step leaves alone
\* stays consistent.
LEMMA Protected ==
  ASSUME Inv, NEW s \in Tx, OrdersKept, LocalsKept(s), RowsKept(s)
  PROVE  Consistent(s)'
<1> USE DEF LocalsKept, InCheckout, IsCheckout, IsStatus
<1>1. Consistent(s) /\ TypeOK
  BY DEF Inv
<1>2. RequestOK(s)'
  BY <1>1 DEF Consistent, RequestOK, OrdersKept, Used
<1>3. Buyer(s)' = Buyer(s)
  BY <1>1 DEF Consistent, RequestOK, OrdersKept, Buyer
<1>4. pc[s] \in HoldsUser => Buyer(s) \in User /\ userLock[Buyer(s)] = s
  BY <1>1 DEF Consistent, RequestOK, LocksHeld, Buyer, HoldsUser, Inv, BuyersKnown
<1>5. pc[s] \in HoldsCart => req[s].user \in User /\ cartLock[req[s].user] = s
  BY <1>1 DEF Consistent, RequestOK, LocksHeld
<1>6. LocksHeld(s)'
  BY <1>1, <1>3, <1>4, <1>5 DEF Consistent, LocksHeld
<1>7. CoveredBy(s)'
  <2>1. ASSUME InCheckout(s, {"lock_items"})
        PROVE  Lines(cart'[req[s].user]) \subseteq targets[s]
    BY <1>1, <1>4, <2>1 DEF Consistent, CoveredBy, RowsKept, HoldsUser, Buyer
  <2>2. ASSUME InCheckout(s, HoldsCart)
        PROVE  cart'[req[s].user] = snap[s] /\ \A i \in Lines(snap[s]) : itemLock'[i] = s
    BY <1>1, <1>4, <1>5, <2>2 DEF Consistent, CoveredBy, RowsKept, HoldsUser, HoldsCart, Lines, Buyer
  <2> QED
    BY <2>1, <2>2 DEF CoveredBy, Lines, HoldsCart
<1>8. SeenIsBalance(s)'
  BY <1>1 DEF Consistent, SeenIsBalance, RowsKept
<1>9. StockReserved(s)'
  <2>1. ASSUME pc[s] \in {"enrol", "commit"}, NEW p \in Lines(snap[s]) \cap Product
        PROVE  InStock(p, snap[s][p]) /\ itemLock[p] = s /\ snap[s][p] \in Nat
    BY <1>1, <2>1 DEF Consistent, RequestOK, CoveredBy, StockReserved, HoldsCart, TypeOK, Cart, Item
  <2> QED
    BY <2>1 DEF StockReserved, RowsKept, Lines, InStock
<1> QED
  BY <1>2, <1>6, <1>7, <1>8, <1>9 DEF Consistent

-----------------------------------------------------------------------------
(* One-row requests: each waits for the locks that protect what a          *)
(* transaction has read.                                                   *)

\* Cart, catalog, points and enrolment requests wait for the row locks, so they
\* change nothing a transaction has read under one.
LEMMA OneRowInv == Inv /\ OneRowRequest => Inv'
<1> SUFFICES ASSUME Inv, OneRowRequest PROVE Inv'
  OBVIOUS
<1> USE DEF Inv
<1>0. cart \in [User -> Cart]
  BY DEF TypeOK, ShopTypeOK
<1>1. UNCHANGED <<pc, req, seen, targets, snap, reply, userLock, itemLock, cartLock, orderLock>>
  BY DEF OneRowRequest, locals, locks
<1>2. \A s \in Tx : LocalsKept(s)
  BY <1>1 DEF LocalsKept
<1>3. ASSUME ShopTypeOK', UNCHANGED orders, \A s \in Tx : RowsKept(s)
      PROVE  Inv'
  <2>1. TypeOK'
    BY <1>1, <1>3 DEF TypeOK
  <2>2. OrdersKept /\ BuyersKnown'
    BY <1>3 DEF OrdersKept, BuyersKnown, Used
  <2> QED
    BY <1>2, <1>3, <2>1, <2>2, Protected
<1> USE DEF TypeOK, ShopTypeOK, RowsKept, catalog, artifacts
<1>4. ASSUME NEW u \in User, NEW c \in Cart, cart' = [cart EXCEPT ![u] = c],
             Lines(c) \subseteq Lines(cart[u]) \/ userLock[u] = NULL,
             c = cart[u] \/ cartLock[u] = NULL \/ userLock[u] = NULL,
             UNCHANGED <<balance, adjusted, catalog, artifacts, idem, outbox>>
      PROVE  Inv'
  <2>1. \A s \in Tx : RowsKept(s)
    BY <1>4 DEF InStock
  <2> QED
    BY <1>3, <1>4, <2>1
<1>5. ASSUME NEW u \in User, NEW i \in Item, NEW n \in 1..MaxQty, MayTouchLine(u, i),
             AddToCart(u, i, n) \/ UpdateQuantity(u, i, n) \/ RemoveItem(u, i)
      PROVE  Inv'
  <2>0. cart[u] \in Cart /\ cart[u][i] \in Nat
    BY DEF Cart
  <2> HIDE DEF Inv, TypeOK, ShopTypeOK, RowsKept, catalog, artifacts
  <2>1. \E m \in 0..MaxQty : cart' = [cart EXCEPT ![u][i] = m]
    <3>1. CASE AddToCart(u, i, n)
      <4>1. cart[u][i] + n \in 0..MaxQty
        BY <2>0, <3>1 DEF AddToCart, Purchasable, LineAllowed
      <4> QED
        BY <3>1, <4>1 DEF AddToCart
    <3>2. CASE UpdateQuantity(u, i, n)
      <4>1. n \in 0..MaxQty
        OBVIOUS
      <4> QED
        BY <3>2, <4>1 DEF UpdateQuantity
    <3>3. CASE RemoveItem(u, i)
      <4>1. 0 \in 0..MaxQty
        OBVIOUS
      <4> QED
        BY <3>3, <4>1 DEF RemoveItem
    <3> QED
      BY <1>5, <3>1, <3>2, <3>3
  <2> PICK m \in 0..MaxQty : cart' = [cart EXCEPT ![u][i] = m]
    BY <2>1
  <2> DEFINE c == [cart[u] EXCEPT ![i] = m]
  <2>2. c \in Cart /\ cart' = [cart EXCEPT ![u] = c]
    BY <2>0, <1>0 DEF Cart
  <2>3. Lines(c) \subseteq Lines(cart[u]) \/ userLock[u] = NULL
    BY <1>5, <2>0 DEF Lines, Cart, MayTouchLine, MayInsertLine
  <2>4. cartLock[u] = NULL \/ userLock[u] = NULL
    BY <1>5 DEF MayTouchLine, MayInsertLine
  <2>5. UNCHANGED <<balance, adjusted, catalog, artifacts, idem, outbox>>
    BY <1>5 DEF AddToCart, UpdateQuantity, RemoveItem
  <2> QED
    BY <1>4, <2>2, <2>3, <2>4, <2>5
<1>6. ASSUME NEW u \in User, cartLock[u] = NULL, ClearCart(u)
      PROVE  Inv'
  <2>1. EmptyCart \in Cart /\ Lines(EmptyCart) = {}
    BY DEF EmptyCart, Cart, Lines
  <2> QED
    BY <1>4, <1>6, <2>1 DEF ClearCart
<1>7. ASSUME NEW u \in User, NEW d \in Deltas, MayAdjust(u), AdjustPoints(u, d)
      PROVE  Inv'
  BY <1>3, <1>7 DEF AdjustPoints, MayAdjust, InStock
<1>8. ASSUME NEW o \in Order, NEW c \in Course, CancelEnrolment(o, c)
      PROVE  Inv'
  BY <1>3, <1>8 DEF CancelEnrolment, InStock
<1>9. ASSUME NEW p \in Product, MayPatch(p), PatchProduct(p)
      PROVE  Inv'
  BY ZenonT(30), <1>3, <1>9 DEF PatchProduct, MayPatch, InStock, Item
<1>10. ASSUME NEW c \in Course, MayPatch(c), PatchCourse(c) \/ DelistCourse(c)
      PROVE  Inv'
  BY ZenonT(30), <1>3, <1>10 DEF PatchCourse, DelistCourse, InStock, Item
<1> HIDE DEF Inv, TypeOK, ShopTypeOK
<1> QED
  BY <1>5, <1>6, <1>7, <1>8, <1>9, <1>10 DEF OneRowRequest

-----------------------------------------------------------------------------
(* The end of a transaction, whatever it wrote under its own locks.        *)

\* A commit or rollback frees the locks of its own transaction only.
LEMMA EndTxInv ==
  ASSUME Inv, NEW t \in Tx, NEW l \in {"done", "replay"}, pc[t] # "idle",
         l = "replay" => IsCheckout(t),
         EndTx(t, l), reply' \in [Tx -> Order \cup {NULL, Rejected}],
         ShopTypeOK', OrdersKept, BuyersKnown', \A s \in Tx \ {t} : RowsKept(s)
  PROVE  Inv'
<1>1. TypeOK /\ Consistent(t)
  BY DEF Inv
<1>2. EmptyCart \in Cart
  BY DEF EmptyCart, Cart
<1>3. /\ userLock' \in [User -> Tx \cup {NULL}] /\ itemLock' \in [Item -> Tx \cup {NULL}]
      /\ cartLock' \in [User -> Tx \cup {NULL}] /\ orderLock' \in [Order -> Tx \cup {NULL}]
  BY <1>1 DEF TypeOK, EndTx, Release, Freed
<1>4. TypeOK'
  BY <1>1, <1>2, <1>3 DEF TypeOK, EndTx, Goto, Labels
<1>5. \A s \in Tx \ {t} : LocalsKept(s)
  BY <1>1 DEF TypeOK, EndTx, Release, Freed, Goto, LocalsKept
<1>6. pc'[t] = l /\ req' = req /\ \A u \in User : userLock'[u] # t
  BY <1>1 DEF TypeOK, EndTx, Release, Freed, Goto
<1>7. Consistent(t)'
  BY <1>1, <1>6 DEF Consistent, RequestOK, LocksHeld, CoveredBy, SeenIsBalance, StockReserved,
     InCheckout, HoldsUser, HoldsCart, IsCheckout, IsStatus, OrdersKept
<1> QED
  BY <1>4, <1>5, <1>7, Protected DEF Inv

\* A step that writes no table leaves the types of the tables alone.
LEMMA ShopKept == ASSUME Inv, UNCHANGED shopVars
                  PROVE  /\ ShopTypeOK' /\ OrdersKept /\ BuyersKnown'
                         /\ \A s \in Tx : RowsKept(s)
<1>1. ShopTypeOK'
  BY DEF Inv, TypeOK, shopVars, ShopTypeOK
<1>2. OrdersKept /\ BuyersKnown'
  BY DEF Inv, shopVars, OrdersKept, BuyersKnown, Used
<1>3. \A s \in Tx : RowsKept(s)
  BY DEF shopVars, RowsKept, InStock
<1> QED
  BY <1>1, <1>2, <1>3

\* A request turned away (an AppError before the commit) changes no table.
LEMMA RejectInv == ASSUME Inv, NEW t \in Tx, pc[t] # "idle", Reject(t)
                   PROVE  Inv'
<1>1. reply' \in [Tx -> Order \cup {NULL, Rejected}]
  BY DEF Inv, TypeOK, Reject, Answer
<1> QED
  BY <1>1, ShopKept, EndTxInv DEF Reject

\* A step that writes no table and touches no other transaction's locks.
LEMMA OwnStepInv ==
  ASSUME Inv, NEW t \in Tx, UNCHANGED shopVars, TypeOK',
         \A s \in Tx \ {t} : LocalsKept(s), Consistent(t)'
  PROVE  Inv'
  BY ShopKept, Protected DEF Inv

-----------------------------------------------------------------------------
(* Receiving, locking and reading.                                         *)

\* checkout and update_order_status parse and pre-check before they lock.
LEMMA ReceiveInv == ASSUME Inv, NEW t \in Tx, Receive(t) PROVE Inv'
<1>1. TypeOK /\ Consistent(t)
  BY DEF Inv
<1>2. pc[t] = "idle" /\ UNCHANGED <<shopVars, seen, targets, snap, locks>>
  BY DEF Receive, ReceiveCheckout, ReceiveStatus
<1>3. \A u \in User : userLock[u] # t
  BY <1>1, <1>2 DEF Consistent, LocksHeld, HoldsUser
<1>4. ASSUME NEW u \in User, NEW k \in AskKey, NEW use \in AskPoints, NEW d \in Coupons,
             ReceiveCheckout(t, u, k, use, d)
      PROVE  Inv'
  <2>1. CheckoutReq(u, k, use, d) \in Request
    BY DEF CheckoutReq, NoReq, Request
  <2>2. Recorded(u, k) => idem[u][k] \in Order
    BY <1>1 DEF Recorded, TypeOK, ShopTypeOK
  <2>3. TypeOK'
    BY <1>1, <1>2, <1>4, <2>1, <2>2, ShopKept
       DEF ReceiveCheckout, Goto, Answer, TypeOK, Labels, locks
  <2>4. \A s \in Tx \ {t} : LocalsKept(s)
    BY <1>1, <1>2, <1>4 DEF ReceiveCheckout, Goto, TypeOK, LocalsKept, locks
  <2>5. /\ req'[t].kind = "checkout" /\ req'[t].user = u
        /\ pc'[t] \in {"done", "lock_user"}
    BY <1>1, <1>4 DEF ReceiveCheckout, Goto, TypeOK, CheckoutReq, NoReq
  <2>6. Consistent(t)'
    BY <1>2, <1>3, <2>5 DEF Consistent, RequestOK, LocksHeld, CoveredBy, SeenIsBalance,
       StockReserved, InCheckout, HoldsUser, HoldsCart, IsCheckout, IsStatus, locks
  <2> QED
    BY <1>2, <2>3, <2>4, <2>6, OwnStepInv
<1>5. ASSUME NEW o \in Order, NEW s \in AskStatus, ReceiveStatus(t, o, s)
      PROVE  Inv'
  <2>1. StatusReq(o, s) \in Request
    BY DEF StatusReq, NoReq, Request
  <2>2. TypeOK'
    BY <1>1, <1>2, <1>5, <2>1, ShopKept DEF ReceiveStatus, Goto, TypeOK, Labels, locks
  <2>3. \A r \in Tx \ {t} : LocalsKept(r)
    BY <1>1, <1>2, <1>5 DEF ReceiveStatus, Goto, TypeOK, LocalsKept, locks
  <2>4. /\ req'[t].kind = "status" /\ req'[t].order = o /\ req'[t].target = s
        /\ pc'[t] = "lock_order" /\ Used(o)'
    BY <1>1, <1>2, <1>5 DEF ReceiveStatus, Goto, TypeOK, StatusReq, NoReq, shopVars, Used
  <2>5. Consistent(t)'
    BY <1>2, <1>3, <2>4 DEF Consistent, RequestOK, LocksHeld, CoveredBy, SeenIsBalance,
       StockReserved, InCheckout, HoldsUser, HoldsCart, IsCheckout, IsStatus, locks
  <2> QED
    BY <1>2, <2>2, <2>3, <2>5, OwnStepInv
<1> QED
  BY <1>4, <1>5 DEF Receive

\* lock_balance_tx reads the balance together with the lock.
LEMMA LockUserInv == ASSUME Inv, NEW t \in Tx, LockUser(t) PROVE Inv'
<1>1. TypeOK /\ Consistent(t)
  BY DEF Inv
<1>2. /\ UNCHANGED <<shopVars, req, targets, snap, reply, itemLock, cartLock, orderLock>>
      /\ pc[t] = "lock_user" /\ userLock[Buyer(t)] = NULL
      /\ pc' = [pc EXCEPT ![t] = "targets"]
      /\ userLock' = [userLock EXCEPT ![Buyer(t)] = t]
      /\ seen' = [seen EXCEPT ![t] = balance[Buyer(t)]]
  BY DEF LockUser, Goto
<1>3. Buyer(t) \in User
  BY <1>1, <1>2 DEF Inv, BuyersKnown, Consistent, RequestOK, Buyer
<1>4. TypeOK'
  BY <1>1, <1>2, <1>3, ShopKept DEF TypeOK, ShopTypeOK, Labels
<1>5. \A s \in Tx \ {t} : LocalsKept(s)
  BY <1>1, <1>2, <1>3 DEF TypeOK, LocalsKept
<1>6. Buyer(t)' = Buyer(t) /\ pc'[t] = "targets"
  BY <1>1, <1>2 DEF TypeOK, Buyer, IsStatus, shopVars
<1>7. \A u \in User : userLock'[u] = t => u = Buyer(t)
  BY <1>1, <1>2, <1>3 DEF TypeOK, Consistent, LocksHeld, HoldsUser
<1>8. RequestOK(t)' /\ CoveredBy(t)' /\ StockReserved(t)'
  BY <1>1, <1>2, <1>6 DEF Consistent, RequestOK, CoveredBy, StockReserved, InCheckout, HoldsCart,
     IsCheckout, IsStatus, shopVars, Used
<1>9. LocksHeld(t)' /\ SeenIsBalance(t)'
  BY <1>1, <1>2, <1>3, <1>6, <1>7 DEF TypeOK, LocksHeld, SeenIsBalance, HoldsUser, HoldsCart,
     shopVars
<1> QED
  BY <1>2, <1>4, <1>5, <1>8, <1>9, OwnStepInv DEF Consistent

\* find_checkout_targets_tx reads the cart under the buyer's row lock.
LEMMA ReadTargetsInv == ASSUME Inv, NEW t \in Tx, ReadTargets(t) PROVE Inv'
<1>1. TypeOK /\ Consistent(t)
  BY DEF Inv
<1> DEFINE T == IF IsCheckout(t) THEN Lines(cart[req[t].user]) ELSE orders[req[t].order].decremented
<1>2. /\ UNCHANGED <<shopVars, req, seen, snap, reply, locks>>
      /\ pc[t] = "targets" /\ pc' = [pc EXCEPT ![t] = "lock_items"]
      /\ targets' = [targets EXCEPT ![t] = T]
  BY DEF ReadTargets, Goto
<1>3. T \in SUBSET Item
  BY <1>1, <1>2 DEF TypeOK, ShopTypeOK, Consistent, RequestOK, OrderRow, Item, Lines
<1> HIDE DEF T
<1>4. TypeOK'
  BY <1>1, <1>2, <1>3, ShopKept DEF TypeOK, Labels, locks
<1>5. \A s \in Tx \ {t} : LocalsKept(s)
  BY <1>1, <1>2 DEF TypeOK, LocalsKept, locks
<1>6. pc'[t] = "lock_items" /\ targets'[t] = T
  BY <1>1, <1>2 DEF TypeOK
<1>7. CoveredBy(t)'
  BY <1>2, <1>6 DEF CoveredBy, InCheckout, IsCheckout, shopVars, T, Lines
<1>8. RequestOK(t)' /\ LocksHeld(t)' /\ SeenIsBalance(t)' /\ StockReserved(t)'
  BY <1>1, <1>2, <1>6 DEF Consistent, RequestOK, LocksHeld, SeenIsBalance, StockReserved,
     HoldsUser, HoldsCart, IsCheckout, IsStatus, Buyer, shopVars, Used, locks
<1> QED
  BY <1>2, <1>4, <1>5, <1>7, <1>8, OwnStepInv DEF Consistent

\* lock_products_tx and lock_courses_tx take one free row after another.
LEMMA LockItemInv == ASSUME Inv, NEW t \in Tx, LockItem(t) PROVE Inv'
<1>1. TypeOK /\ Consistent(t)
  BY DEF Inv
<1>2. /\ UNCHANGED <<shopVars, pc, req, seen, targets, snap, reply, userLock, cartLock, orderLock>>
      /\ pc[t] = "lock_items"
  BY DEF LockItem, locals
<1>3. PICK i \in Item : itemLock[i] = NULL /\ itemLock' = [itemLock EXCEPT ![i] = t]
  BY DEF LockItem
<1>4. TypeOK'
  BY <1>1, <1>2, <1>3, ShopKept DEF TypeOK
<1>5. \A s \in Tx \ {t} : LocalsKept(s)
  BY <1>1, <1>2, <1>3 DEF TypeOK, LocalsKept
<1>6. Consistent(t)'
  BY <1>1, <1>2 DEF Consistent, RequestOK, LocksHeld, CoveredBy, SeenIsBalance, StockReserved,
     InCheckout, HoldsUser, HoldsCart, IsCheckout, IsStatus, Buyer, shopVars, Used, Lines
<1> QED
  BY <1>2, <1>4, <1>5, <1>6, OwnStepInv

\* find_by_id_tx locks the order row FOR UPDATE.
LEMMA LockOrderInv == ASSUME Inv, NEW t \in Tx, LockOrder(t) PROVE Inv'
<1>1. TypeOK /\ Consistent(t)
  BY DEF Inv
<1>2. /\ UNCHANGED <<shopVars, req, seen, targets, snap, reply, userLock, itemLock, cartLock>>
      /\ pc[t] = "lock_order" /\ pc' = [pc EXCEPT ![t] = "decide"]
      /\ orderLock' = [orderLock EXCEPT ![req[t].order] = t]
  BY DEF LockOrder, Goto, locals
<1>3. TypeOK'
  BY <1>1, <1>2, ShopKept DEF TypeOK, Labels
<1>4. \A s \in Tx \ {t} : LocalsKept(s)
  BY <1>1, <1>2 DEF TypeOK, LocalsKept
<1>5. pc'[t] = "decide"
  BY <1>1, <1>2 DEF TypeOK
<1>6. Consistent(t)'
  BY <1>1, <1>2, <1>5 DEF Consistent, RequestOK, LocksHeld, CoveredBy, SeenIsBalance, StockReserved,
     InCheckout, HoldsUser, HoldsCart, IsCheckout, IsStatus, Buyer, shopVars, Used
<1> QED
  BY <1>2, <1>3, <1>4, <1>6, OwnStepInv

\* decide_transition judges the status of the locked order.
LEMMA DecideInv == ASSUME Inv, NEW t \in Tx, Decide(t) PROVE Inv'
<1>1. TypeOK /\ Consistent(t) /\ pc[t] = "decide"
  BY DEF Inv, Decide
<1>2. ASSUME EndTx(t, "done"), Answer(t, req[t].order), UNCHANGED shopVars
      PROVE  Inv'
  <2>1. reply' \in [Tx -> Order \cup {NULL, Rejected}]
    BY <1>1, <1>2 DEF TypeOK, Answer, Consistent, RequestOK
  <2> QED
    BY <1>1, <1>2, <2>1, ShopKept, EndTxInv
<1>3. ASSUME NEW l \in {"flip", "lock_user"}, Goto(t, l), UNCHANGED <<shopVars, locals, locks>>
      PROVE  Inv'
  <2>1. TypeOK'
    BY <1>1, <1>3, ShopKept DEF TypeOK, Goto, Labels, locals, locks
  <2>2. \A s \in Tx \ {t} : LocalsKept(s)
    BY <1>1, <1>3 DEF TypeOK, Goto, LocalsKept, locals, locks
  <2>3. pc'[t] = l
    BY <1>1, <1>3 DEF TypeOK, Goto
  <2>4. Consistent(t)'
    BY <1>1, <1>3, <2>3 DEF Consistent, RequestOK, LocksHeld, CoveredBy, SeenIsBalance,
       StockReserved, InCheckout, HoldsUser, HoldsCart, IsCheckout, IsStatus, Buyer, shopVars,
       Used, locals, locks
  <2> QED
    BY <1>3, <2>1, <2>2, <2>4, OwnStepInv
<1> QED
  BY <1>1, <1>2, <1>3, RejectInv DEF Decide

-----------------------------------------------------------------------------
(* From the cart snapshot to the commit.                                   *)

\* The cart snapshot and the early returns of checkout after it.
LEMMA CartStepInv == ASSUME Inv, NEW t \in Tx, CartStep(t) PROVE Inv'
<1>1. TypeOK /\ Consistent(t)
  BY DEF Inv
<1>2. CartFree(t) /\ pc[t] = "lock_items" /\ IsCheckout(t)
  BY DEF CartStep, FindCartEmpty, FindDelisted, FindCouponInvalid, ReadCart, CartFree, HoldsTargets
<1>3. ASSUME FindCartEmpty(t) PROVE Inv'
  <2>1. reply' \in [Tx -> Order \cup {NULL, Rejected}]
    BY <1>1, <1>3 DEF FindCartEmpty, TypeOK
  <2> QED
    BY <1>2, <1>3, <2>1, ShopKept, EndTxInv DEF FindCartEmpty
<1>4. ASSUME FindDelisted(t) \/ FindCouponInvalid(t) PROVE Inv'
  BY <1>2, <1>4, RejectInv DEF FindDelisted, FindCouponInvalid
<1>5. ASSUME ReadCart(t) PROVE Inv'
  <2>1. /\ UNCHANGED <<shopVars, req, seen, targets, reply, userLock, itemLock, orderLock>>
        /\ pc' = [pc EXCEPT ![t] = "reserve"]
        /\ cartLock[req[t].user] = NULL /\ cartLock' = [cartLock EXCEPT ![req[t].user] = t]
        /\ snap' = [snap EXCEPT ![t] = cart[req[t].user]]
    BY <1>5 DEF ReadCart, CartFree, Goto
  <2>2. req[t].user \in User
    BY <1>1, <1>2 DEF Consistent, RequestOK
  <2>3. TypeOK'
    BY <1>1, <2>1, <2>2, ShopKept DEF TypeOK, ShopTypeOK, Labels
  <2>4. \A s \in Tx \ {t} : LocalsKept(s)
    BY <1>1, <2>1, <2>2 DEF TypeOK, LocalsKept
  <2>5. /\ pc'[t] = "reserve" /\ snap'[t] = cart[req[t].user] /\ cartLock'[req[t].user] = t
    BY <1>1, <2>1, <2>2 DEF TypeOK
  <2>6. \A i \in Lines(cart[req[t].user]) : itemLock[i] = t
    BY <1>1, <1>2 DEF Consistent, CoveredBy, InCheckout, CartFree, HoldsTargets, Unlocked
  <2>7. CoveredBy(t)'
    BY <2>1, <2>5, <2>6 DEF CoveredBy, InCheckout, IsCheckout, shopVars, Lines
  <2>8. RequestOK(t)' /\ LocksHeld(t)' /\ SeenIsBalance(t)' /\ StockReserved(t)'
    BY <1>1, <1>2, <2>1, <2>2, <2>5 DEF Consistent, RequestOK, LocksHeld, SeenIsBalance,
       StockReserved, HoldsUser, HoldsCart, IsCheckout, IsStatus, Buyer, shopVars, Used
  <2> QED
    BY <2>1, <2>3, <2>4, <2>7, <2>8, OwnStepInv DEF Consistent
<1> QED
  BY <1>3, <1>4, <1>5 DEF CartStep

\* reserve_stock_tx and enrol_batch_from_purchase_tx judge locked rows.
LEMMA ReserveInv == ASSUME Inv, NEW t \in Tx, Reserve(t) \/ Enrol(t) PROVE Inv'
<1>1. TypeOK /\ Consistent(t) /\ pc[t] \in {"reserve", "enrol"}
  BY DEF Inv, Reserve, Enrol
<1>2. ASSUME NEW l \in {"enrol", "commit"}, Goto(t, l), UNCHANGED <<shopVars, locals, locks>>,
             pc[t] = "reserve" => CanReserve(t)
      PROVE  Inv'
  <2>1. TypeOK'
    BY <1>1, <1>2, ShopKept DEF TypeOK, Goto, Labels, locals, locks
  <2>2. \A s \in Tx \ {t} : LocalsKept(s)
    BY <1>1, <1>2 DEF TypeOK, Goto, LocalsKept, locals, locks
  <2>3. pc'[t] = l
    BY <1>1, <1>2 DEF TypeOK, Goto
  <2>4. StockReserved(t)'
    BY <1>1, <1>2, <2>3 DEF Consistent, StockReserved, CanReserve, shopVars, locals, InStock, Lines
  <2>5. RequestOK(t)' /\ LocksHeld(t)' /\ CoveredBy(t)' /\ SeenIsBalance(t)'
    BY <1>1, <1>2, <2>3 DEF Consistent, RequestOK, LocksHeld, CoveredBy, SeenIsBalance,
       InCheckout, HoldsUser, HoldsCart, IsCheckout, IsStatus, Buyer, shopVars, Used, locals,
       locks, Lines
  <2> QED
    BY <1>2, <2>1, <2>2, <2>4, <2>5, OwnStepInv DEF Consistent
<1> QED
  BY <1>1, <1>2, RejectInv DEF Reserve, Enrol

\* The writes of checkout stay within the rows it has locked.
LEMMA CommitInv == ASSUME Inv, NEW t \in Tx, Commit(t) PROVE Inv'
<1>1. TypeOK /\ Consistent(t) /\ pc[t] = "commit" /\ IsCheckout(t)
  BY DEF Inv, Commit, Consistent, RequestOK, HoldsCart
<1> DEFINE r == req[t]
           u == r.user
<1>2. ASSUME EndTx(t, "replay"), UNCHANGED <<shopVars, reply>> PROVE Inv'
  BY <1>1, <1>2, ShopKept, EndTxInv DEF TypeOK
<1>3. ASSUME NEW o \in Order, NewOrder(o), Answer(t, o), EndTx(t, "done"),
             PlaceOrder(o, u, r.key, snap[t], seen[t], r.use, r.coupon)
      PROVE  Inv'
  <2>1. u \in User /\ r.key \in Key \cup {NULL} /\ r.coupon \in Nat
    <3>1. req[t] \in Request
      BY <1>1 DEF TypeOK
    <3>2. u \in User
      BY <1>1 DEF Consistent, RequestOK
    <3>3. r.coupon \in Coupons \cup {0} /\ r.key \in Key \cup {NULL}
      BY <3>1 DEF Request
    <3>4. Coupons \cup {0} \subseteq Nat
      BY ShopAssumption
    <3> HIDE DEF r, u
    <3>5. r.coupon \in Nat
      BY <3>3, <3>4
    <3> QED
      BY <3>2, <3>3, <3>5
  <2>2. seen[t] = balance[u] /\ userLock[u] = t
    BY <1>1, <2>1 DEF Consistent, LocksHeld, SeenIsBalance, HoldsUser, Buyer, IsCheckout, IsStatus
  <2> DEFINE q == price(Worth[snap[t]], r.coupon, seen[t], r.use)
  <2>3. q.used \in Nat /\ q.earned \in Nat
    BY <1>1, <2>1, PriceNat DEF TypeOK
  <2> HIDE DEF q
  <2>4. ledger_deltas(balance[u], q) # Overdrawn => ledger_deltas(balance[u], q) \in Nat
    BY <1>1, <2>1, <2>3 DEF ledger_deltas, ApplyDelta, Overdrawn, TypeOK, ShopTypeOK
  <2>5. /\ balance' = [balance EXCEPT ![u] = ledger_deltas(balance[u], q)]
        /\ ledger_deltas(balance[u], q) \in Nat
        /\ stock' = StockMoved(Lines(snap[t]) \cap Product, [p \in Product |-> -snap[t][p]])
        /\ orders' = [orders EXCEPT ![o] =
             [status |-> "paid", buyer |-> u, key |-> r.key, lines |-> snap[t],
              decremented |-> Finite(Lines(snap[t]) \cap Product)]]
        /\ ledger' = [ledger EXCEPT ![o] =
             [used |-> q.used, earned |-> q.earned, restored |-> 0, clawed |-> 0]]
        /\ enrolled' = [enrolled EXCEPT ![o] = Lines(snap[t]) \cap Course]
        /\ granted' = [granted EXCEPT ![o] = Lines(snap[t]) \cap Entitled]
        /\ cart' = [cart EXCEPT ![u] = EmptyCart]
        /\ idem' = IF r.key = NULL THEN idem ELSE [idem EXCEPT ![u][r.key] = o]
        /\ outbox' = outbox \cup {<<o, "created">>}
        /\ UNCHANGED <<adjusted, onSale, timeBased, seats>>
    BY <1>3, <2>4 DEF PlaceOrder, q
  <2>6. EmptyCart \in Cart /\ snap[t] \in Cart /\ Lines(EmptyCart) = {}
    BY <1>1 DEF EmptyCart, Cart, TypeOK, Lines
  <2>7. \A p \in Lines(snap[t]) \cap Product :
          InStock(p, snap[t][p]) /\ itemLock[p] = t /\ snap[t][p] \in Nat
    BY <1>1, <2>6 DEF Consistent, StockReserved, CoveredBy, InCheckout, Cart, Item
  <2>8. /\ stock' \in [Product -> Stock]
        /\ \A p \in Product : itemLock[p] # t => stock'[p] = stock[p]
    BY <1>1, <2>5, <2>7 DEF StockMoved, Finite, InStock, TypeOK, ShopTypeOK, Stock
  <2>9. ShopTypeOK'
    <3>1. balance' \in [User -> Nat] /\ cart' \in [User -> Cart] /\ ledger' \in [Order -> PointRows]
      BY <1>1, <2>1, <2>3, <2>5, <2>6 DEF TypeOK, ShopTypeOK, PointRows
    <3>2. orders' \in [Order -> OrderRow]
      BY <1>1, <2>1, <2>5, <2>6 DEF TypeOK, ShopTypeOK, OrderRow, Finite, OrderStatus
    <3>3. /\ enrolled' \in [Order -> SUBSET Course] /\ granted' \in [Order -> SUBSET Product]
          /\ outbox' \in SUBSET Event
      BY <1>1, <2>5 DEF TypeOK, ShopTypeOK, Event
    <3>4. idem' \in [User -> [Key -> Order \cup {NULL}]]
      BY <1>1, <2>1, <2>5 DEF TypeOK, ShopTypeOK
    <3> QED
      BY <1>1, <2>5, <2>8, <3>1, <3>2, <3>3, <3>4 DEF TypeOK, ShopTypeOK
  <2>10. OrdersKept /\ BuyersKnown'
    BY <1>1, <1>3, <2>1, <2>5 DEF Inv, OrdersKept, BuyersKnown, NewOrder, Used, TypeOK, ShopTypeOK
  <2>11. \A s \in Tx \ {t} : RowsKept(s)
    <3>1. \A v \in User : userLock[v] # t => balance'[v] = balance[v] /\ cart'[v] = cart[v]
      BY <1>1, <2>1, <2>2, <2>5 DEF TypeOK, ShopTypeOK
    <3> QED
      BY <2>8, <3>1 DEF RowsKept, InStock, Lines
  <2>12. reply' \in [Tx -> Order \cup {NULL, Rejected}]
    BY <1>1, <1>3 DEF TypeOK, Answer
  <2> QED
    BY <1>1, <1>3, <2>9, <2>10, <2>11, <2>12, EndTxInv
<1> QED
  BY <1>2, <1>3 DEF Commit

-----------------------------------------------------------------------------
(* Status changes, answers and crashes.                                    *)

\* A legal transition leads to a status, and never from "none".
LEMMA NewStatus ==
  ASSUME orders \in [Order -> OrderRow], outbox \in SUBSET Event,
         NEW o \in Order, NEW s \in OrderStatus,
         orders' = [orders EXCEPT ![o].status = s], outbox' = outbox \cup {<<o, s>>}
  PROVE  orders' \in [Order -> OrderRow] /\ outbox' \in SUBSET Event
<1>1. [orders[o] EXCEPT !.status = s] \in OrderRow
  BY DEF OrderRow
<1>2. <<o, s>> \in Event
  BY DEF Event
<1> QED
  BY <1>1, <1>2

\* A flip writes the status of the locked order and nothing else.
LEMMA FlipStatusInv == ASSUME Inv, NEW t \in Tx, FlipStatus(t) PROVE Inv'
<1> DEFINE o == req[t].order
           s == req[t].target
<1>1. TypeOK /\ BuyersKnown /\ Consistent(t) /\ pc[t] = "flip"
  BY DEF Inv, FlipStatus
<1>2. o \in Order /\ Used(o) /\ s \in OrderStatus
  BY <1>1 DEF Consistent, RequestOK
<1>3. /\ orders' = [orders EXCEPT ![o].status = s] /\ outbox' = outbox \cup {<<o, s>>}
      /\ UNCHANGED <<balance, adjusted, cart, catalog, ledger, enrolled, granted, idem>>
      /\ EndTx(t, "done") /\ Answer(t, o)
  BY DEF FlipStatus, Flip
<1>4. ShopTypeOK'
  <2>1. orders \in [Order -> OrderRow] /\ outbox \in SUBSET Event
    BY <1>1 DEF TypeOK, ShopTypeOK
  <2>2. orders' \in [Order -> OrderRow] /\ outbox' \in SUBSET Event
    BY <2>1, <1>2, <1>3, NewStatus
  <2> QED
    BY <1>1, <1>3, <2>2 DEF TypeOK, ShopTypeOK, catalog
<1>5. OrdersKept /\ BuyersKnown'
  BY <1>1, <1>2, <1>3 DEF OrdersKept, BuyersKnown, Used, TypeOK, ShopTypeOK, OrderRow, OrderStatus
<1>6. \A r \in Tx : RowsKept(r)
  BY <1>3 DEF RowsKept, InStock, catalog
<1>7. reply' \in [Tx -> Order \cup {NULL, Rejected}]
  BY <1>1, <1>2, <1>3 DEF TypeOK, Answer
<1> QED
  BY <1>1, <1>3, <1>4, <1>5, <1>6, <1>7, EndTxInv

\* compensate_order_artifacts_tx writes the rows it has locked.
LEMMA RefundInv == ASSUME Inv, NEW t \in Tx, Refund(t) PROVE Inv'
<1> DEFINE o == req[t].order
           s == req[t].target
           u == orders[o].buyer
<1>1. TypeOK /\ BuyersKnown /\ Consistent(t) /\ pc[t] = "lock_items" /\ IsStatus(t)
  BY DEF Inv, Refund, HoldsTargets
<1>2. o \in Order /\ Used(o) /\ s \in OrderStatus /\ u \in User
  BY <1>1 DEF Consistent, RequestOK, BuyersKnown
<1>3. userLock[u] = t
  BY <1>1 DEF Consistent, LocksHeld, HoldsUser, Buyer
<1>4. ASSUME Compensate(o, s, targets[t]), EndTx(t, "done"), Answer(t, o)
      PROVE  Inv'
  <2>1. ledger[o] \in PointRows /\ orders[o] \in OrderRow /\ balance[u] \in Nat
    BY <1>1, <1>2 DEF TypeOK, ShopTypeOK
  <2>2. /\ reversal_deltas(balance[u], ledger[o]) \in Nat
    <3>1. reversal_deltas(balance[u], ledger[o]) # Overdrawn
      BY <1>4 DEF Compensate, CanReverse
    <3>2. /\ ledger[o].used \in Nat /\ ledger[o].earned \in Nat
      BY <2>1 DEF PointRows
    <3> HIDE DEF u, o
    <3>3. QED
      BY <2>1, <3>1, <3>2 DEF reversal_deltas, ApplyDelta, Overdrawn
  <2> HIDE DEF u, s, o
  <2>3. /\ balance' = [balance EXCEPT ![u] = reversal_deltas(balance[u], ledger[o])]
        /\ ledger' = [ledger EXCEPT ![o].restored = ledger[o].used, ![o].clawed = ledger[o].earned]
        /\ stock' = StockMoved(targets[t], orders[o].lines)
        /\ enrolled' = [enrolled EXCEPT ![o] = {}]
        /\ granted' = [granted EXCEPT ![o] = {}]
        /\ orders' = [orders EXCEPT ![o].status = s]
        /\ outbox' = outbox \cup {<<o, s>>}
        /\ UNCHANGED <<adjusted, cart, onSale, timeBased, seats, idem>>
    BY <1>4 DEF Compensate, u
  <2>4. \A p \in Product : orders[o].lines[p] \in Nat
    BY <2>1 DEF OrderRow, Cart, Item
  <2>5. /\ stock' \in [Product -> Stock]
        /\ \A p \in Product, n \in Nat : InStock(p, n) => InStock(p, n)'
    BY <1>1, <2>3, <2>4 DEF StockMoved, Finite, InStock, TypeOK, ShopTypeOK, Stock
  <2>6. ShopTypeOK'
    <3>1. balance' \in [User -> Nat] /\ ledger' \in [Order -> PointRows]
      BY <1>1, <2>1, <2>2, <2>3 DEF TypeOK, ShopTypeOK, PointRows
    <3>2. orders \in [Order -> OrderRow] /\ outbox \in SUBSET Event
      BY <1>1 DEF TypeOK, ShopTypeOK
    <3>3. orders' \in [Order -> OrderRow] /\ outbox' \in SUBSET Event
      BY <1>2, <2>3, <3>2, NewStatus
    <3> QED
      BY <1>1, <2>3, <2>5, <3>1, <3>3 DEF TypeOK, ShopTypeOK
  <2>7. OrdersKept /\ BuyersKnown'
    BY <1>1, <1>2, <2>3 DEF OrdersKept, BuyersKnown, Used, TypeOK, ShopTypeOK, OrderRow, OrderStatus
  <2>8. \A r \in Tx \ {t} : RowsKept(r)
    <3>1. \A v \in User : userLock[v] # t => balance'[v] = balance[v] /\ cart'[v] = cart[v]
      BY <1>1, <1>2, <1>3, <2>3 DEF TypeOK, ShopTypeOK
    <3> QED
      BY <2>3, <2>5, <3>1 DEF RowsKept, Lines
  <2>9. reply' \in [Tx -> Order \cup {NULL, Rejected}]
    BY <1>1, <1>2, <1>4 DEF TypeOK, Answer
  <2> QED
    BY <1>1, <1>4, <2>6, <2>7, <2>8, <2>9, EndTxInv
<1> QED
  BY <1>1, <1>4, RejectInv DEF Refund

\* replay_by_key reads the key after the transaction has ended.
LEMMA ReplayInv == ASSUME Inv, NEW t \in Tx, Replay(t) PROVE Inv'
<1> DEFINE r == req[t]
           a == IF Recorded(r.user, r.key) THEN idem[r.user][r.key] ELSE Rejected
<1>1. TypeOK /\ Consistent(t)
  BY DEF Inv
<1>2. /\ UNCHANGED <<shopVars, req, seen, targets, snap, locks>>
      /\ pc[t] = "replay" /\ pc' = [pc EXCEPT ![t] = "done"]
      /\ reply' = [reply EXCEPT ![t] = a]
  BY DEF Replay, Goto, Answer
<1>3. r.user \in User /\ r.key \in Key \cup {NULL}
  <2>1. r \in Request
    BY <1>1 DEF TypeOK
  <2> QED
    BY <1>1, <1>2, <2>1 DEF Consistent, RequestOK, Request, HoldsCart
<1>4. a \in Order \cup {NULL, Rejected}
  BY <1>1, <1>3 DEF Recorded, TypeOK, ShopTypeOK
<1> HIDE DEF a, r
<1>5. TypeOK'
  BY <1>1, <1>2, <1>4, ShopKept DEF TypeOK, Labels, locks
<1>6. \A s \in Tx \ {t} : LocalsKept(s)
  BY <1>1, <1>2 DEF TypeOK, LocalsKept, locks
<1>7. pc'[t] = "done"
  BY <1>1, <1>2 DEF TypeOK
<1>8. Consistent(t)'
  BY <1>1, <1>2, <1>7 DEF Consistent, RequestOK, LocksHeld, CoveredBy, SeenIsBalance, StockReserved,
     InCheckout, HoldsUser, HoldsCart, IsCheckout, IsStatus, Buyer, shopVars, Used, locks
<1> QED
  BY <1>2, <1>5, <1>6, <1>8, OwnStepInv

\* A finished or crashed request holds nothing.
LEMMA LeaveInv == ASSUME Inv, NEW t \in Tx, Finish(t) \/ Crash(t) PROVE Inv'
<1>1. TypeOK /\ Consistent(t)
  BY DEF Inv
<1>2. EmptyCart \in Cart /\ NoReq \in Request
  BY DEF EmptyCart, Cart, NoReq, Request
<1>3. /\ UNCHANGED shopVars
      /\ pc' = [pc EXCEPT ![t] = "idle"] /\ reply' = [reply EXCEPT ![t] = NULL]
      /\ req' = [req EXCEPT ![t] = NoReq]
      /\ \/ pc[t] = "done" /\ UNCHANGED <<seen, targets, snap, locks>>
         \/ /\ seen' = [seen EXCEPT ![t] = 0] /\ targets' = [targets EXCEPT ![t] = {}]
            /\ snap' = [snap EXCEPT ![t] = EmptyCart]
            /\ Release(t)
  BY DEF Finish, Crash, Goto, Answer
<1>4. /\ userLock' \in [User -> Tx \cup {NULL}] /\ itemLock' \in [Item -> Tx \cup {NULL}]
      /\ cartLock' \in [User -> Tx \cup {NULL}] /\ orderLock' \in [Order -> Tx \cup {NULL}]
  BY <1>1, <1>3 DEF TypeOK, Release, Freed, locks
<1>5. TypeOK'
  BY <1>1, <1>2, <1>3, <1>4, ShopKept DEF TypeOK, Labels
<1>6. \A s \in Tx \ {t} : LocalsKept(s)
  BY <1>1, <1>3 DEF TypeOK, Release, Freed, LocalsKept, locks
<1>7. /\ pc'[t] = "idle" /\ req'[t].kind = "none" /\ \A u \in User : userLock'[u] # t
  BY <1>1, <1>3 DEF TypeOK, Release, Freed, locks, Consistent, LocksHeld, HoldsUser, NoReq
<1>8. Consistent(t)'
  BY <1>7 DEF Consistent, RequestOK, LocksHeld, CoveredBy, SeenIsBalance, StockReserved,
     InCheckout, HoldsUser, HoldsCart, IsCheckout, IsStatus
<1> QED
  BY <1>3, <1>5, <1>6, <1>8, OwnStepInv

-----------------------------------------------------------------------------
\* Inv is inductive: one case per action of Next.
LEMMA StepInv == Inv /\ [Next]_vars => Inv'
<1> SUFFICES ASSUME Inv, [Next]_vars PROVE Inv'
  OBVIOUS
<1>1. CASE OneRowRequest
  BY <1>1, OneRowInv
<1>2. ASSUME NEW t \in Tx,
             Receive(t) \/ LockStep(t) \/ CartStep(t) \/ LocalStep(t) \/ Crash(t)
      PROVE  Inv'
  <2>1. CASE Receive(t)
    BY <2>1, ReceiveInv
  <2>2. CASE LockStep(t)
    BY <2>2, LockUserInv, LockItemInv, LockOrderInv DEF LockStep
  <2>3. CASE CartStep(t)
    BY <2>3, CartStepInv
  <2>4. CASE LocalStep(t)
    BY <2>4, ReadTargetsInv, ReserveInv, CommitInv, ReplayInv, DecideInv, FlipStatusInv,
       RefundInv, LeaveInv DEF LocalStep
  <2>5. CASE Crash(t)
    BY <2>5, LeaveInv
  <2> QED
    BY <1>2, <2>1, <2>2, <2>3, <2>4, <2>5
<1>3. CASE UNCHANGED vars
  BY <1>3 DEF vars, shopVars, locals, locks, Inv, TypeOK, ShopTypeOK, BuyersKnown, Consistent,
     RequestOK, LocksHeld, CoveredBy, SeenIsBalance, StockReserved, InCheckout, IsCheckout,
     IsStatus, Buyer, Used, InStock, Lines
<1> QED
  BY <1>1, <1>2, <1>3 DEF Next

\* Every transaction stays consistent with the rows it has locked: the
\* inductive invariant, over every interleaving of the code's transactions.
THEOREM Invariance == Spec => []Inv
  BY InitInv, StepInv, PTL DEF Spec

\* The tables and the transactions' variables keep their types; in particular
\* no balance and no finite stock goes below zero.
THEOREM TypesHold == Spec => []TypeOK
<1>1. Inv => TypeOK
  BY DEF Inv
<1> QED
  BY <1>1, Invariance, PTL

\* orders/locks.rs: what a checkout snapshots from the cart is covered by the
\* item rows it locked from an earlier read of the cart, and stays the cart.
THEOREM CartStaysCovered == Spec => []CartCovered
<1>1. Inv => CartCovered
  BY DEF Inv, Consistent, CartCovered
<1> QED
  BY <1>1, Invariance, PTL

\* points/service.rs: the balance a transaction read when it locked its buyer's
\* row is the balance until it commits.
THEOREM BalanceStaysFresh == Spec => []BalanceNotStale
<1>1. Inv => BalanceNotStale
  BY DEF Inv, Consistent, BalanceNotStale
<1> QED
  BY <1>1, Invariance, PTL
=============================================================================
