----------------------- MODULE CheckoutOrders_proofs -----------------------
(***************************************************************************)
(* What checkout sells, for every value of its constants: who a key and an *)
(* answer belong to, that a purchase is the cart, and that neither a seat  *)
(* nor an enrolment is sold twice; and, from these, that Checkout          *)
(* implements Shop.  All of it rests on the invariant of Checkout_proofs:  *)
(* the row locks of a transaction protect what it read.                    *)
(***************************************************************************)
EXTENDS Checkout_proofs, SumTheorems

\* An order that is not placed yet is blank; a key leads to an order of its user.
BlankOrders == \A o \in Order : ~Used(o) => orders[o].key = NULL /\ enrolled[o] = {}
KeysLead ==
  \A u \in User, k \in Key : idem[u][k] # NULL =>
    /\ Used(idem[u][k])
    /\ orders[idem[u][k]].buyer = u /\ orders[idem[u][k]].key = k

Books == BlankOrders /\ KeysLead /\ OneOrderPerKey /\ OneActiveEnrolment

\* What a request was answered with, and what it found under its item locks.
OwnAnswer(t) ==
  InCheckout(t, {"done"}) /\ reply[t] # Rejected =>
    /\ reply[t] \in Order /\ Used(reply[t])
    /\ orders[reply[t]].buyer = req[t].user /\ orders[reply[t]].key = req[t].key
StillOnSale(t) == pc[t] \in HoldsCart => \A i \in Lines(snap[t]) : onSale[i]
StillFree(t) == pc[t] = "commit" => CanEnrol(t)
Found(t) == OwnAnswer(t) /\ StillOnSale(t) /\ StillFree(t)

OrdersInv == Inv /\ Books /\ \A t \in Tx : Found(t)


LEMMA InitOrders == Init => OrdersInv
<1> SUFFICES ASSUME Init PROVE OrdersInv
  OBVIOUS
<1>1. Books
  BY DEF Init, ShopInit, Books, BlankOrders, KeysLead, OneOrderPerKey, OneActiveEnrolment, NoOrder, Used
<1>2. \A t \in Tx : Found(t)
  BY DEF Init, Found, OwnAnswer, StillOnSale, StillFree, InCheckout, HoldsCart
<1> QED
  BY <1>1, <1>2, InitInv DEF OrdersInv

-----------------------------------------------------------------------------
(* Every step but the commit of a purchase is mild: it places no order,    *)
(* activates no enrolment and leaves locked catalog rows alone.            *)

Mild ==
  /\ \A o \in Order : /\ Used(o)' = Used(o)
                      /\ orders'[o].buyer = orders[o].buyer /\ orders'[o].key = orders[o].key
                      /\ enrolled'[o] \subseteq enrolled[o]
  /\ idem' = idem
  /\ \A i \in Item : itemLock[i] # NULL => onSale'[i] = onSale[i]
  /\ \A c \in Course : itemLock[c] # NULL => seats'[c] = seats[c]

LEMMA MildBooks == ASSUME Inv, Books, Mild PROVE Books'
<1> USE DEF Mild, Books
<1>1. BlankOrders'
  BY DEF BlankOrders
<1>2. KeysLead'
  <2> SUFFICES ASSUME NEW u \in User, NEW k \in Key, idem[u][k] # NULL
               PROVE  /\ orders'[idem[u][k]].status # "none"
                      /\ orders'[idem[u][k]].buyer = u /\ orders'[idem[u][k]].key = k
    BY DEF KeysLead, Used
  <2>1. idem[u][k] \in Order
    BY DEF Inv, TypeOK, ShopTypeOK
  <2> QED  BY <2>1 DEF KeysLead, Used
<1>3. OneOrderPerKey'
  BY DEF OneOrderPerKey
<1>4. OneActiveEnrolment'
  BY DEF OneActiveEnrolment
<1> QED  BY <1>1, <1>2, <1>3, <1>4

LEMMA QuietIsMild == UNCHANGED shopVars => Mild
  BY DEF shopVars, Mild, Used

LEMMA OneRowIsMild == ASSUME Inv, OneRowRequest PROVE Mild
<1> USE DEF Inv, TypeOK, ShopTypeOK
<1>1. CASE UNCHANGED <<orders, enrolled, idem, onSale, seats>>
  BY <1>1 DEF Mild, Used
<1>2. ASSUME NEW o \in Order, NEW c \in Course, CancelEnrolment(o, c)
      PROVE  Mild
  BY <1>2 DEF CancelEnrolment, catalog, Mild, Used
<1>3. ASSUME NEW p \in Product, MayPatch(p), PatchProduct(p)
      PROVE  Mild
  BY <1>3 DEF PatchProduct, MayPatch, artifacts, Mild, Used, Item
<1>4. ASSUME NEW c \in Course, MayPatch(c), PatchCourse(c) \/ DelistCourse(c)
      PROVE  Mild
  BY <1>4 DEF PatchCourse, DelistCourse, MayPatch, artifacts, Mild, Used, Item
<1> QED
  BY <1>1, <1>2, <1>3, <1>4 DEF OneRowRequest, AddToCart, UpdateQuantity, RemoveItem, ClearCart,
     AdjustPoints, catalog, artifacts

LEMMA FlipIsMild == ASSUME Inv, NEW t \in Tx, FlipStatus(t) PROVE Mild
<1>1. req[t].order \in Order /\ Used(req[t].order) /\ req[t].target \in OrderStatus
  BY DEF FlipStatus, Inv, Consistent, RequestOK
<1>2. orders \in [Order -> OrderRow]
  BY DEF Inv, TypeOK, ShopTypeOK
<1>3. /\ orders' = [orders EXCEPT ![req[t].order].status = req[t].target]
      /\ UNCHANGED <<enrolled, idem, onSale, seats>>
  BY DEF FlipStatus, Flip, catalog
<1> QED
  BY <1>1, <1>2, <1>3 DEF Mild, Used, OrderRow, OrderStatus

LEMMA RefundIsMild == ASSUME Inv, NEW t \in Tx, Refund(t) PROVE Mild
<1>1. req[t].order \in Order /\ Used(req[t].order) /\ req[t].target \in OrderStatus
  BY DEF Refund, Inv, Consistent, RequestOK
<1>2. orders \in [Order -> OrderRow] /\ enrolled \in [Order -> SUBSET Course]
  BY DEF Inv, TypeOK, ShopTypeOK
<1>3. CASE Reject(t)
  BY <1>3, QuietIsMild DEF Reject
<1>4. CASE /\ orders' = [orders EXCEPT ![req[t].order].status = req[t].target]
           /\ enrolled' = [enrolled EXCEPT ![req[t].order] = {}]
           /\ UNCHANGED <<idem, onSale, seats>>
  BY <1>1, <1>2, <1>4 DEF Mild, Used, OrderRow, OrderStatus
<1> QED
  BY <1>3, <1>4 DEF Refund, Compensate

-----------------------------------------------------------------------------
(* The commit of a purchase.                                               *)

\* The commit of the checkout t that places the order o.
Places(t, o) ==
  /\ pc[t] = "commit" /\ ~Recorded(req[t].user, req[t].key)
  /\ NewOrder(o) /\ Answer(t, o) /\ EndTx(t, "done")
  /\ PlaceOrder(o, req[t].user, req[t].key, snap[t], seen[t], req[t].use, req[t].coupon)

\* What it writes, in the terms of the properties below.
LEMMA Placed ==
  ASSUME OrdersInv, NEW t \in Tx, NEW o \in Order, Places(t, o)
  PROVE  LET u == req[t].user  k == req[t].key IN
         /\ u \in User /\ k \in Key \cup {NULL}
         /\ ~Used(o) /\ enrolled[o] = {}
         /\ orders'[o].status = "paid" /\ orders'[o].buyer = u /\ orders'[o].key = k
         /\ orders'[o].lines = snap[t]
         /\ enrolled'[o] = Lines(snap[t]) \cap Course
         /\ \A r \in Order \ {o} : orders'[r] = orders[r] /\ enrolled'[r] = enrolled[r]
         /\ \A v \in User, j \in Key : idem'[v][j] = IF v = u /\ j = k THEN o ELSE idem[v][j]
         /\ k # NULL => idem[u][k] = NULL
         /\ cart' = [cart EXCEPT ![u] = EmptyCart] /\ cart[u] = snap[t]
         /\ UNCHANGED <<onSale, seats, req>>
         /\ CanEnrol(t) /\ \A i \in Lines(snap[t]) : itemLock[i] = t /\ onSale[i]
         /\ pc'[t] = "done" /\ reply'[t] = o
         /\ \A s \in Tx \ {t} : pc'[s] = pc[s] /\ reply'[s] = reply[s] /\ snap'[s] = snap[s]
<1> USE DEF Places
<1>1. /\ TypeOK /\ Consistent(t) /\ Found(t) /\ Books
      /\ IsCheckout(t) /\ pc[t] = "commit"
  BY DEF OrdersInv, Inv, Consistent, RequestOK, HoldsCart
<1>2. req[t].user \in User /\ req[t].key \in Key \cup {NULL}
  BY <1>1 DEF TypeOK, Request, Consistent, RequestOK
<1>3. /\ orders' = [orders EXCEPT ![o] =
            [status |-> "paid", buyer |-> req[t].user, key |-> req[t].key, lines |-> snap[t],
             decremented |-> Finite(Lines(snap[t]) \cap Product)]]
      /\ enrolled' = [enrolled EXCEPT ![o] = Lines(snap[t]) \cap Course]
      /\ cart' = [cart EXCEPT ![req[t].user] = EmptyCart]
      /\ idem' = IF req[t].key = NULL THEN idem
                 ELSE [idem EXCEPT ![req[t].user][req[t].key] = o]
      /\ UNCHANGED <<onSale, seats, req>>
  BY DEF PlaceOrder, EndTx
<1>4. ~Used(o) /\ enrolled[o] = {}
  BY <1>1 DEF NewOrder, Books, BlankOrders
<1>5. /\ orders'[o].status = "paid" /\ orders'[o].buyer = req[t].user
      /\ orders'[o].key = req[t].key /\ orders'[o].lines = snap[t]
      /\ enrolled'[o] = Lines(snap[t]) \cap Course
      /\ \A r \in Order \ {o} : orders'[r] = orders[r] /\ enrolled'[r] = enrolled[r]
  BY <1>1, <1>3 DEF TypeOK, ShopTypeOK
<1>6. \A v \in User, j \in Key :
        idem'[v][j] = IF v = req[t].user /\ j = req[t].key THEN o ELSE idem[v][j]
  <2>1. CASE req[t].key = NULL
    BY <1>3, <2>1, ShopAssumption
  <2>2. CASE req[t].key # NULL
    BY <1>1, <1>2, <1>3, <2>2 DEF TypeOK, ShopTypeOK
  <2> QED  BY <2>1, <2>2
<1>7. req[t].key # NULL => idem[req[t].user][req[t].key] = NULL
  BY DEF Recorded
<1>8. cart[req[t].user] = snap[t] /\ \A i \in Lines(snap[t]) : itemLock[i] = t
  BY <1>1 DEF Consistent, CoveredBy, InCheckout
<1>9. CanEnrol(t) /\ \A i \in Lines(snap[t]) : onSale[i]
  BY <1>1 DEF Found, StillFree, StillOnSale, HoldsCart
<1>10. /\ pc'[t] = "done" /\ reply'[t] = o
       /\ \A s \in Tx \ {t} : pc'[s] = pc[s] /\ reply'[s] = reply[s] /\ snap'[s] = snap[s]
  BY <1>1 DEF TypeOK, EndTx, Goto, Answer
<1> QED
  BY <1>2, <1>3, <1>4, <1>5, <1>6, <1>7, <1>8, <1>9, <1>10

\* The unique index and the row locks of the courses let it break nothing.
LEMMA PlacedBooks ==
  ASSUME OrdersInv, NEW t \in Tx, NEW o \in Order, Places(t, o)
  PROVE  Books'
<1> SUFFICES ASSUME NEW u, u = req[t].user, NEW k, k = req[t].key PROVE Books'
  OBVIOUS
<1>1. /\ u \in User /\ k \in Key \cup {NULL} /\ ~Used(o)
      /\ orders'[o].status = "paid" /\ orders'[o].buyer = u /\ orders'[o].key = k
      /\ enrolled'[o] = Lines(snap[t]) \cap Course
      /\ \A r \in Order \ {o} : orders'[r] = orders[r] /\ enrolled'[r] = enrolled[r]
      /\ \A v \in User, j \in Key : idem'[v][j] = IF v = u /\ j = k THEN o ELSE idem[v][j]
      /\ k # NULL => idem[u][k] = NULL
      /\ CanEnrol(t)
  BY Placed
<1>2. TypeOK /\ BuyersKnown /\ Books
  BY DEF OrdersInv, Inv
<1>3. \A r \in Order : orders[r].key \in Key \cup {NULL}
  BY <1>2 DEF TypeOK, ShopTypeOK, OrderRow
<1>4. BlankOrders'
  BY <1>1, <1>2 DEF Books, BlankOrders, Used
<1>5. KeysLead'
  <2> SUFFICES ASSUME NEW v \in User, NEW j \in Key, idem'[v][j] # NULL
               PROVE  /\ orders'[idem'[v][j]].status # "none"
                      /\ orders'[idem'[v][j]].buyer = v /\ orders'[idem'[v][j]].key = j
    BY DEF KeysLead, Used
  <2>1. CASE v = u /\ j = k
    BY <1>1, <2>1
  <2>2. CASE ~(v = u /\ j = k)
    <3>1. idem'[v][j] = idem[v][j] /\ idem[v][j] # NULL /\ idem[v][j] \in Order
      BY <1>1, <1>2, <2>2 DEF TypeOK, ShopTypeOK
    <3>2. /\ orders[idem[v][j]].status # "none"
          /\ orders[idem[v][j]].buyer = v /\ orders[idem[v][j]].key = j
      BY <1>2, <3>1 DEF Books, KeysLead, Used
    <3> QED  BY <1>1, <3>1, <3>2 DEF Used
  <2> QED  BY <2>1, <2>2
<1>6. OneOrderPerKey'
  <2> SUFFICES ASSUME NEW r \in Order, orders'[r].key # NULL
               PROVE  idem'[orders'[r].buyer][orders'[r].key] = r
    BY DEF OneOrderPerKey
  <2>1. CASE r = o
    BY <1>1, <2>1
  <2>2. CASE r # o
    <3>1. orders'[r] = orders[r] /\ orders[r].key # NULL /\ orders[r].key \in Key
      BY <1>1, <1>3, <2>2
    <3>2. Used(r) /\ orders[r].buyer \in User
      BY <1>2, <3>1 DEF Books, BlankOrders, BuyersKnown
    <3>3. idem[orders[r].buyer][orders[r].key] = r
      BY <1>2, <3>1 DEF Books, OneOrderPerKey
    <3>4. r # NULL
      <4>1. Order \subseteq Nat
        BY ShopAssumption, Zenon
      <4>2. NULL \notin Int
        BY ShopAssumption, Zenon
      <4> QED BY <4>1, <4>2
    <3> QED  BY <1>1, <3>1, <3>2, <3>3, <3>4
  <2> QED  BY <2>1, <2>2
<1>7. OneActiveEnrolment'
  <2>1. \A r \in Order \ {o} : orders'[r].buyer = u => enrolled[r] \cap enrolled'[o] = {}
    BY <1>1 DEF CanEnrol, exists_active, ActiveIn
  <2>2. \A r, q \in Order \ {o} : r # q /\ orders'[r].buyer = orders'[q].buyer =>
          enrolled[r] \cap enrolled[q] = {}
    BY <1>1, <1>2 DEF Books, OneActiveEnrolment
  <2> QED  BY <1>1, <2>1, <2>2 DEF OneActiveEnrolment
<1> QED
  BY <1>4, <1>5, <1>6, <1>7 DEF Books

\* Another transaction has its own courses locked: nothing it found has changed.
LEMMA PlacedFound ==
  ASSUME OrdersInv, NEW t \in Tx, NEW o \in Order, Places(t, o), NEW s \in Tx
  PROVE  Found(s)'
<1>1. /\ ~Used(o) /\ enrolled[o] = {}
      /\ orders'[o].status = "paid" /\ orders'[o].buyer = req[t].user
      /\ orders'[o].key = req[t].key /\ enrolled'[o] = Lines(snap[t]) \cap Course
      /\ \A r \in Order \ {o} : orders'[r] = orders[r] /\ enrolled'[r] = enrolled[r]
      /\ UNCHANGED <<onSale, seats, req>>
      /\ \A i \in Lines(snap[t]) : itemLock[i] = t
      /\ pc'[t] = "done" /\ reply'[t] = o
      /\ \A r \in Tx \ {t} : pc'[r] = pc[r] /\ reply'[r] = reply[r] /\ snap'[r] = snap[r]
  BY Placed
<1>2. Found(s) /\ Consistent(s)
  BY DEF OrdersInv, Inv
<1>3. CASE s = t
  BY <1>1, <1>3 DEF Found, OwnAnswer, StillOnSale, StillFree, InCheckout, IsCheckout, HoldsCart, Used
<1>4. CASE s # t
  <2>1. pc'[s] = pc[s] /\ reply'[s] = reply[s] /\ snap'[s] = snap[s]
    BY <1>1, <1>4
  <2>2. OwnAnswer(s)'
    <3> SUFFICES ASSUME InCheckout(s, {"done"}), reply[s] # Rejected
                 PROVE  /\ reply[s] \in Order /\ orders'[reply[s]].status # "none"
                        /\ orders'[reply[s]].buyer = req[s].user
                        /\ orders'[reply[s]].key = req[s].key
      BY <1>1, <2>1 DEF OwnAnswer, InCheckout, IsCheckout, Used
    <3>1. reply[s] \in Order /\ Used(reply[s]) /\ reply[s] # o
          /\ orders[reply[s]].buyer = req[s].user /\ orders[reply[s]].key = req[s].key
      BY <1>1, <1>2 DEF Found, OwnAnswer
    <3> QED  BY <1>1, <3>1 DEF Used
  <2>3. StillOnSale(s)'
    BY <1>1, <1>2, <2>1 DEF Found, StillOnSale, Lines
  <2>4. StillFree(s)'
    <3> SUFFICES ASSUME pc[s] = "commit" PROVE CanEnrol(s)'
      BY <2>1 DEF StillFree
    <3>1. CanEnrol(s)
      BY <1>2 DEF Found, StillFree
    <3>2. \A i \in Lines(snap[s]) : itemLock[i] = s
      BY <1>2 DEF Consistent, RequestOK, CoveredBy, InCheckout, HoldsCart
    <3>3. ASSUME NEW c \in Lines(snap[s]) \cap Course
          PROVE  ActiveIn(c)' = ActiveIn(c)
      <4>1. c \notin Lines(snap[t])
        BY <1>1, <1>4, <3>2
      <4> QED  BY <1>1, <4>1 DEF ActiveIn
    <3>4. ASSUME NEW c \in Lines(snap[s]) \cap Course
          PROVE  ~is_full(c)' /\ ~exists_active(req[s].user, c)'
      <4>1. ~is_full(c) /\ ~exists_active(req[s].user, c)
        BY <3>1 DEF CanEnrol
      <4>2. ~is_full(c)'
        BY <1>1, <3>3, <4>1 DEF is_full
      <4>3. \A r \in ActiveIn(c) : r \in Order \ {o}
        BY <1>1 DEF ActiveIn
      <4>4. ~exists_active(req[s].user, c)'
        BY <1>1, <3>3, <4>1, <4>3 DEF exists_active
      <4> QED  BY <4>2, <4>4
    <3> QED  BY <1>1, <2>1, <3>4 DEF CanEnrol, Lines
  <2> QED  BY <2>2, <2>3, <2>4 DEF Found
<1> QED  BY <1>3, <1>4

-----------------------------------------------------------------------------
(* Every other step.                                                       *)

\* A mild step takes nothing from a transaction it does not move.
LEMMA MildFound ==
  ASSUME OrdersInv, Mild, NEW s \in Tx,
         pc'[s] = pc[s], req'[s] = req[s], reply'[s] = reply[s], snap'[s] = snap[s]
  PROVE  Found(s)'
<1>1. Found(s) /\ Consistent(s)
  BY DEF OrdersInv, Inv
<1>2. pc[s] \in HoldsCart => \A i \in Lines(snap[s]) : i \in Item /\ itemLock[i] # NULL
  BY <1>1, CheckoutAssumption
     DEF Consistent, RequestOK, CoveredBy, InCheckout, HoldsCart, Lines
<1>3. OwnAnswer(s)'
  <2> SUFFICES ASSUME InCheckout(s, {"done"}), reply[s] # Rejected
               PROVE  /\ reply[s] \in Order /\ orders'[reply[s]].status # "none"
                      /\ orders'[reply[s]].buyer = req[s].user
                      /\ orders'[reply[s]].key = req[s].key
    BY DEF OwnAnswer, InCheckout, IsCheckout, Used
  <2> QED  BY <1>1 DEF Found, OwnAnswer, Mild, Used
<1>4. StillOnSale(s)'
  BY <1>1, <1>2 DEF Found, StillOnSale, Mild, Lines
<1>5. StillFree(s)'
  <2> SUFFICES ASSUME pc[s] = "commit" PROVE CanEnrol(s)'
    BY DEF StillFree
  <2>1. ASSUME NEW c \in Lines(snap[s]) \cap Course
        PROVE  ~is_full(c)' /\ ~exists_active(req[s].user, c)'
    <3>1. ~is_full(c) /\ ~exists_active(req[s].user, c)
      BY <1>1 DEF Found, StillFree, CanEnrol
    <3>2. ActiveIn(c)' \subseteq ActiveIn(c)
      BY DEF ActiveIn, Mild
    <3>3. ~exists_active(req[s].user, c)'
      BY <3>1, <3>2 DEF exists_active, Mild, ActiveIn
    <3>4. IsFiniteSet(ActiveIn(c))
      BY ShopAssumption, FS_Subset DEF ActiveIn
    <3>5. /\ Cardinality(ActiveIn(c)') <= Cardinality(ActiveIn(c))
          /\ Cardinality(ActiveIn(c)') \in Nat /\ Cardinality(ActiveIn(c)) \in Nat
      BY <3>2, <3>4, FS_Subset, FS_CardinalityType
    <3>6. seats'[c] = seats[c] /\ seats[c] \in Nat
      BY <1>2 DEF Mild, HoldsCart, OrdersInv, Inv, TypeOK, ShopTypeOK
    <3>7. ~is_full(c)'
      BY <3>1, <3>5, <3>6 DEF is_full
    <3> QED  BY <3>3, <3>7
  <2> QED  BY <2>1 DEF CanEnrol, Lines
<1> QED  BY <1>3, <1>4, <1>5 DEF Found

\* The labels at which there is nothing to find.
LEMMA NothingFound ==
  ASSUME NEW t \in Tx,
         \/ pc'[t] \notin HoldsCart \cup {"done"}
         \/ pc'[t] = "done" /\ (reply'[t] = Rejected \/ req'[t].kind # "checkout")
  PROVE  Found(t)'
  BY DEF Found, OwnAnswer, StillOnSale, StillFree, InCheckout, IsCheckout, HoldsCart

\* An answer looked up by user and key is one's own.
LEMMA LookedUp ==
  ASSUME OrdersInv, NEW t \in Tx, NEW u \in User, NEW k \in Key \cup {NULL}, Recorded(u, k),
         UNCHANGED shopVars, pc'[t] = "done", reply'[t] = idem[u][k],
         req'[t].user = u, req'[t].key = k
  PROVE  Found(t)'
<1>1. idem[u][k] \in Order
  BY ShopAssumption DEF OrdersInv, Inv, TypeOK, ShopTypeOK, Recorded
<1>2. Used(idem[u][k]) /\ orders[idem[u][k]].buyer = u /\ orders[idem[u][k]].key = k
  BY DEF OrdersInv, Books, KeysLead, Recorded
<1>3. OwnAnswer(t)'
  BY <1>1, <1>2 DEF OwnAnswer, shopVars, Used
<1> QED
  BY <1>3 DEF Found, StillOnSale, StillFree, HoldsCart

\* A step of t moves no other transaction.
StepOf(t) == Receive(t) \/ LockStep(t) \/ CartStep(t) \/ LocalStep(t) \/ Crash(t)

LEMMA OthersStay ==
  ASSUME Inv, NEW t \in Tx, StepOf(t), NEW s \in Tx, s # t
  PROVE  pc'[s] = pc[s] /\ req'[s] = req[s] /\ reply'[s] = reply[s] /\ snap'[s] = snap[s]
<1> USE DEF Goto, Answer, locals, EndTx
<1>0. TypeOK
  BY DEF Inv
<1>1. CASE Receive(t)
  BY <1>0, <1>1 DEF TypeOK, Receive, ReceiveCheckout, ReceiveStatus
<1>2. CASE LockStep(t)
  BY <1>0, <1>2 DEF TypeOK, LockStep, LockUser, LockItem, LockOrder
<1>3. CASE CartStep(t)
  BY <1>0, <1>3 DEF TypeOK, CartStep, FindCartEmpty, FindDelisted, FindCouponInvalid, ReadCart, Reject
<1>4. CASE LocalStep(t)
  <2>1. CASE ReadTargets(t) \/ Reserve(t) \/ Enrol(t)
    BY <1>0, <2>1 DEF TypeOK, ReadTargets, Reserve, Enrol, Reject
  <2>2. CASE Commit(t) \/ Replay(t)
    BY <1>0, <2>2 DEF TypeOK, Commit, Replay
  <2>3. CASE Decide(t) \/ FlipStatus(t) \/ Refund(t) \/ Finish(t)
    BY <1>0, <2>3 DEF TypeOK, Decide, FlipStatus, Refund, Finish, Reject
  <2> QED  BY <1>4, <2>1, <2>2, <2>3 DEF LocalStep
<1>5. CASE Crash(t)
  BY <1>0, <1>5 DEF TypeOK, Crash
<1> QED  BY <1>1, <1>2, <1>3, <1>4, <1>5 DEF StepOf

\* A step is mild, or it places an order.
LEMMA MildOrPlaces ==
  ASSUME Inv, NEW t \in Tx, StepOf(t)
  PROVE  Mild \/ \E o \in Order : Places(t, o)
<1>1. CASE Receive(t)
  BY <1>1, QuietIsMild DEF Receive, ReceiveCheckout, ReceiveStatus
<1>2. CASE LockStep(t)
  BY <1>2, QuietIsMild DEF LockStep, LockUser, LockItem, LockOrder
<1>3. CASE CartStep(t)
  BY <1>3, QuietIsMild DEF CartStep, FindCartEmpty, FindDelisted, FindCouponInvalid, ReadCart, Reject
<1>4. CASE LocalStep(t)
  <2>1. CASE ReadTargets(t) \/ Reserve(t) \/ Enrol(t) \/ Replay(t) \/ Decide(t) \/ Finish(t)
    BY <2>1, QuietIsMild DEF ReadTargets, Reserve, Enrol, Replay, Decide, Finish, Reject
  <2>2. CASE Commit(t)
    BY <2>2, QuietIsMild DEF Commit, Places
  <2>3. CASE FlipStatus(t) \/ Refund(t)
    BY <2>3, FlipIsMild, RefundIsMild
  <2> QED  BY <1>4, <2>1, <2>2, <2>3 DEF LocalStep
<1>5. CASE Crash(t)
  BY <1>5, QuietIsMild DEF Crash
<1> QED  BY <1>1, <1>2, <1>3, <1>4, <1>5 DEF StepOf

\* What the transaction that moves finds, unless it places an order.
LEMMA OwnFound ==
  ASSUME OrdersInv, NEW t \in Tx, StepOf(t), ~ \E o \in Order : Places(t, o)
  PROVE  Found(t)'
<1> USE DEF Goto, Answer, EndTx
<1>0. TypeOK /\ Consistent(t) /\ Found(t)
  BY DEF OrdersInv, Inv
<1>1. ASSUME Reject(t) PROVE Found(t)'
  BY <1>0, <1>1, NothingFound DEF TypeOK, Reject
<1>2. CASE Receive(t)
  <2>1. ASSUME NEW u \in User, NEW k \in AskKey, NEW use \in AskPoints, NEW d \in Coupons,
               ReceiveCheckout(t, u, k, use, d)
        PROVE  Found(t)'
    <3>1. req'[t].user = u /\ req'[t].key = k /\ k \in Key \cup {NULL}
      BY <1>0, <2>1, ShopAssumption DEF ReceiveCheckout, CheckoutReq, NoReq, TypeOK
    <3>2. CASE Recorded(u, k)
      BY <1>0, <2>1, <3>1, <3>2, LookedUp DEF ReceiveCheckout, TypeOK
    <3>3. CASE ~Recorded(u, k)
      BY <1>0, <2>1, <3>3, NothingFound DEF ReceiveCheckout, TypeOK, HoldsCart
    <3> QED  BY <3>2, <3>3
  <2>2. ASSUME NEW o \in Order, NEW s \in AskStatus, ReceiveStatus(t, o, s)
        PROVE  Found(t)'
    BY <1>0, <2>2, NothingFound DEF ReceiveStatus, TypeOK, HoldsCart
  <2> QED  BY <1>2, <2>1, <2>2 DEF Receive
<1>3. CASE LockStep(t)
  BY <1>0, <1>3, NothingFound DEF LockStep, LockUser, LockItem, LockOrder, locals, TypeOK, HoldsCart
<1>4. CASE CartStep(t)
  <2>1. CASE FindCartEmpty(t)
    BY <1>0, <2>1, NothingFound DEF FindCartEmpty, TypeOK, HoldsCart
  <2>2. CASE FindDelisted(t) \/ FindCouponInvalid(t)
    BY <1>1, <2>2 DEF FindDelisted, FindCouponInvalid
  <2>3. CASE ReadCart(t)
    BY <1>0, <2>3 DEF ReadCart, TypeOK, shopVars, AllOnSale, Found, OwnAnswer, StillOnSale, StillFree,
       InCheckout, Lines
  <2> QED  BY <1>4, <2>1, <2>2, <2>3 DEF CartStep
<1>5. CASE LocalStep(t)
  <2>1. CASE ReadTargets(t)
    BY <1>0, <2>1, NothingFound DEF ReadTargets, TypeOK, HoldsCart
  <2>2. CASE Reserve(t) \/ Enrol(t)
    <3>1. ASSUME pc[t] \in {"reserve", "enrol"}, NEW l \in {"enrol", "commit"},
                 pc' = [pc EXCEPT ![t] = l], UNCHANGED <<shopVars, locals, locks>>,
                 l = "commit" => CanEnrol(t)
          PROVE  Found(t)'
      <4>1. pc'[t] = l
        BY <1>0, <3>1 DEF TypeOK
      <4>2. StillOnSale(t)'
        BY <1>0, <3>1 DEF Found, StillOnSale, HoldsCart, shopVars, locals, Lines
      <4>3. StillFree(t)'
        BY <3>1, <4>1 DEF StillFree, CanEnrol, is_full, exists_active, ActiveIn, Lines, shopVars, locals
      <4> QED  BY <3>1, <4>1, <4>2, <4>3 DEF Found, OwnAnswer, InCheckout
    <3> QED  BY <1>1, <2>2, <3>1 DEF Reserve, Enrol
  <2>3. CASE Commit(t)
    BY <1>0, <2>3, NothingFound DEF Commit, Places, TypeOK, HoldsCart
  <2>4. CASE Replay(t)
    <3>1. req[t].user \in User /\ req[t].key \in Key \cup {NULL}
      BY <1>0, <2>4 DEF Replay, TypeOK, Request, Consistent, RequestOK
    <3>2. CASE Recorded(req[t].user, req[t].key)
      BY <1>0, <2>4, <3>1, <3>2, LookedUp DEF Replay, TypeOK
    <3>3. CASE ~Recorded(req[t].user, req[t].key)
      BY <1>0, <2>4, <3>3, NothingFound DEF Replay, TypeOK
    <3> QED  BY <3>2, <3>3
  <2>5. CASE Decide(t) \/ FlipStatus(t) \/ Refund(t)
    <3>1. IsStatus(t)
      BY <1>0, <2>5 DEF Decide, FlipStatus, Refund, Consistent, RequestOK
    <3>2. CASE Decide(t)
      BY <1>0, <1>1, <3>1, <3>2, NothingFound DEF Decide, IsStatus, TypeOK, HoldsCart, locals
    <3>3. CASE FlipStatus(t) \/ Refund(t)
      BY <1>0, <1>1, <3>1, <3>3, NothingFound DEF FlipStatus, Refund, IsStatus, TypeOK
    <3> QED  BY <2>5, <3>2, <3>3
  <2>6. CASE Finish(t)
    BY <1>0, <2>6, NothingFound DEF Finish, TypeOK, HoldsCart
  <2> QED  BY <1>5, <2>1, <2>2, <2>3, <2>4, <2>5, <2>6 DEF LocalStep
<1>6. CASE Crash(t)
  BY <1>0, <1>6, NothingFound DEF Crash, TypeOK, HoldsCart
<1> QED  BY <1>2, <1>3, <1>4, <1>5, <1>6 DEF StepOf

LEMMA StepOrders == OrdersInv /\ [Next]_vars => OrdersInv'
<1> SUFFICES ASSUME OrdersInv, [Next]_vars PROVE OrdersInv'
  OBVIOUS
<1>0. Inv' /\ Inv /\ Books
  BY StepInv DEF OrdersInv
<1>1. CASE OneRowRequest
  <2>1. Mild /\ UNCHANGED <<pc, req, reply, snap>>
    BY <1>0, <1>1, OneRowIsMild DEF OneRowRequest, locals
  <2> QED  BY <1>0, <2>1, MildBooks, MildFound DEF OrdersInv
<1>2. CASE UNCHANGED vars
  <2>1. Mild /\ UNCHANGED <<pc, req, reply, snap>>
    BY <1>2, QuietIsMild DEF vars, locals
  <2> QED  BY <1>0, <2>1, MildBooks, MildFound DEF OrdersInv
<1>3. ASSUME NEW t \in Tx, StepOf(t) PROVE OrdersInv'
  <2>1. ASSUME NEW o \in Order, Places(t, o) PROVE OrdersInv'
    BY <1>0, <2>1, PlacedBooks, PlacedFound DEF OrdersInv
  <2>2. CASE ~ \E o \in Order : Places(t, o)
    <3>1. Mild
      BY <1>0, <1>3, <2>2, MildOrPlaces
    <3>2. \A s \in Tx : Found(s)'
      BY <1>0, <1>3, <2>2, <3>1, OthersStay, MildFound, OwnFound
    <3> QED  BY <1>0, <3>1, <3>2, MildBooks DEF OrdersInv
  <2> QED  BY <2>1, <2>2
<1> QED  BY <1>1, <1>2, <1>3 DEF Next, StepOf

LEMMA OrdersInvariant == Spec => []OrdersInv
  BY InitOrders, StepOrders, PTL DEF Spec

\* orders/idempotency.rs: however many twins and replays race, a key stands for one
\* order, and who sends it is answered with that order and no other.
THEOREM KeysStandForOrders == Spec => []KeysIdentifyOrders
<1>1. OrdersInv => KeysIdentifyOrders
  BY DEF OrdersInv, Books, Found, OwnAnswer, KeysIdentifyOrders, OneOrderPerKey, AnswerIsOwnOrder
<1> QED
  BY <1>1, OrdersInvariant, PTL

\* enrolments/service.rs: however purchases, cancellations and refunds interleave, a buyer
\* holds at most one active enrolment in a course.
THEOREM EnrolledOnce == Spec => []OneActiveEnrolment
<1>1. OrdersInv => OneActiveEnrolment
  BY DEF OrdersInv, Books
<1> QED
  BY <1>1, OrdersInvariant, PTL

\* courses/service.rs: a purchase that gives away a seat of a course leaves it within its
\* capacity, whatever admins patch and refunds give back at the same time.
THEOREM SeatsHold == Spec => SeatsNotOversold
<1> DEFINE Held == \A c \in Course : Cardinality(ActiveIn(c)') > Cardinality(ActiveIn(c))
                                       => Cardinality(ActiveIn(c)') <= seats[c]'
<1>0. \A c \in Course : /\ IsFiniteSet(ActiveIn(c))
                        /\ Cardinality(ActiveIn(c)) \in Nat
  BY ShopAssumption, FS_Subset, FS_CardinalityType DEF ActiveIn
<1>1. Mild => Held
  <2> SUFFICES ASSUME Mild, NEW c \in Course
               PROVE  ~(Cardinality(ActiveIn(c)') > Cardinality(ActiveIn(c)))
    OBVIOUS
  <2>1. ActiveIn(c)' \subseteq ActiveIn(c)
    BY DEF ActiveIn, Mild
  <2>2. Cardinality(ActiveIn(c)') <= Cardinality(ActiveIn(c)) /\ Cardinality(ActiveIn(c)') \in Nat
    BY <1>0, <2>1, FS_Subset, FS_CardinalityType
  <2> QED  BY <1>0, <2>2
<1>2. ASSUME OrdersInv, NEW t \in Tx, NEW o \in Order, Places(t, o), NEW c \in Course
      PROVE  Cardinality(ActiveIn(c)') > Cardinality(ActiveIn(c))
               => Cardinality(ActiveIn(c)') <= seats[c]'
  <2>1. /\ enrolled[o] = {} /\ enrolled'[o] = Lines(snap[t]) \cap Course
        /\ \A r \in Order \ {o} : enrolled'[r] = enrolled[r]
        /\ CanEnrol(t) /\ seats' = seats
    BY <1>2, Placed
  <2>2. CASE c \in Lines(snap[t])
    <3>1. ActiveIn(c)' = ActiveIn(c) \cup {o} /\ o \notin ActiveIn(c)
      BY <2>1, <2>2 DEF ActiveIn
    <3>2. Cardinality(ActiveIn(c)') = Cardinality(ActiveIn(c)) + 1
      BY <1>0, <3>1, FS_AddElement
    <3>3. ~(Cardinality(ActiveIn(c)) >= seats[c])
      BY <2>1, <2>2 DEF CanEnrol, is_full
    <3>4. seats[c] \in Nat
      BY <1>2 DEF OrdersInv, Inv, TypeOK, ShopTypeOK
    <3> QED  BY <1>0, <2>1, <3>2, <3>3, <3>4
  <2>3. CASE c \notin Lines(snap[t])
    <3>1. ActiveIn(c)' = ActiveIn(c)
      BY <2>1, <2>3 DEF ActiveIn
    <3> QED  BY <1>0, <3>1
  <2> QED  BY <2>2, <2>3
<1> HIDE DEF Held
<1>3. OrdersInv /\ [Next]_vars => [Held]_vars
  <2> SUFFICES ASSUME OrdersInv, Next PROVE Held
    OBVIOUS
  <2>1. CASE OneRowRequest
    BY <1>1, <2>1, OneRowIsMild DEF OrdersInv
  <2>2. ASSUME NEW t \in Tx, StepOf(t) PROVE Held
    <3>1. CASE Mild
      BY <1>1, <3>1
    <3>2. ASSUME NEW o \in Order, Places(t, o) PROVE Held
      BY <1>2, <3>2 DEF Held
    <3> QED  BY <2>2, <3>1, <3>2, MildOrPlaces DEF OrdersInv
  <2> QED  BY <2>1, <2>2 DEF Next, StepOf
<1> QED
  BY <1>3, OrdersInvariant, PTL DEF Spec, SeatsNotOversold, Held

\* orders/service.rs: what a purchase clears from a cart is what it bought, all of it, and
\* nothing that was off sale when it committed.
THEOREM PurchasesAreCarts == Spec => PurchaseIsTheCart
<1> DEFINE Whole == \A o \in Order : ~Used(o) /\ Used(o)' =>
                      LET u == orders'[o].buyer IN
                      /\ orders'[o].lines = cart[u] /\ cart'[u] = EmptyCart
                      /\ \A i \in Lines(cart[u]) : onSale[i]
<1>1. Mild => Whole
  BY DEF Mild
<1>2. ASSUME OrdersInv, NEW t \in Tx, NEW o \in Order, Places(t, o)
      PROVE  Whole
  <2>1. /\ req[t].user \in User
        /\ orders'[o].buyer = req[t].user /\ orders'[o].lines = snap[t]
        /\ \A r \in Order \ {o} : orders'[r] = orders[r]
        /\ cart' = [cart EXCEPT ![req[t].user] = EmptyCart] /\ cart[req[t].user] = snap[t]
        /\ \A i \in Lines(snap[t]) : onSale[i]
    BY <1>2, Placed
  <2>2. cart'[req[t].user] = EmptyCart
    BY <1>2, <2>1 DEF OrdersInv, Inv, TypeOK, ShopTypeOK
  <2> QED  BY <2>1, <2>2 DEF Used
<1> HIDE DEF Whole
<1>3. OrdersInv /\ [Next]_vars => [Whole]_vars
  <2> SUFFICES ASSUME OrdersInv, Next PROVE Whole
    OBVIOUS
  <2>1. CASE OneRowRequest
    BY <1>1, <2>1, OneRowIsMild DEF OrdersInv
  <2>2. ASSUME NEW t \in Tx, StepOf(t) PROVE Whole
    BY <1>1, <1>2, <2>2, MildOrPlaces DEF OrdersInv
  <2> QED  BY <2>1, <2>2 DEF Next, StepOf
<1> QED
  BY <1>3, OrdersInvariant, PTL DEF Spec, PurchaseIsTheCart, Whole

-----------------------------------------------------------------------------
(***************************************************************************)
(* Checkout implements Shop: whatever transactions interleave, every step  *)
(* is one request taking effect at once, or nothing that the tables show.  *)
(***************************************************************************)

Refunding == {"lock_user", "targets", "lock_items"}
HoldsOrder(t) == pc[t] \in {"decide", "flip"} \/ (IsStatus(t) /\ pc[t] \in Refunding)
Decision(t) == decide_transition(orders[req[t].order].status, req[t].target)

\* What is still missing for the guards of Shop: what a request asks, what the lines and
\* the status were judged by, and what a refund is about to restock.
Asked(t) ==
  /\ IsCheckout(t) => /\ req[t].key \in AskKey /\ req[t].use \in AskPoints
                      /\ req[t].coupon \in Coupons
  /\ IsStatus(t) => req[t].target \in AskStatus
LinesJudged(t) ==
  /\ pc[t] \in HoldsCart => Lines(snap[t]) # {}
  /\ pc[t] \in {"enrol", "commit"} =>
       \A p \in Lines(snap[t]) \cap Product : LineAllowed(p, snap[t][p])
OrderJudged(t) ==
  /\ HoldsOrder(t) => orderLock[req[t].order] = t
  /\ pc[t] = "flip" => Decision(t) = "flip"
  /\ IsStatus(t) /\ pc[t] \in Refunding => Decision(t) = "flip_and_compensate"
  /\ IsStatus(t) /\ pc[t] = "lock_items" => targets[t] = orders[req[t].order].decremented
Ready(t) == Asked(t) /\ LinesJudged(t) /\ OrderJudged(t)

\* A course is in a cart once.
CoursesOnce == \A u \in User, c \in Course : cart[u][c] \in {0, 1}

ReadyInv == OrdersInv /\ CoursesOnce /\ \A t \in Tx : Ready(t)

LEMMA InitReady == Init => ReadyInv
<1> SUFFICES ASSUME Init PROVE ReadyInv
  OBVIOUS
<1>1. CoursesOnce
  BY DEF Init, ShopInit, CoursesOnce, EmptyCart, Item
<1>2. \A t \in Tx : Ready(t)
  BY DEF Init, Ready, Asked, LinesJudged, OrderJudged, HoldsOrder, HoldsCart, Refunding, IsCheckout,
     IsStatus, NoReq
<1> QED
  BY <1>1, <1>2, InitOrders DEF ReadyInv

-----------------------------------------------------------------------------
\* What a step must leave alone for s to stay ready: the products and the order it has
\* locked.
Gentle(s) ==
  /\ \A p \in Product : itemLock[p] = s => (p \in timeBased' <=> p \in timeBased)
  /\ HoldsOrder(s) => orders'[req[s].order] = orders[req[s].order]

Still(s) ==
  /\ pc'[s] = pc[s] /\ req'[s] = req[s] /\ snap'[s] = snap[s] /\ targets'[s] = targets[s]
  /\ \A o \in Order : orderLock[o] = s => orderLock'[o] = s

LEMMA GentleReady ==
  ASSUME ReadyInv, NEW s \in Tx, Gentle(s), Still(s)
  PROVE  Ready(s)'
<1>1. Ready(s) /\ Consistent(s) /\ TypeOK
  BY DEF ReadyInv, OrdersInv, Inv
<1>2. Asked(s)'
  BY <1>1 DEF Ready, Asked, Still, IsCheckout, IsStatus
<1>3. LinesJudged(s)'
  <2>1. pc[s] \in {"enrol", "commit"} => \A i \in Lines(snap[s]) : itemLock[i] = s
    BY <1>1 DEF Consistent, RequestOK, CoveredBy, InCheckout, HoldsCart
  <2> QED
    BY <1>1, <2>1 DEF Ready, LinesJudged, Still, Gentle, LineAllowed, Lines
<1>4. OrderJudged(s)'
  <2>1. HoldsOrder(s)' <=> HoldsOrder(s)
    BY DEF HoldsOrder, IsStatus, Still
  <2>2. HoldsOrder(s) => req[s].order \in Order /\ orderLock[req[s].order] = s
    BY <1>1 DEF HoldsOrder, Consistent, RequestOK, Ready, OrderJudged
  <2>3. pc[s] = "flip" \/ (IsStatus(s) /\ pc[s] \in Refunding) => HoldsOrder(s)
    BY DEF HoldsOrder
  <2>4. HoldsOrder(s) => orders'[req'[s].order] = orders[req[s].order] /\ req'[s] = req[s]
    BY DEF Gentle, Still
  <2>5. HoldsOrder(s)' => orderLock'[req'[s].order] = s
    BY <2>1, <2>2 DEF Still
  <2>6. HoldsOrder(s) => Decision(s)' = Decision(s)
    BY <2>4 DEF Decision
  <2> QED
    BY <1>1, <2>3, <2>4, <2>5, <2>6 DEF Ready, OrderJudged, IsStatus, Still, Refunding
<1> QED  BY <1>2, <1>3, <1>4 DEF Ready

LEMMA QuietIsGentle == ASSUME UNCHANGED shopVars, NEW s \in Tx PROVE Gentle(s)
  BY DEF shopVars, Gentle

LEMMA OneRowIsGentle ==
  ASSUME Inv, CoursesOnce, OneRowRequest
  PROVE  CoursesOnce' /\ \A s \in Tx : Gentle(s)
<1> USE DEF Inv, TypeOK, ShopTypeOK
<1>0. cart \in [User -> Cart]
  OBVIOUS
<1>1. ASSUME NEW u \in User, NEW i \in Item, NEW n \in 1..MaxQty,
             AddToCart(u, i, n) \/ UpdateQuantity(u, i, n) \/ RemoveItem(u, i)
      PROVE  CoursesOnce'
  <2> HIDE DEF Inv, TypeOK, ShopTypeOK
  <2>1. \E m \in {0, 1} \cup Nat : /\ cart' = [cart EXCEPT ![u][i] = m]
                                   /\ i \in Course => m \in {0, 1}
    <3>1. CASE AddToCart(u, i, n)
      <4>1. i \in Course => cart[u][i] + n = 1
        BY <3>1 DEF AddToCart, Purchasable, LineAllowed
      <4>2. cart[u][i] + n \in Nat
        BY <3>1 DEF AddToCart, Purchasable, LineAllowed
      <4> QED  BY <3>1, <4>1, <4>2 DEF AddToCart
    <3>2. CASE UpdateQuantity(u, i, n)
      <4>1. i \notin Course
        BY <3>2, ShopAssumption DEF UpdateQuantity, Item
      <4>2. n \in Nat
        OBVIOUS
      <4> QED  BY <3>2, <4>1, <4>2 DEF UpdateQuantity
    <3>3. CASE RemoveItem(u, i)
      BY <3>3 DEF RemoveItem
    <3> QED  BY <1>1, <3>1, <3>2, <3>3
  <2> QED  BY <1>0, <2>1 DEF CoursesOnce, Cart, Item
<1>2. ASSUME NEW u \in User, ClearCart(u) PROVE CoursesOnce'
  BY <1>0, <1>2 DEF ClearCart, CoursesOnce, EmptyCart, Item
<1>3. CoursesOnce'
  <2>1. CASE cart' = cart
    BY <2>1 DEF CoursesOnce
  <2> HIDE DEF Inv, TypeOK, ShopTypeOK
  <2>2. 1 \in 1..MaxQty
    BY ShopAssumption
  <2> QED
    BY <1>1, <1>2, <2>1, <2>2 DEF OneRowRequest, AdjustPoints, CancelEnrolment, PatchProduct, PatchCourse,
       DelistCourse
<1>4. orders' = orders
  BY DEF OneRowRequest, AddToCart, UpdateQuantity, RemoveItem, ClearCart, AdjustPoints,
     CancelEnrolment, PatchProduct, PatchCourse, DelistCourse, artifacts
<1>5. \A p \in Product : itemLock[p] # NULL => (p \in timeBased' <=> p \in timeBased)
  BY DEF OneRowRequest, AddToCart, UpdateQuantity, RemoveItem, ClearCart, AdjustPoints,
     CancelEnrolment, PatchProduct, PatchCourse, DelistCourse, catalog, MayPatch
<1> QED  BY <1>3, <1>4, <1>5, CheckoutAssumption DEF Gentle

-----------------------------------------------------------------------------
(* A step of one transaction, seen by the others.                          *)

\* Nobody frees the locks of another.
LEMMA OthersStill ==
  ASSUME Inv, NEW t \in Tx, StepOf(t), NEW s \in Tx, s # t
  PROVE  Still(s)
<1> SUFFICES /\ targets'[s] = targets[s]
             /\ \A o \in Order : orderLock[o] = s => orderLock'[o] = s
  BY OthersStay DEF Still
<1>0. targets \in [Tx -> SUBSET Item] /\ orderLock \in [Order -> Tx \cup {NULL}]
  BY DEF Inv, TypeOK
<1>1. CASE UNCHANGED <<targets, orderLock>>
  BY <1>1
<1>2. CASE Release(t) /\ targets' = [targets EXCEPT ![t] = {}]
  BY <1>0, <1>2 DEF Release, Freed
<1>3. CASE Receive(t)
  BY <1>1, <1>3 DEF Receive, ReceiveCheckout, ReceiveStatus, locks
<1>4. CASE LockUser(t) \/ LockItem(t)
  BY <1>1, <1>4 DEF LockUser, LockItem, locals
<1>5. CASE LockOrder(t)
  BY <1>0, <1>5, CheckoutAssumption DEF LockOrder, locals
<1>6. CASE CartStep(t)
  BY <1>1, <1>2, <1>6 DEF CartStep, FindCartEmpty, FindDelisted, FindCouponInvalid, ReadCart, Reject, EndTx
<1>7. CASE ReadTargets(t)
  BY <1>0, <1>7 DEF ReadTargets, locks
<1>8. CASE Reserve(t) \/ Enrol(t) \/ Commit(t) \/ Replay(t)
  BY <1>1, <1>2, <1>8 DEF Reserve, Enrol, Commit, Replay, Reject, EndTx, locals, locks
<1>9. CASE Decide(t) \/ FlipStatus(t) \/ Refund(t) \/ Finish(t)
  BY <1>1, <1>2, <1>9 DEF Decide, FlipStatus, Refund, Finish, Reject, EndTx, locals, locks
<1>10. CASE Crash(t)
  BY <1>2, <1>10 DEF Crash
<1> QED
  BY <1>3, <1>4, <1>5, <1>6, <1>7, <1>8, <1>9, <1>10 DEF StepOf, LockStep, LocalStep

\* What a step of checkout or of a status change writes.
LEMMA Effect ==
  ASSUME NEW t \in Tx, StepOf(t)
  PROVE  \/ UNCHANGED shopVars
         \/ \E o \in Order : Places(t, o)
         \/ pc[t] = "flip" /\ Flip(req[t].order, req[t].target)
         \/ /\ HoldsTargets(t) /\ IsStatus(t)
            /\ Compensate(req[t].order, req[t].target, targets[t])
<1>1. CASE Receive(t)
  BY <1>1 DEF Receive, ReceiveCheckout, ReceiveStatus
<1>2. CASE LockStep(t)
  BY <1>2 DEF LockStep, LockUser, LockItem, LockOrder
<1>3. CASE CartStep(t)
  BY <1>3 DEF CartStep, FindCartEmpty, FindDelisted, FindCouponInvalid, ReadCart, Reject
<1>4. CASE LocalStep(t)
  <2>1. CASE ReadTargets(t) \/ Reserve(t) \/ Enrol(t) \/ Replay(t) \/ Decide(t) \/ Finish(t)
    BY <2>1 DEF ReadTargets, Reserve, Enrol, Replay, Decide, Finish, Reject
  <2>2. CASE Commit(t)
    BY <2>2 DEF Commit, Places
  <2>3. CASE FlipStatus(t) \/ Refund(t)
    BY <2>3 DEF FlipStatus, Refund, Reject
  <2> QED  BY <1>4, <2>1, <2>2, <2>3 DEF LocalStep
<1>5. CASE Crash(t)
  BY <1>5 DEF Crash
<1> QED  BY <1>1, <1>2, <1>3, <1>4, <1>5 DEF StepOf

\* The order of a status change is locked before it is written, and an order that is
\* placed was nobody's before.
LEMMA OthersGentle ==
  ASSUME ReadyInv, NEW t \in Tx, StepOf(t), NEW s \in Tx, s # t
  PROVE  Gentle(s)
<1>0. /\ TypeOK /\ Ready(s) /\ Ready(t) /\ Consistent(s) /\ Consistent(t)
  BY DEF ReadyInv, OrdersInv, Inv
<1>1. HoldsOrder(s) => req[s].order \in Order /\ Used(req[s].order) /\ orderLock[req[s].order] = s
  BY <1>0 DEF HoldsOrder, Consistent, RequestOK, Ready, OrderJudged
<1>2. HoldsOrder(t) => req[t].order \in Order /\ orderLock[req[t].order] = t
  BY <1>0 DEF HoldsOrder, Consistent, RequestOK, Ready, OrderJudged
<1>3. ASSUME HoldsOrder(t), timeBased' = timeBased,
             orders' = [orders EXCEPT ![req[t].order].status = req[t].target]
      PROVE  Gentle(s)
  <2>1. orders \in [Order -> OrderRow]
    BY <1>0 DEF TypeOK, ShopTypeOK
  <2>2. \A o \in Order : o # req[t].order => orders'[o] = orders[o]
    BY <1>2, <1>3, <2>1
  <2>3. HoldsOrder(s) => orders'[req[s].order] = orders[req[s].order]
    <3>1. HoldsOrder(s) => req[s].order # req[t].order
      BY <1>1, <1>2, <1>3
    <3> QED  BY <1>1, <2>2, <3>1
  <2> QED  BY <1>3, <2>3 DEF Gentle
<1>4. ASSUME NEW o \in Order, Places(t, o) PROVE Gentle(s)
  <2>1. ~Used(o) /\ \A r \in Order \ {o} : orders'[r] = orders[r]
    BY <1>4, Placed DEF ReadyInv
  <2>2. timeBased' = timeBased
    BY <1>4 DEF Places, PlaceOrder
  <2> QED  BY <1>1, <2>1, <2>2 DEF Gentle
<1>5. CASE UNCHANGED shopVars
  BY <1>5, QuietIsGentle
<1>6. CASE pc[t] = "flip" /\ Flip(req[t].order, req[t].target)
  BY <1>3, <1>6 DEF Flip, HoldsOrder, catalog
<1>7. CASE /\ HoldsTargets(t) /\ IsStatus(t)
           /\ Compensate(req[t].order, req[t].target, targets[t])
  BY <1>3, <1>7 DEF Compensate, HoldsOrder, HoldsTargets, Refunding
<1> QED  BY <1>4, <1>5, <1>6, <1>7, Effect

\* Only the cart requests put a line into a cart.
LEMMA CoursesStayOnce ==
  ASSUME ReadyInv, NEW t \in Tx, StepOf(t)
  PROVE  CoursesOnce'
<1>1. CASE cart' = cart
  BY <1>1 DEF ReadyInv, CoursesOnce
<1>2. ASSUME NEW o \in Order, Places(t, o) PROVE CoursesOnce'
  <2>1. /\ req[t].user \in User /\ cart' = [cart EXCEPT ![req[t].user] = EmptyCart]
        /\ cart \in [User -> Cart]
    BY <1>2, Placed DEF ReadyInv, OrdersInv, Inv, TypeOK, ShopTypeOK
  <2> QED  BY <2>1 DEF ReadyInv, CoursesOnce, EmptyCart, Item
<1> QED
  BY <1>1, <1>2, Effect DEF Flip, Compensate, shopVars

-----------------------------------------------------------------------------
(* A step of one transaction, for itself.                                  *)

\* Before the cart is read, and after the end, only what was asked counts.
LEMMA OnlyAsked ==
  ASSUME NEW t \in Tx, Asked(t)', pc'[t] \in {"idle", "replay", "done", "lock_order"}
  PROVE  Ready(t)'
  BY DEF Ready, LinesJudged, OrderJudged, HoldsCart, HoldsOrder, Refunding

LEMMA OwnReady ==
  ASSUME ReadyInv, NEW t \in Tx, StepOf(t)
  PROVE  Ready(t)'
<1>0. TypeOK /\ Consistent(t) /\ Ready(t)
  BY DEF ReadyInv, OrdersInv, Inv
<1>1. ASSUME req' = req PROVE Asked(t)'
  BY <1>0, <1>1 DEF Ready, Asked, IsCheckout, IsStatus
<1>2. ASSUME NEW l \in {"done", "replay"}, EndTx(t, l) PROVE Ready(t)'
  <2>1. pc'[t] = l /\ req' = req
    BY <1>0, <1>2 DEF EndTx, Goto, TypeOK
  <2> QED  BY <1>1, <2>1, OnlyAsked
<1>3. ASSUME Reject(t) PROVE Ready(t)'
  BY <1>2, <1>3 DEF Reject
<1>4. CASE Receive(t)
  <2>1. ASSUME NEW u \in User, NEW k \in AskKey, NEW use \in AskPoints, NEW d \in Coupons,
               ReceiveCheckout(t, u, k, use, d)
        PROVE  Ready(t)'
    <3>1. /\ req'[t] = CheckoutReq(u, k, use, d)
          /\ pc'[t] \in {"done", "lock_user"}
      BY <1>0, <2>1 DEF ReceiveCheckout, Goto, TypeOK
    <3>2. Asked(t)' /\ ~IsStatus(t)'
      BY <3>1 DEF Asked, IsCheckout, IsStatus, CheckoutReq, NoReq
    <3> QED  BY <3>1, <3>2 DEF Ready, LinesJudged, OrderJudged, HoldsCart, HoldsOrder
  <2>2. ASSUME NEW o \in Order, NEW s \in AskStatus, ReceiveStatus(t, o, s)
        PROVE  Ready(t)'
    <3>1. req'[t] = StatusReq(o, s) /\ pc'[t] = "lock_order"
      BY <1>0, <2>2 DEF ReceiveStatus, Goto, TypeOK
    <3>2. Asked(t)'
      BY <3>1 DEF Asked, IsCheckout, IsStatus, StatusReq, NoReq
    <3> QED  BY <3>1, <3>2, OnlyAsked
  <2> QED  BY <1>4, <2>1, <2>2 DEF Receive
<1>5. CASE LockOrder(t)
  <2>1. /\ pc'[t] = "decide" /\ req' = req /\ orderLock'[req[t].order] = t
    BY <1>0, <1>5 DEF LockOrder, Goto, TypeOK, locals, Consistent, RequestOK
  <2> QED  BY <1>1, <2>1 DEF Ready, LinesJudged, OrderJudged, HoldsCart, HoldsOrder, Refunding
<1>6. CASE LockUser(t) \/ LockItem(t)
  <2>1. /\ pc[t] \in {"lock_user", "lock_items"} /\ pc'[t] \in {"targets", "lock_items"}
        /\ pc'[t] = "lock_items" => pc[t] = "lock_items"
        /\ UNCHANGED <<req, orders, orderLock, targets>>
    BY <1>0, <1>6 DEF LockUser, LockItem, Goto, TypeOK, locals, shopVars
  <2> QED
    BY <1>0, <1>1, <2>1 DEF Ready, LinesJudged, OrderJudged, HoldsCart, HoldsOrder, Refunding, Decision,
       IsStatus
<1>7. CASE ReadTargets(t)
  <2>1. /\ pc[t] = "targets" /\ pc'[t] = "lock_items" /\ UNCHANGED <<req, orders, orderLock>>
        /\ IsStatus(t) => targets'[t] = orders[req[t].order].decremented
    BY <1>0, <1>7 DEF ReadTargets, Goto, TypeOK, locks, shopVars, IsCheckout, IsStatus
  <2> QED
    BY <1>0, <1>1, <2>1 DEF Ready, LinesJudged, OrderJudged, HoldsCart, HoldsOrder, Refunding, Decision,
       IsStatus
<1>8. CASE CartStep(t)
  <2>1. CASE ReadCart(t)
    <3>1. /\ pc'[t] = "reserve" /\ req' = req /\ snap'[t] = cart[req[t].user]
          /\ Lines(cart[req[t].user]) # {}
      BY <1>0, <2>1 DEF ReadCart, Goto, TypeOK
    <3> QED
      BY <1>1, <3>1 DEF Ready, LinesJudged, OrderJudged, HoldsOrder, Refunding, Lines
  <2> QED
    BY <1>2, <1>3, <1>8, <2>1 DEF CartStep, FindCartEmpty, FindDelisted, FindCouponInvalid
<1>9. CASE Reserve(t) \/ Enrol(t)
  <2>1. ASSUME pc[t] \in {"reserve", "enrol"}, NEW l \in {"enrol", "commit"},
               pc' = [pc EXCEPT ![t] = l], UNCHANGED <<shopVars, locals, locks>>,
               pc[t] = "reserve" => CanReserve(t)
        PROVE  Ready(t)'
    <3>1. pc'[t] = l
      BY <1>0, <2>1 DEF TypeOK
    <3>2. LinesJudged(t)'
      BY <1>0, <2>1, <3>1
         DEF Ready, LinesJudged, HoldsCart, CanReserve, LineAllowed, Lines, shopVars, locals
    <3> QED  BY <1>1, <2>1, <3>1, <3>2 DEF Ready, OrderJudged, HoldsOrder, Refunding, locals
  <2> QED  BY <1>3, <1>9, <2>1 DEF Reserve, Enrol, Goto
<1>10. CASE Commit(t)
  BY <1>2, <1>10 DEF Commit
<1>11. CASE Replay(t) \/ Finish(t) \/ Crash(t)
  <2>1. pc'[t] \in {"done", "idle"} /\ req'[t] \in {req[t], NoReq}
    BY <1>0, <1>11 DEF Replay, Finish, Crash, Goto, TypeOK
  <2>2. Asked(t)'
    BY <1>0, <2>1 DEF Ready, Asked, IsCheckout, IsStatus, NoReq
  <2> QED  BY <2>1, <2>2, OnlyAsked
<1>12. CASE Decide(t)
  <2>1. ASSUME NEW l \in {"flip", "lock_user"}, pc' = [pc EXCEPT ![t] = l],
               pc[t] = "decide", UNCHANGED <<shopVars, locals, locks>>,
               Decision(t) = IF l = "flip" THEN "flip" ELSE "flip_and_compensate"
        PROVE  Ready(t)'
    <3>1. pc'[t] = l /\ UNCHANGED <<req, orders, orderLock>>
      BY <1>0, <2>1 DEF TypeOK, locals, locks, shopVars
    <3>2. orderLock[req[t].order] = t
      BY <1>0, <2>1 DEF Ready, OrderJudged, HoldsOrder
    <3> QED
      BY <1>1, <2>1, <3>1, <3>2 DEF Ready, LinesJudged, OrderJudged, HoldsCart, HoldsOrder, Refunding,
         Decision
  <2> QED  BY <1>2, <1>3, <1>12, <2>1 DEF Decide, Goto, Decision
<1>13. CASE FlipStatus(t) \/ Refund(t)
  BY <1>2, <1>3, <1>13 DEF FlipStatus, Refund
<1> QED
  BY <1>4, <1>5, <1>6, <1>7, <1>8, <1>9, <1>10, <1>11, <1>12, <1>13 DEF StepOf, LockStep, LocalStep

LEMMA StepReady == ReadyInv /\ [Next]_vars => ReadyInv'
<1> SUFFICES ASSUME ReadyInv, [Next]_vars PROVE ReadyInv'
  OBVIOUS
<1>0. OrdersInv' /\ Inv /\ CoursesOnce
  BY StepOrders DEF ReadyInv, OrdersInv
<1>1. CASE OneRowRequest
  <2>1. \A s \in Tx : Still(s)
    BY <1>1 DEF OneRowRequest, locals, locks, Still
  <2> QED  BY <1>0, <1>1, <2>1, OneRowIsGentle, GentleReady DEF ReadyInv
<1>2. CASE UNCHANGED vars
  <2>1. UNCHANGED shopVars /\ CoursesOnce' /\ \A s \in Tx : Still(s)
    BY <1>0, <1>2 DEF vars, shopVars, locals, locks, Still, CoursesOnce
  <2> QED  BY <1>0, <2>1, QuietIsGentle, GentleReady DEF ReadyInv
<1>3. ASSUME NEW t \in Tx, StepOf(t) PROVE ReadyInv'
  <2>1. \A s \in Tx : s # t => Ready(s)'
    BY <1>0, <1>3, OthersStill, OthersGentle, GentleReady
  <2> QED  BY <1>0, <1>3, <2>1, OwnReady, CoursesStayOnce DEF ReadyInv
<1> QED  BY <1>1, <1>2, <1>3 DEF Next, StepOf

-----------------------------------------------------------------------------
(* The simulation.                                                         *)

\* A purchase passes at its commit every check Shop makes in the same step.
LEMMA PlacesIsBuy ==
  ASSUME ReadyInv, NEW t \in Tx, NEW o \in Order, Places(t, o)
  PROVE  Buy(req[t].user, req[t].key, req[t].use, req[t].coupon)
<1> SUFFICES ASSUME NEW u, u = req[t].user PROVE Buy(u, req[t].key, req[t].use, req[t].coupon)
  OBVIOUS
<1>1. /\ TypeOK /\ Consistent(t) /\ Ready(t) /\ IsCheckout(t) /\ pc[t] = "commit"
  BY DEF ReadyInv, OrdersInv, Inv, Consistent, RequestOK, HoldsCart, Places
<1>2. /\ u \in User /\ cart[u] = snap[t] /\ CanEnrol(t)
      /\ \A i \in Lines(snap[t]) : onSale[i]
  BY Placed DEF ReadyInv
<1>3. seen[t] = balance[u]
  BY <1>1, <1>2 DEF Consistent, LocksHeld, SeenIsBalance, HoldsUser, Buyer, IsCheckout, IsStatus
<1>4. Lines(cart[u]) # {}
  BY <1>1, <1>2 DEF Ready, LinesJudged, HoldsCart
<1>5. ASSUME NEW i \in Lines(cart[u]) PROVE Purchasable(i, cart[u][i])
  <2>1. CASE i \in Product
    BY <1>1, <1>2, <1>5, <2>1 DEF Ready, LinesJudged, Consistent, StockReserved, Purchasable
  <2>2. CASE i \in Course
    <3>1. i \notin Product
      BY <2>2, ShopAssumption DEF Item
    <3>2. cart[u][i] = 1
      BY <1>2, <1>5, <2>2 DEF ReadyInv, CoursesOnce, Lines
    <3>3. 1 \in 1..MaxQty
      BY ShopAssumption
    <3> QED  BY <1>2, <1>5, <3>1, <3>2, <3>3 DEF Purchasable, LineAllowed
  <2> QED  BY <1>5, <2>1, <2>2 DEF Lines, Item
<1>6. \A c \in Lines(cart[u]) \cap Course : ~is_full(c) /\ ~exists_active(u, c)
  BY <1>2 DEF CanEnrol
<1>7. /\ ~Recorded(u, req[t].key)
      /\ NewOrder(o) /\ PlaceOrder(o, u, req[t].key, cart[u], balance[u], req[t].use, req[t].coupon)
  BY <1>2, <1>3 DEF Places
<1> QED  BY <1>4, <1>5, <1>6, <1>7 DEF Buy

LEMMA Simulation == ReadyInv /\ [Next]_vars => [ShopNext]_shopVars
<1> SUFFICES ASSUME ReadyInv, [Next]_vars PROVE [ShopNext]_shopVars
  OBVIOUS
<1>1. CASE OneRowRequest
  BY <1>1 DEF OneRowRequest, ShopNext
<1>2. CASE UNCHANGED vars
  BY <1>2 DEF vars
<1>3. ASSUME NEW t \in Tx, StepOf(t) PROVE [ShopNext]_shopVars
  <2>0. Consistent(t) /\ Ready(t)
    BY DEF ReadyInv, OrdersInv, Inv
  <2>1. ASSUME NEW o \in Order, Places(t, o) PROVE ShopNext
    <3>1. /\ IsCheckout(t)
          /\ req[t].user \in User /\ req[t].key \in AskKey /\ req[t].use \in AskPoints
          /\ req[t].coupon \in Coupons
      BY <2>0, <2>1 DEF Places, Consistent, RequestOK, Ready, Asked, HoldsCart
    <3> QED  BY <2>1, <3>1, PlacesIsBuy DEF ShopNext
  <2>2. ASSUME IsStatus(t), Used(req[t].order),
               \/ Decision(t) = "flip" /\ Flip(req[t].order, req[t].target)
               \/ /\ Decision(t) = "flip_and_compensate"
                  /\ Compensate(req[t].order, req[t].target, orders[req[t].order].decremented)
        PROVE  ShopNext
    <3>1. UpdateOrderStatus(req[t].order, req[t].target)
      BY <2>2 DEF UpdateOrderStatus, Decision
    <3>2. req[t].order \in Order /\ req[t].target \in AskStatus
      BY <2>0, <2>2 DEF Consistent, RequestOK, Ready, Asked
    <3> QED  BY <3>1, <3>2 DEF ShopNext
  <2>3. CASE pc[t] = "flip" /\ Flip(req[t].order, req[t].target)
    BY <2>0, <2>2, <2>3 DEF Consistent, RequestOK, Ready, OrderJudged
  <2>4. CASE /\ HoldsTargets(t) /\ IsStatus(t)
             /\ Compensate(req[t].order, req[t].target, targets[t])
    BY <2>0, <2>2, <2>4 DEF Consistent, RequestOK, Ready, OrderJudged, HoldsTargets, Refunding
  <2> QED  BY <1>3, <2>1, <2>3, <2>4, Effect
<1> QED  BY <1>1, <1>2, <1>3 DEF Next, StepOf

\* orders/service.rs, orders/locks.rs: whatever checkouts, status changes, one-row requests
\* and crashes interleave, each request takes effect in one step at its commit, under all
\* the conditions it is promised to be judged by, or not at all.
THEOREM CheckoutImplementsShop == Spec => ShopSpec
<1>1. Init => ShopInit
  BY DEF Init
<1> QED
  BY <1>1, InitReady, StepReady, Simulation, PTL DEF Spec, ShopSpec

-----------------------------------------------------------------------------
(***************************************************************************)
(* Points and stock.  The argument needs the tables alone, so it is made   *)
(* for the steps of Shop, one request at a time; Simulation carries it     *)
(* over to the transactions of Checkout.                                   *)
(***************************************************************************)

\* An order not placed has no buyer, no points and no stock of its own, and no order waits
\* for a payment: every order is placed paid.
Unplaced(o) == /\ orders[o].buyer = NULL /\ orders[o].decremented = {}
               /\ ledger[o] = NoPoints /\ enrolled[o] = {} /\ granted[o] = {}
RowsBlank == \A o \in Order : /\ orders[o].status # "pending"
                              /\ ~Used(o) => Unplaced(o)

Accounts == RowsBlank /\ RefundIsTotal /\ BalanceIsLedger

NetOf == [o \in Order |-> Net(o)]

LEMMA NetInt == ASSUME ledger \in [Order -> PointRows] PROVE NetOf \in [Order -> Int]
<1> SUFFICES ASSUME NEW o \in Order PROVE Net(o) \in Int
  BY DEF NetOf
<1>1. ledger[o] \in PointRows
  OBVIOUS
<1> QED
  BY <1>1 DEF Net, PointRows

LEMMA BoughtFinite == ASSUME NEW u PROVE IsFiniteSet(BoughtBy(u))
<1>1. BoughtBy(u) \in SUBSET Order /\ IsFiniteSet(Order)
  BY ShopAssumption DEF BoughtBy
<1> QED
  BY <1>1, FS_Subset

\* What the balances have to follow when the ledger rows of one order change.
LEMMA BalanceMoves ==
  ASSUME ShopTypeOK, ShopTypeOK', BalanceIsLedger, NEW o \in Order,
         orders'[o].buyer \in User,
         orders[o].buyer = orders'[o].buyer \/ (orders[o].buyer = NULL /\ Net(o) = 0),
         \A r \in Order \ {o} : orders'[r].buyer = orders[r].buyer /\ ledger'[r] = ledger[r],
         adjusted' = adjusted,
         \A v \in User : balance'[v] = IF v = orders'[o].buyer
                                       THEN balance[v] + Net(o)' - Net(o) ELSE balance[v]
  PROVE  BalanceIsLedger'
<1> DEFINE e == NetOf'
<1>0. NetOf \in [Order -> Int] /\ e \in [Order -> Int]
  <2>1. ledger \in [Order -> PointRows] /\ ledger' \in [Order -> PointRows]
    BY DEF ShopTypeOK
  <2>2. NetOf \in [Order -> Int]
    BY <2>1, NetInt
  <2>3. e \in [Order -> Int]
    <3> SUFFICES ASSUME NEW r \in Order PROVE Net(r)' \in Int
      BY DEF NetOf
    <3>1. ledger'[r] \in PointRows
      BY <2>1
    <3> QED
      BY <3>1 DEF Net, PointRows
  <2> QED  BY <2>2, <2>3
<1>1. /\ NetOf[o] = Net(o) /\ e[o] = Net(o)'
      /\ \A r \in Order \ {o} : e[r] = NetOf[r]
  BY DEF NetOf, Net
<1>2. \A v \in User : balance[v] = adjusted[v] + SumFunctionOnSet(NetOf, BoughtBy(v))
  BY DEF BalanceIsLedger, NetOf
<1> SUFFICES ASSUME NEW v \in User
             PROVE  balance'[v] = adjusted[v] + SumFunctionOnSet(e, BoughtBy(v)')
  BY DEF BalanceIsLedger, NetOf
<1>3. /\ IsFiniteSet(BoughtBy(v)) /\ \A r \in BoughtBy(v) : r \in Order
      /\ adjusted[v] \in Int /\ balance[v] \in Int
      /\ v # NULL
  <2>1. IsFiniteSet(BoughtBy(v))
    BY BoughtFinite
  <2>2. adjusted[v] \in Int /\ balance[v] \in Int
    BY DEF ShopTypeOK
  <2> QED  BY <2>1, <2>2, ShopAssumption DEF BoughtBy
<1> HIDE DEF e
<1>4. SumFunctionOnSet(NetOf, BoughtBy(v)) \in Int
  BY <1>0, <1>3, SumInt
<1>5. CASE v # orders'[o].buyer
  <2>1. BoughtBy(v)' = BoughtBy(v) /\ o \notin BoughtBy(v)
    BY <1>3, <1>5 DEF BoughtBy
  <2>2. SumFunctionOnSet(e, BoughtBy(v)) = SumFunctionOnSet(NetOf, BoughtBy(v))
    BY <1>0, <1>1, <1>3, <2>1, SumAgrees
  <2> QED  BY <1>2, <1>5, <2>1, <2>2
<1>6. CASE v = orders'[o].buyer /\ orders[o].buyer = v
  <2>1. BoughtBy(v)' = BoughtBy(v) /\ o \in BoughtBy(v)
    BY <1>6 DEF BoughtBy
  <2>2. SumFunctionOnSet(e, BoughtBy(v)) = SumFunctionOnSet(NetOf, BoughtBy(v)) - NetOf[o] + e[o]
    BY <1>0, <1>1, <1>3, <2>1, SumChange
  <2>3. balance'[v] = balance[v] + e[o] - NetOf[o]
    BY <1>1, <1>6
  <2>4. NetOf[o] \in Int /\ e[o] \in Int
    BY <1>0
  <2> QED  BY <1>2, <1>3, <1>4, <2>1, <2>2, <2>3, <2>4
<1>7. CASE v = orders'[o].buyer /\ orders[o].buyer # v
  <2>1. BoughtBy(v)' = BoughtBy(v) \cup {o} /\ o \notin BoughtBy(v) /\ NetOf[o] = 0
    BY <1>1, <1>7 DEF BoughtBy
  <2> DEFINE B == BoughtBy(v)
  <2>0. IsFiniteSet(B) /\ o \notin B
    BY <1>3, <2>1
  <2> HIDE DEF B
  <2>2. e[o] \in Int /\ \A r \in B : e[r] \in Int
    BY <1>0, <1>3 DEF B
  <2>3. SumFunctionOnSet(e, B \cup {o}) = e[o] + SumFunctionOnSet(e, B)
    BY <2>0, <2>2, SumInsert
  <2>4. SumFunctionOnSet(e, BoughtBy(v)) = SumFunctionOnSet(NetOf, BoughtBy(v))
    BY <1>0, <1>1, <1>3, <2>1, SumAgrees
  <2>5. balance'[v] = balance[v] + e[o] - NetOf[o]
    BY <1>1, <1>7
  <2>6. e[o] \in Int
    BY <1>0
  <2> QED  BY <1>2, <1>3, <1>4, <2>1, <2>3, <2>4, <2>5, <2>6 DEF B
<1> QED
  BY <1>5, <1>6, <1>7

\* Neither placing an order nor refunding it leaves a balance its rows do not explain.
LEMMA AccountsPlaced ==
  ASSUME ShopTypeOK, ShopTypeOK', Accounts, NEW u \in User, NEW k, NEW l, NEW use,
         NEW d \in Coupons, NEW o \in Order, NewOrder(o), l \in Cart,
         PlaceOrder(o, u, k, l, balance[u], use, d)
  PROVE  Accounts'
<1> DEFINE q == price(Worth[l], d, balance[u], use)
<1>1. balance \in [User -> Nat] /\ balance[u] \in Nat /\ Worth[l] \in Nat /\ d \in Nat
  BY ShopAssumption DEF ShopTypeOK
<1>2. q.used \in Nat /\ q.used <= balance[u] /\ q.earned \in Nat
  BY <1>1, PriceNat
<1> HIDE DEF q
<1>3. ledger_deltas(balance[u], q) = balance[u] - q.used + q.earned
  BY <1>1, <1>2 DEF ledger_deltas, ApplyDelta, Overdrawn
<1>4. /\ balance' = [balance EXCEPT ![u] = balance[u] - q.used + q.earned]
      /\ ledger' = [ledger EXCEPT ![o] =
           [used |-> q.used, earned |-> q.earned, restored |-> 0, clawed |-> 0]]
      /\ orders' = [orders EXCEPT ![o] =
           [status |-> "paid", buyer |-> u, key |-> k, lines |-> l,
            decremented |-> Finite(Lines(l) \cap Product)]]
      /\ enrolled' = [enrolled EXCEPT ![o] = Lines(l) \cap Course]
      /\ granted' = [granted EXCEPT ![o] = Lines(l) \cap Entitled]
      /\ adjusted' = adjusted
  BY <1>3 DEF PlaceOrder, q
<1>5. /\ ~Used(o) /\ orders[o].buyer = NULL /\ ledger[o] = NoPoints
  BY DEF NewOrder, Accounts, RowsBlank, Unplaced
<1>6. /\ orders \in [Order -> OrderRow] /\ ledger \in [Order -> PointRows]
      /\ enrolled \in [Order -> SUBSET Course] /\ granted \in [Order -> SUBSET Product]
  BY DEF ShopTypeOK
<1>7. /\ orders'[o].buyer = u /\ orders'[o].status = "paid"
      /\ ledger'[o] = [used |-> q.used, earned |-> q.earned, restored |-> 0, clawed |-> 0]
      /\ \A r \in Order \ {o} : /\ orders'[r] = orders[r] /\ ledger'[r] = ledger[r]
                                /\ enrolled'[r] = enrolled[r] /\ granted'[r] = granted[r]
  BY <1>4, <1>6
<1>8. RowsBlank' /\ RefundIsTotal'
  BY <1>7 DEF Accounts, RowsBlank, RefundIsTotal, Unplaced, Used, Net, Terminal
<1>9. Net(o) = 0 /\ Net(o)' = q.earned - q.used
  BY <1>2, <1>5, <1>7 DEF Net, NoPoints
<1>10. \A v \in User : balance'[v] = IF v = orders'[o].buyer
                                     THEN balance[v] + Net(o)' - Net(o) ELSE balance[v]
  BY <1>1, <1>2, <1>4, <1>7, <1>9
<1>11. BalanceIsLedger'
  BY <1>4, <1>5, <1>7, <1>9, <1>10, BalanceMoves DEF Accounts
<1> QED  BY <1>8, <1>11 DEF Accounts

LEMMA AccountsRefunded ==
  ASSUME ShopTypeOK, ShopTypeOK', Accounts, BuyersKnown, NEW o \in Order, NEW s \in OrderStatus,
         Used(o), decide_transition(orders[o].status, s) = "flip_and_compensate",
         Compensate(o, s, orders[o].decremented)
  PROVE  Accounts'
<1> DEFINE u == orders[o].buyer
<1>1. /\ balance \in [User -> Nat] /\ ledger[o] \in PointRows /\ u \in User
      /\ orders \in [Order -> OrderRow] /\ ledger \in [Order -> PointRows]
      /\ enrolled \in [Order -> SUBSET Course] /\ granted \in [Order -> SUBSET Product]
  BY DEF ShopTypeOK, BuyersKnown
<1>2. /\ ledger[o].used \in Nat /\ ledger[o].earned \in Nat
      /\ ledger[o].restored \in Nat /\ ledger[o].clawed \in Nat
  BY <1>1 DEF PointRows
<1>3. orders[o].status \notin Terminal /\ s \in Terminal
  BY DEF decide_transition, compensation_required, is_revenue, Terminal
<1>4. ledger[o].restored = 0 /\ ledger[o].clawed = 0
  BY <1>3 DEF Accounts, RefundIsTotal
<1> HIDE DEF u
<1>5. reversal_deltas(balance[u], ledger[o]) = balance[u] + ledger[o].used - ledger[o].earned
  <2>1. reversal_deltas(balance[u], ledger[o]) # Overdrawn
    BY DEF Compensate, CanReverse, u
  <2> QED  BY <1>1, <1>2, <2>1 DEF reversal_deltas, ApplyDelta, Overdrawn
<1>6. /\ balance' = [balance EXCEPT ![u] = balance[u] + ledger[o].used - ledger[o].earned]
      /\ ledger' = [ledger EXCEPT ![o].restored = ledger[o].used, ![o].clawed = ledger[o].earned]
      /\ orders' = [orders EXCEPT ![o].status = s]
      /\ enrolled' = [enrolled EXCEPT ![o] = {}]
      /\ granted' = [granted EXCEPT ![o] = {}]
      /\ adjusted' = adjusted
  BY <1>5 DEF Compensate, u
<1>7. /\ orders'[o].buyer = u /\ orders'[o].status = s /\ enrolled'[o] = {} /\ granted'[o] = {}
      /\ ledger'[o].used = ledger[o].used /\ ledger'[o].earned = ledger[o].earned
      /\ ledger'[o].restored = ledger[o].used /\ ledger'[o].clawed = ledger[o].earned
      /\ \A r \in Order \ {o} : /\ orders'[r] = orders[r] /\ ledger'[r] = ledger[r]
                                /\ enrolled'[r] = enrolled[r] /\ granted'[r] = granted[r]
  BY <1>1, <1>6 DEF OrderRow, PointRows, u
<1>8. Net(o)' = 0 /\ Net(o) = ledger[o].earned - ledger[o].used
  BY <1>2, <1>4, <1>7 DEF Net
<1>9. RowsBlank' /\ RefundIsTotal'
  <2>1. \A r \in Order \ {o} : Net(r)' = Net(r)
    BY <1>7 DEF Net
  <2> QED
    BY <1>3, <1>7, <1>8, <2>1 DEF Accounts, RowsBlank, RefundIsTotal, Unplaced, Used, Terminal
<1>10. \A v \in User : balance'[v] = IF v = orders'[o].buyer
                                     THEN balance[v] + Net(o)' - Net(o) ELSE balance[v]
  BY <1>1, <1>2, <1>6, <1>7, <1>8
<1>11. BalanceIsLedger'
  BY <1>1, <1>6, <1>7, <1>10, BalanceMoves DEF Accounts, u
<1> QED  BY <1>9, <1>11 DEF Accounts

LEMMA AccountsFlipped ==
  ASSUME ShopTypeOK, Accounts, NEW o \in Order, NEW s \in OrderStatus,
         Used(o), decide_transition(orders[o].status, s) = "flip", Flip(o, s)
  PROVE  Accounts'
<1>1. orders \in [Order -> OrderRow]
  BY DEF ShopTypeOK
<1>2. /\ orders' = [orders EXCEPT ![o].status = s]
      /\ UNCHANGED <<balance, adjusted, ledger, enrolled, granted>>
  BY DEF Flip
<1>3. /\ orders'[o].status = s
      /\ \A r \in Order : orders'[r].buyer = orders[r].buyer /\ orders'[r].decremented = orders[r].decremented
      /\ \A r \in Order \ {o} : orders'[r] = orders[r]
  BY <1>1, <1>2 DEF OrderRow
<1>4. orders[o].status \notin Terminal /\ s \notin Terminal /\ s # "pending"
  BY DEF decide_transition, can_transition_to, Transitions, compensation_required, is_revenue, Terminal,
     Accounts, RowsBlank
<1>5. \A r \in Order : Net(r)' = Net(r) /\ (orders'[r].status \in Terminal <=> orders[r].status \in Terminal)
  BY <1>2, <1>3, <1>4 DEF Net
<1>6. RowsBlank' /\ RefundIsTotal'
  <2>1. RefundIsTotal'
    BY <1>2, <1>5 DEF Accounts, RefundIsTotal
  <2>2. \A r \in Order \ {o} : Used(r)' <=> Used(r)
    BY <1>3 DEF Used
  <2>3. Used(o)' /\ orders'[o].status # "pending"
    BY <1>3, <1>4 DEF Used, OrderStatus
  <2> QED  BY <1>2, <1>3, <2>1, <2>2, <2>3 DEF Accounts, RowsBlank, Unplaced
<1>7. NetOf' = NetOf /\ \A u \in User : BoughtBy(u)' = BoughtBy(u)
  BY <1>3, <1>5 DEF NetOf, BoughtBy
<1>8. BalanceIsLedger'
  BY <1>2, <1>7 DEF Accounts, BalanceIsLedger, NetOf
<1> QED  BY <1>6, <1>8 DEF Accounts

\* No request mints or loses a point.
LEMMA AccountsStep ==
  ASSUME ShopTypeOK, ShopTypeOK', BuyersKnown, Accounts, [ShopNext]_shopVars
  PROVE  Accounts'
<1>1. ASSUME UNCHANGED <<orders, ledger, granted>>,
             \A o \in Order : enrolled'[o] \subseteq enrolled[o],
             \A v \in User : balance'[v] - adjusted'[v] = balance[v] - adjusted[v]
      PROVE  Accounts'
  <2>1. RowsBlank' /\ RefundIsTotal'
    BY <1>1 DEF Accounts, RowsBlank, RefundIsTotal, Unplaced, Used, Net
  <2>2. NetOf' = NetOf /\ \A u \in User : BoughtBy(u)' = BoughtBy(u)
    BY <1>1 DEF NetOf, Net, BoughtBy
  <2>3. BalanceIsLedger'
    <3> SUFFICES ASSUME NEW v \in User
                 PROVE  balance'[v] = adjusted'[v] + SumFunctionOnSet(NetOf, BoughtBy(v))
      BY <2>2 DEF BalanceIsLedger, NetOf
    <3>1. balance[v] = adjusted[v] + SumFunctionOnSet(NetOf, BoughtBy(v))
      BY DEF Accounts, BalanceIsLedger, NetOf
    <3>2. SumFunctionOnSet(NetOf, BoughtBy(v)) \in Int
      <4>1. NetOf \in [Order -> Int] /\ BoughtBy(v) \subseteq Order
        BY NetInt DEF ShopTypeOK, BoughtBy
      <4> QED  BY <4>1, BoughtFinite, SumInt
    <3>3. balance[v] \in Int /\ adjusted[v] \in Int /\ balance'[v] \in Int /\ adjusted'[v] \in Int
      BY DEF ShopTypeOK
    <3> QED  BY <1>1, <3>1, <3>2, <3>3
  <2> QED  BY <2>1, <2>3 DEF Accounts
<1>2. ASSUME NEW u \in User, NEW k \in AskKey, NEW use \in AskPoints, NEW d \in Coupons,
             Buy(u, k, use, d)
      PROVE  Accounts'
  <2>1. cart[u] \in Cart
    BY DEF ShopTypeOK
  <2> QED  BY <1>2, <2>1, AccountsPlaced DEF Buy
<1>3. ASSUME NEW o \in Order, NEW s \in AskStatus, UpdateOrderStatus(o, s) PROVE Accounts'
  <2>1. s \in OrderStatus
    BY ShopAssumption
  <2> QED  BY <1>3, <2>1, AccountsFlipped, AccountsRefunded DEF UpdateOrderStatus
<1>4. ASSUME NEW u \in User, NEW d \in Deltas, AdjustPoints(u, d) PROVE Accounts'
  <2>1. \A v \in User : balance'[v] - adjusted'[v] = balance[v] - adjusted[v]
    <3>1. /\ balance \in [User -> Nat] /\ adjusted \in [User -> Int] /\ d \in Int
          /\ balance' = [balance EXCEPT ![u] = balance[u] + d]
          /\ adjusted' = [adjusted EXCEPT ![u] = adjusted[u] + d]
      BY <1>4, ShopAssumption DEF AdjustPoints, ShopTypeOK
    <3> QED  BY <3>1
  <2> QED  BY <1>1, <1>4, <2>1 DEF AdjustPoints, artifacts
<1>5. ASSUME NEW o \in Order, NEW c \in Course, CancelEnrolment(o, c) PROVE Accounts'
  <2>1. \A r \in Order : enrolled'[r] \subseteq enrolled[r]
    BY <1>5 DEF CancelEnrolment, ShopTypeOK
  <2> QED  BY <1>1, <1>5, <2>1 DEF CancelEnrolment
<1>6. CASE UNCHANGED <<balance, adjusted, artifacts>>
  BY <1>1, <1>6 DEF artifacts
<1>7. ASSUME NEW u \in User, NEW i \in Item, NEW n \in 1..MaxQty,
             AddToCart(u, i, n) \/ UpdateQuantity(u, i, n) \/ RemoveItem(u, i) \/ ClearCart(u)
      PROVE  Accounts'
  BY <1>6, <1>7 DEF AddToCart, UpdateQuantity, RemoveItem, ClearCart
<1>8. ASSUME NEW p \in Product, PatchProduct(p) PROVE Accounts'
  BY <1>6, <1>8 DEF PatchProduct
<1>9. ASSUME NEW c \in Course, PatchCourse(c) \/ DelistCourse(c) PROVE Accounts'
  BY <1>6, <1>9 DEF PatchCourse, DelistCourse
<1>10. CASE \E u \in User, i \in Item : RemoveItem(u, i)
  BY <1>6, <1>10 DEF RemoveItem
<1>11. CASE \E u \in User : ClearCart(u)
  BY <1>6, <1>11 DEF ClearCart
<1>12. CASE UNCHANGED shopVars
  BY <1>6, <1>12 DEF shopVars, artifacts
<1> QED
  BY <1>2, <1>3, <1>4, <1>5, <1>7, <1>8, <1>9, <1>10, <1>11, <1>12 DEF ShopNext

LEMMA AccountsInit == Init => Accounts
<1> SUFFICES ASSUME Init PROVE Accounts
  OBVIOUS
<1>1. RowsBlank /\ RefundIsTotal
  BY DEF Init, ShopInit, NoOrder, NoPoints, RowsBlank, RefundIsTotal, Unplaced, Used, Net, Terminal
<1>2. \A u \in User : BoughtBy(u) = {}
  BY ShopAssumption DEF Init, ShopInit, NoOrder, BoughtBy
<1>3. BalanceIsLedger
  <2>1. \A u \in User : balance[u] = 0 /\ adjusted[u] = 0
    BY DEF Init, ShopInit
  <2>2. SumFunctionOnSet([o \in Order |-> Net(o)], {}) = 0
    BY SumEmpty
  <2> QED  BY <1>2, <2>1, <2>2 DEF BalanceIsLedger
<1> QED  BY <1>1, <1>3 DEF Accounts

LEMMA AccountsStay == ReadyInv /\ ReadyInv' /\ Accounts /\ [Next]_vars => Accounts'
<1> SUFFICES ASSUME ReadyInv, ReadyInv', Accounts, [Next]_vars PROVE Accounts'
  OBVIOUS
<1>1. ShopTypeOK /\ ShopTypeOK' /\ BuyersKnown
  BY DEF ReadyInv, OrdersInv, Inv, TypeOK
<1> QED  BY <1>1, Simulation, AccountsStep

\* points/service.rs, orders/fulfilment.rs: over any interleaving of purchases, refunds and
\* adjustments a balance is what its ledger rows add up to, and an order that ended has given
\* back everything it moved, once.
THEOREM PointsAreConserved == Spec => []PointsConserved
<1>1. Accounts => PointsConserved
  BY DEF Accounts, PointsConserved
<1> QED
  BY <1>1, AccountsStay, InitReady, StepReady, AccountsInit, PTL DEF Spec

-----------------------------------------------------------------------------
(* Stock, where no admin sets one by hand.                                 *)

\* A limited stock stays limited.
StockStaysLimited == \A p \in Product : InitStock[p] # NULL => stock[p] # NULL

Shelf == RowsBlank /\ StockStaysLimited /\ StockConserved

QuantityOf(p) == [o \in Order |-> orders[o].lines[p]]

LEMMA QuantityNat ==
  ASSUME orders \in [Order -> OrderRow], NEW p \in Product
  PROVE  /\ \A o \in Order : QuantityOf(p)[o] \in Int
         /\ IsFiniteSet(TakenBy(p)) /\ TakenBy(p) \subseteq Order
         /\ Out(p) \in Int
<1>1. \A o \in Order : QuantityOf(p)[o] \in Int
  <2> SUFFICES ASSUME NEW o \in Order PROVE orders[o].lines[p] \in Int
    BY DEF QuantityOf
  <2>1. orders[o] \in OrderRow
    OBVIOUS
  <2> QED  BY <2>1, ShopAssumption DEF OrderRow, Cart, Item
<1>2. IsFiniteSet(TakenBy(p)) /\ TakenBy(p) \subseteq Order
  <2>1. TakenBy(p) \in SUBSET Order
    BY DEF TakenBy
  <2> QED  BY <2>1, FS_Subset, ShopAssumption
<1>3. Out(p) \in Int
  <2>1. SumFunctionOnSet(QuantityOf(p), TakenBy(p)) \in Int
    <3> DEFINE f == QuantityOf(p)
               S == TakenBy(p)
    <3>1. IsFiniteSet(S) /\ \A o \in S : f[o] \in Int
      BY <1>1, <1>2
    <3> HIDE DEF f, S
    <3>2. SumFunctionOnSet(f, S) \in Int
      BY <3>1, SumInt
    <3> QED  BY <3>2 DEF f, S
  <2> QED  BY <2>1 DEF Out, QuantityOf
<1> QED  BY <1>1, <1>2, <1>3

\* An order that takes units off the shelf, or puts them back, changes what is out by as many.
LEMMA OutMoves ==
  ASSUME orders \in [Order -> OrderRow], orders' \in [Order -> OrderRow], NEW p \in Product,
         NEW o \in Order, \A r \in Order \ {o} : orders'[r] = orders[r]
  PROVE  /\ o \notin TakenBy(p) /\ o \notin TakenBy(p)' => Out(p)' = Out(p)
         /\ o \notin TakenBy(p) /\ o \in TakenBy(p)' => Out(p)' = Out(p) + orders'[o].lines[p]
         /\ o \in TakenBy(p) /\ o \notin TakenBy(p)' => Out(p)' = Out(p) - orders[o].lines[p]
<1> DEFINE f == QuantityOf(p)
           e == QuantityOf(p)'
           S == TakenBy(p)
           T == TakenBy(p)'
<1>1. /\ \A r \in Order : f[r] \in Int /\ e[r] \in Int
      /\ IsFiniteSet(S) /\ S \subseteq Order
      /\ Out(p) \in Int
  <2>1. \A r \in Order : f[r] \in Int
    BY QuantityNat
  <2>2. \A r \in Order : e[r] \in Int
    <3> SUFFICES ASSUME NEW r \in Order PROVE orders'[r].lines[p] \in Int
      BY DEF QuantityOf
    <3>1. orders'[r] \in OrderRow
      OBVIOUS
    <3> QED  BY <3>1, ShopAssumption DEF OrderRow, Cart, Item
  <2> QED  BY <2>1, <2>2, QuantityNat
<1>2. /\ Out(p) = SumFunctionOnSet(f, S) /\ Out(p)' = SumFunctionOnSet(e, T)
      /\ e[o] = orders'[o].lines[p] /\ f[o] = orders[o].lines[p]
  BY DEF Out, QuantityOf
<1>3. /\ \A r \in Order \ {o} : e[r] = f[r]
      /\ T \ {o} = S \ {o}
  BY DEF QuantityOf, TakenBy
<1> HIDE DEF f, e, S, T
<1>4. IsFiniteSet(S \ {o}) /\ \A r \in S \ {o} : f[r] \in Int /\ e[r] = f[r] /\ e[r] \in Int
  BY <1>1, <1>3, FS_RemoveElement
<1>5. SumFunctionOnSet(e, S \ {o}) = SumFunctionOnSet(f, S \ {o})
  BY <1>4, SumAgrees
<1>6. ASSUME o \notin S PROVE S \ {o} = S
  BY <1>6
<1>7. ASSUME o \in S PROVE SumFunctionOnSet(f, S) = f[o] + SumFunctionOnSet(f, S \ {o})
  BY <1>1, <1>7, SumRemove
<1>8. ASSUME o \in T PROVE SumFunctionOnSet(e, T) = e[o] + SumFunctionOnSet(e, S \ {o})
  <2> DEFINE B == S \ {o}
  <2>1. T = B \cup {o} /\ o \notin B /\ IsFiniteSet(B) /\ e[o] \in Int /\ \A r \in B : e[r] \in Int
    BY <1>1, <1>3, <1>4, <1>8
  <2> HIDE DEF B
  <2>2. SumFunctionOnSet(e, B \cup {o}) = e[o] + SumFunctionOnSet(e, B)
    BY <2>1, SumInsert
  <2> QED  BY <2>1, <2>2 DEF B
<1>9. SumFunctionOnSet(f, S \ {o}) \in Int
  BY <1>4, SumInt
<1>10. f[o] \in Int /\ e[o] \in Int
  BY <1>1
<1>11. o \notin S /\ o \notin T => SumFunctionOnSet(e, T) = SumFunctionOnSet(f, S)
  BY <1>3, <1>5, <1>6
<1> DEFINE rest == SumFunctionOnSet(f, S \ {o})
<1> HIDE DEF rest
<1>12. ASSUME o \notin S, o \in T PROVE SumFunctionOnSet(e, T) = SumFunctionOnSet(f, S) + e[o]
  <2>1. SumFunctionOnSet(e, T) = e[o] + rest
    BY <1>5, <1>8, <1>12 DEF rest
  <2>2. SumFunctionOnSet(f, S) = rest
    BY <1>6, <1>12 DEF rest
  <2>3. rest \in Int
    BY <1>9 DEF rest
  <2> QED  BY <1>10, <2>1, <2>2, <2>3
<1>13. ASSUME o \in S, o \notin T PROVE SumFunctionOnSet(e, T) = SumFunctionOnSet(f, S) - f[o]
  <2>1. T = S \ {o}
    BY <1>3, <1>13
  <2>2. SumFunctionOnSet(e, T) = rest
    BY <1>5, <2>1 DEF rest
  <2>3. SumFunctionOnSet(f, S) = f[o] + rest
    BY <1>7, <1>13 DEF rest
  <2>4. rest \in Int
    BY <1>9 DEF rest
  <2> QED  BY <1>10, <2>2, <2>3, <2>4
<1> QED
  BY <1>2, <1>11, <1>12, <1>13 DEF S, T

\* What a purchase takes is out; what was out of a refunded order is back.
LEMMA ShelfPlaced ==
  ASSUME ShopTypeOK, ShopTypeOK', RowsBlank, StockStaysLimited, StockConserved,
         NEW u, NEW k, NEW l \in Cart, NEW b, NEW use, NEW d, NEW o \in Order, NewOrder(o),
         PlaceOrder(o, u, k, l, b, use, d)
  PROVE  StockStaysLimited' /\ StockConserved'
<1> SUFFICES ASSUME NEW p \in Product, InitStock[p] # NULL
             PROVE  stock'[p] # NULL /\ stock'[p] + Out(p)' = InitStock[p]
  BY DEF StockStaysLimited, StockConserved
<1>1. /\ stock' = StockMoved(Lines(l) \cap Product, [q \in Product |-> -l[q]])
      /\ orders' = [orders EXCEPT ![o] =
           [status |-> "paid", buyer |-> u, key |-> k, lines |-> l,
            decremented |-> Finite(Lines(l) \cap Product)]]
  BY DEF PlaceOrder
<1>2. /\ orders \in [Order -> OrderRow] /\ orders' \in [Order -> OrderRow]
      /\ stock[p] \in Nat /\ stock[p] + Out(p) = InitStock[p] /\ l[p] \in Nat
  BY ShopAssumption DEF ShopTypeOK, Stock, StockStaysLimited, StockConserved, Cart, Item
<1>3. /\ \A r \in Order \ {o} : orders'[r] = orders[r]
      /\ orders'[o].lines = l /\ orders'[o].status = "paid"
      /\ orders'[o].decremented = Finite(Lines(l) \cap Product)
  BY <1>1, <1>2
<1>4. o \notin TakenBy(p)
  BY DEF NewOrder, RowsBlank, Unplaced, TakenBy
<1>5. o \in TakenBy(p)' <=> l[p] > 0
  BY <1>2, <1>3 DEF TakenBy, Finite, Lines, Terminal, Item, StockStaysLimited
<1>6. stock'[p] = IF l[p] > 0 THEN stock[p] - l[p] ELSE stock[p]
  BY <1>1, <1>2 DEF StockMoved, Finite, Lines, Item, StockStaysLimited
<1>7. Out(p) \in Int /\ Out(p)' = IF l[p] > 0 THEN Out(p) + l[p] ELSE Out(p)
  BY <1>2, <1>3, <1>4, <1>5, OutMoves, QuantityNat
<1>8. stock'[p] \in Int /\ stock'[p] + Out(p)' = InitStock[p]
  BY <1>2, <1>6, <1>7
<1> QED  BY <1>8, <1>6, ShopAssumption DEF ShopTypeOK, Stock

LEMMA ShelfRefunded ==
  ASSUME ShopTypeOK, ShopTypeOK', StockStaysLimited, StockConserved,
         NEW o \in Order, NEW s \in OrderStatus,
         decide_transition(orders[o].status, s) = "flip_and_compensate",
         Compensate(o, s, orders[o].decremented)
  PROVE  StockStaysLimited' /\ StockConserved'
<1> SUFFICES ASSUME NEW p \in Product, InitStock[p] # NULL
             PROVE  stock'[p] # NULL /\ stock'[p] + Out(p)' = InitStock[p]
  BY DEF StockStaysLimited, StockConserved
<1>1. /\ stock' = StockMoved(orders[o].decremented, orders[o].lines)
      /\ orders' = [orders EXCEPT ![o].status = s]
  BY DEF Compensate
<1>2. /\ orders \in [Order -> OrderRow] /\ orders' \in [Order -> OrderRow]
      /\ stock[p] \in Nat /\ stock[p] + Out(p) = InitStock[p]
  BY ShopAssumption DEF ShopTypeOK, Stock, StockStaysLimited, StockConserved
<1>3. /\ \A r \in Order \ {o} : orders'[r] = orders[r]
      /\ orders'[o].status = s
  BY <1>1, <1>2 DEF OrderRow
<1>4. o \in TakenBy(p) <=> p \in orders[o].decremented
  BY DEF decide_transition, compensation_required, is_revenue, Terminal, TakenBy
<1>5. o \notin TakenBy(p)'
  BY <1>3 DEF decide_transition, compensation_required, TakenBy
<1>6. orders[o].lines[p] \in Int
  <2>1. orders[o] \in OrderRow
    BY <1>2
  <2> QED  BY <2>1, ShopAssumption DEF OrderRow, Cart, Item
<1>7. stock'[p] = IF p \in orders[o].decremented THEN stock[p] + orders[o].lines[p] ELSE stock[p]
  BY <1>1, <1>2 DEF StockMoved, Finite, StockStaysLimited
<1>8. Out(p) \in Int /\ Out(p)' = IF p \in orders[o].decremented
                                  THEN Out(p) - orders[o].lines[p] ELSE Out(p)
  BY <1>2, <1>3, <1>4, <1>5, OutMoves, QuantityNat
<1>9. stock'[p] \in Int /\ stock'[p] + Out(p)' = InitStock[p]
  BY <1>2, <1>6, <1>7, <1>8
<1> QED  BY <1>9, <1>7, ShopAssumption DEF ShopTypeOK, Stock

\* No request but a purchase and a refund moves a unit.
LEMMA ShelfStep ==
  ASSUME ShopTypeOK, ShopTypeOK', RowsBlank, Shelf, StockPatch = {}, [ShopNext]_shopVars
  PROVE  StockStaysLimited' /\ StockConserved'
<1> USE DEF Shelf
<1>1. CASE UNCHANGED <<stock, orders>>
  BY <1>1 DEF StockStaysLimited, StockConserved, Out, TakenBy
<1>2. ASSUME NEW u \in User, NEW k \in AskKey, NEW use \in AskPoints, NEW d \in Coupons,
             Buy(u, k, use, d)
      PROVE  StockStaysLimited' /\ StockConserved'
  <2>1. cart[u] \in Cart
    BY DEF ShopTypeOK
  <2> QED  BY <1>2, <2>1, ShelfPlaced DEF Buy
<1>3. ASSUME NEW o \in Order, NEW s \in AskStatus, UpdateOrderStatus(o, s)
      PROVE  StockStaysLimited' /\ StockConserved'
  <2>0. s \in OrderStatus
    BY ShopAssumption
  <2>1. CASE decide_transition(orders[o].status, s) = "flip" /\ Flip(o, s)
    <3>1. orders \in [Order -> OrderRow] /\ orders' = [orders EXCEPT ![o].status = s] /\ stock' = stock
      BY <2>1 DEF ShopTypeOK, Flip, catalog
    <3>2. orders[o].status \notin Terminal /\ s \notin Terminal
      BY <2>1 DEF decide_transition, can_transition_to, Transitions, compensation_required, is_revenue,
         Terminal, RowsBlank
    <3>3. \A r \in Order : /\ orders'[r].lines = orders[r].lines
                           /\ orders'[r].decremented = orders[r].decremented
                           /\ orders'[r].status \in Terminal <=> orders[r].status \in Terminal
      BY <3>1, <3>2 DEF OrderRow
    <3>4. \A p \in Product : TakenBy(p)' = TakenBy(p) /\ QuantityOf(p)' = QuantityOf(p)
      BY <3>3 DEF TakenBy, QuantityOf
    <3>5. \A p \in Product : Out(p)' = Out(p)
      BY <3>4 DEF Out, QuantityOf
    <3> QED  BY <3>1, <3>5 DEF StockStaysLimited, StockConserved
  <2> QED  BY <1>3, <2>0, <2>1, ShelfRefunded DEF UpdateOrderStatus
<1>4. ASSUME NEW p \in Product, PatchProduct(p) PROVE StockStaysLimited' /\ StockConserved'
  BY <1>1, <1>4 DEF PatchProduct, artifacts
<1>5. CASE \E u \in User, i \in Item, n \in 1..MaxQty : AddToCart(u, i, n) \/ UpdateQuantity(u, i, n)
  BY <1>1, <1>5 DEF AddToCart, UpdateQuantity, catalog, artifacts
<1>6. CASE \/ \E u \in User, i \in Item : RemoveItem(u, i)
           \/ \E u \in User : ClearCart(u)
           \/ \E u \in User, d \in Deltas : AdjustPoints(u, d)
  BY <1>1, <1>6 DEF RemoveItem, ClearCart, AdjustPoints, catalog, artifacts
<1>7. CASE \/ \E o \in Order, c \in Course : CancelEnrolment(o, c)
           \/ \E c \in Course : PatchCourse(c) \/ DelistCourse(c)
  BY <1>1, <1>7 DEF CancelEnrolment, PatchCourse, DelistCourse, catalog, artifacts
<1>8. CASE UNCHANGED shopVars
  BY <1>1, <1>8 DEF shopVars
<1> QED
  BY <1>2, <1>3, <1>4, <1>5, <1>6, <1>7, <1>8 DEF ShopNext

LEMMA ShelfInit == Init => Shelf
<1> SUFFICES ASSUME Init PROVE Shelf
  OBVIOUS
<1>1. RowsBlank /\ StockStaysLimited
  BY AccountsInit DEF Init, ShopInit, Accounts, StockStaysLimited
<1>2. \A p \in Product : TakenBy(p) = {}
  BY DEF Init, ShopInit, NoOrder, TakenBy
<1>3. \A p \in Product : Out(p) = 0
  BY <1>2, SumEmpty DEF Out
<1>4. \A p \in Product : InitStock[p] # NULL => InitStock[p] \in Nat
  BY ShopAssumption DEF Stock
<1> QED  BY <1>1, <1>3, <1>4 DEF Init, ShopInit, Shelf, StockConserved

\* catalog/service.rs, orders/fulfilment.rs: where admins set no stock by hand, what is
\* missing from the shelf is what orders that did not end took from it; and a buyer holds a
\* course by at most one order.  Neither a unit nor an enrolment is sold or given back twice.
THEOREM NothingIsSoldTwice == ASSUME StockPatch = {} PROVE Spec => []NothingSoldTwice
<1>1. /\ ReadyInv /\ ReadyInv' /\ Accounts /\ Accounts' /\ Shelf /\ [Next]_vars => Shelf'
  <2> SUFFICES ASSUME ReadyInv, ReadyInv', Accounts, Accounts', Shelf, [Next]_vars PROVE Shelf'
    OBVIOUS
  <2>1. ShopTypeOK /\ ShopTypeOK' /\ RowsBlank /\ RowsBlank'
    BY DEF ReadyInv, OrdersInv, Inv, TypeOK, Accounts
  <2> QED  BY <2>1, Simulation, ShelfStep DEF Shelf
<1>2. ReadyInv /\ Shelf => NothingSoldTwice
  BY DEF ReadyInv, OrdersInv, Books, Shelf, NothingSoldTwice
<1> QED
  BY <1>1, <1>2, AccountsStay, InitReady, StepReady, AccountsInit, ShelfInit, PTL DEF Spec

-----------------------------------------------------------------------------
(***************************************************************************)
(* Nobody waits in a ring.  Locks are taken in one order: an order row,    *)
(* the buyer's row, items by ascending id, the cart; so whoever waits      *)
(* holds only rows that come before the one it waits for.                  *)
(***************************************************************************)

Ascending(t) ==
  /\ \A i \in Item : itemLock[i] = t =>
       /\ pc[t] \in {"lock_items"} \cup HoldsCart
       /\ pc[t] = "lock_items" => \A j \in Unlocked(t) : i < j
  /\ \A u \in User : cartLock[u] = t => pc[t] \in HoldsCart
  /\ \A o \in Order : orderLock[o] = t => HoldsOrder(t)

\* A step takes and frees locks for its own transaction.
LEMMA OthersLocks ==
  ASSUME Inv, NEW t \in Tx, StepOf(t), NEW s \in Tx, s # t
  PROVE  /\ \A i \in Item : itemLock'[i] = s <=> itemLock[i] = s
         /\ \A u \in User : cartLock'[u] = s <=> cartLock[u] = s
         /\ \A o \in Order : orderLock'[o] = s <=> orderLock[o] = s
         /\ targets'[s] = targets[s]
<1>0. TypeOK /\ s # NULL
  BY CheckoutAssumption DEF Inv
<1> USE DEF TypeOK, locals, locks
<1>1. ASSUME Release(t), targets' = [targets EXCEPT ![t] = {}]
      PROVE  /\ \A i \in Item : itemLock'[i] = s <=> itemLock[i] = s
             /\ \A u \in User : cartLock'[u] = s <=> cartLock[u] = s
             /\ \A o \in Order : orderLock'[o] = s <=> orderLock[o] = s
             /\ targets'[s] = targets[s]
  BY <1>0, <1>1 DEF Release, Freed
<1>2. CASE Receive(t) \/ Replay(t) \/ Finish(t)
  BY <1>0, <1>2 DEF Receive, ReceiveCheckout, ReceiveStatus, Replay, Finish
<1>3. CASE LockUser(t) \/ LockOrder(t)
  BY <1>0, <1>3 DEF LockUser, LockOrder
<1>4. CASE LockItem(t)
  BY <1>0, <1>4 DEF LockItem
<1>5. CASE ReadTargets(t)
  BY <1>0, <1>5 DEF ReadTargets
<1>6. CASE ReadCart(t)
  BY <1>0, <1>6 DEF ReadCart, CartFree
<1>7. CASE FindCartEmpty(t) \/ FindDelisted(t) \/ FindCouponInvalid(t)
  BY <1>1, <1>7 DEF FindCartEmpty, FindDelisted, FindCouponInvalid, Reject, EndTx
<1>8. CASE Reserve(t) \/ Enrol(t)
  BY <1>1, <1>8 DEF Reserve, Enrol, Reject, EndTx
<1>9. CASE Commit(t)
  BY <1>1, <1>9 DEF Commit, EndTx
<1>10. CASE Decide(t)
  BY <1>1, <1>10 DEF Decide, Reject, EndTx
<1>11. CASE FlipStatus(t) \/ Refund(t)
  BY <1>1, <1>11 DEF FlipStatus, Refund, Reject, EndTx
<1>12. CASE Crash(t)
  BY <1>1, <1>12 DEF Crash
<1> QED
  BY <1>2, <1>3, <1>4, <1>5, <1>6, <1>7, <1>8, <1>9, <1>10, <1>11, <1>12
     DEF StepOf, LockStep, CartStep, LocalStep

\* A transaction takes its locks in the one order.
LEMMA OwnAscending ==
  ASSUME Inv, NEW t \in Tx, Ascending(t), StepOf(t)
  PROVE  Ascending(t)'
<1>0. TypeOK /\ Consistent(t) /\ t # NULL
  BY CheckoutAssumption DEF Inv
<1> USE DEF TypeOK, Goto
<1>1. ASSUME Release(t) PROVE Ascending(t)'
  BY <1>0, <1>1 DEF Release, Freed, Ascending
<1>2. ASSUME UNCHANGED <<itemLock, cartLock, orderLock>>,
             pc[t] \notin {"lock_items"} \cup HoldsCart \cup {"decide", "flip"} \cup Refunding
      PROVE  Ascending(t)'
  BY <1>0, <1>2 DEF Ascending, HoldsOrder
<1>3. CASE Receive(t) \/ Replay(t) \/ Finish(t)
  BY <1>2, <1>3 DEF Receive, ReceiveCheckout, ReceiveStatus, Replay, Finish, locks, HoldsCart, Refunding
<1>4. CASE LockUser(t)
  <2>1. /\ pc[t] = "lock_user" /\ pc'[t] = "targets" /\ req' = req
        /\ UNCHANGED <<itemLock, cartLock, orderLock>>
    BY <1>0, <1>4 DEF LockUser
  <2> QED  BY <2>1 DEF Ascending, HoldsOrder, IsStatus, Refunding, HoldsCart
<1>5. CASE LockOrder(t)
  <2>1. /\ pc[t] = "lock_order" /\ pc'[t] = "decide"
        /\ UNCHANGED <<itemLock, cartLock>>
    BY <1>0, <1>5 DEF LockOrder
  <2> QED  BY <2>1 DEF Ascending, HoldsOrder, Refunding, HoldsCart
<1>6. CASE LockItem(t)
  <2>1. PICK i \in Item : NextItem(t, i) /\ itemLock' = [itemLock EXCEPT ![i] = t]
    BY <1>6 DEF LockItem
  <2>2. /\ pc[t] = "lock_items" /\ UNCHANGED <<pc, req, targets, cartLock, orderLock>>
    BY <1>6 DEF LockItem, locals
  <2>3. Unlocked(t)' = Unlocked(t) \ {i} /\ Unlocked(t) \subseteq Item
    BY <1>0, <2>1, <2>2 DEF Unlocked
  <2>4. \A j \in Unlocked(t)' : i < j
    <3>1. i \in Nat /\ Unlocked(t) \subseteq Nat
      BY <2>3, ShopAssumption
    <3>2. \A j \in Unlocked(t) : i <= j
      BY <2>1 DEF NextItem
    <3> QED  BY <2>3, <3>1, <3>2
  <2>5. \A k \in Item : itemLock'[k] = t => k = i \/ itemLock[k] = t
    BY <1>0, <2>1
  <2>6. \A k \in Item : itemLock'[k] = t => \A j \in Unlocked(t)' : k < j
    BY <2>2, <2>3, <2>4, <2>5 DEF Ascending
  <2> QED  BY <2>2, <2>6 DEF Ascending, HoldsOrder, IsStatus, HoldsCart
<1>7. CASE ReadTargets(t)
  <2>1. /\ pc[t] = "targets" /\ pc'[t] = "lock_items" /\ req' = req
        /\ UNCHANGED <<itemLock, cartLock, orderLock>>
    BY <1>0, <1>7 DEF ReadTargets, locks
  <2> QED  BY <2>1 DEF Ascending, HoldsOrder, IsStatus, Refunding, HoldsCart
<1>8. CASE ReadCart(t)
  <2>1. /\ pc[t] = "lock_items" /\ pc'[t] = "reserve" /\ IsCheckout(t)
        /\ UNCHANGED <<itemLock, orderLock>>
    BY <1>0, <1>8 DEF ReadCart, CartFree, HoldsTargets
  <2> QED  BY <2>1 DEF Ascending, HoldsOrder, IsStatus, IsCheckout, HoldsCart
<1>9. CASE FindCartEmpty(t) \/ FindDelisted(t) \/ FindCouponInvalid(t) \/ Commit(t)
  BY <1>1, <1>9 DEF FindCartEmpty, FindDelisted, FindCouponInvalid, Commit, Reject, EndTx
<1>10. CASE Reserve(t) \/ Enrol(t)
  <2>1. CASE Reject(t)
    BY <1>1, <2>1 DEF Reject, EndTx
  <2>2. CASE ~Reject(t)
    <3>1. /\ pc[t] \in {"reserve", "enrol"} /\ pc'[t] \in HoldsCart
          /\ UNCHANGED <<itemLock, cartLock, orderLock>>
      BY <1>0, <1>10, <2>2 DEF Reserve, Enrol, locks, HoldsCart
    <3> QED  BY <3>1 DEF Ascending, HoldsOrder, Refunding, HoldsCart
  <2> QED  BY <2>1, <2>2
<1>11. CASE Decide(t)
  <2>1. CASE EndTx(t, "done") \/ Reject(t)
    BY <1>1, <2>1 DEF Reject, EndTx
  <2>2. CASE ~(EndTx(t, "done") \/ Reject(t))
    <3>1. /\ pc[t] = "decide" /\ pc'[t] \in {"flip", "lock_user"} /\ req' = req
          /\ UNCHANGED <<itemLock, cartLock, orderLock>>
      BY <1>0, <1>11, <2>2 DEF Decide, locals, locks
    <3>2. IsStatus(t)
      BY <1>0, <3>1 DEF Consistent, RequestOK
    <3> QED  BY <3>1, <3>2 DEF Ascending, HoldsOrder, IsStatus, Refunding, HoldsCart
  <2> QED  BY <2>1, <2>2
<1>12. CASE FlipStatus(t) \/ Refund(t) \/ Crash(t)
  BY <1>1, <1>12 DEF FlipStatus, Refund, Crash, Reject, EndTx
<1> QED
  BY <1>3, <1>4, <1>5, <1>6, <1>7, <1>8, <1>9, <1>10, <1>11, <1>12
     DEF StepOf, LockStep, CartStep, LocalStep

LEMMA StepAscending ==
  ASSUME Inv, \A t \in Tx : Ascending(t), [Next]_vars
  PROVE  \A t \in Tx : Ascending(t)'
<1>1. ASSUME UNCHANGED <<pc, req, targets, itemLock, cartLock, orderLock>>
      PROVE  \A t \in Tx : Ascending(t)'
  BY <1>1 DEF Ascending, Unlocked, HoldsOrder, IsStatus
<1>2. CASE OneRowRequest \/ UNCHANGED vars
  BY <1>1, <1>2 DEF OneRowRequest, vars, locals, locks
<1>3. ASSUME NEW t \in Tx, StepOf(t), NEW s \in Tx PROVE Ascending(s)'
  <2>1. CASE s = t
    BY <1>3, <2>1, OwnAscending
  <2>2. CASE s # t
    <3>1. pc'[s] = pc[s] /\ req'[s] = req[s]
      BY <1>3, <2>2, OthersStay
    <3>2. /\ \A i \in Item : itemLock'[i] = s <=> itemLock[i] = s
          /\ \A u \in User : cartLock'[u] = s <=> cartLock[u] = s
          /\ \A o \in Order : orderLock'[o] = s <=> orderLock[o] = s
          /\ targets'[s] = targets[s] /\ targets[s] \subseteq Item
      BY <1>3, <2>2, OthersLocks DEF Inv, TypeOK
    <3>3. Unlocked(s)' = Unlocked(s)
      BY <3>2 DEF Unlocked
    <3> QED  BY <3>1, <3>2, <3>3 DEF Ascending, HoldsOrder, IsStatus
  <2> QED  BY <2>1, <2>2
<1> QED  BY <1>2, <1>3 DEF Next, StepOf

-----------------------------------------------------------------------------
(* From the order of the locks to the absence of a ring.                   *)

NextOf(t) == CHOOSE i \in Unlocked(t) : NextItem(t, i)

LEMMA NextOfIsLeast ==
  ASSUME TypeOK, NEW t \in Tx, Unlocked(t) # {}
  PROVE  NextOf(t) \in Unlocked(t) /\ NextOf(t) \in Nat
<1>1. Unlocked(t) \subseteq Item /\ Unlocked(t) \subseteq Nat
  BY ShopAssumption DEF TypeOK, Unlocked
<1>2. \E i \in Unlocked(t) : NextItem(t, i)
  BY <1>1, LeastMember DEF NextItem
<1> QED  BY <1>1, <1>2 DEF NextOf

\* A ring has a member that waits for an item, and the one that waits for the greatest would
\* have to wait for a greater one.
LEMMA NoRing ==
  ASSUME Inv, \A t \in Tx : Ascending(t)
  PROVE  NoWaitCycle
<1> SUFFICES ASSUME NEW S \in SUBSET Tx, S # {}, \A t \in S : Blocker(t) \in S PROVE FALSE
  BY DEF NoWaitCycle
<1>0. TypeOK /\ NULL \notin S /\ \A t \in S : t \in Tx /\ Blocker(t) # NULL /\ Ascending(t)
  BY CheckoutAssumption DEF Inv
<1> DEFINE AtItem(t) == pc[t] = "lock_items" /\ Unlocked(t) # {}
           AtCart(t) == HoldsTargets(t) /\ IsCheckout(t)
           W == {t \in S : AtItem(t)}
\* Whoever is blocked waits for an order, a buyer, an item or a cart.
<1>1. \A t \in S : /\ pc[t] = "lock_order" => Blocker(t) = orderLock[req[t].order]
                   /\ pc[t] = "lock_user" => Blocker(t) = userLock[Buyer(t)]
                   /\ AtItem(t) => Blocker(t) = itemLock[NextOf(t)]
                   /\ AtCart(t) => Blocker(t) = cartLock[req[t].user]
                   /\ pc[t] \in {"lock_order", "lock_user"} \/ AtItem(t) \/ AtCart(t)
  <2> SUFFICES ASSUME NEW t \in S
               PROVE  /\ pc[t] = "lock_order" => Blocker(t) = orderLock[req[t].order]
                      /\ pc[t] = "lock_user" => Blocker(t) = userLock[Buyer(t)]
                      /\ AtItem(t) => Blocker(t) = itemLock[NextOf(t)]
                      /\ AtCart(t) => Blocker(t) = cartLock[req[t].user]
                      /\ pc[t] \in {"lock_order", "lock_user"} \/ AtItem(t) \/ AtCart(t)
    OBVIOUS
  <2>1. Blocker(t) # NULL
    BY <1>0
  <2>2. CASE pc[t] = "lock_order"
    BY <2>2 DEF Blocker, HoldsTargets
  <2>3. CASE pc[t] = "lock_user"
    BY <2>3 DEF Blocker, HoldsTargets
  <2>4. CASE AtItem(t)
    BY <2>4 DEF Blocker, HoldsTargets, NextOf
  <2>5. CASE AtCart(t)
    BY <2>5 DEF Blocker, HoldsTargets
  <2>6. CASE ~(pc[t] \in {"lock_order", "lock_user"} \/ AtItem(t) \/ AtCart(t))
    BY <2>1, <2>6 DEF Blocker
  <2> QED  BY <2>2, <2>3, <2>4, <2>5, <2>6
<1>2. \A t \in S : Consistent(t)
  BY <1>0 DEF Inv
\* Who holds a cart waits for nothing.
<1>3. ASSUME NEW t \in S, AtCart(t) PROVE FALSE
  <2>1. Blocker(t) \in S /\ cartLock[req[t].user] = Blocker(t) /\ req[t].user \in User
    BY <1>1, <1>2, <1>3 DEF Consistent, RequestOK
  <2>2. pc[Blocker(t)] \in HoldsCart
    BY <1>0, <2>1 DEF Ascending
  <2> QED  BY <1>1, <2>1, <2>2 DEF HoldsCart, HoldsTargets
\* Who holds an item waits for a greater one.
<1>4. ASSUME NEW t \in W PROVE Blocker(t) \in W /\ NextOf(t) < NextOf(Blocker(t))
  <2>1. NextOf(t) \in Unlocked(t) /\ NextOf(t) \in Item
    BY <1>0, NextOfIsLeast DEF Unlocked, TypeOK
  <2>2. Blocker(t) \in S /\ itemLock[NextOf(t)] = Blocker(t)
    BY <1>1
  <2>3. pc[Blocker(t)] \in {"lock_items"} \cup HoldsCart
    BY <1>0, <2>1, <2>2 DEF Ascending
  <2>4. AtItem(Blocker(t))
    BY <1>1, <1>3, <2>2, <2>3 DEF HoldsCart, HoldsTargets
  <2>5. NextOf(Blocker(t)) \in Unlocked(Blocker(t))
    BY <1>0, <2>2, <2>4, NextOfIsLeast
  <2> QED  BY <1>0, <2>1, <2>2, <2>4, <2>5 DEF Ascending
<1>5. W = {}
  <2> SUFFICES ASSUME W # {} PROVE FALSE
    OBVIOUS
  <2> DEFINE f == [t \in W |-> NextOf(t)]
  <2>1. IsFiniteSet(W)
    <3>1. W \in SUBSET Tx
      OBVIOUS
    <3> QED  BY <3>1, CheckoutAssumption, FS_Subset
  <2>2. \A t \in W : f[t] \in Nat /\ f[t] = NextOf(t)
    BY <1>0, NextOfIsLeast
  <2>3. \A t \in W : Blocker(t) \in W /\ f[t] < f[Blocker(t)]
    BY <1>4, <2>2
  <2> HIDE DEF f, W
  <2>4. PICK t \in W : \A s \in W : f[s] <= f[t]
    BY <2>1, <2>2, GreatestMember
  <2> QED  BY <2>2, <2>3, <2>4
\* Who holds a buyer's row waits for an item or a cart.
<1>6. ASSUME NEW t \in S, pc[t] = "lock_user" PROVE FALSE
  <2>1. Blocker(t) \in S /\ userLock[Buyer(t)] = Blocker(t) /\ Buyer(t) \in User
    BY <1>0, <1>1, <1>2, <1>6 DEF Inv, BuyersKnown, Consistent, RequestOK, Buyer
  <2>2. pc[Blocker(t)] \in HoldsUser
    BY <1>2, <2>1 DEF Consistent, LocksHeld
  <2> QED  BY <1>1, <1>3, <1>5, <2>1, <2>2 DEF HoldsUser
\* Who holds an order row waits for a buyer's row, an item or a cart.
<1>7. ASSUME NEW t \in S, pc[t] = "lock_order" PROVE FALSE
  <2>1. Blocker(t) \in S /\ orderLock[req[t].order] = Blocker(t) /\ req[t].order \in Order
    BY <1>1, <1>2, <1>7 DEF Consistent, RequestOK
  <2>2. HoldsOrder(Blocker(t))
    BY <1>0, <2>1 DEF Ascending
  <2> QED  BY <1>1, <1>3, <1>5, <1>6, <2>1, <2>2 DEF HoldsOrder, Refunding
<1> QED  BY <1>1, <1>3, <1>5, <1>6, <1>7

\* orders/locks.rs: checkout and refund "cannot form a cycle".  However many transactions
\* run, there is always one of them that waits for no other of them.
THEOREM NobodyWaitsInARing == Spec => []NoWaitCycle
<1>1. Init => \A t \in Tx : Ascending(t)
  BY CheckoutAssumption DEF Init, Ascending
<1>2. Inv /\ (\A t \in Tx : Ascending(t)) /\ [Next]_vars => (\A t \in Tx : Ascending(t))'
  BY StepAscending
<1>3. Inv /\ (\A t \in Tx : Ascending(t)) => NoWaitCycle
  BY NoRing
<1> QED
  BY <1>1, <1>2, <1>3, Invariance, PTL DEF Spec
=============================================================================
