------------------------------ MODULE Checkout ------------------------------
(***************************************************************************)
(* Checkout and order status changes as the database transactions they     *)
(* are: row locks taken one at a time in the order of orders/locks.rs,     *)
(* values read under them, one commit at the end.  A transaction's writes  *)
(* are invisible to the others until it commits, so they are modelled at   *)
(* the commit, from the values it read on the way.  Requests that touch    *)
(* one row (cart, catalog, points, enrolment) are one step, which waits    *)
(* for the row locks that PostgreSQL would make it wait for.               *)
(***************************************************************************)
EXTENDS Shop, FiniteSetsExt

CONSTANTS
  Tx,        \* the requests in flight at a time
  Rejected   \* the answer to a request that failed

ASSUME CheckoutAssumption ==
  /\ IsFiniteSet(Tx)
  /\ NULL \notin Tx
  /\ Rejected \notin Order \cup {NULL}

VARIABLES
  pc,         \* where each request is
  req,        \* what it asks
  seen,       \* the balance read when the buyer's row was locked
  targets,    \* the items whose rows it locks, read before they are locked
  snap,       \* the cart lines read under the locks
  reply,      \* its answer: an order, or Rejected
  userLock, itemLock, cartLock, orderLock   \* who holds each row, NULL if nobody

locals == <<req, seen, targets, snap, reply>>
locks  == <<userLock, itemLock, cartLock, orderLock>>
vars   == <<shopVars, pc, locals, locks>>

Labels == {"idle", "lock_user", "targets", "lock_items", "reserve", "enrol", "commit",
           "replay", "lock_order", "decide", "flip", "done"}

NoReq == [kind |-> "none", user |-> NULL, key |-> NULL, use |-> FALSE, coupon |-> 0,
          order |-> NULL, target |-> NULL]

CheckoutReq(u, k, use, d) ==
  [NoReq EXCEPT !.kind = "checkout", !.user = u, !.key = k, !.use = use, !.coupon = d]

StatusReq(o, s) == [NoReq EXCEPT !.kind = "status", !.order = o, !.target = s]

Request == [kind : {"none", "checkout", "status"}, user : User \cup {NULL},
            key : Key \cup {NULL}, use : BOOLEAN, coupon : Coupons \cup {0},
            order : Order \cup {NULL}, target : OrderStatus \cup {NULL}]

TypeOK ==
  /\ ShopTypeOK
  /\ pc \in [Tx -> Labels]
  /\ req \in [Tx -> Request]
  /\ seen \in [Tx -> Nat]
  /\ targets \in [Tx -> SUBSET Item]
  /\ snap \in [Tx -> Cart]
  /\ reply \in [Tx -> Order \cup {NULL, Rejected}]
  /\ userLock \in [User -> Tx \cup {NULL}]
  /\ itemLock \in [Item -> Tx \cup {NULL}]
  /\ cartLock \in [User -> Tx \cup {NULL}]
  /\ orderLock \in [Order -> Tx \cup {NULL}]

Init ==
  /\ ShopInit
  /\ pc = [t \in Tx |-> "idle"]
  /\ req = [t \in Tx |-> NoReq]
  /\ seen = [t \in Tx |-> 0]
  /\ targets = [t \in Tx |-> {}]
  /\ snap = [t \in Tx |-> EmptyCart]
  /\ reply = [t \in Tx |-> NULL]
  /\ userLock = [u \in User |-> NULL]
  /\ itemLock = [i \in Item |-> NULL]
  /\ cartLock = [u \in User |-> NULL]
  /\ orderLock = [o \in Order |-> NULL]

-----------------------------------------------------------------------------
(* Steps every transaction is made of.                                     *)

IsCheckout(t) == req[t].kind = "checkout"
IsStatus(t)   == req[t].kind = "status"

\* The user whose row the request locks: the caller, or the order's buyer.
Buyer(t) == IF IsStatus(t) THEN orders[req[t].order].buyer ELSE req[t].user

Goto(t, l) == pc' = [pc EXCEPT ![t] = l]

Freed(f, t) == [x \in DOMAIN f |-> IF f[x] = t THEN NULL ELSE f[x]]

Mut_Release(t) ==
  /\ userLock' = Freed(userLock, t) /\ itemLock' = itemLock
  /\ cartLock' = Freed(cartLock, t) /\ orderLock' = Freed(orderLock, t)
\* Commit or rollback: every row lock of the transaction goes.
Release(t) ==
  /\ userLock' = Freed(userLock, t) /\ itemLock' = Freed(itemLock, t)
  /\ cartLock' = Freed(cartLock, t) /\ orderLock' = Freed(orderLock, t)

\* The end of a transaction; what it had read is forgotten.
EndTx(t, l) ==
  /\ Release(t) /\ Goto(t, l)
  /\ seen' = [seen EXCEPT ![t] = 0]
  /\ targets' = [targets EXCEPT ![t] = {}]
  /\ snap' = [snap EXCEPT ![t] = EmptyCart]
  /\ UNCHANGED req

Answer(t, r) == reply' = [reply EXCEPT ![t] = r]

Reject(t) == EndTx(t, "done") /\ Answer(t, Rejected) /\ UNCHANGED shopVars

\* The client has the answer, or gave up waiting for it.
Finish(t) ==
  /\ pc[t] = "done"
  /\ Goto(t, "idle") /\ Answer(t, NULL)
  /\ req' = [req EXCEPT ![t] = NoReq]
  /\ UNCHANGED <<shopVars, seen, targets, snap, locks>>

\* The server or its connection dies: the database rolls the transaction back.
Crash(t) ==
  /\ pc[t] \notin {"idle", "done"}
  /\ Release(t) /\ Goto(t, "idle") /\ Answer(t, NULL)
  /\ req' = [req EXCEPT ![t] = NoReq]
  /\ seen' = [seen EXCEPT ![t] = 0]
  /\ targets' = [targets EXCEPT ![t] = {}]
  /\ snap' = [snap EXCEPT ![t] = EmptyCart]
  /\ UNCHANGED shopVars

-----------------------------------------------------------------------------
(* Receiving a request.                                                    *)

\* Bound: a checkout is received only while an order id is left for it.
RoomForOrder ==
  Cardinality({t \in Tx : IsCheckout(t) /\ pc[t] \notin {"replay", "done"}})
    < Cardinality({o \in Order : ~Used(o)})

\* The replay pre-check runs before the transaction begins.
ReceiveCheckout(t, u, k, use, d) ==
  /\ pc[t] = "idle" /\ RoomForOrder
  /\ req' = [req EXCEPT ![t] = CheckoutReq(u, k, use, d)]
  /\ IF Recorded(u, k) THEN Goto(t, "done") /\ Answer(t, idem[u][k])
                       ELSE Goto(t, "lock_user") /\ UNCHANGED reply
  /\ UNCHANGED <<shopVars, seen, targets, snap, locks>>

ReceiveStatus(t, o, s) ==
  /\ pc[t] = "idle" /\ Used(o)
  /\ req' = [req EXCEPT ![t] = StatusReq(o, s)]
  /\ Goto(t, "lock_order")
  /\ UNCHANGED <<shopVars, seen, targets, snap, reply, locks>>

-----------------------------------------------------------------------------
(* Locking, shared by checkout and refund.                                 *)

LockUser(t) ==
  /\ pc[t] = "lock_user" /\ userLock[Buyer(t)] = NULL
  /\ userLock' = [userLock EXCEPT ![Buyer(t)] = t]
  /\ seen' = [seen EXCEPT ![t] = balance[Buyer(t)]]
  /\ Goto(t, "targets")
  /\ UNCHANGED <<shopVars, req, targets, snap, reply, itemLock, cartLock, orderLock>>

Mut_ReadTargets(t) ==
  /\ pc[t] = "targets"
  /\ targets' = [targets EXCEPT ![t] =
       IF IsCheckout(t) THEN Lines(cart[req[t].user]) \cap Product
                        ELSE orders[req[t].order].decremented]
  /\ Goto(t, "lock_items")
  /\ UNCHANGED <<shopVars, req, seen, snap, reply, locks>>
\* The cart's items, or the items the order's own lines say to restock.
ReadTargets(t) ==
  /\ pc[t] = "targets"
  /\ targets' = [targets EXCEPT ![t] =
       IF IsCheckout(t) THEN Lines(cart[req[t].user]) ELSE orders[req[t].order].decremented]
  /\ Goto(t, "lock_items")
  /\ UNCHANGED <<shopVars, req, seen, snap, reply, locks>>

Unlocked(t) == {i \in targets[t] : itemLock[i] # t}

Mut_NextItem(t, i) == i \in Unlocked(t)
\* Ascending ids, products before courses.
NextItem(t, i) == i \in Unlocked(t) /\ \A j \in Unlocked(t) : i <= j

LockItem(t) ==
  /\ pc[t] = "lock_items"
  /\ \E i \in Item :
       /\ NextItem(t, i) /\ itemLock[i] = NULL
       /\ itemLock' = [itemLock EXCEPT ![i] = t]
  /\ UNCHANGED <<shopVars, pc, locals, userLock, cartLock, orderLock>>

HoldsTargets(t) == pc[t] = "lock_items" /\ Unlocked(t) = {}

-----------------------------------------------------------------------------
(* Checkout, from the cart snapshot on.                                    *)

CartFree(t) == HoldsTargets(t) /\ IsCheckout(t) /\ cartLock[req[t].user] = NULL

\* An empty cart may be a twin's doing: the transaction ends before the replay.
FindCartEmpty(t) ==
  /\ CartFree(t) /\ Lines(cart[req[t].user]) = {}
  /\ EndTx(t, "replay") /\ UNCHANGED <<shopVars, reply>>

AllOnSale(t) == \A i \in Lines(cart[req[t].user]) : onSale[i]

FindDelisted(t) == CartFree(t) /\ ~AllOnSale(t) /\ Reject(t)

\* A coupon row is read without a lock; an admin may disable it at any time.
FindCouponInvalid(t) ==
  /\ CartFree(t) /\ Lines(cart[req[t].user]) # {} /\ AllOnSale(t)
  /\ req[t].coupon > 0 /\ Reject(t)

ReadCart(t) ==
  /\ CartFree(t) /\ Lines(cart[req[t].user]) # {} /\ AllOnSale(t)
  /\ cartLock' = [cartLock EXCEPT ![req[t].user] = t]
  /\ snap' = [snap EXCEPT ![t] = cart[req[t].user]]
  /\ Goto(t, "reserve")
  /\ UNCHANGED <<shopVars, req, seen, targets, reply, userLock, itemLock, orderLock>>

CanReserve(t) ==
  \A p \in Lines(snap[t]) \cap Product : LineAllowed(p, snap[t][p]) /\ InStock(p, snap[t][p])

Reserve(t) ==
  /\ pc[t] = "reserve"
  /\ \/ ~CanReserve(t) /\ Reject(t)
     \/ /\ CanReserve(t) /\ Goto(t, "enrol")
        /\ UNCHANGED <<shopVars, locals, locks>>

CanEnrol(t) ==
  \A c \in Lines(snap[t]) \cap Course : ~is_full(c) /\ ~exists_active(req[t].user, c)

Enrol(t) ==
  /\ pc[t] = "enrol"
  /\ \/ ~CanEnrol(t) /\ Reject(t)
     \/ /\ CanEnrol(t) /\ Goto(t, "commit")
        /\ UNCHANGED <<shopVars, locals, locks>>

Mut_Commit(t) ==
  LET r == req[t] IN
  /\ pc[t] = "commit"
  /\ \E o \in Order :
       /\ NewOrder(o) /\ Answer(t, o)
       /\ PlaceOrder(o, r.user, r.key, snap[t], seen[t], r.use, r.coupon)
  /\ EndTx(t, "done")
\* The key's unique index lets one of two twins through.
Commit(t) ==
  LET r == req[t] IN
  /\ pc[t] = "commit"
  /\ \/ /\ Recorded(r.user, r.key)
        /\ EndTx(t, "replay") /\ UNCHANGED <<shopVars, reply>>
     \/ /\ ~Recorded(r.user, r.key)
        /\ \E o \in Order :
             /\ NewOrder(o) /\ Answer(t, o)
             /\ PlaceOrder(o, r.user, r.key, snap[t], seen[t], r.use, r.coupon)
        /\ EndTx(t, "done")

\* replay_by_key: the order is looked up by user and key.
Replay(t) ==
  LET r == req[t] IN
  /\ pc[t] = "replay" /\ Goto(t, "done")
  /\ Answer(t, IF Recorded(r.user, r.key) THEN idem[r.user][r.key] ELSE Rejected)
  /\ UNCHANGED <<shopVars, req, seen, targets, snap, locks>>

-----------------------------------------------------------------------------
(* A status change.                                                        *)

Mut_LockOrder(t) ==
  /\ pc[t] = "lock_order"
  /\ orderLock' = [orderLock EXCEPT ![req[t].order] = t]
  /\ Goto(t, "decide")
  /\ UNCHANGED <<shopVars, locals, userLock, itemLock, cartLock>>
LockOrder(t) ==
  /\ pc[t] = "lock_order" /\ orderLock[req[t].order] = NULL
  /\ orderLock' = [orderLock EXCEPT ![req[t].order] = t]
  /\ Goto(t, "decide")
  /\ UNCHANGED <<shopVars, locals, userLock, itemLock, cartLock>>

Decide(t) ==
  LET decision == decide_transition(orders[req[t].order].status, req[t].target) IN
  /\ pc[t] = "decide"
  /\ \/ decision = "no_op" /\ EndTx(t, "done") /\ Answer(t, req[t].order) /\ UNCHANGED shopVars
     \/ decision = "illegal" /\ Reject(t)
     \/ decision = "flip" /\ Goto(t, "flip") /\ UNCHANGED <<shopVars, locals, locks>>
     \/ decision = "flip_and_compensate" /\ Goto(t, "lock_user")
                                         /\ UNCHANGED <<shopVars, locals, locks>>

FlipStatus(t) ==
  /\ pc[t] = "flip"
  /\ Flip(req[t].order, req[t].target)
  /\ EndTx(t, "done") /\ Answer(t, req[t].order)

Refund(t) ==
  /\ HoldsTargets(t) /\ IsStatus(t)
  /\ \/ ~CanReverse(req[t].order) /\ Reject(t)
     \/ /\ Compensate(req[t].order, req[t].target, targets[t])
        /\ EndTx(t, "done") /\ Answer(t, req[t].order)

-----------------------------------------------------------------------------
(* One-row requests, and the row locks they wait for.                      *)

Mut_MayInsertLine(u, i) == i \in Course => itemLock[i] = NULL
\* Inserting a cart line takes FOR KEY SHARE on the user and on the course,
\* which FOR UPDATE blocks; on a product it does not meet FOR NO KEY UPDATE.
MayInsertLine(u, i) == userLock[u] = NULL /\ (i \in Course => itemLock[i] = NULL)

Mut_MayTouchLine(u, i) == cart[u][i] = 0 => MayInsertLine(u, i)
MayTouchLine(u, i) == IF cart[u][i] = 0 THEN MayInsertLine(u, i) ELSE cartLock[u] = NULL

Mut_MayAdjust(u) == TRUE
MayAdjust(u) == userLock[u] = NULL

Mut_MayPatch(i) == TRUE
\* UPDATE of a product or course meets checkout's and refund's row locks.
MayPatch(i) == itemLock[i] = NULL

OneRowRequest ==
  /\ \/ \E u \in User, i \in Item, n \in 1..MaxQty : MayTouchLine(u, i) /\ AddToCart(u, i, n)
     \/ \E u \in User, i \in Item, n \in 1..MaxQty : MayTouchLine(u, i) /\ UpdateQuantity(u, i, n)
     \/ \E u \in User, i \in Item : MayTouchLine(u, i) /\ RemoveItem(u, i)
     \/ \E u \in User : cartLock[u] = NULL /\ ClearCart(u)
     \/ \E u \in User, d \in Deltas : MayAdjust(u) /\ AdjustPoints(u, d)
     \/ \E o \in Order, c \in Course : CancelEnrolment(o, c)
     \/ \E p \in Product : MayPatch(p) /\ PatchProduct(p)
     \/ \E c \in Course : MayPatch(c) /\ (PatchCourse(c) \/ DelistCourse(c))
  /\ UNCHANGED <<pc, locals, locks>>

-----------------------------------------------------------------------------
LockStep(t) == LockUser(t) \/ LockItem(t) \/ LockOrder(t)

CartStep(t) == FindCartEmpty(t) \/ FindDelisted(t) \/ FindCouponInvalid(t) \/ ReadCart(t)

LocalStep(t) == ReadTargets(t) \/ Reserve(t) \/ Enrol(t) \/ Commit(t) \/ Replay(t)
                  \/ Decide(t) \/ FlipStatus(t) \/ Refund(t) \/ Finish(t)

Receive(t) ==
  \/ \E u \in User, k \in AskKey, use \in AskPoints, d \in Coupons :
       ReceiveCheckout(t, u, k, use, d)
  \/ \E o \in Order, s \in AskStatus : ReceiveStatus(t, o, s)

Next == OneRowRequest \/ \E t \in Tx : Receive(t) \/ LockStep(t) \/ CartStep(t)
                                         \/ LocalStep(t) \/ Crash(t)

Spec == Init /\ [][Next]_vars

\* A running request is not abandoned by its worker, and a row's lock queue is
\* first come, first served: a waiter passed over again and again gets its turn.
Fairness == \A t \in Tx : WF_vars(LocalStep(t) \/ CartStep(t)) /\ SF_vars(LockStep(t))

FairSpec == Spec /\ Fairness

-----------------------------------------------------------------------------
(* Safety.                                                                 *)

InCheckout(t, labels) == IsCheckout(t) /\ pc[t] \in labels

\* orders/locks.rs: "the cart can only shrink before the snapshot read, so the
\* snapshot's lines are always covered by the witnesses".  No line is added to
\* the cart of a checkout once its targets are read, and from the snapshot to
\* the commit the cart stays what was snapshot, every line's row locked.
CoveredBy(t) ==
  /\ InCheckout(t, {"lock_items"}) => Lines(cart[req[t].user]) \subseteq targets[t]
  /\ InCheckout(t, {"reserve", "enrol", "commit"}) =>
       /\ cart[req[t].user] = snap[t]
       /\ \A i \in Lines(snap[t]) : itemLock[i] = t

CartCovered == \A t \in Tx : CoveredBy(t)

\* points/service.rs BalanceLock: the balance read under the lock is the
\* balance, for as long as the transaction that prices with it runs.
SeenIsBalance(t) == \A u \in User : userLock[u] = t => seen[t] = balance[u]

BalanceNotStale == \A t \in Tx : SeenIsBalance(t)

\* Money: a balance is what the ledger says, order rows and order-less rows,
\* over any interleaving of purchases, refunds and adjustments.
Net(o) == ledger[o].earned - ledger[o].used + ledger[o].restored - ledger[o].clawed

BoughtBy(u) == {o \in Order : orders[o].buyer = u}

BalanceIsLedger == \A u \in User :
  balance[u] = adjusted[u] + SumFunctionOnSet([o \in Order |-> Net(o)], BoughtBy(u))

\* Refund is total and happens once: an order that ended has given back every
\* point, seat and subscription, and no other order has given back any point.
RefundIsTotal == \A o \in Order :
  IF orders[o].status \in Terminal
  THEN Net(o) = 0 /\ enrolled[o] = {} /\ granted[o] = {}
  ELSE ledger[o].restored = 0 /\ ledger[o].clawed = 0

\* No point is minted or lost: neither by two transactions that move one balance
\* nor by a walk through the status graph that compensates twice or not at all.
PointsConserved == BalanceIsLedger /\ RefundIsTotal

\* uniq_enrolments_active, never reached as an error: a buyer holds a course by
\* at most one order, whatever is bought, cancelled and refunded.
OneActiveEnrolment == \A o, r \in Order :
  o # r /\ orders[o].buyer = orders[r].buyer => enrolled[o] \cap enrolled[r] = {}

\* The promise of Idempotency-Key: one order per user and key, and the key
\* leads to it.
OneOrderPerKey == \A o \in Order :
  orders[o].key # NULL => idem[orders[o].buyer][orders[o].key] = o

\* A checkout answered with an order is answered with its own: the one its key
\* is recorded for, bought by its user.
AnswerIsOwnOrder == \A t \in Tx :
  InCheckout(t, {"done"}) /\ reply[t] # Rejected =>
    /\ orders[reply[t]].buyer = req[t].user
    /\ orders[reply[t]].key = req[t].key

\* orders/idempotency.rs: however twins and replays race, a key stands for one
\* order, and who sends it is answered with that order and no other.
KeysIdentifyOrders == OneOrderPerKey /\ AnswerIsOwnOrder

\* Where admins leave stock alone, what was bought and not given back is what
\* is missing from the shelf: refunds and crashes neither lose nor mint units.
TakenBy(p) == {o \in Order : orders[o].status \notin Terminal /\ p \in orders[o].decremented}

Out(p) == SumFunctionOnSet([o \in Order |-> orders[o].lines[p]], TakenBy(p))

StockConserved == \A p \in Product :
  InitStock[p] # NULL => stock[p] + Out(p) = InitStock[p]

\* Two buyers at the last unit, or one buyer twice at the same course: neither a
\* unit nor an enrolment is sold twice, nor given back twice.
NothingSoldTwice == StockConserved /\ OneActiveEnrolment

\* orders/locks.rs: checkout and refund "cannot form a cycle".  Nobody waits in
\* a ring for rows the others hold.
Blocker(t) ==
  CASE pc[t] = "lock_order" -> orderLock[req[t].order]
    [] pc[t] = "lock_user" -> userLock[Buyer(t)]
    [] pc[t] = "lock_items" /\ Unlocked(t) # {} ->
         itemLock[CHOOSE i \in Unlocked(t) : NextItem(t, i)]
    [] HoldsTargets(t) /\ IsCheckout(t) -> cartLock[req[t].user]
    [] OTHER -> NULL

NoWaitCycle == ~ \E S \in SUBSET Tx : S # {} /\ \A t \in S : Blocker(t) \in S

\* A step that gives away a seat leaves the course within its capacity, although
\* refunds and cancellations change the count without the course's lock and
\* admins change the capacity.
SeatsNotOversold ==
  [][\A c \in Course : Cardinality(ActiveIn(c)') > Cardinality(ActiveIn(c))
       => Cardinality(ActiveIn(c)') <= seats[c]']_vars

\* What is cleared from a cart by a purchase is what was bought, all of it, and
\* nothing inactive is bought.
PurchaseIsTheCart ==
  [][\A o \in Order : ~Used(o) /\ Used(o)' =>
       LET u == orders'[o].buyer IN
       /\ orders'[o].lines = cart[u] /\ cart'[u] = EmptyCart
       /\ \A i \in Lines(cart[u]) : onSale[i]]_vars

\* Every request received is answered, or lost with its worker.
Served == \A t \in Tx : pc[t] # "idle" ~> pc[t] = "idle"

\* orders/service.rs 186-188, on the delisting 422: "there is no winning twin
\* transaction to go replay here".  A checkout turned away for a delisted line
\* has a key no order is recorded for.
NoTwinBehindDelisting ==
  [][\A t \in Tx : HoldsTargets(t) /\ IsCheckout(t) /\ reply'[t] = Rejected
                     /\ ~AllOnSale(t) => ~Recorded(req[t].user, req[t].key)]_vars
=============================================================================
