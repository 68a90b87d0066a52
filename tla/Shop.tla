-------------------------------- MODULE Shop --------------------------------
(***************************************************************************)
(* The shop as its users are promised it: every request takes effect in    *)
(* one step or not at all.  The state is the tables that checkout and      *)
(* refund read and write; the operators that change several tables at once *)
(* (PlaceOrder, Compensate) are shared with Checkout, the specification    *)
(* that takes the row locks, so that only the interleaving differs.        *)
(***************************************************************************)
EXTENDS OrderRules, FiniteSets

CONSTANTS
  User, Product, Course, Key,
  Order,        \* order ids; UUID v7 values grow with time, so a set of numbers
  NULL,         \* SQL NULL: no key, unlimited stock, no order recorded yet
  MaxQty,       \* MAX_LINE_QUANTITY
  Entitled,     \* products of type membership or ticket: they grant a subscription
  Worth,        \* the subtotal, in cents, of every cart
  AskKey,       \* the keys checkouts are sent with, NULL for none
  AskPoints,    \* whether checkouts ask to spend points
  AskStatus,    \* the statuses admins ask for
  Coupons,      \* the discounts, in cents, checkouts ask for, 0 for no coupon
  InitStock,    \* the stock of each product at the start
  InitSeats,    \* max_students of each course at the start
  Deltas,       \* what an admin adjusts a balance by
  MaxBalance,   \* bound on the balance an adjustment leads to
  StockPatch,   \* what an admin sets a stock to
  SeatPatch,    \* what an admin sets max_students to
  Delistable,   \* the items an admin takes off sale and puts back
  Retypable     \* the products an admin turns into a time-based entitlement and back

Item  == Product \cup Course
Cart  == [Item -> 0..MaxQty]
Stock == Nat \cup {NULL}

ASSUME ShopAssumption ==
  /\ Order \subseteq Nat /\ IsFiniteSet(Order)
  /\ Item \subseteq Nat
  /\ \A p \in Product, c \in Course : p < c     \* products are locked before courses
  /\ NULL \notin Int \cup User \cup Key
  /\ MaxQty \in Nat \ {0}
  /\ Entitled \subseteq Product
  /\ Worth \in [Cart -> Nat]
  /\ AskKey \subseteq Key \cup {NULL}
  /\ AskPoints \subseteq BOOLEAN
  /\ AskStatus \subseteq OrderStatus
  /\ Coupons \subseteq Nat
  /\ InitStock \in [Product -> Stock]
  /\ InitSeats \in [Course -> Nat]
  /\ Deltas \subseteq Int \ {0}
  /\ MaxBalance \in Nat
  /\ StockPatch \subseteq Stock
  /\ SeatPatch \subseteq Nat
  /\ Delistable \subseteq Item
  /\ Retypable \subseteq Product

VARIABLES
  balance,    \* users.points_balance
  adjusted,   \* per user, the sum of the ledger rows that belong to no order
  cart,       \* cart_items: the quantity of each line, 0 for no line
  stock,      \* products.stock
  onSale,     \* products.is_active, courses.is_active
  timeBased,  \* the products that are a time-based entitlement
  seats,      \* courses.max_students
  orders,     \* orders and order_items
  ledger,     \* per order, the magnitudes of its point_ledger rows
  enrolled,   \* per order, the courses whose enrolment is active
  granted,    \* per order, the products whose subscription is not cancelled
  idem,       \* order_idempotency
  outbox      \* the events queued for Kafka

catalog   == <<stock, onSale, timeBased, seats>>
artifacts == <<orders, ledger, enrolled, granted>>
shopVars  == <<balance, adjusted, cart, stock, onSale, timeBased, seats,
               orders, ledger, enrolled, granted, idem, outbox>>

EmptyCart == [i \in Item |-> 0]
Lines(c)  == {i \in Item : c[i] > 0}

NoOrder  == [status |-> "none", buyer |-> NULL, key |-> NULL,
             lines |-> EmptyCart, decremented |-> {}]
NoPoints == [used |-> 0, earned |-> 0, restored |-> 0, clawed |-> 0]

OrderRow  == [status : OrderStatus \cup {"none"}, buyer : User \cup {NULL},
              key : Key \cup {NULL}, lines : Cart, decremented : SUBSET Product]
PointRows == [used : Nat, earned : Nat, restored : Nat, clawed : Nat]
Event     == Order \X (OrderStatus \cup {"created"})

ShopTypeOK ==
  /\ balance \in [User -> Nat]
  /\ adjusted \in [User -> Int]
  /\ cart \in [User -> Cart]
  /\ stock \in [Product -> Stock]
  /\ onSale \in [Item -> BOOLEAN]
  /\ timeBased \in SUBSET Product
  /\ seats \in [Course -> Nat]
  /\ orders \in [Order -> OrderRow]
  /\ ledger \in [Order -> PointRows]
  /\ enrolled \in [Order -> SUBSET Course]
  /\ granted \in [Order -> SUBSET Product]
  /\ idem \in [User -> [Key -> Order \cup {NULL}]]
  /\ outbox \in SUBSET Event

ShopInit ==
  /\ balance = [u \in User |-> 0]
  /\ adjusted = [u \in User |-> 0]
  /\ cart = [u \in User |-> EmptyCart]
  /\ stock = InitStock
  /\ onSale = [i \in Item |-> TRUE]
  /\ timeBased = {}
  /\ seats = InitSeats
  /\ orders = [o \in Order |-> NoOrder]
  /\ ledger = [o \in Order |-> NoPoints]
  /\ enrolled = [o \in Order |-> {}]
  /\ granted = [o \in Order |-> {}]
  /\ idem = [u \in User |-> [k \in Key |-> NULL]]
  /\ outbox = {}

-----------------------------------------------------------------------------
(* The rules a line, a seat and an order are judged by.                    *)

\* Product::ensure_line_quantity and Course::ensure_line_quantity.
LineAllowed(i, n) == n \in 1..MaxQty /\ (i \in timeBased \cup Course => n = 1)

InStock(p, n) == stock[p] # NULL => n <= stock[p]

\* Product::ensure_purchasable and Course::ensure_purchasable.
Purchasable(i, n) == onSale[i] /\ LineAllowed(i, n) /\ (i \in Product => InStock(i, n))

ActiveIn(c) == {o \in Order : c \in enrolled[o]}

is_full(c) == Cardinality(ActiveIn(c)) >= seats[c]

exists_active(u, c) == \E o \in ActiveIn(c) : orders[o].buyer = u

Used(o) == orders[o].status # "none"

\* The next order id.
NewOrder(o) == ~Used(o) /\ \A r \in Order : ~Used(r) => o <= r

Recorded(u, k) == k # NULL /\ idem[u][k] # NULL

-----------------------------------------------------------------------------
(* What a purchase, a status change and a refund write, all at once.       *)

Finite(ps) == {p \in ps : stock[p] # NULL}

\* A NULL stock stays NULL whichever way it moves.
StockMoved(ps, by) ==
  [p \in Product |-> IF p \in Finite(ps) THEN stock[p] + by[p] ELSE stock[p]]

\* Checkout of the lines l as order o, priced from the balance bal.  The two
\* ledger rows move the balance there is; the cart is cleared whole.
PlaceOrder(o, u, k, l, bal, use, coupon) ==
  LET q == price(Worth[l], coupon, bal, use)
      bought == Lines(l)
  IN
  /\ ledger_deltas(balance[u], q) # Overdrawn
  /\ balance' = [balance EXCEPT ![u] = ledger_deltas(balance[u], q)]
  /\ stock' = StockMoved(bought \cap Product, [p \in Product |-> -l[p]])
  /\ orders' = [orders EXCEPT ![o] =
       [status |-> "paid", buyer |-> u, key |-> k, lines |-> l,
        decremented |-> Finite(bought \cap Product)]]
  /\ ledger' = [ledger EXCEPT ![o] =
       [used |-> q.used, earned |-> q.earned, restored |-> 0, clawed |-> 0]]
  /\ enrolled' = [enrolled EXCEPT ![o] = bought \cap Course]
  /\ granted' = [granted EXCEPT ![o] = bought \cap Entitled]
  /\ cart' = [cart EXCEPT ![u] = EmptyCart]
  /\ idem' = IF k = NULL THEN idem ELSE [idem EXCEPT ![u][k] = o]
  /\ outbox' = outbox \cup {<<o, "created">>}
  /\ UNCHANGED <<adjusted, onSale, timeBased, seats>>

Flip(o, s) ==
  /\ orders' = [orders EXCEPT ![o].status = s]
  /\ outbox' = outbox \cup {<<o, s>>}
  /\ UNCHANGED <<balance, adjusted, cart, catalog, ledger, enrolled, granted, idem>>

CanReverse(o) == reversal_deltas(balance[orders[o].buyer], ledger[o]) # Overdrawn

\* Refund or cancellation of order o, restocking the products ps.
Compensate(o, s, ps) ==
  LET u == orders[o].buyer IN
  /\ CanReverse(o)
  /\ balance' = [balance EXCEPT ![u] = reversal_deltas(balance[u], ledger[o])]
  /\ ledger' = [ledger EXCEPT ![o].restored = ledger[o].used, ![o].clawed = ledger[o].earned]
  /\ stock' = StockMoved(ps, orders[o].lines)
  /\ enrolled' = [enrolled EXCEPT ![o] = {}]
  /\ granted' = [granted EXCEPT ![o] = {}]
  /\ orders' = [orders EXCEPT ![o].status = s]
  /\ outbox' = outbox \cup {<<o, s>>}
  /\ UNCHANGED <<adjusted, cart, onSale, timeBased, seats, idem>>

-----------------------------------------------------------------------------
(* The requests.                                                           *)

Buy(u, k, use, coupon) ==
  /\ ~Recorded(u, k)
  /\ Lines(cart[u]) # {}
  /\ \A i \in Lines(cart[u]) : Purchasable(i, cart[u][i])
  /\ \A c \in Lines(cart[u]) \cap Course : ~is_full(c) /\ ~exists_active(u, c)
  /\ \E o \in Order :
       NewOrder(o) /\ PlaceOrder(o, u, k, cart[u], balance[u], use, coupon)

UpdateOrderStatus(o, s) ==
  /\ Used(o)
  /\ \/ decide_transition(orders[o].status, s) = "flip" /\ Flip(o, s)
     \/ /\ decide_transition(orders[o].status, s) = "flip_and_compensate"
        /\ Compensate(o, s, orders[o].decremented)

\* A repeat add of a product merges into its line; the merged line is judged.
AddToCart(u, i, n) ==
  /\ i \in Course => cart[u][i] = 0
  /\ Purchasable(i, cart[u][i] + n)
  /\ cart' = [cart EXCEPT ![u][i] = cart[u][i] + n]
  /\ UNCHANGED <<balance, adjusted, catalog, artifacts, idem, outbox>>

UpdateQuantity(u, i, n) ==
  /\ cart[u][i] > 0
  /\ i \in Product /\ Purchasable(i, n)
  /\ cart' = [cart EXCEPT ![u][i] = n]
  /\ UNCHANGED <<balance, adjusted, catalog, artifacts, idem, outbox>>

RemoveItem(u, i) ==
  /\ cart[u][i] > 0
  /\ cart' = [cart EXCEPT ![u][i] = 0]
  /\ UNCHANGED <<balance, adjusted, catalog, artifacts, idem, outbox>>

ClearCart(u) ==
  /\ cart' = [cart EXCEPT ![u] = EmptyCart]
  /\ UNCHANGED <<balance, adjusted, catalog, artifacts, idem, outbox>>

AdjustPoints(u, delta) ==
  /\ balance[u] + delta \in 0..MaxBalance
  /\ balance' = [balance EXCEPT ![u] = balance[u] + delta]
  /\ adjusted' = [adjusted EXCEPT ![u] = adjusted[u] + delta]
  /\ UNCHANGED <<cart, catalog, artifacts, idem, outbox>>

CancelEnrolment(o, c) ==
  /\ c \in enrolled[o]
  /\ enrolled' = [enrolled EXCEPT ![o] = enrolled[o] \ {c}]
  /\ UNCHANGED <<balance, adjusted, cart, catalog, orders, ledger, granted, idem, outbox>>

\* PATCH /products: a stock is written as an absolute value.
PatchProduct(p) ==
  /\ \/ \E n \in StockPatch : stock' = [stock EXCEPT ![p] = n] /\ UNCHANGED <<onSale, timeBased>>
     \/ /\ p \in Delistable
        /\ onSale' = [onSale EXCEPT ![p] = ~onSale[p]]
        /\ UNCHANGED <<stock, timeBased>>
     \/ /\ p \in Retypable
        /\ timeBased' = (timeBased \cup {p}) \ (timeBased \cap {p})
        /\ UNCHANGED <<stock, onSale>>
  /\ UNCHANGED <<balance, adjusted, cart, seats, artifacts, idem, outbox>>

\* PATCH /courses: max_students is not judged against the active enrolments.
PatchCourse(c) ==
  /\ \E n \in SeatPatch : seats' = [seats EXCEPT ![c] = n]
  /\ UNCHANGED <<balance, adjusted, cart, stock, onSale, timeBased, artifacts, idem, outbox>>

\* No code under src/ writes courses.is_active: an operator does, by hand.
DelistCourse(c) ==
  /\ c \in Delistable
  /\ onSale' = [onSale EXCEPT ![c] = ~onSale[c]]
  /\ UNCHANGED <<balance, adjusted, cart, stock, timeBased, seats, artifacts, idem, outbox>>

ShopNext ==
  \/ \E u \in User, k \in AskKey, use \in AskPoints, d \in Coupons : Buy(u, k, use, d)
  \/ \E o \in Order, s \in AskStatus : UpdateOrderStatus(o, s)
  \/ \E u \in User, i \in Item, n \in 1..MaxQty : AddToCart(u, i, n) \/ UpdateQuantity(u, i, n)
  \/ \E u \in User, i \in Item : RemoveItem(u, i)
  \/ \E u \in User : ClearCart(u)
  \/ \E u \in User, d \in Deltas : AdjustPoints(u, d)
  \/ \E o \in Order, c \in Course : CancelEnrolment(o, c)
  \/ \E p \in Product : PatchProduct(p)
  \/ \E c \in Course : PatchCourse(c) \/ DelistCourse(c)

ShopSpec == ShopInit /\ [][ShopNext]_shopVars
=============================================================================
