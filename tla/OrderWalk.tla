----------------------------- MODULE OrderWalk -----------------------------
(***************************************************************************)
(* One order, priced, placed, walked through every sequence of requested   *)
(* statuses while the buyer's balance moves for other reasons: the rules   *)
(* of OrderRules against their reference definitions.                      *)
(***************************************************************************)
EXTENDS OrderRules

CONSTANTS Subtotals,      \* subtotals in cents
          CouponValues,   \* coupon values in cents, 0 for none
          MaxBalance      \* bound on the buyer's balance

ASSUME OrderAssumption == Subtotals \subseteq Nat /\ CouponValues \subseteq Nat /\ MaxBalance \in Nat

VARIABLES quote,          \* what the order was priced from: subtotal, coupon, balance, use
          status,         \* the order's status
          buyerBalance,   \* the buyer's balance
          undone          \* history: how many times the order was compensated

orderVars == <<quote, status, buyerBalance, undone>>

priced == price(quote.subtotal, quote.coupon, quote.balance, quote.use)

OrderInit ==
  /\ quote \in [subtotal : Subtotals, coupon : CouponValues, balance : 0..MaxBalance,
                use : BOOLEAN]
  /\ status = "paid"
  /\ buyerBalance = ledger_deltas(quote.balance, priced)
  /\ undone = 0

ChangeStatus(target) ==
  /\ UNCHANGED quote
  /\ \/ /\ decide_transition(status, target) = "flip"
        /\ status' = target
        /\ UNCHANGED <<buyerBalance, undone>>
     \/ /\ decide_transition(status, target) = "flip_and_compensate"
        /\ reversal_deltas(buyerBalance, priced) # Overdrawn
        /\ status' = target
        /\ buyerBalance' = reversal_deltas(buyerBalance, priced)
        /\ undone' = undone + 1

\* Another order, a reward or an admin moves the balance.
Elsewhere ==
  \E b \in 0..MaxBalance : buyerBalance' = b /\ UNCHANGED <<quote, status, undone>>

OrderNext == Elsewhere \/ \E target \in OrderStatus : ChangeStatus(target)

OrderSpec == OrderInit /\ [][OrderNext]_orderVars

-----------------------------------------------------------------------------
\* Pricing never charges a negative total, splits the subtotal exactly into
\* coupon, points and money, spends no point the buyer lacks and leaves none
\* unspent that could still pay (pricing.rs `price`); the points earned are the
\* nearest whole number to 5% of the whole-dollar total, halves up.
PriceIsExact ==
  LET nt == priced.total \div 100 IN
  /\ priced.total >= 0
  /\ priced.total + priced.discount + 100 * priced.used = quote.subtotal
  /\ 0 <= priced.used /\ priced.used <= quote.balance
  /\ quote.use => (priced.used = quote.balance \/ priced.total < 100)
  /\ 100 * priced.earned - 5 * nt <= 50
  /\ 5 * nt - 100 * priced.earned < 50

\* Placing the order never trips the balance CHECK, whichever rows it writes,
\* and moves the balance by exactly the order's net points.  A refund is refused
\* only when the balance, restored points included, cannot cover the points
\* earned; when accepted it takes back exactly those net points (points/model.rs
\* `ledger_deltas`, redeem before earn, and `reversal_deltas`, restore before
\* claw back).
DeltasAreExact ==
  /\ ledger_deltas(quote.balance, priced) = quote.balance - priced.used + priced.earned
  /\ ledger_deltas(quote.balance, priced) # Overdrawn
  /\ reversal_deltas(buyerBalance, priced) =
       IF buyerBalance + priced.used < priced.earned THEN Overdrawn
       ELSE buyerBalance + priced.used - priced.earned

\* The rules of an order hold together: its price and its points are exact, and
\* over any sequence of status changes it is compensated exactly once if it ends
\* cancelled or refunded and not at all otherwise (orders/refund.rs
\* `decide_transition', orders/pricing.rs, points/model.rs).
OrdersAddUp ==
  /\ PriceIsExact
  /\ DeltasAreExact
  /\ undone = (IF status \in Terminal THEN 1 ELSE 0)
=============================================================================
