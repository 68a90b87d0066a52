----------------------------- MODULE OrderRules -----------------------------
(***************************************************************************)
(* The pure rules of the orders module: the status graph, what a status    *)
(* change has to undo, the price of a cart, and the points an order moves  *)
(* when it is placed and when it is refunded.  Money is in cents; a point  *)
(* is worth 100 cents.                                                     *)
(*                                                                         *)
(* A definition named Mut_X is a plausible wrong X, kept beside it to show *)
(* that the properties tell the two apart; nothing else uses it.           *)
(***************************************************************************)
EXTENDS Integers

OrderStatus == {"pending", "paid", "processing", "completed", "cancelled", "refunded"}

Transitions ==
  { <<"pending", "cancelled">>,
    <<"paid", "processing">>, <<"paid", "refunded">>, <<"paid", "cancelled">>,
    <<"processing", "completed">>, <<"processing", "refunded">>,
    <<"completed", "refunded">> }

can_transition_to(s, next) == <<s, next>> \in Transitions

is_revenue(s) == s \in {"paid", "processing", "completed"}

Terminal == {"cancelled", "refunded"}

compensation_required(s, next) == is_revenue(s) /\ next \in Terminal

\* What a request to move an order from s to next does.
decide_transition(s, next) ==
  IF s = next THEN "no_op"
  ELSE IF ~can_transition_to(s, next) THEN "illegal"
  ELSE IF compensation_required(s, next) THEN "flip_and_compensate"
  ELSE "flip"

-----------------------------------------------------------------------------
(* Pricing.  The subtotal is passed in; a discount of 0 is "no coupon".    *)

Least(a, b) == IF a <= b THEN a ELSE b

clamp_coupon_discount(coupon, subtotal) == Least(coupon, subtotal)

AfterCoupon(subtotal, coupon) == subtotal - clamp_coupon_discount(coupon, subtotal)

PointsUsed(subtotal, coupon, balance, usePoints) ==
  IF usePoints THEN Least(balance, AfterCoupon(subtotal, coupon) \div 100) ELSE 0

TotalCents(subtotal, coupon, balance, usePoints) ==
  AfterCoupon(subtotal, coupon) - 100 * PointsUsed(subtotal, coupon, balance, usePoints)

Mut_PointsEarned(total) == ((total \div 100) * 5) \div 100
\* Five per cent of the total in whole NT dollars, rounded to the nearest point.
PointsEarned(total) == ((total \div 100) * 5 + 50) \div 100

price(subtotal, coupon, balance, usePoints) ==
  LET total == TotalCents(subtotal, coupon, balance, usePoints) IN
  [ discount |-> clamp_coupon_discount(coupon, subtotal),
    used     |-> PointsUsed(subtotal, coupon, balance, usePoints),
    total    |-> total,
    earned   |-> PointsEarned(total) ]

-----------------------------------------------------------------------------
(* The balance after a sequence of two ledger rows, or Overdrawn when the  *)
(* CHECK on users.points_balance rejects one of them: it is evaluated row  *)
(* by row, so the order of the rows matters.                               *)

Overdrawn == -1

ApplyDelta(balance, delta) ==
  IF balance = Overdrawn \/ balance + delta < 0 THEN Overdrawn ELSE balance + delta

\* Redeem first, then earn.
ledger_deltas(balance, q) == ApplyDelta(ApplyDelta(balance, -q.used), q.earned)

\* Restore what was redeemed first, then claw back what was earned.
reversal_deltas(balance, q) == ApplyDelta(ApplyDelta(balance, q.used), -q.earned)
=============================================================================
