------------------------------- MODULE Passes -------------------------------
(***************************************************************************)
(* Memberships and tickets: what a purchase grants, the sessions redeemed  *)
(* from it at the desk, its expiry, and its cancellation with its order.   *)
(* Each write is one statement on one row; a refused redemption is then    *)
(* explained from a second, later read.                                    *)
(*                                                                         *)
(* A definition named Mut_X is a plausible wrong X, kept beside it to show *)
(* that the properties tell the two apart; nothing else uses it.           *)
(***************************************************************************)
EXTENDS Integers, FiniteSets

CONSTANTS
  Pass, Desk, NoPass,
  Unbounded,                    \* an SQL NULL: no quota, or no expiry
  Half,                         \* an i32 ranges from -Half to Half - 1, scaled down
  MaxCount, MaxQuantity,        \* bounds: sessions of a pack, units of a line
  MaxDays, MaxDay               \* bounds: validity of a product, time

ASSUME PassAssumption ==
  /\ NoPass \notin Pass /\ Unbounded \notin Int
  /\ Half \in Nat \ {0} /\ {MaxCount, MaxQuantity, MaxDays, MaxDay} \subseteq Nat

VARIABLES
  day,
  cancelled, expires_at, total_sessions, remaining_sessions,  \* subscriptions
  used,                         \* history: the sessions redeemed
  desk,                         \* per clerk, the pass a refusal is being explained for
  told                          \* per pass, the last refusal told

rows     == <<cancelled, expires_at, total_sessions, remaining_sessions>>
passVars == <<day, rows, used, desk, told>>

Bought == {p \in Pass : total_sessions[p] # 0}
Wrap(n) == ((n + Half) % (2 * Half)) - Half

PassInit ==
  /\ day = 0 /\ cancelled = {} /\ used = [p \in Pass |-> 0]
  /\ expires_at = [p \in Pass |-> Unbounded]
  /\ total_sessions = [p \in Pass |-> 0] /\ remaining_sessions = [p \in Pass |-> 0]
  /\ desk = [d \in Desk |-> NoPass] /\ told = [p \in Pass |-> "nothing"]

-----------------------------------------------------------------------------
\* What a product with a pack of count sessions and a validity grants; Unbounded is
\* no quota.  ensure_line_quantity holds a time-based product to one unit.
ensure_line_quantity(count, valid_days, quantity) ==
  count = Unbounded /\ valid_days # Unbounded => quantity = 1
plan(count, valid_days, quantity) ==
  [total   |-> IF count = Unbounded THEN Unbounded ELSE Wrap(count * quantity),
   expires |-> IF valid_days = Unbounded THEN Unbounded ELSE day + valid_days]

\* grant_from_purchase_tx: the row's CHECK refuses a quota that is not positive, and the
\* purchase with it.
grant_from_purchase_tx(p, count, valid_days, quantity) ==
  LET grant == plan(count, valid_days, quantity) IN
  /\ p \notin Bought /\ ensure_line_quantity(count, valid_days, quantity)
  /\ grant.total # Unbounded => grant.total > 0
  /\ total_sessions' = [total_sessions EXCEPT ![p] = grant.total]
  /\ remaining_sessions' = [remaining_sessions EXCEPT ![p] = grant.total]
  /\ expires_at' = [expires_at EXCEPT ![p] = grant.expires]
  /\ UNCHANGED <<day, cancelled, used, desk, told>>

derived_status(p) ==
  IF p \in cancelled THEN "cancelled"
  ELSE IF \/ expires_at[p] # Unbounded /\ expires_at[p] <= day
          \/ remaining_sessions[p] = 0 THEN "expired"
  ELSE "active"

Mut_Redeemable(p) ==
  /\ p \notin cancelled /\ total_sessions[p] # Unbounded
  /\ ~(expires_at[p] # Unbounded /\ expires_at[p] <= day)
Redeemable(p) ==
  derived_status(p) = "active" /\ remaining_sessions[p] # Unbounded /\ remaining_sessions[p] > 0

\* redeem_one_session: one statement takes a session or matches no row.
redeem_one_session(d, p) ==
  /\ desk[d] = NoPass /\ p \in Bought
  /\ \/ /\ Redeemable(p)
        /\ remaining_sessions' = [remaining_sessions EXCEPT ![p] = @ - 1]
        /\ used' = [used EXCEPT ![p] = @ + 1]
        /\ UNCHANGED <<day, cancelled, expires_at, total_sessions, desk, told>>
     \/ ~Redeemable(p) /\ desk' = [desk EXCEPT ![d] = p] /\ UNCHANGED <<day, rows, used, told>>

\* The rest of redeem: what was matched by no row is read again, without a lock.
Explain(d) ==
  LET p == desk[d] IN
  /\ p # NoPass
  /\ told' = [told EXCEPT ![p] = IF remaining_sessions[p] = Unbounded THEN "no_quota"
                                 ELSE "not_redeemable"]
  /\ desk' = [desk EXCEPT ![d] = NoPass]
  /\ UNCHANGED <<day, rows, used>>

\* Every pass of the order, whatever is left of it.
cancel_by_order_tx(ps) ==
  /\ ps # {} /\ ps \subseteq Bought
  /\ cancelled' = cancelled \cup ps
  /\ UNCHANGED <<day, expires_at, total_sessions, remaining_sessions, used, desk, told>>

DayPasses == day < MaxDay /\ day' = day + 1 /\ UNCHANGED <<rows, used, desk, told>>

PassNext ==
  \/ DayPasses
  \/ \E d \in Desk : Explain(d) \/ \E p \in Pass : redeem_one_session(d, p)
  \/ \E ps \in SUBSET Pass : cancel_by_order_tx(ps)
  \/ \E p \in Pass, c \in 1..MaxCount \cup {Unbounded},
        v \in 1..MaxDays \cup {Unbounded}, q \in 1..MaxQuantity :
       grant_from_purchase_tx(p, c, v, q)

PassSpec == PassInit /\ [][PassNext]_passVars

-----------------------------------------------------------------------------
\* subscriptions/service.rs `redeem': however clerks, a refund and the expiry race, a pass
\* gives as many sessions as it was granted and no more, and a refusal is never out of
\* date: a pass once refused stays refused, for the reason told.
PassesHonoured ==
  \A p \in Bought :
    /\ total_sessions[p] # Unbounded =>
         /\ 0 <= remaining_sessions[p]
         /\ remaining_sessions[p] + used[p] = total_sessions[p]
    /\ total_sessions[p] = Unbounded => used[p] = 0
    /\ (told[p] # "nothing" \/ \E d \in Desk : desk[d] = p) => ~Redeemable(p)
    /\ told[p] # "nothing" =>
         (told[p] = "no_quota" <=> total_sessions[p] = Unbounded)
=============================================================================
