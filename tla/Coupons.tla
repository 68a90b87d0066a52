------------------------------ MODULE Coupons ------------------------------
(***************************************************************************)
(* Coupons: an admin's edits, the discount a member is told beforehand,    *)
(* and the one a checkout finds.  A code is written in several spellings   *)
(* that normalise to one.                                                  *)
(*                                                                         *)
(* A definition named Mut_X is a plausible wrong X, kept beside it to show *)
(* that the properties tell the two apart; nothing else uses it.           *)
(***************************************************************************)
EXTENDS OrderRules, FiniteSets, FiniteSetsExt

CONSTANTS
  Spelling, Code,              \* what people type, and what is stored
  Coupon,                      \* rows
  Never,                       \* expires_at IS NULL
  MaxHour, MaxDiscount, MaxChanges   \* bounds

NoCode == ""

ASSUME CouponAssumption ==
  /\ \A c, d \in Code : c # d => Spelling[c] \cap Spelling[d] = {}
  /\ NoCode \notin Code /\ \A c \in Code : NoCode \notin Spelling[c]
  /\ Never \notin Int /\ {MaxHour, MaxDiscount, MaxChanges} \subseteq Nat

VARIABLES
  hour,
  code, discount_cents, is_active, until,   \* the rows of coupons; code "" for no row
  changes,
  quoted                       \* the last quote a member was told, and when

couponRows == <<code, discount_cents, is_active, until>>
couponVars == <<hour, couponRows, changes, quoted>>

\* trim and uppercase.
normalize_code(s) == CHOOSE c \in Code : s \in Spelling[c]
Spellings == UNION {Spelling[c] : c \in Code}
NoQuote == [spelled |-> NoCode, subtotal |-> 0, hour |-> 0, changes |-> 0, found |-> FALSE,
            applied |-> 0]

CouponInit ==
  /\ hour = 0 /\ changes = 0 /\ quoted = NoQuote
  /\ code = [k \in Coupon |-> NoCode] /\ discount_cents = [k \in Coupon |-> 0]
  /\ is_active = [k \in Coupon |-> FALSE] /\ until = [k \in Coupon |-> Never]

Edited == changes < MaxChanges /\ changes' = changes + 1 /\ UNCHANGED <<hour, quoted>>

\* The unique index on the stored code turns a second one into a 409.
Mut_create_coupon(k, s, v, e) ==
  /\ code[k] = NoCode
  /\ code' = [code EXCEPT ![k] = normalize_code(s)]
  /\ discount_cents' = [discount_cents EXCEPT ![k] = v]
  /\ is_active' = [is_active EXCEPT ![k] = TRUE] /\ until' = [until EXCEPT ![k] = e]
  /\ Edited
create_coupon(k, s, v, e) ==
  /\ code[k] = NoCode /\ \A j \in Coupon : code[j] # normalize_code(s)
  /\ code' = [code EXCEPT ![k] = normalize_code(s)]
  /\ discount_cents' = [discount_cents EXCEPT ![k] = v]
  /\ is_active' = [is_active EXCEPT ![k] = TRUE] /\ until' = [until EXCEPT ![k] = e]
  /\ Edited

\* Only what the request names is set; an explicit null removes the expiry.
update_coupon(k, v, a, e) ==
  /\ code[k] # NoCode
  /\ discount_cents' = [discount_cents EXCEPT ![k] = v]
  /\ is_active' = [is_active EXCEPT ![k] = a] /\ until' = [until EXCEPT ![k] = e]
  /\ Edited /\ UNCHANGED code

delete_coupon(k) ==
  /\ code[k] # NoCode /\ code' = [code EXCEPT ![k] = NoCode]
  /\ Edited /\ UNCHANGED <<discount_cents, is_active, until>>

\* One statement, used by the quote and inside the checkout's transaction.
find_valid_by_code(s, now) ==
  {k \in Coupon : /\ code[k] = normalize_code(s) /\ is_active[k]
                  /\ until[k] = Never \/ until[k] > now}

\* validate_coupon; nothing is promised to a coupon that is not there.
validate_coupon(s, subtotal) ==
  LET found == find_valid_by_code(s, hour) IN
  /\ quoted' = [spelled |-> s, subtotal |-> subtotal, hour |-> hour, changes |-> changes,
                found |-> found # {},
                applied |-> IF found = {} THEN 0
                            ELSE clamp_coupon_discount(
                                   discount_cents[CHOOSE k \in found : TRUE], subtotal)]
  /\ UNCHANGED <<hour, couponRows, changes>>

HourPasses == hour < MaxHour /\ hour' = hour + 1 /\ UNCHANGED <<couponRows, changes, quoted>>

CouponNext ==
  \/ HourPasses
  \/ \E k \in Coupon : delete_coupon(k)
  \/ \E k \in Coupon, s \in Spellings, v \in 1..MaxDiscount, e \in 0..MaxHour \cup {Never} :
       create_coupon(k, s, v, e)
  \/ \E k \in Coupon, v \in 1..MaxDiscount, a \in BOOLEAN, e \in 0..MaxHour \cup {Never} :
       update_coupon(k, v, a, e)
  \/ \E s \in Spellings, subtotal \in 0..MaxDiscount : validate_coupon(s, subtotal)

CouponSpec == CouponInit /\ [][CouponNext]_couponVars

-----------------------------------------------------------------------------
\* The discount a checkout takes now, for the same spelling and subtotal.
Checkouts(s, subtotal) ==
  {clamp_coupon_discount(discount_cents[k], subtotal) : k \in find_valid_by_code(s, hour)}

\* coupons/service.rs `validate_coupon': whatever the edits, a spelling means one coupon;
\* and a member who was told a discount and checks out before an admin's next edit or the
\* coupon's expiry gets that discount, whichever of its spellings is typed then.
QuoteIsKept ==
  /\ \A s \in Spellings : Cardinality(find_valid_by_code(s, hour)) <= 1
  /\ quoted.spelled # NoCode /\ quoted.changes = changes =>
       \A s \in Spelling[normalize_code(quoted.spelled)] :
         IF ~quoted.found THEN Checkouts(s, quoted.subtotal) = {}
         ELSE \/ Checkouts(s, quoted.subtotal) = {quoted.applied}
              \/ Checkouts(s, quoted.subtotal) = {} /\ quoted.hour < hour
=============================================================================
