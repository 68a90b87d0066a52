----------------------------- MODULE MCCheckout -----------------------------
(***************************************************************************)
(* Checkout on small instances: items are numbered in lock order, products *)
(* first, and each costs 10 NT dollars a unit, so that one unit earns one  *)
(* point and one point spent on it earns none.                             *)
(***************************************************************************)
EXTENDS Checkout, TLC

CONSTANTS MaxStock, MaxSeats   \* the initial stock and seats of every row

MCWorth == [c \in Cart |-> 1000 * MapThenSumSet(LAMBDA i : c[i], Item)]

MCStock == [p \in Product |-> MaxStock]

MCSeats == [c \in Course |-> MaxSeats]

Symmetry == Permutations(Tx) \cup Permutations(Key) \cup Permutations(User)

MCSpend == {-1}   \* points spent elsewhere
=============================================================================
