------------------------------ MODULE Rewards ------------------------------
(***************************************************************************)
(* Points outside checkout: redeeming a reward, an admin's corrections of  *)
(* a balance, and the page a member reads.  A redemption locks the reward  *)
(* and then the member's row, and writes at its commit.  A ledger row      *)
(* bears the time its request arrived, not the time it was written.        *)
(*                                                                         *)
(* A definition named Mut_X is a plausible wrong X, kept beside it to show *)
(* that the properties tell the two apart; nothing else uses it.           *)
(***************************************************************************)
EXTENDS Integers, Sequences, Functions

CONSTANTS
  Saver, SpendTx, NoSaver,
  Unlimited,                         \* rewards.stock IS NULL
  MaxCost, MaxStock,
  MaxClock, MaxRows, MaxUpdates    \* bounds: time, rows of a ledger, edits of the reward

ASSUME RewardAssumption ==
  /\ NoSaver \notin Saver \cup SpendTx /\ Unlimited \notin Int
  /\ {MaxCost, MaxStock} \subseteq Nat

VARIABLES
  clock,
  stock, on_offer, cost,  \* the reward
  restocked,              \* the stock an admin last set, and the redemptions made by then
  balance,                \* users.points_balance
  ledger,                 \* per member, the rows in the order they were written
  redemptions,            \* reward_redemptions
  wpc, wreq,              \* where each request is, and what it asks
  page,                   \* what a member is being told, and from which snapshot
  updates

reward     == <<stock, on_offer, cost, restocked, updates>>
points     == <<balance, ledger, redemptions>>
rewardVars == <<clock, reward, points, wpc, wreq, page>>

NoWish == [by |-> NoSaver, now |-> 0, cost |-> 0]
NoPage == [of |-> NoSaver, rows |-> <<>>, balance |-> 0, told |-> FALSE]

RewardInit ==
  /\ clock = 0
  /\ stock \in 0..MaxStock \cup {Unlimited} /\ on_offer = TRUE /\ cost = 1
  /\ restocked = <<stock, 0>>
  /\ balance = [m \in Saver |-> 0] /\ ledger = [m \in Saver |-> <<>>] /\ redemptions = <<>>
  /\ wpc = [t \in SpendTx |-> "idle"] /\ wreq = [t \in SpendTx |-> NoWish]
  /\ page = NoPage /\ updates = 0

Tick == clock < MaxClock /\ clock' = clock + 1 /\ UNCHANGED <<reward, points, wpc, wreq, page>>

-----------------------------------------------------------------------------
RewardHeld(t) == \E u \in SpendTx \ {t} : wpc[u] \in {"user", "commit"}
MemberHeld(t, m) == \E u \in SpendTx \ {t} : wpc[u] = "commit" /\ wreq[u].by = m
Settle(t) == wpc' = [wpc EXCEPT ![t] = "idle"] /\ wreq' = [wreq EXCEPT ![t] = NoWish]
Refuse(t) == Settle(t) /\ UNCHANGED <<clock, reward, points, page>>

\* apply_delta_tx: the balance and its row go together.
Moved(m, delta, now) ==
  /\ balance' = [balance EXCEPT ![m] = @ + delta]
  /\ ledger' = [ledger EXCEPT ![m] = Append(@, [at |-> now, delta |-> delta])]
MayMove(m, delta) == balance[m] + delta >= 0 /\ Len(ledger[m]) < MaxRows

AskRedeem(t, m) ==
  /\ wpc[t] = "idle" /\ wpc' = [wpc EXCEPT ![t] = "reward"]
  /\ wreq' = [wreq EXCEPT ![t] = [by |-> m, now |-> clock, cost |-> 0]]
  /\ UNCHANGED <<clock, reward, points, page>>

\* lock_by_id_tx; the cost and the stock are those under the lock.
Mut_LockReward(t) ==
  /\ wpc[t] = "reward"
  /\ IF ~on_offer \/ stock = 0 THEN Refuse(t)
     ELSE /\ wreq' = [wreq EXCEPT ![t].cost = cost]
          /\ wpc' = [wpc EXCEPT ![t] = "user"] /\ UNCHANGED <<clock, reward, points, page>>
LockReward(t) ==
  /\ wpc[t] = "reward" /\ ~RewardHeld(t)
  /\ IF ~on_offer \/ stock = 0 THEN Refuse(t)
     ELSE /\ wreq' = [wreq EXCEPT ![t].cost = cost]
          /\ wpc' = [wpc EXCEPT ![t] = "user"] /\ UNCHANGED <<clock, reward, points, page>>

\* try_spend_tx compares under the member's lock.
try_spend_tx(t) ==
  /\ wpc[t] = "user" /\ ~MemberHeld(t, wreq[t].by)
  /\ IF ~MayMove(wreq[t].by, -wreq[t].cost) THEN Refuse(t)
     ELSE wpc' = [wpc EXCEPT ![t] = "commit"] /\ UNCHANGED <<clock, reward, points, wreq, page>>

\* The spend, the stock unless it is unlimited, and the redemption with its price.
CommitRedeem(t) ==
  /\ wpc[t] = "commit"
  /\ Moved(wreq[t].by, -wreq[t].cost, wreq[t].now)
  /\ stock' = IF stock = Unlimited THEN Unlimited ELSE stock - 1
  /\ redemptions' = Append(redemptions, [by |-> wreq[t].by, points_spent |-> wreq[t].cost])
  /\ Settle(t) /\ UNCHANGED <<clock, on_offer, cost, restocked, page, updates>>

Drop(t) == wpc[t] # "idle" /\ Refuse(t)

\* update: one statement that sets what the admin names; it waits for the row.
update(newStock, newActive, newCost) ==
  /\ updates < MaxUpdates /\ updates' = updates + 1 /\ ~RewardHeld(NoSaver)
  /\ stock' = newStock /\ on_offer' = newActive /\ cost' = newCost
  /\ restocked' = IF newStock = stock THEN restocked ELSE <<newStock, Len(redemptions)>>
  /\ UNCHANGED <<clock, points, wpc, wreq, page>>

\* Other requests that move points: what a checkout earns, a correction by an admin
\* against the balance it expects.  Each was sampled when it arrived.
Earn(m, now) ==
  /\ ~MemberHeld(NoSaver, m) /\ MayMove(m, 1) /\ Moved(m, 1, now)
  /\ UNCHANGED <<clock, reward, redemptions, wpc, wreq, page>>
adjust_points(m, delta, expected, now) ==
  /\ ~MemberHeld(NoSaver, m) /\ delta # 0 /\ balance[m] = expected /\ MayMove(m, delta)
  /\ Moved(m, delta, now)
  /\ UNCHANGED <<clock, reward, redemptions, wpc, wreq, page>>

-----------------------------------------------------------------------------
\* Rows are listed newest first, by the time of arrival and then by the order of writing.
Newer(rows, i, j) == rows[i].at > rows[j].at \/ (rows[i].at = rows[j].at /\ i > j)
Deltas(rows) == [i \in DOMAIN rows |-> rows[i].delta]
\* find_ledger_by_user: each row with the balance less all the newer rows moved.
find_ledger_by_user(now, rows) ==
  [i \in DOMAIN rows |->
     [at |-> rows[i].at, delta |-> rows[i].delta,
      balance_after |-> now - SumFunctionOnSet(Deltas(rows), {j \in DOMAIN rows : Newer(rows, j, i)})]]

\* get_my_points: the balance is read first, the ledger later, in one snapshot.
ReadBalance(m) ==
  /\ page.of = NoSaver
  /\ page' = [of |-> m, rows |-> ledger[m], balance |-> balance[m], told |-> FALSE]
  /\ UNCHANGED <<clock, reward, points, wpc, wreq>>
ReadLedger ==
  /\ page.of # NoSaver /\ ~page.told
  /\ page' = [page EXCEPT !.rows = find_ledger_by_user(page.balance, page.rows), !.told = TRUE]
  /\ UNCHANGED <<clock, reward, points, wpc, wreq>>
Answered == page.told /\ page' = NoPage /\ UNCHANGED <<clock, reward, points, wpc, wreq>>

RewardNext ==
  \/ Tick \/ ReadLedger \/ Answered \/ \E m \in Saver : ReadBalance(m)
  \/ \E t \in SpendTx : LockReward(t) \/ try_spend_tx(t) \/ CommitRedeem(t) \/ Drop(t)
                   \/ \E m \in Saver : AskRedeem(t, m)
  \/ \E m \in Saver, now \in 0..clock :
       Earn(m, now) \/ \E d \in {-1, 2}, e \in 0..MaxRows : adjust_points(m, d, e, now)
  \/ \E s \in 0..MaxStock \cup {Unlimited}, a \in BOOLEAN, c \in 1..MaxCost : update(s, a, c)

RewardSpec == RewardInit /\ [][RewardNext]_rewardVars

-----------------------------------------------------------------------------
Total(rows) == SumFunctionOnSet(Deltas(rows), DOMAIN rows)

\* rewards/service.rs `redeem': whoever redeems at once, no more is taken than was
\* stocked since an admin last said how many there are, no balance goes below zero, and
\* a request about to commit still finds the stock and the price it saw.
RewardsConserved ==
  /\ stock # Unlimited => stock >= 0 /\ stock = restocked[1] - (Len(redemptions) - restocked[2])
  /\ \A m \in Saver : balance[m] >= 0 /\ balance[m] = Total(ledger[m])
  /\ \A t \in SpendTx : wpc[t] = "commit" =>
       stock # 0 /\ wreq[t].cost = cost /\ wreq[t].cost <= balance[wreq[t].by]

\* points/repository.rs `find_ledger_by_user': a page of the ledger chains from the
\* balance told with it back to zero, whatever the order its rows were written in and
\* whatever commits while it is read.
LedgerChains ==
  page.told =>
    LET rows == page.rows
        follows(i, j) == /\ Newer(rows, j, i)
                         /\ \A k \in DOMAIN rows : ~(Newer(rows, j, k) /\ Newer(rows, k, i))
    IN
    /\ rows = <<>> => page.balance = 0
    /\ \A i \in DOMAIN rows :
         /\ (\A j \in DOMAIN rows : ~Newer(rows, j, i)) => rows[i].balance_after = page.balance
         /\ \A j \in DOMAIN rows : follows(i, j) =>
              rows[i].balance_after = rows[j].balance_after - rows[j].delta
         /\ (\A j \in DOMAIN rows : ~Newer(rows, i, j)) => rows[i].balance_after = rows[i].delta

\* What the rewards shop and the points page promise together.
RewardsHonoured == RewardsConserved /\ LedgerChains
=============================================================================
