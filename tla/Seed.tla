-------------------------------- MODULE Seed --------------------------------
(***************************************************************************)
(* The seed binary: one script that fills a database with a dataset, most  *)
(* of it by buying through the real checkout.  It may die anywhere, and is *)
(* run again the same day or later, over whatever the app and its          *)
(* developers have changed meanwhile.  Each step is a transaction of its   *)
(* own, and has a key by which a later run knows it was taken.             *)
(*                                                                         *)
(* A definition named Mut_X is a plausible wrong X, kept beside it to show *)
(* that the properties tell the two apart; nothing else uses it.           *)
(***************************************************************************)
EXTENDS Integers, Sequences, FiniteSets, OrderRules

CONSTANTS
  Purchase, Buys,  \* what is bought, one key each: [buyer, lines, earns, enrols, target]
  Timeline,        \* per day of a run, what it buys, in order: [of, ts]
  Item,            \* what may lie in a cart
  Catalog, Courses, \* the rows to sell that have a key; the slots of each seed course
  Removable,       \* the rows the app can delete
  Pending, Inquiry, \* per day of a run, the orders left unpaid and what is asked
  Holder, OpeningPoints,       \* who is born, and with how many points
  Members, Target,             \* the members to settle, a sequence, and to what balance
  BookedByRule,    \* the dates whose rental slot the formula books
  FirstSlot,       \* per day of a run, the first date of its rental calendar
  LastDay,         \* bound on time; the slots and sessions are one per date in 1..LastDay
  MaxRuns, MaxEdits            \* bounds: runs of the seed, edits by the app

Dates == 1..LastDay
Slots == UNION {Courses[i] : i \in DOMAIN Courses}
Row == Catalog \cup Slots \cup UNION {Pending[d] \cup Inquiry[d] : d \in Dates}

\* The dataset slides with the day of the run, and dates a purchase no later than that
\* day (at_utc); who buys what under a key is the same in every run.
ASSUME SeedAssumption ==
  /\ Buys \in [Purchase -> [buyer : Holder, lines : SUBSET Item, earns : Nat, enrols : BOOLEAN,
                            target : {"paid", "completed", "refunded"}]]
  /\ Timeline \in [Dates -> Seq([of : Purchase, ts : Int])]
  /\ \A d \in Dates : \A i \in DOMAIN Timeline[d] : Timeline[d][i].ts <= d
  /\ OpeningPoints \in [Holder -> Nat] /\ Len(Courses) \in Nat /\ DOMAIN Courses = 1..Len(Courses)
  /\ Members \in Seq(Holder) /\ \A i \in DOMAIN Members : Target[Members[i]] \in Nat
  /\ LastDay \in Nat \ {0} /\ FirstSlot \in [Dates -> Dates]

VARIABLES
  date,            \* at.today() of a run is this day for all of the run
  runAt,           \* the day of the run under way
  script,          \* where it is: a stage, or "idle"
  nth,             \* the course, purchase, account or date it is at
  todo,            \* the rows its stage has still to insert
  seen, walked,    \* the status of its order as it knows it; the purchases it saw enrolled
  runs, touches,
  balances, rowsSum, \* users.points_balance, and the sum of the ledger
  opened,          \* history: per account, the opening grants; -1 for no account
  carts,           \* per account
  orderState, orderLines, orderCount, paidAt, steppedAt,   \* per purchase: its order
  marks,           \* attendance of purchase p on date d: "none", "seed" or "coach"
  rentals,         \* per date, the bookings of its slot: a set of [by, live]
  content,         \* per row: "none", or who wrote it, "seed" or "app"; a slot the app left
                   \* without a venue is "bare", and "filled" once the seed has filled that in
  wrote,           \* history: per row, what the app wrote last, "none" if it deleted it
  legacy,          \* an older seed filled this database, without keys on its orders
  undisturbed      \* the app changed nothing since the run began

seedOrders == <<orderState, orderLines, orderCount, paidAt, steppedAt>>
seedPoints == <<balances, rowsSum, opened>>
seedMemory == <<todo, seen, walked>>
seedRun    == <<runAt, script, nth, runs, undisturbed>>
seedRows   == <<content, wrote, legacy>>
seedVars   == <<date, seedRun, seedMemory, touches, seedPoints, carts, seedOrders, marks, rentals, seedRows>>

\* Slots of an installation that predates their venues have none.
SeedInit ==
  /\ date = 1 /\ runAt = 0 /\ script = "idle" /\ nth = 0 /\ runs = 0 /\ touches = 0
  /\ todo = {} /\ seen = "none" /\ walked = {}
  /\ balances = [a \in Holder |-> 0] /\ rowsSum = balances /\ opened = [a \in Holder |-> -1]
  /\ carts = [a \in Holder |-> {}]
  /\ orderState = [p \in Purchase |-> "none"] /\ orderLines = [p \in Purchase |-> {}]
  /\ orderCount = [p \in Purchase |-> 0] /\ paidAt = orderCount /\ steppedAt = orderCount
  /\ marks = [pd \in Purchase \X Dates |-> "none"] /\ rentals = [d \in Dates |-> {}]
  /\ \E old \in SUBSET Slots : wrote = [r \in Row |-> IF r \in old THEN "bare" ELSE "none"]
  /\ content = wrote /\ legacy \in BOOLEAN /\ undisturbed = FALSE

GoTo(s, i) == script' = s /\ nth' = i /\ UNCHANGED <<runAt, runs, undisturbed>>
ForgetRun == todo' = {} /\ seen' = "none" /\ walked' = {}
Grant(a, delta) ==
  /\ balances' = [balances EXCEPT ![a] = @ + delta]
  /\ rowsSum' = [rowsSum EXCEPT ![a] = @ + delta]
Stays == UNCHANGED <<date, touches, seedPoints, carts, seedOrders, marks, rentals, seedRows>>

\* A run starts, with one sample of the clock, unless refuse_legacy_seed_rows stops it; a
\* run may die at any point.
StartRun ==
  /\ script = "idle" /\ ~legacy /\ runs < MaxRuns /\ runs' = runs + 1
  /\ runAt' = date /\ script' = "accounts" /\ nth' = 1 /\ undisturbed' = TRUE
  /\ Stays /\ UNCHANGED seedMemory
DieRun == script \notin {"idle", "done"} /\ GoTo("idle", 0) /\ ForgetRun /\ Stays

Born(a) == opened[a] >= 0

\* upsert_account, all of them: a new row is granted its opening points with it.
upsert_account(a) ==
  /\ script = "accounts" /\ ~Born(a)
  /\ opened' = [opened EXCEPT ![a] = IF OpeningPoints[a] > 0 THEN 1 ELSE 0] /\ Grant(a, OpeningPoints[a])
  /\ UNCHANGED <<date, seedRun, seedMemory, touches, carts, seedOrders, marks, rentals, seedRows>>

\* The rows of a stage: one whose key is there is kept, whoever wrote it and whatever it
\* holds by now.
insert_if_absent ==
  /\ script \in {"catalog", "slots", "pending", "inquiry"}
  /\ \E r \in todo : /\ todo' = todo \ {r}
                      /\ content' = [content EXCEPT ![r] = IF @ = "none" THEN "seed" ELSE @]
  /\ UNCHANGED <<date, seedRun, seen, walked, touches, seedPoints, carts, seedOrders, marks, rentals,
                 wrote, legacy>>
GoOnTo(s, i, rows) == GoTo(s, i) /\ todo' = rows /\ UNCHANGED <<seen, walked>>
SlotsOf(i) == IF i \in DOMAIN Courses THEN Courses[i] \cap Catalog ELSE {}

\* What is sold but is no slot, here in one stage: no step reads the products, coupons or
\* venues, which the code adds after the slots, before the stages that follow.  Then, course
\* by course, its slots and the venues of all of its slots that have none; and the unpaid
\* orders.
AccountsReady ==
  /\ script = "accounts" /\ (\A a \in Holder : Born(a)) /\ GoOnTo("catalog", 1, Catalog \ Slots) /\ Stays
CatalogReady == script = "catalog" /\ todo = {} /\ GoOnTo("slots", 1, SlotsOf(1)) /\ Stays
BackfillVenues ==
  /\ script = "slots" /\ nth <= Len(Courses) /\ todo = {} /\ GoOnTo("slots", nth + 1, SlotsOf(nth + 1))
  /\ content' = [r \in Row |-> IF r \in Courses[nth] /\ content[r] = "bare" THEN "filled" ELSE content[r]]
  /\ UNCHANGED <<date, touches, seedPoints, carts, seedOrders, marks, rentals, wrote, legacy>>
SlotsReady == script = "slots" /\ nth > Len(Courses) /\ GoOnTo("pending", 1, Pending[runAt]) /\ Stays
PendingReady == script = "pending" /\ todo = {} /\ GoOnTo("replay", 1, {}) /\ Stays
-----------------------------------------------------------------------------
\* buy_and_walk.  First the replay, which says where the order is; a miss clears the cart,
\* fills it and checks out.
Purchases == Timeline[runAt]
Key == Purchases[nth].of
HasOrder(p) == orderCount[p] > 0
ReplayPurchase ==
  /\ script = "replay" /\ nth <= Len(Purchases) /\ GoTo(IF HasOrder(Key) THEN "walk" ELSE "clear", nth)
  /\ seen' = orderState[Key] /\ UNCHANGED <<todo, walked>> /\ Stays
AllBought == script = "replay" /\ nth > Len(Purchases) /\ GoTo("settle", 1) /\ UNCHANGED seedMemory /\ Stays
Mut_ClearCart ==
  /\ script = "clear" /\ GoTo("add", nth) /\ UNCHANGED seedMemory /\ Stays
ClearCart ==
  /\ script = "clear" /\ GoTo("add", nth) /\ carts' = [carts EXCEPT ![Buys[Key].buyer] = {}]
  /\ UNCHANGED <<date, seedMemory, touches, seedPoints, seedOrders, marks, rentals, seedRows>>
add_item(x) ==
  LET b == Buys[Key].buyer IN
  /\ script = "add" /\ x \in Buys[Key].lines \ carts[b]
  /\ carts' = [carts EXCEPT ![b] = @ \cup {x}]
  /\ UNCHANGED <<date, seedRun, seedMemory, touches, seedPoints, seedOrders, marks, rentals, seedRows>>
BuyCart ==
  LET p == Buys[Key]
      ts == Purchases[nth].ts
  IN
  /\ script = "add" /\ p.lines \subseteq carts[p.buyer] /\ GoTo("walk", nth)
  /\ orderState' = [orderState EXCEPT ![Key] = "paid"] /\ seen' = "paid"
  /\ orderLines' = [orderLines EXCEPT ![Key] = carts[p.buyer]]
  /\ orderCount' = [orderCount EXCEPT ![Key] = @ + 1]
  /\ paidAt' = [paidAt EXCEPT ![Key] = ts] /\ steppedAt' = [steppedAt EXCEPT ![Key] = ts]
  /\ carts' = [carts EXCEPT ![p.buyer] = {}] /\ Grant(p.buyer, p.earns)
  /\ UNCHANGED <<date, todo, walked, touches, opened, marks, rentals, seedRows>>

\* status_path: what follows a status on the way to the purchase's target, and how many
\* days after the payment.  A status that is off the path has nothing that follows.
Following(p, status) ==
  CASE Buys[p].target = "completed" /\ status = "paid" -> <<"processing", 1>>
    [] Buys[p].target = "completed" /\ status = "processing" -> <<"completed", 3>>
    [] Buys[p].target = "refunded" /\ status = "paid" -> <<"refunded", 3>>
    [] OTHER -> <<"none", 0>>
EarlierDay(a, b) == IF a < b THEN a ELSE b

\* update_order_status: what is undone takes the points of the purchase back.
Move(p, to, day) ==
  LET back == IF compensation_required(orderState[p], to) THEN Buys[p].earns ELSE 0 IN
  /\ can_transition_to(orderState[p], to) /\ balances[Buys[p].buyer] >= back /\ Grant(Buys[p].buyer, -back)
  /\ orderState' = [orderState EXCEPT ![p] = to] /\ steppedAt' = [steppedAt EXCEPT ![p] = day]

\* advance_status goes by the status it has seen.  Its steps, each a transaction, count
\* from the payment; one is refused if the order has been moved elsewhere or the balance is
\* short, which fails the run, and one that was taken meanwhile is nothing to do.
NextStatus == Following(Key, seen)[1]
advance_status ==
  /\ script = "walk" /\ NextStatus # "none" /\ seen' = NextStatus
  /\ Move(Key, NextStatus, EarlierDay(paidAt[Key] + Following(Key, seen)[2], runAt))
  /\ UNCHANGED <<date, seedRun, todo, walked, touches, opened, carts, orderLines, orderCount, paidAt,
                 marks, rentals, seedRows>>
StepWasTaken ==
  /\ script = "walk" /\ NextStatus # "none" /\ orderState[Key] = NextStatus /\ seen' = NextStatus
  /\ UNCHANGED <<seedRun, todo, walked>> /\ Stays
StepRefused ==
  /\ script = "walk" /\ NextStatus \notin {"none", orderState[Key]}
  /\ \/ ~can_transition_to(orderState[Key], NextStatus)
     \/ NextStatus = "refunded" /\ balances[Buys[Key].buyer] < Buys[Key].earns
  /\ GoTo("idle", 0) /\ ForgetRun /\ Stays

\* The enrolments of an order; a refund or a cancellation takes them away.
Enrols(p, status) == Buys[p].enrols /\ status \notin {"none", "refunded", "cancelled"}
WalkEnds ==
  /\ script = "walk" /\ NextStatus = "none" /\ GoTo("replay", nth + 1)
  /\ walked' = IF Enrols(Key, seen) THEN walked \cup {Key} ELSE walked
  /\ UNCHANGED <<todo, seen>> /\ Stays

-----------------------------------------------------------------------------
\* settle_members, one after the other: target less balance, under the member's lock.
SettleMember ==
  /\ script = "settle" /\ nth <= Len(Members) /\ GoTo("settle", nth + 1)
  /\ Grant(Members[nth], Target[Members[nth]] - balances[Members[nth]])
  /\ UNCHANGED <<date, seedMemory, touches, opened, carts, seedOrders, marks, rentals, seedRows>>
MembersSettled ==
  /\ script = "settle" /\ nth > Len(Members) /\ GoTo("mark", 1) /\ UNCHANGED seedMemory /\ Stays

\* mark_past_sessions: one statement, for the enrolments the walk saw, and a row that is
\* there is kept.
mark_past_sessions ==
  /\ script = "mark" /\ GoTo("rental", FirstSlot[runAt])
  /\ marks' = [pd \in Purchase \X Dates |->
                 IF pd[1] \in walked /\ pd[2] < runAt /\ marks[pd] = "none" THEN "seed" ELSE marks[pd]]
  /\ UNCHANGED <<date, seedMemory, touches, seedPoints, carts, seedOrders, rentals, seedRows>>

\* seed_rentals: the past slots of the calendar, by the formula on their date; one booking
\* at most, whoever holds it and in whatever state.
insert_booking_if_absent ==
  /\ script = "rental" /\ nth < runAt /\ GoTo("rental", nth + 1)
  /\ rentals' = IF nth \in BookedByRule /\ rentals[nth] = {}
                THEN [rentals EXCEPT ![nth] = {[by |-> "seed", live |-> TRUE]}] ELSE rentals
  /\ UNCHANGED <<date, seedMemory, touches, seedPoints, carts, seedOrders, marks, seedRows>>
RentalsReady == script = "rental" /\ nth >= runAt /\ GoOnTo("inquiry", 0, Inquiry[runAt]) /\ Stays
FinishRun == script = "inquiry" /\ todo = {} /\ GoOnTo("done", 0, {}) /\ Stays
ReportRun == script = "done" /\ GoTo("idle", 0) /\ ForgetRun /\ Stays

-----------------------------------------------------------------------------
\* What developers and the app do, during a run or between two: move an order, take or
\* give points, mark attendance again, book a slot that is to come, cancel a booking; and
\* write or delete a row, with or without a venue if it is a slot; leave a line in a cart,
\* though not in the one that a run is filling.
Edit == touches < MaxEdits /\ touches' = touches + 1 /\ undisturbed' = FALSE
        /\ UNCHANGED <<date, runAt, script, nth, runs, seedMemory, opened, orderLines, orderCount, paidAt>>

MoveOrder(p, to) ==
  Edit /\ Move(p, to, date) /\ UNCHANGED <<carts, marks, rentals, seedRows>>
AdjustPoints(a, delta) ==
  /\ Edit /\ Born(a) /\ balances[a] + delta >= 0 /\ Grant(a, delta)
  /\ UNCHANGED <<steppedAt, orderState, carts, marks, rentals, seedRows>>
Remark(p, d) ==
  /\ Edit /\ Enrols(p, orderState[p]) /\ d <= date /\ marks[<<p, d>>] # "coach"
  /\ marks' = [marks EXCEPT ![<<p, d>>] = "coach"]
  /\ UNCHANGED <<balances, rowsSum, steppedAt, orderState, carts, rentals, seedRows>>
BookOrCancel(d) ==
  /\ Edit
  /\ \/ /\ d >= date /\ \A b \in rentals[d] : ~b.live
        /\ rentals' = [rentals EXCEPT ![d] = @ \cup {[by |-> "app", live |-> TRUE]}]
     \/ \E b \in rentals[d] :
          b.live /\ rentals' = [rentals EXCEPT ![d] = (@ \ {b}) \cup {[b EXCEPT !.live = FALSE]}]
  /\ UNCHANGED <<balances, rowsSum, steppedAt, orderState, carts, marks, seedRows>>
LeaveInCart(a, x) ==
  /\ Edit /\ Born(a) /\ x \notin carts[a] /\ (script \in {"clear", "add"} => a # Buys[Key].buyer)
  /\ carts' = [carts EXCEPT ![a] = @ \cup {x}]
  /\ UNCHANGED <<balances, rowsSum, steppedAt, orderState, marks, rentals, seedRows>>
EditRow(r, as) ==
  /\ Edit /\ (as = "bare" => r \in Slots) /\ (as = "none" => r \in Removable /\ content[r] # "none")
  /\ content' = [content EXCEPT ![r] = as] /\ wrote' = [wrote EXCEPT ![r] = as]
  /\ UNCHANGED <<balances, rowsSum, steppedAt, orderState, carts, marks, rentals, legacy>>

NightFalls ==
  /\ date < LastDay /\ date' = date + 1
  /\ UNCHANGED <<seedRun, seedMemory, touches, seedPoints, carts, seedOrders, marks, rentals, seedRows>>

SeedNext ==
  \/ NightFalls \/ StartRun \/ DieRun \/ AccountsReady \/ insert_if_absent \/ CatalogReady
  \/ BackfillVenues \/ SlotsReady \/ PendingReady \/ ReplayPurchase \/ AllBought \/ ClearCart \/ BuyCart
  \/ advance_status \/ StepWasTaken \/ StepRefused \/ WalkEnds \/ SettleMember \/ MembersSettled
  \/ mark_past_sessions \/ insert_booking_if_absent \/ RentalsReady \/ FinishRun \/ ReportRun
  \/ \E a \in Holder : \/ upsert_account(a)
                        \/ \E delta \in {-1, 1} : AdjustPoints(a, delta)
                        \/ \E x \in Item : LeaveInCart(a, x)
  \/ \E x \in Item : add_item(x)
  \/ \E r \in Row, as \in {"app", "bare", "none"} : EditRow(r, as)
  \/ \E p \in Purchase, to \in OrderStatus : MoveOrder(p, to)
  \/ \E p \in Purchase, d \in Dates : Remark(p, d)
  \/ \E d \in Dates : BookOrCancel(d)

SeedSpec == SeedInit /\ [][SeedNext]_seedVars

-----------------------------------------------------------------------------
\* bin/seed/dataset.rs and its parts: however often a run dies and is run again, on that
\* day or a later one, and whatever the app does meanwhile, nothing is bought twice and
\* an order holds just its purchase's lines; opening points are granted once and balances
\* are what the ledger says; a step of an order is not dated before its payment or after
\* the clock; a slot the app has touched is not booked again; a row is what the app wrote
\* last, though the seed may have filled in a venue that was left out, and put back what was
\* deleted; what an older seed filled is left alone; and a run that nobody disturbed leaves
\* every row there and every slot with a venue, every order of its own timeline at its
\* target or off its path, every member at the target, and the past marked and booked as
\* the formulas say.
SeedConverges ==
  /\ \A p \in Purchase :
       /\ orderCount[p] <= 1
       /\ orderCount[p] = 1 => /\ orderLines[p] = Buys[p].lines
                               /\ steppedAt[p] \in paidAt[p]..date
  /\ \A a \in Holder : balances[a] = rowsSum[a] /\ balances[a] >= 0
                        /\ opened[a] <= 1 /\ (opened[a] = 1 <=> opened[a] >= 0 /\ OpeningPoints[a] > 0)
  /\ \A d \in Dates : /\ Cardinality({b \in rentals[d] : b.live}) <= 1
                      /\ \A b, c \in rentals[d] : b.by = "seed" => c = b
  /\ \A r \in Row : \/ content[r] = wrote[r]
                    \/ wrote[r] = "none" /\ content[r] = "seed"
                    \/ wrote[r] = "bare" /\ content[r] = "filled"
  /\ legacy => \A p \in Purchase : orderCount[p] = 0
  /\ script = "done" /\ undisturbed =>
       /\ \A r \in Catalog \cup Pending[runAt] \cup Inquiry[runAt] : content[r] # "none"
       /\ \A r \in Slots : content[r] # "bare"
       /\ \A i \in DOMAIN Purchases : LET p == Purchases[i].of IN
            orderCount[p] = 1 /\ Following(p, orderState[p])[1] = "none"
       /\ \A i \in DOMAIN Members : balances[Members[i]] = Target[Members[i]]
       /\ \A d \in Dates : d < runAt =>
            /\ d \in BookedByRule /\ d >= FirstSlot[runAt] => rentals[d] # {}
            /\ \A i \in DOMAIN Purchases : LET p == Purchases[i].of IN
                 Enrols(p, orderState[p]) => marks[<<p, d>>] # "none"
=============================================================================
