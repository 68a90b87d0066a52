# A verification project for dream_fly_backend

dream_fly_backend is the server of a gym: a Rust/axum process over PostgreSQL,
Redis and Kafka.  Members fill a cart with products and courses and check it
out; admins move orders, refunds, leave requests and schedules along; events go
to Kafka through a transactional outbox.  The server keeps no state of its own
worth modelling: the state is in the tables, and what makes the system hard is
that many requests, each a database transaction, touch the same rows.

The development is TLA+ modules translated from the code under `src/`, TLC
configurations that check them on small instances, and proofs that the TLA+
proof system checks for instances of every size.  `PROJECT.json` maps every
definition to the lines it is translated from.

## The system's parts

Paths are under `src/src/modules/` unless they start with another directory.

| part | state | operations | what is hard, and what must hold |
|---|---|---|---|
| orders | `orders`, `order_items`, `order_idempotency` | checkout, change of status, refund as part of it | row locks in one order across five tables; twins with one key; a refund happens once and undoes everything |
| order rules | none | status graph, compensation, price, ledger deltas | rounding, clamping, the order of two ledger rows under a CHECK |
| cart | `cart_items` | add (merges), set quantity, remove, clear | changes while its owner's checkout runs |
| points | `users.points_balance`, `point_ledger` | lock, apply a delta, reverse an order, adjust, the member's page | balance equals ledger; a balance read is not spent stale; a page chains to the balance it is shown with |
| products, courses | `products`, `courses` | reserve, restock, patch; lock and count seats | stock is conserved; seats are not oversold; admins write absolute values |
| enrolments | `enrolments` | enrol on purchase, cancel | one active enrolment per buyer and course |
| subscriptions | `subscriptions` | grant on purchase, redeem a session, cancel | clerks, a refund and the expiry race; an `i32` product |
| coupons | `coupons` | create, edit, delete, validate | the discount told beforehand and the one the checkout takes |
| leave, makeup | `leave_requests` | ask, cancel, decide, book a makeup | decisions on stale context, seats of a session, lock order against refunds |
| attendance | `attendance_records` | mark a batch | marking against approval of leave |
| bookings, schedule | `bookings`, `schedule_slots` | book, cancel, create slots, close, open | the last place of a slot, cancelled twice, closed meanwhile |
| session calendar | `class_sessions` | materialize, replace the weekly schedule | a reader that inserts what an edit no longer wants |
| waitlist | `waitlist_entries` | join, cancel | a full course that is no longer full |
| rewards | `rewards`, points | redeem, edit | last unit and last points at once |
| reports | none | the admin report | a dozen queries over data that moves and a month that ends |
| studio clock | none | gates, derived status, days and months | hours that happen twice or never |
| auth | `refresh_tokens`, Redis keys | login, rotate, log out, deactivate, reset | reuse detection, deactivation against login and caches |
| accounts | `users`, `user_roles` | register, create, first sign-in with Google | lookups apart from the insert; who may be linked |
| one-time passwords | Redis keys, `users.phone` | send, check, consume | a code re-sent while an old one is checked |
| rate limits, lockout | Redis counters | count, refuse, clear | a store that fails between two calls; requests past the check |
| conversations | `conversations`, `messages` | open, send, read | one pair opened from both sides while roles change |
| coaches | `coaches`, `coach_schedules`, `coach_attendance` | create, edit, replace hours, clock in and out | replacements without a lock |
| outbox, consumer | `outbox_events`, `audit_log`, offsets | queue, claim, publish, retry; handle, commit | crashes, leases that run out, redelivery, order |
| process | settings, loops, pool | load, validate, start, stop | shutdown under a deadline, pool closed under nobody |
| seed binary | all of it | fill a database, again after dying | re-runs over what the app changed |
| notifications, settings, small CRUD modules, HTTP layer, codecs | | | single rows, reads or pure I/O; not modelled (reasons in `PROJECT.json`) |

They interact through tables.  Checkout calls points, products, courses,
enrolments, subscriptions, cart and the outbox inside one transaction, and a
refund calls the same owners to undo their part; leave and waitlist read
enrolments and seats; the access layer caches what users and sessions say.

## Modules

| module | what it is |
|---|---|
| `OrderRules` | the pure rules of `orders`: status graph, compensation, price, deltas |
| `Shop` | the shop as promised: every request is one step over the tables |
| `Checkout`, `MCCheckout` | checkout and status change as transactions with row locks; their instances |
| `Delivery` | what outbox and consumer promise together |
| `Topics` | the Kafka topics, which outbox and consumer share |
| `Outbox` | the outbox table, the dispatchers, the topics; time counts down |
| `AuditConsumer`, `MCConsumer` | the consumer loop; topics that grow under it |
| `EventPipeline`, `MCOutbox` | `Outbox` and `AuditConsumer` composed, as an implementation of `Delivery`; its instance |
| `Sessions`, `MCSessions` | refresh tokens as transactions with row locks; the instance, with the reset links beside it |
| `ResetTokens` | the reset links, one store call at a time |
| `Leave`, `MCLeave` | leave requests, makeups and attendance of one course; their instance |
| `OrderWalk` | one order through every status sequence: `OrderRules` against reference definitions |
| `StudioClock` | the wall clock around a change of the zone, and the gates that ask it |
| `Booking` | slots and bookings as transactions with row locks |
| `Calendar` | the weekly schedule and the sessions materialized from it |
| `Waitlist`, `Passes`, `Rewards`, `Coupons` | one component each |
| `Reports` | the admin report over orders, rentals and attendance that move |
| `MCStudio` | these nine side by side, for TLC |
| `AccessCache` | who may act, resolved through a cache |
| `Throttle`, `Otp` | the counters and the codes in Redis, one call at a time |
| `Registration` | the birth of an account, and its link to a Google identity |
| `Conversations`, `Coaches` | one component each |
| `Seed` | the seed binary, its keys and its re-runs |
| `Lifecycle` | the process, from its settings to the closing of its pool |
| `MCPeople` | these eight side by side, for TLC |
| `Checkout_proofs` | row locks protect: the inductive invariant of `Checkout` |
| `CheckoutOrders_proofs` | on it, what the tables of orders and enrolments promise, and that `Checkout` implements `Shop` |
| `EventPipeline_proofs` | the outbox, the consumer, and that the two take only steps of `Delivery` |
| `Sessions_proofs` | refresh tokens and reset links |
| `Leave_proofs` | leave requests, makeups, seats, and who waits for whom |
| `Studio_proofs` | bookings, orders, passes, waitlist, coupons, calendar, rewards, the clock, the report |
| `People_proofs` | process, codes, counters, accounts, conversations, coaches, the access cache, the seed |
| `SumTheorems` | sums over finite sets, which the accounts of orders, stock, rewards, reports and the seed are |

A definition `Mut_X` is a plausible wrong `X`, kept beside it: `PROJECT.json`
lists, for every property, a wrong definition that violates it.

### Shop and Checkout

`Shop` holds the tables and one action per request.  `Checkout` extends it with
the requests in flight (`pc`, `req`, `reply`), what each has read (`seen`,
`targets`, `snap`) and the row locks.  A checkout is:

| action | code |
|---|---|
| `ReceiveCheckout` | replay pre-check and parse, before the transaction |
| `LockUser` | `lock_balance_tx`: the buyer's row, and the balance read with it |
| `ReadTargets` | `find_checkout_targets_tx`: an unlocked read of the cart |
| `LockItem` (repeated) | `lock_products_tx`, then `lock_courses_tx`, ascending ids |
| `FindCartEmpty`, `FindDelisted`, `FindCouponInvalid`, `ReadCart` | the cart snapshot `FOR UPDATE` and the early returns in their order |
| `Reserve`, `Enrol` | the line, stock, seat and duplicate checks |
| `Commit` | all writes, the key's unique index, the outbox row, the commit |
| `Replay` | `replay_by_key` after the transaction ended |

A status change is `ReceiveStatus`, `LockOrder`, `Decide`, then `FlipStatus` or
`LockUser`, `ReadTargets`, `LockItem`, `Refund`.  `Crash` may end a transaction
anywhere: the database rolls it back.  Requests on one row (cart, catalog,
points, enrolment) are one step that waits for the locks PostgreSQL would make
it wait for: `FOR UPDATE` on `users` blocks the foreign-key check of a new cart
line, `FOR NO KEY UPDATE` on `products` does not, `FOR UPDATE` on `courses` does.

Abstractions, each with its reason:

- Writes of a transaction are applied at its commit.  Nobody else can see them
  before, and what it reads back of its own is either under its own lock or
  computed in the same action.
- The cart lines of a user share one lock: the snapshot locks all of them.
- A subtotal is a function of the cart (`Worth`); a coupon is a discount or
  found invalid, by choice, since its row is read without a lock.
- A line is judged and written in one step.  The code reads the product without
  a lock first; that window only lets in lines that checkout rejects again.
- Enrolments and subscriptions are sets per order; leave requests cancelled by a
  refund belong to `Leave`.
- Notifications after the commit, response assembly and logging are left out.

### Outbox, consumer and Delivery

`insert_event_tx` makes a row visible with the commit of its transaction.  A
dispatcher is `Claim` (one autocommit `UPDATE ... FOR UPDATE SKIP LOCKED` that
moves `next_attempt_at` a lease ahead), `PublishOk` / `PublishFail` per row until
`Deadline` (`timeout_at` of the budget), and `BeginBook`, `Book` (one transaction
for the outcome, with `NextAttempt` and `retry_delay`).  `Die` ends a dispatcher
anywhere.  Three facts of the code carry the model: the bookkeeping has no token
of the claim and writes the rows whoever owns them now; a send that was cut off
may still be taken by the broker (`LateSend`); and rows beyond the deadline just
keep their lease.  `next_attempt_at`, budget and bookkeeping count down together
in `Tick`.

`AuditConsumer` is `run`: `Pull`, the handler's three outcomes, `Backoff`, the
give-up at `LastAttempt`, `Commit` (which may fail silently), `Shutdown` and
`Exit`, `Crash` and `Start`.

Left open or bounded: which due rows a claim takes when there are more than
`BATCH_SIZE` (`ORDER BY next_attempt_at`); attempts are counted to `MaxAttempts`,
where the delay is capped, an assumption TLC evaluates; `MaxFaults` bounds
crashes and late sends, each of which may duplicate a record, since the topic
grows with them; the consumer group has one member.  Events the server queues
are never malformed (`PipelineAssumption`); the consumer alone is checked with
malformed records.

### Sessions, links, cache

`Sessions` has a row per refresh token: `row`, `parent`, `family`, `age`.

| action | code |
|---|---|
| `Verify`, `Stamp`, `Login` | a password login: judged on a copy, stamped, inserted |
| `GoogleUpsert`, `GoogleCommit` | a Google login, one transaction |
| `Present`, `Find`, `Refuse`, `EndFamily`, `Rotate` | `rotate`: `FOR SHARE` on the user, `FOR UPDATE` on the token, then its branches |
| `UpdateUser`, `EndAll`, `Reactivate`, `LockVictim`, `CommitEnd` | deactivation, reactivation and password reset: the `DELETE` of `end_all` takes the rows it saw one by one |
| `Logout`, `purge_expired`, `Expire` | one step each |

A token's age is 0 (valid), 1 (expired, inside the leeway of the JWT check: it
decodes, and it may be purged) or 2.  Users exist: registration and the linking
decision of Google login are in `Registration`.  `Token` and `MaxChanges` bound logins and
account changes.

`ResetTokens` is `issue` and `consume` one Redis call at a time, each of which
may fail; `raced` remembers the links issued or followed while another request
of the user ran, and a link whose name in the index the follower of an older one
erased.  `AccessCache` is `resolve` with its two entries per user, the
writes that leave an `AccessDirty`, and the `flush` it owes, which may come late,
fail, or be lost; `MaxUnflushed` bounds the writes whose flush is owed.

### Leave

One course.  `create_leave_request` is `AskLeave` (reads on the pool) and
`Insert` (with `uniq_leave_requests_active`); a decision is `AskDecision`,
`LockLeave`, `project_approved_leave`, `CommitDecision`; the cancellation of an
enrolment, by its owner or a refund, is `CancelEnrolment`, `CancelPending` per
request its `UPDATE` saw, `CommitCancel`; a makeup is `AskMakeup`, `LockSource`,
`LockTarget`, `CommitMakeup`; a marking is `AskMark`, `plan`, then `StartUpsert`
and `Upsert` per entry, `CommitMark`.  `StartUpsert` and `Upsert` are two steps
because the statement keeps its snapshot of `leave_requests` while it waits for
the attendance row: that is known gap 2 of ADR-0008.

Left out: who may do what, and the notification.  Who decides or marks has no
enrolment in the course, so the `users` row a decision refers to is never one a
refund locks.  Without that assumption there is a ring ADR-0008 does not
consider: a coach who decides a request of their own holds it and waits for
their `users` row, while a refund of their order holds that row and waits for
the request.  `absent` is `present`, a batch names a member once, and the
sessions of a course begin when they like.

### What the studio sells and schedules

`OrderWalk` prices an order, places it, and requests any status at any time while
the balance moves (`Elsewhere`).  `StudioClock` counts hours: the zone's offset is
zero until `change` and then `shift`, so that an hour never happens or happens
twice; `derive`, `require_started`, `require_not_started` and `month_key` answer at
every instant.  A derived status may go back only where the zone sets the calendar
itself back to yesterday; no zone of the studio does.

`Booking` has two transactions.  A booking is `AskBooking` (judged by the clock of
its arrival), `occupy_slot_tx` (the slot's row), `CountOccupied`,
`insert_occupying_booking_tx`; a cancellation is `AskCancellation`, `FindBooking`
(the booking's row), `CheckNotice`, `cancel_occupying_booking_tx`.
`create_slots`, `set_closed` and the passing of time (`StartNears`) are one step
each; `Abandon` ends a transaction anywhere.

`Calendar` is one course.  `SelectCandidates` and `InsertSessions` are the two
statements of a reader; `AskEdit`, `replace_slots_tx`, `UpdateFuture`,
`DeleteOrphans`, `CommitEdit` the transaction of an edit; `Refer` and
`CommitReference` leave and attendance that come in the meantime.  Two exceptions
of the code are kept in the open: a session selected before an edit and inserted
after it (`straddled`), and an edit asked for before midnight that reconciles
after it with its old idea of today (`lost`), although `calendar.rs` says that
today's sessions are never touched.

`Waitlist` is `FindCourse`, `ReadSeats`, `exists_waiting`, `InsertEntry`, each a
statement of its own, against purchases and edits of the course.  `Passes` is a
grant (the product of count and quantity wraps at the width of an `i32`, `-Half..Half-1`, in a
release build, and the database's CHECK refuses what is not positive; a grant of
999 units of a large pack is such a product, since the update of a product does
not bound its count as its creation does), the one-statement redemption, the read
that explains a refusal, and `cancel_by_order_tx`.  `Rewards` is a redemption under
the locks of reward and member, admin edits, and the page of the ledger, whose two
reads are of one snapshot while requests that arrived earlier commit later.
`Coupons` has two spellings of a code.  `Reports` runs its queries one by one, each
with its own snapshot, while orders, rentals, attendance and the coaches of courses
change; a report under which nothing changed must reconcile.  `courses.coach_id` may
be NULL and `coach_reports` joins on it, while the income table counts every course
line: what reconciles is the revenue of the coaches *and* that of the courses without
one (`Taught`), and an admin who adds up the report's coaches may get less than its
course income.  An order has one course line at most in the model.

### Who the people are, and the process

`Throttle` and `Otp` are the Redis keys one call at a time, any of which may fail
(the limits fail open, a code's calls end their request).  `INCR` and `EXPIRE` are
one script, so that a counter never lives for ever.  `Registration` keeps the
lookups of a Google sign-in apart from its transaction.  What it shows besides its
property: two first sign-ins of one person at once may both announce and welcome
the account, and a role removed between the lookup and the commit of a *creating*
sign-in comes back, which is why the last conjunct is about accounts already bound.
`Conversations` gives messages and the conversation's time the start of their
transaction, so `last_message_at` may go back when two sends commit in the other
order.  `Coaches` replaces hours without a lock: two replacements that do not
overlap leave the union of both, although the comment says that all are replaced;
`WeeksAreWhole` excuses only rows of replacements that ran beside the last.

`Seed` is the script with the key of each step, killed anywhere and run again the
same or a later day over what the app and its developers did.  The dataset slides with
the day of the run: what is bought (`Timeline`), left unpaid and asked is a function of
that day, while a key stands for the same purchase in every run.  Three things the
script does touch what is not its own, and the property says so: every run sets
missing venues in the slots of its courses (`BackfillVenues`), also in slots an admin
wrote without one; a row the app deleted is inserted again if it has a key; and every
run settles its members to their target, whatever was adjusted.  A refund by a developer
claws back the points of the purchase as `update_order_status` does, and a step of the
walk that finds the order moved elsewhere, or its buyer short of points, fails the run.
Assumed: one run is under way at a time, and nobody edits the cart it is filling; a
delisted product that fails `add_item` is a death of the run; a purchase earns the same
points whenever it is made; a course has at most one session a day.  The products,
coupons, rewards, posts and venues, which the code inserts after the slots, are one
stage with the courses (`Catalog`), as no step in between reads them.  `Lifecycle` is `load`, `validate`, the
start, three background loops, requests and mails, and the teardown under its
deadline.

## Runs

| run | instance | checks |
|---|---|---|
| `checkout_one_buyer` | one buyer, a product, a course, a key, two requests in flight | `CartCovered`, `BalanceNotStale`; `PointsConserved` (`BalanceIsLedger`, `RefundIsTotal`); `KeysIdentifyOrders` (`OneOrderPerKey`, `AnswerIsOwnOrder`); `PurchaseIsTheCart` |
| `checkout_two_buyers` | two buyers, a product, a course whose capacity changes, two requests | `NothingSoldTwice` (`StockConserved`, `OneActiveEnrolment`), `SeatsNotOversold`, `NoWaitCycle` |
| `checkout_live` | one order, catalog patched in every way, no symmetry, fairness | every request ends; `Checkout` implements `Shop` |
| `checkout_replay` | twins, a delisting | a comment of the code refuted, see below |
| `outbox_delivery` | two dispatchers, an event the broker refuses, one fault | no row is held twice, published means logged, `EventPipeline` implements `Delivery` |
| `audit_consumer` | two partitions of two records, malformed and duplicate ones | no offset passes an unresolved record or goes back; a shutdown completes |
| `sessions` | three tokens, two account changes, two requests; beside them four links of one user, two requests | `RotatedOnce`, `NoRotationPastDeactivation`; `TokensAnswerRight` (`ReplayIsRecognised`, `OldTokenIsPlain401`); `LinksHold` (`UsedOnce`, `NewestUnlessRaced`) |
| `sessions_login`, `sessions_reuse` | the same sessions | two comments of the code refuted, see below |
| `leave` | two members, two requests in flight, two rows; three sessions and makeups beside one session that is marked | `DecidedIsFinal`; `LeavesAgree` (`ApprovalWins`, `SeatsRespected`, `CancelledLeavesNone`, `RingsAreMarkings`) |
| `studio` | ten parts, one per behaviour | `OrdersAddUp`, `GatesAgree`, `BookingsHold`, `FutureFollowsSchedule`, `QueueIsFair`, `PassesHonoured`, `RewardsHonoured` (`RewardsConserved`, `LedgerChains`), `QuoteIsKept`, `ReportReconciles` |
| `people` | eight parts, one per behaviour, fairness in the part `access` | `OnlyKnownStaleness`, `DeactivationTakesEffect`, `ThrottleHolds`, `PhoneIsProven`, `AccountsAreWhole`, `OneConversation`, `WeeksAreWhole`, `SeedConverges`, `ShutdownIsOrderly` |

A property in the table that is a conjunction names its parts in brackets; each
part is a definition of its own with its own comment.

### Bounds of checkout, outbox, sessions and leave

Two requests in flight are what the races need: each hazard is a conflict of two
transactions, with one-row requests as a third party; a third transaction adds a
second waiter in a queue that is first come, first served.  Two order ids are
two purchases that overlap, refund and replay.  A line has quantity 1 (`MaxQty`); the
theorems are for any quantity.  `RoomForOrder` bounds checkouts by the ids left.
`AskKey`, `AskStatus`, `Coupons`, `Deltas`, `StockPatch`, `SeatPatch`,
`Delistable`, `Retypable` say which requests an instance sends, so that each run
spends its states on its own question: in `checkout_one_buyer` nothing is delisted, for
example, so that the part of `PurchaseIsTheCart` about delisted lines is met by
`checkout_live` (through `Shop`) and by the theorem `PurchasesAreCarts`.

The other instances are as small as their races allow.  Two dispatchers are
what a lost lease needs, one refused event is retried beside the good one
and does not keep it back, and one fault is a crash, a shutdown or a late send.  Two
partitions show that a
partition's offset moves without the other's.  A token, its successor and the
successor's successor, or a second login, are three tokens.  `sessions` explores
sessions and links side by side, one of them per behaviour: they meet only where
a followed link ends the sessions of its user, which `Sessions` has as a request
of its own.  `leave` does the same with makeups and marking, which meet in no
property: three sessions let one member's two makeups race for the last seat of
the third, and a purchase squeeze it; markings are of one session (`OneSession`)
with everybody enrolled, and one that marks `leave` marks nobody else
(`LeaveMarkedAlone`).

### The side-by-side runs `studio` and `people`

The parts of a side-by-side run share no table in the model: `part` is chosen at
the start and only that part's `Next` is taken, while the others stay at one
initial state.  The states are therefore the sum, not the product, of the parts',
and an invariant of one part is checked in all of its states.

| part | bounds and restrictions |
|---|---|
| orders | 13 boundary subtotals, 4 coupon values, balances 0 to 4, every status sequence |
| clock | days of 3 hours, months of 2 days, offsets of two hours either way, every class |
| booking | one slot of 1 or 2 places, two members, two requests, two rows, one closing; the first row is `Firstcomer`'s and rows are written in order (`BookingAlone`), which renames rows and members |
| calendar | two days of one weekday, two venues, a reader, one edit |
| waitlist | a course of one place, two members, two requests, three entries |
| passes | two passes, two desks, counts and quantities to 2 in integers from -4 to 3 (`Half` is 4), so that the product wraps |
| rewards, pages | two members, two redemptions, one unit; ledgers of two rows without a page (`RewardsAlone`), and of three with a page while nobody redeems (`PagesAlone`): a page only reads |
| coupons | two rows, two spellings of one code, two hours, three edits |
| reports | two members, two orders of different kinds, two courses of which one has a coach at first, two coaches, a rental, two months, two writes under the report |
| access | one user, two requests, lifetimes 2 and 3 |
| throttle | two requests in flight, thresholds 1 and 2, three requests per window, one failed call |
| otp | two users, two phones, two requests, two codes, two tries; one user is settled and only stands in the way, and the second code is tried once the first was counted (`OtpAlone`) |
| registration | two accounts, one Google identity with two addresses, two sign-ins, one role removed |
| conversations | two people, two openings, two sends; conversations are opened before anything is sent and roles change only then (`TalkAlone`), since sending needs only a conversation |
| coaches | two people, two desks, three replacements of one coach's hours, of entries that overlap or not; profiles change before hours are replaced (`CoachesAlone`), as the two tables do not refer to each other's columns |
| seed | three purchases, one refunded, one completed and one that only the second day's dataset has; a course with a slot of the seed and one of the app; two days, two runs, one edit by the app |
| life | two requests, every setting is loaded and validated, one goes on to serve (`LifeAlone`) |

### Fairness

`FairSpec` assumes weak fairness of the steps a transaction takes alone (its
worker keeps running it) and strong fairness of lock steps: PostgreSQL queues
the waiters of a row, so one passed over again and again is served.  No fairness
is assumed of clients, of `Crash` or of one-row requests.

`PipelineSpec` assumes that a dispatcher that runs takes its steps, that time
passes, that a broker which takes an event at all does not refuse it for ever,
and that the consumer's process takes its steps and is started again when it
stopped: the loops of `start_dispatcher` and `run`, and the supervisor of the
process.  Faults are bounded, not fair.  `PeopleSpec` assumes for the part
`access` what `AccessCache` assumes: requests are served and time passes, and
nothing of flushes.  All other modules state safety only, so that a request may
stop anywhere.

### What the code's comments promise and the code does not do

`orders/service.rs` 186-188 explains why the 422 for a delisted line is not
paired with a replay: there is "no winning twin transaction to go replay here".
`checkout_replay` shows one: both twins pass the pre-check, the first commits
and empties the cart, the buyer refills it, an admin delists the new item, and
the second twin, reading the cart only now, answers 422 although the key has an
order.  Sending the same key again finds it.

`auth/session.rs` 26 says a deactivated account gets no session on any issuing
path.  In `sessions_login` a password login reads the active flag, a
deactivation ends all sessions, and then the login inserts its row; the token is
useless while the account is inactive, and usable once it is reactivated.

`auth/session.rs` 22 says a replayed token revokes its whole family.  In
`sessions_reuse` the `DELETE` of the family takes its snapshot while the live
token is being rotated: rotations and the reuse branch both share the user's row,
so nothing orders them.  The `DELETE` waits for the old row and misses the one
the rotation inserts.

Two weaker promises are stated with their exception instead.  `reset_tokens.rs`
51 says issuing makes sure that only the newest link works.  Two requests at once
both read the index before either sets it, and both links work; and a link
followed late deletes an index that names a newer one by then, so that the next
issue voids nothing.  `NewestUnlessRaced` (in `LinksHold`) excuses both as `raced`.
`leave/rules.rs` lists pending requests inserted after the cancellation
committed; an insert that lands between the `UPDATE` of the cancellation and its
commit stays pending as well, which `CancelledLeavesNone` (in `LeavesAgree`)
excuses as `late`.

## Proofs

`Checkout_proofs` proves, for any users, items, orders, keys and number of
concurrent requests, that `Spec` implies

- `TypesHold`: `[]TypeOK`, in which balances and finite stocks are naturals;
- `CartStaysCovered`: `[]CartCovered`, the claim orders/locks.rs makes for
  reading the lock targets before locking them;
- `BalanceStaysFresh`: `[]BalanceNotStale`, the meaning of `BalanceLock`.

None of them is inductive.  The inductive invariant `Inv` says of every
transaction that its request is well formed for its label, that it holds the
locks its label implies, that what it read under a lock is still true, and that
what it is about to take from stock is there.  The argument is *row locks
protect*: lemma `Protected` shows a transaction stays consistent through any
step that leaves the rows it holds, its locals and its orders alone.  Each
action then only has to show that it leaves the other transactions' rows alone,
which is what its lock guard says, and that its own transaction reaches its
next label consistently.  The assumptions are `ShopAssumption` and
`CheckoutAssumption`: items are numbered, products below courses, `NULL` is
no id and no number, `Rejected` no order, requests are finitely many, bounds are
naturals.  TLC evaluates both in every run.

`CheckoutOrders_proofs` builds on `Inv`:

- `KeysStandForOrders`: `[]KeysIdentifyOrders`, one order per key and an answer of
  one's own;
- `EnrolledOnce`: `[]OneActiveEnrolment`;
- `SeatsHold`: `SeatsNotOversold`, an action property;
- `PurchasesAreCarts`: `PurchaseIsTheCart`, an action property;
- `CheckoutImplementsShop`: `Spec => ShopSpec`;
- `PointsAreConserved`: `[]PointsConserved`, every balance is the sum of its ledger
  and an order that ended is refunded in full;
- `NothingIsSoldTwice`: `[]NothingSoldTwice`, stock is conserved, provided
  `StockPatch = {}`: an admin who sets a stock anew breaks the sum, which is why the
  run of this property has no such patch, either;
- `NobodyWaitsInARing`: `[]NoWaitCycle`, the order of locks of orders/locks.rs.

Its invariant `OrdersInv` adds `Books` (a key points at an order of its user that
bears it, an order with a key is the one its key points at, no one is enrolled
twice, and an id not yet used is blank) and, of each request, `Found` (what it was
answered with is its own order; what it is about to buy is on sale, and what it
is about to enrol in is free).  The argument splits the
steps in two: the *mild* ones leave orders, keys and enrolments as they are or
only cancel, and one places an order, the commit, which is looked at alone.  The
unique index on the key is the guard of that step; the seat count was taken under
the course's row lock, which `Inv` says it still holds.

The refinement mapping of `CheckoutImplementsShop` is the identity: `Checkout`
extends `Shop`.  Every step of `Checkout` is one step of `Shop` or leaves the shop's
variables alone.  The commit of a checkout is the shop's `PlaceOrder` and the commit
of a refund its `Compensate`, since what each read under its locks is still so
(`Inv`), and since what the lines and the status were judged by has not changed
since (`ReadyInv`).  This module also needs that the ids of orders are a finite set
of numbers (`ShopAssumption`): cardinalities are of finite sets.

The accounts are sums over the orders of a buyer (`Accounts`) and over the orders
that hold stock (`Shelf`).  A step adds an order to such a set, takes one out, or
changes one summand; the lemmas of `SumTheorems` say what that does to the sum.
`SumFunctionOnSet` folds a set from an element `CHOOSE` picks, and the prover has no
induction scheme to instantiate, so `SumTheorems` shows that the choice does not
matter from a counterexample that is minimal among the subsets.  For the ring,
`Ascending` says that a transaction holds only rows that come before the one it
waits for: so of the transactions of a ring the one whose wait comes last waits
for a row that the next of them cannot hold.

`Leave_proofs` proves, for any finite sets of enrolments and rows, any sessions and
any requests (`LeaveAssumption`):

- `DecisionsStand`: `DecidedIsFinal`, an action property;
- `ApprovalsWin`, `NothingLeftPending`, `SeatsAreRespected`, `OnlyMarkingsRing`, and
  from the four `LeavesAlwaysAgree`: `[]LeavesAgree`.

`LeaveInv` says that a leave or an attendance row is locked by one transaction, that
what a transaction read of the leaves it holds is still so (`StillSo`), that a
cancellation has every pending leave of its enrolment behind it or before it
(`VictimsCaught`), and that what is about to be written over an approved leave is
already among the overwritten (`WritesAgree`).  The last is why a marking that saw
the approval is harmless: the row it waited for either says `leave`, and the
statement writes nothing, or was lost before.  `SeatInv` adds that a member has one
live leave for a session, so that a cancelled enrolment gives its seat back and frees
at most one less, and that whoever has counted a session's room keeps a seat of it.
`WaitInv` says who cancels and who is counting alone; then whoever is waited for
holds a leave, writes attendance, counts a room or cancels (`WhoBlocks`), and any
transactions that wait for one another have a ring of markings among them.

`EventPipeline_proofs`:

- `NoEventLost`: a row marked published is in its topic.  The invariant adds that
  what a dispatcher counts as sent is logged, and that topics only grow.
- `LeaseIsLongEnough`: no two dispatchers hold a row, from the assumption
  `LongLease` that the lease exceeds the budget plus the bookkeeping (the constants
  of the code satisfy it, and the run's do).  Its invariant bounds what is left of a
  claim by what is left of the lease of its rows.
- `OffsetsAreResolved` and `NoRewind`, of the consumer under topics that anybody
  writes to.  The invariant says that every record below the position is resolved
  but for the one at hand, and that the committed offset is never ahead of the
  position while the consumer runs.
- `PipelineDelivers`: the safety half of `KeepsPromise`.  Every step of outbox,
  topics and consumer is a step of `Delivery` or a stutter.  `PipelineInv` says that
  what is in the topic, or on its way there, was accepted and is publishable, and
  that the reader is within the topic.

`Sessions_proofs`, for any users, tokens and requests:

- `OneSuccessor`, `DeactivationWins` and the action property `ReturnedTokens`
  (`TokensAnswerRight`).  The invariant says that locks exclude each other, that what
  a transaction read under its lock still holds, that a rotated token is spent, and
  that a deactivation under way has every live rotated token of its user among the
  rows it is about to delete (`AllCaught`).
- `LinksAreGood`: `[]LinksHold` of the reset links (`LinkAssumption`).  A request is
  alone with the link it issues or has consumed (`LinkAlone`), and a link that works
  and was in no race is the one the index of its user names (`LinkIndex`) until a
  request that issues the next has voided it (`LinkGuard`).

`Studio_proofs`, one invariant per component:

| theorem | property | the invariant adds |
|---|---|---|
| `BookingsAreHeld` | `BookingsHold` | only a holder of the slot's row adds a booking to it and only a holder of a booking's row cancels it; what each saw is still so |
| `OrdersAlwaysAddUp` | `OrdersAddUp` | an order that ended was compensated once, and no other |
| `PassesAreHonoured` | `PassesHonoured` | a pass not sold is blank, a quota is a number or stays none; a wrapped product that is not positive is refused |
| `QueuesAreFair` | `QueueIsFair` | what a request to join has seen of the course is remembered since it asked |
| `QuotesAreKept` | `QuoteIsKept` | codes are distinct, and a quote stands until its coupon changes |
| `CalendarsFollowSchedules` | `FutureFollowsSchedule` | a reader no edit overtook holds the schedule's venues; what an edit that has looked will leave behind |
| `RewardsAreHonoured` | `RewardsHonoured` | one request holds the reward and knows its price and stock; a page was read at one instant; then the rows of any ledger chain from the balance told (`PagesChain`) |
| `ClockGatesAgree` | `GatesAgree` | only the types: what a class was shown as before is in the property |
| `ReportsReconcile` | `ReportReconciles` | every query either is pending or has answered what the books say, as long as nothing was written (`AnswersHold`) |

The clock needs a few lemmas on quotients: days grow with the instants
(`DaysGrow`), a class begun belongs to today or an earlier day (`BegunByToday`), and
an hour moves the day by one at most unless the zone jumps (`HourAdvances`).  That a
zone never changes its offset by more than a day is what the theorem assumes of it
(`ClockAssumption`); tzdata has no zone that does.

The report reconciles because each pair of its queries sums the same amounts in
another order: by order or by source (`TrendReconciles`, which exchanges the sums of
a table), by coach or by month (`CoachesReconcile`, which splits the paid orders in
two ways), by method (`MethodsReconcile`), by band, and newcomers with those who
return.  A query leaves out what counts nothing (`IncomeCell`).  None of it uses how
many orders, months or members there are.

`People_proofs`:

| theorem | property | the invariant adds |
|---|---|---|
| `ShutdownsAreOrderly` | `ShutdownIsOrderly` | how far the teardown is says which loops, requests and mails are over, and what time is spent |
| `PhonesAreProven` | `PhoneIsProven` | a code was drawn for one user and one phone, wherever it is (`Carried`); what is about to be verified was received |
| `LimitsHold` | `ThrottleHolds` | a counter lives as long as its window; while no failure is forgotten, the guesses counted and those under comparison stay below threshold and requests |
| `AccountsStayWhole` | `AccountsAreWhole` | what a sign-in under way has planned still fits (`LoginHolds`); a welcome given or owed was announced |
| `ConversationsAreOne` | `OneConversation` | an opening names two people until it is told of their conversation, and what is sent is between the two of one; an unread count is a sum over disjoint conversations |
| `WeeksStayWhole` | `WeeksAreWhole` | a replacement under way took away all or none of another's rows, and what it left was committed beside it; two under way touch nothing of each other's |
| `StalenessIsKnown` | `OnlyKnownStaleness` | what a request read from the database is fresh unless it is marked old |
| `SeedsConverge` | `SeedConverges` | an order holds its purchase's lines and was paid no later than the run's day (`OrdersHold`), and a cart being filled holds nothing else (`ScriptHolds`); which keys exist at each point of the script (`KeysHold`, `SlotsHold`); what an undisturbed run has finished so far, row by row, purchase by purchase and date by date (`RowsDone`, `OrdersDone`, `RestDone`) |

What these assume of the constants is named in the component's module
(`BookingAssumption`, `OrderAssumption`, `PassAssumption`, `WaitAssumption`,
`CouponAssumption`, `RewardAssumption`, `LifeAssumption`, `OtpAssumption`,
`ThrottleAssumption`, `RegAssumption`, `TalkAssumption`, `AccessAssumption`,
`ClockAssumption`, `ReportAssumption`, `SeedAssumption`): bounds
are naturals, the value that stands for none is no value, spellings belong to one
code and addresses to one identity, visits are finitely many, the drain ends before
the deadline, a report's trend holds this month and the last and the value for no coach
is no coach, the seed's lists are finite and no run buys anything dated after its own
day, as `at_utc` clamps.  TLC evaluates all of them.  Calendar and coaches need none.

### What the proofs changed

Two properties turned out false of more requests or links than the instances had, and
say now what holds of any number:

- `RingsAreMarkings` spoke of everybody who is stuck.  With three requests, one may be
  stuck *behind* a ring of markings without marking itself; the property is now that
  the markings among the stuck are stuck by themselves.
- `NewestUnlessRaced` was false with four links: the late follower described above.
  The run has four links since.

Two were put in a form that can be reasoned about: `LedgerChains` over the order the
query sorts by (`Newer`) instead of over a sorted page, and the inbox in
`OneConversation` peer by peer.

### What is only model-checked

Every invariant and every action property the runs check is a theorem.  What is left
to TLC is liveness: `Served`, `ShutdownCompletes`, `DeactivationTakesEffect` and the
liveness half of `KeepsPromise`.  The prover has no rules for fairness and `ENABLED`
here.

## What is left

1. The single-statement queries of `Reports` that have no sum to reconcile, and the
   reports of coach and member.
2. The compositions the side-by-side runs leave out: a followed reset link with
   `Sessions`, a purchase with `Passes`, a schedule edit with `Leave`.

Not modelled, with the reasons in `PROJECT.json`: notifications, user settings,
certificates, venues, posts and contact, the HTTP layer, mail, cryptography and
codecs.  They are one row per request, reads, or pure I/O, with no protocol
between requests for a model to be about.
