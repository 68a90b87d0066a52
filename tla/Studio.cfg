CONSTANTS
  \* orders
  Subtotals = {0, 50, 99, 100, 250, 899, 900, 999, 1000, 1050, 2900, 3000, 3100}
  CouponValues = {0, 100, 950, 5000}
  MaxBalance = 4
  \* clock
  Hours = 3
  MonthDays = 2
  Instants = 15
  Shifts <- ZoneShifts
  \* booking
  Slot = {s1}
  Renter = {m1, m2}
  Row = {1, 2}
  Firstcomer = m1
  BookTx = {t1, t2}
  NoRenter = NoRenter
  Clash = {}
  MaxCapacity = 2
  MaxClosings = 1
  \* calendar
  Reader = {r1}
  Venue = {v1, v2}
  NoVenue = NoVenue
  Days = 2
  Week = 1
  MaxEdits = 1
  \* waitlist
  Waiter = {w1, w2}
  Caller = {j1, j2}
  NoWaiter = NoWaiter
  Places = 1
  MaxEntries = 3
  \* passes
  Pass = {p1, p2}
  Desk = {d1, d2}
  NoPass = NoPass
  Half = 4
  Unbounded = Unbounded
  MaxCount = 2
  MaxQuantity = 2
  MaxDays = 1
  MaxDay = 1
  \* rewards and pages
  Saver = {q1, q2}
  QuietSaver = q2
  SpendTx = {x1, x2}
  NoSaver = NoSaver
  Unlimited = Unlimited
  MaxCost = 2
  MaxStock = 1
  MaxClock = 1
  MaxRows = 3
  MaxUpdates = 1
  \* coupons
  Spelling <- Spellings2
  Code = {"A"}
  Coupon = {k1, k2}
  MaxHour = 1
  Never = Never
  MaxDiscount = 2
  MaxChanges = 3
  \* reports
  Customer = {c1, c2}
  Order = {o1, o2}
  Rental = {h1}
  Course = {l1, l2}
  Coach = {amy, ben}
  NoCoach = NoCoach
  Basket <- Baskets
  Hire <- Hires
  LastMonth = 2
  Window = 2
  Cohort = 2
  MaxWrites = 2
  amy = amy
  l1 = l1
  o1 = o1
SPECIFICATION StudioSpec
INVARIANTS
  OrdersAddUp
  GatesAgree
  BookingsHold
  FutureFollowsSchedule
  QueueIsFair
  PassesHonoured
  RewardsHonoured
  QuoteIsKept
  ReportReconciles
CHECK_DEADLOCK FALSE
