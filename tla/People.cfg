CONSTANTS
  \* access
  User = {ann}
  Role = {coach}
  Request = {r1, r2}
  ACTIVE_CACHE_TTL = 2
  ROLE_CACHE_TTL = 3
  MaxUnflushed = 2
  \* throttle
  Visit = {v1, v2}
  MaxRequests <- Thresholds
  WindowTicks <- Windows
  MaxOutages = 1
  MaxKnocks = 3
  \* otp
  Owner = {u1, u2}
  Phone = {p1, p2}
  NoPhone = NoPhone
  SettledOwner = u2
  Act = {a1, a2}
  OTP_REQUESTS_PER_HOUR = 1
  OTP_MAX_ATTEMPTS = 1
  OTP_TTL = 1
  OTP_RATE_TTL = 1
  MaxSent = 2
  MaxTries = 2
  \* registration
  Account = {x1, x2}
  Sub = {"s1"}
  Address = {"a", "b"}
  Login = {g1, g2}
  NoOne = NoOne
  Mails <- Verified
  MaxRemovals = 1
  \* conversations
  Talker = {t1, t2}
  Opening = {o1, o2}
  Sending = {s1, s2}
  NoTalker = NoTalker
  FirstTalker = t1
  MaxTime = 1
  MaxMessages = 2
  MaxRoleChanges = 1
  \* coaches
  Person = {"u1", "u2"}
  FirstCoach = "u1"
  Slug = {"s"}
  Hours <- HoursOf
  Desk = {"d1", "d2"}
  MaxWeeks = 3
  MaxShifts = 1
  MaxRevocations = 1
  \* seed
  Purchase = {"k1", "k2", "k3"}
  Buys <- Buys3
  Timeline <- Sliding
  Item = {"x", "y"}
  Catalog = {"c", "s1"}
  Courses <- SlotsOf1
  Removable = {"s1", "s2"}
  Pending <- Unpaid
  Inquiry <- Asked
  Holder = {"m", "t"}
  OpeningPoints <- Given
  Members <- Settled
  Target <- Balances2
  BookedByRule = {1}
  FirstSlot <- FromDay1
  LastDay = 2
  MaxRuns = 2
  MaxEdits = 1
  \* life
  Call = {c1, c2}
  SHUTDOWN_DEADLINE = 3
  DRAIN_BUDGET = 1
SPECIFICATION PeopleSpec
INVARIANTS
  OnlyKnownStaleness
  ThrottleHolds
  PhoneIsProven
  AccountsAreWhole
  OneConversation
  WeeksAreWhole
  SeedConverges
  ShutdownIsOrderly
PROPERTY DeactivationTakesEffect
CHECK_DEADLOCK FALSE
