----------------------------- MODULE MCStudio ------------------------------
(***************************************************************************)
(* The rules and the small components of the studio, side by side for TLC: *)
(* a behaviour is one part's, chosen at the start, and the others stay at  *)
(* one of their initial states.  Nothing passes between the parts.         *)
(***************************************************************************)
EXTENDS OrderWalk, StudioClock, Booking, Calendar, Waitlist, Passes, Rewards,
        Coupons, Reports

CONSTANTS
  Firstcomer,                \* the member who books first in the part "booking"
  QuietSaver,                \* a member nobody gives points to in the part "pages"
  amy, l1, o1                \* model values

VARIABLE part

Part == {"orders", "clock", "booking", "calendar", "waitlist", "passes",
         "rewards", "pages", "coupons", "reports"}

\* What the parts are instantiated with, where a .cfg cannot say it.
ZoneShifts == -2..2
Spellings2 == [c \in Code |-> IF c = "A" THEN {"A", " a"} ELSE {c}]
Baskets ==
  [o \in Order |->
     IF o = o1
     THEN [gross |-> [course |-> 3, ticket |-> 2, membership |-> 0], off |-> 1,
           method |-> "cash", course |-> l1]
     ELSE [gross |-> [course |-> 1, ticket |-> 0, membership |-> 4], off |-> 0,
           method |-> "atm", course |-> CHOOSE l \in Course : l # l1]]
Hires == [h \in Rental |-> [month |-> 2, price |-> 5]]

\* A part that is not the one chosen starts in one state.
StudioInit ==
  /\ part \in Part
  /\ BookingInit /\ PassInit /\ CouponInit
  /\ OrderInit
  /\ part # "orders" =>
       quote = [subtotal |-> 0, coupon |-> 0, balance |-> 0, use |-> FALSE]
  /\ ClockInit
  /\ part # "clock" =>
       shift = 0 /\ change = Hours /\ class = [date |-> 1, start |-> 0, end |-> 1]
  /\ CalendarInit
  /\ part # "calendar" => schedule = [w \in Weekday |-> NoVenue]
  /\ WaitInit
  /\ part # "waitlist" => taken = Places
  /\ RewardInit
  /\ stock \in (IF part = "rewards" THEN {1, Unlimited} ELSE {1})
  /\ ReportInit
  /\ \A m \in DOMAIN mark : mark[m] # "absent"
  /\ part # "reports" => nowMonth = 1 /\ mark = [m \in DOMAIN mark |-> "none"]
  /\ coachOf = [l \in Course |-> IF l = l1 THEN amy ELSE NoCoach]

\* Rows are written in order, the first one by Firstcomer: which row and which of
\* the members it is changes nothing.
BookingAlone ==
  /\ BookingNext
  /\ \A b \in Rows' : member'[1] = Firstcomer /\ 1..b \subseteq Rows'

\* Redeeming is checked without the page that lists the points, on short
\* ledgers; the page is checked on longer ones, while nobody redeems.
RewardsAlone ==
  /\ RewardNext
  /\ page' = NoPage /\ clock' = 0 /\ \A m \in Saver : Len(ledger'[m]) <= 2
PagesAlone ==
  /\ RewardNext
  /\ UNCHANGED <<wpc, reward>> /\ ledger'[QuietSaver] = <<>> /\ page'.of # QuietSaver

StudioNext ==
  /\ UNCHANGED part
  /\ IF part = "orders"   THEN OrderNext    ELSE UNCHANGED orderVars
  /\ IF part = "clock"    THEN HourStrikes  ELSE UNCHANGED clockVars
  /\ IF part = "booking"  THEN BookingAlone ELSE UNCHANGED bookingVars
  /\ IF part = "calendar" THEN CalendarNext ELSE UNCHANGED calendarVars
  /\ IF part = "waitlist" THEN WaitNext     ELSE UNCHANGED waitVars
  /\ IF part = "passes"   THEN PassNext     ELSE UNCHANGED passVars
  /\ CASE part = "rewards" -> RewardsAlone
       [] part = "pages"   -> PagesAlone
       [] OTHER            -> UNCHANGED rewardVars
  /\ IF part = "coupons"  THEN CouponNext   ELSE UNCHANGED couponVars
  /\ IF part = "reports"  THEN ReportNext   ELSE UNCHANGED reportVars

studioVars == <<part, orderVars, clockVars, bookingVars, calendarVars, waitVars, passVars,
                rewardVars, couponVars, reportVars>>

StudioSpec == StudioInit /\ [][StudioNext]_studioVars

=============================================================================
