---------------------------- MODULE StudioClock ----------------------------
(***************************************************************************)
(* The studio's wall clock (utils/studio_clock.rs) and the questions the   *)
(* rest of the program asks of it about one class: has it started, may     *)
(* leave still be asked for it, may attendance be marked, what state is it *)
(* shown in (sessions/model.rs), which day and which month is it.          *)
(*                                                                         *)
(* Instants and local times are numbers of hours.  The zone's offset is    *)
(* zero until `change`, then `shift`: forward, so that an hour never       *)
(* happens, or back, so that one happens twice.                            *)
(***************************************************************************)
EXTENDS Integers, FiniteSets

CONSTANTS
  Hours,         \* hours in a day
  MonthDays,     \* days in a month, the same for each
  Instants,      \* the instants told apart are 0..Instants
  Shifts         \* by how much the zone's offset may change

\* No zone has changed its offset by more than a day.
ASSUME ClockAssumption ==
  /\ Hours \in Nat \ {0} /\ MonthDays \in Nat \ {0} /\ Instants \in Nat
  /\ Shifts \subseteq -Hours..Hours

VARIABLES
  change,        \* the instant at which the offset changes
  shift,         \* by how much
  class,         \* the local date, start and end of the class
  now,           \* the instant
  shown          \* history: the states the class was shown in before

clockVars == <<change, shift, class, now, shown>>

local(n) == n + (IF n >= change THEN shift ELSE 0)

local_today == local(now) \div Hours
month_key == local_today \div MonthDays

NoInstant == -1                        \* a local time that names no instant, or two

to_utc(date, time) ==
  LET named == {n \in 0..Instants : local(n) = date * Hours + time} IN
  IF Cardinality(named) = 1 THEN CHOOSE n \in named : TRUE ELSE NoInstant

has_started == LET utc == to_utc(class.date, class.start) IN
               IF utc = NoInstant THEN "unknown" ELSE IF utc <= now THEN "yes" ELSE "no"
has_ended == LET utc == to_utc(class.date, class.end) IN
             IF utc = NoInstant THEN "unknown" ELSE IF utc <= now THEN "yes" ELSE "no"

\* The two gates, on the class's start: what each answers its caller.
to_utc_checked(date, time) ==
  [utc |-> to_utc(date, time), error |-> IF to_utc(date, time) = NoInstant THEN "ambiguous" ELSE "none"]
require_not_started ==
  LET at == to_utc_checked(class.date, class.start) IN
  IF at.error # "none" THEN at.error ELSE IF at.utc <= now THEN "started" ELSE "ok"
Mut_require_started ==
  LET at == to_utc_checked(class.date, class.start) IN
  IF at.error # "none" THEN at.error ELSE IF at.utc >= now THEN "not_started" ELSE "ok"
require_started ==
  LET at == to_utc_checked(class.date, class.start) IN
  IF at.error # "none" THEN at.error ELSE IF at.utc > now THEN "not_started" ELSE "ok"

\* SessionStatus::derive: the instants where they are known, else the dates.
derive ==
  CASE has_started = "no"                         -> "upcoming"
    [] has_started = "yes" /\ has_ended = "no"    -> "ongoing"
    [] has_started = "yes" /\ has_ended = "yes"   -> "done"
    [] OTHER -> CASE class.date < local_today  -> "done"
                  [] class.date > local_today  -> "upcoming"
                  [] class.date = local_today /\ has_started = "yes" -> "ongoing"
                  [] OTHER                 -> "upcoming"

month_bounds(month) == <<month * MonthDays, (month + 1) * MonthDays - 1>>

validate_time_window(start, end) == end > start

-----------------------------------------------------------------------------
ClockInit ==
  /\ shift \in Shifts
  /\ change \in Hours..(Instants - Hours)
  \* The class lies well inside the instants told apart.
  /\ \E date \in 1..(Instants \div Hours - 2) : \E start, end \in 0..(Hours - 1) :
       /\ validate_time_window(start, end)
       /\ class = [date |-> date, start |-> start, end |-> end]
  /\ now = 0
  /\ shown = {}

HourStrikes ==
  /\ now < Instants
  /\ now' = now + 1
  /\ shown' = shown \cup {derive}
  /\ UNCHANGED <<change, shift, class>>

ClockSpec == ClockInit /\ [][HourStrikes]_clockVars

-----------------------------------------------------------------------------
\* A change of the offset that sets the calendar itself back to yesterday.
DayRepeats == \E n \in 1..Instants : local(n) \div Hours < local(n - 1) \div Hours

\* What a class is shown as and what may be done about it agree at every
\* instant, in every zone: leave may be asked for exactly while attendance may
\* not be marked, a class whose start names one instant is "upcoming" exactly
\* while leave may be asked, and one whose start names none or two refuses both
\* for ever.  A class is never shown in an earlier state than before, unless
\* the zone sets the calendar back a day under a class whose own times are
\* ambiguous; and the day it is lies in the month it is.  (studio_clock.rs
\* `require_not_started`, `require_started`, `has_started`, `has_ended`,
\* `month_key`, `month_bounds`; sessions/model.rs `SessionStatus::derive`.)
GatesAgree ==
  /\ (require_not_started = "ambiguous") <=> (require_started = "ambiguous")
  /\ require_not_started # "ambiguous" => /\ (require_not_started = "ok") <=> (require_started # "ok")
                                          /\ (derive = "upcoming") <=> (require_not_started = "ok")
  /\ "done" \in shown => derive = "done" \/ DayRepeats
  /\ "ongoing" \in shown => derive # "upcoming" \/ DayRepeats
  /\ LET span == month_bounds(month_key) IN span[1] <= local_today /\ local_today <= span[2]
=============================================================================
