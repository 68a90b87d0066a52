------------------------------ MODULE Reports ------------------------------
(***************************************************************************)
(* The admin report: a series of queries, one after the other and each     *)
(* with a snapshot of its own, all bound to the clock of the request's     *)
(* arrival, and then put together.  Orders, rentals and attendance change  *)
(* under it, and the studio's month may end while it runs.                 *)
(*                                                                         *)
(* A definition named Mut_X is a plausible wrong X, kept beside it to show *)
(* that the properties tell the two apart; nothing else uses it.           *)
(***************************************************************************)
EXTENDS Integers, Sequences, FiniteSets, Functions

CONSTANTS
  Customer, Order, Rental,
  Course, Coach, NoCoach,
  Basket,         \* per order: gross per source, what discount and points took off, method, course
  Hire,           \* per rental: the month of its slot and its price
  LastMonth,      \* bound: months are 1..LastMonth
  Window, Cohort, \* the months of the trend (12 in the code) and of the cohort (6)
  MaxWrites       \* bound on the writes to orders, rentals and attendance

\* A line of an order costs something or nothing; the trend holds at least this month and
\* the last.
ASSUME ReportAssumption ==
  /\ IsFiniteSet(Customer) /\ IsFiniteSet(Order)
  /\ \A o \in Order : /\ Basket[o].gross \in [{"course", "ticket", "membership"} -> Nat]
                        /\ Basket[o].off \in Int /\ Basket[o].course \in Course
  /\ IsFiniteSet(Coach) /\ NoCoach \notin Coach
  /\ LastMonth \in Nat \ {0} /\ Window \in Nat /\ Window >= 2 /\ Cohort \in Nat

VARIABLES
  nowMonth,       \* the studio's month
  ostatus, paidIn,    \* orders.status ("none" before the order), month of paid_at or 0
  rstatus,        \* bookings.status
  mark,           \* attendance by member and month of the session
  coachOf,        \* courses.coach_id, which may be NULL
  writes,
  asked, at,      \* the queries not run yet, in the code's order; the report's StudioNow
  inputs,         \* the answers so far
  response,       \* the report, once assembled
  quiet           \* nothing was written since the report began

books     == <<ostatus, paidIn, rstatus, mark, coachOf>>
reporting  == <<asked, at, inputs, response, quiet>>
reportVars == <<nowMonth, books, writes, reporting>>

REVENUE_STATUSES == {"paid", "processing", "completed"}
VENUE_REVENUE_STATUSES == {"confirmed", "completed"}
OrderSource == {"course", "ticket", "membership"}
IncomeSource == OrderSource \cup {"venue_rental"}
is_order_line(source) == source \in OrderSource

\* The reference for every money aggregate: the paid family, by month of payment.
Paid(months) == {o \in Order : ostatus[o] \in REVENUE_STATUSES /\ paidIn[o] \in months}
Gross(o) == SumFunction(Basket[o].gross)
total_cents(o) == Gross(o) - Basket[o].off

\* countable_attendance: leave is in neither count.
present(c) == {i \in 1..LastMonth : mark[<<c, i>>] = "present"}
marked(c) == {i \in 1..LastMonth : mark[<<c, i>>] \in {"present", "absent"}}
active(month) == {c \in Customer : month \in present(c)}

-----------------------------------------------------------------------------
\* The queries, each over the state it is run in.
revenue_trend(now) ==
  [i \in 1..Window |-> SumFunction([o \in Paid({now - Window + i}) |-> total_cents(o)])]

\* What the paid orders of some months sold of the courses that k is the coach of.
Taught(k, months) ==
  SumFunction([o \in {p \in Paid(months) : coachOf[Basket[p].course] = k} |-> Basket[o].gross["course"]])

\* A row per coach: the join leaves out a course without one.
coach_reports(now) == [k \in Coach |-> Taught(k, (now - Window + 1)..now)]

kpis(now) ==
  LET orders(month) == Cardinality(Paid({month}))
      rate(month) == [present |-> Cardinality(active(month)),
                      absent |-> Cardinality({c \in Customer : month \in marked(c) \ present(c)})]
  IN  [this |-> [paid |-> orders(now), rate |-> rate(now)],
       last |-> [paid |-> orders(now - 1), rate |-> rate(now - 1)]]

\* One cell per month and source, empty ones included.
income_by_source(now) ==
  [cell \in ((now - Window + 1)..now) \X IncomeSource |->
     LET month == cell[1]
         source == cell[2]
         events == IF is_order_line(source)
                   THEN {o \in Paid({month}) : Basket[o].gross[source] > 0}
                   ELSE {h \in Rental : rstatus[h] \in VENUE_REVENUE_STATUSES /\ Hire[h].month = month}
         amount(e) == IF is_order_line(source) THEN Basket[e].gross[source] ELSE Hire[e].price
     IN  [gross_cents |-> SumFunction([e \in events |-> amount(e)]), orders_count |-> Cardinality(events)]]

payment_split(now) ==
  LET of(method) == {o \in Paid({now}) : Basket[o].method = method}
  IN  [method \in {Basket[o].method : o \in Paid({now})} |-> Cardinality(of(method))]

\* The share of a member's marked sessions that were attended, in four bands.
Band(c) ==
  LET p == 100 * Cardinality(present(c))
      n == Cardinality(marked(c))
  IN  IF p >= 95 * n THEN "gte_95" ELSE IF p >= 85 * n THEN "85_94"
      ELSE IF p >= 75 * n THEN "75_84" ELSE "lt_75"
attendance_distribution ==
  [b \in {"gte_95", "85_94", "75_84", "lt_75"} |->
     Cardinality({c \in Customer : marked(c) # {} /\ Band(c) = b})]

retention(now) ==
  [month \in (now - Cohort + 1)..now |->
     LET first(c) == \A i \in present(c) : i >= month
     IN  [new_count |-> Cardinality({c \in active(month) : first(c)}),
          returning_count |-> Cardinality({c \in active(month) : ~first(c)}),
          prev_active_count |-> Cardinality(active(month - 1)),
          retained_count |-> Cardinality(active(month) \cap active(month - 1))]]

Answer(query, now) ==
  CASE query = "trend" -> revenue_trend(now)
    [] query = "coaches" -> coach_reports(now)
    [] query = "kpis" -> kpis(now)
    [] query = "income" -> income_by_source(now)
    [] query = "payment" -> payment_split(now)
    [] query = "bands" -> attendance_distribution
    [] query = "retention" -> retention(now)

\* In the order admin_report asks them.
Queries == <<"trend", "coaches", "kpis", "income", "payment", "bands", "retention">>

\* safe_ratio: a ratio over nothing is no ratio.
None == [of |-> 0, over |-> 0]
safe_ratio(n, d) == IF d = 0 THEN None ELSE [of |-> n, over |-> d]

assemble_admin_report(in, current) ==
  LET cents(source) == in["income"][<<current, source>>].gross_cents
      lines == SumFunction([s \in OrderSource |-> cents(s)])
      rows(sources) == {s \in sources : <<current, s>> \in DOMAIN in["income"]}
  IN  [this_month_cents |-> in["trend"][Window],
       last_month_cents |-> in["trend"][Window - 1],
       revenue_breakdown |-> [s \in rows(IncomeSource) |-> in["income"][<<current, s>>]],
       category_split |-> [s \in rows(OrderSource) |-> safe_ratio(cents(s), lines)],
       retention |-> [m \in DOMAIN in["retention"] |->
                        safe_ratio(in["retention"][m].retained_count,
                                   in["retention"][m].prev_active_count)]]

-----------------------------------------------------------------------------
NoReport == [q \in {Queries[i] : i \in 1..Len(Queries)} |-> None]

ReportInit ==
  /\ nowMonth \in 1..LastMonth
  /\ ostatus = [o \in Order |-> "none"] /\ paidIn = [o \in Order |-> 0]
  /\ rstatus = [h \in Rental |-> "none"]
  /\ mark \in [Customer \X (1..LastMonth) -> {"none", "present", "absent"}]
  /\ \A c \in Customer, m \in 1..LastMonth : m > nowMonth => mark[<<c, m>>] = "none"
  /\ coachOf \in [Course -> Coach \cup {NoCoach}]
  /\ writes = 0
  /\ asked = <<>> /\ at = 0 /\ inputs = NoReport /\ response = None /\ quiet = TRUE

\* admin_report samples the clock once.
Begin ==
  /\ at = 0 /\ at' = nowMonth /\ asked' = Queries /\ inputs' = NoReport /\ quiet' = TRUE
  /\ response' = None /\ UNCHANGED <<nowMonth, books, writes>>

Query ==
  /\ asked # <<>> /\ asked' = Tail(asked)
  /\ inputs' = [inputs EXCEPT ![Head(asked)] = Answer(Head(asked), at)]
  /\ UNCHANGED <<nowMonth, books, writes, at, response, quiet>>

Mut_Assemble ==
  /\ at # 0 /\ asked = <<>> /\ response = None
  /\ response' = assemble_admin_report(inputs, nowMonth)
  /\ UNCHANGED <<nowMonth, books, writes, asked, at, inputs, quiet>>
Assemble ==
  /\ at # 0 /\ asked = <<>> /\ response = None
  /\ response' = assemble_admin_report(inputs, at)
  /\ UNCHANGED <<nowMonth, books, writes, asked, at, inputs, quiet>>

-----------------------------------------------------------------------------
\* What the other modules write meanwhile.
Write ==
  /\ writes < MaxWrites /\ writes' = writes + 1 /\ quiet' = FALSE
  /\ UNCHANGED <<nowMonth, asked, at, inputs, response>>

Place(o) ==
  /\ ostatus[o] = "none" /\ ostatus' = [ostatus EXCEPT ![o] = "paid"]
  /\ paidIn' = [paidIn EXCEPT ![o] = nowMonth]
  /\ Write /\ UNCHANGED <<rstatus, mark, coachOf>>

\* A refund or a cancellation leaves paid_at as it is.
Refund(o) ==
  /\ ostatus[o] = "paid" /\ ostatus' = [ostatus EXCEPT ![o] = "refunded"]
  /\ Write /\ UNCHANGED <<paidIn, rstatus, mark, coachOf>>

Rent(h) ==
  /\ rstatus[h] # "cancelled" /\ Hire[h].month >= nowMonth
  /\ rstatus' = [rstatus EXCEPT ![h] = IF @ = "none" THEN "confirmed" ELSE "cancelled"]
  /\ Write /\ UNCHANGED <<ostatus, paidIn, mark, coachOf>>

Mark(c, to) ==
  /\ mark[<<c, nowMonth>>] # to /\ mark' = [mark EXCEPT ![<<c, nowMonth>>] = to]
  /\ Write /\ UNCHANGED <<ostatus, paidIn, rstatus, coachOf>>

\* update_course: coach_id may be set, changed and cleared.
AssignCoach(c, k) ==
  /\ coachOf[c] # k /\ coachOf' = [coachOf EXCEPT ![c] = k]
  /\ Write /\ UNCHANGED <<ostatus, paidIn, rstatus, mark>>

MonthEnds ==
  /\ nowMonth < LastMonth /\ nowMonth' = nowMonth + 1
  /\ UNCHANGED <<books, writes, reporting>>

ReportNext ==
  \/ Begin \/ Query \/ Assemble \/ MonthEnds
  \/ \E o \in Order : Place(o) \/ Refund(o)
  \/ \E h \in Rental : Rent(h)
  \/ \E c \in Customer, to \in {"present", "absent", "leave"} : Mark(c, to)
  \/ \E c \in Course, k \in Coach \cup {NoCoach} : AssignCoach(c, k)

ReportSpec == ReportInit /\ [][ReportNext]_reportVars

-----------------------------------------------------------------------------
\* service.rs `admin_report`: the report is of the month it was asked in and no source
\* is missing from it, however late its queries run; nobody is retained who was not
\* active the month before; and a report under which nothing changed reconciles: the
\* lines less what discounts and points took off are the revenue, the orders split by
\* method are the orders counted, the coaches' revenue and that of the courses without a
\* coach are the course income, and the cohorts and the bands count the active and the
\* marked members.
ReportReconciles ==
  response # None =>
    LET in == inputs
        cents(month, source) == in["income"][<<month, source>>].gross_cents
        order_lines(month) == SumFunction([s \in OrderSource |-> cents(month, s)])
        off(month) == SumFunction([o \in Paid({month}) |-> Basket[o].off])
        month_of(m) == in["retention"][m]
    IN  /\ DOMAIN response.revenue_breakdown = IncomeSource
        /\ DOMAIN response.category_split = OrderSource
        /\ \A m \in DOMAIN in["retention"] :
             month_of(m).retained_count <= month_of(m).prev_active_count
        /\ quiet =>
             /\ response.this_month_cents = order_lines(at) - off(at)
             /\ response.last_month_cents = order_lines(at - 1) - off(at - 1)
             /\ in["kpis"].this.paid = SumFunction(in["payment"])
             /\ SumFunction(in["coaches"]) + Taught(NoCoach, (at - Window + 1)..at)
                  = SumFunction([m \in (at - Window + 1)..at |-> cents(m, "course")])
             /\ \A m \in DOMAIN in["retention"] :
                  /\ month_of(m).retained_count <= month_of(m).returning_count
                  /\ m - 1 \in DOMAIN in["retention"] =>
                       month_of(m).prev_active_count
                         = month_of(m - 1).new_count + month_of(m - 1).returning_count
             /\ SumFunction(in["bands"]) = Cardinality({c \in Customer : marked(c) # {}})
=============================================================================
