------------------------------- MODULE Leave -------------------------------
(***************************************************************************)
(* Leave requests of one course and what they touch: a request is asked    *)
(* for, withdrawn, decided, and made up for in another session; enrolments *)
(* are cancelled or refunded under it; attendance is marked against it.    *)
(* Each request is a transaction that takes its row locks one at a time    *)
(* and whose writes show at its commit.  A statement that waits for a row  *)
(* goes on with the newest version of that row and with the old snapshot   *)
(* of everything else.                                                     *)
(*                                                                         *)
(* Who decides or marks has no enrolment in the course, so the users row   *)
(* that a decision or a mark refers to is never one a refund has locked.   *)
(*                                                                         *)
(* A definition named Mut_X is a plausible wrong X, kept beside it to show *)
(* that the properties tell the two apart; nothing else uses it.           *)
(***************************************************************************)
EXTENDS Integers, FiniteSets

CONSTANTS
  Enrolment, Session,
  Leave,          \* the rows of leave_requests there may be
  Tx,             \* the requests in flight at a time
  None,           \* no session, no leave, no enrolment
  max_students

\* Rows are finitely many, and no row is the missing one.
LeaveAssumption ==
  /\ IsFiniteSet(Enrolment) /\ IsFiniteSet(Leave) /\ max_students \in Nat
  /\ None \notin Session

ASSUME LeaveAssumption

VARIABLES
  enrolled,       \* enrolments.status, "none" for no row
  status,         \* leave_requests.status, "none" for no row
  of, session,    \* its enrolment and session
  makeup,         \* its makeup_session_id
  attendance,     \* attendance_records.status; "present" stands for "absent", too
  started,        \* the sessions that have begun
  pc, req,        \* where each request is, and what it asks
  sees,           \* whether its statement, when it started, saw an approved leave
  todo,           \* the rows its statement or its batch has yet to do
  held,           \* the leave rows it has locked
  wrote,          \* the attendance rows it has locked, with their new values
  squeezed,       \* history: the sessions with makeups when somebody enrolled
  overwritten,    \* history: the leaves marked over by a statement older than they
  late            \* history: the leaves inserted past their enrolment's cancellation

leaves    == <<status, of, session, makeup>>
locals    == <<pc, req, sees, todo, held, wrote>>
history   == <<squeezed, overwritten, late>>
leaveVars == <<enrolled, leaves, attendance, started, locals, history>>

Request == [kind : {"create", "cancel", "approve", "reject", "makeup", "mark"},
            enrolment : Enrolment \cup {None}, session : Session \cup {None},
            leave : Leave \cup {None}]
NoReq == [kind |-> "none", enrolment |-> None, session |-> None, leave |-> None]

Active(e) == enrolled[e] = "active"
Approved(s, e) == {l \in Leave : status[l] = "approved" /\ session[l] = s /\ of[l] = e}
NoWrites == [x \in {} |-> "present"]

TypeOK ==
  /\ enrolled \in [Enrolment -> {"none", "active", "cancelled"}]
  /\ status \in [Leave -> {"none", "pending", "approved", "rejected", "cancelled"}]
  /\ of \in [Leave -> Enrolment \cup {None}] /\ session \in [Leave -> Session \cup {None}]
  /\ makeup \in [Leave -> Session \cup {None}]
  /\ attendance \in [Session \X Enrolment -> {"none", "present", "leave"}]
  /\ started \subseteq Session
  /\ pc \in [Tx -> {"idle", "insert", "decide", "project", "decided", "source", "target",
                    "room", "cancel", "victims", "plan", "next", "upsert"}]
  /\ req \in [Tx -> Request \cup {NoReq}]
  /\ sees \in [Tx -> BOOLEAN]
  /\ \A t \in Tx : held[t] \subseteq Leave /\ DOMAIN wrote[t] \subseteq Session \X Enrolment
  /\ \A l \in Leave : status[l] # "none" => of[l] # None /\ session[l] # None
  /\ \A l \in Leave : makeup[l] # None => status[l] = "approved" /\ makeup[l] # session[l]

Taken == {e \in Enrolment : Active(e)}

Init ==
  /\ enrolled \in [Enrolment -> {"none", "active"}] /\ Cardinality(Taken) <= max_students
  /\ status = [l \in Leave |-> "none"] /\ of = [l \in Leave |-> None]
  /\ session = [l \in Leave |-> None] /\ makeup = [l \in Leave |-> None]
  /\ attendance = [x \in Session \X Enrolment |-> "none"]
  /\ started = {}
  /\ pc = [t \in Tx |-> "idle"] /\ req = [t \in Tx |-> NoReq] /\ sees = [t \in Tx |-> FALSE]
  /\ todo = [t \in Tx |-> {}] /\ held = [t \in Tx |-> {}] /\ wrote = [t \in Tx |-> NoWrites]
  /\ squeezed = {} /\ overwritten = {} /\ late = {}

-----------------------------------------------------------------------------
\* Row locks.  A makeup locks its target session FOR UPDATE; an insert that names
\* the session needs it FOR KEY SHARE.  Cancelling an enrolment changes no key, so
\* an insert that names the enrolment does not wait for it.
LeaveLocked(t, l) == {u \in Tx \ {t} : l \in held[u]}
RowLocked(t, x) == {u \in Tx \ {t} : x \in DOMAIN wrote[u]}
SessionLocked(t, s) == {u \in Tx \ {t} : pc[u] = "room" /\ req[u].session = s}
SessionShared(t, s) == {u \in Tx \ {t} : \E x \in DOMAIN wrote[u] : x[1] = s /\ attendance[x] = "none"}
EnrolmentLocked(t, e) == {u \in Tx \ {t} : pc[u] = "victims" /\ req[u].enrolment = e}
Database == <<enrolled, leaves, attendance, started, history>>
Goto(t, label) == pc' = [pc EXCEPT ![t] = label]

Begin(t, r, label) ==
  /\ pc[t] = "idle"
  /\ pc' = [pc EXCEPT ![t] = label]
  /\ req' = [req EXCEPT ![t] = r]
  /\ UNCHANGED <<sees, held, wrote, Database>>

\* The end of a transaction or of the request; every lock goes.
Finish(t) ==
  /\ pc' = [pc EXCEPT ![t] = "idle"] /\ req' = [req EXCEPT ![t] = NoReq]
  /\ sees' = [sees EXCEPT ![t] = FALSE] /\ todo' = [todo EXCEPT ![t] = {}]
  /\ held' = [held EXCEPT ![t] = {}] /\ wrote' = [wrote EXCEPT ![t] = NoWrites]

Rollback(t) == Finish(t) /\ UNCHANGED Database

-----------------------------------------------------------------------------
Unused == {l \in Leave : status[l] = "none"}

\* create_leave_request reads the session and the enrolment first, on the pool.
\* Bound: every request in flight has a row to insert.
AskLeave(t, e, s) ==
  /\ Active(e) /\ s \notin started
  /\ Cardinality({u \in Tx : pc[u] = "insert"}) < Cardinality(Unused)
  /\ Begin(t, [NoReq EXCEPT !.kind = "create", !.enrolment = e, !.session = s], "insert")
  /\ UNCHANGED todo

Live(e, s) == {l \in Leave : status[l] \in {"pending", "approved"} /\ of[l] = e /\ session[l] = s}
\* Whether the enrolment is cancelled, or a cancellation has passed its leaves.
Past(e) == enrolled[e] = "cancelled" \/ \E u \in Tx : pc[u] = "victims" /\ req[u].enrolment = e

\* The INSERT; uniq_leave_requests_active waits for a transaction that is changing
\* the row in the way.
Insert(t) ==
  LET r == req[t]
      inTheWay == Live(r.enrolment, r.session)
  IN /\ pc[t] = "insert" /\ SessionLocked(t, r.session) = {}
     /\ \A x \in inTheWay : LeaveLocked(t, x) = {}
     /\ \/ inTheWay # {} /\ Rollback(t)
        \/ \E l \in Unused :
             /\ inTheWay = {}
             /\ status' = [status EXCEPT ![l] = "pending"]
             /\ of' = [of EXCEPT ![l] = r.enrolment] /\ session' = [session EXCEPT ![l] = r.session]
             /\ late' = IF Past(r.enrolment) THEN late \cup {l} ELSE late
             /\ UNCHANGED <<makeup, enrolled, attendance, started, squeezed, overwritten>>
             /\ Finish(t)

\* cancel_leave_request locks its row and does nothing else.
cancel_leave_request(l) ==
  /\ \A u \in Tx : l \notin held[u]
  /\ status[l] = "pending"
  /\ status' = [status EXCEPT ![l] = "cancelled"]
  /\ UNCHANGED <<enrolled, of, session, makeup, attendance, started, locals, history>>

-----------------------------------------------------------------------------
\* decide_leave_request: the context is read on the pool; check_decidable.
AskDecision(t, l, kind) ==
  /\ status[l] = "pending" /\ (kind = "approve" => Active(of[l]))
  /\ Begin(t, [NoReq EXCEPT !.kind = kind, !.leave = l], "decide")
  /\ UNCHANGED todo

AfterLock(t) == IF req[t].kind = "approve" THEN "project" ELSE "decided"

Mut_LockLeave(t) ==
  LET l == req[t].leave
  IN /\ pc[t] = "decide" /\ LeaveLocked(t, l) = {}
     /\ Goto(t, AfterLock(t)) /\ held' = [held EXCEPT ![t] = {l}]
     /\ UNCHANGED <<req, sees, todo, wrote, Database>>
\* UPDATE ... WHERE status = 'pending'.
LockLeave(t) ==
  LET l == req[t].leave
  IN /\ pc[t] = "decide" /\ LeaveLocked(t, l) = {}
     /\ IF status[l] # "pending" THEN Rollback(t)
        ELSE /\ Goto(t, AfterLock(t)) /\ held' = [held EXCEPT ![t] = {l}]
             /\ UNCHANGED <<req, sees, todo, wrote, Database>>

\* A row of attendance can be written: nobody else is at it, and if it is new,
\* nobody has locked the session its foreign key names.
Writable(t, x) ==
  /\ RowLocked(t, x) = {}
  /\ attendance[x] = "none" => SessionLocked(t, x[1]) = {}

Write(t, x, v) ==
  wrote' = [wrote EXCEPT ![t] = [y \in DOMAIN wrote[t] \cup {x} |-> IF y = x THEN v ELSE wrote[t][y]]]

\* project_approved_leave_tx: writing `leave' passes the guard of the upsert.
project_approved_leave(t) ==
  LET x == <<session[req[t].leave], of[req[t].leave]>>
  IN /\ pc[t] = "project" /\ Writable(t, x)
     /\ Write(t, x, "leave")
     /\ Goto(t, "decided")
     /\ UNCHANGED <<req, sees, todo, held, Database>>

Overlay(t) == [x \in Session \X Enrolment |->
                 IF x \in DOMAIN wrote[t] THEN wrote[t][x] ELSE attendance[x]]

CommitDecision(t) ==
  /\ pc[t] = "decided"
  /\ status' = [status EXCEPT ![req[t].leave] = IF req[t].kind = "approve" THEN "approved" ELSE "rejected"]
  /\ attendance' = Overlay(t)
  /\ Finish(t)
  /\ UNCHANGED <<enrolled, of, session, makeup, started, history>>

-----------------------------------------------------------------------------
\* cancel_enrolment, and the part of a refund that cancels the enrolment.
AskCancel(t, e) ==
  /\ enrolled[e] # "none"
  /\ Begin(t, [NoReq EXCEPT !.kind = "cancel", !.enrolment = e], "cancel")
  /\ UNCHANGED todo

\* cancel_if_active_tx or cancel_by_order_tx; then the pending leaves as the second
\* statement sees them.
CancelEnrolment(t) ==
  LET e == req[t].enrolment
  IN /\ pc[t] = "cancel" /\ EnrolmentLocked(t, e) = {}
     /\ IF ~Active(e) THEN Rollback(t)
        ELSE /\ Goto(t, "victims")
             /\ todo' = [todo EXCEPT ![t] = {l \in Leave : of[l] = e /\ status[l] = "pending"}]
             /\ UNCHANGED <<req, sees, held, wrote, Database>>

\* One row of the UPDATE, which rechecks a row it had to wait for.
CancelPending(t, l) ==
  /\ pc[t] = "victims" /\ l \in todo[t] /\ LeaveLocked(t, l) = {}
  /\ todo' = [todo EXCEPT ![t] = @ \ {l}]
  /\ held' = IF status[l] = "pending" THEN [held EXCEPT ![t] = @ \cup {l}] ELSE held
  /\ UNCHANGED <<pc, req, sees, wrote, Database>>

CommitCancel(t) ==
  /\ pc[t] = "victims" /\ todo[t] = {}
  /\ enrolled' = [enrolled EXCEPT ![req[t].enrolment] = "cancelled"]
  /\ status' = [l \in Leave |-> IF l \in held[t] THEN "cancelled" ELSE status[l]]
  /\ Finish(t)
  /\ UNCHANGED <<of, session, makeup, attendance, started, history>>

-----------------------------------------------------------------------------
MadeUp(s) == {l \in Leave : makeup[l] = s /\ Active(of[l])}
Freed(s) == {l \in Leave : status[l] = "approved" /\ session[l] = s /\ Active(of[l])}

\* SessionSeats::remaining.
remaining(s) == max_students - Cardinality(Taken) + Cardinality(Freed(s)) - Cardinality(MadeUp(s))

\* book_makeup judges the clock of its arrival; its first statement, which waits
\* for the leave, sees the enrolment as it was when it started.
AskMakeup(t, l, s) ==
  /\ status[l] # "none" /\ s # session[l] /\ s \notin started /\ Active(of[l])
  /\ Begin(t, [NoReq EXCEPT !.kind = "makeup", !.leave = l, !.session = s], "source")
  /\ UNCHANGED todo

check_makeup_source(l) == status[l] = "approved" /\ makeup[l] = None

LockSource(t) ==
  LET l == req[t].leave
  IN /\ pc[t] = "source" /\ LeaveLocked(t, l) = {}
     /\ IF ~check_makeup_source(l) THEN Rollback(t)
        ELSE /\ Goto(t, "target") /\ held' = [held EXCEPT ![t] = {l}]
             /\ UNCHANGED <<req, sees, todo, wrote, Database>>

\* lock_session_tx, then require_room_tx counts.
LockTarget(t) ==
  LET s == req[t].session
  IN /\ pc[t] = "target" /\ SessionLocked(t, s) = {} /\ SessionShared(t, s) = {}
     /\ IF remaining(s) <= 0 THEN Rollback(t)
        ELSE Goto(t, "room") /\ UNCHANGED <<req, sees, todo, held, wrote, Database>>

CommitMakeup(t) ==
  /\ pc[t] = "room"
  /\ makeup' = [makeup EXCEPT ![req[t].leave] = req[t].session]
  /\ Finish(t)
  /\ UNCHANGED <<enrolled, status, of, session, attendance, started, history>>

-----------------------------------------------------------------------------
\* bulk_upsert_attendance; each entry is an enrolment and its mark.
AskMark(t, s, marks) ==
  /\ s \in started
  /\ Begin(t, [NoReq EXCEPT !.kind = "mark", !.session = s], "plan")
  /\ todo' = [todo EXCEPT ![t] = {<<e, marks[e]>> : e \in DOMAIN marks}]

\* marking::plan over the two sets read, one after the other, in the transaction.
plan(t) ==
  /\ pc[t] = "plan"
  /\ IF \E m \in todo[t] : \/ ~Active(m[1])
                           \/ m[2] # "leave" /\ Approved(req[t].session, m[1]) # {}
     THEN Rollback(t)
     ELSE Goto(t, "next") /\ UNCHANGED <<req, sees, todo, held, wrote, Database>>

\* The upsert of an entry starts; the order is the client's.
StartUpsert(t, m) ==
  /\ pc[t] = "next" /\ m \in todo[t]
  /\ Goto(t, "upsert")
  /\ req' = [req EXCEPT ![t].enrolment = m[1]]
  /\ sees' = [sees EXCEPT ![t] = Approved(req[t].session, m[1]) # {}]
  /\ UNCHANGED <<todo, held, wrote, Database>>

Mut_MayOverwrite(x, v, seen) == TRUE
\* The WHERE of ON CONFLICT DO UPDATE: the row is the newest, the leaves are seen
\* by the old snapshot.
MayOverwrite(x, v, seen) == v = "leave" \/ attendance[x] # "leave" \/ ~seen

Upsert(t) ==
  LET e == req[t].enrolment
      x == <<req[t].session, e>>
      v == (CHOOSE m \in todo[t] : m[1] = e)[2]
  IN /\ pc[t] = "upsert" /\ Writable(t, x)
     /\ IF ~MayOverwrite(x, v, sees[t]) THEN Rollback(t)
        ELSE /\ Write(t, x, v)
             /\ todo' = [todo EXCEPT ![t] = @ \ {<<e, v>>}]
             /\ overwritten' = IF v = "leave" \/ sees[t] THEN overwritten
                               ELSE overwritten \cup Approved(req[t].session, e)
             /\ Goto(t, "next")
             /\ req' = [req EXCEPT ![t].enrolment = None] /\ sees' = [sees EXCEPT ![t] = FALSE]
             /\ UNCHANGED <<held, enrolled, leaves, attendance, started, squeezed, late>>

CommitMark(t) ==
  /\ pc[t] = "next" /\ todo[t] = {}
  /\ attendance' = Overlay(t)
  /\ Finish(t)
  /\ UNCHANGED <<enrolled, leaves, started, history>>

-----------------------------------------------------------------------------
\* A checkout commits an enrolment; it counts enrolments and no makeups.
enrol(e) ==
  /\ enrolled[e] = "none" /\ Cardinality(Taken) < max_students
  /\ enrolled' = [enrolled EXCEPT ![e] = "active"]
  /\ squeezed' = squeezed \cup {s \in Session : \/ MadeUp(s) # {}
                                               \/ \E u \in Tx : pc[u] = "room" /\ req[u].session = s}
  /\ UNCHANGED <<leaves, attendance, started, locals, overwritten, late>>

Begins(s) ==
  /\ s \notin started /\ started' = started \cup {s}
  /\ UNCHANGED <<enrolled, leaves, attendance, locals, history>>

\* The database or the process fails: the transaction is undone.
Fail(t) == pc[t] # "idle" /\ Rollback(t)

Marks == UNION {[D -> {"present", "leave"}] : D \in SUBSET Enrolment \ {{}}}

Ask(t) ==
  \/ \E e \in Enrolment, s \in Session : AskLeave(t, e, s)
  \/ \E l \in Leave, kind \in {"approve", "reject"} : AskDecision(t, l, kind)
  \/ \E e \in Enrolment : AskCancel(t, e)
  \/ \E l \in Leave, s \in Session : AskMakeup(t, l, s)
  \/ \E s \in Session, marks \in Marks : AskMark(t, s, marks)

Step(t) ==
  \/ Insert(t) \/ LockLeave(t) \/ project_approved_leave(t) \/ CommitDecision(t)
  \/ CancelEnrolment(t) \/ CommitCancel(t) \/ \E l \in Leave : CancelPending(t, l)
  \/ LockSource(t) \/ LockTarget(t) \/ CommitMakeup(t)
  \/ plan(t) \/ Upsert(t) \/ CommitMark(t) \/ \E m \in todo[t] : StartUpsert(t, m)

Next ==
  \/ \E t \in Tx : Ask(t) \/ Step(t) \/ Fail(t)
  \/ \E l \in Leave : cancel_leave_request(l)
  \/ \E e \in Enrolment : enrol(e)
  \/ \E s \in Session : Begins(s)

Spec == Init /\ [][Next]_leaveVars

-----------------------------------------------------------------------------
\* ADR-0008: "an approval always wins".  The attendance of an approved leave says
\* so, except where a statement that started before the approval was committed
\* waited for it and wrote over it (known gap 2), which is what overwritten holds.
ApprovalWins ==
  \A l \in Leave : status[l] = "approved" /\ l \notin overwritten => attendance[<<session[l], of[l]>>] = "leave"

\* seats.rs: makeups never take a seat that is not there, however they race each
\* other, approvals and cancellations.  A later purchase does not count makeups
\* and may squeeze a session.
SeatsRespected == \A s \in Session \ squeezed : remaining(s) >= 0 \/ MadeUp(s) = {}

\* leave/service.rs: a decision is made once, on a pending request, and nothing but
\* a makeup changes a request afterwards; a makeup is booked once.
DecidedIsFinal ==
  [][\A l \in Leave : /\ status[l] \notin {"none", "pending"} => status'[l] = status[l]
                      /\ makeup[l] # None => makeup'[l] = makeup[l]]_leaveVars

\* leave/rules.rs on the backstop: a cancelled enrolment leaves no pending request
\* behind, but for one inserted after the cancellation had passed the requests.
CancelledLeavesNone ==
  \A l \in Leave : status[l] = "pending" /\ l \notin late => enrolled[of[l]] # "cancelled"

\* The transactions a transaction waits for.
Blockers(t) ==
  LET r == req[t]
      fresh(x) == IF attendance[x] = "none" THEN SessionLocked(t, x[1]) ELSE {}
  IN CASE pc[t] = "insert" -> SessionLocked(t, r.session)
                                \cup UNION {LeaveLocked(t, l) : l \in Live(r.enrolment, r.session)}
       [] pc[t] \in {"decide", "source"} -> LeaveLocked(t, r.leave)
       [] pc[t] = "project" -> LET x == <<session[r.leave], of[r.leave]>> IN RowLocked(t, x) \cup fresh(x)
       [] pc[t] = "target" -> SessionLocked(t, r.session) \cup SessionShared(t, r.session)
       [] pc[t] = "cancel" -> EnrolmentLocked(t, r.enrolment)
       [] pc[t] = "victims" -> UNION {LeaveLocked(t, l) : l \in todo[t]}
       [] pc[t] = "upsert" -> LET x == <<r.session, r.enrolment>>
                              IN RowLocked(t, x) \cup fresh(x)
       [] OTHER -> {}

\* Transactions that wait for each other for ever.
Stuck(S) == S # {} /\ \A t \in S : Blockers(t) \cap S # {}
Markings == {t \in Tx : req[t].kind = "mark"}

\* ADR-0008, addendum of 2026-09-27: cancellations, refunds and approvals form no
\* ring of waiters.  Two markings that list the same members in opposite orders do,
\* and whoever else is stuck is stuck behind such markings.
RingsAreMarkings == \A S \in SUBSET Tx : Stuck(S) => Stuck(S \cap Markings)

\* ADR-0008 as a whole, of any requests in flight: approvals win, seats are
\* respected, a cancelled enrolment leaves nothing behind, and only markings can
\* wait for each other in a ring.
LeavesAgree == ApprovalWins /\ SeatsRespected /\ CancelledLeavesNone /\ RingsAreMarkings
=============================================================================
