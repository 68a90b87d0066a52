------------------------------ MODULE Calendar ------------------------------
(***************************************************************************)
(* One course's weekly schedule and the sessions materialized from it on   *)
(* reading.  A reader selects the candidate dates and inserts them in two  *)
(* separate statements; an edit of the course replaces the schedule and    *)
(* aligns the sessions after its `today' in one transaction, which becomes *)
(* visible at its commit.  Leave requests and attendance refer to sessions *)
(* and share their rows until they commit.  A weekday stands for a weekday *)
(* and a start time, a venue for an end time and a venue.                  *)
(*                                                                         *)
(* A definition named Mut_X is a plausible wrong X, kept beside it to show *)
(* that the properties tell the two apart; nothing else uses it.           *)
(***************************************************************************)
EXTENDS Integers

CONSTANTS
  Reader,
  Venue, NoVenue,   \* NoVenue: no slot, or no session
  Days, Week,       \* bounds: dates are 1..Days, a week has Week days
  MaxEdits          \* bound on edits of the schedule

Date == 1..Days
Weekday == 0..(Week - 1)
dow(d) == d % Week

VARIABLES
  today,
  schedule,         \* course_schedule_slots: the venue per weekday
  session,          \* course_sessions: the venue per date
  leave, attended,  \* the dates whose session a leave request or attendance refers to
  referring,        \* a reference that is inserted but not committed, <<kind, date>>
  reader,           \* per reader: the candidates it selected, and whether an edit overtook it
  edit,             \* the edit under way: its stage, its today, its schedule, and the
                    \* sessions it has updated and deleted
  edits,            \* edits committed so far
  straddled,        \* the sessions written by a reader that an edit overtook
  lost              \* what a deletion cascaded over: the edit's today and the real one

calendarVars == <<today, schedule, session, leave, attended, referring, reader, edit, edits,
                  straddled, lost>>

Nothing == <<"none", 0>>
NoRead == [stale |-> FALSE, venues |-> [d \in {} |-> NoVenue]]
NoEdit == [stage |-> "idle", today |-> 0, slots |-> [w \in Weekday |-> NoVenue],
           updated |-> {}, deleted |-> {}]

\* SLOT_OF_SESSION: the slot a session belongs to.
Aligned(slots, d) == session[d] = slots[dow(d)]
Sessions == {d \in Date : session[d] # NoVenue}

CalendarInit ==
  /\ today = 1
  /\ schedule \in [Weekday -> Venue \cup {NoVenue}]
  /\ session = [d \in Date |-> NoVenue]
  /\ leave = {} /\ attended = {} /\ referring = Nothing
  /\ reader = [r \in Reader |-> NoRead] /\ edit = NoEdit
  /\ edits = 0 /\ straddled = {}
  /\ lost = {}

Midnight ==
  /\ today < Days /\ today' = today + 1
  /\ UNCHANGED <<schedule, session, leave, attended, referring, reader, edit, edits,
                 straddled, lost>>

-----------------------------------------------------------------------------
\* materialize_range, first the window that is not past and the candidates in it.
SelectCandidates(r, from, to) ==
  LET window == {d \in Date : from <= d /\ today <= d /\ d <= to /\ schedule[dow(d)] # NoVenue}
  IN
  /\ reader[r] = NoRead /\ window # {}
  /\ reader' = [reader EXCEPT ![r] = [stale |-> FALSE,
                                      venues |-> [d \in window |-> schedule[dow(d)]]]]
  /\ UNCHANGED <<today, schedule, session, leave, attended, referring, edit, edits,
                 straddled, lost>>

\* Then one INSERT that leaves existing sessions alone; it waits for a deletion of
\* one of its keys to commit.
InsertSessions(r) ==
  LET new == DOMAIN reader[r].venues \ Sessions IN
  /\ reader[r] # NoRead
  /\ DOMAIN reader[r].venues \cap edit.deleted = {}
  /\ session' = [d \in Date |-> IF d \in new THEN reader[r].venues[d] ELSE session[d]]
  /\ straddled' = IF reader[r].stale \/ edit.stage \in {"updated", "deleted"}
                  THEN straddled \cup new ELSE straddled
  /\ reader' = [reader EXCEPT ![r] = NoRead]
  /\ UNCHANGED <<today, schedule, leave, attended, referring, edit, edits, lost>>

-----------------------------------------------------------------------------
\* A leave request names a session to come, attendance one that has begun; either
\* waits for a deletion of its session, and then finds it gone.
Refer(kind, d) ==
  /\ referring = Nothing /\ d \in Sessions \ edit.deleted
  /\ IF kind = "leave" THEN d >= today /\ d \notin leave ELSE d <= today /\ d \notin attended
  /\ referring' = <<kind, d>>
  /\ UNCHANGED <<today, schedule, session, leave, attended, reader, edit, edits,
                 straddled, lost>>

CommitReference ==
  LET d == referring[2] IN
  /\ referring # Nothing /\ referring' = Nothing
  /\ leave' = IF referring[1] = "leave" THEN leave \cup {d} ELSE leave
  /\ attended' = IF referring[1] = "attendance" THEN attended \cup {d} ELSE attended
  /\ UNCHANGED <<today, schedule, session, reader, edit, edits, straddled, lost>>

-----------------------------------------------------------------------------
\* update_course with schedule_slots: the course row is locked, so edits go one by
\* one; the date was sampled when the request arrived.
AskEdit ==
  /\ edit = NoEdit /\ edits < MaxEdits
  /\ edit' = [NoEdit EXCEPT !.stage = "asked", !.today = today]
  /\ UNCHANGED <<today, schedule, session, leave, attended, referring, reader, edits,
                 straddled, lost>>

replace_slots_tx(slots) ==
  /\ edit.stage = "asked"
  /\ edit' = [edit EXCEPT !.stage = "replaced", !.slots = slots]
  /\ UNCHANGED <<today, schedule, session, leave, attended, referring, reader, edits,
                 straddled, lost>>

\* reconcile_future_sessions_tx: sync the sessions that still have a slot ...
Mut_UpdateFuture ==
  /\ edit.stage = "replaced"
  /\ edit' = [edit EXCEPT !.stage = "updated"]
  /\ UNCHANGED <<today, schedule, session, leave, attended, referring, reader, edits,
                 straddled, lost>>
UpdateFuture ==
  /\ edit.stage = "replaced"
  /\ edit' = [edit EXCEPT !.stage = "updated",
                          !.updated = {d \in Sessions : /\ d > edit.today
                                                        /\ edit.slots[dow(d)] # NoVenue
                                                        /\ ~Aligned(edit.slots, d)}]
  /\ UNCHANGED <<today, schedule, session, leave, attended, referring, reader, edits,
                 straddled, lost>>

\* ... and delete those without a slot that nothing committed refers to.
DeleteOrphans ==
  /\ edit.stage = "updated"
  /\ edit' = [edit EXCEPT !.stage = "deleted",
                          !.deleted = {d \in Sessions \ (leave \cup attended) :
                                         d > edit.today /\ edit.slots[dow(d)] = NoVenue}]
  /\ UNCHANGED <<today, schedule, session, leave, attended, referring, reader, edits,
                 straddled, lost>>

\* The deletion waits for a reference that shares a row; a leave request committed
\* meanwhile fails it, attendance goes with the session.
CommitEdit ==
  /\ edit.stage = "deleted" /\ referring[2] \notin edit.deleted
  /\ edit' = NoEdit
  /\ IF leave \cap edit.deleted # {}
     THEN UNCHANGED <<schedule, session, attended, reader, edits, straddled, lost>>
     ELSE /\ schedule' = edit.slots
          /\ session' = [d \in Date |-> IF d \in edit.deleted THEN NoVenue
                                        ELSE IF d \in edit.updated THEN edit.slots[dow(d)]
                                        ELSE session[d]]
          /\ attended' = attended \ edit.deleted
          /\ lost' = lost \cup {<<edit.today, today>> : d \in attended \cap edit.deleted}
          /\ straddled' = straddled \ (edit.updated \cup edit.deleted)
          /\ reader' = [r \in Reader |-> IF reader[r] = NoRead THEN NoRead
                                         ELSE [reader[r] EXCEPT !.stale = TRUE]]
          /\ edits' = edits + 1
  /\ UNCHANGED <<today, leave, referring>>

\* A slot that repeats a key, a slug that is taken, or a failure undoes the edit.
AbandonEdit ==
  /\ edit # NoEdit /\ edit' = NoEdit
  /\ UNCHANGED <<today, schedule, session, leave, attended, referring, reader, edits,
                 straddled, lost>>

CalendarNext ==
  \/ Midnight \/ AskEdit \/ UpdateFuture \/ DeleteOrphans \/ CommitEdit \/ AbandonEdit
  \/ \E slots \in [Weekday -> Venue \cup {NoVenue}] : replace_slots_tx(slots)
  \/ \E r \in Reader : InsertSessions(r) \/ \E from, to \in Date : SelectCandidates(r, from, to)
  \/ CommitReference
  \/ \E kind \in {"leave", "attendance"}, d \in Date : Refer(kind, d)

CalendarSpec == CalendarInit /\ [][CalendarNext]_calendarVars

-----------------------------------------------------------------------------
\* calendar.rs `reconcile_future_sessions_tx': a session to come is the one the weekly
\* schedule says, unless it lost its slot and somebody's leave or attendance keeps it,
\* or a reader selected it before an edit and inserted it after that edit had looked;
\* and attendance vanishes only under an edit that was asked for on an earlier day.
FutureFollowsSchedule ==
  /\ \A d \in Sessions : d > today =>
       \/ Aligned(schedule, d)
       \/ schedule[dow(d)] = NoVenue /\ d \in leave \cup attended
       \/ d \in straddled
  /\ \A l \in lost : l[1] < l[2]
=============================================================================
