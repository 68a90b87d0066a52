------------------------------ MODULE Waitlist ------------------------------
(***************************************************************************)
(* The waiting list of a course: joining it, by reads without a lock and   *)
(* an insertion the unique index judges, and leaving it.  Nobody is        *)
(* promoted: a place that comes free is for whoever buys it.               *)
(*                                                                         *)
(* A definition named Mut_X is a plausible wrong X, kept beside it to show *)
(* that the properties tell the two apart; nothing else uses it.           *)
(***************************************************************************)
EXTENDS Integers, Sequences, FiniteSets

CONSTANTS
  Waiter, Caller, NoWaiter,
  Places,                      \* courses.max_students
  MaxEntries                   \* bound on the rows of waitlist_entries

ASSUME WaitAssumption == Places \in Nat /\ MaxEntries \in Nat

VARIABLES
  offered, taken,              \* the course: purchasable, and its active enrolments
  entries,                     \* waitlist_entries by created_at: who, and whether waiting
  stage, who,                  \* where each request to join is, and whose it is
  wasFull, wasOffered,         \* history: the course was so at some point of the request
  queued                       \* history: entries inserted for a course never seen full

waitVars == <<offered, taken, entries, stage, who, wasFull, wasOffered, queued>>
course == <<offered, taken>>
calls  == <<stage, who, wasFull, wasOffered>>

\* The queue an admin is shown, by the order of the rows.
waiting_entries == {i \in DOMAIN entries : entries[i].waiting}
is_full == taken >= Places

WaitInit ==
  /\ offered = TRUE /\ taken \in {Places - 1, Places} /\ entries = <<>>
  /\ stage = [c \in Caller |-> "idle"] /\ who = [c \in Caller |-> NoWaiter]
  /\ wasFull = [c \in Caller |-> FALSE] /\ wasOffered = [c \in Caller |-> FALSE]
  /\ queued = FALSE

\* Purchases, refunds and the catalog change the course under the requests.
CourseChanges ==
  /\ \/ taken' \in {taken - 1, taken + 1} \cap {Places - 1, Places} /\ UNCHANGED offered
     \/ offered' = ~offered /\ UNCHANGED taken
  /\ wasFull' = [c \in Caller |-> wasFull[c] \/ taken' >= Places]
  /\ wasOffered' = [c \in Caller |-> wasOffered[c] \/ offered']
  /\ UNCHANGED <<entries, stage, who, queued>>

-----------------------------------------------------------------------------
Step(c, label) == stage' = [stage EXCEPT ![c] = label] /\ UNCHANGED <<who, wasFull, wasOffered>>

AskJoin(c, w) ==
  /\ stage[c] = "idle" /\ stage' = [stage EXCEPT ![c] = "course"]
  /\ who' = [who EXCEPT ![c] = w] /\ wasFull' = [wasFull EXCEPT ![c] = is_full]
  /\ wasOffered' = [wasOffered EXCEPT ![c] = offered]
  /\ UNCHANGED <<course, entries, queued>>

\* find_by_id and ensure_purchasable; course_seats; exists_waiting.
FindCourse(c) ==
  /\ stage[c] = "course" /\ Step(c, IF offered THEN "seats" ELSE "idle")
  /\ UNCHANGED <<course, entries, queued>>
Mut_ReadSeats(c) ==
  /\ stage[c] = "seats" /\ Step(c, "waiting")
  /\ UNCHANGED <<course, entries, queued>>
ReadSeats(c) ==
  /\ stage[c] = "seats" /\ Step(c, IF is_full THEN "waiting" ELSE "idle")
  /\ UNCHANGED <<course, entries, queued>>
exists_waiting(c) ==
  /\ stage[c] = "waiting"
  /\ Step(c, IF \E i \in waiting_entries : entries[i].who = who[c] THEN "idle" ELSE "insert")
  /\ UNCHANGED <<course, entries, queued>>

\* uniq_waitlist_waiting turns a second waiting row into a 409.
InsertEntry(c) ==
  /\ stage[c] = "insert" /\ Len(entries) < MaxEntries
  /\ IF \E i \in waiting_entries : entries[i].who = who[c] THEN UNCHANGED <<entries, queued>>
     ELSE /\ entries' = Append(entries, [who |-> who[c], waiting |-> TRUE])
          /\ queued' = (queued \/ ~wasFull[c] \/ ~wasOffered[c])
  /\ Step(c, "idle") /\ UNCHANGED course

\* cancel_waitlist_entry locks the row; only its owner or an admin, and only once.
cancel_waitlist_entry(i, by) ==
  /\ i \in waiting_entries /\ by \in {entries[i].who, NoWaiter}
  /\ entries' = [entries EXCEPT ![i].waiting = FALSE]
  /\ UNCHANGED <<course, calls, queued>>

WaitNext ==
  \/ CourseChanges
  \/ \E c \in Caller : \/ FindCourse(c) \/ ReadSeats(c) \/ exists_waiting(c) \/ InsertEntry(c)
                       \/ \E w \in Waiter : AskJoin(c, w)
  \/ \E i \in DOMAIN entries, by \in Waiter \cup {NoWaiter} : cancel_waitlist_entry(i, by)

WaitSpec == WaitInit /\ [][WaitNext]_waitVars

-----------------------------------------------------------------------------
\* waitlist/service.rs `join_waitlist': whatever two requests of one member and the sales
\* of the course interleave, nobody stands twice in the queue, and nobody was put in it
\* for a course that was not both full and on offer at some point of their request.
QueueIsFair ==
  /\ \A i, j \in waiting_entries : entries[i].who = entries[j].who => i = j
  /\ ~queued
=============================================================================
