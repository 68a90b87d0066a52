------------------------------ MODULE Booking ------------------------------
(***************************************************************************)
(* Venue rental: the slots of the schedule and the bookings that occupy    *)
(* them.  A booking and a cancellation are transactions that lock one row  *)
(* at a time and write at their commit.  A request is judged by the clock  *)
(* of its arrival, however late its transaction gets its locks.            *)
(*                                                                         *)
(* A definition named Mut_X is a plausible wrong X, kept beside it to show *)
(* that the properties tell the two apart; nothing else uses it.           *)
(***************************************************************************)
EXTENDS Integers, FiniteSets

CONSTANTS
  Slot, Renter, Row, BookTx,
  NoRenter,
  Clash,          \* the pairs of slots of one venue that overlap
  MaxCapacity,    \* bound on the capacity of a slot
  MaxClosings     \* bound on how often slots are closed or opened again

ASSUME BookingAssumption ==
  /\ IsFiniteSet(Row)
  /\ MaxCapacity \in Nat
  /\ NoRenter \notin Slot \cup Row \cup BookTx

VARIABLES
  capacity,       \* time_slots.capacity, 0 for no row
  closed,         \* the slots with is_closed
  lead,           \* 2: the slot starts in 24 hours or more, 1: in less, 0: it has started
  member, slot, bstatus,  \* the rows of bookings
  events,         \* per row, the outbox events queued for it: <<created, cancelled>>
  bpc, breq,      \* where each request is, and what it asks
  closings

slots       == <<capacity, closed, lead>>
bookings    == <<member, slot, bstatus, events>>
bookingVars == <<slots, bookings, bpc, breq, closings>>

NoAsk == [kind |-> "none", by |-> NoRenter, slot |-> NoRenter, row |-> NoRenter, arrived |-> 0]

\* BookingStatus; `pending' has no writer.
is_cancellable(s) == s \in {"pending", "confirmed"}
occupies_seat(s) == s \in {"pending", "confirmed", "completed", "no_show"}

Rows == {b \in Row : bstatus[b] # "none"}
occupying_bookings(s) == {b \in Rows : slot[b] = s /\ occupies_seat(bstatus[b])}

BookingInit ==
  /\ capacity = [s \in Slot |-> 0] /\ closed = {} /\ lead = [s \in Slot |-> 2]
  /\ bstatus = [b \in Row |-> "none"]
  /\ member = [b \in Row |-> NoRenter] /\ slot = [b \in Row |-> NoRenter]
  /\ events = [b \in Row |-> <<0, 0>>]
  /\ bpc = [t \in BookTx |-> "idle"] /\ breq = [t \in BookTx |-> NoAsk]
  /\ closings = 0

-----------------------------------------------------------------------------
\* Row locks: FOR NO KEY UPDATE on a slot, FOR SHARE on a slot, FOR UPDATE on a
\* booking.  A closing waits for both locks of a slot.
SlotHolders(t, s) == {u \in BookTx \ {t} : bpc[u] \in {"count", "insert"} /\ breq[u].slot = s}
SlotSharers(t, s) == {u \in BookTx \ {t} : /\ bpc[u] = "update" /\ breq[u].slot = s
                                      /\ breq[u].kind = "cancel"}
BookingHolders(t, b) == {u \in BookTx \ {t} : bpc[u] \in {"slot", "update"} /\ breq[u].row = b}

Move(t, label) == bpc' = [bpc EXCEPT ![t] = label]
Done(t) == bpc' = [bpc EXCEPT ![t] = "idle"] /\ breq' = [breq EXCEPT ![t] = NoAsk]
Undo(t) == Done(t) /\ UNCHANGED <<slots, bookings, closings>>

Arrive(t, r, label) ==
  /\ bpc[t] = "idle"
  /\ breq' = [breq EXCEPT ![t] = r] /\ Move(t, label)
  /\ UNCHANGED <<slots, bookings, closings>>

\* create_booking begins.
AskBooking(t, m, s) ==
  Arrive(t, [NoAsk EXCEPT !.kind = "create", !.by = m, !.slot = s, !.arrived = lead[s]], "lock")

Mut_occupy_slot_tx(t) ==
  LET s == breq[t].slot IN
  /\ bpc[t] = "lock"
  /\ IF capacity[s] = 0 \/ s \in closed THEN Undo(t)
     ELSE Move(t, "count") /\ UNCHANGED <<slots, bookings, breq, closings>>
\* The first statement locks the slot unless it is closed.
occupy_slot_tx(t) ==
  LET s == breq[t].slot IN
  /\ bpc[t] = "lock" /\ SlotHolders(t, s) = {} /\ SlotSharers(t, s) = {}
  /\ IF capacity[s] = 0 \/ s \in closed THEN Undo(t)
     ELSE Move(t, "count") /\ UNCHANGED <<slots, bookings, breq, closings>>

\* The second counts, with a snapshot of its own; then require_not_started.
CountOccupied(t) ==
  LET s == breq[t].slot IN
  /\ bpc[t] = "count"
  /\ IF Cardinality(occupying_bookings(s)) >= capacity[s] \/ breq[t].arrived = 0 THEN Undo(t)
     ELSE Move(t, "insert") /\ UNCHANGED <<slots, bookings, breq, closings>>

\* uq_bookings_user_slot_active decides; the event goes with the row.
insert_occupying_booking_tx(t) ==
  LET r == breq[t] IN
  /\ bpc[t] = "insert"
  /\ \/ \E b \in occupying_bookings(r.slot) : member[b] = r.by /\ Undo(t)
     \/ /\ \A b \in occupying_bookings(r.slot) : member[b] # r.by
        /\ \E b \in Row \ Rows :
             /\ bstatus' = [bstatus EXCEPT ![b] = "confirmed"]
             /\ member' = [member EXCEPT ![b] = r.by] /\ slot' = [slot EXCEPT ![b] = r.slot]
             /\ events' = [events EXCEPT ![b] = <<1, 0>>]
        /\ Done(t) /\ UNCHANGED <<slots, closings>>

-----------------------------------------------------------------------------
\* cancel_booking by the booking's member or an admin.
AskCancellation(t, b, by) ==
  /\ b \in Rows
  /\ Arrive(t, [NoAsk EXCEPT !.kind = IF by = NoRenter THEN "admin_cancel" ELSE "cancel", !.by = by,
                             !.row = b, !.slot = slot[b], !.arrived = lead[slot[b]]], "find")

\* find_by_id_tx FOR UPDATE, the ownership check and the state check.
FindBooking(t) ==
  LET b == breq[t].row IN
  /\ bpc[t] = "find" /\ BookingHolders(t, b) = {}
  /\ IF ~is_cancellable(bstatus[b]) \/ breq[t].by \notin {NoRenter, member[b]} THEN Undo(t)
     ELSE /\ Move(t, IF breq[t].kind = "cancel" THEN "slot" ELSE "update")
          /\ UNCHANGED <<slots, bookings, breq, closings>>

\* The 24-hour rule, with the slot locked FOR SHARE.
CheckNotice(t) ==
  /\ bpc[t] = "slot" /\ SlotHolders(t, breq[t].slot) = {}
  /\ IF breq[t].arrived < 2 THEN Undo(t)
     ELSE Move(t, "update") /\ UNCHANGED <<slots, bookings, breq, closings>>

cancel_occupying_booking_tx(t) ==
  LET b == breq[t].row IN
  /\ bpc[t] = "update"
  /\ IF bstatus[b] = "cancelled" THEN Undo(t)
     ELSE /\ bstatus' = [bstatus EXCEPT ![b] = "cancelled"]
          /\ events' = [events EXCEPT ![b][2] = @ + 1]
          /\ Done(t) /\ UNCHANGED <<slots, member, slot, closings>>

-----------------------------------------------------------------------------
\* create_slots: a batch is inserted as a whole or refused as a whole, by its clock
\* or by the exclusion constraint on a venue's slots.
create_slots(batch, size) ==
  /\ batch # {} /\ \A s \in batch : lead[s] > 0 /\ capacity[s] = 0
  /\ \A c \in Clash : ~(c \subseteq batch \cup {s \in Slot : capacity[s] > 0})
  /\ capacity' = [s \in Slot |-> IF s \in batch THEN size ELSE capacity[s]]
  /\ UNCHANGED <<closed, lead, bookings, bpc, breq, closings>>

\* update_slot; it waits for whoever holds or shares the slot.
set_closed(s, shut) ==
  /\ capacity[s] > 0 /\ closings < MaxClosings
  /\ SlotHolders(NoRenter, s) = {} /\ SlotSharers(NoRenter, s) = {}
  /\ closed' = (IF shut THEN closed \cup {s} ELSE closed \ {s}) /\ closed' # closed
  /\ closings' = closings + 1
  /\ UNCHANGED <<capacity, lead, bookings, bpc, breq>>

StartNears(s) ==
  /\ lead[s] > 0 /\ lead' = [lead EXCEPT ![s] = @ - 1]
  /\ UNCHANGED <<capacity, closed, bookings, bpc, breq, closings>>

\* The process or the database fails: the transaction is undone.
Abandon(t) == bpc[t] # "idle" /\ Undo(t)

BookingStep(t) ==
  \/ occupy_slot_tx(t) \/ CountOccupied(t) \/ insert_occupying_booking_tx(t)
  \/ FindBooking(t) \/ CheckNotice(t) \/ cancel_occupying_booking_tx(t) \/ Abandon(t)

BookingNext ==
  \/ \E t \in BookTx : BookingStep(t)
  \/ \E t \in BookTx, m \in Renter, s \in Slot : AskBooking(t, m, s)
  \/ \E t \in BookTx, b \in Row, by \in Renter \cup {NoRenter} : AskCancellation(t, b, by)
  \/ \E batch \in SUBSET Slot, size \in 1..MaxCapacity : create_slots(batch, size)
  \/ \E s \in Slot : StartNears(s) \/ \E shut \in BOOLEAN : set_closed(s, shut)

BookingSpec == BookingInit /\ [][BookingNext]_bookingVars

-----------------------------------------------------------------------------
\* occupancy.rs: however bookings and cancellations interleave, a slot is never
\* oversold and nobody holds two places of it; what a booking counted under its
\* lock is still free, and its slot still open, when it inserts.
SlotNotOversold ==
  /\ \A s \in Slot :
       /\ Cardinality(occupying_bookings(s)) <= capacity[s]
       /\ \A a, b \in occupying_bookings(s) : member[a] = member[b] => a = b
  /\ \A t \in BookTx : bpc[t] = "insert" =>
       /\ Cardinality(occupying_bookings(breq[t].slot)) < capacity[breq[t].slot]
       /\ breq[t].slot \notin closed

\* bookings/service.rs: every booking is announced once, and its cancellation once,
\* whoever else cancels it at the same time.
AnnouncedOnce ==
  \A b \in Rows : events[b] = <<1, IF bstatus[b] = "cancelled" THEN 1 ELSE 0>>

\* What a slot and its bookings promise together.
BookingsHold == SlotNotOversold /\ AnnouncedOnce
=============================================================================
