--------------------------- MODULE Studio_proofs ---------------------------
(***************************************************************************)
(* Proofs about what the studio sells and schedules, for any members,      *)
(* rows, concurrent requests and bounds: the rules of an order, bookings,  *)
(* the calendar, passes, the waiting list, rewards, coupons, the clock and *)
(* the report.                                                             *)
(***************************************************************************)
EXTENDS OrderWalk, StudioClock, Booking, Calendar, Passes, Waitlist, Rewards, Coupons, Reports, SumTheorems

-----------------------------------------------------------------------------
(* Bookings: no slot is oversold and every cancellation is announced once. *)

Ask == [kind : {"none", "create", "cancel", "admin_cancel"}, by : Renter \cup {NoRenter},
        slot : Slot \cup {NoRenter}, row : Row \cup {NoRenter}, arrived : 0..2]

BookingTypeOK ==
  /\ capacity \in [Slot -> Nat]
  /\ closed \in SUBSET Slot
  /\ lead \in [Slot -> 0..2]
  /\ member \in [Row -> Renter \cup {NoRenter}]
  /\ slot \in [Row -> Slot \cup {NoRenter}]
  /\ bstatus \in [Row -> {"none", "confirmed", "cancelled"}]
  /\ events \in [Row -> Nat \X Nat]
  /\ bpc \in [BookTx -> {"idle", "lock", "count", "insert", "find", "slot", "update"}]
  /\ breq \in [BookTx -> Ask]

Booker(t) == bpc[t] \in {"count", "insert"}       \* holds its slot
Canceller(t) == bpc[t] \in {"slot", "update"}     \* holds its booking

\* A request names a slot, or a row that exists.
RequestsNameRows ==
  \A t \in BookTx :
    /\ bpc[t] \in {"lock", "count", "insert"} => breq[t].slot \in Slot
    /\ bpc[t] \in {"find", "slot", "update"} => breq[t].row \in Rows
RowsNameSlots == \A b \in Rows : slot[b] \in Slot

\* The row locks exclude each other.
OneBooker ==
  \A t, u \in BookTx : Booker(t) /\ Booker(u) /\ breq[t].slot = breq[u].slot => t = u
OneCanceller ==
  \A t, u \in BookTx : Canceller(t) /\ Canceller(u) /\ breq[t].row = breq[u].row => t = u

\* What was read under a lock is still so.
StillOpen == \A t \in BookTx : Booker(t) => breq[t].slot \notin closed
StillBooked == \A t \in BookTx : Canceller(t) => bstatus[breq[t].row] = "confirmed"

BookingInv ==
  /\ BookingTypeOK
  /\ RequestsNameRows /\ RowsNameSlots
  /\ OneBooker /\ OneCanceller
  /\ StillOpen /\ StillBooked
  /\ BookingsHold

-----------------------------------------------------------------------------
\* The bookings that occupy a slot are the confirmed ones.
LEMMA Occupying ==
  ASSUME BookingTypeOK, NEW s \in Slot
  PROVE  /\ occupying_bookings(s) = {b \in Row : slot[b] = s /\ bstatus[b] = "confirmed"}
         /\ IsFiniteSet(occupying_bookings(s))
         /\ Cardinality(occupying_bookings(s)) \in Nat
<1>1. occupying_bookings(s) = {b \in Row : slot[b] = s /\ bstatus[b] = "confirmed"}
  BY DEF BookingTypeOK, occupying_bookings, Rows, occupies_seat
<1>2. IsFiniteSet(occupying_bookings(s))
  BY <1>1, BookingAssumption, FS_Subset
<1> QED  BY <1>1, <1>2, FS_CardinalityType

LEMMA InitHolds == BookingInit => BookingInv
<1> SUFFICES ASSUME BookingInit PROVE BookingInv
  OBVIOUS
<1>1. BookingTypeOK
  BY DEF BookingInit, BookingTypeOK, Ask, NoAsk
<1>2. Rows = {}
  BY DEF BookingInit, Rows
<1>3. \A s \in Slot : occupying_bookings(s) = {} /\ Cardinality(occupying_bookings(s)) = 0
  BY <1>2, FS_EmptySet DEF occupying_bookings
<1>4. BookingsHold
  BY <1>1, <1>2, <1>3 DEF BookingInit, BookingsHold, SlotNotOversold, AnnouncedOnce
<1> QED
  BY <1>1, <1>2, <1>4 DEF BookingInit, BookingInv, RequestsNameRows, RowsNameSlots, OneBooker,
     OneCanceller, StillOpen, StillBooked, Booker, Canceller

-----------------------------------------------------------------------------
\* A step that leaves the rows alone and lets at most one request move on keeps all
\* that the rows promise; what is left to show is about that request.
Untouched == UNCHANGED <<slots, bookings, closings>>

LEMMA RowsKept ==
  ASSUME BookingInv, Untouched
  PROVE  /\ Rows' = Rows
         /\ \A s : occupying_bookings(s)' = occupying_bookings(s)
         /\ RowsNameSlots' /\ AnnouncedOnce'
         /\ \A s \in Slot :
              /\ Cardinality(occupying_bookings(s))' <= capacity'[s]
              /\ \A a, b \in occupying_bookings(s)' : member'[a] = member'[b] => a = b
BY DEF Untouched, slots, bookings, Rows, occupying_bookings, RowsNameSlots, AnnouncedOnce,
       BookingInv, BookingsHold, SlotNotOversold

\* A request that ends, by an early return or a rollback.
LEMMA UndoKeeps ==
  ASSUME BookingInv, NEW t \in BookTx, Undo(t)
  PROVE  BookingInv'
<1> USE DEF Undo, Done
<1>1. Untouched
  BY DEF Untouched
<1>2. BookingTypeOK'
  BY DEF BookingInv, BookingTypeOK, Ask, NoAsk, slots, bookings
<1>3. \A u \in BookTx : u # t => bpc'[u] = bpc[u] /\ breq'[u] = breq[u]
  BY DEF BookingInv, BookingTypeOK
<1>4. bpc'[t] = "idle"
  BY DEF BookingInv, BookingTypeOK
<1> HIDE DEF Undo, Done
<1>5. /\ RequestsNameRows' /\ OneBooker' /\ OneCanceller' /\ StillOpen' /\ StillBooked'
  BY <1>1, <1>3, <1>4, RowsKept DEF Untouched, slots, bookings, BookingInv, RequestsNameRows, OneBooker,
     OneCanceller, StillOpen, StillBooked, Booker, Canceller
<1>6. SlotNotOversold'
  BY <1>1, <1>3, <1>4, RowsKept DEF Untouched, slots, BookingInv, BookingsHold, SlotNotOversold
<1> QED
  BY <1>1, <1>2, <1>5, <1>6, RowsKept DEF BookingInv, BookingsHold

\* A request that arrives, or that passes a check.
LEMMA ArriveKeeps ==
  ASSUME BookingInv, NEW t \in BookTx, NEW r \in Ask, NEW l \in {"lock", "find"},
         Arrive(t, r, l),
         l = "lock" => r.slot \in Slot, l = "find" => r.row \in Rows
  PROVE  BookingInv'
<1> USE DEF Arrive, Move
<1>1. Untouched
  BY DEF Untouched
<1>2. BookingTypeOK'
  BY DEF BookingInv, BookingTypeOK, slots, bookings
<1>3. \A u \in BookTx : u # t => bpc'[u] = bpc[u] /\ breq'[u] = breq[u]
  BY DEF BookingInv, BookingTypeOK
<1>4. bpc'[t] = l /\ breq'[t] = r
  BY DEF BookingInv, BookingTypeOK
<1> HIDE DEF Arrive, Move
<1>5. /\ RequestsNameRows' /\ OneBooker' /\ OneCanceller' /\ StillOpen' /\ StillBooked'
  BY <1>1, <1>3, <1>4, RowsKept DEF Untouched, slots, bookings, BookingInv, RequestsNameRows, OneBooker,
     OneCanceller, StillOpen, StillBooked, Booker, Canceller
<1>6. SlotNotOversold'
  BY <1>1, <1>3, <1>4, RowsKept DEF Untouched, slots, BookingInv, BookingsHold, SlotNotOversold
<1> QED
  BY <1>1, <1>2, <1>5, <1>6, RowsKept DEF BookingInv, BookingsHold

LEMMA AsksKeep ==
  ASSUME BookingInv, NEW t \in BookTx
  PROVE  /\ \A m \in Renter, s \in Slot : AskBooking(t, m, s) => BookingInv'
         /\ \A b \in Row, by \in Renter \cup {NoRenter} : AskCancellation(t, b, by) => BookingInv'
<1>1. ASSUME NEW m \in Renter, NEW s \in Slot, AskBooking(t, m, s) PROVE BookingInv'
  <2> DEFINE r == [NoAsk EXCEPT !.kind = "create", !.by = m, !.slot = s, !.arrived = lead[s]]
  <2>1. r \in Ask /\ r.slot = s
    BY DEF Ask, NoAsk, BookingInv, BookingTypeOK
  <2>2. Arrive(t, r, "lock")
    BY <1>1 DEF AskBooking
  <2> HIDE DEF r
  <2> QED  BY <2>1, <2>2, ArriveKeeps
<1>2. ASSUME NEW b \in Row, NEW by \in Renter \cup {NoRenter}, AskCancellation(t, b, by)
      PROVE  BookingInv'
  <2> DEFINE r == [NoAsk EXCEPT !.kind = IF by = NoRenter THEN "admin_cancel" ELSE "cancel", !.by = by,
                                !.row = b, !.slot = slot[b], !.arrived = lead[slot[b]]]
  <2>1. b \in Rows /\ slot[b] \in Slot
    BY <1>2 DEF AskCancellation, BookingInv, RowsNameSlots
  <2>2. r \in Ask /\ r.row = b
    BY <2>1 DEF Ask, NoAsk, BookingInv, BookingTypeOK
  <2>3. Arrive(t, r, "find")
    BY <1>2 DEF AskCancellation
  <2> HIDE DEF r
  <2> QED  BY <2>1, <2>2, <2>3, ArriveKeeps
<1> QED  BY <1>1, <1>2

\* A request that passes a check and goes on; each label says what it must have found.
LEMMA MoveKeeps ==
  ASSUME BookingInv, NEW t \in BookTx, NEW l \in {"count", "insert", "slot", "update"},
         Move(t, l), UNCHANGED <<slots, bookings, breq, closings>>,
         l \in {"count", "insert"} =>
           /\ breq[t].slot \in Slot \ closed
           /\ \A u \in BookTx \ {t} : Booker(u) => breq[u].slot # breq[t].slot,
         l = "insert" =>
           Cardinality(occupying_bookings(breq[t].slot)) < capacity[breq[t].slot],
         l \in {"slot", "update"} =>
           /\ breq[t].row \in Rows /\ bstatus[breq[t].row] = "confirmed"
           /\ \A u \in BookTx \ {t} : Canceller(u) => breq[u].row # breq[t].row
  PROVE  BookingInv'
<1> USE DEF Move
<1>1. Untouched /\ breq' = breq
  BY DEF Untouched
<1>2. BookingTypeOK'
  BY DEF BookingInv, BookingTypeOK, slots, bookings
<1>3. /\ bpc'[t] = l
      /\ \A u \in BookTx : u # t => bpc'[u] = bpc[u]
  BY DEF BookingInv, BookingTypeOK
<1> HIDE DEF Move
<1>4. RequestsNameRows' /\ StillOpen' /\ StillBooked'
  BY <1>1, <1>3, RowsKept DEF Untouched, slots, bookings, BookingInv, RequestsNameRows, StillOpen,
     StillBooked, Booker, Canceller
<1>5. OneBooker'
  BY <1>1, <1>3 DEF BookingInv, OneBooker, Booker
<1>6. OneCanceller'
  BY <1>1, <1>3 DEF BookingInv, OneCanceller, Canceller
<1>7. SlotNotOversold'
  BY <1>1, <1>3, RowsKept DEF Untouched, slots, BookingInv, BookingsHold, SlotNotOversold
<1> QED
  BY <1>1, <1>2, <1>4, <1>5, <1>6, <1>7, RowsKept DEF BookingInv, BookingsHold

LEMMA ChecksKeep ==
  ASSUME BookingInv, NEW t \in BookTx,
         occupy_slot_tx(t) \/ CountOccupied(t) \/ FindBooking(t) \/ CheckNotice(t)
  PROVE  BookingInv'
<1>1. CASE occupy_slot_tx(t)
  <2>1. CASE Undo(t)
    BY <2>1, UndoKeeps
  <2>2. CASE /\ breq[t].slot \notin closed
             /\ Move(t, "count") /\ UNCHANGED <<slots, bookings, breq, closings>>
    <3>1. \A u \in BookTx \ {t} : Booker(u) => breq[u].slot # breq[t].slot
      BY <1>1 DEF occupy_slot_tx, SlotHolders, Booker
    <3>2. breq[t].slot \in Slot
      BY <1>1 DEF occupy_slot_tx, BookingInv, RequestsNameRows
    <3> QED  BY <2>2, <3>1, <3>2, MoveKeeps
  <2> QED  BY <1>1, <2>1, <2>2 DEF occupy_slot_tx
<1>2. CASE CountOccupied(t)
  <2>1. CASE Undo(t)
    BY <2>1, UndoKeeps
  <2>2. CASE /\ ~(Cardinality(occupying_bookings(breq[t].slot)) >= capacity[breq[t].slot])
             /\ Move(t, "insert") /\ UNCHANGED <<slots, bookings, breq, closings>>
    <3>1. breq[t].slot \in Slot \ closed
      BY <1>2 DEF CountOccupied, BookingInv, RequestsNameRows, StillOpen, Booker
    <3>2. \A u \in BookTx \ {t} : Booker(u) => breq[u].slot # breq[t].slot
      BY <1>2 DEF CountOccupied, BookingInv, OneBooker, Booker
    <3>3. Cardinality(occupying_bookings(breq[t].slot)) < capacity[breq[t].slot]
      <4>1. Cardinality(occupying_bookings(breq[t].slot)) \in Nat
        BY <3>1, Occupying DEF BookingInv
      <4>2. capacity[breq[t].slot] \in Nat
        BY <3>1 DEF BookingInv, BookingTypeOK
      <4> QED  BY <2>2, <4>1, <4>2
    <3> QED  BY <2>2, <3>1, <3>2, <3>3, MoveKeeps
  <2> QED  BY <1>2, <2>1, <2>2 DEF CountOccupied
<1>3. CASE FindBooking(t)
  <2>1. CASE Undo(t)
    BY <2>1, UndoKeeps
  <2>2. CASE /\ is_cancellable(bstatus[breq[t].row])
             /\ Move(t, IF breq[t].kind = "cancel" THEN "slot" ELSE "update")
             /\ UNCHANGED <<slots, bookings, breq, closings>>
    <3>1. breq[t].row \in Rows /\ breq[t].row \in Row
      BY <1>3 DEF FindBooking, BookingInv, RequestsNameRows, Rows
    <3>2. bstatus[breq[t].row] = "confirmed"
      BY <2>2, <3>1 DEF is_cancellable, BookingInv, BookingTypeOK
    <3>3. \A u \in BookTx \ {t} : Canceller(u) => breq[u].row # breq[t].row
      BY <1>3 DEF FindBooking, BookingHolders, Canceller
    <3>4. CASE breq[t].kind = "cancel"
      BY <2>2, <3>1, <3>2, <3>3, <3>4, MoveKeeps
    <3>5. CASE breq[t].kind # "cancel"
      BY <2>2, <3>1, <3>2, <3>3, <3>5, MoveKeeps
    <3> QED  BY <3>4, <3>5
  <2> QED  BY <1>3, <2>1, <2>2 DEF FindBooking
<1>4. CASE CheckNotice(t)
  <2>1. CASE Undo(t)
    BY <2>1, UndoKeeps
  <2>2. CASE Move(t, "update") /\ UNCHANGED <<slots, bookings, breq, closings>>
    <3>1. breq[t].row \in Rows /\ bstatus[breq[t].row] = "confirmed"
      BY <1>4 DEF CheckNotice, BookingInv, RequestsNameRows, StillBooked, Canceller
    <3>2. \A u \in BookTx \ {t} : Canceller(u) => breq[u].row # breq[t].row
      BY <1>4 DEF CheckNotice, BookingInv, OneCanceller, Canceller
    <3> QED  BY <2>2, <3>1, <3>2, MoveKeeps
  <2> QED  BY <1>4, <2>1, <2>2 DEF CheckNotice
<1> QED  BY <1>1, <1>2, <1>3, <1>4

-----------------------------------------------------------------------------
\* A booking takes a place that was free when it was counted: nobody else held the
\* lock of its slot since.
LEMMA InsertKeeps ==
  ASSUME BookingInv, NEW t \in BookTx, insert_occupying_booking_tx(t)
  PROVE  BookingInv'
<1> SUFFICES ASSUME NEW s, s = breq[t].slot PROVE BookingInv'
  OBVIOUS
<1>1. CASE Undo(t)
  BY <1>1, UndoKeeps
<1>2. ASSUME NEW b \in Row \ Rows,
             \A a \in occupying_bookings(s) : member[a] # breq[t].by,
             bstatus' = [bstatus EXCEPT ![b] = "confirmed"],
             member' = [member EXCEPT ![b] = breq[t].by],
             slot' = [slot EXCEPT ![b] = s],
             events' = [events EXCEPT ![b] = <<1, 0>>],
             Done(t), UNCHANGED <<slots, closings>>
      PROVE  BookingInv'
  <2>1. /\ bpc[t] = "insert" /\ Booker(t) /\ s \in Slot \ closed
        /\ Cardinality(occupying_bookings(s)) < capacity[s]
    BY DEF insert_occupying_booking_tx, BookingInv, RequestsNameRows, StillOpen, Booker,
       BookingsHold, SlotNotOversold
  <2>2. /\ bpc'[t] = "idle"
        /\ \A u \in BookTx : u # t => bpc'[u] = bpc[u] /\ breq'[u] = breq[u]
    BY <1>2 DEF Done, BookingInv, BookingTypeOK
  <2>3. BookingTypeOK'
    <3>1. breq[t].by \in Renter \cup {NoRenter}
      BY DEF BookingInv, BookingTypeOK, Ask
    <3> QED
      BY <1>2, <2>1, <3>1 DEF Done, slots, BookingInv, BookingTypeOK, Ask, NoAsk
  <2>4. /\ Rows' = Rows \cup {b}
        /\ \A a \in Row \ {b} : /\ bstatus'[a] = bstatus[a] /\ member'[a] = member[a]
                                /\ slot'[a] = slot[a] /\ events'[a] = events[a]
        /\ bstatus'[b] = "confirmed" /\ member'[b] = breq[t].by /\ slot'[b] = s
        /\ events'[b] = <<1, 0>>
    BY <1>2 DEF BookingInv, BookingTypeOK, Rows
  <2>5. /\ occupying_bookings(s)' = occupying_bookings(s) \cup {b}
        /\ \A x : x # s => occupying_bookings(x)' = occupying_bookings(x)
    BY <1>2, <2>4 DEF occupying_bookings, occupies_seat, Rows
  <2>6. \A x \in Slot : Cardinality(occupying_bookings(x))' <= capacity'[x]
    <3>1. Cardinality(occupying_bookings(s) \cup {b}) <= capacity[s]
      <4>1. /\ IsFiniteSet(occupying_bookings(s))
            /\ Cardinality(occupying_bookings(s)) \in Nat
        BY <2>1, Occupying DEF BookingInv
      <4>2. b \notin occupying_bookings(s)
        BY <1>2 DEF occupying_bookings
      <4>3. Cardinality(occupying_bookings(s) \cup {b}) = Cardinality(occupying_bookings(s)) + 1
        BY <4>1, <4>2, FS_AddElement
      <4>4. capacity[s] \in Nat
        BY <2>1 DEF BookingInv, BookingTypeOK
      <4> QED  BY <2>1, <4>1, <4>3, <4>4
    <3>2. \A x \in Slot : Cardinality(occupying_bookings(x)) <= capacity[x]
      BY DEF BookingInv, BookingsHold, SlotNotOversold
    <3> QED  BY <1>2, <2>5, <3>1, <3>2 DEF slots
  <2>7. \A x \in Slot : \A a, c \in occupying_bookings(x)' : member'[a] = member'[c] => a = c
    <3>1. \A x \in Slot : \A a, c \in occupying_bookings(x) : member[a] = member[c] => a = c
      BY DEF BookingInv, BookingsHold, SlotNotOversold
    <3>2. \A x \in Slot : \A a \in occupying_bookings(x) : a \in Row \ {b}
      BY <1>2 DEF occupying_bookings, Rows
    <3> QED  BY <1>2, <2>1, <2>4, <2>5, <3>1, <3>2
  <2>8. \A u \in BookTx : bpc'[u] = "insert" =>
          /\ Cardinality(occupying_bookings(breq[u].slot))' < capacity'[breq'[u].slot]
          /\ breq'[u].slot \notin closed' /\ breq'[u] = breq[u]
    <3> SUFFICES ASSUME NEW u \in BookTx, bpc'[u] = "insert"
                 PROVE  /\ Cardinality(occupying_bookings(breq[u].slot))' < capacity'[breq'[u].slot]
                        /\ breq'[u].slot \notin closed' /\ breq'[u] = breq[u]
      OBVIOUS
    <3>1. u # t /\ bpc[u] = "insert" /\ breq'[u] = breq[u]
      BY <2>2
    <3>2. breq[u].slot \in Slot \ {s}
      BY <2>1, <3>1 DEF BookingInv, OneBooker, Booker, RequestsNameRows
    <3>3. /\ Cardinality(occupying_bookings(breq[u].slot)) < capacity[breq[u].slot]
          /\ breq[u].slot \notin closed
      BY <3>1 DEF BookingInv, BookingsHold, SlotNotOversold
    <3>4. occupying_bookings(breq[u].slot)' = occupying_bookings(breq[u].slot)
      BY <2>5, <3>1, <3>2
    <3> QED  BY <1>2, <3>1, <3>3, <3>4 DEF slots
  <2>9. SlotNotOversold'
    BY <2>6, <2>7, <2>8 DEF SlotNotOversold
  <2>10. AnnouncedOnce'
    BY <2>4 DEF BookingInv, BookingsHold, AnnouncedOnce, Rows
  <2>11. RequestsNameRows' /\ RowsNameSlots' /\ StillOpen' /\ OneBooker' /\ OneCanceller'
    BY <1>2, <2>1, <2>2, <2>4 DEF slots, BookingInv, RequestsNameRows, RowsNameSlots, StillOpen,
       OneBooker, OneCanceller, Booker, Canceller, Rows
  <2>12. StillBooked'
    BY <2>2, <2>4 DEF BookingInv, RequestsNameRows, StillBooked, Canceller, Rows
  <2> QED
    BY <2>3, <2>9, <2>10, <2>11, <2>12 DEF BookingInv, BookingsHold
<1> QED
  BY <1>1, <1>2 DEF insert_occupying_booking_tx

\* A cancellation frees a place: the bookings of every slot are some of those before.
LEMMA CancelKeeps ==
  ASSUME BookingInv, NEW t \in BookTx, cancel_occupying_booking_tx(t)
  PROVE  BookingInv'
<1> SUFFICES ASSUME NEW b, b = breq[t].row PROVE BookingInv'
  OBVIOUS
<1>1. CASE Undo(t)
  BY <1>1, UndoKeeps
<1>2. CASE /\ bstatus' = [bstatus EXCEPT ![b] = "cancelled"]
           /\ events' = [events EXCEPT ![b][2] = @ + 1]
           /\ Done(t) /\ UNCHANGED <<slots, member, slot, closings>>
  <2>1. bpc[t] = "update" /\ b \in Rows /\ b \in Row /\ bstatus[b] = "confirmed"
    BY DEF cancel_occupying_booking_tx, BookingInv, RequestsNameRows, StillBooked, Canceller, Rows
  <2>2. /\ bpc'[t] = "idle"
        /\ \A u \in BookTx : u # t => bpc'[u] = bpc[u] /\ breq'[u] = breq[u]
    BY <1>2 DEF Done, BookingInv, BookingTypeOK
  <2>3. events[b] = <<1, 0>> /\ events'[b] = <<1, 1>>
    <3>1. events[b] = <<1, 0>>
      BY <2>1 DEF BookingInv, BookingsHold, AnnouncedOnce
    <3> QED  BY <1>2, <2>1, <3>1 DEF BookingInv, BookingTypeOK
  <2>4. BookingTypeOK'
    <3>1. events' \in [Row -> Nat \X Nat]
      BY <1>2, <2>1, <2>3 DEF BookingInv, BookingTypeOK
    <3> QED
      BY <1>2, <3>1 DEF Done, slots, BookingInv, BookingTypeOK, Ask, NoAsk
  <2>5. /\ \A a \in Row \ {b} : bstatus'[a] = bstatus[a] /\ events'[a] = events[a]
        /\ bstatus'[b] = "cancelled" /\ member' = member /\ slot' = slot /\ Rows' = Rows
    BY <1>2, <2>1 DEF BookingInv, BookingTypeOK, Rows
  <2>6. \A x : occupying_bookings(x)' \subseteq occupying_bookings(x)
    BY <2>5 DEF occupying_bookings, occupies_seat, Rows
  <2>7. \A x \in Slot : Cardinality(occupying_bookings(x)') <= Cardinality(occupying_bookings(x))
                        /\ Cardinality(occupying_bookings(x)') \in Nat
                        /\ Cardinality(occupying_bookings(x)) \in Nat
    BY <2>6, Occupying, FS_Subset, FS_CardinalityType DEF BookingInv
  <2>8. /\ \A x \in Slot : Cardinality(occupying_bookings(x)') <= capacity'[x]
        /\ \A x \in Slot : \A a, c \in occupying_bookings(x)' : member'[a] = member'[c] => a = c
    BY <1>2, <2>5, <2>6, <2>7 DEF slots, BookingInv, BookingTypeOK, BookingsHold, SlotNotOversold
  <2>9. \A u \in BookTx : bpc'[u] = "insert" =>
          /\ Cardinality(occupying_bookings(breq[u].slot)') < capacity'[breq'[u].slot]
          /\ breq'[u].slot \notin closed' /\ breq'[u] = breq[u]
    <3> SUFFICES ASSUME NEW u \in BookTx, bpc'[u] = "insert"
                 PROVE  /\ Cardinality(occupying_bookings(breq[u].slot)') < capacity'[breq'[u].slot]
                        /\ breq'[u].slot \notin closed' /\ breq'[u] = breq[u]
      OBVIOUS
    <3>1. u # t /\ bpc[u] = "insert" /\ breq'[u] = breq[u] /\ breq[u].slot \in Slot
      BY <2>2 DEF BookingInv, RequestsNameRows
    <3> SUFFICES ASSUME NEW x \in Slot, x = breq[u].slot, breq'[u].slot = x
                 PROVE  Cardinality(occupying_bookings(x)') < capacity'[x] /\ x \notin closed'
      BY <3>1
    <3>2. Cardinality(occupying_bookings(x)) < capacity[x] /\ x \notin closed
      BY <3>1 DEF BookingInv, BookingsHold, SlotNotOversold
    <3>3. capacity[x] \in Nat
      BY DEF BookingInv, BookingTypeOK
    <3> QED  BY <1>2, <2>7, <3>2, <3>3 DEF slots
  <2>10. SlotNotOversold'
    BY <2>8, <2>9 DEF SlotNotOversold
  <2>11. AnnouncedOnce'
    BY <2>1, <2>3, <2>5 DEF BookingInv, BookingsHold, AnnouncedOnce, Rows
  <2>12. RequestsNameRows' /\ RowsNameSlots' /\ StillOpen' /\ OneBooker' /\ OneCanceller'
    BY <1>2, <2>2, <2>5 DEF slots, BookingInv, RequestsNameRows, RowsNameSlots, StillOpen,
       OneBooker, OneCanceller, Booker, Canceller
  <2>13. StillBooked'
    <3> SUFFICES ASSUME NEW u \in BookTx, Canceller(u)' PROVE bstatus'[breq'[u].row] = "confirmed"
      BY DEF StillBooked
    <3>1. u # t /\ Canceller(u) /\ breq'[u] = breq[u]
      BY <2>2 DEF Canceller
    <3>2. breq[u].row # b /\ breq[u].row \in Row
      BY <2>1, <3>1 DEF BookingInv, OneCanceller, RequestsNameRows, Canceller, Rows
    <3> QED  BY <2>5, <3>1, <3>2 DEF BookingInv, StillBooked
  <2> QED
    BY <2>4, <2>10, <2>11, <2>12, <2>13 DEF BookingInv, BookingsHold
<1> QED
  BY <1>1, <1>2 DEF cancel_occupying_booking_tx

-----------------------------------------------------------------------------
\* The schedule changes: slots are added where there were none, a slot nobody holds is
\* closed or opened, and time passes.
LEMMA ScheduleKeeps ==
  ASSUME BookingInv,
         \/ \E batch \in SUBSET Slot, size \in 1..MaxCapacity : create_slots(batch, size)
         \/ \E s \in Slot : StartNears(s) \/ \E shut \in BOOLEAN : set_closed(s, shut)
  PROVE  BookingInv'
<1>1. UNCHANGED <<bookings, bpc, breq>>
  BY DEF create_slots, StartNears, set_closed
<1>2. /\ Rows' = Rows
      /\ \A x : occupying_bookings(x)' = occupying_bookings(x)
  BY <1>1 DEF bookings, Rows, occupying_bookings
<1>3. /\ RequestsNameRows' /\ RowsNameSlots' /\ OneBooker' /\ OneCanceller' /\ StillBooked'
      /\ AnnouncedOnce'
  BY <1>1, <1>2 DEF bookings, BookingInv, BookingsHold, RequestsNameRows, RowsNameSlots, OneBooker,
     OneCanceller, StillBooked, AnnouncedOnce, Booker, Canceller
<1>4. ASSUME BookingTypeOK', \A x \in Slot : capacity[x] <= capacity'[x],
             \A u \in BookTx : Booker(u) => breq[u].slot \notin closed'
      PROVE  BookingInv'
  <2>1. StillOpen'
    BY <1>1, <1>4 DEF StillOpen, Booker
  <2>2. \A x \in Slot : /\ Cardinality(occupying_bookings(x))' = Cardinality(occupying_bookings(x))
                        /\ Cardinality(occupying_bookings(x)) \in Nat
    BY <1>2, Occupying DEF BookingInv
  <2>3. \A x \in Slot : capacity[x] \in Nat /\ capacity'[x] \in Nat
    BY <1>4 DEF BookingInv, BookingTypeOK
  <2>4. \A x \in Slot :
          /\ Cardinality(occupying_bookings(x))' <= capacity'[x]
          /\ \A a, c \in occupying_bookings(x)' : member'[a] = member'[c] => a = c
    BY <1>1, <1>2, <1>4, <2>2, <2>3 DEF bookings, BookingInv, BookingsHold, SlotNotOversold
  <2>5. \A u \in BookTx : bpc'[u] = "insert" =>
          /\ breq[u].slot \in Slot /\ breq[u].slot \notin closed'
          /\ Cardinality(occupying_bookings(breq[u].slot)) < capacity[breq[u].slot]
    BY <1>1, <1>4 DEF BookingInv, BookingsHold, SlotNotOversold, RequestsNameRows, Booker
  <2>6. \A u \in BookTx : bpc'[u] = "insert" =>
          Cardinality(occupying_bookings(breq[u].slot))' < capacity'[breq[u].slot]
    BY <1>1, <1>2, <1>4, <2>2, <2>3, <2>5
  <2>7. SlotNotOversold'
    BY <1>1, <2>4, <2>5, <2>6 DEF SlotNotOversold
  <2> QED
    BY <1>3, <1>4, <2>1, <2>7 DEF BookingInv, BookingsHold
<1>5. ASSUME NEW batch \in SUBSET Slot, NEW size \in 1..MaxCapacity, create_slots(batch, size)
      PROVE  BookingInv'
  <2>1. size \in Nat /\ \A x \in batch : capacity[x] = 0
    BY <1>5, BookingAssumption DEF create_slots
  <2>2. BookingTypeOK'
    BY <1>5, <2>1 DEF create_slots, bookings, BookingInv, BookingTypeOK
  <2>3. \A x \in Slot : capacity[x] <= capacity'[x]
    BY <1>5, <2>1 DEF create_slots, BookingInv, BookingTypeOK
  <2>4. \A u \in BookTx : Booker(u) => breq[u].slot \notin closed'
    BY <1>5 DEF create_slots, BookingInv, StillOpen
  <2> QED  BY <1>4, <2>2, <2>3, <2>4
<1>6. ASSUME NEW s \in Slot, StartNears(s)
      PROVE  BookingInv'
  <2>1. BookingTypeOK'
    BY <1>6 DEF StartNears, bookings, BookingInv, BookingTypeOK
  <2>2. \A x \in Slot : capacity[x] <= capacity'[x]
    BY <1>6 DEF StartNears, BookingInv, BookingTypeOK
  <2>3. \A u \in BookTx : Booker(u) => breq[u].slot \notin closed'
    BY <1>6 DEF StartNears, BookingInv, StillOpen
  <2> QED  BY <1>4, <2>1, <2>2, <2>3
<1>7. ASSUME NEW s \in Slot, NEW shut \in BOOLEAN, set_closed(s, shut)
      PROVE  BookingInv'
  <2>1. BookingTypeOK'
    BY <1>7 DEF set_closed, bookings, BookingInv, BookingTypeOK
  <2>2. \A x \in Slot : capacity[x] <= capacity'[x]
    BY <1>7 DEF set_closed, BookingInv, BookingTypeOK
  <2>3. \A u \in BookTx : Booker(u) => breq[u].slot # s
    BY <1>7, BookingAssumption DEF set_closed, SlotHolders, Booker
  <2>4. \A u \in BookTx : Booker(u) => breq[u].slot \notin closed'
    BY <1>7, <2>3 DEF set_closed, BookingInv, StillOpen
  <2> QED  BY <1>4, <2>1, <2>2, <2>4
<1> QED  BY <1>5, <1>6, <1>7

LEMMA StepKeeps == BookingInv /\ [BookingNext]_bookingVars => BookingInv'
<1> SUFFICES ASSUME BookingInv, [BookingNext]_bookingVars PROVE BookingInv'
  OBVIOUS
<1>1. ASSUME NEW t \in BookTx, BookingStep(t) PROVE BookingInv'
  <2>1. CASE occupy_slot_tx(t) \/ CountOccupied(t) \/ FindBooking(t) \/ CheckNotice(t)
    BY <2>1, ChecksKeep
  <2>2. CASE insert_occupying_booking_tx(t)
    BY <2>2, InsertKeeps
  <2>3. CASE cancel_occupying_booking_tx(t)
    BY <2>3, CancelKeeps
  <2>4. CASE Abandon(t)
    BY <2>4, UndoKeeps DEF Abandon
  <2> QED  BY <1>1, <2>1, <2>2, <2>3, <2>4 DEF BookingStep
<1>2. ASSUME NEW t \in BookTx, NEW m \in Renter, NEW s \in Slot, AskBooking(t, m, s)
      PROVE  BookingInv'
  BY <1>2, AsksKeep
<1>3. ASSUME NEW t \in BookTx, NEW b \in Row, NEW by \in Renter \cup {NoRenter},
             AskCancellation(t, b, by)
      PROVE  BookingInv'
  BY <1>3, AsksKeep
<1>4. CASE \/ \E batch \in SUBSET Slot, size \in 1..MaxCapacity : create_slots(batch, size)
           \/ \E s \in Slot : StartNears(s) \/ \E shut \in BOOLEAN : set_closed(s, shut)
  BY <1>4, ScheduleKeeps
<1>5. CASE UNCHANGED bookingVars
  <2>1. UNCHANGED <<capacity, closed, lead, bstatus, member, slot, events, bpc, breq, closings>>
    BY <1>5 DEF bookingVars, slots, bookings
  <2>2. BookingTypeOK' /\ RequestsNameRows' /\ RowsNameSlots'
    BY <2>1 DEF BookingInv, BookingTypeOK, RequestsNameRows, RowsNameSlots, Rows
  <2>3. OneBooker' /\ OneCanceller' /\ StillOpen' /\ StillBooked'
    BY <2>1 DEF BookingInv, OneBooker, OneCanceller, StillOpen, StillBooked, Booker, Canceller
  <2>4. BookingsHold'
    BY <2>1 DEF BookingInv, BookingsHold, SlotNotOversold, AnnouncedOnce, occupying_bookings, Rows
  <2> QED BY <2>2, <2>3, <2>4 DEF BookingInv
<1> QED  BY <1>1, <1>2, <1>3, <1>4, <1>5 DEF BookingNext

\* bookings/occupancy.rs and service.rs: for any number of slots, members and concurrent
\* requests, however bookings, cancellations, failures and changes of the schedule
\* interleave, no slot is oversold, nobody holds two of its places, what a booking counted
\* under its lock is still free when it inserts, and every booking and cancellation is
\* announced exactly once.
THEOREM BookingsAreHeld == BookingSpec => []BookingsHold
<1>1. BookingInv => BookingsHold
  BY DEF BookingInv
<1> QED
  BY <1>1, InitHolds, StepKeeps, PTL DEF BookingSpec

-----------------------------------------------------------------------------
(* The rules of an order.                                                  *)

OrderTypeOK ==
  /\ quote \in [subtotal : Nat, coupon : Nat, balance : Nat, use : BOOLEAN]
  /\ buyerBalance \in Nat
  /\ status \in {"paid", "processing", "completed", "cancelled", "refunded"}

\* An order that ended was compensated once; no other was.
OrderInv == OrderTypeOK /\ undone = (IF status \in Terminal THEN 1 ELSE 0)

\* What a price is made of.
LEMMA QuotesArePriced ==
  ASSUME quote \in [subtotal : Nat, coupon : Nat, balance : Nat, use : BOOLEAN]
  PROVE  /\ priced.discount \in Nat /\ priced.used \in Nat /\ priced.total \in Nat /\ priced.earned \in Nat
         /\ priced.used <= quote.balance
         /\ priced.total + priced.discount + 100 * priced.used = quote.subtotal
         /\ quote.use = TRUE => priced.used = quote.balance \/ priced.total < 100
         /\ priced.earned = PointsEarned(priced.total)
<1> DEFINE s == quote.subtotal
           c == quote.coupon
           b == quote.balance
           u == quote.use
           after == AfterCoupon(s, c)
           used_ == PointsUsed(s, c, b, u)
           total == after - 100 * used_
<1>0. s \in Nat /\ c \in Nat /\ b \in Nat /\ u \in BOOLEAN
  OBVIOUS
<1>5. priced = [discount |-> clamp_coupon_discount(c, s), used |-> used_,
                total |-> total, earned |-> PointsEarned(total)]
  BY DEF priced, price, TotalCents
<1> HIDE DEF s, c, b, u
<1>1. /\ clamp_coupon_discount(c, s) \in Nat /\ clamp_coupon_discount(c, s) <= s
      /\ after \in Nat /\ after + clamp_coupon_discount(c, s) = s
  BY <1>0 DEF AfterCoupon, clamp_coupon_discount, Least
<1>2. used_ \in Nat /\ used_ <= b /\ 100 * used_ <= after
      /\ (u = TRUE => used_ = b \/ used_ = after \div 100)
  BY <1>0, <1>1 DEF PointsUsed, Least
<1>3. total \in Nat /\ (u = TRUE => used_ = b \/ total < 100)
  BY <1>0, <1>1, <1>2
<1>4. PointsEarned(total) \in Nat
  BY <1>3 DEF PointsEarned
<1>6. /\ priced.discount = clamp_coupon_discount(c, s) /\ priced.used = used_
      /\ priced.total = total /\ priced.earned = PointsEarned(total)
  BY <1>5
<1>7. total + clamp_coupon_discount(c, s) + 100 * used_ = s
  BY <1>0, <1>1, <1>2
<1> HIDE DEF used_, total
<1>8. /\ priced.discount \in Nat /\ priced.used \in Nat /\ priced.total \in Nat /\ priced.earned \in Nat
      /\ priced.used <= b
      /\ priced.total + priced.discount + 100 * priced.used = s
      /\ u = TRUE => priced.used = b \/ priced.total < 100
      /\ priced.earned = PointsEarned(priced.total)
  BY <1>1, <1>2, <1>3, <1>4, <1>6, <1>7
<1> QED BY <1>8 DEF s, b, u

LEMMA PricesAreExact == OrderTypeOK => PriceIsExact
<1> SUFFICES ASSUME OrderTypeOK PROVE PriceIsExact
  OBVIOUS
<1>1. ASSUME NEW t \in Nat
      PROVE  /\ 100 * PointsEarned(t) - 5 * (t \div 100) <= 50
             /\ 5 * (t \div 100) - 100 * PointsEarned(t) < 50
  BY DEF PointsEarned
<1>2. quote.use \in BOOLEAN /\ quote.subtotal \in Nat
  BY DEF OrderTypeOK
<1>3. 0 <= priced.used /\ 0 <= priced.total /\ priced.used <= quote.balance
      /\ priced.total + priced.discount + 100 * priced.used = quote.subtotal
  BY QuotesArePriced DEF OrderTypeOK
<1>4. quote.use => priced.used = quote.balance \/ priced.total < 100
  BY <1>2, QuotesArePriced, Zenon DEF OrderTypeOK
<1>5. LET nt == priced.total \div 100 IN
        100 * priced.earned - 5 * nt <= 50 /\ 5 * nt - 100 * priced.earned < 50
  BY <1>1, QuotesArePriced DEF OrderTypeOK
<1> QED BY <1>3, <1>4, <1>5 DEF PriceIsExact

LEMMA DeltasExact == OrderTypeOK => DeltasAreExact
<1> SUFFICES ASSUME OrderTypeOK PROVE DeltasAreExact
  OBVIOUS
<1>1. priced.used \in Nat /\ priced.earned \in Nat /\ priced.used <= quote.balance
  BY QuotesArePriced DEF OrderTypeOK
<1>2. quote.balance \in Nat /\ buyerBalance \in Nat
  BY DEF OrderTypeOK
<1> QED BY <1>1, <1>2 DEF DeltasAreExact, ledger_deltas, reversal_deltas, ApplyDelta, Overdrawn

LEMMA OrderInitInv == OrderInit => OrderInv
<1> SUFFICES ASSUME OrderInit PROVE OrderInv
  OBVIOUS
<1>1. quote \in [subtotal : Nat, coupon : Nat, balance : Nat, use : BOOLEAN]
  <2>1. \A n \in 0..MaxBalance : n \in Nat
    BY OrderAssumption
  <2>2. PICK s \in Subtotals, c \in CouponValues, b \in 0..MaxBalance, u \in BOOLEAN :
          quote = [subtotal |-> s, coupon |-> c, balance |-> b, use |-> u]
    BY DEF OrderInit
  <2> QED BY <2>1, <2>2, OrderAssumption
<1>2. priced.used \in Nat /\ priced.earned \in Nat /\ priced.used <= quote.balance /\ quote.balance \in Nat
  BY <1>1, QuotesArePriced
<1> QED BY <1>1, <1>2 DEF OrderInit, OrderInv, OrderTypeOK, ledger_deltas, ApplyDelta, Overdrawn, Terminal

LEMMA OrderNextKeeps == OrderInv /\ [OrderNext]_orderVars => OrderInv'
<1> SUFFICES ASSUME OrderInv, [OrderNext]_orderVars PROVE OrderInv'
  OBVIOUS
<1>1. CASE UNCHANGED orderVars
  BY <1>1 DEF orderVars, OrderInv, OrderTypeOK
<1>2. CASE Elsewhere
  BY <1>2, OrderAssumption DEF Elsewhere, OrderInv, OrderTypeOK
<1>3. ASSUME NEW target \in OrderStatus, ChangeStatus(target) PROVE OrderInv'
  <2>1. priced.used \in Nat /\ priced.earned \in Nat
    BY QuotesArePriced DEF OrderInv, OrderTypeOK
  <2>2. reversal_deltas(buyerBalance, priced) # Overdrawn => reversal_deltas(buyerBalance, priced) \in Nat
    BY <2>1 DEF reversal_deltas, ApplyDelta, Overdrawn, OrderInv, OrderTypeOK
  <2>3. CASE decide_transition(status, target) = "flip" /\ UNCHANGED <<buyerBalance, undone>> /\ status' = target
    BY <1>3, <2>3 DEF ChangeStatus, decide_transition, can_transition_to, compensation_required, is_revenue,
                Transitions, Terminal, OrderInv, OrderTypeOK, OrderStatus
  <2>4. CASE /\ decide_transition(status, target) = "flip_and_compensate" /\ status' = target
             /\ reversal_deltas(buyerBalance, priced) # Overdrawn
             /\ buyerBalance' = reversal_deltas(buyerBalance, priced) /\ undone' = undone + 1
    <3>1. status \notin Terminal /\ target \in Terminal
      BY <2>4 DEF decide_transition, compensation_required, is_revenue, Terminal
    <3>2. buyerBalance' \in Nat
      BY <2>2, <2>4
    <3> QED BY <1>3, <2>4, <3>1, <3>2 DEF ChangeStatus, Terminal, OrderInv, OrderTypeOK
  <2> QED BY <1>3, <2>3, <2>4 DEF ChangeStatus
<1> QED BY <1>1, <1>2, <1>3 DEF OrderNext

\* orders/refund.rs `decide_transition', orders/pricing.rs `price', points/model.rs
\* `ledger_deltas' and `reversal_deltas': for every subtotal, coupon and balance the
\* price splits exactly and spends what it may, the deltas never trip the CHECK of a
\* placed order, and an order is compensated exactly once if it ends.
THEOREM OrdersAlwaysAddUp == OrderSpec => []OrdersAddUp
<1>1. OrderSpec => []OrderInv
  BY OrderInitInv, OrderNextKeeps, PTL DEF OrderSpec
<1>2. OrderInv => OrdersAddUp
  BY PricesAreExact, DeltasExact DEF OrderInv, OrdersAddUp
<1> QED BY <1>1, <1>2, PTL

-----------------------------------------------------------------------------
(* Passes.  Each write is one statement on one row, so that a pass is its  *)
(* own invariant; what a refusal was told by cannot become untrue, since a *)
(* quota does not grow, time does not go back and a cancellation stands.   *)

PassTypeOK ==
  /\ day \in Nat /\ cancelled \subseteq Pass
  /\ expires_at \in [Pass -> Nat \cup {Unbounded}]
  /\ total_sessions \in [Pass -> Nat \cup {Unbounded}]
  /\ remaining_sessions \in [Pass -> Nat \cup {Unbounded}]
  /\ used \in [Pass -> Nat]
  /\ desk \in [Desk -> Pass \cup {NoPass}]
  /\ told \in [Pass -> {"nothing", "no_quota", "not_redeemable"}]

\* A pass not sold yet is blank, and no clerk looks at it.
BlankPasses == \A p \in Pass \ Bought :
  used[p] = 0 /\ told[p] = "nothing" /\ \A d \in Desk : desk[d] # p

\* A pass without a quota has no sessions to count.
Quotas == \A p \in Pass : remaining_sessions[p] = Unbounded <=> total_sessions[p] = Unbounded

PassInv == PassTypeOK /\ BlankPasses /\ Quotas /\ PassesHonoured

LEMMA PassInitInv == PassInit => PassInv
BY PassAssumption DEF PassInit, PassInv, PassTypeOK, BlankPasses, Quotas, PassesHonoured, Bought

LEMMA GrantKeeps ==
  ASSUME PassInv, NEW p \in Pass, NEW c \in 1..MaxCount \cup {Unbounded},
         NEW v \in 1..MaxDays \cup {Unbounded}, NEW q \in 1..MaxQuantity,
         grant_from_purchase_tx(p, c, v, q)
  PROVE  PassInv'
<1> DEFINE grant == plan(c, v, q)
<1>1. grant.total \in Nat \cup {Unbounded} /\ grant.total # 0
  <2>1. c # Unbounded => Wrap(c * q) \in Int
    <3> SUFFICES ASSUME c # Unbounded PROVE Wrap(c * q) \in Int
      OBVIOUS
    <3>1. c * q \in Int
      BY PassAssumption
    <3>2. c * q + Half \in Int /\ 2 * Half \in Nat \ {0}
      BY <3>1, PassAssumption
    <3>3. (c * q + Half) % (2 * Half) \in Int
      BY <3>2
    <3> QED BY <3>3, PassAssumption DEF Wrap
  <2>2. grant.total = IF c = Unbounded THEN Unbounded ELSE Wrap(c * q)
    BY DEF plan
  <2>3. grant.total # Unbounded => grant.total > 0
    BY DEF grant_from_purchase_tx
  <2>4. 0 # Unbounded
    BY PassAssumption
  <2> QED BY <2>1, <2>2, <2>3, <2>4
<1>2. grant.expires \in Nat \cup {Unbounded}
  BY PassAssumption DEF plan, PassInv, PassTypeOK
<1> HIDE DEF grant
<1>3. /\ total_sessions' = [total_sessions EXCEPT ![p] = grant.total]
      /\ remaining_sessions' = [remaining_sessions EXCEPT ![p] = grant.total]
      /\ expires_at' = [expires_at EXCEPT ![p] = grant.expires]
      /\ UNCHANGED <<day, cancelled, used, desk, told>> /\ p \notin Bought
  BY DEF grant_from_purchase_tx, grant
<1>4. PassTypeOK' /\ Quotas'
  BY <1>1, <1>2, <1>3 DEF PassInv, PassTypeOK, Quotas
<1>5. \A k \in Pass : k # p => /\ total_sessions'[k] = total_sessions[k]
                               /\ remaining_sessions'[k] = remaining_sessions[k]
                               /\ expires_at'[k] = expires_at[k]
  BY <1>3 DEF PassInv, PassTypeOK
<1>6. total_sessions'[p] = grant.total /\ remaining_sessions'[p] = grant.total
  BY <1>3 DEF PassInv, PassTypeOK
<1>7. Bought' = Bought \cup {p} /\ used[p] = 0 /\ told[p] = "nothing" /\ \A d \in Desk : desk[d] # p
  BY <1>1, <1>3, <1>5, <1>6 DEF Bought, PassInv, BlankPasses
<1>8. BlankPasses'
  BY <1>3, <1>7 DEF PassInv, BlankPasses
<1>9. PassesHonoured'
  <2> SUFFICES ASSUME NEW k \in Bought'
               PROVE  /\ total_sessions'[k] # Unbounded =>
                           /\ 0 <= remaining_sessions'[k]
                           /\ remaining_sessions'[k] + used'[k] = total_sessions'[k]
                      /\ total_sessions'[k] = Unbounded => used'[k] = 0
                      /\ (told'[k] # "nothing" \/ \E d \in Desk : desk'[d] = k) => ~Redeemable(k)'
                      /\ told'[k] # "nothing" =>
                           (told'[k] = "no_quota" <=> total_sessions'[k] = Unbounded)
    BY DEF PassesHonoured
  <2>1. CASE k = p
    BY <1>1, <1>3, <1>6, <1>7, <2>1
  <2>2. CASE k # p
    <3>1. k \in Bought /\ k \in Pass
      BY <1>7, <2>2 DEF Bought
    <3>2. Redeemable(k)' <=> Redeemable(k)
      BY <1>3, <1>5, <2>2, <3>1 DEF Redeemable, derived_status
    <3> QED BY <1>3, <1>5, <2>2, <3>1, <3>2 DEF PassInv, PassesHonoured
  <2> QED BY <2>1, <2>2
<1> QED BY <1>4, <1>8, <1>9 DEF PassInv

LEMMA RedeemKeeps ==
  ASSUME PassInv, NEW d \in Desk, NEW p \in Pass, redeem_one_session(d, p) PROVE PassInv'
<1>1. CASE /\ Redeemable(p)
           /\ remaining_sessions' = [remaining_sessions EXCEPT ![p] = @ - 1]
           /\ used' = [used EXCEPT ![p] = @ + 1]
           /\ UNCHANGED <<day, cancelled, expires_at, total_sessions, desk, told>>
  <2>1. /\ remaining_sessions[p] \in Nat /\ remaining_sessions[p] > 0 /\ remaining_sessions[p] # Unbounded
        /\ remaining_sessions[p] - 1 # Unbounded
    BY <1>1, PassAssumption DEF Redeemable, PassInv, PassTypeOK
  <2>2. PassTypeOK'
    BY <1>1, <2>1 DEF PassInv, PassTypeOK
  <2>3. Bought' = Bought /\ p \in Bought
    BY <1>1 DEF Bought, redeem_one_session
  <2>4. BlankPasses' /\ Quotas'
    BY <1>1, <2>1, <2>3 DEF PassInv, PassTypeOK, BlankPasses, Quotas, redeem_one_session
  <2>5. \A k \in Pass : k # p => remaining_sessions'[k] = remaining_sessions[k] /\ used'[k] = used[k]
    BY <1>1 DEF PassInv, PassTypeOK
  <2>6. /\ remaining_sessions'[p] = remaining_sessions[p] - 1 /\ used'[p] = used[p] + 1
        /\ used[p] \in Nat /\ total_sessions[p] \in Nat
    BY <1>1, <2>1 DEF PassInv, PassTypeOK, Quotas
  <2>7. ASSUME NEW k \in Pass PROVE Redeemable(k)' => Redeemable(k)
    <3>1. CASE k = p
      BY <1>1, <3>1
    <3>2. CASE k # p
      BY <1>1, <2>5, <3>2 DEF Redeemable, derived_status
    <3> QED BY <3>1, <3>2
  <2>8. PassesHonoured'
    <3>1. \A k \in Bought : k \in Pass
      BY DEF Bought
    <3>2. /\ 0 <= remaining_sessions'[p] /\ remaining_sessions'[p] + used'[p] = total_sessions'[p]
      BY <1>1, <2>1, <2>3, <2>6, PassAssumption DEF PassInv, PassesHonoured
    <3>3. total_sessions'[p] # Unbounded
      BY <1>1, <2>6, PassAssumption
    <3> QED BY <1>1, <2>3, <2>5, <2>7, <3>1, <3>2, <3>3 DEF PassInv, PassesHonoured
  <2> QED BY <2>2, <2>4, <2>8 DEF PassInv
<1>2. CASE ~Redeemable(p) /\ desk' = [desk EXCEPT ![d] = p] /\ UNCHANGED <<day, rows, used, told>>
  <2>1. PassTypeOK' /\ BlankPasses' /\ Quotas'
    BY <1>2 DEF rows, PassInv, PassTypeOK, BlankPasses, Quotas, Bought, redeem_one_session
  <2>2. \A e \in Desk : desk'[e] = desk[e] \/ desk'[e] = p
    BY <1>2 DEF PassInv, PassTypeOK
  <2>3. ASSUME NEW k \in Pass PROVE Redeemable(k)' <=> Redeemable(k)
    BY <1>2 DEF rows, Redeemable, derived_status
  <2>4. PassesHonoured'
    BY <1>2, <2>2, <2>3 DEF rows, PassInv, PassesHonoured, Bought
  <2> QED BY <2>1, <2>4 DEF PassInv
<1> QED BY <1>1, <1>2 DEF redeem_one_session

LEMMA ExplainKeeps == ASSUME PassInv, NEW d \in Desk, Explain(d) PROVE PassInv'
<1> DEFINE p == desk[d]
<1>1. p \in Pass /\ p \in Bought /\ ~Redeemable(p)
  BY DEF Explain, PassInv, PassTypeOK, BlankPasses, PassesHonoured
<1>2. PassTypeOK' /\ Quotas' /\ Bought' = Bought
  BY <1>1, PassAssumption DEF Explain, rows, PassInv, PassTypeOK, Quotas, Bought
<1>3. \A e \in Desk : desk'[e] = desk[e] \/ desk'[e] = NoPass
  BY DEF Explain, PassInv, PassTypeOK
<1>4. \A k \in Pass : k # p => told'[k] = told[k]
  BY DEF Explain, PassInv, PassTypeOK
<1>5. BlankPasses'
  BY <1>1, <1>2, <1>3, <1>4, PassAssumption DEF Explain, PassInv, BlankPasses
<1>6. ASSUME NEW k \in Pass PROVE Redeemable(k)' <=> Redeemable(k)
  BY DEF Explain, rows, Redeemable, derived_status
<1>7. told'[p] = IF total_sessions[p] = Unbounded THEN "no_quota" ELSE "not_redeemable"
  BY <1>1 DEF Explain, PassInv, PassTypeOK, Quotas
<1>8. PassesHonoured'
  <2>1. \A k \in Bought : k \in Pass /\ k # NoPass
    BY PassAssumption DEF Bought
  <2> QED BY <1>1, <1>2, <1>3, <1>4, <1>6, <1>7, <2>1 DEF Explain, rows, PassInv, PassesHonoured
<1> QED BY <1>2, <1>5, <1>8 DEF PassInv

\* Neither time nor a cancellation brings a refused pass back.
LEMMA WaningKeeps ==
  ASSUME PassInv, (DayPasses \/ \E ps \in SUBSET Pass : cancel_by_order_tx(ps)) PROVE PassInv'
<1>1. /\ UNCHANGED <<expires_at, total_sessions, remaining_sessions, used, desk, told>>
      /\ cancelled \subseteq cancelled' /\ cancelled' \subseteq Pass
      /\ day' \in Nat /\ day <= day'
  BY DEF DayPasses, cancel_by_order_tx, rows, PassInv, PassTypeOK
<1>2. ASSUME NEW k \in Pass PROVE Redeemable(k)' => Redeemable(k)
  BY <1>1 DEF Redeemable, derived_status, PassInv, PassTypeOK
<1>3. PassTypeOK' /\ BlankPasses' /\ Quotas'
  BY <1>1 DEF PassInv, PassTypeOK, BlankPasses, Quotas, Bought
<1>4. PassesHonoured'
  BY <1>1, <1>2 DEF PassInv, PassesHonoured, Bought
<1> QED BY <1>3, <1>4 DEF PassInv

LEMMA PassNextKeeps == PassInv /\ [PassNext]_passVars => PassInv'
<1> SUFFICES ASSUME PassInv, [PassNext]_passVars PROVE PassInv'
  OBVIOUS
<1>1. CASE UNCHANGED passVars
  BY <1>1 DEF passVars, rows, PassInv, PassTypeOK, BlankPasses, Quotas, PassesHonoured, Bought, Redeemable,
              derived_status
<1> QED BY <1>1, GrantKeeps, RedeemKeeps, ExplainKeeps, WaningKeeps DEF PassNext

\* subscriptions/service.rs `redeem': for any passes, clerks, products and integer
\* width, a pass gives the sessions it was granted and no more, and a refusal, read
\* again without a lock, is never out of date.
THEOREM PassesAreHonoured == PassSpec => []PassesHonoured
<1>1. PassSpec => []PassInv
  BY PassInitInv, PassNextKeeps, PTL DEF PassSpec
<1>2. PassInv => PassesHonoured
  BY DEF PassInv
<1> QED BY <1>1, <1>2, PTL
-----------------------------------------------------------------------------
(* The waiting list.  A request remembers the course as it was at some     *)
(* point since it was asked, so what an earlier read saw stays true of it. *)

WaitTypeOK ==
  /\ offered \in BOOLEAN /\ taken \in Int
  /\ entries \in Seq([who : Waiter \cup {NoWaiter}, waiting : BOOLEAN])
  /\ stage \in [Caller -> {"idle", "course", "seats", "waiting", "insert"}]
  /\ who \in [Caller -> Waiter \cup {NoWaiter}]
  /\ wasFull \in [Caller -> BOOLEAN] /\ wasOffered \in [Caller -> BOOLEAN]

\* An open request remembers the course as it is, and what its reads saw.
Remembered == \A c \in Caller :
  /\ stage[c] # "idle" /\ offered = TRUE => wasOffered[c] = TRUE
  /\ stage[c] # "idle" /\ is_full => wasFull[c] = TRUE
  /\ stage[c] \in {"seats", "waiting", "insert"} => wasOffered[c] = TRUE
  /\ stage[c] \in {"waiting", "insert"} => wasFull[c] = TRUE

WaitInv == WaitTypeOK /\ Remembered /\ QueueIsFair

LEMMA WaitInitInv == WaitInit => WaitInv
BY WaitAssumption DEF WaitInit, WaitInv, WaitTypeOK, Remembered, QueueIsFair, waiting_entries

LEMMA JoinKeeps ==
  ASSUME WaitInv, NEW c \in Caller,
         \/ FindCourse(c) \/ ReadSeats(c) \/ exists_waiting(c)
         \/ \E w \in Waiter : AskJoin(c, w)
  PROVE  WaitInv'
<1>1. UNCHANGED <<offered, taken, entries, queued>>
  BY DEF FindCourse, ReadSeats, exists_waiting, AskJoin, course
<1>2. WaitTypeOK'
  <2>1. CASE FindCourse(c) \/ ReadSeats(c) \/ exists_waiting(c)
    BY <1>1, <2>1 DEF FindCourse, ReadSeats, exists_waiting, Step, WaitInv, WaitTypeOK
  <2>2. ASSUME NEW w \in Waiter, AskJoin(c, w) PROVE WaitTypeOK'
    <3>1. is_full \in BOOLEAN
      BY DEF is_full
    <3> QED BY <1>1, <2>2, <3>1 DEF AskJoin, WaitInv, WaitTypeOK
  <2> QED BY <2>1, <2>2
<1>3. Remembered'
  BY <1>1 DEF FindCourse, ReadSeats, exists_waiting, AskJoin, Step, WaitInv, WaitTypeOK, Remembered,
              is_full
<1>4. QueueIsFair'
  BY <1>1 DEF WaitInv, QueueIsFair, waiting_entries
<1> QED BY <1>2, <1>3, <1>4 DEF WaitInv

LEMMA InsertEntryKeeps ==
  ASSUME WaitInv, NEW c \in Caller, InsertEntry(c)
  PROVE  WaitInv'
<1>1. /\ stage[c] = "insert" /\ stage' = [stage EXCEPT ![c] = "idle"]
      /\ UNCHANGED <<offered, taken, who, wasFull, wasOffered>>
  BY DEF InsertEntry, Step, course
<1>2. Remembered'
  BY <1>1 DEF WaitInv, WaitTypeOK, Remembered, is_full
<1>3. CASE UNCHANGED <<entries, queued>>
  BY <1>1, <1>2, <1>3 DEF WaitInv, WaitTypeOK, QueueIsFair, waiting_entries
<1>4. CASE /\ \A i \in waiting_entries : entries[i].who # who[c]
           /\ entries' = Append(entries, [who |-> who[c], waiting |-> TRUE])
           /\ queued' = (queued \/ ~wasFull[c] \/ ~wasOffered[c])
  <2> DEFINE new == [who |-> who[c], waiting |-> TRUE]
  <2>1. new \in [who : Waiter \cup {NoWaiter}, waiting : BOOLEAN] /\ new.who = who[c]
    BY DEF WaitInv, WaitTypeOK
  <2> HIDE DEF new
  <2>2. /\ DOMAIN entries = 1..Len(entries) /\ Len(entries) \in Nat
        /\ DOMAIN entries' = 1..(Len(entries) + 1)
        /\ entries'[Len(entries) + 1] = new
        /\ \A i \in 1..Len(entries) : entries'[i] = entries[i]
    BY <1>4, <2>1 DEF WaitInv, WaitTypeOK, new
  <2>3. WaitTypeOK'
    BY <1>1, <1>4, <2>1 DEF WaitInv, WaitTypeOK, new
  <2>4. queued' = FALSE
    <3>1. wasFull[c] = TRUE /\ wasOffered[c] = TRUE
      BY <1>1 DEF WaitInv, Remembered
    <3> QED BY <1>4, <3>1 DEF WaitInv, QueueIsFair
  <2>5. \A i \in waiting_entries' : i = Len(entries) + 1 \/ i \in waiting_entries
    BY <2>2 DEF waiting_entries
  <2>6. \A i \in waiting_entries : entries'[i] = entries[i] /\ entries[i].who # new.who
    BY <1>4, <2>1, <2>2 DEF waiting_entries
  <2>7. \A i, j \in waiting_entries' : entries'[i].who = entries'[j].who => i = j
    BY <2>2, <2>5, <2>6 DEF WaitInv, QueueIsFair
  <2> QED BY <1>2, <2>3, <2>4, <2>7 DEF WaitInv, QueueIsFair
<1> QED BY <1>3, <1>4 DEF InsertEntry

LEMMA WaitNextKeeps == WaitInv /\ [WaitNext]_waitVars => WaitInv'
<1> SUFFICES ASSUME WaitInv, [WaitNext]_waitVars PROVE WaitInv'
  OBVIOUS
<1>1. CASE UNCHANGED waitVars
  BY <1>1 DEF waitVars, WaitInv, WaitTypeOK, Remembered, is_full, QueueIsFair, waiting_entries
<1>2. CASE CourseChanges
  <2>1. UNCHANGED <<entries, stage, who, queued>>
    BY <1>2 DEF CourseChanges
  <2>2. WaitTypeOK'
    BY <1>2, WaitAssumption DEF CourseChanges, WaitInv, WaitTypeOK
  <2>3. Remembered'
    BY <1>2 DEF CourseChanges, WaitInv, WaitTypeOK, Remembered, is_full
  <2>4. QueueIsFair'
    BY <2>1 DEF WaitInv, QueueIsFair, waiting_entries
  <2> QED BY <2>2, <2>3, <2>4 DEF WaitInv
<1>3. ASSUME NEW i \in DOMAIN entries, NEW by \in Waiter \cup {NoWaiter}, cancel_waitlist_entry(i, by)
      PROVE  WaitInv'
  <2>1. /\ entries' = [entries EXCEPT ![i].waiting = FALSE]
        /\ UNCHANGED <<offered, taken, stage, who, wasFull, wasOffered, queued>>
    BY <1>3 DEF cancel_waitlist_entry, course, calls
  <2>2. /\ DOMAIN entries' = DOMAIN entries
        /\ \A j \in DOMAIN entries : /\ entries'[j].who = entries[j].who
                                     /\ entries'[j].waiting => entries[j].waiting
    BY <2>1 DEF WaitInv, WaitTypeOK
  <2>3. WaitTypeOK'
    <3>1. [entries[i] EXCEPT !.waiting = FALSE] \in [who : Waiter \cup {NoWaiter}, waiting : BOOLEAN]
      <4>1. entries[i] \in [who : Waiter \cup {NoWaiter}, waiting : BOOLEAN]
        <5> DEFINE Rec == [who : Waiter \cup {NoWaiter}, waiting : BOOLEAN]
        <5>1. entries \in Seq(Rec)
          BY DEF WaitInv, WaitTypeOK
        <5> HIDE DEF Rec
        <5>2. entries[i] \in Rec
          BY <1>3, <5>1
        <5> QED BY <5>2 DEF Rec
      <4> QED BY <4>1
    <3>2. entries' = [entries EXCEPT ![i] = [entries[i] EXCEPT !.waiting = FALSE]]
      BY <2>1
    <3> QED BY <2>1, <3>1, <3>2 DEF WaitInv, WaitTypeOK
  <2>4. Remembered'
    BY <2>1 DEF WaitInv, Remembered, is_full
  <2>5. waiting_entries' \subseteq waiting_entries /\ waiting_entries \subseteq DOMAIN entries
    BY <2>2 DEF waiting_entries
  <2>6. QueueIsFair'
    BY <2>1, <2>2, <2>5 DEF WaitInv, QueueIsFair
  <2> QED BY <2>3, <2>4, <2>6 DEF WaitInv
<1> QED BY <1>1, <1>2, <1>3, JoinKeeps, InsertEntryKeeps DEF WaitNext

\* waitlist/service.rs `join_waitlist': with any number of members and of requests, reading
\* without a lock, nobody stands twice in the queue, and nobody was put in it for a course
\* that was not both full and on offer at some point of their request.
THEOREM QueuesAreFair == WaitSpec => []QueueIsFair
<1>1. WaitSpec => []WaitInv
  BY WaitInitInv, WaitNextKeeps, PTL DEF WaitSpec
<1>2. WaitInv => QueueIsFair
  BY DEF WaitInv
<1> QED BY <1>1, <1>2, PTL
-----------------------------------------------------------------------------
(* Coupons.  A quote records the coupon it found; until an edit, only the  *)
(* expiry of that coupon can take it away.                                 *)

CouponTypeOK ==
  /\ hour \in Nat /\ changes \in Nat
  /\ code \in [Coupon -> Code \cup {NoCode}]
  /\ discount_cents \in [Coupon -> Nat]
  /\ is_active \in [Coupon -> BOOLEAN]
  /\ until \in [Coupon -> Nat \cup {Never}]
  /\ quoted.spelled \in Spellings \cup {NoCode}
  /\ quoted.hour \in Nat /\ quoted.changes \in Nat /\ quoted.found \in BOOLEAN

\* The unique index.
CodesDiffer == \A j, k \in Coupon : code[j] = code[k] /\ code[j] # NoCode => j = k

\* A quote is not from the future, and unless something was edited since it is what the
\* same statement finds for the hour it was given in.
QuoteStands == quoted.spelled # NoCode =>
  /\ quoted.hour <= hour /\ quoted.changes <= changes
  /\ quoted.changes = changes =>
       /\ quoted.found = FALSE => find_valid_by_code(quoted.spelled, quoted.hour) = {}
       /\ quoted.found = TRUE =>
            \E k \in find_valid_by_code(quoted.spelled, quoted.hour) :
              quoted.applied = clamp_coupon_discount(discount_cents[k], quoted.subtotal)

CouponInv == CouponTypeOK /\ CodesDiffer /\ QuoteStands

\* trim and uppercase: a spelling is of one code.
LEMMA Normalizes ==
  ASSUME NEW c \in Code, NEW s \in Spelling[c]
  PROVE  normalize_code(s) = c
BY CouponAssumption DEF normalize_code

LEMMA SpellingsMean ==
  ASSUME NEW s \in Spellings
  PROVE  normalize_code(s) \in Code /\ normalize_code(s) # NoCode /\ s # NoCode
<1>1. PICK c \in Code : s \in Spelling[c]
  BY DEF Spellings
<1> QED BY <1>1, Normalizes, CouponAssumption

LEMMA CouponInitInv == CouponInit => CouponInv
BY CouponAssumption DEF CouponInit, CouponInv, CouponTypeOK, CodesDiffer, QuoteStands, NoQuote

LEMMA EditKeeps ==
  ASSUME CouponInv, Edited,
         code' \in [Coupon -> Code \cup {NoCode}], discount_cents' \in [Coupon -> Nat],
         is_active' \in [Coupon -> BOOLEAN], until' \in [Coupon -> Nat \cup {Never}], CodesDiffer'
  PROVE  CouponInv'
<1>1. changes' = changes + 1 /\ hour' = hour /\ quoted' = quoted
  BY DEF Edited
<1>2. CouponTypeOK'
  BY <1>1 DEF CouponInv, CouponTypeOK
<1>3. QuoteStands'
  BY <1>1 DEF CouponInv, CouponTypeOK, QuoteStands
<1> QED BY <1>2, <1>3 DEF CouponInv

LEMMA AdminKeeps ==
  ASSUME CouponInv, NEW k \in Coupon, NEW v \in Nat, NEW a \in BOOLEAN, NEW e \in Nat \cup {Never},
         \/ \E s \in Spellings : create_coupon(k, s, v, e)
         \/ update_coupon(k, v, a, e) \/ delete_coupon(k)
  PROVE  CouponInv'
<1>1. CASE \E s \in Spellings : create_coupon(k, s, v, e)
  <2>1. PICK s \in Spellings : create_coupon(k, s, v, e)
    BY <1>1
  <2>2. normalize_code(s) \in Code
    BY SpellingsMean
  <2>3. CodesDiffer'
    BY <2>1 DEF create_coupon, CouponInv, CouponTypeOK, CodesDiffer
  <2>4. Edited
    BY <2>1 DEF create_coupon
  <2>5. /\ code' \in [Coupon -> Code \cup {NoCode}] /\ discount_cents' \in [Coupon -> Nat]
        /\ is_active' \in [Coupon -> BOOLEAN] /\ until' \in [Coupon -> Nat \cup {Never}]
    BY <2>1, <2>2 DEF create_coupon, CouponInv, CouponTypeOK
  <2> QED BY <2>3, <2>4, <2>5, EditKeeps
<1>2. CASE update_coupon(k, v, a, e)
  <2>1. Edited /\ CodesDiffer'
    BY <1>2 DEF update_coupon, CouponInv, CodesDiffer
  <2>2. /\ code' \in [Coupon -> Code \cup {NoCode}] /\ discount_cents' \in [Coupon -> Nat]
        /\ is_active' \in [Coupon -> BOOLEAN] /\ until' \in [Coupon -> Nat \cup {Never}]
    BY <1>2 DEF update_coupon, CouponInv, CouponTypeOK
  <2> QED BY <2>1, <2>2, EditKeeps
<1>3. CASE delete_coupon(k)
  <2>1. Edited /\ CodesDiffer'
    BY <1>3 DEF delete_coupon, CouponInv, CouponTypeOK, CodesDiffer
  <2>2. /\ code' \in [Coupon -> Code \cup {NoCode}] /\ discount_cents' \in [Coupon -> Nat]
        /\ is_active' \in [Coupon -> BOOLEAN] /\ until' \in [Coupon -> Nat \cup {Never}]
    BY <1>3 DEF delete_coupon, CouponInv, CouponTypeOK
  <2> QED BY <2>1, <2>2, EditKeeps
<1> QED BY <1>1, <1>2, <1>3

LEMMA CouponNextKeeps == CouponInv /\ [CouponNext]_couponVars => CouponInv'
<1> SUFFICES ASSUME CouponInv, [CouponNext]_couponVars PROVE CouponInv'
  OBVIOUS
<1>1. CASE UNCHANGED couponVars
  BY <1>1 DEF couponVars, couponRows, CouponInv, CouponTypeOK, CodesDiffer, QuoteStands,
     find_valid_by_code
<1>2. CASE HourPasses
  BY <1>2 DEF HourPasses, couponRows, CouponInv, CouponTypeOK, CodesDiffer, QuoteStands,
     find_valid_by_code
<1>3. ASSUME NEW s \in Spellings, NEW subtotal \in 0..MaxDiscount, validate_coupon(s, subtotal)
      PROVE  CouponInv'
  <2> DEFINE found == find_valid_by_code(s, hour)
             k == CHOOSE k \in found : TRUE
  <2>1. /\ quoted'.spelled = s /\ quoted'.subtotal = subtotal /\ quoted'.hour = hour
        /\ quoted'.changes = changes /\ quoted'.found = (found # {})
        /\ found # {} => quoted'.applied = clamp_coupon_discount(discount_cents[k], subtotal)
        /\ UNCHANGED <<hour, code, discount_cents, is_active, until, changes>>
    BY <1>3 DEF validate_coupon, couponRows
  <2>2. found # {} => k \in found
    OBVIOUS
  <2>3. find_valid_by_code(quoted.spelled, quoted.hour)' = found
    BY <2>1 DEF find_valid_by_code
  <2> HIDE DEF k, found
  <2>4. CouponTypeOK'
    BY <2>1 DEF CouponInv, CouponTypeOK
  <2>5. QuoteStands'
    <3>1. quoted.hour' = hour /\ quoted.changes' = changes /\ hour' = hour /\ changes' = changes
      BY <2>1
    <3>2. quoted.found' = FALSE => find_valid_by_code(quoted.spelled, quoted.hour)' = {}
      BY <2>1, <2>3
    <3>3. quoted.found' = TRUE =>
            /\ k \in find_valid_by_code(quoted.spelled, quoted.hour)'
            /\ quoted.applied' = clamp_coupon_discount(discount_cents'[k], quoted.subtotal')
      BY <2>1, <2>2, <2>3
    <3> QED BY <3>1, <3>2, <3>3 DEF CouponInv, CouponTypeOK, QuoteStands
  <2>6. CodesDiffer'
    BY <2>1 DEF CouponInv, CodesDiffer
  <2> QED BY <2>4, <2>5, <2>6 DEF CouponInv
<1>4. 1..MaxDiscount \subseteq Nat /\ 0..MaxHour \cup {Never} \subseteq Nat \cup {Never}
  BY CouponAssumption
<1> QED BY <1>1, <1>2, <1>3, <1>4, AdminKeeps DEF CouponNext

LEMMA KeptQuotes == CouponInv => QuoteIsKept
<1> SUFFICES ASSUME CouponInv PROVE QuoteIsKept
  OBVIOUS
<1>1. ASSUME NEW s \in Spellings, NEW atHour
      PROVE  \A j, k \in find_valid_by_code(s, atHour) : j = k
  BY SpellingsMean DEF CouponInv, CodesDiffer, find_valid_by_code
<1>2. ASSUME NEW s \in Spellings PROVE Cardinality(find_valid_by_code(s, hour)) <= 1
  <2>1. CASE find_valid_by_code(s, hour) = {}
    BY <2>1, FS_EmptySet
  <2>2. CASE find_valid_by_code(s, hour) # {}
    <3>1. PICK k : find_valid_by_code(s, hour) = {k}
      BY <1>1, <2>2
    <3> QED BY <3>1, FS_Singleton
  <2> QED BY <2>1, <2>2
<1>3. ASSUME quoted.spelled # NoCode, quoted.changes = changes,
             NEW s \in Spelling[normalize_code(quoted.spelled)]
      PROVE  IF ~quoted.found THEN Checkouts(s, quoted.subtotal) = {}
             ELSE \/ Checkouts(s, quoted.subtotal) = {quoted.applied}
                  \/ Checkouts(s, quoted.subtotal) = {} /\ quoted.hour < hour
  <2> DEFINE then == find_valid_by_code(quoted.spelled, quoted.hour)
             nowValid == find_valid_by_code(s, hour)
  <2>1. quoted.spelled \in Spellings /\ quoted.hour \in Nat /\ hour \in Nat
        /\ quoted.found \in BOOLEAN /\ until \in [Coupon -> Nat \cup {Never}]
    BY <1>3 DEF CouponInv, CouponTypeOK
  <2>2. normalize_code(s) = normalize_code(quoted.spelled) /\ s \in Spellings
    BY <1>3, <2>1, SpellingsMean, Normalizes DEF Spellings
  <2>3. quoted.hour <= hour
    BY <1>3 DEF CouponInv, QuoteStands
  <2>4. nowValid \subseteq then
    BY <2>1, <2>2, <2>3, CouponAssumption DEF find_valid_by_code
  <2>5. quoted.hour = hour => nowValid = then
    BY <2>2 DEF find_valid_by_code
  <2>6. CASE quoted.found = FALSE
    BY <1>3, <2>4, <2>6 DEF CouponInv, QuoteStands, Checkouts
  <2>7. CASE quoted.found = TRUE
    <3>1. PICK k \in then : quoted.applied = clamp_coupon_discount(discount_cents[k], quoted.subtotal)
      BY <1>3, <2>7 DEF CouponInv, QuoteStands
    <3>2. nowValid = {k} \/ (nowValid = {} /\ quoted.hour < hour)
      BY <1>1, <2>1, <2>3, <2>4, <2>5, <3>1
    <3>3. nowValid = {k} => Checkouts(s, quoted.subtotal) = {quoted.applied}
      BY <3>1 DEF Checkouts
    <3>4. nowValid = {} => Checkouts(s, quoted.subtotal) = {}
      BY DEF Checkouts
    <3> QED BY <2>7, <3>2, <3>3, <3>4
  <2> QED BY <2>1, <2>6, <2>7
<1> QED BY <1>2, <1>3 DEF QuoteIsKept

\* coupons/service.rs `validate_coupon': for any coupons and spellings and any edits, a
\* spelling means one coupon, and the discount a member was told is the one a checkout takes,
\* however the code is typed, until the next edit or the coupon's expiry.
THEOREM QuotesAreKept == CouponSpec => []QuoteIsKept
<1>1. CouponSpec => []CouponInv
  BY CouponInitInv, CouponNextKeeps, PTL DEF CouponSpec
<1> QED BY <1>1, KeptQuotes, PTL
-----------------------------------------------------------------------------
(* The session calendar.  What an edit is about to write is judged at its  *)
(* commit: the sessions it looked at keep their venue until then, and what *)
(* a reader inserts after it looked is set apart.                          *)

CalendarTypeOK ==
  /\ today \in Nat /\ attended \subseteq Date
  /\ DOMAIN reader = Reader
  /\ \A r \in Reader : DOMAIN reader[r] = {"stale", "venues"} /\ reader[r].stale \in BOOLEAN
  /\ referring[2] \in Int /\ (referring[1] = "attendance" => referring[2] \in Date)
  /\ DOMAIN edit = {"stage", "today", "slots", "updated", "deleted"} /\ edit.today \in Nat

\* A reader that no edit overtook holds the schedule's venues.
ReadersAgree == \A r \in Reader : reader[r].stale = FALSE =>
  \A d \in DOMAIN reader[r].venues : reader[r].venues[d] = schedule[dow(d)]

\* Attendance is taken of sessions that have begun, and the edit is of today or earlier.
Begun ==
  /\ \A d \in attended : d <= today
  /\ referring[1] = "attendance" => referring[2] <= today
  /\ edit.today <= today
  /\ \A d \in edit.deleted : edit.today < d
  /\ edit.stage \in {"idle", "asked", "replaced"} => edit.updated = {}

\* What an edit that has looked at the sessions will leave behind.
EditSees ==
  /\ \A d \in edit.updated : edit.slots[dow(d)] # NoVenue
  /\ edit.stage \in {"updated", "deleted"} =>
       \A d \in Sessions \ straddled : edit.today < d =>
         edit.slots[dow(d)] = NoVenue \/ Aligned(edit.slots, d) \/ d \in edit.updated
  /\ edit.stage = "deleted" =>
       \A d \in Sessions \ straddled : edit.today < d =>
         (edit.slots[dow(d)] = NoVenue => d \in edit.deleted \cup leave \cup attended)

CalendarInv == CalendarTypeOK /\ ReadersAgree /\ Begun /\ EditSees /\ FutureFollowsSchedule

LEMMA CalendarInitInv == CalendarInit => CalendarInv
<1> SUFFICES ASSUME CalendarInit PROVE CalendarInv
  OBVIOUS
<1>1. Sessions = {}
  BY DEF CalendarInit, Sessions
<1>2. CalendarTypeOK
  <2>1. DOMAIN NoRead = {"stale", "venues"} /\ NoRead.stale = FALSE
    BY DEF NoRead
  <2>2. DOMAIN NoEdit = {"stage", "today", "slots", "updated", "deleted"} /\ NoEdit.today = 0
    BY DEF NoEdit
  <2>3. Nothing[1] = "none" /\ Nothing[2] = 0
    BY DEF Nothing
  <2>4. DOMAIN reader = Reader /\ \A r \in Reader : reader[r] = NoRead
    BY DEF CalendarInit
  <2>5. today = 1 /\ attended = {} /\ referring = Nothing /\ edit = NoEdit
    BY DEF CalendarInit
  <2>6. /\ today \in Nat /\ attended \subseteq Date
        /\ DOMAIN edit = {"stage", "today", "slots", "updated", "deleted"} /\ edit.today \in Nat
    BY <2>2, <2>5
  <2>7. \A r \in Reader : DOMAIN reader[r] = {"stale", "venues"} /\ reader[r].stale \in BOOLEAN
    BY <2>1, <2>4
  <2>8. referring[2] \in Int /\ (referring[1] = "attendance" => referring[2] \in Date)
    BY <2>3, <2>5
  <2> QED BY <2>4, <2>6, <2>7, <2>8 DEF CalendarTypeOK
<1>3. ReadersAgree /\ Begun /\ EditSees
  BY <1>1 DEF CalendarInit, ReadersAgree, Begun, EditSees, NoRead, NoEdit, Nothing
<1> QED BY <1>1, <1>2, <1>3 DEF CalendarInv, CalendarInit, FutureFollowsSchedule

LEMMA ReadingKeeps ==
  ASSUME CalendarInv, NEW r \in Reader,
         InsertSessions(r) \/ \E from, to \in Date : SelectCandidates(r, from, to)
  PROVE  CalendarInv'
<1>1. CASE \E from, to \in Date : SelectCandidates(r, from, to)
  <2>1. PICK from, to \in Date : SelectCandidates(r, from, to)
    BY <1>1
  <2>2. /\ UNCHANGED <<today, schedule, session, leave, attended, referring, edit, edits, straddled, lost>>
        /\ \A x \in Reader : x # r => reader'[x] = reader[x]
        /\ reader'[r].stale = FALSE /\ DOMAIN reader' = Reader /\ DOMAIN reader'[r] = {"stale", "venues"}
        /\ \A d \in DOMAIN reader'[r].venues : reader'[r].venues[d] = schedule[dow(d)]
    BY <2>1 DEF SelectCandidates, CalendarInv, CalendarTypeOK
  <2>3. Sessions' = Sessions
    BY <2>2 DEF Sessions
  <2>4. CalendarTypeOK'
    BY <2>2 DEF CalendarInv, CalendarTypeOK
  <2>5. ReadersAgree'
    BY <2>2 DEF CalendarInv, ReadersAgree
  <2>6. Begun' /\ EditSees' /\ FutureFollowsSchedule'
    BY <2>2, <2>3 DEF CalendarInv, Begun, EditSees, FutureFollowsSchedule, Aligned
  <2> QED BY <2>4, <2>5, <2>6 DEF CalendarInv
<1>2. CASE InsertSessions(r)
  <2> DEFINE new == DOMAIN reader[r].venues \ Sessions
  <2>1. /\ UNCHANGED <<today, schedule, leave, attended, referring, edit, edits, lost>>
        /\ session' = [d \in Date |-> IF d \in new THEN reader[r].venues[d] ELSE session[d]]
        /\ straddled' = IF reader[r].stale \/ edit.stage \in {"updated", "deleted"}
                        THEN straddled \cup new ELSE straddled
        /\ reader' = [reader EXCEPT ![r] = NoRead]
    BY <1>2 DEF InsertSessions
  <2>2. straddled \subseteq straddled'
    BY <2>1
  <2> HIDE DEF new
  <2>3. \A d \in Sessions' : (d \in Sessions /\ session'[d] = session[d]) \/ d \in new
    BY <2>1 DEF Sessions
  <2>4. CalendarTypeOK'
    BY <2>1 DEF CalendarInv, CalendarTypeOK, NoRead
  <2>5. ReadersAgree'
    BY <2>1 DEF CalendarInv, CalendarTypeOK, ReadersAgree, NoRead
  <2>6. Begun'
    BY <2>1 DEF CalendarInv, Begun
  <2>7. EditSees'
    <3>1. edit.stage \in {"updated", "deleted"} => new \subseteq straddled'
      BY <2>1
    <3>2. edit.stage \in {"updated", "deleted"} =>
            \A d \in Sessions' \ straddled' : d \in Sessions \ straddled /\ session'[d] = session[d]
      BY <2>2, <2>3, <3>1
    <3> QED BY <2>1, <3>2 DEF CalendarInv, EditSees, Aligned
  <2>8. FutureFollowsSchedule'
    <3>1. ASSUME NEW d \in Sessions', d > today, d \in new
          PROVE  Aligned(schedule, d)' \/ d \in straddled'
      <4>1. CASE reader[r].stale = FALSE
        <5>1. d \in Date /\ d \in DOMAIN reader[r].venues
          BY <3>1 DEF Sessions, new
        <5> QED BY <2>1, <3>1, <4>1, <5>1 DEF CalendarInv, ReadersAgree, Aligned
      <4>2. CASE reader[r].stale # FALSE
        <5>1. reader[r].stale = TRUE
          BY <4>2 DEF CalendarInv, CalendarTypeOK
        <5> QED BY <2>1, <3>1, <5>1
      <4> QED BY <4>1, <4>2
    <3>2. ASSUME NEW d \in Sessions', d > today, d \in Sessions, session'[d] = session[d]
          PROVE  \/ Aligned(schedule, d)'
                 \/ schedule'[dow(d)] = NoVenue /\ d \in leave' \cup attended'
                 \/ d \in straddled'
      BY <2>1, <2>2, <3>2 DEF CalendarInv, FutureFollowsSchedule, Aligned
    <3> QED BY <2>1, <2>3, <3>1, <3>2 DEF CalendarInv, FutureFollowsSchedule
  <2> QED BY <2>4, <2>5, <2>6, <2>7, <2>8 DEF CalendarInv
<1> QED BY <1>1, <1>2

\* What moves neither the schedule nor the sessions nor what readers hold.
LEMMA PassingKeeps ==
  ASSUME CalendarInv, Midnight \/ CommitReference \/ (\E k \in {"leave", "attendance"}, d \in Date : Refer(k, d))
  PROVE  CalendarInv'
<1>1. /\ UNCHANGED <<schedule, session, reader, edit, straddled, lost>>
      /\ leave \subseteq leave' /\ attended \subseteq attended'
      /\ Sessions' = Sessions
  BY DEF Midnight, CommitReference, Refer, Sessions
<1>2. /\ today' \in Nat /\ today <= today' /\ attended' \subseteq Date /\ referring'[2] \in Int
      /\ referring'[1] = "attendance" => referring'[2] \in Date
  <2>1. /\ today \in Nat /\ attended \subseteq Date /\ referring[2] \in Int
        /\ referring[1] = "attendance" => referring[2] \in Date
    BY DEF CalendarInv, CalendarTypeOK
  <2>2. CASE Midnight
    BY <2>1, <2>2 DEF Midnight
  <2>3. CASE CommitReference
    BY <2>1, <2>3 DEF CommitReference, Nothing
  <2>4. ASSUME NEW k \in {"leave", "attendance"}, NEW d \in Date, Refer(k, d)
        PROVE  /\ today' \in Nat /\ today <= today' /\ attended' \subseteq Date /\ referring'[2] \in Int
               /\ referring'[1] = "attendance" => referring'[2] \in Date
    <3>1. d \in Int
      BY DEF Date
    <3> QED BY <2>1, <2>4, <3>1 DEF Refer
  <2> QED BY <2>2, <2>3, <2>4
<1>3. (\A d \in attended' : d <= today') /\ (referring'[1] = "attendance" => referring'[2] <= today')
  <2>1. CASE Midnight
    <3>1. /\ attended' = attended /\ referring' = referring /\ today' = today + 1 /\ today \in Nat
          /\ \A d \in attended : d \in Int /\ d <= today
          /\ referring[2] \in Int /\ (referring[1] = "attendance" => referring[2] <= today)
      BY <2>1 DEF Midnight, CalendarInv, CalendarTypeOK, Begun, Date
    <3> QED BY <3>1
  <2>2. CASE CommitReference
    BY <2>2 DEF CommitReference, CalendarInv, CalendarTypeOK, Begun, Nothing
  <2>3. CASE \E k \in {"leave", "attendance"}, d \in Date : Refer(k, d)
    BY <2>3 DEF Refer, CalendarInv, Begun
  <2> QED BY <2>1, <2>2, <2>3
<1>4. edit.today \in Int
  BY DEF CalendarInv, CalendarTypeOK
<1>5. CalendarTypeOK' /\ ReadersAgree'
  BY <1>1, <1>2 DEF CalendarInv, CalendarTypeOK, ReadersAgree
<1>6. Begun'
  BY <1>1, <1>2, <1>3, <1>4 DEF CalendarInv, CalendarTypeOK, Begun
<1>7. EditSees'
  BY <1>1 DEF CalendarInv, EditSees, Aligned
<1>8. FutureFollowsSchedule'
  <2>1. \A d \in Sessions : d > today' => d > today
    BY <1>2 DEF CalendarInv, CalendarTypeOK, Sessions, Date
  <2> QED BY <1>1, <2>1 DEF CalendarInv, FutureFollowsSchedule, Aligned
<1> QED BY <1>5, <1>6, <1>7, <1>8 DEF CalendarInv

LEMMA EditingKeeps ==
  ASSUME CalendarInv,
         \/ AskEdit \/ UpdateFuture \/ DeleteOrphans \/ AbandonEdit
         \/ \E slots_ \in [Weekday -> Venue \cup {NoVenue}] : replace_slots_tx(slots_)
  PROVE  CalendarInv'
<1>1. UNCHANGED <<today, schedule, session, leave, attended, referring, reader, straddled, lost>>
  <2>1. CASE AskEdit
    BY <2>1 DEF AskEdit
  <2>2. CASE UpdateFuture
    BY <2>2 DEF UpdateFuture
  <2>3. CASE DeleteOrphans
    BY <2>3 DEF DeleteOrphans
  <2>4. CASE AbandonEdit
    BY <2>4 DEF AbandonEdit
  <2>5. CASE \E new \in [Weekday -> Venue \cup {NoVenue}] : replace_slots_tx(new)
    BY <2>5 DEF replace_slots_tx
  <2> QED BY <2>1, <2>2, <2>3, <2>4, <2>5
<1>2. ReadersAgree' /\ FutureFollowsSchedule' /\ Sessions' = Sessions /\ Sessions \subseteq Date
  BY <1>1 DEF CalendarInv, ReadersAgree, FutureFollowsSchedule, Aligned, Sessions
<1>3. ASSUME CalendarTypeOK', Begun', EditSees' PROVE CalendarInv'
  BY <1>2, <1>3 DEF CalendarInv
<1>4. CASE AskEdit \/ AbandonEdit
  <2>1. /\ edit'.stage \in {"idle", "asked"} /\ edit'.updated = {} /\ edit'.deleted = {}
        /\ edit'.today \in {0, today}
        /\ DOMAIN edit' = {"stage", "today", "slots", "updated", "deleted"}
    <3>1. CASE AskEdit
      BY <3>1 DEF AskEdit, NoEdit
    <3>2. CASE AbandonEdit
      BY <3>2 DEF AbandonEdit, NoEdit
    <3> QED BY <1>4, <3>1, <3>2
  <2>2. CalendarTypeOK'
    BY <1>1, <2>1 DEF CalendarInv, CalendarTypeOK
  <2>3. Begun' /\ EditSees'
    BY <1>1, <2>1 DEF CalendarInv, CalendarTypeOK, Begun, EditSees
  <2> QED BY <1>3, <2>2, <2>3
<1>5. ASSUME NEW new \in [Weekday -> Venue \cup {NoVenue}], replace_slots_tx(new)
      PROVE  CalendarInv'
  <2>1. edit.stage = "asked" /\ edit' = [edit EXCEPT !.stage = "replaced", !.slots = new]
    BY <1>5, Zenon DEF replace_slots_tx
  <2>2. /\ edit'.stage = "replaced" /\ edit'.today = edit.today /\ edit'.deleted = edit.deleted
        /\ edit'.updated = edit.updated /\ DOMAIN edit' = DOMAIN edit
    BY <2>1 DEF CalendarInv, CalendarTypeOK
  <2>3. CalendarTypeOK' /\ Begun' /\ EditSees'
    BY <1>1, <2>1, <2>2 DEF CalendarInv, CalendarTypeOK, Begun, EditSees
  <2> QED BY <1>3, <2>3
<1>6. CASE UpdateFuture
  <2>1. /\ edit'.stage = "updated" /\ edit'.today = edit.today /\ edit'.slots = edit.slots
        /\ edit'.deleted = edit.deleted
        /\ edit'.updated = {d \in Sessions : /\ d > edit.today
                                             /\ edit.slots[dow(d)] # NoVenue
                                             /\ ~Aligned(edit.slots, d)}
        /\ DOMAIN edit' = DOMAIN edit
    BY <1>6 DEF UpdateFuture, CalendarInv, CalendarTypeOK
  <2>2. CalendarTypeOK' /\ Begun'
    BY <1>1, <2>1 DEF CalendarInv, CalendarTypeOK, Begun
  <2>3. EditSees'
    BY <1>1, <1>2, <2>1 DEF CalendarInv, CalendarTypeOK, EditSees, Aligned, Date
  <2> QED BY <1>3, <2>2, <2>3
<1>7. CASE DeleteOrphans
  <2>1. /\ edit'.stage = "deleted" /\ edit'.today = edit.today /\ edit'.slots = edit.slots
        /\ edit'.updated = edit.updated /\ edit.stage = "updated"
        /\ edit'.deleted = {d \in Sessions \ (leave \cup attended) :
                              d > edit.today /\ edit.slots[dow(d)] = NoVenue}
        /\ DOMAIN edit' = DOMAIN edit
    BY <1>7 DEF DeleteOrphans, CalendarInv, CalendarTypeOK
  <2>2. CalendarTypeOK'
    BY <1>1, <2>1 DEF CalendarInv, CalendarTypeOK
  <2>3. Begun'
    BY <1>1, <1>2, <2>1 DEF CalendarInv, CalendarTypeOK, Begun, Date
  <2>4. EditSees'
    BY <1>1, <1>2, <2>1 DEF CalendarInv, CalendarTypeOK, EditSees, Aligned, Date
  <2> QED BY <1>3, <2>2, <2>3, <2>4
<1> QED BY <1>4, <1>5, <1>6, <1>7

LEMMA CommitKeeps ==
  ASSUME CalendarInv, CommitEdit
  PROVE  CalendarInv'
<1>1. edit' = NoEdit /\ UNCHANGED <<today, leave, referring>> /\ edit.stage = "deleted"
  BY DEF CommitEdit
<1>2. /\ edit'.stage = "idle" /\ edit'.today = 0 /\ edit'.deleted = {} /\ edit'.updated = {}
      /\ DOMAIN edit' = {"stage", "today", "slots", "updated", "deleted"}
  BY <1>1 DEF NoEdit
<1>3. CASE UNCHANGED <<schedule, session, attended, reader, straddled, lost>>
  BY <1>1, <1>2, <1>3 DEF CalendarInv, CalendarTypeOK, ReadersAgree, Begun, EditSees,
     FutureFollowsSchedule, Aligned, Sessions
<1>4. CASE /\ schedule' = edit.slots
           /\ session' = [d \in Date |-> IF d \in edit.deleted THEN NoVenue
                                         ELSE IF d \in edit.updated THEN edit.slots[dow(d)]
                                         ELSE session[d]]
           /\ attended' = attended \ edit.deleted
           /\ lost' = lost \cup {<<edit.today, today>> : d \in attended \cap edit.deleted}
           /\ straddled' = straddled \ (edit.updated \cup edit.deleted)
           /\ reader' = [r \in Reader |-> IF reader[r] = NoRead THEN NoRead
                                          ELSE [reader[r] EXCEPT !.stale = TRUE]]
  <2>1. \A r \in Reader :
          /\ DOMAIN reader'[r] = {"stale", "venues"} /\ reader'[r].stale \in BOOLEAN
          /\ reader'[r].stale = FALSE => DOMAIN reader'[r].venues = {}
    BY <1>4 DEF NoRead, CalendarInv, CalendarTypeOK
  <2>2. CalendarTypeOK'
    <3>1. DOMAIN reader' = Reader /\ attended' \subseteq attended
      BY <1>4
    <3> QED BY <1>1, <1>2, <2>1, <3>1 DEF CalendarInv, CalendarTypeOK
  <2>3. ReadersAgree'
    BY <2>1 DEF ReadersAgree
  <2>4. Begun' /\ EditSees'
    BY <1>1, <1>2, <1>4 DEF CalendarInv, CalendarTypeOK, Begun, EditSees
  <2>5. ASSUME NEW d \in Sessions', d > today'
        PROVE  \/ Aligned(schedule, d)'
               \/ schedule'[dow(d)] = NoVenue /\ d \in leave' \cup attended'
               \/ d \in straddled'
    <3>1. d \in Date /\ d \notin edit.deleted /\ session'[d] # NoVenue /\ edit.today < d
      BY <1>1, <1>4, <2>5 DEF Sessions, Date, CalendarInv, CalendarTypeOK, Begun
    <3>2. CASE d \in edit.updated
      BY <1>4, <3>1, <3>2 DEF Aligned
    <3>3. CASE d \notin edit.updated
      <4>1. session'[d] = session[d] /\ d \in Sessions
        BY <1>4, <3>1, <3>3 DEF Sessions
      <4> QED BY <1>1, <1>4, <3>1, <3>3, <4>1 DEF CalendarInv, EditSees, Aligned
    <3> QED BY <3>2, <3>3
  <2>6. ASSUME NEW d \in attended \cap edit.deleted PROVE edit.today < today
    BY DEF CalendarInv, CalendarTypeOK, Begun, Date
  <2>7. \A l \in lost' : l[1] < l[2]
    BY <1>4, <2>6 DEF CalendarInv, FutureFollowsSchedule
  <2>8. FutureFollowsSchedule'
    BY <2>5, <2>7 DEF FutureFollowsSchedule
  <2> QED BY <2>2, <2>3, <2>4, <2>8 DEF CalendarInv
<1> QED BY <1>3, <1>4 DEF CommitEdit

LEMMA CalendarNextKeeps == CalendarInv /\ [CalendarNext]_calendarVars => CalendarInv'
<1> SUFFICES ASSUME CalendarInv, [CalendarNext]_calendarVars PROVE CalendarInv'
  OBVIOUS
<1>1. CASE UNCHANGED calendarVars
  BY <1>1 DEF calendarVars, CalendarInv, CalendarTypeOK, ReadersAgree, Begun, EditSees,
     FutureFollowsSchedule, Aligned, Sessions
<1>2. CASE CalendarNext
  BY <1>2, ReadingKeeps, PassingKeeps, EditingKeeps, CommitKeeps, Zenon DEF CalendarNext
<1> QED BY <1>1, <1>2

\* calendar.rs `reconcile_future_sessions_tx': for any schedule, readers and edits, however
\* their statements interleave, a session to come is the one the weekly schedule says,
\* unless a leave request or attendance keeps one that lost its slot, or a reader that an
\* edit overtook wrote it; and attendance vanishes only under an edit of an earlier day.
THEOREM CalendarsFollowSchedules == CalendarSpec => []FutureFollowsSchedule
<1>1. CalendarSpec => []CalendarInv
  BY CalendarInitInv, CalendarNextKeeps, PTL DEF CalendarSpec
<1>2. CalendarInv => FutureFollowsSchedule
  BY DEF CalendarInv
<1> QED BY <1>1, <1>2, PTL
-----------------------------------------------------------------------------
(* Rewards and the points page.  A redemption holds the reward from the    *)
(* moment it reads it, and the member's balance from the moment it is      *)
(* found to cover the price; a balance is the sum of its ledger.           *)

Entry == [at : Int, delta : Int]

\* A wish of an open request names a member and a price.
RewardTypeOK ==
  /\ clock \in Nat /\ stock \in Int \cup {Unlimited} /\ cost \in Nat
  /\ restocked[2] \in Nat /\ (stock # Unlimited => restocked[1] \in Int)
  /\ balance \in [Saver -> Int] /\ ledger \in [Saver -> Seq(Entry)]
  /\ redemptions \in Seq([by : Saver, points_spent : Nat])
  /\ wpc \in [SpendTx -> {"idle", "reward", "user", "commit"}]
  /\ wreq \in [SpendTx -> [by : Saver \cup {NoSaver}, now : Nat, cost : Nat]]
  /\ \A t \in SpendTx : wpc[t] # "idle" => wreq[t].by \in Saver

\* One request at most holds the reward; it knows the price, and that there is stock.
RewardLocked ==
  /\ \A t, u \in SpendTx : wpc[t] \in {"user", "commit"} /\ wpc[u] \in {"user", "commit"} => t = u
  /\ \A t \in SpendTx : wpc[t] = "user" => stock # 0 /\ wreq[t].cost = cost

\* What a member is being told was read at one instant.
PageReads ==
  /\ page.told \in BOOLEAN /\ DOMAIN page = {"of", "rows", "balance", "told"}
  /\ page.of # NoSaver /\ page.told = FALSE =>
       page.rows \in Seq(Entry) /\ page.balance = Total(page.rows)

RewardInv == RewardTypeOK /\ RewardLocked /\ PageReads /\ RewardsConserved /\ LedgerChains

LEMMA DeltasInt ==
  ASSUME NEW list \in Seq(Entry)
  PROVE  /\ IsFiniteSet(DOMAIN list) /\ DOMAIN list = 1..Len(list) /\ Len(list) \in Nat
         /\ \A i \in DOMAIN list : /\ list[i].at \in Int /\ list[i].delta \in Int
                                   /\ Deltas(list)[i] = list[i].delta
<1>1. DOMAIN list = 1..Len(list) /\ Len(list) \in Nat /\ \A i \in DOMAIN list : list[i] \in Entry
  OBVIOUS
<1>2. IsFiniteSet(1..Len(list))
  <2>1. \A n \in Nat : IsFiniteSet(1..n)
    BY FS_Interval
  <2> QED BY <1>1, <2>1
<1> QED BY <1>1, <1>2 DEF Deltas, Entry

\* A row more moves the total by what it moves.
LEMMA TotalAppend ==
  ASSUME NEW list \in Seq(Entry), NEW row \in Entry
  PROVE  Total(Append(list, row)) = Total(list) + row.delta
<1> DEFINE longer == Append(list, row)
           n == Len(list) + 1
<1>1. longer \in Seq(Entry)
  OBVIOUS
<1>2. /\ Len(list) \in Nat /\ DOMAIN list = 1..Len(list) /\ n \notin DOMAIN list
      /\ DOMAIN longer = DOMAIN list \cup {n} /\ longer[n] = row
      /\ \A i \in DOMAIN list : longer[i] = list[i]
  OBVIOUS
<1> HIDE DEF longer, n
<1>3. row.delta \in Int
  BY DEF Entry
<1>4. \A i \in DOMAIN list : Deltas(longer)[i] = Deltas(list)[i] /\ Deltas(list)[i] \in Int
  BY <1>2, DeltasInt DEF Deltas
<1>5. Deltas(longer)[n] = row.delta
  BY <1>2 DEF Deltas
<1>6. SumFunctionOnSet(Deltas(longer), DOMAIN list) = SumFunctionOnSet(Deltas(list), DOMAIN list)
  BY <1>4, DeltasInt, SumAgrees
<1>7. \A i \in DOMAIN list : Deltas(longer)[i] \in Int
  BY <1>4
<1>8. SumFunctionOnSet(Deltas(longer), DOMAIN list \cup {n}) =
        Deltas(longer)[n] + SumFunctionOnSet(Deltas(longer), DOMAIN list)
  BY <1>2, <1>3, <1>5, <1>7, DeltasInt, SumInsert
<1>9. SumFunctionOnSet(Deltas(list), DOMAIN list) \in Int
  BY <1>4, DeltasInt, SumInt
<1>10. SumFunctionOnSet(Deltas(longer), DOMAIN longer) =
         SumFunctionOnSet(Deltas(list), DOMAIN list) + row.delta
  BY <1>2, <1>3, <1>5, <1>6, <1>8, <1>9
<1> QED BY <1>10 DEF Total, longer

\* The page of a ledger chains from its total back to nothing.
LEMMA PagesChain ==
  ASSUME NEW list \in Seq(Entry)
  PROVE  LET listed == find_ledger_by_user(Total(list), list) IN
         /\ list = <<>> => Total(list) = 0
         /\ DOMAIN listed = DOMAIN list
         /\ \A i \in DOMAIN list : listed[i].at = list[i].at /\ listed[i].delta = list[i].delta
         /\ \A i \in DOMAIN list :
              (\A j \in DOMAIN list : ~Newer(list, j, i)) => listed[i].balance_after = Total(list)
         /\ \A i, j \in DOMAIN list :
              /\ Newer(list, j, i)
              /\ \A k \in DOMAIN list : ~(Newer(list, j, k) /\ Newer(list, k, i))
              => listed[i].balance_after = listed[j].balance_after - listed[j].delta
         /\ \A i \in DOMAIN list :
              (\A j \in DOMAIN list : ~Newer(list, i, j)) => listed[i].balance_after = listed[i].delta
<1> DEFINE listed == find_ledger_by_user(Total(list), list)
           newer(i) == {j \in DOMAIN list : Newer(list, j, i)}
           f == Deltas(list)
           S == DOMAIN list
           T == Total(list)
<1>1. /\ IsFiniteSet(S)
      /\ \A i \in S : list[i].at \in Int /\ list[i].delta \in Int /\ f[i] = list[i].delta /\ i \in Int
  BY DeltasInt
<1>2. \A i, j, k \in S :
        /\ ~Newer(list, i, i)
        /\ Newer(list, i, j) /\ Newer(list, j, k) => Newer(list, i, k)
        /\ i # j => Newer(list, i, j) \/ Newer(list, j, i)
        /\ ~(Newer(list, i, j) /\ Newer(list, j, i))
  BY <1>1 DEF Newer
<1>3. \A i \in S : listed[i] = [at |-> list[i].at, delta |-> list[i].delta,
                              balance_after |-> T - SumFunctionOnSet(f, newer(i))]
  BY DEF find_ledger_by_user
<1>4. DOMAIN listed = S
  BY DEF find_ledger_by_user
<1>5. \A i \in S : newer(i) \subseteq S /\ IsFiniteSet(newer(i)) /\ i \notin newer(i)
  BY <1>1, <1>2, FS_Subset
<1>6. T = SumFunctionOnSet(f, S)
  BY DEF Total
<1>7. \A i, j \in S : j \in newer(i) <=> Newer(list, j, i)
  OBVIOUS
<1> HIDE DEF listed, newer, f, T, S
<1>6a. \A i \in S : listed[i].at = list[i].at /\ listed[i].delta = list[i].delta
         /\ listed[i].balance_after = T - SumFunctionOnSet(f, newer(i))
  <2> TAKE i \in S
  <2> DEFINE b == T - SumFunctionOnSet(f, newer(i))
  <2>1. listed[i] = [at |-> list[i].at, delta |-> list[i].delta, balance_after |-> b]
    BY <1>3
  <2> HIDE DEF b
  <2>2. listed[i].at = list[i].at /\ listed[i].delta = list[i].delta /\ listed[i].balance_after = b
    BY <2>1
  <2> QED BY <2>2 DEF b
<1>8. T \in Int
  BY <1>1, <1>6, SumInt
<1>9. \A i \in S : SumFunctionOnSet(f, newer(i)) \in Int
  <2> TAKE i \in S
  <2>1. \A x \in newer(i) : f[x] \in Int
    BY <1>1, <1>5
  <2> QED BY <1>5, <2>1, SumInt
<1>10. ASSUME list = <<>> PROVE T = 0
  <2>1. S = {}
    BY <1>10 DEF S
  <2> QED BY <1>6, <2>1, SumEmpty
<1>11. ASSUME NEW i \in S, \A j \in S : ~Newer(list, j, i) PROVE listed[i].balance_after = T
  <2>1. newer(i) = {}
    BY <1>5, <1>7, <1>11
  <2>2. SumFunctionOnSet(f, newer(i)) = 0
    BY <2>1, SumEmpty
  <2> QED BY <1>6a, <1>8, <2>2
<1>12. ASSUME NEW i \in S, NEW j \in S, Newer(list, j, i),
              \A k \in S : ~(Newer(list, j, k) /\ Newer(list, k, i))
       PROVE  listed[i].balance_after = listed[j].balance_after - listed[j].delta
  <2>1. newer(i) = newer(j) \cup {j}
    BY <1>2, <1>5, <1>7, <1>12
  <2>2. f[j] \in Int /\ (\A x \in newer(j) : f[x] \in Int) /\ j \notin newer(j) /\ IsFiniteSet(newer(j))
    BY <1>1, <1>5
  <2>3. SumFunctionOnSet(f, newer(j) \cup {j}) = f[j] + SumFunctionOnSet(f, newer(j))
    BY <2>2, SumInsert
  <2>4. f[j] = listed[j].delta
    BY <1>1, <1>6a
  <2> DEFINE s == SumFunctionOnSet(f, newer(j))
             e == SumFunctionOnSet(f, newer(i))
  <2>5. e = f[j] + s /\ s \in Int /\ f[j] \in Int
    BY <1>9, <2>1, <2>2, <2>3
  <2>6. listed[i].balance_after = T - e /\ listed[j].balance_after = T - s
    BY <1>6a
  <2> HIDE DEF s, e
  <2> QED BY <1>8, <2>4, <2>5, <2>6
<1>13. ASSUME NEW i \in S, \A j \in S : ~Newer(list, i, j) PROVE listed[i].balance_after = listed[i].delta
  <2>1. newer(i) = S \ {i}
    BY <1>2, <1>5, <1>7, <1>13
  <2>2. \A x \in S : f[x] \in Int
    BY <1>1
  <2>3. SumFunctionOnSet(f, S) = f[i] + SumFunctionOnSet(f, S \ {i})
    BY <1>1, <2>2, SumRemove
  <2>4. f[i] = listed[i].delta
    BY <1>1, <1>6a
  <2> DEFINE e == SumFunctionOnSet(f, newer(i))
  <2>5. T = f[i] + e /\ e \in Int /\ f[i] \in Int
    BY <1>6, <1>9, <2>1, <2>2, <2>3
  <2>6. listed[i].balance_after = T - e
    BY <1>6a
  <2> HIDE DEF e
  <2> QED BY <1>8, <2>4, <2>5, <2>6
<1> QED BY <1>4, <1>6a, <1>10, <1>11, <1>12, <1>13 DEF listed, T, S

LEMMA RewardInitInv == RewardInit => RewardInv
<1> SUFFICES ASSUME RewardInit PROVE RewardInv
  OBVIOUS
<1>1. Total(<<>>) = 0
  BY SumEmpty DEF Total
<1>2. RewardTypeOK
  BY RewardAssumption DEF RewardInit, RewardTypeOK, NoWish
<1>3. RewardLocked /\ PageReads /\ LedgerChains
  BY DEF RewardInit, RewardLocked, PageReads, LedgerChains, NoPage
<1>4. RewardsConserved
  BY <1>1, RewardAssumption DEF RewardInit, RewardsConserved
<1> QED BY <1>2, <1>3, <1>4 DEF RewardInv

\* What moves neither stock, points nor the page.
LEMMA WishesKeep ==
  ASSUME RewardInv, NEW t \in SpendTx,
         \/ LockReward(t) \/ try_spend_tx(t) \/ Drop(t)
         \/ \E m \in Saver : AskRedeem(t, m)
  PROVE  RewardInv'
<1>1. UNCHANGED <<clock, reward, points, page>>
  BY DEF LockReward, try_spend_tx, Drop, AskRedeem, Refuse
<1>2. UNCHANGED <<clock, stock, on_offer, cost, restocked, updates, balance, ledger, redemptions, page>>
  BY <1>1 DEF reward, points
<1>3. \/ wpc' = [wpc EXCEPT ![t] = "idle"] /\ wreq' = [wreq EXCEPT ![t] = NoWish]
      \/ \E m \in Saver : /\ wpc' = [wpc EXCEPT ![t] = "reward"]
                           /\ wreq' = [wreq EXCEPT ![t] = [by |-> m, now |-> clock, cost |-> 0]]
      \/ /\ wpc[t] = "reward" /\ ~RewardHeld(t) /\ stock # 0
         /\ wpc' = [wpc EXCEPT ![t] = "user"] /\ wreq' = [wreq EXCEPT ![t].cost = cost]
      \/ /\ wpc[t] = "user" /\ MayMove(wreq[t].by, -wreq[t].cost)
         /\ wpc' = [wpc EXCEPT ![t] = "commit"] /\ wreq' = wreq
  BY DEF LockReward, try_spend_tx, Drop, AskRedeem, Refuse, Settle
<1>4. RewardTypeOK /\ RewardLocked /\ RewardsConserved
  BY DEF RewardInv
<1>5. PageReads' /\ LedgerChains'
  BY <1>2 DEF RewardInv, PageReads, LedgerChains
<1>6. RewardTypeOK' /\ RewardLocked' /\ RewardsConserved'
  <2>1. CASE wpc' = [wpc EXCEPT ![t] = "idle"] /\ wreq' = [wreq EXCEPT ![t] = NoWish]
    BY <1>2, <1>4, <2>1 DEF RewardTypeOK, RewardLocked, RewardsConserved, NoWish
  <2>2. ASSUME NEW m \in Saver, wpc' = [wpc EXCEPT ![t] = "reward"],
               wreq' = [wreq EXCEPT ![t] = [by |-> m, now |-> clock, cost |-> 0]]
        PROVE  RewardTypeOK' /\ RewardLocked' /\ RewardsConserved'
    BY <1>2, <1>4, <2>2 DEF RewardTypeOK, RewardLocked, RewardsConserved
  <2>3. CASE /\ wpc[t] = "reward" /\ ~RewardHeld(t) /\ stock # 0
             /\ wpc' = [wpc EXCEPT ![t] = "user"] /\ wreq' = [wreq EXCEPT ![t].cost = cost]
    <3>1. wreq'[t].cost = cost /\ \A u \in SpendTx : /\ wreq'[u].by = wreq[u].by
                                                     /\ u # t => wreq'[u] = wreq[u]
      BY <1>4, <2>3 DEF RewardTypeOK
    <3>2. RewardTypeOK'
      BY <1>2, <1>4, <2>3 DEF RewardTypeOK
    <3>3. RewardLocked'
      BY <1>2, <1>4, <2>3, <3>1 DEF RewardTypeOK, RewardLocked, RewardHeld
    <3>4. RewardsConserved'
      BY <1>2, <1>4, <2>3, <3>1 DEF RewardTypeOK, RewardsConserved
    <3> QED BY <3>2, <3>3, <3>4
  <2>4. CASE /\ wpc[t] = "user" /\ MayMove(wreq[t].by, -wreq[t].cost)
             /\ wpc' = [wpc EXCEPT ![t] = "commit"] /\ wreq' = wreq
    <3>1. wreq[t].by \in Saver /\ wreq[t].cost \in Nat /\ balance[wreq[t].by] \in Int
      BY <1>4, <2>4 DEF RewardTypeOK
    <3>2. wreq[t].cost <= balance[wreq[t].by] /\ stock # 0 /\ wreq[t].cost = cost
      BY <1>4, <2>4, <3>1 DEF MayMove, RewardLocked
    <3> QED BY <1>2, <1>4, <2>4, <3>2 DEF RewardTypeOK, RewardLocked, RewardsConserved
  <2> QED BY <1>3, <2>1, <2>2, <2>3, <2>4
<1> QED BY <1>5, <1>6 DEF RewardInv

\* apply_delta_tx keeps a balance equal to its ledger.
LEMMA MovedSums ==
  ASSUME RewardInv, NEW m \in Saver, NEW delta \in Int, NEW moment \in Nat, Moved(m, delta, moment)
  PROVE  /\ balance' \in [Saver -> Int] /\ ledger' \in [Saver -> Seq(Entry)]
         /\ balance'[m] = balance[m] + delta
         /\ \A k \in Saver : k # m => balance'[k] = balance[k]
         /\ \A k \in Saver : balance'[k] = Total(ledger'[k])
<1> DEFINE row == [at |-> moment, delta |-> delta]
<1>1. /\ balance \in [Saver -> Int] /\ ledger \in [Saver -> Seq(Entry)]
      /\ \A k \in Saver : balance[k] = Total(ledger[k])
  BY DEF RewardInv, RewardTypeOK, RewardsConserved
<1>2. row \in Entry /\ row.delta = delta
  BY DEF Entry
<1>3. balance' = [balance EXCEPT ![m] = balance[m] + delta]
      /\ ledger' = [ledger EXCEPT ![m] = Append(ledger[m], row)]
  BY DEF Moved
<1> HIDE DEF row
<1>4. Total(Append(ledger[m], row)) = Total(ledger[m]) + delta
  BY <1>1, <1>2, TotalAppend
<1>5. Append(ledger[m], row) \in Seq(Entry)
  BY <1>1, <1>2
<1>6. \A k \in Saver : ledger'[k] = IF k = m THEN Append(ledger[m], row) ELSE ledger[k]
  BY <1>1, <1>3
<1>7. \A k \in Saver : balance'[k] = IF k = m THEN balance[m] + delta ELSE balance[k]
  BY <1>1, <1>3
<1>8. ledger' \in [Saver -> Seq(Entry)]
  BY <1>1, <1>3, <1>5
<1>9. balance' \in [Saver -> Int]
  BY <1>1, <1>3
<1>10. ASSUME NEW k \in Saver PROVE balance'[k] = Total(ledger'[k])
  BY <1>1, <1>4, <1>6, <1>7
<1> QED BY <1>7, <1>8, <1>9, <1>10

LEMMA CommitRedeemKeeps ==
  ASSUME RewardInv, NEW t \in SpendTx, CommitRedeem(t)
  PROVE  RewardInv'
<1> DEFINE m == wreq[t].by
           c == wreq[t].cost
<1>1. RewardTypeOK /\ RewardLocked /\ RewardsConserved /\ wpc[t] = "commit"
  BY DEF RewardInv, CommitRedeem
<1>2. /\ m \in Saver /\ c \in Nat /\ wreq[t].now \in Nat /\ stock # 0 /\ c <= balance[m]
      /\ balance[m] \in Int
  BY <1>1 DEF RewardTypeOK, RewardsConserved
<1>3. /\ Moved(m, -c, wreq[t].now)
      /\ stock' = IF stock = Unlimited THEN Unlimited ELSE stock - 1
      /\ redemptions' = Append(redemptions, [by |-> m, points_spent |-> c])
      /\ wpc' = [wpc EXCEPT ![t] = "idle"] /\ wreq' = [wreq EXCEPT ![t] = NoWish]
      /\ UNCHANGED <<clock, on_offer, cost, restocked, page, updates>>
  BY DEF CommitRedeem, Settle
<1> HIDE DEF m, c
<1>4. -c \in Int
  BY <1>2
<1>5. /\ balance' \in [Saver -> Int] /\ ledger' \in [Saver -> Seq(Entry)]
      /\ balance'[m] = balance[m] + -c
      /\ \A k \in Saver : k # m => balance'[k] = balance[k]
      /\ \A k \in Saver : balance'[k] = Total(ledger'[k])
  BY <1>2, <1>3, <1>4, MovedSums
<1>6. \A k \in Saver : balance'[k] >= 0
  <2>1. balance'[m] >= 0
    BY <1>2, <1>5
  <2>2. \A k \in Saver : balance[k] >= 0
    BY <1>1 DEF RewardsConserved
  <2> QED BY <1>5, <2>1, <2>2
<1>7. /\ redemptions' \in Seq([by : Saver, points_spent : Nat])
      /\ Len(redemptions') = Len(redemptions) + 1 /\ Len(redemptions) \in Nat
  <2>1. [by |-> m, points_spent |-> c] \in [by : Saver, points_spent : Nat]
    BY <1>2
  <2> QED BY <1>1, <1>3, <2>1 DEF RewardTypeOK
<1>8. \A u \in SpendTx : wpc'[u] # "idle" => u # t /\ wpc'[u] = wpc[u] /\ wreq'[u] = wreq[u]
  BY <1>1, <1>3 DEF RewardTypeOK
<1>9. \A u \in SpendTx : wpc'[u] \notin {"user", "commit"}
  BY <1>1, <1>8 DEF RewardLocked
<1>10. stock' # Unlimited => /\ stock # Unlimited /\ stock \in Int /\ stock > 0 /\ stock' = stock - 1
                             /\ stock = restocked[1] - (Len(redemptions) - restocked[2])
  BY <1>1, <1>2, <1>3 DEF RewardTypeOK, RewardsConserved
<1>11. stock' # Unlimited =>
         /\ stock' >= 0
         /\ stock' = restocked'[1] - (Len(redemptions') - restocked'[2])
  <2>1. SUFFICES ASSUME stock' # Unlimited
                 PROVE  /\ stock' >= 0
                        /\ stock' = restocked'[1] - (Len(redemptions') - restocked'[2])
    OBVIOUS
  <2>2. restocked[1] \in Int /\ restocked[2] \in Nat
    <3>1. stock # Unlimited
      BY <1>10, <2>1
    <3> QED BY <1>1, <3>1 DEF RewardTypeOK
  <2>3. restocked' = restocked
    BY <1>3
  <2>4. stock' >= 0
    BY <1>10, <2>1
  <2>5. /\ stock' = stock - 1 /\ stock = restocked[1] - (Len(redemptions) - restocked[2])
        /\ Len(redemptions') = Len(redemptions) + 1 /\ Len(redemptions) \in Nat
    BY <1>7, <1>10, <2>1
  <2>6. stock' = restocked[1] - ((Len(redemptions) + 1) - restocked[2])
    <3>1. \A x, n \in Int, y \in Nat : (x - (n - y)) - 1 = x - ((n + 1) - y)
      OBVIOUS
    <3>2. Len(redemptions) \in Int
      BY <2>5
    <3>3. (restocked[1] - (Len(redemptions) - restocked[2])) - 1
            = restocked[1] - ((Len(redemptions) + 1) - restocked[2])
      BY <2>2, <3>1, <3>2
    <3> QED BY <2>5, <3>3
  <2> QED BY <2>3, <2>4, <2>5, <2>6
<1>12. RewardTypeOK'
  <2>1. stock' \in Int \cup {Unlimited} /\ (stock' # Unlimited => restocked[1] \in Int)
    BY <1>1, <1>3, <1>10 DEF RewardTypeOK
  <2> QED BY <1>1, <1>3, <1>5, <1>7, <1>8, <2>1 DEF RewardTypeOK, NoWish
<1>13. RewardLocked'
  BY <1>9 DEF RewardLocked
<1>14. RewardsConserved'
  BY <1>5, <1>6, <1>9, <1>11 DEF RewardsConserved
<1>15. PageReads' /\ LedgerChains'
  BY <1>3 DEF RewardInv, PageReads, LedgerChains
<1> QED BY <1>12, <1>13, <1>14, <1>15 DEF RewardInv

\* What an admin corrects and a checkout earns; both wait for the member's row.
LEMMA MovesKeep ==
  ASSUME RewardInv, NEW m \in Saver, NEW delta \in Int, NEW moment \in Nat,
         ~MemberHeld(NoSaver, m), MayMove(m, delta), Moved(m, delta, moment),
         UNCHANGED <<clock, reward, redemptions, wpc, wreq, page>>
  PROVE  RewardInv'
<1>1. RewardTypeOK /\ RewardLocked /\ RewardsConserved
  BY DEF RewardInv
<1>2. UNCHANGED <<clock, stock, on_offer, cost, restocked, updates, redemptions, wpc, wreq, page>>
  BY DEF reward
<1>3. /\ balance' \in [Saver -> Int] /\ ledger' \in [Saver -> Seq(Entry)]
      /\ balance'[m] = balance[m] + delta
      /\ \A k \in Saver : k # m => balance'[k] = balance[k]
      /\ \A k \in Saver : balance'[k] = Total(ledger'[k])
  BY MovedSums
<1>4. \A k \in Saver : balance'[k] >= 0
  <2>1. balance'[m] >= 0
    BY <1>3 DEF MayMove
  <2>2. \A k \in Saver : balance[k] >= 0
    BY <1>1 DEF RewardsConserved
  <2> QED BY <1>3, <2>1, <2>2
<1>5. \A t \in SpendTx : wpc[t] = "commit" => wreq[t].by # m /\ wreq[t].by \in Saver
  BY <1>1, RewardAssumption DEF MemberHeld, RewardTypeOK
<1>6. RewardsConserved'
  <2>1. \A t \in SpendTx : wpc'[t] = "commit" =>
          stock' # 0 /\ wreq'[t].cost = cost' /\ wreq'[t].cost <= balance'[wreq'[t].by]
    BY <1>1, <1>2, <1>3, <1>5 DEF RewardsConserved
  <2> QED BY <1>1, <1>2, <1>3, <1>4, <2>1 DEF RewardsConserved
<1>7. RewardTypeOK' /\ RewardLocked'
  BY <1>1, <1>2, <1>3 DEF RewardTypeOK, RewardLocked
<1>8. PageReads' /\ LedgerChains'
  BY <1>2 DEF RewardInv, PageReads, LedgerChains
<1> QED BY <1>6, <1>7, <1>8 DEF RewardInv

LEMMA UpdateKeeps ==
  ASSUME RewardInv, NEW s \in 0..MaxStock \cup {Unlimited}, NEW a \in BOOLEAN,
         NEW c \in 1..MaxCost, update(s, a, c)
  PROVE  RewardInv'
<1>1. RewardTypeOK /\ RewardLocked /\ RewardsConserved
  BY DEF RewardInv
<1>2. /\ stock' = s /\ cost' = c
      /\ restocked' = IF s = stock THEN restocked ELSE <<s, Len(redemptions)>>
      /\ UNCHANGED <<clock, balance, ledger, redemptions, wpc, wreq, page>>
  BY DEF update, points
<1>3. \A t \in SpendTx : wpc[t] \notin {"user", "commit"}
  BY RewardAssumption DEF update, RewardHeld
<1>4. s \in Nat \cup {Unlimited} /\ c \in Nat /\ Len(redemptions) \in Nat
  BY <1>1, RewardAssumption DEF RewardTypeOK
<1>5. s # stock => restocked'[1] = s /\ restocked'[2] = Len(redemptions)
  BY <1>2
<1>6. RewardTypeOK'
  BY <1>1, <1>2, <1>4, <1>5 DEF RewardTypeOK
<1>7. RewardLocked'
  BY <1>2, <1>3 DEF RewardLocked
<1>8. RewardsConserved'
  <2>1. s # Unlimited => /\ s >= 0 /\ s = restocked'[1] - (Len(redemptions) - restocked'[2])
    <3>1. CASE s = stock
      BY <1>1, <1>2, <3>1 DEF RewardsConserved
    <3>2. CASE s # stock
      BY <1>4, <1>5, <3>2
    <3> QED BY <3>1, <3>2
  <2> QED BY <1>1, <1>2, <1>3, <2>1 DEF RewardsConserved
<1>9. PageReads' /\ LedgerChains'
  BY <1>2 DEF RewardInv, PageReads, LedgerChains
<1> QED BY <1>6, <1>7, <1>8, <1>9 DEF RewardInv

LEMMA PageKeeps ==
  ASSUME RewardInv, ReadLedger \/ Answered \/ \E m \in Saver : ReadBalance(m)
  PROVE  RewardInv'
<1>1. UNCHANGED <<clock, stock, on_offer, cost, restocked, updates, balance, ledger, redemptions,
                  wpc, wreq>>
  BY DEF ReadLedger, Answered, ReadBalance, reward, points
<1>2. RewardTypeOK' /\ RewardLocked' /\ RewardsConserved'
  BY <1>1 DEF RewardInv, RewardTypeOK, RewardLocked, RewardsConserved
<1>3. CASE Answered
  <2>1. page'.of = NoSaver /\ page'.told = FALSE /\ DOMAIN page' = {"of", "rows", "balance", "told"}
    BY <1>3 DEF Answered, NoPage
  <2> QED BY <1>2, <2>1 DEF RewardInv, PageReads, LedgerChains
<1>4. ASSUME NEW m \in Saver, ReadBalance(m) PROVE RewardInv'
  <2>1. /\ page'.rows = ledger[m] /\ page'.balance = balance[m] /\ page'.told = FALSE
        /\ DOMAIN page' = {"of", "rows", "balance", "told"}
    BY <1>4 DEF ReadBalance
  <2>2. ledger[m] \in Seq(Entry) /\ balance[m] = Total(ledger[m])
    BY DEF RewardInv, RewardTypeOK, RewardsConserved
  <2> QED BY <1>2, <2>1, <2>2 DEF RewardInv, PageReads, LedgerChains
<1>5. CASE ReadLedger
  <2> DEFINE list == page.rows
             listed == find_ledger_by_user(Total(list), list)
  <2>1. /\ list \in Seq(Entry) /\ page.balance = Total(list)
        /\ page' = [page EXCEPT !.rows = find_ledger_by_user(page.balance, page.rows), !.told = TRUE]
    BY <1>5 DEF ReadLedger, RewardInv, PageReads
  <2>2. /\ page'.rows = listed /\ page'.balance = Total(list) /\ page'.told = TRUE
        /\ DOMAIN page' = {"of", "rows", "balance", "told"}
    BY <2>1 DEF RewardInv, PageReads
  <2>3. PageReads'
    BY <2>2 DEF PageReads
  <2>4. /\ list = <<>> => Total(list) = 0
        /\ DOMAIN listed = DOMAIN list
        /\ \A i \in DOMAIN list : listed[i].at = list[i].at /\ listed[i].delta = list[i].delta
        /\ \A i \in DOMAIN list :
             (\A j \in DOMAIN list : ~Newer(list, j, i)) => listed[i].balance_after = Total(list)
        /\ \A i, j \in DOMAIN list :
             /\ Newer(list, j, i)
             /\ \A k \in DOMAIN list : ~(Newer(list, j, k) /\ Newer(list, k, i))
             => listed[i].balance_after = listed[j].balance_after - listed[j].delta
        /\ \A i \in DOMAIN list :
             (\A j \in DOMAIN list : ~Newer(list, i, j)) => listed[i].balance_after = listed[i].delta
    BY <2>1, PagesChain
  <2>5. listed = <<>> => list = <<>>
    BY <2>1, <2>4
  <2> HIDE DEF listed, list
  <2>6. \A i, j \in DOMAIN list : Newer(listed, i, j) <=> Newer(list, i, j)
    BY <2>4 DEF Newer
  <2>7. LedgerChains'
    BY <2>2, <2>4, <2>5, <2>6 DEF LedgerChains
  <2> QED BY <1>2, <2>3, <2>7 DEF RewardInv
<1> QED BY <1>3, <1>4, <1>5

LEMMA RewardNextKeeps == RewardInv /\ [RewardNext]_rewardVars => RewardInv'
<1> SUFFICES ASSUME RewardInv, [RewardNext]_rewardVars PROVE RewardInv'
  OBVIOUS
<1>1. CASE UNCHANGED rewardVars \/ Tick
  <2>1. /\ UNCHANGED <<stock, on_offer, cost, restocked, updates, balance, ledger, redemptions,
                       wpc, wreq, page>>
        /\ clock' \in Nat
    BY <1>1 DEF rewardVars, reward, points, Tick, RewardInv, RewardTypeOK
  <2> QED BY <2>1 DEF RewardInv, RewardTypeOK, RewardLocked, PageReads, RewardsConserved, LedgerChains
<1>2. ASSUME NEW t \in SpendTx,
             LockReward(t) \/ try_spend_tx(t) \/ CommitRedeem(t) \/ Drop(t) \/ \E m \in Saver : AskRedeem(t, m)
      PROVE  RewardInv'
  BY <1>2, WishesKeep, CommitRedeemKeeps
<1>3. ASSUME NEW m \in Saver, NEW moment \in 0..clock,
             Earn(m, moment) \/ \E d \in {-1, 2}, e \in 0..MaxRows : adjust_points(m, d, e, moment)
      PROVE  RewardInv'
  <2>1. moment \in Nat
    BY DEF RewardInv, RewardTypeOK
  <2>2. PICK delta \in {-1, 1, 2} :
          /\ ~MemberHeld(NoSaver, m) /\ MayMove(m, delta) /\ Moved(m, delta, moment)
          /\ UNCHANGED <<clock, reward, redemptions, wpc, wreq, page>>
    BY <1>3 DEF Earn, adjust_points
  <2> QED BY <2>1, <2>2, MovesKeep
<1> QED BY <1>1, <1>2, <1>3, PageKeeps, UpdateKeeps DEF RewardNext

\* rewards/service.rs `redeem' and points/repository.rs `find_ledger_by_user': with any number
\* of members, requests and edits, no more rewards are taken than were stocked, no balance
\* goes below zero or differs from its ledger, a request about to commit still finds the
\* stock and the price it saw, and every page of a ledger chains from the balance told with
\* it back to zero.
THEOREM RewardsAreHonoured == RewardSpec => []RewardsHonoured
<1>1. RewardSpec => []RewardInv
  BY RewardInitInv, RewardNextKeeps, PTL DEF RewardSpec
<1>2. RewardInv => RewardsHonoured
  BY DEF RewardInv, RewardsHonoured
<1> QED BY <1>1, <1>2, PTL

-----------------------------------------------------------------------------
(* The clock: the gates and the states a class is shown in agree. *)

ClockTypeOK ==
  /\ shift \in Shifts
  /\ change \in Hours..(Instants - Hours)
  /\ class \in [date : 1..(Instants \div Hours - 2), start : 0..(Hours - 1), end : 0..(Hours - 1)]
  /\ now \in 0..Instants

ClockInv == ClockTypeOK /\ GatesAgree

\* Whole days, and what is left of one: `%` and \div of this language.
LEMMA Division ==
  ASSUME NEW H \in Nat \ {0}, NEW a \in Int
  PROVE  a \div H \in Int /\ (a % H) \in 0..(H - 1) /\ a = H * (a \div H) + (a % H)
  BY SMTT(30)

\* A later hour is of the same day or a later one, and an hour lies in its day.
LEMMA DaysGrow ==
  ASSUME NEW H \in Nat \ {0}, NEW a \in Int, NEW b \in Int, a <= b
  PROVE  a \div H <= b \div H
<1> DEFINE q == a \div H
           r == b \div H
<1>1. q \in Int /\ (a % H) \in 0..(H - 1) /\ a = H * q + (a % H)
  BY Division
<1>2. r \in Int /\ (b % H) \in 0..(H - 1) /\ b = H * r + (b % H)
  BY Division
<1> HIDE DEF q, r
<1>3. r < q => H * r + H <= H * q
  BY <1>1, <1>2, SMTT(30)
<1>4. q <= r
  BY <1>1, <1>2, <1>3
<1> QED
  BY <1>4 DEF q, r

LEMMA HourOfDay ==
  ASSUME NEW H \in Nat \ {0}, NEW d \in Int, NEW h \in 0..(H - 1)
  PROVE  (d * H + h) \div H = d
<1> DEFINE a == d * H + h
           q == a \div H
<1>1. a \in Int
  BY SMTT(30)
<1>2. q \in Int /\ (a % H) \in 0..(H - 1) /\ a = H * q + (a % H)
  BY <1>1, Division
<1>3. d * H = H * d
  BY SMTT(30)
<1> HIDE DEF q
<1>4. H * q + (a % H) = H * d + h
  BY <1>2, <1>3
<1>5. /\ q < d => H * q + H <= H * d
      /\ d < q => H * d + H <= H * q
  BY <1>2, SMTT(30)
<1>6. H * d \in Int /\ H * q \in Int
  BY <1>2, SMTT(30)
<1> HIDE DEF a
<1>7. q = d
  BY <1>2, <1>4, <1>5, <1>6
<1> QED
  BY <1>7 DEF q, a

LEMMA LocalInt ==
  ASSUME ClockTypeOK, NEW n \in Int
  PROVE  local(n) \in Int
<1>1. shift \in Int /\ change \in Int
  BY ClockAssumption DEF ClockTypeOK
<1> QED BY <1>1 DEF local

\* What to_utc answers is the one instant with that local time.
LEMMA UtcNames ==
  ASSUME NEW d, NEW h, to_utc(d, h) # NoInstant
  PROVE  /\ to_utc(d, h) \in 0..Instants
         /\ local(to_utc(d, h)) = d * Hours + h
         /\ \A n \in 0..Instants : local(n) = d * Hours + h => n = to_utc(d, h)
<1> DEFINE named == {n \in 0..Instants : local(n) = d * Hours + h}
<1>1. Cardinality(named) = 1 /\ to_utc(d, h) = CHOOSE n \in named : TRUE
  BY DEF to_utc
<1>2. IsFiniteSet(named)
  <2>1. IsFiniteSet(0..Instants) /\ named \subseteq 0..Instants
    BY ClockAssumption, FS_Interval
  <2> HIDE DEF named
  <2> QED BY <2>1, FS_Subset
<1>3. PICK n : named = {n}
  BY <1>1, <1>2, FS_Singleton
<1>4. to_utc(d, h) = n
  BY <1>1, <1>3
<1> QED BY <1>3, <1>4

\* A class that has begun is not dated after today: if the clock was set back over
\* its start, that local time comes again within a day, and names two instants.
LEMMA BegunByToday ==
  ASSUME ClockTypeOK, has_started = "yes"
  PROVE  class.date <= local_today
<1> DEFINE u == to_utc(class.date, class.start)
           D == class.date * Hours + class.start
<1>1. /\ class.date \in 1..(Instants \div Hours - 2) /\ class.start \in 0..(Hours - 1)
      /\ now \in 0..Instants /\ change \in Int /\ shift \in Int /\ -Hours <= shift /\ shift <= Hours
      /\ Hours \in Nat \ {0} /\ Instants \in Nat
  BY ClockAssumption DEF ClockTypeOK
<1>2. u # NoInstant /\ u <= now
  BY DEF has_started
<1>3. u \in 0..Instants /\ local(u) = D /\ \A n \in 0..Instants : local(n) = D => n = u
  BY <1>2, UtcNames
<1>4. D \in Int /\ D + Hours <= Instants
  <2> DEFINE q == Instants \div Hours
             d == class.date
  <2>1. q \in Int /\ (Instants % Hours) \in 0..(Hours - 1) /\ Instants = Hours * q + (Instants % Hours)
    <3>1. Instants \in Int /\ Hours \in Nat \ {0}
      BY <1>1
    <3> QED BY <3>1, Division
  <2>2. d \in Int /\ d + 2 <= q
    BY <1>1, <2>1
  <2> HIDE DEF d, q
  <2>3. /\ Hours * (d + 2) <= Hours * q /\ d * Hours \in Int /\ Hours * q \in Int
        /\ Hours * (d + 2) = d * Hours + Hours + Hours
    BY <1>1, <2>1, <2>2, SMTT(30)
  <2> QED BY <1>1, <2>1, <2>2, <2>3 DEF d
<1> HIDE DEF u, D
<1>5. D <= local(now)
  <2> SUFFICES ASSUME local(now) < D PROVE FALSE
    BY <1>1, <1>4, LocalInt
  <2>1. u < change /\ change <= now /\ local(u) = u /\ local(now) = now + shift
    BY <1>1, <1>2, <1>3 DEF local
  <2>2. u - shift \in 0..Instants /\ u - shift >= change /\ u - shift # u
    BY <1>1, <1>2, <1>3, <1>4, <2>1
  <2>3. local(u - shift) = D
    BY <1>1, <1>3, <2>1, <2>2 DEF local
  <2> QED BY <1>3, <2>2, <2>3
<1>6. D \div Hours <= local(now) \div Hours
  BY <1>1, <1>4, <1>5, LocalInt, DaysGrow
<1>7. D \div Hours = class.date
  <2>1. class.date \in Int
    BY <1>1
  <2>2. (class.date * Hours + class.start) \div Hours = class.date
    BY <1>1, <2>1, HourOfDay
  <2> QED BY <2>2 DEF D
<1> QED BY <1>6, <1>7 DEF local_today

\* The two gates, and what the class is shown as, at one instant.
LEMMA GatesMirror ==
  ASSUME ClockTypeOK
  PROVE  /\ (require_not_started = "ambiguous") <=> (require_started = "ambiguous")
         /\ require_not_started # "ambiguous" => /\ (require_not_started = "ok") <=> (require_started # "ok")
                                                 /\ (derive = "upcoming") <=> (require_not_started = "ok")
<1> DEFINE u == to_utc(class.date, class.start)
<1>1. u # NoInstant => u \in Int
  BY UtcNames
<1>2. now \in Int
  BY DEF ClockTypeOK
<1>3. /\ require_not_started = IF u = NoInstant THEN "ambiguous" ELSE IF u <= now THEN "started" ELSE "ok"
      /\ require_started = IF u = NoInstant THEN "ambiguous" ELSE IF u > now THEN "not_started" ELSE "ok"
      /\ has_started = IF u = NoInstant THEN "unknown" ELSE IF u <= now THEN "yes" ELSE "no"
  BY DEF require_not_started, require_started, to_utc_checked, has_started
<1> HIDE DEF u
<1>4. CASE has_started = "no"
  <2>1. derive = "upcoming"
    BY <1>4 DEF derive
  <2> QED BY <1>1, <1>2, <1>3, <1>4, <2>1
<1>5. CASE has_started = "yes"
  <2>1. class.date <= local_today /\ class.date \in Int /\ local_today \in Int
    <3>1. now \in Int /\ Hours \in Nat \ {0} /\ class.date \in Int
      BY ClockAssumption DEF ClockTypeOK
    <3> QED BY <1>5, <3>1, BegunByToday, LocalInt, Division DEF local_today
  <2>2. derive # "upcoming"
    <3> HIDE DEF has_started
    <3>1. CASE has_ended = "no"
      BY <1>5, <3>1 DEF derive
    <3>2. CASE has_ended = "yes"
      BY <1>5, <3>2 DEF derive
    <3>3. CASE has_ended \notin {"yes", "no"}
      BY <1>5, <2>1, <3>3 DEF derive
    <3> QED BY <3>1, <3>2, <3>3
  <2> QED BY <1>1, <1>2, <1>3, <1>5, <2>2
<1>6. CASE has_started = "unknown"
  BY <1>1, <1>3, <1>6
<1> QED BY <1>3, <1>4, <1>5, <1>6

\* Today lies in its month.
LEMMA MonthsHoldDays ==
  ASSUME ClockTypeOK
  PROVE  LET span == month_bounds(month_key) IN span[1] <= local_today /\ local_today <= span[2]
<1> DEFINE m == local_today \div MonthDays
<1>1. local_today \in Int /\ MonthDays \in Nat \ {0}
  <2>1. now \in Int /\ Hours \in Nat \ {0}
    BY ClockAssumption DEF ClockTypeOK
  <2> QED BY <2>1, ClockAssumption, LocalInt, Division DEF local_today
<1>2. /\ m \in Int /\ (local_today % MonthDays) \in 0..(MonthDays - 1)
      /\ local_today = MonthDays * m + (local_today % MonthDays)
  BY <1>1, Division
<1> HIDE DEF m
<1>3. m * MonthDays = MonthDays * m /\ (m + 1) * MonthDays = MonthDays * m + MonthDays /\ MonthDays * m \in Int
  BY <1>1, <1>2, SMTT(30)
<1>4. month_bounds(m) = <<m * MonthDays, (m + 1) * MonthDays - 1>> /\ month_key = m
  BY DEF month_bounds, month_key, m
<1> QED BY <1>1, <1>2, <1>3, <1>4

\* As an hour strikes, a class goes on: from upcoming to ongoing to done.
LEMMA HourAdvances ==
  ASSUME ClockTypeOK, HourStrikes
  PROVE  /\ ClockTypeOK' /\ DayRepeats' = DayRepeats
         /\ derive = "done" => derive' = "done" \/ DayRepeats
         /\ derive # "upcoming" => derive' # "upcoming" \/ DayRepeats
<1>1. /\ now \in 0..Instants /\ now' = now + 1 /\ now' \in 1..Instants
      /\ change' = change /\ shift' = shift /\ class' = class
  BY ClockAssumption DEF ClockTypeOK, HourStrikes
<1>2. ClockTypeOK'
  BY <1>1 DEF ClockTypeOK
<1>3. DayRepeats' = DayRepeats
  BY <1>1 DEF DayRepeats, local
<1>4. local_today' = local(now') \div Hours
  BY <1>1 DEF local_today, local
<1> DEFINE s == to_utc(class.date, class.start)
           e == to_utc(class.date, class.end)
<1>5. s' = s /\ e' = e
  BY <1>1 DEF to_utc, local
<1>6. (s # NoInstant => s \in Int) /\ (e # NoInstant => e \in Int)
  BY UtcNames
<1>7. /\ has_started = IF s = NoInstant THEN "unknown" ELSE IF s <= now THEN "yes" ELSE "no"
      /\ has_started' = IF s = NoInstant THEN "unknown" ELSE IF s <= now' THEN "yes" ELSE "no"
      /\ has_ended = IF e = NoInstant THEN "unknown" ELSE IF e <= now THEN "yes" ELSE "no"
      /\ has_ended' = IF e = NoInstant THEN "unknown" ELSE IF e <= now' THEN "yes" ELSE "no"
  BY <1>1, <1>5 DEF has_started, has_ended
<1> HIDE DEF s, e
<1>8. /\ has_started \in {"unknown", "yes", "no"} /\ has_ended \in {"unknown", "yes", "no"}
      /\ has_started' = has_started \/ (has_started = "no" /\ has_started' = "yes")
      /\ has_ended' = has_ended \/ (has_ended = "no" /\ has_ended' = "yes")
  BY <1>1, <1>6, <1>7
<1>9. ASSUME ~DayRepeats PROVE local_today <= local_today' /\ local_today \in Int /\ local_today' \in Int
  <2>1. now' - 1 = now /\ Hours \in Nat \ {0}
    BY <1>1, ClockAssumption
  <2>2. ~(local(now') \div Hours < local(now) \div Hours)
    BY <1>1, <1>9, <2>1 DEF DayRepeats
  <2>3. local(now) \in Int /\ local(now') \in Int
    BY <1>1, LocalInt
  <2> DEFINE a == local(now) \div Hours
             b == local(now') \div Hours
  <2>4. a \in Int /\ b \in Int
    BY <2>1, <2>3, Division
  <2>5. local_today = a /\ local_today' = b
    BY <1>4 DEF local_today
  <2> HIDE DEF a, b
  <2>6. ~(b < a)
    BY <2>2 DEF a, b
  <2> QED BY <2>4, <2>5, <2>6
<1>10. class.date \in Int
  BY DEF ClockTypeOK
<1>11. ASSUME ~DayRepeats, derive = "done" PROVE derive' = "done"
  BY <1>1, <1>8, <1>9, <1>10, <1>11 DEF derive
<1>12. ASSUME ~DayRepeats, derive # "upcoming" PROVE derive' # "upcoming"
  BY <1>1, <1>8, <1>9, <1>10, <1>12 DEF derive
<1> QED BY <1>2, <1>3, <1>11, <1>12

\* The gates agree about a class at every instant, in any zone whose offset changes
\* once by a day at most, and however long a day and a month are (studio_clock.rs
\* `require_not_started`, `require_started`; sessions/model.rs `SessionStatus::derive`):
\* what the class was shown as before is remembered by the invariant itself.
THEOREM ClockGatesAgree == ClockSpec => []GatesAgree
<1>1. ClockInit => ClockInv
  <2> SUFFICES ASSUME ClockInit PROVE ClockInv
    OBVIOUS
  <2>1. ClockTypeOK /\ shown = {}
    BY ClockAssumption DEF ClockInit, ClockTypeOK
  <2> QED BY <2>1, GatesMirror, MonthsHoldDays DEF ClockInv, GatesAgree
<1>2. ClockInv /\ [HourStrikes]_clockVars => ClockInv'
  <2> SUFFICES ASSUME ClockInv, [HourStrikes]_clockVars PROVE ClockInv'
    OBVIOUS
  <2>1. ClockTypeOK /\ ("done" \in shown => derive = "done" \/ DayRepeats)
        /\ ("ongoing" \in shown => derive # "upcoming" \/ DayRepeats)
    BY DEF ClockInv, GatesAgree
  <2>2. ASSUME HourStrikes PROVE ClockInv'
    <3>1. ClockTypeOK' /\ DayRepeats' = DayRepeats /\ shown' = shown \cup {derive}
          /\ (derive = "done" => derive' = "done" \/ DayRepeats)
          /\ (derive # "upcoming" => derive' # "upcoming" \/ DayRepeats)
      BY <2>1, <2>2, HourAdvances DEF HourStrikes
    <3>2. ("done" \in shown => derive = "done" \/ DayRepeats)'
          /\ ("ongoing" \in shown => derive # "upcoming" \/ DayRepeats)'
      BY <2>1, <3>1
    <3>3. /\ ((require_not_started = "ambiguous") <=> (require_started = "ambiguous"))'
          /\ (require_not_started # "ambiguous" => /\ (require_not_started = "ok") <=> (require_started # "ok")
                                                   /\ (derive = "upcoming") <=> (require_not_started = "ok"))'
      BY <3>1, GatesMirror, PTL
    <3>4. (LET span == month_bounds(month_key) IN span[1] <= local_today /\ local_today <= span[2])'
      BY <3>1, MonthsHoldDays, PTL
    <3> QED BY <3>1, <3>2, <3>3, <3>4 DEF ClockInv, GatesAgree
  <2>3. CASE UNCHANGED clockVars
    <3>1. now' = now /\ shown' = shown /\ change' = change /\ shift' = shift /\ class' = class
      BY <2>3 DEF clockVars
    <3>2. /\ \A d, h : to_utc(d, h)' = to_utc(d, h)
          /\ local_today' = local_today /\ DayRepeats' = DayRepeats
      BY <3>1 DEF to_utc, local, local_today, DayRepeats
    <3>3. /\ has_started' = has_started /\ has_ended' = has_ended
          /\ require_not_started' = require_not_started /\ require_started' = require_started
      BY <3>1, <3>2 DEF has_started, has_ended, require_not_started, require_started, to_utc_checked
    <3>4. derive' = derive /\ month_key' = month_key
      BY <3>1, <3>2, <3>3 DEF derive, month_key
    <3>5. GatesAgree'
      BY <3>1, <3>2, <3>3, <3>4 DEF ClockInv, GatesAgree, month_bounds
    <3>6. ClockTypeOK'
      BY <3>1 DEF ClockInv, ClockTypeOK
    <3> QED BY <3>5, <3>6 DEF ClockInv
  <2> QED BY <2>2, <2>3
<1>3. ClockInv => GatesAgree
  BY DEF ClockInv
<1> QED BY <1>1, <1>2, <1>3, PTL DEF ClockSpec

-----------------------------------------------------------------------------
(* The report: it is complete, and it reconciles if nothing was written.   *)

\* What each order pays for one kind of line.
LineOf(s) == [o \in Order |-> Basket[o].gross[s]]

\* A query reads finitely many orders.
LEMMA PaidIsFinite ==
  ASSUME NEW months
  PROVE  Paid(months) \subseteq Order /\ IsFiniteSet(Paid(months))
<1>1. Paid(months) \subseteq Order
  BY DEF Paid
<1> QED BY <1>1, FS_Subset, ReportAssumption

\* A line is a course, a ticket or a membership.
LEMMA ThreeKindsOfLine == IsFiniteSet(OrderSource)
<1>1. IsFiniteSet({"course"}) /\ IsFiniteSet({"ticket"}) /\ IsFiniteSet({"membership"})
  BY FS_Singleton
<1>2. OrderSource = ({"course"} \cup {"ticket"}) \cup {"membership"}
  BY DEF OrderSource
<1> QED BY <1>1, <1>2, FS_Union

\* Every amount of an order is a number, and its gross sums its lines.
LEMMA LinesAreAmounts ==
  ASSUME NEW o \in Order
  PROVE  /\ \A s \in OrderSource : Basket[o].gross[s] \in Nat
         /\ Gross(o) = SumFunctionOnSet(Basket[o].gross, OrderSource)
         /\ Gross(o) \in Int /\ Basket[o].off \in Int
<1>1. /\ DOMAIN Basket[o].gross = OrderSource /\ Basket[o].off \in Int
      /\ \A s \in OrderSource : Basket[o].gross[s] \in Nat
  BY ReportAssumption DEF OrderSource
<1>2. Gross(o) = SumFunctionOnSet(Basket[o].gross, DOMAIN Basket[o].gross)
  BY DEF Gross, SumFunction
<1>3. SumFunctionOnSet(Basket[o].gross, OrderSource) \in Int
  BY <1>1, ThreeKindsOfLine, SumInt
<1> QED BY <1>1, <1>2, <1>3

\* A cell of the income table sums the lines of its kind over the orders paid in its month.
LEMMA IncomeCell ==
  ASSUME NEW current \in Int, NEW m \in (current - Window + 1)..current, NEW s \in OrderSource
  PROVE  income_by_source(current)[<<m, s>>].gross_cents = SumFunctionOnSet(LineOf(s), Paid({m}))
<1> DEFINE some == {o \in Paid({m}) : Basket[o].gross[s] > 0}
           listed == [e \in some |-> Basket[e].gross[s]]
<1>1. income_by_source(current)[<<m, s>>].gross_cents = SumFunction(listed)
  <2>1. <<m, s>> \in ((current - Window + 1)..current) \X IncomeSource
    BY DEF IncomeSource
  <2> QED BY <2>1 DEF income_by_source, is_order_line
<1>2. SumFunction(listed) = SumFunctionOnSet(listed, some)
  BY DEF SumFunction
<1>3. Paid({m}) \subseteq Order /\ IsFiniteSet(Paid({m})) /\ IsFiniteSet(some)
  BY PaidIsFinite, FS_Subset
<1>4. \A o \in Order : /\ LineOf(s)[o] = Basket[o].gross[s] /\ Basket[o].gross[s] \in Nat
                        /\ LineOf(s)[o] \in Int
  BY LinesAreAmounts DEF LineOf
<1>5. SumFunctionOnSet(listed, some) = SumFunctionOnSet(LineOf(s), some)
  <2>1. \A o \in some : LineOf(s)[o] \in Int /\ listed[o] = LineOf(s)[o]
    BY <1>3, <1>4
  <2> HIDE DEF some, listed
  <2> QED BY <1>3, <2>1, SumAgrees
<1>6. SumFunctionOnSet(LineOf(s), some) = SumFunctionOnSet(LineOf(s), Paid({m}))
  <2>1. some \subseteq Paid({m})
    OBVIOUS
  <2>3. \A o \in Paid({m}) : LineOf(s)[o] \in Int
    BY <1>3, <1>4
  <2>2. \A o \in Paid({m}) \ some : LineOf(s)[o] = 0
    BY <1>3, <1>4
  <2> HIDE DEF some
  <2> QED BY <1>3, <2>1, <2>2, <2>3, SumOfSome
<1> QED BY <1>1, <1>2, <1>5, <1>6

\* The trend's revenue of a month is its order lines less what was taken off.
LEMMA TrendReconciles ==
  ASSUME NEW current \in Int, NEW m \in (current - Window + 1)..current,
         NEW i \in 1..Window, current - Window + i = m
  PROVE  revenue_trend(current)[i]
           = SumFunction([s \in OrderSource |-> income_by_source(current)[<<m, s>>].gross_cents])
               - SumFunction([o \in Paid({m}) |-> Basket[o].off])
<1> DEFINE T == Paid({m})
           total == [o \in T |-> total_cents(o)]
           gross == [o \in T |-> Gross(o)]
           less == [o \in T |-> Basket[o].off]
           lines == [o \in T |-> Basket[o].gross]
           byKind == [s \in OrderSource |-> LineOf(s)]
           cents == [s \in OrderSource |-> income_by_source(current)[<<m, s>>].gross_cents]
<1>1. T \subseteq Order /\ IsFiniteSet(T)
  BY PaidIsFinite
<1>2. revenue_trend(current)[i] = SumFunctionOnSet(total, T)
  <2>1. revenue_trend(current)[i]
          = SumFunction([o \in Paid({current - Window + i}) |-> total_cents(o)])
    BY DEF revenue_trend
  <2>2. SumFunction(total) = SumFunctionOnSet(total, T)
    BY DEF SumFunction
  <2> QED BY <2>1, <2>2
<1>3. \A o \in T : /\ gross[o] = SumFunctionOnSet(lines[o], OrderSource)
                     /\ gross[o] \in Int /\ less[o] \in Int /\ total[o] = gross[o] - less[o]
                     /\ total[o] \in Int
  BY <1>1, LinesAreAmounts DEF total_cents
<1>4. \A o \in T : \A s \in OrderSource : lines[o][s] \in Int
  BY <1>1, LinesAreAmounts
<1>5. \A s \in OrderSource : cents[s] = SumFunctionOnSet(byKind[s], T)
  BY IncomeCell
<1>6. SumFunctionOnSet(gross, T) = SumFunctionOnSet(cents, OrderSource)
  <2>1. IsTransposed(byKind, lines, T, OrderSource)
    BY <1>1, <1>4 DEF LineOf, IsTransposed
  <2>2. \A o \in T : gross[o] = SumFunctionOnSet(lines[o], OrderSource)
    BY <1>3
  <2> HIDE DEF T, gross, lines, byKind, cents
  <2> QED BY <1>1, <1>5, <2>1, <2>2, ThreeKindsOfLine, SumOfRows
<1>7. SumFunctionOnSet(gross, T) = SumFunctionOnSet(total, T) + SumFunctionOnSet(less, T)
  <2>1. \A o \in T : total[o] \in Int /\ less[o] \in Int /\ gross[o] = total[o] + less[o]
    BY <1>3
  <2> HIDE DEF T, gross, total, less
  <2> QED BY <1>1, <2>1, SumPlus
<1>8. SumFunctionOnSet(total, T) \in Int /\ SumFunctionOnSet(less, T) \in Int
  <2> HIDE DEF T, total, gross, less
  <2> QED BY <1>1, <1>3, SumInt
<1>9. SumFunction(cents) = SumFunctionOnSet(cents, OrderSource)
      /\ SumFunction(less) = SumFunctionOnSet(less, T)
  BY DEF SumFunction
<1> HIDE DEF T, total, gross, less, cents
<1>10. SumFunctionOnSet(total, T) = SumFunctionOnSet(cents, OrderSource) - SumFunctionOnSet(less, T)
  BY <1>6, <1>7, <1>8
<1>11. revenue_trend(current)[i] = SumFunction(cents) - SumFunction(less)
  BY <1>2, <1>9, <1>10, Zenon
<1> QED BY <1>11 DEF cents, less, T

\* Every course line of the window is a coach's or nobody's, and is paid in one of its months.
LEMMA CoachesReconcile ==
  ASSUME NEW current \in Int, coachOf \in [Course -> Coach \cup {NoCoach}]
  PROVE  SumFunction(coach_reports(current)) + Taught(NoCoach, (current - Window + 1)..current)
           = SumFunction([m \in (current - Window + 1)..current |->
                            income_by_source(current)[<<m, "course">>].gross_cents])
<1> DEFINE span == (current - Window + 1)..current
           lines == LineOf("course")
           cents == [m \in span |-> income_by_source(current)[<<m, "course">>].gross_cents]
           byMonth == [m \in span |-> Paid({m})]
           byCoach == [k \in Coach \cup {NoCoach} |-> {o \in Paid(span) : coachOf[Basket[o].course] = k}]
           taught == coach_reports(current)
           coached == UNION {byCoach[k] : k \in Coach}
           lone == byCoach[NoCoach]
<1>1. IsFiniteSet(span) /\ IsFiniteSet(Coach)
  BY FS_Interval, ReportAssumption
<1>2. \A o \in Order : lines[o] \in Int /\ coachOf[Basket[o].course] \in Coach \cup {NoCoach}
  BY LinesAreAmounts, ReportAssumption DEF LineOf, OrderSource
<1>3. Paid(span) \subseteq Order /\ IsFiniteSet(Paid(span))
  BY PaidIsFinite
<1>4. SumFunctionOnSet(cents, span) = SumFunctionOnSet(lines, Paid(span))
  <2>1. \A m \in span : /\ IsFiniteSet(byMonth[m]) /\ byMonth[m] \subseteq Order
                         /\ cents[m] = SumFunctionOnSet(lines, byMonth[m])
    <3> TAKE m \in span
    <3>1. byMonth[m] = Paid({m}) /\ cents[m] = income_by_source(current)[<<m, "course">>].gross_cents
      OBVIOUS
    <3>2. "course" \in OrderSource
      BY DEF OrderSource
    <3> HIDE DEF byMonth, cents, lines
    <3>3. cents[m] = SumFunctionOnSet(LineOf("course"), Paid({m}))
      BY <3>1, <3>2, IncomeCell
    <3> QED BY <3>1, <3>3, PaidIsFinite DEF lines
  <2>2. \A m, n \in span : m # n => byMonth[m] \cap byMonth[n] = {}
    BY DEF Paid
  <2>3. UNION {byMonth[m] : m \in span} = Paid(span)
    BY DEF Paid
  <2>4. \A m \in span : \A o \in byMonth[m] : lines[o] \in Int
    BY <1>2, <2>1
  <2> HIDE DEF span, lines, cents, byMonth
  <2>5. SumFunctionOnSet(cents, span) = SumFunctionOnSet(lines, UNION {byMonth[m] : m \in span})
    BY <1>1, <2>1, <2>2, <2>4, SumOfSums
  <2> QED BY <2>3, <2>5
<1>5. \A k \in Coach \cup {NoCoach} :
         /\ byCoach[k] \subseteq Paid(span) /\ IsFiniteSet(byCoach[k])
         /\ Taught(k, span) = SumFunctionOnSet(lines, byCoach[k])
  <2> TAKE k \in Coach \cup {NoCoach}
  <2> DEFINE listed == [o \in byCoach[k] |-> Basket[o].gross["course"]]
  <2>1. byCoach[k] \subseteq Paid(span) /\ IsFiniteSet(byCoach[k])
    BY <1>3, FS_Subset
  <2>2. Taught(k, span) = SumFunction(listed)
    BY DEF Taught
  <2>3. SumFunction(listed) = SumFunctionOnSet(listed, byCoach[k])
    BY DEF SumFunction
  <2>4. \A o \in byCoach[k] : lines[o] \in Int /\ listed[o] = lines[o]
    BY <1>2, <1>3, <2>1 DEF LineOf
  <2> HIDE DEF listed, byCoach, lines, span
  <2>5. SumFunctionOnSet(listed, byCoach[k]) = SumFunctionOnSet(lines, byCoach[k])
    BY <2>1, <2>4, SumAgrees
  <2> QED BY <2>1, <2>2, <2>3, <2>5
<1>6. SumFunctionOnSet(taught, Coach) = SumFunctionOnSet(lines, coached)
  <2>1. \A k \in Coach : taught[k] = SumFunctionOnSet(lines, byCoach[k])
    <3> TAKE k \in Coach
    <3>1. taught[k] = Taught(k, span)
      BY DEF coach_reports
    <3> QED BY <1>5, <3>1
  <2>2. \A k, l \in Coach : k # l => byCoach[k] \cap byCoach[l] = {}
    OBVIOUS
  <2>3. \A k \in Coach : \A o \in byCoach[k] : lines[o] \in Int
    BY <1>2, <1>3, <1>5
  <2>4. \A k \in Coach : IsFiniteSet(byCoach[k])
    BY <1>5
  <2> HIDE DEF span, lines, taught, byCoach
  <2> QED BY <1>1, <2>1, <2>2, <2>3, <2>4, SumOfSums
<1>7. SumFunctionOnSet(lines, Paid(span)) = SumFunctionOnSet(lines, coached) + SumFunctionOnSet(lines, lone)
  <2>1. coached \cup lone = Paid(span)
    BY <1>2, <1>3
  <2>2. coached \cap lone = {}
    BY ReportAssumption
  <2>3. coached \subseteq Paid(span) /\ lone \subseteq Paid(span)
    BY <2>1
  <2>4. \A o \in coached \cup lone : lines[o] \in Int
    BY <1>2, <1>3, <2>1
  <2> HIDE DEF span, lines, taught, byCoach, coached, lone
  <2>5. IsFiniteSet(coached) /\ IsFiniteSet(lone)
    BY <1>3, <2>3, FS_Subset
  <2> QED BY <2>1, <2>2, <2>4, <2>5, SumUnion
<1>8. SumFunction(cents) = SumFunctionOnSet(cents, span)
      /\ SumFunction(taught) = SumFunctionOnSet(taught, Coach)
  BY DEF SumFunction, coach_reports
<1>9. Taught(NoCoach, span) = SumFunctionOnSet(lines, lone)
  BY <1>5
<1> HIDE DEF span, lines, taught, cents, coached, lone
<1>10. SumFunction(taught) + Taught(NoCoach, span) = SumFunction(cents)
  BY <1>4, <1>6, <1>7, <1>8, <1>9
<1> QED BY <1>10 DEF span, taught, cents

\* The orders split by method are the orders of the month.
LEMMA MethodsReconcile ==
  ASSUME NEW current \in Int
  PROVE  kpis(current).this.paid = SumFunction(payment_split(current))
<1> DEFINE T == Paid({current})
           method == [o \in T |-> Basket[o].method]
           M == {method[o] : o \in T}
           P == [x \in M |-> {o \in T : Basket[o].method = x}]
           split == [x \in M |-> Cardinality(P[x])]
<1>1. IsFiniteSet(T)
  BY PaidIsFinite
<1>2. IsFiniteSet(M)
  <2> HIDE DEF T, method
  <2> QED BY <1>1, FiniteImage
<1>3. \A x \in M : IsFiniteSet(P[x])
  BY <1>1, FS_Subset
<1>4. \A x, y \in M : x # y => P[x] \cap P[y] = {}
  OBVIOUS
<1>5. UNION {P[x] : x \in M} = T
  <2>1. \A o \in T : method[o] \in M /\ o \in P[method[o]]
    OBVIOUS
  <2>2. \A x \in M : P[x] \subseteq T
    OBVIOUS
  <2> HIDE DEF T, M, P
  <2> QED BY <2>1, <2>2
<1>6. SumFunctionOnSet(split, M) = Cardinality(T)
  <2> HIDE DEF T, M, P
  <2> QED BY <1>2, <1>3, <1>4, <1>5, SumOfParts
<1>7. payment_split(current) = split
  <2>1. M = {Basket[o].method : o \in T}
    OBVIOUS
  <2> QED BY <2>1 DEF payment_split
<1>8. SumFunction(split) = SumFunctionOnSet(split, M)
  BY DEF SumFunction
<1>9. kpis(current).this.paid = Cardinality(T)
  BY DEF kpis
<1> QED BY <1>6, <1>7, <1>8, <1>9

\* The active of a month are members, and finitely many.
LEMMA ActiveIsFinite ==
  ASSUME NEW m
  PROVE  active(m) \subseteq Customer /\ IsFiniteSet(active(m))
<1>1. active(m) \subseteq Customer
  BY DEF active
<1> QED BY <1>1, FS_Subset, ReportAssumption

\* Who was active both months is one of the month before, and no newcomer.
LEMMA RetainedReturn ==
  ASSUME NEW current \in Int, NEW m \in (current - Cohort + 1)..current
  PROVE  /\ retention(current)[m].retained_count <= retention(current)[m].prev_active_count
         /\ retention(current)[m].retained_count <= retention(current)[m].returning_count
<1> DEFINE both == active(m) \cap active(m - 1)
           again == {c \in active(m) : ~ \A i \in present(c) : i >= m}
<1>1. /\ retention(current)[m].retained_count = Cardinality(both)
      /\ retention(current)[m].prev_active_count = Cardinality(active(m - 1))
      /\ retention(current)[m].returning_count = Cardinality(again)
  BY DEF retention
<1>2. both \subseteq active(m - 1) /\ both \subseteq again
  <2>1. m \in Int
    BY ReportAssumption
  <2> QED BY <2>1 DEF active
<1>3. IsFiniteSet(active(m - 1)) /\ IsFiniteSet(again)
  BY ActiveIsFinite, FS_Subset
<1> HIDE DEF both, again
<1>4. Cardinality(both) <= Cardinality(active(m - 1)) /\ Cardinality(both) <= Cardinality(again)
  BY <1>2, <1>3, FS_Subset
<1> QED BY <1>1, <1>4

\* Newcomers and the others are the active of a month.
LEMMA CohortsCountTheActive ==
  ASSUME NEW current \in Int, NEW m \in (current - Cohort + 1)..current,
         m - 1 \in (current - Cohort + 1)..current
  PROVE  retention(current)[m].prev_active_count
           = retention(current)[m - 1].new_count + retention(current)[m - 1].returning_count
<1> DEFINE l == m - 1
           A == {c \in active(l) : \A i \in present(c) : i >= l}
           B == {c \in active(l) : ~ \A i \in present(c) : i >= l}
<1>1. /\ retention(current)[m].prev_active_count = Cardinality(active(l))
      /\ retention(current)[l].new_count = Cardinality(A)
      /\ retention(current)[l].returning_count = Cardinality(B)
  BY DEF retention
<1>2. IsFiniteSet(A) /\ IsFiniteSet(B)
  BY ActiveIsFinite, FS_Subset
<1>3. active(l) = A \cup B /\ A \cap B = {}
  OBVIOUS
<1> HIDE DEF A, B, l
<1>4. /\ Cardinality(A \cup B) = Cardinality(A) + Cardinality(B) - Cardinality(A \cap B)
      /\ Cardinality(A) \in Nat /\ Cardinality(B) \in Nat /\ Cardinality(A \cap B) = 0
  BY <1>2, <1>3, FS_Union, FS_CardinalityType, FS_EmptySet
<1>5. retention(current)[m].prev_active_count
        = retention(current)[l].new_count + retention(current)[l].returning_count
  BY <1>1, <1>3, <1>4
<1> QED BY <1>5 DEF l

\* Every marked member is in one band.
LEMMA BandsReconcile ==
  SumFunction(attendance_distribution) = Cardinality({c \in Customer : marked(c) # {}})
<1> DEFINE M == {c \in Customer : marked(c) # {}}
           Bands == {"gte_95", "85_94", "75_84", "lt_75"}
           P == [b \in Bands |-> {c \in Customer : marked(c) # {} /\ Band(c) = b}]
           split == [b \in Bands |-> Cardinality(P[b])]
<1>1. IsFiniteSet(Bands)
  <2>1. /\ IsFiniteSet({"gte_95"}) /\ IsFiniteSet({"85_94"})
        /\ IsFiniteSet({"75_84"}) /\ IsFiniteSet({"lt_75"})
    BY FS_Singleton
  <2>2. Bands = ({"gte_95"} \cup {"85_94"}) \cup ({"75_84"} \cup {"lt_75"})
    OBVIOUS
  <2>3. IsFiniteSet({"gte_95"} \cup {"85_94"}) /\ IsFiniteSet({"75_84"} \cup {"lt_75"})
    BY <2>1, FS_Union
  <2> HIDE DEF Bands
  <2> QED BY <2>2, <2>3, FS_Union, Zenon
<1>2. \A b \in Bands : IsFiniteSet(P[b])
  BY FS_Subset, ReportAssumption
<1>3. \A b, d \in Bands : b # d => P[b] \cap P[d] = {}
  OBVIOUS
<1>4. UNION {P[b] : b \in Bands} = M
  <2>1. \A c \in Customer : Band(c) \in Bands
    BY DEF Band
  <2> QED BY <2>1
<1>5. SumFunctionOnSet(split, Bands) = Cardinality(M)
  <2> HIDE DEF M, Bands, P
  <2> QED BY <1>1, <1>2, <1>3, <1>4, SumOfParts
<1>6. attendance_distribution = split
  BY DEF attendance_distribution
<1>7. SumFunction(split) = SumFunctionOnSet(split, Bands)
  BY DEF SumFunction
<1> QED BY <1>5, <1>6, <1>7

\* What a query answers depends on the books alone, query by query.
LEMMA TrendKept ==
  ASSUME UNCHANGED books, NEW m PROVE revenue_trend(m)' = revenue_trend(m)
BY DEF books, revenue_trend, Paid

LEMMA CoachesKept ==
  ASSUME UNCHANGED books, NEW m PROVE coach_reports(m)' = coach_reports(m)
BY DEF books, coach_reports, Taught, Paid

LEMMA KpisKept ==
  ASSUME UNCHANGED books, NEW m PROVE kpis(m)' = kpis(m)
BY DEF books, kpis, Paid, active, present, marked

LEMMA IncomeKept ==
  ASSUME UNCHANGED books, NEW m PROVE income_by_source(m)' = income_by_source(m)
BY DEF books, income_by_source, Paid

LEMMA SplitKept ==
  ASSUME UNCHANGED books, NEW m PROVE payment_split(m)' = payment_split(m)
BY DEF books, payment_split, Paid

LEMMA BandsKept ==
  ASSUME UNCHANGED books PROVE attendance_distribution' = attendance_distribution
BY DEF books, attendance_distribution, Band, present, marked

LEMMA CohortsKept ==
  ASSUME UNCHANGED books, NEW m PROVE retention(m)' = retention(m)
BY DEF books, retention, active, present

\* An answer is the same as long as neither the books nor the report's clock changes.
LEMMA AnswersKept ==
  ASSUME UNCHANGED <<books, at>>, NEW q PROVE Answer(q, at)' = Answer(q, at)
BY TrendKept, CoachesKept, KpisKept, IncomeKept, SplitKept, BandsKept, CohortsKept DEF Answer

-----------------------------------------------------------------------------
\* The invariant: which queries are still to run, and what the answers so far satisfy.
QueryNames == {"trend", "coaches", "kpis", "income", "payment", "bands", "retention"}

Pending(q) == \E i \in 1..Len(asked) : asked[i] = q

\* What stays true of an answer whatever is written after it, and what it is as long as
\* nothing is.
AnswerStands(q) ==
  /\ q = "income" => DOMAIN inputs[q] = ((at - Window + 1)..at) \X IncomeSource
  /\ q = "retention" =>
       \A m \in DOMAIN inputs[q] : inputs[q][m].retained_count <= inputs[q][m].prev_active_count
  /\ quiet => inputs[q] = Answer(q, at)

ReportTypeOK ==
  /\ nowMonth \in 1..LastMonth /\ at \in 0..LastMonth
  /\ asked \in Seq(QueryNames) /\ DOMAIN inputs = QueryNames
  /\ coachOf \in [Course -> Coach \cup {NoCoach}]
AnswersHold == at # 0 => \A q \in QueryNames : Pending(q) \/ AnswerStands(q)
ResponseHolds ==
  response # None => asked = <<>> /\ at # 0 /\ response = assemble_admin_report(inputs, at)

ReportInv == ReportTypeOK /\ AnswersHold /\ ResponseHolds

\* A report begins with every query pending and no other.
LEMMA SevenQueries ==
  /\ Queries \in Seq(QueryNames) /\ DOMAIN NoReport = QueryNames
  /\ \A q \in QueryNames : \E i \in 1..Len(Queries) : Queries[i] = q
<1>1. Queries \in Seq(QueryNames) /\ Len(Queries) = 7 /\ 1..7 = {1, 2, 3, 4, 5, 6, 7}
  BY DEF Queries, QueryNames
<1>2. /\ Queries[1] = "trend" /\ Queries[2] = "coaches" /\ Queries[3] = "kpis"
      /\ Queries[4] = "income" /\ Queries[5] = "payment" /\ Queries[6] = "bands"
      /\ Queries[7] = "retention"
  BY DEF Queries
<1>3. \A q \in QueryNames : \E i \in 1..Len(Queries) : Queries[i] = q
  BY <1>1, <1>2 DEF QueryNames
<1>4. \A i \in 1..Len(Queries) : Queries[i] \in QueryNames
  BY <1>1, <1>2 DEF QueryNames
<1>5. DOMAIN NoReport = {Queries[i] : i \in 1..Len(Queries)}
  BY DEF NoReport
<1>6. DOMAIN NoReport = QueryNames
  <2> HIDE DEF QueryNames
  <2> QED BY <1>3, <1>4, <1>5
<1> QED BY <1>1, <1>3, <1>6

\* The invariant holds before the first report,
LEMMA ReportInvInit == ReportInit => ReportInv
<1> SUFFICES ASSUME ReportInit PROVE ReportInv
  OBVIOUS
<1>1. /\ nowMonth \in 1..LastMonth /\ at = 0 /\ asked = <<>> /\ inputs = NoReport
      /\ response = None /\ coachOf \in [Course -> Coach \cup {NoCoach}]
  BY DEF ReportInit
<1>2. ReportTypeOK
  BY <1>1, SevenQueries, ReportAssumption DEF ReportTypeOK
<1> QED BY <1>1, <1>2 DEF ReportInv, AnswersHold, ResponseHolds

\* What every answer satisfies, whenever its query runs.
LEMMA AnswersSound ==
  ASSUME NEW q, NEW current \in Int
  PROVE  /\ q = "income" =>
              DOMAIN Answer(q, current) = ((current - Window + 1)..current) \X IncomeSource
         /\ q = "retention" =>
              \A m \in DOMAIN Answer(q, current) :
                Answer(q, current)[m].retained_count <= Answer(q, current)[m].prev_active_count
<1>1. CASE q = "income"
  BY <1>1 DEF Answer, income_by_source
<1>2. CASE q = "retention"
  <2>1. Answer(q, current) = retention(current)
    BY <1>2 DEF Answer
  <2>2. DOMAIN retention(current) = (current - Cohort + 1)..current
    BY DEF retention
  <2>3. \A m \in DOMAIN Answer(q, current) :
          Answer(q, current)[m].retained_count <= Answer(q, current)[m].prev_active_count
    BY <2>1, <2>2, RetainedReturn
  <2> QED BY <1>2, <2>3
<1> QED BY <1>1, <1>2

\* A query answers the first of those pending and leaves the other answers alone.
LEMMA QueryKeeps == ASSUME ReportInv, Query PROVE ReportInv'
<1> DEFINE h == Head(asked)
<1>1. /\ asked # <<>> /\ asked' = Tail(asked) /\ inputs' = [inputs EXCEPT ![h] = Answer(h, at)]
      /\ UNCHANGED <<nowMonth, books, writes, at, response, quiet>>
  BY DEF Query
<1>2. asked \in Seq(QueryNames) /\ DOMAIN inputs = QueryNames /\ at \in 0..LastMonth
  BY DEF ReportInv, ReportTypeOK
<1>3. h \in QueryNames /\ Tail(asked) \in Seq(QueryNames)
  BY <1>1, <1>2
<1>4. ReportTypeOK'
  BY <1>1, <1>2, <1>3 DEF ReportInv, ReportTypeOK, books
<1>5. ResponseHolds'
  BY <1>1 DEF ReportInv, ResponseHolds
<1>6. \A q \in QueryNames : Pending(q) => q = h \/ Pending(q)'
  <2> SUFFICES ASSUME NEW q \in QueryNames, NEW i \in 1..Len(asked), asked[i] = q, q # h
               PROVE  Pending(q)'
    BY DEF Pending
  <2>1. i # 1
    BY <1>1, <1>2
  <2>2. i - 1 \in 1..Len(Tail(asked)) /\ Tail(asked)[i - 1] = q
    BY <1>1, <1>2, <2>1
  <2> QED BY <1>1, <2>2 DEF Pending
<1>7. AnswersHold'
  <2> SUFFICES ASSUME at # 0, NEW q \in QueryNames, ~Pending(q)' PROVE AnswerStands(q)'
    BY <1>1 DEF AnswersHold
  <2>1. CASE q = h
    <3>1. inputs'[q] = Answer(q, at)
      BY <1>1, <1>2, <1>3, <2>1
    <3>2. at \in Int /\ at' = at /\ Answer(q, at)' = Answer(q, at)
      BY <1>1, <1>2, AnswersKept, ReportAssumption
    <3>3. inputs'[q] = Answer(q, at)'
      BY <3>1, <3>2
    <3>4. q = "income" => DOMAIN inputs'[q] = ((at - Window + 1)..at) \X IncomeSource
      BY <3>1, <3>2, AnswersSound
    <3>5. q = "retention" =>
            \A m \in DOMAIN inputs'[q] :
              inputs'[q][m].retained_count <= inputs'[q][m].prev_active_count
      BY <3>1, <3>2, AnswersSound
    <3> QED BY <3>2, <3>3, <3>4, <3>5 DEF AnswerStands
  <2>2. CASE q # h
    <3>1. AnswerStands(q)
      BY <1>6, <2>2 DEF ReportInv, AnswersHold
    <3>2. inputs'[q] = inputs[q]
      BY <1>1, <1>2, <2>2
    <3>3. Answer(q, at)' = Answer(q, at)
      BY <1>1, AnswersKept
    <3> QED BY <1>1, <3>1, <3>2, <3>3 DEF AnswerStands
  <2> QED BY <2>1, <2>2
<1> QED BY <1>4, <1>5, <1>7 DEF ReportInv

\* and every step keeps it: a write leaves the answers given as they are, and ends the quiet.
LEMMA ReportInvNext == ReportInv /\ [ReportNext]_reportVars => ReportInv'
<1> SUFFICES ASSUME ReportInv, [ReportNext]_reportVars PROVE ReportInv'
  OBVIOUS
<1> USE DEF ReportTypeOK
<1>1. CASE Begin
  <2>1. /\ at' = nowMonth /\ asked' = Queries /\ inputs' = NoReport /\ response' = None
        /\ nowMonth' = nowMonth
    BY <1>1 DEF Begin
  <2>2. ReportTypeOK'
    BY <1>1, <2>1, SevenQueries, ReportAssumption DEF ReportInv, Begin, books
  <2>3. AnswersHold'
    BY <2>1, SevenQueries DEF AnswersHold, Pending
  <2> QED BY <2>1, <2>2, <2>3 DEF ReportInv, ResponseHolds
<1>2. CASE Query
  BY <1>2, QueryKeeps
<1>3. ASSUME UNCHANGED <<asked, at, inputs, quiet, books>> PROVE AnswersHold'
  <2> SUFFICES ASSUME at # 0, NEW q \in QueryNames, ~Pending(q)' PROVE AnswerStands(q)'
    BY <1>3 DEF AnswersHold
  <2>1. AnswerStands(q)
    BY <1>3 DEF ReportInv, AnswersHold, Pending
  <2>2. Answer(q, at)' = Answer(q, at)
    BY <1>3, AnswersKept
  <2> QED BY <1>3, <2>1, <2>2 DEF AnswerStands
<1>4. CASE Assemble
  BY <1>3, <1>4 DEF Assemble, ReportInv, ResponseHolds, books
<1>5. ASSUME Write, coachOf' \in [Course -> Coach \cup {NoCoach}] PROVE ReportInv'
  <2>1. UNCHANGED <<nowMonth, asked, at, inputs, response>> /\ ~quiet'
    BY <1>5 DEF Write
  <2>2. AnswersHold'
    BY <2>1 DEF ReportInv, AnswersHold, Pending, AnswerStands
  <2> QED BY <1>5, <2>1, <2>2 DEF ReportInv, ResponseHolds
<1>6. CASE \E o \in Order : Place(o) \/ Refund(o)
  BY <1>5, <1>6 DEF ReportInv, Place, Refund
<1>7. CASE \E h \in Rental : Rent(h)
  BY <1>5, <1>7 DEF ReportInv, Rent
<1>8. CASE \E c \in Customer, to \in {"present", "absent", "leave"} : Mark(c, to)
  BY <1>5, <1>8 DEF ReportInv, Mark
<1>11. CASE \E c \in Course, k \in Coach \cup {NoCoach} : AssignCoach(c, k)
  <2>1. PICK c \in Course, k \in Coach \cup {NoCoach} : AssignCoach(c, k)
    BY <1>11
  <2>2. coachOf' \in [Course -> Coach \cup {NoCoach}]
    BY <2>1 DEF ReportInv, AssignCoach
  <2> QED BY <1>5, <2>1, <2>2 DEF AssignCoach
<1>9. CASE MonthEnds
  <2>1. nowMonth' = nowMonth + 1 /\ nowMonth < LastMonth /\ UNCHANGED <<books, reporting>>
    BY <1>9 DEF MonthEnds
  <2>2. UNCHANGED <<asked, at, inputs, quiet, books, response>>
    BY <2>1 DEF reporting
  <2> QED BY <1>3, <2>1, <2>2, ReportAssumption DEF ReportInv, ResponseHolds, books
<1>10. CASE UNCHANGED reportVars
  <2>1. UNCHANGED <<nowMonth, asked, at, inputs, quiet, books, response>>
    BY <1>10 DEF reportVars, reporting
  <2> QED BY <1>3, <2>1 DEF ReportInv, ResponseHolds, books
<1> QED BY <1>1, <1>2, <1>4, <1>6, <1>7, <1>8, <1>9, <1>10, <1>11 DEF ReportNext

\* so it always holds.
LEMMA ReportInvHolds == ReportSpec => []ReportInv
BY ReportInvInit, ReportInvNext, PTL DEF ReportSpec

\* The report of a response: every query has answered.
LEMMA AllAnswered ==
  ASSUME ReportInv, response # None
  PROVE  /\ at \in 1..LastMonth /\ response = assemble_admin_report(inputs, at)
         /\ \A q \in QueryNames : AnswerStands(q)
<1>1. asked = <<>> /\ at # 0 /\ response = assemble_admin_report(inputs, at)
  BY DEF ReportInv, ResponseHolds
<1>2. \A q \in QueryNames : ~Pending(q)
  BY <1>1 DEF Pending
<1>3. at \in 1..LastMonth
  BY <1>1, ReportAssumption DEF ReportInv, ReportTypeOK
<1> QED BY <1>1, <1>2, <1>3 DEF ReportInv, AnswersHold

\* The report has a row of every source, of the month it was asked in.
LEMMA NoSourceMissing ==
  ASSUME ReportInv, response # None
  PROVE  /\ DOMAIN response.revenue_breakdown = IncomeSource
         /\ DOMAIN response.category_split = OrderSource
<1> DEFINE cells == DOMAIN inputs["income"]
<1>1. at \in 1..LastMonth /\ response = assemble_admin_report(inputs, at)
  BY AllAnswered
<1>2. cells = ((at - Window + 1)..at) \X IncomeSource
  <2>1. "income" \in QueryNames
    BY DEF QueryNames
  <2> QED BY <2>1, AllAnswered DEF AnswerStands
<1>3. at \in (at - Window + 1)..at
  BY <1>1, ReportAssumption
<1>4. \A s \in IncomeSource : <<at, s>> \in cells
  BY <1>2, <1>3
<1>5. OrderSource \subseteq IncomeSource
  BY DEF IncomeSource
<1>6. /\ DOMAIN response.revenue_breakdown = {s \in IncomeSource : <<at, s>> \in cells}
      /\ DOMAIN response.category_split = {s \in OrderSource : <<at, s>> \in cells}
  BY <1>1 DEF assemble_admin_report
<1> HIDE DEF cells
<1> QED BY <1>4, <1>5, <1>6

\* Nothing changed under the report: it reconciles.
LEMMA QuietReconciles ==
  ASSUME ReportInv, response # None, quiet
  PROVE  LET in == inputs
             cents(month, source) == in["income"][<<month, source>>].gross_cents
             order_lines(month) == SumFunction([s \in OrderSource |-> cents(month, s)])
             off(month) == SumFunction([o \in Paid({month}) |-> Basket[o].off])
             month_of(m) == in["retention"][m]
         IN  /\ response.this_month_cents = order_lines(at) - off(at)
             /\ response.last_month_cents = order_lines(at - 1) - off(at - 1)
             /\ in["kpis"].this.paid = SumFunction(in["payment"])
             /\ SumFunction(in["coaches"]) + Taught(NoCoach, (at - Window + 1)..at)
                  = SumFunction([m \in (at - Window + 1)..at |-> cents(m, "course")])
             /\ \A m \in DOMAIN in["retention"] :
                  /\ month_of(m).retained_count <= month_of(m).returning_count
                  /\ m - 1 \in DOMAIN in["retention"] =>
                       month_of(m).prev_active_count
                         = month_of(m - 1).new_count + month_of(m - 1).returning_count
             /\ SumFunction(in["bands"]) = Cardinality({c \in Customer : marked(c) # {}})
<1>1. /\ at \in 1..LastMonth /\ response = assemble_admin_report(inputs, at)
      /\ at \in Int /\ Window \in Nat /\ Window >= 2
  BY AllAnswered, ReportAssumption
<1>2. /\ inputs["trend"] = revenue_trend(at) /\ inputs["coaches"] = coach_reports(at)
      /\ inputs["kpis"] = kpis(at) /\ inputs["income"] = income_by_source(at)
      /\ inputs["payment"] = payment_split(at) /\ inputs["bands"] = attendance_distribution
      /\ inputs["retention"] = retention(at)
  <2>1. \A q \in QueryNames : inputs[q] = Answer(q, at)
    BY AllAnswered DEF AnswerStands
  <2> QED BY <2>1 DEF QueryNames, Answer
<1>3. /\ response.this_month_cents = revenue_trend(at)[Window]
      /\ response.last_month_cents = revenue_trend(at)[Window - 1]
  BY <1>1, <1>2 DEF assemble_admin_report
<1>4. response.this_month_cents
        = SumFunction([s \in OrderSource |-> inputs["income"][<<at, s>>].gross_cents])
            - SumFunction([o \in Paid({at}) |-> Basket[o].off])
  <2>1. at \in (at - Window + 1)..at /\ Window \in 1..Window /\ at - Window + Window = at
    BY <1>1
  <2>2. revenue_trend(at)[Window]
          = SumFunction([s \in OrderSource |-> income_by_source(at)[<<at, s>>].gross_cents])
              - SumFunction([o \in Paid({at}) |-> Basket[o].off])
    BY <1>1, <2>1, TrendReconciles
  <2> QED BY <1>2, <1>3, <2>2, Zenon
<1>5. response.last_month_cents
        = SumFunction([s \in OrderSource |-> inputs["income"][<<at - 1, s>>].gross_cents])
            - SumFunction([o \in Paid({at - 1}) |-> Basket[o].off])
  <2>1. /\ at - 1 \in (at - Window + 1)..at /\ Window - 1 \in 1..Window
        /\ at - Window + (Window - 1) = at - 1
    BY <1>1
  <2>2. revenue_trend(at)[Window - 1]
          = SumFunction([s \in OrderSource |-> income_by_source(at)[<<at - 1, s>>].gross_cents])
              - SumFunction([o \in Paid({at - 1}) |-> Basket[o].off])
    BY <1>1, <2>1, TrendReconciles
  <2> QED BY <1>2, <1>3, <2>2, Zenon
<1>6. inputs["kpis"].this.paid = SumFunction(inputs["payment"])
  BY <1>1, <1>2, MethodsReconcile
<1>7. SumFunction(inputs["coaches"]) + Taught(NoCoach, (at - Window + 1)..at)
        = SumFunction([m \in (at - Window + 1)..at |->
                         inputs["income"][<<m, "course">>].gross_cents])
  <2>1. coachOf \in [Course -> Coach \cup {NoCoach}]
    BY DEF ReportInv, ReportTypeOK
  <2> QED BY <1>1, <1>2, <2>1, CoachesReconcile
<1>8. ASSUME NEW m \in DOMAIN inputs["retention"]
      PROVE  /\ inputs["retention"][m].retained_count <= inputs["retention"][m].returning_count
             /\ m - 1 \in DOMAIN inputs["retention"] =>
                  inputs["retention"][m].prev_active_count
                    = inputs["retention"][m - 1].new_count + inputs["retention"][m - 1].returning_count
  <2>1. DOMAIN inputs["retention"] = (at - Cohort + 1)..at
    BY <1>2 DEF retention
  <2> QED BY <1>1, <1>2, <1>8, <2>1, RetainedReturn, CohortsCountTheActive
<1>9. SumFunction(inputs["bands"]) = Cardinality({c \in Customer : marked(c) # {}})
  BY <1>2, BandsReconcile
<1> QED BY <1>4, <1>5, <1>6, <1>7, <1>8, <1>9, Zenon

\* The invariant is enough for the report to be right.
LEMMA ReportInvReconciles == ReportInv => ReportReconciles
<1> SUFFICES ASSUME ReportInv, response # None PROVE ReportReconciles
  BY DEF ReportReconciles
<1>1. \A m \in DOMAIN inputs["retention"] :
        inputs["retention"][m].retained_count <= inputs["retention"][m].prev_active_count
  <2>1. "retention" \in QueryNames
    BY DEF QueryNames
  <2> QED BY <2>1, AllAnswered DEF AnswerStands
<1> QED BY <1>1, NoSourceMissing, QuietReconciles, Zenon DEF ReportReconciles

\* The admin report is of the month it was asked in, misses no source, counts nobody
\* retained who was not active the month before, and reconciles if nothing was written
\* while its queries ran, the coaches' revenue up to what courses without a coach sold
\* (reports/service.rs `admin_report`, assembly.rs `assemble_admin_report`): for any orders,
\* members, courses, coaches, window and cohort.
THEOREM ReportsReconcile == ReportSpec => []ReportReconciles
BY ReportInvHolds, ReportInvReconciles, PTL
=============================================================================
