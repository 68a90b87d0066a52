------------------------ MODULE EventPipeline_proofs ------------------------
(***************************************************************************)
(* No event is lost on its way to the audit log: in the outbox, for any    *)
(* rows, dispatchers, timing, crashes and late sends; in the consumer, for *)
(* topics that grow in any way and any partitions, attempts, crashes,      *)
(* failed commits and redeliveries.                                        *)
(***************************************************************************)
EXTENDS EventPipeline, MCConsumer, TLAPS

USE OutboxAssumption

\* The part of the types the argument needs.
Types ==
  /\ row \in [Event -> {"none", "queued", "published"}]
  /\ ok \in [Dispatcher -> SUBSET Event]
  /\ pending \subseteq Event
  /\ log \in [Partition -> Seq(Event)]

\* What a dispatcher believes the broker took is in the topic.
OkIsLogged == \A d \in Dispatcher : \A e \in ok[d] : InLog(e)

Inv == Types /\ OkIsLogged /\ PublishedIsLogged

\* Sending an event puts it into its topic and takes nothing out.
LEMMA Sent ==
  ASSUME Types, NEW e \in Event, log' = Logged(e)
  PROVE  /\ log' \in [Partition -> Seq(Event)]
         /\ InLog(e)'
         /\ \A f \in Event : InLog(f) => InLog(f)'
<1> DEFINE p == PartOf[e]
<1>1. p \in Partition /\ log[p] \in Seq(Event)
  BY DEF Types
<1>2. /\ log' = [log EXCEPT ![p] = Append(log[p], e)]
      /\ Append(log[p], e) \in Seq(Event)
  BY <1>1 DEF Logged
<1>3. log' \in [Partition -> Seq(Event)]
  BY <1>1, <1>2 DEF Types
<1>4. log'[p] = Append(log[p], e) /\ \A r \in Partition : r # p => log'[r] = log[r]
  BY <1>1, <1>2 DEF Types
<1>5. InLog(e)'
  <2>1. Len(log[p]) + 1 \in DOMAIN log'[p] /\ log'[p][Len(log[p]) + 1] = e
    BY <1>1, <1>4
  <2> QED BY <2>1 DEF InLog
<1>6. ASSUME NEW f \in Event, InLog(f) PROVE InLog(f)'
  <2>1. PICK i \in DOMAIN log[PartOf[f]] : log[PartOf[f]][i] = f
    BY <1>6 DEF InLog
  <2>2. PartOf[f] \in Partition /\ log[PartOf[f]] \in Seq(Event)
    BY DEF Types
  <2>3. CASE PartOf[f] = p
    <3>1. i \in DOMAIN Append(log[p], e) /\ Append(log[p], e)[i] = f
      BY <1>1, <2>1, <2>3
    <3> QED BY <3>1, <1>4, <2>3 DEF InLog
  <2>4. CASE PartOf[f] # p
    <3>1. log'[PartOf[f]] = log[PartOf[f]]
      BY <1>4, <2>2, <2>4
    <3> QED BY <3>1, <2>1 DEF InLog
  <2> QED BY <2>3, <2>4
<1> QED BY <1>3, <1>5, <1>6

\* A step that sends nothing keeps every event where it is.
LEMMA Unsent ==
  ASSUME UNCHANGED log PROVE \A e \in Event : InLog(e)' = InLog(e)
BY DEF InLog

\* Before anything is accepted nothing is published.
LEMMA InitInv == OutboxInit => Inv
BY DEF OutboxInit, Inv, Types, OkIsLogged, PublishedIsLogged

\* drain_once: the rows it marks published are those it had an acknowledgement
\* for; a process that dies leaves none behind.
LEMMA DispatcherInv ==
  ASSUME Inv, NEW d \in Dispatcher, DispatcherStep(d)
  PROVE  Inv'
<1> USE DEF Inv
<1>1. CASE Claim(d) \/ BeginBook(d)
  <2>1. UNCHANGED <<row, ok, pending, log>>
    BY <1>1 DEF Claim, BeginBook, rows
  <2> QED BY <2>1, Unsent DEF Types, OkIsLogged, PublishedIsLogged
<1>2. ASSUME NEW e \in Event, PublishOk(d, e) PROVE Inv'
  <2>1. /\ log' = Logged(e) /\ UNCHANGED <<row, pending>>
        /\ ok' = [ok EXCEPT ![d] = ok[d] \cup {e}]
    BY <1>2 DEF PublishOk, rows
  <2>2. Types'
    BY <2>1, Sent DEF Types
  <2>3. OkIsLogged'
    BY <2>1, Sent DEF OkIsLogged, Types
  <2>4. PublishedIsLogged'
    BY <2>1, Sent DEF PublishedIsLogged
  <2> QED BY <2>2, <2>3, <2>4
<1>3. ASSUME NEW e \in Event, PublishFail(d, e) \/ Deadline(d, e) PROVE Inv'
  <2>1. UNCHANGED <<row, ok, log>> /\ (UNCHANGED pending \/ pending' = pending \cup {e})
    BY <1>3 DEF PublishFail, Deadline, MayLinger, rows
  <2> QED BY <2>1, Unsent DEF Types, OkIsLogged, PublishedIsLogged
<1>4. CASE Book(d)
  <2>1. /\ row' = [e \in Event |-> IF e \in ok[d] THEN "published" ELSE row[e]]
        /\ ok' = [ok EXCEPT ![d] = {}] /\ UNCHANGED <<pending, log>>
    BY <1>4 DEF Book, Forget
  <2>2. Types'
    BY <2>1 DEF Types
  <2>3. OkIsLogged'
    BY <2>1, Unsent DEF OkIsLogged, Types
  <2>4. PublishedIsLogged'
    BY <2>1, Unsent DEF PublishedIsLogged, OkIsLogged, Types
  <2> QED BY <2>2, <2>3, <2>4
<1>5. CASE Die(d)
  <2>1. /\ ok' = [ok EXCEPT ![d] = {}] /\ UNCHANGED <<row, log>> /\ pending' \subseteq Event
    BY <1>5 DEF Die, Forget, rows, Types
  <2> QED BY <2>1, Unsent DEF Types, OkIsLogged, PublishedIsLogged
<1> QED BY <1>1, <1>2, <1>3, <1>4, <1>5 DEF DispatcherStep, Publish

\* Accepting a row, a late send and the clock.
LEMMA OtherInv ==
  ASSUME Inv, (\E e \in Event : insert_event_tx(e) \/ LateSend(e)) \/ Tick
  PROVE  Inv'
<1> USE DEF Inv
<1>1. ASSUME NEW e \in Event, insert_event_tx(e) PROVE Inv'
  <2>1. row' = [row EXCEPT ![e] = "queued"] /\ UNCHANGED <<ok, pending, log>>
    BY <1>1 DEF insert_event_tx, dispatchers
  <2> QED BY <2>1, Unsent DEF Types, OkIsLogged, PublishedIsLogged
<1>2. ASSUME NEW e \in Event, LateSend(e) PROVE Inv'
  <2>1. UNCHANGED <<row, ok>> /\ pending' \subseteq Event
    BY <1>2 DEF LateSend, rows, dispatchers, Types
  <2>2. CASE log' = Logged(e)
    BY <2>1, <2>2, Sent DEF Types, OkIsLogged, PublishedIsLogged
  <2>3. CASE UNCHANGED log
    BY <2>1, <2>3, Unsent DEF Types, OkIsLogged, PublishedIsLogged
  <2> QED BY <1>2, <2>2, <2>3 DEF LateSend
<1>3. CASE Tick
  <2>1. UNCHANGED <<row, ok, pending, log>>
    BY <1>3 DEF Tick
  <2> QED BY <2>1, Unsent DEF Types, OkIsLogged, PublishedIsLogged
<1> QED BY <1>1, <1>2, <1>3

\* outbox.rs, "no events are lost": whatever the timing, a row is marked
\* published only once its event is in the topic.
THEOREM NoEventLost == OutboxSpec => []PublishedIsLogged
<1>1. Inv /\ [OutboxNext]_outboxVars => Inv'
  <2> SUFFICES ASSUME Inv, [OutboxNext]_outboxVars PROVE Inv'
    OBVIOUS
  <2>1. CASE UNCHANGED outboxVars
    BY <2>1, Unsent DEF outboxVars, rows, dispatchers, Inv, Types, OkIsLogged, PublishedIsLogged
  <2> QED BY <2>1, DispatcherInv, OtherInv DEF OutboxNext
<1>2. Inv => PublishedIsLogged
  BY DEF Inv
<1> QED BY InitInv, <1>1, <1>2, PTL DEF OutboxSpec

-----------------------------------------------------------------------------
(* A claim outlives its batch when the lease is longer than the publishing *)
(* budget and the bookkeeping together.                                    *)

LongLease == LEASE > PUBLISH_BUDGET + BookTime

\* The time a dispatcher may still need before its outcome is written down.
Needs(d) == IF phase[d] = "publish" THEN left[d] + BookTime ELSE left[d]

ClockTypes ==
  /\ due = [e \in Event |-> due[e]]
  /\ left \in [Dispatcher -> Nat]
  /\ phase \in [Dispatcher -> {"idle", "publish", "book"}]
  /\ todo \in [Dispatcher -> SUBSET Event]
  /\ ok \in [Dispatcher -> SUBSET Event]
  /\ failed \in [Dispatcher -> SUBSET Event]

Leased(d) ==
  /\ phase[d] = "idle" => Claimed(d) = {}
  /\ \A e \in Claimed(d) : due[e] \in Nat /\ due[e] > Needs(d)

LeaseInv == ClockTypes /\ ClaimsDisjoint /\ \A d \in Dispatcher : Leased(d)

\* A dispatcher the step leaves alone keeps its claim and its need.
LEMMA Bystander ==
  ASSUME NEW c \in Dispatcher,
         phase'[c] = phase[c], todo'[c] = todo[c], ok'[c] = ok[c],
         failed'[c] = failed[c], left'[c] = left[c]
  PROVE  Claimed(c)' = Claimed(c) /\ Needs(c)' = Needs(c)
BY DEF Claimed, Needs

\* Time that passes for a row passes for the dispatcher that holds it.
LEMMA TickLease ==
  ASSUME LeaseInv, Tick PROVE LeaseInv'
<1> USE DEF LeaseInv
<1>1. /\ \A d \in Dispatcher : phase[d] # "idle" => left[d] > 0
      /\ due' = [e \in Event |-> IF due[e] > 0 THEN due[e] - 1 ELSE 0]
      /\ left' = [d \in Dispatcher |-> IF left[d] > 0 THEN left[d] - 1 ELSE 0]
      /\ UNCHANGED <<phase, todo, ok, failed>>
  BY DEF Tick
<1>2. ClockTypes'
  <2>1. left' \in [Dispatcher -> Nat]
    BY <1>1 DEF ClockTypes
  <2> QED BY <1>1, <2>1 DEF ClockTypes
<1>3. ClaimsDisjoint'
  BY <1>1 DEF ClaimsDisjoint, Claimed
<1>4. ASSUME NEW d \in Dispatcher PROVE Leased(d)'
  <2>1. Claimed(d)' = Claimed(d) /\ Claimed(d) \subseteq Event
    BY <1>1 DEF Claimed, ClockTypes
  <2>2. ASSUME NEW e \in Claimed(d) PROVE due'[e] \in Nat /\ due'[e] > Needs(d)'
    <3>1. phase[d] # "idle" /\ e \in Event /\ due[e] \in Nat /\ due[e] > Needs(d)
      BY <2>1 DEF Leased
    <3>2. left[d] > 0 /\ left[d] \in Nat /\ BookTime \in Nat
      BY <1>1, <3>1 DEF ClockTypes, OutboxAssumption
    <3>3. left'[d] = left[d] - 1 /\ phase'[d] = phase[d]
      BY <1>1, <3>2
    <3>4. due[e] > 0
      BY <3>1, <3>2 DEF Needs
    <3>5. due'[e] = due[e] - 1
      BY <1>1, <3>1, <3>4
    <3> QED BY <3>1, <3>2, <3>3, <3>5 DEF Needs
  <2> QED BY <1>1, <2>1, <2>2 DEF Leased
<1> QED BY <1>2, <1>3, <1>4

\* A claim takes rows that are due, which nobody's lease covers.
LEMMA ClaimLease ==
  ASSUME LongLease, LeaseInv, NEW d \in Dispatcher, Claim(d) PROVE LeaseInv'
<1> USE DEF LeaseInv
<1>1. PICK b \in Batches : /\ due' = [e \in Event |-> IF e \in b THEN LEASE ELSE due[e]]
                           /\ todo' = [todo EXCEPT ![d] = b]
  BY DEF Claim
<1>2. b \subseteq Event /\ \A e \in b : due[e] = 0
  BY DEF Batches, DueRows
<1>3. /\ phase[d] = "idle" /\ phase' = [phase EXCEPT ![d] = "publish"]
      /\ left' = [left EXCEPT ![d] = PUBLISH_BUDGET] /\ UNCHANGED <<ok, failed>>
  BY DEF Claim
<1>4. LEASE \in Nat /\ PUBLISH_BUDGET \in Nat /\ BookTime \in Nat
  BY DEF OutboxAssumption
<1>5. ClockTypes'
  BY <1>1, <1>2, <1>3, <1>4 DEF ClockTypes
<1>6. Claimed(d)' = b /\ phase'[d] = "publish" /\ left'[d] = PUBLISH_BUDGET
  <2>1. ok[d] = {} /\ failed[d] = {}
    BY <1>3 DEF Leased, Claimed
  <2> QED BY <1>1, <1>3, <2>1 DEF Claimed, ClockTypes
<1>7. \A c \in Dispatcher : c # d => Claimed(c)' = Claimed(c) /\ Needs(c)' = Needs(c)
                                    /\ phase'[c] = phase[c]
  BY <1>1, <1>3, Bystander DEF ClockTypes
<1>8. ASSUME NEW c \in Dispatcher, c # d, NEW e \in Claimed(c) PROVE e \notin b
  <2>1. due[e] \in Nat /\ due[e] > Needs(c)
    BY DEF Leased
  <2>2. Needs(c) \in Nat
    BY <1>4 DEF Needs, ClockTypes
  <2>3. due[e] # 0
    BY <2>1, <2>2
  <2> QED BY <1>2, <2>3
<1>9. ClaimsDisjoint'
  BY <1>6, <1>7, <1>8 DEF ClaimsDisjoint
<1>10. Leased(d)'
  <2>1. Needs(d)' = PUBLISH_BUDGET + BookTime
    BY <1>6 DEF Needs
  <2> QED BY <1>1, <1>2, <1>6, <2>1 DEF Leased, LongLease
<1>11. ASSUME NEW c \in Dispatcher, c # d PROVE Leased(c)'
  <2>1. \A e \in Claimed(c) : due'[e] = due[e]
    BY <1>1, <1>8, <1>11 DEF Claimed, ClockTypes
  <2> QED BY <1>7, <1>11, <2>1 DEF Leased
<1> QED BY <1>5, <1>9, <1>10, <1>11

\* Publishing moves rows within a claim; starting to book needs no more time
\* than was kept for it.
LEMMA BatchLease ==
  ASSUME LeaseInv, NEW d \in Dispatcher, Publish(d) \/ BeginBook(d) PROVE LeaseInv'
<1> USE DEF LeaseInv
<1>1. /\ phase[d] = "publish" /\ UNCHANGED due
      /\ ClockTypes'
      /\ \A c \in Dispatcher : c # d => /\ phase'[c] = phase[c] /\ todo'[c] = todo[c]
                                        /\ ok'[c] = ok[c] /\ failed'[c] = failed[c]
                                        /\ left'[c] = left[c]
  <2>1. CASE BeginBook(d)
    BY <2>1 DEF BeginBook, rows, ClockTypes, OutboxAssumption
  <2>2. ASSUME NEW e \in Event, PublishOk(d, e) PROVE <1>1
    BY <2>2 DEF PublishOk, Publishing, rows, ClockTypes
  <2>3. ASSUME NEW e \in Event, PublishFail(d, e) PROVE <1>1
    BY <2>3 DEF PublishFail, Publishing, rows, ClockTypes
  <2>4. ASSUME NEW e \in Event, Deadline(d, e) PROVE <1>1
    BY <2>4 DEF Deadline, Publishing, rows, ClockTypes
  <2> QED BY <2>1, <2>2, <2>3, <2>4 DEF Publish
<1>2. Claimed(d)' \subseteq Claimed(d) /\ Needs(d)' <= Needs(d) /\ phase'[d] # "idle"
  <2>0. left[d] \in Nat /\ BookTime \in Nat
    BY DEF ClockTypes, OutboxAssumption
  <2>1. CASE BeginBook(d)
    BY <1>1, <2>0, <2>1 DEF BeginBook, Claimed, Needs, ClockTypes
  <2>2. ASSUME NEW e \in Event, PublishOk(d, e) PROVE <1>2
    BY <1>1, <2>0, <2>2 DEF PublishOk, Publishing, Claimed, Needs, ClockTypes
  <2>3. ASSUME NEW e \in Event, PublishFail(d, e) PROVE <1>2
    BY <1>1, <2>0, <2>3 DEF PublishFail, Publishing, Claimed, Needs, ClockTypes
  <2>4. ASSUME NEW e \in Event, Deadline(d, e) PROVE <1>2
    BY <1>1, <2>0, <2>4 DEF Deadline, Publishing, Claimed, Needs, ClockTypes
  <2> QED BY <2>1, <2>2, <2>3, <2>4 DEF Publish
<1>3. \A c \in Dispatcher : c # d => Claimed(c)' = Claimed(c) /\ Needs(c)' = Needs(c)
  BY <1>1, Bystander
<1>4. ClaimsDisjoint'
  BY <1>2, <1>3 DEF ClaimsDisjoint
<1>5. Leased(d)'
  <2>1. \A e \in Claimed(d) : due[e] \in Nat
    BY DEF Leased
  <2>2. Needs(d) \in Nat /\ Needs(d)' \in Nat
    BY <1>1 DEF Needs, ClockTypes, OutboxAssumption
  <2> QED BY <1>1, <1>2, <2>1, <2>2 DEF Leased
<1>6. ASSUME NEW c \in Dispatcher, c # d PROVE Leased(c)'
  BY <1>1, <1>3, <1>6 DEF Leased
<1> QED BY <1>1, <1>4, <1>5, <1>6

\* Booking and dying end a claim; booking moves next_attempt_at of its own rows
\* only.
LEMMA EndLease ==
  ASSUME LeaseInv, NEW d \in Dispatcher, Book(d) \/ Die(d) PROVE LeaseInv'
<1> USE DEF LeaseInv
<1>1. /\ phase' = [phase EXCEPT ![d] = "idle"] /\ todo' = [todo EXCEPT ![d] = {}]
      /\ ok' = [ok EXCEPT ![d] = {}] /\ failed' = [failed EXCEPT ![d] = {}]
      /\ left' = [left EXCEPT ![d] = 0]
  BY DEF Book, Die, Forget
<1>2. due' = [e \in Event |-> due'[e]] /\ \A e \in Event \ failed[d] : due'[e] = due[e]
  BY DEF Die, Book, rows, ClockTypes
<1>3. ClockTypes'
  BY <1>1, <1>2 DEF ClockTypes
<1>4. Claimed(d)' = {} /\ phase'[d] = "idle"
  BY <1>1 DEF Claimed, ClockTypes
<1>5. \A c \in Dispatcher : c # d => /\ Claimed(c)' = Claimed(c) /\ Needs(c)' = Needs(c)
                                    /\ phase'[c] = phase[c]
  BY <1>1, Bystander DEF ClockTypes
<1>6. ClaimsDisjoint'
  BY <1>4, <1>5 DEF ClaimsDisjoint
<1>7. Leased(d)'
  BY <1>4 DEF Leased
<1>8. ASSUME NEW c \in Dispatcher, c # d PROVE Leased(c)'
  <2>1. \A e \in Claimed(c) : e \in Event \ failed[d]
    BY <1>8 DEF ClaimsDisjoint, Claimed, ClockTypes
  <2> QED BY <1>2, <1>5, <1>8, <2>1 DEF Leased
<1> QED BY <1>3, <1>6, <1>7, <1>8

\* outbox.rs on LEASE: longer than PUBLISH_BUDGET plus the bookkeeping, it keeps
\* two dispatchers from ever holding one row.
THEOREM LeaseIsLongEnough ==
  ASSUME LongLease PROVE OutboxSpec => []ClaimsDisjoint
<1>1. OutboxInit => LeaseInv
  <2> SUFFICES ASSUME OutboxInit PROVE LeaseInv
    OBVIOUS
  <2>1. ClockTypes
    BY DEF OutboxInit, ClockTypes
  <2>2. \A d \in Dispatcher : Claimed(d) = {}
    BY DEF OutboxInit, Claimed
  <2> QED BY <2>1, <2>2 DEF LeaseInv, Leased, ClaimsDisjoint
<1>2. LeaseInv /\ [OutboxNext]_outboxVars => LeaseInv'
  <2> SUFFICES ASSUME LeaseInv, [OutboxNext]_outboxVars PROVE LeaseInv'
    OBVIOUS
  <2>1. CASE UNCHANGED <<due, dispatchers>>
    BY <2>1 DEF dispatchers, LeaseInv, ClockTypes, ClaimsDisjoint, Leased, Claimed, Needs
  <2>2. ASSUME NEW e \in Event, insert_event_tx(e) \/ LateSend(e) PROVE LeaseInv'
    BY <2>1, <2>2 DEF insert_event_tx, LateSend, rows
  <2>3. CASE UNCHANGED outboxVars
    BY <2>1, <2>3 DEF outboxVars, rows
  <2> QED
    BY <2>2, <2>3, TickLease, ClaimLease, BatchLease, EndLease DEF OutboxNext, DispatcherStep
<1>3. LeaseInv => ClaimsDisjoint
  BY DEF LeaseInv
<1> QED BY <1>1, <1>2, <1>3, PTL DEF OutboxSpec

-----------------------------------------------------------------------------
(* The audit consumer alone, over topics that anybody may write to.        *)

HIDE OutboxAssumption
USE ConsumerAssumption

LogOK == log \in [Partition -> Seq(Event)]

\* The message at hand is a record of its topic, and a retry is left to it in a
\* backoff.
AtHand ==
  /\ at \in {"handle", "backoff", "commit"} => position[part] > 0
  /\ at = "backoff" => attempt < MAX_ATTEMPTS

\* The group is behind the reader, the reader within the topic.
Behind == \A p \in Partition : committed[p] <= position[p] /\ position[p] <= Len(log[p])

Done(p, n) == \A i \in 1..n : log[p][i] \in audit \cup givenUp

\* Everything read but the message at hand is resolved.
ReadIsDone ==
  \A p \in Partition :
    IF p = part /\ at \in {"handle", "backoff"}
    THEN Done(p, position[p] - 1)
    ELSE at # "off" => Done(p, position[p])

AuditInv == ConsumerTypeOK /\ LogOK /\ AtHand /\ Behind /\ ReadIsDone /\ NothingSkipped

\* At the start there is no record and nothing is committed.
LEMMA InitAudit == Init => AuditInv
<1> SUFFICES ASSUME Init PROVE AuditInv
  OBVIOUS
<1> USE DEF Init, ConsumerInit
<1>1. ConsumerTypeOK /\ AtHand
  <2>1. attempt \in 1..MAX_ATTEMPTS
    BY ConsumerAssumption
  <2>2. committed \in [Partition -> Nat] /\ position \in [Partition -> Nat]
    OBVIOUS
  <2>3. at = "off" /\ part \in Partition /\ stopping = FALSE /\ audit = {} /\ givenUp = {}
    OBVIOUS
  <2> QED BY <2>1, <2>2, <2>3 DEF ConsumerTypeOK, AtHand
<1>2. LogOK
  BY DEF LogOK
<1>3. Behind /\ ReadIsDone /\ NothingSkipped
  BY DEF Behind, ReadIsDone, Done, NothingSkipped
<1> QED BY <1>1, <1>2, <1>3 DEF AuditInv

\* A topic only grows: what was resolved stays so.
LEMMA ProduceInv ==
  ASSUME AuditInv, Produce PROVE AuditInv'
<1> USE DEF AuditInv
<1>1. PICK q \in Partition, e \in Event : log' = [log EXCEPT ![q] = Append(@, e)]
  BY DEF Produce
<1>2. LogOK'
  BY <1>1 DEF LogOK
<1>3. \A p \in Partition : Len(log[p]) <= Len(log'[p]) /\ Len(log[p]) \in Nat
                        /\ \A i \in 1..Len(log[p]) : log'[p][i] = log[p][i]
  <2> TAKE p \in Partition
  <2>1. log[p] \in Seq(Event)
    BY DEF LogOK
  <2>2. CASE p = q
    <3>1. log'[p] = Append(log[p], e)
      BY <1>1, <2>2 DEF LogOK
    <3> QED BY <2>1, <3>1
  <2>3. CASE p # q
    <3>1. log'[p] = log[p]
      BY <1>1, <2>3 DEF LogOK
    <3> QED BY <2>1, <3>1
  <2> QED BY <2>2, <2>3
<1>4. UNCHANGED <<committed, position, at, part, attempt, stopping, audit, givenUp>>
  BY DEF Produce, consumerVars, message
<1>5. ConsumerTypeOK' /\ AtHand'
  BY <1>4 DEF ConsumerTypeOK, AtHand
<1>6. Behind'
  BY <1>2, <1>3, <1>4 DEF Behind, ConsumerTypeOK, LogOK
<1>7. \A p \in Partition, n \in Int : n <= Len(log[p]) /\ Done(p, n) => Done(p, n)'
  BY <1>3, <1>4 DEF Done
<1>8. ReadIsDone'
  BY <1>4, <1>7 DEF ReadIsDone, Behind, ConsumerTypeOK
<1>9. NothingSkipped'
  <2> SUFFICES ASSUME NEW p \in Partition PROVE Done(p, committed[p])'
    BY <1>4 DEF NothingSkipped, Done
  <2>1. Done(p, committed[p])
    BY DEF NothingSkipped, Done
  <2>2. committed[p] \in Int /\ committed[p] <= Len(log[p])
    BY <1>3 DEF Behind, ConsumerTypeOK
  <2> QED BY <1>4, <1>7, <2>1, <2>2
<1> QED BY <1>2, <1>5, <1>6, <1>8, <1>9

\* Starting, pulling and stopping resolve nothing and commit nothing.
LEMMA ReaderInv ==
  ASSUME AuditInv, UNCHANGED log, Start \/ Shutdown \/ Pull \/ Exit \/ Backoff \/ Crash
  PROVE  AuditInv'
<1> USE DEF AuditInv
<1>1. CASE Start
  <2> USE <1>1 DEF Start, message
  <2>1. ConsumerTypeOK' /\ LogOK' /\ AtHand' /\ NothingSkipped'
    BY DEF ConsumerTypeOK, LogOK, AtHand, NothingSkipped
  <2>2. Behind'
    BY DEF Behind, ConsumerTypeOK
  <2>3. ReadIsDone'
    BY DEF ReadIsDone, Done, NothingSkipped
  <2> QED BY <2>1, <2>2, <2>3
<1>2. CASE Pull
  <2> USE DEF Pull
  <2>1. PICK p \in Partition : /\ position[p] < Len(log[p]) /\ part' = p
                               /\ position' = [position EXCEPT ![p] = @ + 1]
    BY <1>2
  <2>2. /\ at = "next" /\ at' = "handle" /\ attempt' = 1
        /\ UNCHANGED <<committed, stopping, audit, givenUp>>
    BY <1>2
  <2>3. /\ position'[p] = position[p] + 1
        /\ \A q \in Partition : q # p => position'[q] = position[q]
    BY <2>1 DEF ConsumerTypeOK
  <2>4. ConsumerTypeOK' /\ LogOK'
    BY <2>1, <2>2 DEF ConsumerTypeOK, LogOK
  <2>5. AtHand'
    BY <2>1, <2>2, <2>3 DEF AtHand, ConsumerTypeOK
  <2>6. \A q \in Partition : Len(log[q]) \in Nat
    BY DEF LogOK
  <2>7. Behind'
    BY <2>1, <2>2, <2>3, <2>6 DEF Behind, ConsumerTypeOK
  <2>8. \A q \in Partition : Done(q, position[q])
    BY <2>2 DEF ReadIsDone
  <2>9. ReadIsDone'
    BY <2>1, <2>2, <2>3, <2>8 DEF ReadIsDone, Done, ConsumerTypeOK
  <2>10. NothingSkipped'
    BY <2>2 DEF NothingSkipped
  <2> QED BY <2>4, <2>5, <2>7, <2>9, <2>10
<1>3. CASE Shutdown \/ Exit \/ Crash
  <2>1. /\ UNCHANGED <<committed, position, part, attempt, audit, givenUp>>
        /\ stopping' \in BOOLEAN /\ (UNCHANGED at \/ at' = "off")
    BY <1>3 DEF Shutdown, Exit, Crash, message, ConsumerTypeOK
  <2>2. ConsumerTypeOK' /\ LogOK' /\ AtHand' /\ Behind' /\ NothingSkipped'
    BY <2>1 DEF ConsumerTypeOK, LogOK, AtHand, Behind, NothingSkipped
  <2>3. ReadIsDone'
    BY <2>1 DEF ReadIsDone, Done
  <2> QED BY <2>2, <2>3
<1>4. CASE Backoff
  <2>1. /\ at = "backoff" /\ UNCHANGED <<committed, position, part, stopping, audit, givenUp>>
        /\ \/ at' = "handle" /\ attempt' = attempt + 1
           \/ at' = "off" /\ UNCHANGED attempt
    BY <1>4 DEF Backoff
  <2>2. ConsumerTypeOK' /\ LogOK' /\ AtHand' /\ Behind' /\ NothingSkipped'
    BY <2>1 DEF ConsumerTypeOK, LogOK, AtHand, Behind, NothingSkipped
  <2>3. ReadIsDone'
    BY <2>1 DEF ReadIsDone, Done
  <2> QED BY <2>2, <2>3
<1> QED BY <1>1, <1>2, <1>3, <1>4

\* A handler call leaves a message for a retry or resolves it, and forgets no
\* other.
LEMMA HandlerInv ==
  ASSUME AuditInv, UNCHANGED log, HandleOk \/ HandlePoison \/ HandleTransient
  PROVE  AuditInv'
<1> USE DEF AuditInv
<1>1. /\ at = "handle" /\ UNCHANGED <<committed, position, part, attempt, stopping>>
      /\ audit \subseteq audit' /\ givenUp \subseteq givenUp'
      /\ \/ at' = "commit" /\ Current \in audit' \cup givenUp'
         \/ at' = "backoff" /\ ~(attempt >= MAX_ATTEMPTS)
  BY DEF HandleOk, HandlePoison, HandleTransient, LastAttempt, message
<1>2. Current \in Event
  BY <1>1 DEF Current, LogOK, AtHand, Behind, ConsumerTypeOK
<1>3. ConsumerTypeOK' /\ LogOK'
  <2>1. audit' \subseteq Event /\ givenUp' \subseteq Event
    BY <1>2 DEF HandleOk, HandlePoison, HandleTransient, ConsumerTypeOK
  <2> QED BY <1>1, <2>1 DEF ConsumerTypeOK, LogOK
<1>4. AtHand' /\ Behind'
  BY <1>1 DEF AtHand, Behind, ConsumerTypeOK
<1>5. \A p \in Partition, n \in Int : Done(p, n) => Done(p, n)'
  BY <1>1 DEF Done
<1>6. ReadIsDone'
  <2>1. Done(part, position[part] - 1)'
    BY <1>1, <1>5 DEF ReadIsDone, ConsumerTypeOK
  <2>2. at' = "commit" => Done(part, position[part])'
    BY <1>1, <2>1 DEF Done, Current, ConsumerTypeOK
  <2>3. \A p \in Partition : p # part => Done(p, position[p])'
    BY <1>1, <1>5 DEF ReadIsDone, ConsumerTypeOK
  <2> QED BY <1>1, <2>1, <2>2, <2>3 DEF ReadIsDone, ConsumerTypeOK
<1>7. NothingSkipped'
  BY <1>1 DEF NothingSkipped
<1> QED BY <1>3, <1>4, <1>6, <1>7

\* A commit moves the group to where the reader is, which is resolved.
LEMMA CommitInv ==
  ASSUME AuditInv, UNCHANGED log, Commit PROVE AuditInv'
<1> USE DEF AuditInv
<1>1. /\ at = "commit" /\ at' = "next"
      /\ UNCHANGED <<position, part, attempt, stopping, audit, givenUp>>
      /\ \/ committed' = [committed EXCEPT ![part] = position[part]]
         \/ UNCHANGED committed
  BY DEF Commit, message
<1>2. ConsumerTypeOK' /\ LogOK' /\ AtHand'
  BY <1>1 DEF ConsumerTypeOK, LogOK, AtHand
<1>3. Behind'
  BY <1>1 DEF Behind, ConsumerTypeOK
<1>4. ReadIsDone'
  BY <1>1 DEF ReadIsDone, Done
<1>5. NothingSkipped'
  BY <1>1 DEF NothingSkipped, ReadIsDone, Done, ConsumerTypeOK
<1> QED BY <1>2, <1>3, <1>4, <1>5

\* A step of the system keeps the invariant.
LEMMA StepAudit == AuditInv /\ [Next]_vars => AuditInv'
<1> SUFFICES ASSUME AuditInv, [Next]_vars PROVE AuditInv'
  OBVIOUS
<1>1. CASE UNCHANGED vars
  BY <1>1 DEF vars, consumerVars, message, AuditInv, ConsumerTypeOK, LogOK, AtHand, Behind,
    ReadIsDone, Done, NothingSkipped
<1> QED
  BY <1>1, ProduceInv, ReaderInv, HandlerInv, CommitInv DEF Next, ConsumerNext

\* consumer.rs `run`, "no later offset is ever committed past a message that
\* hasn't resolved yet".
THEOREM OffsetsAreResolved == Spec => []NothingSkipped
<1>1. AuditInv => NothingSkipped
  BY DEF AuditInv
<1> QED BY InitAudit, StepAudit, <1>1, PTL DEF Spec

\* A redelivery after a crash or a failed commit never rewinds the group.
THEOREM NoRewind == Spec => CommitsForward
<1>1. AuditInv /\ [Next]_vars => [\A p \in Partition : committed[p] <= committed'[p]]_consumerVars
  <2> SUFFICES ASSUME AuditInv, [Next]_vars, NEW p \in Partition
               PROVE  committed[p] <= committed'[p] \/ UNCHANGED consumerVars
    OBVIOUS
  <2>1. CASE Commit
    BY <2>1, SMTT(30) DEF Commit, AuditInv, Behind, ConsumerTypeOK
  <2>2. CASE UNCHANGED committed
    BY <2>2 DEF AuditInv, ConsumerTypeOK
  <2>3. CASE UNCHANGED consumerVars
    BY <2>3
  <2> QED
    BY <2>1, <2>2, <2>3 DEF Next, Produce, ConsumerNext, Start, Shutdown, Pull, Exit, HandleOk,
      HandlePoison, HandleTransient, Backoff, Crash, vars
<1> QED BY InitAudit, StepAudit, <1>1, PTL DEF Spec, CommitsForward

-----------------------------------------------------------------------------
(* The two together, step by step, against what Delivery lets them do.     *)

HIDE ConsumerAssumption
USE OutboxAssumption

\* Whatever is on its way to the topic, or in it, was accepted with a transaction, and
\* the broker takes it.
OnItsWay ==
  /\ Types /\ todo \in [Dispatcher -> SUBSET Event]
  /\ \A d \in Dispatcher : todo[d] \cup ok[d] \subseteq Accepted
  /\ pending \subseteq Accepted \ Unpublishable
  /\ \A p \in Partition : \A i \in 1..Len(log[p]) : log[p][i] \in Accepted \ Unpublishable

\* The reader is within the topic, and the message at hand is a record of it.
Reading ==
  /\ committed \in [Partition -> Nat] /\ position \in [Partition -> Nat] /\ part \in Partition
  /\ \A p \in Partition : committed[p] <= Len(log[p]) /\ position[p] <= Len(log[p])
  /\ at \in {"handle", "backoff", "commit"} => position[part] > 0

PipelineInv == OnItsWay /\ Reading

\* A topic after a send: the record is the last, the others stay.
LEMMA TopicGrows ==
  ASSUME Types, NEW e \in Event, log' = Logged(e), NEW p \in Partition
  PROVE  /\ Len(log[p]) \in Nat /\ Len(log'[p]) \in Nat /\ Len(log[p]) <= Len(log'[p])
         /\ \A i \in 1..Len(log'[p]) : log'[p][i] = e \/ (i \in 1..Len(log[p]) /\ log'[p][i] = log[p][i])
<1>1. log[p] \in Seq(Event)
  BY DEF Types
<1>2. log'[p] = log[p] \/ log'[p] = Append(log[p], e)
  BY <1>1 DEF Types, Logged
<1>3. CASE log'[p] = log[p]
  BY <1>1, <1>3
<1>4. CASE log'[p] = Append(log[p], e)
  <2>1. Len(log'[p]) = Len(log[p]) + 1 /\ Len(log[p]) \in Nat
    BY <1>1, <1>4
  <2>2. \A i \in 1..Len(log'[p]) : log'[p][i] = IF i <= Len(log[p]) THEN log[p][i] ELSE e
    BY <1>1, <1>4, <2>1
  <2> QED  BY <2>1, <2>2, SMTT(30)
<1> QED
  BY <1>2, <1>3, <1>4

LEMMA InitPipeline == PipelineInit => PipelineInv /\ Promise!DeliveryInit
<1> SUFFICES ASSUME PipelineInit PROVE PipelineInv /\ Promise!DeliveryInit
  OBVIOUS
<1>1. OutboxInit /\ ConsumerInit
  BY DEF PipelineInit
<1>2. OnItsWay
  BY <1>1 DEF OutboxInit, OnItsWay, Types
<1>3. Reading
  BY <1>1 DEF OutboxInit, ConsumerInit, Reading
<1>4. Accepted = {} /\ audit = {} /\ givenUp = {}
  BY <1>1 DEF OutboxInit, ConsumerInit, Accepted
<1> QED
  BY <1>2, <1>3, <1>4 DEF PipelineInv, Promise!DeliveryInit

\* The outbox accepts an event at a time and takes none back; to the consumer it adds
\* records and no more.
LEMMA OutboxStep ==
  ASSUME PipelineInv, OutboxNext, UNCHANGED consumerVars
  PROVE  /\ PipelineInv'
         /\ (\E e \in Event : Promise!Accept(e)) \/ UNCHANGED <<Accepted, audit, givenUp>>
<1> USE DEF PipelineInv
<1>0. UNCHANGED <<committed, position, at, part, audit, givenUp>>
  BY DEF consumerVars, message
<1>1. ASSUME UNCHANGED log PROVE Reading'
  BY <1>0, <1>1 DEF Reading
<1>2. ASSUME NEW e \in Event, log' = Logged(e) PROVE Reading'
  <2>1. ASSUME NEW p \in Partition
        PROVE  committed[p] <= Len(log'[p]) /\ position[p] <= Len(log'[p])
    <3>1. Len(log[p]) \in Nat /\ Len(log'[p]) \in Nat /\ Len(log[p]) <= Len(log'[p])
      BY <1>2, TopicGrows DEF OnItsWay
    <3>2. committed[p] \in Nat /\ position[p] \in Nat
      BY DEF Reading
    <3>3. committed[p] <= Len(log[p]) /\ position[p] <= Len(log[p])
      BY DEF Reading
    <3> QED  BY <3>1, <3>2, <3>3
  <2> QED  BY <1>0, <2>1 DEF Reading
<1>3. ASSUME NEW e \in Event, insert_event_tx(e)
      PROVE  PipelineInv' /\ Promise!Accept(e)
  <2>1. /\ row[e] = "none" /\ row' = [row EXCEPT ![e] = "queued"]
        /\ UNCHANGED <<todo, ok, pending, log>>
    BY <1>3 DEF insert_event_tx, dispatchers
  <2>2. Accepted' = Accepted \cup {e} /\ e \notin Accepted
    BY <2>1 DEF Accepted, OnItsWay, Types
  <2>3. Types'
    BY <2>1 DEF OnItsWay, Types
  <2>4. OnItsWay'
    BY <2>1, <2>2, <2>3 DEF OnItsWay
  <2> QED  BY <1>0, <1>1, <2>1, <2>2, <2>4 DEF Promise!Accept
<1>4. ASSUME NEW e \in Event, LateSend(e) PROVE PipelineInv' /\ Accepted' = Accepted
  <2>1. /\ e \in pending /\ pending' = pending \ {e} /\ UNCHANGED <<row, todo, ok>>
        /\ log' = Logged(e) \/ UNCHANGED log
    BY <1>4 DEF LateSend, rows, dispatchers
  <2>2. Accepted' = Accepted
    BY <2>1 DEF Accepted
  <2>3. CASE UNCHANGED log
    BY <1>1, <2>1, <2>2, <2>3 DEF OnItsWay, Types
  <2>4. CASE log' = Logged(e)
    <3>1. Types'
      BY <2>1, <2>4, Sent DEF OnItsWay, Types
    <3>2. \A p \in Partition : \A i \in 1..Len(log'[p]) : log'[p][i] \in Accepted \ Unpublishable
      <4> SUFFICES ASSUME NEW p \in Partition, NEW i \in 1..Len(log'[p])
                   PROVE  log'[p][i] \in Accepted \ Unpublishable
        OBVIOUS
      <4>1. log'[p][i] = e \/ (i \in 1..Len(log[p]) /\ log'[p][i] = log[p][i])
        BY <2>4, TopicGrows DEF OnItsWay
      <4> QED  BY <2>1, <4>1 DEF OnItsWay
    <3> QED  BY <1>2, <2>1, <2>2, <2>4, <3>1, <3>2 DEF OnItsWay
  <2> QED  BY <2>1, <2>2, <2>3, <2>4
<1>5. ASSUME NEW d \in Dispatcher, DispatcherStep(d) PROVE PipelineInv' /\ Accepted' = Accepted
  <2>1. CASE Claim(d)
    <3>1. PICK b \in Batches : todo' = [todo EXCEPT ![d] = b]
      BY <2>1 DEF Claim
    <3>2. b \subseteq Accepted /\ b \subseteq Event
      BY DEF Batches, DueRows, Accepted
    <3>3. UNCHANGED <<row, ok, pending, log>>
      BY <2>1 DEF Claim
    <3>4. Accepted' = Accepted /\ Types'
      BY <3>3 DEF Accepted, OnItsWay, Types
    <3> QED  BY <1>1, <3>1, <3>2, <3>3, <3>4 DEF OnItsWay
  <2>2. ASSUME NEW e \in Event, PublishOk(d, e) PROVE PipelineInv' /\ Accepted' = Accepted
    <3>1. /\ e \in todo[d] /\ e \notin Unpublishable /\ log' = Logged(e)
          /\ ok' = [ok EXCEPT ![d] = ok[d] \cup {e}] /\ todo' = [todo EXCEPT ![d] = todo[d] \ {e}]
          /\ UNCHANGED <<row, pending>>
      BY <2>2 DEF PublishOk, Publishing, rows
    <3>2. Accepted' = Accepted
      BY <3>1 DEF Accepted
    <3>3. Types'
      BY <3>1, Sent DEF OnItsWay, Types
    <3>4. \A p \in Partition : \A i \in 1..Len(log'[p]) : log'[p][i] \in Accepted \ Unpublishable
      <4> SUFFICES ASSUME NEW p \in Partition, NEW i \in 1..Len(log'[p])
                   PROVE  log'[p][i] \in Accepted \ Unpublishable
        OBVIOUS
      <4>1. log'[p][i] = e \/ (i \in 1..Len(log[p]) /\ log'[p][i] = log[p][i])
        BY <3>1, TopicGrows DEF OnItsWay
      <4> QED  BY <3>1, <4>1 DEF OnItsWay
    <3>5. \A c \in Dispatcher : todo'[c] \cup ok'[c] \subseteq Accepted
      BY <3>1 DEF OnItsWay, Types
    <3> QED  BY <1>2, <3>1, <3>2, <3>3, <3>4, <3>5 DEF OnItsWay
  <2>3. ASSUME NEW e \in Event, PublishFail(d, e) \/ Deadline(d, e)
        PROVE  PipelineInv' /\ Accepted' = Accepted
    <3>1. /\ e \in todo[d] /\ UNCHANGED <<row, ok, log>>
          /\ todo' = [todo EXCEPT ![d] = todo'[d]] /\ todo'[d] \subseteq todo[d]
          /\ pending' = pending \/ (e \notin Unpublishable /\ pending' = pending \cup {e})
      BY <2>3 DEF PublishFail, Deadline, Publishing, MayLinger, rows, OnItsWay
    <3>2. Accepted' = Accepted /\ Types'
      BY <3>1 DEF Accepted, OnItsWay, Types
    <3> QED  BY <1>1, <3>1, <3>2 DEF OnItsWay
  <2>4. CASE BeginBook(d)
    <3>1. UNCHANGED <<row, todo, ok, pending, log>>
      BY <2>4 DEF BeginBook, rows
    <3> QED  BY <1>1, <3>1 DEF OnItsWay, Types, Accepted
  <2>5. CASE Book(d)
    <3>1. /\ row' = [e \in Event |-> IF e \in ok[d] THEN "published" ELSE row[e]]
          /\ todo' = [todo EXCEPT ![d] = {}] /\ ok' = [ok EXCEPT ![d] = {}] /\ UNCHANGED <<pending, log>>
      BY <2>5 DEF Book, Forget
    <3>2. Accepted' = Accepted
      BY <3>1 DEF Accepted, OnItsWay
    <3>3. Types'
      BY <3>1 DEF OnItsWay, Types
    <3> QED  BY <1>1, <3>1, <3>2, <3>3 DEF OnItsWay, Types
  <2>6. CASE Die(d)
    <3>1. /\ todo' = [todo EXCEPT ![d] = {}] /\ ok' = [ok EXCEPT ![d] = {}] /\ UNCHANGED <<row, log>>
          /\ \/ pending' = pending
             \/ \E e \in Event \ Unpublishable : e \in todo[d] /\ pending' = pending \cup {e}
      BY <2>6 DEF Die, Forget, Publishing, rows
    <3>2. Accepted' = Accepted
      BY <3>1 DEF Accepted
    <3>3. pending' \subseteq Accepted \ Unpublishable
      BY <3>1 DEF OnItsWay
    <3>4. Types'
      BY <3>1, <3>3 DEF OnItsWay, Types, Accepted
    <3> QED  BY <1>1, <3>1, <3>2, <3>3, <3>4 DEF OnItsWay, Types
  <2> QED  BY <1>5, <2>1, <2>2, <2>3, <2>4, <2>5, <2>6 DEF DispatcherStep, Publish
<1>6. CASE Tick
  <2>1. UNCHANGED <<row, todo, ok, pending, log>>
    BY <1>6 DEF Tick
  <2> QED  BY <1>0, <1>1, <2>1 DEF OnItsWay, Types, Accepted
<1> QED
  BY <1>0, <1>3, <1>4, <1>5, <1>6 DEF OutboxNext

\* The consumer takes nothing from the outbox, and resolves the message at hand alone.
LEMMA ConsumerOnly ==
  ASSUME PipelineInv, ConsumerFault \/ ConsumerStep
  PROVE  /\ PipelineInv'
         /\ (\E e \in Event : Promise!Record(e) \/ Promise!GiveUp(e))
              \/ UNCHANGED <<Accepted, audit, givenUp>>
<1> USE DEF PipelineInv
<1>1. UNCHANGED <<row, todo, ok, pending, log>>
  BY DEF ConsumerFault, ConsumerStep, outboxVars, rows, dispatchers
<1>2. OnItsWay' /\ Accepted' = Accepted
  BY <1>1 DEF OnItsWay, Types, Accepted
<1> DEFINE e == log[part][position[part]]
<1>3. ASSUME at = "handle" PROVE e \in Event /\ e \in Accepted \ Unpublishable
  <2>1. part \in Partition /\ position[part] \in Nat /\ position[part] > 0 /\ position[part] <= Len(log[part])
    BY <1>3 DEF Reading
  <2>2. Len(log[part]) \in Nat
    BY <2>1 DEF OnItsWay, Types
  <2> QED  BY <2>1, <2>2 DEF OnItsWay, Accepted
<1>4. CASE Start \/ Pull \/ Exit \/ Backoff \/ Commit
           \/ Crash \/ Shutdown
  <2>1. UNCHANGED <<audit, givenUp>>
    BY <1>4 DEF Start, Pull, Exit, Backoff, Commit,
                Crash, Shutdown
  <2>2. Reading'
    <3>0. \A p \in Partition : Len(log[p]) \in Nat
      BY DEF OnItsWay, Types
    <3>1. CASE Start
      BY <1>1, <3>1 DEF Start, message, Reading
    <3>2. CASE Pull
      BY <1>1, <3>0, <3>2, SMTT(30) DEF Pull, Reading
    <3>3. CASE Exit \/ Backoff \/ Crash \/ Shutdown
      BY <1>1, <3>3 DEF Exit, Backoff, Crash, Shutdown,
                        message, Reading
    <3>4. CASE Commit
      BY <1>1, <3>4 DEF Commit, message, Reading
    <3> QED  BY <1>4, <3>1, <3>2, <3>3, <3>4
  <2> QED  BY <1>2, <2>1, <2>2
<1>5. CASE HandleOk
  <2>1. /\ at = "handle" /\ audit' = audit \cup {e} /\ at' = "commit"
        /\ UNCHANGED <<committed, position, part, givenUp>>
    BY <1>5 DEF HandleOk, Current, message
  <2>2. Reading'
    BY <1>1, <2>1 DEF Reading
  <2>3. Promise!Record(e)
    BY <1>2, <1>3, <2>1 DEF Promise!Record
  <2> QED  BY <1>2, <1>3, <2>1, <2>2, <2>3
<1>6. CASE HandleTransient
  <2>1. /\ at = "handle" /\ at' \in {"backoff", "commit"}
        /\ audit' = audit \/ audit' = audit \cup {e}
        /\ givenUp' = givenUp \/ givenUp' = givenUp \cup {e}
        /\ UNCHANGED <<committed, position, part>>
    BY <1>6 DEF HandleTransient, Current, message
  <2>2. Reading'
    BY <1>1, <2>1 DEF Reading
  <2>3. Promise!Record(e) \/ Promise!GiveUp(e) \/ UNCHANGED <<Accepted, audit, givenUp>>
    BY <1>2, <1>3, <2>1 DEF Promise!Record, Promise!GiveUp
  <2> QED  BY <1>2, <1>3, <2>1, <2>2, <2>3
<1> QED
  BY <1>4, <1>5, <1>6 DEF ConsumerFault, ConsumerStep

\* insert_event_tx and consumer.rs together: whatever crashes, is sent late, is delivered
\* again or fails to commit, only what a transaction committed is recorded or given up,
\* and nothing recorded or given up is forgotten.  (That each accepted event comes to one
\* of the two is the rest of KeepsPromise.)
THEOREM PipelineDelivers ==
  PipelineSpec => Promise!DeliveryInit /\ [][Promise!DeliveryNext]_(Promise!deliveryVars)
<1>1. ASSUME PipelineInv, [PipelineNext]_pipelineVars
      PROVE  PipelineInv' /\ [Promise!DeliveryNext]_(Promise!deliveryVars)
  <2>1. CASE UNCHANGED pipelineVars
    <3>1. UNCHANGED <<row, todo, ok, pending, log, committed, position, at, part, audit, givenUp>>
      BY <2>1 DEF pipelineVars, outboxVars, rows, dispatchers, consumerVars, message
    <3>2. PipelineInv'
      BY <1>1, <3>1 DEF PipelineInv, OnItsWay, Types, Reading, Accepted
    <3>3. UNCHANGED Promise!deliveryVars
      BY <3>1 DEF Promise!deliveryVars, Accepted
    <3> QED  BY <3>2, <3>3
  <2>2. CASE OutboxNext /\ UNCHANGED consumerVars
    BY <1>1, <2>2, OutboxStep DEF Promise!DeliveryNext, Promise!deliveryVars
  <2>3. CASE ConsumerFault \/ ConsumerStep
    BY <1>1, <2>3, ConsumerOnly DEF Promise!DeliveryNext, Promise!deliveryVars
  <2> QED  BY <1>1, <2>1, <2>2, <2>3 DEF PipelineNext
<1> QED
  BY InitPipeline, <1>1, PTL DEF PipelineSpec
=============================================================================
