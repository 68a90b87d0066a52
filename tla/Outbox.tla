------------------------------- MODULE Outbox -------------------------------
(***************************************************************************)
(* The transactional outbox: rows of events_outbox written by committed    *)
(* business transactions, and the dispatchers that claim due rows for the  *)
(* length of a lease, publish them to Kafka one by one within a budget and *)
(* write the outcome down.  Time is a countdown: next_attempt_at, the      *)
(* publishing deadline and the bookkeeping transaction count down          *)
(* together, one Tick at a time.                                           *)
(*                                                                         *)
(* A definition named Mut_X is a plausible wrong X, kept beside it to show *)
(* that the properties tell the two apart; nothing else uses it.           *)
(***************************************************************************)
EXTENDS Topics, FiniteSets

\* Event: the rows, numbered in the order of created_at.
CONSTANTS
  Dispatcher,      \* the processes that run start_dispatcher
  PartOf,          \* the partition of each event: its topic and key
  Unpublishable,   \* events the broker always refuses (too large, say)
  BATCH_SIZE, LEASE, PUBLISH_BUDGET, MAX_RETRY_DELAY,
  BookTime,        \* bound on the bookkeeping transaction
  MaxAttempts,     \* bound on the attempts counter: the delay is capped there
  MaxFaults        \* bound on what duplicates an event: crashes, late sends

retry_delay(attempts) ==
  IF 2 ^ attempts <= MAX_RETRY_DELAY THEN 2 ^ attempts ELSE MAX_RETRY_DELAY

ASSUME OutboxAssumption ==
  /\ Event \subseteq Nat /\ IsFiniteSet(Event)
  /\ PartOf \in [Event -> Partition]
  /\ Unpublishable \subseteq Event
  /\ {BATCH_SIZE, LEASE, PUBLISH_BUDGET, MAX_RETRY_DELAY, BookTime} \subseteq Nat \ {0}
  /\ MaxAttempts \in Nat
  /\ retry_delay(MaxAttempts) = MAX_RETRY_DELAY
  /\ MaxFaults \in Nat

VARIABLES
  row,        \* per event: "none", "queued" or "published" (published_at is set)
  attempts,   \* events_outbox.attempts
  due,        \* ticks left to next_attempt_at, 0 when the row is due
  phase,      \* per dispatcher: "idle", "publish" or "book"
  todo,       \* the claimed rows it has not tried yet
  ok, failed, \* the outcome so far
  before,     \* the attempts of the claimed rows, as claimed
  left,       \* ticks left of its budget, or of its bookkeeping
  pending,    \* sends nobody waits for any more, which the broker may still take
  faults      \* how many faults happened so far

rows        == <<row, attempts, due>>
dispatchers == <<phase, todo, ok, failed, before, left>>
outboxVars  == <<rows, dispatchers, pending, log, faults>>

InLog(e) == \E i \in DOMAIN log[PartOf[e]] : log[PartOf[e]][i] = e

OutboxTypeOK ==
  /\ row \in [Event -> {"none", "queued", "published"}]
  /\ attempts \in [Event -> 0..MaxAttempts]
  /\ due \in [Event -> Nat]
  /\ phase \in [Dispatcher -> {"idle", "publish", "book"}]
  /\ todo \in [Dispatcher -> SUBSET Event]
  /\ ok \in [Dispatcher -> SUBSET Event]
  /\ failed \in [Dispatcher -> SUBSET Event]
  /\ before \in [Dispatcher -> [Event -> 0..MaxAttempts]]
  /\ left \in [Dispatcher -> Nat]
  /\ pending \subseteq Event
  /\ log \in [Partition -> Seq(Event)]
  /\ faults \in 0..MaxFaults

OutboxInit ==
  /\ row = [e \in Event |-> "none"]
  /\ attempts = [e \in Event |-> 0]
  /\ due = [e \in Event |-> 0]
  /\ phase = [d \in Dispatcher |-> "idle"]
  /\ todo = [d \in Dispatcher |-> {}]
  /\ ok = [d \in Dispatcher |-> {}]
  /\ failed = [d \in Dispatcher |-> {}]
  /\ before = [d \in Dispatcher |-> [e \in Event |-> 0]]
  /\ left = [d \in Dispatcher |-> 0]
  /\ pending = {}
  /\ log = [p \in Partition |-> <<>>]
  /\ faults = 0

-----------------------------------------------------------------------------
\* A business transaction with an event in it commits.
insert_event_tx(e) ==
  /\ row[e] = "none"
  /\ row' = [row EXCEPT ![e] = "queued"]
  /\ UNCHANGED <<attempts, due, dispatchers, pending, log, faults>>

Mut_DueRows == {e \in Event : row[e] = "queued" /\ due[e] = 0 /\ attempts[e] < MaxAttempts}
DueRows == {e \in Event : row[e] = "queued" /\ due[e] = 0}

\* What one claim may return.  ORDER BY next_attempt_at chooses among more due
\* rows than BATCH_SIZE; which come first is left open.
Batches == {b \in SUBSET DueRows :
              b # {} /\ (b = DueRows \/ Cardinality(b) = BATCH_SIZE)
                     /\ Cardinality(b) <= BATCH_SIZE}

ClaimedAttempts(b) == [e \in Event |-> IF e \in b THEN attempts[e] ELSE 0]

Mut_Claim(d) ==
  /\ phase[d] = "idle"
  /\ \E b \in Batches :
       /\ todo' = [todo EXCEPT ![d] = b]
       /\ before' = [before EXCEPT ![d] = ClaimedAttempts(b)]
  /\ phase' = [phase EXCEPT ![d] = "publish"]
  /\ left' = [left EXCEPT ![d] = PUBLISH_BUDGET]
  /\ UNCHANGED <<rows, ok, failed, pending, log, faults>>
\* One autocommit UPDATE ... FOR UPDATE SKIP LOCKED RETURNING.
Claim(d) ==
  /\ phase[d] = "idle"
  /\ \E b \in Batches :
       /\ due' = [e \in Event |-> IF e \in b THEN LEASE ELSE due[e]]
       /\ todo' = [todo EXCEPT ![d] = b]
       /\ before' = [before EXCEPT ![d] = ClaimedAttempts(b)]
  /\ phase' = [phase EXCEPT ![d] = "publish"]
  /\ left' = [left EXCEPT ![d] = PUBLISH_BUDGET]
  /\ UNCHANGED <<row, attempts, ok, failed, pending, log, faults>>

\* Rows are published in the order of created_at.
Publishing(d, e) ==
  phase[d] = "publish" /\ e \in todo[d] /\ \A f \in todo[d] : e <= f

Logged(e) == [log EXCEPT ![PartOf[e]] = Append(@, e)]

\* The broker acknowledges.
PublishOk(d, e) ==
  /\ Publishing(d, e) /\ e \notin Unpublishable
  /\ log' = Logged(e)
  /\ ok' = [ok EXCEPT ![d] = @ \cup {e}]
  /\ todo' = [todo EXCEPT ![d] = @ \ {e}]
  /\ UNCHANGED <<rows, phase, failed, before, left, pending, faults>>

\* A send that ended in an error or was cut off may have left the producer.
MayLinger(e) ==
  \/ UNCHANGED <<pending, faults>>
  \/ /\ e \notin Unpublishable /\ faults < MaxFaults
     /\ pending' = pending \cup {e}
     /\ faults' = faults + 1

PublishFail(d, e) ==
  /\ Publishing(d, e)
  /\ failed' = [failed EXCEPT ![d] = @ \cup {e}]
  /\ todo' = [todo EXCEPT ![d] = @ \ {e}]
  /\ MayLinger(e)
  /\ UNCHANGED <<rows, phase, ok, before, left, log>>

\* timeout_at fires: the batch ends, its later rows keep their lease.
Deadline(d, e) ==
  /\ Publishing(d, e) /\ left[d] = 0
  /\ failed' = [failed EXCEPT ![d] = @ \cup {e}]
  /\ todo' = [todo EXCEPT ![d] = {}]
  /\ MayLinger(e)
  /\ UNCHANGED <<rows, phase, ok, before, left, log>>

\* The broker takes, or never gets, a send nobody waits for.
LateSend(e) ==
  /\ e \in pending
  /\ pending' = pending \ {e}
  /\ \/ log' = Logged(e)
     \/ UNCHANGED log
  /\ UNCHANGED <<rows, dispatchers, faults>>

BeginBook(d) ==
  /\ phase[d] = "publish" /\ todo[d] = {}
  /\ phase' = [phase EXCEPT ![d] = "book"]
  /\ left' = [left EXCEPT ![d] = BookTime]
  /\ UNCHANGED <<rows, todo, ok, failed, before, pending, log, faults>>

Forget(d) ==
  /\ phase' = [phase EXCEPT ![d] = "idle"]
  /\ todo' = [todo EXCEPT ![d] = {}]
  /\ ok' = [ok EXCEPT ![d] = {}]
  /\ failed' = [failed EXCEPT ![d] = {}]
  /\ before' = [before EXCEPT ![d] = [e \in Event |-> 0]]
  /\ left' = [left EXCEPT ![d] = 0]

NextAttempt(n) == IF n < MaxAttempts THEN n + 1 ELSE MaxAttempts

Mut_Book(d) ==
  /\ phase[d] = "book"
  /\ row' = [e \in Event |-> IF e \in ok[d] \cup failed[d] THEN "published" ELSE row[e]]
  /\ Forget(d)
  /\ UNCHANGED <<attempts, due, pending, log, faults>>
\* The bookkeeping transaction commits.  It carries no token of the claim: it
\* writes the rows whoever owns them now.  The delay comes from the attempts as
\* claimed, the counter from the attempts now.
Book(d) ==
  /\ phase[d] = "book"
  /\ row' = [e \in Event |-> IF e \in ok[d] THEN "published" ELSE row[e]]
  /\ attempts' = [e \in Event |-> IF e \in failed[d] THEN NextAttempt(attempts[e]) ELSE attempts[e]]
  /\ due' = [e \in Event |-> IF e \in failed[d] THEN retry_delay(NextAttempt(before[d][e]))
                                             ELSE due[e]]
  /\ Forget(d)
  /\ UNCHANGED <<pending, log, faults>>

\* The process dies, or the bookkeeping fails: the claim is lost, the rows are
\* not.  A send under way may linger.
Die(d) ==
  /\ phase[d] # "idle" /\ faults < MaxFaults
  /\ Forget(d)
  /\ faults' = faults + 1
  /\ \/ \E e \in Event \ Unpublishable : Publishing(d, e) /\ pending' = pending \cup {e}
     \/ UNCHANGED pending
  /\ UNCHANGED <<rows, log>>

\* Time passes for everybody, but not past a deadline.
Tick ==
  /\ \A d \in Dispatcher : phase[d] # "idle" => left[d] > 0
  /\ \/ \E e \in Event : due[e] > 0
     \/ \E d \in Dispatcher : left[d] > 0
  /\ due' = [e \in Event |-> IF due[e] > 0 THEN due[e] - 1 ELSE 0]
  /\ left' = [d \in Dispatcher |-> IF left[d] > 0 THEN left[d] - 1 ELSE 0]
  /\ UNCHANGED <<row, attempts, phase, todo, ok, failed, before, pending, log, faults>>

Publish(d) == \E e \in Event : PublishOk(d, e) \/ PublishFail(d, e) \/ Deadline(d, e)

DispatcherStep(d) == Claim(d) \/ Publish(d) \/ BeginBook(d) \/ Book(d) \/ Die(d)

OutboxNext ==
  \/ \E e \in Event : insert_event_tx(e) \/ LateSend(e)
  \/ \E d \in Dispatcher : DispatcherStep(d)
  \/ Tick

OutboxSpec == OutboxInit /\ [][OutboxNext]_outboxVars

\* A dispatcher that is running takes its steps, time passes, and a broker that
\* takes an event at all does not refuse it for ever.
OutboxFairness ==
  /\ WF_outboxVars(Tick)
  /\ \A d \in Dispatcher :
       /\ WF_outboxVars(Claim(d)) /\ WF_outboxVars(BeginBook(d) \/ Book(d))
       /\ WF_outboxVars(Publish(d))
       /\ \A e \in Event : SF_outboxVars(PublishOk(d, e))

-----------------------------------------------------------------------------
\* outbox.rs module doc, "no events are lost": a row is marked published only
\* once its event is in the topic, whoever published it and whatever crashed.
PublishedIsLogged == \A e \in Event : row[e] = "published" => InLog(e)

\* outbox.rs on LEASE: as long as it is "longer than PUBLISH_BUDGET plus the
\* bookkeeping transaction", a row is claimed again "never while it is still
\* being published", nor before the first claim has written the outcome down.
Claimed(d) == todo[d] \cup ok[d] \cup failed[d]

ClaimsDisjoint == \A d, c \in Dispatcher : d # c => Claimed(d) \cap Claimed(c) = {}
=============================================================================
