--------------------------- MODULE EventPipeline ---------------------------
(***************************************************************************)
(* The outbox, the topics and the audit consumer together, as an           *)
(* implementation of Delivery.  Events made by insert_event_tx always have *)
(* a type and an id, so none is malformed.                                 *)
(***************************************************************************)
EXTENDS Outbox, AuditConsumer

ASSUME PipelineAssumption == Malformed = {}

pipelineVars == <<outboxVars, consumerVars>>

PipelineInit == OutboxInit /\ ConsumerInit

\* Bound: a consumer crash or shutdown is a fault, too.
ConsumerFault ==
  /\ Crash \/ Shutdown
  /\ faults < MaxFaults /\ faults' = faults + 1
  /\ UNCHANGED <<rows, dispatchers, pending, log>>

ConsumerStep ==
  /\ \/ Start \/ Pull \/ Exit \/ HandleOk
     \/ HandleTransient \/ Backoff \/ Commit
  /\ UNCHANGED outboxVars

PipelineNext ==
  \/ OutboxNext /\ UNCHANGED consumerVars
  \/ ConsumerFault
  \/ ConsumerStep

PipelineSpec ==
  /\ PipelineInit /\ [][PipelineNext]_pipelineVars
  /\ OutboxFairness /\ ConsumerFairness

Accepted == {e \in Event : row[e] # "none"}

Promise == INSTANCE Delivery WITH
  Undeliverable <- Unpublishable, accepted <- Accepted, recorded <- audit, givenUp <- givenUp

\* The outbox and the consumer implement Delivery: nothing is recorded that no
\* transaction committed, nothing recorded is lost, and what was committed is
\* "guaranteed to be published at least once" (insert_event_tx) and then
\* recorded or given up (consumer.rs).
KeepsPromise == Promise!DeliverySpec
=============================================================================
