------------------------------- MODULE Topics -------------------------------
(* The Kafka topics between the outbox and the audit consumer: what either  *)
(* side of the broker can see of them.                                      *)
EXTENDS Integers, Sequences

CONSTANTS Event, Partition

VARIABLE log   \* per partition, the records of the topic
=============================================================================
