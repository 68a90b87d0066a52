----------------------------- MODULE MCConsumer -----------------------------
(* The audit consumer against topics that grow with any events, repeated or *)
(* not, up to MaxLog records.                                               *)
EXTENDS AuditConsumer

CONSTANT MaxLog

vars == <<log, consumerVars>>

Init == ConsumerInit /\ log = [p \in Partition |-> <<>>]

Produce ==
  /\ \E p \in Partition, e \in Event :
       /\ Len(log[p]) < MaxLog
       /\ log' = [log EXCEPT ![p] = Append(@, e)]
  /\ UNCHANGED consumerVars

Next == Produce \/ (ConsumerNext /\ UNCHANGED log)

Spec == Init /\ [][Next]_vars /\ ConsumerFairness
=============================================================================
