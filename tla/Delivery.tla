------------------------------ MODULE Delivery ------------------------------
(***************************************************************************)
(* What the outbox and the audit consumer promise together: an event whose *)
(* transaction committed is, in the end, recorded in the audit log, or     *)
(* given up loudly after the consumer's last attempt.  Nothing is recorded *)
(* that was not accepted, and nothing recorded is forgotten.               *)
(***************************************************************************)
CONSTANTS Event,
          Undeliverable   \* events the broker will never take

VARIABLES accepted, recorded, givenUp

deliveryVars == <<accepted, recorded, givenUp>>

DeliveryInit == accepted = {} /\ recorded = {} /\ givenUp = {}

Accept(e) ==
  /\ e \notin accepted
  /\ accepted' = accepted \cup {e}
  /\ UNCHANGED <<recorded, givenUp>>

Record(e) ==
  /\ e \in accepted \ Undeliverable
  /\ recorded' = recorded \cup {e}
  /\ UNCHANGED <<accepted, givenUp>>

\* The last attempt may record the event and fail to hear of it.
GiveUp(e) ==
  /\ e \in accepted \ Undeliverable
  /\ givenUp' = givenUp \cup {e}
  /\ recorded' = recorded \/ recorded' = recorded \cup {e}
  /\ UNCHANGED accepted

DeliveryNext == \E e \in Event : Accept(e) \/ Record(e) \/ GiveUp(e)

Delivered == \A e \in Event \ Undeliverable :
  e \in accepted ~> e \in recorded \cup givenUp

DeliverySpec == DeliveryInit /\ [][DeliveryNext]_deliveryVars /\ Delivered
=============================================================================
