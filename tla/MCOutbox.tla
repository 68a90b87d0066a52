------------------------------ MODULE MCOutbox ------------------------------
(* The pipeline on a small instance: every event goes to one partition. *)
EXTENDS EventPipeline

MCPartOf == [e \in Event |-> CHOOSE p \in Partition : TRUE]
=============================================================================
