----------------------------- MODULE MCMemStore -----------------------------
(* Instances of MemStore for TLC. *)
EXTENDS MemStore

\* All objects share one batch file.
OneBatch == [n \in Names |-> CHOOSE b \in Batches : TRUE]
=============================================================================
