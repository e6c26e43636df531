-------------------------- MODULE MCEmailSequence --------------------------
(* Values for the constants of EmailSequence. *)
EXTENDS EmailSequence

CONSTANT a1

\* Every enrollment writes to the same address.
OneAddress == [e \in Enrolls |-> a1]
=============================================================================
