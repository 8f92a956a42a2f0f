----------------------------- MODULE ThreadSet -----------------------------
(* The threads that share a lock: any finite set. *)
EXTENDS FiniteSets

CONSTANT Threads

ASSUME ThreadsAssumption == IsFiniteSet(Threads)

=============================================================================
