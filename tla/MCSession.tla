----------------------------- MODULE MCSession -----------------------------
(* SessionPersistence on small instances. *)
EXTENDS SessionPersistence, TLC

Symmetry == Permutations(Invocations) \cup Permutations(Deletes)
=============================================================================
