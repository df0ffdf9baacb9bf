------------------------------ MODULE MCBrowser ------------------------------
(* Browser on small instances. *)
EXTENDS Browser, TLC

Symmetry == Permutations(Tabs) \cup Permutations(Requests)
=============================================================================
