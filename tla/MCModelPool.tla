---------------------------- MODULE MCModelPool ----------------------------
(* ModelPool on a small instance. *)
EXTENDS ModelPool, TLC

\* Clients and models are interchangeable (close's order over keys is left open).
MCSymmetry == Permutations(Keys) \cup Permutations(Clients)
============================================================================
