-------------------------- MODULE MCColdPrefixStore --------------------------
(* ColdPrefixStore on a small instance: clients, keys and generations are alike. *)
EXTENDS ColdPrefixStore, TLC

MCSymmetry == Permutations(Keys) \cup Permutations(Gens) \cup Permutations(Clients)
=============================================================================
