------------------------ MODULE MCGenerationScheduler ------------------------
(* GenerationScheduler on a small instance. *)
EXTENDS GenerationScheduler, TLC

\* Calls are interchangeable; jobs are not, one of them has a deadline.
MCSymmetry == Permutations(Calls)
=============================================================================
