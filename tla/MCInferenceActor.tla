-------------------------- MODULE MCInferenceActor --------------------------
(* InferenceActor on a small instance. *)
EXTENDS InferenceActor, TLC

\* Jobs are interchangeable, and so are calls.
MCSymmetry == Permutations(Jobs) \cup Permutations(Calls)
=============================================================================
