--------------------------- MODULE MCModelManager ---------------------------
(* Three threads on a pool of their own, or a manager and two threads. *)
EXTENDS ModelManager
=============================================================================
