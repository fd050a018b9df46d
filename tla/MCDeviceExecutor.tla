--------------------------- MODULE MCDeviceExecutor ---------------------------
(* Two operations of each of two models, or the task thread and one operation. *)
EXTENDS TaskMicrobatches, TLC

CONSTANTS ka, kb, a1, a2, b1, b2, t1, t2, t3

MCKeys == {ka, kb}
MCOps == {a1, a2, b1, b2}
MCKeyOf == (a1 :> ka) @@ (a2 :> ka) @@ (b1 :> kb) @@ (b2 :> kb)
MCTasks == {t1, t2, t3}
MCModelOf == (t1 :> ka) @@ (t2 :> ka) @@ (t3 :> kb)
MCRows == (t1 :> 1) @@ (t2 :> 1) @@ (t3 :> 2)
MCCallOf == (ka :> a1) @@ (kb :> b1)
=============================================================================
