-------------------------- MODULE MCBatchScheduler --------------------------
(* Three jobs, and prefills that may take one chunk of a pass, half of its tokens. *)
EXTENDS BatchScheduler

CONSTANTS j1, j2, j3

MCJobs == {j1, j2, j3}
=============================================================================
