--------------------------- MODULE MCWorkerPool ---------------------------
(* WorkerPool instantiated for TLC: jobs and workers as model values.      *)
EXTENDS WorkerPool

CONSTANTS j1, j2, j3, w1, w2, w3

MCJobs == {j1, j2, j3}
MCWorkers == {w1, w2, w3}

=============================================================================
