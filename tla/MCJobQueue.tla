----------------------------- MODULE MCJobQueue -----------------------------
(* Small instances of the job queue for TLC. *)
EXTENDS JobQueue

CONSTANTS j1, j2, j3, w1, w2

OneJob     == {j1}
TwoJobs    == {j1, j2}
ThreeJobs  == {j1, j2, j3}
OneWorker  == {w1}
TwoWorkers == {w1, w2}

\* Jobs and threads are interchangeable in the safety properties.
Symmetry == Permutations(Jobs) \cup Permutations(Workers)

=============================================================================
