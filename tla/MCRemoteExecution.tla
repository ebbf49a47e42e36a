-------------------------- MODULE MCRemoteExecution --------------------------
(* A small instance of the remote execution for TLC. *)
EXTENDS RemoteExecution

CONSTANTS j1, j2, w1, c1, c2

AllJobs    == {j1, j2}
AllWorkers == {w1}
AllClients == {c1, c2}

\* Jobs and clients are interchangeable: the properties are invariants.
Symmetry == Permutations(Jobs) \cup Permutations(Clients)

=============================================================================
