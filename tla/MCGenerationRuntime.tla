------------------------ MODULE MCGenerationRuntime ------------------------
(* Small instances of the generation runtime and the model store for TLC. *)
EXTENDS GenerationRuntime, TLC

CONSTANTS m1, m2, hub, r1, r2, a1, a2

OneModel    == {m1}
TwoModels   == {m1, m2}
OneRequest  == {r1}
TwoRequests == {r1, r2}
TwoAdmins   == {a1, a2}

StepSets == {{}, {"palette"}, {"cutout", "repair"}}

Symmetry == Permutations(Requests) \cup Permutations(Admins)

=============================================================================
