--------------------------- MODULE MCPlanApproval ---------------------------
(* PlanApproval on small sets of model values.                               *)
EXTENDS PlanApproval, TLC

MCSymmetry ==
    Permutations(Hashes) \cup Permutations(Exceptions) \cup Permutations(Txns)
      \cup Permutations(Conditions) \cup Permutations(Batches)

=============================================================================
