----------------------------- MODULE MCRowLocks -----------------------------
(* Handler mixes for RowLocks.                                                *)
EXTENDS RowLocks

\* Those that share a condition or an execution by a foreign key while they hold
\* the row above it, those that want the same row FOR UPDATE, in both orders, and
\* an upload, which meets an edit of the run sheet on the batch and the plan.
Bench ==
    {"create_fabrication_batch", "complete_batch", "delete_condition",
     "decide_substrate_exception", "update_process_execution", "add_result"}

\* Bench work and results of one batch at a time.
BenchAndResults == {"create_solution_preparation", "add_result"}
=============================================================================
