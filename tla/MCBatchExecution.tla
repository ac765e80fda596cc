------------------------- MODULE MCBatchExecution -------------------------
(* Small batches for TLC.                                                    *)
EXTENDS BatchExecution, TLC

CONSTANTS c1, c2, u1, u2, u3, s1, s2, k1, k2, o1, o2

\* u1 and u2 draw on the same solution, u3 on one of its own.
MCSolutionOf == u1 :> s1 @@ u2 :> s1 @@ u3 :> s2
NoSolutionOf == <<>>

\* k1 and k2 are steps of layers 1 and 2, of processes o1 and o2; both
\* conditions take k1, only the second takes k2.
MCProcessOf == k1 :> o1 @@ k2 :> o2
MCLayerOf == k1 :> 1 @@ k2 :> 2
MCRecipe == c1 :> {k1} @@ c2 :> {k1, k2}
NoRecipe == c1 :> {}

MCPlanned == c1 :> 1 @@ c2 :> 1
OnePlanned == c1 :> 1

MCSymmetry == Permutations(Preparations) \cup Permutations(Executions)
============================================================================
