------------------------- MODULE MCResultAssignment -------------------------
(* A small batch and its files for ResultAssignment.                         *)
EXTENDS ResultAssignment, TLC

CONSTANTS a, b, m1, m2, forward, reverse

TwoPlanned == a :> 1 @@ b :> 1
OnePlanned == a :> 1

\* Both files measure the glass m1 with equal efficiency; the first also has
\* a scan of m2 that failed.
SharedMark ==
    1 :> (<<m1, 1, forward>> :> 1 @@ <<m2, 1, forward>> :> 0) @@
    2 :> (<<m1, 1, forward>> :> 1)

\* Both files measure one device in both directions, one scan failed.
BothDirections ==
    1 :> (<<m1, 1, forward>> :> 1 @@ <<m1, 1, reverse>> :> 2) @@
    2 :> (<<m1, 1, forward>> :> 2 @@ <<m1, 1, reverse>> :> 0)
=============================================================================
