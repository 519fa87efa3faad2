------------------------- MODULE MCIssueScheduler -------------------------
\* Two repositories, one of them capped tighter than the process.
EXTENDS IssueScheduler, TLC

CONSTANTS small, large

Caps == (small :> 1) @@ (large :> 2)
JobSymmetry == Permutations(Job)
=============================================================================
