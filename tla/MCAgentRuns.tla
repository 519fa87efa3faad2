---------------------------- MODULE MCAgentRuns ----------------------------
EXTENDS AgentRuns, TLC

\* The launches are interchangeable: nothing but equality is asked of them.
Symmetry == Permutations(Launch)
=============================================================================
