----------------------- MODULE MCArtifactMaintenance -----------------------
\* Two polling runs and a one-shot run over the artifacts of an issue.
EXTENDS ArtifactMaintenance, TLC

Symmetry == Permutations(Poller) \cup Permutations(Issue)
=============================================================================
