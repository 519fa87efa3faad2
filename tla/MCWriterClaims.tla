-------------------------- MODULE MCWriterClaims --------------------------
\* A small host for TLC: three incarnations of two threads, two cycle ids.
EXTENDS WriterClaims, TLC

Symmetry == Permutations(Process) \cup Permutations(Thread)
=============================================================================
