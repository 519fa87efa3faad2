------------------------ MODULE MCShutdownSequence ------------------------
\* A run of one repository, whose main thread submits what its ticks find.
EXTENDS ShutdownSequence
=============================================================================
