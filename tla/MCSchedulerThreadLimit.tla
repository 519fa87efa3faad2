----------------------- MODULE MCSchedulerThreadLimit -----------------------
\* One repository whose counted executor may not get its second thread.
EXTENDS SchedulerThreadLimit, TLC

Caps == [r \in Repo |-> 2]
=============================================================================
