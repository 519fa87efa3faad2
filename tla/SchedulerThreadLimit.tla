------------------------ MODULE SchedulerThreadLimit ------------------------
(***************************************************************************)
(* The one refusal IssueScheduler leaves out: `executor.submit` raising    *)
(* RuntimeError behind the reservation (`_start_worker_locked`).  The      *)
(* scheduler closes itself before it shuts its executors down, so the      *)
(* executor raises only when it cannot start another thread -- and it puts *)
(* the work on its queue before it tries.  The slot is given back and the  *)
(* caller told the submission was refused; a thread the executor already   *)
(* has finds the work there all the same.                                  *)
(***************************************************************************)
EXTENDS IssueScheduler

VARIABLES
    stray,      \* the refused submissions whose work is still on a queue
    strayRan    \* those of them a worker thread has run

strayVars == <<vars, stray, strayRan>>

StrayInit == Init /\ stray = {} /\ strayRan = {}

\* The slot is reserved and released under one hold of the scheduler's lock.
ThreadNotStarted(key, exempt) ==
    /\ Admissible(key, exempt)
    /\ Occupied(exempt) # {}
    /\ stray' = stray \cup {[key |-> key, exempt |-> exempt]}
    /\ UNCHANGED <<vars, strayRan>>

\* A thread of the executor that was busy at the refusal comes free.
RunStray(s) ==
    /\ s \in stray
    /\ \E j \in Occupied(s.exempt) : OnWorkerDone(j)
    /\ stray' = stray \ {s}
    /\ strayRan' = strayRan \cup {s}

StrayNext ==
    \/ Next /\ UNCHANGED <<stray, strayRan>>
    \/ \E key \in Key, exempt \in BOOLEAN : ThreadNotStarted(key, exempt)
    \/ \E s \in stray : RunStray(s)

StraySpec == StrayInit /\ [][StrayNext]_strayVars

-----------------------------------------------------------------------------
\* "Given back by the task, or below if the submit was refused and no task will
\* run" (workflow/engine/scheduled_dispatch.py, `_submit_scheduler_fanout_issues`):
\* the task of a refused submission never runs.
RefusedNeverRuns == strayRan = {}
=============================================================================
