------------------------- MODULE SchedulerAdmission -------------------------
(***************************************************************************)
(* What a process's scheduler promises the maintenance pass of that        *)
(* process, with no caps, jobs or executors in it.  IssueScheduler         *)
(* implements it, and ArtifactMaintenance, which composes the schedulers   *)
(* of a host, takes no step with one that is not a step of this module.    *)
(***************************************************************************)
CONSTANT Key    \* what may be admitted

VARIABLES
    admitted,   \* what holds a slot or a temporary claim
    barred,     \* is admission closed by a barrier?
    quiet,      \* is a barrier's body inside the quiet it was answered?
    closed      \* is the scheduler closed for good?

vars == <<admitted, barred, quiet, closed>>

Init == admitted = {} /\ barred = FALSE /\ quiet = FALSE /\ closed = FALSE

\* Closed for good, a scheduler still lets what it has admitted claim more.
Admit(k) ==
    /\ ~barred /\ k \notin admitted
    /\ ~closed \/ admitted # {}
    /\ admitted' = admitted \cup {k}
    /\ UNCHANGED <<barred, quiet, closed>>

Release(k) ==
    /\ k \in admitted
    /\ admitted' = admitted \ {k}
    /\ UNCHANGED <<barred, quiet, closed>>

Bar ==
    /\ ~closed /\ ~barred
    /\ barred' = TRUE
    /\ UNCHANGED <<admitted, quiet, closed>>

\* Answered once, with nothing admitted and admission still wanted.
AnswerQuiet ==
    /\ barred /\ ~closed /\ admitted = {}
    /\ quiet' = TRUE
    /\ UNCHANGED <<admitted, barred, closed>>

\* The body ends, and the hold with it or behind it.
EndBody ==
    /\ quiet /\ quiet' = FALSE
    /\ UNCHANGED <<admitted, barred, closed>>

Lift ==
    /\ barred /\ barred' = FALSE
    /\ quiet' = FALSE
    /\ UNCHANGED <<admitted, closed>>

Close ==
    /\ ~closed /\ closed' = TRUE
    /\ UNCHANGED <<admitted, barred, quiet>>

\* The process is gone, and its workers are.
Die ==
    /\ admitted' = {} /\ quiet' = FALSE
    /\ UNCHANGED <<barred, closed>>

Next ==
    \/ \E k \in Key : Admit(k) \/ Release(k)
    \/ Bar \/ AnswerQuiet \/ EndBody \/ Lift \/ Close \/ Die

Spec == Init /\ [][Next]_vars
=============================================================================
