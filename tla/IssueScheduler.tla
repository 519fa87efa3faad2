--------------------------- MODULE IssueScheduler ---------------------------
(***************************************************************************)
(* The issue scheduler of one polling process (scheduler/service.py): the  *)
(* admission of counted and capacity-exempt workers, the temporary claims  *)
(* a family bucket takes while it drains, the reversible barrier under     *)
(* which the process can be proved quiet, and the shutdown that closes     *)
(* admission for good.                                                     *)
(*                                                                         *)
(* Every operation of the scheduler runs under its one lock, so it is one  *)
(* action here.  What happens between two of them is the work itself: a    *)
(* submitted job waits in its executor's queue, runs, returns, and gives   *)
(* its slot back in the callback its worker thread runs after it.          *)
(*                                                                         *)
(* A repository's family issues are one job under the sentinel number      *)
(* Bucket, which claims each issue in turn (`track_active`) as it drains   *)
(* them (workflow/engine/scheduled_dispatch.py); any other issue is a job  *)
(* of its own.  The list `reap` empties only carries results to the log    *)
(* and is left out.                                                        *)
(***************************************************************************)
EXTENDS Naturals, FiniteSets

CONSTANTS
    Repo,           \* repository slugs
    Number,         \* issue numbers
    Bucket,         \* `_FAMILY_BUCKET_ISSUE`, a number no issue has
    Job,            \* bound: the submissions that may be in flight at once
    Caller,         \* the callers of `maintenance_barrier`
    GlobalCap,      \* `global_cap`, also the counted executor's threads
    PerRepoCap,     \* the `per_repo_cap` each repository's submissions carry
    ExemptWorkers,  \* `_EXEMPT_POOL_WORKERS`
    None            \* the absent value

Key == Repo \X (Number \cup {Bucket})
JobState == [key    : Key,
             exempt : BOOLEAN,
             at     : {"queued", "running", "returned"},
             claim  : Number \cup {None}]

ASSUME CapsAssumption ==
    /\ GlobalCap \in Nat \ {0}
    /\ PerRepoCap \in [Repo -> Nat \ {0}]
    /\ ExemptWorkers \in Nat \ {0}
    /\ IsFiniteSet(Job)
    /\ Bucket \notin Number
    /\ None \notin Number /\ None \notin JobState

VARIABLES
    active,             \* keys holding a counted slot
    tracked,            \* keys claimed without one
    perRepoActive,      \* `_per_repo_active`, zero where the code has no entry
    familyActiveRepos,  \* repositories whose family slot is held
    closed, barred,
    job,                \* what each accepted submission is doing, or None
    barrier             \* where each caller of the barrier is

vars == <<active, tracked, perRepoActive, familyActiveRepos, closed, barred,
          job, barrier>>
slots == <<active, tracked, perRepoActive, familyActiveRepos>>

-----------------------------------------------------------------------------
\* A bucket is the one submission with `family=True`.
Family(key) == key[2] = Bucket

InFlight == {j \in Job : job[j] # None}
Running == {j \in InFlight : job[j].at = "running"}

TypeOK ==
    /\ active \subseteq Key
    /\ tracked \subseteq Key
    /\ perRepoActive \in [Repo -> Nat]
    /\ familyActiveRepos \subseteq Repo
    /\ closed \in BOOLEAN /\ barred \in BOOLEAN
    /\ job \in [Job -> JobState \cup {None}]
    /\ barrier \in [Caller -> {"out", "unheld", "waiting", "quiet", "busy"}]

Init ==
    /\ active = {} /\ tracked = {}
    /\ perRepoActive = [r \in Repo |-> 0]
    /\ familyActiveRepos = {}
    /\ closed = FALSE /\ barred = FALSE
    /\ job = [j \in Job |-> None]
    /\ barrier = [c \in Caller |-> "out"]

-----------------------------------------------------------------------------
(* Admission *)

\* Mutation: only the other temporary claims are asked about.
ClaimableIfUntracked(key) == ~barred /\ key \notin tracked

\* `_claimable_locked`: a shutdown does not refuse a temporary claim.
Claimable(key) == ~barred /\ key \notin active /\ key \notin tracked

\* Mutation: the global cap is compared one too late.
AdmissibleOverCap(key, exempt) ==
    /\ ~closed /\ ~barred
    /\ key \notin active /\ key \notin tracked
    /\ exempt \/ /\ Cardinality(active) <= GlobalCap
                 /\ perRepoActive[key[1]] < PerRepoCap[key[1]]
    /\ Family(key) => key[1] \notin familyActiveRepos

\* `_skip_reason_locked` has no reason to skip the submission.
Admissible(key, exempt) ==
    /\ ~closed /\ ~barred
    /\ key \notin active /\ key \notin tracked
    /\ exempt \/ /\ Cardinality(active) < GlobalCap
                 /\ perRepoActive[key[1]] < PerRepoCap[key[1]]
    /\ Family(key) => key[1] \notin familyActiveRepos

\* `_reserve_slot_locked`.
ReserveSlot(key, exempt) ==
    /\ IF exempt
       THEN tracked' = tracked \cup {key} /\ UNCHANGED <<active, perRepoActive>>
       ELSE /\ active' = active \cup {key}
            /\ perRepoActive' = [perRepoActive EXCEPT ![key[1]] = @ + 1]
            /\ UNCHANGED tracked
    /\ familyActiveRepos' = IF Family(key) THEN familyActiveRepos \cup {key[1]}
                            ELSE familyActiveRepos

\* Mutation: the family slot is not given back.
ReleaseSlotOnly(key, exempt) ==
    /\ IF exempt
       THEN tracked' = tracked \ {key} /\ UNCHANGED <<active, perRepoActive>>
       ELSE /\ active' = active \ {key}
            /\ perRepoActive' = [perRepoActive EXCEPT ![key[1]] = @ - 1]
            /\ UNCHANGED tracked
    /\ UNCHANGED familyActiveRepos

\* Mutation: an exempt worker's return is counted against its repository.
ReleaseSlotCounted(key, exempt) ==
    /\ active' = active \ {key}
    /\ tracked' = tracked \ {key}
    /\ perRepoActive' = [perRepoActive EXCEPT ![key[1]] = @ - 1]
    /\ familyActiveRepos' = familyActiveRepos \ (IF Family(key) THEN {key[1]} ELSE {})

\* `_release_slot_locked`.
ReleaseSlot(key, exempt) ==
    /\ IF exempt
       THEN tracked' = tracked \ {key} /\ UNCHANGED <<active, perRepoActive>>
       ELSE /\ active' = active \ {key}
            /\ perRepoActive' = [perRepoActive EXCEPT ![key[1]] =
                                    IF @ <= 1 THEN 0 ELSE @ - 1]
            /\ UNCHANGED tracked
    /\ familyActiveRepos' = IF Family(key) THEN familyActiveRepos \ {key[1]}
                            ELSE familyActiveRepos

Submit(j, key, exempt) ==
    /\ job[j] = None
    /\ Admissible(key, exempt)
    /\ ReserveSlot(key, exempt)
    /\ job' = [job EXCEPT ![j] =
            [key |-> key, exempt |-> exempt, at |-> "queued", claim |-> None]]
    /\ UNCHANGED <<closed, barred, barrier>>

-----------------------------------------------------------------------------
(* The executors and the work *)

\* A worker thread is its job's until the job's callback has run.
Occupied(exempt) ==
    {j \in InFlight : job[j].exempt = exempt /\ job[j].at # "queued"}

Begin(j) ==
    /\ job[j] # None /\ job[j].at = "queued"
    /\ Cardinality(Occupied(job[j].exempt))
            < (IF job[j].exempt THEN ExemptWorkers ELSE GlobalCap)
    /\ job' = [job EXCEPT ![j].at = "running"]
    /\ UNCHANGED <<slots, closed, barred, barrier>>

\* The drain claims its next issue; one that is taken is skipped.
TrackActive(j, n) ==
    /\ j \in Running
    /\ Family(job[j].key) /\ job[j].claim = None
    /\ Claimable(<<job[j].key[1], n>>)
    /\ tracked' = tracked \cup {<<job[j].key[1], n>>}
    /\ job' = [job EXCEPT ![j].claim = n]
    /\ UNCHANGED <<active, perRepoActive, familyActiveRepos, closed, barred, barrier>>

Untrack(j) ==
    /\ j \in Running
    /\ job[j].claim # None
    /\ tracked' = tracked \ {<<job[j].key[1], job[j].claim>>}
    /\ job' = [job EXCEPT ![j].claim = None]
    /\ UNCHANGED <<active, perRepoActive, familyActiveRepos, closed, barred, barrier>>

Return(j) ==
    /\ j \in Running
    /\ job[j].claim = None
    /\ job' = [job EXCEPT ![j].at = "returned"]
    /\ UNCHANGED <<slots, closed, barred, barrier>>

\* Mutation: the callback does nothing once the scheduler is closed.
OnWorkerDoneIfOpen(j) ==
    /\ job[j] # None /\ job[j].at = "returned" /\ ~closed
    /\ ReleaseSlot(job[j].key, job[j].exempt)
    /\ job' = [job EXCEPT ![j] = None]
    /\ UNCHANGED <<closed, barred, barrier>>

\* `_on_worker_done`.
OnWorkerDone(j) ==
    /\ job[j] # None /\ job[j].at = "returned"
    /\ ReleaseSlot(job[j].key, job[j].exempt)
    /\ job' = [job EXCEPT ![j] = None]
    /\ UNCHANGED <<closed, barred, barrier>>

-----------------------------------------------------------------------------
(* The maintenance barrier and the shutdown *)

Pending == active \cup tracked # {}

\* Take the hold, unless the scheduler is closed or somebody else has it.
EnterBarrier(c) ==
    /\ barrier[c] = "out"
    /\ IF ~closed /\ ~barred
       THEN barred' = TRUE /\ barrier' = [barrier EXCEPT ![c] = "waiting"]
       ELSE UNCHANGED barred /\ barrier' = [barrier EXCEPT ![c] = "unheld"]
    /\ UNCHANGED <<slots, closed, job>>

\* `_quiesced`, when the admitted work has drained or the wait has ended: its
\* bound has passed, which it may at any point, or the scheduler is closed.
Quiesced(c) ==
    /\ barrier[c] = "waiting"
    /\ barrier' = [barrier EXCEPT ![c] =
            IF ~Pending /\ ~closed THEN "quiet" ELSE "busy"]
    /\ UNCHANGED <<slots, closed, barred, job>>

\* Mutation: a refused caller lifts the hold that refused it.
LiftedByAnyone(c) == FALSE

\* Mutation: a caller that was answered busy leaves its hold behind.
LiftedIfQuiet(c) == IF barrier[c] = "quiet" THEN FALSE ELSE barred

\* What a caller leaves of the hold: only its own is lifted.
Lifted(c) == IF barrier[c] = "unheld" THEN barred ELSE FALSE

LeaveBarrier(c) ==
    /\ barrier[c] \in {"unheld", "quiet", "busy"}
    /\ barred' = Lifted(c)
    /\ barrier' = [barrier EXCEPT ![c] = "out"]
    /\ UNCHANGED <<slots, closed, job>>

\* `shutdown`: the executors refuse new work from here on and run what they
\* were given.
Shutdown ==
    /\ ~closed
    /\ closed' = TRUE
    /\ UNCHANGED <<slots, barred, job, barrier>>

-----------------------------------------------------------------------------
Work(j) ==
    \/ Begin(j) \/ Untrack(j) \/ Return(j) \/ OnWorkerDone(j)

Next ==
    \/ Shutdown
    \/ \E j \in Job :
        \/ Work(j)
        \/ \E key \in Key, exempt \in BOOLEAN : Submit(j, key, exempt)
        \/ \E n \in Number : TrackActive(j, n)
    \/ \E c \in Caller : EnterBarrier(c) \/ Quiesced(c) \/ LeaveBarrier(c)

Spec == Init /\ [][Next]_vars

\* An executor's queue is first in, first out, so no job waits behind later ones
\* for ever; a worker thread runs what it was given to its end, a drain's list
\* of issues being finite; and the barrier's wait is bounded.
Fairness ==
    /\ \A j \in Job : /\ SF_vars(Begin(j)) /\ WF_vars(Untrack(j))
                      /\ SF_vars(Return(j)) /\ WF_vars(OnWorkerDone(j))
    /\ \A c \in Caller : WF_vars(Quiesced(c)) /\ WF_vars(LeaveBarrier(c))

FairSpec == Spec /\ Fairness

-----------------------------------------------------------------------------
\* Who is working on an issue: the job submitted for it, and the bucket that
\* has claimed it.
WorkingOn(key) ==
    {j \in Running : \/ job[j].key = key
                     \/ job[j].claim # None /\ key = <<job[j].key[1], job[j].claim>>}

\* Two workers of this process never run one issue's handler at once, whichever
\* paths they were admitted on, and no repository has two family drains.
OneWorkerPerIssue == \A key \in Key : Cardinality(WorkingOn(key)) <= 1

\* The agents that run at once are bounded: no more counted jobs than the
\* global cap, none of them in a repository over that repository's cap.
CapsHold ==
    LET counted == {j \in InFlight : ~job[j].exempt}
    IN  /\ Cardinality(counted) <= GlobalCap
        /\ \A r \in Repo :
            Cardinality({j \in counted : job[j].key[1] = r}) <= PerRepoCap[r]

\* A barrier that answered quiet is believed for as long as its body runs: no
\* job is queued or running anywhere in this process under it, whoever else
\* asked for the barrier or shut the scheduler down meanwhile.
QuietStaysQuiet ==
    \A c \in Caller : barrier[c] = "quiet" => InFlight = {} /\ barred

\* The slots are exactly those of the jobs in flight and the claims of the
\* drains: none leaks when a job ends, and none is given back early.
SlotsMatchJobs ==
    /\ active = {job[j].key : j \in {i \in InFlight : ~job[i].exempt}}
    /\ tracked = {job[j].key : j \in {i \in InFlight : job[i].exempt}}
            \cup {<<job[j].key[1], job[j].claim>> :
                    j \in {i \in InFlight : job[i].claim # None}}
    /\ \A r \in Repo : perRepoActive[r] = Cardinality({k \in active : k[1] = r})
    /\ familyActiveRepos = {job[j].key[1] : j \in {i \in InFlight : Family(job[i].key)}}

\* Admission closed by a barrier opens again, unless the process is stopping.
BarrierIsReversed == barred ~> ~barred

\* Every accepted submission gives its slot back, a shutdown included.
AcceptedIsReleased == \A j \in Job : job[j] # None ~> job[j] = None

-----------------------------------------------------------------------------
Admission == INSTANCE SchedulerAdmission WITH
    admitted <- active \cup tracked,
    quiet    <- \E c \in Caller : barrier[c] = "quiet"

\* The caps, the jobs and the several callers of the barrier implement the
\* admission that the maintenance pass of the process relies on.
ImplementsAdmission == Admission!Spec
=============================================================================
