------------------------- MODULE ArtifactMaintenance -------------------------
(***************************************************************************)
(* The processes of one host and the artifacts they share: polling runs    *)
(* that hold a shared presence for their whole life and hand it over to    *)
(* their own maintenance pass, and one-shot maintenance runs that take the *)
(* host exclusively or do nothing (runtime/exclusion.py, host_lock.py,     *)
(* artifacts.py, loop.py and cli.py; git/worktrees/maintenance.py).        *)
(*                                                                         *)
(* A process's scheduler is here what IssueScheduler shows it to be: the   *)
(* set of issues it has admitted, the barrier over admission, and whether  *)
(* it is closed.  The writer claim is what WriterClaims shows it to be:    *)
(* one owner per issue, taken without waiting, gone with its process.      *)
(***************************************************************************)
EXTENDS Naturals, FiniteSets

CONSTANTS
    Poller,     \* processes started as `run`
    OneShot,    \* processes started as `run --cleanup-terminal-artifacts`
    Issue,      \* issues, each with a checkout and branches on the host
    None        \* the absent value

ASSUME DisjointAssumption ==
    /\ Poller \cap OneShot = {}
    /\ None \notin Poller \cup OneShot \cup Issue

VARIABLES
    at,         \* where each process's main thread is
    claim,      \* `state.host_claim`
    running,    \* `state.running`
    closed,     \* the scheduler's `_closed`
    barred,     \* the scheduler's `_barred`
    admitted,   \* the issues whose slot or claim the scheduler holds
    handling,   \* those of them whose worker is inside the issue's handler
    writer,     \* the process holding each issue's writer claim
    shared,     \* the processes with the host lock shared
    sole,       \* the process with it exclusively
    left,       \* the candidates a pass has not come to yet
    candidate,  \* the candidate whose issue a pass holds
    lost        \* the polling runs a broken lock keeps from their presence

vars == <<at, claim, running, closed, barred, admitted, handling, writer, shared,
          sole, left, candidate, lost>>
scheduler == <<closed, barred, admitted, handling>>
pass == <<left, candidate>>
hostLock == <<shared, sole, lost>>

-----------------------------------------------------------------------------
Process == Poller \cup OneShot

\* "waits" is the wait between two ticks; from "drains" to "restores" the main
\* thread is inside `maintenance_barrier`, and from "handed" to "restores"
\* inside `SharedHost.exclusive`.
Place == {"starts", "waits", "ticks", "drains", "quiet", "handed", "refused",
          "holds", "passes", "classifies", "tears_down", "over", "restores", "restored",
          "stops", "gone"}

TypeOK ==
    /\ at \in [Process -> Place]
    /\ claim \in [Process -> {"unclaimed", "shared", "exclusive"}]
    /\ running \in [Process -> BOOLEAN]
    /\ closed \in [Process -> BOOLEAN]
    /\ barred \in [Process -> BOOLEAN]
    /\ admitted \in [Process -> SUBSET Issue]
    /\ handling \in [Process -> SUBSET Issue]
    /\ writer \in [Issue -> Process \cup {None}]
    /\ shared \subseteq Process
    /\ sole \in Process \cup {None}
    /\ left \in [Process -> SUBSET Issue]
    /\ candidate \in [Process -> Issue \cup {None}]
    /\ lost \subseteq Process
    /\ \A p \in Process :
        candidate[p] # None <=> at[p] \in {"classifies", "tears_down"}

Init ==
    /\ at = [p \in Process |-> "starts"]
    /\ claim = [p \in Process |-> "unclaimed"]
    /\ running = [p \in Process |-> TRUE]
    /\ closed = [p \in Process |-> FALSE]
    /\ barred = [p \in Process |-> FALSE]
    /\ admitted = [p \in Process |-> {}]
    /\ handling = [p \in Process |-> {}]
    /\ writer = [i \in Issue |-> None]
    /\ shared = {} /\ sole = None /\ lost = {}
    /\ left = [p \in Process |-> {}]
    /\ candidate = [p \in Process |-> None]

Goes(p, from, to) == at[p] = from /\ at' = [at EXCEPT ![p] = to]

\* Mutation: a presence is asked for the way the sole hold is.
SharedFreeAlone(p) == sole \in {None, p} /\ shared \subseteq {p}

\* What the kernel grants a request that does not wait.  A process's own hold,
\* kept because its unlock failed, is traded in.
SharedFree(p) == sole \in {None, p}

\* Mutation: only the presences are looked at.
SoleFreeOfPresences(p) == shared \subseteq {p}

SoleFree(p) == sole \in {None, p} /\ shared \subseteq {p}

\* The host once `p` has given up a hold of its own.
SoleWithout(p) == IF sole = p THEN None ELSE sole

-----------------------------------------------------------------------------
(* Starting *)

\* `polling_presence`: waited for, before anything is admitted.
TakePresence(p) ==
    /\ p \in Poller /\ Goes(p, "starts", "waits")
    /\ SharedFree(p)
    /\ shared' = shared \cup {p}
    /\ claim' = [claim EXCEPT ![p] = "shared"]
    /\ UNCHANGED <<running, scheduler, writer, sole, lost, pass>>

\* A lock that cannot be opened or worked with: poll without a claim.
GoUnclaimed(p) ==
    /\ p \in Poller /\ Goes(p, "starts", "waits")
    /\ UNCHANGED <<claim, running, scheduler, writer, hostLock, pass>>

\* `artifact_exclusivity`: attempted once, and a run that is refused, that finds
\* the lock unusable or that was signalled meanwhile is over.  Its own scheduler
\* is empty, so the barrier of its pass is granted at once.
TakeHost(p) ==
    /\ p \in OneShot
    /\ \/ /\ SoleFree(p) /\ running[p]
          /\ Goes(p, "starts", "holds")
          /\ sole' = p
          /\ claim' = [claim EXCEPT ![p] = "exclusive"]
          /\ barred' = [barred EXCEPT ![p] = TRUE]
       \/ /\ Goes(p, "starts", "gone")
          /\ UNCHANGED <<sole, claim, barred>>
    /\ UNCHANGED <<running, closed, admitted, handling, writer, shared, lost, pass>>

-----------------------------------------------------------------------------
(* Ticks and workers *)

\* A signal stops the loop at its next turn; `tick_one_repo` asks as well.
Tick(p) ==
    /\ running[p] /\ Goes(p, "waits", "ticks")
    /\ UNCHANGED <<claim, running, scheduler, writer, hostLock, pass>>

EndTick(p) ==
    /\ Goes(p, "ticks", "waits")
    /\ UNCHANGED <<claim, running, scheduler, writer, hostLock, pass>>

\* A submit of this tick, or a drain already running that claims its next
\* issue: only the barrier refuses the second.
Admit(p, i) ==
    /\ ~barred[p] /\ i \notin admitted[p]
    /\ \/ at[p] = "ticks" /\ ~closed[p]
       \/ admitted[p] # {}
    /\ admitted' = [admitted EXCEPT ![p] = @ \cup {i}]
    /\ UNCHANGED <<at, claim, running, closed, barred, handling, writer, hostLock, pass>>

\* Mutation: a dispatch path that does not take the claim.
DispatchUnclaimed(p, i) ==
    /\ i \in admitted[p]
    /\ handling' = [handling EXCEPT ![p] = @ \cup {i}]
    /\ UNCHANGED <<at, claim, running, closed, barred, admitted, writer, hostLock, pass>>

\* The worker takes the issue's writer claim, or returns having read nothing.
Dispatch(p, i) ==
    /\ i \in admitted[p] /\ writer[i] = None
    /\ writer' = [writer EXCEPT ![i] = p]
    /\ handling' = [handling EXCEPT ![p] = @ \cup {i}]
    /\ UNCHANGED <<at, claim, running, closed, barred, admitted, hostLock, pass>>

Finish(p, i) ==
    /\ i \in admitted[p]
    /\ admitted' = [admitted EXCEPT ![p] = @ \ {i}]
    /\ handling' = [handling EXCEPT ![p] = @ \ {i}]
    /\ writer' = [writer EXCEPT ![i] = IF i \in handling[p] THEN None ELSE @]
    /\ UNCHANGED <<at, claim, running, closed, barred, hostLock, pass>>

-----------------------------------------------------------------------------
(* The pass of a polling run *)

\* `run_maintenance_pass` between two ticks, whenever the schedule owes one.
EnterBarrier(p) ==
    /\ running[p] /\ ~closed[p] /\ claim[p] = "shared"
    /\ Goes(p, "waits", "drains")
    /\ barred' = [barred EXCEPT ![p] = TRUE]
    /\ UNCHANGED <<claim, running, closed, admitted, handling, writer, hostLock, pass>>

\* Mutation: a wait that ran out counts as quiet.
QuiescedInTime(p) ==
    /\ IF ~closed[p] THEN Goes(p, "drains", "quiet") ELSE Goes(p, "drains", "restored")
    /\ UNCHANGED <<claim, running, scheduler, writer, hostLock, pass>>

\* The drained work, or the bound on the wait, or a shutdown.
Quiesced(p) ==
    /\ IF admitted[p] = {} /\ ~closed[p]
       THEN Goes(p, "drains", "quiet")
       ELSE Goes(p, "drains", "restored")
    /\ UNCHANGED <<claim, running, scheduler, writer, hostLock, pass>>

\* `_handed_over`, in its two halves: another process may have the lock in
\* between.  A lock that breaks in either is a refusal.
HandOver(p) ==
    /\ Goes(p, "quiet", "handed")
    /\ shared' = shared \ {p}
    /\ sole' = SoleWithout(p)
    /\ UNCHANGED <<claim, running, scheduler, writer, lost, pass>>

HandOverBreaks(p) ==
    /\ \/ Goes(p, "quiet", "refused")
       \/ Goes(p, "handed", "refused")
    /\ UNCHANGED <<claim, running, scheduler, writer, hostLock, pass>>

TakeOver(p) ==
    /\ IF SoleFree(p)
       THEN Goes(p, "handed", "holds") /\ sole' = p
       ELSE Goes(p, "handed", "refused") /\ UNCHANGED sole
    /\ UNCHANGED <<claim, running, scheduler, writer, shared, lost, pass>>

\* The gate is asked last, and may say that the window has closed.
Gate(p) ==
    /\ \/ Goes(p, "holds", "passes") /\ left' = [left EXCEPT ![p] = Issue]
       \/ p \in Poller /\ Goes(p, "holds", "over") /\ UNCHANGED left
    /\ UNCHANGED <<claim, running, scheduler, writer, hostLock, candidate>>

\* Whether the pass may still act (`_Continuing`), its budget aside.
Going(p) == running[p] /\ ~closed[p]

\* A candidate whose issue this process is not running: its writer claim is
\* taken, and the issue is read under it.
Classify(p, i) ==
    /\ i \in left[p] /\ Going(p)
    /\ i \notin admitted[p] /\ writer[i] = None
    /\ Goes(p, "passes", "classifies")
    /\ writer' = [writer EXCEPT ![i] = p]
    /\ left' = [left EXCEPT ![p] = @ \ {i}]
    /\ candidate' = [candidate EXCEPT ![p] = i]
    /\ UNCHANGED <<claim, running, scheduler, hostLock>>

\* Eligible, and the pass may still act: the last thing asked before deleting.
TearDown(p) ==
    /\ Goes(p, "classifies", "tears_down")
    /\ Going(p)
    /\ UNCHANGED <<claim, running, scheduler, writer, hostLock, pass>>

\* Mutation: the claim is given back and the candidate is not.
EndCandidateHalf(p) ==
    /\ Goes(p, "classifies", "passes") \/ Goes(p, "tears_down", "passes")
    /\ writer' = [writer EXCEPT ![candidate[p]] = None]
    /\ UNCHANGED <<claim, running, scheduler, hostLock, pass>>

\* The candidate's claim is given back: kept, stopped, or torn down.
EndCandidate(p) ==
    /\ Goes(p, "classifies", "passes") \/ Goes(p, "tears_down", "passes")
    /\ writer' = [writer EXCEPT ![candidate[p]] = None]
    /\ candidate' = [candidate EXCEPT ![p] = None]
    /\ UNCHANGED <<claim, running, scheduler, hostLock, left>>

\* A candidate kept for being run here, or for its claim being refused.
Keep(p, i) ==
    /\ at[p] = "passes" /\ i \in left[p]
    /\ i \in admitted[p] \/ writer[i] # None
    /\ left' = [left EXCEPT ![p] = @ \ {i}]
    /\ UNCHANGED <<at, claim, running, scheduler, writer, hostLock, candidate>>

\* Every candidate is answered, the pass may no longer act, its share of the
\* host is spent, or it raised.
EndPass(p) ==
    /\ Goes(p, "passes", "over")
    /\ left' = [left EXCEPT ![p] = {}]
    /\ UNCHANGED <<claim, running, scheduler, writer, hostLock, candidate>>

\* Mutation: a refused hand-over returns without restoring anything.
GiveHostBackIfTaken(p) ==
    /\ p \in Poller /\ Goes(p, "over", "restores") /\ sole' = None
    /\ UNCHANGED <<claim, running, scheduler, writer, shared, lost, pass>>

\* `_restored`: the host is given back if it was taken, and the presence is
\* waited for before the barrier around it all is lifted.  A refused run gives
\* nothing back: a hold it has still, an earlier unlock having failed, is dropped
\* only if another request comes in between the two halves of the kernel's trade.
GiveHostBack(p) ==
    /\ p \in Poller
    /\ \/ Goes(p, "over", "restores") /\ sole' = None
       \/ Goes(p, "refused", "restores") /\ sole' \in {sole, SoleWithout(p)}
    /\ UNCHANGED <<claim, running, scheduler, writer, shared, lost, pass>>

TakePresenceBack(p) ==
    /\ Goes(p, "restores", "restored")
    /\ SharedFree(p)
    /\ shared' = shared \cup {p}
    /\ sole' = SoleWithout(p)
    /\ lost' = lost \ {p}
    /\ UNCHANGED <<claim, running, scheduler, writer, pass>>

\* A lock that breaks there is not waited for: the run polls on without its
\* presence.  When it is the unlock that breaks, the presence is not even asked
\* for, and the run polls on with the host its own.
LosePresence(p) ==
    /\ \/ p \in Poller /\ Goes(p, "over", "restored")
       \/ Goes(p, "restores", "restored")
    /\ lost' = lost \cup {p}
    /\ UNCHANGED <<claim, running, scheduler, writer, shared, sole, pass>>

\* Mutation: the barrier is lifted while the presence is waited for.
LeaveBarrierEarly(p) ==
    /\ Goes(p, "restores", "waits") \/ Goes(p, "restored", "waits")
    /\ barred' = [barred EXCEPT ![p] = FALSE]
    /\ UNCHANGED <<claim, running, closed, admitted, handling, writer, hostLock, pass>>

LeaveBarrier(p) ==
    /\ Goes(p, "restored", "waits")
    /\ barred' = [barred EXCEPT ![p] = FALSE]
    /\ UNCHANGED <<claim, running, closed, admitted, handling, writer, hostLock, pass>>

-----------------------------------------------------------------------------
(* Stopping *)

\* The signal handler; a scheduler not built yet is not closed by it.
Signal(p) ==
    /\ running[p] /\ at[p] # "gone"
    /\ running' = [running EXCEPT ![p] = FALSE]
    /\ closed' = [closed EXCEPT ![p] = at[p] # "starts"]
    /\ UNCHANGED <<at, claim, barred, admitted, handling, writer, hostLock, pass>>

\* The loop ends on a signal or for a restart, and `drain_scheduler` waits the
\* workers out before the host claim is given up.
Stop(p) ==
    /\ \/ p \in Poller /\ Goes(p, "waits", "stops") /\ UNCHANGED barred
       \/ p \in OneShot /\ Goes(p, "over", "stops")
                        /\ barred' = [barred EXCEPT ![p] = FALSE]
    /\ closed' = [closed EXCEPT ![p] = TRUE]
    /\ UNCHANGED <<claim, running, admitted, handling, writer, hostLock, pass>>

Exit(p) ==
    /\ Goes(p, "stops", "gone")
    /\ admitted[p] = {}
    /\ shared' = shared \ {p}
    /\ sole' = SoleWithout(p)
    /\ UNCHANGED <<claim, running, scheduler, writer, lost, pass>>

\* The watchdog's forced exit, or any other death: the kernel drops every lock.
Die(p) ==
    /\ at[p] # "gone"
    /\ at' = [at EXCEPT ![p] = "gone"]
    /\ admitted' = [admitted EXCEPT ![p] = {}]
    /\ handling' = [handling EXCEPT ![p] = {}]
    /\ writer' = [i \in Issue |-> IF writer[i] = p THEN None ELSE writer[i]]
    /\ shared' = shared \ {p}
    /\ sole' = SoleWithout(p)
    /\ left' = [left EXCEPT ![p] = {}]
    /\ candidate' = [candidate EXCEPT ![p] = None]
    /\ UNCHANGED <<claim, running, closed, barred, lost>>

-----------------------------------------------------------------------------
Pass(p) ==
    \/ Quiesced(p) \/ HandOver(p) \/ HandOverBreaks(p) \/ TakeOver(p) \/ Gate(p)
    \/ EndCandidate(p) \/ EndPass(p) \/ GiveHostBack(p) \/ LeaveBarrier(p)

Next ==
    \E p \in Process :
        \/ TakePresence(p) \/ GoUnclaimed(p) \/ TakeHost(p)
        \/ Tick(p) \/ EndTick(p) \/ EnterBarrier(p)
        \/ Pass(p) \/ TearDown(p) \/ TakePresenceBack(p) \/ LosePresence(p)
        \/ Signal(p) \/ Stop(p) \/ Exit(p) \/ Die(p)
        \/ \E i \in Issue :
            \/ Admit(p, i) \/ Dispatch(p, i) \/ Finish(p, i)
            \/ Classify(p, i) \/ Keep(p, i)

Spec == Init /\ [][Next]_vars

\* A pass is bounded at every step of it, so it goes on.  A process waiting for
\* the host asks twice a second, and a pass comes once an interval or a night:
\* the host is not taken whenever it asks.
AskForHost(p) == TakePresence(p) \/ TakePresenceBack(p)

Fairness ==
    /\ \A p \in Process : WF_vars(Pass(p))
    /\ \A p \in Poller : SF_vars(AskForHost(p))
    /\ \A p \in OneShot : WF_vars(Stop(p)) /\ WF_vars(Exit(p))

FairSpec == Spec /\ Fairness

-----------------------------------------------------------------------------
\* A process whose main thread is inside its pass, gate and candidates.
Acting(p) == at[p] \in {"holds", "passes", "classifies", "tears_down"}

\* Where a process is behind a barrier that answered quiet.
InQuiet(p) ==
    at[p] \in {"quiet", "handed", "refused", "holds", "passes", "classifies",
              "tears_down", "over", "restores"}

\* "No pass anywhere touches an artifact" while a live polling run that could
\* be coordinated on has work admitted, its own included (exclusion.py).
NoPassBesideWork ==
    \A p, q \in Process :
        Acting(p) /\ claim[q] = "shared" /\ q \notin lost => admitted[q] = {}

\* Two passes never act on one host at once.
OnePassAtATime == \A p, q \in Process : Acting(p) /\ Acting(q) => p = q

\* The second line, for the runs the host lock says nothing about: an issue's
\* artifacts are torn down only while no worker of any process, however its
\* host claim went, is inside that issue's handler.
TeardownHoldsTheIssue ==
    \A p, q \in Process : at[p] = "tears_down" => candidate[p] \notin handling[q]

\* Work is admitted only behind a presence: a coordinated polling run has its
\* presence back before its barrier is lifted, and keeps it until it has
\* drained.
PresenceBehindWork ==
    \A p \in Poller :
        claim[p] = "shared" /\ p \notin lost /\ at[p] # "gone"
            /\ (~barred[p] \/ admitted[p] # {}) => p \in shared

\* Whether the host is out of `p`'s reach for a run that polls with it still its
\* own, its unlock having failed (or that is in its next pass since).
KeptFrom(p) == sole \in lost \ {p}

\* "Admission always reopens": the barrier of a pass is lifted again, whatever
\* became of the pass, unless the process is gone or another run's unlock has
\* failed for good: nothing else makes the wait for the presence endless.
AdmissionReopens ==
    \A p \in Poller :
        []<>~KeptFrom(p) => (barred[p] ~> (~barred[p] \/ at[p] = "gone"))

\* Its safety half: a barrier that stands is one a pass is inside, or on its way
\* into or out of, so no loop polls on behind one that nobody will lift.
BarrierIsOfAPass ==
    \A p \in Process : barred[p] /\ at[p] # "gone" =>
        \/ at[p] \in {"drains", "restored"}
        \/ InQuiet(p)

\* A polling run that waits for the host gets it, or stops running, under the
\* same condition.  Without it the wait has no end: exclusion.py has the pass
\* give the host back, and a run whose unlock fails does not.
WaitIsFinite ==
    \A p \in Poller :
        []<>~KeptFrom(p) => (at[p] = "starts" ~> at[p] # "starts")

\* Its safety half: the host is refused only for a process that is in its pass, or
\* giving the host back behind it, or for a polling run whose unlock failed and
\* whose presence is not back since, and shared only by runs that have taken it
\* and are neither over nor in a pass, the ones whose hand-over broke among them.
HostIsHeldByTheLiving ==
    /\ sole # None =>
        \/ Acting(sole) \/ at[sole] = "over"
        \/ sole \in OneShot /\ at[sole] = "stops"
        \/ /\ sole \in Poller /\ sole \in lost
           /\ at[sole] \in {"restored", "waits", "ticks", "drains", "quiet", "refused",
                            "restores", "stops"}
    /\ \A p \in shared : p \in Poller
            /\ at[p] \in {"waits", "ticks", "drains", "quiet", "refused", "restores",
                         "restored", "stops"}

-----------------------------------------------------------------------------
Admission(p) == INSTANCE SchedulerAdmission WITH
    Key      <- Issue,
    admitted <- admitted[p],
    barred   <- barred[p],
    quiet    <- InQuiet(p),
    closed   <- closed[p]

\* What the host's processes do with the scheduler of a polling run is what its
\* promise allows, whatever locks, passes, signals and deaths come between.
KeepsToAdmission ==
    /\ \A p \in Poller : Admission(p)!Init
    /\ [][\A p \in Poller : [Admission(p)!Next]_(Admission(p)!vars)]_vars

Claim(i) == INSTANCE IssueClaim WITH
    Thread  <- {i},
    Cycle   <- {},
    writing <- IF writer[i] = None THEN {} ELSE {<<writer[i], i>>},
    beside  <- {},
    told    <- None

\* And what they do with the claim of an issue, workers and passes alike, is what
\* the claim's promise allows.
KeepsToClaim ==
    /\ \A i \in Issue : Claim(i)!Init
    /\ [][\A i \in Issue : [Claim(i)!Next]_(Claim(i)!vars)]_vars
=============================================================================
