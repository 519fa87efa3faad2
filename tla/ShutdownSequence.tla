-------------------------- MODULE ShutdownSequence --------------------------
(***************************************************************************)
(* How a signal stops a polling run.                                       *)
(*                                                                         *)
(* Python runs a signal handler on the main thread, between two of its     *)
(* instructions, so `request_shutdown` is a frame on top of whatever the   *)
(* main thread was in the middle of.  It closes the scheduler, which takes *)
(* a lock of each executor that `submit` takes too and that its own holder *)
(* cannot take again, and only then arms the watchdog that ends a run      *)
(* whose drain overruns and gives the next signal back to the kernel.      *)
(*                                                                         *)
(* One executor stands for the two of a scheduler.  A worker may be blocked *)
(* for ever, and so may the tick; what agents become is not modelled.      *)
(***************************************************************************)
CONSTANTS
    Signum,         \* the signals a run is stopped by, SIGINT and SIGTERM
    Worker,         \* the jobs in flight at once
    OneRepository   \* is the only repository's tick run by the main thread?

None == "none"

VARIABLES
    main,       \* where the main thread is, below the handler
    repo,       \* where the thread that ticks a repository of several is
    lock,       \* the thread that holds the executor's `_shutdown_lock`
    received,   \* `received_signal`; `running` is its being none
    handler,    \* where the handler of that signal is
    closed,     \* the scheduler's `_closed`
    working,    \* the workers whose job has not ended
    watchdog,   \* the shutdown-watchdog thread
    defaulted,  \* the signals whose kernel default is back
    process     \* "runs" or "exited"

stop == <<received, handler, watchdog, defaulted>>
vars == <<main, repo, lock, closed, working, process, stop>>

Init ==
    /\ main = "starts" /\ repo = "idle" /\ lock = None
    /\ received = None /\ handler = None
    /\ closed = FALSE /\ working = {}
    /\ watchdog = None /\ defaulted = {} /\ process = "runs"

-----------------------------------------------------------------------------
\* A step of the main thread's own code: not while the handler is on top of it.
Main(from, to) ==
    /\ process = "runs" /\ handler = None
    /\ main = from /\ main' = to

\* The clients are connected and the scheduler is on the state.
Connect ==
    /\ Main("starts", "polls")
    /\ UNCHANGED <<repo, lock, closed, working, process, stop>>

\* Or there is nothing to poll with, and the run is over before a scheduler is.
NotConnected ==
    /\ Main("starts", "starts")
    /\ process' = "exited"
    /\ UNCHANGED <<repo, lock, closed, working, stop>>

\* `run_tick`: one repository is ticked here, several on threads of their own.
StartTick ==
    /\ received = None /\ Main("polls", "ticks")
    /\ repo' = IF OneRepository THEN "idle" ELSE "ticks"
    /\ UNCHANGED <<lock, closed, working, process, stop>>

EndTick ==
    /\ repo \in {"idle", "ticks"} /\ Main("ticks", "polls")
    /\ repo' = "idle"
    /\ UNCHANGED <<lock, closed, working, process, stop>>

\* `executor.submit`, under the scheduler's lock and the executor's: from taking
\* the second to having started a thread for the job.
EnterSubmit ==
    /\ ~closed /\ lock = None /\ working # Worker
    /\ \/ /\ OneRepository /\ Main("ticks", "submits")
          /\ lock' = "main" /\ UNCHANGED repo
       \/ /\ process = "runs" /\ repo = "ticks"
          /\ repo' = "submits" /\ lock' = "repo" /\ UNCHANGED main
    /\ UNCHANGED <<closed, working, process, stop>>

LeaveSubmit ==
    /\ \/ Main("submits", "ticks") /\ UNCHANGED repo
       \/ process = "runs" /\ repo = "submits" /\ repo' = "ticks" /\ UNCHANGED main
    /\ lock' = None
    /\ \E w \in Worker \ working : working' = working \cup {w}
    /\ UNCHANGED <<closed, process, stop>>

Finish(w) ==
    /\ process = "runs" /\ w \in working
    /\ working' = working \ {w}
    /\ UNCHANGED <<main, repo, lock, closed, process, stop>>

-----------------------------------------------------------------------------
\* `drain_scheduler`, behind a signal, a single pass, a restart or an error.
EndPolling ==
    /\ Main("polls", IF received = None THEN "drains" ELSE "sweeps")
    /\ UNCHANGED <<repo, lock, closed, working, process, stop>>

\* `terminate_all_running` of the drain.
Sweep ==
    /\ Main("sweeps", "drains")
    /\ UNCHANGED <<repo, lock, closed, working, process, stop>>

\* `scheduler.shutdown(wait=True)`: the flag, the executor's own flag under its
\* lock, and its threads joined.
CloseScheduler ==
    /\ Main("drains", "asks")
    /\ closed' = TRUE
    /\ UNCHANGED <<repo, lock, working, process, stop>>

EnterClose ==
    /\ lock = None /\ Main("asks", "closes")
    /\ lock' = "main"
    /\ UNCHANGED <<repo, closed, working, process, stop>>

LeaveClose ==
    /\ Main("closes", "joins")
    /\ lock' = None
    /\ UNCHANGED <<repo, closed, working, process, stop>>

\* The workers are joined: `shutdown_complete` is set, no scheduler is active.
Join ==
    /\ working = {} /\ Main("joins", "drained")
    /\ UNCHANGED <<repo, lock, closed, working, process, stop>>

Return ==
    /\ Main("drained", "drained")
    /\ process' = "exited"
    /\ UNCHANGED <<repo, lock, closed, working, stop>>

-----------------------------------------------------------------------------
\* A signal is delivered: to the kernel's default, which ends the process, or
\* to `request_shutdown`, which returns at once from every signal but the first.
Deliver(s) ==
    /\ process = "runs"
    /\ \/ /\ s \in defaulted
          /\ process' = "exited" /\ UNCHANGED <<received, handler>>
       \/ /\ s \notin defaulted /\ received = None
          /\ received' = s
          /\ handler' = IF main \in {"starts", "drained"} THEN "arms" ELSE "closes"
          /\ UNCHANGED process
    /\ UNCHANGED <<main, repo, lock, closed, working, watchdog, defaulted>>

Handler(from, to) ==
    /\ process = "runs" /\ handler = from /\ handler' = to
    /\ UNCHANGED <<main, repo, lock, working, process, received>>

\* `scheduler.shutdown(wait=False)` takes the scheduler's lock, which is the
\* main thread's already or a submit's on another thread, and sets its flag;
HandlerCloses ==
    /\ repo # "submits" /\ Handler("closes", "asks")
    /\ closed' = TRUE
    /\ UNCHANGED <<watchdog, defaulted>>

\* and then takes and gives back the executor's, whoever holds it.
HandlerAsks ==
    /\ lock = None /\ Handler("asks", "arms")
    /\ UNCHANGED <<closed, watchdog, defaulted>>

HandlerArms ==
    /\ Handler("arms", "re_arms")
    /\ watchdog' = "waits"
    /\ UNCHANGED <<closed, defaulted>>

HandlerDefaults ==
    /\ Handler("re_arms", None)
    /\ defaulted' = defaulted \cup {received}
    /\ UNCHANGED <<closed, watchdog>>

\* `run_shutdown_watchdog`: the drain is over, or its time is, and the groups
\* are swept and the process left.
Watchdog ==
    /\ process = "runs" /\ watchdog = "waits"
    /\ IF main = "drained" THEN watchdog' = "over" /\ UNCHANGED process
       ELSE process' = "exited" /\ UNCHANGED watchdog
    /\ UNCHANGED <<main, repo, lock, closed, working, received, handler, defaulted>>

-----------------------------------------------------------------------------
Handles == HandlerCloses \/ HandlerAsks \/ HandlerArms \/ HandlerDefaults

Next ==
    \/ Connect \/ NotConnected \/ StartTick \/ EndTick \/ EnterSubmit \/ LeaveSubmit
    \/ EndPolling \/ Sweep \/ CloseScheduler \/ EnterClose \/ LeaveClose
    \/ Join \/ Return \/ Handles \/ Watchdog
    \/ \E w \in Worker : Finish(w)
    \/ \E s \in Signum : Deliver(s)

Spec == Init /\ [][Next]_vars

\* Neither a tick nor a worker need ever end.  What holds a lock gives it back,
\* a drained run returns and the watchdog's wait has a bound.  A tick has only so
\* many jobs to submit, so the handler is not kept from a lock by ever new ones.
Fairness ==
    /\ WF_vars(LeaveSubmit) /\ WF_vars(LeaveClose) /\ WF_vars(Return)
    /\ SF_vars(Handles) /\ WF_vars(Watchdog)

FairSpec == Spec /\ Fairness

-----------------------------------------------------------------------------
\* "Every stop is also armed with a daemon watchdog [...] which keeps
\* signal-to-exit inside SHUTDOWN_GRACE_SECONDS no matter what a worker is
\* blocked on" (runtime/shutdown.py): a run that received a signal exits.
SignalEndsTheRun == received # None ~> process = "exited"

\* The handler waits for the lock that the thread it runs on is holding.
SelfBlocked == process = "runs" /\ handler = "asks" /\ lock = "main"

\* From there no step of any thread, and no signal, leads out: the run neither
\* exits nor arms what would end it.
StaysBlocked == [][SelfBlocked => SelfBlocked']_vars

\* Nothing else holds a handler up for good.  What it waits for otherwise is the
\* submit of another thread; and with several repositories, whose main thread
\* submits nothing, it blocks itself only in the drain's own close.
BlockedOnlyByItself ==
    process = "runs" /\ handler \in {"closes", "asks"} =>
        \/ handler = "closes" /\ repo # "submits"
        \/ handler = "asks" /\ lock = None
        \/ repo = "submits" /\ ~OneRepository
        \/ SelfBlocked /\ main \in (IF OneRepository THEN {"submits", "closes"} ELSE {"closes"})

\* A handler that has returned has armed the watchdog, and the next signal of its
\* kind is the kernel's; and a watchdog that lets the run be has seen it drained.
ArmedBehindTheHandler ==
    /\ received # None /\ handler = None => watchdog # None /\ received \in defaulted
    /\ watchdog = "over" => main = "drained"

\* A closed scheduler's workers only become fewer, so the drain joins a set that
\* nobody adds to, whatever was being submitted when a signal closed it.
ClosedTakesNothing == [][closed => working' \subseteq working]_vars

\* A run that says it is drained has no worker left, no thread in a submit and no
\* lock: what it leaves by returning is nobody's.
DrainedIsQuiet == main = "drained" => closed /\ working = {} /\ repo = "idle" /\ lock = None
=============================================================================
