----------------------- MODULE ShutdownSequenceProofs -----------------------
(***************************************************************************)
(* What a signal does to a polling run, for any set of signals and of      *)
(* jobs and for one repository or several: that nothing frees a handler    *)
(* which waits for the lock of its own thread, that nothing else blocks    *)
(* one for good, and that what is behind the handler and behind the drain  *)
(* is as the two leave it.                                                 *)
(*                                                                         *)
(* The absent value is no signal (`NoneIsNoSignal`).                       *)
(***************************************************************************)
EXTENDS ShutdownSequence, TLAPS

NoneIsNoSignal == None \notin Signum

MainPlace == {"starts", "polls", "ticks", "submits", "sweeps", "drains", "asks",
              "closes", "joins", "drained"}

TypeOK ==
    /\ main \in MainPlace
    /\ repo \in {"idle", "ticks", "submits"}
    /\ lock \in {None, "main", "repo"}
    /\ received \in Signum \cup {None}
    /\ handler \in {None, "closes", "asks", "arms", "re_arms"}
    /\ closed \in BOOLEAN
    /\ working \subseteq Worker
    /\ watchdog \in {None, "waits", "over"}
    /\ defaulted \subseteq Signum
    /\ process \in {"runs", "exited"}

-----------------------------------------------------------------------------
\* The executor's lock is that of the thread inside a submit or a close of it.
LockInv ==
    /\ lock = "main" <=> main \in {"submits", "closes"}
    /\ lock = "repo" <=> repo = "submits"

\* A repository is ticked on a thread of its own only where there are several, and
\* only while the main thread waits for the tick.
TickInv ==
    /\ repo # "idle" => main = "ticks" /\ ~OneRepository
    /\ main = "submits" => OneRepository

\* What the handler does at its end is not done before.
HandlerInv ==
    /\ received = None => handler = None /\ defaulted = {}
    /\ handler # None => defaulted = {}
    /\ received # None /\ handler = None => watchdog # None /\ received \in defaulted
    /\ handler = "re_arms" => watchdog # None
    /\ watchdog # None => handler \in {None, "re_arms"} /\ received # None
    /\ watchdog = "over" => main = "drained"

\* A closed scheduler is in no submit, but for one the handler came in on top of
\* and waits for.
ClosedInv ==
    /\ main \in {"asks", "closes", "joins", "drained"} => closed
    /\ closed => repo # "submits"
    /\ closed /\ main = "submits" => handler = "asks"
    /\ main = "drained" => working = {}

IInv == TypeOK /\ LockInv /\ TickInv /\ HandlerInv /\ ClosedInv

-----------------------------------------------------------------------------
LEMMA InitHolds == Init => IInv
BY DEF Init, IInv, TypeOK, LockInv, TickInv, HandlerInv, ClosedInv, MainPlace, None

LEMMA TypeStep == TypeOK /\ HandlerInv /\ [Next]_vars => TypeOK'
<1> SUFFICES ASSUME TypeOK, HandlerInv, [Next]_vars PROVE TypeOK'
  OBVIOUS
<1> USE DEF TypeOK, MainPlace, stop
<1>1. CASE Connect \/ NotConnected \/ StartTick \/ EndTick
  BY <1>1 DEF Connect, NotConnected, StartTick, EndTick, Main
<1>2. CASE EnterSubmit
  BY <1>2 DEF EnterSubmit, Main
<1>3. CASE LeaveSubmit
  BY <1>3 DEF LeaveSubmit, Main
<1>4. CASE EndPolling \/ Sweep \/ CloseScheduler \/ EnterClose
  BY <1>4 DEF EndPolling, Sweep, CloseScheduler, EnterClose, Main
<1>5. CASE LeaveClose \/ Join \/ Return
  BY <1>5 DEF LeaveClose, Join, Return, Main
<1>6. CASE HandlerCloses \/ HandlerAsks \/ HandlerArms
  BY <1>6 DEF HandlerCloses, HandlerAsks, HandlerArms, Handler
<1>7. CASE HandlerDefaults
  <2>1. received \in Signum
    BY <1>7 DEF HandlerDefaults, Handler, HandlerInv, None
  <2> QED
    BY <1>7, <2>1 DEF HandlerDefaults, Handler
<1>8. CASE Watchdog
  BY <1>8 DEF Watchdog
<1>9. ASSUME NEW w \in Worker, Finish(w) PROVE TypeOK'
  BY <1>9 DEF Finish
<1>10. ASSUME NEW s \in Signum, Deliver(s) PROVE TypeOK'
  BY <1>10 DEF Deliver
<1>11. CASE UNCHANGED vars
  BY <1>11 DEF vars
<1> QED
  BY <1>1, <1>2, <1>3, <1>4, <1>5, <1>6, <1>7, <1>8, <1>9, <1>10, <1>11 DEF Next, Handles

\* The parts about the threads and the lock are kept together: who is in a submit
\* is known by who has the lock.
LEMMA CourseStep ==
    TypeOK /\ LockInv /\ TickInv /\ ClosedInv /\ HandlerInv /\ [Next]_vars
        => LockInv' /\ TickInv' /\ ClosedInv'
<1> SUFFICES ASSUME TypeOK, LockInv, TickInv, ClosedInv, HandlerInv, [Next]_vars
             PROVE  LockInv' /\ TickInv' /\ ClosedInv'
  OBVIOUS
<1> USE DEF TypeOK, MainPlace, LockInv, TickInv, ClosedInv, stop, None
<1>1. CASE Connect \/ NotConnected \/ StartTick \/ EndTick
  BY <1>1 DEF Connect, NotConnected, StartTick, EndTick, Main
<1>2. CASE EnterSubmit
  BY <1>2 DEF EnterSubmit, Main
<1>3. CASE LeaveSubmit
  BY <1>3 DEF LeaveSubmit, Main
<1>4. CASE EndPolling \/ Sweep \/ CloseScheduler
  BY <1>4 DEF EndPolling, Sweep, CloseScheduler, Main
<1>5. CASE EnterClose \/ LeaveClose
  BY <1>5 DEF EnterClose, LeaveClose, Main
<1>6. CASE Join \/ Return
  BY <1>6 DEF Join, Return, Main
<1>7. CASE HandlerCloses
  BY <1>7 DEF HandlerCloses, Handler
<1>8. CASE HandlerAsks
  BY <1>8 DEF HandlerAsks, Handler
<1>9. CASE HandlerArms \/ HandlerDefaults
  BY <1>9 DEF HandlerArms, HandlerDefaults, Handler
<1>10. CASE Watchdog
  BY <1>10 DEF Watchdog
<1>11. ASSUME NEW w \in Worker, Finish(w) PROVE LockInv' /\ TickInv' /\ ClosedInv'
  BY <1>11 DEF Finish
<1>12. ASSUME NEW s \in Signum, Deliver(s) PROVE LockInv' /\ TickInv' /\ ClosedInv'
  BY <1>12 DEF Deliver, HandlerInv
<1>13. CASE UNCHANGED vars
  BY <1>13 DEF vars
<1> QED
  BY <1>1, <1>2, <1>3, <1>4, <1>5, <1>6, <1>7, <1>8, <1>9, <1>10, <1>11, <1>12, <1>13
     DEF Next, Handles

\* The handler runs once, from its close to the kernel default.
LEMMA HandlerStep == TypeOK /\ HandlerInv /\ NoneIsNoSignal /\ [Next]_vars => HandlerInv'
<1> SUFFICES ASSUME TypeOK, HandlerInv, NoneIsNoSignal, [Next]_vars PROVE HandlerInv'
  OBVIOUS
<1> USE DEF TypeOK, HandlerInv, NoneIsNoSignal, stop
<1>1. CASE UNCHANGED stop /\ (main = "drained" => main' = "drained")
  BY <1>1
<1>2. CASE Connect \/ NotConnected \/ StartTick \/ EndTick \/ EnterSubmit \/ LeaveSubmit
  BY <1>1, <1>2 DEF Connect, NotConnected, StartTick, EndTick, EnterSubmit, LeaveSubmit, Main
<1>3. CASE EndPolling \/ Sweep \/ CloseScheduler \/ EnterClose
  BY <1>1, <1>3 DEF EndPolling, Sweep, CloseScheduler, EnterClose, Main
<1>4. CASE LeaveClose \/ Join \/ Return
  BY <1>1, <1>4 DEF LeaveClose, Join, Return, Main
<1>5. CASE HandlerCloses \/ HandlerAsks
  BY <1>5 DEF HandlerCloses, HandlerAsks, Handler, None
<1>6. CASE HandlerArms
  BY <1>6 DEF HandlerArms, Handler, None
<1>7. CASE HandlerDefaults
  BY <1>7 DEF HandlerDefaults, Handler, None
<1>8. CASE Watchdog
  BY <1>8 DEF Watchdog, None
<1>9. ASSUME NEW w \in Worker, Finish(w) PROVE HandlerInv'
  BY <1>1, <1>9 DEF Finish
<1>10. ASSUME NEW s \in Signum, Deliver(s) PROVE HandlerInv'
  BY <1>10 DEF Deliver, None
<1>11. CASE UNCHANGED vars
  BY <1>1, <1>11 DEF vars
<1> QED
  BY <1>2, <1>3, <1>4, <1>5, <1>6, <1>7, <1>8, <1>9, <1>10, <1>11 DEF Next, Handles

\* A handler that waits for its own thread's lock is in nobody's way but its own:
\* the main thread is under it, the watchdog not armed, and every signal ignored.
LEMMA BlockedStep == IInv /\ SelfBlocked /\ [Next]_vars => SelfBlocked'
<1> SUFFICES ASSUME IInv, SelfBlocked, [Next]_vars PROVE SelfBlocked'
  OBVIOUS
<1>1. /\ process = "runs" /\ handler = "asks" /\ lock = "main" /\ repo # "submits"
      /\ received # None /\ defaulted = {}
  BY DEF SelfBlocked, IInv, LockInv, HandlerInv, None
<1> USE <1>1 DEF SelfBlocked, None, stop
<1>2. CASE Connect \/ NotConnected \/ StartTick \/ EndTick \/ EnterSubmit \/ LeaveSubmit
  BY <1>2 DEF Connect, NotConnected, StartTick, EndTick, EnterSubmit, LeaveSubmit, Main
<1>3. CASE EndPolling \/ Sweep \/ CloseScheduler \/ EnterClose
  BY <1>3 DEF EndPolling, Sweep, CloseScheduler, EnterClose, Main
<1>4. CASE LeaveClose \/ Join \/ Return
  BY <1>4 DEF LeaveClose, Join, Return, Main
<1>5. CASE Handles
  BY <1>5 DEF Handles, HandlerCloses, HandlerAsks, HandlerArms, HandlerDefaults, Handler
<1>6. CASE Watchdog
  BY <1>6 DEF Watchdog, IInv, HandlerInv
<1>7. ASSUME NEW w \in Worker, Finish(w) PROVE SelfBlocked'
  BY <1>7 DEF Finish
<1>8. ASSUME NEW s \in Signum, Deliver(s) PROVE SelfBlocked'
  BY <1>8 DEF Deliver
<1>9. CASE UNCHANGED vars
  BY <1>9 DEF vars
<1> QED
  BY <1>2, <1>3, <1>4, <1>5, <1>6, <1>7, <1>8, <1>9 DEF Next

\* Who is in a submit when a closed scheduler's workers would become more.
LEMMA ClosedStep == IInv /\ [Next]_vars => (closed => working' \subseteq working)
<1> SUFFICES ASSUME IInv, [Next]_vars, closed PROVE working' \subseteq working
  OBVIOUS
<1>1. CASE LeaveSubmit
  <2>1. process = "runs" /\ ((main = "submits" /\ handler = None) \/ repo = "submits")
    BY <1>1 DEF LeaveSubmit, Main
  <2> QED
    BY <2>1 DEF IInv, ClosedInv, None
<1>2. CASE \E w \in Worker : Finish(w)
  BY <1>2 DEF Finish
<1>3. CASE UNCHANGED working
  BY <1>3
<1> QED
  BY <1>1, <1>2, <1>3
     DEF Next, Handles, Connect, NotConnected, StartTick, EndTick, EnterSubmit, EndPolling,
         Sweep, CloseScheduler, EnterClose, LeaveClose, Join, Return, HandlerCloses,
         HandlerAsks, HandlerArms, HandlerDefaults, Handler, Watchdog, Deliver, vars

LEMMA Inductive == ASSUME NoneIsNoSignal PROVE Spec => []IInv
<1>1. IInv /\ [Next]_vars => IInv'
  BY TypeStep, CourseStep, HandlerStep DEF IInv
<1> QED
  BY InitHolds, <1>1, PTL DEF Spec

-----------------------------------------------------------------------------
\* A signal that lands while the main thread holds the executor's lock ends
\* nothing: the run neither exits nor comes to arm its watchdog, whatever workers,
\* ticks and further signals do (`request_shutdown` before `arm_shutdown_watchdog`).
THEOREM NothingFreesTheHandler == ASSUME NoneIsNoSignal PROVE Spec => StaysBlocked
<1>1. IInv /\ [Next]_vars => [SelfBlocked => SelfBlocked']_vars
  BY BlockedStep
<1> QED
  BY Inductive, <1>1, PTL DEF Spec, StaysBlocked

\* That lock is the only place: elsewhere the handler's next step is open, or waits
\* for a submit that another thread is in (`scheduler.shutdown(wait=False)`).
THEOREM NothingElseBlocksIt == ASSUME NoneIsNoSignal PROVE Spec => []BlockedOnlyByItself
<1>1. IInv => BlockedOnlyByItself
  <2> SUFFICES ASSUME IInv, process = "runs", handler \in {"closes", "asks"}
               PROVE  \/ handler = "closes" /\ repo # "submits"
                      \/ handler = "asks" /\ lock = None
                      \/ repo = "submits" /\ ~OneRepository
                      \/ SelfBlocked /\ main \in (IF OneRepository THEN {"submits", "closes"}
                                                  ELSE {"closes"})
    BY DEF BlockedOnlyByItself
  <2> QED
    BY DEF IInv, TypeOK, LockInv, TickInv, SelfBlocked
<1> QED
  BY Inductive, <1>1, PTL

\* Behind the handler the run is bounded twice over, by the watchdog and by the next
\* signal, and a watchdog gives up only on a run that has drained
\* (`run_shutdown_watchdog`).
THEOREM HandlerArmsBoth == ASSUME NoneIsNoSignal PROVE Spec => []ArmedBehindTheHandler
<1>1. IInv => ArmedBehindTheHandler
  BY DEF IInv, HandlerInv, ArmedBehindTheHandler
<1> QED
  BY Inductive, <1>1, PTL

\* No job starts behind the close, whichever of the two closed the scheduler and
\* whatever submit it found under way (`_closed`, `IssueScheduler.shutdown`).
THEOREM ClosedForNewWork == ASSUME NoneIsNoSignal PROVE Spec => ClosedTakesNothing
<1>1. IInv /\ [Next]_vars => [closed => working' \subseteq working]_vars
  BY ClosedStep
<1> QED
  BY Inductive, <1>1, PTL DEF Spec, ClosedTakesNothing

\* `shutdown_complete` is the truth: no worker, no submit and no lock is left
\* (`drain_scheduler`).
THEOREM DrainedMeansQuiet == ASSUME NoneIsNoSignal PROVE Spec => []DrainedIsQuiet
<1>1. IInv => DrainedIsQuiet
  BY DEF IInv, TypeOK, LockInv, TickInv, ClosedInv, DrainedIsQuiet, None
<1> QED
  BY Inductive, <1>1, PTL
=============================================================================
