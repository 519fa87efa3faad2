---------------------- MODULE ArtifactMaintenanceProofs ----------------------
(***************************************************************************)
(* What ArtifactMaintenance checks on three processes and one issue, for   *)
(* every number of them: no pass beside a coordinated poller's work, one   *)
(* pass at a time, no teardown under a worker, no work without a presence. *)
(***************************************************************************)
EXTENDS ArtifactMaintenance, TLAPS

\* Where the host is a process's own, its giving back included.
Sole == {"holds", "passes", "classifies", "tears_down", "over"}

\* Where a process is behind a barrier that answered quiet.
Quiet == Sole \cup {"quiet", "handed", "refused", "restores"}

\* Where a polling run may be that has the host still, its unlock having failed.
Kept == {"restored", "waits", "ticks", "drains", "quiet", "refused", "restores", "stops"}

\* Where a coordinated polling run that has lost nothing has its presence.
Present == {"waits", "ticks", "drains", "quiet", "restored", "stops"}

-----------------------------------------------------------------------------
\* The kernel's half: an exclusive holder is alone, and a process that is past
\* taking the host has it.
HostLockInv ==
    /\ sole # None => shared \subseteq {sole}
    /\ \A p \in Process : at[p] \in Sole => sole = p

\* The scheduler's half: what quiet was answered about stays so until the
\* barrier is lifted, and a process that has not begun or is over has no work.
SchedulerInv ==
    \A p \in Process :
        /\ at[p] \in Quiet => barred[p]
        /\ at[p] \in Quiet \cup {"starts", "gone"} => admitted[p] = {}

\* The presence's half.
PresenceInv ==
    \A p \in Process :
        /\ at[p] = "starts" => claim[p] = "unclaimed"
        /\ claim[p] = "shared" => p \in Poller
        /\ claim[p] = "shared" /\ p \notin lost /\ at[p] \in Present => p \in shared

\* The writer claim's half: whoever works under it has it.
WriterInv ==
    \A p \in Process :
        /\ \A i \in Issue : i \in handling[p] => i \in admitted[p] /\ writer[i] = p
        /\ candidate[p] # None => writer[candidate[p]] = p

\* `Quiesced` finds the barrier its own `EnterBarrier` took.
BarrierInv == \A p \in Process : at[p] = "drains" => barred[p]

IInv == TypeOK /\ HostLockInv /\ BarrierInv /\ SchedulerInv /\ PresenceInv /\ WriterInv

-----------------------------------------------------------------------------
\* Each part is kept by every step, one step of the proof per action that
\* moves what the part speaks of and one for all the others.

LEMMA TypeStep == TypeOK /\ [Next]_vars => TypeOK'
<1> SUFFICES ASSUME TypeOK, [Next]_vars PROVE TypeOK'
  OBVIOUS
<1> USE DEF TypeOK, Process, Place, Goes, scheduler, pass, hostLock, SoleWithout
<1>1. ASSUME NEW p \in Process,
             TakePresence(p) \/ GoUnclaimed(p) \/ TakeHost(p)
      PROVE  TypeOK'
  <2>1. CASE TakePresence(p)
    BY <2>1 DEF TakePresence
  <2>2. CASE GoUnclaimed(p)
    BY <2>2 DEF GoUnclaimed
  <2>3. CASE TakeHost(p)
    <3>1. CASE Goes(p, "starts", "gone") /\ UNCHANGED <<sole, claim, barred>>
      BY <2>3, <3>1 DEF TakeHost
    <3>2. CASE /\ Goes(p, "starts", "holds") /\ sole' = p
               /\ claim' = [claim EXCEPT ![p] = "exclusive"]
               /\ barred' = [barred EXCEPT ![p] = TRUE]
      BY <2>3, <3>2 DEF TakeHost
    <3> QED
      BY ONLY <2>3, <3>1, <3>2 DEF TakeHost
  <2> QED
    BY ONLY <1>1, <2>1, <2>2, <2>3
<1>2. ASSUME NEW p \in Process, Tick(p) \/ EndTick(p) \/ EnterBarrier(p)
      PROVE  TypeOK'
  <2>1. CASE Tick(p)
    BY <2>1 DEF Tick
  <2>2. CASE EndTick(p)
    BY <2>2 DEF EndTick
  <2>3. CASE EnterBarrier(p)
    BY <2>3 DEF EnterBarrier
  <2> QED
    BY ONLY <1>2, <2>1, <2>2, <2>3
<1>3. ASSUME NEW p \in Process,
             Quiesced(p) \/ HandOver(p) \/ HandOverBreaks(p) \/ TakeOver(p) \/ Gate(p)
      PROVE  TypeOK'
  <2>1. CASE Quiesced(p)
    BY <2>1 DEF Quiesced
  <2>2. CASE HandOver(p)
    BY <2>2 DEF HandOver
  <2>3. CASE HandOverBreaks(p)
    BY <2>3 DEF HandOverBreaks
  <2>4. CASE TakeOver(p)
    BY <2>4 DEF TakeOver
  <2>5. CASE Gate(p)
    BY <2>5 DEF Gate
  <2> QED
    BY ONLY <1>3, <2>1, <2>2, <2>3, <2>4, <2>5
<1>4. ASSUME NEW p \in Process, EndCandidate(p) \/ EndPass(p) \/ TearDown(p)
      PROVE  TypeOK'
  <2>1. CASE EndCandidate(p)
    BY <2>1 DEF EndCandidate
  <2>2. CASE EndPass(p)
    BY <2>2 DEF EndPass
  <2>3. CASE TearDown(p)
    BY <2>3 DEF TearDown
  <2> QED
    BY ONLY <1>4, <2>1, <2>2, <2>3
<1>5. ASSUME NEW p \in Process,
             \/ GiveHostBack(p) \/ LeaveBarrier(p)
             \/ TakePresenceBack(p) \/ LosePresence(p)
      PROVE  TypeOK'
  <2>1. CASE GiveHostBack(p)
    BY <2>1 DEF GiveHostBack
  <2>2. CASE LeaveBarrier(p)
    BY <2>2 DEF LeaveBarrier
  <2>3. CASE TakePresenceBack(p)
    BY <2>3 DEF TakePresenceBack
  <2>4. CASE LosePresence(p)
    BY <2>4 DEF LosePresence
  <2> QED
    BY ONLY <1>5, <2>1, <2>2, <2>3, <2>4
<1>6. ASSUME NEW p \in Process, Signal(p) \/ Stop(p) \/ Exit(p)
      PROVE  TypeOK'
  <2>1. CASE Signal(p)
    BY <2>1 DEF Signal
  <2>2. CASE Stop(p)
    BY <2>2 DEF Stop
  <2>3. CASE Exit(p)
    BY <2>3 DEF Exit
  <2> QED
    BY ONLY <1>6, <2>1, <2>2, <2>3
<1>7. ASSUME NEW p \in Process, Die(p) PROVE TypeOK'
  BY <1>7 DEF Die
<1>8. ASSUME NEW p \in Process, NEW i \in Issue,
             Admit(p, i) \/ Dispatch(p, i) \/ Finish(p, i) \/ Keep(p, i)
      PROVE  TypeOK'
  <2>1. CASE Admit(p, i)
    BY <2>1 DEF Admit
  <2>2. CASE Dispatch(p, i)
    BY <2>2 DEF Dispatch
  <2>3. CASE Finish(p, i)
    BY <2>3 DEF Finish
  <2>4. CASE Keep(p, i)
    BY <2>4 DEF Keep
  <2> QED
    BY <1>8, <2>1, <2>2, <2>3, <2>4
<1>9. ASSUME NEW p \in Process, NEW i \in Issue, Classify(p, i) PROVE TypeOK'
  BY <1>9, DisjointAssumption DEF Classify
<1>10. CASE UNCHANGED vars
  BY <1>10 DEF vars
<1> QED
  BY <1>1, <1>2, <1>3, <1>4, <1>5, <1>6, <1>7, <1>8, <1>9, <1>10 DEF Next, Pass

LEMMA HostLockStep == TypeOK /\ HostLockInv /\ [Next]_vars => HostLockInv'
<1> SUFFICES ASSUME TypeOK, HostLockInv, [Next]_vars PROVE HostLockInv'
  OBVIOUS
<1>0. /\ at \in [Process -> Place]
      /\ shared \subseteq Process /\ sole \in Process \cup {None} /\ None \notin Process
  BY DisjointAssumption DEF TypeOK, Process
<1> USE <1>0 DEF HostLockInv, Sole, Goes, SoleWithout
<1>1. ASSUME NEW p \in Process, TakePresence(p) \/ TakePresenceBack(p)
      PROVE  HostLockInv'
  BY <1>1 DEF TakePresence, TakePresenceBack, SharedFree
<1>2. ASSUME NEW p \in Process, TakeHost(p) PROVE HostLockInv'
  <2>1. CASE SoleFree(p) /\ Goes(p, "starts", "holds") /\ sole' = p
    BY <1>2, <2>1 DEF TakeHost, SoleFree
  <2>2. CASE Goes(p, "starts", "gone") /\ UNCHANGED sole
    BY <1>2, <2>2 DEF TakeHost
  <2> QED
    BY <1>2, <2>1, <2>2 DEF TakeHost
<1>3. ASSUME NEW p \in Process, TakeOver(p) PROVE HostLockInv'
  <2>1. CASE SoleFree(p)
    BY <1>3, <2>1 DEF TakeOver, SoleFree
  <2>2. CASE ~SoleFree(p)
    BY <1>3, <2>2 DEF TakeOver
  <2> QED
    BY <2>1, <2>2
<1>4. ASSUME NEW p \in Process, HandOver(p) \/ GiveHostBack(p) PROVE HostLockInv'
  BY <1>4 DEF HandOver, GiveHostBack
<1>5. ASSUME NEW p \in Process, Exit(p) \/ Die(p) PROVE HostLockInv'
  BY <1>5 DEF Exit, Die
<1>6. ASSUME NEW p \in Process,
             \/ GoUnclaimed(p) \/ Tick(p) \/ EndTick(p) \/ EnterBarrier(p)
             \/ Quiesced(p) \/ HandOverBreaks(p) \/ Gate(p) \/ EndCandidate(p)
             \/ EndPass(p) \/ LeaveBarrier(p) \/ TearDown(p) \/ LosePresence(p)
             \/ Signal(p) \/ Stop(p)
      PROVE  HostLockInv'
  BY <1>6 DEF hostLock, GoUnclaimed, Tick, EndTick, EnterBarrier, Quiesced,
              HandOverBreaks, Gate, EndCandidate, EndPass, LeaveBarrier, TearDown,
              LosePresence, Signal, Stop
<1>7. ASSUME NEW p \in Process, NEW i \in Issue,
             \/ Admit(p, i) \/ Dispatch(p, i) \/ Finish(p, i)
             \/ Classify(p, i) \/ Keep(p, i)
      PROVE  HostLockInv'
  BY <1>7 DEF hostLock, Admit, Dispatch, Finish, Classify, Keep
<1>8. CASE UNCHANGED vars
  BY <1>8 DEF vars
<1> QED
  BY <1>1, <1>2, <1>3, <1>4, <1>5, <1>6, <1>7, <1>8 DEF Next, Pass

LEMMA SchedulerStep ==
    TypeOK /\ BarrierInv /\ SchedulerInv /\ [Next]_vars => (BarrierInv /\ SchedulerInv)'
<1> SUFFICES ASSUME TypeOK, BarrierInv, SchedulerInv, [Next]_vars
             PROVE  (BarrierInv /\ SchedulerInv)'
  OBVIOUS
<1>0. /\ at \in [Process -> Place]
      /\ admitted \in [Process -> SUBSET Issue] /\ barred \in [Process -> BOOLEAN]
  BY DEF TypeOK
<1> USE <1>0 DEF BarrierInv, SchedulerInv, Quiet, Sole, Goes, scheduler
<1>1. ASSUME NEW p \in Process, TakeHost(p) PROVE (BarrierInv /\ SchedulerInv)'
  BY <1>1 DEF TakeHost, scheduler
<1>2. ASSUME NEW p \in Process, EnterBarrier(p) \/ LeaveBarrier(p)
      PROVE  (BarrierInv /\ SchedulerInv)'
  BY <1>2 DEF EnterBarrier, LeaveBarrier
<1>3. ASSUME NEW p \in Process, Quiesced(p) PROVE (BarrierInv /\ SchedulerInv)'
  <2>1. CASE admitted[p] = {} /\ ~closed[p]
    BY <1>3, <2>1 DEF Quiesced, scheduler
  <2>2. CASE ~(admitted[p] = {} /\ ~closed[p])
    BY <1>3, <2>2 DEF Quiesced, scheduler
  <2> QED
    BY <2>1, <2>2
<1>4. ASSUME NEW p \in Process, TakeOver(p) PROVE (BarrierInv /\ SchedulerInv)'
  <2>1. CASE SoleFree(p)
    BY <1>4, <2>1 DEF TakeOver, scheduler
  <2>2. CASE ~SoleFree(p)
    BY <1>4, <2>2 DEF TakeOver, scheduler
  <2> QED
    BY <2>1, <2>2
<1>5. ASSUME NEW p \in Process, Signal(p) \/ Stop(p) \/ Exit(p) \/ Die(p)
      PROVE  (BarrierInv /\ SchedulerInv)'
  BY <1>5 DEF Signal, Stop, Exit, Die, scheduler
<1>6. ASSUME NEW p \in Process,
             \/ TakePresence(p) \/ GoUnclaimed(p) \/ Tick(p) \/ EndTick(p)
             \/ HandOver(p) \/ HandOverBreaks(p) \/ Gate(p) \/ EndCandidate(p)
             \/ EndPass(p) \/ TearDown(p) \/ GiveHostBack(p) \/ TakePresenceBack(p)
             \/ LosePresence(p)
      PROVE  (BarrierInv /\ SchedulerInv)'
  BY <1>6 DEF scheduler, TakePresence, GoUnclaimed, Tick, EndTick, HandOver,
              HandOverBreaks, Gate, EndCandidate, EndPass, TearDown, GiveHostBack,
              TakePresenceBack, LosePresence
<1>7. ASSUME NEW p \in Process, NEW i \in Issue,
             \/ Admit(p, i) \/ Dispatch(p, i) \/ Finish(p, i)
             \/ Classify(p, i) \/ Keep(p, i)
      PROVE  (BarrierInv /\ SchedulerInv)'
  BY <1>7 DEF scheduler, Admit, Dispatch, Finish, Classify, Keep
<1>8. CASE UNCHANGED vars
  BY <1>8 DEF vars
<1> QED
  BY <1>1, <1>2, <1>3, <1>4, <1>5, <1>6, <1>7, <1>8 DEF Next, Pass

LEMMA PresenceStep == TypeOK /\ PresenceInv /\ [Next]_vars => PresenceInv'
<1> SUFFICES ASSUME TypeOK, PresenceInv, [Next]_vars PROVE PresenceInv'
  OBVIOUS
<1>0. /\ at \in [Process -> Place]
      /\ claim \in [Process -> {"unclaimed", "shared", "exclusive"}]
      /\ Poller \cap OneShot = {}
  BY DisjointAssumption DEF TypeOK
<1> USE <1>0 DEF PresenceInv, Present, Goes, hostLock
<1>1. ASSUME NEW p \in Process,
             TakePresence(p) \/ GoUnclaimed(p) \/ TakeHost(p)
      PROVE  PresenceInv'
  BY <1>1 DEF TakePresence, GoUnclaimed, TakeHost
<1>2. ASSUME NEW p \in Process,
             \/ Quiesced(p) \/ HandOver(p) \/ HandOverBreaks(p) \/ TakeOver(p)
             \/ Gate(p) \/ GiveHostBack(p)
      PROVE  PresenceInv'
  BY <1>2 DEF Quiesced, HandOver, HandOverBreaks, TakeOver, Gate, GiveHostBack
<1>3. ASSUME NEW p \in Process, TakePresenceBack(p) \/ LosePresence(p)
      PROVE  PresenceInv'
  BY <1>3 DEF TakePresenceBack, LosePresence
<1>4. ASSUME NEW p \in Process, Stop(p) \/ Exit(p) \/ Die(p) PROVE PresenceInv'
  BY <1>4 DEF Stop, Exit, Die
<1>5. ASSUME NEW p \in Process,
             \/ Tick(p) \/ EndTick(p) \/ EnterBarrier(p) \/ LeaveBarrier(p)
             \/ EndCandidate(p) \/ EndPass(p) \/ TearDown(p) \/ Signal(p)
      PROVE  PresenceInv'
  BY <1>5 DEF Tick, EndTick, EnterBarrier, LeaveBarrier, EndCandidate, EndPass,
              TearDown, Signal
<1>6. ASSUME NEW p \in Process, NEW i \in Issue,
             \/ Admit(p, i) \/ Dispatch(p, i) \/ Finish(p, i)
             \/ Classify(p, i) \/ Keep(p, i)
      PROVE  PresenceInv'
  BY <1>6 DEF Admit, Dispatch, Finish, Classify, Keep
<1>7. CASE UNCHANGED vars
  BY <1>7 DEF vars
<1> QED
  BY <1>1, <1>2, <1>3, <1>4, <1>5, <1>6, <1>7 DEF Next, Pass

LEMMA WriterStep == TypeOK /\ SchedulerInv /\ WriterInv /\ [Next]_vars => WriterInv'
<1> SUFFICES ASSUME TypeOK, SchedulerInv, WriterInv, [Next]_vars PROVE WriterInv'
  OBVIOUS
<1>0. /\ admitted \in [Process -> SUBSET Issue] /\ handling \in [Process -> SUBSET Issue]
      /\ writer \in [Issue -> Process \cup {None}]
      /\ candidate \in [Process -> Issue \cup {None}]
      /\ None \notin Process /\ None \notin Issue
  BY DisjointAssumption DEF TypeOK, Process
\* A process with a candidate has no work of its own admitted.
<1>c. ASSUME NEW p \in Process, candidate[p] # None
      PROVE  candidate[p] \in Issue /\ admitted[p] = {} /\ handling[p] = {}
  <2>1. at[p] \in {"classifies", "tears_down"}
    BY <1>c DEF TypeOK
  <2>2. admitted[p] = {}
    BY <2>1 DEF SchedulerInv, Quiet, Sole
  <2> QED
    BY <1>0, <1>c, <2>2 DEF WriterInv
<1>1. ASSUME NEW p \in Process, NEW i \in Issue, Admit(p, i) PROVE WriterInv'
  <2>1. /\ admitted' = [admitted EXCEPT ![p] = @ \cup {i}]
        /\ UNCHANGED <<handling, writer, candidate>>
    BY <1>1 DEF Admit, pass
  <2> QED
    BY <1>0, <2>1 DEF WriterInv
<1>2. ASSUME NEW p \in Process, NEW i \in Issue, Dispatch(p, i) PROVE WriterInv'
  <2>1. /\ i \in admitted[p] /\ writer[i] = None
        /\ writer' = [writer EXCEPT ![i] = p]
        /\ handling' = [handling EXCEPT ![p] = @ \cup {i}]
        /\ UNCHANGED <<admitted, candidate>>
    BY <1>2 DEF Dispatch, pass
  <2> QED
    BY <1>0, <2>1 DEF WriterInv
<1>3. ASSUME NEW p \in Process, NEW i \in Issue, Finish(p, i) PROVE WriterInv'
  <2>1. /\ admitted' = [admitted EXCEPT ![p] = @ \ {i}]
        /\ handling' = [handling EXCEPT ![p] = @ \ {i}]
        /\ writer' = [writer EXCEPT ![i] = IF i \in handling[p] THEN None ELSE @]
        /\ UNCHANGED candidate
    BY <1>3 DEF Finish, pass
  <2>2. CASE i \in handling[p]
    <3>1. \A q \in Process : candidate[q] # i
      BY <1>0, <1>c, <2>2 DEF WriterInv
    <3>2. writer[i] = p /\ writer' = [writer EXCEPT ![i] = None]
      BY <2>1, <2>2 DEF WriterInv
    <3>3. ASSUME NEW q \in Process, NEW j \in Issue, j \in handling'[q]
          PROVE  j \in admitted'[q] /\ writer'[j] = q
      <4>1. j \in handling[q] /\ j \in admitted[q] /\ writer[j] = q
        BY <1>0, <2>1, <3>3 DEF WriterInv
      <4>2. j # i
        BY <1>0, <2>1, <3>2, <3>3, <4>1
      <4> QED
        BY <1>0, <2>1, <3>2, <4>1, <4>2
    <3> QED
      BY <1>0, <2>1, <3>1, <3>2, <3>3 DEF WriterInv
  <2>3. CASE i \notin handling[p]
    BY <1>0, <2>1, <2>3 DEF WriterInv
  <2> QED
    BY <2>2, <2>3
<1>4. ASSUME NEW p \in Process, NEW i \in Issue, Classify(p, i) PROVE WriterInv'
  <2>1. /\ writer[i] = None
        /\ writer' = [writer EXCEPT ![i] = p]
        /\ candidate' = [candidate EXCEPT ![p] = i]
        /\ UNCHANGED <<admitted, handling>>
    BY <1>4 DEF Classify, scheduler
  <2> QED
    BY <1>0, <2>1 DEF WriterInv
<1>5. ASSUME NEW p \in Process, EndCandidate(p) PROVE WriterInv'
  <2>1. /\ at[p] \in {"classifies", "tears_down"}
        /\ writer' = [writer EXCEPT ![candidate[p]] = None]
        /\ candidate' = [candidate EXCEPT ![p] = None]
        /\ UNCHANGED <<admitted, handling>>
    BY <1>5 DEF EndCandidate, scheduler, Goes
  <2>2. candidate[p] # None
    BY <2>1 DEF TypeOK
  <2>3. candidate[p] \in Issue /\ writer[candidate[p]] = p /\ handling[p] = {}
    BY <1>c, <2>2 DEF WriterInv
  <2>4. ASSUME NEW q \in Process, NEW j \in Issue, j \in handling[q]
        PROVE  j # candidate[p]
    BY <2>3, <2>4 DEF WriterInv
  <2>5. ASSUME NEW q \in Process, q # p, candidate[q] # None
        PROVE  candidate[q] # candidate[p] /\ candidate[q] \in Issue
    BY <1>c, <2>3, <2>5 DEF WriterInv
  <2>6. ASSUME NEW q \in Process, NEW j \in Issue, j \in handling'[q]
        PROVE  j \in admitted'[q] /\ writer'[j] = q
    BY <1>0, <2>1, <2>4, <2>6 DEF WriterInv
  <2>7. ASSUME NEW q \in Process, candidate'[q] # None
        PROVE  writer'[candidate'[q]] = q
    <3>1. q # p /\ candidate'[q] = candidate[q]
      BY <1>0, <2>1, <2>7
    <3> QED
      BY <1>0, <2>1, <2>5, <2>7, <3>1 DEF WriterInv
  <2> QED
    BY <2>6, <2>7 DEF WriterInv
<1>6. ASSUME NEW p \in Process, Die(p) PROVE WriterInv'
  <2>1. /\ admitted' = [admitted EXCEPT ![p] = {}]
        /\ handling' = [handling EXCEPT ![p] = {}]
        /\ writer' = [i \in Issue |-> IF writer[i] = p THEN None ELSE writer[i]]
        /\ candidate' = [candidate EXCEPT ![p] = None]
    BY <1>6 DEF Die
  <2>2. ASSUME NEW q \in Process, NEW j \in Issue, j \in handling'[q]
        PROVE  j \in admitted'[q] /\ writer'[j] = q
    BY <1>0, <2>1, <2>2 DEF WriterInv
  <2>3. ASSUME NEW q \in Process, candidate'[q] # None
        PROVE  writer'[candidate'[q]] = q
    BY <1>0, <1>c, <2>1, <2>3 DEF WriterInv
  <2> QED
    BY <2>2, <2>3 DEF WriterInv
<1>7. ASSUME NEW p \in Process,
             \/ TakePresence(p) \/ GoUnclaimed(p) \/ TakeHost(p) \/ Tick(p)
             \/ EndTick(p) \/ EnterBarrier(p) \/ Quiesced(p) \/ HandOver(p)
             \/ HandOverBreaks(p) \/ TakeOver(p) \/ Gate(p) \/ EndPass(p)
             \/ GiveHostBack(p) \/ LeaveBarrier(p) \/ TearDown(p)
             \/ TakePresenceBack(p) \/ LosePresence(p) \/ Signal(p) \/ Stop(p)
             \/ Exit(p) \/ \E i \in Issue : Keep(p, i)
      PROVE  UNCHANGED <<admitted, handling, writer, candidate>>
  BY <1>7 DEF scheduler, pass, TakePresence, GoUnclaimed, TakeHost, Tick, EndTick,
              EnterBarrier, Quiesced, HandOver, HandOverBreaks, TakeOver, Gate,
              EndPass, GiveHostBack, LeaveBarrier, TearDown, TakePresenceBack,
              LosePresence, Signal, Stop, Exit, Keep
<1>8. ASSUME UNCHANGED <<admitted, handling, writer, candidate>> PROVE WriterInv'
  BY <1>8 DEF WriterInv
<1>9. CASE UNCHANGED vars
  BY <1>8, <1>9 DEF vars
<1> QED
  BY <1>1, <1>2, <1>3, <1>4, <1>5, <1>6, <1>7, <1>8, <1>9 DEF Next, Pass

-----------------------------------------------------------------------------
LEMMA InitIInv == Init => IInv
  BY DisjointAssumption
     DEF Init, IInv, TypeOK, HostLockInv, BarrierInv, SchedulerInv, PresenceInv,
         WriterInv, Quiet, Sole, Present, Place

LEMMA StepIInv == IInv /\ [Next]_vars => IInv'
  BY TypeStep, HostLockStep, SchedulerStep, PresenceStep, WriterStep DEF IInv

LEMMA Invariance == Spec => []IInv
  BY InitIInv, StepIInv, PTL DEF Spec

\* Every state is well typed, and a pass has a candidate exactly while it
\* classifies it or tears it down (`maintenance._one_candidate`).
THEOREM TypeCorrect == Spec => []TypeOK
<1>1. IInv => TypeOK
  BY DEF IInv
<1> QED
  BY <1>1, Invariance, PTL

\* On any number of processes two passes never act on the host at once
\* (`SharedHost.exclusive`, `artifact_exclusivity`).
THEOREM OnePass == Spec => []OnePassAtATime
<1>1. IInv => OnePassAtATime
  BY DEF IInv, HostLockInv, Sole, OnePassAtATime, Acting
<1> QED
  BY <1>1, Invariance, PTL

\* A coordinated polling run works only behind its presence: its barrier is
\* lifted, or its work still runs, only while it has the host shared.
THEOREM PresenceHeld == Spec => []PresenceBehindWork
<1>1. IInv => PresenceBehindWork
  BY DEF IInv, TypeOK, Place, PresenceInv, SchedulerInv, Present, Quiet, Sole,
         PresenceBehindWork, Process
<1> QED
  BY <1>1, Invariance, PTL

\* No pass acts beside the admitted work of a coordinated polling run: the
\* host lock keeps it off the others, the quiet barrier off its own.
THEOREM PassAlone == Spec => []NoPassBesideWork
<1>1. IInv => NoPassBesideWork
  <2> SUFFICES ASSUME IInv, NEW p \in Process, NEW q \in Process, Acting(p),
                      claim[q] = "shared", q \notin lost, admitted[q] # {}
               PROVE  FALSE
    BY DEF NoPassBesideWork
  <2>1. p # q
    BY DEF IInv, SchedulerInv, Acting, Quiet, Sole
  <2>2. q \in shared
    BY DEF IInv, TypeOK, Place, PresenceInv, SchedulerInv, Present, Quiet, Sole
  <2>3. sole = p /\ sole # None
    BY DisjointAssumption DEF IInv, HostLockInv, Acting, Sole, Process
  <2> QED
    BY <2>1, <2>2, <2>3 DEF IInv, HostLockInv
<1> QED
  BY <1>1, Invariance, PTL

\* The second line: whatever became of the host claims, an issue is torn down
\* only while no worker anywhere is inside its handler, because both have its
\* writer claim (`maintenance_guards.py`, `dispatch.py`).
THEOREM TeardownClaimed == Spec => []TeardownHoldsTheIssue
<1>1. IInv => TeardownHoldsTheIssue
  <2> SUFFICES ASSUME IInv, NEW p \in Process, NEW q \in Process,
                      at[p] = "tears_down", candidate[p] \in handling[q]
               PROVE  FALSE
    BY DEF TeardownHoldsTheIssue
  <2>1. candidate[p] # None /\ candidate[p] \in Issue
    BY DEF IInv, TypeOK
  <2>2. writer[candidate[p]] = p /\ writer[candidate[p]] = q
    BY <2>1 DEF IInv, WriterInv
  <2>3. candidate[p] \in admitted[p]
    BY <2>1, <2>2 DEF IInv, WriterInv
  <2>4. admitted[p] = {}
    BY DEF IInv, SchedulerInv, Quiet, Sole
  <2> QED
    BY <2>3, <2>4
<1> QED
  BY <1>1, Invariance, PTL

-----------------------------------------------------------------------------
(***************************************************************************)
(* Nothing is left behind: barriers, locks and the promises of the two     *)
(* components this module composes.                                        *)
(***************************************************************************)

\* A barrier that stands, a lock that is held and a scheduler that is not built
\* yet are where the main thread is.
LeftInv ==
    \A p \in Process :
        /\ barred[p] => at[p] \in Quiet \cup {"drains", "restored", "gone"}
        /\ at[p] = "restored" => barred[p]
        /\ at[p] = "starts" => ~closed[p]
        /\ p \in shared => p \in Poller /\ at[p] \in Present \cup {"refused", "restores"}
        /\ sole = p => \/ at[p] \in Sole
                       \/ p \in OneShot /\ at[p] = "stops"
                       \/ p \in Poller /\ p \in lost /\ at[p] \in Kept
        /\ p \in OneShot => at[p] \in Sole \cup {"starts", "stops", "gone"}

FullInv == IInv /\ LeftInv

LEMMA LeftStep == IInv /\ LeftInv /\ [Next]_vars => LeftInv'
<1> SUFFICES ASSUME IInv, LeftInv, [Next]_vars PROVE LeftInv'
  OBVIOUS
<1>0. /\ at \in [Process -> Place] /\ barred \in [Process -> BOOLEAN]
      /\ closed \in [Process -> BOOLEAN]
      /\ Process = Poller \cup OneShot /\ Poller \cap OneShot = {} /\ None \notin Process
      /\ \A p \in Process : at[p] \in Quiet \cup {"drains"} => barred[p]
  BY DisjointAssumption DEF IInv, TypeOK, Process, BarrierInv, SchedulerInv
\* What a process that takes a step does to itself is all that is done.
<1>1. ASSUME NEW p \in Process,
             \A q \in Process \ {p} :
                /\ at'[q] = at[q] /\ barred'[q] = barred[q] /\ closed'[q] = closed[q]
                /\ q \in shared' => q \in shared
                /\ sole' = q => sole = q
                /\ q \in lost => q \in lost',
             /\ barred'[p] => at'[p] \in Quiet \cup {"drains", "restored", "gone"}
             /\ at'[p] = "restored" => barred'[p]
             /\ at'[p] = "starts" => ~closed'[p]
             /\ p \in shared' => p \in Poller /\ at'[p] \in Present \cup {"refused", "restores"}
             /\ sole' = p => \/ at'[p] \in Sole
                             \/ p \in OneShot /\ at'[p] = "stops"
                             \/ p \in Poller /\ p \in lost' /\ at'[p] \in Kept
             /\ p \in OneShot => at'[p] \in Sole \cup {"starts", "stops", "gone"}
      PROVE  LeftInv'
  BY <1>1 DEF LeftInv
<1> USE <1>0 DEF Goes, Quiet, Sole, Present, Kept, scheduler, hostLock, SoleWithout
<1> HIDE DEF Quiet, Sole, Present, Kept
<1>2. ASSUME NEW p \in Process, TakePresence(p) PROVE LeftInv'
  BY <1>2, <1>1 DEF TakePresence, LeftInv, Quiet, Sole, Present, Kept
<1>3. ASSUME NEW p \in Process, GoUnclaimed(p) PROVE LeftInv'
  BY <1>3, <1>1 DEF GoUnclaimed, LeftInv, Quiet, Sole, Present, Kept
<1>4. ASSUME NEW p \in Process, TakeHost(p) PROVE LeftInv'
  <2>1. CASE at' = [at EXCEPT ![p] = "holds"] /\ sole' = p
    <3>1. /\ at[p] = "starts" /\ SoleFree(p) /\ barred' = [barred EXCEPT ![p] = TRUE]
          /\ closed' = closed /\ shared' = shared /\ lost' = lost
      BY <1>4, <2>1 DEF TakeHost
    <3>2. /\ at'[p] = "holds" /\ barred'[p] /\ p \notin shared
          /\ \A q \in Process \ {p} : at'[q] = at[q] /\ barred'[q] = barred[q]
      BY <2>1, <3>1 DEF LeftInv, Present
    <3>3. \A q \in Process \ {p} : sole' # q
      BY <2>1
    <3> QED
      BY <2>1, <3>1, <3>2, <3>3, <1>1 DEF Quiet, Sole
  <2>2. CASE UNCHANGED <<sole, barred>>
    BY <1>4, <2>2, <1>1 DEF TakeHost, LeftInv, Quiet, Sole, Present, Kept
  <2> QED
    BY <1>4, <2>1, <2>2 DEF TakeHost
<1>5. ASSUME NEW p \in Process, Tick(p) \/ EndTick(p) PROVE LeftInv'
  BY <1>5, <1>1 DEF Tick, EndTick, LeftInv, Quiet, Sole, Present, Kept
<1>6. ASSUME NEW p \in Process, EnterBarrier(p) PROVE LeftInv'
  BY <1>6, <1>1 DEF EnterBarrier, LeftInv, Quiet, Sole, Present, Kept
<1>7. ASSUME NEW p \in Process, Quiesced(p) PROVE LeftInv'
  BY <1>7, <1>1 DEF Quiesced, LeftInv, Quiet, Sole, Present, Kept
<1>8. ASSUME NEW p \in Process, HandOver(p) \/ HandOverBreaks(p) PROVE LeftInv'
  BY <1>8, <1>1 DEF HandOver, HandOverBreaks, LeftInv, Quiet, Sole, Present, Kept
<1>9. ASSUME NEW p \in Process, TakeOver(p) PROVE LeftInv'
  <2>1. at[p] = "handed" /\ UNCHANGED <<barred, closed, shared, lost>>
    BY <1>9 DEF TakeOver
  <2>2. p \in Poller
    BY <2>1 DEF LeftInv, Sole
  <2>3. CASE at' = [at EXCEPT ![p] = "holds"] /\ sole' = p
    <3>1. /\ at'[p] = "holds" /\ p \notin shared /\ barred'[p]
          /\ \A q \in Process \ {p} : at'[q] = at[q]
      BY <2>1, <2>3 DEF LeftInv, Present, Quiet
    <3>2. \A q \in Process \ {p} : sole' # q
      BY <2>3
    <3> QED
      BY <2>1, <2>2, <2>3, <3>1, <3>2, <1>1 DEF Quiet, Sole
  <2>4. CASE at' = [at EXCEPT ![p] = "refused"] /\ sole' = sole
    BY <2>1, <2>2, <2>4, <1>1 DEF LeftInv, Quiet, Sole, Present, Kept
  <2> QED
    BY <1>9, <2>3, <2>4 DEF TakeOver
<1>10. ASSUME NEW p \in Process, Gate(p) \/ EndPass(p) \/ TearDown(p) PROVE LeftInv'
  BY <1>10, <1>1 DEF Gate, EndPass, TearDown, LeftInv, Quiet, Sole, Present, Kept
<1>11. ASSUME NEW p \in Process, EndCandidate(p) PROVE LeftInv'
  BY <1>11, <1>1 DEF EndCandidate, LeftInv, Quiet, Sole, Present, Kept
<1>12. ASSUME NEW p \in Process, GiveHostBack(p) PROVE LeftInv'
  BY <1>12, <1>1 DEF GiveHostBack, LeftInv, Quiet, Sole, Present, Kept
<1>13. ASSUME NEW p \in Process, TakePresenceBack(p) \/ LosePresence(p) PROVE LeftInv'
  <2>1. p \in Poller
    <3>1. at[p] = "restores" \/ p \in Poller
      BY <1>13 DEF TakePresenceBack, LosePresence
    <3> QED
      BY <3>1 DEF LeftInv, Sole
  <2> QED
    BY <1>13, <2>1, <1>1 DEF TakePresenceBack, LosePresence, LeftInv, Quiet, Sole, Present, Kept
<1>14. ASSUME NEW p \in Process, LeaveBarrier(p) PROVE LeftInv'
  BY <1>14, <1>1 DEF LeaveBarrier, LeftInv, Quiet, Sole, Present, Kept
<1>15. ASSUME NEW p \in Process, Signal(p) PROVE LeftInv'
  BY <1>15, <1>1 DEF Signal, LeftInv
<1>16. ASSUME NEW p \in Process, Stop(p) PROVE LeftInv'
  BY <1>16, <1>1 DEF Stop, LeftInv, Quiet, Sole, Present, Kept
<1>17. ASSUME NEW p \in Process, Exit(p) \/ Die(p) PROVE LeftInv'
  BY <1>17, <1>1 DEF Exit, Die, LeftInv, Quiet, Sole, Present, Kept
<1>18. ASSUME NEW p \in Process, NEW i \in Issue, Classify(p, i) PROVE LeftInv'
  BY <1>18, <1>1 DEF Classify, LeftInv, Quiet, Sole, Present, Kept
<1>19. CASE UNCHANGED <<at, barred, closed, shared, sole, lost>>
  BY <1>19 DEF LeftInv
<1>20. ASSUME NEW p \in Process, NEW i \in Issue,
              Admit(p, i) \/ Dispatch(p, i) \/ Finish(p, i) \/ Keep(p, i)
       PROVE  LeftInv'
  BY <1>19, <1>20 DEF Admit, Dispatch, Finish, Keep
<1> QED
  BY <1>2, <1>3, <1>4, <1>5, <1>6, <1>7, <1>8, <1>9, <1>10, <1>11, <1>12, <1>13, <1>14,
     <1>15, <1>16, <1>17, <1>18, <1>19, <1>20 DEF Next, Pass, vars

LEMMA InitFullInv == Init => FullInv
<1>1. Init => LeftInv
  BY DisjointAssumption DEF Init, LeftInv, Process
<1> QED
  BY <1>1, InitIInv DEF FullInv

LEMMA FullInvariance == Spec => []FullInv
<1>1. FullInv /\ [Next]_vars => FullInv'
  BY StepIInv, LeftStep DEF FullInv
<1> QED
  BY <1>1, InitFullInv, PTL DEF Spec

\* A barrier that stands is one its own main thread is inside or on its way
\* out of: no way through a pass leaves admission closed behind a loop that
\* polls on (`maintenance_barrier`, `_restored`).
THEOREM BarrierAlwaysOfAPass == Spec => []BarrierIsOfAPass
<1>1. FullInv => BarrierIsOfAPass
  BY DEF FullInv, LeftInv, Quiet, Sole, BarrierIsOfAPass, InQuiet
<1> QED
  BY <1>1, FullInvariance, PTL

\* Nobody is refused the host for a process that is gone, that waits for its own
\* turn, or that polls on with its presence back: after a pass the host is out of
\* reach only for a run whose unlock failed, and only until it has its presence
\* again (`SharedHost._restored`, `_handed_over`).
THEOREM HostAlwaysHeldByTheLiving == Spec => []HostIsHeldByTheLiving
<1>1. FullInv => HostIsHeldByTheLiving
  <2> SUFFICES ASSUME FullInv PROVE HostIsHeldByTheLiving
    OBVIOUS
  <2>1. shared \subseteq Process /\ sole \in Process \cup {None}
    BY DEF FullInv, IInv, TypeOK
  <2>2. sole # None => \/ Acting(sole) \/ at[sole] = "over"
                       \/ sole \in OneShot /\ at[sole] = "stops"
                       \/ sole \in Poller /\ sole \in lost /\ at[sole] \in Kept
    BY <2>1 DEF FullInv, LeftInv, Sole, Acting
  <2>3. ASSUME NEW p \in shared
        PROVE  p \in Poller /\ at[p] \in {"waits", "ticks", "drains", "quiet", "refused",
                                         "restores", "restored", "stops"}
    BY <2>1 DEF FullInv, LeftInv, Present
  <2> QED
    BY <2>2, <2>3 DEF HostIsHeldByTheLiving, Kept
<1> QED
  BY <1>1, FullInvariance, PTL

-----------------------------------------------------------------------------
\* A process moves nothing of another one's thread and scheduler.
LEMMA OwnStep ==
    ASSUME TypeOK, NEW q \in Process,
           \/ TakePresence(q) \/ GoUnclaimed(q) \/ TakeHost(q)
           \/ Tick(q) \/ EndTick(q) \/ EnterBarrier(q)
           \/ Pass(q) \/ TearDown(q) \/ TakePresenceBack(q) \/ LosePresence(q)
           \/ Signal(q) \/ Stop(q) \/ Exit(q) \/ Die(q)
           \/ \E i \in Issue : \/ Admit(q, i) \/ Dispatch(q, i) \/ Finish(q, i)
                               \/ Classify(q, i) \/ Keep(q, i),
           NEW p \in Process, p # q
    PROVE  /\ at'[p] = at[p] /\ admitted'[p] = admitted[p]
           /\ barred'[p] = barred[p] /\ closed'[p] = closed[p]
<1>0. /\ at \in [Process -> Place] /\ admitted \in [Process -> SUBSET Issue]
      /\ barred \in [Process -> BOOLEAN] /\ closed \in [Process -> BOOLEAN]
  BY DEF TypeOK
<1> USE <1>0 DEF Goes, scheduler
<1>1. CASE TakePresence(q) \/ GoUnclaimed(q) \/ TakeHost(q)
  BY <1>1 DEF TakePresence, GoUnclaimed, TakeHost
<1>2. CASE Tick(q) \/ EndTick(q) \/ EnterBarrier(q) \/ TearDown(q)
  BY <1>2 DEF Tick, EndTick, EnterBarrier, TearDown
<1>3. CASE Quiesced(q) \/ HandOver(q) \/ HandOverBreaks(q) \/ TakeOver(q) \/ Gate(q)
  BY <1>3 DEF Quiesced, HandOver, HandOverBreaks, TakeOver, Gate
<1>4. CASE EndCandidate(q) \/ EndPass(q) \/ GiveHostBack(q) \/ LeaveBarrier(q)
  BY <1>4 DEF EndCandidate, EndPass, GiveHostBack, LeaveBarrier
<1>5. CASE TakePresenceBack(q) \/ LosePresence(q) \/ Exit(q)
  BY <1>5 DEF TakePresenceBack, LosePresence, Exit
<1>6. CASE Signal(q) \/ Stop(q) \/ Die(q)
  BY <1>6 DEF Signal, Stop, Die
<1>7. ASSUME NEW i \in Issue, \/ Admit(q, i) \/ Dispatch(q, i) \/ Finish(q, i)
                              \/ Classify(q, i) \/ Keep(q, i)
      PROVE  /\ at'[p] = at[p] /\ admitted'[p] = admitted[p]
             /\ barred'[p] = barred[p] /\ closed'[p] = closed[p]
  BY <1>7 DEF Admit, Dispatch, Finish, Classify, Keep
<1> QED
  BY <1>1, <1>2, <1>3, <1>4, <1>5, <1>6, <1>7 DEF Pass

\* The steps of a polling run that its scheduler takes no part in.
LEMMA SchedulerIdle ==
    ASSUME TypeOK, NEW p \in Poller,
           \/ TakePresence(p) \/ GoUnclaimed(p) \/ TakeHost(p) \/ Tick(p) \/ EndTick(p)
           \/ HandOver(p) \/ HandOverBreaks(p) \/ TakeOver(p) \/ Gate(p) \/ EndPass(p)
           \/ TearDown(p) \/ EndCandidate(p) \/ GiveHostBack(p) \/ Exit(p)
           \/ \E i \in Issue : Dispatch(p, i) \/ Classify(p, i) \/ Keep(p, i)
    PROVE  /\ UNCHANGED <<admitted, barred, closed>>
           /\ InQuiet(p)' <=> InQuiet(p)
<1>0. at \in [Process -> Place] /\ p \in Process /\ p \notin OneShot
  BY DisjointAssumption DEF TypeOK, Process
<1> USE <1>0 DEF Goes, scheduler, InQuiet
<1>1. CASE TakePresence(p) \/ GoUnclaimed(p) \/ TakeHost(p) \/ Tick(p) \/ EndTick(p)
  BY <1>1 DEF TakePresence, GoUnclaimed, TakeHost, Tick, EndTick
<1>2. CASE HandOver(p) \/ HandOverBreaks(p) \/ TakeOver(p) \/ Gate(p) \/ EndPass(p)
  BY <1>2 DEF HandOver, HandOverBreaks, TakeOver, Gate, EndPass
<1>3. CASE TearDown(p) \/ EndCandidate(p) \/ GiveHostBack(p) \/ Exit(p)
  BY <1>3 DEF TearDown, EndCandidate, GiveHostBack, Exit
<1>4. ASSUME NEW i \in Issue, Dispatch(p, i) \/ Classify(p, i) \/ Keep(p, i)
      PROVE  UNCHANGED <<admitted, barred, closed>> /\ (InQuiet(p)' <=> InQuiet(p))
  BY <1>4 DEF Dispatch, Classify, Keep
<1> QED
  BY <1>1, <1>2, <1>3, <1>4

\* Each step of the host is, for the scheduler of a polling run, one that its
\* promise allows, or none.
LEMMA AdmissionStep ==
    ASSUME FullInv, [Next]_vars, NEW p \in Poller
    PROVE  [Admission(p)!Next]_(Admission(p)!vars)
<1>0. /\ at \in [Process -> Place] /\ admitted \in [Process -> SUBSET Issue]
      /\ barred \in [Process -> BOOLEAN] /\ closed \in [Process -> BOOLEAN]
      /\ p \in Process /\ p \notin OneShot /\ TypeOK
  BY DisjointAssumption DEF FullInv, IInv, TypeOK, Process
<1>1. ASSUME admitted'[p] = admitted[p], barred'[p] = barred[p], closed'[p] = closed[p],
             InQuiet(p)' <=> InQuiet(p)
      PROVE  UNCHANGED Admission(p)!vars
  BY <1>1 DEF Admission!vars, InQuiet
<1>2. ASSUME NEW i \in Issue, Admit(p, i) PROVE Admission(p)!Admit(i)
  BY <1>0, <1>2 DEF Admit, Admission!Admit, InQuiet
<1>3. ASSUME NEW i \in Issue, Finish(p, i) PROVE Admission(p)!Release(i)
  BY <1>0, <1>3 DEF Finish, Admission!Release, InQuiet
<1>4. CASE EnterBarrier(p)
  <2>1. at[p] = "waits" /\ at'[p] = "drains" /\ ~closed[p] /\ closed' = closed
        /\ barred'[p] = TRUE /\ admitted' = admitted
    BY <1>0, <1>4 DEF EnterBarrier, Goes
  <2>2. ~barred[p]
    BY <1>0, <2>1 DEF FullInv, LeftInv, Quiet, Sole
  <2> QED
    BY <2>1, <2>2 DEF Admission!Bar, Admission!Next, InQuiet
<1>5. CASE Quiesced(p)
  <2>1. at[p] = "drains" /\ UNCHANGED <<admitted, barred, closed>> /\ barred[p]
    BY <1>0, <1>5 DEF Quiesced, Goes, scheduler, FullInv, IInv, BarrierInv
  <2>2. CASE admitted[p] = {} /\ ~closed[p]
    <3>1. at'[p] = "quiet"
      BY <1>0, <1>5, <2>2 DEF Quiesced, Goes
    <3> QED
      BY <2>1, <2>2, <3>1 DEF Admission!AnswerQuiet, Admission!Next, InQuiet
  <2>3. CASE ~(admitted[p] = {} /\ ~closed[p])
    <3>1. at'[p] = "restored"
      BY <1>0, <1>5, <2>3 DEF Quiesced, Goes
    <3> QED
      BY <1>1, <2>1, <3>1 DEF InQuiet
  <2> QED
    BY <2>2, <2>3
<1>6. CASE TakePresenceBack(p) \/ LosePresence(p)
  <2>1. /\ at[p] \in {"restores", "over"} /\ at'[p] = "restored"
        /\ UNCHANGED <<admitted, barred, closed>>
    BY <1>0, <1>6 DEF TakePresenceBack, LosePresence, Goes, scheduler
  <2> QED
    BY <2>1 DEF Admission!EndBody, Admission!Next, InQuiet
<1>7. CASE LeaveBarrier(p)
  <2>1. at[p] = "restored" /\ at'[p] = "waits" /\ UNCHANGED <<admitted, closed>>
        /\ barred'[p] = FALSE
    BY <1>0, <1>7 DEF LeaveBarrier, Goes
  <2>2. barred[p]
    BY <1>0, <2>1 DEF FullInv, LeftInv
  <2> QED
    BY <2>1, <2>2 DEF Admission!Lift, Admission!Next, InQuiet
<1>8. CASE Signal(p)
  <2>1. UNCHANGED <<at, admitted, barred>> /\ closed'[p] = (at[p] # "starts")
    BY <1>0, <1>8 DEF Signal
  <2>2. closed'[p] = closed[p] \/ (~closed[p] /\ closed'[p] = TRUE)
    BY <1>0, <2>1 DEF FullInv, LeftInv
  <2> QED
    BY <1>1, <2>1, <2>2 DEF Admission!Close, Admission!Next, InQuiet
<1>9. CASE Stop(p)
  <2>1. at[p] = "waits" /\ at'[p] = "stops" /\ UNCHANGED <<admitted, barred>>
        /\ closed'[p] = TRUE
    BY <1>0, <1>9 DEF Stop, Goes
  <2>2. closed'[p] = closed[p] \/ ~closed[p]
    BY <1>0, <2>1
  <2> QED
    BY <1>1, <2>1, <2>2 DEF Admission!Close, Admission!Next, InQuiet
<1>10. CASE Die(p)
  <2>1. at'[p] = "gone" /\ admitted'[p] = {} /\ UNCHANGED <<barred, closed>>
    BY <1>0, <1>10 DEF Die
  <2> QED
    BY <2>1 DEF Admission!Die, Admission!Next, InQuiet
<1>11. CASE \/ TakePresence(p) \/ GoUnclaimed(p) \/ TakeHost(p) \/ Tick(p) \/ EndTick(p)
            \/ HandOver(p) \/ HandOverBreaks(p) \/ TakeOver(p) \/ Gate(p) \/ EndPass(p)
            \/ TearDown(p) \/ EndCandidate(p) \/ GiveHostBack(p) \/ Exit(p)
            \/ \E i \in Issue : Dispatch(p, i) \/ Classify(p, i) \/ Keep(p, i)
  BY <1>0, <1>1, <1>11, SchedulerIdle
<1>12. ASSUME NEW q \in Process, q # p,
              \/ TakePresence(q) \/ GoUnclaimed(q) \/ TakeHost(q)
              \/ Tick(q) \/ EndTick(q) \/ EnterBarrier(q)
              \/ Pass(q) \/ TearDown(q) \/ TakePresenceBack(q) \/ LosePresence(q)
              \/ Signal(q) \/ Stop(q) \/ Exit(q) \/ Die(q)
              \/ \E i \in Issue : \/ Admit(q, i) \/ Dispatch(q, i) \/ Finish(q, i)
                                  \/ Classify(q, i) \/ Keep(q, i)
       PROVE  UNCHANGED Admission(p)!vars
  BY <1>0, <1>1, <1>12, OwnStep DEF InQuiet
<1>13. CASE UNCHANGED vars
  BY <1>1, <1>13 DEF vars, InQuiet
<1>14. CASE \E i \in Issue : Admit(p, i) \/ Finish(p, i)
  BY <1>2, <1>3, <1>14 DEF Admission!Next
<1> QED
  BY <1>4, <1>5, <1>6, <1>7, <1>8, <1>9, <1>10, <1>11, <1>12, <1>13, <1>14 DEF Next, Pass

\* A polling run does with its scheduler, across every pass, signal, shutdown
\* and death, only what the scheduler promises: what the pass relies on is what
\* IssueScheduler gives.
THEOREM AdmissionKept == Spec => KeepsToAdmission
<1>1. Init => \A p \in Poller : Admission(p)!Init
  BY DEF Init, Admission!Init, InQuiet, Process
<1>2. FullInv /\ [Next]_vars
        => \A p \in Poller : [Admission(p)!Next]_(Admission(p)!vars)
  BY AdmissionStep
<1> QED
  BY <1>1, <1>2, FullInvariance, PTL DEF Spec, KeepsToAdmission

-----------------------------------------------------------------------------
\* The steps no issue's writer claim is moved by.
LEMMA ClaimIdle ==
    ASSUME NEW p \in Process,
           \/ TakePresence(p) \/ GoUnclaimed(p) \/ TakeHost(p) \/ Tick(p) \/ EndTick(p)
           \/ EnterBarrier(p) \/ Quiesced(p) \/ HandOver(p) \/ HandOverBreaks(p)
           \/ TakeOver(p) \/ Gate(p) \/ EndPass(p) \/ GiveHostBack(p) \/ LeaveBarrier(p)
           \/ TearDown(p) \/ TakePresenceBack(p) \/ LosePresence(p) \/ Signal(p)
           \/ Stop(p) \/ Exit(p) \/ \E j \in Issue : Admit(p, j) \/ Keep(p, j)
    PROVE  writer' = writer
<1>1. CASE \/ TakePresence(p) \/ GoUnclaimed(p) \/ TakeHost(p) \/ Tick(p) \/ EndTick(p)
           \/ EnterBarrier(p) \/ Quiesced(p) \/ HandOver(p) \/ HandOverBreaks(p)
  BY <1>1 DEF TakePresence, GoUnclaimed, TakeHost, Tick, EndTick, EnterBarrier, Quiesced,
              HandOver, HandOverBreaks
<1>2. CASE ~(\/ TakePresence(p) \/ GoUnclaimed(p) \/ TakeHost(p) \/ Tick(p) \/ EndTick(p)
             \/ EnterBarrier(p) \/ Quiesced(p) \/ HandOver(p) \/ HandOverBreaks(p))
  BY <1>2 DEF TakeOver, Gate, EndPass, GiveHostBack, LeaveBarrier, TearDown,
              TakePresenceBack, LosePresence, Signal, Stop, Exit, Admit, Keep
<1> QED
  BY <1>1, <1>2

\* Whoever takes an issue's claim finds it free, and whoever gives it back had it.
LEMMA ClaimStep ==
    ASSUME FullInv, [Next]_vars, NEW i \in Issue
    PROVE  [Claim(i)!Next]_(Claim(i)!vars)
<1>0. /\ TypeOK /\ WriterInv /\ None \notin Process
      /\ writer \in [Issue -> Process \cup {None}]
  BY DisjointAssumption DEF FullInv, IInv, TypeOK, Process
<1>1. ASSUME writer'[i] = writer[i] PROVE UNCHANGED Claim(i)!vars
  BY <1>1 DEF Claim!vars
<1>2. ASSUME NEW p \in Process, writer[i] = None, writer'[i] = p
      PROVE  Claim(i)!Next
  <2>1. Claim(i)!Enter(p, i)
    BY <1>0, <1>2 DEF Claim!Enter, Claim!Inside
  <2> QED
    BY <2>1 DEF Claim!Next
<1>3. ASSUME NEW p \in Process, writer[i] = p, writer'[i] = None
      PROVE  Claim(i)!Next
  <2>1. Claim(i)!Leave(<<p, i>>)
    BY <1>0, <1>3 DEF Claim!Leave, Claim!Inside
  <2> QED
    BY <2>1 DEF Claim!Next
<1>4. ASSUME NEW p \in Process, NEW j \in Issue, Dispatch(p, j) \/ Classify(p, j)
      PROVE  [Claim(i)!Next]_(Claim(i)!vars)
  <2>1. writer[j] = None /\ writer' = [writer EXCEPT ![j] = p]
    BY <1>4 DEF Dispatch, Classify
  <2> QED
    BY <1>0, <1>1, <1>2, <2>1
<1>5. ASSUME NEW p \in Process, NEW j \in Issue, Finish(p, j)
      PROVE  [Claim(i)!Next]_(Claim(i)!vars)
  <2>1. writer' = [writer EXCEPT ![j] = IF j \in handling[p] THEN None ELSE @]
    BY <1>5 DEF Finish
  <2>2. j \in handling[p] => writer[j] = p
    BY <1>0 DEF WriterInv
  <2>3. writer'[i] = writer[i] \/ (writer[i] = p /\ writer'[i] = None)
    BY <1>0, <2>1, <2>2
  <2> QED
    BY <1>1, <1>3, <2>3
<1>6. ASSUME NEW p \in Process, EndCandidate(p)
      PROVE  [Claim(i)!Next]_(Claim(i)!vars)
  <2>1. /\ at[p] \in {"classifies", "tears_down"}
        /\ writer' = [writer EXCEPT ![candidate[p]] = None]
    BY <1>6 DEF EndCandidate, Goes
  <2>2. writer[candidate[p]] = p
    BY <1>0, <2>1 DEF WriterInv, TypeOK
  <2>3. writer'[i] = writer[i] \/ (writer[i] = p /\ writer'[i] = None)
    BY <1>0, <2>1, <2>2
  <2> QED
    BY <1>1, <1>3, <2>3
<1>7. ASSUME NEW p \in Process, Die(p)
      PROVE  [Claim(i)!Next]_(Claim(i)!vars)
  <2>1. writer'[i] = IF writer[i] = p THEN None ELSE writer[i]
    BY <1>7 DEF Die
  <2> QED
    BY <1>1, <1>3, <2>1
<1>8. CASE UNCHANGED vars
  BY <1>1, <1>8 DEF vars
<1>9. CASE \E p \in Process :
             \/ TakePresence(p) \/ GoUnclaimed(p) \/ TakeHost(p) \/ Tick(p) \/ EndTick(p)
             \/ EnterBarrier(p) \/ Quiesced(p) \/ HandOver(p) \/ HandOverBreaks(p)
             \/ TakeOver(p) \/ Gate(p) \/ EndPass(p) \/ GiveHostBack(p) \/ LeaveBarrier(p)
             \/ TearDown(p) \/ TakePresenceBack(p) \/ LosePresence(p) \/ Signal(p)
             \/ Stop(p) \/ Exit(p) \/ \E j \in Issue : Admit(p, j) \/ Keep(p, j)
  BY <1>1, <1>9, ClaimIdle
<1> QED
  BY <1>4, <1>5, <1>6, <1>7, <1>8, <1>9 DEF Next, Pass

\* Workers and passes of a whole host take, hold and give back each issue's
\* writer claim only the ways the claim itself promises, so what WriterClaims
\* shows of it is what keeps a teardown off a worker.
THEOREM ClaimKept == Spec => KeepsToClaim
<1>1. Init => \A i \in Issue : Claim(i)!Init
  BY DEF Init, Claim!Init
<1>2. FullInv /\ [Next]_vars
        => \A i \in Issue : [Claim(i)!Next]_(Claim(i)!vars)
  BY ClaimStep
<1> QED
  BY <1>1, <1>2, FullInvariance, PTL DEF Spec, KeepsToClaim
=============================================================================
