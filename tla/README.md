# chipping-orchestrator in TLA+

The orchestrator polls GitHub repositories and drives each issue through a
workflow of coding agents.  Its durable state is the issue itself (a pinned
comment, a thread, a label); everything else is threads and processes on one
host that have to keep out of each other's way.  This directory models the parts
where that is hard: who may write an issue, what one process admits, when a
maintenance pass may delete checkouts, what a process may conclude from a close it
has read, how a parent's children are released, and how a lifetime budget of agent
runs is charged and extended while any tick may be cut off.

Paths below are relative to `src/`; most code is under `orchestrator/`.

## 1. Inventory

| Component (code) | State it keeps | Operations | Met by |
| --- | --- | --- | --- |
| **Writer claims** `scheduler/writer_claims.py`, `claim_notes.py` | one file per issue with an flock, its records (holder, note, release stamp); per process the holdings, who is writing, the last end of another's hold | `issue_writer` (join, sign, leave), `noted`, `undisturbed_since`, `noted_retirement`, `moment` | workers, close handling, maintenance candidates, other pollers |
| **Issue scheduler** `scheduler/service.py`, `models.py`, `engine/scheduled_dispatch.py` | counted slots, tracked claims, per-repo counts, family slots, closed, barred; two executors | `submit`, `track_active`, `maintenance_barrier`, `shutdown`, the completion callback | polling loop, worker threads, the maintenance pass, the signal handler |
| **Host claim and artifact maintenance** `runtime/exclusion.py`, `host_lock.py`, `artifacts.py`, `loop.py`, `cli.py`, `git/worktrees/maintenance*.py` | a host-wide flock, shared or exclusive; the run's claim; the pass's candidates | `polling_presence`, `artifact_exclusivity`, `SharedHost.exclusive`, `run_maintenance_pass`, one claim per candidate | several processes of one host; the scheduler's barrier; the writer claims |
| **Maintenance schedule** `runtime/artifact_schedule.py` | last pass, night attempted | `DueGate.admitted`, `attempted` | the pass |
| **Shutdown and watchdog** `runtime/shutdown.py`, `loop.py`, `cli.py` | `received_signal`, `running`, the watchdog thread, the kernel's disposition of each signal | `request_shutdown`, `drain_scheduler`, `run_shutdown_watchdog`, `force_exit` | loop, scheduler and its executors, every process on the host |
| **Lifetime agent-run ledger** `engine/run_*.py`, `park_watermarks.py`, `stages/implementing/resume*.py` | on the pinned comment: spent, allowance, phase, park, owed notice, watermark, own comments; on the thread: notices, receipts, commands, replies | reserve, start, refuse, announce, replay, command, receipt, grant | every stage handler; humans; restarts |
| **Usage accounting** `engine/usage_*.py`, `pinned_commit.py`, `github/pinned_state.py` | usage counters, checkpoints, the pinned comment's text | guarded edit in place, whole-state write | every handler |
| **Close observations** `engine/observation*.py`, `publication_holds.py`, `retiring_cycles.py`, `contended_closes.py`, `dispatch_closure.py`, `cleanup_observation.py`, `stages/decomposition/late_close_observation.py` | latches of one process, moments, scopes, memos, holds, postponed drops | observe, scope, settle, hold, release, post a receipt, keep a contended close, fence a restart | poll, workers, writer claims, the cycle on the record |
| **Poll and dispatch** `engine/dispatch*.py`, `issue_processing.py`, `poll_reading.py`, `tick.py`, `parallel.py` | the partition of a poll | list, partition, submit, take the claim, refresh, route by label | scheduler, claims, stages |
| **Decomposition: parents and children** `stages/decomposition/blocked.py`, `parents.py`, `activation.py`, `child_claims.py` | children and dependency graph on the parent's comment, labels of parent and children | scan, park, release walk, hand the parent back | writer claims of every child, the poll's latch, humans |
| **Workflow labels** `workflow/state.py`, `transitions.py`, `github/label_moves.py`, `label_reading.py` | the label | whole-set write; guarded relabel: add, then take off one by one | every stage, humans |
| **Retry budget** `engine/retry_*.py` | windowed count, park, notice | reserve, park, notice | stages |
| **Reports, verification, rewrites** `engine/report_*.py`, `verification_*.py`, `rewrite_*.py`, `completion_*.py` | settlement records | publish, settle, recover | review, docs stage |
| **Late split** `workflow/late_split/`, `stages/decomposition/late_*.py` | phase of a cycle | its transaction and restart | close observations, claims |
| **Stage handlers** `workflow/stages/` | fields of the pinned comment | one handler per label | everything above |
| **Git publication and base sync** `git/publication/`, `git/base_sync/` | branches, refs, plans on the comment | squash, rewrite, resume | stages |
| **Agent processes** `agents/` | process groups, pipes | start, time out, kill | run circuit, watchdog |
| **Observability**, **installation, configuration** | logs, settings | | nothing the workflow reads back |

How they interact.  A tick of the polling loop submits issues to the scheduler;
a worker takes the issue's writer claim for the time of its handler; a handler that
wants an agent goes through the run circuit, which charges the run on the pinned
comment and carries the charge onto the handler's own copy.  Between two ticks the
maintenance pass closes the scheduler's admission, waits for quiet, trades its
shared presence on the host for the exclusive one, and takes each candidate's
writer claim before it deletes anything.  Beside the worker of an issue the polling
thread reads the same issue closed or open and latches what it saw; the worker's
handler asks those latches before a write that a close would forbid, and they are
dropped when the close has ended what it ends.  A walk over a parent's children takes
the claim of each child before it relabels it.  A signal closes the scheduler from the
main thread wherever that is; the watchdog may end the process at any point.

What is hard: two mutexes and two flocks that must hold together (claim file, host
lock, scheduler lock, executor); one thread per issue but several paths on which
it is admitted; a durable comment and a durable thread that are never written
together, with a process that may die between any two requests; and a kernel that
drops every lock of a dead process at once.  `PROJECT.json` lists these places
one by one under `hazards`, each at its line, with the properties aimed at it.

What makes each modelled component correct:

* claims: one process writes an issue; its lock is not left behind; and what the
  file lets somebody else conclude is true although writes are cut short;
* scheduler: no issue has two workers, the caps hold, slots neither leak nor come
  back early, a barrier that answered quiet stays quiet, and it is lifted again;
* maintenance: no pass acts beside a coordinated run's work or beside another
  pass, and no issue is torn down under a worker, coordinated or not;
* shutdown: a run that received a signal exits, whatever it is doing;
* close observations: no cycle is ended but by a close of its own, a receipt says the
  same, and a reading that somebody holds is not dropped under it;
* release of children: a child is handed to an implementer once, no issue is ever
  without a workflow label, a hold a human puts on survives every release, and a
  parent goes back to work without its split's attempt;
* ledger: nothing is started unpaid, nothing is given back, nothing is said twice,
  nothing a human said is passed unread, and a park is always explained and can be
  bought off.

## 2. Modules

| Module | Models | Checked by | Proved in |
| --- | --- | --- | --- |
| `IssueClaim` | the abstract claim of an issue: who is inside, what a contender is told | through `WriterClaims` | `WriterClaimsFileProofs`, `ArtifactMaintenanceProofs`, `ChildReleaseProofs`, `CloseObservationsProofs` |
| `WriterClaims` | one claim path, several process incarnations with threads; implements `IssueClaim` | `MCWriterClaims` | `WriterClaimsProofs`, `WriterClaimsFileProofs` |
| `IssueScheduler` | the scheduler of one process, its executors and barrier | `MCIssueScheduler` | `IssueSchedulerProofs` |
| `SchedulerAdmission` | what a scheduler promises a maintenance pass: admitted work, the barrier, its quiet | by proof alone | `IssueSchedulerProofs`, `ArtifactMaintenanceProofs` |
| `SchedulerThreadLimit` | extends `IssueScheduler` by the one refusal an executor may still give | `MCSchedulerThreadLimit` | - |
| `ShutdownSequence` | the signal handler on top of the main thread of one run, the executor's lock, the drain and the watchdog | `MCShutdownSequence` | `ShutdownSequenceProofs` |
| `ArtifactMaintenance` | composes host lock, passes, schedulers and writer claims over several processes | `MCArtifactMaintenance` | `ArtifactMaintenanceProofs` |
| `CloseObservations` | the registries of one poller about one issue, its polling thread and its worker, the pollers and humans beside them | `MCCloseObservations` | `CloseObservationsProofs` |
| `ChildRelease` | a parent on `blocked`, its children, workers and humans, relabels request by request | `MCChildRelease` | `ChildReleaseProofs` |
| `AgentRuns` | the ledger of one issue, its thread, its humans and the ticks that work on it | `MCAgentRuns` | `AgentRunsProofs` |

The `MC` modules add nothing but the symmetry set and a function-valued constant.
Definitions introduced by "Mutation:" are plausible bugs of the operator they stand
next to; no specification uses them.  They show that the property named with them in
`PROJECT.json` notices.

### WriterClaims

`lock` is the flock, `file` what the file says.  A whole record is a field of
`file`; the remains of a cut write are its `tail`: the key a reader would find on an
unfinished last line, with any value a prefix of the digits can spell.  `Merged` is
the record that runs into such remains.  A join from nothing takes three steps that
other processes can interleave with (`JoinFresh` opens and locks, `EmptyFile` reads
and truncates, `Sign` writes the holder), as do leaving (`Leave`, `Stamp`, `Unlock`).
A process's own mutex is held over the whole of each, so `step` belongs to the
process, not to the thread.  `Crash` and `Reboot` drop flocks where they stand, and
a restart sets the monotonic clock to zero.  `reading` and `last` are history: what
a poll read with the truth beside it, and how the last hold really went.

Opening and locking are one action.  The code opens with `a+`, which creates and
never truncates, and nothing happens to the file before the flock is held, so a
process between the two has no effect to interleave with.

`IssueClaim` is what the callers of the claim rely on and has no file in it: the
holders (`writing`, `beside`) are of one process with one writer among them; what a
contender is `told` comes from a writer's note, and stays until somebody has the claim
to himself or the last holder lets go.  The mapping takes `writing` and `beside` from
the modes of the threads that are inside, and `told` from what a reader of the file
makes of it, cut records included.  A failed note may leave nothing to be told; the
last one out may take the note with it; a death takes the holders and leaves the note.

### IssueScheduler

Each method body is one hold of the scheduler's lock and is one action:
`Submit` (`submit`, `_skip_reason_locked`, `_reserve_slot_locked`),
`TrackActive`/`Untrack`, `OnWorkerDone`, `EnterBarrier`/`Quiesced`/`LeaveBarrier`,
`Shutdown`.  `Begin` and `Return` are the executor's.  A job is an accepted
submission: it is queued, runs, returns, and gives its slot back in a callback of
its own.  The model has no entry of `_per_repo_active` deleted at zero; zero and
absent read alike.

`SchedulerAdmission` keeps of all this what a pass relies on: what is `admitted`
(counted and tracked together), whether a barrier stands, whether the body of one is
inside the quiet it was answered, and whether the scheduler is closed.  A closed
scheduler may still admit while something is admitted: a family bucket goes on
claiming its issues, which only a barrier refuses.  `SchedulerThreadLimit` adds what `ThreadPoolExecutor.submit`
does when no thread can be started: it has queued the work before it raises.

### ShutdownSequence

`main` is the main thread below its signal handler and `handler` the frame on top of
it: no step of the main thread's own code is possible while the handler runs
(`Main`), which is how Python delivers signals.  `lock` is the executor's
`_shutdown_lock`, a plain lock that `submit` holds until the worker's thread has
started and `shutdown` while it sets its flag.  `OneRepository` says who submits: with
one repository the main thread (`tick_one_repo`), with several a thread of each
(`fan_out_repo_ticks`).  `Deliver` takes any signal at any moment; one after the first
changes nothing unless its kernel default is back.  A process that ends by itself, by
the drain or by the watchdog is `exited`; what that leaves behind on the host is
`ArtifactMaintenance`'s matter.

### ArtifactMaintenance

`at` follows the main thread of each process of the host.  The scheduler appears
as `admitted`, `barred` and `closed`, and `handling` the workers inside a handler;
the writer claim as one owner per issue.  That both are used as they are is not
taken for granted: the abstract modules are the interfaces, and both sides meet them.
`IssueScheduler` implements `SchedulerAdmission` and `WriterClaims` implements
`IssueClaim`; here every step is, for the scheduler of each polling run and for the
claim of each issue, a step of the same abstract modules or none (`KeepsToAdmission`,
`KeepsToClaim`).  `ChildRelease` and `CloseObservations`, the other two modules with a
claim of their own, keep to `IssueClaim` in the same way.  The hand-over is two steps, `HandOver` and `TakeOver`, because another
process may be granted the host between them.  A lock that breaks is a choice at
every place the code catches `OSError`: `GoUnclaimed`, `HandOverBreaks`, and `LosePresence`
for both halves of the way back.  When the unlock is the half that fails, the presence is
not asked for and the run polls on with the host its own (`sole` in `lost`), until its
next pass gives it up or turns it into the presence; a `flock` that changes the kind of a
hold drops the old one first (`SoleWithout`), and another request may come in between.
`Gate`, the schedule, and what makes a
candidate eligible are free choices.

### CloseObservations

One poller in full: `run["poll"]` is its polling thread (moment, listing, claim,
receipt, submit, the contender's reads) and `run["work"]` the worker its scheduler
runs for the issue (claim, refresh, receipt, pass, holds).  `latch`, `posting`,
`scanned`, `retiring`, `publishing`, `deferred` and `fenced` are the registries of
`observation_state.py` and its neighbours; each use of them is one critical section of
`_lock` and one action.  Each request to GitHub is an action of its own and may fail.
The pollers beside it are `"other"`: it takes the claim as `WriterClaims` lets it, and
retires, restarts, cancels and leaves notes under it.  `KeepsToClaim` says so in full:
`claim.in` and `claim.note`, read as the holders and the note of `IssueClaim`, move only
as that module promises.  (It bounds this account from one side.  That every behaviour of
the claim is met here is not said by it.)  A human closes and reopens the
issue at any time.  A moment is the truth value `undisturbed_since` would answer, which
is what `UndisturbedSound` of `WriterClaims` lets it stand for: true until another
poller held the issue or this one restarted its cycle.

`proven` is history: the cycles the issue was closed under (`ClosedUnder`).  A close
standing while the record names a live cycle is of that cycle; while a hold is
retiring a cycle, of that one too; while the record names none, of the one the closed
work would be measured into.  A cycle started behind a close is not among them.

### ChildRelease

`at` follows each dispatch: the parent's scan and its parks, the claims and second
reads of the children it found releasable, the walk over them (`ReleaseNext`,
`ReadToRelease`, `Licence`, `LastAsk`, `AddReady`, `TakeOff`), the return of the parent
(`Unheld`, `RetireAttempt`, `ReadParent`, the same relabel, `WriteParent`), and of a
child's own handler the part a release meets: the fetch of a `ready` child, the hand
over to the implementer, the merge.  The two ways the code writes labels are both
there: `Replaced` sends a whole set computed from an earlier reading, the relabel of
`label_moves.py` adds one label and takes off others by name.  An issue with two
workflow labels is read as either.  A dispatch may be abandoned at any request
(`Fail`), which gives its claims back and leaves what it has sent.  `starts` and
`late` are history.

### AgentRuns

`record` is the pinned comment, `held` the state object of the tick in progress,
`thread` the issue's comments (a comment's id is its place).  Durable and in-memory
state are apart, and `Drop` ends a tick anywhere: a death, a lost request, or a write
that landed and raised.  The actions in order of a tick are `Handle`, then `Honor`,
`Reserve` or `Refuse`; `Start`; `Finish`, `Ask` or `Relaunch`; `Write`; or, with
the ledger parked, `Announce`, `Replay`, or `ReadCommands`, `Answer` and `Write`.
Humans speak at any moment (`Speak`), also between a tick's read and its post.
A mark is moved by re-reading the thread behind a post; a re-read that fails leaves it
where that walk would have begun, and what was posted is recorded all the same (`ReadTo`).

## 3. Runs

All runs but `child_release` set `CHECK_DEADLOCK FALSE`: processes exit, bounds end counters, and a host
on which every process is gone is a proper end.

| Run | Question | Bounds | Why they are enough |
| --- | --- | --- | --- |
| `writer_claims` | one writer, no lock left, a file that tells the truth, and the abstract claim implemented | 3 incarnations, 2 threads, 1 cycle id, moments 0..1 | a holder, one that takes over and one that reads; two threads make a writer and an alongside holder; two moments make before and after, and a restart makes a stamp lie in the future |
| `scheduler` | one worker per issue, caps, slots, quiet | 2 repositories with caps 1 and 2, 2 numbers and the bucket, 4 jobs, 2 callers, global cap 2, 2 exempt workers | each cap can be reached with the other open; a bucket and a submission can meet on one issue; one caller can be refused the other's hold |
| `scheduler_live` | the barrier is lifted, slots come back | 1 number, 2 jobs, 1 caller, 1 exempt worker | a job can wait behind another for its thread |
| `thread_limit` (violation) | does a refused submission never run? | 1 repository, 2 numbers, 2 jobs | one busy thread and one refused submission |
| `shutdown` (violation) | does a run that received a signal exit? | 1 repository, 2 signals, 2 workers | a job in flight and one being submitted; a first signal and another |
| `maintenance` | passes, work, teardown, presences; admission reopens and a waiting run gets in, unless a failed unlock keeps the host from it for good | 2 pollers, 1 one-shot run, 1 issue | each can be the one in another's gap, and each waits for the others' passes; the safety properties are proved for any number of issues |
| `child_release` | who starts a child, what labels survive, when nothing is released | 2 children, siblings and a chain, 2 workers, 2 human acts, 1 failed request | the walk and a child's own handler side by side; one child waits for the other or both are released in one walk; a hold and its removal, or a close and a reopening; an interrupted relabel taken up by the next dispatch |
| `close_observations` | what a close ends, what a receipt and a memo say, what a hold keeps | cycles 1 and 2, 2 flips of the issue, 2 confirming reads (the code takes 3) | one cycle retired and one started behind it; a close, a reopening and what was read of each; one confirming read that disagrees and one that ends the search |
| `close_carried` (violation) | does a close that stands stay latched? | the same | one sweep and one reading beside it |
| `agent_runs` | ceiling, nothing returned, nothing twice, nothing lost | allowance 1, counts 0 and 1, 2 launches, 3 human comments, 3 runs | a reply, a command and another reply in any order around any post; spent, bought and spent again |
| `agent_runs_live` | a notice is said, a bought grant lands | 1 launch, 2 human comments, 2 runs | a command and the later one that takes it back |
| `run_grant_replay` (violation) | does a command buy once? | counts 1, 1 launch, 1 human comment, 3 runs | one command, written before the park that answers it was put, read at two parks |

Symmetry is used in safety runs only, over processes and threads, jobs, processes of
a kind and issues, workers, or launches: sets nothing but equality is asked of.  A count of 0
stands for every malformed request: the code answers all of them with a refusal.

### Fairness

* `IssueScheduler`: an executor's queue is first in first out and its threads run what
  they were given to the end, so `Begin` and `Return` are strongly fair (another job
  may disable them for a while) and the callbacks weakly; `_quiesced` is bounded by
  its timeout, so `Quiesced` and `LeaveBarrier` are weakly fair.  Nothing makes anyone
  submit, claim, ask for the barrier or shut down.
* `ArtifactMaintenance`: a pass is bounded at every step, so its own steps are weakly
  fair.  Waiting for the host is `_waited`, which asks again every half second; a pass
  of another process comes once an interval, so the host is free again and again:
  its `AskForHost` is strongly fair.  Nothing obliges an unlock to succeed, and a run whose
  unlock failed keeps the host for as long as it polls, so what is claimed of that wait is
  under the condition that no other run keeps it so for good (`[]<>~KeptFrom(p)`).  A run
  whose own unlock failed is held to the claim.  Workers are given no
  fairness: a handler may take as long as it likes, and the barrier's wait ends.
* `ShutdownSequence`: ticks, workers and the drain's wait for them are given none, as
  each may be blocked for ever.  The two holders of the executor's lock give it back, a
  drained run returns and the watchdog's wait has a bound: weakly fair.  The handler is
  strongly fair: another repository's thread has only so many issues to submit in a tick,
  so it cannot keep a lock from the handler with ever new ones.
* `AgentRuns`: the loop dispatches a parked issue every tick, and a tick is not cut off
  at the same place for ever.  Strong fairness is on the steps of the hold
  (`Replay`, `ReadCommands`, `Answer`, `Write`), weak on `Announce`.  Nobody is
  obliged to speak, and no handler is obliged to run.
* `CloseObservations` and `ChildRelease` state none: that a parent is released or a
  cycle ended at last depends on humans, on other pollers giving claims back and on
  requests that succeed, which the code promises nobody.

## 4. What is proved

TLAPS checks every step of these for every value of the constants.  Each
component has an inductive invariant of named parts, one lemma per action or per
part, and theorems that follow from it by one temporal step.  TLC has checked each
invariant on the bounds of its run before it was proved.

**`WriterClaimsProofs`** (assuming `ConstantsAssumption`: cycle ids and moments are
numbers, a process has finitely many threads, the absent value is no process).
`IInv == TypeOK /\ ClaimInv`.  `OneWriter` alone is not inductive: a thread's right to
be inside rests on the process's bookkeeping.  `ClaimInv` says that the count is the
number of threads inside (`Counted`), that the flag is set exactly for one of
them (`Flagged`), that whoever is inside or on the way is of the process with the
flock (`Locked`), and that the mutex lets one thread be on its way in (`OneTaker`).
Theorems: `TypeCorrect`, `OneWriterAlways`, `LockAlwaysOwned`.

**`WriterClaimsFileProofs`** strengthens it to `ReadingInv`: while a hold stands the
file is signed by it and unstamped (`FileInv`); no remembered moment is ahead of the
clock (`MomentInv`); and whenever another poller's hold has disturbed a reading, the
reader has learned of it or will learn it from the file it has just read or is going
to find (`KnownInv`), whatever was cut short, died or restarted since.  `NoteInv` adds
that the account of the last hold says truly that it stands, and that its last whole
note is then on the file (`LastInv`); it uses the file's half of `ReadingInv`, since a
note is read through whatever records were cut short before it.
Theorems: `UndisturbedAlwaysSound`, `NoteAlwaysOfTheLastHold`, `StandingNoteAlwaysRead`.

It ends with `Spec => ImplementsClaim`.  A step that moves
no thread in or out and does not change what a reader of the file is told is a stutter
of the abstract claim (`HoldersKept`, `Unseen`); a write that is cut short is one, the
last holder's stamp is a `Forget`, a crash or reboot a `Die`.  That nobody enters beside
a holder of another process is `ClaimInv` again.  Theorem: `ClaimImplemented`.

**`IssueSchedulerProofs`** (assuming `CapsAssumption`: the caps are positive numbers, the
submissions finitely many, the bucket no issue's number and the absent value neither
a number nor a job's state).  `IInv` is types and

* `Apart`: no two jobs have to do with one issue, whether they were admitted for it or
  claimed it out of a family bucket;
* `ClaimInv`: only a drain that runs has a claim;
* `SlotInv`: the sets of keys, said one member at a time, are those of the jobs;
* `CountInv`: the counts per repository are those of the set of counted keys, and both
  are within their caps;
* `BarrierInv`: one caller has the hold, and quiet means that nothing is admitted.

`Apart` and `SlotInv` need each other: a submission is refused only by the sets, so a
second worker is kept out only if they lack no job's key, and a return takes out the
key of its own job only if no other job shares it.
From the same invariant follows `Spec => ImplementsAdmission`: the steps of the executors
are stutters of `SchedulerAdmission`, a submit and a temporary claim are an `Admit`, the
callback and the end of a claim a `Release`.  That a callback releases a key which is
admitted, and one only, is `SlotInv`; that an answer of quiet is given behind a
barrier is `BarrierInv`.
Theorems: `TypeCorrect`, `OneWorkerAlways`, `SlotsAlwaysMatch`, `CapsAlways`,
`QuietAlways`, `AdmissionImplemented`.

**`ArtifactMaintenanceProofs`** (assuming `DisjointAssumption`: the two kinds of process
are apart and the absent value is none of them).
`IInv` is types, the kernel's half (`HostLockInv`: an exclusive holder is alone), the
scheduler's half (`SchedulerInv`, `BarrierInv`: quiet stays so behind the barrier),
the presence's half (`PresenceInv`) and the claim's half (`WriterInv`).  No theorem
rests on one half alone: a pass is beside no other run's work because that run's
presence keeps the host shared, and beside none of its own because of the barrier.
Theorems: `TypeCorrect`, `OnePass`, `PresenceHeld`, `PassAlone`, `TeardownClaimed`.

`FullInv` adds `LeftInv`, that a standing barrier, a held lock and an unbuilt
scheduler are where the main thread is.  `BarrierAlwaysOfAPass` and
`HostAlwaysHeldByTheLiving` are what of `AdmissionReopens` and `WaitIsFinite` can be
proved without fairness: no barrier is left behind that nobody would lift, and the host is
taken only for a pass, for one that is giving it back, or for a polling run whose unlock
failed and whose presence is not back (the places in `Kept`).
`AdmissionKept` and `ClaimKept` are the composition's half of the two interfaces: a
barrier is taken only where none stands (`LeftInv`), quiet is answered only behind one
(`BarrierInv`), and a claim is given back by its owner only (`WriterInv`).

**`ShutdownSequenceProofs`** (assuming `NoneIsNoSignal`: the absent value is no signal).
`IInv` says where each holder of the executor's lock is (`LockInv`), what a tick
and a submit leave behind (`TickInv`), how far the handler is and what stands behind it
(`HandlerInv`), and that a scheduler is closed before anything joins its workers
(`ClosedInv`).  `NothingFreesTheHandler` makes the counterexample of the run `shutdown` a
fact about every interleaving: a handler that waits for its own thread waits for ever.
`NothingElseBlocksIt` is the converse, so the finding is the only place of its kind.
Theorems: these two, `HandlerArmsBoth`, `ClosedForNewWork`, `DrainedMeansQuiet`.

The properties of the last five theorems, `BarrierIsOfAPass`, `HostIsHeldByTheLiving`,
`NoClaimLeft` and every `KeepsToAdmission`, `KeepsToClaim` and `ImplementsAdmission` are
in no run: TLC has found no violation of them on the bounds of `shutdown` (with one
repository and with several), `maintenance`, `scheduler`, `child_release` and
`close_observations`, the refinements without symmetry.

**`ChildReleaseProofs`** (assuming `ParentAssumption`, `GraphAssumption`, `NoneAssumption`
and `BoundAssumption`: the parent is no child, graphs are over the children, the absent
value is nobody, the bounds are numbers).  It holds for any number of children, graphs
and workers.  `IInv` says of each dispatch what lasts from one request to the next:

* `Claims`: the claims it holds, which keep a child's own handler out of it;
* `Relabel`: from the read a release is decided on, the child carries no workflow label
  but `blocked` and `ready`, and a relabel takes off `blocked` alone, behind a label
  that stands;
* `Unstarted` and `Retired`: a child about to be released was never started, and the
  attempt is gone before the parent's relabel;

and of the issues `LabelsOK` (`blocked` stands alone or beside the `ready` that replaces
it; a `ready` parent has no attempt), `StartsOK` (a child that was started carries
neither again) and `LateOK` (a release with the close latched was past its last ask, and
the parent's claim lets one walk be there).
Theorems: `TypeCorrect`, `StartedOnceAlways`, `NeverUnlabelledAlways`,
`AttemptAlwaysFirst`, `NothingLateAlways`, `HoldsSurvive`, `NothingLeftClaimed`,
`ClaimKept`.

The last two are about the claims alone.  `WorkerMoves` says what a step of a dispatch
may do to them: it takes one nobody has, gives back its own (`Claims` says a judged
child's claim is), and where it ends it has none.  So a parent that walks over its
children's claims leaves none behind however it is cut off, and every issue's claim is
used as `IssueClaim`, which the files of `WriterClaims` implement, has it.

**`AgentRunsProofs`** (assuming `LedgerAssumption`: the configured allowance is positive,
counts are numbers, the absent value is neither a number nor a launch).
`IInv` says, besides types:

* `CopyInv`: a tick's copy is the comment until it has something to write, and then
  differs by nothing that could return a run.  This is what `_merge_circuit_fields`
  buys, and what `NothingIsReturned` needs of the whole-state write;
* `ChargeInv`: a reservation is of a run not started, so honoring it pays for it;
* `Noticed`: a notice of the reading a record owes is past its mark, and none of the
  reading it will park on next is on the thread, so a search past the mark finds every
  notice that must not be said again;
* `ReceiptInv` and `CourseInv`: a receipt is behind its command, and between the read
  of a command and its answer only humans were heard, so the same search is enough for
  receipts;
* `BatchInv` and `Read`: a frozen batch has every reply below its last, and all that is
  below a mark was handed to a run or answered the park.

`WalkBounds` and `MaxOfBounded` are the lemmas about `Walk` and about the library's
`Max` on bounded sets, the latter from well-foundedness of the naturals.
Theorems: `TypeCorrect`, `CeilingAlways`, `NeverReturned`, `OursSaidOnce`,
`RepliesAreRead`.

**`CloseObservationsProofs`** (assuming `ObservationBounds`: there is a cycle to name and
a read to confirm with).  It holds for any number of cycles, of flips and of confirming
reads.  None of the properties is inductive: whether a cancelled cycle had a close of its
own depends on evidence gathered many steps earlier, by either thread, about a record
that has moved since.  `IInv` therefore says of each kind of evidence, while something
may still ask it, that it is of a close of the cycle it would be asked about:

* a closed reading between two records (`BetweenOK`): the cycle both name was closed, or
  it was `Missed`, which nothing undoes: neither the record nor a note will name it live
  again;
* a moment (`CleanOK`): while it is clean and no restart runs, `MomentProves`.  The live
  cycle, the one in the retirement window, the one a receipt is comparing, and the next
  one, for a pass that may yet start it (`Starting`), were all closed;
* a scope, a receipt, and a cycle about to be marked (`ScopeOK`, `WriteOK`);
* what a pass has seen closed under its claim (`SawOK`).

These rest on what a pass knows of the record (`PassOK`: nobody else writes while it is
inside the claim), on `TiedOK`, `ReadOK` and `NamedOK` for the reads, on `ClosedOK`, and
on the bookkeeping: `ClaimOK`, `HoldsOK` (holds are a worker's and a refused submit's),
`OwnerOK` (one post at a time), `LatchOK` and `SeenOK`.  The proof has one lemma per
action on what it does to the threads (`...Facts`), one per part on what a step does to
it (`...Step`), and between them a few on how the record, the notes and the moments may
move (`Worldly`, `MomentStays`, `LatchMovesStep`).
Theorems: `TypeCorrect`, `CancelsOnlyForItsOwnClose`, `ReceiptsAndScopesAreOfAClose`,
`MemoGoesWithItsReading`, `PostponedOnlyOfAnOldReading`, `HeldReadingIsKept`,
`ClaimKept`.  For the last, `ClaimOK` gives what each step of `IssueClaim` asks: a thread
that leaves was inside, a note is written by one inside to write, and the other pollers
are never inside with a thread of this one.

Only model-checked: every liveness property, fairness and `ENABLED` being beyond the
prover.

## 5. Where code and text disagree

* `thread_limit`: `_start_worker_locked` takes a `RuntimeError` of the executor for
  proof that the work will not run, as `scheduled_dispatch.py` says; the executor has
  queued it by then, and it runs without a slot when a thread comes free.
* `shutdown`: the handler closes the scheduler before it arms the watchdog, and closing
  takes a lock of the executor its own thread may hold, in a submit or in the drain.  The
  handler then waits for itself, no watchdog runs, and every later signal is ignored.
  With the lock reentrant, or with the watchdog armed and the kernel default restored
  first, the same property holds on the same bounds, with one repository and with several.
  That nothing leads out of that wait, and that nothing else can hold the handler up for
  good, is proved (`ShutdownSequenceProofs`).
* `close_carried`: a sweep that finds the issue open settles whatever the latch holds on its
  way out, also a close the polling thread has meanwhile confirmed and scoped to the live
  cycle, which no receipt carries yet and which `contended_closes.py` says is held for
  the next pass.
* `run_grant_replay`: a command written before the limit park was put lies below the
  park's notice.  Answering it leaves the mark in front of it (`run_grant.py`, 373-379), on
  the word that every later reader cuts a bare command out (354-355); the reader of the next
  limit park does not, and never asks whether the command was answered.  The same comment
  buys again at every later park.  No tick has to be cut off for it.

Met while modelling, and not given a run:

* the module text of `runtime/exclusion.py` (lines 13-15) says a pass never asks the
  writer claim; `maintenance_guards.py` (`_issue_claim`) asks it for every candidate,
  and `TeardownHoldsTheIssue` needs it;
* `runtime/exclusion.py` says that a poller's wait is finite because a pass "gives the host
  back at a candidate boundary" (45-47), and of a lock that stops working half way that it
  leaves "a run polling without a claim" (160-162); `host_lock.py` (116-119) says the wait
  is one candidate's teardown.  An unlock that fails in `_restored` (97, caught at 192)
  leaves a run polling with the whole host its own, and every other poller waits for as
  long as that lasts.  Without their condition `WaitIsFinite` and `AdmissionReopens` are
  violated so on the bounds of `maintenance`;
* a sweep that raised hands its reading back as no fresh one, so a settlement postponed
  earlier still lands on it, where `cleanup_observation.py` (36-40) says what was read
  is kept;
* a contender that found the holder's note and is still at its reads scopes a close made
  after the holder let go to the cycle that note names.  `ClosedUnder` allows it: the
  cycle is retired and its ending harmless, but the close was not one of it;
* `label_reading.py` (`issue_workflow_label`) takes a second workflow label for a human's
  edit; an interrupted relabel of `label_moves.py` leaves one too, as its own text says;
* a pass that dies between the parent's relabel and the write behind it leaves a `ready`
  parent whose record still awaits a human.

## 6. What is not modelled

* Logging, wording, and the layout of comments and files.  What a conversion loses is
  modelled where a property reads it (cut records in `WriterClaims`).
* In the ledger: launches owed once across a restart, the usage meter beside the charge,
  the exemption of ended work, comments of untrusted authors.  A thread is read whole;
  GitHub's paging is left out.
* In maintenance: the budget of a pass, what makes a candidate eligible, and the files
  that are deleted.  Agents that survive a killed orchestrator.
* In the shutdown: the lengths of the grace and its parts, the sweep of process groups, an
  exception inside the handler, and the second executor, which has a lock of its own.
* Of close observations: the sequential mode, records an admission refuses, control
  labels, a refusal inside a family bucket, the hold a handler nests in its own, the
  signatures of dead holders (`WriterClaims` has them), and any liveness.
* Of the decomposition: how children are made, the umbrella, the settlement, publication
  and lineage of a late split, a split whose requirement drifted, notices, the
  transition guard beyond its default of a warning, a human who puts a child back, and
  any liveness.  "implementing" stands for every stage up to the review, a child's merge
  for what they come to.
* Guarded edits of the pinned comment and their unconfirmed answers: `Write` is one
  step, under the claim `WriterClaims` is about.
* All of observability, installation and configuration: sequential, and nothing the
  workflow reads back.

## 7. What is left

In this order, by what it would add:

1. `PinnedCommit`: the guarded edit of the pinned comment, its lost answers, the usage
   checkpoint beside it; then the retry budget, which shares the ledger's notice protocol.
2. The hand-over of a `ready` parent or child to its implementer with the late split's
   settlement in front of it, on top of `ChildRelease`; the umbrella.
3. The maintenance schedule as pure functions over bounded times, checked against a
   reference definition.
4. A composition of `CloseObservations` with several pollers over `IssueClaim`, in place
   of the one `"other"` that stands for them and is now shown to keep to it.
5. The settlement protocols of reports, verification and rewrites; git publication.
