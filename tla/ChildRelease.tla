---------------------------- MODULE ChildRelease ----------------------------
(***************************************************************************)
(* A parent on `blocked` and the children its split cut: the poll that     *)
(* scans them, parks on one it cannot interpret, releases the ones whose   *)
(* dependencies are done, and takes the parent back to `ready` when all of *)
(* them are (stages/decomposition: blocked, parents, activation,           *)
(* child_claims).  Workers dispatch parent and children under one writer   *)
(* claim per issue, operators and humans edit labels between any two       *)
(* requests, and a request may fail at any point with what was already     *)
(* sent left standing.  Children are taken in any order.                   *)
(***************************************************************************)
EXTENDS Naturals, FiniteSets

CONSTANTS Child,      \* the children the parent's record tracks
          Parent,     \* the parent issue
          Graphs,     \* the dependency graphs a split may record: who waits on whom
          Worker,     \* dispatches that may run side by side, on any poller
          MaxActs,    \* bound on what humans do
          MaxFails,   \* bound on dispatches a failed request abandons
          None

ASSUME ParentAssumption == Parent \notin Child
ASSUME GraphAssumption == Graphs \subseteq [Child -> SUBSET Child]
ASSUME NoneAssumption == None \notin Worker \cup Child \cup {Parent}
ASSUME BoundAssumption == MaxActs \in Nat /\ MaxFails \in Nat

VARIABLES labels,    \* what each issue carries on GitHub
          open,      \* whether each issue is open
          record,    \* the parent's pinned record
          owed,      \* what each child's own record and seed read as
          latched,   \* whether a poll latched the parent's close
          claim,     \* who holds each issue's writer claim
          at,        \* where each worker's dispatch stands, and what it read
          starts,    \* how often each child was handed to an implementer
          late,      \* releases that landed with the close already latched
          acts, fails

github == <<labels, open, record, owed>>
ghosts == <<starts, late>>
budget == <<acts, fails>>
vars == <<labels, open, record, owed, latched, claim, at, starts, late,
          acts, fails>>

Issue == Child \cup {Parent}

(***************************************************************************)
(* Labels.  "implementing" stands for the stages between it and            *)
(* `in_review`, "paused" for either hold.  An issue may carry several      *)
(* workflow labels, GitHub lists them in an order of its own, and a        *)
(* reading takes the first: any of them, here.                             *)
(***************************************************************************)
Workflow == {"blocked", "ready", "implementing", "done", "rejected"}
Label == Workflow \cup {"paused"}

Reading == [open : BOOLEAN, labels : SUBSET Label, label : Workflow \cup {None}]

\* Mutation: a control label read as the state the issue is in.
ReadingsOfAnyLabel(i) ==
    {[open |-> open[i], labels |-> labels[i], label |-> l] : l \in labels[i]}

Readings(i) ==
    LET carried == labels[i] \cap Workflow
    IN  {[open |-> open[i], labels |-> labels[i], label |-> l] :
            l \in IF carried = {} THEN {None} ELSE carried}

Held(r) == "paused" \in r.labels
Waiting(r) == r.open /\ r.label = "blocked"
Startable(r) == Waiting(r) /\ ~Held(r)
ClosedUnended(r) == ~r.open /\ r.label \notin {"done", "rejected"}

\* The whole-set write: everything the reading carried but its workflow labels.
Replaced(r, l) == (r.labels \ Workflow) \cup {l}

(***************************************************************************)
(* Workers.                                                                *)
(***************************************************************************)
Pc == {"idle", "skip", "scan", "check", "checking", "merged", "choosing",
       "release", "reread", "licence", "ask", "add",
       "remove", "unheld", "retire", "current", "write", "fetch", "put", "end"}

\* The steps of the parent's own handler, from its scan to its last write.
WalkPc == Pc \ {"idle", "skip", "fetch", "put", "end"}

Idle == [pc |-> "idle", cur |-> None, read |-> [c \in Child |-> None],
         now |-> None, todo |-> {}, left |-> {}, byHand |-> FALSE]

Go(w, s) == at' = [at EXCEPT ![w] = s]

\* A dispatch ends, or is abandoned, and what it claimed goes back.
Leave(w) ==
    /\ Go(w, Idle)
    /\ claim' = [i \in Issue |-> IF claim[i] = w THEN None ELSE claim[i]]

TypeOK ==
    /\ labels \in [Issue -> SUBSET Label]
    /\ open \in [Issue -> BOOLEAN]
    /\ record \in [attempt : BOOLEAN, awaiting : BOOLEAN, depGraph : Graphs]
    /\ owed \in [Child -> {"whole", "lapsed", "refused"}]
    /\ latched \in BOOLEAN
    /\ claim \in [Issue -> Worker \cup {None}]
    /\ at \in [Worker -> [pc : Pc, cur : Issue \cup {None},
                          read : [Child -> Reading \cup {None}],
                          now : Reading \cup {None}, todo : SUBSET Child,
                          left : SUBSET Workflow, byHand : BOOLEAN]]
    /\ starts \in [Child -> Nat]
    /\ late \in Nat
    /\ acts \in 0..MaxActs
    /\ fails \in 0..MaxFails

Init ==
    /\ labels = [i \in Issue |-> {"blocked"}]
    /\ open = [i \in Issue |-> TRUE]
    /\ \E g \in Graphs : record = [attempt |-> TRUE, awaiting |-> FALSE, depGraph |-> g]
    /\ owed = [c \in Child |-> "whole"]
    /\ latched = FALSE
    /\ claim = [i \in Issue |-> None]
    /\ at = [w \in Worker |-> Idle]
    /\ starts = [c \in Child |-> 0]
    /\ late = 0
    /\ acts = 0
    /\ fails = 0

-----------------------------------------------------------------------------
(***************************************************************************)
(* Dispatch: the claim, then the issue read under it.                      *)
(***************************************************************************)

\* Where one reading of an issue routes its dispatch.
Route(i, r) ==
    CASE Held(r) \/ ~r.open                        -> "skip"
      [] i = Parent /\ r.label = "blocked" /\ ~latched -> "scan"
      [] i \in Child /\ r.label = "ready"           -> "fetch"
      [] i \in Child /\ r.label = "implementing"    -> "end"
      [] OTHER                                      -> "skip"

Dispatch(w, i) ==
    /\ at[w].pc = "idle"
    /\ claim[i] = None
    /\ claim' = [claim EXCEPT ![i] = w]
    /\ \E r \in Readings(i) :
          Go(w, [Idle EXCEPT !.pc = Route(i, r), !.cur = i, !.now = r])
    /\ UNCHANGED <<github, latched, ghosts, budget>>

Skip(w) ==
    /\ at[w].pc = "skip"
    /\ Leave(w)
    /\ UNCHANGED <<github, latched, ghosts, budget>>

(***************************************************************************)
(* The scan, and the two dispositions that park the parent over a child.   *)
(***************************************************************************)
Scan(w, c) ==
    /\ at[w].pc = "scan"
    /\ at[w].read[c] = None
    /\ \E r \in Readings(c) : Go(w, [at[w] EXCEPT !.read[c] = r])
    /\ UNCHANGED <<github, latched, claim, ghosts, budget>>

Scanned(w) == \A c \in Child : at[w].read[c] # None

Park(w) ==
    /\ record' = [record EXCEPT !.awaiting = TRUE]
    /\ Leave(w)
    /\ UNCHANGED <<labels, open, owed, latched, ghosts, budget>>

ParkRejected(w) ==
    /\ at[w].pc = "scan" /\ Scanned(w)
    /\ \E c \in Child : at[w].read[c].label = "rejected"
    /\ Park(w)

NoneRejected(w) ==
    /\ at[w].pc = "scan" /\ Scanned(w)
    /\ \A c \in Child : at[w].read[c].label # "rejected"
    /\ Go(w, [at[w] EXCEPT !.pc = "check",
                 !.todo = {c \in Child : ClosedUnended(at[w].read[c])}])
    /\ UNCHANGED <<github, latched, claim, ghosts, budget>>

\* A closed child is judged under its own claim; one refused stays as scanned.
CheckClaimed(w, c) ==
    /\ at[w].pc = "check" /\ c \in at[w].todo
    /\ IF claim[c] = None
       THEN /\ claim' = [claim EXCEPT ![c] = w]
            /\ Go(w, [at[w] EXCEPT !.pc = "checking", !.cur = c, !.todo = @ \ {c}])
       ELSE /\ Go(w, [at[w] EXCEPT !.todo = @ \ {c}])
            /\ UNCHANGED claim
    /\ UNCHANGED <<github, latched, ghosts, budget>>

\* Back to the other candidates, the child's claim given back.
Judged(w, s) ==
    /\ Go(w, [s EXCEPT !.pc = "check", !.cur = Parent, !.now = None])
    /\ claim' = [claim EXCEPT ![at[w].cur] = None]

CheckRead(w) ==
    LET c == at[w].cur IN
    /\ at[w].pc = "checking"
    /\ \/ Judged(w, at[w])                     \* read by nobody
       \/ \E r \in Readings(c) :
             LET s == [at[w] EXCEPT !.read[c] = r] IN
             \/ /\ ~ClosedUnended(r) \/ owed[c] = "refused"
                /\ Judged(w, s)
             \/ /\ ClosedUnended(r) /\ owed[c] # "refused"
                /\ Judged(w, [s EXCEPT !.byHand = TRUE])
             \/ /\ ClosedUnended(r) /\ owed[c] # "refused"
                /\ r.label = "implementing"      \* only these have a pull request
                /\ Go(w, [s EXCEPT !.pc = "merged", !.now = r])
                /\ UNCHANGED claim
    /\ UNCHANGED <<github, latched, ghosts, budget>>

FinalizeMerged(w) ==
    LET c == at[w].cur IN
    /\ at[w].pc = "merged"
    /\ labels' = [labels EXCEPT ![c] = Replaced(at[w].now, "done")]
    /\ Judged(w, [at[w] EXCEPT !.read[c].label = "done"])
    /\ UNCHANGED <<open, record, owed, latched, ghosts, budget>>

ParkClosed(w) ==
    /\ at[w].pc = "check" /\ at[w].todo = {} /\ at[w].byHand
    /\ Park(w)

AllDone(w) == \A c \in Child : at[w].read[c].label = "done"

\* Open, `blocked`, unheld, and every dependency done, as the scan read them.
Releasable(w) ==
    {c \in Child : /\ Startable(at[w].read[c])
                   /\ \A d \in record.depGraph[c] : at[w].read[d].label = "done"}

Decide(w) ==
    /\ at[w].pc = "check" /\ at[w].todo = {} /\ ~at[w].byHand
    /\ IF AllDone(w)
       THEN Go(w, [Idle EXCEPT !.pc = "unheld", !.cur = Parent])
       ELSE Go(w, [Idle EXCEPT !.pc = "choosing", !.cur = Parent,
                      !.todo = Releasable(w)])
    /\ UNCHANGED <<github, latched, claim, ghosts, budget>>

-----------------------------------------------------------------------------
(***************************************************************************)
(* The release walk: every chosen child claimed, read again, vouched for,  *)
(* and only then released one at a time.                                   *)
(***************************************************************************)
\* Mutation: taken alongside the child's own handler, as an append-only step is.
ClaimChildAlongside(w, c) ==
    /\ at[w].pc = "choosing" /\ c \in at[w].todo /\ claim[c] # w
    /\ claim' = [claim EXCEPT ![c] = w]
    /\ UNCHANGED <<github, latched, at, ghosts, budget>>

ClaimChild(w, c) ==
    /\ at[w].pc = "choosing" /\ c \in at[w].todo /\ claim[c] # w
    /\ IF claim[c] = None
       THEN claim' = [claim EXCEPT ![c] = w] /\ UNCHANGED at
       ELSE Leave(w)
    /\ UNCHANGED <<github, latched, ghosts, budget>>

AllClaimed(w) == \A c \in at[w].todo : claim[c] = w

\* One child moved, closed or held by now releases none of them.
ReadAgain(w, c) ==
    /\ at[w].pc = "choosing" /\ AllClaimed(w)
    /\ c \in at[w].todo /\ at[w].read[c] = None
    /\ \E r \in Readings(c) :
          IF Startable(r)
          THEN Go(w, [at[w] EXCEPT !.read[c] = r]) /\ UNCHANGED claim
          ELSE Leave(w)
    /\ UNCHANGED <<github, latched, ghosts, budget>>

\* A record admission refuses releases none; a lapsed entitlement parks too.
Vouch(w) ==
    /\ at[w].pc = "choosing" /\ AllClaimed(w)
    /\ \A c \in at[w].todo : at[w].read[c] # None
    /\ \/ /\ \A c \in at[w].todo : owed[c] = "whole"
          /\ Go(w, [Idle EXCEPT !.pc = "release", !.cur = Parent, !.todo = at[w].todo])
          /\ UNCHANGED <<github, claim>>
       \/ /\ \E c \in at[w].todo : owed[c] = "refused"
          /\ Leave(w)
          /\ UNCHANGED github
       \/ /\ \A c \in at[w].todo : owed[c] # "refused"
          /\ \E c \in at[w].todo : owed[c] = "lapsed"
          /\ record' = [record EXCEPT !.awaiting = TRUE]
          /\ Leave(w)
          /\ UNCHANGED <<labels, open, owed>>
    /\ UNCHANGED <<latched, ghosts, budget>>

\* Mutation: asked once for the walk, as it was dispatched.
ParentWasGone == FALSE

\* Whether a poll saw the parent closed since the walk began.
ParentIsGone == latched

ReleaseNext(w, c) ==
    /\ at[w].pc = "release" /\ c \in at[w].todo
    /\ IF ParentIsGone
       THEN Leave(w)
       ELSE /\ Go(w, [at[w] EXCEPT !.pc = "reread", !.cur = c, !.todo = @ \ {c}])
            /\ UNCHANGED claim
    /\ UNCHANGED <<github, latched, ghosts, budget>>

ReleaseDone(w) ==
    /\ at[w].pc = "release" /\ at[w].todo = {}
    /\ Leave(w)
    /\ UNCHANGED <<github, latched, ghosts, budget>>

\* The child itself, read last; one moved, held or unread is left alone.
ReadToRelease(w) ==
    /\ at[w].pc = "reread"
    /\ \/ \E r \in Readings(at[w].cur) :
             Startable(r) /\ Go(w, [at[w] EXCEPT !.pc = "licence", !.now = r])
       \/ Go(w, [at[w] EXCEPT !.pc = "release", !.cur = Parent])
    /\ UNCHANGED <<github, latched, claim, ghosts, budget>>

\* The parent's own hold, asked of the parent fetched afresh.
Licence(w) ==
    /\ at[w].pc = "licence"
    /\ IF "paused" \in labels[Parent]
       THEN Leave(w)
       ELSE Go(w, [at[w] EXCEPT !.pc = "ask"]) /\ UNCHANGED claim
    /\ UNCHANGED <<github, latched, ghosts, budget>>

LastAsk(w) ==
    /\ at[w].pc = "ask"
    /\ IF ParentIsGone
       THEN Leave(w)
       ELSE Go(w, [at[w] EXCEPT !.pc = "add"]) /\ UNCHANGED claim
    /\ UNCHANGED <<github, latched, ghosts, budget>>

-----------------------------------------------------------------------------
(***************************************************************************)
(* The relabel that moves one workflow label: `ready` added, then each     *)
(* workflow label the reading carried taken off by name.                   *)
(***************************************************************************)
\* Mutation: the whole-set write, over labels as old as the reading.
AddReadyWhole(w) ==
    LET i == at[w].cur IN
    /\ at[w].pc = "add"
    /\ labels' = [labels EXCEPT ![i] = Replaced(at[w].now, "ready")]
    /\ Go(w, [at[w] EXCEPT !.pc = "remove", !.left = {}])
    /\ late' = IF i \in Child /\ latched THEN late + 1 ELSE late
    /\ UNCHANGED <<open, record, owed, latched, claim, starts, budget>>

\* Mutation: the label replaced is taken off first, `ready` added behind it.
AddReadyBehind(w) ==
    /\ at[w].pc = "add"
    /\ \/ /\ labels' = [labels EXCEPT ![at[w].cur] = @ \ {"blocked"}]
          /\ UNCHANGED <<at, late>>
       \/ /\ "blocked" \notin labels[at[w].cur]
          /\ labels' = [labels EXCEPT ![at[w].cur] = @ \cup {"ready"}]
          /\ Go(w, [at[w] EXCEPT !.pc = "remove", !.left = {}])
          /\ late' = IF at[w].cur \in Child /\ latched THEN late + 1 ELSE late
    /\ UNCHANGED <<open, record, owed, latched, claim, starts, budget>>

AddReady(w) ==
    LET i == at[w].cur IN
    /\ at[w].pc = "add"
    /\ labels' = [labels EXCEPT ![i] = @ \cup {"ready"}]
    /\ Go(w, [at[w] EXCEPT !.pc = "remove",
                 !.left = (at[w].now.labels \cap Workflow) \ {"ready"}])
    /\ late' = IF i \in Child /\ latched THEN late + 1 ELSE late
    /\ UNCHANGED <<open, record, owed, latched, claim, starts, budget>>

\* A label already gone when it is taken off is gone.
TakeOff(w, l) ==
    /\ at[w].pc = "remove" /\ l \in at[w].left
    /\ labels' = [labels EXCEPT ![at[w].cur] = @ \ {l}]
    /\ Go(w, [at[w] EXCEPT !.left = @ \ {l}])
    /\ UNCHANGED <<open, record, owed, latched, claim, ghosts, budget>>

Moved(w) ==
    /\ at[w].pc = "remove" /\ at[w].left = {}
    /\ Go(w, [at[w] EXCEPT !.pc = IF at[w].cur = Parent THEN "write" ELSE "release",
                 !.cur = Parent, !.now = None])
    /\ UNCHANGED <<github, latched, claim, ghosts, budget>>

-----------------------------------------------------------------------------
(***************************************************************************)
(* Every child done: the split's attempt retired in a write of its own,    *)
(* the parent read again for a hold, moved, and its record written.        *)
(***************************************************************************)
\* Mutation: the attempt left for the write behind the relabel.
UnheldAttemptKept(w) ==
    /\ at[w].pc = "unheld"
    /\ IF "paused" \in labels[Parent]
       THEN Leave(w)
       ELSE Go(w, [at[w] EXCEPT !.pc = "current"]) /\ UNCHANGED claim
    /\ UNCHANGED <<github, latched, ghosts, budget>>

Unheld(w) ==
    /\ at[w].pc = "unheld"
    /\ IF "paused" \in labels[Parent]
       THEN Leave(w)
       ELSE /\ Go(w, [at[w] EXCEPT !.pc = IF record.attempt THEN "retire" ELSE "current"])
            /\ UNCHANGED claim
    /\ UNCHANGED <<github, latched, ghosts, budget>>

RetireAttempt(w) ==
    /\ at[w].pc = "retire"
    /\ record' = [record EXCEPT !.attempt = FALSE]
    /\ Go(w, [at[w] EXCEPT !.pc = "current"])
    /\ UNCHANGED <<labels, open, owed, latched, claim, ghosts, budget>>

ReadParent(w) ==
    /\ at[w].pc = "current"
    /\ \E r \in Readings(Parent) :
          IF Held(r)
          THEN Leave(w)
          ELSE Go(w, [at[w] EXCEPT !.pc = "add", !.now = r]) /\ UNCHANGED claim
    /\ UNCHANGED <<github, latched, ghosts, budget>>

WriteParent(w) ==
    /\ at[w].pc = "write"
    /\ record' = [record EXCEPT !.attempt = FALSE, !.awaiting = FALSE]
    /\ Leave(w)
    /\ UNCHANGED <<labels, open, owed, latched, ghosts, budget>>

-----------------------------------------------------------------------------
(***************************************************************************)
(* A child's own dispatch, cut to what a release meets: `ready` fetched    *)
(* afresh and handed to the implementer, and the merge that ends it, each  *)
(* a whole-set write over the labels its reading carried.                  *)
(***************************************************************************)
FetchReady(w) ==
    /\ at[w].pc = "fetch"
    /\ \E r \in Readings(at[w].cur) :
          IF Held(r) \/ r.label = "blocked"
          THEN Leave(w)
          ELSE Go(w, [at[w] EXCEPT !.pc = "put", !.now = r]) /\ UNCHANGED claim
    /\ UNCHANGED <<github, latched, ghosts, budget>>

Start(w) ==
    LET c == at[w].cur IN
    /\ at[w].pc = "put"
    /\ labels' = [labels EXCEPT ![c] = Replaced(at[w].now, "implementing")]
    /\ starts' = [starts EXCEPT ![c] = @ + 1]
    /\ Leave(w)
    /\ UNCHANGED <<open, record, owed, latched, late, budget>>

Merge(w) ==
    LET c == at[w].cur IN
    /\ at[w].pc = "end"
    /\ labels' = [labels EXCEPT ![c] = Replaced(at[w].now, "done")]
    /\ open' = [open EXCEPT ![c] = FALSE]
    /\ Leave(w)
    /\ UNCHANGED <<record, owed, latched, ghosts, budget>>

-----------------------------------------------------------------------------
(***************************************************************************)
(* A request that fails, or a process that dies: what was sent stands, the *)
(* rest is never sent, and the claims go back.                             *)
(***************************************************************************)
Fail(w) ==
    /\ at[w].pc # "idle" /\ fails < MaxFails
    /\ fails' = fails + 1
    /\ Leave(w)
    /\ UNCHANGED <<github, latched, ghosts, acts>>

(***************************************************************************)
(* Humans, between any two requests.  Nobody puts a child back on          *)
(* `blocked`, nor on `ready` once it has left `blocked`.                   *)
(***************************************************************************)
ByHand == acts < MaxActs /\ acts' = acts + 1
          /\ UNCHANGED <<latched, claim, at, ghosts, fails>>

ToggleHold(i) ==
    /\ ByHand
    /\ labels' = [labels EXCEPT ![i] = IF "paused" \in @ THEN @ \ {"paused"}
                                                       ELSE @ \cup {"paused"}]
    /\ UNCHANGED <<open, record, owed>>

\* Released by hand, the old label taken off or left beside the new.
ReadyByHand(c) ==
    /\ ByHand
    /\ "blocked" \in labels[c]
    /\ \E old \in {{}, {"blocked"}} :
          labels' = [labels EXCEPT ![c] = (@ \ old) \cup {"ready"}]
    /\ UNCHANGED <<open, record, owed>>

\* Rejected, or a rejected child resolved.
SettleByHand(c) ==
    /\ ByHand
    /\ labels' = [labels EXCEPT ![c] = (@ \ Workflow) \cup
                     {IF "rejected" \in @ THEN "done" ELSE "rejected"}]
    /\ UNCHANGED <<open, record, owed>>

\* A child closed or reopened; a parent's close is followed no further.
CloseByHand(i) ==
    /\ ByHand
    /\ i = Parent => open[i]
    /\ open' = [open EXCEPT ![i] = ~@]
    /\ UNCHANGED <<labels, record, owed>>

EditRecord(c) ==
    /\ ByHand
    /\ \E o \in {"whole", "lapsed", "refused"} \ {owed[c]} :
          owed' = [owed EXCEPT ![c] = o]
    /\ UNCHANGED <<labels, open, record>>

\* A poll beside the walk reads the parent closed.
ObserveClose ==
    /\ ~open[Parent] /\ ~latched
    /\ latched' = TRUE
    /\ UNCHANGED <<github, claim, at, ghosts, budget>>

Walk(w) ==
    \/ \E c \in Child : \/ Scan(w, c) \/ CheckClaimed(w, c) \/ ClaimChild(w, c)
                        \/ ReadAgain(w, c) \/ ReleaseNext(w, c)
    \/ ParkRejected(w) \/ NoneRejected(w) \/ CheckRead(w) \/ FinalizeMerged(w)
    \/ ParkClosed(w) \/ Decide(w) \/ Vouch(w)
    \/ ReleaseDone(w) \/ ReadToRelease(w) \/ Licence(w) \/ LastAsk(w)
    \/ AddReady(w) \/ (\E l \in Workflow : TakeOff(w, l)) \/ Moved(w)
    \/ Unheld(w) \/ RetireAttempt(w) \/ ReadParent(w) \/ WriteParent(w)

Human ==
    \/ \E i \in Issue : ToggleHold(i) \/ CloseByHand(i)
    \/ \E c \in Child : ReadyByHand(c) \/ SettleByHand(c) \/ EditRecord(c)

Next ==
    \/ \E w \in Worker : \/ \E i \in Issue : Dispatch(w, i)
                         \/ Walk(w) \/ Skip(w) \/ FetchReady(w) \/ Start(w)
                         \/ Merge(w) \/ Fail(w)
    \/ Human
    \/ ObserveClose

Spec == Init /\ [][Next]_vars

-----------------------------------------------------------------------------
\* No slice of work is handed to an implementer twice, whatever a walk read
\* before another worker moved the child on, and wherever a relabel stopped.
StartedOnce == \A c \in Child : starts[c] <= 1

\* A release never takes off a hold, on the parent or on a child, however old
\* the reading its relabel was decided on.
HoldSurvives ==
    [][\A w \in Worker, i \in Issue :
          /\ at[w].pc \in WalkPc \ {"merged"} /\ at'[w] # at[w]
          /\ "paused" \in labels[i]
          => "paused" \in labels'[i]]_vars

\* No issue is ever left with no workflow label, which every reader takes for
\* one nobody picked up, wherever a relabel stopped.
NeverUnlabelled == \A i \in Issue : labels[i] \cap Workflow # {}

\* A parent back on `ready` never carries the attempt of the split it came
\* from, even where the pass died between the relabel and its record.
AttemptGoesFirst == "ready" \in labels[Parent] => ~record.attempt

\* Once a poll latched the parent's close, no release lands but the one whose
\* request was already on its way.
NothingReleasedAfterClose == late <= 1

\* Nothing is left claimed behind a dispatch, abandoned or not: the claim of an
\* issue has a dispatch under way.
NoClaimLeft == \A i \in Issue : claim[i] # None => at[claim[i]].pc # "idle"

-----------------------------------------------------------------------------
Claim(i) == INSTANCE IssueClaim WITH
    Process <- Worker,
    Thread  <- {i},
    Cycle   <- {},
    writing <- IF claim[i] = None THEN {} ELSE {<<claim[i], i>>},
    beside  <- {},
    told    <- None

\* The walks of a parent over the claims of its children, and the children's own
\* dispatches, do with each issue's claim what its promise allows: it is taken from
\* nobody, and given back by who has it.
KeepsToClaim ==
    /\ \A i \in Issue : Claim(i)!Init
    /\ [][\A i \in Issue : [Claim(i)!Next]_(Claim(i)!vars)]_vars
=============================================================================
