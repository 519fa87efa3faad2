------------------------- MODULE ChildReleaseProofs -------------------------
(***************************************************************************)
(* Proofs about ChildRelease, for any number of children, dependency       *)
(* graphs, workers, human acts and failed dispatches.                      *)
(*                                                                         *)
(* None of its properties is inductive alone.  What a walk does to a child *)
(* rests on two facts that last from one request to the next: the claims   *)
(* the walk holds, which keep the child's own handler out, and what the    *)
(* labels may be while it holds them, which humans still edit.             *)
(***************************************************************************)
EXTENDS ChildRelease, TLAPS

WorkerState ==
    [pc : Pc, cur : Issue \cup {None}, read : [Child -> Reading \cup {None}],
     now : Reading \cup {None}, todo : SUBSET Child,
     left : SUBSET Workflow, byHand : BOOLEAN]

(***************************************************************************)
(* What is true of a dispatch in state s, by the worker v.                 *)
(***************************************************************************)
\* It holds the claim of what it works on, and a walk that of the parent.
Claims(v, s) ==
    /\ s.pc # "idle" => s.cur \in Issue /\ claim[s.cur] = v
    /\ s.pc \in WalkPc => claim[Parent] = v
    /\ s.pc \in {"release", "reread", "licence", "ask", "add", "remove",
                 "unheld", "retire", "current"} =>
          \A c \in s.todo : claim[c] = v

\* Which issue each step is about, and what it has read.
Shape(s) ==
    /\ s.pc \in {"fetch", "put", "end", "checking", "merged", "reread",
                 "licence", "ask"} => s.cur \in Child
    /\ s.pc \in {"scan", "check", "choosing", "release", "unheld", "retire",
                 "current", "write"} => s.cur = Parent
    /\ s.pc \in {"merged", "put", "end", "licence", "ask", "add"} => s.now \in Reading
    /\ s.pc = "merged" => s.read[s.cur] \in Reading

\* A relabel takes off `blocked` alone, behind a label that stands.
Relabel(s) ==
    /\ s.pc \in {"licence", "ask", "add"} =>
          s.now.labels \cap Workflow \subseteq {"blocked", "ready"}
    /\ s.pc = "remove" => /\ s.left \subseteq {"blocked"}
                          /\ \E l \in labels[s.cur] : l \in Workflow \ {"blocked"}

\* A child about to be released or started was never started.
Unstarted(s) ==
    /\ s.pc \in {"fetch", "put"} => starts[s.cur] = 0
    /\ s.pc \in {"licence", "ask", "add"} /\ s.cur \in Child => starts[s.cur] = 0

\* The attempt is gone before the parent's relabel.
Retired(s) ==
    /\ s.pc = "current" => ~record.attempt
    /\ s.pc = "add" /\ s.cur = Parent => ~record.attempt

LocalOK(v, s) == Claims(v, s) /\ Shape(s) /\ Relabel(s) /\ Unstarted(s) /\ Retired(s)

(***************************************************************************)
(* What is true of the issues.                                             *)
(***************************************************************************)
\* `blocked` stands alone or with the `ready` that replaces it.
LabelsOK ==
    /\ \A i \in Issue : \E l \in labels[i] : l \in Workflow
    /\ \A i \in Issue : "blocked" \in labels[i] =>
          labels[i] \cap Workflow \subseteq {"blocked", "ready"}
    /\ labels[Parent] \cap Workflow \subseteq {"blocked", "ready"}
    /\ "ready" \in labels[Parent] => ~record.attempt

StartsOK ==
    \A c \in Child : /\ starts[c] <= 1
                     /\ starts[c] # 0 => labels[c] \cap {"blocked", "ready"} = {}

LateOK ==
    /\ late <= 1
    /\ ~latched => late = 0
    /\ late = 1 => \A v \in Worker : ~(at[v].pc = "add" /\ at[v].cur \in Child)

IInv ==
    /\ TypeOK
    /\ \A v \in Worker : LocalOK(v, at[v])
    /\ LabelsOK
    /\ StartsOK
    /\ LateOK

-----------------------------------------------------------------------------
\* What a reading of an issue says is what stands there, a workflow label of
\* it being one that the issue carries.
LEMMA ReadingsRead ==
    ASSUME TypeOK, LabelsOK, NEW i \in Issue, NEW r \in Readings(i)
    PROVE  /\ r \in Reading
           /\ r.labels = labels[i]
           /\ r.label \in labels[i] \cap Workflow
<1>1. labels[i] \in SUBSET Label /\ open[i] \in BOOLEAN
  BY DEF TypeOK
<1>2. PICK l \in labels[i] \cap Workflow :
          r = [open |-> open[i], labels |-> labels[i], label |-> l]
  <2>1. labels[i] \cap Workflow # {}
    BY DEF LabelsOK
  <2> QED
    BY <2>1 DEF Readings
<1> QED
  BY <1>1, <1>2 DEF Reading

\* A reading types what a worker remembers, whatever the label says.
LEMMA ReadingsTyped ==
    ASSUME TypeOK, NEW i \in Issue
    PROVE  Readings(i) \subseteq Reading
  BY DEF TypeOK, Readings, Reading

LEMMA ReplacedTyped ==
    ASSUME NEW r \in Reading, NEW l \in Workflow
    PROVE  Replaced(r, l) \in SUBSET Label
  BY DEF Reading, Replaced, Label

LEMMA LeaveTyped ==
    ASSUME TypeOK, NEW w \in Worker, Leave(w)
    PROVE  /\ at' \in [Worker -> WorkerState]
           /\ claim' \in [Issue -> Worker \cup {None}]
<1>1. Idle \in WorkerState
  BY DEF Idle, WorkerState, Pc
<1>2. at \in [Worker -> WorkerState] /\ claim \in [Issue -> Worker \cup {None}]
  BY DEF TypeOK, WorkerState
<1> QED
  BY <1>1, <1>2 DEF Leave, Go

\* The types of a step of which only the dispatch, and claims, move.
LEMMA TypeKept ==
    ASSUME TypeOK, at' \in [Worker -> WorkerState],
           claim' \in [Issue -> Worker \cup {None}],
           UNCHANGED <<github, latched, ghosts, budget>>
    PROVE  TypeOK'
  BY DEF TypeOK, WorkerState, github, ghosts, budget

LEMMA TypeDispatch ==
    ASSUME TypeOK, NEW w \in Worker, NEW i \in Issue, Dispatch(w, i)
    PROVE  TypeOK'
<1>1. at \in [Worker -> WorkerState] /\ claim \in [Issue -> Worker \cup {None}]
  BY DEF TypeOK, WorkerState
<1>2. PICK r \in Readings(i) :
          Go(w, [Idle EXCEPT !.pc = Route(i, r), !.cur = i, !.now = r])
  BY DEF Dispatch
<1>3. r \in Reading
  BY ReadingsTyped
<1>4. Route(i, r) \in Pc
  BY DEF Route, Pc
<1>5. [Idle EXCEPT !.pc = Route(i, r), !.cur = i, !.now = r] \in WorkerState
  BY ZenonT(60), <1>3, <1>4 DEF Idle, WorkerState
<1>6. at' \in [Worker -> WorkerState]
  BY <1>1, <1>2, <1>5 DEF Go
<1>7. claim' \in [Issue -> Worker \cup {None}]
  BY <1>1 DEF Dispatch
<1> QED
  BY <1>6, <1>7, TypeKept DEF Dispatch

LEMMA TypeScan ==
    ASSUME TypeOK, NEW w \in Worker,
           \/ ParkRejected(w) \/ NoneRejected(w) \/ ParkClosed(w) \/ Decide(w)
           \/ \E c \in Child : Scan(w, c) \/ CheckClaimed(w, c)
    PROVE  TypeOK'
<1> USE DEF github, ghosts, budget
<1>1. at \in [Worker -> WorkerState] /\ claim \in [Issue -> Worker \cup {None}]
  BY DEF TypeOK, WorkerState
<1>2. ASSUME ParkRejected(w) \/ ParkClosed(w) PROVE TypeOK'
  <2>1. /\ record' = [record EXCEPT !.awaiting = TRUE]
        /\ Leave(w)
        /\ UNCHANGED <<labels, open, owed, latched, ghosts, budget>>
    BY <1>2 DEF ParkRejected, ParkClosed, Park
  <2> QED
    BY <2>1, LeaveTyped DEF TypeOK, WorkerState
<1>3. ASSUME NoneRejected(w) PROVE TypeOK'
  <2>1. [at[w] EXCEPT !.pc = "check",
            !.todo = {c \in Child : ClosedUnended(at[w].read[c])}] \in WorkerState
    BY ZenonT(60), <1>1 DEF WorkerState, Pc
  <2>2. at' \in [Worker -> WorkerState]
    BY <1>1, <1>3, <2>1 DEF NoneRejected, Go
  <2> QED
    BY <1>1, <1>3, <2>2, TypeKept DEF NoneRejected
<1>4. ASSUME Decide(w) PROVE TypeOK'
  <2>1. /\ [Idle EXCEPT !.pc = "unheld", !.cur = Parent] \in WorkerState
        /\ [Idle EXCEPT !.pc = "choosing", !.cur = Parent, !.todo = Releasable(w)]
              \in WorkerState
    BY DEF Idle, WorkerState, Pc, Issue, Releasable
  <2>2. at' \in [Worker -> WorkerState]
    BY <1>1, <1>4, <2>1 DEF Decide, Go
  <2> QED
    BY <1>1, <1>4, <2>2, TypeKept DEF Decide
<1>5. ASSUME NEW c \in Child, Scan(w, c) PROVE TypeOK'
  <2>1. PICK r \in Readings(c) : Go(w, [at[w] EXCEPT !.read[c] = r])
    BY <1>5 DEF Scan
  <2>2. r \in Reading
    BY ReadingsTyped DEF Issue
  <2>3. [at[w] EXCEPT !.read[c] = r] \in WorkerState
    BY ZenonT(60), <1>1, <2>2 DEF WorkerState
  <2>4. at' \in [Worker -> WorkerState]
    BY <1>1, <2>1, <2>3 DEF Go
  <2> QED
    BY <1>1, <1>5, <2>4, TypeKept DEF Scan
<1>6. ASSUME NEW c \in Child, CheckClaimed(w, c) PROVE TypeOK'
  <2>1. /\ [at[w] EXCEPT !.pc = "checking", !.cur = c, !.todo = @ \ {c}] \in WorkerState
        /\ [at[w] EXCEPT !.todo = @ \ {c}] \in WorkerState
    BY ZenonT(60), <1>1 DEF WorkerState, Pc, Issue
  <2>2. at' \in [Worker -> WorkerState]
    BY <1>1, <1>6, <2>1 DEF CheckClaimed, Go
  <2>3. claim' \in [Issue -> Worker \cup {None}]
    BY <1>1, <1>6 DEF CheckClaimed
  <2> QED
    BY <1>6, <2>2, <2>3, TypeKept DEF CheckClaimed
<1> QED
  BY <1>2, <1>3, <1>4, <1>5, <1>6

LEMMA JudgedTyped ==
    ASSUME TypeOK, NEW w \in Worker, NEW s \in WorkerState, Judged(w, s)
    PROVE  /\ at' \in [Worker -> WorkerState]
           /\ claim' \in [Issue -> Worker \cup {None}]
<1>1. [s EXCEPT !.pc = "check", !.cur = Parent, !.now = None] \in WorkerState
  BY DEF WorkerState, Pc, Issue
<1>2. at \in [Worker -> WorkerState] /\ claim \in [Issue -> Worker \cup {None}]
  BY DEF TypeOK, WorkerState
<1> QED
  BY <1>1, <1>2 DEF Judged, Go

LEMMA TypeCheck ==
    ASSUME TypeOK, NEW w \in Worker, LocalOK(w, at[w]), CheckRead(w) \/ FinalizeMerged(w)
    PROVE  TypeOK'
<1> USE DEF github, ghosts, budget
<1> DEFINE c == at[w].cur
<1>1. at \in [Worker -> WorkerState] /\ claim \in [Issue -> Worker \cup {None}]
  BY DEF TypeOK, WorkerState
<1>2. at[w].pc \in {"checking", "merged"} /\ c \in Child
  BY DEF CheckRead, FinalizeMerged, LocalOK, Shape
<1>3. CASE CheckRead(w)
  <2>1. ASSUME Judged(w, at[w]) PROVE TypeOK'
    BY <1>1, <1>3, <2>1, JudgedTyped, TypeKept DEF CheckRead
  <2>2. ASSUME NEW r \in Readings(c),
               \/ Judged(w, [at[w] EXCEPT !.read[c] = r])
               \/ Judged(w, [[at[w] EXCEPT !.read[c] = r] EXCEPT !.byHand = TRUE])
               \/ /\ Go(w, [[at[w] EXCEPT !.read[c] = r] EXCEPT !.pc = "merged", !.now = r])
                  /\ UNCHANGED claim
        PROVE  TypeOK'
    <3>1. r \in Reading
      BY <1>2, ReadingsTyped DEF Issue
    <3>2. [at[w] EXCEPT !.read[c] = r] \in WorkerState
      BY ZenonT(60), <1>1, <1>2, <3>1 DEF WorkerState
    <3>3. [[at[w] EXCEPT !.read[c] = r] EXCEPT !.byHand = TRUE] \in WorkerState
      BY ZenonT(60), <1>1, <1>2, <3>1 DEF WorkerState
    <3>4. [[at[w] EXCEPT !.read[c] = r] EXCEPT !.pc = "merged", !.now = r] \in WorkerState
      BY ZenonT(60), <1>1, <1>2, <3>1 DEF WorkerState, Pc
    <3>5. at' \in [Worker -> WorkerState] /\ claim' \in [Issue -> Worker \cup {None}]
      <4>1. CASE Judged(w, [at[w] EXCEPT !.read[c] = r])
        BY <3>2, <4>1, JudgedTyped
      <4>2. CASE Judged(w, [[at[w] EXCEPT !.read[c] = r] EXCEPT !.byHand = TRUE])
        BY <3>3, <4>2, JudgedTyped
      <4>3. CASE Go(w, [[at[w] EXCEPT !.read[c] = r] EXCEPT !.pc = "merged", !.now = r])
                 /\ UNCHANGED claim
        BY <1>1, <3>4, <4>3 DEF Go
      <4> QED
        BY <2>2, <4>1, <4>2, <4>3
    <3> QED
      BY <1>3, <3>5, TypeKept DEF CheckRead
  <2> QED
    BY <1>3, <2>1, <2>2 DEF CheckRead
<1>4. CASE FinalizeMerged(w)
  <2>1. at[w].now \in Reading /\ at[w].read[c] \in Reading
    BY <1>4 DEF FinalizeMerged, LocalOK, Shape
  <2>2. [at[w] EXCEPT !.read[c].label = "done"] \in WorkerState
    <3>1. [at[w].read[c] EXCEPT !.label = "done"] \in Reading
      BY <2>1 DEF Reading, Workflow
    <3>2. at[w].read \in [Child -> Reading \cup {None}]
      BY <1>1 DEF WorkerState
    <3>3. [at[w].read EXCEPT ![c] = [at[w].read[c] EXCEPT !.label = "done"]]
             \in [Child -> Reading \cup {None}]
      BY <1>2, <3>1, <3>2
    <3>4. [at[w].read EXCEPT ![c].label = "done"] \in [Child -> Reading \cup {None}]
      BY <1>2, <3>1, <3>2
    <3> QED
      BY ZenonT(60), <1>1, <1>2, <3>4 DEF WorkerState
  <2>3. at' \in [Worker -> WorkerState] /\ claim' \in [Issue -> Worker \cup {None}]
    BY <1>4, <2>2, JudgedTyped DEF FinalizeMerged
  <2>4. Replaced(at[w].now, "done") \in SUBSET Label
    BY <2>1, ReplacedTyped DEF Workflow
  <2>5. labels' \in [Issue -> SUBSET Label]
    BY <1>4, <2>4 DEF FinalizeMerged, TypeOK
  <2> QED
    BY <1>4, <2>3, <2>5 DEF FinalizeMerged, TypeOK, WorkerState
<1> QED
  BY <1>3, <1>4

\* Steps that leave, or go on with what they read put in one field.
LEMMA TypeWalk ==
    ASSUME TypeOK, NEW w \in Worker, LocalOK(w, at[w]),
           \/ Vouch(w) \/ ReleaseDone(w) \/ ReadToRelease(w) \/ Licence(w)
           \/ LastAsk(w) \/ Moved(w) \/ Skip(w)
           \/ \E c \in Child : ClaimChild(w, c) \/ ReadAgain(w, c) \/ ReleaseNext(w, c)
    PROVE  TypeOK'
<1> USE DEF github, ghosts, budget
<1>1. at \in [Worker -> WorkerState] /\ claim \in [Issue -> Worker \cup {None}]
  BY DEF TypeOK, WorkerState
<1>2. ASSUME Leave(w), UNCHANGED <<github, latched, ghosts, budget>> PROVE TypeOK'
  BY <1>2, LeaveTyped, TypeKept
<1>3. ASSUME NEW s \in WorkerState, Go(w, s), claim' = claim,
             UNCHANGED <<github, latched, ghosts, budget>>
      PROVE  TypeOK'
  <2>1. at' \in [Worker -> WorkerState]
    BY <1>1, <1>3 DEF Go
  <2> QED
    BY <1>1, <1>3, <2>1, TypeKept
<1>4. ASSUME Vouch(w) PROVE TypeOK'
  <2>1. [Idle EXCEPT !.pc = "release", !.cur = Parent, !.todo = at[w].todo] \in WorkerState
    BY ZenonT(60), <1>1 DEF Idle, WorkerState, Pc, Issue
  <2>2. CASE Go(w, [Idle EXCEPT !.pc = "release", !.cur = Parent, !.todo = at[w].todo])
             /\ UNCHANGED <<github, claim>>
    BY <1>3, <1>4, <2>1, <2>2 DEF Vouch
  <2>3. CASE Leave(w) /\ UNCHANGED github
    BY <1>2, <1>4, <2>3 DEF Vouch
  <2>4. CASE /\ record' = [record EXCEPT !.awaiting = TRUE]
             /\ Leave(w)
             /\ UNCHANGED <<labels, open, owed>>
    BY <1>4, <2>4, LeaveTyped DEF Vouch, TypeOK, WorkerState
  <2> QED
    BY <1>4, <2>2, <2>3, <2>4 DEF Vouch
<1>5. ASSUME ReleaseDone(w) \/ Skip(w) PROVE TypeOK'
  BY <1>2, <1>5 DEF ReleaseDone, Skip
<1>6. ASSUME ReadToRelease(w) PROVE TypeOK'
  <2>1. at[w].cur \in Child
    BY <1>6 DEF ReadToRelease, LocalOK, Shape
  <2>2. [at[w] EXCEPT !.pc = "release", !.cur = Parent] \in WorkerState
    BY ZenonT(60), <1>1 DEF WorkerState, Pc, Issue
  <2>3. ASSUME NEW r \in Readings(at[w].cur)
        PROVE  [at[w] EXCEPT !.pc = "licence", !.now = r] \in WorkerState
    <3>1. r \in Reading
      BY <2>1, ReadingsTyped DEF Issue
    <3> QED
      BY ZenonT(60), <1>1, <3>1 DEF WorkerState, Pc
  <2> QED
    BY <1>3, <1>6, <2>2, <2>3 DEF ReadToRelease
<1>7. ASSUME Licence(w) \/ LastAsk(w) PROVE TypeOK'
  <2>1. /\ [at[w] EXCEPT !.pc = "ask"] \in WorkerState
        /\ [at[w] EXCEPT !.pc = "add"] \in WorkerState
    BY ZenonT(60), <1>1 DEF WorkerState, Pc
  <2> QED
    BY <1>2, <1>3, <1>7, <2>1 DEF Licence, LastAsk
<1>8. ASSUME Moved(w) PROVE TypeOK'
  <2>1. [at[w] EXCEPT !.pc = IF at[w].cur = Parent THEN "write" ELSE "release",
            !.cur = Parent, !.now = None] \in WorkerState
    BY ZenonT(60), <1>1 DEF WorkerState, Pc, Issue
  <2> QED
    BY <1>3, <1>8, <2>1 DEF Moved
<1>9. ASSUME NEW c \in Child, ClaimChild(w, c) PROVE TypeOK'
  <2>1. CASE claim[c] = None
    <3>1. claim' \in [Issue -> Worker \cup {None}] /\ at' = at
      BY <1>1, <1>9, <2>1 DEF ClaimChild
    <3> QED
      BY <1>1, <1>9, <3>1, TypeKept DEF ClaimChild
  <2>2. CASE claim[c] # None
    BY <1>2, <1>9, <2>2 DEF ClaimChild
  <2> QED
    BY <2>1, <2>2
<1>10. ASSUME NEW c \in Child, ReadAgain(w, c) PROVE TypeOK'
  <2>1. ASSUME NEW r \in Readings(c)
        PROVE  [at[w] EXCEPT !.read[c] = r] \in WorkerState
    <3>1. r \in Reading
      BY ReadingsTyped DEF Issue
    <3> QED
      BY ZenonT(60), <1>1, <3>1 DEF WorkerState
  <2> QED
    BY <1>2, <1>3, <1>10, <2>1 DEF ReadAgain
<1>11. ASSUME NEW c \in Child, ReleaseNext(w, c) PROVE TypeOK'
  <2>1. [at[w] EXCEPT !.pc = "reread", !.cur = c, !.todo = @ \ {c}] \in WorkerState
    BY ZenonT(60), <1>1 DEF WorkerState, Pc, Issue
  <2> QED
    BY <1>2, <1>3, <1>11, <2>1 DEF ReleaseNext
<1> QED
  BY <1>4, <1>5, <1>6, <1>7, <1>8, <1>9, <1>10, <1>11

\* Steps that write a label or the record, and the child's own.
LEMMA TypeWrites ==
    ASSUME TypeOK, NEW w \in Worker, LocalOK(w, at[w]),
           \/ AddReady(w) \/ Unheld(w) \/ RetireAttempt(w) \/ ReadParent(w)
           \/ WriteParent(w) \/ FetchReady(w) \/ Start(w) \/ Merge(w) \/ Fail(w)
           \/ \E l \in Workflow : TakeOff(w, l)
    PROVE  TypeOK'
<1> USE DEF github, ghosts, budget
<1>1. at \in [Worker -> WorkerState] /\ claim \in [Issue -> Worker \cup {None}]
  BY DEF TypeOK, WorkerState
<1>2. ASSUME Leave(w), UNCHANGED <<github, latched, ghosts, budget>> PROVE TypeOK'
  BY <1>2, LeaveTyped, TypeKept
<1>3. ASSUME NEW s \in WorkerState, Go(w, s), claim' = claim,
             UNCHANGED <<github, latched, ghosts, budget>>
      PROVE  TypeOK'
  <2>1. at' \in [Worker -> WorkerState]
    BY <1>1, <1>3 DEF Go
  <2> QED
    BY <1>1, <1>3, <2>1, TypeKept
<1>4. ASSUME AddReady(w) PROVE TypeOK'
  <2>1. [at[w] EXCEPT !.pc = "remove",
            !.left = (at[w].now.labels \cap Workflow) \ {"ready"}] \in WorkerState
    BY ZenonT(60), <1>1 DEF WorkerState, Pc
  <2>2. at' \in [Worker -> WorkerState]
    BY <1>1, <1>4, <2>1 DEF AddReady, Go
  <2>3. late' \in Nat
    BY <1>4 DEF AddReady, TypeOK
  <2>4. labels' \in [Issue -> SUBSET Label]
    BY <1>4 DEF AddReady, TypeOK, Label, Workflow
  <2> QED
    BY <1>4, <2>2, <2>3, <2>4 DEF AddReady, TypeOK, WorkerState
<1>5. ASSUME Unheld(w) PROVE TypeOK'
  <2>1. [at[w] EXCEPT !.pc = IF record.attempt THEN "retire" ELSE "current"] \in WorkerState
    BY ZenonT(60), <1>1 DEF WorkerState, Pc
  <2> QED
    BY <1>2, <1>3, <1>5, <2>1 DEF Unheld
<1>6. ASSUME RetireAttempt(w) PROVE TypeOK'
  <2>1. [at[w] EXCEPT !.pc = "current"] \in WorkerState
    BY ZenonT(60), <1>1 DEF WorkerState, Pc
  <2>2. at' \in [Worker -> WorkerState]
    BY <1>1, <1>6, <2>1 DEF RetireAttempt, Go
  <2> QED
    BY <1>6, <2>2 DEF RetireAttempt, TypeOK, WorkerState
<1>7. ASSUME ReadParent(w) PROVE TypeOK'
  <2>1. ASSUME NEW r \in Readings(Parent)
        PROVE  [at[w] EXCEPT !.pc = "add", !.now = r] \in WorkerState
    <3>1. r \in Reading
      BY ReadingsTyped DEF Issue
    <3> QED
      BY ZenonT(60), <1>1, <3>1 DEF WorkerState, Pc
  <2> QED
    BY <1>2, <1>3, <1>7, <2>1 DEF ReadParent
<1>8. ASSUME WriteParent(w) PROVE TypeOK'
  BY <1>8, LeaveTyped DEF WriteParent, TypeOK, WorkerState
<1>9. ASSUME FetchReady(w) PROVE TypeOK'
  <2>1. at[w].cur \in Issue
    BY <1>9 DEF FetchReady, LocalOK, Claims
  <2>2. ASSUME NEW r \in Readings(at[w].cur)
        PROVE  [at[w] EXCEPT !.pc = "put", !.now = r] \in WorkerState
    <3>1. r \in Reading
      BY <2>1, ReadingsTyped
    <3> QED
      BY ZenonT(60), <1>1, <3>1 DEF WorkerState, Pc
  <2> QED
    BY <1>2, <1>3, <1>9, <2>2 DEF FetchReady
<1>10. ASSUME Start(w) PROVE TypeOK'
  <2>1. Replaced(at[w].now, "implementing") \in SUBSET Label
    BY <1>10, ReplacedTyped DEF Start, LocalOK, Shape, Workflow
  <2>2. /\ labels' \in [Issue -> SUBSET Label]
        /\ starts' \in [Child -> Nat]
    <3>1. labels' = [labels EXCEPT ![at[w].cur] = Replaced(at[w].now, "implementing")]
      BY <1>10 DEF Start
    <3>2. labels' \in [Issue -> SUBSET Label]
      BY <2>1, <3>1 DEF TypeOK
    <3>3. starts' = [starts EXCEPT ![at[w].cur] = @ + 1]
      BY <1>10 DEF Start
    <3>4. at[w].cur \in Child
      BY <1>10 DEF Start, LocalOK, Shape
    <3>5. starts \in [Child -> Nat]
      BY DEF TypeOK
    <3>6. starts' \in [Child -> Nat]
      BY <3>3, <3>4, <3>5
    <3> QED
      BY <3>2, <3>6
  <2>3. at' \in [Worker -> WorkerState] /\ claim' \in [Issue -> Worker \cup {None}]
    BY <1>10, LeaveTyped DEF Start
  <2>4. UNCHANGED <<open, record, owed, latched, late, budget>>
    BY <1>10 DEF Start
  <2> QED
    BY <2>2, <2>3, <2>4 DEF TypeOK, WorkerState
<1>11. ASSUME Merge(w) PROVE TypeOK'
  <2>1. Replaced(at[w].now, "done") \in SUBSET Label
    BY <1>11, ReplacedTyped DEF Merge, LocalOK, Shape, Workflow
  <2>2. /\ labels' \in [Issue -> SUBSET Label]
        /\ open' \in [Issue -> BOOLEAN]
    BY <1>11, <2>1 DEF Merge, TypeOK
  <2> QED
    BY <1>11, <2>2, LeaveTyped DEF Merge, TypeOK, WorkerState
<1>12. ASSUME Fail(w) PROVE TypeOK'
  <2>1. fails' \in 0..MaxFails
    BY <1>12, BoundAssumption DEF Fail, TypeOK
  <2> QED
    BY <1>12, <2>1, LeaveTyped DEF Fail, TypeOK, WorkerState
<1>13. ASSUME NEW l \in Workflow, TakeOff(w, l) PROVE TypeOK'
  <2>1. [at[w] EXCEPT !.left = @ \ {l}] \in WorkerState
    BY ZenonT(60), <1>1 DEF WorkerState
  <2>2. at' \in [Worker -> WorkerState]
    BY <1>1, <1>13, <2>1 DEF TakeOff, Go
  <2>3. labels' \in [Issue -> SUBSET Label]
    BY <1>13 DEF TakeOff, TypeOK
  <2> QED
    BY <1>13, <2>2, <2>3 DEF TakeOff, TypeOK, WorkerState
<1> QED
  BY <1>4, <1>5, <1>6, <1>7, <1>8, <1>9, <1>10, <1>11, <1>12, <1>13

LEMMA TypeHuman ==
    ASSUME TypeOK, Human \/ ObserveClose
    PROVE  TypeOK'
<1> USE DEF github, ghosts, budget
<1>1. ASSUME Human PROVE acts' \in 0..MaxActs
  BY <1>1, BoundAssumption DEF Human, ByHand, ToggleHold, CloseByHand, ReadyByHand,
     SettleByHand, EditRecord, TypeOK
<1>2. ASSUME NEW i \in Issue, ToggleHold(i), acts' \in 0..MaxActs PROVE TypeOK'
  <2>1. labels' \in [Issue -> SUBSET Label]
    BY <1>2 DEF ToggleHold, TypeOK, Label
  <2> QED
    BY <1>2, <2>1 DEF ToggleHold, ByHand, TypeOK
<1>3. ASSUME NEW i \in Issue, CloseByHand(i), acts' \in 0..MaxActs PROVE TypeOK'
  BY <1>3 DEF CloseByHand, ByHand, TypeOK
<1>4. ASSUME NEW c \in Child, ReadyByHand(c), acts' \in 0..MaxActs PROVE TypeOK'
  <2>1. PICK old \in {{}, {"blocked"}} :
           labels' = [labels EXCEPT ![c] = (@ \ old) \cup {"ready"}]
    BY <1>4 DEF ReadyByHand
  <2>2. labels' \in [Issue -> SUBSET Label]
    BY <2>1 DEF TypeOK, Label, Workflow, Issue
  <2> QED
    BY <1>4, <2>2 DEF ReadyByHand, ByHand, TypeOK
<1>5. ASSUME NEW c \in Child, SettleByHand(c), acts' \in 0..MaxActs PROVE TypeOK'
  <2>1. labels' \in [Issue -> SUBSET Label]
    BY <1>5 DEF SettleByHand, TypeOK, Label, Workflow, Issue
  <2> QED
    BY <1>5, <2>1 DEF SettleByHand, ByHand, TypeOK
<1>6. ASSUME NEW c \in Child, EditRecord(c), acts' \in 0..MaxActs PROVE TypeOK'
  <2>1. owed' \in [Child -> {"whole", "lapsed", "refused"}]
    BY <1>6 DEF EditRecord, TypeOK
  <2> QED
    BY <1>6, <2>1 DEF EditRecord, ByHand, TypeOK
<1>7. ASSUME ObserveClose PROVE TypeOK'
  BY <1>7 DEF ObserveClose, TypeOK
<1> QED
  BY <1>1, <1>2, <1>3, <1>4, <1>5, <1>6, <1>7 DEF Human

-----------------------------------------------------------------------------
(***************************************************************************)
(* The steps.  What holds of the other workers rests on their claims: a    *)
(* step of w takes free claims and gives up its own.                       *)
(***************************************************************************)
\* A step that moves one dispatch, claims, and the record's attempt downwards.
LEMMA Kept ==
    ASSUME IInv, TypeOK', NEW w \in Worker,
           \A v \in Worker : v # w => at'[v] = at[v],
           \A i \in Issue : claim'[i] = claim[i] \/ claim[i] \in {w, None},
           UNCHANGED <<labels, latched, starts, late>>,
           record'.attempt => record.attempt,
           LocalOK(w, at[w])',
           at'[w].pc = "add" /\ at'[w].cur \in Child => ~latched
    PROVE  IInv'
<1>1. ASSUME NEW v \in Worker, v # w PROVE LocalOK(v, at[v])'
  <2>1. LocalOK(v, at[v]) /\ at'[v] = at[v]
    BY <1>1 DEF IInv
  <2>2. \A i \in Issue : claim[i] = v => claim'[i] = v
    BY <1>1, NoneAssumption
  <2>3. Claims(v, at[v])'
    <3>1. at[v].todo \subseteq Child
      BY DEF IInv, TypeOK
    <3>2. Claims(v, at[v])
      BY <2>1 DEF LocalOK
    <3>3. at[v].pc # "idle" => at[v].cur \in Issue /\ claim'[at[v].cur] = v
      BY <2>2, <3>2 DEF Claims
    <3>4. at[v].pc \in WalkPc => claim'[Parent] = v
      BY <2>2, <3>2 DEF Claims, Issue
    <3>5. at[v].pc \in {"release", "reread", "licence", "ask", "add", "remove",
                        "unheld", "retire", "current"} =>
             \A c \in at[v].todo : claim'[c] = v
      BY <2>2, <3>1, <3>2 DEF Claims, Issue
    <3> QED
      BY <2>1, <3>3, <3>4, <3>5 DEF Claims
  <2>4. (Shape(at[v]) /\ Relabel(at[v]) /\ Unstarted(at[v]))'
    BY <2>1 DEF LocalOK, Shape, Relabel, Unstarted
  <2>5. Retired(at[v])'
    BY <2>1 DEF LocalOK, Retired
  <2> QED
    BY <2>3, <2>4, <2>5 DEF LocalOK
<1>2. LabelsOK' /\ StartsOK'
  BY DEF IInv, LabelsOK, StartsOK
<1>3. LateOK'
  <2>1. LateOK
    BY DEF IInv
  <2>2. late' <= 1 /\ (~latched' => late' = 0)
    BY <2>1 DEF LateOK
  <2>3. ASSUME late' = 1, NEW v \in Worker, at'[v].pc = "add", at'[v].cur \in Child
        PROVE  FALSE
    <3>1. latched /\ late = 1
      BY <2>1, <2>3 DEF LateOK, IInv, TypeOK
    <3>2. CASE v # w
      BY <2>1, <2>3, <3>1, <3>2 DEF LateOK
    <3>3. CASE v = w
      BY <2>3, <3>1, <3>3
    <3> QED
      BY <3>2, <3>3
  <2> QED
    BY <2>2, <2>3 DEF LateOK
<1> QED
  BY <1>1, <1>2, <1>3 DEF IInv

\* A dispatch that ends.
LEMMA LeaveKept ==
    ASSUME IInv, TypeOK', NEW w \in Worker, Leave(w),
           UNCHANGED <<labels, latched, starts, late>>,
           record'.attempt => record.attempt
    PROVE  IInv'
<1>1. at \in [Worker -> WorkerState]
  BY DEF IInv, TypeOK, WorkerState
<1>2. at'[w] = Idle /\ \A v \in Worker : v # w => at'[v] = at[v]
  BY <1>1 DEF Leave, Go
<1>3. \A i \in Issue : claim'[i] = claim[i] \/ claim[i] \in {w, None}
  BY DEF Leave
<1>4. LocalOK(w, at[w])'
  BY <1>2 DEF LocalOK, Claims, Shape, Relabel, Unstarted, Retired, Idle, WalkPc
<1>5. at'[w].pc # "add"
  BY <1>2 DEF Idle
<1> QED
  BY <1>2, <1>3, <1>4, <1>5, Kept

\* A dispatch that goes on to s, its claims as they were.
LEMMA GoKept ==
    ASSUME IInv, TypeOK', NEW w \in Worker,
           \A v \in Worker : v # w => at'[v] = at[v],
           UNCHANGED <<labels, claim, latched, starts, late>>,
           record'.attempt => record.attempt,
           LocalOK(w, at[w])',
           at'[w].pc = "add" /\ at'[w].cur \in Child => ~latched
    PROVE  IInv'
  BY Kept

-----------------------------------------------------------------------------
LEMMA DispatchKept ==
    ASSUME IInv, TypeOK', NEW w \in Worker, NEW i \in Issue, Dispatch(w, i)
    PROVE  IInv'
<1>1. at \in [Worker -> WorkerState] /\ claim \in [Issue -> Worker \cup {None}]
  BY DEF IInv, TypeOK, WorkerState
<1>2. PICK r \in Readings(i) :
          Go(w, [Idle EXCEPT !.pc = Route(i, r), !.cur = i, !.now = r])
  BY DEF Dispatch
<1>3. r \in Reading /\ r.label \in labels[i] \cap Workflow
  BY ReadingsRead DEF IInv
<1>4. /\ at'[w] = [Idle EXCEPT !.pc = Route(i, r), !.cur = i, !.now = r]
      /\ \A v \in Worker : v # w => at'[v] = at[v]
  BY <1>1, <1>2 DEF Go
<1>5. /\ at'[w].pc = Route(i, r) /\ at'[w].cur = i /\ at'[w].now = r /\ at'[w].todo = {}
  BY <1>4 DEF Idle
<1>6. /\ Route(i, r) \in {"skip", "scan", "fetch", "end"}
      /\ Route(i, r) = "scan" => i = Parent
      /\ Route(i, r) \in {"fetch", "end"} => i \in Child
      /\ Route(i, r) = "fetch" => r.label = "ready"
  BY DEF Route
<1>7. claim'[i] = w /\ \A j \in Issue : claim'[j] = claim[j] \/ claim[j] \in {w, None}
  BY <1>1 DEF Dispatch
<1>8. Claims(w, at[w])'
  BY <1>5, <1>6, <1>7 DEF Claims, WalkPc
<1>9. Shape(at[w])' /\ Relabel(at[w])' /\ Retired(at[w])'
  BY <1>3, <1>5, <1>6 DEF Shape, Relabel, Retired
<1>10. Unstarted(at[w])'
  <2>1. Route(i, r) = "fetch" => starts[i] = 0
    BY <1>3, <1>6 DEF IInv, StartsOK
  <2> QED
    BY <1>5, <1>6, <2>1 DEF Unstarted, Dispatch, ghosts
<1>11. LocalOK(w, at[w])'
  BY <1>8, <1>9, <1>10 DEF LocalOK
<1> QED
  BY <1>4, <1>5, <1>6, <1>7, <1>11, Kept DEF Dispatch, github, ghosts

LEMMA ScanKept ==
    ASSUME IInv, TypeOK', NEW w \in Worker,
           \/ ParkRejected(w) \/ NoneRejected(w) \/ ParkClosed(w) \/ Decide(w)
           \/ \E c \in Child : Scan(w, c) \/ CheckClaimed(w, c)
    PROVE  IInv'
<1> USE DEF github, ghosts
<1>1. at \in [Worker -> WorkerState] /\ claim \in [Issue -> Worker \cup {None}]
  BY DEF IInv, TypeOK, WorkerState
<1>2. LocalOK(w, at[w])
  BY DEF IInv
<1>3. ASSUME ParkRejected(w) \/ ParkClosed(w) PROVE IInv'
  <2>1. record'.attempt = record.attempt
    BY <1>3 DEF ParkRejected, ParkClosed, Park, IInv, TypeOK
  <2> QED
    BY <1>3, <2>1, LeaveKept DEF ParkRejected, ParkClosed, Park
<1>4. ASSUME /\ at'[w].cur = Parent /\ at[w].pc \in WalkPc
             /\ at'[w].pc \in {"scan", "check", "choosing", "unheld"}
             /\ at'[w].pc = "unheld" => at'[w].todo = {}
             /\ \A v \in Worker : v # w => at'[v] = at[v],
             UNCHANGED <<labels, record, latched, claim, starts, late>>
      PROVE  IInv'
  <2>1. claim'[Parent] = w
    BY <1>2, <1>4 DEF LocalOK, Claims
  <2>2. LocalOK(w, at[w])'
    BY <1>4, <2>1 DEF LocalOK, Claims, Shape, Relabel, Unstarted, Retired, WalkPc, Issue
  <2> QED
    BY <1>4, <2>2, GoKept
<1>5. ASSUME NoneRejected(w) PROVE IInv'
  <2>1. at[w].pc = "scan" /\ at[w].cur = Parent
    BY <1>2, <1>5 DEF NoneRejected, LocalOK, Shape
  <2>2. /\ at'[w].pc = "check" /\ at'[w].cur = Parent
        /\ \A v \in Worker : v # w => at'[v] = at[v]
    BY <1>1, <1>5, <2>1 DEF NoneRejected, Go, WorkerState
  <2> QED
    BY <1>4, <1>5, <2>1, <2>2 DEF NoneRejected, WalkPc, Pc
<1>6. ASSUME Decide(w) PROVE IInv'
  <2>1. /\ at'[w].pc \in {"choosing", "unheld"} /\ at'[w].cur = Parent
        /\ at'[w].pc = "unheld" => at'[w].todo = {}
        /\ \A v \in Worker : v # w => at'[v] = at[v]
    BY ZenonT(60), <1>1, <1>6 DEF Decide, Go, Idle
  <2> QED
    BY <1>4, <1>6, <2>1 DEF Decide, WalkPc, Pc
<1>7. ASSUME NEW c \in Child, Scan(w, c) PROVE IInv'
  <2>1. at[w].pc = "scan" /\ at[w].cur = Parent
    BY <1>2, <1>7 DEF Scan, LocalOK, Shape
  <2>2. /\ at'[w].pc = "scan" /\ at'[w].cur = Parent
        /\ \A v \in Worker : v # w => at'[v] = at[v]
    BY <1>1, <1>7, <2>1 DEF Scan, Go, WorkerState
  <2> QED
    BY <1>4, <1>7, <2>1, <2>2 DEF Scan, WalkPc, Pc
<1>8. ASSUME NEW c \in Child, CheckClaimed(w, c) PROVE IInv'
  <2>1. at[w].pc = "check" /\ at[w].cur = Parent /\ claim[Parent] = w
    BY <1>2, <1>8 DEF CheckClaimed, LocalOK, Shape, Claims, WalkPc, Pc
  <2>2. CASE claim[c] = None
    <3>1. claim' = [claim EXCEPT ![c] = w]
      BY <1>8, <2>2 DEF CheckClaimed
    <3>2. Go(w, [at[w] EXCEPT !.pc = "checking", !.cur = c, !.todo = @ \ {c}])
      BY <1>8, <2>2 DEF CheckClaimed
    <3>3. /\ at'[w].pc = "checking" /\ at'[w].cur = c
          /\ \A v \in Worker : v # w => at'[v] = at[v]
      BY <1>1, <3>2 DEF Go, WorkerState
    <3>4. claim'[Parent] = w /\ claim'[c] = w
      BY <1>1, <2>1, <3>1, ParentAssumption DEF Issue
    <3>5. \A i \in Issue : claim'[i] = claim[i] \/ claim[i] \in {w, None}
      BY <1>1, <2>2, <3>1
    <3>6. LocalOK(w, at[w])'
      BY <3>3, <3>4 DEF LocalOK, Claims, Shape, Relabel, Unstarted, Retired, WalkPc, Issue
    <3> QED
      BY <1>8, <3>3, <3>5, <3>6, Kept DEF CheckClaimed
  <2>3. CASE claim[c] # None
    <3>1. Go(w, [at[w] EXCEPT !.todo = @ \ {c}])
      BY <1>8, <2>3 DEF CheckClaimed
    <3>2. /\ at'[w].pc = "check" /\ at'[w].cur = Parent
          /\ \A v \in Worker : v # w => at'[v] = at[v]
      BY <1>1, <2>1, <3>1 DEF Go, WorkerState
    <3> QED
      BY <1>4, <1>8, <2>1, <2>3, <3>2 DEF CheckClaimed, WalkPc, Pc
  <2> QED
    BY <2>2, <2>3
<1> QED
  BY <1>3, <1>5, <1>6, <1>7, <1>8

\* A child's whole set of workflow labels replaced by one stage past `ready`,
\* by the worker that holds the child's claim.
LEMMA ReplacedKept ==
    ASSUME IInv, TypeOK', NEW w \in Worker, NEW c \in Child, claim[c] = w,
           \A v \in Worker : v # w => at'[v] = at[v],
           \A i \in Issue : claim'[i] = claim[i] \/ claim[i] \in {w, None},
           UNCHANGED <<record, latched, late>>,
           \A i \in Issue : i # c => labels'[i] = labels[i],
           NEW l \in Workflow \ {"blocked", "ready"}, labels'[c] \cap Workflow = {l},
           \A d \in Child : d # c => starts'[d] = starts[d],
           starts'[c] <= 1,
           LocalOK(w, at[w])',
           at'[w].pc # "add"
    PROVE  IInv'
<1>1. ASSUME NEW v \in Worker, v # w PROVE LocalOK(v, at[v])'
  <2>1. LocalOK(v, at[v]) /\ at'[v] = at[v]
    BY <1>1 DEF IInv
  <2>2. \A i \in Issue : claim[i] = v => claim'[i] = v
    BY <1>1, NoneAssumption
  <2>3. Claims(v, at[v])'
    <3>1. at[v].todo \subseteq Child
      BY DEF IInv, TypeOK
    <3>2. Claims(v, at[v])
      BY <2>1 DEF LocalOK
    <3>3. at[v].pc # "idle" => at[v].cur \in Issue /\ claim'[at[v].cur] = v
      BY <2>2, <3>2 DEF Claims
    <3>4. at[v].pc \in WalkPc => claim'[Parent] = v
      BY <2>2, <3>2 DEF Claims, Issue
    <3>5. at[v].pc \in {"release", "reread", "licence", "ask", "add", "remove",
                        "unheld", "retire", "current"} =>
             \A d \in at[v].todo : claim'[d] = v
      BY <2>2, <3>1, <3>2 DEF Claims, Issue
    <3> QED
      BY <2>1, <3>3, <3>4, <3>5 DEF Claims
  <2>4. Shape(at[v])' /\ Retired(at[v])'
    BY <2>1 DEF LocalOK, Shape, Retired
  <2>5. at[v].pc # "idle" => at[v].cur # c
    BY <1>1, <2>1 DEF LocalOK, Claims
  <2>6. Relabel(at[v])'
    <3>1. Relabel(at[v]) /\ (at[v].pc # "idle" => at[v].cur \in Issue)
      BY <2>1 DEF LocalOK, Claims
    <3> QED
      BY <2>1, <2>5, <3>1 DEF Relabel
  <2>7. Unstarted(at[v])'
    <3>1. Unstarted(at[v])
      BY <2>1 DEF LocalOK
    <3>2. at[v].pc \in {"fetch", "put"} => at[v].cur \in Child
      BY <2>1 DEF LocalOK, Shape
    <3> QED
      BY <2>1, <2>5, <3>1, <3>2 DEF Unstarted
  <2> QED
    BY <2>3, <2>4, <2>6, <2>7 DEF LocalOK
<1>2. labels'[c] \cap {"blocked", "ready"} = {} /\ l \in labels'[c]
  BY DEF Workflow
<1>3. LabelsOK'
  <2>1. LabelsOK /\ Parent # c
    BY ParentAssumption DEF IInv
  <2> QED
    BY <1>2, <2>1 DEF LabelsOK, Issue
<1>4. StartsOK'
  BY <1>2 DEF IInv, StartsOK, Issue
<1>5. LateOK'
  <2>1. LateOK
    BY DEF IInv
  <2> QED
    BY <2>1 DEF LateOK
<1> QED
  BY <1>1, <1>3, <1>4, <1>5 DEF IInv

LEMMA ReplacedAlone ==
    ASSUME NEW r \in Reading, NEW l \in Workflow
    PROVE  Replaced(r, l) \cap Workflow = {l}
  BY DEF Replaced

LEMMA CheckKept ==
    ASSUME IInv, TypeOK', NEW w \in Worker, CheckRead(w) \/ FinalizeMerged(w)
    PROVE  IInv'
<1> USE DEF github, ghosts
<1> DEFINE c == at[w].cur
<1>1. at \in [Worker -> WorkerState] /\ claim \in [Issue -> Worker \cup {None}]
  BY DEF IInv, TypeOK, WorkerState
<1>2. LocalOK(w, at[w])
  BY DEF IInv
<1>3. at[w].pc \in {"checking", "merged"} /\ c \in Child /\ c # Parent
  BY <1>2, ParentAssumption DEF CheckRead, FinalizeMerged, LocalOK, Shape
<1>4. claim[c] = w /\ claim[Parent] = w
  BY <1>2, <1>3 DEF LocalOK, Claims, WalkPc, Pc
<1>5. ASSUME NEW s \in WorkerState, Judged(w, s)
      PROVE  /\ \A v \in Worker : v # w => at'[v] = at[v]
             /\ \A i \in Issue : claim'[i] = claim[i] \/ claim[i] \in {w, None}
             /\ LocalOK(w, at[w])'
             /\ at'[w].pc # "add"
  <2>1. /\ at'[w].pc = "check" /\ at'[w].cur = Parent
        /\ \A v \in Worker : v # w => at'[v] = at[v]
    BY <1>1, <1>5 DEF Judged, Go, WorkerState
  <2>2. claim' = [claim EXCEPT ![c] = None]
    BY <1>5 DEF Judged
  <2>3. \A i \in Issue : claim'[i] = claim[i] \/ claim[i] \in {w, None}
    BY <1>1, <1>4, <2>2
  <2>4. claim'[Parent] = w
    BY <1>1, <1>3, <1>4, <2>2 DEF Issue
  <2>5. LocalOK(w, at[w])'
    BY <2>1, <2>4 DEF LocalOK, Claims, Shape, Relabel, Unstarted, Retired, WalkPc, Issue
  <2> QED
    BY <2>1, <2>3, <2>5
<1>6. CASE CheckRead(w)
  <2>1. UNCHANGED <<labels, record, latched, starts, late>>
    BY <1>6 DEF CheckRead
  <2>2. ASSUME NEW s \in WorkerState, Judged(w, s) PROVE IInv'
    BY <1>5, <2>1, <2>2, Kept
  <2>3. ASSUME NEW r \in Readings(c),
               Go(w, [[at[w] EXCEPT !.read[c] = r] EXCEPT !.pc = "merged", !.now = r]),
               UNCHANGED claim
        PROVE  IInv'
    <3>1. r \in Reading
      BY <1>3, ReadingsTyped DEF Issue, IInv
    <3>2. at[w].read \in [Child -> Reading \cup {None}]
      BY <1>1 DEF WorkerState
    <3>3. /\ at'[w].pc = "merged" /\ at'[w].cur = c /\ at'[w].now = r
          /\ at'[w].read = [at[w].read EXCEPT ![c] = r]
          /\ \A v \in Worker : v # w => at'[v] = at[v]
      BY <1>1, <2>3 DEF Go, WorkerState
    <3>4. at'[w].read[c] = r
      BY <1>3, <3>2, <3>3
    <3>5. LocalOK(w, at[w])'
      BY <1>3, <1>4, <2>3, <3>1, <3>3, <3>4
         DEF LocalOK, Claims, Shape, Relabel, Unstarted, Retired, WalkPc, Issue
    <3> QED
      BY <2>1, <2>3, <3>3, <3>5, GoKept
  <2>4. ASSUME NEW r \in Readings(c)
        PROVE  /\ [at[w] EXCEPT !.read[c] = r] \in WorkerState
               /\ [[at[w] EXCEPT !.read[c] = r] EXCEPT !.byHand = TRUE] \in WorkerState
    <3>1. r \in Reading
      BY <1>3, ReadingsTyped DEF Issue, IInv
    <3> QED
      BY ZenonT(60), <1>1, <1>3, <3>1 DEF WorkerState
  <2> QED
    BY <1>1, <1>6, <2>2, <2>3, <2>4 DEF CheckRead
<1>7. CASE FinalizeMerged(w)
  <2>1. at[w].now \in Reading /\ at[w].read[c] \in Reading
    BY <1>2, <1>7 DEF FinalizeMerged, LocalOK, Shape
  <2>2. [at[w] EXCEPT !.read[c].label = "done"] \in WorkerState
    <3>1. at[w].read \in [Child -> Reading \cup {None}]
      BY <1>1 DEF WorkerState
    <3>2. [at[w].read[c] EXCEPT !.label = "done"] \in Reading
      BY <2>1 DEF Reading, Workflow
    <3>3. [at[w].read EXCEPT ![c].label = "done"] \in [Child -> Reading \cup {None}]
      BY <1>3, <3>1, <3>2
    <3> QED
      BY ZenonT(60), <1>1, <1>3, <3>3 DEF WorkerState
  <2>3. Judged(w, [at[w] EXCEPT !.read[c].label = "done"])
    BY <1>7 DEF FinalizeMerged
  <2>4. labels' = [labels EXCEPT ![c] = Replaced(at[w].now, "done")]
    BY <1>7 DEF FinalizeMerged
  <2>5. /\ \A i \in Issue : i # c => labels'[i] = labels[i]
        /\ labels'[c] \cap Workflow = {"done"}
    <3>1. labels \in [Issue -> SUBSET Label]
      BY DEF IInv, TypeOK
    <3>2. Replaced(at[w].now, "done") \cap Workflow = {"done"}
      BY <2>1, ReplacedAlone DEF Workflow
    <3> QED
      BY <1>3, <2>4, <3>1, <3>2 DEF Issue
  <2>6. UNCHANGED <<record, latched, starts, late>> /\ starts[c] <= 1
    BY <1>3, <1>7 DEF FinalizeMerged, IInv, StartsOK
  <2>7. "done" \in Workflow \ {"blocked", "ready"}
    BY DEF Workflow
  <2>8. /\ \A v \in Worker : v # w => at'[v] = at[v]
        /\ \A i \in Issue : claim'[i] = claim[i] \/ claim[i] \in {w, None}
        /\ LocalOK(w, at[w])'
        /\ at'[w].pc # "add"
    BY <1>5, <2>2, <2>3
  <2> QED
    BY <1>3, <1>4, <2>5, <2>6, <2>7, <2>8, ReplacedKept
<1> QED
  BY <1>6, <1>7

LEMMA ChooseKept ==
    ASSUME IInv, TypeOK', NEW w \in Worker,
           \/ Vouch(w) \/ Skip(w) \/ ReleaseDone(w) \/ Fail(w)
           \/ \E c \in Child : ClaimChild(w, c) \/ ReadAgain(w, c) \/ ReleaseNext(w, c)
    PROVE  IInv'
<1> USE DEF github, ghosts
<1>1. at \in [Worker -> WorkerState] /\ claim \in [Issue -> Worker \cup {None}]
  BY DEF IInv, TypeOK, WorkerState
<1>2. LocalOK(w, at[w])
  BY DEF IInv
<1>3. ASSUME Leave(w), UNCHANGED <<labels, latched, starts, late>>,
             record'.attempt = record.attempt
      PROVE  IInv'
  BY <1>3, LeaveKept
<1>4. ASSUME Skip(w) \/ ReleaseDone(w) \/ Fail(w) PROVE IInv'
  BY <1>3, <1>4 DEF Skip, ReleaseDone, Fail
<1>5. ASSUME Vouch(w) PROVE IInv'
  <2>1. /\ at[w].pc = "choosing" /\ claim[Parent] = w
        /\ \A c \in at[w].todo : claim[c] = w
    BY <1>2, <1>5 DEF Vouch, AllClaimed, LocalOK, Claims, WalkPc, Pc
  <2>2. CASE Go(w, [Idle EXCEPT !.pc = "release", !.cur = Parent, !.todo = at[w].todo])
             /\ UNCHANGED <<github, claim>>
    <3>1. /\ at'[w].pc = "release" /\ at'[w].cur = Parent /\ at'[w].todo = at[w].todo
          /\ \A v \in Worker : v # w => at'[v] = at[v]
      BY <1>1, <2>2 DEF Go, Idle
    <3>2. LocalOK(w, at[w])'
      BY <2>1, <2>2, <3>1 DEF LocalOK, Claims, Shape, Relabel, Unstarted, Retired, WalkPc, Issue
    <3> QED
      BY <1>5, <2>2, <3>1, <3>2, GoKept DEF Vouch
  <2>3. CASE Leave(w) /\ UNCHANGED github
    BY <1>3, <1>5, <2>3 DEF Vouch
  <2>4. CASE /\ record' = [record EXCEPT !.awaiting = TRUE]
             /\ Leave(w)
             /\ UNCHANGED <<labels, open, owed>>
    <3>1. record'.attempt = record.attempt
      BY <2>4 DEF IInv, TypeOK
    <3> QED
      BY <1>3, <1>5, <2>4, <3>1 DEF Vouch
  <2> QED
    BY <1>5, <2>2, <2>3, <2>4 DEF Vouch
<1>6. ASSUME NEW c \in Child, ClaimChild(w, c) PROVE IInv'
  <2>1. CASE claim[c] = None
    <3>1. claim' = [claim EXCEPT ![c] = w] /\ at' = at
      BY <1>6, <2>1 DEF ClaimChild
    <3>2. \A i \in Issue : claim'[i] = claim[i] \/ claim[i] \in {w, None}
      BY <1>1, <2>1, <3>1
    <3>3. at[w].pc = "choosing" /\ at[w].cur = Parent /\ claim[Parent] = w
      BY <1>2, <1>6 DEF ClaimChild, LocalOK, Shape, Claims, WalkPc, Pc
    <3>4. claim'[Parent] = w
      BY <1>1, <3>1, <3>3 DEF Issue
    <3>5. LocalOK(w, at[w])'
      BY <3>1, <3>3, <3>4 DEF LocalOK, Claims, Shape, Relabel, Unstarted, Retired, WalkPc, Issue
    <3> QED
      BY <1>6, <3>1, <3>2, <3>3, <3>5, Kept DEF ClaimChild
  <2>2. CASE claim[c] # None
    BY <1>3, <1>6, <2>2 DEF ClaimChild
  <2> QED
    BY <2>1, <2>2
<1>7. ASSUME NEW c \in Child, ReadAgain(w, c) PROVE IInv'
  <2>1. at[w].pc = "choosing" /\ at[w].cur = Parent /\ claim[Parent] = w
    BY <1>2, <1>7 DEF ReadAgain, LocalOK, Shape, Claims, WalkPc, Pc
  <2>2. ASSUME NEW r \in Readings(c), Go(w, [at[w] EXCEPT !.read[c] = r]), UNCHANGED claim
        PROVE  IInv'
    <3>1. /\ at'[w].pc = "choosing" /\ at'[w].cur = Parent
          /\ \A v \in Worker : v # w => at'[v] = at[v]
      BY <1>1, <2>1, <2>2 DEF Go, WorkerState
    <3>2. LocalOK(w, at[w])'
      BY <2>1, <2>2, <3>1 DEF LocalOK, Claims, Shape, Relabel, Unstarted, Retired, WalkPc, Issue
    <3> QED
      BY <1>7, <2>2, <3>1, <3>2, GoKept DEF ReadAgain
  <2> QED
    BY <1>3, <1>7, <2>2 DEF ReadAgain
<1>8. ASSUME NEW c \in Child, ReleaseNext(w, c) PROVE IInv'
  <2>1. CASE latched
    BY <1>3, <1>8, <2>1 DEF ReleaseNext, ParentIsGone
  <2>2. CASE ~latched
    <3>1. /\ at[w].pc = "release" /\ claim[Parent] = w /\ claim[c] = w
          /\ \A d \in at[w].todo : claim[d] = w
      BY <1>2, <1>8 DEF ReleaseNext, LocalOK, Claims, WalkPc, Pc
    <3>2. /\ at'[w].pc = "reread" /\ at'[w].cur = c /\ at'[w].todo = at[w].todo \ {c}
          /\ \A v \in Worker : v # w => at'[v] = at[v]
      <4>1. Go(w, [at[w] EXCEPT !.pc = "reread", !.cur = c, !.todo = @ \ {c}])
        BY <1>8, <2>2 DEF ReleaseNext, ParentIsGone
      <4>2. at[w] \in WorkerState
        BY <1>1
      <4> QED
        BY <1>1, <4>1, <4>2 DEF Go, WorkerState
    <3>3. UNCHANGED claim
      BY <1>8, <2>2 DEF ReleaseNext, ParentIsGone
    <3>4. LocalOK(w, at[w])'
      BY <3>1, <3>2, <3>3 DEF LocalOK, Claims, Shape, Relabel, Unstarted, Retired, WalkPc, Issue
    <3> QED
      BY <1>8, <3>2, <3>3, <3>4, GoKept DEF ReleaseNext
  <2> QED
    BY <2>1, <2>2
<1> QED
  BY <1>4, <1>5, <1>6, <1>7, <1>8

LEMMA ReleaseKept ==
    ASSUME IInv, TypeOK', NEW w \in Worker,
           \/ ReadToRelease(w) \/ Licence(w) \/ LastAsk(w) \/ Moved(w)
    PROVE  IInv'
<1> USE DEF github, ghosts
<1> DEFINE c == at[w].cur
<1>1. at \in [Worker -> WorkerState] /\ claim \in [Issue -> Worker \cup {None}]
  BY DEF IInv, TypeOK, WorkerState
<1>2. LocalOK(w, at[w])
  BY DEF IInv
<1>3. ASSUME Leave(w), UNCHANGED <<labels, record, latched, starts, late>>
      PROVE  IInv'
  BY <1>3, LeaveKept
<1>4. /\ at[w].pc \in {"reread", "licence", "ask", "remove"}
      /\ c \in Issue /\ claim[c] = w /\ claim[Parent] = w
      /\ \A d \in at[w].todo : claim[d] = w
  BY <1>2 DEF ReadToRelease, Licence, LastAsk, Moved, LocalOK, Claims, WalkPc, Pc
<1>5. CASE ReadToRelease(w)
  <2>1. c \in Child /\ UNCHANGED <<labels, record, latched, claim, starts, late>>
    BY <1>2, <1>5 DEF ReadToRelease, LocalOK, Shape
  <2>2. ASSUME NEW r \in Readings(c), Startable(r),
               Go(w, [at[w] EXCEPT !.pc = "licence", !.now = r])
        PROVE  IInv'
    <3>1. r \in Reading /\ r.labels = labels[c] /\ "blocked" \in labels[c]
      BY <2>1, <2>2, ReadingsRead DEF IInv, Issue, Startable, Waiting
    <3>2. /\ at'[w].pc = "licence" /\ at'[w].cur = c /\ at'[w].now = r
          /\ at'[w].todo = at[w].todo
          /\ \A v \in Worker : v # w => at'[v] = at[v]
      BY <1>1, <2>2 DEF Go, WorkerState
    <3>3. /\ labels[c] \cap Workflow \subseteq {"blocked", "ready"}
          /\ starts[c] = 0
      BY <2>1, <3>1 DEF IInv, LabelsOK, StartsOK, Issue
    <3>4. (Shape(at[w]) /\ Relabel(at[w]) /\ Unstarted(at[w]) /\ Retired(at[w]))'
      BY <2>1, <3>1, <3>2, <3>3 DEF Shape, Relabel, Unstarted, Retired
    <3>5. Claims(w, at[w])'
      BY <1>4, <2>1, <3>2 DEF Claims
    <3> QED
      BY <2>1, <3>2, <3>4, <3>5, GoKept DEF LocalOK
  <2>3. ASSUME Go(w, [at[w] EXCEPT !.pc = "release", !.cur = Parent]) PROVE IInv'
    <3>1. /\ at'[w].pc = "release" /\ at'[w].cur = Parent /\ at'[w].todo = at[w].todo
          /\ \A v \in Worker : v # w => at'[v] = at[v]
      BY <1>1, <2>3 DEF Go, WorkerState
    <3>2. LocalOK(w, at[w])'
      BY <1>4, <2>1, <3>1 DEF LocalOK, Claims, Shape, Relabel, Unstarted, Retired, WalkPc, Issue
    <3> QED
      BY <2>1, <3>1, <3>2, GoKept
  <2> QED
    BY <1>5, <2>2, <2>3 DEF ReadToRelease
<1>6. ASSUME NEW p \in {"ask", "add"}, Licence(w) \/ LastAsk(w),
             Go(w, [at[w] EXCEPT !.pc = p]), UNCHANGED claim,
             p = "add" => ~latched
      PROVE  IInv'
  <2>1. /\ at[w].pc \in {"licence", "ask"} /\ c \in Child /\ c # Parent
        /\ UNCHANGED <<labels, record, latched, starts, late>>
    BY <1>2, <1>6, ParentAssumption DEF Licence, LastAsk, LocalOK, Shape
  <2>2. /\ at'[w].pc = p /\ at'[w].cur = c /\ at'[w].now = at[w].now
        /\ at'[w].todo = at[w].todo
        /\ \A v \in Worker : v # w => at'[v] = at[v]
    BY <1>1, <1>6 DEF Go, WorkerState
  <2>3. /\ at[w].now \in Reading /\ starts[c] = 0
        /\ at[w].now.labels \cap Workflow \subseteq {"blocked", "ready"}
    BY <1>2, <2>1 DEF LocalOK, Shape, Relabel, Unstarted
  <2>4. (Shape(at[w]) /\ Relabel(at[w]) /\ Unstarted(at[w]) /\ Retired(at[w]))'
    BY <2>1, <2>2, <2>3 DEF Shape, Relabel, Unstarted, Retired
  <2>5. Claims(w, at[w])'
    BY <1>4, <1>6, <2>2 DEF Claims
  <2> QED
    BY <1>6, <2>1, <2>2, <2>4, <2>5, GoKept DEF LocalOK
<1>7. CASE Licence(w) \/ LastAsk(w)
  BY <1>3, <1>6, <1>7 DEF Licence, LastAsk, ParentIsGone
<1>8. CASE Moved(w)
  <2>1. /\ at'[w].pc \in {"write", "release"} /\ at'[w].cur = Parent
        /\ at'[w].todo = at[w].todo
        /\ \A v \in Worker : v # w => at'[v] = at[v]
    BY <1>1, <1>8 DEF Moved, Go, WorkerState
  <2>2. UNCHANGED <<labels, record, latched, claim, starts, late>>
    BY <1>8 DEF Moved
  <2>3. LocalOK(w, at[w])'
    BY <1>4, <2>1, <2>2 DEF LocalOK, Claims, Shape, Relabel, Unstarted, Retired, WalkPc, Issue
  <2> QED
    BY <2>1, <2>2, <2>3, GoKept
<1> QED
  BY <1>5, <1>7, <1>8

LEMMA ParentKept ==
    ASSUME IInv, TypeOK', NEW w \in Worker,
           \/ Unheld(w) \/ RetireAttempt(w) \/ ReadParent(w) \/ WriteParent(w)
    PROVE  IInv'
<1> USE DEF github, ghosts
<1>1. at \in [Worker -> WorkerState] /\ claim \in [Issue -> Worker \cup {None}]
  BY DEF IInv, TypeOK, WorkerState
<1>2. LocalOK(w, at[w])
  BY DEF IInv
<1>3. ASSUME Leave(w), UNCHANGED <<labels, latched, starts, late>>,
             record'.attempt => record.attempt
      PROVE  IInv'
  BY <1>3, LeaveKept
<1>4. /\ at[w].pc \in {"unheld", "retire", "current", "write"}
      /\ at[w].cur = Parent /\ claim[Parent] = w
  BY <1>2 DEF Unheld, RetireAttempt, ReadParent, WriteParent, LocalOK, Shape, Claims, WalkPc, Pc
<1>5. CASE WriteParent(w)
  <2>1. record'.attempt => record.attempt
    BY <1>5 DEF WriteParent, IInv, TypeOK
  <2> QED
    BY <1>3, <1>5, <2>1 DEF WriteParent
<1>6. CASE Unheld(w)
  <2>1. ASSUME Go(w, [at[w] EXCEPT !.pc = IF record.attempt THEN "retire" ELSE "current"]),
               UNCHANGED <<labels, record, claim, latched, starts, late>>
        PROVE  IInv'
    <3>1. /\ at'[w].pc = IF record.attempt THEN "retire" ELSE "current"
          /\ at'[w].cur = Parent /\ at'[w].todo = at[w].todo
          /\ \A v \in Worker : v # w => at'[v] = at[v]
      BY <1>1, <1>4, <2>1 DEF Go, WorkerState
    <3>2. \A d \in at[w].todo : claim[d] = w
      BY <1>2, <1>6 DEF Unheld, LocalOK, Claims
    <3>3. LocalOK(w, at[w])'
      BY <1>4, <2>1, <3>1, <3>2 DEF LocalOK, Claims, Shape, Relabel, Unstarted, Retired, WalkPc, Issue
    <3>4. at'[w].pc # "add"
      BY <3>1
    <3> QED
      BY <2>1, <3>1, <3>3, <3>4, GoKept
  <2> QED
    BY <1>3, <1>6, <2>1 DEF Unheld
<1>7. CASE RetireAttempt(w)
  <2>1. record'.attempt = FALSE
    BY <1>7 DEF RetireAttempt, IInv, TypeOK
  <2>2. /\ at'[w].pc = "current" /\ at'[w].cur = Parent /\ at'[w].todo = at[w].todo
        /\ \A v \in Worker : v # w => at'[v] = at[v]
    BY <1>1, <1>4, <1>7 DEF RetireAttempt, Go, WorkerState
  <2>3. \A d \in at[w].todo : claim[d] = w
    BY <1>2, <1>7 DEF RetireAttempt, LocalOK, Claims
  <2>4. UNCHANGED <<labels, claim, latched, starts, late>>
    BY <1>7 DEF RetireAttempt
  <2>5. LocalOK(w, at[w])'
    BY <1>4, <2>1, <2>2, <2>3, <2>4 DEF LocalOK, Claims, Shape, Relabel, Unstarted, Retired, WalkPc, Issue
  <2> QED
    BY <2>1, <2>2, <2>4, <2>5, GoKept
<1>8. CASE ReadParent(w)
  <2>1. ASSUME NEW r \in Readings(Parent), Go(w, [at[w] EXCEPT !.pc = "add", !.now = r]),
               UNCHANGED <<labels, record, claim, latched, starts, late>>
        PROVE  IInv'
    <3>1. r \in Reading /\ r.labels = labels[Parent]
      BY ReadingsRead DEF IInv, Issue
    <3>2. r.labels \cap Workflow \subseteq {"blocked", "ready"}
      BY <3>1 DEF IInv, LabelsOK
    <3>3. /\ at'[w].pc = "add" /\ at'[w].cur = Parent /\ at'[w].now = r
          /\ at'[w].todo = at[w].todo
          /\ \A v \in Worker : v # w => at'[v] = at[v]
      BY <1>1, <1>4, <2>1 DEF Go, WorkerState
    <3>4. (\A d \in at[w].todo : claim[d] = w) /\ ~record.attempt
      BY <1>2, <1>8 DEF ReadParent, LocalOK, Claims, Retired
    <3>5. LocalOK(w, at[w])'
      BY <1>4, <2>1, <3>1, <3>2, <3>3, <3>4, ParentAssumption
         DEF LocalOK, Claims, Shape, Relabel, Unstarted, Retired, WalkPc, Issue
    <3>6. at'[w].cur \notin Child
      BY <3>3, ParentAssumption
    <3> QED
      BY <2>1, <3>3, <3>5, <3>6, GoKept
  <2> QED
    BY <1>3, <1>8, <2>1 DEF ReadParent
<1> QED
  BY <1>5, <1>6, <1>7, <1>8

LEMMA ChildKept ==
    ASSUME IInv, TypeOK', NEW w \in Worker, FetchReady(w) \/ Start(w) \/ Merge(w)
    PROVE  IInv'
<1> USE DEF github, ghosts
<1> DEFINE c == at[w].cur
<1>1. at \in [Worker -> WorkerState] /\ claim \in [Issue -> Worker \cup {None}]
  BY DEF IInv, TypeOK, WorkerState
<1>2. LocalOK(w, at[w])
  BY DEF IInv
<1>3. at[w].pc \in {"fetch", "put", "end"} /\ c \in Child /\ claim[c] = w
  BY <1>2 DEF FetchReady, Start, Merge, LocalOK, Shape, Claims
<1>4. CASE FetchReady(w)
  <2>1. ASSUME NEW r \in Readings(c), Go(w, [at[w] EXCEPT !.pc = "put", !.now = r]),
               UNCHANGED <<labels, record, claim, latched, starts, late>>
        PROVE  IInv'
    <3>1. r \in Reading
      BY <1>3, ReadingsTyped DEF IInv, Issue
    <3>2. /\ at'[w].pc = "put" /\ at'[w].cur = c /\ at'[w].now = r
          /\ \A v \in Worker : v # w => at'[v] = at[v]
      BY <1>1, <2>1 DEF Go, WorkerState
    <3>3. starts[c] = 0
      BY <1>2, <1>4 DEF FetchReady, LocalOK, Unstarted
    <3>4. LocalOK(w, at[w])'
      BY <1>3, <2>1, <3>1, <3>2, <3>3 DEF LocalOK, Claims, Shape, Relabel, Unstarted, Retired, WalkPc, Issue
    <3> QED
      BY <2>1, <3>2, <3>4, GoKept
  <2> QED
    BY <1>4, <2>1, LeaveKept DEF FetchReady
<1>5. ASSUME NEW l \in {"implementing", "done"}, Start(w) \/ Merge(w),
             labels' = [labels EXCEPT ![c] = Replaced(at[w].now, l)],
             Leave(w), UNCHANGED <<record, latched, late>>,
             \A d \in Child : d # c => starts'[d] = starts[d],
             starts'[c] <= 1
      PROVE  IInv'
  <2>1. at[w].now \in Reading
    BY <1>2, <1>5 DEF Start, Merge, LocalOK, Shape
  <2>2. l \in Workflow \ {"blocked", "ready"}
    BY DEF Workflow
  <2>3. /\ \A i \in Issue : i # c => labels'[i] = labels[i]
        /\ labels'[c] \cap Workflow = {l}
    <3>1. labels \in [Issue -> SUBSET Label]
      BY DEF IInv, TypeOK
    <3>2. Replaced(at[w].now, l) \cap Workflow = {l}
      BY <2>1, <2>2, ReplacedAlone
    <3> QED
      BY <1>3, <1>5, <3>1, <3>2 DEF Issue
  <2>4. at'[w] = Idle /\ \A v \in Worker : v # w => at'[v] = at[v]
    BY <1>1, <1>5 DEF Leave, Go
  <2>5. \A i \in Issue : claim'[i] = claim[i] \/ claim[i] \in {w, None}
    BY <1>5 DEF Leave
  <2>6. LocalOK(w, at[w])' /\ at'[w].pc # "add"
    BY <2>4 DEF LocalOK, Claims, Shape, Relabel, Unstarted, Retired, Idle, WalkPc
  <2> QED
    BY <1>3, <1>5, <2>2, <2>3, <2>4, <2>5, <2>6, ReplacedKept
<1>6. CASE Start(w)
  <2>1. starts \in [Child -> Nat] /\ starts[c] = 0
    BY <1>2, <1>6 DEF Start, LocalOK, Unstarted, IInv, TypeOK
  <2>2. starts' = [starts EXCEPT ![c] = @ + 1]
    BY <1>6 DEF Start
  <2>3. starts'[c] <= 1 /\ \A d \in Child : d # c => starts'[d] = starts[d]
    BY <1>3, <2>1, <2>2
  <2> QED
    BY <1>5, <1>6, <2>3 DEF Start
<1>7. CASE Merge(w)
  <2>1. starts' = starts /\ starts[c] <= 1
    BY <1>3, <1>7 DEF Merge, IInv, StartsOK
  <2> QED
    BY <1>5, <1>7, <2>1 DEF Merge
<1> QED
  BY <1>4, <1>6, <1>7

LEMMA AddKept ==
    ASSUME IInv, TypeOK', NEW w \in Worker, AddReady(w)
    PROVE  IInv'
<1> DEFINE i == at[w].cur
<1>1. at \in [Worker -> WorkerState] /\ labels \in [Issue -> SUBSET Label]
  BY DEF IInv, TypeOK, WorkerState
<1>2. LocalOK(w, at[w]) /\ at[w].pc = "add"
  BY DEF IInv, AddReady
<1>3. i \in Issue /\ claim[i] = w /\ claim[Parent] = w /\ \A d \in at[w].todo : claim[d] = w
  BY <1>2 DEF LocalOK, Claims, WalkPc, Pc
<1>4. /\ labels' = [labels EXCEPT ![i] = @ \cup {"ready"}]
      /\ UNCHANGED <<record, latched, claim, starts>>
  BY DEF AddReady
<1>5. \A j \in Issue : labels'[j] = IF j = i THEN labels[j] \cup {"ready"} ELSE labels[j]
  BY <1>1, <1>3, <1>4
<1>6. Go(w, [at[w] EXCEPT !.pc = "remove",
               !.left = (at[w].now.labels \cap Workflow) \ {"ready"}])
  BY DEF AddReady
<1>7. /\ at'[w].pc = "remove" /\ at'[w].cur = i /\ at'[w].todo = at[w].todo
      /\ at'[w].left = (at[w].now.labels \cap Workflow) \ {"ready"}
      /\ \A v \in Worker : v # w => at'[v] = at[v]
  BY <1>1, <1>6 DEF Go, WorkerState
<1>8. LocalOK(w, at[w])'
  <2>1. at'[w].left \subseteq {"blocked"}
    BY <1>2, <1>7 DEF LocalOK, Relabel
  <2>2. "ready" \in labels'[i] /\ "ready" \in Workflow \ {"blocked"}
    BY <1>3, <1>5 DEF Workflow
  <2>3. Relabel(at[w])'
    BY <1>7, <2>1, <2>2 DEF Relabel
  <2>4. Claims(w, at[w])'
    BY <1>3, <1>4, <1>7 DEF Claims
  <2> QED
    BY <1>7, <2>3, <2>4 DEF LocalOK, Shape, Unstarted, Retired
<1>9. ASSUME NEW v \in Worker, v # w PROVE LocalOK(v, at[v])'
  <2>1. LocalOK(v, at[v]) /\ at'[v] = at[v]
    BY <1>7, <1>9 DEF IInv
  <2>2. (Claims(v, at[v]) /\ Shape(at[v]) /\ Unstarted(at[v]) /\ Retired(at[v]))'
    BY <1>4, <2>1 DEF LocalOK, Claims, Shape, Unstarted, Retired
  <2>3. Relabel(at[v])'
    <3>1. Relabel(at[v]) /\ (at[v].pc = "remove" => at[v].cur \in Issue)
      BY <2>1 DEF LocalOK, Claims
    <3> QED
      BY <1>5, <2>1, <3>1 DEF Relabel
  <2> QED
    BY <2>2, <2>3 DEF LocalOK
<1>10. LabelsOK'
  <2>1. LabelsOK /\ (i = Parent => ~record.attempt)
    BY <1>2 DEF IInv, LocalOK, Retired
  <2>2. \A j \in Issue : \E l \in labels'[j] : l \in Workflow
    BY <1>5, <2>1 DEF LabelsOK
  <2>3. \A j \in Issue : "blocked" \in labels'[j] =>
            labels'[j] \cap Workflow \subseteq {"blocked", "ready"}
    <3>1. ASSUME NEW j \in Issue, "blocked" \in labels'[j]
          PROVE  labels'[j] \cap Workflow \subseteq {"blocked", "ready"}
      <4>1. labels'[j] = labels[j] \cup {"ready"} \/ labels'[j] = labels[j]
        BY <1>5
      <4>2. "blocked" \in labels[j]
        BY <3>1, <4>1
      <4> QED
        BY <2>1, <4>1, <4>2 DEF LabelsOK
    <3> QED
      BY <3>1
  <2>4. labels'[Parent] \cap Workflow \subseteq {"blocked", "ready"}
    BY <1>5, <2>1 DEF LabelsOK, Issue
  <2>5. "ready" \in labels'[Parent] => ~record'.attempt
    BY <1>4, <1>5, <2>1 DEF LabelsOK, Issue
  <2> QED
    BY <2>2, <2>3, <2>4, <2>5 DEF LabelsOK
<1>11. StartsOK'
  <2>1. i \in Child => starts[i] = 0
    BY <1>2 DEF LocalOK, Unstarted
  <2> QED
    BY <1>4, <1>5, <2>1 DEF IInv, StartsOK, Issue
<1>12. LateOK'
  <2>1. LateOK /\ late \in Nat /\ latched \in BOOLEAN
    BY DEF IInv, TypeOK
  <2>2. late' = IF i \in Child /\ latched THEN late + 1 ELSE late
    BY DEF AddReady
  <2>3. \A v \in Worker : at'[v].pc # "add"
    <3>1. ASSUME NEW v \in Worker, v # w, at[v].pc = "add" PROVE FALSE
      <4>1. claim[Parent] = v
        BY <3>1 DEF IInv, LocalOK, Claims, WalkPc, Pc
      <4> QED
        BY <1>3, <3>1, <4>1
    <3> QED
      BY <1>7, <3>1
  <2>4. i \in Child => late # 1
    BY <1>2, <2>1 DEF LateOK
  <2>5. late = 0 \/ late = 1
    BY <2>1 DEF LateOK
  <2> QED
    BY <1>4, <2>1, <2>2, <2>3, <2>4, <2>5 DEF LateOK
<1> QED
  BY <1>8, <1>9, <1>10, <1>11, <1>12 DEF IInv

LEMMA TakeOffKept ==
    ASSUME IInv, TypeOK', NEW w \in Worker, NEW l \in Workflow, TakeOff(w, l)
    PROVE  IInv'
<1> DEFINE i == at[w].cur
<1>1. at \in [Worker -> WorkerState] /\ labels \in [Issue -> SUBSET Label]
  BY DEF IInv, TypeOK, WorkerState
<1>2. LocalOK(w, at[w]) /\ at[w].pc = "remove" /\ l \in at[w].left
  BY DEF IInv, TakeOff
<1>3. l = "blocked" /\ i \in Issue /\ \E k \in labels[i] : k \in Workflow \ {"blocked"}
  BY <1>2 DEF LocalOK, Claims, Relabel
<1>4. UNCHANGED <<record, latched, claim, starts, late>>
  BY DEF TakeOff, ghosts
<1>5. \A j \in Issue : labels'[j] = IF j = i THEN labels[j] \ {"blocked"} ELSE labels[j]
  BY <1>1, <1>3 DEF TakeOff
<1>6. /\ at'[w].pc = "remove" /\ at'[w].cur = i /\ at'[w].todo = at[w].todo
      /\ at'[w].left = at[w].left \ {l}
      /\ \A v \in Worker : v # w => at'[v] = at[v]
  BY <1>1, <1>2 DEF TakeOff, Go, WorkerState
<1>7. ASSUME NEW j \in Issue, NEW k \in labels[j], k \in Workflow \ {"blocked"}
      PROVE  k \in labels'[j]
  BY <1>5, <1>7
<1>8. LocalOK(w, at[w])'
  <2>1. Relabel(at[w])'
    BY <1>2, <1>3, <1>6, <1>7 DEF LocalOK, Relabel
  <2>2. Claims(w, at[w])'
    BY <1>2, <1>4, <1>6 DEF LocalOK, Claims
  <2> QED
    BY <1>6, <2>1, <2>2 DEF LocalOK, Shape, Unstarted, Retired
<1>9. ASSUME NEW v \in Worker, v # w PROVE LocalOK(v, at[v])'
  <2>1. LocalOK(v, at[v]) /\ at'[v] = at[v]
    BY <1>6, <1>9 DEF IInv
  <2>2. (Claims(v, at[v]) /\ Shape(at[v]) /\ Unstarted(at[v]) /\ Retired(at[v]))'
    BY <1>4, <2>1 DEF LocalOK, Claims, Shape, Unstarted, Retired
  <2>3. Relabel(at[v])'
    <3>1. Relabel(at[v]) /\ (at[v].pc = "remove" => at[v].cur \in Issue)
      BY <2>1 DEF LocalOK, Claims
    <3> QED
      BY <1>7, <2>1, <3>1 DEF Relabel
  <2> QED
    BY <2>2, <2>3 DEF LocalOK
<1>10. LabelsOK'
  <2>1. \A j \in Issue : \E k \in labels'[j] : k \in Workflow
    <3>1. ASSUME NEW j \in Issue PROVE \E k \in labels'[j] : k \in Workflow
      <4>1. CASE j = i
        BY <1>3, <1>7, <4>1
      <4>2. CASE j # i
        BY <1>5, <4>2 DEF IInv, LabelsOK
      <4> QED
        BY <4>1, <4>2
    <3> QED
      BY <3>1
  <2>2. \A j \in Issue : labels'[j] \subseteq labels[j]
    BY <1>5
  <2> QED
    BY <1>4, <2>1, <2>2 DEF IInv, LabelsOK, Issue
<1>11. StartsOK'
  BY <1>4, <1>5 DEF IInv, StartsOK, Issue
<1>12. LateOK'
  <2>1. LateOK
    BY DEF IInv
  <2>2. \A v \in Worker : at'[v].pc = "add" => at'[v] = at[v]
    BY <1>6
  <2> QED
    BY <1>4, <2>1, <2>2 DEF LateOK
<1> QED
  BY <1>8, <1>9, <1>10, <1>11, <1>12 DEF IInv

LEMMA HumanKept ==
    ASSUME IInv, TypeOK', Human \/ ObserveClose
    PROVE  IInv'
<1>1. labels \in [Issue -> SUBSET Label]
  BY DEF IInv, TypeOK
<1>2. ASSUME UNCHANGED <<at, claim, record, starts, late>>,
             latched \/ latched' \/ latched' = latched,
             latched' = FALSE => latched = FALSE,
             \A i \in Issue : \A l \in Workflow \ {"blocked"} :
                 l \in labels[i] => \E k \in labels'[i] : k \in Workflow \ {"blocked"},
             LabelsOK', StartsOK'
      PROVE  IInv'
  <2>1. ASSUME NEW v \in Worker PROVE LocalOK(v, at[v])'
    <3>1. LocalOK(v, at[v]) /\ at'[v] = at[v]
      BY <1>2 DEF IInv
    <3>2. (Claims(v, at[v]) /\ Shape(at[v]) /\ Unstarted(at[v]) /\ Retired(at[v]))'
      BY <1>2, <3>1 DEF LocalOK, Claims, Shape, Unstarted, Retired
    <3>3. Relabel(at[v])'
      <4>1. Relabel(at[v]) /\ (at[v].pc = "remove" => at[v].cur \in Issue)
        BY <3>1 DEF LocalOK, Claims
      <4> QED
        BY <1>2, <3>1, <4>1 DEF Relabel
    <3> QED
      BY <3>2, <3>3 DEF LocalOK
  <2>2. LateOK'
    <3>1. LateOK /\ latched \in BOOLEAN /\ latched' \in BOOLEAN
      BY DEF IInv, TypeOK
    <3> QED
      BY <1>2, <3>1 DEF LateOK
  <2> QED
    BY <1>2, <2>1, <2>2 DEF IInv
<1>3. ASSUME NEW i \in Issue, ToggleHold(i) PROVE IInv'
  <2>1. UNCHANGED <<at, claim, record, starts, late, latched>>
    BY <1>3 DEF ToggleHold, ByHand, ghosts
  <2>2. \A j \in Issue : labels'[j] \cap Workflow = labels[j] \cap Workflow
    BY <1>1, <1>3 DEF ToggleHold, Workflow
  <2>3. "blocked" \in Workflow /\ "ready" \in Workflow
    BY DEF Workflow
  <2>4. LabelsOK'
    BY <2>1, <2>2, <2>3 DEF IInv, LabelsOK, Issue
  <2>5. StartsOK'
    BY <2>1, <2>2, <2>3 DEF IInv, StartsOK, Issue
  <2> QED
    BY <1>2, <2>1, <2>2, <2>4, <2>5
<1>4. ASSUME UNCHANGED <<at, claim, record, starts, late, labels>>, latched' = latched \/ latched'
      PROVE  IInv'
  <2>1. LabelsOK' /\ StartsOK'
    BY <1>4 DEF IInv, LabelsOK, StartsOK
  <2> QED
    BY <1>2, <1>4, <2>1
<1>5. ASSUME NEW i \in Issue, CloseByHand(i) PROVE IInv'
  BY <1>4, <1>5 DEF CloseByHand, ByHand, ghosts
<1>6. ASSUME NEW c \in Child, EditRecord(c) PROVE IInv'
  BY <1>4, <1>6 DEF EditRecord, ByHand, ghosts
<1>7. CASE ObserveClose
  BY <1>4, <1>7 DEF ObserveClose, github, ghosts
<1>8. ASSUME NEW c \in Child, ReadyByHand(c) PROVE IInv'
  <2>1. UNCHANGED <<at, claim, record, starts, late, latched>> /\ "blocked" \in labels[c]
    BY <1>8 DEF ReadyByHand, ByHand, ghosts
  <2>2. PICK old \in {{}, {"blocked"}} :
           labels' = [labels EXCEPT ![c] = (@ \ old) \cup {"ready"}]
    BY <1>8 DEF ReadyByHand
  <2>3. /\ \A j \in Issue : j # c => labels'[j] = labels[j]
        /\ labels'[c] \subseteq labels[c] \cup {"ready"} /\ "ready" \in labels'[c]
    BY <1>1, <2>2 DEF Issue
  <2>4. c # Parent /\ c \in Issue /\ Parent \in Issue
    BY ParentAssumption DEF Issue
  <2>5. "ready" \in Workflow \ {"blocked"}
    BY DEF Workflow
  <2>6. LabelsOK'
    BY <2>1, <2>3, <2>4, <2>5 DEF IInv, LabelsOK
  <2>7. StartsOK'
    <3>1. starts[c] = 0
      BY <2>1 DEF IInv, StartsOK
    <3> QED
      BY <2>1, <2>3, <3>1 DEF IInv, StartsOK, Issue
  <2>8. \A j \in Issue : \A l \in Workflow \ {"blocked"} :
            l \in labels[j] => \E k \in labels'[j] : k \in Workflow \ {"blocked"}
    BY <2>3, <2>5
  <2> QED
    BY <1>2, <2>1, <2>6, <2>7, <2>8
<1>9. ASSUME NEW c \in Child, SettleByHand(c) PROVE IInv'
  <2>1. UNCHANGED <<at, claim, record, starts, late, latched>>
    BY <1>9 DEF SettleByHand, ByHand, ghosts
  <2>2. c # Parent /\ c \in Issue /\ Parent \in Issue
    BY ParentAssumption DEF Issue
  <2>3. PICK l \in {"done", "rejected"} : labels' = [labels EXCEPT ![c] = (@ \ Workflow) \cup {l}]
    BY <1>9 DEF SettleByHand
  <2>4. /\ \A j \in Issue : j # c => labels'[j] = labels[j]
        /\ l \in labels'[c] /\ labels'[c] \cap Workflow = {l}
    BY <1>1, <2>2, <2>3 DEF Workflow
  <2>5. l \in Workflow \ {"blocked", "ready"}
    BY DEF Workflow
  <2>6. "blocked" \in Workflow /\ "ready" \in Workflow
    BY DEF Workflow
  <2>7. LabelsOK'
    BY <2>1, <2>2, <2>4, <2>5, <2>6 DEF IInv, LabelsOK
  <2>8. StartsOK'
    BY <2>1, <2>4, <2>5, <2>6 DEF IInv, StartsOK, Issue
  <2>9. \A j \in Issue : \A m \in Workflow \ {"blocked"} :
            m \in labels[j] => \E k \in labels'[j] : k \in Workflow \ {"blocked"}
    BY <2>4, <2>5
  <2> QED
    BY <1>2, <2>1, <2>7, <2>8, <2>9
<1> QED
  BY <1>3, <1>5, <1>6, <1>7, <1>8, <1>9 DEF Human

-----------------------------------------------------------------------------
LEMMA InitOK == Init => IInv
<1> SUFFICES ASSUME Init PROVE IInv
  OBVIOUS
<1>1. TypeOK
  <2>1. \A w \in Worker : at[w] = Idle
    BY DEF Init
  <2>2. Idle \in WorkerState
    BY DEF Idle, WorkerState, Pc
  <2>3. at \in [Worker -> WorkerState]
    BY <2>2 DEF Init
  <2>4. record \in [attempt : BOOLEAN, awaiting : BOOLEAN, depGraph : Graphs]
    BY DEF Init
  <2>5. labels \in [Issue -> SUBSET Label]
    BY DEF Init, Label, Workflow
  <2> QED
    <3>1. open \in [Issue -> BOOLEAN] /\ latched \in BOOLEAN
      BY DEF Init
    <3>2. owed \in [Child -> {"whole", "lapsed", "refused"}]
      BY DEF Init
    <3>3. claim \in [Issue -> Worker \cup {None}]
      BY DEF Init
    <3>4. starts \in [Child -> Nat] /\ late \in Nat
      BY DEF Init
    <3>5. acts \in 0..MaxActs /\ fails \in 0..MaxFails
      BY BoundAssumption DEF Init
    <3> QED
      BY <2>3, <2>4, <2>5, <3>1, <3>2, <3>3, <3>4, <3>5 DEF TypeOK, WorkerState
<1>2. ASSUME NEW v \in Worker PROVE LocalOK(v, at[v])
  BY DEF Init, Idle, LocalOK, Claims, Shape, Relabel, Unstarted, Retired, WalkPc
<1>3. \A i \in Issue : labels[i] = {"blocked"}
  BY DEF Init
<1>4. LabelsOK
  <2>1. \A i \in Issue : "ready" \notin labels[i] /\ labels[i] \subseteq {"blocked", "ready"}
    BY <1>3
  <2>2. \A i \in Issue : \E l \in labels[i] : l \in Workflow
    BY <1>3 DEF Workflow
  <2> QED
    BY <2>1, <2>2 DEF LabelsOK, Issue
<1>5. StartsOK
  BY DEF Init, StartsOK
<1>6. LateOK
  BY DEF Init, LateOK
<1> QED
  BY <1>1, <1>2, <1>4, <1>5, <1>6 DEF IInv

LEMMA NextType == ASSUME IInv, Next PROVE TypeOK'
<1>1. TypeOK /\ \A w \in Worker : LocalOK(w, at[w])
  BY DEF IInv
<1>2. ASSUME NEW w \in Worker, Walk(w) PROVE TypeOK'
  BY <1>1, <1>2, TypeScan, TypeCheck, TypeWalk, TypeWrites DEF Walk
<1>3. ASSUME NEW w \in Worker,
             Skip(w) \/ FetchReady(w) \/ Start(w) \/ Merge(w) \/ Fail(w)
      PROVE  TypeOK'
  BY <1>1, <1>3, TypeWalk, TypeWrites
<1> QED
  BY <1>1, <1>2, <1>3, TypeDispatch, TypeHuman DEF Next

LEMMA NextKept == ASSUME IInv, Next PROVE IInv'
<1>1. TypeOK'
  BY NextType
<1>2. ASSUME NEW w \in Worker, Walk(w) PROVE IInv'
  BY <1>1, <1>2, ScanKept, CheckKept, ChooseKept, ReleaseKept, AddKept, TakeOffKept,
     ParentKept DEF Walk
<1>3. ASSUME NEW w \in Worker,
             Skip(w) \/ FetchReady(w) \/ Start(w) \/ Merge(w) \/ Fail(w)
      PROVE  IInv'
  BY <1>1, <1>3, ChooseKept, ChildKept
<1> QED
  BY <1>1, <1>2, <1>3, DispatchKept, HumanKept DEF Next

LEMMA StutterKept == ASSUME IInv, UNCHANGED vars PROVE IInv'
<1>1. TypeOK' /\ LabelsOK' /\ StartsOK' /\ LateOK'
  BY DEF IInv, vars, TypeOK, LabelsOK, StartsOK, LateOK
<1>2. ASSUME NEW v \in Worker PROVE LocalOK(v, at[v])'
  BY DEF IInv, vars, LocalOK, Claims, Shape, Relabel, Unstarted, Retired
<1> QED
  BY <1>1, <1>2 DEF IInv

LEMMA Invariance == Spec => []IInv
  BY InitOK, NextKept, StutterKept, PTL DEF Spec

-----------------------------------------------------------------------------
\* Every state is well typed: what a worker remembers of an issue is a reading
\* with one label of those the issue carried.
THEOREM TypeCorrect == Spec => []TypeOK
<1>1. IInv => TypeOK
  BY DEF IInv
<1> QED
  BY <1>1, Invariance, PTL

\* No child is handed to an implementer twice, whoever else walks, releases or
\* edits it meanwhile, and wherever a relabel was cut off.
THEOREM StartedOnceAlways == Spec => []StartedOnce
<1>1. IInv => StartedOnce
  BY DEF IInv, StartsOK, StartedOnce
<1> QED
  BY <1>1, Invariance, PTL

\* No relabel, and no cut-off of one, leaves an issue with no workflow label.
THEOREM NeverUnlabelledAlways == Spec => []NeverUnlabelled
<1>1. IInv => NeverUnlabelled
  <2>1. ASSUME LabelsOK, NEW i \in Issue PROVE labels[i] \cap Workflow # {}
    BY <2>1 DEF LabelsOK
  <2> QED
    BY <2>1 DEF IInv, NeverUnlabelled
<1> QED
  BY <1>1, Invariance, PTL

\* A parent that carries `ready` no longer records its split's attempt.
THEOREM AttemptAlwaysFirst == Spec => []AttemptGoesFirst
<1>1. IInv => AttemptGoesFirst
  BY DEF IInv, LabelsOK, AttemptGoesFirst
<1> QED
  BY <1>1, Invariance, PTL

\* At most the one release already on its way lands behind a latched close.
THEOREM NothingLateAlways == Spec => []NothingReleasedAfterClose
<1>1. IInv => NothingReleasedAfterClose
  BY DEF IInv, LateOK, NothingReleasedAfterClose
<1> QED
  BY <1>1, Invariance, PTL

\* A step is of one worker: the others' dispatches stay where they are.
LEMMA OneMoves ==
    ASSUME TypeOK, NEW w \in Worker, NEW v \in Worker, v # w,
           \/ Walk(v) \/ Skip(v) \/ FetchReady(v) \/ Start(v) \/ Merge(v) \/ Fail(v)
           \/ \E i \in Issue : Dispatch(v, i)
    PROVE  at'[w] = at[w]
<1>1. at \in [Worker -> WorkerState]
  BY DEF TypeOK, WorkerState
<1>2. ASSUME NEW s, Go(v, s) PROVE at'[w] = at[w]
  BY <1>1, <1>2 DEF Go
<1>3. ASSUME Leave(v) PROVE at'[w] = at[w]
  BY <1>2, <1>3 DEF Leave
<1>4. ASSUME NEW s, Judged(v, s) PROVE at'[w] = at[w]
  BY <1>2, <1>4 DEF Judged
<1>5. CASE Skip(v) \/ FetchReady(v) \/ Start(v) \/ Merge(v) \/ Fail(v)
  BY <1>2, <1>3, <1>5 DEF Skip, FetchReady, Start, Merge, Fail
<1>6. CASE \E i \in Issue : Dispatch(v, i)
  BY <1>2, <1>6 DEF Dispatch
<1>7. CASE ParkRejected(v) \/ NoneRejected(v) \/ ParkClosed(v) \/ Decide(v) \/ Vouch(v)
  BY <1>2, <1>3, <1>7 DEF ParkRejected, NoneRejected, ParkClosed, Park, Decide, Vouch
<1>8. CASE CheckRead(v)
  BY <1>2, <1>4, <1>8 DEF CheckRead
<1>9. CASE FinalizeMerged(v)
  BY <1>4, <1>9 DEF FinalizeMerged
<1>10. CASE ReleaseDone(v) \/ ReadToRelease(v) \/ Licence(v) \/ LastAsk(v) \/ Moved(v)
  BY <1>2, <1>3, <1>10 DEF ReleaseDone, ReadToRelease, Licence, LastAsk, Moved
<1>11. CASE AddReady(v) \/ \E l \in Workflow : TakeOff(v, l)
  BY <1>2, <1>11 DEF AddReady, TakeOff
<1>12. CASE Unheld(v) \/ RetireAttempt(v) \/ ReadParent(v) \/ WriteParent(v)
  BY <1>2, <1>3, <1>12 DEF Unheld, RetireAttempt, ReadParent, WriteParent
<1>13. ASSUME NEW c \in Child,
              \/ Scan(v, c) \/ CheckClaimed(v, c) \/ ClaimChild(v, c)
              \/ ReadAgain(v, c) \/ ReleaseNext(v, c)
       PROVE  at'[w] = at[w]
  BY <1>2, <1>3, <1>13 DEF Scan, CheckClaimed, ClaimChild, ReadAgain, ReleaseNext
<1> QED
  BY <1>5, <1>6, <1>7, <1>8, <1>9, <1>10, <1>11, <1>12, <1>13 DEF Walk

\* No step of a release walk takes a hold off an issue.
THEOREM HoldsSurvive == Spec => HoldSurvives
<1> DEFINE P == \A w \in Worker, i \in Issue :
                   /\ at[w].pc \in WalkPc \ {"merged"} /\ at'[w] # at[w]
                   /\ "paused" \in labels[i]
                   => "paused" \in labels'[i]
<1>1. ASSUME IInv, Next PROVE P
  <2> SUFFICES ASSUME NEW w \in Worker, NEW i \in Issue,
                      at[w].pc \in WalkPc \ {"merged"}, at'[w] # at[w],
                      "paused" \in labels[i]
               PROVE  "paused" \in labels'[i]
    OBVIOUS
  <2>1. labels \in [Issue -> SUBSET Label] /\ TypeOK
    BY <1>1 DEF IInv, TypeOK
  <2>2. "paused" \notin Workflow
    BY DEF Workflow
  <2>3. CASE Walk(w)
    <3>1. CASE AddReady(w)
      <4>1. labels' = [labels EXCEPT ![at[w].cur] = @ \cup {"ready"}]
        BY <3>1 DEF AddReady
      <4> QED
        BY <2>1, <4>1
    <3>2. ASSUME NEW l \in Workflow, TakeOff(w, l) PROVE "paused" \in labels'[i]
      <4>1. labels' = [labels EXCEPT ![at[w].cur] = @ \ {l}]
        BY <3>2 DEF TakeOff
      <4> QED
        BY <2>1, <2>2, <4>1
    <3>3. ~FinalizeMerged(w)
      BY DEF FinalizeMerged
    <3>4. CASE \/ ParkRejected(w) \/ NoneRejected(w) \/ CheckRead(w) \/ ParkClosed(w)
               \/ Decide(w) \/ Vouch(w) \/ ReleaseDone(w) \/ ReadToRelease(w)
      BY <3>4 DEF ParkRejected, NoneRejected, CheckRead, ParkClosed, Park, Decide, Vouch,
         ReleaseDone, ReadToRelease, github
    <3>5. CASE \/ Licence(w) \/ LastAsk(w) \/ Moved(w) \/ Unheld(w)
               \/ RetireAttempt(w) \/ ReadParent(w) \/ WriteParent(w)
      BY <3>5 DEF Licence, LastAsk, Moved, Unheld, RetireAttempt, ReadParent, WriteParent, github
    <3>6. ASSUME NEW c \in Child,
                 \/ Scan(w, c) \/ CheckClaimed(w, c) \/ ClaimChild(w, c)
                 \/ ReadAgain(w, c) \/ ReleaseNext(w, c)
          PROVE  "paused" \in labels'[i]
      BY <3>6 DEF Scan, CheckClaimed, ClaimChild, ReadAgain, ReleaseNext, github
    <3> QED
      BY <2>3, <3>1, <3>2, <3>3, <3>4, <3>5, <3>6 DEF Walk
  <2>4. ASSUME NEW j \in Issue, Dispatch(w, j) PROVE "paused" \in labels'[i]
    BY <2>4 DEF Dispatch, github
  <2>5. CASE Skip(w) \/ Fail(w)
    BY <2>5 DEF Skip, Fail, github
  <2>6. ~(FetchReady(w) \/ Start(w) \/ Merge(w))
    BY DEF FetchReady, Start, Merge, WalkPc
  <2>7. ~(Human \/ ObserveClose)
    BY DEF Human, ByHand, ToggleHold, CloseByHand, ReadyByHand, SettleByHand, EditRecord,
       ObserveClose
  <2> QED
    BY <1>1, <2>1, <2>3, <2>4, <2>5, <2>6, <2>7, OneMoves DEF Next
<1>2. ASSUME UNCHANGED vars PROVE P
  BY <1>2 DEF vars
<1>3. IInv /\ [Next]_vars => [P]_vars
  BY <1>1, <1>2
<1> QED
  BY <1>3, Invariance, PTL DEF Spec, HoldSurvives

-----------------------------------------------------------------------------
(***************************************************************************)
(* The claims, step by step: a dispatch takes the ones nobody has and      *)
(* gives back its own, and where it ends it holds none.                    *)
(***************************************************************************)
Moves(w) ==
    /\ \A i \in Issue : \/ claim'[i] = claim[i]
                        \/ claim[i] = None /\ claim'[i] = w
                        \/ claim[i] = w /\ claim'[i] = None
    /\ at'[w].pc = "idle" => \A i \in Issue : claim'[i] # w

LEMMA LeaveMoves ==
    ASSUME TypeOK, NEW w \in Worker, Leave(w)
    PROVE  Moves(w)
<1>1. \A i \in Issue : claim'[i] = IF claim[i] = w THEN None ELSE claim[i]
  BY DEF Leave
<1> QED
  BY <1>1, NoneAssumption DEF Moves

\* A step that goes on, its claims as they were.
LEMMA GoMoves ==
    ASSUME TypeOK, NEW w \in Worker, NEW s, Go(w, s), s.pc # "idle", UNCHANGED claim
    PROVE  Moves(w)
<1>1. at'[w] = s
  BY DEF TypeOK, Go
<1> QED
  BY <1>1 DEF Moves

\* A step that goes on with one claim more, which nobody had.
LEMMA TakeMoves ==
    ASSUME TypeOK, NEW w \in Worker, NEW i \in Issue, claim[i] = None,
           claim' = [claim EXCEPT ![i] = w], at'[w].pc # "idle"
    PROVE  Moves(w)
  BY DEF TypeOK, Moves

LEMMA JudgedMoves ==
    ASSUME IInv, NEW w \in Worker, at[w].pc \in {"checking", "merged"},
           NEW s \in WorkerState, Judged(w, s)
    PROVE  Moves(w)
<1>1. claim \in [Issue -> Worker \cup {None}]
  BY DEF IInv, TypeOK
<1>2. at[w].cur \in Issue /\ claim[at[w].cur] = w
  BY DEF IInv, LocalOK, Claims
<1>3. claim' = [claim EXCEPT ![at[w].cur] = None]
  BY DEF Judged
<1>4. at'[w].pc = "check"
  BY DEF Judged, Go, IInv, TypeOK, WorkerState
<1> QED
  BY <1>1, <1>2, <1>3, <1>4 DEF Moves

LEMMA WorkerMoves ==
    ASSUME IInv, NEW w \in Worker,
           \/ Walk(w) \/ Skip(w) \/ FetchReady(w) \/ Start(w) \/ Merge(w) \/ Fail(w)
           \/ \E i \in Issue : Dispatch(w, i)
    PROVE  Moves(w)
<1>0. TypeOK /\ at \in [Worker -> WorkerState]
  BY DEF IInv, TypeOK, WorkerState
<1>1. ASSUME Leave(w) PROVE Moves(w)
  BY <1>0, <1>1, LeaveMoves
<1>2. ASSUME NEW s, Go(w, s), s.pc # "idle", UNCHANGED claim PROVE Moves(w)
  BY <1>0, <1>2, GoMoves
<1>3. CASE Skip(w) \/ FetchReady(w) \/ Start(w) \/ Merge(w) \/ Fail(w)
  BY <1>0, <1>1, <1>2, <1>3 DEF Skip, FetchReady, Start, Merge, Fail, WorkerState
<1>4. ASSUME NEW i \in Issue, Dispatch(w, i) PROVE Moves(w)
  <2>1. PICK r : Go(w, [Idle EXCEPT !.pc = Route(i, r), !.cur = i, !.now = r])
    BY <1>4 DEF Dispatch
  <2>2. at'[w].pc = Route(i, r)
    BY <1>0, <2>1 DEF Go, Idle
  <2>3. Route(i, r) # "idle"
    BY DEF Route
  <2> QED
    BY <1>0, <1>4, <2>2, <2>3, TakeMoves DEF Dispatch
<1>5. CASE ParkRejected(w) \/ ParkClosed(w)
  BY <1>1, <1>5 DEF ParkRejected, ParkClosed, Park
<1>6. CASE NoneRejected(w) \/ Decide(w)
  BY <1>0, <1>2, <1>6 DEF NoneRejected, Decide, WorkerState, Idle
<1>7. CASE Vouch(w)
  BY <1>0, <1>1, <1>2, <1>7 DEF Vouch, Idle
<1>8. CASE CheckRead(w)
  <2>1. ASSUME NEW s \in WorkerState, Judged(w, s) PROVE Moves(w)
    BY <1>8, <2>1, JudgedMoves DEF CheckRead
  <2>2. CASE Judged(w, at[w])
    BY <1>0, <2>1, <2>2
  <2>3. ASSUME NEW r \in Readings(at[w].cur),
               Judged(w, [at[w] EXCEPT !.read[at[w].cur] = r])
        PROVE  Moves(w)
    <3>1. at[w].cur \in Issue
      BY <1>8 DEF CheckRead, IInv, LocalOK, Claims
    <3>2. r \in Reading
      BY <1>0, <2>3, <3>1, ReadingsTyped
    <3>3. [at[w] EXCEPT !.read[at[w].cur] = r] \in WorkerState
      BY <1>0, <3>2 DEF WorkerState
    <3> QED
      BY <2>1, <2>3, <3>3
  <2>4. ASSUME NEW r \in Readings(at[w].cur),
               Judged(w, [[at[w] EXCEPT !.read[at[w].cur] = r] EXCEPT !.byHand = TRUE])
        PROVE  Moves(w)
    <3>1. at[w].cur \in Issue
      BY <1>8 DEF CheckRead, IInv, LocalOK, Claims
    <3>2. r \in Reading
      BY <1>0, <2>4, <3>1, ReadingsTyped
    <3>3. [[at[w] EXCEPT !.read[at[w].cur] = r] EXCEPT !.byHand = TRUE] \in WorkerState
      BY <1>0, <3>2 DEF WorkerState
    <3> QED
      BY <2>1, <2>4, <3>3
  <2>5. ASSUME NEW r, UNCHANGED claim,
               Go(w, [[at[w] EXCEPT !.read[at[w].cur] = r]
                         EXCEPT !.pc = "merged", !.now = r])
        PROVE  Moves(w)
    BY <1>0, <1>2, <2>5 DEF WorkerState
  <2> QED
    BY <1>8, <2>2, <2>3, <2>4, <2>5 DEF CheckRead
<1>9. CASE FinalizeMerged(w)
  <2>1. at[w].pc = "merged" /\ Judged(w, [at[w] EXCEPT !.read[at[w].cur].label = "done"])
    BY <1>9 DEF FinalizeMerged
  <2>2. at[w].read[at[w].cur] \in Reading
    BY <2>1 DEF IInv, LocalOK, Shape
  <2>3. [at[w].read[at[w].cur] EXCEPT !.label = "done"] \in Reading
    BY <2>2 DEF Reading, Workflow
  <2>4. [at[w] EXCEPT !.read[at[w].cur].label = "done"] \in WorkerState
    BY <1>0, <2>3 DEF WorkerState
  <2> QED
    BY <2>1, <2>4, JudgedMoves
<1>10. CASE ReleaseDone(w) \/ ReadToRelease(w) \/ Licence(w) \/ LastAsk(w) \/ Moved(w)
  BY <1>0, <1>1, <1>2, <1>10
     DEF ReleaseDone, ReadToRelease, Licence, LastAsk, Moved, WorkerState
<1>11. CASE AddReady(w) \/ \E l \in Workflow : TakeOff(w, l)
  BY <1>0, <1>2, <1>11 DEF AddReady, TakeOff, WorkerState
<1>12. CASE Unheld(w) \/ RetireAttempt(w) \/ ReadParent(w) \/ WriteParent(w)
  BY <1>0, <1>1, <1>2, <1>12 DEF Unheld, RetireAttempt, ReadParent, WriteParent, WorkerState
<1>13. ASSUME NEW c \in Child, Scan(w, c) \/ ReadAgain(w, c) \/ ReleaseNext(w, c)
       PROVE  Moves(w)
  BY <1>0, <1>1, <1>2, <1>13 DEF Scan, ReadAgain, ReleaseNext, WorkerState
<1>14. ASSUME NEW c \in Child, CheckClaimed(w, c) PROVE Moves(w)
  <2>1. CASE claim[c] = None
    <3>1. /\ claim' = [claim EXCEPT ![c] = w]
          /\ Go(w, [at[w] EXCEPT !.pc = "checking", !.cur = c, !.todo = @ \ {c}])
      BY <1>14, <2>1 DEF CheckClaimed
    <3>2. at'[w].pc = "checking"
      BY <1>0, <3>1 DEF Go, WorkerState
    <3> QED
      BY <1>0, <2>1, <3>1, <3>2, TakeMoves DEF Issue
  <2>2. CASE claim[c] # None
    BY <1>0, <1>2, <1>14, <2>2 DEF CheckClaimed, WorkerState
  <2> QED
    BY <2>1, <2>2
<1>15. ASSUME NEW c \in Child, ClaimChild(w, c) PROVE Moves(w)
  <2>1. CASE claim[c] = None
    <3>1. claim' = [claim EXCEPT ![c] = w] /\ at'[w].pc = "choosing"
      BY <1>15, <2>1 DEF ClaimChild
    <3> QED
      BY <1>0, <2>1, <3>1, TakeMoves DEF Issue
  <2>2. CASE claim[c] # None
    BY <1>1, <1>15, <2>2 DEF ClaimChild
  <2> QED
    BY <2>1, <2>2
<1> QED
  BY <1>3, <1>4, <1>5, <1>6, <1>7, <1>8, <1>9, <1>10, <1>11, <1>12, <1>13, <1>14, <1>15
     DEF Walk

\* Humans hold no claim.
LEMMA HumanMoves ==
    ASSUME Human \/ ObserveClose
    PROVE  UNCHANGED <<claim, at>>
  BY DEF Human, ByHand, ToggleHold, CloseByHand, ReadyByHand, SettleByHand, EditRecord,
     ObserveClose

LEMMA NextMoves ==
    ASSUME IInv, Next
    PROVE  \/ UNCHANGED <<claim, at>>
           \/ \E w \in Worker : /\ Moves(w)
                                /\ \A v \in Worker : v # w => at'[v] = at[v]
<1>1. TypeOK
  BY DEF IInv
<1>2. ASSUME NEW w \in Worker,
             \/ Walk(w) \/ Skip(w) \/ FetchReady(w) \/ Start(w) \/ Merge(w) \/ Fail(w)
             \/ \E i \in Issue : Dispatch(w, i)
      PROVE  Moves(w) /\ \A v \in Worker : v # w => at'[v] = at[v]
  BY <1>1, <1>2, WorkerMoves, OneMoves
<1> QED
  BY <1>2, HumanMoves DEF Next

\* However a dispatch ends, done, parked or cut off by a failed request, no issue
\* stays claimed behind it.
THEOREM NothingLeftClaimed == Spec => []NoClaimLeft
<1>1. Init => NoClaimLeft
  BY DEF Init, NoClaimLeft
<1>2. ASSUME IInv, NoClaimLeft, Next PROVE NoClaimLeft'
  <2>1. CASE UNCHANGED <<claim, at>>
    BY <1>2, <2>1 DEF NoClaimLeft
  <2>2. ASSUME NEW w \in Worker, Moves(w), \A v \in Worker : v # w => at'[v] = at[v]
        PROVE  NoClaimLeft'
    <3> SUFFICES ASSUME NEW i \in Issue, claim'[i] # None
                 PROVE  at'[claim'[i]].pc # "idle"
      BY DEF NoClaimLeft
    <3>1. CASE claim'[i] = w
      BY <2>2, <3>1 DEF Moves
    <3>2. CASE claim'[i] # w
      <4>1. claim'[i] = claim[i]
        BY <2>2, <3>2 DEF Moves
      <4>2. claim[i] \in Worker
        BY <1>2, <4>1 DEF IInv, TypeOK
      <4> QED
        BY <1>2, <2>2, <3>2, <4>1, <4>2 DEF NoClaimLeft
    <3> QED
      BY <3>1, <3>2
  <2> QED
    BY <1>2, <2>1, <2>2, NextMoves
<1>3. IInv /\ NoClaimLeft /\ [Next]_vars => NoClaimLeft'
  <2>1. UNCHANGED vars /\ NoClaimLeft => NoClaimLeft'
    BY DEF vars, NoClaimLeft
  <2> QED
    BY <1>2, <2>1
<1> QED
  BY <1>1, <1>3, Invariance, PTL DEF Spec

LEMMA ClaimStep ==
    ASSUME IInv, [Next]_vars, NEW i \in Issue
    PROVE  [Claim(i)!Next]_(Claim(i)!vars)
<1>1. ASSUME claim'[i] = claim[i] PROVE UNCHANGED Claim(i)!vars
  BY <1>1 DEF Claim!vars
<1>2. ASSUME NEW w \in Worker, claim[i] = None, claim'[i] = w
      PROVE  Claim(i)!Next
  <2>1. Claim(i)!Enter(w, i)
    BY <1>2, NoneAssumption DEF Claim!Enter, Claim!Inside
  <2> QED
    BY <2>1 DEF Claim!Next
<1>3. ASSUME NEW w \in Worker, claim[i] = w, claim'[i] = None
      PROVE  Claim(i)!Next
  <2>1. Claim(i)!Leave(<<w, i>>)
    BY <1>3, NoneAssumption DEF Claim!Leave, Claim!Inside
  <2> QED
    BY <2>1 DEF Claim!Next
<1>4. CASE UNCHANGED vars
  BY <1>1, <1>4 DEF vars
<1>5. CASE Next
  <2>1. CASE UNCHANGED <<claim, at>>
    BY <1>1, <2>1
  <2>2. ASSUME NEW w \in Worker, Moves(w) PROVE [Claim(i)!Next]_(Claim(i)!vars)
    BY <1>1, <1>2, <1>3, <2>2 DEF Moves
  <2> QED
    BY <1>5, <2>1, <2>2, NextMoves
<1> QED
  BY <1>4, <1>5

\* A parent's walk and the dispatches beside it take each issue's claim, the
\* children's among them, from nobody, and give back only what they have.
THEOREM ClaimKept == Spec => KeepsToClaim
<1>1. Init => \A i \in Issue : Claim(i)!Init
  BY DEF Init, Claim!Init
<1>2. IInv /\ [Next]_vars => \A i \in Issue : [Claim(i)!Next]_(Claim(i)!vars)
  BY ClaimStep
<1> QED
  BY <1>1, <1>2, Invariance, PTL DEF Spec, KeepsToClaim
=============================================================================
