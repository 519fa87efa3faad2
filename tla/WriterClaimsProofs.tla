------------------------- MODULE WriterClaimsProofs -------------------------
(***************************************************************************)
(* The contract of the claim, and that its lock is never left behind, for  *)
(* every number of processes and of threads in them.                       *)
(***************************************************************************)
EXTENDS WriterClaims, FiniteSetTheorems, TLAPS

\* The threads of p that are on their way in.
Takes(p) == {t \in Thread : inside[p][t] \in {"takes_writing", "takes_alongside"}}

-----------------------------------------------------------------------------
\* What a process believes it holds is what its threads are inside of.
Counted(p) == holding[p].holders = Cardinality(Inside(p))

Flagged(p) ==
    /\ holding[p].writing => \E t \in Thread : inside[p][t] = "writing"
    /\ \A t \in Thread : inside[p][t] = "writing" => holding[p].writing
    /\ \A t, u \in Thread : inside[p][t] = "writing" /\ inside[p][u] = "writing" => t = u

\* Whoever is inside, on the way in or on the way out is of the process that has
\* the flock, and nothing else has it.
Locked(p) ==
    /\ step[p] # "idle" => lock = p /\ Inside(p) = {}
    /\ Inside(p) # {} => lock = p
    /\ lock = p => up[p] = "up" /\ (Inside(p) # {} \/ step[p] # "idle")

\* The mutex lets one thread at a time be on its way in.
OneTaker(p) ==
    /\ step[p] \in {"locked", "emptied"} => Takes(p) # {}
    /\ Takes(p) # {} => step[p] \in {"locked", "emptied"}
    /\ \A t, u \in Takes(p) : t = u

ClaimInv == \A p \in Process : Counted(p) /\ Flagged(p) /\ Locked(p) /\ OneTaker(p)

IInv == TypeOK /\ ClaimInv

-----------------------------------------------------------------------------
\* Every form the file takes is a file, a cut write's included.
LEMMA FileShapes ==
    /\ Empty \in File
    /\ \A p \in Process : WithHolder(p) \in File
    /\ \A f \in File : \A c \in Cycle : WithNote(f, c) \in File
    /\ \A f \in File : \A m \in Moment : WithStamp(f, m) \in File
    /\ \A f \in File, key \in Keys : \A n : CutShort(f, key, n) \subseteq File
<1>0. 0 \in Moment
  BY ConstantsAssumption DEF Moment
<1>1. Empty \in File
  BY DEF Empty, File
<1>2. ASSUME NEW p \in Process PROVE WithHolder(p) \in File
  BY <1>1 DEF WithHolder, Empty, File
<1>3. ASSUME NEW f \in File PROVE Merged(f) \in File
  BY DEF Merged, File
<1>4. ASSUME NEW f \in File
      PROVE  /\ \A c \in Cycle : WithNote(f, c) \in File
             /\ \A m \in Moment : WithStamp(f, m) \in File
  BY <1>3 DEF WithNote, WithStamp, File
<1>5. ASSUME NEW key \in Keys, NEW n PROVE CutTails(key, n) \subseteq Tail
  BY <1>0 DEF CutTails, Tail, Value, Keys
<1>6. ASSUME NEW f \in File, NEW key \in Keys, NEW n
      PROVE  CutShort(f, key, n) \subseteq File
  BY <1>5 DEF CutShort, File
<1> QED
  BY <1>1, <1>2, <1>4, <1>6

LEMMA InsideFinite ==
    ASSUME TypeOK, NEW p \in Process
    PROVE  /\ IsFiniteSet(Inside(p))
           /\ Cardinality(Inside(p)) \in Nat
           /\ Cardinality(Inside(p)) = 0 <=> Inside(p) = {}
<1>1. Inside(p) \subseteq Thread
  BY DEF Inside
<1>2. IsFiniteSet(Inside(p))
  BY <1>1, ConstantsAssumption, FS_Subset
<1> QED
  BY <1>2, FS_EmptySet, FS_CardinalityType

-----------------------------------------------------------------------------
LEMMA InitHolds == Init => IInv
<1> SUFFICES ASSUME Init PROVE IInv
  OBVIOUS
<1>0. None \notin Process /\ 0 \in Moment
  BY ConstantsAssumption DEF Moment
<1>1. \A p \in Process : Inside(p) = {} /\ Takes(p) = {}
  BY DEF Init, Inside, Takes, Mode
<1>2. TypeOK
  BY <1>0 DEF Init, TypeOK, File, Empty, NoHolding
<1>3. ASSUME NEW p \in Process PROVE Counted(p) /\ Flagged(p) /\ Locked(p) /\ OneTaker(p)
  <2>1. Counted(p)
    BY <1>1, FS_EmptySet DEF Init, Counted, NoHolding
  <2>2. Flagged(p)
    BY DEF Init, Flagged, NoHolding
  <2>3. Locked(p)
    BY <1>0, <1>1 DEF Init, Locked
  <2>4. OneTaker(p)
    BY <1>1 DEF Init, OneTaker
  <2> QED
    BY <2>1, <2>2, <2>3, <2>4
<1> QED
  BY <1>2, <1>3 DEF IInv, ClaimInv

LEMMA TypeStep == IInv /\ [Next]_vars => TypeOK'
<1> SUFFICES ASSUME IInv, [Next]_vars PROVE TypeOK'
  OBVIOUS
<1> DEFINE Holding == [writing : BOOLEAN, holders : Nat]
           Course == Mode \cup {"out", "takes_writing", "takes_alongside", "leaves"}
           Reading == [at : Moment, disturbed : BOOLEAN] \cup {None}
           Last == [ended : {"standing", "stamped", "unstamped", "died"},
                    noted : SUBSET Cycle,
                    whole : Cycle \cup {None}]
<1>t. /\ up \in [Process -> {"unborn", "up", "dead"}]
      /\ clock \in Moment
      /\ lock \in Process \cup {None}
      /\ file \in File
      /\ step \in [Process -> {"idle", "locked", "emptied", "stamping", "unlocking"}]
      /\ left \in [Process -> File]
      /\ stamp \in [Process -> Moment]
      /\ holding \in [Process -> Holding]
      /\ inside \in [Process -> [Thread -> Course]]
      /\ elsewhere \in [Process -> Moment \cup {None}]
      /\ reading \in [Process -> Reading]
      /\ last \in Last
  BY DEF IInv, TypeOK
<1>s. ASSUME /\ up' \in [Process -> {"unborn", "up", "dead"}]
             /\ clock' \in Moment
             /\ lock' \in Process \cup {None}
             /\ file' \in File
             /\ step' \in [Process -> {"idle", "locked", "emptied", "stamping", "unlocking"}]
             /\ left' \in [Process -> File]
             /\ stamp' \in [Process -> Moment]
             /\ holding' \in [Process -> Holding]
             /\ inside' \in [Process -> [Thread -> Course]]
             /\ elsewhere' \in [Process -> Moment \cup {None}]
             /\ reading' \in [Process -> Reading]
             /\ last' \in Last
      PROVE  TypeOK'
  BY <1>s DEF TypeOK
<1>z. /\ 0 \in Moment
      /\ Empty \in File
      /\ NoHolding \in Holding
      /\ {"writing", "alongside", "out", "takes_writing", "takes_alongside", "leaves"}
            \subseteq Course
      /\ Mode \subseteq Course
  BY ConstantsAssumption, FileShapes DEF Moment, NoHolding, Mode
<1> HIDE DEF Holding, Course, Reading, Last
<1>1. CASE Tick
  <2>1. clock' \in Moment
    BY <1>1, <1>t, ConstantsAssumption DEF Tick, Moment
  <2> QED
    BY <1>1, <2>1, <1>t, <1>s DEF Tick
<1>2. ASSUME NEW gone \in SUBSET Process, Die(gone), clock' \in Moment PROVE TypeOK'
  <2>1. last' \in Last
    BY <1>2, <1>t DEF Die, Last
  <2>2. [t \in Thread |-> "out"] \in [Thread -> Course]
    BY <1>z
  <2>3. lock' \in Process \cup {None} /\ file' = file
    BY <1>2, <1>t DEF Die
  <2>4. /\ up' \in [Process -> {"unborn", "up", "dead"}]
        /\ step' \in [Process -> {"idle", "locked", "emptied", "stamping", "unlocking"}]
        /\ left' \in [Process -> File]
        /\ stamp' \in [Process -> Moment]
    BY <1>2, <1>t, <1>z DEF Die
  <2>5. /\ holding' \in [Process -> Holding]
        /\ inside' \in [Process -> [Thread -> Course]]
        /\ elsewhere' \in [Process -> Moment \cup {None}]
    BY <1>2, <1>t, <1>z, <2>2 DEF Die
  <2>6. reading' \in [Process -> Reading]
    BY <1>2, <1>t DEF Die, Reading
  <2> QED
    BY <1>2, <1>t, <1>s, <2>1, <2>3, <2>4, <2>5, <2>6
<1>3. CASE Reboot
  BY <1>2, <1>3, <1>z DEF Reboot
<1>4. ASSUME NEW p \in Process, Crash(p) PROVE TypeOK'
  BY <1>2, <1>4, <1>t DEF Crash
<1>5. ASSUME NEW p \in Process, Start(p) PROVE TypeOK'
  BY <1>5, <1>t, <1>s DEF Start
<1>6. ASSUME NEW p \in Process, Poll(p) PROVE TypeOK'
  <2>1. reading' \in [Process -> Reading]
    BY <1>6, <1>t DEF Poll, Reading
  <2> QED
    BY <1>6, <1>t, <1>s, <2>1 DEF Poll
<1>7. ASSUME NEW p \in Process, GiveUp(p), file' \in File PROVE TypeOK'
  <2>1. inside' \in [Process -> [Thread -> Course]]
    BY <1>7, <1>t, <1>z DEF GiveUp
  <2> QED
    BY <1>7, <1>t, <1>s, <1>z, <2>1 DEF GiveUp
<1>8. ASSUME NEW p \in Process, EmptyFile(p) PROVE TypeOK'
  <2>1. CASE file' = file /\ GiveUp(p)
    BY <2>1, <1>7, <1>t
  <2>2. CASE ~(file' = file /\ GiveUp(p))
    BY <2>2, <1>8, <1>t, <1>s, <1>z DEF EmptyFile
  <2> QED
    BY <2>1, <2>2
<1>9. ASSUME NEW p \in Process, Sign(p) PROVE TypeOK'
  <2>1. CASE file' \in CutShort(file, "holder", 0) /\ GiveUp(p)
    <3>1. CutShort(file, "holder", 0) \subseteq File
      BY <1>t, FileShapes DEF Keys
    <3> QED
      BY <2>1, <3>1, <1>7
  <2>2. CASE ~(file' \in CutShort(file, "holder", 0) /\ GiveUp(p))
    <3>1. /\ file' = WithHolder(p)
          /\ elsewhere' = [elsewhere EXCEPT ![p] = Found(p, left[p], clock)]
          /\ left' = [left EXCEPT ![p] = Empty]
          /\ step' = [step EXCEPT ![p] = "idle"]
          /\ Granted(p)
          /\ UNCHANGED <<up, clock, lock, stamp>>
      BY <2>2, <1>9 DEF Sign
    <3>2. file' \in File
      BY <3>1, FileShapes
    <3>3. Found(p, left[p], clock) \in Moment \cup {None}
      <4>1. left[p].released \in Moment \cup {None}
        BY <1>t DEF File
      <4>2. EndedElsewhere(p, left[p], clock) \in Moment \cup {None}
        BY <4>1, <1>t DEF EndedElsewhere
      <4> QED
        BY <4>2, <1>t DEF Found
    <3>4. FreshHolding(p) \in Holding
      BY DEF FreshHolding, Holding
    <3>5. inside' \in [Process -> [Thread -> Course]]
      <4>1. inside' = [inside EXCEPT ![p] = [t \in Thread |->
              CASE inside[p][t] = "takes_writing"   -> "writing"
                [] inside[p][t] = "takes_alongside" -> "alongside"
                [] OTHER                            -> inside[p][t]]]
        BY <3>1 DEF Granted, Entered
      <4>2. [t \in Thread |->
              CASE inside[p][t] = "takes_writing"   -> "writing"
                [] inside[p][t] = "takes_alongside" -> "alongside"
                [] OTHER                            -> inside[p][t]] \in [Thread -> Course]
        BY <1>t, <1>z
      <4> QED
        BY <4>1, <4>2, <1>t
    <3>6. holding' \in [Process -> Holding]
      BY <3>1, <3>4, <1>t DEF Granted
    <3>7. last' \in Last
      BY <3>1, <1>t DEF Granted, Last
    <3>8. reading' \in [Process -> Reading]
      <4>1. ASSUME NEW q \in Process, reading[q] # None
            PROVE  [reading[q] EXCEPT !.disturbed = TRUE] \in Reading
        BY <4>1, <1>t DEF Reading
      <4> QED
        BY <3>1, <4>1, <1>t DEF Granted
    <3> QED
      BY <3>1, <3>2, <3>3, <3>5, <3>6, <3>7, <3>8, <1>t, <1>s, <1>z
  <2> QED
    BY <2>1, <2>2
<1>10. ASSUME NEW p \in Process, Stamp(p) PROVE TypeOK'
  <2>1. file' \in File
    <3>1. /\ CutShort(file, "released", stamp[p]) \subseteq File
          /\ WithStamp(file, stamp[p]) \in File
      BY <1>t, FileShapes DEF Keys
    <3> QED
      BY <1>10, <3>1 DEF Stamp
  <2>2. last' \in Last
    BY <1>10, <1>t DEF Stamp, Last
  <2>3. /\ step' = [step EXCEPT ![p] = "unlocking"]
        /\ UNCHANGED <<up, clock, lock, left, stamp, holding, inside, elsewhere, reading>>
    BY <1>10 DEF Stamp
  <2> QED
    BY <2>1, <2>2, <2>3, <1>t, <1>s
<1>11. ASSUME NEW p \in Process, Unlock(p) PROVE TypeOK'
  <2>1. inside' \in [Process -> [Thread -> Course]]
    BY <1>11, <1>t, <1>z DEF Unlock
  <2>2. /\ step' \in [Process -> {"idle", "locked", "emptied", "stamping", "unlocking"}]
        /\ stamp' \in [Process -> Moment]
        /\ lock' = None
    BY <1>11, <1>t, <1>z DEF Unlock
  <2>3. UNCHANGED <<up, clock, file, left, holding, elsewhere, reading, last>>
    BY <1>11 DEF Unlock
  <2> QED
    BY <2>1, <2>2, <2>3, <1>t, <1>s
<1>12. ASSUME NEW p \in Process, NEW t \in Thread, NEW mode \in Mode, JoinFresh(p, t, mode)
       PROVE  TypeOK'
  <2>1. inside' \in [Process -> [Thread -> Course]]
    BY <1>12, <1>t, <1>z DEF JoinFresh
  <2> QED
    BY <1>12, <2>1, <1>t, <1>s DEF JoinFresh
<1>13. ASSUME NEW p \in Process, NEW t \in Thread, NEW mode \in Mode, JoinHeld(p, t, mode)
       PROVE  TypeOK'
  <2>1. inside' \in [Process -> [Thread -> Course]]
    BY <1>13, <1>t, <1>z DEF JoinHeld
  <2>2. holding' \in [Process -> Holding]
    BY <1>13, <1>t DEF JoinHeld, Holding
  <2>3. UNCHANGED <<up, clock, lock, file, step, left, stamp, elsewhere, reading, last>>
    BY <1>13 DEF JoinHeld
  <2> QED
    BY <2>1, <2>2, <2>3, <1>t, <1>s
<1>14. ASSUME NEW p \in Process, NEW t \in Thread, NEW c \in Cycle, NoteRetirement(p, t, c)
       PROVE  TypeOK'
  <2>1. file' \in File
    <3>1. CutShort(file, "note", c) \subseteq File /\ WithNote(file, c) \in File
      BY <1>t, FileShapes DEF Keys
    <3> QED
      BY <1>14, <3>1 DEF NoteRetirement
  <2>2. last' \in Last
    <3>1. CASE last' = last
      BY <3>1, <1>t
    <3>2. CASE last' = [last EXCEPT !.noted = @ \cup {c},
                                    !.whole = IF file.tail = None THEN c ELSE None]
      <4>1. last.noted \cup {c} \in SUBSET Cycle
        BY <1>t DEF Last
      <4> QED
        BY <3>2, <4>1, <1>t DEF Last
    <3> QED
      BY <1>14, <3>1, <3>2 DEF NoteRetirement
  <2>3. UNCHANGED <<up, clock, lock, step, left, stamp, holding, inside,
                    elsewhere, reading>>
    BY <1>14 DEF NoteRetirement
  <2> QED
    BY <2>1, <2>2, <2>3, <1>t, <1>s
<1>15. ASSUME NEW p \in Process, NEW t \in Thread, Leave(p, t) PROVE TypeOK'
  <2>1. holding[p].holders - 1 \in Nat
    <3>1. Inside(p) # {}
      BY <1>15 DEF Leave, Inside
    <3>2. TypeOK /\ holding[p].holders = Cardinality(Inside(p))
      BY DEF IInv, ClaimInv, Counted
    <3>3. Cardinality(Inside(p)) \in Nat /\ Cardinality(Inside(p)) # 0
      BY <3>1, <3>2, InsideFinite
    <3> HIDE DEF Inside
    <3> QED
      BY <3>2, <3>3
  <2>2. holding' \in [Process -> Holding]
    BY <1>15, <2>1, <1>t DEF Leave, Holding
  <2>3. inside' \in [Process -> [Thread -> Course]]
    <3>1. \/ inside' = [inside EXCEPT ![p][t] = "out"]
          \/ inside' = [inside EXCEPT ![p][t] = "leaves"]
      BY <1>15 DEF Leave
    <3>2. "out" \in Course /\ "leaves" \in Course
      BY <1>z
    <3>3. CASE inside' = [inside EXCEPT ![p][t] = "out"]
      BY <3>2, <3>3, <1>t
    <3>4. CASE inside' = [inside EXCEPT ![p][t] = "leaves"]
      BY <3>2, <3>4, <1>t
    <3> QED
      BY <3>1, <3>3, <3>4
  <2>4. /\ step' \in [Process -> {"idle", "locked", "emptied", "stamping", "unlocking"}]
        /\ stamp' \in [Process -> Moment]
    BY <1>15, <1>t DEF Leave
  <2>5. UNCHANGED <<up, clock, lock, file, left, elsewhere, reading, last>>
    BY <1>15 DEF Leave
  <2> QED
    BY <2>2, <2>3, <2>4, <2>5, <1>t, <1>s
<1>16. CASE UNCHANGED vars
  BY <1>16, <1>t, <1>s DEF vars
<1> QED
  BY <1>1, <1>3, <1>4, <1>5, <1>6, <1>8, <1>9, <1>10, <1>11, <1>12, <1>13, <1>14,
     <1>15, <1>16 DEF Next
-----------------------------------------------------------------------------
\* A step of one process is a step of no other one.
Others(p) ==
    \A q \in Process \ {p} :
        /\ up'[q] = up[q] /\ step'[q] = step[q]
        /\ holding'[q] = holding[q] /\ inside'[q] = inside[q]

\* It leaves the others their claim too: the flock is given up only by the process
\* that has it, and taken only when nobody has.
LEMMA OthersKept ==
    ASSUME ClaimInv, NEW p \in Process, Others(p),
           lock' = lock \/ (lock \in {p, None} /\ lock' \in {p, None}),
           NEW q \in Process \ {p}
    PROVE  Counted(q)' /\ Flagged(q)' /\ Locked(q)' /\ OneTaker(q)'
<1>1. Inside(q)' = Inside(q) /\ Takes(q)' = Takes(q)
  BY DEF Others, Inside, Takes
<1>2. None \notin Process
  BY ConstantsAssumption
<1>3. Counted(q) /\ Flagged(q) /\ Locked(q) /\ OneTaker(q)
  BY DEF ClaimInv
<1>4. Counted(q)' /\ Flagged(q)'
  BY <1>1, <1>3 DEF Others, Counted, Flagged
<1>5. Locked(q)'
  BY <1>1, <1>2, <1>3 DEF Others, Locked
<1>6. OneTaker(q)'
  BY <1>1, <1>3 DEF Others, OneTaker
<1> QED
  BY <1>4, <1>5, <1>6

\* So a step of p keeps the invariant when it keeps p's part of it.
LEMMA OwnStep ==
    ASSUME ClaimInv, NEW p \in Process, Others(p),
           lock' = lock \/ (lock \in {p, None} /\ lock' \in {p, None}),
           Counted(p)', Flagged(p)', Locked(p)', OneTaker(p)'
    PROVE  ClaimInv'
<1>1. ASSUME NEW q \in Process PROVE Counted(q)' /\ Flagged(q)' /\ Locked(q)' /\ OneTaker(q)'
  BY <1>1, OthersKept
<1> QED
  BY <1>1 DEF ClaimInv

-----------------------------------------------------------------------------
\* The steps of a join.

LEMMA GiveUpStep ==
    ASSUME TypeOK, ClaimInv, NEW p \in Process, step[p] \in {"locked", "emptied"},
           GiveUp(p)
    PROVE  ClaimInv'
<1>0. /\ inside \in [Process -> [Thread -> Mode \cup
                        {"out", "takes_writing", "takes_alongside", "leaves"}]]
      /\ step \in [Process -> {"idle", "locked", "emptied", "stamping", "unlocking"}]
      /\ holding \in [Process -> [writing : BOOLEAN, holders : Nat]]
  BY DEF TypeOK
<1>1. /\ lock' = None
      /\ step' = [step EXCEPT ![p] = "idle"]
      /\ inside' = [inside EXCEPT ![p] = [t \in Thread |-> "out"]]
      /\ holding' = holding /\ up' = up
  BY DEF GiveUp
<1>2. Others(p)
  BY <1>0, <1>1 DEF Others
<1>3. /\ Inside(p) = {} /\ lock = p
      /\ Counted(p) /\ Flagged(p)
  BY DEF ClaimInv, Locked
<1>4. Inside(p)' = {} /\ Takes(p)' = {}
  BY <1>0, <1>1 DEF Inside, Takes, Mode
<1>5. Counted(p)' /\ Flagged(p)'
  <2>1. \A t \in Thread : inside[p][t] # "writing"
    BY <1>3 DEF Inside, Mode
  <2>2. \A t \in Thread : inside'[p][t] = "out"
    BY <1>0, <1>1
  <2> QED
    BY <1>1, <1>3, <1>4, <2>1, <2>2 DEF Counted, Flagged
<1>6. Locked(p)' /\ OneTaker(p)'
  BY <1>0, <1>1, <1>4, ConstantsAssumption DEF Locked, OneTaker
<1> QED
  BY <1>1, <1>2, <1>3, <1>5, <1>6, OwnStep

LEMMA JoinFreshStep ==
    ASSUME TypeOK, ClaimInv, NEW p \in Process, NEW t \in Thread, NEW mode \in Mode,
           JoinFresh(p, t, mode)
    PROVE  ClaimInv'
<1>0. /\ inside \in [Process -> [Thread -> Mode \cup
                        {"out", "takes_writing", "takes_alongside", "leaves"}]]
      /\ step \in [Process -> {"idle", "locked", "emptied", "stamping", "unlocking"}]
      /\ IsFiniteSet(Inside(p)) /\ (Cardinality(Inside(p)) = 0 <=> Inside(p) = {})
  BY InsideFinite DEF TypeOK
<1>1. /\ up[p] = "up" /\ step[p] = "idle" /\ inside[p][t] = "out"
      /\ holding[p].holders = 0 /\ lock = None /\ lock' = p
      /\ step' = [step EXCEPT ![p] = "locked"]
      /\ \/ inside' = [inside EXCEPT ![p][t] = "takes_writing"]
         \/ inside' = [inside EXCEPT ![p][t] = "takes_alongside"]
      /\ holding' = holding /\ up' = up
  BY DEF JoinFresh, Free
<1>2. Others(p)
  BY <1>0, <1>1 DEF Others
<1>3. Counted(p) /\ Flagged(p) /\ OneTaker(p)
  BY DEF ClaimInv
<1>4. Inside(p) = {} /\ Takes(p) = {}
  BY <1>0, <1>1, <1>3 DEF Counted, OneTaker
<1>5. /\ \A u \in Thread \ {t} : inside'[p][u] = inside[p][u]
      /\ inside'[p][t] \in {"takes_writing", "takes_alongside"}
  BY <1>0, <1>1
<1>6. Inside(p)' = {} /\ Takes(p)' = {t}
  BY <1>4, <1>5 DEF Inside, Takes, Mode
<1>7. Counted(p)' /\ Flagged(p)'
  <2>1. \A u \in Thread : inside[p][u] # "writing" /\ inside'[p][u] # "writing"
    BY <1>4, <1>6 DEF Inside, Mode
  <2> QED
    BY <1>1, <1>3, <1>4, <1>6, <2>1 DEF Counted, Flagged
<1>8. Locked(p)' /\ OneTaker(p)'
  BY <1>0, <1>1, <1>6 DEF Locked, OneTaker
<1> QED
  BY <1>1, <1>2, <1>7, <1>8, OwnStep

LEMMA SignedStep ==
    ASSUME TypeOK, ClaimInv, NEW p \in Process, step[p] = "emptied",
           step' = [step EXCEPT ![p] = "idle"], Granted(p), up' = up, lock' = lock
    PROVE  ClaimInv'
<1>0. /\ inside \in [Process -> [Thread -> Mode \cup
                        {"out", "takes_writing", "takes_alongside", "leaves"}]]
      /\ step \in [Process -> {"idle", "locked", "emptied", "stamping", "unlocking"}]
      /\ holding \in [Process -> [writing : BOOLEAN, holders : Nat]]
  BY DEF TypeOK
<1>1. /\ holding' = [holding EXCEPT ![p] = FreshHolding(p)]
      /\ inside' = [inside EXCEPT ![p] = [t \in Thread |->
              CASE inside[p][t] = "takes_writing"   -> "writing"
                [] inside[p][t] = "takes_alongside" -> "alongside"
                [] OTHER                            -> inside[p][t]]]
  BY DEF Granted, Entered
<1>2. Others(p)
  BY <1>0, <1>1 DEF Others
<1>3. /\ Inside(p) = {} /\ lock = p /\ up[p] = "up"
      /\ Takes(p) # {} /\ \A t, u \in Takes(p) : t = u
  BY DEF ClaimInv, Locked, OneTaker
<1>4. PICK t \in Thread : Takes(p) = {t}
  BY <1>3 DEF Takes
<1>5. ASSUME NEW u \in Thread
      PROVE  inside'[p][u] = CASE inside[p][u] = "takes_writing"   -> "writing"
                               [] inside[p][u] = "takes_alongside" -> "alongside"
                               [] OTHER                            -> inside[p][u]
  BY <1>0, <1>1
<1>6. \A u \in Thread \ {t} :
        /\ inside[p][u] \notin Mode \cup {"takes_writing", "takes_alongside"}
        /\ inside'[p][u] = inside[p][u]
  BY <1>3, <1>4, <1>5 DEF Inside, Takes
<1>7. \/ inside[p][t] = "takes_writing" /\ inside'[p][t] = "writing"
      \/ inside[p][t] = "takes_alongside" /\ inside'[p][t] = "alongside"
  BY <1>4, <1>5 DEF Takes
<1>8. Inside(p)' = {t} /\ Takes(p)' = {}
  BY <1>6, <1>7 DEF Inside, Takes, Mode
<1>9. Counted(p)'
  BY <1>0, <1>1, <1>8, FS_Singleton DEF Counted, FreshHolding
<1>10. Flagged(p)'
  <2>1. holding'[p].writing = \E u \in Thread : inside[p][u] = "takes_writing"
    BY <1>0, <1>1 DEF FreshHolding
  <2>2. \A u \in Thread : inside'[p][u] = "writing" <=> inside[p][u] = "takes_writing"
    BY <1>6, <1>7 DEF Mode
  <2>3. \A u \in Thread : inside'[p][u] = "writing" => u = t
    BY <1>6 DEF Mode
  <2> QED
    BY <2>1, <2>2, <2>3 DEF Flagged
<1>11. Locked(p)' /\ OneTaker(p)'
  BY <1>0, <1>3, <1>8 DEF Locked, OneTaker
<1> QED
  BY <1>2, <1>9, <1>10, <1>11, OwnStep

LEMMA JoinHeldStep ==
    ASSUME TypeOK, ClaimInv, NEW p \in Process, NEW t \in Thread, NEW mode \in Mode,
           JoinHeld(p, t, mode)
    PROVE  ClaimInv'
<1>0. /\ inside \in [Process -> [Thread -> Mode \cup
                        {"out", "takes_writing", "takes_alongside", "leaves"}]]
      /\ holding \in [Process -> [writing : BOOLEAN, holders : Nat]]
      /\ IsFiniteSet(Inside(p)) /\ (Cardinality(Inside(p)) = 0 <=> Inside(p) = {})
  BY InsideFinite DEF TypeOK
<1>1. /\ step[p] = "idle" /\ inside[p][t] = "out" /\ holding[p].holders > 0
      /\ ~(holding[p].writing /\ mode = "writing")
      /\ holding' = [holding EXCEPT ![p] =
            [writing |-> holding[p].writing \/ mode = "writing",
             holders |-> holding[p].holders + 1]]
      /\ inside' = [inside EXCEPT ![p][t] = mode]
      /\ step' = step /\ up' = up /\ lock' = lock
  BY DEF JoinHeld, Free, HeldHere
<1>2. Others(p)
  BY <1>0, <1>1 DEF Others
<1>3. Counted(p) /\ Flagged(p) /\ Locked(p) /\ OneTaker(p)
  BY DEF ClaimInv
<1>4. inside'[p][t] = mode /\ \A u \in Thread \ {t} : inside'[p][u] = inside[p][u]
  BY <1>0, <1>1
<1>5. Inside(p)' = Inside(p) \cup {t} /\ t \notin Inside(p) /\ Takes(p)' = Takes(p)
  BY <1>1, <1>4 DEF Inside, Takes, Mode
<1>6. Counted(p)'
  <2>1. Cardinality(Inside(p) \cup {t}) = Cardinality(Inside(p)) + 1
    BY <1>0, <1>5, FS_AddElement
  <2>2. holding'[p].holders = holding[p].holders + 1
    BY <1>0, <1>1
  <2> QED
    BY <1>3, <1>5, <2>1, <2>2 DEF Counted
<1>7. Flagged(p)'
  <2>1. holding'[p].writing = (holding[p].writing \/ mode = "writing")
    BY <1>0, <1>1
  <2>2. CASE mode = "writing"
    BY <1>1, <1>3, <1>4, <2>1, <2>2 DEF Flagged
  <2>3. CASE mode # "writing"
    BY <1>1, <1>3, <1>4, <2>1, <2>3 DEF Flagged
  <2> QED
    BY <2>2, <2>3
<1>8. Locked(p)' /\ OneTaker(p)'
  <2>1. Cardinality(Inside(p)) # 0
    <3> HIDE DEF Inside
    <3> QED
      BY <1>1, <1>3 DEF Counted
  <2>2. Inside(p) # {}
    BY <1>0, <2>1
  <2> QED
    BY <1>1, <1>3, <1>5, <2>2 DEF Locked, OneTaker
<1> QED
  BY <1>1, <1>2, <1>6, <1>7, <1>8, OwnStep

-----------------------------------------------------------------------------
\* The steps of a leave.

LEMMA LeaveStep ==
    ASSUME TypeOK, ClaimInv, NEW p \in Process, NEW t \in Thread, Leave(p, t)
    PROVE  ClaimInv'
<1> DEFINE rest == holding[p].holders - 1
           flag == rest > 0 /\ holding[p].writing /\ inside[p][t] = "alongside"
<1>0. /\ inside \in [Process -> [Thread -> Mode \cup
                        {"out", "takes_writing", "takes_alongside", "leaves"}]]
      /\ step \in [Process -> {"idle", "locked", "emptied", "stamping", "unlocking"}]
      /\ holding \in [Process -> [writing : BOOLEAN, holders : Nat]]
      /\ IsFiniteSet(Inside(p))
  BY InsideFinite DEF TypeOK
<1>1. /\ step[p] = "idle" /\ inside[p][t] \in Mode
      /\ holding' = [holding EXCEPT ![p] = [writing |-> flag, holders |-> rest]]
      /\ IF rest > 0
         THEN inside' = [inside EXCEPT ![p][t] = "out"] /\ step' = step
         ELSE /\ inside' = [inside EXCEPT ![p][t] = "leaves"]
              /\ step' = [step EXCEPT ![p] = "stamping"]
      /\ up' = up /\ lock' = lock
  BY DEF Leave, Free
<1>2. Others(p)
  BY <1>0, <1>1 DEF Others
<1>3. Counted(p) /\ Flagged(p) /\ Locked(p) /\ OneTaker(p)
  BY DEF ClaimInv
<1>4. /\ inside'[p][t] \in {"out", "leaves"}
      /\ \A u \in Thread \ {t} : inside'[p][u] = inside[p][u]
  <2>1. \/ inside' = [inside EXCEPT ![p][t] = "out"]
        \/ inside' = [inside EXCEPT ![p][t] = "leaves"]
    BY <1>1
  <2>2. CASE inside' = [inside EXCEPT ![p][t] = "out"]
    BY <1>0, <2>2
  <2>3. CASE inside' = [inside EXCEPT ![p][t] = "leaves"]
    BY <1>0, <2>3
  <2> QED
    BY <2>1, <2>2, <2>3
<1>5. Inside(p)' = Inside(p) \ {t} /\ t \in Inside(p) /\ Takes(p)' = Takes(p)
  BY <1>1, <1>4 DEF Inside, Takes, Mode
<1>6. /\ IsFiniteSet(Inside(p)')
      /\ Cardinality(Inside(p)') = rest
      /\ rest \in Nat
      /\ rest = 0 <=> Inside(p)' = {}
  <2>1. /\ IsFiniteSet(Inside(p) \ {t})
        /\ Cardinality(Inside(p) \ {t}) = Cardinality(Inside(p)) - 1
    BY <1>0, <1>5, FS_RemoveElement
  <2>2. Cardinality(Inside(p)') = rest
    BY <1>3, <1>5, <2>1 DEF Counted
  <2> QED
    BY <1>5, <2>1, <2>2, FS_EmptySet, FS_CardinalityType
<1>7. Counted(p)'
  BY <1>0, <1>1, <1>6 DEF Counted
<1>8. Flagged(p)'
  <2>1. holding'[p].writing = flag
    BY <1>0, <1>1
  <2>2. CASE inside[p][t] = "writing"
    BY <1>3, <1>4, <2>1, <2>2 DEF Flagged
  <2>3. CASE inside[p][t] = "alongside"
    <3>1. \A u \in Thread : inside'[p][u] = "writing" <=> inside[p][u] = "writing"
      BY <1>4, <2>3
    <3>2. ASSUME NEW u \in Thread, inside'[p][u] = "writing" PROVE rest > 0
      <4>1. Inside(p)' # {}
        BY <3>2 DEF Inside, Mode
      <4> HIDE DEF rest
      <4> QED
        BY <1>6, <4>1
    <3> QED
      BY <1>3, <2>1, <2>3, <3>1, <3>2 DEF Flagged
  <2> QED
    BY <1>1, <2>2, <2>3 DEF Mode
<1>9. Locked(p)' /\ OneTaker(p)'
  <2>1. CASE rest > 0
    BY <1>1, <1>3, <1>5, <1>6, <2>1 DEF Locked, OneTaker
  <2>2. CASE ~(rest > 0)
    <3>1. step'[p] = "stamping"
      BY <1>0, <1>1, <2>2
    <3>2. Inside(p)' = {}
      <4> HIDE DEF rest
      <4> QED
        BY <1>6, <2>2
    <3> QED
      BY <1>1, <1>3, <1>5, <3>1, <3>2 DEF Locked, OneTaker
  <2> QED
    BY <2>1, <2>2
<1> QED
  BY <1>1, <1>2, <1>7, <1>8, <1>9, OwnStep

LEMMA UnlockStep ==
    ASSUME TypeOK, ClaimInv, NEW p \in Process, Unlock(p)
    PROVE  ClaimInv'
<1>0. /\ inside \in [Process -> [Thread -> Mode \cup
                        {"out", "takes_writing", "takes_alongside", "leaves"}]]
      /\ step \in [Process -> {"idle", "locked", "emptied", "stamping", "unlocking"}]
  BY DEF TypeOK
<1>1. /\ step[p] = "unlocking" /\ lock' = None
      /\ step' = [step EXCEPT ![p] = "idle"]
      /\ inside' = [inside EXCEPT ![p] = [t \in Thread |->
            IF inside[p][t] = "leaves" THEN "out" ELSE inside[p][t]]]
      /\ holding' = holding /\ up' = up
  BY DEF Unlock
<1>2. Others(p)
  BY <1>0, <1>1 DEF Others
<1>3. Counted(p) /\ Flagged(p) /\ Locked(p) /\ OneTaker(p)
  BY DEF ClaimInv
<1>4. \A u \in Thread :
        inside'[p][u] = IF inside[p][u] = "leaves" THEN "out" ELSE inside[p][u]
  BY <1>0, <1>1
<1>5. Inside(p)' = Inside(p) /\ Takes(p)' = Takes(p) /\ Inside(p) = {} /\ lock = p
  <2>1. Inside(p)' = Inside(p) /\ Takes(p)' = Takes(p)
    BY <1>4 DEF Inside, Takes, Mode
  <2>2. Inside(p) = {} /\ lock = p
    BY <1>1, <1>3 DEF Locked
  <2> QED
    BY <2>1, <2>2
<1>6. Counted(p)'
  BY <1>1, <1>3, <1>5 DEF Counted
<1>7. Flagged(p)'
  BY <1>1, <1>3, <1>4 DEF Flagged
<1>8. Locked(p)' /\ OneTaker(p)'
  BY <1>0, <1>1, <1>3, <1>5, ConstantsAssumption DEF Locked, OneTaker
<1> QED
  BY <1>1, <1>2, <1>5, <1>6, <1>7, <1>8, OwnStep

-----------------------------------------------------------------------------
\* A step that moves no thread and no flock.
LEMMA QuietStep ==
    ASSUME ClaimInv, inside' = inside, holding' = holding, lock' = lock,
           \A p \in Process : /\ lock = p => up'[p] = up[p]
                              /\ step'[p] = "idle" <=> step[p] = "idle"
                              /\ step'[p] \in {"locked", "emptied"}
                                    <=> step[p] \in {"locked", "emptied"}
    PROVE  ClaimInv'
<1> SUFFICES ASSUME NEW p \in Process
             PROVE  Counted(p)' /\ Flagged(p)' /\ Locked(p)' /\ OneTaker(p)'
  BY DEF ClaimInv
<1>1. Counted(p) /\ Flagged(p) /\ Locked(p) /\ OneTaker(p)
  BY DEF ClaimInv
<1>2. Inside(p)' = Inside(p) /\ Takes(p)' = Takes(p)
  BY DEF Inside, Takes
<1>3. Counted(p)' /\ Flagged(p)'
  BY <1>1, <1>2 DEF Counted, Flagged
<1>4. Locked(p)' /\ OneTaker(p)'
  BY <1>1, <1>2 DEF Locked, OneTaker
<1> QED
  BY <1>3, <1>4

LEMMA DieStep ==
    ASSUME TypeOK, ClaimInv, NEW gone \in SUBSET Process, Die(gone)
    PROVE  ClaimInv'
<1> SUFFICES ASSUME NEW p \in Process
             PROVE  Counted(p)' /\ Flagged(p)' /\ Locked(p)' /\ OneTaker(p)'
  BY DEF ClaimInv
<1>1. Counted(p) /\ Flagged(p) /\ Locked(p) /\ OneTaker(p)
  BY DEF ClaimInv
<1>2. lock' = IF lock \in gone THEN None ELSE lock
  BY DEF Die
<1>3. CASE p \in gone
  <2>1. /\ step'[p] = "idle" /\ holding'[p] = NoHolding
        /\ \A t \in Thread : inside'[p][t] = "out"
    BY <1>3 DEF Die
  <2>2. Inside(p)' = {} /\ Takes(p)' = {}
    BY <2>1 DEF Inside, Takes, Mode
  <2>3. Counted(p)' /\ Flagged(p)'
    BY <2>1, <2>2, FS_EmptySet DEF Counted, Flagged, NoHolding
  <2>4. lock' # p
    BY <1>2, <1>3, ConstantsAssumption
  <2> QED
    BY <2>1, <2>2, <2>3, <2>4 DEF Locked, OneTaker
<1>4. CASE p \notin gone
  <2>1. /\ step'[p] = step[p] /\ holding'[p] = holding[p]
        /\ inside'[p] = inside[p] /\ up'[p] = up[p]
    BY <1>4 DEF Die
  <2>2. Inside(p)' = Inside(p) /\ Takes(p)' = Takes(p)
    BY <2>1 DEF Inside, Takes
  <2>3. Counted(p)' /\ Flagged(p)'
    BY <1>1, <2>1, <2>2 DEF Counted, Flagged
  <2>4. lock = p <=> lock' = p
    BY <1>2, <1>4, ConstantsAssumption
  <2>5. Locked(p)' /\ OneTaker(p)'
    BY <1>1, <2>1, <2>2, <2>4 DEF Locked, OneTaker
  <2> QED
    BY <2>3, <2>5
<1> QED
  BY <1>3, <1>4

LEMMA ClaimStep == IInv /\ [Next]_vars => ClaimInv'
<1> SUFFICES ASSUME IInv, [Next]_vars PROVE ClaimInv'
  OBVIOUS
<1>0. TypeOK /\ ClaimInv
  BY DEF IInv
<1>t. /\ step \in [Process -> {"idle", "locked", "emptied", "stamping", "unlocking"}]
      /\ up \in [Process -> {"unborn", "up", "dead"}]
  BY <1>0 DEF TypeOK
<1>1. CASE Tick
  BY <1>0, <1>1, QuietStep DEF Tick
<1>2. CASE Reboot
  BY <1>0, <1>2, DieStep DEF Reboot
<1>3. ASSUME NEW p \in Process, Crash(p) PROVE ClaimInv'
  BY <1>0, <1>3, DieStep DEF Crash
<1>4. ASSUME NEW p \in Process, Start(p) PROVE ClaimInv'
  <2>1. lock # p
    BY <1>0, <1>4 DEF Start, ClaimInv, Locked
  <2>2. \A q \in Process : lock = q => up'[q] = up[q]
    BY <1>4, <1>t, <2>1 DEF Start
  <2> QED
    BY <1>0, <1>4, <2>2, QuietStep DEF Start
<1>5. ASSUME NEW p \in Process, Poll(p) PROVE ClaimInv'
  BY <1>0, <1>5, QuietStep DEF Poll
<1>6. ASSUME NEW p \in Process, EmptyFile(p) PROVE ClaimInv'
  <2>1. step[p] = "locked"
    BY <1>6 DEF EmptyFile
  <2>2. CASE GiveUp(p)
    BY <1>0, <2>1, <2>2, GiveUpStep
  <2>3. CASE ~GiveUp(p)
    <3>1. /\ step' = [step EXCEPT ![p] = "emptied"]
          /\ UNCHANGED <<up, lock, holding, inside>>
      BY <1>6, <2>3 DEF EmptyFile
    <3> QED
      BY <1>0, <1>t, <2>1, <3>1, QuietStep
  <2> QED
    BY <2>2, <2>3
<1>7. ASSUME NEW p \in Process, Sign(p) PROVE ClaimInv'
  <2>1. step[p] = "emptied"
    BY <1>7 DEF Sign
  <2>2. CASE GiveUp(p)
    BY <1>0, <2>1, <2>2, GiveUpStep
  <2>3. CASE ~GiveUp(p)
    <3>1. step' = [step EXCEPT ![p] = "idle"] /\ Granted(p) /\ UNCHANGED <<up, lock>>
      BY <1>7, <2>3 DEF Sign
    <3> QED
      BY <1>0, <2>1, <3>1, SignedStep
  <2> QED
    BY <2>2, <2>3
<1>8. ASSUME NEW p \in Process, Stamp(p) PROVE ClaimInv'
  <2>1. /\ step[p] = "stamping" /\ step' = [step EXCEPT ![p] = "unlocking"]
        /\ UNCHANGED <<up, lock, holding, inside>>
    BY <1>8 DEF Stamp
  <2> QED
    BY <1>0, <1>t, <2>1, QuietStep
<1>9. ASSUME NEW p \in Process, Unlock(p) PROVE ClaimInv'
  BY <1>0, <1>9, UnlockStep
<1>10. ASSUME NEW p \in Process, NEW t \in Thread, NEW mode \in Mode,
              JoinFresh(p, t, mode) \/ JoinHeld(p, t, mode)
       PROVE  ClaimInv'
  BY <1>0, <1>10, JoinFreshStep, JoinHeldStep
<1>11. ASSUME NEW p \in Process, NEW t \in Thread, NEW c \in Cycle, NoteRetirement(p, t, c)
       PROVE  ClaimInv'
  BY <1>0, <1>11, QuietStep DEF NoteRetirement
<1>12. ASSUME NEW p \in Process, NEW t \in Thread, Leave(p, t) PROVE ClaimInv'
  BY <1>0, <1>12, LeaveStep
<1>13. CASE UNCHANGED vars
  BY <1>0, <1>13, QuietStep DEF vars
<1> QED
  BY <1>1, <1>2, <1>3, <1>4, <1>5, <1>6, <1>7, <1>8, <1>9, <1>10, <1>11, <1>12,
     <1>13 DEF Next

-----------------------------------------------------------------------------
LEMMA Inductive == Spec => []IInv
<1>1. IInv /\ [Next]_vars => IInv'
  BY TypeStep, ClaimStep DEF IInv
<1> QED
  BY InitHolds, <1>1, PTL DEF Spec

\* Every state of the claim is well typed: a count that went below zero, or a
\* record that is no record of the file, would not be (`_Holdings.leave`, the
\* forms of claim_notes).
THEOREM TypeCorrect == Spec => []TypeOK
<1>1. IInv => TypeOK
  BY DEF IInv
<1> QED
  BY Inductive, <1>1, PTL

\* Whatever the number of pollers, of threads in them and of deaths among them,
\* one process at a time is inside the claim, and one writer (`issue_writer`).
THEOREM OneWriterAlways == Spec => []OneWriter
<1>1. IInv => OneWriter
  BY DEF IInv, ClaimInv, Locked, Flagged, OneWriter, Holds
<1> QED
  BY Inductive, <1>1, PTL

\* The flock is always some running process's that is inside the claim or on its
\* way through a join or a leave, whichever writes failed on the way.
THEOREM LockAlwaysOwned == Spec => []LockNotLeaked
<1>1. IInv => LockNotLeaked
  BY DEF IInv, TypeOK, ClaimInv, Locked, LockNotLeaked, Holds
<1> QED
  BY Inductive, <1>1, PTL
=============================================================================
