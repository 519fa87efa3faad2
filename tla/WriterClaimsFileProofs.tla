----------------------- MODULE WriterClaimsFileProofs -----------------------
(***************************************************************************)
(* What the claim file lets somebody else conclude, for every number of    *)
(* processes and threads and however long the clock runs.  Why a pass may  *)
(* believe its poll's reading when `undisturbed_since` says so: what       *)
(* another poller's hold leaves on the file stays there, or is read off it *)
(* and remembered, until it is no news any more.  Why a contender may      *)
(* believe a note.  And that the claim with its file, flock, signatures    *)
(* and stamps implements the claim of IssueClaim.                          *)
(***************************************************************************)
EXTENDS WriterClaimsProofs

\* What p will find on the file, or has just read off it.
Source(p) == IF step[p] = "emptied" THEN left[p] ELSE file

\* From f, p will learn that another poller's hold ended at m or later.
Late(p, f, m) ==
    /\ f.holder # p
    /\ \/ f.holder = None \/ f.released = None \/ f.tail # None
       \/ m <= f.released /\ f.released <= clock

Learned(p, m) == elsewhere[p] # None /\ m <= elsewhere[p]

-----------------------------------------------------------------------------
\* While a hold stands, and until its stamp, the file is signed by it and no
\* stamp is on it; one that is being taken is empty.
FileInv ==
    \A p \in Process :
        /\ Inside(p) # {} \/ step[p] = "stamping"
                => file.holder = p /\ file.released = None
        /\ step[p] = "emptied" => file.holder = None

\* No moment a live process remembers is ahead of the clock, and a stamp about
\* to be written is no older than a reading its hold disturbed.
MomentInv ==
    \A p \in Process :
        /\ reading[p] # None => up[p] = "up" /\ reading[p].at <= clock
        /\ step[p] = "stamping" => stamp[p] <= clock
        /\ step[p] = "stamping" =>
            \A q \in Process : reading[q] # None /\ reading[q].disturbed
                => reading[q].at <= stamp[p]

Known(p) ==
    reading[p] # None /\ reading[p].disturbed
        => Learned(p, reading[p].at) \/ Late(p, Source(p), reading[p].at)

KnownInv == \A p \in Process : Known(p)

ReadingInv == IInv /\ FileInv /\ MomentInv /\ KnownInv

-----------------------------------------------------------------------------
\* The process that is not idle is the one with the flock, and the only one with
\* a thread inside.
LEMMA OneOwner ==
    ASSUME ClaimInv, NEW p \in Process, NEW q \in Process, p # q,
           step[p] # "idle" \/ Inside(p) # {}
    PROVE  lock = p /\ step[q] = "idle" /\ Inside(q) = {}
BY DEF ClaimInv, Locked

LEMMA CutKeeps ==
    ASSUME NEW f \in File, NEW key, NEW n, NEW g \in CutShort(f, key, n)
    PROVE  g.holder = f.holder /\ g.released = f.released
BY DEF CutShort, File

LEMMA NoteKeeps ==
    ASSUME NEW f \in File, NEW c
    PROVE  WithNote(f, c).holder = f.holder /\ WithNote(f, c).released = f.released
BY DEF WithNote, Merged, File

LEMMA StampKeeps ==
    ASSUME NEW f \in File, NEW m, f.released = None
    PROVE  /\ WithStamp(f, m).holder = f.holder
           /\ WithStamp(f, m).released \in {None, m}
BY DEF WithStamp, Merged, File

\* A step that leaves the file and the courses of the threads as they are, as
\* far as the file's own invariant can tell.
LEMMA FileKept ==
    ASSUME FileInv, file' = file,
           \A p \in Process :
                /\ Inside(p)' # {} \/ step'[p] = "stamping"
                        => Inside(p) # {} \/ step[p] = "stamping"
                /\ step'[p] = "emptied" => step[p] = "emptied"
    PROVE  FileInv'
BY DEF FileInv

LEMMA FileStep == IInv /\ ClaimInv' /\ FileInv /\ [Next]_vars => FileInv'
<1> SUFFICES ASSUME IInv, ClaimInv', FileInv, [Next]_vars PROVE FileInv'
  OBVIOUS
<1>0. /\ ClaimInv /\ file \in File
      /\ step \in [Process -> {"idle", "locked", "emptied", "stamping", "unlocking"}]
      /\ inside \in [Process -> [Thread -> Mode \cup
                        {"out", "takes_writing", "takes_alongside", "leaves"}]]
  BY DEF IInv, TypeOK
<1>1. ASSUME NEW p \in Process, lock' = p,
             Inside(p)' # {} \/ step'[p] = "stamping"
                    => file'.holder = p /\ file'.released = None,
             step'[p] = "emptied" => file'.holder = None
      PROVE  FileInv'
  \* Whoever else would have to be spoken of would have the flock.
  BY <1>1 DEF ClaimInv, Locked, FileInv
<1>2. CASE Tick
  BY <1>2, FileKept DEF Tick, Inside
<1>3. ASSUME NEW gone \in SUBSET Process, Die(gone) PROVE FileInv'
  <2>1. ASSUME NEW p \in Process
        PROVE  /\ Inside(p)' # {} => Inside(p) # {}
               /\ step'[p] # "idle" => step'[p] = step[p]
    <3>1. CASE p \in gone
      BY <3>1, <1>3 DEF Die, Inside, Mode
    <3>2. CASE p \notin gone
      <4>1. inside'[p] = inside[p] /\ step'[p] = step[p]
        BY <3>2, <1>3 DEF Die
      <4> QED
        BY <4>1 DEF Inside
    <3> QED
      BY <3>1, <3>2
  <2>2. file' = file
    BY <1>3 DEF Die
  <2> QED
    BY <2>1, <2>2, FileKept
<1>4. CASE Reboot
  BY <1>3, <1>4 DEF Reboot
<1>5. ASSUME NEW p \in Process, Start(p) \/ Poll(p) \/ Crash(p) PROVE FileInv'
  <2>1. CASE Start(p) \/ Poll(p)
    BY <2>1, FileKept DEF Start, Poll, Inside
  <2> QED
    BY <1>3, <1>5, <2>1 DEF Crash
<1>6. ASSUME NEW p \in Process, step[p] # "idle", GiveUp(p),
             file'.holder = file.holder /\ file'.released = file.released
      PROVE  FileInv'
  <2>1. ASSUME NEW q \in Process PROVE Inside(q)' = {} /\ step'[q] = "idle"
    <3>1. CASE q = p
      BY <3>1, <1>0, <1>6 DEF GiveUp, Inside, Mode
    <3>2. CASE q # p
      <4>1. inside'[q] = inside[q] /\ step'[q] = step[q]
        BY <3>2, <1>0, <1>6 DEF GiveUp
      <4> QED
        BY <3>2, <4>1, <1>0, <1>6, OneOwner DEF Inside
    <3> QED
      BY <3>1, <3>2
  <2> QED
    BY <2>1 DEF FileInv
<1>7. ASSUME NEW p \in Process, EmptyFile(p) PROVE FileInv'
  <2>1. step[p] = "locked"
    BY <1>7 DEF EmptyFile
  <2>2. CASE file' = file /\ GiveUp(p)
    BY <2>1, <2>2, <1>6
  <2>3. CASE ~(file' = file /\ GiveUp(p))
    <3>1. file' = Empty /\ step' = [step EXCEPT ![p] = "emptied"] /\ UNCHANGED <<lock, inside>>
      BY <1>7, <2>3 DEF EmptyFile
    <3>2. lock' = p /\ Inside(p)' = {} /\ step'[p] = "emptied"
      BY <1>0, <2>1, <3>1 DEF ClaimInv, Locked, Inside
    <3> QED
      BY <3>1, <3>2, <1>1 DEF Empty
  <2> QED
    BY <2>2, <2>3
<1>8. ASSUME NEW p \in Process, Sign(p) PROVE FileInv'
  <2>1. step[p] = "emptied"
    BY <1>8 DEF Sign
  <2>2. CASE file' \in CutShort(file, "holder", 0) /\ GiveUp(p)
    <3>1. file'.holder = file.holder /\ file'.released = file.released
      <4>1. \A g \in CutShort(file, "holder", 0) :
              g.holder = file.holder /\ g.released = file.released
        BY <1>0, CutKeeps
      <4> QED
        BY <2>2, <4>1
    <3>2. step[p] # "idle"
      BY <2>1
    <3> QED
      BY <2>2, <3>1, <3>2, <1>6
  <2>3. CASE ~(file' \in CutShort(file, "holder", 0) /\ GiveUp(p))
    <3>1. /\ file' = WithHolder(p) /\ step' = [step EXCEPT ![p] = "idle"]
          /\ lock' = lock
      BY <1>8, <2>3 DEF Sign
    <3>2. lock' = p /\ step'[p] = "idle"
      BY <1>0, <2>1, <3>1 DEF ClaimInv, Locked
    <3> QED
      BY <3>1, <3>2, <1>1 DEF WithHolder, Empty
  <2> QED
    BY <2>2, <2>3
<1>9. ASSUME NEW p \in Process, Stamp(p) PROVE FileInv'
  <2>1. /\ step[p] = "stamping" /\ step' = [step EXCEPT ![p] = "unlocking"]
        /\ lock' = lock /\ inside' = inside
    BY <1>9 DEF Stamp
  <2>2. lock' = p /\ step'[p] = "unlocking" /\ Inside(p)' = {}
    BY <1>0, <2>1 DEF ClaimInv, Locked, Inside
  <2> QED
    BY <2>2, <1>1
<1>10. ASSUME NEW p \in Process, Unlock(p) PROVE FileInv'
  <2>1. file' = file /\ step' = [step EXCEPT ![p] = "idle"]
    BY <1>10 DEF Unlock
  <2>2. ASSUME NEW q \in Process PROVE Inside(q)' \subseteq Inside(q)
    <3>1. inside' = [inside EXCEPT ![p] = [t \in Thread |->
              IF inside[p][t] = "leaves" THEN "out" ELSE inside[p][t]]]
      BY <1>10 DEF Unlock
    <3>2. CASE q = p
      <4>1. \A t \in Thread :
              inside'[q][t] = IF inside[q][t] = "leaves" THEN "out" ELSE inside[q][t]
        BY <1>0, <3>1, <3>2
      <4> QED
        BY <4>1 DEF Inside, Mode
    <3>3. CASE q # p
      <4>1. inside'[q] = inside[q]
        BY <1>0, <3>1, <3>3
      <4> QED
        BY <4>1 DEF Inside
    <3> QED
      BY <3>2, <3>3
  <2>3. \A q \in Process : step'[q] = "idle" \/ step'[q] = step[q]
    BY <1>0, <2>1
  <2> QED
    BY <2>1, <2>2, <2>3, FileKept
<1>11. ASSUME NEW p \in Process, NEW t \in Thread, NEW mode \in Mode,
              JoinFresh(p, t, mode)
       PROVE  FileInv'
  <2>1. /\ lock = None /\ lock' = p /\ step'[p] = "locked"
    BY <1>0, <1>11 DEF JoinFresh
  <2>2. Inside(p)' = {}
    BY <2>1 DEF ClaimInv, Locked
  <2> QED
    BY <2>1, <2>2, <1>1
<1>12. ASSUME NEW p \in Process, NEW t \in Thread, NEW mode \in Mode,
              JoinHeld(p, t, mode)
       PROVE  FileInv'
  <2>1. /\ file' = file /\ step' = step /\ inside' = [inside EXCEPT ![p][t] = mode]
        /\ holding[p].holders > 0
    BY <1>12 DEF JoinHeld
  <2>2. Inside(p) # {}
    <3>1. holding[p].holders = Cardinality(Inside(p))
      BY <1>0 DEF ClaimInv, Counted
    <3>2. Inside(p) = {} => Cardinality(Inside(p)) = 0
      BY FS_EmptySet
    <3> HIDE DEF Inside
    <3> QED
      BY <2>1, <3>1, <3>2
  <2>3. \A q \in Process \ {p} : inside'[q] = inside[q]
    BY <1>0, <2>1
  <2>4. \A q \in Process \ {p} : Inside(q)' = Inside(q)
    BY <2>3 DEF Inside
  <2> QED
    BY <2>1, <2>2, <2>4, FileKept
<1>13. ASSUME NEW p \in Process, NEW t \in Thread, NEW c \in Cycle, NoteRetirement(p, t, c)
       PROVE  FileInv'
  <2>1. /\ inside[p][t] = "writing" /\ lock' = lock /\ step' = step /\ inside' = inside
        /\ file' = WithNote(file, c) \/ file' \in CutShort(file, "note", c)
        /\ step[p] = "idle"
    BY <1>13 DEF NoteRetirement, Free
  <2>2. Inside(p) # {} /\ lock = p
    BY <1>0, <2>1 DEF Inside, Mode, ClaimInv, Locked
  <2>3. file'.holder = file.holder /\ file'.released = file.released
    <3>1. file \in File
      BY <1>0
    <3>2. CASE file' = WithNote(file, c)
      BY <3>1, <3>2, NoteKeeps
    <3>3. CASE file' \in CutShort(file, "note", c)
      BY <3>1, <3>3, CutKeeps
    <3> QED
      BY <2>1, <3>2, <3>3
  <2> QED
    BY <2>1, <2>2, <2>3, <1>1 DEF FileInv
<1>14. ASSUME NEW p \in Process, NEW t \in Thread, Leave(p, t) PROVE FileInv'
  <2>1. /\ inside[p][t] \in Mode /\ lock' = lock /\ file' = file /\ step[p] = "idle"
        /\ step' = step \/ step' = [step EXCEPT ![p] = "stamping"]
    BY <1>14 DEF Leave, Free
  <2>2. Inside(p) # {} /\ lock = p
    BY <1>0, <2>1 DEF Inside, ClaimInv, Locked
  <2>3. step'[p] # "emptied"
    BY <1>0, <2>1
  <2> QED
    BY <2>1, <2>2, <2>3, <1>1 DEF FileInv
<1>15. CASE UNCHANGED vars
  BY <1>15, FileKept DEF vars, Inside
<1> QED
  BY <1>2, <1>4, <1>5, <1>7, <1>8, <1>9, <1>10, <1>11, <1>12, <1>13, <1>14,
     <1>15 DEF Next

-----------------------------------------------------------------------------
\* A step that leaves the readings alone and begins no leave.
LEMMA MomentKept ==
    ASSUME MomentInv, clock' = clock, reading' = reading, up' = up,
           \A p \in Process : step'[p] = "stamping"
                => step[p] = "stamping" /\ stamp'[p] = stamp[p]
    PROVE  MomentInv'
BY DEF MomentInv

LEMMA MomentStep == IInv /\ MomentInv /\ [Next]_vars => MomentInv'
<1> SUFFICES ASSUME IInv, MomentInv, [Next]_vars PROVE MomentInv'
  OBVIOUS
<1>0. /\ ClaimInv
      /\ step \in [Process -> {"idle", "locked", "emptied", "stamping", "unlocking"}]
      /\ stamp \in [Process -> Nat] /\ clock \in Nat
      /\ up \in [Process -> {"unborn", "up", "dead"}]
      /\ reading \in [Process -> [at : Moment, disturbed : BOOLEAN] \cup {None}]
      /\ Moment \subseteq Nat
      /\ \A p \in Process : reading[p] # None => reading[p].at \in Nat
  <2>1. Moment \subseteq Nat
    BY ConstantsAssumption DEF Moment
  <2> QED
    BY <2>1 DEF IInv, TypeOK
<1>1. CASE Tick
  <2>1. /\ clock' = clock + 1
        /\ UNCHANGED <<reading, up, step, stamp>>
    BY <1>1 DEF Tick
  <2> QED
    BY <1>0, <2>1 DEF MomentInv
<1>2. CASE Reboot
  <2>1. ASSUME NEW p \in Process PROVE reading'[p] = None /\ step'[p] = "idle"
    <3> DEFINE gone == {q \in Process : up[q] = "up"}
    <3>1. Die(gone)
      BY <1>2 DEF Reboot
    <3>2. CASE p \in gone
      BY <3>1, <3>2 DEF Die
    <3>3. CASE p \notin gone
      <4>1. reading'[p] = reading[p] /\ step'[p] = step[p]
        BY <3>1, <3>3 DEF Die
      <4>2. reading[p] = None
        BY <3>3 DEF MomentInv
      <4>3. step[p] = "idle"
        BY <1>0, <3>3 DEF ClaimInv, Locked
      <4> QED
        BY <4>1, <4>2, <4>3
    <3> QED
      BY <3>2, <3>3
  <2> QED
    BY <2>1 DEF MomentInv
<1>3. ASSUME NEW q \in Process, Crash(q) PROVE MomentInv'
  <2>1. /\ \A p \in Process \ {q} :
            /\ reading'[p] = reading[p] /\ step'[p] = step[p]
            /\ stamp'[p] = stamp[p] /\ up'[p] = up[p]
        /\ reading'[q] = None /\ step'[q] = "idle" /\ clock' = clock
    BY <1>3 DEF Crash, Die
  <2> QED
    BY <1>0, <2>1 DEF MomentInv
<1>4. ASSUME NEW q \in Process, Start(q) PROVE MomentInv'
  <2>1. /\ \A p \in Process : up[p] = "up" => up'[p] = "up"
        /\ UNCHANGED <<clock, reading, step, stamp>>
    BY <1>0, <1>4 DEF Start
  <2> QED
    BY <2>1 DEF MomentInv
<1>5. ASSUME NEW q \in Process, Poll(q) PROVE MomentInv'
  <2>1. /\ up[q] = "up" /\ UNCHANGED <<up, clock, step, stamp>>
        /\ reading'[q] = [at |-> clock, disturbed |-> \E r \in Process \ {q} : Holds(r)]
        /\ \A p \in Process \ {q} : reading'[p] = reading[p]
    BY <1>0, <1>5 DEF Poll
  <2>2. ASSUME NEW p \in Process, step[p] = "stamping" PROVE ~reading'[q].disturbed
    <3>1. \A r \in Process : ~Holds(r)
      BY <1>0, <2>2, OneOwner DEF Holds, ClaimInv, Locked
    <3> QED
      BY <2>1, <3>1
  <2> QED
    BY <1>0, <2>1, <2>2 DEF MomentInv
<1>6. ASSUME NEW q \in Process, EmptyFile(q) \/ Stamp(q) \/ Unlock(q) PROVE MomentInv'
  <2>1. \A p \in Process : step'[p] = "stamping"
                => step[p] = "stamping" /\ stamp'[p] = stamp[p]
    BY <1>0, <1>6 DEF EmptyFile, Stamp, Unlock, GiveUp
  <2>2. UNCHANGED <<clock, reading, up>>
    BY <1>6 DEF EmptyFile, Stamp, Unlock, GiveUp
  <2> QED
    BY <2>1, <2>2, MomentKept
<1>7. ASSUME NEW q \in Process, Sign(q) PROVE MomentInv'
  <2>1. /\ step[q] = "emptied" /\ step' = [step EXCEPT ![q] = "idle"]
        /\ UNCHANGED <<up, clock, stamp>>
    BY <1>7 DEF Sign, GiveUp
  <2>2. \A p \in Process : step'[p] # "stamping"
    BY <1>0, <2>1, OneOwner
  <2>3. ASSUME NEW p \in Process, reading'[p] # None
        PROVE  reading[p] # None /\ reading'[p].at = reading[p].at
    <3>1. CASE reading' = reading
      BY <2>3, <3>1
    <3>2. CASE Granted(q)
      BY <1>0, <2>3, <3>2 DEF Granted
    <3> QED
      BY <1>7, <3>1, <3>2 DEF Sign, GiveUp
  <2> QED
    BY <2>1, <2>2, <2>3 DEF MomentInv
<1>8. ASSUME NEW q \in Process, NEW t \in Thread, NEW mode \in Mode,
             JoinFresh(q, t, mode) \/ JoinHeld(q, t, mode)
      PROVE  MomentInv'
  <2>1. /\ step' = step \/ step' = [step EXCEPT ![q] = "locked"]
        /\ UNCHANGED <<clock, reading, up, stamp>>
    BY <1>8 DEF JoinFresh, JoinHeld
  <2> QED
    BY <1>0, <2>1, MomentKept
<1>9. ASSUME NEW q \in Process, NEW t \in Thread, NEW c \in Cycle, NoteRetirement(q, t, c)
      PROVE  MomentInv'
  BY <1>9, MomentKept DEF NoteRetirement
<1>10. ASSUME NEW q \in Process, NEW t \in Thread, Leave(q, t) PROVE MomentInv'
  <2>1. UNCHANGED <<clock, reading, up>>
    BY <1>10 DEF Leave
  <2>2. CASE UNCHANGED <<step, stamp>>
    BY <2>1, <2>2, MomentKept
  <2>3. CASE step' = [step EXCEPT ![q] = "stamping"] /\ stamp' = [stamp EXCEPT ![q] = clock]
    BY <1>0, <2>1, <2>3 DEF MomentInv
  <2> QED
    BY <1>10, <2>2, <2>3 DEF Leave
<1>11. CASE UNCHANGED vars
  BY <1>11, MomentKept DEF vars
<1> QED
  BY <1>1, <1>2, <1>3, <1>4, <1>5, <1>6, <1>7, <1>8, <1>9, <1>10, <1>11 DEF Next

-----------------------------------------------------------------------------
\* A step that moves nothing p's knowledge rests on.
LEMMA KnownKept ==
    ASSUME NEW p \in Process, Known(p), reading'[p] = reading[p],
           elsewhere'[p] = elsewhere[p], Source(p)' = Source(p), clock' = clock
    PROVE  Known(p)'
BY DEF Known, Learned, Late

\* A step that leaves on the file, for every process but q, that a hold was not
\* stamped, or was stamped after all it disturbed; q has learned what it will.
LEMMA KnownByTheFile ==
    ASSUME NEW p \in Process, step'[p] # "emptied", file'.holder # p,
           \/ file'.holder = None \/ file'.released = None
           \/ reading'[p].at <= file'.released /\ file'.released <= clock'
    PROVE  Known(p)'
BY DEF Known, Late, Source

LEMMA KnownStep == ReadingInv /\ [Next]_vars => KnownInv'
<1> SUFFICES ASSUME ReadingInv, [Next]_vars, NEW p \in Process PROVE Known(p)'
  BY DEF KnownInv
<1>0. /\ ClaimInv /\ FileInv /\ MomentInv /\ Known(p) /\ None \notin Process
      /\ up \in [Process -> {"unborn", "up", "dead"}]
      /\ step \in [Process -> {"idle", "locked", "emptied", "stamping", "unlocking"}]
      /\ file \in File /\ left \in [Process -> File]
      /\ reading \in [Process -> [at : Moment, disturbed : BOOLEAN] \cup {None}]
      /\ elsewhere \in [Process -> Moment \cup {None}]
      /\ clock \in Nat /\ Moment \subseteq Nat /\ None \notin Nat
  <2>1. TypeOK /\ ClaimInv /\ FileInv /\ MomentInv /\ Known(p)
    BY DEF ReadingInv, IInv, KnownInv
  <2>2. Moment \subseteq Nat /\ None \notin Nat /\ None \notin Process
    BY ConstantsAssumption DEF Moment
  <2>3. clock \in Nat
    BY <2>1, <2>2 DEF TypeOK
  <2> QED
    BY <2>1, <2>2, <2>3 DEF TypeOK
\* While q holds, or stamps, the file tells p nothing of others if p is q.
<1>q. ASSUME NEW q \in Process, Inside(q) # {} \/ step[q] = "stamping"
      PROVE  /\ file.holder = q /\ file.released = None /\ step[q] # "emptied"
             /\ p = q => \A m : ~Late(p, Source(p), m)
             /\ p # q => step[p] = "idle"
  <2>1. file.holder = q /\ file.released = None
    BY <1>0, <1>q DEF FileInv
  <2>2. step[q] # "emptied"
    BY <1>0, <1>q DEF ClaimInv, Locked
  <2>3. p # q => step[p] = "idle"
    BY <1>0, <1>q, OneOwner
  <2> QED
    BY <2>1, <2>2, <2>3 DEF Late, Source
<1>1. CASE Tick
  <2>1. /\ clock' = clock + 1 /\ UNCHANGED <<reading, elsewhere, step, left, file>>
    BY <1>1 DEF Tick
  <2>2. ASSUME NEW f \in File, NEW m, Late(p, f, m) PROVE Late(p, f, m)'
    <3>1. f.released = None \/ f.released \in Nat
      BY <1>0 DEF File
    <3> QED
      BY <1>0, <2>1, <2>2, <3>1 DEF Late
  <2>3. Source(p) \in File /\ Source(p)' = Source(p)
    BY <1>0, <2>1 DEF Source
  <2>4. reading'[p].at = reading[p].at /\ reading'[p] = reading[p]
    BY <2>1
  <2> QED
    BY <1>0, <2>1, <2>2, <2>3, <2>4 DEF Known, Learned, Late
<1>2. CASE Reboot
  <2> DEFINE gone == {q \in Process : up[q] = "up"}
  <2>1. Die(gone)
    BY <1>2 DEF Reboot
  <2>2. CASE p \in gone
    BY <2>1, <2>2 DEF Die, Known
  <2>3. CASE p \notin gone
    <3>1. reading'[p] = reading[p]
      BY <2>1, <2>3 DEF Die
    <3>2. reading[p] = None
      BY <1>0, <2>3 DEF MomentInv
    <3> QED
      BY <3>1, <3>2 DEF Known
  <2> QED
    BY <2>2, <2>3
<1>3. ASSUME NEW q \in Process, Crash(q) PROVE Known(p)'
  <2>1. CASE p = q
    BY <1>3, <2>1 DEF Crash, Die, Known
  <2>2. CASE p # q
    <3>1. /\ reading'[p] = reading[p] /\ elsewhere'[p] = elsewhere[p]
          /\ step'[p] = step[p] /\ left'[p] = left[p] /\ file' = file /\ clock' = clock
      BY <1>3, <2>2 DEF Crash, Die
    <3> QED
      BY <1>0, <3>1, KnownKept DEF Source
  <2> QED
    BY <2>1, <2>2
<1>4. ASSUME NEW q \in Process, Start(q) PROVE Known(p)'
  BY <1>0, <1>4, KnownKept DEF Start, Source
<1>5. ASSUME NEW q \in Process, Poll(q) PROVE Known(p)'
  <2>1. UNCHANGED <<elsewhere, step, left, file, clock>>
    BY <1>5 DEF Poll
  <2>2. CASE p # q
    <3>1. reading'[p] = reading[p]
      BY <1>0, <1>5, <2>2 DEF Poll
    <3> QED
      BY <1>0, <2>1, <3>1, KnownKept DEF Source
  <2>3. CASE p = q
    <3>1. reading'[p].disturbed = \E r \in Process \ {p} : Holds(r)
      BY <1>0, <1>5, <2>3 DEF Poll
    <3>2. CASE \A r \in Process \ {p} : ~Holds(r)
      BY <3>1, <3>2 DEF Known
    <3>3. ASSUME NEW r \in Process \ {p}, Holds(r) PROVE Known(p)'
      <4>1. file.holder = r /\ file.released = None /\ step[p] = "idle"
        BY <3>3, <1>q DEF Holds
      <4> QED
        BY <2>1, <4>1, KnownByTheFile
    <3> QED
      BY <3>2, <3>3
  <2> QED
    BY <2>2, <2>3
<1>6. ASSUME NEW q \in Process, EmptyFile(q) PROVE Known(p)'
  <2>1. step[q] = "locked" /\ UNCHANGED <<clock, reading, elsewhere>>
    BY <1>6 DEF EmptyFile, GiveUp
  <2>2. CASE file' = file /\ GiveUp(q)
    <3>1. Source(p)' = Source(p)
      BY <1>0, <2>1, <2>2 DEF GiveUp, Source
    <3> QED
      BY <1>0, <2>1, <3>1, KnownKept
  <2>3. CASE ~(file' = file /\ GiveUp(q))
    <3>1. /\ file' = Empty /\ step' = [step EXCEPT ![q] = "emptied"]
          /\ left' = [left EXCEPT ![q] = file]
      BY <1>6, <2>3 DEF EmptyFile
    <3>2. CASE p = q
      <4>1. Source(p)' = Source(p)
        BY <1>0, <2>1, <3>1, <3>2 DEF Source
      <4> QED
        BY <1>0, <2>1, <4>1, KnownKept
    <3>3. CASE p # q
      <4>1. step'[p] = "idle"
        BY <1>0, <2>1, <3>1, <3>3, OneOwner
      <4> QED
        BY <1>0, <3>1, <4>1, KnownByTheFile DEF Empty
    <3> QED
      BY <3>2, <3>3
  <2> QED
    BY <2>2, <2>3
<1>7. ASSUME NEW q \in Process, Sign(q) PROVE Known(p)'
  <2>1. step[q] = "emptied" /\ file.holder = None
    BY <1>0, <1>7 DEF Sign, FileInv
  <2>2. p # q => step[p] = "idle"
    BY <1>0, <2>1, OneOwner
  <2>3. CASE file' \in CutShort(file, "holder", 0) /\ GiveUp(q)
    <3>1. file'.holder = None
      BY <1>0, <2>1, <2>3, CutKeeps
    <3>2. step'[p] = "idle"
      BY <1>0, <2>2, <2>3 DEF GiveUp
    <3> QED
      BY <1>0, <3>1, <3>2, KnownByTheFile
  <2>4. CASE ~(file' \in CutShort(file, "holder", 0) /\ GiveUp(q))
    <3>1. /\ file' = WithHolder(q)
          /\ elsewhere' = [elsewhere EXCEPT ![q] = Found(q, left[q], clock)]
          /\ step' = [step EXCEPT ![q] = "idle"]
          /\ Granted(q) /\ clock' = clock
      BY <1>7, <2>4 DEF Sign
    <3>2. CASE p # q
      <4>1. file'.holder = q /\ file'.released = None /\ step'[p] = "idle"
        BY <1>0, <2>2, <3>1, <3>2 DEF WithHolder, Empty
      <4> QED
        BY <3>2, <4>1, KnownByTheFile
    <3>3. CASE p = q
      <4>1. reading'[p] = reading[p] /\ elsewhere'[p] = Found(p, left[p], clock)
        BY <1>0, <3>1, <3>3 DEF Granted
      <4>2. SUFFICES ASSUME reading[p] # None, reading[p].disturbed
                     PROVE  /\ Found(p, left[p], clock) # None
                            /\ reading[p].at <= Found(p, left[p], clock)
        BY <4>1 DEF Known, Learned
      <4> DEFINE m == reading[p].at
                 f == left[p]
      <4>3. m \in Nat /\ m <= clock
        BY <1>0, <4>2 DEF MomentInv
      <4>4. elsewhere[p] = None \/ elsewhere[p] \in Nat
        BY <1>0
      <4>5. f.released = None \/ f.released \in Nat
        BY <1>0 DEF File
      <4>6. Learned(p, m) \/ Late(p, f, m)
        BY <1>0, <2>1, <3>3, <4>2 DEF Known, Source
      <4> HIDE DEF m, f
      <4>7. CASE Late(p, f, m)
        <5>1. /\ EndedElsewhere(p, f, clock) \in Nat
              /\ m <= EndedElsewhere(p, f, clock)
              /\ EndedElsewhere(p, f, clock) <= clock
          BY <1>0, <4>3, <4>5, <4>7 DEF Late, EndedElsewhere
        <5> QED
          BY <1>0, <4>3, <4>4, <5>1 DEF Found, m, f
      <4>8. CASE Learned(p, m)
        <5>1. \/ EndedElsewhere(p, f, clock) = None
              \/ EndedElsewhere(p, f, clock) \in Nat
          BY <1>0, <4>5 DEF EndedElsewhere
        <5> QED
          BY <1>0, <4>3, <4>4, <4>8, <5>1 DEF Found, Learned, m, f
      <4> QED
        BY <4>6, <4>7, <4>8
    <3> QED
      BY <3>2, <3>3
  <2> QED
    BY <2>3, <2>4
<1>8. ASSUME NEW q \in Process, Stamp(q) PROVE Known(p)'
  <2>1. /\ step[q] = "stamping" /\ step' = [step EXCEPT ![q] = "unlocking"]
        /\ UNCHANGED <<clock, reading, elsewhere>>
        /\ \/ file' = WithStamp(file, stamp[q])
           \/ file' \in CutShort(file, "released", stamp[q])
    BY <1>8 DEF Stamp
  <2>2. CASE p = q
    <3>1. reading[p] # None /\ reading[p].disturbed => Learned(p, reading[p].at)
      BY <1>0, <1>q, <2>1, <2>2 DEF Known
    <3> QED
      BY <2>1, <3>1 DEF Known, Learned
  <2>3. CASE p # q
    <3>1. file'.holder = q /\ file'.released \in {None, stamp[q]}
      BY <1>0, <1>q, <2>1, CutKeeps, StampKeeps
    <3>2. step'[p] = "idle"
      BY <1>0, <1>q, <2>1, <2>3
    <3>3. stamp[q] <= clock'
      BY <1>0, <2>1 DEF MomentInv
    <3>4. reading'[p] # None /\ reading'[p].disturbed => reading'[p].at <= stamp[q]
      BY <1>0, <2>1 DEF MomentInv
    <3> QED
      BY <2>3, <3>1, <3>2, <3>3, <3>4 DEF Known, Late, Source
  <2> QED
    BY <2>2, <2>3
<1>9. ASSUME NEW q \in Process, Unlock(q) PROVE Known(p)'
  <2>1. /\ step[q] = "unlocking" /\ step' = [step EXCEPT ![q] = "idle"]
        /\ UNCHANGED <<clock, file, left, elsewhere, reading>>
    BY <1>9 DEF Unlock
  <2>2. Source(p)' = Source(p)
    BY <1>0, <2>1 DEF Source
  <2> QED
    BY <1>0, <2>1, <2>2, KnownKept
<1>10. ASSUME NEW q \in Process, NEW t \in Thread,
              \/ \E mode \in Mode : JoinFresh(q, t, mode) \/ JoinHeld(q, t, mode)
              \/ Leave(q, t)
       PROVE  Known(p)'
  <2>1. /\ step[q] = "idle"
        /\ \/ step' = step \/ step' = [step EXCEPT ![q] = "locked"]
           \/ step' = [step EXCEPT ![q] = "stamping"]
        /\ UNCHANGED <<clock, file, left, elsewhere, reading>>
    BY <1>10 DEF JoinFresh, JoinHeld, Leave, Free
  <2>2. Source(p)' = Source(p)
    BY <1>0, <2>1 DEF Source
  <2> QED
    BY <1>0, <2>1, <2>2, KnownKept
<1>11. ASSUME NEW q \in Process, NEW t \in Thread, NEW c \in Cycle, NoteRetirement(q, t, c)
       PROVE  Known(p)'
  <2>1. /\ inside[q][t] = "writing"
        /\ UNCHANGED <<clock, step, left, elsewhere, reading>>
        /\ file' = WithNote(file, c) \/ file' \in CutShort(file, "note", c)
    BY <1>11 DEF NoteRetirement
  <2>2. Inside(q) # {}
    BY <2>1 DEF Inside, Mode
  <2>3. file'.holder = q /\ file'.released = None
    BY <1>0, <1>q, <2>1, <2>2, CutKeeps, NoteKeeps
  <2>4. CASE p = q
    <3>1. reading[p] # None /\ reading[p].disturbed => Learned(p, reading[p].at)
      BY <1>0, <1>q, <2>2, <2>4 DEF Known
    <3> QED
      BY <2>1, <3>1 DEF Known, Learned
  <2>5. CASE p # q
    <3>1. step'[p] = "idle"
      BY <1>q, <2>1, <2>2, <2>5
    <3> QED
      BY <2>3, <2>5, <3>1, KnownByTheFile
  <2> QED
    BY <2>4, <2>5
<1>12. CASE UNCHANGED vars
  BY <1>0, <1>12, KnownKept DEF vars, Source
<1> QED
  BY <1>1, <1>2, <1>3, <1>4, <1>5, <1>6, <1>7, <1>8, <1>9, <1>10, <1>11, <1>12
  DEF Next

-----------------------------------------------------------------------------
LEMMA ReadingHolds == Spec => []ReadingInv
<1>1. Init => ReadingInv
  <2>1. Init => IInv
    BY InitHolds
  <2>2. Init => FileInv
    BY DEF Init, FileInv, Inside, Mode
  <2>3. Init => MomentInv /\ KnownInv
    BY DEF Init, MomentInv, KnownInv, Known
  <2> QED
    BY <2>1, <2>2, <2>3 DEF ReadingInv
<1>2. ReadingInv /\ [Next]_vars => ReadingInv'
  BY TypeStep, ClaimStep, FileStep, MomentStep, KnownStep DEF ReadingInv, IInv
<1> QED
  BY <1>1, <1>2, PTL DEF Spec

\* A pass that holds the claim and is told that nothing disturbed its poll's
\* reading is told the truth, whichever holds were granted, cut short, stamped or
\* left unstamped by a death meanwhile (`claim_notes.undisturbed_since`).
THEOREM UndisturbedAlwaysSound == Spec => []UndisturbedSound
<1>1. ReadingInv => UndisturbedSound
  <2> SUFFICES ASSUME ReadingInv, NEW p \in Process, Holds(p), reading[p] # None,
                      UndisturbedSince(p, reading[p].at), reading[p].disturbed
               PROVE  FALSE
    BY DEF UndisturbedSound, ReadingInv, IInv, TypeOK
  <2>1. /\ file.holder = p /\ step[p] = "idle"
    BY DEF ReadingInv, IInv, FileInv, ClaimInv, Locked, Holds
  <2>2. Learned(p, reading[p].at)
    BY <2>1 DEF ReadingInv, KnownInv, Known, Late, Source
  <2>3. elsewhere[p] \in Nat /\ reading[p].at \in Nat
    <3>1. Moment \subseteq Nat
      BY ConstantsAssumption DEF Moment
    <3>2. /\ elsewhere[p] \in Moment \cup {None}
          /\ reading[p] \in [at : Moment, disturbed : BOOLEAN] \cup {None}
      BY DEF ReadingInv, IInv, TypeOK
    <3> QED
      BY <2>2, <3>1, <3>2 DEF Learned
  <2> QED
    BY <2>2, <2>3 DEF Learned, UndisturbedSince
<1> QED
  BY ReadingHolds, <1>1, PTL
-----------------------------------------------------------------------------
(***************************************************************************)
(* What a contender is told of the holder's cycle: the note it reads is    *)
(* the last hold's own.                                                    *)
(***************************************************************************)

\* The process that is inside the claim, or about to stamp its release.
Stands(p) == Inside(p) # {} \/ step[p] = "stamping"

\* The ghost of the last hold says truly that it stands, and a note it wrote
\* whole last is on the file.
LastInv ==
    /\ last.ended = "standing" => \E p \in Process : Stands(p)
    /\ \A p \in Process : Stands(p) => last.ended = "standing"
    /\ last.ended = "standing" /\ last.whole # None => file.note = last.whole

NoteInv == LastInv /\ NoteIsOfTheLastHold

-----------------------------------------------------------------------------
\* What the forms of a write do to the note, as a reader finds it.
LEMMA NoteOfACut ==
    ASSUME NEW f \in File, NEW key, NEW n, NEW g \in CutShort(f, key, n)
    PROVE  g.note = f.note /\ NotedRetirement(g) = NotedRetirement(f)
BY DEF CutShort, File, NotedRetirement, Standing

LEMMA NoteOfANote ==
    ASSUME NEW f \in File, NEW c \in Cycle
    PROVE  /\ f.tail = None => WithNote(f, c).note = c
           /\ f.tail # None => NotedRetirement(WithNote(f, c)) \in {NotedRetirement(f), None}
           /\ NotedRetirement(WithNote(f, c)) \in {c, NotedRetirement(f), None}
BY DEF WithNote, Merged, File, NotedRetirement, Standing

LEMMA NoteOfAStamp ==
    ASSUME NEW f \in File, NEW m \in Moment
    PROVE  /\ f.tail = None => NotedRetirement(WithStamp(f, m)) = None
           /\ NotedRetirement(WithStamp(f, m)) \in {NotedRetirement(f), None}
BY ConstantsAssumption DEF WithStamp, Merged, File, NotedRetirement, Standing, Moment

LEMMA NoNoteYet ==
    ASSUME NEW f \in File, f.holder = None
    PROVE  NotedRetirement(f) = None
BY DEF NotedRetirement, Standing

-----------------------------------------------------------------------------
\* A step that leaves the file, the ghost and who stands as they are.
LEMMA NoteKept ==
    ASSUME NoteInv, file' = file, last' = last,
           \A p \in Process : Stands(p)' <=> Stands(p)
    PROVE  NoteInv'
BY DEF NoteInv, LastInv, NoteIsOfTheLastHold

\* A step that leaves nobody standing, and no note but what the file said.
LEMMA NobodyStands ==
    ASSUME NoteInv, last'.ended # "standing", last'.noted = last.noted,
           \A p \in Process : ~Stands(p)',
           \/ NotedRetirement(file') = None
           \/ /\ NotedRetirement(file') = NotedRetirement(file)
              /\ last.ended # "stamped" => last'.ended # "stamped"
    PROVE  NoteInv'
BY DEF NoteInv, LastInv, NoteIsOfTheLastHold

\* Where a process is on its way through a join or past its stamp, nobody stands.
LEMMA OnTheWay ==
    ASSUME ClaimInv, NoteInv, NEW p \in Process, step[p] \in {"locked", "emptied", "unlocking"}
    PROVE  /\ last.ended # "standing"
           /\ \A q \in Process : ~Stands(q)
<1>1. Inside(p) = {}
  BY DEF ClaimInv, Locked
<1>2. \A q \in Process \ {p} : step[q] = "idle" /\ Inside(q) = {}
  BY OneOwner
<1>3. \A q \in Process : ~Stands(q)
  BY <1>1, <1>2 DEF Stands
<1> QED
  BY <1>3 DEF NoteInv, LastInv

LEMMA GaveUp ==
    ASSUME IInv, FileInv, NoteInv, NEW p \in Process, step[p] \in {"locked", "emptied"},
           GiveUp(p), last' = last, NotedRetirement(file') \in {NotedRetirement(file), None}
    PROVE  NoteInv'
<1>0. /\ ClaimInv
      /\ step \in [Process -> {"idle", "locked", "emptied", "stamping", "unlocking"}]
      /\ inside \in [Process -> [Thread -> Mode \cup
                        {"out", "takes_writing", "takes_alongside", "leaves"}]]
  BY DEF IInv, TypeOK
<1>1. last.ended # "standing" /\ \A q \in Process : ~Stands(q)
  BY <1>0, OnTheWay
<1>2. ASSUME NEW q \in Process PROVE ~Stands(q)'
  <2>1. CASE q = p
    BY <2>1, <1>0 DEF GiveUp, Stands, Inside, Mode
  <2>2. CASE q # p
    <3>1. inside'[q] = inside[q] /\ step'[q] = step[q]
      BY <2>2, <1>0 DEF GiveUp
    <3> QED
      BY <3>1, <1>1 DEF Stands, Inside
  <2> QED
    BY <2>1, <2>2
<1> QED
  BY <1>1, <1>2, NobodyStands

LEMMA NoteStep == ReadingInv /\ IInv' /\ NoteInv /\ [Next]_vars => NoteInv'
<1> SUFFICES ASSUME ReadingInv, IInv', NoteInv, [Next]_vars PROVE NoteInv'
  OBVIOUS
<1>0. /\ IInv /\ FileInv /\ ClaimInv /\ ClaimInv' /\ file \in File
      /\ step \in [Process -> {"idle", "locked", "emptied", "stamping", "unlocking"}]
      /\ inside \in [Process -> [Thread -> Mode \cup
                        {"out", "takes_writing", "takes_alongside", "leaves"}]]
      /\ last \in [ended : {"standing", "stamped", "unstamped", "died"},
                   noted : SUBSET Cycle,
                   whole : Cycle \cup {None}]
      /\ stamp \in [Process -> Moment]
  BY DEF ReadingInv, IInv, TypeOK
<1>1. CASE Tick \/ \E p \in Process : Start(p) \/ Poll(p)
  BY <1>1, NoteKept DEF Tick, Start, Poll, Stands, Inside
<1>2. ASSUME NEW gone \in SUBSET Process, Die(gone) PROVE NoteInv'
  <2>1. /\ file' = file
        /\ last' = IF lock \in gone /\ last.ended = "standing"
                   THEN [last EXCEPT !.ended = "died", !.whole = None] ELSE last
    BY <1>2 DEF Die
  <2>2. ASSUME NEW p \in Process
        PROVE  /\ p \in gone => ~Stands(p)'
               /\ p \notin gone => (Stands(p)' <=> Stands(p))
    <3>1. CASE p \in gone
      BY <3>1, <1>2 DEF Die, Stands, Inside, Mode
    <3>2. CASE p \notin gone
      <4>1. inside'[p] = inside[p] /\ step'[p] = step[p]
        BY <3>2, <1>2 DEF Die
      <4> QED
        BY <3>2, <4>1 DEF Stands, Inside
    <3> QED
      BY <3>1, <3>2
  <2>3. \A p \in Process : Stands(p) => lock = p
    BY <1>0 DEF Stands, ClaimInv, Locked
  <2>4. CASE lock \in gone /\ last.ended = "standing"
    <3>1. /\ last'.ended = "died" /\ last'.noted = last.noted
      BY <1>0, <2>1, <2>4
    <3>2. \A p \in Process : ~Stands(p)'
      BY <2>2, <2>3, <2>4
    <3> QED
      BY <2>1, <3>1, <3>2, NobodyStands
  <2>5. CASE ~(lock \in gone /\ last.ended = "standing")
    <3>1. \A p \in Process : Stands(p) => p \notin gone
      BY <2>3, <2>5 DEF NoteInv, LastInv
    <3> QED
      BY <2>1, <2>2, <2>5, <3>1, NoteKept
  <2> QED
    BY <2>4, <2>5
<1>3. CASE Reboot \/ \E p \in Process : Crash(p)
  BY <1>2, <1>3 DEF Reboot, Crash
<1>4. ASSUME NEW p \in Process, EmptyFile(p) PROVE NoteInv'
  <2>1. step[p] = "locked"
    BY <1>4 DEF EmptyFile
  <2>2. CASE file' = file /\ GiveUp(p)
    BY <1>0, <2>1, <2>2, GaveUp DEF GiveUp
  <2>3. CASE ~(file' = file /\ GiveUp(p))
    <3>1. /\ file' = Empty /\ step' = [step EXCEPT ![p] = "emptied"]
          /\ inside' = inside /\ last' = last
      BY <1>4, <2>3 DEF EmptyFile
    <3>2. last.ended # "standing" /\ \A q \in Process : ~Stands(q)
      BY <1>0, <2>1, OnTheWay
    <3>3. \A q \in Process : ~Stands(q)'
      BY <1>0, <3>1, <3>2 DEF Stands, Inside
    <3>4. NotedRetirement(file') = None
      BY <3>1, FileShapes, NoNoteYet DEF Empty
    <3> QED
      BY <3>1, <3>2, <3>3, <3>4, NobodyStands
  <2> QED
    BY <2>2, <2>3
<1>5. ASSUME NEW p \in Process, Sign(p) PROVE NoteInv'
  <2>1. step[p] = "emptied" /\ file.holder = None
    BY <1>0, <1>5 DEF Sign, FileInv
  <2>2. CASE file' \in CutShort(file, "holder", 0) /\ GiveUp(p)
    <3>1. NotedRetirement(file') = NotedRetirement(file)
      BY <1>0, <2>2, NoteOfACut
    <3> QED
      BY <1>0, <2>1, <2>2, <3>1, GaveUp DEF GiveUp
  <2>3. CASE ~(file' \in CutShort(file, "holder", 0) /\ GiveUp(p))
    <3>1. /\ file' = WithHolder(p) /\ step' = [step EXCEPT ![p] = "idle"]
          /\ last' = [ended |-> "standing", noted |-> {}, whole |-> None]
          /\ Entered(p)
      BY <1>5, <2>3 DEF Sign, Granted
    <3>2. NotedRetirement(file') = None
      BY <3>1 DEF WithHolder, Empty, NotedRetirement, Standing
    <3>3. Stands(p)'
      <4>1. PICK t \in Thread : inside[p][t] \in {"takes_writing", "takes_alongside"}
        <5>1. Takes(p) # {}
          BY <1>0, <2>1 DEF ClaimInv, OneTaker
        <5> QED
          BY <5>1 DEF Takes
      <4>2. inside'[p][t] \in Mode
        BY <1>0, <3>1, <4>1 DEF Entered, Mode
      <4> QED
        BY <4>2 DEF Stands, Inside
    <3> QED
      BY <3>1, <3>2, <3>3 DEF NoteInv, LastInv, NoteIsOfTheLastHold
  <2> QED
    BY <2>2, <2>3
<1>6. ASSUME NEW p \in Process, NEW t \in Thread, NEW mode \in Mode, JoinFresh(p, t, mode)
      PROVE  NoteInv'
  <2>1. /\ step[p] = "idle" /\ step' = [step EXCEPT ![p] = "locked"]
        /\ inside[p][t] = "out"
        /\ \/ inside' = [inside EXCEPT ![p][t] = "takes_writing"]
           \/ inside' = [inside EXCEPT ![p][t] = "takes_alongside"]
        /\ file' = file /\ last' = last
    BY <1>6 DEF JoinFresh, Free
  <2>2. ASSUME NEW q \in Process PROVE Stands(q)' <=> Stands(q)
    <3>1. \A u \in Thread : inside'[q][u] \in Mode <=> inside[q][u] \in Mode
      <4>1. CASE inside' = [inside EXCEPT ![p][t] = "takes_writing"]
        BY <1>0, <2>1, <4>1 DEF Mode
      <4>2. CASE inside' = [inside EXCEPT ![p][t] = "takes_alongside"]
        BY <1>0, <2>1, <4>2 DEF Mode
      <4> QED
        BY <2>1, <4>1, <4>2
    <3>2. step'[q] = "stamping" <=> step[q] = "stamping"
      BY <1>0, <2>1
    <3> QED
      BY <3>1, <3>2 DEF Stands, Inside
  <2> QED
    BY <2>1, <2>2, NoteKept
<1>7. ASSUME NEW p \in Process, NEW t \in Thread, NEW mode \in Mode, JoinHeld(p, t, mode)
      PROVE  NoteInv'
  <2>1. /\ holding[p].holders > 0 /\ inside' = [inside EXCEPT ![p][t] = mode]
        /\ file' = file /\ last' = last /\ step' = step
    BY <1>7 DEF JoinHeld
  <2>2. Inside(p) # {}
    <3>1. /\ holding[p].holders = Cardinality(Inside(p))
          /\ Cardinality(Inside(p)) = 0 <=> Inside(p) = {}
      BY <1>0, InsideFinite DEF IInv, ClaimInv, Counted
    <3> QED
      BY <2>1, <3>1
  <2>3. inside'[p][t] \in Mode
    BY <1>0, <2>1
  <2>4. ASSUME NEW q \in Process PROVE Stands(q)' <=> Stands(q)
    <3>1. CASE q = p
      BY <2>2, <2>3, <3>1 DEF Stands, Inside
    <3>2. CASE q # p
      <4>1. inside'[q] = inside[q]
        BY <1>0, <2>1, <3>2
      <4> QED
        BY <2>1, <4>1 DEF Stands, Inside
    <3> QED
      BY <3>1, <3>2
  <2> QED
    BY <2>1, <2>4, NoteKept
<1>8. ASSUME NEW p \in Process, NEW t \in Thread, NEW c \in Cycle, NoteRetirement(p, t, c)
      PROVE  NoteInv'
  <2>1. /\ inside[p][t] = "writing" /\ step' = step /\ inside' = inside
        /\ \/ /\ file' = WithNote(file, c)
              /\ last' = [last EXCEPT !.noted = @ \cup {c},
                                      !.whole = IF file.tail = None THEN c ELSE None]
           \/ file' \in CutShort(file, "note", c) /\ last' = last
    BY <1>8 DEF NoteRetirement
  <2>2. \A q \in Process : Stands(q)' <=> Stands(q)
    BY <2>1 DEF Stands, Inside
  <2>3. Stands(p) /\ last.ended = "standing"
    BY <2>1 DEF NoteInv, LastInv, Stands, Inside, Mode
  <2>4. CASE file' \in CutShort(file, "note", c) /\ last' = last
    <3>1. file'.note = file.note /\ NotedRetirement(file') = NotedRetirement(file)
      BY <1>0, <2>4, NoteOfACut
    <3> QED
      BY <2>2, <2>4, <3>1 DEF NoteInv, LastInv, NoteIsOfTheLastHold
  <2>5. CASE ~(file' \in CutShort(file, "note", c) /\ last' = last)
    <3>1. /\ file' = WithNote(file, c)
          /\ last'.ended = "standing" /\ last'.noted = last.noted \cup {c}
          /\ last'.whole = IF file.tail = None THEN c ELSE None
      BY <1>0, <2>1, <2>3, <2>5
    <3>2. NotedRetirement(file') \in {c, NotedRetirement(file), None}
      BY <1>0, <3>1, NoteOfANote
    <3>3. NoteIsOfTheLastHold'
      BY <3>1, <3>2 DEF NoteInv, NoteIsOfTheLastHold
    <3>4. last'.whole # None => file'.note = last'.whole
      BY <1>0, <3>1, NoteOfANote
    <3> QED
      BY <2>2, <2>3, <3>1, <3>3, <3>4 DEF NoteInv, LastInv
  <2> QED
    BY <2>4, <2>5
<1>9. ASSUME NEW p \in Process, NEW t \in Thread, Leave(p, t) PROVE NoteInv'
  <2>1. /\ step[p] = "idle" /\ inside[p][t] \in Mode /\ file' = file /\ last' = last
        /\ IF holding[p].holders - 1 > 0
           THEN inside' = [inside EXCEPT ![p][t] = "out"] /\ step' = step
           ELSE /\ inside' = [inside EXCEPT ![p][t] = "leaves"]
                /\ step' = [step EXCEPT ![p] = "stamping"]
    BY <1>9 DEF Leave, Free
  <2>2. Stands(p) /\ lock = p
    BY <1>0, <2>1 DEF Stands, Inside, ClaimInv, Locked
  <2>3. lock' = lock
    BY <1>9 DEF Leave
  <2>4. Stands(p)'
    <3>1. CASE holding[p].holders - 1 > 0
      BY <1>0, <2>1, <2>2, <2>3, <3>1 DEF Stands, ClaimInv, Locked
    <3>2. CASE ~(holding[p].holders - 1 > 0)
      BY <1>0, <2>1, <3>2 DEF Stands
    <3> QED
      BY <3>1, <3>2
  <2>5. ASSUME NEW q \in Process PROVE Stands(q)' <=> Stands(q)
    <3>1. CASE q = p
      BY <2>2, <2>4, <3>1
    <3>2. CASE q # p
      <4>1. inside'[q] = inside[q] /\ step'[q] = step[q]
        BY <1>0, <2>1, <3>2
      <4> QED
        BY <4>1 DEF Stands, Inside
    <3> QED
      BY <3>1, <3>2
  <2> QED
    BY <2>1, <2>5, NoteKept
<1>10. ASSUME NEW p \in Process, Stamp(p) PROVE NoteInv'
  <2>1. /\ step[p] = "stamping" /\ step' = [step EXCEPT ![p] = "unlocking"]
        /\ inside' = inside
        /\ \/ /\ file' = WithStamp(file, stamp[p])
              /\ last' = [last EXCEPT !.whole = None, !.ended =
                            IF file.tail = None THEN "stamped" ELSE "unstamped"]
           \/ /\ file' \in CutShort(file, "released", stamp[p])
              /\ last' = [last EXCEPT !.ended = "unstamped", !.whole = None]
    BY <1>10 DEF Stamp
  <2>2. last'.ended \in {"stamped", "unstamped"} /\ last'.noted = last.noted
    BY <1>0, <2>1
  <2>3. ASSUME NEW q \in Process PROVE ~Stands(q)'
    <3>1. Inside(p) = {} /\ \A r \in Process \ {p} : step[r] = "idle" /\ Inside(r) = {}
      BY <1>0, <2>1, OneOwner DEF ClaimInv, Locked
    <3> QED
      BY <1>0, <2>1, <3>1 DEF Stands, Inside
  <2>4. CASE file' \in CutShort(file, "released", stamp[p]) /\ last'.ended = "unstamped"
    <3>0. file \in File
      BY <1>0
    <3>1. NotedRetirement(file') = NotedRetirement(file)
      BY <2>4, <3>0, NoteOfACut
    <3> QED
      BY <2>2, <2>3, <2>4, <3>1, NobodyStands
  <2>5. CASE file' = WithStamp(file, stamp[p])
             /\ last'.ended = IF file.tail = None THEN "stamped" ELSE "unstamped"
    <3>1. stamp[p] \in Moment
      BY <1>0
    <3>2. /\ file.tail = None => NotedRetirement(file') = None
          /\ NotedRetirement(file') \in {NotedRetirement(file), None}
      BY <1>0, <2>5, <3>1, NoteOfAStamp
    <3> QED
      BY <2>2, <2>3, <2>5, <3>2, NobodyStands
  <2> QED
    BY <1>0, <2>1, <2>4, <2>5
<1>11. ASSUME NEW p \in Process, Unlock(p) PROVE NoteInv'
  <2>1. /\ step[p] = "unlocking" /\ step' = [step EXCEPT ![p] = "idle"]
        /\ inside' = [inside EXCEPT ![p] = [t \in Thread |->
                IF inside[p][t] = "leaves" THEN "out" ELSE inside[p][t]]]
        /\ file' = file /\ last' = last
    BY <1>11 DEF Unlock
  <2>2. ASSUME NEW q \in Process PROVE Stands(q)' <=> Stands(q)
    <3>1. \A u \in Thread : inside'[q][u] \in Mode <=> inside[q][u] \in Mode
      BY <1>0, <2>1 DEF Mode
    <3>2. step'[q] = "stamping" <=> step[q] = "stamping"
      BY <1>0, <2>1
    <3> QED
      BY <3>1, <3>2 DEF Stands, Inside
  <2> QED
    BY <2>1, <2>2, NoteKept
<1>12. CASE UNCHANGED vars
  BY <1>12, NoteKept DEF vars, Stands, Inside
<1> QED
  BY <1>1, <1>3, <1>4, <1>5, <1>6, <1>7, <1>8, <1>9, <1>10, <1>11, <1>12 DEF Next

LEMMA NoteHolds == Spec => [](NoteInv /\ ReadingInv)
<1>1. Init => NoteInv
  <2>1. Init => \A p \in Process : ~Stands(p)
    BY DEF Init, Stands, Inside, Mode
  <2> QED
    BY <2>1 DEF Init, NoteInv, LastInv, NoteIsOfTheLastHold, NotedRetirement, Standing, Empty
<1>2. ReadingInv => IInv
  BY DEF ReadingInv
<1>3. ReadingInv /\ ReadingInv' /\ NoteInv /\ [Next]_vars => NoteInv'
  BY NoteStep DEF ReadingInv
<1> QED
  BY <1>1, <1>2, <1>3, ReadingHolds, PTL DEF Spec

\* Whatever is cut short, cut back or left by a death, a note a contender reads is
\* of the last granted hold, and that hold has not let go (`noted_retirement`).
THEOREM NoteAlwaysOfTheLastHold == Spec => []NoteIsOfTheLastHold
<1>1. NoteInv => NoteIsOfTheLastHold
  BY DEF NoteInv
<1> QED
  BY <1>1, NoteHolds, PTL

\* While a hold stands, its last whole note is what every contender reads: nobody
\* empties, signs or overwrites the file under it (`_Holdings.noted`).
THEOREM StandingNoteAlwaysRead == Spec => []StandingNoteIsRead
<1>1. NoteInv /\ ReadingInv => StandingNoteIsRead
  <2> SUFFICES ASSUME NoteInv, ReadingInv, last.ended = "standing", last.whole # None
               PROVE  NotedRetirement(file) = last.whole
    BY DEF StandingNoteIsRead
  <2>1. PICK p \in Process : Stands(p)
    BY DEF NoteInv, LastInv
  <2>2. file.holder = p /\ file.released = None
    BY <2>1 DEF ReadingInv, FileInv, Stands
  <2>3. p # None
    BY ConstantsAssumption
  <2> QED
    BY <2>2, <2>3 DEF NoteInv, LastInv, NotedRetirement, Standing
<1> QED
  BY <1>1, NoteHolds, PTL

-----------------------------------------------------------------------------
(***************************************************************************)
(* The refinement: the holders are the threads that are inside, and what a *)
(* contender is told is what the file says to a reader of it.              *)
(***************************************************************************)
Writing == Holders("writing")
Beside == Holders("alongside")
Told == NotedRetirement(file)

\* Those inside of any process, as the abstract claim counts them.
AllIn == Writing \cup Beside

LEMMA InsideOf ==
    ASSUME NEW p \in Process, NEW t \in Thread
    PROVE  /\ <<p, t>> \in Writing <=> inside[p][t] = "writing"
           /\ <<p, t>> \in Beside <=> inside[p][t] = "alongside"
           /\ <<p, t>> \in AllIn <=> t \in Inside(p)
BY DEF Writing, Beside, AllIn, Holders, Inside, Mode

LEMMA AllInAreHolders ==
    /\ Writing \subseteq Process \X Thread
    /\ Beside \subseteq Process \X Thread
    /\ AllIn = {} <=> \A p \in Process : Inside(p) = {}
    /\ \A h \in AllIn : h[1] \in Process /\ h[2] \in Thread
                        /\ h = <<h[1], h[2]>> /\ h[2] \in Inside(h[1])
<1>1. Writing \subseteq Process \X Thread /\ Beside \subseteq Process \X Thread
  BY DEF Writing, Beside, Holders
<1>2. ASSUME NEW h \in AllIn
      PROVE  h[1] \in Process /\ h[2] \in Thread /\ h = <<h[1], h[2]>> /\ h[2] \in Inside(h[1])
  <2>1. h[1] \in Process /\ h[2] \in Thread /\ h = <<h[1], h[2]>>
    BY <1>1 DEF AllIn
  <2> QED
    BY <2>1, InsideOf
<1>3. ASSUME NEW p \in Process, Inside(p) # {} PROVE AllIn # {}
  <2>1. PICK t \in Thread : t \in Inside(p)
    BY <1>3 DEF Inside
  <2> QED
    BY <2>1, InsideOf
<1> QED
  BY <1>1, <1>2, <1>3

LEMMA PairIs ==
    ASSUME NEW h \in Process \X Thread, NEW p \in Process, NEW t \in Thread
    PROVE  /\ h[1] \in Process /\ h[2] \in Thread
           /\ h = <<p, t>> <=> h[1] = p /\ h[2] = t
OBVIOUS

\* Threads that go on as they were, as far as being inside goes.
LEMMA HoldersKept ==
    ASSUME \A p \in Process : \A t \in Thread :
                \A mode \in Mode : inside'[p][t] = mode <=> inside[p][t] = mode
    PROVE  Writing' = Writing /\ Beside' = Beside
<1>1. ASSUME NEW mode \in Mode
      PROVE  {h \in Process \X Thread : inside'[h[1]][h[2]] = mode}
                = {h \in Process \X Thread : inside[h[1]][h[2]] = mode}
  BY <1>1
<1> QED
  BY <1>1 DEF Writing, Beside, Holders, Mode

\* Where one process is on its way through, nobody is inside.
LEMMA NobodyIn ==
    ASSUME ClaimInv, NEW p \in Process, step[p] # "idle"
    PROVE  AllIn = {}
<1>1. Inside(p) = {}
  BY DEF ClaimInv, Locked
<1>2. \A q \in Process \ {p} : Inside(q) = {}
  BY OneOwner
<1> QED
  BY <1>1, <1>2, AllInAreHolders

-----------------------------------------------------------------------------
LEMMA InitImplements == Init => Claim!Init
<1> SUFFICES ASSUME Init PROVE Claim!Init
  OBVIOUS
<1>1. \A mode \in Mode : Holders(mode) = {}
  BY DEF Init, Holders, Mode
<1>2. NotedRetirement(file) = None
  BY DEF Init, NotedRetirement, Standing, Empty
<1> QED
  BY <1>1, <1>2 DEF Claim!Init, Mode

\* A step the abstract claim does not see.
LEMMA Unseen ==
    ASSUME Writing' = Writing, Beside' = Beside, Told' = Told
    PROVE  [Claim!Next]_(Claim!vars)
BY DEF Writing, Beside, Told, Claim!vars

LEMMA Forgotten ==
    ASSUME AllIn = {}, Writing' = Writing, Beside' = Beside, Told' \in {Told, None}
    PROVE  [Claim!Next]_(Claim!vars)
<1>1. CASE Told' = Told
  BY <1>1, Unseen
<1>2. CASE Told' = None
  BY <1>2 DEF AllIn, Writing, Beside, Told, Claim!Next, Claim!Forget, Claim!Inside
<1> QED
  BY <1>1, <1>2

LEMMA StepImplements == ReadingInv /\ [Next]_vars => [Claim!Next]_(Claim!vars)
<1> SUFFICES ASSUME ReadingInv, [Next]_vars PROVE [Claim!Next]_(Claim!vars)
  OBVIOUS
<1>0. /\ IInv /\ FileInv /\ ClaimInv
      /\ step \in [Process -> {"idle", "locked", "emptied", "stamping", "unlocking"}]
      /\ inside \in [Process -> [Thread -> Mode \cup
                        {"out", "takes_writing", "takes_alongside", "leaves"}]]
      /\ stamp \in [Process -> Moment]
  BY DEF ReadingInv, IInv, TypeOK
<1>f. file \in File
  BY <1>0 DEF IInv, TypeOK
<1>1. CASE Tick \/ \E p \in Process : Start(p) \/ Poll(p)
  <2>1. inside' = inside /\ file' = file
    BY <1>1 DEF Tick, Start, Poll
  <2> QED
    BY <2>1, HoldersKept, Unseen DEF Told
<1>2. ASSUME NEW gone \in SUBSET Process, Die(gone) PROVE [Claim!Next]_(Claim!vars)
  <2>1. ASSUME NEW mode \in Mode
        PROVE  Holders(mode)' = {h \in Holders(mode) : h[1] \notin gone}
    <3>1. ASSUME NEW h \in Process \X Thread
          PROVE  inside'[h[1]][h[2]] = mode <=> inside[h[1]][h[2]] = mode /\ h[1] \notin gone
      <4>1. h[1] \in Process /\ h[2] \in Thread
        OBVIOUS
      <4>2. CASE h[1] \in gone
        BY <4>1, <4>2, <1>2, <2>1 DEF Die, Mode
      <4>3. CASE h[1] \notin gone
        BY <4>1, <4>3, <1>2 DEF Die
      <4> QED
        BY <4>2, <4>3
    <3> QED
      BY <3>1 DEF Holders
  <2>2. Told' = Told
    BY <1>2 DEF Die, Told
  <2>3. Claim!Die(gone)
    BY <2>1, <2>2 DEF Claim!Die, Told, Mode
  <2> QED
    BY <2>3 DEF Claim!Next
<1>3. CASE Reboot \/ \E p \in Process : Crash(p)
  BY <1>2, <1>3 DEF Reboot, Crash
<1>4. ASSUME NEW p \in Process, step[p] \in {"locked", "emptied"}, GiveUp(p),
             Told' = Told
      PROVE  [Claim!Next]_(Claim!vars)
  <2>1. Inside(p) = {}
    BY <1>0, <1>4 DEF ClaimInv, Locked
  <2>2. ASSUME NEW q \in Process, NEW t \in Thread, NEW mode \in Mode
        PROVE  inside'[q][t] = mode <=> inside[q][t] = mode
    <3>1. CASE q = p
      BY <2>1, <3>1, <1>0, <1>4 DEF GiveUp, Inside, Mode
    <3>2. CASE q # p
      BY <3>2, <1>0, <1>4 DEF GiveUp
    <3> QED
      BY <3>1, <3>2
  <2> QED
    BY <1>4, <2>2, HoldersKept, Unseen
<1>5. ASSUME NEW p \in Process, EmptyFile(p) PROVE [Claim!Next]_(Claim!vars)
  <2>1. step[p] = "locked"
    BY <1>5 DEF EmptyFile
  <2>2. CASE file' = file /\ GiveUp(p)
    BY <1>4, <2>1, <2>2 DEF Told
  <2>3. CASE ~(file' = file /\ GiveUp(p))
    <3>1. file' = Empty /\ inside' = inside
      BY <1>5, <2>3 DEF EmptyFile
    <3>2. Told' = None
      BY <3>1 DEF Told, NotedRetirement, Standing, Empty
    <3>3. AllIn = {}
      BY <1>0, <2>1, NobodyIn
    <3> QED
      BY <3>1, <3>2, <3>3, HoldersKept, Forgotten
  <2> QED
    BY <2>2, <2>3
<1>6. ASSUME NEW p \in Process, Sign(p) PROVE [Claim!Next]_(Claim!vars)
  <2>1. step[p] = "emptied"
    BY <1>6 DEF Sign
  <2>2. CASE file' \in CutShort(file, "holder", 0) /\ GiveUp(p)
    <3>1. NotedRetirement(file') = NotedRetirement(file)
      BY <1>f, <2>2, NoteOfACut
    <3> QED
      BY <1>4, <2>1, <2>2, <3>1 DEF Told
  <2>3. CASE ~(file' \in CutShort(file, "holder", 0) /\ GiveUp(p))
    <3>1. file' = WithHolder(p) /\ Entered(p)
      BY <1>6, <2>3 DEF Sign, Granted
    <3>2. Told' = None
      BY <3>1 DEF Told, WithHolder, Empty, NotedRetirement, Standing
    <3>3. AllIn = {} /\ Inside(p) = {}
      BY <1>0, <2>1, NobodyIn, AllInAreHolders
    <3>4. PICK t \in Thread : Takes(p) = {t}
      <4>1. Takes(p) # {} /\ \A u, v \in Takes(p) : u = v
        BY <1>0, <2>1 DEF ClaimInv, OneTaker
      <4> QED
        BY <4>1 DEF Takes
    <3>5. ASSUME NEW u \in Thread
          PROVE  inside'[p][u] = CASE inside[p][u] = "takes_writing"   -> "writing"
                                   [] inside[p][u] = "takes_alongside" -> "alongside"
                                   [] OTHER                            -> inside[p][u]
      BY <1>0, <3>1 DEF Entered
    <3>6. ASSUME NEW u \in Thread \ {t}
          PROVE  inside'[p][u] \notin Mode
      <4>1. inside[p][u] \notin Mode \cup {"takes_writing", "takes_alongside"}
        BY <3>3, <3>4 DEF Inside, Takes
      <4> QED
        BY <3>5, <4>1
    <3>7. ASSUME NEW q \in Process \ {p}, NEW u \in Thread PROVE inside'[q][u] \notin Mode
      <4>1. inside'[q] = inside[q] /\ Inside(q) = {}
        BY <1>0, <3>1, <3>3, AllInAreHolders DEF Entered
      <4> QED
        BY <4>1 DEF Inside
    <3>8. \/ inside'[p][t] = "writing"
          \/ inside'[p][t] = "alongside"
      <4>1. inside[p][t] \in {"takes_writing", "takes_alongside"}
        BY <3>4 DEF Takes
      <4> QED
        BY <3>5, <4>1
    <3>9. ASSUME NEW mode \in Mode
          PROVE  Holders(mode)' = IF inside'[p][t] = mode THEN {<<p, t>>} ELSE {}
      <4>1. ASSUME NEW h \in Process \X Thread
            PROVE  inside'[h[1]][h[2]] = mode => h = <<p, t>>
        BY <3>6, <3>7, <3>9
      <4>2. <<p, t>> \in Process \X Thread /\ <<p, t>>[1] = p /\ <<p, t>>[2] = t
        OBVIOUS
      <4> QED
        BY <4>1, <4>2 DEF Holders
    <3>10. Writing = {} /\ Beside = {}
      BY <3>3 DEF AllIn
    <3>11. Claim!Enter(p, t)
      <4>1. CASE inside'[p][t] = "writing"
        <5>1. Writing' = {<<p, t>>} /\ Beside' = {}
          BY <3>9, <4>1 DEF Writing, Beside, Mode
        <5> QED
          BY <3>2, <3>10, <5>1 DEF Claim!Enter, Claim!Inside, Writing, Beside, Told
      <4>2. CASE inside'[p][t] = "alongside"
        <5>1. Writing' = {} /\ Beside' = {<<p, t>>}
          BY <3>9, <4>2 DEF Writing, Beside, Mode
        <5> QED
          BY <3>2, <3>10, <5>1 DEF Claim!Enter, Claim!Inside, Writing, Beside, Told
      <4> QED
        BY <3>8, <4>1, <4>2
    <3> QED
      BY <3>11 DEF Claim!Next
  <2> QED
    BY <2>2, <2>3
<1>7. ASSUME NEW p \in Process, NEW t \in Thread, NEW mode \in Mode, JoinFresh(p, t, mode)
      PROVE  [Claim!Next]_(Claim!vars)
  <2>1. /\ inside[p][t] = "out" /\ file' = file
        /\ \/ inside' = [inside EXCEPT ![p][t] = "takes_writing"]
           \/ inside' = [inside EXCEPT ![p][t] = "takes_alongside"]
    BY <1>7 DEF JoinFresh
  <2>2. ASSUME NEW q \in Process, NEW u \in Thread, NEW m \in Mode
        PROVE  inside'[q][u] = m <=> inside[q][u] = m
    <3>1. CASE inside' = [inside EXCEPT ![p][t] = "takes_writing"]
      BY <1>0, <2>1, <3>1 DEF Mode
    <3>2. CASE inside' = [inside EXCEPT ![p][t] = "takes_alongside"]
      BY <1>0, <2>1, <3>2 DEF Mode
    <3> QED
      BY <2>1, <3>1, <3>2
  <2> QED
    BY <2>1, <2>2, HoldersKept, Unseen DEF Told
<1>8. ASSUME NEW p \in Process, NEW t \in Thread, NEW mode \in Mode, JoinHeld(p, t, mode)
      PROVE  [Claim!Next]_(Claim!vars)
  <2>1. /\ holding[p].holders > 0 /\ ~(holding[p].writing /\ mode = "writing")
        /\ inside[p][t] = "out" /\ inside' = [inside EXCEPT ![p][t] = mode]
        /\ file' = file
    BY <1>8 DEF JoinHeld, HeldHere
  <2>2. Inside(p) # {} /\ lock = p
    <3>1. /\ holding[p].holders = Cardinality(Inside(p))
          /\ Cardinality(Inside(p)) = 0 <=> Inside(p) = {}
      BY <1>0, InsideFinite DEF IInv, ClaimInv, Counted
    <3>2. Inside(p) # {}
      BY <2>1, <3>1
    <3> QED
      BY <1>0, <3>2 DEF ClaimInv, Locked
  <2>3. \A h \in AllIn : h[1] = p
    <3>1. \A q \in Process : Inside(q) # {} => q = p
      BY <1>0, <2>2 DEF ClaimInv, Locked
    <3> QED
      BY <3>1, AllInAreHolders
  <2>4. <<p, t>> \notin AllIn /\ AllIn # {}
    BY <2>1, <2>2, InsideOf, AllInAreHolders DEF Inside, Mode
  <2>5. ASSUME NEW m \in Mode
        PROVE  Holders(m)' = IF m = mode THEN Holders(m) \cup {<<p, t>>} ELSE Holders(m)
    <3>1. ASSUME NEW h \in Process \X Thread
          PROVE  inside'[h[1]][h[2]] = IF h = <<p, t>> THEN mode ELSE inside[h[1]][h[2]]
      <4>1. ASSUME NEW q \in Process, NEW u \in Thread
            PROVE  inside'[q][u] = IF q = p /\ u = t THEN mode ELSE inside[q][u]
        BY <1>0, <2>1
      <4> QED
        BY <4>1, PairIs
    <3>2. inside[p][t] # m /\ <<p, t>> \in Process \X Thread
      BY <2>1 DEF Mode
    <3>3. <<p, t>>[1] = p /\ <<p, t>>[2] = t
      OBVIOUS
    <3> QED
      BY <3>1, <3>2, <3>3 DEF Holders
  <2>6. mode = "writing" => Writing = {}
    <3>1. ASSUME NEW h \in Writing PROVE holding[p].writing
      <4>1. h \in AllIn /\ h[1] = p /\ h[2] \in Thread /\ inside[h[1]][h[2]] = "writing"
        BY <2>3, <3>1, AllInAreHolders DEF AllIn, Writing, Holders
      <4> QED
        BY <1>0, <4>1 DEF ClaimInv, Flagged
    <3> QED
      BY <2>1, <3>1
  <2>7. Claim!Enter(p, t)
    <3>1. Told' = Told
      BY <2>1 DEF Told
    <3>2. CASE mode = "writing"
      <4>1. Writing' = {<<p, t>>} /\ Beside' = Beside
        BY <2>5, <2>6, <3>2 DEF Writing, Beside, Mode
      <4> QED
        BY <2>3, <2>4, <2>6, <3>1, <3>2, <4>1
           DEF Claim!Enter, Claim!Inside, Writing, Beside, Told, AllIn
    <3>3. CASE mode = "alongside"
      <4>1. Writing' = Writing /\ Beside' = Beside \cup {<<p, t>>}
        BY <2>5, <3>3 DEF Writing, Beside, Mode
      <4> QED
        BY <2>3, <2>4, <3>1, <4>1
           DEF Claim!Enter, Claim!Inside, Writing, Beside, Told, AllIn
    <3> QED
      BY <3>2, <3>3 DEF Mode
  <2> QED
    BY <2>7 DEF Claim!Next
<1>9. ASSUME NEW p \in Process, NEW t \in Thread, NEW c \in Cycle, NoteRetirement(p, t, c)
      PROVE  [Claim!Next]_(Claim!vars)
  <2>1. /\ inside[p][t] = "writing" /\ inside' = inside
        /\ file' = WithNote(file, c) \/ file' \in CutShort(file, "note", c)
    BY <1>9 DEF NoteRetirement
  <2>2. Writing' = Writing /\ Beside' = Beside /\ Writing # {}
    BY <2>1, HoldersKept, InsideOf
  <2>3. Told' \in {c, Told, None}
    BY <1>f, <2>1, NoteOfACut, NoteOfANote DEF Told
  <2>4. CASE Told' = Told
    BY <2>2, <2>4, Unseen
  <2>5. CASE Told' \in {c, None}
    BY <2>2, <2>5 DEF Claim!Next, Claim!Note, Writing, Beside, Told
  <2> QED
    BY <2>3, <2>4, <2>5
<1>10. ASSUME NEW p \in Process, NEW t \in Thread, Leave(p, t)
       PROVE  [Claim!Next]_(Claim!vars)
  <2>1. /\ inside[p][t] \in Mode /\ file' = file
        /\ \/ inside' = [inside EXCEPT ![p][t] = "out"]
           \/ inside' = [inside EXCEPT ![p][t] = "leaves"]
    BY <1>10 DEF Leave
  <2>2. ASSUME NEW m \in Mode
        PROVE  Holders(m)' = Holders(m) \ {<<p, t>>}
    <3>1. ASSUME NEW h \in Process \X Thread
          PROVE  inside'[h[1]][h[2]] = m <=> inside[h[1]][h[2]] = m /\ h # <<p, t>>
      <4>1. ASSUME NEW q \in Process, NEW u \in Thread
            PROVE  inside'[q][u] = m <=> inside[q][u] = m /\ ~(q = p /\ u = t)
        <5>1. CASE inside' = [inside EXCEPT ![p][t] = "out"]
          BY <1>0, <2>2, <5>1 DEF Mode
        <5>2. CASE inside' = [inside EXCEPT ![p][t] = "leaves"]
          BY <1>0, <2>2, <5>2 DEF Mode
        <5> QED
          BY <2>1, <5>1, <5>2
      <4> QED
        BY <4>1, PairIs
    <3> QED
      BY <3>1 DEF Holders
  <2>3. <<p, t>> \in AllIn
    BY <2>1, InsideOf DEF Inside
  <2>4. Told' = Told
    BY <2>1 DEF Told
  <2>5. Claim!Leave(<<p, t>>)
    BY <2>2, <2>3, <2>4 DEF Claim!Leave, Claim!Inside, AllIn, Writing, Beside, Told, Mode
  <2> QED
    BY <2>5 DEF Claim!Next
<1>11. ASSUME NEW p \in Process, Stamp(p) PROVE [Claim!Next]_(Claim!vars)
  <2>1. /\ step[p] = "stamping" /\ inside' = inside
        /\ file' = WithStamp(file, stamp[p]) \/ file' \in CutShort(file, "released", stamp[p])
    BY <1>11 DEF Stamp
  <2>2. stamp[p] \in Moment
    BY <1>0
  <2>3. Told' \in {Told, None}
    <3>1. CASE file' = WithStamp(file, stamp[p])
      BY <1>f, <2>2, <3>1, NoteOfAStamp DEF Told
    <3>2. CASE file' \in CutShort(file, "released", stamp[p])
      BY <1>f, <3>2, NoteOfACut DEF Told
    <3> QED
      BY <2>1, <3>1, <3>2
  <2>4. AllIn = {}
    BY <1>0, <2>1, NobodyIn
  <2> QED
    BY <2>1, <2>3, <2>4, HoldersKept, Forgotten
<1>12. ASSUME NEW p \in Process, Unlock(p) PROVE [Claim!Next]_(Claim!vars)
  <2>1. /\ inside' = [inside EXCEPT ![p] = [t \in Thread |->
                IF inside[p][t] = "leaves" THEN "out" ELSE inside[p][t]]]
        /\ file' = file
    BY <1>12 DEF Unlock
  <2>2. ASSUME NEW q \in Process, NEW u \in Thread, NEW m \in Mode
        PROVE  inside'[q][u] = m <=> inside[q][u] = m
    BY <1>0, <2>1 DEF Mode
  <2> QED
    BY <2>1, <2>2, HoldersKept, Unseen DEF Told
<1>13. CASE UNCHANGED vars
  <2>1. inside' = inside /\ file' = file
    BY <1>13 DEF vars
  <2> QED
    BY <2>1, HoldersKept, Unseen DEF Told
<1> QED
  BY <1>1, <1>3, <1>5, <1>6, <1>7, <1>8, <1>9, <1>10, <1>11, <1>12, <1>13 DEF Next

\* The claim of writer_claims.py is the claim its callers rely on, whatever is
\* cut short, killed or restarted under it.
THEOREM ClaimImplemented == Spec => ImplementsClaim
BY InitImplements, StepImplements, ReadingHolds, PTL DEF Spec, ImplementsClaim, Claim!Spec
=============================================================================
