---------------------------- MODULE WriterClaims ----------------------------
(***************************************************************************)
(* The writer claim on one repository issue (scheduler/writer_claims.py    *)
(* and scheduler/claim_notes.py): which process of this host may write     *)
(* the issue right now, and what the file the claim is taken on tells the  *)
(* pollers that share it.                                                  *)
(*                                                                         *)
(* One instance is one claim path.  Two issue keys share no state (they    *)
(* are two files and two entries of every map), so one is enough.          *)
(*                                                                         *)
(* A process is an incarnation: its token is drawn at import, so a poller  *)
(* restarted after a crash is another member of Process.  Its threads meet *)
(* on one mutex, `_Holdings._lock`, held over a whole join, note or leave; *)
(* the steps in which another process can see the file change are separate *)
(* actions, and `step` says where the thread holding the mutex is.         *)
(***************************************************************************)
EXTENDS Naturals, FiniteSets

CONSTANTS
    Process,    \* the pollers, one per incarnation
    Thread,     \* the threads of each of them
    Cycle,      \* the late cycle ids a hold may note, numbers as in the code
    MaxMoment,  \* bound: the last moment the monotonic clock reaches
    None        \* the absent value

ASSUME ConstantsAssumption ==
    /\ Cycle \subseteq Nat
    /\ MaxMoment \in Nat
    /\ IsFiniteSet(Thread)
    /\ None \notin Process /\ None \notin Nat

VARIABLES
    up,         \* whether each process has not started yet, runs, or is gone
    clock,      \* CLOCK_MONOTONIC of this host
    lock,       \* the process whose file description has the flock
    file,       \* what the claim file says
    step,       \* where each process is in a join or a leave that takes steps
    left,       \* what the process taking the key read off the file
    stamp,      \* the moment a leaving process is about to write
    holding,    \* `_Holdings._held` for this path; no holders is no entry
    inside,     \* where each thread is with respect to `issue_writer`
    elsewhere,  \* `_Holdings._elsewhere` for this path
    reading,    \* the moment each process's poll read, and the truth behind it
    last        \* the last hold that was granted, as it really went

vars == <<up, clock, lock, file, step, left, stamp, holding, inside, elsewhere,
          reading, last>>

-----------------------------------------------------------------------------
(***************************************************************************)
(* The file.  A whole record is a field of it; `tail` is the last piece    *)
(* when it has no line end: the key it spells and the value a reader that  *)
(* took it for whole would find there.                                     *)
(***************************************************************************)
Moment == 0..MaxMoment
Keys == {"holder", "released", "note", "junk"}
Value == Moment \cup Cycle
Tail == [key : Keys, val : Value]
File == [holder   : Process \cup {None},
         released : Moment \cup {None},
         note     : Cycle \cup {None},
         tail     : Tail \cup {None}]

Empty == [holder |-> None, released |-> None, note |-> None, tail |-> None]

\* A record added behind an unfinished one runs into it: the line that makes
\* spells the first one's key and no value of it, so it is no stamp and no
\* note, and the note it hides was the last of its key.
Merged(f) == [f EXCEPT !.tail = None,
                       !.note = IF f.tail.key = "note" THEN None ELSE @]

WithHolder(p) == [Empty EXCEPT !.holder = p]
WithNote(f, c) == IF f.tail = None THEN [f EXCEPT !.note = c] ELSE Merged(f)
WithStamp(f, m) == IF f.tail = None THEN [f EXCEPT !.released = m] ELSE Merged(f)

\* What a record leaves when its write is short: nothing where it is cut back,
\* or, where the cut fails as well (or the process is killed before it), some
\* first part of the line.
CutTails(key, n) == {[key |-> "junk", val |-> 0]}
                        \cup {[key |-> key, val |-> v] : v \in {w \in Value : w <= n}}
CutShort(f, key, n) ==
    {f} \cup IF f.tail = None
             THEN {[f EXCEPT !.tail = t] : t \in CutTails(key, n)}
             ELSE {}

\* Mutation: a reader that forgets the release stamp.
StandingIfSigned(f) == f.holder # None

\* Mutation: a reader that trusts nothing on a file with an unfinished line.
StandingIfFinished(f) == f.holder # None /\ f.released = None /\ f.tail = None

\* `_Left.standing`, and the answer of `noted_retirement` built on it.
Standing(f) == f.holder # None /\ f.released = None
NotedRetirement(f) == IF Standing(f) THEN f.note ELSE None

\* Mutation: a file no hold has signed is taken for one nobody held.
EndedElsewhereIfSigned(p, f, now) ==
    IF f.holder \in {None, p} THEN None
    ELSE IF f.released # None /\ f.tail = None THEN f.released
    ELSE now

\* `_Left.ended_elsewhere`.
EndedElsewhere(p, f, now) ==
    IF f.holder = p THEN None
    ELSE IF f.holder # None /\ f.released # None /\ f.tail = None
    THEN f.released
    ELSE now

\* `_Holdings._found`: the latest end of another poller's hold known so far.
Found(p, f, now) ==
    LET ended == EndedElsewhere(p, f, now)
        known == elsewhere[p]
    IN  IF ended = None \/ ended > now THEN known
        ELSE IF known = None \/ known < ended THEN ended
        ELSE known

\* `_Holdings.undisturbed_since`.
UndisturbedSince(p, moment) == elsewhere[p] = None \/ elsewhere[p] < moment

-----------------------------------------------------------------------------
Mode == {"writing", "alongside"}
NoHolding == [writing |-> FALSE, holders |-> 0]

\* The threads of p that are inside the body of a granted claim.
Inside(p) == {t \in Thread : inside[p][t] \in Mode}
Holds(p) == Inside(p) # {}

TypeOK ==
    /\ up \in [Process -> {"unborn", "up", "dead"}]
    /\ clock \in Moment
    /\ lock \in Process \cup {None}
    /\ file \in File
    /\ step \in [Process -> {"idle", "locked", "emptied", "stamping", "unlocking"}]
    /\ left \in [Process -> File]
    /\ stamp \in [Process -> Moment]
    /\ holding \in [Process -> [writing : BOOLEAN, holders : Nat]]
    /\ inside \in [Process -> [Thread -> Mode \cup
                        {"out", "takes_writing", "takes_alongside", "leaves"}]]
    /\ elsewhere \in [Process -> Moment \cup {None}]
    /\ reading \in [Process -> [at : Moment, disturbed : BOOLEAN] \cup {None}]
    /\ last \in [ended : {"standing", "stamped", "unstamped", "died"},
                 noted : SUBSET Cycle,
                 whole : Cycle \cup {None}]

Init ==
    /\ up = [p \in Process |-> "unborn"]
    /\ clock = 0
    /\ lock = None
    /\ file = Empty
    /\ step = [p \in Process |-> "idle"]
    /\ left = [p \in Process |-> Empty]
    /\ stamp = [p \in Process |-> 0]
    /\ holding = [p \in Process |-> NoHolding]
    /\ inside = [p \in Process |-> [t \in Thread |-> "out"]]
    /\ elsewhere = [p \in Process |-> None]
    /\ reading = [p \in Process |-> None]
    /\ last = [ended |-> "died", noted |-> {}, whole |-> None]

\* A thread of p that has the mutex to itself.
Free(p) == up[p] = "up" /\ step[p] = "idle"

-----------------------------------------------------------------------------
Start(p) ==
    /\ up[p] = "unborn"
    /\ up' = [up EXCEPT ![p] = "up"]
    /\ UNCHANGED <<clock, lock, file, step, left, stamp, holding, inside,
                   elsewhere, reading, last>>

Tick ==
    /\ clock < MaxMoment
    /\ clock' = clock + 1
    /\ UNCHANGED <<up, lock, file, step, left, stamp, holding, inside,
                   elsewhere, reading, last>>

\* A poll reads the moment before it reads anything off GitHub.  `disturbed`
\* is the truth its passes cannot see: whether another poller held the issue
\* at that moment or has held it since.
Poll(p) ==
    /\ up[p] = "up"
    /\ reading' = [reading EXCEPT ![p] =
            [at |-> clock, disturbed |-> \E q \in Process \ {p} : Holds(q)]]
    /\ UNCHANGED <<up, clock, lock, file, step, left, stamp, holding, inside,
                   elsewhere, last>>

-----------------------------------------------------------------------------
(***************************************************************************)
(* Joining.  Refusals change nothing but the refused thread's course, so   *)
(* only the ways in are actions.                                           *)
(***************************************************************************)
\* The key is not held here: open the file and take its flock, not waiting.
JoinFresh(p, t, mode) ==
    /\ Free(p)
    /\ inside[p][t] = "out"
    /\ holding[p].holders = 0
    /\ lock = None
    /\ lock' = p
    /\ step' = [step EXCEPT ![p] = "locked"]
    /\ inside' = [inside EXCEPT ![p][t] =
            IF mode = "writing" THEN "takes_writing" ELSE "takes_alongside"]
    /\ UNCHANGED <<up, clock, file, left, stamp, holding, elsewhere, reading, last>>

\* Mutation: an error on the way in leaves the file open.
GiveUpOpen(p) ==
    /\ step' = [step EXCEPT ![p] = "idle"]
    /\ left' = [left EXCEPT ![p] = Empty]
    /\ inside' = [inside EXCEPT ![p] = [t \in Thread |-> "out"]]
    /\ UNCHANGED <<up, clock, lock, stamp, holding, elsewhere, reading, last>>

\* An error on the way in: the file is closed, which drops the lock.
GiveUp(p) ==
    /\ lock' = None
    /\ step' = [step EXCEPT ![p] = "idle"]
    /\ left' = [left EXCEPT ![p] = Empty]
    /\ inside' = [inside EXCEPT ![p] = [t \in Thread |-> "out"]]
    /\ UNCHANGED <<up, clock, stamp, holding, elsewhere, reading, last>>

\* Read what the last hold left, and empty the file.
EmptyFile(p) ==
    /\ step[p] = "locked"
    /\ \/ /\ left' = [left EXCEPT ![p] = file]
          /\ file' = Empty
          /\ step' = [step EXCEPT ![p] = "emptied"]
          /\ UNCHANGED <<up, clock, lock, stamp, holding, inside, elsewhere,
                         reading, last>>
       \/ file' = file /\ GiveUp(p)

\* Whoever in p is on the way in is inside, and what p then holds.
Entered(p) ==
    inside' = [inside EXCEPT ![p] = [t \in Thread |->
        CASE @[t] = "takes_writing"   -> "writing"
          [] @[t] = "takes_alongside" -> "alongside"
          [] OTHER                    -> @[t]]]

\* Mutation: a fresh holding does not count the holder that took it.
FreshHoldingUncounted(p) ==
    [writing |-> \E t \in Thread : inside[p][t] = "takes_writing", holders |-> 0]

FreshHolding(p) ==
    [writing |-> \E t \in Thread : inside[p][t] = "takes_writing", holders |-> 1]

\* The thread of p that is on its way in has the claim: it was the only one
\* that could be, because the mutex is its own.
Granted(p) ==
    /\ Entered(p)
    /\ holding' = [holding EXCEPT ![p] = FreshHolding(p)]
    /\ last' = [ended |-> "standing", noted |-> {}, whole |-> None]
    /\ reading' = [q \in Process |->
            IF q = p \/ reading[q] = None THEN reading[q]
            ELSE [reading[q] EXCEPT !.disturbed = TRUE]]

\* Sign the emptied file, and note when the hold found on it ended.
Sign(p) ==
    /\ step[p] = "emptied"
    /\ \/ /\ file' = WithHolder(p)
          /\ elsewhere' = [elsewhere EXCEPT ![p] = Found(p, left[p], clock)]
          /\ left' = [left EXCEPT ![p] = Empty]
          /\ step' = [step EXCEPT ![p] = "idle"]
          /\ Granted(p)
          /\ UNCHANGED <<up, clock, lock, stamp>>
       \/ /\ file' \in CutShort(file, "holder", 0)
          /\ GiveUp(p)

\* Mutation: the flag is read the wrong way round.
HeldHereAlongside(p, mode) == holding[p].writing /\ mode = "alongside"

\* The reason a thread is refused what this process holds.
HeldHere(p, mode) == holding[p].writing /\ mode = "writing"

\* The key is held here already: a second writer is refused, an alongside
\* holder never, and a writer may join alongside holders.
JoinHeld(p, t, mode) ==
    /\ Free(p)
    /\ inside[p][t] = "out"
    /\ holding[p].holders > 0
    /\ ~HeldHere(p, mode)
    /\ holding' = [holding EXCEPT ![p] =
            [writing |-> @.writing \/ mode = "writing", holders |-> @.holders + 1]]
    /\ inside' = [inside EXCEPT ![p][t] = mode]
    /\ UNCHANGED <<up, clock, lock, file, step, left, stamp, elsewhere, reading, last>>

-----------------------------------------------------------------------------
\* Mutation: whoever is inside may note, a writer or not.
NoteRetirementAlongside(p, t, c) ==
    /\ Free(p)
    /\ inside[p][t] \in Mode
    /\ \/ /\ file' = WithNote(file, c)
          /\ last' = [last EXCEPT !.noted = @ \cup {c},
                                  !.whole = IF file.tail = None THEN c ELSE None]
       \/ /\ file' \in CutShort(file, "note", c)
          /\ last' = last
    /\ UNCHANGED <<up, clock, lock, step, left, stamp, holding, inside,
                   elsewhere, reading>>

\* Note on the file that this hold retires cycle c, or fail to.  Nothing is
\* written where no writer here holds the key.
NoteRetirement(p, t, c) ==
    /\ Free(p)
    /\ inside[p][t] = "writing"
    /\ holding[p].holders > 0 /\ holding[p].writing
    /\ \/ /\ file' = WithNote(file, c)
          /\ last' = [last EXCEPT !.noted = @ \cup {c},
                                  !.whole = IF file.tail = None THEN c ELSE None]
       \/ /\ file' \in CutShort(file, "note", c)
          /\ last' = last
    /\ UNCHANGED <<up, clock, lock, step, left, stamp, holding, inside,
                   elsewhere, reading>>

\* One holder's share is given back; the last one goes on to stamp the file.
Leave(p, t) ==
    /\ Free(p)
    /\ inside[p][t] \in Mode
    /\ LET mine == inside[p][t]
           rest == holding[p].holders - 1
       IN  /\ holding' = [holding EXCEPT ![p] =
                    [writing |-> rest > 0 /\ @.writing /\ mine = "alongside",
                     holders |-> rest]]
           /\ IF rest > 0
              THEN /\ inside' = [inside EXCEPT ![p][t] = "out"]
                   /\ UNCHANGED <<step, stamp>>
              ELSE /\ inside' = [inside EXCEPT ![p][t] = "leaves"]
                   /\ step' = [step EXCEPT ![p] = "stamping"]
                   /\ stamp' = [stamp EXCEPT ![p] = clock]
    /\ UNCHANGED <<up, clock, lock, file, left, elsewhere, reading, last>>

\* The release stamp, which may fail without keeping the lock.
Stamp(p) ==
    /\ step[p] = "stamping"
    /\ step' = [step EXCEPT ![p] = "unlocking"]
    /\ \/ /\ file' = WithStamp(file, stamp[p])
          /\ last' = [last EXCEPT !.whole = None, !.ended =
                        IF file.tail = None THEN "stamped" ELSE "unstamped"]
       \/ /\ file' \in CutShort(file, "released", stamp[p])
          /\ last' = [last EXCEPT !.ended = "unstamped", !.whole = None]
    /\ UNCHANGED <<up, clock, lock, left, stamp, holding, inside, elsewhere, reading>>

Unlock(p) ==
    /\ step[p] = "unlocking"
    /\ lock' = None
    /\ step' = [step EXCEPT ![p] = "idle"]
    /\ stamp' = [stamp EXCEPT ![p] = 0]
    /\ inside' = [inside EXCEPT ![p] = [t \in Thread |->
            IF @[t] = "leaves" THEN "out" ELSE @[t]]]
    /\ UNCHANGED <<up, clock, file, left, holding, elsewhere, reading, last>>

-----------------------------------------------------------------------------
(***************************************************************************)
(* The processes of `gone` die wherever they are.  The kernel drops the    *)
(* flock with the file description and the file stays as it is.            *)
(***************************************************************************)
Die(gone) ==
    LET keep(f, zero) == [p \in Process |-> IF p \in gone THEN zero ELSE f[p]]
    IN  /\ up' = keep(up, "dead")
        /\ lock' = IF lock \in gone THEN None ELSE lock
        /\ step' = keep(step, "idle")
        /\ left' = keep(left, Empty)
        /\ stamp' = keep(stamp, 0)
        /\ holding' = keep(holding, NoHolding)
        /\ inside' = keep(inside, [t \in Thread |-> "out"])
        /\ elsewhere' = keep(elsewhere, None)
        /\ reading' = keep(reading, None)
        /\ last' = IF lock \in gone /\ last.ended = "standing"
                   THEN [last EXCEPT !.ended = "died", !.whole = None]
                   ELSE last
        /\ UNCHANGED file

Crash(p) == up[p] = "up" /\ Die({p}) /\ UNCHANGED clock

\* The host restarts: every running process is gone and the clock starts again.
Reboot ==
    LET gone == {p \in Process : up[p] = "up"}
    IN  /\ gone # {}
        /\ Die(gone)
        /\ clock' = 0

-----------------------------------------------------------------------------
Next ==
    \/ Tick
    \/ Reboot
    \/ \E p \in Process :
        \/ Start(p) \/ Poll(p) \/ EmptyFile(p) \/ Sign(p)
        \/ Stamp(p) \/ Unlock(p) \/ Crash(p)
        \/ \E t \in Thread :
            \/ \E mode \in Mode : JoinFresh(p, t, mode) \/ JoinHeld(p, t, mode)
            \/ \E c \in Cycle : NoteRetirement(p, t, c)
            \/ Leave(p, t)

Spec == Init /\ [][Next]_vars

-----------------------------------------------------------------------------
\* The contract of the claim: whoever is inside a granted body is of the one
\* process that has the flock, and at most one of them is a writer; the others
\* asked to be let in alongside (`issue_writer`, module text of writer_claims).
OneWriter ==
    /\ \A p \in Process : Holds(p) => lock = p
    /\ \A p \in Process : \A t, u \in Thread :
            inside[p][t] = "writing" /\ inside[p][u] = "writing" => t = u

\* "Released on every exit": the flock is some running process's that is
\* inside the claim or on its way in or out, never one left behind by a failed
\* signature, a failed stamp, a miscounted holder or a death.
LockNotLeaked ==
    lock # None => /\ up[lock] = "up"
                   /\ Holds(lock) \/ step[lock] # "idle"

\* A pass holding the claim that finds its poll's reading undisturbed is right:
\* no other poller held the issue at the reading or has held it since
\* (`claim_notes.undisturbed_since`).
UndisturbedSound ==
    \A p \in Process :
        Holds(p) /\ reading[p] # None /\ UndisturbedSince(p, reading[p].at)
            => ~reading[p].disturbed

\* A note a contender reads is one the last granted hold wrote itself, whole,
\* and that hold has not stamped its release: it stands, or died, or could not
\* write the stamp (`claim_notes.noted_retirement`).
NoteIsOfTheLastHold ==
    NotedRetirement(file) # None =>
        /\ NotedRetirement(file) \in last.noted
        /\ last.ended # "stamped"

\* While a hold stands, the last note it wrote whole is what every contender
\* reads: nobody else empties or overwrites the file under it.
StandingNoteIsRead ==
    last.ended = "standing" /\ last.whole # None
        => NotedRetirement(file) = last.whole

-----------------------------------------------------------------------------
\* The threads of every process that are inside in this mode.
Holders(mode) == {h \in Process \X Thread : inside[h[1]][h[2]] = mode}

Claim == INSTANCE IssueClaim WITH
    writing <- Holders("writing"),
    beside  <- Holders("alongside"),
    told    <- NotedRetirement(file)

\* The files, locks, signatures and stamps implement the claim a poller relies
\* on: one process in at a time with one writer, and a contender told only what
\* a writer noted, from its note until the next hold or its own release.
ImplementsClaim == Claim!Spec
=============================================================================
