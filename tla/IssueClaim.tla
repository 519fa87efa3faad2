----------------------------- MODULE IssueClaim -----------------------------
(***************************************************************************)
(* What the writer claim on an issue promises the pollers of a host, with  *)
(* no file, flock, signature or stamp in it: WriterClaims implements it.   *)
(***************************************************************************)
CONSTANTS
    Process,    \* the pollers
    Thread,     \* the threads of each of them
    Cycle,      \* what a hold may note
    None        \* no note

VARIABLES
    writing,    \* the <<process, thread>> inside as the issue's writer
    beside,     \* those inside alongside
    told        \* the retirement a contender is told of

vars == <<writing, beside, told>>

Inside == writing \cup beside

Init == writing = {} /\ beside = {} /\ told = None

\* The holders are of one process and one of them writes at most.  The first
\* one in starts with nothing told.
Enter(p, t) ==
    /\ <<p, t>> \notin Inside
    /\ \A h \in Inside : h[1] = p
    /\ \/ writing = {} /\ writing' = {<<p, t>>} /\ UNCHANGED beside
       \/ beside' = beside \cup {<<p, t>>} /\ UNCHANGED writing
    /\ told' = IF Inside = {} THEN None ELSE told

\* The last one out may let go of what is told in the same breath.
Leave(h) ==
    /\ h \in Inside
    /\ writing' = writing \ {h}
    /\ beside' = beside \ {h}
    /\ told' \in {told} \cup (IF Inside = {h} THEN {None} ELSE {})

\* A writer notes what it retires, which contenders are told unless the note
\* could not be written whole.
Note(c) ==
    /\ writing # {}
    /\ told' \in {c, None}
    /\ UNCHANGED <<writing, beside>>

\* What a hold left standing, its writer dead or its release unwritten, is told
\* until somebody has the claim to himself and lets go of it.
Forget ==
    /\ Inside = {}
    /\ told' = None
    /\ UNCHANGED <<writing, beside>>

\* A death takes every thread of its process out and says nothing of it.
Die(gone) ==
    /\ writing' = {h \in writing : h[1] \notin gone}
    /\ beside' = {h \in beside : h[1] \notin gone}
    /\ UNCHANGED told

Next ==
    \/ \E p \in Process, t \in Thread : Enter(p, t) \/ Leave(<<p, t>>)
    \/ \E c \in Cycle : Note(c)
    \/ Forget
    \/ \E gone \in SUBSET Process : Die(gone)

Spec == Init /\ [][Next]_vars
=============================================================================
