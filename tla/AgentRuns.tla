------------------------------ MODULE AgentRuns ------------------------------
(***************************************************************************)
(* The lifetime agent-run ledger of one issue (workflow/engine: run_circuit, *)
(* run_charge_state, run_ledger, run_limit*, run_grant*, park_watermarks): *)
(* every process the orchestrator starts is charged on the pinned comment  *)
(* first, a spent ledger parks the issue, and a human's command buys more. *)
(*                                                                         *)
(* Two things are durable and they are never written together: `record`,   *)
(* the pinned comment, and `thread`, what was said on the issue.  A tick   *)
(* works on `held`, its own copy of the record, and is gone (`Drop`) where *)
(* the process dies or a request fails.  One tick runs at a time, which is *)
(* what IssueScheduler and WriterClaims are about.                         *)
(***************************************************************************)
EXTENDS Naturals, Sequences, FiniteSets, FiniteSetsExt

CONSTANTS
    Configured, \* MAX_AGENT_RUNS_PER_ISSUE
    Counts,     \* what commands may ask for; 0 stands for every malformed one
    Launch,     \* the fingerprints of the launches handlers ask for
    MaxSaid,    \* bound: comments the humans write
    MaxRuns,    \* bound: runs charged
    None        \* the absent value

ASSUME LedgerAssumption ==
    /\ Configured \in Nat \ {0}
    /\ Counts \subseteq Nat
    /\ MaxSaid \in Nat /\ MaxRuns \in Nat
    /\ None \notin Nat /\ None \notin Launch

VARIABLES
    record,  \* the pinned comment
    held,    \* the state object of the tick that runs
    at,      \* where that tick is
    launch,  \* the launch its handler asks for
    batch,   \* the replies its resume froze
    seen,    \* how much of the thread its hold has read
    thread,  \* the issue's comments in order; a comment's id is its place
    spawned, \* history: how many processes were started
    taken    \* history: the replies a run was handed or a command answered

vars == <<record, held, at, launch, batch, seen, thread, spawned, taken>>

-----------------------------------------------------------------------------
(***************************************************************************)
(* The thread.  `of` is the count a command asks for, the comment a receipt *)
(* answers, or the reading a notice quotes: the spent count, which is the  *)
(* allowance too whenever a notice is owed.                                *)
(***************************************************************************)
Human == {"reply", "command"}
Own == {"question", "notice", "receipt"}
Comment == [kind : Human \cup Own, of : Nat]

Said(kind, of) == [kind |-> kind, of |-> of]
Places(kinds) == {i \in DOMAIN thread : thread[i].kind \in kinds}

\* Ours by the marker every post carries, where the ledger need not know it.
Marked(th) == {i \in DOMAIN th : th[i].kind \in Own}

\* The furthest place above `from` with nothing but `mine` on the way to it.
Walk(th, from, mine) ==
    Max({from} \cup {i \in from + 1 .. Len(th) : from + 1 .. i \subseteq mine})

\* How far a re-read of the thread may claim it read: that far, or no further
\* than `from` where the thread cannot be re-read.
ReadTo(th, from, mine) == {from, Walk(th, from, mine)}

Park == {"none", "question", "limit"}
Record == [used      : Nat,                   \* agent_runs_used
           allowance : Nat,                   \* agent_run_allowance in force
           phase     : {"none", "reserved", "started"},
           for       : Launch \cup {None},    \* agent_run_fingerprint
           park      : Park,                  \* awaiting_human, park_reason
           displaced : Park,                  \* agent_run_limit_displaced
           owed      : Nat \cup {None},       \* agent_run_limit_notice
           mark      : Nat,                   \* last_action_comment_id
           ours      : SUBSET Nat]            \* orchestrator_comment_ids

Fresh == [used |-> 0, allowance |-> Configured, phase |-> "none", for |-> None,
          park |-> "none", displaced |-> "none", owed |-> None, mark |-> 0,
          ours |-> {}]

\* A bounded park: what was posted is `id`, and its walk knows only the ledger's
\* ids.  The park is recorded whether or not the thread can be re-read.
Posted(r, th, id) ==
    LET known == r.ours \cup {id}
    IN  {[r EXCEPT !.ours = known, !.mark = m] : m \in ReadTo(th, r.mark, known)}

TypeOK ==
    /\ record \in Record /\ held \in Record
    /\ at \in {"idle", "handler", "charged", "running", "parked", "answers", "writes"}
    /\ launch \in Launch \cup {None}
    /\ batch \subseteq Places({"reply"})
    /\ seen \in 0 .. Len(thread)
    /\ thread \in Seq(Comment)
    /\ spawned \in Nat
    /\ taken \subseteq Places({"reply"})
    /\ record.mark <= Len(thread)
    /\ record.ours \subseteq Marked(thread)

Init ==
    /\ record = Fresh /\ held = Fresh
    /\ at = "idle" /\ launch = None /\ batch = {} /\ seen = 0
    /\ thread = <<>> /\ spawned = 0 /\ taken = {}

\* What a tick carries is dropped with it.
Ends ==
    /\ at' = "idle" /\ launch' = None /\ batch' = {} /\ seen' = 0
    /\ held' = Fresh

-----------------------------------------------------------------------------
\* A human writes a reply, or a command on a comment of its own.
Speak ==
    /\ Cardinality(Places(Human)) < MaxSaid
    /\ \E said \in {Said("reply", 0)} \cup {Said("command", n) : n \in Counts} :
            thread' = Append(thread, said)
    /\ UNCHANGED <<record, held, at, launch, batch, seen, spawned, taken>>

\* The tick is gone: its process died, or a request of its failed and every
\* road above returns without a write.  A write that landed and then raised is
\* this behind that write: nothing is merged and nothing is invoked.
Drop ==
    /\ at # "idle"
    /\ Ends
    /\ UNCHANGED <<record, thread, spawned, taken>>

\* The whole-state write a tick ends in.
Write ==
    /\ at = "writes"
    /\ record' = held
    /\ Ends
    /\ UNCHANGED <<thread, spawned, taken>>

-----------------------------------------------------------------------------
(***************************************************************************)
(* A stage handler: a fresh run, or the resume of a parked question on the *)
(* replies past the mark that are neither ours nor a bare command.         *)
(***************************************************************************)
\* Mutation: our own comments are read back as replies.
RepliesAndOurs(r) == {i \in Places({"reply"} \cup Own) : i > r.mark}

Replies(r) == {i \in Places({"reply"}) : i > r.mark}

Handle(l) ==
    /\ at = "idle"
    /\ record.park # "limit"
    /\ record.park = "question" => Replies(record) # {}
    /\ held' = record
    /\ launch' = l
    /\ batch' = IF record.park = "question" THEN Replies(record) ELSE {}
    /\ at' = "handler"
    /\ UNCHANGED <<record, seen, thread, spawned, taken>>

Pending(r, l) == r.phase = "reserved" /\ r.for = l
Spent(r) == r.allowance > 0 /\ r.used >= r.allowance

\* Mutation: the charge is not carried back to the caller's copy.
NotMerged(mine, before, after) == mine

\* The fields a charge or a park moved on the pinned comment are carried onto
\* the caller's copy, and no others.
Merged(mine, before, after) ==
    [f \in DOMAIN mine |-> IF after[f] # before[f] THEN after[f] ELSE mine[f]]

\* The circuit honors a charge this launch left standing unstarted.
Honor ==
    /\ at = "handler"
    /\ Pending(record, launch)
    /\ at' = "charged"
    /\ UNCHANGED <<record, held, launch, batch, seen, thread, spawned, taken>>

Reserve ==
    /\ at = "handler"
    /\ ~Pending(record, launch) /\ ~Spent(record)
    /\ record.used < MaxRuns
    /\ LET charged == [record EXCEPT !.used = @ + 1, !.phase = "reserved", !.for = launch]
       IN  /\ record' = charged
           /\ held' = Merged(held, record, charged)
    /\ at' = "charged"
    /\ UNCHANGED <<launch, batch, seen, thread, spawned, taken>>

\* The start is recorded, and then the process is invoked: a tick dropped
\* between the two is one that started nothing it is known to have started.
Start ==
    /\ at = "charged"
    /\ LET begun == [record EXCEPT !.phase = "started"]
       IN  /\ record' = begun
           /\ held' = Merged(held, record, begun)
    /\ at' = "running"
    /\ spawned' = spawned + 1
    /\ UNCHANGED <<launch, batch, seen, thread, taken>>

\* The park a refused launch takes, in one write with the notice it owes.
LimitPark(r) == [r EXCEPT !.displaced = r.park, !.park = "limit", !.owed = r.used]

Refuse ==
    /\ at = "handler"
    /\ ~Pending(record, launch) /\ Spent(record)
    /\ record' = LimitPark(record)
    /\ held' = Merged(held, record, LimitPark(record))
    /\ at' = "parked"
    /\ UNCHANGED <<launch, batch, seen, thread, spawned, taken>>

\* Mutation: the thread is not asked before the notice is said.
UnaskedNotices(r) == {}

\* The owed sentence on the thread past the mark, said by us.
Notices(r) ==
    {i \in DOMAIN thread : i > r.mark /\ thread[i] = Said("notice", r.owed)}

\* The refused launch says its notice; its handler was answered with a run
\* that never was and returns without a write, so the record still owes it.
Announce ==
    /\ at = "parked"
    /\ thread' = IF Notices(held) = {}
                 THEN Append(thread, Said("notice", held.owed)) ELSE thread
    /\ Ends
    /\ UNCHANGED <<record, spawned, taken>>

\* One handler may launch again: a poisoned session retried fresh.
Relaunch(l) ==
    /\ at = "running"
    /\ launch' = l
    /\ at' = "handler"
    /\ UNCHANGED <<record, held, batch, seen, thread, spawned, taken>>

\* What a run that was handed the frozen batch settles: that batch is read.
Settled(r) == [r EXCEPT !.mark = Max({@} \cup batch), !.park = "none"]

Finish ==
    /\ at = "running"
    /\ held' = Settled(held)
    /\ taken' = taken \cup batch
    /\ at' = "writes"
    /\ UNCHANGED <<record, launch, batch, seen, thread, spawned>>

\* The agent asks: the question is posted over whatever was said meanwhile.
Ask ==
    /\ at = "running"
    /\ thread' = Append(thread, Said("question", 0))
    /\ \E p \in Posted(Settled(held), thread', Len(thread')) :
            held' = [p EXCEPT !.park = "question"]
    /\ taken' = taken \cup batch
    /\ at' = "writes"
    /\ UNCHANGED <<record, launch, batch, seen, spawned>>

-----------------------------------------------------------------------------
(***************************************************************************)
(* The hold on an issue whose ledger is spent, ahead of every handler.     *)
(***************************************************************************)
\* Mutation: the obligation is left to the next write.
Unsettled(r, th, id) == Posted(r, th, id)

\* The park is read through its notice and owes it no longer.
Explained(r, th, id) == {[p EXCEPT !.owed = None] : p \in Posted(r, th, id)}

\* The notice a park still owes is found on the thread, or said now.
Replay ==
    /\ at = "idle"
    /\ record.park = "limit" /\ record.owed # None
    /\ thread' = IF Notices(record) = {}
                 THEN Append(thread, Said("notice", record.owed)) ELSE thread
    /\ LET id == IF Notices(record) = {} THEN Len(thread') ELSE Max(Notices(record))
       IN  held' \in Explained(record, thread', id)
    /\ at' = "writes"
    /\ UNCHANGED <<record, launch, batch, seen, spawned, taken>>

Unread(r, th) == r.mark + 1 .. Len(th)
Commands(r, th) == {i \in Unread(r, th) : th[i].kind = "command"}

\* The thread is read for a command, the last one of it.
ReadCommands ==
    /\ at = "idle"
    /\ record.park = "limit" /\ record.owed = None
    /\ Commands(record, thread) # {}
    /\ held' = record
    /\ seen' = Len(thread)
    /\ at' = "answers"
    /\ UNCHANGED <<record, launch, batch, thread, spawned, taken>>

Answered(r, th, c) == \E i \in Unread(r, th) : th[i] = Said("receipt", c)

\* Mutation: the command is consumed whatever was read beneath our notice.
AnsweredThroughTheBatch(r, read, now) ==
    ReadTo(now, Max({i \in Unread(r, read) : read[i].kind \in Human}), Marked(now))

\* How far an answer may move the mark: past the batch it read and, if the thread
\* can be re-read, over what we wrote behind it; from the mark itself where the
\* read begins below our notice.
AnsweredThrough(r, read, now) ==
    LET humans == {i \in Unread(r, read) : read[i].kind \in Human}
        below == \E i \in humans, j \in Unread(r, read) :
                    i < j /\ read[j].kind \in Own
    IN  ReadTo(now, IF below THEN r.mark ELSE Max(humans), Marked(now))

\* Mutation: the park is left standing for the next tick to take down.
GrantedUnderThePark(r, n) == [r EXCEPT !.allowance = r.used + n, !.owed = None]

\* The ceiling a command buys, and the park it was taken in front of put back.
Granted(r, n) ==
    [r EXCEPT !.allowance = r.used + n, !.park = r.displaced, !.displaced = "none",
              !.owed = None]

\* Replies to the park itself, which its answer consumes: none is below the
\* notice that put the question.
RepliesToThePark ==
    {i \in Places({"reply"}) :
        i <= seen /\ \A n \in Places({"notice"}) : n < i \/ n > seen}

Answer ==
    /\ at = "answers"
    /\ LET read == SubSeq(thread, 1, seen)
           c == Max(Commands(held, read))
           n == read[c].of
           now == IF Answered(held, read, c) THEN thread
                  ELSE Append(thread, Said("receipt", c))
           told(m) == [held EXCEPT
                         !.ours = @ \cup (DOMAIN now \ DOMAIN thread), !.mark = m]
       IN  /\ thread' = now
           /\ \E m \in AnsweredThrough(held, read, now) :
                held' = IF n = 0 THEN told(m) ELSE Granted(told(m), n)
           /\ taken' = taken \cup RepliesToThePark
    /\ at' = "writes"
    /\ UNCHANGED <<record, launch, batch, seen, spawned>>

-----------------------------------------------------------------------------
Next ==
    \/ Speak \/ Drop \/ Write
    \/ \E l \in Launch : Handle(l) \/ Relaunch(l)
    \/ Honor \/ Reserve \/ Start \/ Refuse \/ Announce \/ Finish \/ Ask
    \/ Replay \/ ReadCommands \/ Answer

Spec == Init /\ [][Next]_vars

\* The loop dispatches a parked issue every tick, and a tick that is not cut
\* off again and again gets through its own steps.
FairSpec ==
    /\ Spec
    /\ WF_vars(Announce)
    /\ SF_vars(Replay) /\ SF_vars(ReadCommands) /\ SF_vars(Answer) /\ SF_vars(Write)

-----------------------------------------------------------------------------
\* "Reserve and start a lifetime charge before invoking any process": what was
\* started was charged, durably, and what is charged is within the ceiling.
CeilingHolds ==
    /\ spawned <= record.used
    /\ record.used <= record.allowance

\* No write of any tick, however old the copy it was taken from, returns a run
\* or narrows what was bought ("there is nothing here that unspends anything").
NothingIsReturned ==
    [][record'.used >= record.used /\ record'.allowance >= record.allowance]_vars

\* The notice of one reading reaches the thread once, though the post and the
\* write that records it are never one operation (`_reconcile_notice`).
NoticeSaidOnce ==
    \A i, j \in Places({"notice"}) : thread[i] = thread[j] => i = j

\* So does the receipt of one command (`run_grant._said`).
ReceiptSaidOnce ==
    \A i, j \in Places({"receipt"}) : thread[i] = thread[j] => i = j

\* Nothing of ours is said twice, wherever a tick was cut off between the saying
\* and the record of it.
SaidOnce == NoticeSaidOnce /\ ReceiptSaidOnce

\* No reply is passed unread: what the mark has crossed was handed to a run that
\* was really invoked, or was a reply to the park a command answered
\* (`park_watermarks`, `_answered_through`).
NoReplyLost == \A i \in Places({"reply"}) : i <= record.mark => i \in taken

\* A limit park does not strand its own sentence (`_replay_owed_notice`).
NoticeIsSaid == record.owed # None ~> record.owed = None

\* Whether a command that satisfies `wants` is the last of `commands`.
LastAsks(commands, wants(_)) ==
    \E c \in commands : wants(thread[c].of) /\ \A d \in commands : d <= c

\* A limit park whose unread thread ends in a command that buys runs.
Bought ==
    /\ record.park = "limit"
    /\ LastAsks(Commands(record, thread), LAMBDA n : n > 0)

\* The one thing that lifts the park does lift it, however often a tick is cut
\* off between the receipt and the write, unless a later command takes the
\* request back to one that buys nothing (`_lifts_the_park`).
BoughtIsGranted ==
    Bought ~> record.park # "limit" \/ LastAsks(Places({"command"}), LAMBDA n : n = 0)

\* What the humans' commands add up to, each counted once.
Purchased == MapThenSumSet(LAMBDA i : thread[i].of, Places({"command"}))

\* "It says the same thing however often it is read ... rather than a second N
\* on top of it" (run_grant), and the notice a grant posts: "so the issue stops
\* here again once it reaches it".
EachCommandBuysOnce == spawned <= Configured + Purchased
=============================================================================
