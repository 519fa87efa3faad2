--------------------------- MODULE AgentRunsProofs ---------------------------
(***************************************************************************)
(* The ledger for every allowance, command, launch and thread: no run is   *)
(* started unpaid, no write gives one back, no notice and no receipt is    *)
(* said twice, and no reply is passed unread.                              *)
(***************************************************************************)
EXTENDS AgentRuns, WellFoundedInduction, TLAPS

\* A record of the pinned comment, the thread it speaks of beside it.
Sane(r, th) ==
    /\ r \in Record
    /\ r.mark <= Len(th)
    /\ r.ours \subseteq Marked(th)
    /\ 0 < r.allowance /\ r.used <= r.allowance
    /\ r.park = "limit" => r.used = r.allowance
    /\ r.displaced # "limit"

\* What a tick carries is the comment itself until it has something to write, and
\* what it then writes has moved nothing back.
CopyInv ==
    /\ at \notin {"idle", "writes"} => held = record
    /\ at = "writes" => /\ held.used = record.used /\ held.phase = record.phase
                        /\ record.allowance <= held.allowance

\* A handler runs in front of no limit park, and a command is answered behind one.
CourseInv ==
    /\ at \in {"handler", "charged", "running"} => record.park # "limit"
    /\ at = "parked" => record.owed # None
    /\ at = "answers" =>
        /\ record.park = "limit" /\ record.owed = None
        /\ \E c \in record.mark + 1 .. seen : thread[c].kind = "command"
        /\ \A i \in seen + 1 .. Len(thread) : thread[i].kind \in Human

\* A reservation is of a run that was not started.
ChargeInv ==
    /\ spawned <= record.used
    /\ record.phase = "reserved" => spawned < record.used
    /\ at = "charged" => record.phase = "reserved"

\* A notice of the reading a record owes is past its mark, and one of the reading
\* it will next park on is not on the thread.
Noticed(r, th) ==
    /\ r.owed # None => r.park = "limit" /\ r.owed = r.used
    /\ \A i \in DOMAIN th : th[i].kind = "notice" =>
        /\ th[i].of <= r.allowance
        /\ r.park # "limit" => th[i].of < r.allowance
        /\ r.owed # None /\ th[i].of = r.owed => r.mark < i

\* A receipt is behind the command it answers.
ReceiptInv == \A i \in Places({"receipt"}) : thread[i].of < i

Read(r, th, handed) ==
    \A i \in DOMAIN th : th[i].kind = "reply" /\ i <= r.mark => i \in handed

\* A frozen batch has every reply between the mark and its last one.
BatchInv ==
    at \in {"handler", "charged", "running"} =>
        \A b \in batch : \A i \in Places({"reply"}) :
            record.mark < i /\ i <= b => i \in batch

\* What is true of the comment, and of what a tick is about to make it.
RecordInv == /\ Noticed(record, thread) /\ Read(record, thread, taken)
             /\ at = "writes" => Noticed(held, thread) /\ Read(held, thread, taken)

IInv ==
    /\ TypeOK /\ Sane(record, thread) /\ Sane(held, thread)
    /\ CopyInv /\ CourseInv /\ ChargeInv /\ RecordInv /\ BatchInv
    /\ NoticeSaidOnce /\ ReceiptInv /\ ReceiptSaidOnce

-----------------------------------------------------------------------------
\* The maximum of a bounded set of naturals is its largest member.
LEMMA MaxOfBounded ==
    ASSUME NEW n \in Nat, NEW S \in SUBSET (0 .. n), S # {}
    PROVE  Max(S) \in S /\ \A i \in S : i <= Max(S)
<1> DEFINE R == OpToRel(<, Nat)
           T == {n - i : i \in S}
<1>1. IsWellFoundedOn(R, Nat)
  BY NatLessThanWellFounded
<1>2. \A i \in S : i \in Nat /\ i <= n /\ n - i \in Nat
  OBVIOUS
<1>3. T \subseteq Nat /\ T # {}
  BY <1>2
<1>4. PICK x \in T : \A y \in T : ~ (<<y, x>> \in R)
  <2> HIDE DEF R, T
  <2> QED
    BY <1>1, <1>3, WFMin
<1>5. ASSUME NEW y \in T PROVE x <= y
  <2>1. x \in Nat /\ y \in Nat
    BY <1>3
  <2>2. y < x => <<y, x>> \in R
    BY <2>1 DEF OpToRel
  <2> HIDE DEF R, T
  <2> QED
    BY <1>4, <2>1, <2>2
<1>6. PICK k \in S : x = n - k
  OBVIOUS
<1>7. ASSUME NEW i \in S PROVE i <= k
  <2>1. n - k <= n - i
    BY <1>5, <1>6
  <2> QED
    BY <1>2, <2>1
<1>8. \E m \in S : \A i \in S : m >= i
  BY <1>2, <1>7
<1>9. Max(S) \in S /\ \A i \in S : Max(S) >= i
  BY <1>8 DEF Max
<1> QED
  BY <1>2, <1>9

\* A walk stops where it began or behind ground that is all of `mine`.
LEMMA WalkBounds ==
    ASSUME NEW th \in Seq(Comment), NEW from \in 0 .. Len(th), NEW mine
    PROVE  /\ Walk(th, from, mine) \in from .. Len(th)
           /\ from + 1 .. Walk(th, from, mine) \subseteq mine
<1> DEFINE S == {from} \cup {i \in from + 1 .. Len(th) : from + 1 .. i \subseteq mine}
<1>1. Len(th) \in Nat
  OBVIOUS
<1>2. S \subseteq 0 .. Len(th) /\ S # {}
  BY <1>1
<1>3. Max(S) \in S
  <2> HIDE DEF S
  <2> QED
    BY <1>1, <1>2, MaxOfBounded
<1>4. Max(S) = from \/ (Max(S) \in from + 1 .. Len(th) /\ from + 1 .. Max(S) \subseteq mine)
  BY <1>3
<1>5. Walk(th, from, mine) = Max(S)
  BY DEF Walk
<1> HIDE DEF S
<1>6. CASE Max(S) = from
  <2>1. from + 1 .. from = {}
    BY <1>1
  <2> QED
    BY <1>1, <1>5, <1>6, <2>1
<1>7. CASE Max(S) # from
  BY <1>1, <1>4, <1>5, <1>7
<1> QED
  BY <1>6, <1>7

\* So does a re-read, which may also fail and go nowhere.
LEMMA ReadToBounds ==
    ASSUME NEW th \in Seq(Comment), NEW from \in 0 .. Len(th), NEW mine,
           NEW m \in ReadTo(th, from, mine)
    PROVE  m \in from .. Len(th) /\ from + 1 .. m \subseteq mine
<1>1. CASE m = from
  <2>1. from + 1 .. m = {} /\ Len(th) \in Nat
    BY <1>1
  <2> QED
    BY <1>1, <2>1
<1>2. CASE m = Walk(th, from, mine)
  BY <1>2, WalkBounds
<1> QED
  BY <1>1, <1>2 DEF ReadTo

\* Carrying the fields a step moved onto a copy of what it moved them on gives
\* what the step wrote.
LEMMA MergedIsWritten ==
    ASSUME NEW before \in Record, NEW after \in Record
    PROVE  Merged(before, before, after) = after
<1>1. DOMAIN before = DOMAIN after /\ after = [f \in DOMAIN after |-> after[f]]
  BY DEF Record
<1>2. Merged(before, before, after) = [f \in DOMAIN after |-> after[f]]
  BY <1>1 DEF Merged
<1> QED
  BY <1>1, <1>2

-----------------------------------------------------------------------------
\* The thread only grows, by one comment at a time.
LEMMA Appended ==
    ASSUME NEW th \in Seq(Comment), NEW said \in Comment
    PROVE  /\ Append(th, said) \in Seq(Comment)
           /\ Len(th) \in Nat /\ Len(Append(th, said)) = Len(th) + 1
           /\ DOMAIN th = 1 .. Len(th) /\ DOMAIN Append(th, said) = 1 .. Len(th) + 1
           /\ \A i \in 1 .. Len(th) : Append(th, said)[i] = th[i]
           /\ Append(th, said)[Len(th) + 1] = said
OBVIOUS

LEMMA SaneGrown ==
    ASSUME NEW th \in Seq(Comment), NEW said \in Comment, NEW r, Sane(r, th)
    PROVE  Sane(r, Append(th, said))
<1>1. r.mark \in Nat
  BY DEF Sane, Record
<1>2. Marked(th) \subseteq Marked(Append(th, said))
  BY Appended DEF Marked
<1> QED
  BY <1>1, <1>2, Appended DEF Sane

\* A notice is added only to a thread whose issue is parked at its limit.
LEMMA NoticedGrown ==
    ASSUME NEW th \in Seq(Comment), NEW said \in Comment, NEW r, Sane(r, th),
           Noticed(r, th),
           said.kind = "notice" => r.park = "limit" /\ said.of <= r.allowance
    PROVE  Noticed(r, Append(th, said))
<1>1. r.mark \in Nat /\ r.mark < Len(th) + 1
  BY Appended DEF Sane, Record
<1> QED
  BY <1>1, Appended DEF Noticed

LEMMA ReadGrown ==
    ASSUME NEW th \in Seq(Comment), NEW said \in Comment, NEW r, Sane(r, th),
           NEW handed, NEW more, handed \subseteq more, Read(r, th, handed)
    PROVE  Read(r, Append(th, said), more)
<1>1. r.mark \in Nat /\ r.mark < Len(th) + 1
  BY Appended DEF Sane, Record
<1> QED
  BY <1>1, Appended DEF Read

\* What an invariant speaks of besides the types.
LEMMA Facts ==
    ASSUME IInv
    PROVE  /\ record \in Record /\ held \in Record
           /\ thread \in Seq(Comment) /\ Len(thread) \in Nat
           /\ DOMAIN thread = 1 .. Len(thread)
           /\ \A i \in 1 .. Len(thread) : thread[i] \in Comment
           /\ at \in {"idle", "handler", "charged", "running", "parked", "answers", "writes"}
           /\ record.used \in Nat /\ record.allowance \in Nat /\ record.mark \in Nat
           /\ held.used \in Nat /\ held.allowance \in Nat /\ held.mark \in Nat
           /\ spawned \in Nat /\ seen \in 0 .. Len(thread)
           /\ batch \subseteq Places({"reply"}) /\ taken \subseteq Places({"reply"})
<1>1. TypeOK
  BY DEF IInv
<1>2. record \in Record /\ held \in Record /\ thread \in Seq(Comment)
  BY <1>1 DEF TypeOK
<1> QED
  BY <1>1, <1>2 DEF TypeOK, Record

\* A step that adds nothing to the thread keeps what is true of it alone.
LEMMA ThreadKept ==
    ASSUME IInv, thread' = thread
    PROVE  NoticeSaidOnce' /\ ReceiptInv' /\ ReceiptSaidOnce'
BY DEF IInv, NoticeSaidOnce, ReceiptInv, ReceiptSaidOnce, Places

\* Nor does it touch what is true of a record that stays.
LEMMA RecordKept ==
    ASSUME thread' = thread, record' = record, taken \subseteq taken'
    PROVE  /\ Sane(record, thread) => Sane(record, thread)'
           /\ Noticed(record, thread) => Noticed(record, thread)'
           /\ Read(record, thread, taken) => Read(record, thread, taken)'
BY DEF Sane, Noticed, Read, Places, Marked

LEMMA FreshIsSane ==
    ASSUME thread' \in Seq(Comment)
    PROVE  /\ Fresh \in Record /\ Fresh.mark <= Len(thread')
           /\ (held' = Fresh => Sane(held, thread)')
<1>1. Fresh \in Record
  BY LedgerAssumption DEF Fresh, Record, Park
<1>2. Len(thread') \in Nat
  OBVIOUS
<1>3. /\ Fresh.mark = 0 /\ Fresh.ours = {} /\ Fresh.used = 0
      /\ Fresh.allowance = Configured /\ Configured \in Nat /\ Configured > 0
      /\ Fresh.park = "none" /\ Fresh.displaced = "none"
  BY LedgerAssumption DEF Fresh
<1> QED
  BY <1>1, <1>2, <1>3 DEF Sane

-----------------------------------------------------------------------------
\* The steps that add nothing to the thread.

LEMMA DropStep ==
    ASSUME IInv, Drop \/ UNCHANGED vars
    PROVE  IInv'
<1>1. CASE UNCHANGED vars
  BY <1>1 DEF vars, IInv, TypeOK, Sane, CopyInv, CourseInv, ChargeInv, RecordInv,
     BatchInv, Noticed, Read, NoticeSaidOnce, ReceiptInv, ReceiptSaidOnce, Places, Marked
<1>2. CASE Drop
  <2>1. /\ at' = "idle" /\ launch' = None /\ batch' = {} /\ seen' = 0 /\ held' = Fresh
        /\ UNCHANGED <<record, thread, spawned, taken>>
    BY <1>2 DEF Drop, Ends
  <2>2. thread' \in Seq(Comment) /\ Len(thread') \in Nat
    BY <2>1, Facts
  <2>3. Sane(record, thread)' /\ Sane(held, thread)' /\ RecordInv'
    BY <2>1, <2>2, FreshIsSane, RecordKept DEF IInv, RecordInv
  <2>4. TypeOK'
    BY <2>1, <2>2, <2>3, Facts, FreshIsSane DEF IInv, TypeOK, Sane, Places, Marked
  <2>5. CopyInv' /\ CourseInv' /\ BatchInv'
    BY <2>1 DEF CopyInv, CourseInv, BatchInv
  <2>6. ChargeInv'
    BY <2>1 DEF IInv, ChargeInv
  <2> QED
    BY <2>1, <2>3, <2>4, <2>5, <2>6, ThreadKept DEF IInv
<1> QED
  BY <1>1, <1>2
LEMMA HandleStep ==
    ASSUME IInv, NEW l \in Launch, Handle(l)
    PROVE  IInv'
<1>1. /\ record.park # "limit" /\ held' = record /\ launch' = l /\ at' = "handler"
      /\ batch' = IF record.park = "question" THEN Replies(record) ELSE {}
      /\ UNCHANGED <<record, seen, thread, spawned, taken>>
  BY DEF Handle
<1>2. Sane(record, thread)' /\ Sane(held, thread)' /\ RecordInv'
  <2>1. Sane(record, thread)' /\ Noticed(record, thread)' /\ Read(record, thread, taken)'
    BY <1>1, RecordKept DEF IInv, RecordInv
  <2> QED
    BY <1>1, <2>1 DEF RecordInv, Sane
<1>3. batch' \subseteq Places({"reply"})
  BY <1>1 DEF Replies
<1>4. TypeOK'
  BY <1>1, <1>3, Facts DEF IInv, TypeOK, Places, Marked
<1>5. CopyInv' /\ CourseInv'
  BY <1>1 DEF CopyInv, CourseInv
<1>6. BatchInv'
  BY <1>1, Facts DEF BatchInv, Replies, Places
<1>7. ChargeInv'
  BY <1>1 DEF IInv, ChargeInv
<1> QED
  BY <1>1, <1>2, <1>4, <1>5, <1>6, <1>7, ThreadKept DEF IInv

LEMMA CourseStep ==
    ASSUME IInv, Honor \/ (\E l \in Launch : Relaunch(l)) \/ ReadCommands
    PROVE  IInv'
<1>0. Sane(record, thread)' /\ Noticed(record, thread)' /\ Read(record, thread, taken)'
  BY RecordKept DEF IInv, RecordInv, Honor, Relaunch, ReadCommands
<1>1. CASE Honor \/ \E l \in Launch : Relaunch(l)
  <2>1. /\ at \in {"handler", "running"} /\ at' \in {"handler", "charged"}
        /\ at' = "charged" => record.phase = "reserved"
        /\ launch' \in Launch \cup {None}
        /\ UNCHANGED <<record, held, batch, seen, thread, spawned, taken>>
    BY <1>1 DEF Honor, Pending, Relaunch, IInv, TypeOK
  <2>2. Sane(held, thread)' /\ RecordInv'
    BY <1>0, <2>1 DEF IInv, Sane, RecordInv
  <2>3. TypeOK'
    BY <2>1, Facts DEF IInv, TypeOK, Places, Marked
  <2>4. CopyInv' /\ CourseInv' /\ ChargeInv'
    BY <2>1 DEF IInv, CopyInv, CourseInv, ChargeInv
  <2>5. BatchInv'
    BY <2>1 DEF IInv, BatchInv, Places
  <2> QED
    BY <1>0, <2>1, <2>2, <2>3, <2>4, <2>5, ThreadKept DEF IInv
<1>2. CASE ReadCommands
  <2>1. /\ record.park = "limit" /\ record.owed = None
        /\ Commands(record, thread) # {}
        /\ held' = record /\ seen' = Len(thread) /\ at' = "answers"
        /\ UNCHANGED <<record, launch, batch, thread, spawned, taken>>
    BY <1>2 DEF ReadCommands
  <2>2. Sane(held, thread)' /\ RecordInv'
    BY <1>0, <2>1 DEF Sane, RecordInv
  <2>3. TypeOK'
    BY <2>1, Facts DEF IInv, TypeOK, Places, Marked
  <2>4. CopyInv' /\ ChargeInv' /\ BatchInv'
    BY <2>1 DEF IInv, CopyInv, ChargeInv, BatchInv
  <2>5. CourseInv'
    BY <2>1, Facts DEF CourseInv, Commands, Unread
  <2> QED
    BY <1>0, <2>1, <2>2, <2>3, <2>4, <2>5, ThreadKept DEF IInv
<1> QED
  BY <1>1, <1>2

\* The write a tick ends in makes the comment what the tick carried.
LEMMA WriteStep ==
    ASSUME IInv, Write
    PROVE  IInv'
<1>1. /\ at = "writes" /\ record' = held
      /\ at' = "idle" /\ launch' = None /\ batch' = {} /\ seen' = 0 /\ held' = Fresh
      /\ UNCHANGED <<thread, spawned, taken>>
  BY DEF Write, Ends
<1>2. thread' \in Seq(Comment) /\ Len(thread') \in Nat
  BY <1>1, Facts
<1>3. Sane(record, thread)' /\ Sane(held, thread)'
  BY <1>1, <1>2, FreshIsSane DEF IInv, Sane, Marked
<1>4. RecordInv'
  BY <1>1 DEF IInv, RecordInv, Noticed, Read, Places
<1>5. TypeOK'
  BY <1>1, <1>2, <1>3, Facts, FreshIsSane DEF IInv, TypeOK, Sane, Places, Marked
<1>6. CopyInv' /\ CourseInv' /\ BatchInv'
  BY <1>1 DEF CopyInv, CourseInv, BatchInv
<1>7. ChargeInv'
  BY <1>1 DEF IInv, ChargeInv, CopyInv
<1> QED
  BY <1>1, <1>3, <1>4, <1>5, <1>6, <1>7, ThreadKept DEF IInv

-----------------------------------------------------------------------------
\* The steps of the circuit, which write the comment in the middle of a tick.

LEMMA ChargeStep ==
    ASSUME IInv, Reserve \/ Start \/ Refuse
    PROVE  IInv'
<1> DEFINE charged == [record EXCEPT !.used = @ + 1, !.phase = "reserved", !.for = launch]
           begun == [record EXCEPT !.phase = "started"]
<1>1. at \in {"handler", "charged"} /\ held = record /\ record.park # "limit"
  BY DEF IInv, CopyInv, CourseInv, Reserve, Start, Refuse
<1>2. \/ Reserve /\ ~Spent(record) /\ record' = charged
      \/ Start /\ record' = begun
      \/ Refuse /\ Spent(record) /\ record' = LimitPark(record)
  BY DEF Reserve, Start, Refuse
<1>3. /\ held' = Merged(record, record, record')
      /\ UNCHANGED <<launch, batch, seen, thread, taken>>
      /\ at' \in {"charged", "running", "parked"}
  BY <1>1, <1>2 DEF Reserve, Start, Refuse
<1>e. ~(Reserve /\ Start) /\ ~(Reserve /\ Refuse) /\ ~(Start /\ Refuse)
  BY DEF Reserve, Start, Refuse
<1>4. /\ record' \in Record /\ record'.mark = record.mark /\ record'.ours = record.ours
      /\ record'.allowance = record.allowance
      /\ record'.used = IF Reserve THEN record.used + 1 ELSE record.used
      /\ ~Refuse => /\ record'.park = record.park /\ record'.displaced = record.displaced
                    /\ record'.owed = record.owed
      /\ Refuse => /\ record'.park = "limit" /\ record'.displaced = record.park
                   /\ record'.owed = record.used /\ record'.phase = record.phase
      /\ Reserve => record'.phase = "reserved"
      /\ Start => record'.phase = "started"
  <2>0. record \in Record /\ launch \in Launch \cup {None} /\ record.used \in Nat
    BY Facts DEF IInv, TypeOK
  <2>1. CASE Reserve
    <3>1. record' = charged
      BY <1>2, <1>e, <2>1
    <3>2. record.used + 1 \in Nat
      BY <2>0
    <3> QED
      BY <1>e, <2>0, <2>1, <3>1, <3>2 DEF Record
  <2>2. CASE Start
    BY <1>2, <1>e, <2>0, <2>2 DEF Record
  <2>3. CASE Refuse
    BY <1>2, <1>e, <2>0, <2>3 DEF Record, Park, LimitPark
  <2> QED
    BY <1>2, <2>1, <2>2, <2>3
<1>5. /\ Reserve => at' = "charged" /\ spawned' = spawned
      /\ Start => at' = "running" /\ spawned' = spawned + 1
      /\ Refuse => at' = "parked" /\ spawned' = spawned
      /\ Reserve => at = "handler"
      /\ Start => at = "charged"
  BY DEF Reserve, Start, Refuse
<1>6. held' = record'
  BY <1>3, <1>4, Facts, MergedIsWritten
<1>7. /\ 0 < record.allowance /\ record.used <= record.allowance
      /\ record.mark <= Len(thread) /\ record.ours \subseteq Marked(thread)
      /\ record.displaced # "limit"
      /\ Noticed(record, thread) /\ Read(record, thread, taken) /\ record.owed = None
  BY <1>1 DEF IInv, Sane, RecordInv, Noticed
<1>8. /\ Reserve => record.used + 1 <= record.allowance
      /\ Refuse => record.used = record.allowance
  BY <1>2, <1>e, <1>7, Facts DEF Spent
<1>9. Sane(record, thread)' /\ Sane(held, thread)'
  <2>1. record'.used <= record'.allowance
    BY <1>4, <1>7, <1>8
  <2> QED
    <3>1. record'.mark <= Len(thread') /\ record'.ours \subseteq Marked(thread')
      BY <1>3, <1>4, <1>7
    <3>2. record'.park = "limit" => record'.used = record'.allowance
      <4>1. CASE Refuse
        BY <1>4, <1>8, <1>e, <4>1
      <4>2. CASE ~Refuse
        BY <1>1, <1>4, <4>2
      <4> QED
        BY <4>1, <4>2
    <3>3. record'.displaced # "limit" /\ 0 < record'.allowance
      BY <1>1, <1>4, <1>7
    <3> QED
      BY <1>4, <1>6, <2>1, <3>1, <3>2, <3>3 DEF Sane
<1>10. RecordInv'
  <2>1. Noticed(record, thread)'
    <3>1. thread' = thread
      BY <1>3
    <3>2. \A i \in DOMAIN thread :
            thread[i].kind = "notice" => thread[i].of < record.allowance
      BY <1>1, <1>7 DEF Noticed
    <3>3. \A i \in DOMAIN thread : thread[i].of \in Nat
      BY Facts DEF Comment
    <3>4. CASE Refuse
      <4>1. /\ record'.park = "limit" /\ record'.owed = record'.used
            /\ record'.owed = record.allowance /\ record'.allowance = record.allowance
        BY <1>4, <1>8, <1>e, <3>4
      <4>2. ASSUME NEW i \in DOMAIN thread, thread[i].kind = "notice"
            PROVE  thread[i].of <= record.allowance /\ thread[i].of # record.allowance
        BY <3>2, <3>3, <4>2, Facts
      <4> QED
        BY <3>1, <4>1, <4>2 DEF Noticed
    <3>5. CASE ~Refuse
      BY <1>4, <1>7, <3>1, <3>5 DEF Noticed
    <3> QED
      BY <3>4, <3>5
  <2>2. Read(record, thread, taken)'
    BY <1>3, <1>4, <1>7 DEF Read, Places
  <2> QED
    BY <1>3, <2>1, <2>2 DEF RecordInv
<1>11. ChargeInv'
  <2>1. /\ spawned <= record.used /\ (record.phase = "reserved" => spawned < record.used)
        /\ at = "charged" => record.phase = "reserved"
    BY DEF IInv, ChargeInv
  <2> QED
    BY <1>2, <1>4, <1>5, <2>1, Facts DEF ChargeInv
<1>12. CopyInv' /\ CourseInv'
  BY <1>1, <1>2, <1>3, <1>4, <1>5, <1>6, Facts, LedgerAssumption DEF CopyInv, CourseInv
<1>13. BatchInv'
  BY <1>1, <1>3, <1>4 DEF IInv, BatchInv, Places
<1>14. TypeOK'
  <2>1. spawned' \in Nat
    BY <1>2, <1>5, Facts
  <2>2. record'.mark <= Len(thread') /\ record'.ours \subseteq Marked(thread')
    BY <1>3, <1>4, <1>7
  <2> QED
    BY <1>3, <1>4, <1>6, <2>1, <2>2, Facts DEF IInv, TypeOK, Places
<1> QED
  BY <1>3, <1>9, <1>10, <1>11, <1>12, <1>13, <1>14, ThreadKept DEF IInv
-----------------------------------------------------------------------------
\* The steps that may say something.  What holds of the thread alone holds of it
\* with one more comment, if that is no second notice or receipt of its kind.
LEMMA ThreadGrown ==
    ASSUME IInv, NEW said \in Comment, thread' = Append(thread, said),
           said.kind = "notice" =>
                \A i \in 1 .. Len(thread) : thread[i] # said,
           said.kind = "receipt" =>
                /\ said.of < Len(thread) + 1
                /\ \A i \in 1 .. Len(thread) : thread[i] # said
    PROVE  NoticeSaidOnce' /\ ReceiptInv' /\ ReceiptSaidOnce'
<1>1. /\ Len(thread) \in Nat
      /\ DOMAIN thread = 1 .. Len(thread) /\ DOMAIN thread' = 1 .. Len(thread) + 1
      /\ \A i \in 1 .. Len(thread) : thread'[i] = thread[i]
      /\ thread'[Len(thread) + 1] = said
  BY Facts, Appended
<1>2. \A kind : \A i \in Places({kind})' :
        \/ i \in Places({kind}) /\ thread'[i] = thread[i] /\ i \in 1 .. Len(thread)
        \/ i = Len(thread) + 1 /\ said.kind = kind /\ thread'[i] = said
  BY <1>1 DEF Places
<1>3. NoticeSaidOnce /\ ReceiptInv /\ ReceiptSaidOnce
  BY DEF IInv
<1>o. ASSUME NEW kind, said.kind = kind => \A i \in 1 .. Len(thread) : thread[i] # said,
             \A i, j \in Places({kind}) : thread[i] = thread[j] => i = j,
             NEW i \in Places({kind})', NEW j \in Places({kind})', thread'[i] = thread'[j]
      PROVE  i = j
  <2>1. /\ \/ i \in Places({kind}) /\ thread'[i] = thread[i] /\ i \in 1 .. Len(thread)
           \/ i = Len(thread) + 1 /\ said.kind = kind /\ thread'[i] = said
        /\ \/ j \in Places({kind}) /\ thread'[j] = thread[j] /\ j \in 1 .. Len(thread)
           \/ j = Len(thread) + 1 /\ said.kind = kind /\ thread'[j] = said
    BY <1>2
  <2> QED
    BY <1>o, <2>1
<1>4. NoticeSaidOnce'
  BY <1>3, <1>o DEF NoticeSaidOnce
<1>5. ReceiptInv'
  BY <1>2, <1>3 DEF ReceiptInv
<1>6. ReceiptSaidOnce'
  BY <1>3, <1>o DEF ReceiptSaidOnce
<1> QED
  BY <1>4, <1>5, <1>6

LEMMA SpeakStep ==
    ASSUME IInv, Speak
    PROVE  IInv'
<1>1. PICK said \in {Said("reply", 0)} \cup {Said("command", n) : n \in Counts} :
        thread' = Append(thread, said)
  BY DEF Speak
<1>2. said \in Comment /\ said.kind \in Human
  BY LedgerAssumption DEF Said, Comment, Human, Own
<1>3. /\ UNCHANGED <<record, held, at, launch, batch, seen, spawned, taken>>
  BY DEF Speak
<1>4. said.kind # "notice" /\ said.kind # "receipt"
  BY <1>2 DEF Human
<1>5. /\ Len(thread) \in Nat
      /\ DOMAIN thread = 1 .. Len(thread) /\ DOMAIN thread' = 1 .. Len(thread) + 1
      /\ \A i \in 1 .. Len(thread) : thread'[i] = thread[i]
      /\ thread'[Len(thread) + 1] = said /\ Len(thread') = Len(thread) + 1
      /\ thread' \in Seq(Comment)
  BY <1>1, <1>2, Facts, Appended
<1>6. Sane(record, thread)' /\ Sane(held, thread)'
  BY <1>1, <1>2, <1>3, Facts, SaneGrown DEF IInv
<1>7. RecordInv'
  BY <1>1, <1>2, <1>3, <1>4, Facts, NoticedGrown, ReadGrown DEF IInv, RecordInv
<1>8. TypeOK'
  BY <1>3, <1>5, <1>6, Facts DEF IInv, TypeOK, Sane, Places
<1>9. CopyInv' /\ ChargeInv'
  BY <1>3 DEF IInv, CopyInv, ChargeInv
<1>10. CourseInv'
  <2>1. at = "answers" =>
            /\ record.park = "limit" /\ record.owed = None
            /\ \E c \in record.mark + 1 .. seen : thread[c].kind = "command"
            /\ \A i \in seen + 1 .. Len(thread) : thread[i].kind \in Human
    BY DEF IInv, CourseInv
  <2>2. /\ at \in {"handler", "charged", "running"} => record.park # "limit"
        /\ at = "parked" => record.owed # None
    BY DEF IInv, CourseInv
  <2>3. ASSUME at = "answers"
        PROVE  /\ \E c \in record.mark + 1 .. seen : thread'[c].kind = "command"
               /\ \A i \in seen + 1 .. Len(thread') : thread'[i].kind \in Human
    <3>1. PICK c \in record.mark + 1 .. seen : thread[c].kind = "command"
      BY <2>1, <2>3
    <3>2. /\ seen \in 0 .. Len(thread) /\ record.mark \in Nat /\ seen \in Nat
          /\ c \in 1 .. Len(thread)
      BY <3>1, Facts
    <3>3. ASSUME NEW i \in seen + 1 .. Len(thread') PROVE thread'[i].kind \in Human
      <4>1. CASE i = Len(thread) + 1
        BY <1>2, <1>5, <4>1
      <4>2. CASE i # Len(thread) + 1
        <5>1. i \in seen + 1 .. Len(thread) /\ i \in 1 .. Len(thread)
          BY <1>5, <3>2, <3>3, <4>2
        <5> QED
          BY <1>5, <2>1, <2>3, <5>1
      <4> QED
        BY <4>1, <4>2
    <3> QED
      BY <1>5, <3>1, <3>2, <3>3
  <2> QED
    BY <1>3, <2>1, <2>2, <2>3 DEF CourseInv
<1>11. BatchInv'
  <2>1. ASSUME NEW i \in Places({"reply"})', NEW b \in batch, i <= b
        PROVE  i \in Places({"reply"})
    BY <1>5, <2>1, Facts DEF Places
  <2> QED
    BY <1>3, <2>1 DEF IInv, BatchInv
<1> QED
  BY <1>1, <1>2, <1>4, <1>6, <1>7, <1>8, <1>9, <1>10, <1>11, ThreadGrown DEF IInv

-----------------------------------------------------------------------------
\* What a run that was handed its batch settles is read.
LEMMA SettledIsRead ==
    ASSUME IInv, at = "running"
    PROVE  /\ Settled(held) \in Record
           /\ Sane(Settled(held), thread) /\ Noticed(Settled(held), thread)
           /\ Read(Settled(held), thread, taken \cup batch)
           /\ Settled(held).used = record.used /\ Settled(held).phase = record.phase
           /\ Settled(held).allowance = record.allowance
           /\ Settled(held).park = "none" /\ Settled(held).owed = None
<1> DEFINE S == {record.mark} \cup batch
           m == Max(S)
<1>1. /\ held = record /\ record.park # "limit"
      /\ \A b \in batch : \A i \in Places({"reply"}) :
            record.mark < i /\ i <= b => i \in batch
  BY DEF IInv, CopyInv, CourseInv, BatchInv
<1>2. /\ S # {} /\ S \subseteq 0 .. Len(thread) /\ Len(thread) \in Nat
  BY Facts DEF IInv, Sane, Places
<1>3. m \in S /\ \A i \in S : i <= m
  <2> HIDE DEF S
  <2> QED
    BY <1>2, MaxOfBounded
<1>4. m \in 0 .. Len(thread) /\ record.mark <= m
  BY <1>2, <1>3
<1>5. Settled(held) = [record EXCEPT !.mark = m, !.park = "none"]
  <2>1. S = {held.mark} \cup batch
    BY <1>1
  <2>2. Settled(held) = [held EXCEPT !.mark = Max({held.mark} \cup batch), !.park = "none"]
    BY DEF Settled
  <2> QED
    BY <1>1, <2>1, <2>2
<1>6. m = record.mark \/ m \in batch
  BY <1>3
<1> HIDE DEF S, m
<1> DEFINE r == Settled(held)
<1>7. /\ r \in Record /\ r.mark = m /\ r.park = "none" /\ r.used = record.used
      /\ r.phase = record.phase /\ r.allowance = record.allowance /\ r.owed = record.owed
      /\ r.ours = record.ours /\ r.displaced = record.displaced
  <2>1. m \in Nat /\ record \in Record /\ "none" \in Park
    BY <1>4, Facts DEF Park
  <2>2. r = [record EXCEPT !.mark = m, !.park = "none"]
    BY <1>5
  <2> HIDE DEF r
  <2> QED
    BY <2>1, <2>2 DEF Record
<1>8. Noticed(record, thread) /\ Read(record, thread, taken) /\ Sane(record, thread)
  BY DEF IInv, RecordInv
<1> HIDE DEF r
<1>9. r.owed = None
  BY <1>1, <1>7, <1>8 DEF Noticed
<1>10. Sane(r, thread)
  BY <1>4, <1>7, <1>8, <1>2 DEF Sane
<1>11. Noticed(r, thread)
  BY <1>1, <1>7, <1>8, <1>9 DEF Noticed
<1>12. Read(r, thread, taken \cup batch)
  <2>1. SUFFICES ASSUME NEW i \in DOMAIN thread, thread[i].kind = "reply", i <= m
                 PROVE  i \in taken \cup batch
    BY <1>7 DEF Read
  <2>2. i \in Places({"reply"}) /\ i \in Nat
    BY <2>1, Facts DEF Places
  <2>3. CASE i <= record.mark
    BY <1>8, <2>1, <2>3 DEF Read
  <2>4. CASE ~ (i <= record.mark)
    <3>1. m \in batch /\ record.mark < i
      BY <1>4, <1>6, <2>1, <2>2, <2>4, Facts
    <3> QED
      BY <1>1, <2>1, <2>2, <3>1
  <2> QED
    BY <2>3, <2>4
<1> QED
  BY <1>7, <1>9, <1>10, <1>11, <1>12 DEF r

\* A bounded park passes what is ours and nothing else.
LEMMA PostedIsRead ==
    ASSUME NEW th \in Seq(Comment), NEW r, Sane(r, th), NEW id \in Marked(th),
           NEW handed, Read(r, th, handed), NEW p \in Posted(r, th, id)
    PROVE  /\ p \in Record
           /\ p.used = r.used /\ p.phase = r.phase /\ p.allowance = r.allowance
           /\ p.park = r.park /\ p.displaced = r.displaced /\ p.owed = r.owed
           /\ p.mark \in r.mark .. Len(th) /\ p.ours = r.ours \cup {id}
           /\ Read(p, th, handed)
<1> DEFINE known == r.ours \cup {id}
<1>1. /\ r \in Record /\ r.mark \in Nat /\ r.mark <= Len(th) /\ Len(th) \in Nat
      /\ r.ours \subseteq Marked(th)
  BY DEF Sane, Record
<1>2. known \subseteq Marked(th) /\ known \subseteq Nat
  BY <1>1 DEF Marked
<1>4. PICK m \in ReadTo(th, r.mark, known) : p = [r EXCEPT !.ours = known, !.mark = m]
  BY DEF Posted
<1>3. m \in r.mark .. Len(th) /\ r.mark + 1 .. m \subseteq known
  <2> HIDE DEF known
  <2> QED
    BY <1>1, ReadToBounds
<1> HIDE DEF known
<1>5. /\ p \in Record /\ p.mark = m /\ p.ours = known
      /\ p.used = r.used /\ p.phase = r.phase /\ p.allowance = r.allowance
      /\ p.park = r.park /\ p.displaced = r.displaced /\ p.owed = r.owed
  <2>1. m \in Nat /\ known \in SUBSET Nat /\ r \in Record
    BY <1>1, <1>2, <1>3
  <2> QED
    BY <1>4, <2>1 DEF Record
<1>6. Read(p, th, handed)
  <2>1. SUFFICES ASSUME NEW i \in DOMAIN th, th[i].kind = "reply", i <= m
                 PROVE  i \in handed
    BY <1>5 DEF Read
  <2>2. i \notin known
    BY <1>2, <2>1 DEF Marked, Own
  <2>3. i \in Nat
    BY <2>1
  <2>4. i <= r.mark
    BY <1>1, <1>3, <2>1, <2>2, <2>3
  <2> QED
    BY <2>1, <2>4 DEF Read
<1> QED
  BY <1>3, <1>5, <1>6 DEF known

\* The write that follows is of a copy that has moved nothing back: what an action
\* that leaves one has to show of it.
LEMMA WritesNext ==
    ASSUME IInv, at' = "writes", record' = record, launch' = launch, batch' = batch,
           seen' = seen, spawned' = spawned, taken \subseteq taken',
           thread' \in Seq(Comment), Sane(record, thread)', Sane(held, thread)',
           Noticed(record, thread)', Read(record, thread, taken)',
           Noticed(held, thread)', Read(held, thread, taken)',
           held'.used = record.used, held'.phase = record.phase,
           record.allowance <= held'.allowance,
           Places({"reply"})' = Places({"reply"}),
           taken' \subseteq Places({"reply"}), Len(thread) <= Len(thread'),
           NoticeSaidOnce', ReceiptInv', ReceiptSaidOnce'
    PROVE  IInv'
<1>1. RecordInv'
  BY DEF RecordInv
<1>2. CopyInv' /\ CourseInv' /\ BatchInv'
  BY DEF CopyInv, CourseInv, BatchInv
<1>3. ChargeInv'
  BY DEF IInv, ChargeInv
<1>4. Len(thread) \in Nat /\ Len(thread') \in Nat /\ seen' \in 0 .. Len(thread')
  BY Facts
<1>5. TypeOK'
  BY <1>4, Facts DEF IInv, TypeOK, Sane
<1> QED
  BY <1>1, <1>2, <1>3, <1>5 DEF IInv

LEMMA FinishStep ==
    ASSUME IInv, Finish
    PROVE  IInv'
<1>1. /\ at = "running" /\ at' = "writes" /\ held' = Settled(held)
      /\ taken' = taken \cup batch
      /\ UNCHANGED <<record, launch, batch, seen, thread, spawned>>
  BY DEF Finish
<1>2. Sane(record, thread)' /\ Noticed(record, thread)' /\ Read(record, thread, taken)'
  BY <1>1, RecordKept DEF IInv, RecordInv
<1>3. Sane(held, thread)' /\ Noticed(held, thread)' /\ Read(held, thread, taken)'
  BY <1>1, SettledIsRead DEF Sane, Noticed, Read, Marked
<1>4. /\ held'.used = record.used /\ held'.phase = record.phase
      /\ record.allowance <= held'.allowance
  BY <1>1, SettledIsRead, Facts
<1>5. Places({"reply"})' = Places({"reply"}) /\ taken' \subseteq Places({"reply"})
  BY <1>1, Facts DEF Places
<1> QED
  BY <1>1, <1>2, <1>3, <1>4, <1>5, Facts, ThreadKept, WritesNext

LEMMA AskStep ==
    ASSUME IInv, Ask
    PROVE  IInv'
<1> DEFINE said == Said("question", 0)
           q == Settled(held)
<1>0. PICK p \in Posted(q, thread', Len(thread')) : held' = [p EXCEPT !.park = "question"]
  BY DEF Ask
<1>1. /\ at = "running" /\ at' = "writes" /\ thread' = Append(thread, said)
      /\ taken' = taken \cup batch
      /\ UNCHANGED <<record, launch, batch, seen, spawned>>
  BY DEF Ask
<1>2. said \in Comment /\ said.kind = "question"
  BY DEF Said, Comment, Human, Own
<1>3. /\ q \in Record /\ Sane(q, thread) /\ Noticed(q, thread)
      /\ Read(q, thread, taken \cup batch)
      /\ q.used = record.used /\ q.phase = record.phase /\ q.allowance = record.allowance
      /\ q.park = "none" /\ q.owed = None
  BY <1>1, SettledIsRead
<1> HIDE DEF said, q
<1>4. /\ Len(thread) \in Nat
      /\ DOMAIN thread = 1 .. Len(thread) /\ DOMAIN thread' = 1 .. Len(thread) + 1
      /\ \A i \in 1 .. Len(thread) : thread'[i] = thread[i]
      /\ thread'[Len(thread) + 1] = said /\ Len(thread') = Len(thread) + 1
      /\ thread' \in Seq(Comment)
  BY <1>1, <1>2, Facts, Appended
<1>5. /\ Sane(q, thread') /\ Noticed(q, thread') /\ Read(q, thread', taken')
      /\ Sane(record, thread)' /\ Noticed(record, thread)' /\ Read(record, thread, taken)'
  BY <1>1, <1>2, <1>3, Facts, SaneGrown, NoticedGrown, ReadGrown DEF IInv, RecordInv
<1>6. Len(thread') \in Marked(thread')
  BY <1>2, <1>4 DEF Marked, Own
<1>7. /\ p \in Record /\ p.used = q.used /\ p.phase = q.phase
      /\ p.allowance = q.allowance /\ p.displaced = q.displaced /\ p.owed = q.owed
      /\ p.mark \in q.mark .. Len(thread') /\ p.ours = q.ours \cup {Len(thread')}
      /\ Read(p, thread', taken')
  BY <1>4, <1>5, <1>6, PostedIsRead
<1>8. /\ held' \in Record /\ held'.park = "question" /\ held'.used = record.used
      /\ held'.phase = record.phase /\ held'.allowance = record.allowance
      /\ held'.displaced = q.displaced /\ held'.owed = None
      /\ held'.mark = p.mark /\ held'.ours = p.ours
  BY <1>0, <1>3, <1>7 DEF Record, Park
<1>9. Sane(held, thread)' /\ Noticed(held, thread)' /\ Read(held, thread, taken)'
  <2>1. Sane(held', thread')
    BY <1>3, <1>4, <1>5, <1>6, <1>7, <1>8 DEF Sane
  <2>2. Noticed(held', thread')
    BY <1>3, <1>5, <1>8 DEF Noticed
  <2>3. Read(held', thread', taken')
    BY <1>7, <1>8 DEF Read
  <2> QED
    BY <2>1, <2>2, <2>3
<1>10. Places({"reply"})' = Places({"reply"}) /\ taken' \subseteq Places({"reply"})
  <2>1. Places({"reply"})' = Places({"reply"})
    BY <1>2, <1>4 DEF Places
  <2> QED
    BY <1>1, <2>1, Facts
<1>11. NoticeSaidOnce' /\ ReceiptInv' /\ ReceiptSaidOnce'
  BY <1>1, <1>2, ThreadGrown
<1>12. /\ held'.used = record.used /\ record.allowance <= held'.allowance
       /\ Len(thread) <= Len(thread')
  BY <1>4, <1>8, Facts
<1> QED
  BY <1>1, <1>4, <1>5, <1>8, <1>9, <1>10, <1>11, <1>12, Facts, WritesNext

-----------------------------------------------------------------------------
\* A notice no search past the mark finds is on the thread nowhere.
LEMMA NoticeIsNew ==
    ASSUME IInv, record.owed # None
    PROVE  LET said == Said("notice", record.owed)
           IN  /\ said \in Comment /\ said.kind = "notice"
               /\ record.park = "limit" /\ said.of <= record.allowance
               /\ Notices(record) = {} => \A i \in 1 .. Len(thread) : thread[i] # said
<1> DEFINE said == Said("notice", record.owed)
<1>1. /\ record.park = "limit" /\ record.owed = record.used
      /\ \A i \in DOMAIN thread : thread[i].kind = "notice" /\ thread[i].of = record.owed
            => record.mark < i
  BY DEF IInv, RecordInv, Noticed
<1>2. record.used <= record.allowance
  BY DEF IInv, Sane
<1>3. said \in Comment /\ said.kind = "notice" /\ said.of = record.owed
  BY <1>1, Facts DEF Said, Comment, Human, Own
<1>4. ASSUME Notices(record) = {}, NEW i \in 1 .. Len(thread), thread[i] = said
      PROVE  FALSE
  <2>1. i \in DOMAIN thread /\ record.mark < i
    BY <1>1, <1>3, <1>4, Facts
  <2>2. i \in Notices(record)
    BY <1>4, <2>1, Facts DEF Notices
  <2> QED
    BY <1>4, <2>2
<1> QED
  BY <1>1, <1>2, <1>3, <1>4

\* What the thread is once the owed notice was found on it or said.
LEMMA NoticeStands ==
    ASSUME IInv, record.owed # None,
           thread' = IF Notices(record) = {}
                     THEN Append(thread, Said("notice", record.owed)) ELSE thread
    PROVE  /\ thread' \in Seq(Comment) /\ Len(thread') \in Nat
           /\ Len(thread) <= Len(thread')
           /\ Places({"reply"})' = Places({"reply"})
           /\ Sane(record, thread') /\ Noticed(record, thread')
           /\ Read(record, thread', taken)
           /\ Notices(record) = {} => Len(thread') \in Marked(thread')
           /\ NoticeSaidOnce' /\ ReceiptInv' /\ ReceiptSaidOnce'
<1> DEFINE said == Said("notice", record.owed)
<1>1. /\ said \in Comment /\ said.kind = "notice"
      /\ record.park = "limit" /\ said.of <= record.allowance
      /\ Notices(record) = {} => \A i \in 1 .. Len(thread) : thread[i] # said
  BY NoticeIsNew
<1>2. Sane(record, thread) /\ Noticed(record, thread) /\ Read(record, thread, taken)
  BY DEF IInv, RecordInv
<1> HIDE DEF said
<1>3. CASE Notices(record) # {}
  <2>1. thread' = thread
    BY <1>3
  <2>2. Places({"reply"})' = Places({"reply"})
    BY <2>1 DEF Places
  <2>3. NoticeSaidOnce' /\ ReceiptInv' /\ ReceiptSaidOnce'
    BY <2>1, ThreadKept
  <2>4. Sane(record, thread') /\ Noticed(record, thread') /\ Read(record, thread', taken)
    BY <1>2, <2>1
  <2>5. thread \in Seq(Comment) /\ Len(thread) \in Nat /\ Len(thread) <= Len(thread)
    BY Facts
  <2>6. thread' \in Seq(Comment) /\ Len(thread') \in Nat /\ Len(thread) <= Len(thread')
    BY <2>1, <2>5, Zenon
  <2> QED
    BY <1>3, <2>2, <2>3, <2>4, <2>6
<1>4. CASE Notices(record) = {}
  <2>1. thread' = Append(thread, said)
    BY <1>4 DEF said
  <2>2. /\ Len(thread) \in Nat
        /\ DOMAIN thread = 1 .. Len(thread) /\ DOMAIN thread' = 1 .. Len(thread) + 1
        /\ \A i \in 1 .. Len(thread) : thread'[i] = thread[i]
        /\ thread'[Len(thread) + 1] = said /\ Len(thread') = Len(thread) + 1
        /\ thread' \in Seq(Comment)
    BY <2>1, <1>1, Facts, Appended
  <2>3. Sane(record, thread') /\ Noticed(record, thread') /\ Read(record, thread', taken)
    BY <1>1, <1>2, <2>1, Facts, SaneGrown, NoticedGrown, ReadGrown
  <2>4. Len(thread') \in Marked(thread')
    BY <1>1, <2>2 DEF Marked, Own
  <2>5. Places({"reply"})' = Places({"reply"})
    BY <1>1, <2>2 DEF Places
  <2>6. NoticeSaidOnce' /\ ReceiptInv' /\ ReceiptSaidOnce'
    BY <1>1, <1>4, <2>1, ThreadGrown
  <2> QED
    BY <2>2, <2>3, <2>4, <2>5, <2>6
<1> QED
  BY <1>3, <1>4

LEMMA AnnounceStep ==
    ASSUME IInv, Announce
    PROVE  IInv'
<1>1. /\ at = "parked" /\ held = record /\ record.owed # None
  BY DEF IInv, CopyInv, CourseInv, Announce
<1>2. /\ thread' = IF Notices(record) = {}
                   THEN Append(thread, Said("notice", record.owed)) ELSE thread
      /\ at' = "idle" /\ launch' = None /\ batch' = {} /\ seen' = 0 /\ held' = Fresh
      /\ UNCHANGED <<record, spawned, taken>>
  BY <1>1 DEF Announce, Ends
<1>3. /\ thread' \in Seq(Comment) /\ Len(thread') \in Nat
      /\ Places({"reply"})' = Places({"reply"})
      /\ Sane(record, thread)' /\ Noticed(record, thread)' /\ Read(record, thread, taken)'
      /\ NoticeSaidOnce' /\ ReceiptInv' /\ ReceiptSaidOnce'
  BY <1>1, <1>2, NoticeStands
<1>4. Sane(held, thread)'
  BY <1>2, <1>3, FreshIsSane
<1>5. TypeOK'
  BY <1>2, <1>3, <1>4, Facts DEF TypeOK, Sane
<1>6. CopyInv' /\ CourseInv' /\ BatchInv' /\ RecordInv' /\ ChargeInv'
  BY <1>2, <1>3 DEF IInv, CopyInv, CourseInv, BatchInv, RecordInv, ChargeInv
<1> QED
  BY <1>3, <1>4, <1>5, <1>6 DEF IInv

LEMMA ReplayStep ==
    ASSUME IInv, Replay
    PROVE  IInv'
<1> DEFINE id == IF Notices(record) = {} THEN Len(thread') ELSE Max(Notices(record))
<1>0. PICK p \in Posted(record, thread', id) : held' = [p EXCEPT !.owed = None]
  BY DEF Replay, Explained
<1>1. /\ record.owed # None /\ record.park = "limit"
      /\ thread' = IF Notices(record) = {}
                   THEN Append(thread, Said("notice", record.owed)) ELSE thread
      /\ at' = "writes"
      /\ UNCHANGED <<record, launch, batch, seen, spawned, taken>>
  BY DEF Replay
<1>2. /\ thread' \in Seq(Comment) /\ Len(thread') \in Nat /\ Len(thread) <= Len(thread')
      /\ Places({"reply"})' = Places({"reply"})
      /\ Sane(record, thread') /\ Noticed(record, thread') /\ Read(record, thread', taken)
      /\ Notices(record) = {} => Len(thread') \in Marked(thread')
      /\ NoticeSaidOnce' /\ ReceiptInv' /\ ReceiptSaidOnce'
  BY <1>1, NoticeStands
<1>3. id \in Marked(thread')
  <2>1. CASE Notices(record) = {}
    BY <1>2, <2>1
  <2>2. CASE Notices(record) # {}
    <3>1. Notices(record) \subseteq 0 .. Len(thread) /\ Len(thread) \in Nat
      BY Facts DEF Notices
    <3>2. Max(Notices(record)) \in Notices(record)
      BY <2>2, <3>1, MaxOfBounded
    <3> QED
      <4>1. thread' = thread /\ id = Max(Notices(record))
        BY <1>1, <2>2
      <4>2. id \in DOMAIN thread /\ thread[id] = Said("notice", record.owed)
        BY <3>2, <4>1 DEF Notices
      <4> HIDE DEF id
      <4> QED
        BY <4>1, <4>2 DEF Marked, Own, Said
  <2> QED
    BY <2>1, <2>2
<1> HIDE DEF id
<1>4. /\ p \in Record /\ p.used = record.used /\ p.phase = record.phase
      /\ p.allowance = record.allowance /\ p.park = record.park
      /\ p.displaced = record.displaced
      /\ p.mark \in record.mark .. Len(thread') /\ p.ours = record.ours \cup {id}
      /\ Read(p, thread', taken)
  BY <1>2, <1>3, PostedIsRead
<1>5. /\ held' \in Record /\ held'.park = record.park /\ held'.used = record.used
      /\ held'.phase = record.phase /\ held'.allowance = record.allowance
      /\ held'.displaced = record.displaced /\ held'.owed = None
      /\ held'.mark = p.mark /\ held'.ours = p.ours
  BY <1>0, <1>4 DEF Record
<1>6. Sane(held', thread')
  BY <1>2, <1>3, <1>4, <1>5 DEF Sane
<1>7. Noticed(held', thread')
  BY <1>1, <1>2, <1>5 DEF Noticed
<1>8. Read(held', thread', taken')
  BY <1>1, <1>4, <1>5 DEF Read
<1>9. taken' \subseteq Places({"reply"}) /\ record.allowance <= held'.allowance
  BY <1>1, <1>5, Facts
<1> QED
  BY <1>1, <1>2, <1>5, <1>6, <1>7, <1>8, <1>9, Facts, WritesNext

-----------------------------------------------------------------------------
\* What a tick that answers its last command was shown.
LEMMA AnswerReads ==
    ASSUME IInv, at = "answers", NEW read, read = SubSeq(thread, 1, seen),
           NEW c, c = Max(Commands(record, read))
    PROVE  /\ record.park = "limit" /\ record.owed = None /\ held = record
           /\ read \in Seq(Comment) /\ Len(read) = seen /\ seen \in Nat
           /\ \A i \in 1 .. seen : read[i] = thread[i]
           /\ c \in record.mark + 1 .. seen /\ thread[c].kind = "command"
           /\ \A i \in seen + 1 .. Len(thread) : thread[i].kind \in Human
<1>1. /\ held = record /\ record.park = "limit" /\ record.owed = None
      /\ \E k \in record.mark + 1 .. seen : thread[k].kind = "command"
      /\ \A i \in seen + 1 .. Len(thread) : thread[i].kind \in Human
  BY DEF IInv, CopyInv, CourseInv
<1>2. seen \in 0 .. Len(thread) /\ seen \in Nat /\ record.mark \in Nat
  BY Facts
<1>3. /\ read \in Seq(Comment) /\ Len(read) = seen
      /\ \A i \in 1 .. seen : read[i] = thread[i]
  BY <1>2, Facts
<1>4. Commands(record, read) \subseteq 0 .. seen
  BY <1>2, <1>3 DEF Commands, Unread
<1>5. Commands(record, read) # {}
  <2>1. PICK k \in record.mark + 1 .. seen : thread[k].kind = "command"
    BY <1>1
  <2>2. k \in 1 .. seen
    BY <1>2
  <2>3. k \in Commands(record, read)
    BY <1>3, <2>1, <2>2 DEF Commands, Unread
  <2> QED
    BY <2>3
<1>6. c \in Commands(record, read)
  BY <1>2, <1>4, <1>5, MaxOfBounded
<1>7. c \in record.mark + 1 .. seen /\ read[c].kind = "command"
  BY <1>3, <1>6 DEF Commands, Unread
<1>8. c \in 1 .. seen
  BY <1>2, <1>7
<1> QED
  BY <1>1, <1>2, <1>3, <1>7, <1>8

\* A receipt the thread past the mark does not show is on it nowhere.
LEMMA ReceiptIsNew ==
    ASSUME IInv, at = "answers", NEW read, read = SubSeq(thread, 1, seen),
           NEW c, c = Max(Commands(record, read)), ~ Answered(record, read, c)
    PROVE  \A i \in 1 .. Len(thread) : thread[i] # Said("receipt", c)
<1>1. /\ Len(read) = seen /\ seen \in Nat /\ record.mark \in Nat
      /\ \A i \in 1 .. seen : read[i] = thread[i]
      /\ c \in record.mark + 1 .. seen
      /\ \A i \in seen + 1 .. Len(thread) : thread[i].kind \in Human
  BY AnswerReads, Facts
<1>2. SUFFICES ASSUME NEW i \in 1 .. Len(thread), thread[i] = Said("receipt", c)
               PROVE  FALSE
  OBVIOUS
<1>3. thread[i].kind = "receipt" /\ thread[i].of = c
  BY <1>2 DEF Said
<1>4. c < i
  BY <1>2, <1>3, Facts DEF IInv, ReceiptInv, Places
<1>5. i \in 1 .. seen
  <2>1. CASE i \in seen + 1 .. Len(thread)
    <3>1. thread[i].kind \in Human
      BY <1>1, <2>1
    <3> QED
      BY <1>3, <3>1 DEF Human
  <2>2. Len(thread) \in Nat /\ (i \notin seen + 1 .. Len(thread) => i \in 1 .. seen)
    BY <1>1, <1>2, Facts
  <2> QED
    BY <2>1, <2>2
<1>6. i \in Unread(record, read) /\ read[i] = Said("receipt", c)
  BY <1>1, <1>2, <1>4, <1>5 DEF Unread
<1> QED
  BY <1>6 DEF Answered

\* Where an answer leaves the mark, nothing below it was a reply a run still owes
\* a reading: past the old mark it is ours, or a reply to the park.
LEMMA AnswerPasses ==
    ASSUME IInv, at = "answers", NEW read, read = SubSeq(thread, 1, seen),
           NEW now \in Seq(Comment), Len(thread) <= Len(now),
           \A i \in 1 .. Len(thread) : now[i] = thread[i],
           \A i \in Len(thread) + 1 .. Len(now) : now[i].kind = "receipt",
           NEW m \in AnsweredThrough(record, read, now)
    PROVE  /\ m \in record.mark .. Len(now)
           /\ \A i \in DOMAIN now : now[i].kind = "reply" /\ i <= m
                => i \in taken \cup RepliesToThePark
<1> DEFINE c == Max(Commands(record, read))
           humans == {i \in Unread(record, read) : read[i].kind \in Human}
           below == \E i \in humans, j \in Unread(record, read) :
                        i < j /\ read[j].kind \in Own
           from == IF below THEN record.mark ELSE Max(humans)
<1>1. /\ Len(read) = seen /\ seen \in Nat /\ record.mark \in Nat
      /\ \A i \in 1 .. seen : read[i] = thread[i]
      /\ c \in record.mark + 1 .. seen /\ thread[c].kind = "command"
      /\ seen \in 0 .. Len(thread) /\ Len(thread) \in Nat /\ Len(now) \in Nat
  <2> HIDE DEF c
  <2>1. c = Max(Commands(record, read))
    BY DEF c
  <2>2. /\ Len(read) = seen /\ seen \in Nat
        /\ \A i \in 1 .. seen : read[i] = thread[i]
        /\ c \in record.mark + 1 .. seen /\ thread[c].kind = "command"
    BY <2>1, AnswerReads
  <2> QED
    BY <2>2, Facts
<1> HIDE DEF c
<1>2. Unread(record, read) = record.mark + 1 .. seen
  BY <1>1 DEF Unread
<1>3. humans \subseteq 0 .. seen /\ c \in humans
  BY <1>1, <1>2 DEF Human
<1>4. Max(humans) \in humans /\ \A i \in humans : i <= Max(humans)
  <2> HIDE DEF humans
  <2> QED
    BY <1>1, <1>3, MaxOfBounded
<1>5. Max(humans) \in record.mark + 1 .. seen
  BY <1>2, <1>4
<1>6. from \in 0 .. Len(now) /\ record.mark <= from
  <2> HIDE DEF humans, below
  <2> QED
    BY <1>1, <1>5
<1>7. m \in from .. Len(now) /\ from + 1 .. m \subseteq Marked(now)
  <2>1. m \in ReadTo(now, from, Marked(now))
    BY DEF AnsweredThrough
  <2> HIDE DEF from
  <2> QED
    BY <1>6, <2>1, ReadToBounds
<1>9. ASSUME NEW i \in DOMAIN now, now[i].kind = "reply", i <= m
      PROVE  i \in taken \cup RepliesToThePark
  <2>1. i \in Nat /\ i \notin Marked(now) /\ i \in 1 .. Len(now)
    BY <1>9, <1>1 DEF Marked, Own
  <2>2. i <= from
    <3> HIDE DEF from
    <3> QED
      BY <1>6, <1>7, <1>9, <2>1
  <2>3. i <= Len(thread) /\ thread[i].kind = "reply"
    BY <1>1, <1>9, <2>1
  <2>4. i \in Places({"reply"})
    BY <2>1, <2>3, Facts DEF Places
  <2>5. CASE i <= record.mark
    BY <2>3, <2>1, <2>5, Facts DEF IInv, RecordInv, Read
  <2>6. CASE ~ (i <= record.mark)
    <3>1. ~ below /\ i <= seen
      <4> HIDE DEF below, humans
      <4> QED
        BY <1>1, <1>5, <2>1, <2>2, <2>6
    <3>2. i \in humans
      BY <1>1, <1>2, <2>1, <2>3, <2>6, <3>1 DEF Human
    <3>3. ASSUME NEW n \in Places({"notice"}), ~ (n < i \/ n > seen)
          PROVE  FALSE
      <4>1. n \in 1 .. Len(thread) /\ thread[n].kind = "notice"
        BY <3>3, Facts DEF Places
      <4>2. n # i /\ i < n /\ n \in 1 .. seen
        BY <1>1, <2>1, <2>3, <3>3, <4>1
      <4>3. n \in Unread(record, read) /\ read[n].kind \in Own
        BY <1>1, <1>2, <2>1, <2>6, <4>1, <4>2 DEF Own
      <4> QED
        BY <3>1, <3>2, <4>2, <4>3
    <3> QED
      BY <2>4, <3>1, <3>3 DEF RepliesToThePark
  <2> QED
    BY <2>5, <2>6
<1>10. m \in record.mark .. Len(now)
  <2> HIDE DEF from
  <2> QED
    BY <1>1, <1>6, <1>7
<1> QED
  BY <1>9, <1>10

\* The thread once its last command has its receipt.
LEMMA ReceiptStands ==
    ASSUME IInv, at = "answers", NEW read, read = SubSeq(thread, 1, seen),
           NEW c, c = Max(Commands(record, read)),
           thread' = IF Answered(record, read, c) THEN thread
                     ELSE Append(thread, Said("receipt", c))
    PROVE  /\ thread' \in Seq(Comment) /\ Len(thread') \in Nat
           /\ Len(thread) <= Len(thread')
           /\ \A i \in 1 .. Len(thread) : thread'[i] = thread[i]
           /\ \A i \in Len(thread) + 1 .. Len(thread') : thread'[i].kind = "receipt"
           /\ DOMAIN thread' \ DOMAIN thread \subseteq Marked(thread')
           /\ Places({"reply"})' = Places({"reply"})
           /\ Sane(record, thread') /\ Noticed(record, thread')
           /\ Read(record, thread', taken)
           /\ NoticeSaidOnce' /\ ReceiptInv' /\ ReceiptSaidOnce'
<1> DEFINE said == Said("receipt", c)
<1>1. c \in record.mark + 1 .. seen
  BY AnswerReads
<1>2. c \in Nat /\ c < Len(thread) + 1
  BY <1>1, Facts
<1>3. said \in Comment /\ said.kind = "receipt" /\ said.of = c
  BY <1>2 DEF Said, Comment, Human, Own
<1>4. Sane(record, thread) /\ Noticed(record, thread) /\ Read(record, thread, taken)
  BY DEF IInv, RecordInv
<1>5. ~ Answered(record, read, c) => \A i \in 1 .. Len(thread) : thread[i] # said
  BY ReceiptIsNew
<1> HIDE DEF said
<1>6. CASE Answered(record, read, c)
  <2>1. thread' = thread
    BY <1>6
  <2>2. Places({"reply"})' = Places({"reply"})
    BY <2>1 DEF Places
  <2>3. NoticeSaidOnce' /\ ReceiptInv' /\ ReceiptSaidOnce'
    BY <2>1, ThreadKept
  <2>4. Sane(record, thread') /\ Noticed(record, thread') /\ Read(record, thread', taken)
    BY <1>4, <2>1
  <2>5. /\ thread \in Seq(Comment) /\ Len(thread) \in Nat /\ Len(thread) <= Len(thread)
        /\ \A i \in Len(thread) + 1 .. Len(thread) : thread[i].kind = "receipt"
        /\ \A i \in 1 .. Len(thread) : thread[i] = thread[i]
        /\ DOMAIN thread \ DOMAIN thread \subseteq Marked(thread)
    BY Facts
  <2>6. /\ thread' \in Seq(Comment) /\ Len(thread') \in Nat /\ Len(thread) <= Len(thread')
        /\ \A i \in Len(thread) + 1 .. Len(thread') : thread'[i].kind = "receipt"
        /\ \A i \in 1 .. Len(thread) : thread'[i] = thread[i]
        /\ DOMAIN thread' \ DOMAIN thread \subseteq Marked(thread')
    BY <2>1, <2>5, Zenon
  <2> QED
    BY <2>2, <2>3, <2>4, <2>6
<1>7. CASE ~ Answered(record, read, c)
  <2>1. thread' = Append(thread, said)
    BY <1>7 DEF said
  <2>2. /\ Len(thread) \in Nat
        /\ DOMAIN thread = 1 .. Len(thread) /\ DOMAIN thread' = 1 .. Len(thread) + 1
        /\ \A i \in 1 .. Len(thread) : thread'[i] = thread[i]
        /\ thread'[Len(thread) + 1] = said /\ Len(thread') = Len(thread) + 1
        /\ thread' \in Seq(Comment)
    BY <2>1, <1>3, Facts, Appended
  <2>3. Sane(record, thread') /\ Noticed(record, thread') /\ Read(record, thread', taken)
    BY <1>3, <1>4, <2>1, Facts, SaneGrown, NoticedGrown, ReadGrown
  <2>4. /\ \A i \in Len(thread) + 1 .. Len(thread') : thread'[i].kind = "receipt"
        /\ DOMAIN thread' \ DOMAIN thread \subseteq Marked(thread')
    BY <1>3, <2>2 DEF Marked, Own
  <2>5. Places({"reply"})' = Places({"reply"})
    BY <1>3, <2>2 DEF Places
  <2>6. NoticeSaidOnce' /\ ReceiptInv' /\ ReceiptSaidOnce'
    BY <1>2, <1>3, <1>5, <1>7, <2>1, ThreadGrown
  <2> QED
    BY <2>2, <2>3, <2>4, <2>5, <2>6
<1> QED
  BY <1>6, <1>7

LEMMA AnswerStep ==
    ASSUME IInv, Answer
    PROVE  IInv'
<1> DEFINE read == SubSeq(thread, 1, seen)
           c == Max(Commands(held, read))
           n == read[c].of
           now == IF Answered(held, read, c) THEN thread
                  ELSE Append(thread, Said("receipt", c))
           ids == record.ours \cup (DOMAIN thread' \ DOMAIN thread)
<1>0. PICK m \in AnsweredThrough(held, read, now) :
        LET told == [held EXCEPT
                       !.ours = @ \cup (DOMAIN now \ DOMAIN thread), !.mark = m]
        IN  held' = IF n = 0 THEN told ELSE Granted(told, n)
  BY DEF Answer
<1> DEFINE told == [record EXCEPT !.ours = ids, !.mark = m]
<1>1. /\ at = "answers" /\ at' = "writes" /\ thread' = now
      /\ taken' = taken \cup RepliesToThePark
      /\ UNCHANGED <<record, launch, batch, seen, spawned>>
  BY DEF Answer
<1>2. held = record
  BY <1>1 DEF IInv, CopyInv
<1>3. read = SubSeq(thread, 1, seen) /\ c = Max(Commands(record, read))
  BY <1>2
<1>4. thread' = IF Answered(record, read, c) THEN thread
                ELSE Append(thread, Said("receipt", c))
  BY <1>1, <1>2
<1>5. /\ held' = IF n = 0 THEN told ELSE Granted(told, n)
      /\ m \in AnsweredThrough(record, read, thread')
  BY <1>0, <1>1, <1>2
<1> HIDE DEF read, c, now, told, ids
<1>6. /\ record.park = "limit" /\ record.owed = None
      /\ \A i \in 1 .. seen : read[i] = thread[i]
      /\ c \in record.mark + 1 .. seen
  BY <1>1, <1>3, AnswerReads
<1>7. n \in Nat
  <2>1. c \in 1 .. Len(thread) /\ c \in 1 .. seen
    BY <1>6, Facts
  <2> QED
    BY <1>6, <2>1, Facts DEF Comment
<1>8. /\ thread' \in Seq(Comment) /\ Len(thread') \in Nat
      /\ Len(thread) <= Len(thread')
      /\ \A i \in 1 .. Len(thread) : thread'[i] = thread[i]
      /\ \A i \in Len(thread) + 1 .. Len(thread') : thread'[i].kind = "receipt"
      /\ DOMAIN thread' \ DOMAIN thread \subseteq Marked(thread')
      /\ Places({"reply"})' = Places({"reply"})
      /\ Sane(record, thread') /\ Noticed(record, thread')
      /\ Read(record, thread', taken)
      /\ NoticeSaidOnce' /\ ReceiptInv' /\ ReceiptSaidOnce'
  BY <1>1, <1>3, <1>4, ReceiptStands
<1> HIDE DEF n
<1>9. /\ m \in record.mark .. Len(thread')
      /\ \A i \in DOMAIN thread' : thread'[i].kind = "reply" /\ i <= m
            => i \in taken \cup RepliesToThePark
  BY <1>1, <1>3, <1>5, <1>8, AnswerPasses
<1>10. told = [record EXCEPT !.ours = ids, !.mark = m]
  BY DEF told
<1>11. ids \subseteq Marked(thread') /\ ids \in SUBSET Nat
  <2>1. ids \subseteq Marked(thread')
    BY <1>8 DEF Sane, ids
  <2> QED
    BY <1>8, <2>1 DEF Marked
<1>12. /\ record.used = record.allowance /\ record.displaced # "limit"
       /\ record.displaced \in Park /\ record.mark \in Nat /\ m \in Nat /\ m <= Len(thread')
       /\ record.used \in Nat /\ record.allowance \in Nat /\ 0 < record.allowance
  BY <1>6, <1>9, <1>8, Facts DEF IInv, Sane, Record
<1>13. /\ held' \in Record /\ held'.used = record.used /\ held'.phase = record.phase
       /\ held'.mark = m /\ held'.ours = ids /\ held'.owed = None
       /\ \/ /\ held'.park = "limit" /\ held'.allowance = record.allowance
             /\ held'.displaced = record.displaced
          \/ /\ held'.park = record.displaced /\ held'.displaced = "none"
             /\ record.allowance < held'.allowance
  <2>1. CASE n = 0
    <3>1. held' = [record EXCEPT !.ours = ids, !.mark = m]
      BY <1>5, <1>10, <2>1
    <3> QED
      BY <1>6, <1>11, <1>12, <3>1, Facts DEF Record
  <2>2. CASE n # 0
    <3>1. held' = [told EXCEPT !.allowance = told.used + n, !.park = told.displaced,
                               !.displaced = "none", !.owed = None]
      BY <1>5, <2>2 DEF Granted
    <3>2. /\ told \in Record /\ told.used = record.used /\ told.displaced = record.displaced
          /\ told.phase = record.phase /\ told.mark = m /\ told.ours = ids
      BY <1>10, <1>11, <1>12, Facts DEF Record
    <3>3. told.used + n \in Nat /\ record.allowance < told.used + n
      BY <1>7, <1>12, <2>2, <3>2
    <3> QED
      BY <1>12, <3>1, <3>2, <3>3 DEF Record, Park
  <2> QED
    BY <2>1, <2>2
<1>14. Sane(held', thread')
  <2>1. held'.allowance \in Nat /\ held'.used \in Nat
    BY <1>13 DEF Record
  <2>2. /\ 0 < held'.allowance /\ held'.used <= held'.allowance
        /\ held'.park = "limit" => held'.used = held'.allowance
        /\ held'.displaced # "limit"
    BY <1>12, <1>13, <2>1
  <2>3. held'.mark <= Len(thread') /\ held'.ours \subseteq Marked(thread')
    BY <1>11, <1>12, <1>13
  <2> QED
    BY <1>13, <2>2, <2>3 DEF Sane
<1>15. Noticed(held', thread')
  <2>0. \A i \in DOMAIN thread' : thread'[i] \in Comment
    BY <1>8
  <2>1. \A i \in DOMAIN thread' : thread'[i].kind = "notice" =>
            thread'[i].of <= record.allowance /\ thread'[i].of \in Nat
    BY <1>8, <2>0 DEF Noticed, Comment
  <2>2. CASE held'.park = "limit"
    BY <1>12, <1>13, <2>1, <2>2 DEF Noticed
  <2>3. CASE held'.park # "limit"
    <3>1. record.allowance < held'.allowance /\ held'.allowance \in Nat
      BY <1>13, <2>3 DEF Record
    <3> QED
      BY <1>12, <1>13, <2>1, <3>1 DEF Noticed
  <2> QED
    BY <2>2, <2>3
<1>16. Read(held', thread', taken') /\ Read(record, thread', taken')
  BY <1>1, <1>8, <1>9, <1>13 DEF Read
<1>17. taken' \subseteq Places({"reply"})
  BY <1>1, Facts DEF RepliesToThePark
<1>18. record.allowance <= held'.allowance
  BY <1>12, <1>13 DEF Record
<1> QED
  BY <1>1, <1>8, <1>13, <1>14, <1>15, <1>16, <1>17, <1>18, WritesNext

-----------------------------------------------------------------------------
LEMMA InitHolds ==
    ASSUME Init
    PROVE  IInv
<1>1. /\ record = Fresh /\ held = Fresh /\ at = "idle" /\ launch = None
      /\ batch = {} /\ seen = 0 /\ thread = <<>> /\ spawned = 0 /\ taken = {}
  BY DEF Init
<1>2. thread \in Seq(Comment) /\ Len(thread) = 0 /\ DOMAIN thread = {}
  BY <1>1
<1>3. /\ Fresh \in Record
      /\ Fresh.mark = 0 /\ Fresh.ours = {} /\ Fresh.used = 0 /\ Fresh.phase = "none"
      /\ Fresh.allowance = Configured /\ Configured \in Nat /\ Configured > 0
      /\ Fresh.park = "none" /\ Fresh.displaced = "none" /\ Fresh.owed = None
  BY LedgerAssumption DEF Fresh, Record, Park
<1>4. Sane(record, thread) /\ Sane(held, thread)
  BY <1>1, <1>2, <1>3 DEF Sane, Marked
<1>5. TypeOK
  BY <1>1, <1>2, <1>3 DEF TypeOK, Places, Marked
<1>6. CopyInv /\ CourseInv /\ BatchInv
  BY <1>1 DEF CopyInv, CourseInv, BatchInv
<1>7. ChargeInv
  BY <1>1, <1>3 DEF ChargeInv
<1>8. RecordInv
  BY <1>1, <1>2, <1>3 DEF RecordInv, Noticed, Read
<1>9. NoticeSaidOnce /\ ReceiptInv /\ ReceiptSaidOnce
  BY <1>2 DEF NoticeSaidOnce, ReceiptInv, ReceiptSaidOnce, Places
<1> QED
  BY <1>4, <1>5, <1>6, <1>7, <1>8, <1>9 DEF IInv

LEMMA StepHolds ==
    ASSUME IInv, [Next]_vars
    PROVE  IInv'
<1>1. CASE Speak
  BY <1>1, SpeakStep
<1>2. CASE Drop \/ UNCHANGED vars
  BY <1>2, DropStep
<1>3. CASE Write
  BY <1>3, WriteStep
<1>4. CASE \E l \in Launch : Handle(l)
  BY <1>4, HandleStep
<1>5. CASE Honor \/ (\E l \in Launch : Relaunch(l)) \/ ReadCommands
  BY <1>5, CourseStep
<1>6. CASE Reserve \/ Start \/ Refuse
  BY <1>6, ChargeStep
<1>7. CASE Announce
  BY <1>7, AnnounceStep
<1>8. CASE Finish
  BY <1>8, FinishStep
<1>9. CASE Ask
  BY <1>9, AskStep
<1>10. CASE Replay
  BY <1>10, ReplayStep
<1>11. CASE Answer
  BY <1>11, AnswerStep
<1> QED
  BY <1>1, <1>2, <1>3, <1>4, <1>5, <1>6, <1>7, <1>8, <1>9, <1>10, <1>11 DEF Next

LEMMA Inductive == Spec => []IInv
<1>1. Init => IInv
  BY InitHolds
<1>2. IInv /\ [Next]_vars => IInv'
  BY StepHolds
<1> QED
  BY <1>1, <1>2, PTL DEF Spec

-----------------------------------------------------------------------------
\* The ledger, the thread and the tick keep the shapes the code gives them; the
\* ledger's own ids are of comments it posted.
THEOREM TypeCorrect == Spec => []TypeOK
<1>1. IInv => TypeOK
  BY DEF IInv
<1> QED
  BY <1>1, Inductive, PTL

\* Whatever ticks are cut off, however many launches are asked for, at most as many
\* processes start as were charged on the comment, and no more are charged than the
\* allowance in force (`reserve_run`, `record_run_start`).
THEOREM CeilingAlways == Spec => []CeilingHolds
<1>1. IInv => CeilingHolds
  BY DEF IInv, ChargeInv, Sane, CeilingHolds
<1> QED
  BY <1>1, Inductive, PTL

\* No step lowers the spent count or the allowance: the one write of a whole state
\* is of a copy every charge was carried onto (`merge_run_charge`).
THEOREM NeverReturned == Spec => NothingIsReturned
<1> DEFINE Kept == record'.used >= record.used /\ record'.allowance >= record.allowance
<1>1. IInv /\ [Next]_vars => [Kept]_vars
  <2> SUFFICES ASSUME IInv, Next
               PROVE  Kept
    OBVIOUS
  <2>1. /\ record \in Record /\ record.used \in Nat /\ record.allowance \in Nat
    BY Facts
  <2>2. CASE Write
    BY <2>1, <2>2, Facts DEF Write, IInv, CopyInv
  <2>3. CASE Reserve
    <3>1. record' = [record EXCEPT !.used = record.used + 1, !.phase = "reserved",
                                   !.for = launch]
      BY <2>3 DEF Reserve
    <3>2. record'.used = record.used + 1 /\ record'.allowance = record.allowance
      BY <2>1, <3>1 DEF Record
    <3> QED
      BY <2>1, <3>2
  <2>4. CASE Start
    <3>1. record' = [record EXCEPT !.phase = "started"]
      BY <2>4 DEF Start
    <3>2. record'.used = record.used /\ record'.allowance = record.allowance
      BY <2>1, <3>1 DEF Record
    <3> QED
      BY <2>1, <3>2
  <2>5. CASE Refuse
    <3>1. record' = [record EXCEPT !.displaced = record.park, !.park = "limit",
                                   !.owed = record.used]
      BY <2>5 DEF Refuse, LimitPark
    <3>2. record'.used = record.used /\ record'.allowance = record.allowance
      BY <2>1, <3>1 DEF Record
    <3> QED
      BY <2>1, <3>2
  <2>6. CASE record' = record
    BY <2>1, <2>6
  <2> QED
    BY <2>2, <2>3, <2>4, <2>5, <2>6 DEF Next, Speak, Drop, Handle, Relaunch, Honor,
       Announce, Finish, Ask, Replay, ReadCommands, Answer
<1> QED
  BY <1>1, Inductive, PTL DEF Spec, NothingIsReturned

\* The sentence of one reading and the receipt of one command are on the thread
\* once, whichever tick was cut off between saying it and recording that it was
\* said (`_reconcile_notice`, `run_grant._said`).
THEOREM OursSaidOnce == Spec => []SaidOnce
<1>1. IInv => SaidOnce
  BY DEF IInv, SaidOnce
<1> QED
  BY <1>1, Inductive, PTL

\* Every reply below the watermark reached an agent or was an answer to the park
\* itself, whatever was said while a run, a park or a command was being dealt with
\* (`park_watermarks`, `_answered_through`).
THEOREM RepliesAreRead == Spec => []NoReplyLost
<1>1. IInv => NoReplyLost
  BY Facts DEF IInv, RecordInv, Read, NoReplyLost, Places
<1> QED
  BY <1>1, Inductive, PTL
=============================================================================
