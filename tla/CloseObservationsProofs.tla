---------------------- MODULE CloseObservationsProofs ----------------------
(***************************************************************************)
(* Proofs about CloseObservations, for any number of cycles, of flips and  *)
(* of confirming reads.                                                    *)
(*                                                                         *)
(* The evidence a process has of a close comes of three kinds: a scope, a  *)
(* clean moment, and a closed reading between two records.  Each is shown  *)
(* to be of a cycle the issue was closed under as long as something still  *)
(* asks it, which depends on where both threads are.                       *)
(***************************************************************************)
EXTENDS CloseObservations, TLAPS

(***************************************************************************)
(* Where a thread may be, and what it has then.                            *)
(***************************************************************************)
ReceiptPc == {"post", "probe", "probed", "issue", "record", "named", "again",
              "behind", "tied", "land", "settle"}

\* The steps at which a thread owns the one post there is (`_posting`).
OwnerPc == {"issue", "record", "named", "again", "behind", "tied", "land"}

ContenderPc == {"notes", "first", "first_note", "behind_it", "its_note",
                "second", "last_note"}
PollPc == {"idle", "listing", "claim", "listed", "unclaim", "submit", "refused",
           "again_held", "defer"} \cup ReceiptPc \cup ContenderPc

\* A pass has read no record yet, works by the one it read, or is on its way out.
FrontPc == {"refetch", "noticed", "guard"}
RecordPc == {"guarded", "sweep", "walk", "handler", "note", "retire", "restart"}
MarkPc == {"mark", "mark_inside_walk"}
WindowPc == {"retired", "torn"}
OutPc == {"restarted", "exit", "raised", "asks_settled", "asks_ending", "leave"}
InsidePc == FrontPc \cup RecordPc \cup MarkPc \cup WindowPc \cup OutPc \cup ReceiptPc
WorkPc == {"idle", "queued", "given_back"} \cup InsidePc

\* The polling thread is inside the claim at these.
PollInsidePc == {"listed", "unclaim", "defer"} \cup ReceiptPc

ThreadState ==
    [pc : PollPc \cup WorkPc,
     back : {"none", "listed", "refetched", "kept", "sent", "refused"},
     clean : BOOLEAN, saw : BOOLEAN, rec : Record, named : 0..MaxCycle,
     landed : 0..MaxCycle, kind : {"open", "closed", "sweep"},
     hold : {"none", "closed", "sweep"}, notes : SUBSET Cycle, reads : Nat]

RunOK ==
    /\ run \in [Thread -> ThreadState]
    /\ Me.pc \in PollPc
    /\ Mine.pc \in WorkPc
    /\ Me.pc \in ReceiptPc => Me.back \in {"listed", "refused"}
    /\ Me.pc = "unclaim" => Me.back \in {"listed", "refused"}
    /\ Mine.pc \in ReceiptPc => Mine.back \in {"refetched", "kept", "sent"}

\* Who is inside the claim, and how many holds the issue's readings have.
ClaimOK ==
    /\ claim.in \subseteq Thread \/ claim.in = {"other"}
    /\ claim \in [in : SUBSET (Thread \cup {"other"}), note : 0..MaxCycle, open : BOOLEAN]
    /\ Me.pc \in PollInsidePc => "poll" \in claim.in
    /\ Mine.pc \in InsidePc => "work" \in claim.in

HoldsOK ==
    /\ publishing = (IF Me.pc = "refused" THEN 1 ELSE 0)
                    + (IF Mine.pc = "idle" THEN 0 ELSE 1)
    /\ deferred \in BOOLEAN
    /\ deferred => publishing > 0

RegistryOK ==
    /\ latch \in [seen : BOOLEAN, scope : 0..MaxCycle, clean : BOOLEAN,
                  memo : 0..MaxCycle]
    /\ posting \in {"none", "current", "stale"}
    /\ scanned \in 0..MaxCycle

RemoteOK ==
    /\ closed \in BOOLEAN /\ record \in Record /\ receipts \subseteq Cycle
    /\ proven \subseteq Cycle
    /\ record.cycle = NoCycle <=> record.phase = "none"

(***************************************************************************)
(* What a pass knows of the record, which nobody else writes meanwhile.    *)
(***************************************************************************)
PassOK ==
    /\ Mine.pc \in RecordPc => record = Mine.rec
    /\ Mine.pc \in MarkPc \cup WindowPc => record.cycle = Mine.rec.cycle
    /\ Mine.pc \in {"note", "retire"} \cup WindowPc => Mine.rec.phase = "live"
    /\ Mine.pc \in WindowPc => record.phase \in {"live", "retired"}
    /\ Mine.pc = "restart" => record.cycle < MaxCycle
    /\ fenced \in BOOLEAN /\ (fenced <=> Mine.pc \in {"restart", "restarted"})
    /\ retiring = IF Mine.pc \in {"retire"} \cup WindowPc THEN Mine.rec.cycle ELSE NoCycle
    /\ retiring # NoCycle => claim.note = retiring

\* No reading of the record is of a cycle it has not reached.
ReadOK ==
    \A t \in Thread : run[t].rec.cycle <= record.cycle /\ run[t].named <= record.cycle

\* A receipt that compares has a cycle to compare.
NamedOK ==
    \A t \in Thread : run[t].pc \in {"again", "behind", "tied", "land"} => run[t].named # NoCycle

(***************************************************************************)
(* The registries.                                                         *)
(***************************************************************************)
\* One post at a time, and a receipt about to land is of a reading that stands
\* unless it was settled since the post was claimed.
OwnerOK ==
    /\ \A t \in Thread : run[t].pc \in OwnerPc => posting # "none"
    /\ ~(Me.pc \in OwnerPc /\ Mine.pc \in OwnerPc)
    /\ \A t \in Thread : run[t].pc = "land" /\ posting = "current" => latch.seen

\* A reading that is dropped goes whole, and a postponed settlement is of a
\* reading that has no moment.
LatchOK ==
    /\ latch.clean => latch.seen
    /\ latch.memo # NoCycle => latch.seen
    /\ deferred => latch.seen /\ ~latch.clean

\* A reading somebody will decide on is there until its last hold goes.
SeenOK ==
    /\ Me.pc \in ReceiptPc /\ publishing > 0 => latch.seen
    /\ Mine.pc \in ReceiptPc \cup {"asks_settled", "asks_ending"} => latch.seen
    /\ Me.pc \in {"claim", "listed"} /\ Me.clean => Me.saw

(***************************************************************************)
(* The evidence.                                                           *)
(***************************************************************************)
\* What an issue closed now would be closed under is proven.
ClosedOK == ClosedUnder \subseteq proven

ScopeOK ==
    /\ record.phase \in {"cancelled", "ended"} => record.cycle \in proven
    /\ receipts \subseteq proven
    /\ latch.scope # NoCycle => latch.scope \in proven

\* What is about to be written is of a close.
WriteOK ==
    /\ Mine.pc \in MarkPc => Mine.rec.cycle \in proven
    /\ \A t \in Thread : run[t].pc = "land" => run[t].named \in proven

\* The issue was closed under the cycle that the record names, or would name.
LiveProven == record.phase = "live" => record.cycle \in proven
NextProven == record.phase \in {"none", "retired"} /\ record.cycle < MaxCycle
              => record.cycle + 1 \in proven

\* What a pass has seen closed under its claim.
SawOK == Mine.saw => Mine.pc \in InsidePc /\ LiveProven

\* A pass that may yet start a cycle, once it is routed.
Starting ==
    \/ Mine.pc = "handler"
    \/ Mine.kind = "open" /\ Mine.pc \in {"refetch", "noticed", "guard", "guarded", "walk"}
    \/ Mine.kind = "open" /\ Mine.pc \in ReceiptPc /\ Mine.back = "refetched"

\* What a moment that is clean still proves, wherever the pass is by now.
MomentProves ==
    /\ LiveProven
    /\ Starting => NextProven
    /\ Mine.pc \in WindowPc => Mine.rec.cycle \in proven
    /\ Me.pc = "tied" /\ Me.rec.phase = "live" => Me.rec.cycle \in proven

CleanOK ==
    /\ Refused => ~latch.clean /\ ~Me.clean /\ ~Mine.clean
    /\ Mine.pc \in {"idle", "given_back"} => ~Mine.clean
    /\ Me.pc = "idle" => ~Me.clean
    /\ Mine.pc = "noticed" => Mine.clean
    /\ Mine.pc = "sweep" => Mine.kind = "sweep"
    /\ Mine.clean /\ Mine.pc = "queued" => Mine.kind = "closed"
    /\ ~fenced /\ (latch.clean \/ Mine.clean) => MomentProves
    /\ ~fenced /\ Me.clean /\ Me.pc # "listing" =>
          /\ MomentProves
          /\ Mine.pc = "queued" /\ Mine.kind = "open" => NextProven

\* The receipt's second record is the record until the pass has read its own.
TiedOK == /\ Me.pc = "tied" /\ Mine.pc \in {"queued", "refetch"} => Me.rec = record
          /\ Mine.pc \in {"named", "again", "behind", "tied"} => Mine.rec = record

\* A close standing was none of cycle c, and nobody will find it was.
Missed(c) == /\ c <= record.cycle /\ record # Live(c)
             /\ claim.note # c /\ c \notin Me.notes

\* A closed reading between two records proves the cycle both of them name.
BetweenOK ==
    \A t \in Thread : run[t].saw /\ run[t].named # NoCycle =>
       /\ run[t].pc \in {"behind", "its_note", "second"} =>
             run[t].named \in proven \/ Missed(run[t].named)
       /\ run[t].pc \in {"tied", "last_note"} =>
             \/ run[t].named \in proven
             \/ Missed(run[t].named) /\ run[t].rec # Live(run[t].named)

IInv ==
    /\ RunOK /\ ClaimOK /\ HoldsOK /\ RegistryOK /\ RemoteOK
    /\ PassOK /\ ReadOK /\ NamedOK /\ OwnerOK /\ LatchOK /\ SeenOK
    /\ ClosedOK /\ ScopeOK /\ WriteOK /\ SawOK /\ CleanOK /\ TiedOK /\ BetweenOK

LEMMA Bounds == MaxCycle \in Nat \ {0} /\ ConfirmingReads \in Nat \ {0}
  BY ObservationBounds

LEMMA RunTyped ==
    ASSUME RunOK
    PROVE  /\ run \in [Thread -> ThreadState]
           /\ Me \in ThreadState /\ Mine \in ThreadState
           /\ \A t \in Thread : run[t] \in ThreadState
  BY DEF RunOK, Thread, Me, Mine

-----------------------------------------------------------------------------
(***************************************************************************)
(* What each step does to the threads, field by field, and to the rest.    *)
(***************************************************************************)
\* What a thread has read is what it had, and what it carries of it.
Kept(s, r) == s.rec = r.rec /\ s.named = r.named /\ s.notes = r.notes
Carried(s, r) == s.clean = r.clean /\ s.kind = r.kind /\ s.back = r.back
Same(s, r) == Kept(s, r) /\ Carried(s, r) /\ s.saw = r.saw
Blank(s) == ~s.saw /\ s.rec = Fresh /\ s.named = NoCycle /\ s.notes = {} /\ s.back = "none"
Others(t) == \A u \in Thread : u # t => run'[u] = run[u]

\* The caller takes over with nothing read but what a refetch saw.
Back(t, keep) ==
    /\ Others(t)
    /\ run'[t].pc = IF keep \/ run[t].back \in {"sent", "refused"}
                    THEN After[run[t].back] ELSE "settle"
    /\ Carried(run'[t], run[t]) /\ run'[t].notes = run[t].notes
    /\ run'[t].saw => run[t].saw /\ run[t].back = "refetched"
    /\ run'[t].rec = Fresh /\ run'[t].named = NoCycle

LEMMA ReturnedFacts ==
    ASSUME RunOK, NEW t \in Thread, NEW keep \in BOOLEAN, run' = Returned(t, keep)
    PROVE  Back(t, keep)
<1>1. run \in [Thread -> ThreadState]
  BY RunTyped
<1>2. Others(t)
  BY <1>1 DEF Returned, Others
<1>3. /\ run'[t].pc = IF keep \/ run[t].back \in {"sent", "refused"}
                      THEN After[run[t].back] ELSE "settle"
      /\ run'[t].saw = (run[t].saw /\ run[t].back = "refetched")
  BY <1>1 DEF Returned, ThreadState
<1>4. Carried(run'[t], run[t]) /\ run'[t].notes = run[t].notes
  BY <1>1 DEF Returned, Carried, ThreadState
<1>5. run'[t].rec = Fresh /\ run'[t].named = NoCycle
  BY <1>1 DEF Returned, ThreadState
<1> QED
  BY <1>2, <1>3, <1>4, <1>5 DEF Back

LEMMA ClaimPostFacts ==
    ASSUME RunOK, NEW t \in Thread, ClaimPost(t)
    PROVE  /\ Others(t) /\ run[t].pc = "post" /\ Same(run'[t], run[t])
           /\ \/ run'[t].pc = "probe" /\ posting' = posting
              \/ run'[t].pc \in {"record", "issue"} /\ posting = "none" /\ posting' = "current"
  BY RunTyped DEF ClaimPost, Go, At, Others, Same, Kept, Carried, Thread, ThreadState

LEMMA ProbeFacts ==
    ASSUME RunOK, NEW t \in Thread, Probe(t)
    PROVE  \/ /\ Others(t) /\ run[t].pc = "probe" /\ run'[t].pc = "probed"
              /\ Carried(run'[t], run[t]) /\ run'[t].saw = run[t].saw
              /\ run'[t].rec = record /\ run'[t].named = run[t].named
              /\ run'[t].notes = run[t].notes
           \/ /\ run[t].pc \in {"probe", "probed"}
              /\ \E keep \in BOOLEAN : Back(t, keep)
<1>1. CASE run[t].pc = "probe" /\ run' = [run EXCEPT ![t].rec = record, ![t].pc = "probed"]
  BY <1>1, RunTyped DEF Others, Carried, Thread, ThreadState
<1>2. CASE run[t].pc = "probe" /\ run' = Returned(t, TRUE)
  BY <1>2, ReturnedFacts
<1>3. CASE run[t].pc = "probed" /\ run' = Returned(t, EndingCycle(run[t].rec) # NoCycle)
  BY <1>3, ReturnedFacts
<1> QED
  BY <1>1, <1>2, <1>3 DEF Probe, At

LEMMA PostReadsIssueFacts ==
    ASSUME RunOK, NEW t \in Thread, PostReadIssue(t) \/ PostReadAgain(t)
    PROVE  /\ Others(t) /\ Kept(run'[t], run[t]) /\ Carried(run'[t], run[t])
           /\ run'[t].saw = closed
           /\ \/ run[t].pc = "issue" /\ run'[t].pc = "record"
              \/ run[t].pc = "again" /\ run'[t].pc = "behind"
  BY RunTyped DEF PostReadIssue, PostReadAgain, At, Others, Kept, Carried, Thread, ThreadState

LEMMA PostReadsRecordFacts ==
    ASSUME RunOK, NEW t \in Thread, PostReadRecord(t) \/ PostReadBehind(t)
    PROVE  /\ Others(t) /\ Carried(run'[t], run[t]) /\ run'[t].saw = run[t].saw
           /\ run'[t].rec = record /\ run'[t].named = run[t].named
           /\ run'[t].notes = run[t].notes
           /\ \/ run[t].pc = "record" /\ run'[t].pc = "named"
              \/ run[t].pc = "behind" /\ run'[t].pc = "tied"
  BY RunTyped DEF PostReadRecord, PostReadBehind, At, Others, Carried, Thread, ThreadState

LEMMA PostNamedFacts ==
    ASSUME RunOK, NEW t \in Thread, PostNamed(t)
    PROVE  /\ run[t].pc = "named"
           /\ \/ posting' = "none" /\ \E keep \in BOOLEAN : Back(t, keep)
              \/ /\ posting' = posting /\ Others(t) /\ Carried(run'[t], run[t])
                 /\ run'[t].saw = run[t].saw /\ run'[t].rec = run[t].rec
                 /\ run'[t].notes = run[t].notes
                 /\ EndingCycle(run[t].rec) # NoCycle
                 /\ run'[t].named = EndingCycle(run[t].rec)
                 /\ run'[t].pc = IF run[t].saw THEN "again" ELSE "behind"
<1> DEFINE c == EndingCycle(run[t].rec)
<1>0. run[t].pc = "named"
  BY DEF PostNamed, At
<1>1. CASE posting' = "none" /\ run' = Returned(t, c # NoCycle)
  BY <1>0, <1>1, ReturnedFacts
<1>2. CASE /\ c # NoCycle /\ posting' = posting
           /\ run' = [run EXCEPT ![t].named = c, ![t].pc = IF run[t].saw THEN "again" ELSE "behind"]
  <2> HIDE DEF c
  <2> QED
    BY <1>0, <1>2, RunTyped DEF Others, Carried, Thread, ThreadState, c
<1> QED
  BY <1>1, <1>2 DEF PostNamed

LEMMA PostTiedFacts ==
    ASSUME RunOK, NEW t \in Thread, PostTied(t)
    PROVE  LET c == run[t].named
               same == EndingCycle(run[t].rec) = c
           IN  /\ run[t].pc = "tied"
               /\ latch' = IF same /\ (run[t].saw \/ Ends(c))
                           THEN [latch EXCEPT !.scope = c] ELSE latch
               /\ \/ /\ same /\ latch.seen /\ (run[t].saw \/ Ends(c))
                     /\ Others(t) /\ Same(run'[t], run[t])
                     /\ run'[t].pc = "land" /\ posting' = posting
                  \/ Back(t, TRUE) /\ posting' = "none"
<1> DEFINE c == run[t].named
           same == EndingCycle(run[t].rec) = c
<1>0. /\ run[t].pc = "tied"
      /\ latch' = IF same /\ (run[t].saw \/ Ends(c))
                  THEN [latch EXCEPT !.scope = c] ELSE latch
      /\ \/ /\ same /\ latch.seen /\ (run[t].saw \/ Ends(c))
            /\ run' = [run EXCEPT ![t].pc = "land"] /\ posting' = posting
         \/ run' = Returned(t, TRUE) /\ posting' = "none"
  BY DEF PostTied, At, Go
<1>1. ASSUME run' = [run EXCEPT ![t].pc = "land"]
      PROVE  Others(t) /\ Same(run'[t], run[t]) /\ run'[t].pc = "land"
  BY <1>1, RunTyped DEF Others, Same, Kept, Carried, Thread, ThreadState
<1>2. ASSUME run' = Returned(t, TRUE) PROVE Back(t, TRUE)
  BY <1>2, ReturnedFacts
<1> QED
  BY <1>0, <1>1, <1>2

LEMMA PostEndsFacts ==
    ASSUME RunOK, NEW t \in Thread, PostLands(t) \/ PostFails(t)
    PROVE  /\ run[t].pc \in OwnerPc \ {"named", "tied"} /\ posting' = "none" /\ Back(t, TRUE)
           /\ PostLands(t) => run[t].pc = "land"
<1>1. /\ run[t].pc \in OwnerPc \ {"named", "tied"} /\ posting' = "none"
      /\ run' = Returned(t, TRUE)
  BY DEF PostLands, PostFails, At, OwnerPc
<1> QED
  BY <1>1, ReturnedFacts DEF PostLands, At

LEMMA SettleAfterFacts ==
    ASSUME RunOK, NEW t \in Thread, SettleAfter(t)
    PROVE  /\ Others(t) /\ Same(run'[t], run[t]) /\ Settle
           /\ run[t].pc = "settle" /\ run'[t].pc = After[run[t].back]
  BY RunTyped DEF SettleAfter, Go, At, Others, Same, Kept, Carried, Thread, ThreadState

(***************************************************************************)
(* The polling thread.                                                     *)
(***************************************************************************)
LEMMA PollMomentFacts ==
    ASSUME RunOK, PollMoment
    PROVE  /\ Mine' = Mine /\ Kept(Me', Me) /\ Me'.saw = Me.saw
           /\ Me.pc = "idle" /\ Me'.pc = "listing" /\ (Me'.clean <=> ~Refused)
  BY RunTyped DEF PollMoment, At, Me, Mine, Kept, Thread, ThreadState

LEMMA PollListsFacts ==
    ASSUME RunOK, PollLists
    PROVE  /\ Mine' = Mine /\ Kept(Me', Me)
           /\ Me.pc = "listing" /\ (Me'.clean <=> Me.clean /\ closed) /\ Me'.saw = closed
           /\ \/ Me'.pc = "claim"
              \/ Me'.pc = "submit" /\ ~closed
  BY RunTyped DEF PollLists, At, Me, Mine, Kept, Thread, ThreadState

LEMMA PollClaimsFacts ==
    ASSUME RunOK, PollClaims
    PROVE  /\ Mine' = Mine /\ Same(Me', Me) /\ Me.pc = "claim"
           /\ \/ Joins("poll") /\ Me'.pc = "listed"
              \/ /\ Refused /\ claim' = claim
                 /\ Me'.pc = IF Me.saw THEN "notes" ELSE "submit"
  BY RunTyped DEF PollClaims, Go, At, Me, Mine, Same, Kept, Carried, Thread, ThreadState

LEMMA PollObservesFacts ==
    ASSUME RunOK, PollObserves \/ RefusedDefers
    PROVE  /\ Mine' = Mine /\ Kept(Me', Me) /\ Me'.saw = Me.saw /\ Me'.clean = Me.clean
           /\ Me'.kind = Me.kind /\ Me'.pc = "post"
           /\ \/ Me.pc = "listed" /\ Me'.back = "listed" /\ Observe(Me.clean, Me.saw)
              \/ Me.pc = "defer" /\ Me'.back = "refused" /\ Observe(FALSE, FALSE)
<1>1. ASSUME NEW back, run' = [run EXCEPT !["poll"].pc = "post", !["poll"].back = back]
      PROVE  /\ Mine' = Mine /\ Kept(Me', Me) /\ Me'.saw = Me.saw /\ Me'.clean = Me.clean
             /\ Me'.kind = Me.kind /\ Me'.pc = "post" /\ Me'.back = back
  BY <1>1, RunTyped DEF Me, Mine, Kept, Thread, ThreadState
<1>2. CASE PollObserves
  <2>1. /\ Me.pc = "listed" /\ Observe(Me.clean, Me.saw)
        /\ run' = [run EXCEPT !["poll"].pc = "post", !["poll"].back = "listed"]
    BY <1>2 DEF PollObserves, At, Me
  <2> QED
    BY <1>1, <2>1
<1>3. CASE RefusedDefers
  <2>1. /\ Me.pc = "defer" /\ Observe(FALSE, FALSE)
        /\ run' = [run EXCEPT !["poll"].pc = "post", !["poll"].back = "refused"]
    BY <1>3 DEF RefusedDefers, At, Me
  <2> QED
    BY <1>1, <2>1
<1> QED
  BY <1>2, <1>3

LEMMA PollLeavesFacts ==
    ASSUME RunOK, PollLeaves
    PROVE  /\ Mine' = Mine /\ Me.pc = "unclaim"
           /\ \/ Me' = Idle
              \/ /\ Kept(Me', Me) /\ Me'.saw = Me.saw /\ Me'.kind = Me.kind
                 /\ Me'.pc = "submit" /\ (Me'.clean <=> Me.clean /\ Me.kind = "closed")
<1>1. CASE run' = [run EXCEPT !["poll"] = Idle]
  BY <1>1, RunTyped DEF PollLeaves, At, Me, Mine, Thread
<1>2. CASE run' = [run EXCEPT !["poll"].pc = "submit", !["poll"].back = "none",
                              !["poll"].clean = @ /\ run["poll"].kind = "closed"]
  BY <1>2, RunTyped DEF PollLeaves, At, Me, Mine, Kept, Thread, ThreadState
<1> QED
  BY <1>1, <1>2 DEF PollLeaves

LEMMA SubmitsFacts ==
    ASSUME RunOK, Submits
    PROVE  /\ Me.pc = "submit"
           /\ \/ Mine' = Mine /\ Same(Me', Me) /\ Me'.pc = "refused"
              \/ /\ Mine.pc = "idle" /\ Me' = Idle /\ Blank(Mine')
                 /\ Mine'.pc = "queued" /\ Mine'.kind = Me.kind
                 /\ (Mine'.clean <=> Me.clean /\ Me.kind = "closed")
<1>1. CASE run' = [run EXCEPT !["poll"].pc = "refused"]
  BY <1>1, RunTyped DEF Submits, At, Me, Mine, Same, Kept, Carried, Thread, ThreadState
<1>2. CASE At("work", "idle") /\
           run' = [run EXCEPT !["poll"] = Idle,
                        !["work"] = [Idle EXCEPT !.pc = "queued",
                                        !.kind = run["poll"].kind,
                            !.clean = run["poll"].clean /\ run["poll"].kind = "closed"]]
  BY <1>2, RunTyped DEF Submits, At, Me, Mine, Idle, Blank, Thread, ThreadState
<1> QED
  BY <1>1, <1>2 DEF Submits, Go

LEMMA SubmitRefusedFacts ==
    ASSUME RunOK, SubmitRefused
    PROVE  /\ Mine' = Mine /\ Same(Me', Me) /\ ReleaseHold
           /\ Me.pc = "refused" /\ Me'.pc = "again_held"
  BY RunTyped DEF SubmitRefused, Go, At, Me, Mine, Same, Kept, Carried, Thread, ThreadState

LEMMA RefusedAgainFacts ==
    ASSUME RunOK, RefusedAgain
    PROVE  /\ Mine' = Mine /\ Me.pc = "again_held"
           /\ \/ Me' = Idle /\ claim' = claim
              \/ Same(Me', Me) /\ Joins("poll") /\ Me'.pc = "defer" /\ latch.seen
<1>1. CASE run' = [run EXCEPT !["poll"] = Idle] /\ claim' = claim
  BY <1>1, RunTyped DEF RefusedAgain, At, Me, Mine, Thread
<1>2. CASE latch.seen /\ Joins("poll") /\ run' = [run EXCEPT !["poll"].pc = "defer"]
  BY <1>2, RunTyped DEF RefusedAgain, At, Me, Mine, Same, Kept, Carried, Thread, ThreadState
<1> QED
  BY <1>1, <1>2 DEF RefusedAgain, Go

LEMMA ContenderReadsFacts ==
    ASSUME RunOK, ContenderReads
    PROVE  /\ Mine' = Mine /\ Carried(Me', Me) /\ Witnessed
           /\ \/ /\ \/ Me.pc = "notes" /\ Me'.pc = "first"
                    \/ Me.pc = "its_note" /\ Me'.pc = "second"
                 /\ Me'.notes = Noted /\ Me'.rec = Me.rec /\ Me'.named = Me.named
                 /\ Me'.saw = Me.saw
              \/ /\ \/ Me.pc = "first" /\ Me'.pc = "first_note"
                    \/ Me.pc = "second" /\ Me'.pc = "last_note"
                 /\ Me'.notes = Me.notes /\ Me'.rec = record /\ Me'.named = Me.named
                 /\ Me'.saw = Me.saw
              \/ /\ Me.pc = "behind_it" /\ Me'.pc = "its_note"
                 /\ Kept(Me', Me) /\ Me'.saw = closed
              \/ /\ Me.pc = "first_note" /\ Me'.pc = "behind_it"
                 /\ Me'.notes = Noted /\ Me'.rec = Fresh /\ Me'.saw = Me.saw
                 /\ Me'.named = EndedCycle(Me.rec, Noted)
<1> DEFINE n == Noted
           c == EndedCycle(Me.rec, Noted)
<1>0. Witnessed
  BY DEF ContenderReads
<1>1. CASE /\ Me.pc \in {"notes", "its_note"}
           /\ run' = [run EXCEPT !["poll"].notes = n,
                !["poll"].pc = IF @ = "notes" THEN "first" ELSE "second"]
  <2> HIDE DEF n
  <2> QED
    BY <1>0, <1>1, RunTyped DEF Me, Mine, Carried, Thread, ThreadState, n
<1>2. CASE /\ Me.pc \in {"first", "second"}
           /\ run' = [run EXCEPT !["poll"].rec = record,
                !["poll"].pc = IF @ = "first" THEN "first_note" ELSE "last_note"]
  BY <1>0, <1>2, RunTyped DEF Me, Mine, Carried, Thread, ThreadState
<1>3. CASE /\ Me.pc = "behind_it"
           /\ run' = [run EXCEPT !["poll"].saw = closed, !["poll"].reads = @ + 1,
                                !["poll"].pc = "its_note"]
  BY <1>0, <1>3, RunTyped DEF Me, Mine, Carried, Kept, Thread, ThreadState
<1>4. CASE /\ Me.pc = "first_note"
           /\ run' = [run EXCEPT !["poll"].notes = n, !["poll"].rec = Fresh,
                                !["poll"].named = c, !["poll"].pc = "behind_it"]
  <2> HIDE DEF n, c
  <2> QED
    BY <1>0, <1>4, RunTyped DEF Me, Mine, Carried, Thread, ThreadState, n, c
<1> QED
  BY <1>1, <1>2, <1>3, <1>4 DEF ContenderReads

Done(s, r) == /\ Blank(s) /\ s.pc = "submit" /\ s.kind = r.kind /\ s.clean = r.clean

LEMMA ContenderComparesFacts ==
    ASSUME RunOK, ContenderCompares
    PROVE  LET c == EndedCycle(Me.rec, Noted)
           IN  /\ Mine' = Mine /\ Me.pc = "last_note" /\ Witnessed
               /\ \/ /\ c = Me.named /\ Done(Me', Me)
                     /\ IF c = NoCycle THEN UNCHANGED <<latch, deferred>>
                        ELSE /\ latch' = [latch EXCEPT !.seen = TRUE, !.scope =
                                             IF Me.saw THEN c ELSE @]
                             /\ deferred' = FALSE
                  \/ /\ UNCHANGED <<latch, deferred>>
                     /\ Carried(Me', Me) /\ Me'.saw = Me.saw /\ Me'.pc = "behind_it"
                     /\ Me'.named = c /\ Me'.rec = Fresh /\ Me'.notes = Noted
                  \/ Observe(FALSE, TRUE) /\ Done(Me', Me)
<1> DEFINE n == Noted
           c == EndedCycle(Me.rec, Noted)
<1>0. Witnessed /\ Me.pc = "last_note"
  BY DEF ContenderCompares
<1>1. ASSUME run' = ContenderDone PROVE Mine' = Mine /\ Done(Me', Me)
  BY <1>1, RunTyped DEF ContenderDone, Me, Mine, Done, Blank, Idle, Thread, ThreadState
<1>2. ASSUME run' = [run EXCEPT !["poll"].named = c, !["poll"].rec = Fresh,
                                !["poll"].notes = n, !["poll"].pc = "behind_it"]
      PROVE  /\ Mine' = Mine /\ Carried(Me', Me) /\ Me'.saw = Me.saw /\ Me'.pc = "behind_it"
             /\ Me'.named = c /\ Me'.rec = Fresh /\ Me'.notes = n
  <2> HIDE DEF n, c
  <2> QED
    BY <1>2, RunTyped DEF Me, Mine, Carried, Thread, ThreadState
<1>3. \/ /\ c = Me.named /\ run' = ContenderDone
         /\ IF c = NoCycle THEN UNCHANGED <<latch, deferred>>
            ELSE /\ latch' = [latch EXCEPT !.seen = TRUE, !.scope = IF Me.saw THEN c ELSE @]
                 /\ deferred' = FALSE
      \/ /\ UNCHANGED <<latch, deferred>>
         /\ run' = [run EXCEPT !["poll"].named = c, !["poll"].rec = Fresh,
                                !["poll"].notes = n, !["poll"].pc = "behind_it"]
      \/ Observe(FALSE, TRUE) /\ run' = ContenderDone
  <2> HIDE DEF n, c
  <2> QED
    BY DEF ContenderCompares, n, c
<1> HIDE DEF n, c
<1>4. /\ Mine' = Mine /\ Me.pc = "last_note" /\ Witnessed
      /\ \/ /\ c = Me.named /\ Done(Me', Me)
            /\ IF c = NoCycle THEN UNCHANGED <<latch, deferred>>
               ELSE /\ latch' = [latch EXCEPT !.seen = TRUE, !.scope = IF Me.saw THEN c ELSE @]
                    /\ deferred' = FALSE
         \/ /\ UNCHANGED <<latch, deferred>>
            /\ Carried(Me', Me) /\ Me'.saw = Me.saw /\ Me'.pc = "behind_it"
            /\ Me'.named = c /\ Me'.rec = Fresh /\ Me'.notes = n
         \/ Observe(FALSE, TRUE) /\ Done(Me', Me)
  BY <1>0, <1>1, <1>2, <1>3
<1> QED
  BY <1>4 DEF n, c

LEMMA ContenderFailsFacts ==
    ASSUME RunOK, ContenderFails
    PROVE  /\ Mine' = Mine /\ Done(Me', Me) /\ Me.pc \in {"first", "second", "behind_it"}
           /\ Observe(FALSE, TRUE)
  BY RunTyped DEF ContenderFails, ContenderDone, Me, Mine, Done, Blank, Idle, Thread, ThreadState

(***************************************************************************)
(* The worker.                                                             *)
(***************************************************************************)
\* Past its routing a pass has the record, or nothing on its way out.
Routed1(there) ==
    /\ Me' = Me /\ Mine'.pc = there /\ Mine'.kind = "open" /\ ~Mine'.saw
    /\ (Mine'.clean <=> Mine.clean /\ Mine.hold = "closed")
    /\ Mine'.rec = IF there \in {"exit", "raised"} THEN Fresh ELSE Mine.rec
    /\ Mine'.back = "none" /\ Mine'.notes = {} /\ Mine'.named = NoCycle

LEMMA WorksFacts ==
    ASSUME RunOK, NEW there, Works(there)
    PROVE  Routed1(there)
  BY RunTyped DEF Works, Routing, Routed1, Idle, Me, Mine, Thread, ThreadState, NoCycle

LEMMA WorkClaimsFacts ==
    ASSUME RunOK, WorkClaims
    PROVE  /\ Me' = Me /\ Mine.pc = "queued" /\ Kept(Mine', Mine) /\ Mine'.saw = Mine.saw
           /\ Mine'.clean = Mine.clean
           /\ \/ /\ Joins("work") /\ Mine'.pc = "refetch"
                 /\ Mine'.kind = "open" => Mine.kind = "open" /\ ~latch.seen
                 /\ Mine'.kind = "closed" <=> Mine.kind = "closed"
              \/ Refused /\ Mine'.pc = "given_back" /\ claim' = claim
<1>1. CASE Joins("work") /\ run' = Routed
  BY <1>1, RunTyped DEF WorkClaims, Routed, At, Me, Mine, Kept, Thread, ThreadState
<1>2. CASE Refused /\ run' = [run EXCEPT !["work"].pc = "given_back"] /\ claim' = claim
  BY <1>2, RunTyped DEF WorkClaims, At, Me, Mine, Kept, Thread, ThreadState
<1> QED
  BY <1>1, <1>2 DEF WorkClaims, Go

LEMMA RefetchesFacts ==
    ASSUME RunOK, Refetches
    PROVE  /\ Mine.pc = "refetch"
           /\ \/ /\ Me' = Me /\ Kept(Mine', Mine) /\ Mine'.saw = closed
                 /\ Mine'.kind = Mine.kind
                 /\ \/ Mine'.pc = "noticed" /\ closed /\ Mine.kind = "open"
                    \/ /\ Mine'.pc = "guard" /\ ~(closed /\ Mine.kind = "open")
                       /\ Mine'.clean = Mine.clean
              \/ Routed1("raised")
<1> DEFINE noticed == closed /\ Mine.kind = "open"
<1>0. Mine.pc = "refetch"
  BY DEF Refetches, At, Mine
<1>1. CASE noticed /\ run' = [run EXCEPT !["work"].saw = closed,
               !["work"].clean = @ \/ noticed, !["work"].pc = "noticed"]
  BY <1>0, <1>1, RunTyped DEF Me, Mine, Kept, Thread, ThreadState
<1>2. CASE ~noticed /\ run' = [run EXCEPT !["work"].saw = closed,
               !["work"].clean = @ \/ noticed, !["work"].pc = "guard"]
  <2>1. Mine.clean \/ noticed <=> Mine.clean
    BY <1>2
  <2>2. Mine'.clean = (Mine.clean \/ noticed) /\ Me' = Me /\ Kept(Mine', Mine)
        /\ Mine'.saw = closed /\ Mine'.kind = Mine.kind /\ Mine'.pc = "guard"
    <3> HIDE DEF noticed
    <3> QED
      BY <1>2, RunTyped DEF Me, Mine, Kept, Thread, ThreadState
  <2>3. Mine.clean \in BOOLEAN
    BY RunTyped DEF ThreadState
  <2> QED
    BY <1>0, <1>2, <2>1, <2>2, <2>3
<1>3. \/ noticed /\ run' = [run EXCEPT !["work"].saw = closed,
               !["work"].clean = @ \/ noticed, !["work"].pc = "noticed"]
      \/ ~noticed /\ run' = [run EXCEPT !["work"].saw = closed,
               !["work"].clean = @ \/ noticed, !["work"].pc = "guard"]
      \/ Works("raised")
  BY DEF Refetches, Works
<1> QED
  BY <1>0, <1>1, <1>2, <1>3, WorksFacts

LEMMA NoticesFacts ==
    ASSUME RunOK, Notices
    PROVE  /\ Me' = Me /\ Kept(Mine', Mine) /\ Mine'.saw = Mine.saw
           /\ Mine'.clean = Mine.clean /\ Mine'.kind = Mine.kind
           /\ Mine.pc = "noticed" /\ Mine'.pc = "post" /\ Mine'.back = "refetched"
           /\ Observe(TRUE, TRUE)
  BY RunTyped DEF Notices, At, Me, Mine, Kept, Thread, ThreadState

LEMMA GuardsFacts ==
    ASSUME RunOK, Guards
    PROVE  /\ Mine.pc = "guard"
           /\ \/ /\ Me' = Me /\ Mine'.rec = record /\ Mine'.saw = Mine.saw
                 /\ Mine'.named = Mine.named /\ Mine'.notes = Mine.notes
                 /\ Mine'.clean = Mine.clean /\ Mine'.kind = Mine.kind
                 /\ Mine'.pc = IF Mine.kind = "sweep" THEN "sweep" ELSE "guarded"
              \/ Routed1("raised")
<1>1. CASE run' = [run EXCEPT !["work"].rec = record, !["work"].pc =
                      IF Mine.kind = "sweep" THEN "sweep" ELSE "guarded"]
  BY <1>1, RunTyped DEF Guards, At, Me, Mine, Thread, ThreadState
<1>2. CASE Works("raised")
  BY <1>2, WorksFacts DEF Guards, At, Mine
<1> QED
  BY <1>1, <1>2 DEF Guards, Works

\* The walk of the thread keeps all that the pass has.
ToWalk == Me' = Me /\ Same(Mine', Mine) /\ Mine'.pc = "walk"

LEMMA WalkFacts ==
    ASSUME RunOK, run' = [run EXCEPT !["work"].pc = "walk"]
    PROVE  ToWalk
  BY RunTyped DEF ToWalk, Me, Mine, Same, Kept, Carried, Thread, ThreadState

LEMMA GuardsRoutedFacts ==
    ASSUME RunOK, GuardsLive \/ GuardsRetired
    PROVE  /\ Mine.pc = "guarded"
           /\ \/ Mine.rec.phase = "live" /\ Mine.kind = "open" /\ Mine.saw /\ Routed1("mark")
              \/ Mine.rec.phase = "live" /\ Mine.kind = "open" /\ ~Mine.saw /\ Routed1("handler")
              \/ Mine.rec.phase = "live" /\ Mine.kind = "open" /\ ~Mine.saw /\ ToWalk
              \/ /\ Mine.rec.phase = "retired"
                 /\ \/ latch.seen /\ latch.scope = Mine.rec.cycle /\ Routed1("mark")
                    \/ ToWalk
              \/ /\ Mine.rec.phase \in {"none", "retired"}
                 /\ \/ Mine.kind = "open" /\ ~Mine.saw /\ Routed1("handler")
                    \/ Routed1("exit")
<1> DEFINE w == run' = [run EXCEPT !["work"].pc = "walk"]
<1>1. /\ Mine.pc = "guarded"
      /\ \/ Mine.rec.phase = "live" /\ Mine.kind = "open" /\ Mine.saw /\ Works("mark")
         \/ Mine.rec.phase = "live" /\ Mine.kind = "open" /\ ~Mine.saw /\ Works("handler")
         \/ Mine.rec.phase = "live" /\ Mine.kind = "open" /\ ~Mine.saw /\ w
         \/ /\ Mine.rec.phase = "retired"
            /\ \/ latch.seen /\ latch.scope = Mine.rec.cycle /\ Works("mark")
               \/ w
         \/ /\ Mine.rec.phase \in {"none", "retired"}
            /\ \/ Mine.kind = "open" /\ ~Mine.saw /\ Works("handler")
               \/ Works("exit")
  <2> DEFINE x(there) == Works(there)
  <2>1. CASE GuardsLive
    BY <2>1 DEF GuardsLive, At, Go, Mine
  <2>2. CASE GuardsRetired
    <3>1. CASE Mine.kind = "open" /\ ~Mine.saw
      BY <2>2, <3>1 DEF GuardsRetired, Adopts, At, Go, Mine
    <3>2. CASE ~(Mine.kind = "open" /\ ~Mine.saw)
      BY <2>2, <3>2 DEF GuardsRetired, Adopts, At, Go, Mine
    <3> QED
      BY <3>1, <3>2
  <2> QED
    BY <2>1, <2>2
<1>2. \A there \in {"mark", "handler", "exit"} : Works(there) => Routed1(there)
  BY WorksFacts
<1>3. w => ToWalk
  BY WalkFacts
<1> HIDE DEF w
<1> QED
  BY <1>1, <1>2, <1>3

LEMMA ExitsFacts ==
    ASSUME RunOK, Exits
    PROVE  /\ Me' = Me /\ Kept(Mine', Mine) /\ Mine'.saw = Mine.saw /\ Mine'.kind = Mine.kind
           /\ Mine'.clean = Mine.clean /\ Mine.pc \in {"exit", "raised"}
           /\ \/ Mine'.pc = "leave" /\ UNCHANGED <<latch, deferred>>
              \/ /\ Mine'.pc = "post" /\ Mine'.back = "kept" /\ Mine.hold = "closed"
                 /\ Observe(Mine.clean, TRUE)
              \/ /\ Mine'.pc = "post" /\ Mine'.back = "sent" /\ Observe(FALSE, FALSE)
              \/ Mine'.pc = "asks_settled" /\ Observe(FALSE, TRUE)
<1>1. ASSUME NEW there, run' = [run EXCEPT !["work"].pc = there]
      PROVE  /\ Me' = Me /\ Kept(Mine', Mine) /\ Mine'.saw = Mine.saw /\ Mine'.kind = Mine.kind
             /\ Mine'.clean = Mine.clean /\ Mine'.pc = there
  BY <1>1, RunTyped DEF Me, Mine, Kept, Thread, ThreadState
<1>2. ASSUME NEW back, run' = [run EXCEPT !["work"].pc = "post", !["work"].back = back]
      PROVE  /\ Me' = Me /\ Kept(Mine', Mine) /\ Mine'.saw = Mine.saw /\ Mine'.kind = Mine.kind
             /\ Mine'.clean = Mine.clean /\ Mine'.pc = "post" /\ Mine'.back = back
  BY <1>2, RunTyped DEF Me, Mine, Kept, Thread, ThreadState
<1>3. /\ Mine.pc \in {"exit", "raised"}
      /\ \/ run' = [run EXCEPT !["work"].pc = "leave"] /\ UNCHANGED <<latch, deferred>>
         \/ /\ Observe(Mine.clean, TRUE) /\ Mine.hold = "closed"
            /\ run' = [run EXCEPT !["work"].pc = "post", !["work"].back = "kept"]
         \/ /\ Observe(FALSE, FALSE)
            /\ run' = [run EXCEPT !["work"].pc = "post", !["work"].back = "sent"]
         \/ run' = [run EXCEPT !["work"].pc = "asks_settled"] /\ Observe(FALSE, TRUE)
  BY DEF Exits, Go
<1> QED
  BY <1>1, <1>2, <1>3

LEMMA AsksSettledFacts ==
    ASSUME RunOK, AsksSettled
    PROVE  /\ Me' = Me /\ Kept(Mine', Mine) /\ Mine'.kind = Mine.kind
           /\ Mine'.clean = Mine.clean /\ Mine.pc \in {"asks_settled", "asks_ending"}
           /\ \/ /\ Mine'.saw = Mine.saw
                 /\ \/ Mine'.pc = "leave"
                    \/ Mine'.pc = "settle" /\ Mine'.back = "kept"
              \/ Mine'.pc = "asks_ending" /\ Mine'.saw = closed
<1>1. CASE run' = [run EXCEPT !["work"].saw = closed, !["work"].pc = "asks_ending"]
  BY <1>1, RunTyped DEF AsksSettled, Me, Mine, Kept, Thread, ThreadState
<1>2. CASE run' = [run EXCEPT !["work"].pc = "leave"]
  BY <1>2, RunTyped DEF AsksSettled, Me, Mine, Kept, Thread, ThreadState
<1>3. CASE run' = [run EXCEPT !["work"].back = "kept", !["work"].pc = "settle"]
  BY <1>3, RunTyped DEF AsksSettled, Me, Mine, Kept, Thread, ThreadState
<1> QED
  BY <1>1, <1>2, <1>3 DEF AsksSettled

LEMMA WorkLeavesFacts ==
    ASSUME RunOK, WorkLeaves
    PROVE  /\ Me' = Me /\ Blank(Mine') /\ ~Mine'.clean /\ Mine'.kind = "open"
           /\ Mine.pc = "leave" /\ Mine'.pc = "given_back"
  BY RunTyped DEF WorkLeaves, Idle, Blank, Me, Mine, Thread, NoCycle

LEMMA GivesBackFacts ==
    ASSUME RunOK, GivesBack
    PROVE  Me' = Me /\ Mine.pc = "given_back" /\ Mine' = Idle
  BY RunTyped DEF GivesBack, At, Me, Mine, Thread

LEMMA RestartsFacts ==
    ASSUME RunOK, Restarts
    PROVE  \/ /\ Mine.pc = "restart" /\ Routed1("restarted")
              /\ record' \in {record, Live(Mine.rec.cycle + 1)}
              /\ UNCHANGED <<fenced, latch>>
           \/ /\ Mine.pc = "restarted" /\ fenced' = FALSE /\ record' = record
              /\ latch' = [latch EXCEPT !.clean = FALSE]
              /\ ~Me'.clean /\ Me'.saw = Me.saw /\ Kept(Me', Me) /\ Me'.pc = Me.pc
              /\ Me'.kind = Me.kind /\ Me'.back = Me.back
              /\ Mine'.pc = "exit" /\ Blank(Mine') /\ ~Mine'.clean /\ Mine'.kind = "open"
<1>1. ASSUME run' = Staled(Routing("exit"))
      PROVE  /\ ~Me'.clean /\ Me'.saw = Me.saw /\ Kept(Me', Me) /\ Me'.pc = Me.pc
             /\ Me'.kind = Me.kind /\ Me'.back = Me.back
             /\ Mine'.pc = "exit" /\ Blank(Mine') /\ ~Mine'.clean /\ Mine'.kind = "open"
  <2> DEFINE b == Mine.clean /\ Mine.hold = "closed"
             s == [Idle EXCEPT !.pc = "exit", !.hold = Mine.hold, !.clean = b, !.rec = Fresh]
             f == [run EXCEPT !["work"] = s]
  <2>2. f = Routing("exit")
    BY DEF Routing
  <2> HIDE DEF s
  <2>3. f["work"] = s /\ f["poll"] = Me
    BY RunTyped DEF Thread, Me
  <2> HIDE DEF f
  <2>4. Me' = [Me EXCEPT !.clean = FALSE] /\ Mine' = [s EXCEPT !.clean = FALSE]
    BY <1>1, <2>2, <2>3 DEF Staled, Thread, Me, Mine
  <2>5. /\ ~Me'.clean /\ Me'.saw = Me.saw /\ Kept(Me', Me) /\ Me'.pc = Me.pc
        /\ Me'.kind = Me.kind /\ Me'.back = Me.back
    BY <2>4, RunTyped DEF ThreadState, Kept
  <2>6. ~Mine'.clean /\ Blank(Mine') /\ Mine'.pc = "exit" /\ Mine'.kind = "open"
    <3> HIDE DEF b
    <3>1. /\ [s EXCEPT !.clean = FALSE].pc = "exit" /\ Blank([s EXCEPT !.clean = FALSE])
          /\ [s EXCEPT !.clean = FALSE].kind = "open" /\ ~[s EXCEPT !.clean = FALSE].clean
      BY DEF s, Idle, Blank
    <3> QED
      BY <2>4, <3>1
  <2> QED
    BY <2>5, <2>6
<1>2. Works("restarted") => Routed1("restarted")
  BY WorksFacts
<1>3. \/ /\ Mine.pc = "restart" /\ Works("restarted")
         /\ record' \in {record, Live(Mine.rec.cycle + 1)}
         /\ UNCHANGED <<fenced, latch>>
      \/ /\ Mine.pc = "restarted" /\ fenced' = FALSE /\ record' = record
         /\ latch' = [latch EXCEPT !.clean = FALSE]
         /\ run' = Staled(Routing("exit"))
  BY DEF Restarts
<1> QED
  BY <1>1, <1>2, <1>3

\* Another poller takes the claim, and every moment is of the past.
LEMMA OtherTakesFacts ==
    ASSUME RunOK, OtherTakes
    PROVE  /\ ~Me'.clean /\ Me'.saw = Me.saw /\ Kept(Me', Me) /\ Me'.pc = Me.pc
           /\ Me'.kind = Me.kind /\ Me'.back = Me.back
           /\ ~Mine'.clean /\ Mine'.saw = Mine.saw /\ Kept(Mine', Mine) /\ Mine'.pc = Mine.pc
           /\ Mine'.kind = Mine.kind /\ Mine'.back = Mine.back
<1>1. Me' = [Me EXCEPT !.clean = FALSE] /\ Mine' = [Mine EXCEPT !.clean = FALSE]
  BY DEF OtherTakes, Staled, Thread, Me, Mine
<1> QED
  BY <1>1, RunTyped DEF ThreadState, Kept

\* The steps behind the guards each end in a routing, and change no more of the
\* rest than they say.
LEMMA MarksPolledFacts ==
    ASSUME RunOK, RegistryOK, MarksPolledClose
    PROVE  LET c == Mine.rec.cycle
               ends == latch.scope = c \/ ((latch.clean \/ Mine.clean) /\ ~fenced)
           IN  /\ Mine.pc = "guarded" /\ Mine.kind = "closed" /\ Mine.rec.phase = "live"
               /\ latch' = [latch EXCEPT !.seen = TRUE, !.clean = @ \/ Mine.clean,
                                !.scope = IF ~Mine.saw /\ ends THEN c ELSE @]
               /\ deferred' = FALSE
               /\ \/ Routed1("mark") /\ (Mine.saw \/ ends)
                  \/ Routed1("exit")
<1> DEFINE c == Mine.rec.cycle
           b == latch.clean \/ Mine.clean
           ends == latch.scope = c \/ (b /\ ~fenced)
           seen == [latch EXCEPT !.seen = TRUE, !.clean = b]
<1>0. Mine.pc = "guarded" /\ Mine.kind = "closed" /\ Mine.rec.phase = "live" /\ deferred' = FALSE
  BY DEF MarksPolledClose, At, Mine
<1>1. seen.clean = b
  BY DEF RegistryOK
<1>2. /\ latch' = IF ~Mine.saw /\ ends THEN [seen EXCEPT !.scope = c] ELSE seen
      /\ Works(IF Mine.saw \/ ends THEN "mark" ELSE "exit")
  BY <1>1 DEF MarksPolledClose
<1>3. latch' = [latch EXCEPT !.seen = TRUE, !.clean = @ \/ Mine.clean,
                             !.scope = IF ~Mine.saw /\ ends THEN c ELSE @]
  <2> HIDE DEF b, ends
  <2>1. latch' = [latch EXCEPT !.seen = TRUE, !.clean = b,
                               !.scope = IF ~Mine.saw /\ ends THEN c ELSE @]
    BY <1>2 DEF RegistryOK
  <2> QED
    BY <2>1 DEF b
<1>4. \/ Routed1("mark") /\ (Mine.saw \/ ends)
      \/ Routed1("exit")
  <2> HIDE DEF ends
  <2> QED
    BY <1>2, WorksFacts
<1> QED
  BY <1>0, <1>3, <1>4

LEMMA GuardsEndingFacts ==
    ASSUME RunOK, GuardsEnding
    PROVE  /\ Mine.pc = "guarded"
           /\ \/ /\ Mine.rec.phase = "cancelled" /\ Routed1("exit") /\ fenced' = fenced
                 /\ record' \in {record, [record EXCEPT !.phase = "ended"]}
              \/ /\ Mine.rec.phase = "ended" /\ record' = record
                 /\ \/ /\ ~Mine.saw /\ record.cycle < MaxCycle /\ fenced' = TRUE
                       /\ Routed1("restart")
                    \/ fenced' = fenced /\ Routed1("exit")
  BY WorksFacts DEF GuardsEnding, At, Mine

LEMMA WalksFacts ==
    ASSUME RunOK, Walks
    PROVE  /\ Mine.pc = "walk"
           /\ \/ Mine.rec.cycle \in receipts /\ Routed1("mark_inside_walk")
              \/ Mine.kind = "open" /\ ~Mine.saw /\ Routed1("handler")
              \/ Routed1("exit") \/ Routed1("raised")
<1>1. /\ Mine.pc = "walk"
      /\ \/ Mine.rec.cycle \in receipts /\ Works("mark_inside_walk")
         \/ Mine.kind = "open" /\ ~Mine.saw /\ Works("handler")
         \/ Works("exit") \/ Works("raised")
  <2>1. CASE Mine.kind = "open" /\ ~Mine.saw
    BY <2>1 DEF Walks, At, Mine
  <2>2. CASE ~(Mine.kind = "open" /\ ~Mine.saw)
    BY <2>2 DEF Walks, At, Mine
  <2> QED
    BY <2>1, <2>2
<1> QED
  BY <1>1, WorksFacts

LEMMA MarksFacts ==
    ASSUME RunOK, Marks
    PROVE  /\ Mine.pc \in MarkPc /\ (Routed1("exit") \/ Routed1("raised"))
           /\ record' \in {record, Cancelled(Mine.rec.cycle)}
  BY WorksFacts DEF Marks, MarkPc

LEMMA HandlesFacts ==
    ASSUME RunOK, Handles
    PROVE  /\ Mine.pc = "handler" /\ Witnessed
           /\ \/ Routed1("exit") /\ UNCHANGED <<record, latch>>
              \/ /\ Routed1("exit") /\ latch' = latch
                 /\ Mine.rec.phase \in {"none", "retired"} /\ record.cycle < MaxCycle
                 /\ record' = Live(record.cycle + 1)
              \/ /\ Mine.rec.phase = "live" /\ Asked(Mine.rec.cycle) /\ record' = record
                 /\ \/ Ends(Mine.rec.cycle) /\ Routed1("mark")
                    \/ Routed1("note")
<1>1. /\ Mine.pc = "handler" /\ Witnessed
      /\ \/ Works("exit") /\ UNCHANGED <<record, latch>>
         \/ /\ Works("exit") /\ latch' = latch
            /\ Mine.rec.phase \in {"none", "retired"} /\ record.cycle < MaxCycle
            /\ record' = Live(record.cycle + 1)
         \/ /\ Mine.rec.phase = "live" /\ Asked(Mine.rec.cycle) /\ record' = record
            /\ \/ Ends(Mine.rec.cycle) /\ Works("mark")
               \/ Works("note")
  BY DEF Handles, At, Mine
<1> QED
  BY <1>1, WorksFacts

LEMMA RetiresFacts ==
    ASSUME RunOK, Retires
    PROVE  /\ Witnessed
           /\ \/ /\ Mine.pc = "note" /\ Routed1("retire") /\ record' = record
                 /\ claim' = [claim EXCEPT !.note = Mine.rec.cycle]
                 /\ retiring' = Mine.rec.cycle
              \/ /\ Mine.pc = "retire" /\ UNCHANGED <<claim, retiring>>
                 /\ record' \in {record, Retired(Mine.rec.cycle)}
                 /\ Routed1("retired") \/ Routed1("torn")
  BY WorksFacts DEF Retires

LEMMA ClosesWindowFacts ==
    ASSUME RunOK, ClosesWindow
    PROVE  /\ Mine.pc \in WindowPc /\ retiring' = NoCycle /\ Asked(Mine.rec.cycle)
           /\ \/ Ends(Mine.rec.cycle) /\ Routed1("mark")
              \/ Routed1("exit") \/ Routed1("raised")
<1>1. /\ Mine.pc \in WindowPc /\ retiring' = NoCycle /\ Asked(Mine.rec.cycle)
      /\ \/ Ends(Mine.rec.cycle) /\ Works("mark")
         \/ Works("exit") \/ Works("raised")
  <2>1. CASE Ends(Mine.rec.cycle)
    BY <2>1 DEF ClosesWindow, WindowPc
  <2>2. CASE ~Ends(Mine.rec.cycle)
    BY <2>2 DEF ClosesWindow, WindowPc
  <2> QED
    BY <2>1, <2>2
<1> QED
  BY <1>1, WorksFacts

LEMMA SweepsFacts ==
    ASSUME RunOK, Sweeps
    PROVE  LET c == Mine.rec.cycle
           IN  /\ Mine.pc = "sweep"
               /\ \/ /\ Mine.rec.phase \in {"none", "retired"} /\ UNCHANGED <<record, latch>>
                     /\ Routed1("exit") \/ ToWalk
                  \/ /\ Mine.rec.phase = "retired" /\ UNCHANGED <<record, latch>>
                     /\ latch.seen /\ latch.scope = c /\ Routed1("mark")
                  \/ /\ Mine.rec.phase \in {"live", "cancelled", "ended"}
                     /\ IF Mine.saw THEN latch' = [latch EXCEPT !.scope = c] ELSE Asked(c)
                     /\ \/ /\ Mine.rec.phase = "live" /\ record' = record
                           /\ \/ (Mine.saw \/ Ends(c)) /\ Routed1("mark")
                              \/ Routed1("exit")
                        \/ /\ Mine.rec.phase # "live" /\ Routed1("exit")
                           /\ record' \in {record, [record EXCEPT !.phase = "ended"]}
<1> DEFINE c == Mine.rec.cycle
           w == run' = [run EXCEPT !["work"].pc = "walk"]
<1>0. Mine.pc = "sweep"
  BY DEF Sweeps, At, Mine
<1>1. CASE Mine.rec.phase = "none"
  <2>1. Works("exit") /\ UNCHANGED <<record, latch>>
    BY <1>1 DEF Sweeps
  <2> QED
    BY <1>0, <1>1, <2>1, WorksFacts
<1>2. CASE Mine.rec.phase = "retired"
  <2>1. /\ UNCHANGED <<record, latch>>
        /\ \/ latch.seen /\ latch.scope = c /\ Works("mark")
           \/ Works("exit") \/ w
    BY <1>2 DEF Sweeps, Adopts, Go
  <2>2. w => ToWalk
    BY WalkFacts
  <2> HIDE DEF w
  <2> QED
    BY <1>0, <1>2, <2>1, <2>2, WorksFacts
<1>3. CASE Mine.rec.phase \in {"live", "cancelled", "ended"}
  <2>0. IF Mine.saw THEN latch' = [latch EXCEPT !.scope = c] ELSE Asked(c)
    BY <1>3 DEF Sweeps
  <2>1. CASE Mine.rec.phase = "live"
    <3>1. Works(IF Mine.saw \/ Ends(c) THEN "mark" ELSE "exit") /\ record' = record
      BY <1>3, <2>1 DEF Sweeps
    <3>2. \/ (Mine.saw \/ Ends(c)) /\ Works("mark")
          \/ Works("exit")
      BY <3>1
    <3>3. \/ (Mine.saw \/ Ends(c)) /\ Routed1("mark")
          \/ Routed1("exit")
      BY <3>2, WorksFacts
    <3> QED
      BY <1>0, <1>3, <2>0, <2>1, <3>1, <3>3
  <2>2. CASE Mine.rec.phase # "live"
    <3>1. /\ record' \in {record} \cup (IF Mine.saw
                              THEN {[record EXCEPT !.phase = "ended"]} ELSE {})
          /\ Works("exit")
      BY <1>3, <2>2 DEF Sweeps
    <3>2. record' \in {record, [record EXCEPT !.phase = "ended"]} /\ Routed1("exit")
      BY <3>1, WorksFacts
    <3> QED
      BY <1>0, <1>3, <2>0, <2>2, <3>2
  <2> QED
    BY <2>1, <2>2
<1> QED
  BY <1>1, <1>2, <1>3 DEF Sweeps

(***************************************************************************)
(* What the steps leave alone.                                             *)
(***************************************************************************)
LEMMA QuietSteps ==
    ASSUME NEW t \in Thread,
           \/ Probe(t) \/ PostReadIssue(t) \/ PostReadRecord(t) \/ PostReadAgain(t)
           \/ PostReadBehind(t) \/ PollMoment \/ PollLists \/ Refetches \/ Guards \/ AsksSettled
    PROVE  UNCHANGED <<remote, claim, registry, history>>
  BY DEF Probe, PostReadIssue, PostReadRecord, PostReadAgain, PostReadBehind, PollMoment,
         PollLists, Refetches, Guards, AsksSettled

LEMMA ClaimSteps ==
    ASSUME PollClaims \/ PollLeaves \/ RefusedAgain \/ WorkClaims \/ WorkLeaves
    PROVE  /\ UNCHANGED <<remote, registry, history>>
           /\ PollLeaves => Leaves("poll")
           /\ WorkLeaves => Leaves("work")
  BY DEF PollClaims, PollLeaves, RefusedAgain, WorkClaims, WorkLeaves

LEMMA ObserveSteps ==
    ASSUME PollObserves \/ RefusedDefers \/ Notices \/ Exits \/ ContenderFails
    PROVE  UNCHANGED <<remote, claim, posting, scanned, retiring, publishing, fenced, history>>
  BY DEF PollObserves, RefusedDefers, Notices, Exits, ContenderFails

LEMMA PostingSteps ==
    ASSUME NEW t \in Thread, ClaimPost(t) \/ PostNamed(t) \/ PostFails(t)
    PROVE  UNCHANGED <<remote, claim, latch, scanned, retiring, publishing, deferred, fenced,
                       history>>
  BY DEF ClaimPost, PostNamed, PostFails

LEMMA ReceiptSteps ==
    ASSUME NEW t \in Thread
    PROVE  /\ PostTied(t) => UNCHANGED <<remote, claim, scanned, retiring, publishing, deferred,
                                         fenced, history>>
           /\ PostLands(t) =>
                 /\ UNCHANGED <<closed, record, claim, retiring, publishing, deferred, fenced,
                                history>>
                 /\ receipts' = receipts \cup {run[t].named}
                 /\ IF posting = "current"
                    THEN latch' = [latch EXCEPT !.memo = run[t].named] /\ scanned' = NoCycle
                    ELSE UNCHANGED <<latch, scanned>>
           /\ SettleAfter(t) => UNCHANGED <<remote, claim, scanned, retiring, publishing, fenced,
                                            history>>
  BY DEF PostTied, PostLands, SettleAfter

LEMMA HoldSteps ==
    /\ Submits => /\ UNCHANGED <<remote, claim, latch, posting, scanned, retiring, deferred,
                                 fenced, history>>
                  /\ publishing' = publishing + 1
    /\ SubmitRefused => /\ ReleaseHold
                        /\ UNCHANGED <<remote, claim, scanned, retiring, fenced, history>>
    /\ GivesBack => /\ ReleaseHold
                    /\ UNCHANGED <<remote, claim, scanned, retiring, fenced, history>>
  BY DEF Submits, SubmitRefused, GivesBack

LEMMA ContenderSteps ==
    /\ ContenderReads => UNCHANGED <<remote, claim, registry, flips>> /\ Witnessed
    /\ ContenderCompares =>
         /\ UNCHANGED <<remote, claim, posting, scanned, retiring, publishing, fenced, flips>>
         /\ Witnessed
  BY DEF ContenderReads, ContenderCompares

LEMMA GuardSteps ==
    /\ MarksPolledClose => UNCHANGED <<remote, claim, posting, scanned, retiring, publishing,
                                       fenced, history>>
    /\ GuardsEnding => UNCHANGED <<closed, receipts, claim, latch, posting, scanned, retiring,
                                   publishing, deferred, history>>
    /\ GuardsLive \/ GuardsRetired \/ Walks =>
         UNCHANGED <<remote, claim, latch, posting, retiring, publishing, deferred, fenced, history>>
    /\ Marks => UNCHANGED <<closed, receipts, claim, latch, posting, retiring, publishing,
                            deferred, fenced, history>>
    /\ Restarts => /\ UNCHANGED <<closed, receipts, claim, posting, scanned, retiring, publishing,
                                  deferred, flips>>
                   /\ Witnessed
    /\ Handles => UNCHANGED <<closed, receipts, claim, posting, scanned, retiring, publishing,
                              deferred, fenced, flips>>
    /\ Retires => UNCHANGED <<closed, receipts, latch, posting, scanned, publishing, deferred,
                              fenced, flips>>
    /\ ClosesWindow => UNCHANGED <<remote, claim, posting, scanned, publishing, deferred, fenced,
                                   history>>
    /\ Sweeps => UNCHANGED <<closed, receipts, claim, posting, retiring, publishing, deferred,
                             fenced, history>>
  BY DEF MarksPolledClose, GuardsEnding, GuardsLive, GuardsRetired, Walks, Marks, Restarts,
         Handles, Retires, ClosesWindow, Sweeps

(***************************************************************************)
(* Where a receipt's step leaves its thread.                               *)
(***************************************************************************)
LEMMA PostsPc ==
    ASSUME RunOK, NEW t \in Thread, Posts(t)
    PROVE  /\ Others(t) /\ Carried(run'[t], run[t]) /\ run'[t].notes = run[t].notes
           /\ run[t].pc \in ReceiptPc
           /\ run'[t].pc \in ReceiptPc \cup {After[run[t].back]}
           /\ After[run[t].back] \in {"unclaim", "guard", "leave"}
           /\ t = "poll" => /\ Mine' = Mine /\ run[t] = Me /\ run'[t] = Me'
                            /\ After[run[t].back] = "unclaim"
           /\ t = "work" => /\ Me' = Me /\ run[t] = Mine /\ run'[t] = Mine'
                            /\ After[run[t].back] \in {"guard", "leave"}
<1>1. \/ /\ Others(t) /\ Carried(run'[t], run[t]) /\ run'[t].notes = run[t].notes
         /\ run[t].pc \in ReceiptPc /\ run'[t].pc \in ReceiptPc \cup {After[run[t].back]}
      \/ run[t].pc \in ReceiptPc /\ \E keep \in BOOLEAN : Back(t, keep)
  <2>1. CASE ClaimPost(t) \/ Probe(t)
    BY <2>1, ClaimPostFacts, ProbeFacts DEF Same, Kept, ReceiptPc
  <2>2. CASE PostReadIssue(t) \/ PostReadAgain(t)
    BY <2>2, PostReadsIssueFacts DEF Kept, ReceiptPc
  <2>3. CASE PostReadRecord(t) \/ PostReadBehind(t)
    BY <2>3, PostReadsRecordFacts DEF ReceiptPc
  <2>4. CASE PostNamed(t)
    BY <2>4, PostNamedFacts DEF ReceiptPc
  <2>5. CASE PostTied(t)
    BY <2>5, PostTiedFacts DEF Same, Kept, ReceiptPc
  <2>6. CASE PostLands(t) \/ PostFails(t)
    BY <2>6, PostEndsFacts DEF ReceiptPc, OwnerPc
  <2>7. CASE SettleAfter(t)
    BY <2>7, SettleAfterFacts DEF Same, Kept, ReceiptPc
  <2> QED
    BY <2>1, <2>2, <2>3, <2>4, <2>5, <2>6, <2>7 DEF Posts
<1>2. /\ Others(t) /\ Carried(run'[t], run[t]) /\ run'[t].notes = run[t].notes
      /\ run[t].pc \in ReceiptPc /\ run'[t].pc \in ReceiptPc \cup {After[run[t].back]}
  BY <1>1 DEF Back, ReceiptPc
<1>3. /\ After[run[t].back] \in {"unclaim", "guard", "leave"}
      /\ t = "poll" => After[run[t].back] = "unclaim"
      /\ t = "work" => After[run[t].back] \in {"guard", "leave"}
  BY <1>2 DEF RunOK, Thread, Me, Mine, After
<1>4. /\ t = "poll" => Mine' = Mine /\ run[t] = Me /\ run'[t] = Me'
      /\ t = "work" => Me' = Me /\ run[t] = Mine /\ run'[t] = Mine'
  BY <1>2 DEF Others, Thread, Me, Mine
<1> QED
  BY <1>2, <1>3, <1>4

-----------------------------------------------------------------------------
(***************************************************************************)
(* The holds.                                                              *)
(***************************************************************************)
LEMMA HoldsKept ==
    ASSUME HoldsOK, publishing' = publishing, deferred' \in BOOLEAN, deferred' => deferred,
           Me'.pc = "refused" <=> Me.pc = "refused", Mine'.pc = "idle" <=> Mine.pc = "idle"
    PROVE  HoldsOK'
  BY DEF HoldsOK

\* An observation withdraws a postponed settlement or leaves it.
LEMMA Observed ==
    ASSUME deferred \in BOOLEAN,
           \/ deferred' = deferred \/ deferred' = FALSE
           \/ \E clean, fresh : Observe(clean, fresh)
    PROVE  deferred' \in BOOLEAN /\ (deferred' => deferred)
<1>1. CASE deferred' = deferred
  BY <1>1
<1>2. CASE deferred' = FALSE
  BY <1>2
<1>3. CASE \E clean, fresh : Observe(clean, fresh)
  BY <1>3 DEF Observe
<1> QED
  BY <1>1, <1>2, <1>3

LEMMA IdlePc == Idle.pc = "idle" /\ Idle.kind = "open" /\ ~Idle.clean /\ Blank(Idle)
  BY DEF Idle, Blank

LEMMA HoldsPosts ==
    ASSUME RunOK, HoldsOK, NEW t \in Thread, Posts(t)
    PROVE  HoldsOK'
<1>1. /\ Me'.pc = "refused" <=> Me.pc = "refused"
      /\ Mine'.pc = "idle" <=> Mine.pc = "idle"
  BY PostsPc DEF Thread, ReceiptPc
<1>2. /\ publishing' = publishing
      /\ \/ deferred' = deferred
         \/ publishing > 0 /\ deferred' = TRUE
  <2>1. CASE Probe(t) \/ PostReadIssue(t) \/ PostReadRecord(t) \/ PostReadAgain(t)
             \/ PostReadBehind(t) \/ ClaimPost(t) \/ PostNamed(t) \/ PostFails(t)
    BY <2>1, QuietSteps, PostingSteps DEF registry
  <2>2. CASE PostTied(t) \/ PostLands(t)
    BY <2>2, ReceiptSteps
  <2>3. CASE SettleAfter(t)
    BY <2>3, ReceiptSteps, SettleAfterFacts DEF Settle
  <2> QED
    BY <2>1, <2>2, <2>3 DEF Posts
<1>3. CASE deferred' = deferred
  BY <1>1, <1>2, <1>3, HoldsKept DEF HoldsOK
<1>4. CASE publishing > 0 /\ deferred' = TRUE
  BY <1>1, <1>2, <1>4 DEF HoldsOK
<1> QED
  BY <1>2, <1>3, <1>4

LEMMA Released ==
    ASSUME HoldsOK, ReleaseHold,
           \/ Me.pc = "refused" /\ Me'.pc # "refused" /\ Mine' = Mine
           \/ Mine.pc # "idle" /\ Mine'.pc = "idle" /\ Me' = Me
    PROVE  HoldsOK'
<1>1. deferred' \in BOOLEAN /\ (deferred' => publishing > 1)
  BY DEF ReleaseHold
<1> HIDE DEF ReleaseHold
<1>2. publishing' = publishing - 1
  BY DEF ReleaseHold
<1> QED
  BY <1>1, <1>2 DEF HoldsOK

LEMMA HoldsPolls ==
    ASSUME RunOK, HoldsOK, Polls
    PROVE  HoldsOK'
<1>0. deferred \in BOOLEAN
  BY DEF HoldsOK
<1>1. CASE PollMoment \/ PollLists \/ PollClaims \/ PollLeaves \/ RefusedAgain
  <2>0. publishing' = publishing /\ deferred' = deferred
    BY <1>1, QuietSteps, ClaimSteps DEF registry, Thread
  <2>1. publishing' = publishing /\ deferred' \in BOOLEAN /\ (deferred' => deferred)
    BY <1>0, <2>0
  <2>2. Mine' = Mine /\ Me.pc # "refused" /\ Me'.pc # "refused"
    BY <1>1, IdlePc, PollMomentFacts, PollListsFacts, PollClaimsFacts, PollLeavesFacts,
       RefusedAgainFacts
  <2> QED
    BY <2>1, <2>2, HoldsKept
<1>2. CASE PollObserves \/ RefusedDefers \/ ContenderFails
  <2>3. \E clean, fresh : Observe(clean, fresh)
    BY <1>2, PollObservesFacts, ContenderFailsFacts
  <2>1. publishing' = publishing /\ deferred' \in BOOLEAN /\ (deferred' => deferred)
    BY <1>0, <1>2, <2>3, ObserveSteps, Observed
  <2>2. Mine' = Mine /\ Me.pc # "refused" /\ Me'.pc # "refused"
    BY <1>2, PollObservesFacts, ContenderFailsFacts DEF Done
  <2> QED
    BY <2>1, <2>2, HoldsKept
<1>3. CASE ContenderReads
  <2>1. publishing' = publishing /\ deferred' = deferred
    BY <1>3, ContenderSteps DEF registry
  <2>2. Mine' = Mine /\ Me.pc # "refused" /\ Me'.pc # "refused"
    BY <1>3, ContenderReadsFacts
  <2> QED
    BY <1>0, <2>1, <2>2, HoldsKept
<1>4. CASE ContenderCompares
  <2>1. publishing' = publishing
    BY <1>4, ContenderSteps
  <2>3. \/ deferred' = deferred \/ deferred' = FALSE
        \/ \E clean, fresh : Observe(clean, fresh)
    BY <1>4, ContenderComparesFacts
  <2>4. deferred' \in BOOLEAN /\ (deferred' => deferred)
    BY <1>0, <2>3, Observed
  <2>2. Mine' = Mine /\ Me.pc # "refused" /\ Me'.pc # "refused"
    BY <1>4, ContenderComparesFacts DEF Done
  <2> QED
    BY <2>1, <2>2, <2>4, HoldsKept
<1>5. CASE Submits
  BY <1>5, SubmitsFacts, HoldSteps, IdlePc DEF HoldsOK
<1>6. CASE SubmitRefused
  <2>1. Mine' = Mine /\ Me.pc = "refused" /\ Me'.pc # "refused"
    BY <1>6, SubmitRefusedFacts
  <2> QED
    BY <1>6, <2>1, HoldSteps, Released
<1> QED
  BY <1>1, <1>2, <1>3, <1>4, <1>5, <1>6 DEF Polls

\* The steps behind the guards move the worker alone, and it stays on its pass.
Routings == \/ MarksPolledClose \/ GuardsEnding \/ GuardsLive \/ GuardsRetired \/ Walks \/ Marks
            \/ Restarts \/ Handles \/ Retires \/ ClosesWindow \/ Sweeps

LEMMA RoutingsPc ==
    ASSUME RunOK, RegistryOK, Routings
    PROVE  /\ Mine.pc \in RecordPc \cup MarkPc \cup WindowPc \cup {"restarted"}
           /\ Mine'.pc \in RecordPc \cup MarkPc \cup WindowPc \cup {"restarted", "exit", "raised"}
           /\ Me'.pc = Me.pc /\ Me'.saw = Me.saw /\ Kept(Me', Me) /\ Me'.kind = Me.kind
           /\ Me'.back = Me.back /\ (Me'.clean => Me.clean)
<1>1. Mine.pc \in RecordPc \cup MarkPc \cup WindowPc \cup {"restarted"}
  BY MarksPolledFacts, GuardsEndingFacts, GuardsRoutedFacts, WalksFacts, MarksFacts,
     RestartsFacts, HandlesFacts, RetiresFacts, ClosesWindowFacts, SweepsFacts
     DEF Routings, RecordPc, MarkPc, WindowPc
<1>2. CASE Restarts
  BY <1>1, <1>2, RestartsFacts DEF Routed1, Kept, RecordPc, MarkPc, WindowPc
<1>3. CASE ~Restarts
  <2>1. \/ ToWalk
        \/ \E there \in RecordPc \cup MarkPc \cup WindowPc \cup {"exit", "raised"} : Routed1(there)
    BY <1>3, MarksPolledFacts, GuardsEndingFacts, GuardsRoutedFacts, WalksFacts, MarksFacts,
       HandlesFacts, RetiresFacts, ClosesWindowFacts, SweepsFacts
       DEF Routings, RecordPc, MarkPc, WindowPc
  <2> QED
    BY <1>1, <2>1 DEF ToWalk, Routed1, RecordPc, Kept
<1> QED
  BY <1>2, <1>3

LEMMA HoldsPasses ==
    ASSUME RunOK, RegistryOK, HoldsOK, Passes
    PROVE  HoldsOK'
<1>0. deferred \in BOOLEAN
  BY DEF HoldsOK
<1>1. CASE WorkClaims \/ Refetches \/ Guards \/ AsksSettled \/ WorkLeaves
  <2>0. publishing' = publishing /\ deferred' = deferred
    BY <1>1, QuietSteps, ClaimSteps DEF registry, Thread
  <2>1. publishing' = publishing /\ deferred' \in BOOLEAN /\ (deferred' => deferred)
    BY <1>0, <2>0
  <2>2. Me' = Me /\ Mine.pc # "idle" /\ Mine'.pc # "idle"
    BY <1>1, WorkClaimsFacts, RefetchesFacts, GuardsFacts, AsksSettledFacts, WorkLeavesFacts
       DEF Routed1, WorkLeaves
  <2> QED
    BY <2>1, <2>2, HoldsKept
<1>2. CASE Notices \/ Exits
  <2>3. deferred' = deferred \/ \E clean, fresh : Observe(clean, fresh)
    BY <1>2, NoticesFacts, ExitsFacts
  <2>1. publishing' = publishing /\ deferred' \in BOOLEAN /\ (deferred' => deferred)
    BY <1>0, <1>2, <2>3, ObserveSteps, Observed
  <2>2. Me' = Me /\ Mine.pc # "idle" /\ Mine'.pc # "idle"
    BY <1>2, NoticesFacts, ExitsFacts
  <2> QED
    BY <2>1, <2>2, HoldsKept
<1>3. CASE GivesBack
  <2>1. Me' = Me /\ Mine.pc = "given_back" /\ Mine'.pc = "idle"
    BY <1>3, GivesBackFacts, IdlePc
  <2> QED
    BY <1>3, <2>1, HoldSteps, Released
<1>4. CASE Routings
  <2>3. publishing' = publishing /\ (deferred' = deferred \/ deferred' = FALSE)
    BY <1>4, GuardSteps, MarksPolledFacts DEF Routings
  <2>1. publishing' = publishing /\ deferred' \in BOOLEAN /\ (deferred' => deferred)
    BY <1>0, <2>3, Observed
  <2>2. Me'.pc = Me.pc /\ Mine.pc # "idle" /\ Mine'.pc # "idle"
    BY <1>4, RoutingsPc DEF RecordPc, MarkPc, WindowPc
  <2> QED
    BY <2>1, <2>2, HoldsKept
<1> QED
  BY <1>1, <1>2, <1>3, <1>4 DEF Passes, Routings

Elsewhere == HumanFlips \/ OtherTakes \/ OtherLeaves \/ OtherWrites

LEMMA ElsewherePc ==
    ASSUME RunOK, Elsewhere
    PROVE  /\ Me'.pc = Me.pc /\ Me'.saw = Me.saw /\ Kept(Me', Me) /\ Me'.kind = Me.kind
           /\ Me'.back = Me.back /\ (Me'.clean => Me.clean)
           /\ Mine'.pc = Mine.pc /\ Mine'.saw = Mine.saw /\ Kept(Mine', Mine)
           /\ Mine'.kind = Mine.kind /\ Mine'.back = Mine.back
           /\ (Mine'.clean => Mine.clean)
           /\ UNCHANGED <<posting, retiring, publishing, deferred, fenced>>
<1>1. CASE OtherTakes
  BY <1>1, OtherTakesFacts DEF OtherTakes
<1>2. CASE HumanFlips \/ OtherLeaves \/ OtherWrites
  <2>1. run' = run /\ UNCHANGED <<posting, retiring, publishing, deferred, fenced>>
    BY <1>2 DEF HumanFlips, OtherLeaves, OtherWrites, registry
  <2> QED
    BY <2>1 DEF Kept, Me, Mine
<1> QED
  BY <1>1, <1>2 DEF Elsewhere

LEMMA HoldsElsewhere ==
    ASSUME RunOK, HoldsOK, Elsewhere
    PROVE  HoldsOK'
  BY HoldsKept, ElsewherePc DEF HoldsOK

-----------------------------------------------------------------------------
(***************************************************************************)
(* The reading that is latched: kept by every step, or dropped whole with  *)
(* the last hold on it gone.                                               *)
(***************************************************************************)
ReadingKept == (latch.seen => latch'.seen) /\ LatchOK'
ReadingDropped == Dropped /\ publishing' = 0 /\ ~deferred'

LEMMA LatchUntouched ==
    ASSUME LatchOK, latch' = latch, deferred' = deferred
    PROVE  ReadingKept
  BY DEF ReadingKept, LatchOK

LEMMA LatchScoped ==
    ASSUME RegistryOK, LatchOK, NEW c, latch' = [latch EXCEPT !.scope = c], deferred' = deferred
    PROVE  ReadingKept
<1>1. latch'.seen = latch.seen /\ latch'.clean = latch.clean /\ latch'.memo = latch.memo
  BY DEF RegistryOK
<1> QED
  BY <1>1 DEF ReadingKept, LatchOK

LEMMA LatchAsked ==
    ASSUME RegistryOK, LatchOK, NEW c, Asked(c), deferred' = deferred
    PROVE  ReadingKept
  BY LatchScoped, LatchUntouched DEF Asked

LEMMA LatchStaled ==
    ASSUME RegistryOK, LatchOK, latch' = [latch EXCEPT !.clean = FALSE], deferred' = deferred
    PROVE  ReadingKept
<1>1. latch'.seen = latch.seen /\ ~latch'.clean /\ latch'.memo = latch.memo
  BY DEF RegistryOK
<1> QED
  BY <1>1 DEF ReadingKept, LatchOK

LEMMA LatchObserved ==
    ASSUME RegistryOK, LatchOK, NEW clean, NEW fresh, clean => fresh, Observe(clean, fresh)
    PROVE  ReadingKept /\ latch'.seen
<1> DEFINE b == latch.clean \/ clean
<1>1. latch' = [latch EXCEPT !.seen = TRUE, !.clean = b] /\ deferred' = (deferred /\ ~fresh)
  BY DEF Observe, RegistryOK
<1>2. latch'.seen /\ latch'.clean = b
  <2> HIDE DEF b
  <2> QED
    BY <1>1 DEF RegistryOK
<1>3. deferred' => ~latch.clean /\ ~clean
  BY <1>1 DEF LatchOK
<1> QED
  BY <1>2, <1>3 DEF ReadingKept, LatchOK

LEMMA LatchTaken ==
    ASSUME RegistryOK, LatchOK, deferred' = FALSE, latch'.seen
    PROVE  ReadingKept
  BY DEF ReadingKept, LatchOK

LEMMA LatchReleased ==
    ASSUME HoldsOK, LatchOK, ReleaseHold
    PROVE  \/ ReadingKept /\ posting' = posting
           \/ ReadingDropped
<1>1. CASE deferred /\ publishing = 1
  <2>1. publishing' = 0
    BY <1>1 DEF ReleaseHold
  <2>2. Dropped /\ deferred' = (deferred /\ publishing > 1)
    BY <1>1 DEF ReleaseHold
  <2>3. ~(publishing > 1)
    BY <1>1
  <2> QED
    BY <2>1, <2>2, <2>3 DEF ReadingDropped
<1>2. CASE ~(deferred /\ publishing = 1)
  <2>1. UNCHANGED <<latch, posting>> /\ (deferred' => deferred)
    BY <1>2 DEF ReleaseHold
  <2> QED
    BY <2>1 DEF ReadingKept, LatchOK
<1> QED
  BY <1>1, <1>2

LEMMA LatchPosts ==
    ASSUME RunOK, RegistryOK, HoldsOK, OwnerOK, LatchOK, SeenOK, NEW t \in Thread, Posts(t)
    PROVE  \/ ReadingKept
           \/ ReadingDropped /\ run'[t].pc = After[run[t].back]
<1>1. CASE Probe(t) \/ PostReadIssue(t) \/ PostReadRecord(t) \/ PostReadAgain(t)
             \/ PostReadBehind(t) \/ ClaimPost(t) \/ PostNamed(t) \/ PostFails(t)
  BY <1>1, QuietSteps, PostingSteps, LatchUntouched DEF registry
<1>2. CASE PostTied(t)
  BY <1>2, PostTiedFacts, ReceiptSteps, LatchScoped, LatchUntouched
<1>3. CASE PostLands(t)
  <2>1. CASE posting = "current"
    <3>1. latch.seen
      BY <1>3, <2>1, PostEndsFacts DEF OwnerOK
    <3>2. latch' = [latch EXCEPT !.memo = run[t].named] /\ deferred' = deferred
      BY <1>3, <2>1, ReceiptSteps
    <3>3. latch'.seen = latch.seen /\ latch'.clean = latch.clean
      BY <3>2 DEF RegistryOK
    <3> QED
      BY <3>1, <3>2, <3>3 DEF ReadingKept, LatchOK
  <2>2. CASE posting # "current"
    BY <1>3, <2>2, ReceiptSteps, LatchUntouched
  <2> QED
    BY <2>1, <2>2
<1>4. CASE SettleAfter(t)
  <2>0. run[t].pc = "settle" /\ run'[t].pc = After[run[t].back] /\ Settle /\ publishing' = publishing
    BY <1>4, SettleAfterFacts, ReceiptSteps
  <2>1. CASE publishing > 0
    <3>1. latch.seen
      BY <2>0, <2>1 DEF SeenOK, ReceiptPc, Thread, Me, Mine
    <3>2. latch' = [latch EXCEPT !.clean = FALSE] /\ deferred' = TRUE
      BY <2>0, <2>1 DEF Settle
    <3>3. latch'.seen = latch.seen /\ ~latch'.clean
      BY <3>2 DEF RegistryOK
    <3> QED
      BY <3>1, <3>2, <3>3 DEF ReadingKept, LatchOK
  <2>2. CASE ~(publishing > 0)
    <3>1. Dropped /\ deferred' = deferred
      BY <2>0, <2>2 DEF Settle
    <3>2. publishing = 0 /\ ~deferred
      BY <2>2 DEF HoldsOK
    <3> QED
      BY <2>0, <3>1, <3>2 DEF ReadingDropped
  <2> QED
    BY <2>1, <2>2
<1> QED
  BY <1>1, <1>2, <1>3, <1>4 DEF Posts

LEMMA LatchPolls ==
    ASSUME RunOK, RegistryOK, HoldsOK, LatchOK, SeenOK, Polls
    PROVE  \/ ReadingKept /\ posting' = posting
           \/ ReadingDropped
<1>1. CASE PollMoment \/ PollLists \/ PollClaims \/ PollLeaves \/ RefusedAgain
  BY <1>1, QuietSteps, ClaimSteps, LatchUntouched DEF registry, Thread
<1>2. CASE PollObserves \/ RefusedDefers \/ ContenderFails
  <2>1. \E clean, fresh : (clean => fresh) /\ Observe(clean, fresh)
    BY <1>2, PollObservesFacts, ContenderFailsFacts DEF SeenOK
  <2> QED
    BY <1>2, <2>1, ObserveSteps, LatchObserved
<1>3. CASE ContenderReads \/ Submits
  BY <1>3, ContenderSteps, HoldSteps, LatchUntouched DEF registry
<1>4. CASE ContenderCompares
  <2>1. \/ UNCHANGED <<latch, deferred>>
        \/ deferred' = FALSE /\ \E c : latch' = [latch EXCEPT !.seen = TRUE, !.scope = c]
        \/ Observe(FALSE, TRUE)
    BY <1>4, ContenderComparesFacts
  <2>2. ASSUME NEW c, latch' = [latch EXCEPT !.seen = TRUE, !.scope = c] PROVE latch'.seen
    BY <2>2 DEF RegistryOK
  <2>3. ReadingKept
    BY <2>1, <2>2, LatchUntouched, LatchTaken, LatchObserved
  <2> QED
    BY <1>4, <2>3, ContenderSteps
<1>5. CASE SubmitRefused
  BY <1>5, HoldSteps, LatchReleased
<1> QED
  BY <1>1, <1>2, <1>3, <1>4, <1>5 DEF Polls

LEMMA LatchPasses ==
    ASSUME RunOK, RegistryOK, HoldsOK, LatchOK, Passes
    PROVE  \/ ReadingKept /\ posting' = posting
           \/ ReadingDropped
<1>1. CASE WorkClaims \/ Refetches \/ Guards \/ AsksSettled \/ WorkLeaves
  BY <1>1, QuietSteps, ClaimSteps, LatchUntouched DEF registry, Thread
<1>2. CASE Notices \/ Exits
  <2>1. \/ UNCHANGED <<latch, deferred>>
        \/ \E clean, fresh : (clean => fresh) /\ Observe(clean, fresh)
    BY <1>2, NoticesFacts, ExitsFacts
  <2> QED
    BY <1>2, <2>1, ObserveSteps, LatchObserved, LatchUntouched
<1>3. CASE GivesBack
  BY <1>3, HoldSteps, LatchReleased
<1>4. CASE GuardsEnding \/ GuardsLive \/ GuardsRetired \/ Walks \/ Marks \/ Retires
  BY <1>4, GuardSteps, LatchUntouched
<1>5. CASE MarksPolledClose
  <2>1. latch'.seen /\ deferred' = FALSE
    BY <1>5, MarksPolledFacts DEF RegistryOK
  <2> QED
    BY <1>5, <2>1, GuardSteps, LatchTaken
<1>6. CASE Restarts
  BY <1>6, GuardSteps, RestartsFacts, LatchUntouched, LatchStaled
<1>7. CASE Handles \/ ClosesWindow
  BY <1>7, GuardSteps, HandlesFacts, ClosesWindowFacts, LatchUntouched, LatchAsked
<1>8. CASE Sweeps
  BY <1>8, GuardSteps, SweepsFacts, LatchUntouched, LatchAsked, LatchScoped
<1> QED
  BY <1>1, <1>2, <1>3, <1>4, <1>5, <1>6, <1>7, <1>8 DEF Passes

LEMMA LatchElsewhere ==
    ASSUME RunOK, RegistryOK, LatchOK, Elsewhere
    PROVE  ReadingKept /\ posting' = posting
<1>1. CASE OtherTakes
  BY <1>1, LatchStaled DEF OtherTakes
<1>2. CASE HumanFlips \/ OtherLeaves \/ OtherWrites
  BY <1>2, LatchUntouched DEF HumanFlips, OtherLeaves, OtherWrites, registry
<1> QED
  BY <1>1, <1>2 DEF Elsewhere

-----------------------------------------------------------------------------
(***************************************************************************)
(* One post at a time, and the readings it is of.                          *)
(***************************************************************************)
\* Outside a receipt no thread comes to own the post, and what is owned stays so.
LEMMA OwnerKept ==
    ASSUME RunOK, OwnerOK,
           Me'.pc \in OwnerPc => Me'.pc = Me.pc, Mine'.pc \in OwnerPc => Mine'.pc = Mine.pc,
           \/ posting' = posting /\ (latch.seen => latch'.seen)
           \/ Dropped
    PROVE  OwnerOK'
<1>1. \A t \in Thread : run'[t].pc \in OwnerPc => run'[t].pc = run[t].pc
  BY DEF Thread, Me, Mine
<1>2. posting # "none" => posting' # "none"
  BY DEF Dropped
<1>3. posting' = "current" => posting = "current" /\ (latch.seen => latch'.seen)
  BY DEF Dropped
<1>4. ~(Me'.pc \in OwnerPc /\ Mine'.pc \in OwnerPc)
  BY DEF OwnerOK
<1>5. \A t \in Thread : run'[t].pc \in OwnerPc => posting' # "none"
  BY <1>1, <1>2 DEF OwnerOK
<1>6. \A t \in Thread : run'[t].pc = "land" /\ posting' = "current" => latch'.seen
  BY <1>1, <1>3 DEF OwnerOK, OwnerPc
<1> QED
  BY <1>4, <1>5, <1>6 DEF OwnerOK

LEMMA PollsPc ==
    ASSUME RunOK, Polls
    PROVE  /\ Me.pc \notin ReceiptPc
           /\ Me'.pc \in ReceiptPc => PollObserves \/ RefusedDefers
           /\ Me'.pc \notin OwnerPc
<1>1. CASE PollObserves \/ RefusedDefers
  BY <1>1, PollObservesFacts DEF ReceiptPc, OwnerPc
<1>2. ASSUME ~(PollObserves \/ RefusedDefers)
      PROVE  Me.pc \notin ReceiptPc /\ Me'.pc \notin ReceiptPc
  <2>1. CASE PollMoment \/ PollLists \/ PollClaims
    BY <2>1, PollMomentFacts, PollListsFacts, PollClaimsFacts DEF ReceiptPc
  <2>2. CASE PollLeaves \/ RefusedAgain
    BY <2>2, PollLeavesFacts, RefusedAgainFacts, IdlePc DEF ReceiptPc
  <2>3. CASE Submits \/ SubmitRefused
    BY <2>3, SubmitsFacts, SubmitRefusedFacts, IdlePc DEF ReceiptPc
  <2>4. CASE ContenderReads \/ ContenderCompares \/ ContenderFails
    BY <2>4, ContenderReadsFacts, ContenderComparesFacts, ContenderFailsFacts
       DEF Done, ReceiptPc
  <2> QED
    BY <1>2, <2>1, <2>2, <2>3, <2>4 DEF Polls
<1> QED
  BY <1>1, <1>2 DEF OwnerPc, ReceiptPc

\* A submit hands the poll to a worker; no other step of it moves one.
LEMMA PollsMine ==
    ASSUME RunOK, Polls
    PROVE  \/ Mine' = Mine
           \/ Submits /\ Mine.pc = "idle" /\ Mine'.pc = "queued"
<1>1. CASE PollMoment \/ PollLists \/ PollClaims \/ PollLeaves \/ RefusedAgain
  BY <1>1, PollMomentFacts, PollListsFacts, PollClaimsFacts, PollLeavesFacts, RefusedAgainFacts
<1>2. CASE PollObserves \/ RefusedDefers \/ SubmitRefused
  BY <1>2, PollObservesFacts, SubmitRefusedFacts
<1>3. CASE ContenderReads \/ ContenderCompares \/ ContenderFails
  BY <1>3, ContenderReadsFacts, ContenderComparesFacts, ContenderFailsFacts
<1>4. CASE Submits
  BY <1>4, SubmitsFacts
<1> QED
  BY <1>1, <1>2, <1>3, <1>4 DEF Polls

\* A pass enters a receipt, or the question whether one is settled, as it says.
LEMMA PassesPc ==
    ASSUME RunOK, RegistryOK, Passes
    PROVE  /\ Mine.pc \notin ReceiptPc \cup {"idle"}
           /\ Mine'.pc \notin OwnerPc
           /\ Mine'.pc \in ReceiptPc \cup {"asks_settled", "asks_ending"} => Notices \/ Exits \/ AsksSettled
<1>1. ASSUME Notices \/ Exits \/ AsksSettled
      PROVE  Mine.pc \notin ReceiptPc \cup {"idle"} /\ Mine'.pc \notin OwnerPc
  BY <1>1, AsksSettledFacts, NoticesFacts, ExitsFacts DEF ReceiptPc, OwnerPc
<1>2. ASSUME ~(Notices \/ Exits \/ AsksSettled)
      PROVE  /\ Mine.pc \notin ReceiptPc \cup {"idle"}
             /\ Mine'.pc \notin ReceiptPc \cup {"asks_settled", "asks_ending"}
  <2>1. CASE WorkClaims \/ Refetches \/ Guards
    BY <2>1, WorkClaimsFacts, RefetchesFacts, GuardsFacts DEF Routed1, ReceiptPc
  <2>2. CASE WorkLeaves \/ GivesBack
    BY <2>2, WorkLeavesFacts, GivesBackFacts, IdlePc DEF ReceiptPc
  <2>3. CASE Routings
    BY <2>3, RoutingsPc DEF ReceiptPc, RecordPc, MarkPc, WindowPc
  <2> QED
    BY <1>2, <2>1, <2>2, <2>3 DEF Passes, Routings
<1> QED
  BY <1>1, <1>2 DEF OwnerPc, ReceiptPc

\* What the polling thread has read is its own, though its moment may go stale.
LEMMA PassesMe ==
    ASSUME RunOK, RegistryOK, Passes
    PROVE  /\ Me'.pc = Me.pc /\ Me'.saw = Me.saw /\ Kept(Me', Me) /\ Me'.kind = Me.kind
           /\ Me'.back = Me.back /\ (Me'.clean => Me.clean)
<1>0. ASSUME Me' = Me
      PROVE  /\ Me'.pc = Me.pc /\ Me'.saw = Me.saw /\ Kept(Me', Me) /\ Me'.kind = Me.kind
             /\ Me'.back = Me.back /\ (Me'.clean => Me.clean)
  BY <1>0 DEF Kept
<1>1. CASE WorkClaims \/ Refetches \/ Guards
  BY <1>0, <1>1, WorkClaimsFacts, RefetchesFacts, GuardsFacts DEF Routed1
<1>2. CASE AsksSettled \/ Notices \/ Exits \/ WorkLeaves \/ GivesBack
  BY <1>0, <1>2, AsksSettledFacts, NoticesFacts, ExitsFacts, WorkLeavesFacts, GivesBackFacts
<1>3. CASE Routings
  BY <1>3, RoutingsPc
<1> QED
  BY <1>1, <1>2, <1>3 DEF Passes, Routings

LEMMA OwnerPosts ==
    ASSUME RunOK, RegistryOK, HoldsOK, OwnerOK, LatchOK, SeenOK, NEW t \in Thread, Posts(t)
    PROVE  OwnerOK'
<1>0. /\ Others(t) /\ run[t].pc \in ReceiptPc /\ run'[t].pc \in ReceiptPc \cup {After[run[t].back]}
      /\ After[run[t].back] \in {"unclaim", "guard", "leave"}
  BY PostsPc
<1>1. CASE run[t].pc \in OwnerPc /\ run'[t].pc \in OwnerPc /\ posting' = posting
           /\ (latch.seen => latch'.seen) /\ (run'[t].pc = "land" => latch'.seen)
  <2>1. \A u \in Thread : run'[u].pc \in OwnerPc => run[u].pc \in OwnerPc
    BY <1>0, <1>1 DEF Others
  <2>2. \A u \in Thread : run'[u].pc = "land" /\ posting' = "current" => latch'.seen
    BY <1>0, <1>1 DEF Others, OwnerOK
  <2> QED
    BY <1>1, <2>1, <2>2 DEF OwnerOK, Thread, Me, Mine
<1>2. CASE run[t].pc \in OwnerPc /\ run'[t].pc \notin OwnerPc
  <2>1. \A u \in Thread : run'[u].pc \notin OwnerPc
    BY <1>0, <1>2 DEF Others, OwnerOK, Thread, Me, Mine
  <2> QED
    BY <2>1 DEF OwnerOK, Thread, Me, Mine, OwnerPc
<1>3. CASE run[t].pc \notin OwnerPc /\ run'[t].pc \in OwnerPc \ {"land"}
           /\ posting = "none" /\ posting' = "current"
  <2>1. \A u \in Thread : run[u].pc \notin OwnerPc
    BY <1>3 DEF OwnerOK
  <2>2. \A u \in Thread : run'[u].pc \in OwnerPc => u = t
    BY <1>0, <2>1 DEF Others
  <2> QED
    BY <1>3, <2>2 DEF OwnerOK, Thread, Me, Mine, OwnerPc
<1>4. CASE run[t].pc \notin OwnerPc /\ run'[t].pc \notin OwnerPc
           /\ \/ posting' = posting /\ (latch.seen => latch'.seen)
              \/ Dropped
  <2>1. /\ Me'.pc \in OwnerPc => Me'.pc = Me.pc
        /\ Mine'.pc \in OwnerPc => Mine'.pc = Mine.pc
    BY <1>0, <1>4 DEF Others, Thread, Me, Mine
  <2> QED
    BY <1>4, <2>1, OwnerKept
<1>5. CASE ClaimPost(t)
  <2>1. latch' = latch
    BY <1>5, PostingSteps
  <2> QED
    BY <1>3, <1>4, <1>5, <2>1, ClaimPostFacts DEF OwnerPc
<1>6. CASE Probe(t)
  <2>1. latch' = latch /\ posting' = posting
    BY <1>6, QuietSteps DEF registry
  <2>2. run[t].pc \notin OwnerPc /\ run'[t].pc \notin OwnerPc
    BY <1>0, <1>6, ProbeFacts DEF OwnerPc, Back
  <2> QED
    BY <1>4, <2>1, <2>2
<1>7. CASE PostReadIssue(t) \/ PostReadAgain(t) \/ PostReadRecord(t) \/ PostReadBehind(t)
  <2>1. latch' = latch /\ posting' = posting
    BY <1>7, QuietSteps DEF registry
  <2>2. run[t].pc \in OwnerPc /\ run'[t].pc \in OwnerPc \ {"land"}
    BY <1>7, PostReadsIssueFacts, PostReadsRecordFacts DEF OwnerPc
  <2> QED
    BY <1>1, <2>1, <2>2
<1>b. \A keep : Back(t, keep) => run'[t].pc \notin OwnerPc
  BY <1>0 DEF Back, OwnerPc
<1>8. CASE PostNamed(t)
  <2>1. latch' = latch
    BY <1>8, PostingSteps
  <2> QED
    BY <1>1, <1>2, <1>8, <1>b, <2>1, PostNamedFacts DEF OwnerPc
<1>9. CASE PostTied(t)
  <2>1. latch'.seen = latch.seen
    BY <1>9, PostTiedFacts DEF RegistryOK
  <2> QED
    BY <1>1, <1>2, <1>9, <1>b, <2>1, PostTiedFacts DEF OwnerPc
<1>10. CASE PostLands(t) \/ PostFails(t)
  BY <1>2, <1>10, <1>b, PostEndsFacts
<1>11. CASE SettleAfter(t)
  <2>1. run[t].pc \notin OwnerPc /\ run'[t].pc \notin OwnerPc
    BY <1>0, <1>11, SettleAfterFacts DEF OwnerPc
  <2>2. Settle
    BY <1>11, SettleAfterFacts
  <2>3. \/ posting' = posting /\ (latch.seen => latch'.seen)
        \/ Dropped
    BY <2>2 DEF Settle, RegistryOK
  <2> QED
    BY <1>4, <2>1, <2>3
<1> QED
  BY <1>5, <1>6, <1>7, <1>8, <1>9, <1>10, <1>11 DEF Posts

LEMMA OwnerStep ==
    ASSUME RunOK, RegistryOK, HoldsOK, OwnerOK, LatchOK, SeenOK, [Next]_vars
    PROVE  OwnerOK'
<1>1. CASE \E t \in Thread : Posts(t)
  BY <1>1, OwnerPosts
<1>2. CASE Polls
  <2>1. /\ Me'.pc \in OwnerPc => Me'.pc = Me.pc
        /\ Mine'.pc \in OwnerPc => Mine'.pc = Mine.pc
    BY <1>2, PollsPc, PollsMine DEF OwnerPc
  <2> QED
    BY <1>2, <2>1, OwnerKept, LatchPolls DEF ReadingKept, ReadingDropped
<1>3. CASE Passes
  <2>1. /\ Me'.pc \in OwnerPc => Me'.pc = Me.pc
        /\ Mine'.pc \in OwnerPc => Mine'.pc = Mine.pc
    BY <1>3, PassesPc, PassesMe
  <2> QED
    BY <1>3, <2>1, OwnerKept, LatchPasses DEF ReadingKept, ReadingDropped
<1>4. CASE Elsewhere
  BY <1>4, ElsewherePc, OwnerKept, LatchElsewhere DEF ReadingKept
<1>5. CASE UNCHANGED vars
  BY <1>5 DEF vars, registry, OwnerOK, Me, Mine
<1> QED
  BY <1>1, <1>2, <1>3, <1>4, <1>5 DEF Next, Elsewhere

LEMMA LatchStep ==
    ASSUME RunOK, RegistryOK, HoldsOK, OwnerOK, LatchOK, SeenOK, [Next]_vars
    PROVE  /\ ReadingKept \/ ReadingDropped
           /\ LatchOK'
<1>1. ReadingKept \/ ReadingDropped
  <2>1. CASE \E t \in Thread : Posts(t)
    BY <2>1, LatchPosts
  <2>2. CASE Polls
    BY <2>2, LatchPolls
  <2>3. CASE Passes
    BY <2>3, LatchPasses
  <2>4. CASE Elsewhere
    BY <2>4, LatchElsewhere
  <2>5. CASE UNCHANGED vars
    BY <2>5, LatchUntouched DEF vars, registry
  <2> QED
    BY <2>1, <2>2, <2>3, <2>4, <2>5 DEF Next, Elsewhere
<1>2. ReadingDropped => LatchOK'
  BY DEF ReadingDropped, Dropped, NoLatch, LatchOK
<1> QED
  BY <1>1, <1>2 DEF ReadingKept

\* A moment the poll carries to its claim is of a close it lists.
LEMMA ListedPc ==
    ASSUME RunOK, Polls, Me'.pc \in {"claim", "listed"}
    PROVE  \/ Me'.clean => Me'.saw
           \/ Me.pc = "claim" /\ Me'.clean = Me.clean /\ Me'.saw = Me.saw
<1>1. CASE PollMoment \/ PollLists \/ PollClaims
  BY <1>1, PollMomentFacts, PollListsFacts, PollClaimsFacts DEF Same, Carried
<1>2. CASE PollLeaves \/ RefusedAgain
  BY <1>2, PollLeavesFacts, RefusedAgainFacts, IdlePc
<1>3. CASE Submits \/ SubmitRefused
  BY <1>3, SubmitsFacts, SubmitRefusedFacts, IdlePc
<1>4. CASE ContenderReads \/ ContenderCompares \/ ContenderFails
  BY <1>4, ContenderReadsFacts, ContenderComparesFacts, ContenderFailsFacts DEF Done
<1>5. CASE PollObserves \/ RefusedDefers
  BY <1>5, PollObservesFacts
<1> QED
  BY <1>1, <1>2, <1>3, <1>4, <1>5 DEF Polls

LEMMA SeenStep ==
    ASSUME RunOK, RegistryOK, HoldsOK, HoldsOK', OwnerOK, LatchOK, SeenOK, [Next]_vars
    PROVE  SeenOK'
<1>d. ReadingKept \/ ReadingDropped
  BY LatchStep
<1>e. (latch.seen => latch'.seen) \/ publishing' = 0
  BY <1>d DEF ReadingKept, ReadingDropped
<1>w. Mine'.pc # "idle" => publishing' > 0
  BY DEF HoldsOK
<1>1. CASE \E t \in Thread : Posts(t)
  <2>0. PICK t \in Thread : Posts(t)
    BY <1>1
  <2>1. /\ Me'.pc \in ReceiptPc => Me.pc \in ReceiptPc
        /\ Mine'.pc \in ReceiptPc => Mine.pc \in ReceiptPc
        /\ Mine'.pc \in {"asks_settled", "asks_ending"} => Mine.pc \in {"asks_settled", "asks_ending"}
        /\ Me'.pc \in {"claim", "listed"} => Me' = Me
    BY <2>0, PostsPc DEF Thread, ReceiptPc
  <2>2. publishing' = publishing
    <3>1. CASE Probe(t) \/ PostReadIssue(t) \/ PostReadRecord(t) \/ PostReadAgain(t)
             \/ PostReadBehind(t) \/ ClaimPost(t) \/ PostNamed(t) \/ PostFails(t)
      BY <3>1, QuietSteps, PostingSteps DEF registry
    <3>2. CASE PostTied(t) \/ PostLands(t) \/ SettleAfter(t)
      BY <3>2, ReceiptSteps
    <3> QED
      BY <2>0, <3>1, <3>2 DEF Posts
  <2>3. Me'.pc \in ReceiptPc /\ publishing' > 0 => latch'.seen
    BY <1>e, <2>1, <2>2 DEF SeenOK
  <2>4. Mine'.pc \in ReceiptPc \cup {"asks_settled", "asks_ending"} => latch'.seen
    BY <1>e, <1>w, <2>1 DEF SeenOK, ReceiptPc
  <2> QED
    BY <2>1, <2>3, <2>4 DEF SeenOK
<1>2. CASE Polls
  <2>1. Me'.pc \in ReceiptPc => latch'.seen
    BY <1>2, PollsPc, PollObservesFacts DEF Observe, RegistryOK
  <2>2. Mine'.pc \in ReceiptPc \cup {"asks_settled", "asks_ending"} => latch'.seen
    BY <1>2, <1>e, <1>w, PollsMine DEF SeenOK, ReceiptPc
  <2>3. Me'.pc \in {"claim", "listed"} /\ Me'.clean => Me'.saw
    BY <1>2, ListedPc DEF SeenOK
  <2> QED
    BY <2>1, <2>2, <2>3 DEF SeenOK
<1>3. CASE Passes
  <2>0. Mine.pc # "idle" /\ publishing > 0
    BY <1>3, PassesPc DEF HoldsOK
  <2>1. Me'.pc \in ReceiptPc /\ publishing' > 0 => latch'.seen
    BY <1>3, <1>e, <2>0, PassesMe DEF SeenOK
  <2>2. Mine'.pc \in ReceiptPc \cup {"asks_settled", "asks_ending"} => latch'.seen
    <3>1. CASE Notices
      BY <1>3, <3>1, NoticesFacts DEF Observe, RegistryOK
    <3>2. CASE Exits
      BY <1>3, <3>2, ExitsFacts DEF Observe, RegistryOK, ReceiptPc
    <3>3. CASE AsksSettled
      <4>1. latch' = latch
        BY <3>3, QuietSteps DEF registry, Thread
      <4> QED
        BY <3>3, <4>1, AsksSettledFacts DEF SeenOK
    <3> QED
      BY <1>3, <3>1, <3>2, <3>3, PassesPc
  <2>3. Me'.pc \in {"claim", "listed"} /\ Me'.clean => Me'.saw
    BY <1>3, PassesMe DEF SeenOK
  <2> QED
    BY <2>1, <2>2, <2>3 DEF SeenOK
<1>4. CASE Elsewhere
  BY <1>4, ElsewherePc, LatchElsewhere DEF ReadingKept, SeenOK
<1>5. CASE UNCHANGED vars
  BY <1>5 DEF vars, registry, SeenOK, Me, Mine
<1> QED
  BY <1>1, <1>2, <1>3, <1>4, <1>5 DEF Next, Elsewhere

-----------------------------------------------------------------------------
(***************************************************************************)
(* The writer claim.                                                       *)
(***************************************************************************)
ClaimTyped == /\ claim \in [in : SUBSET (Thread \cup {"other"}), note : 0..MaxCycle,
                            open : BOOLEAN]
              /\ claim.in \subseteq Thread \/ claim.in = {"other"}

LEMMA Joined ==
    ASSUME ClaimTyped, NEW t \in Thread, Joins(t)
    PROVE  /\ ClaimTyped' /\ ~Refused /\ claim'.in = claim.in \cup {t}
           /\ claim'.note = IF claim.in = {} THEN NoCycle ELSE claim.note
<1>0. ~Refused /\ claim.in \subseteq Thread /\ NoCycle \in 0..MaxCycle
  BY Bounds DEF Joins, Refused, ClaimTyped, NoCycle
<1>1. CASE claim.in = {}
  <2>1. claim' = [in |-> {t}, note |-> NoCycle, open |-> FALSE]
    BY <1>1 DEF Joins, Unclaimed
  <2> QED
    BY <1>0, <1>1, <2>1 DEF ClaimTyped, Thread
<1>2. CASE claim.in # {}
  <2>1. claim' = [claim EXCEPT !.in = claim.in \cup {t}]
    BY <1>2 DEF Joins
  <2> QED
    BY <1>0, <1>2, <2>1 DEF ClaimTyped, Thread
<1> QED
  BY <1>1, <1>2

LEMMA Left ==
    ASSUME ClaimTyped, NEW t \in Thread, t \in claim.in, Leaves(t)
    PROVE  /\ ClaimTyped' /\ ~Refused /\ claim'.in = claim.in \ {t}
           /\ claim'.note = IF claim.in = {t} THEN NoCycle ELSE claim.note
<1>0. ~Refused /\ claim.in \subseteq Thread /\ NoCycle \in 0..MaxCycle
  BY Bounds DEF Refused, ClaimTyped, NoCycle, Thread
<1> DEFINE n == IF claim.in = {t} THEN NoCycle ELSE claim.note
<1>1. claim' = [claim EXCEPT !.in = claim.in \ {t}, !.note = n]
  BY DEF Leaves, ClaimTyped
<1>2. n \in 0..MaxCycle
  BY <1>0 DEF ClaimTyped
<1> HIDE DEF n
<1>3. ClaimTyped' /\ claim'.in = claim.in \ {t} /\ claim'.note = n
  BY <1>0, <1>1, <1>2 DEF ClaimTyped
<1> QED
  BY <1>0, <1>3 DEF n

\* Another poller is inside it alone, and neither thread of this one is.
LEMMA RefusedOutside ==
    ASSUME ClaimOK, Refused
    PROVE  claim.in = {"other"} /\ Me.pc \notin PollInsidePc /\ Mine.pc \notin InsidePc
  BY DEF ClaimOK, Refused, Thread

LEMMA ClaimTypes == ClaimOK => ClaimTyped
  BY DEF ClaimOK, ClaimTyped

LEMMA ClaimPosts ==
    ASSUME RunOK, ClaimOK, NEW t \in Thread, Posts(t)
    PROVE  ClaimOK' /\ claim' = claim
<1>1. claim' = claim
  <2>1. CASE Probe(t) \/ PostReadIssue(t) \/ PostReadRecord(t) \/ PostReadAgain(t)
           \/ PostReadBehind(t) \/ ClaimPost(t) \/ PostNamed(t) \/ PostFails(t)
    BY <2>1, QuietSteps, PostingSteps
  <2>2. CASE PostTied(t) \/ PostLands(t) \/ SettleAfter(t)
    BY <2>2, ReceiptSteps
  <2> QED
    BY <2>1, <2>2 DEF Posts
<1>2. Me'.pc \in PollInsidePc => Me.pc \in PollInsidePc
  BY PostsPc DEF Thread, PollInsidePc
<1>3. Mine'.pc \in InsidePc => Mine.pc \in InsidePc
  BY PostsPc DEF Thread, InsidePc
<1> QED
  BY <1>1, <1>2, <1>3 DEF ClaimOK

LEMMA ClaimPolls ==
    ASSUME RunOK, ClaimOK, Polls
    PROVE  /\ ClaimOK'
           /\ \/ claim' = claim
              \/ Joins("poll") /\ Mine' = Mine
              \/ PollLeaves /\ "poll" \in claim.in /\ Leaves("poll") /\ Mine' = Mine
<1>0. ClaimTyped
  BY ClaimTypes
<1>m. Mine'.pc \in InsidePc => Mine.pc \in InsidePc
  BY PollsMine DEF InsidePc, FrontPc, RecordPc, MarkPc, WindowPc, OutPc, ReceiptPc
<1>1. CASE claim' = claim /\ (Me'.pc \in PollInsidePc => Me.pc \in PollInsidePc)
  BY <1>1, <1>m DEF ClaimOK
<1>2. CASE Joins("poll") /\ Mine' = Mine
  BY <1>0, <1>2, <1>m, Joined DEF ClaimOK, ClaimTyped, Thread
<1>3. CASE PollMoment \/ PollLists
  <2>1. claim' = claim /\ Me'.pc \notin PollInsidePc
    BY <1>3, QuietSteps, PollMomentFacts, PollListsFacts DEF PollInsidePc, ReceiptPc, Thread
  <2> QED
    BY <1>1, <2>1
<1>4. CASE PollClaims
  BY <1>1, <1>2, <1>4, PollClaimsFacts DEF PollInsidePc, ReceiptPc
<1>5. CASE RefusedAgain
  BY <1>1, <1>2, <1>5, RefusedAgainFacts, IdlePc DEF PollInsidePc, ReceiptPc
<1>6. CASE PollObserves \/ RefusedDefers \/ ContenderFails
  <2>1. /\ claim' = claim
        /\ Me.pc \in PollInsidePc \/ Me'.pc \notin PollInsidePc
    BY <1>6, ObserveSteps, PollObservesFacts, ContenderFailsFacts DEF Done, PollInsidePc, ReceiptPc
  <2> QED
    BY <1>1, <2>1
<1>7. CASE ContenderReads \/ ContenderCompares \/ Submits \/ SubmitRefused
  <2>1. claim' = claim
    BY <1>7, ContenderSteps, HoldSteps
  <2>2. Me'.pc \notin PollInsidePc
    BY <1>7, ContenderReadsFacts, ContenderComparesFacts, SubmitsFacts, SubmitRefusedFacts, IdlePc
       DEF Done, PollInsidePc, ReceiptPc
  <2> QED
    BY <1>1, <2>1, <2>2
<1>8. CASE PollLeaves
  <2>1. Mine' = Mine /\ Me.pc = "unclaim" /\ Me'.pc \notin PollInsidePc
    BY <1>8, PollLeavesFacts, IdlePc DEF PollInsidePc, ReceiptPc
  <2>2. "poll" \in claim.in /\ Leaves("poll")
    BY <1>8, <2>1, ClaimSteps DEF ClaimOK, PollInsidePc
  <2> QED
    BY <1>0, <1>8, <1>m, <2>1, <2>2, Left DEF ClaimOK, ClaimTyped, Thread
<1> QED
  BY <1>3, <1>4, <1>5, <1>6, <1>7, <1>8 DEF Polls

LEMMA ClaimPasses ==
    ASSUME RunOK, RegistryOK, ClaimOK, Passes
    PROVE  /\ ClaimOK'
           /\ \/ claim' = claim
              \/ WorkClaims /\ Joins("work") /\ Me' = Me
              \/ WorkLeaves /\ "work" \in claim.in /\ Leaves("work") /\ Me' = Me
              \/ /\ Retires /\ Mine.pc = "note" /\ claim' = [claim EXCEPT !.note = Mine.rec.cycle]
                 /\ claim'.in = claim.in
<1>0. ClaimTyped /\ Me'.pc = Me.pc
  BY ClaimTypes, PassesMe
<1>1. CASE claim' = claim /\ (Mine'.pc \in InsidePc => Mine.pc \in InsidePc)
  BY <1>0, <1>1 DEF ClaimOK
<1>2. CASE WorkClaims
  <2>1. CASE Joins("work")
    BY <1>0, <1>2, <2>1, Joined, WorkClaimsFacts DEF ClaimOK, ClaimTyped, Thread
  <2>2. CASE claim' = claim /\ Mine'.pc = "given_back"
    BY <1>1, <2>2 DEF InsidePc, FrontPc, RecordPc, MarkPc, WindowPc, OutPc, ReceiptPc
  <2> QED
    BY <1>2, <2>1, <2>2, WorkClaimsFacts
<1>3. CASE WorkLeaves
  <2>1. Me' = Me /\ Mine.pc = "leave" /\ Mine'.pc = "given_back"
    BY <1>3, WorkLeavesFacts
  <2>2. "work" \in claim.in /\ Leaves("work")
    BY <1>3, <2>1, ClaimSteps DEF ClaimOK, InsidePc, OutPc
  <2>3. Mine'.pc \notin InsidePc
    BY <2>1 DEF InsidePc, FrontPc, RecordPc, MarkPc, WindowPc, OutPc, ReceiptPc
  <2> QED
    BY <1>0, <1>3, <2>1, <2>2, <2>3, Left DEF ClaimOK, ClaimTyped, Thread
<1>4. CASE Refetches \/ Guards \/ AsksSettled
  <2>1. claim' = claim
    BY <1>4, QuietSteps DEF Thread
  <2>2. Mine.pc \in InsidePc
    BY <1>4, RefetchesFacts, GuardsFacts, AsksSettledFacts DEF InsidePc, FrontPc, OutPc
  <2> QED
    BY <1>1, <2>1, <2>2
<1>5. CASE Notices \/ Exits
  <2>1. claim' = claim
    BY <1>5, ObserveSteps
  <2>2. Mine.pc \in InsidePc
    BY <1>5, NoticesFacts, ExitsFacts DEF InsidePc, FrontPc, OutPc
  <2> QED
    BY <1>1, <2>1, <2>2
<1>6. CASE GivesBack
  <2>1. claim' = claim
    BY <1>6, HoldSteps
  <2>2. Mine'.pc \notin InsidePc
    BY <1>6, GivesBackFacts, IdlePc DEF InsidePc, FrontPc, RecordPc, MarkPc, WindowPc, OutPc, ReceiptPc
  <2> QED
    BY <1>1, <2>1, <2>2
<1>7. CASE Routings
  <2>1. Mine.pc \in InsidePc
    BY <1>7, RoutingsPc DEF InsidePc, OutPc
  <2>2. CASE Retires
    <3>1. CASE Mine.pc = "note" /\ claim' = [claim EXCEPT !.note = Mine.rec.cycle]
      <4>1. Mine.rec.cycle \in 0..MaxCycle
        BY RunTyped DEF ThreadState, Record
      <4>2. claim'.in = claim.in /\ ClaimTyped'
        BY <1>0, <3>1, <4>1 DEF ClaimTyped
      <4> QED
        BY <1>0, <2>1, <2>2, <3>1, <4>2 DEF ClaimOK, ClaimTyped
    <3>2. CASE claim' = claim
      BY <1>1, <2>1, <3>2
    <3> QED
      BY <2>2, <3>1, <3>2, RetiresFacts
  <2>3. CASE ~Retires
    BY <1>1, <1>7, <2>1, <2>3, GuardSteps DEF Routings
  <2> QED
    BY <2>2, <2>3
<1> QED
  BY <1>2, <1>3, <1>4, <1>5, <1>6, <1>7 DEF Passes, Routings

LEMMA ClaimElsewhere ==
    ASSUME RunOK, ClaimOK, RemoteOK, Elsewhere
    PROVE  ClaimOK'
<1>0. ClaimTyped /\ NoCycle \in 0..MaxCycle /\ record.cycle \in 0..MaxCycle
  BY ClaimTypes, Bounds DEF NoCycle, RemoteOK, Record
<1>1. Me'.pc = Me.pc /\ Mine'.pc = Mine.pc
  BY ElsewherePc
<1>2. CASE HumanFlips \/ OtherWrites
  <2>1. \E note \in {claim.note, record.cycle}, open \in BOOLEAN :
           claim' = [claim EXCEPT !.note = note, !.open = open]
    <3>1. CASE HumanFlips
      BY <3>1, <1>0 DEF HumanFlips, ClaimTyped
    <3>2. CASE OtherWrites
      BY ZenonT(60), <3>2, <1>0 DEF OtherWrites, ClaimTyped
    <3> QED
      BY <1>2, <3>1, <3>2
  <2> QED
    BY <1>0, <1>1, <2>1 DEF ClaimOK, ClaimTyped
<1>3. CASE OtherTakes
  <2>1. claim' = [in |-> {"other"}, note |-> NoCycle, open |-> ~closed] /\ claim.in = {}
    BY <1>3 DEF OtherTakes, Unclaimed
  <2> QED
    BY <1>0, <1>1, <2>1 DEF ClaimOK
<1>4. CASE OtherLeaves
  <2>1. \E note \in {claim.note, NoCycle} : claim' = [in |-> {}, note |-> note, open |-> FALSE]
    BY <1>4 DEF OtherLeaves, Unclaimed
  <2>2. Refused
    BY <1>4 DEF OtherLeaves
  <2> QED
    BY <1>0, <1>1, <2>1, <2>2, RefusedOutside DEF ClaimOK, ClaimTyped
<1> QED
  BY <1>2, <1>3, <1>4 DEF Elsewhere

LEMMA ClaimStep ==
    ASSUME RunOK, RegistryOK, RemoteOK, ClaimOK, [Next]_vars
    PROVE  ClaimOK'
<1>1. CASE UNCHANGED vars
  BY <1>1 DEF vars, ClaimOK, Me, Mine
<1> QED
  BY <1>1, ClaimPosts, ClaimPolls, ClaimPasses, ClaimElsewhere DEF Next, Elsewhere

-----------------------------------------------------------------------------
(***************************************************************************)
(* What a pass knows of the record, which the claim keeps from the others. *)
(***************************************************************************)
PassingPc == RecordPc \cup MarkPc \cup WindowPc \cup {"restarted"}

LEMMA PassingInside == PassingPc \subseteq InsidePc
  BY DEF PassingPc, InsidePc, OutPc

LEMMA PassPlain ==
    ASSUME Mine'.pc \notin PassingPc, fenced' = FALSE, retiring' = NoCycle
    PROVE  PassOK'
  BY DEF PassOK, PassingPc, RecordPc

LEMMA PlainNow ==
    ASSUME PassOK, Mine.pc \notin PassingPc
    PROVE  fenced = FALSE /\ retiring = NoCycle
  BY DEF PassOK, PassingPc, RecordPc

LEMMA PassSame ==
    ASSUME PassOK, Mine'.pc = Mine.pc, Mine'.rec = Mine.rec, UNCHANGED <<record, fenced, retiring>>,
           retiring # NoCycle => claim'.note = claim.note
    PROVE  PassOK'
  BY DEF PassOK

LEMMA PassRouted ==
    ASSUME NEW there, Routed1(there), there \notin {"exit", "raised"},
           retiring' = IF there \in {"retire"} \cup WindowPc THEN Mine.rec.cycle ELSE NoCycle,
           fenced' \in BOOLEAN, fenced' <=> there \in {"restart", "restarted"},
           there \in RecordPc => record' = Mine.rec,
           there \in MarkPc \cup WindowPc => record'.cycle = Mine.rec.cycle,
           there \in {"note", "retire"} \cup WindowPc => Mine.rec.phase = "live",
           there \in WindowPc => record'.phase \in {"live", "retired"},
           there = "restart" => record'.cycle < MaxCycle,
           retiring' # NoCycle => claim'.note = retiring'
    PROVE  PassOK'
<1>1. Mine'.pc = there /\ Mine'.rec = Mine.rec
  BY DEF Routed1
<1> QED
  BY <1>1 DEF PassOK

LEMMA PassExits ==
    ASSUME Routed1("exit") \/ Routed1("raised"), fenced' = FALSE, retiring' = NoCycle
    PROVE  PassOK'
  BY PassPlain DEF Routed1, PassingPc, RecordPc, MarkPc, WindowPc

\* The note stands while the worker is inside the claim.
LEMMA NoteStands ==
    ASSUME RunOK, ClaimOK, Mine.pc \in InsidePc, Polls
    PROVE  claim'.note = claim.note
<1>1. ClaimTyped /\ "work" \in claim.in
  BY ClaimTypes DEF ClaimOK
<1>2. Joins("poll") => claim'.note = claim.note
  BY <1>1, Joined DEF Thread
<1>3. "poll" \in claim.in /\ Leaves("poll") => claim'.note = claim.note
  BY <1>1, Left DEF Thread
<1> QED
  BY <1>2, <1>3, ClaimPolls

LEMMA PassPosts ==
    ASSUME RunOK, ClaimOK, PassOK, NEW t \in Thread, Posts(t)
    PROVE  PassOK'
<1>1. UNCHANGED <<record, fenced, retiring>>
  <2>1. CASE Probe(t) \/ PostReadIssue(t) \/ PostReadRecord(t) \/ PostReadAgain(t)
           \/ PostReadBehind(t) \/ ClaimPost(t) \/ PostNamed(t) \/ PostFails(t)
    BY <2>1, QuietSteps, PostingSteps DEF registry, remote
  <2>2. CASE PostTied(t) \/ PostLands(t) \/ SettleAfter(t)
    BY <2>2, ReceiptSteps DEF remote
  <2> QED
    BY <2>1, <2>2 DEF Posts
<1>2. CASE t = "poll"
  BY <1>1, <1>2, PostsPc, ClaimPosts, PassSame
<1>3. CASE t = "work"
  <2>1. Mine.pc \notin PassingPc /\ Mine'.pc \notin PassingPc
    BY <1>3, PostsPc DEF PassingPc, RecordPc, MarkPc, WindowPc, ReceiptPc
  <2> QED
    BY <1>1, <2>1, PlainNow, PassPlain
<1> QED
  BY <1>2, <1>3 DEF Thread

LEMMA PollsLeave ==
    ASSUME Polls
    PROVE  UNCHANGED <<closed, record, receipts, fenced, retiring, scanned, flips>>
<1>1. CASE PollMoment \/ PollLists \/ PollClaims \/ PollLeaves \/ RefusedAgain
  BY <1>1, QuietSteps, ClaimSteps DEF registry, remote, history, Thread
<1>2. CASE PollObserves \/ RefusedDefers \/ ContenderFails
  BY <1>2, ObserveSteps DEF remote, history
<1>3. CASE ContenderReads \/ ContenderCompares \/ Submits \/ SubmitRefused
  BY <1>3, ContenderSteps, HoldSteps DEF registry, remote, history
<1> QED
  BY <1>1, <1>2, <1>3 DEF Polls

LEMMA PassPolls ==
    ASSUME RunOK, ClaimOK, PassOK, Polls
    PROVE  PassOK'
<1>0. UNCHANGED <<record, fenced, retiring>>
  BY PollsLeave
<1>1. CASE Mine.pc \in PassingPc
  <2>1. Mine' = Mine
    BY <1>1, PollsMine DEF PassingPc, RecordPc, MarkPc, WindowPc
  <2> QED
    BY <1>0, <1>1, <2>1, NoteStands, PassingInside, PassSame
<1>2. CASE Mine.pc \notin PassingPc
  <2>1. Mine'.pc \notin PassingPc
    BY <1>2, PollsMine DEF PassingPc, RecordPc, MarkPc, WindowPc
  <2> QED
    BY <1>0, <1>2, <2>1, PlainNow, PassPlain
<1> QED
  BY <1>1, <1>2

LEMMA PassPasses ==
    ASSUME RunOK, RegistryOK, ClaimOK, RemoteOK, PassOK, Passes
    PROVE  PassOK'
<1>p. \A pc : pc \in PassingPc <=> \/ pc \in RecordPc \/ pc \in MarkPc
                                   \/ pc \in WindowPc \/ pc = "restarted"
  BY DEF PassingPc
<1>1. CASE WorkClaims \/ Refetches \/ AsksSettled \/ WorkLeaves
  <2>1. fenced' = fenced /\ retiring' = retiring
    BY <1>1, QuietSteps, ClaimSteps DEF registry, Thread
  <2>2. Mine.pc \notin PassingPc /\ Mine'.pc \notin PassingPc
    BY <1>1, WorkClaimsFacts, RefetchesFacts, AsksSettledFacts, WorkLeavesFacts
       DEF Routed1, PassingPc, RecordPc, MarkPc, WindowPc
  <2> QED
    BY <2>1, <2>2, PlainNow, PassPlain
<1>2. CASE Notices \/ Exits
  <2>1. fenced' = fenced /\ retiring' = retiring
    BY <1>2, ObserveSteps
  <2>2. Mine.pc \notin PassingPc /\ Mine'.pc \notin PassingPc
    BY <1>2, NoticesFacts, ExitsFacts DEF PassingPc, RecordPc, MarkPc, WindowPc
  <2> QED
    BY <2>1, <2>2, PlainNow, PassPlain
<1>3. CASE GivesBack
  <2>1. fenced' = fenced /\ retiring' = retiring
    BY <1>3, HoldSteps
  <2>2. Mine.pc \notin PassingPc /\ Mine'.pc \notin PassingPc
    BY <1>3, GivesBackFacts, IdlePc DEF PassingPc, RecordPc, MarkPc, WindowPc
  <2> QED
    BY <2>1, <2>2, PlainNow, PassPlain
<1>4. CASE Guards
  <2>0. Mine.pc = "guard" /\ UNCHANGED <<record, fenced, retiring>>
    BY <1>4, GuardsFacts, QuietSteps DEF registry, remote, Thread
  <2>1. fenced' = FALSE /\ retiring' = NoCycle
    BY <2>0, PlainNow DEF PassingPc, RecordPc, MarkPc, WindowPc
  <2>2. CASE Mine'.rec = record /\ Mine'.pc \in {"sweep", "guarded"}
    BY <2>0, <2>1, <2>2 DEF PassOK, RecordPc, MarkPc, WindowPc
  <2> QED
    BY <1>4, <2>1, <2>2, GuardsFacts, PassExits
<1>5. CASE GuardsLive \/ GuardsRetired \/ Walks \/ MarksPolledClose
  <2>0. Mine.pc \in {"guarded", "walk"} /\ UNCHANGED <<record, fenced, retiring>>
    BY <1>5, GuardsRoutedFacts, WalksFacts, MarksPolledFacts, GuardSteps DEF remote
  <2>1. record = Mine.rec /\ fenced' = FALSE /\ retiring' = NoCycle
    BY <2>0 DEF PassOK, RecordPc, WindowPc
  <2>2. CASE ToWalk
    BY <2>0, <2>1, <2>2 DEF ToWalk, Same, Kept, PassOK, RecordPc, MarkPc, WindowPc
  <2>3. \/ ToWalk \/ Routed1("exit") \/ Routed1("raised")
        \/ \E there \in {"mark", "mark_inside_walk", "handler"} : Routed1(there)
    BY <1>5, GuardsRoutedFacts, WalksFacts, MarksPolledFacts
  <2>4. ASSUME NEW there \in {"mark", "mark_inside_walk", "handler"}, Routed1(there)
        PROVE  PassOK'
    BY <2>0, <2>1, <2>4, PassRouted DEF MarkPc, WindowPc, RecordPc
  <2> QED
    BY <2>1, <2>2, <2>3, <2>4, PassExits
<1>6. CASE GuardsEnding
  <2>0. Mine.pc = "guarded" /\ retiring' = NoCycle /\ record = Mine.rec /\ fenced = FALSE
    BY <1>6, GuardsEndingFacts, GuardSteps DEF PassOK, RecordPc, WindowPc
  <2>1. CASE Routed1("exit") /\ fenced' = fenced
    BY <2>0, <2>1, PassExits
  <2>2. CASE record' = record /\ record.cycle < MaxCycle /\ fenced' = TRUE /\ Routed1("restart")
    BY <2>0, <2>2, PassRouted DEF RecordPc, MarkPc, WindowPc
  <2> QED
    BY <1>6, <2>1, <2>2, GuardsEndingFacts
<1>7. CASE Marks
  <2>0. Mine.pc \in MarkPc /\ UNCHANGED <<fenced, retiring>>
    BY <1>7, MarksFacts, GuardSteps
  <2>1. fenced' = FALSE /\ retiring' = NoCycle
    BY <2>0 DEF PassOK, MarkPc, WindowPc
  <2> QED
    BY <1>7, <2>1, MarksFacts, PassExits
<1>8. CASE Restarts
  <2>0. retiring' = retiring
    BY <1>8, GuardSteps
  <2>1. retiring' = NoCycle /\ (Mine.pc = "restart" => fenced = TRUE)
    BY <1>8, <2>0, RestartsFacts DEF PassOK, WindowPc
  <2>2. CASE Mine.pc = "restart" /\ Routed1("restarted") /\ fenced' = fenced
    BY <2>1, <2>2, PassRouted DEF RecordPc, MarkPc, WindowPc
  <2>3. CASE Mine'.pc = "exit" /\ fenced' = FALSE
    BY <2>1, <2>3, PassPlain DEF PassingPc, RecordPc, MarkPc, WindowPc
  <2> QED
    BY <1>8, <2>2, <2>3, RestartsFacts
<1>9. CASE Handles
  <2>0. Mine.pc = "handler" /\ UNCHANGED <<fenced, retiring>>
    BY <1>9, HandlesFacts, GuardSteps
  <2>1. record = Mine.rec /\ fenced' = FALSE /\ retiring' = NoCycle
    BY <2>0 DEF PassOK, RecordPc, WindowPc
  <2>2. CASE record' = record /\ Mine.rec.phase = "live" /\ Routed1("mark")
    BY <2>1, <2>2, PassRouted DEF RecordPc, MarkPc, WindowPc
  <2>3. CASE record' = record /\ Mine.rec.phase = "live" /\ Routed1("note")
    BY <2>1, <2>3, PassRouted DEF RecordPc, MarkPc, WindowPc
  <2> QED
    BY <1>9, <2>1, <2>2, <2>3, HandlesFacts, PassExits
<1>10. CASE Retires
  <2>0. /\ Mine.pc \in {"note", "retire"} /\ fenced' = FALSE /\ record = Mine.rec
        /\ Mine.rec.phase = "live"
    BY <1>10, RetiresFacts, GuardSteps DEF PassOK, RecordPc
  <2>t. Mine.rec.cycle \in 0..MaxCycle /\ Mine.rec \in Record
    BY RunTyped DEF ThreadState, Record
  <2>1. CASE /\ Mine.pc = "note" /\ Routed1("retire") /\ record' = record
             /\ claim' = [claim EXCEPT !.note = Mine.rec.cycle] /\ retiring' = Mine.rec.cycle
    <3>1. claim'.note = Mine.rec.cycle
      BY <2>1 DEF ClaimOK
    <3> QED
      BY <2>0, <2>1, <3>1, PassRouted DEF RecordPc, MarkPc, WindowPc
  <2>2. CASE /\ Mine.pc = "retire" /\ UNCHANGED <<claim, retiring>>
             /\ record' \in {record, Retired(Mine.rec.cycle)}
             /\ Routed1("retired") \/ Routed1("torn")
    <3>1. /\ record'.cycle = Mine.rec.cycle /\ record'.phase \in {"live", "retired"}
          /\ retiring' = Mine.rec.cycle /\ (retiring' # NoCycle => claim'.note = retiring')
      BY <2>0, <2>2 DEF Retired, PassOK
    <3> QED
      BY <2>0, <2>2, <3>1, PassRouted DEF RecordPc, MarkPc, WindowPc
  <2> QED
    BY <1>10, <2>1, <2>2, RetiresFacts
<1>11. CASE ClosesWindow
  <2>0. Mine.pc \in WindowPc /\ retiring' = NoCycle /\ UNCHANGED <<record, fenced>>
    BY <1>11, ClosesWindowFacts, GuardSteps DEF remote
  <2>1. record.cycle = Mine.rec.cycle /\ fenced' = FALSE
    BY <2>0 DEF PassOK, WindowPc
  <2>2. CASE Routed1("mark")
    BY <2>0, <2>1, <2>2, PassRouted DEF RecordPc, MarkPc, WindowPc
  <2> QED
    BY <1>11, <2>0, <2>1, <2>2, ClosesWindowFacts, PassExits
<1>12. CASE Sweeps
  <2>0. Mine.pc = "sweep" /\ UNCHANGED <<fenced, retiring>>
    BY <1>12, SweepsFacts, GuardSteps
  <2>1. record = Mine.rec /\ fenced' = FALSE /\ retiring' = NoCycle
    BY <2>0 DEF PassOK, RecordPc, WindowPc
  <2>2. CASE record' = record /\ ToWalk
    BY <2>0, <2>1, <2>2 DEF ToWalk, Same, Kept, PassOK, RecordPc, MarkPc, WindowPc
  <2>3. CASE record' = record /\ Routed1("mark")
    BY <2>1, <2>3, PassRouted DEF RecordPc, MarkPc, WindowPc
  <2> QED
    BY <1>12, <2>1, <2>2, <2>3, SweepsFacts, PassExits
<1> QED
  BY <1>1, <1>2, <1>3, <1>4, <1>5, <1>6, <1>7, <1>8, <1>9, <1>10, <1>11, <1>12 DEF Passes

LEMMA PassElsewhere ==
    ASSUME RunOK, ClaimOK, PassOK, Elsewhere
    PROVE  PassOK'
<1>0. /\ Mine'.pc = Mine.pc /\ Mine'.rec = Mine.rec /\ fenced' = fenced /\ retiring' = retiring
  BY ElsewherePc DEF Kept
<1>1. CASE Mine.pc \in PassingPc
  <2>1. "work" \in claim.in /\ ~Refused
    BY <1>1, PassingInside, RefusedOutside DEF ClaimOK
  <2>2. HumanFlips
    BY <2>1 DEF Elsewhere, OtherTakes, OtherLeaves, OtherWrites
  <2>3. record' = record /\ claim'.note = claim.note
    BY <2>2 DEF HumanFlips, ClaimOK
  <2> QED
    BY <1>0, <2>3, PassSame
<1>2. CASE Mine.pc \notin PassingPc
  BY <1>0, <1>2, PlainNow, PassPlain
<1> QED
  BY <1>1, <1>2

LEMMA PassStep ==
    ASSUME RunOK, RegistryOK, ClaimOK, RemoteOK, PassOK, [Next]_vars
    PROVE  PassOK'
<1>1. CASE UNCHANGED vars
  BY <1>1, PassSame DEF vars, registry, remote, Mine
<1> QED
  BY <1>1, PassPosts, PassPolls, PassPasses, PassElsewhere DEF Next, Elsewhere

-----------------------------------------------------------------------------
(***************************************************************************)
(* The record, and the closes that were.                                   *)
(***************************************************************************)
LEMMA RecordTyped ==
    ASSUME RemoteOK
    PROVE  /\ record \in Record /\ closed \in BOOLEAN
           /\ record.cycle \in 0..MaxCycle /\ record.cycle \in Nat
           /\ record = [cycle |-> record.cycle, phase |-> record.phase]
           /\ record.phase \in {"none", "live", "cancelled", "ended", "retired"}
  BY Bounds DEF RemoteOK, Record

LEMMA RecTyped ==
    ASSUME RunOK, NEW t \in Thread
    PROVE  /\ run[t].rec \in Record /\ run[t].rec.cycle \in 0..MaxCycle
           /\ run[t].rec.cycle \in Nat /\ run[t].named \in Nat
           /\ run[t].rec = [cycle |-> run[t].rec.cycle, phase |-> run[t].rec.phase]
  BY RunTyped, Bounds DEF ThreadState, Record

LEMMA MineTyped ==
    ASSUME RunOK
    PROVE  /\ Mine.rec \in Record /\ Mine.rec.cycle \in 0..MaxCycle
           /\ Mine.rec.cycle \in Nat
           /\ Mine.rec = [cycle |-> Mine.rec.cycle, phase |-> Mine.rec.phase]
  BY RecTyped DEF Thread, Mine

\* What a step may make of the record: the worker of this poller inside its
\* claim, or another poller inside its own.
Started == record.cycle < MaxCycle /\ record' = Live(record.cycle + 1)
Ended == /\ record.phase \in {"cancelled", "ended"}
         /\ record' = [cycle |-> record.cycle, phase |-> "ended"]
Marked == record.cycle \in proven /\ record' = Cancelled(record.cycle)
Dropping == /\ record.phase = "live" /\ claim.note = record.cycle
            /\ claim' = claim /\ record' = Retired(record.cycle)
RecordMoves == Started \/ Ended \/ Marked \/ Dropping

LEMMA RecordPasses ==
    ASSUME RunOK, ClaimOK, RegistryOK, RemoteOK, PassOK, WriteOK, Passes
    PROVE  \/ record' = record
           \/ Mine.pc \in InsidePc /\ (Ended \/ Marked)
           \/ /\ Mine.pc \in InsidePc /\ Witnessed
              /\ \/ Handles /\ Mine.pc = "handler" /\ Started
                 \/ Restarts /\ Mine.pc = "restart" /\ Started
                 \/ Retires /\ Mine.pc = "retire" /\ Dropping
<1>r. /\ record = [cycle |-> record.cycle, phase |-> record.phase]
      /\ record.phase = "live" => record.cycle # NoCycle
  BY RecordTyped DEF RemoteOK
<1>1. CASE \/ WorkClaims \/ Refetches \/ AsksSettled \/ WorkLeaves \/ Guards \/ Notices \/ Exits
           \/ GivesBack \/ MarksPolledClose \/ GuardsLive \/ GuardsRetired \/ Walks \/ ClosesWindow
  BY <1>1, QuietSteps, ClaimSteps, ObserveSteps, HoldSteps, GuardSteps DEF remote, Thread
<1>i. Routings => Mine.pc \in InsidePc
  BY RoutingsPc DEF InsidePc, OutPc
<1>e. ASSUME record.phase \in {"cancelled", "ended"},
             record' \in {record, [record EXCEPT !.phase = "ended"]}
      PROVE  record' = record \/ Ended
  BY <1>e, <1>r DEF Ended
<1>2. CASE GuardsEnding
  <2>1. Mine.pc = "guarded" => record = Mine.rec
    BY DEF PassOK, RecordPc
  <2> QED
    BY <1>2, <1>i, <1>e, <2>1, GuardsEndingFacts DEF Routings
<1>3. CASE Sweeps
  <2>1. Mine.pc = "sweep" => record = Mine.rec
    BY DEF PassOK, RecordPc
  <2> QED
    BY <1>3, <1>i, <1>e, <2>1, SweepsFacts DEF Routings
<1>4. CASE Marks
  <2>1. Mine.pc \in MarkPc => record.cycle = Mine.rec.cycle /\ Mine.rec.cycle \in proven
    BY DEF PassOK, WriteOK
  <2> QED
    BY <1>4, <1>i, <2>1, MarksFacts DEF Routings, Marked
<1>5. CASE Restarts
  <2>1. Mine.pc = "restart" => record = Mine.rec /\ record.cycle < MaxCycle
    BY DEF PassOK, RecordPc
  <2> QED
    BY <1>5, <1>i, <2>1, RestartsFacts, GuardSteps DEF Routings, Started
<1>6. CASE Handles
  BY <1>6, <1>i, HandlesFacts DEF Routings, Started
<1>7. CASE Retires
  <2>1. Mine.pc = "retire" => /\ record = Mine.rec /\ Mine.rec.phase = "live"
                              /\ retiring = Mine.rec.cycle
                              /\ retiring # NoCycle => claim.note = retiring
    BY DEF PassOK, RecordPc
  <2> QED
    BY <1>7, <1>i, <1>r, <2>1, RetiresFacts DEF Routings, Dropping
<1> QED
  BY <1>1, <1>2, <1>3, <1>4, <1>5, <1>6, <1>7 DEF Passes

\* No note is set on the claim but the live cycle's, and no note is found that
\* was not on it.
NoteMoves ==
    /\ \/ claim'.note \in {claim.note, NoCycle}
       \/ record.phase = "live" /\ claim'.note = record.cycle /\ record' = record
    /\ Me'.notes \subseteq Me.notes \cup {claim.note}

\* A step either witnesses the close that stands behind it, or nothing that
\* makes it a close of another cycle.
Quiet == /\ proven' = proven /\ closed' = closed /\ claim'.note \in {claim.note, NoCycle}
         /\ Me'.notes \subseteq Me.notes /\ (record' = record \/ Ended \/ Marked)

Worldly == /\ proven \subseteq proven'
           /\ Witnessed \/ Quiet
           /\ NoteMoves
           /\ record' = record \/ RecordMoves

LEMMA WorldPosts ==
    ASSUME RunOK, ClaimOK, NEW t \in Thread, Posts(t)
    PROVE  Worldly /\ record' = record /\ Quiet
<1>1. UNCHANGED <<record, closed, proven>>
  <2>1. CASE Probe(t) \/ PostReadIssue(t) \/ PostReadRecord(t) \/ PostReadAgain(t)
           \/ PostReadBehind(t) \/ ClaimPost(t) \/ PostNamed(t) \/ PostFails(t)
    BY <2>1, QuietSteps, PostingSteps DEF remote, history
  <2>2. CASE PostTied(t) \/ PostLands(t) \/ SettleAfter(t)
    BY <2>2, ReceiptSteps DEF remote, history
  <2> QED
    BY <2>1, <2>2 DEF Posts
<1>2. claim' = claim
  BY ClaimPosts
<1>3. Me'.notes = Me.notes
  BY PostsPc DEF Thread
<1> QED
  BY <1>1, <1>2, <1>3 DEF Worldly, Quiet, NoteMoves

LEMMA NotesPolls ==
    ASSUME RunOK, Polls
    PROVE  /\ Me'.notes \subseteq Me.notes \cup {claim.note}
           /\ ContenderReads \/ ContenderCompares \/ Me'.notes \subseteq Me.notes
<1>1. Idle.notes = {}
  BY DEF Idle
<1>2. CASE PollMoment \/ PollLists \/ PollClaims \/ PollLeaves \/ RefusedAgain \/ PollObserves
           \/ RefusedDefers \/ ContenderFails \/ Submits \/ SubmitRefused
  BY <1>1, <1>2, PollMomentFacts, PollListsFacts, PollClaimsFacts, PollLeavesFacts,
     RefusedAgainFacts, PollObservesFacts, ContenderFailsFacts, SubmitsFacts, SubmitRefusedFacts
     DEF Same, Kept, Done, Blank
<1>3. CASE ContenderReads
  BY <1>3, ContenderReadsFacts DEF Kept, Noted
<1>4. CASE ContenderCompares
  BY <1>4, ContenderComparesFacts DEF Done, Blank, Noted
<1> QED
  BY <1>2, <1>3, <1>4 DEF Polls

LEMMA WorldPolls ==
    ASSUME RunOK, ClaimOK, Polls
    PROVE  Worldly /\ record' = record /\ closed' = closed
<1>0. record' = record /\ closed' = closed
  BY PollsLeave
<1>1. claim'.note \in {claim.note, NoCycle}
  BY ClaimPolls, ClaimTypes, Joined, Left DEF Thread
<1>2. CASE ContenderReads \/ ContenderCompares
  <2>1. Witnessed
    BY <1>2, ContenderSteps
  <2> QED
    BY <1>0, <1>1, <2>1, NotesPolls DEF Worldly, NoteMoves, Witnessed
<1>3. CASE ~(ContenderReads \/ ContenderCompares)
  <2>1. PollMoment \/ PollLists \/ PollClaims \/ PollLeaves \/ RefusedAgain => proven' = proven
    BY QuietSteps, ClaimSteps DEF history, Thread
  <2>2. PollObserves \/ RefusedDefers \/ ContenderFails \/ Submits \/ SubmitRefused
        => proven' = proven
    BY ObserveSteps, HoldSteps DEF history
  <2>3. proven' = proven
    BY <1>3, <2>1, <2>2 DEF Polls, history
  <2> QED
    BY <1>0, <1>1, <1>3, <2>3, NotesPolls DEF Worldly, NoteMoves, Quiet
<1> QED
  BY <1>2, <1>3

LEMMA WorldPasses ==
    ASSUME RunOK, ClaimOK, RegistryOK, RemoteOK, PassOK, WriteOK, Passes
    PROVE  Worldly /\ closed' = closed
<1>n. Me'.notes = Me.notes
  BY PassesMe DEF Kept
<1>c. \/ claim'.note \in {claim.note, NoCycle}
      \/ /\ Retires /\ Mine.pc = "note" /\ claim'.note = record.cycle
         /\ record.phase = "live" /\ record' = record
  <2>1. CASE Retires /\ Mine.pc = "note" /\ claim' = [claim EXCEPT !.note = Mine.rec.cycle]
    <3>1. record = Mine.rec /\ Mine.rec.phase = "live"
      BY <2>1 DEF PassOK, RecordPc
    <3>2. claim'.note = Mine.rec.cycle
      BY <2>1 DEF ClaimOK
    <3> QED
      BY <2>1, <3>1, <3>2, RetiresFacts
  <2> QED
    BY <2>1, ClaimPasses, ClaimTypes, Joined, Left DEF Thread
<1>1. CASE Restarts \/ Handles \/ Retires
  <2>1. Witnessed /\ closed' = closed
    BY <1>1, GuardSteps, HandlesFacts, RetiresFacts
  <2> QED
    BY <1>n, <1>c, <2>1, RecordPasses DEF Worldly, NoteMoves, Witnessed, RecordMoves
<1>2. CASE ~(Restarts \/ Handles \/ Retires)
  <2>1. (\/ WorkClaims \/ Refetches \/ AsksSettled \/ WorkLeaves \/ Guards \/ Notices \/ Exits
         \/ GivesBack) => proven' = proven /\ closed' = closed
    BY QuietSteps, ClaimSteps, ObserveSteps, HoldSteps DEF remote, history, Thread
  <2>2. (\/ MarksPolledClose \/ GuardsLive \/ GuardsRetired \/ Walks \/ ClosesWindow
         \/ GuardsEnding \/ Marks \/ Sweeps) => proven' = proven /\ closed' = closed
    BY GuardSteps DEF remote, history
  <2>3. proven' = proven /\ closed' = closed
    BY <1>2, <2>1, <2>2 DEF Passes
  <2> QED
    BY <1>n, <1>c, <1>2, <2>3, RecordPasses DEF Worldly, NoteMoves, Quiet, RecordMoves
<1> QED
  BY <1>1, <1>2

\* Another poller's write is one of the same kinds.
LEMMA WorldWrites ==
    ASSUME RunOK, ClaimOK, RemoteOK, OtherWrites
    PROVE  Worldly
<1>1. Witnessed /\ Refused /\ Me' = Me
  BY DEF OtherWrites, Me
<1>2. record = [cycle |-> record.cycle, phase |-> record.phase]
  BY RecordTyped
<1>3. \/ claim' = claim /\ RecordMoves
      \/ record.phase = "live" /\ claim'.note = record.cycle /\ record' = record
  <2>1. CASE /\ record.phase = "live" /\ claim.open
             /\ claim' = [claim EXCEPT !.note = record.cycle] /\ record' = record
    BY <2>1 DEF ClaimOK
  <2>2. CASE claim' = claim /\ record' = Live(record.cycle + 1) /\ record.cycle < MaxCycle
    BY <2>2 DEF RecordMoves, Started
  <2>3. CASE claim' = claim /\ record' = Cancelled(record.cycle) /\ record.cycle \in proven
    BY <2>3 DEF RecordMoves, Marked
  <2>4. CASE /\ claim' = claim /\ record.phase = "cancelled"
             /\ record' = [record EXCEPT !.phase = "ended"]
    BY <1>2, <2>4 DEF RecordMoves, Ended
  <2>5. CASE /\ claim' = claim /\ record.phase = "live" /\ claim.note = record.cycle
             /\ record' = Retired(record.cycle)
    BY <2>5 DEF RecordMoves, Dropping
  <2> QED
    BY <2>1, <2>2, <2>3, <2>4, <2>5 DEF OtherWrites
<1> QED
  BY <1>1, <1>3 DEF Worldly, NoteMoves, Witnessed

LEMMA WorldElsewhere ==
    ASSUME RunOK, ClaimOK, RemoteOK, Elsewhere
    PROVE  /\ Worldly
           /\ HumanFlips \/ closed' = closed
           /\ record' = record \/ (OtherWrites /\ Refused)
<1>0. Me'.notes = Me.notes
  BY ElsewherePc DEF Kept
<1>1. CASE HumanFlips
  BY <1>0, <1>1 DEF HumanFlips, Worldly, NoteMoves, Witnessed, ClaimOK
<1>2. CASE OtherTakes
  BY <1>0, <1>2 DEF OtherTakes, Unclaimed, Worldly, NoteMoves, Quiet, remote, history
<1>3. CASE OtherLeaves
  BY <1>0, <1>3 DEF OtherLeaves, Unclaimed, Worldly, NoteMoves, Quiet, history
<1>4. CASE OtherWrites
  BY <1>4, WorldWrites DEF OtherWrites
<1> QED
  BY <1>1, <1>2, <1>3, <1>4 DEF Elsewhere

LEMMA WorldStep ==
    ASSUME RunOK, ClaimOK, RegistryOK, RemoteOK, PassOK, WriteOK, [Next]_vars
    PROVE  Worldly
<1>1. CASE UNCHANGED vars
  BY <1>1 DEF vars, remote, history, Worldly, NoteMoves, Quiet, Me
<1> QED
  BY <1>1, WorldPosts, WorldPolls, WorldPasses, WorldElsewhere DEF Next, Elsewhere

\* What the closes standing are of, told apart.
LEMMA CloseOf ==
    ASSUME NEW c \in Cycle
    PROVE  c \in ClosedUnder <=>
              closed /\ \/ c = claim.note \/ c \in Me.notes
                        \/ record.phase = "live" /\ c = record.cycle
                        \/ record.phase \in {"none", "retired"} /\ c = record.cycle + 1
<1>1. CASE record.phase = "live"
  BY <1>1 DEF ClosedUnder, Me
<1>2. CASE record.phase \in {"none", "retired"}
  BY <1>2 DEF ClosedUnder, Me
<1>3. CASE record.phase \notin {"live", "none", "retired"}
  BY <1>3 DEF ClosedUnder, Me
<1> QED
  BY <1>1, <1>2, <1>3

LEMMA CloseOfNext ==
    ASSUME NEW c \in Cycle
    PROVE  c \in ClosedUnder' <=>
              closed' /\ \/ c = claim'.note \/ c \in Me'.notes
                         \/ record'.phase = "live" /\ c = record'.cycle
                         \/ record'.phase \in {"none", "retired"} /\ c = record'.cycle + 1
<1>1. CASE record'.phase = "live"
  BY <1>1 DEF ClosedUnder, Me
<1>2. CASE record'.phase \in {"none", "retired"}
  BY <1>2 DEF ClosedUnder, Me
<1>3. CASE record'.phase \notin {"live", "none", "retired"}
  BY <1>3 DEF ClosedUnder, Me
<1> QED
  BY <1>1, <1>2, <1>3

LEMMA CyclesOnly == ClosedUnder \subseteq Cycle /\ ClosedUnder' \subseteq Cycle
  BY DEF ClosedUnder

\* A record that moves is of the cycle it was, or of the next, live.
LEMMA RecordAfter ==
    ASSUME RemoteOK, record' = record \/ RecordMoves
    PROVE  /\ record' \in Record /\ (record'.cycle = NoCycle <=> record'.phase = "none")
           /\ record.cycle <= record'.cycle
           /\ \/ record' = record
              \/ record'.cycle = record.cycle + 1 /\ record'.phase = "live" /\ Started
              \/ record'.cycle = record.cycle /\ record'.phase = "ended" /\ Ended
              \/ record'.cycle = record.cycle /\ record'.phase = "cancelled" /\ Marked
              \/ /\ record'.cycle = record.cycle /\ record'.phase = "retired"
                 /\ record.phase = "live" /\ Dropping
<1>0. /\ record.cycle \in 0..MaxCycle /\ MaxCycle \in Nat /\ record \in Record
      /\ (record.cycle = NoCycle <=> record.phase = "none")
  BY RecordTyped, Bounds DEF RemoteOK
<1>1. CASE Started
  <2>1. record' = [cycle |-> record.cycle + 1, phase |-> "live"] /\ record.cycle < MaxCycle
    BY <1>1 DEF Started, Live
  <2> QED
    BY <1>0, <1>1, <2>1 DEF Record, NoCycle
<1>2. CASE Ended
  BY <1>0, <1>2 DEF Ended, Record, NoCycle
<1>3. CASE Marked
  <2>1. record' = [cycle |-> record.cycle, phase |-> "cancelled"] /\ record.cycle # NoCycle
    BY <1>3 DEF Marked, Cancelled, RemoteOK, Cycle, NoCycle
  <2> QED
    BY <1>0, <1>3, <2>1 DEF Record, NoCycle
<1>4. CASE Dropping
  <2>1. record' = [cycle |-> record.cycle, phase |-> "retired"] /\ record.phase = "live"
    BY <1>4 DEF Dropping, Retired
  <2> QED
    BY <1>0, <1>4, <2>1 DEF Record, NoCycle
<1>5. CASE record' = record
  BY <1>0, <1>5
<1> QED
  BY <1>1, <1>2, <1>3, <1>4, <1>5 DEF RecordMoves

LEMMA ReceiptsStep ==
    ASSUME RunOK, WriteOK, [Next]_vars
    PROVE  receipts' \subseteq receipts \cup proven
<1>1. CASE UNCHANGED vars
  BY <1>1 DEF vars, remote
<1>2. CASE Polls
  BY <1>2, PollsLeave
<1>3. CASE Passes
  <2>1. CASE \/ WorkClaims \/ Refetches \/ AsksSettled \/ WorkLeaves \/ Guards \/ Notices \/ Exits
             \/ GivesBack
    BY <2>1, QuietSteps, ClaimSteps, ObserveSteps, HoldSteps DEF remote, Thread
  <2>2. CASE Routings
    BY <2>2, GuardSteps DEF remote, Routings
  <2> QED
    BY <1>3, <2>1, <2>2 DEF Passes, Routings
<1>4. ASSUME NEW t \in Thread, Posts(t) PROVE receipts' \subseteq receipts \cup proven
  <2>1. CASE Probe(t) \/ PostReadIssue(t) \/ PostReadRecord(t) \/ PostReadAgain(t)
           \/ PostReadBehind(t) \/ ClaimPost(t) \/ PostNamed(t) \/ PostFails(t)
    BY <2>1, QuietSteps, PostingSteps DEF remote
  <2>2. CASE PostTied(t) \/ SettleAfter(t)
    BY <2>2, ReceiptSteps DEF remote
  <2>3. CASE PostLands(t)
    BY <2>3, ReceiptSteps, PostEndsFacts DEF WriteOK
  <2> QED
    BY <1>4, <2>1, <2>2, <2>3 DEF Posts
<1>5. CASE Elsewhere
  BY <1>5 DEF Elsewhere, HumanFlips, OtherTakes, OtherLeaves, OtherWrites, remote
<1> QED
  BY <1>1, <1>2, <1>3, <1>4, <1>5 DEF Next, Elsewhere

LEMMA ClosedStep ==
    ASSUME RunOK, RegistryOK, RemoteOK, ClosedOK, Worldly
    PROVE  ClosedOK'
<1>1. CASE Witnessed
  BY <1>1 DEF Witnessed, ClosedOK
<1>2. CASE Quiet
  <2>1. NoCycle \notin Cycle
    BY DEF Cycle, NoCycle
  <2>2. record' = record \/ record'.phase \in {"cancelled", "ended"}
    BY <1>2 DEF Quiet, Ended, Marked, Cancelled
  <2>3. ASSUME NEW c \in Cycle, c \in ClosedUnder' PROVE c \in ClosedUnder
    BY <1>2, <2>1, <2>2, <2>3, CloseOf, CloseOfNext DEF Quiet
  <2> QED
    BY <1>2, <2>3, CyclesOnly DEF ClosedOK, Quiet
<1> QED
  BY <1>1, <1>2 DEF Worldly

LEMMA RemoteStep ==
    ASSUME RunOK, RegistryOK, ClaimOK, RemoteOK, PassOK, WriteOK, ScopeOK, [Next]_vars
    PROVE  /\ RemoteOK'
           /\ record'.phase \in {"cancelled", "ended"} => record'.cycle \in proven'
           /\ receipts' \subseteq proven'
<1>0. Worldly
  BY WorldStep
<1>1. closed' \in BOOLEAN
  <2>1. closed' = closed \/ closed' = ~closed
    <3>1. HumanFlips => closed' = ~closed
      BY DEF HumanFlips
    <3>2. UNCHANGED vars => closed' = closed
      BY DEF vars, remote
    <3>3. \A t \in Thread : Posts(t) => closed' = closed
      BY WorldPosts DEF Quiet
    <3> QED
      BY <3>1, <3>2, <3>3, WorldPolls, WorldPasses, WorldElsewhere DEF Next, Elsewhere
  <2> QED
    BY <2>1 DEF RemoteOK
<1>2. proven' \subseteq Cycle /\ proven \subseteq proven'
  BY <1>0, CyclesOnly DEF Worldly, Witnessed, Quiet, RemoteOK
<1>3. receipts' \subseteq proven'
  BY <1>2, ReceiptsStep DEF ScopeOK
<1>4. record' \in Record /\ (record'.cycle = NoCycle <=> record'.phase = "none")
  BY <1>0, RecordAfter DEF Worldly
<1>5. record'.phase \in {"cancelled", "ended"} => record'.cycle \in proven'
  BY <1>0, <1>2, RecordAfter DEF Worldly, ScopeOK, Ended, Marked
<1> QED
  BY <1>1, <1>2, <1>3, <1>4, <1>5 DEF RemoteOK

\* A close that was none of a cycle stays none of it.
MissedNext(c) == /\ c <= record'.cycle /\ record' # Live(c)
                 /\ claim'.note # c /\ c \notin Me'.notes

LEMMA MissedStays ==
    ASSUME RemoteOK, Worldly, NEW c \in Cycle, Missed(c)
    PROVE  MissedNext(c)
<1>0. record.cycle \in Nat /\ c \in Nat /\ c # NoCycle
  BY RecordTyped DEF Cycle, NoCycle
<1>1. record' = record \/ RecordMoves
  BY DEF Worldly
<1>2. c <= record'.cycle /\ record' # Live(c)
  <2>1. record'.cycle \in Nat
    BY <1>1, RecordAfter, Bounds DEF Record
  <2> QED
    BY <1>0, <1>1, <2>1, RecordAfter DEF Missed, Live
<1>3. claim'.note # c
  <2>1. record.phase = "live" /\ record.cycle = c => record = Live(c)
    BY RecordTyped DEF Live
  <2> QED
    BY <1>0, <2>1 DEF Worldly, NoteMoves, Missed
<1>4. c \notin Me'.notes
  BY DEF Worldly, NoteMoves, Missed
<1> QED
  BY <1>2, <1>3, <1>4 DEF MissedNext

-----------------------------------------------------------------------------
(***************************************************************************)
(* What the threads have read.                                             *)
(***************************************************************************)
LEMMA EndingIs ==
    ASSUME NEW r, NEW notes
    PROVE  /\ EndingCycle(r) \in {NoCycle, r.cycle, retiring}
           /\ EndedCycle(r, notes) \in {NoCycle, r.cycle, retiring}
<1>1. EndingCycle(r) \in {NoCycle, r.cycle, retiring}
  BY DEF EndingCycle
<1> QED
  BY <1>1 DEF EndedCycle

ReadNow(s, r) == /\ s.rec \in {r.rec, record, Fresh}
                 /\ s.named \in {r.named, NoCycle, r.rec.cycle, retiring}

LEMMA ReadPosts ==
    ASSUME RunOK, NEW t \in Thread, Posts(t)
    PROVE  \A u \in Thread : ReadNow(run'[u], run[u])
<1>1. \A u \in Thread : u # t => ReadNow(run'[u], run[u])
  BY PostsPc DEF Others, ReadNow
<1>2. ReadNow(run'[t], run[t])
  <2>1. CASE ClaimPost(t) \/ Probe(t)
    BY <2>1, ClaimPostFacts, ProbeFacts DEF Same, Kept, Back, ReadNow
  <2>2. CASE PostReadIssue(t) \/ PostReadAgain(t) \/ PostReadRecord(t) \/ PostReadBehind(t)
    BY <2>2, PostReadsIssueFacts, PostReadsRecordFacts DEF Kept, ReadNow
  <2>3. CASE PostNamed(t)
    BY <2>3, PostNamedFacts, EndingIs DEF Back, ReadNow
  <2>4. CASE PostTied(t)
    BY <2>4, PostTiedFacts DEF Same, Kept, Back, ReadNow
  <2>5. CASE PostLands(t) \/ PostFails(t) \/ SettleAfter(t)
    BY <2>5, PostEndsFacts, SettleAfterFacts DEF Same, Kept, Back, ReadNow
  <2> QED
    BY <2>1, <2>2, <2>3, <2>4, <2>5 DEF Posts
<1> QED
  BY <1>1, <1>2

LEMMA ReadPolls ==
    ASSUME RunOK, Polls
    PROVE  ReadNow(Me', Me) /\ ReadNow(Mine', Mine)
<1>0. Idle.rec = Fresh /\ Idle.named = NoCycle
  BY DEF Idle
<1>1. CASE PollMoment \/ PollLists \/ PollClaims \/ PollLeaves \/ RefusedAgain \/ PollObserves
           \/ RefusedDefers \/ ContenderFails \/ SubmitRefused
  BY <1>0, <1>1, PollMomentFacts, PollListsFacts, PollClaimsFacts, PollLeavesFacts,
     RefusedAgainFacts, PollObservesFacts, ContenderFailsFacts, SubmitRefusedFacts
     DEF Same, Kept, Done, Blank, ReadNow
<1>2. CASE Submits
  BY <1>0, <1>2, SubmitsFacts DEF Same, Kept, Blank, ReadNow
<1>3. CASE ContenderReads
  BY <1>3, ContenderReadsFacts, EndingIs DEF Kept, ReadNow
<1>4. CASE ContenderCompares
  BY <1>4, ContenderComparesFacts, EndingIs DEF Done, Blank, ReadNow
<1> QED
  BY <1>1, <1>2, <1>3, <1>4 DEF Polls

LEMMA RoutingsRead ==
    ASSUME RunOK, RegistryOK, Routings
    PROVE  ReadNow(Mine', Mine)
<1>1. CASE Restarts
  BY <1>1, RestartsFacts DEF Routed1, Blank, ReadNow
<1>2. CASE ~Restarts
  <2>1. ToWalk \/ \E there : Routed1(there)
    BY <1>2, MarksPolledFacts, GuardsEndingFacts, GuardsRoutedFacts, WalksFacts, MarksFacts,
       HandlesFacts, RetiresFacts, ClosesWindowFacts, SweepsFacts DEF Routings
  <2> QED
    BY <2>1 DEF ToWalk, Same, Kept, Routed1, ReadNow
<1> QED
  BY <1>1, <1>2

LEMMA ReadPasses ==
    ASSUME RunOK, RegistryOK, Passes
    PROVE  ReadNow(Me', Me) /\ ReadNow(Mine', Mine)
<1>0. Idle.rec = Fresh /\ Idle.named = NoCycle /\ ReadNow(Me', Me)
  BY PassesMe DEF Idle, Kept, ReadNow
<1>1. CASE Routings
  BY <1>0, <1>1, RoutingsRead
<1>2. CASE ~Routings
  BY <1>0, <1>2, WorkClaimsFacts, RefetchesFacts, GuardsFacts, NoticesFacts, ExitsFacts,
     AsksSettledFacts, WorkLeavesFacts, GivesBackFacts
     DEF Passes, Routings, Kept, Routed1, Blank, ReadNow
<1> QED
  BY <1>1, <1>2

LEMMA ReadStep ==
    ASSUME RunOK, RegistryOK, RemoteOK, PassOK, ReadOK, Worldly, [Next]_vars
    PROVE  ReadOK'
<1>1. record.cycle \in Nat /\ record'.cycle \in Nat /\ record.cycle <= record'.cycle
  BY RecordTyped, RecordAfter, Bounds DEF Worldly, Record
<1>2. \A t \in Thread : ReadNow(run'[t], run[t])
  <2>1. CASE \E t \in Thread : Posts(t)
    BY <2>1, ReadPosts
  <2>2. CASE UNCHANGED vars
    BY <2>2 DEF vars, ReadNow
  <2>3. ReadNow(Me', Me) /\ ReadNow(Mine', Mine) => \A t \in Thread : ReadNow(run'[t], run[t])
    BY DEF Me, Mine, Thread
  <2>4. CASE Elsewhere
    BY <2>3, <2>4, ElsewherePc DEF Kept, ReadNow
  <2> QED
    BY <2>1, <2>2, <2>3, <2>4, ReadPolls, ReadPasses DEF Next, Elsewhere
<1>3. retiring \in Nat /\ retiring <= record.cycle
  <2>1. retiring = NoCycle \/ retiring = Mine.rec.cycle
    BY DEF PassOK
  <2> QED
    BY <1>1, <2>1, MineTyped DEF ReadOK, Mine, Thread, NoCycle
<1>4. ASSUME NEW t \in Thread
      PROVE  run'[t].rec.cycle <= record'.cycle /\ run'[t].named <= record'.cycle
  <2>1. run[t].rec.cycle \in Nat /\ run[t].named \in Nat
    BY RecTyped
  <2>2. run[t].rec.cycle <= record.cycle /\ run[t].named <= record.cycle
    BY DEF ReadOK
  <2>3. run'[t].rec.cycle \in {run[t].rec.cycle, record.cycle, 0}
    BY <1>2 DEF ReadNow, Fresh, NoCycle
  <2>4. run'[t].named \in {run[t].named, 0, run[t].rec.cycle, retiring}
    BY <1>2 DEF ReadNow, NoCycle
  <2> QED
    BY <1>1, <1>3, <2>1, <2>2, <2>3, <2>4
<1> QED
  BY <1>4 DEF ReadOK

LEMMA NamedStep ==
    ASSUME RunOK, RegistryOK, NamedOK, [Next]_vars
    PROVE  NamedOK'
<1> DEFINE Comparing == {"again", "behind", "tied", "land"}
<1>1. ASSUME NEW t \in Thread, Posts(t) PROVE NamedOK'
  <2>0. \A u \in Thread : u # t => run'[u] = run[u]
    BY <1>1, PostsPc DEF Others
  <2>b. \A keep \in BOOLEAN : Back(t, keep) => run'[t].pc \notin Comparing
    BY <1>1, PostsPc DEF Back
  <2>1. run'[t].pc \in Comparing => run'[t].named # NoCycle
    <3>1. CASE ClaimPost(t) \/ Probe(t) \/ PostReadIssue(t) \/ PostReadAgain(t)
               \/ PostReadRecord(t) \/ PostReadBehind(t)
      BY <3>1, <2>b, ClaimPostFacts, ProbeFacts, PostReadsIssueFacts, PostReadsRecordFacts
         DEF Kept, Same, NamedOK
    <3>2. CASE PostNamed(t)
      BY <3>2, <2>b, PostNamedFacts
    <3>3. CASE PostTied(t)
      BY <3>3, <2>b, PostTiedFacts DEF Same, Kept, NamedOK
    <3>4. CASE PostLands(t) \/ PostFails(t)
      BY <3>4, <2>b, PostEndsFacts
    <3>5. CASE SettleAfter(t)
      BY <1>1, <3>5, SettleAfterFacts, PostsPc
    <3> QED
      BY <1>1, <3>1, <3>2, <3>3, <3>4, <3>5 DEF Posts
  <2> QED
    BY <2>0, <2>1 DEF NamedOK
<1>2. ASSUME Me'.pc \in Comparing => Me'.pc = Me.pc /\ Kept(Me', Me),
             Mine'.pc \in Comparing => Mine'.pc = Mine.pc /\ Kept(Mine', Mine)
      PROVE  NamedOK'
  BY <1>2 DEF NamedOK, Me, Mine, Thread, Kept
<1>3. CASE Polls
  <2>1. Me'.pc \notin Comparing
    BY <1>3, PollsPc DEF OwnerPc
  <2>2. Mine'.pc \in Comparing => Mine' = Mine
    BY <1>3, PollsMine
  <2> QED
    BY <1>2, <2>1, <2>2 DEF Kept
<1>4. CASE Passes
  <2>1. Mine'.pc \notin Comparing
    BY <1>4, PassesPc DEF OwnerPc
  <2> QED
    BY <1>2, <1>4, <2>1, PassesMe
<1>5. CASE Elsewhere
  BY <1>2, <1>5, ElsewherePc
<1>6. CASE UNCHANGED vars
  BY <1>6 DEF vars, NamedOK
<1> QED
  BY <1>1, <1>3, <1>4, <1>5, <1>6 DEF Next, Elsewhere

-----------------------------------------------------------------------------
(***************************************************************************)
(* What the evidence proves, where it is asked.                            *)
(***************************************************************************)
LEMMA EndsProves ==
    ASSUME IInv, NEW c, c # NoCycle, Ends(c)
    PROVE  c \in proven \/ (~fenced /\ MomentProves)
<1>1. CASE latch.scope = c
  BY <1>1 DEF IInv, ScopeOK
<1>2. CASE latch.clean /\ ~fenced
  BY <1>2 DEF IInv, CleanOK
<1> QED
  BY <1>1, <1>2 DEF Ends

\* A record that names a cycle names one.
LEMMA CycleNamed ==
    ASSUME IInv
    PROVE  /\ record.phase # "none" => record.cycle # NoCycle
           /\ Mine.pc \in RecordPc => record = Mine.rec
           /\ Mine.pc \in MarkPc \cup WindowPc => record.cycle = Mine.rec.cycle
           /\ Mine.pc \in WindowPc => record.cycle # NoCycle
  BY DEF IInv, RemoteOK, PassOK

LEMMA PassProves ==
    ASSUME IInv, Mine.pc \in RecordPc, Mine.rec.phase \in {"live", "cancelled", "ended"},
           Mine.saw \/ Ends(Mine.rec.cycle) \/ (Mine.clean /\ ~fenced)
    PROVE  Mine.rec.cycle \in proven
<1>1. record = Mine.rec /\ record.cycle # NoCycle
  BY CycleNamed
<1>2. CASE Mine.rec.phase \in {"cancelled", "ended"}
  BY <1>1, <1>2 DEF IInv, ScopeOK
<1>3. CASE Mine.rec.phase = "live"
  <2>1. Mine.saw => LiveProven
    BY DEF IInv, SawOK
  <2>2. Mine.clean /\ ~fenced => MomentProves
    BY DEF IInv, CleanOK
  <2>3. Mine.rec.cycle \in proven \/ LiveProven
    BY <1>1, <2>1, <2>2, EndsProves DEF MomentProves
  <2> QED
    BY <1>1, <1>3, <2>3 DEF LiveProven
<1> QED
  BY <1>2, <1>3

LEMMA WindowProves ==
    ASSUME IInv, Mine.pc \in WindowPc, Ends(Mine.rec.cycle)
    PROVE  Mine.rec.cycle \in proven
  BY EndsProves, CycleNamed DEF MomentProves

\* The cycle under way out is the worker's, and a clean moment is of it.
LEMMA RetiringProves ==
    ASSUME IInv, retiring # NoCycle, MomentProves
    PROVE  retiring \in proven
<1>1. CASE Mine.pc = "retire"
  <2>1. record = Mine.rec /\ Mine.rec.phase = "live" /\ retiring = Mine.rec.cycle
    BY <1>1 DEF IInv, PassOK, RecordPc
  <2> QED
    BY <2>1 DEF MomentProves, LiveProven
<1>2. CASE Mine.pc \in WindowPc
  BY <1>2 DEF IInv, PassOK, MomentProves
<1> QED
  BY <1>1, <1>2 DEF IInv, PassOK

\* What a receipt finds to end is of a close, where the issue was closed between
\* its records or the latch ends it.
LEMMA TiedProves ==
    ASSUME IInv, NEW t \in Thread, run[t].pc = "tied", EndingCycle(run[t].rec) = run[t].named,
           run[t].saw \/ Ends(run[t].named)
    PROVE  run[t].named \in proven
<1> DEFINE c == run[t].named
           r == run[t].rec
<1>0. c # NoCycle
  BY DEF IInv, NamedOK
<1>r. r = [cycle |-> r.cycle, phase |-> r.phase]
  BY RecTyped DEF IInv
<1>1. \/ r = Live(c)
      \/ retiring = c /\ retiring # NoCycle
      \/ r.phase = "retired" /\ latch.scope = c
  BY <1>0, <1>r DEF EndingCycle, Live
<1>2. CASE r.phase = "retired" /\ latch.scope = c
  BY <1>0, <1>2 DEF IInv, ScopeOK
<1>3. CASE run[t].saw
  <2>1. c \in proven \/ (Missed(c) /\ r # Live(c))
    BY <1>0, <1>3 DEF IInv, BetweenOK
  <2>2. retiring = c /\ retiring # NoCycle => claim.note = c
    BY DEF IInv, PassOK
  <2> QED
    BY <1>1, <1>2, <2>1, <2>2 DEF Missed
<1>4. CASE Ends(c) /\ r = Live(c)
  <2>1. c \in proven \/ MomentProves
    BY <1>0, <1>4, EndsProves
  <2>2. CASE t = "poll" /\ MomentProves
    BY <1>4, <2>2 DEF MomentProves, Me, Live
  <2>3. CASE t = "work" /\ MomentProves
    <3>1. r = record
      BY <2>3 DEF IInv, TiedOK, Mine
    <3> QED
      BY <1>4, <2>3, <3>1 DEF MomentProves, LiveProven, Live
  <2> QED
    BY <2>1, <2>2, <2>3 DEF Thread
<1>5. CASE Ends(c) /\ retiring = c /\ retiring # NoCycle
  BY <1>0, <1>5, EndsProves, RetiringProves
<1> QED
  BY <1>1, <1>2, <1>3, <1>4, <1>5

\* A contender scopes a close it read between two records to a cycle both name.
LEMMA ContenderProves ==
    ASSUME IInv, Me.pc = "last_note", Me.saw, Me.named = EndedCycle(Me.rec, Noted),
           Me.named # NoCycle
    PROVE  Me.named \in proven
<1> DEFINE c == Me.named
           r == Me.rec
<1>1. c \in proven \/ (Missed(c) /\ r # Live(c))
  BY DEF IInv, BetweenOK, Me, Thread
<1>r. r = [cycle |-> r.cycle, phase |-> r.phase]
  BY RecTyped DEF IInv, Me, Thread
<1>2. \/ r = Live(c)
      \/ retiring = c /\ retiring # NoCycle
      \/ r.phase = "retired" /\ latch.scope = c
      \/ c \in Noted
  BY <1>r DEF EndedCycle, EndingCycle, Live
<1>3. latch.scope = c => c \in proven
  BY DEF IInv, ScopeOK
<1>4. retiring = c /\ retiring # NoCycle => claim.note = c
  BY DEF IInv, PassOK
<1> QED
  BY <1>1, <1>2, <1>3, <1>4 DEF Missed, Noted

-----------------------------------------------------------------------------
(***************************************************************************)
(* What becomes of the latch: a scope it takes is proven, and a moment it  *)
(* takes is that of the close one of the threads carries.                  *)
(***************************************************************************)
LatchTypes == [seen : BOOLEAN, scope : 0..MaxCycle, clean : BOOLEAN, memo : 0..MaxCycle]
Scopes == {latch.scope, NoCycle} \cup proven
CleanFrom == latch.clean \/ (Me.clean /\ Me.pc = "listed") \/ Mine.clean
LatchMoves == /\ latch' \in LatchTypes
              /\ latch'.scope \in Scopes
              /\ latch'.clean => CleanFrom

LEMMA LatchBuilt ==
    ASSUME RegistryOK, RemoteOK, NEW seen \in BOOLEAN, NEW scope \in Scopes, NEW clean \in BOOLEAN,
           NEW memo \in 0..MaxCycle, clean => CleanFrom,
           latch' = [latch EXCEPT !.seen = seen, !.scope = scope, !.clean = clean, !.memo = memo]
    PROVE  LatchMoves
<1>1. latch \in LatchTypes /\ proven \subseteq Cycle /\ Cycle \subseteq 0..MaxCycle
      /\ NoCycle \in 0..MaxCycle
  BY Bounds DEF RegistryOK, RemoteOK, LatchTypes, Cycle, NoCycle
<1>2. scope \in 0..MaxCycle
  BY <1>1 DEF Scopes, LatchTypes
<1> HIDE DEF Scopes, CleanFrom
<1>3. latch' \in LatchTypes /\ latch'.scope = scope /\ latch'.clean = clean
  BY <1>1, <1>2 DEF LatchTypes
<1> QED
  BY <1>3 DEF LatchMoves

LEMMA LatchTyped ==
    ASSUME RegistryOK
    PROVE  /\ latch.seen \in BOOLEAN /\ latch.clean \in BOOLEAN
           /\ latch.scope \in Scopes /\ latch.memo \in 0..MaxCycle
           /\ latch.clean => CleanFrom
  BY DEF RegistryOK, Scopes, CleanFrom

LEMMA MovesSame ==
    ASSUME RegistryOK, RemoteOK, latch' = latch
    PROVE  LatchMoves
  BY DEF RegistryOK, LatchMoves, LatchTypes, Scopes, CleanFrom

LEMMA MovesScoped ==
    ASSUME RegistryOK, RemoteOK, NEW c \in Scopes, latch' = [latch EXCEPT !.scope = c]
    PROVE  LatchMoves
<1>1. latch' = [latch EXCEPT !.seen = latch.seen, !.scope = c, !.clean = latch.clean,
                             !.memo = latch.memo]
  BY DEF RegistryOK
<1> QED
  BY <1>1, LatchTyped, LatchBuilt

LEMMA MovesSeen ==
    ASSUME RegistryOK, RemoteOK, NEW c \in Scopes, NEW clean \in BOOLEAN, clean => CleanFrom,
           latch' = [latch EXCEPT !.seen = TRUE, !.scope = c, !.clean = clean]
    PROVE  LatchMoves
<1>1. latch' = [latch EXCEPT !.seen = TRUE, !.scope = c, !.clean = clean, !.memo = latch.memo]
  BY DEF RegistryOK
<1> QED
  BY <1>1, LatchTyped, LatchBuilt

LEMMA MovesStaled ==
    ASSUME RegistryOK, RemoteOK, latch' = [latch EXCEPT !.clean = FALSE]
    PROVE  LatchMoves
<1>1. latch' = [latch EXCEPT !.seen = latch.seen, !.scope = latch.scope, !.clean = FALSE,
                             !.memo = latch.memo]
  BY DEF RegistryOK
<1> QED
  BY <1>1, LatchTyped, LatchBuilt

LEMMA MovesMemo ==
    ASSUME RegistryOK, RemoteOK, NEW c \in 0..MaxCycle, latch' = [latch EXCEPT !.memo = c]
    PROVE  LatchMoves
<1>1. latch' = [latch EXCEPT !.seen = latch.seen, !.scope = latch.scope, !.clean = latch.clean,
                             !.memo = c]
  BY DEF RegistryOK
<1> QED
  BY <1>1, LatchTyped, LatchBuilt

LEMMA MovesDropped ==
    ASSUME latch' = NoLatch
    PROVE  LatchMoves
  BY Bounds DEF NoLatch, LatchMoves, LatchTypes, Scopes, NoCycle

LEMMA MovesObserved ==
    ASSUME RegistryOK, RemoteOK, NEW clean, NEW fresh, clean => CleanFrom, clean \in BOOLEAN,
           Observe(clean, fresh)
    PROVE  LatchMoves
<1> DEFINE b == latch.clean \/ clean
<1>1. latch' = [latch EXCEPT !.seen = TRUE, !.scope = latch.scope, !.clean = b]
  BY DEF Observe, RegistryOK
<1>2. b \in BOOLEAN /\ (b => CleanFrom)
  BY LatchTyped
<1> HIDE DEF b
<1> QED
  BY <1>1, <1>2, LatchTyped, MovesSeen

LEMMA MovesAsked ==
    ASSUME RegistryOK, RemoteOK, NEW c, Ends(c) => c \in Scopes, Asked(c)
    PROVE  LatchMoves
  BY MovesSame, MovesScoped DEF Asked

LEMMA MovesReleased ==
    ASSUME RegistryOK, RemoteOK, ReleaseHold
    PROVE  LatchMoves
  BY MovesSame, MovesDropped DEF ReleaseHold, Dropped

LEMMA LatchMovesPosts ==
    ASSUME IInv, NEW t \in Thread, Posts(t)
    PROVE  LatchMoves
<1>0. RunOK /\ RegistryOK /\ RemoteOK
  BY DEF IInv
<1>1. CASE Probe(t) \/ PostReadIssue(t) \/ PostReadRecord(t) \/ PostReadAgain(t)
             \/ PostReadBehind(t) \/ ClaimPost(t) \/ PostNamed(t) \/ PostFails(t)
  BY <1>0, <1>1, QuietSteps, PostingSteps, MovesSame DEF registry
<1>2. CASE PostTied(t)
  <2> DEFINE c == run[t].named
             same == EndingCycle(run[t].rec) = c /\ (run[t].saw \/ Ends(c))
  <2>1. /\ run[t].pc = "tied"
        /\ latch' = IF same THEN [latch EXCEPT !.scope = c] ELSE latch
    BY <1>0, <1>2, PostTiedFacts
  <2>2. same => c \in Scopes
    BY <2>1, TiedProves DEF Scopes
  <2> HIDE DEF same
  <2> QED
    BY <1>0, <2>1, <2>2, MovesSame, MovesScoped
<1>3. CASE PostLands(t)
  <2>1. run[t].named \in 0..MaxCycle
    BY <1>0, RunTyped DEF ThreadState
  <2> QED
    BY <1>0, <1>3, <2>1, ReceiptSteps, MovesSame, MovesMemo
<1>4. CASE SettleAfter(t)
  <2>1. Settle
    BY <1>0, <1>4, SettleAfterFacts
  <2> QED
    BY <1>0, <2>1, MovesStaled, MovesDropped DEF Settle, Dropped
<1> QED
  BY <1>1, <1>2, <1>3, <1>4 DEF Posts

LEMMA LatchMovesPolls ==
    ASSUME IInv, Polls
    PROVE  LatchMoves
<1>0. RunOK /\ RegistryOK /\ RemoteOK /\ Me.clean \in BOOLEAN
  BY RunTyped DEF IInv, ThreadState
<1>1. CASE PollMoment \/ PollLists \/ PollClaims \/ PollLeaves \/ RefusedAgain
  BY <1>0, <1>1, QuietSteps, ClaimSteps, MovesSame DEF registry, Thread
<1>2. CASE PollObserves \/ RefusedDefers \/ ContenderFails
  <2>1. \/ Me.pc = "listed" /\ Observe(Me.clean, Me.saw)
        \/ \E fresh : Observe(FALSE, fresh)
    BY <1>0, <1>2, PollObservesFacts, ContenderFailsFacts
  <2>2. Me.pc = "listed" /\ Me.clean => CleanFrom
    BY DEF CleanFrom
  <2> QED
    BY <1>0, <2>1, <2>2, MovesObserved
<1>3. CASE ContenderReads \/ Submits
  BY <1>0, <1>3, ContenderSteps, HoldSteps, MovesSame DEF registry
<1>4. CASE ContenderCompares
  <2> DEFINE c == IF Me.saw THEN Me.named ELSE latch.scope
  <2>1. \/ latch' = latch
        \/ /\ Me.pc = "last_note" /\ Me.named = EndedCycle(Me.rec, Noted) /\ Me.named # NoCycle
           /\ latch' = [latch EXCEPT !.seen = TRUE, !.scope = c]
        \/ Observe(FALSE, TRUE)
    BY <1>0, <1>4, ContenderComparesFacts
  <2>2. CASE /\ Me.pc = "last_note" /\ Me.named = EndedCycle(Me.rec, Noted) /\ Me.named # NoCycle
             /\ latch' = [latch EXCEPT !.seen = TRUE, !.scope = c]
    <3>1. c \in Scopes
      BY <2>2, ContenderProves DEF Scopes
    <3>2. latch' = [latch EXCEPT !.seen = TRUE, !.scope = c, !.clean = latch.clean]
      BY <1>0, <2>2 DEF RegistryOK
    <3> HIDE DEF c
    <3> QED
      BY <1>0, <3>1, <3>2, LatchTyped, MovesSeen
  <2> QED
    BY <1>0, <2>1, <2>2, MovesSame, MovesObserved
<1>5. CASE SubmitRefused
  BY <1>0, <1>5, HoldSteps, MovesReleased
<1> QED
  BY <1>1, <1>2, <1>3, <1>4, <1>5 DEF Polls

LEMMA LatchMovesPasses ==
    ASSUME IInv, Passes
    PROVE  LatchMoves
<1>0. RunOK /\ RegistryOK /\ RemoteOK /\ Mine.clean \in BOOLEAN
  BY RunTyped DEF IInv, ThreadState
<1>c. Mine.clean => CleanFrom
  BY DEF CleanFrom
<1>1. CASE WorkClaims \/ Refetches \/ Guards \/ AsksSettled \/ WorkLeaves
  BY <1>0, <1>1, QuietSteps, ClaimSteps, MovesSame DEF registry, Thread
<1>2. CASE Notices \/ Exits
  <2>1. \/ latch' = latch
        \/ \E fresh : Observe(FALSE, fresh) \/ Observe(Mine.clean, fresh)
        \/ Mine.pc = "noticed" /\ Observe(TRUE, TRUE)
    BY <1>0, <1>2, NoticesFacts, ExitsFacts
  <2>2. Mine.pc = "noticed" => CleanFrom
    BY <1>c DEF IInv, CleanOK
  <2> QED
    BY <1>0, <1>c, <2>1, <2>2, MovesSame, MovesObserved
<1>3. CASE GivesBack
  BY <1>0, <1>3, HoldSteps, MovesReleased
<1>4. CASE GuardsEnding \/ GuardsLive \/ GuardsRetired \/ Walks \/ Marks \/ Retires
  BY <1>0, <1>4, GuardSteps, MovesSame
<1>p. /\ Mine.pc \in RecordPc /\ Mine.rec.phase \in {"live", "cancelled", "ended"}
      => (Mine.saw \/ Ends(Mine.rec.cycle) \/ (Mine.clean /\ ~fenced) => Mine.rec.cycle \in Scopes)
  BY PassProves DEF Scopes
<1>5. CASE MarksPolledClose
  <2> DEFINE c == Mine.rec.cycle
             b == latch.clean \/ Mine.clean
             ends == latch.scope = c \/ (b /\ ~fenced)
             d == IF ~Mine.saw /\ ends THEN c ELSE latch.scope
  <2>1. /\ Mine.pc \in RecordPc /\ Mine.rec.phase = "live"
        /\ latch' = [latch EXCEPT !.seen = TRUE, !.scope = d, !.clean = b]
    BY <1>0, <1>5, MarksPolledFacts DEF RecordPc, RegistryOK
  <2>2. d \in Scopes
    <3>1. ends => c \in Scopes
      BY <1>p, <2>1 DEF Scopes, Ends, IInv, LatchOK
    <3> QED
      BY <3>1, <1>0, LatchTyped
  <2>3. b \in BOOLEAN /\ (b => CleanFrom)
    BY <1>0, <1>c, LatchTyped
  <2> HIDE DEF d, b
  <2> QED
    BY <1>0, <2>1, <2>2, <2>3, MovesSeen
<1>6. CASE Restarts
  BY <1>0, <1>6, RestartsFacts, MovesSame, MovesStaled
<1>7. CASE Handles
  <2>1. \/ latch' = latch
        \/ Mine.pc = "handler" /\ Mine.rec.phase = "live" /\ Asked(Mine.rec.cycle)
    BY <1>0, <1>7, HandlesFacts
  <2> QED
    BY <1>0, <1>p, <2>1, MovesSame, MovesAsked DEF RecordPc
<1>8. CASE ClosesWindow
  <2>1. Mine.pc \in WindowPc /\ Asked(Mine.rec.cycle)
    BY <1>0, <1>8, ClosesWindowFacts
  <2> QED
    BY <1>0, <2>1, WindowProves, MovesAsked DEF Scopes
<1>9. CASE Sweeps
  <2>1. \/ latch' = latch
        \/ /\ Mine.pc = "sweep" /\ Mine.rec.phase \in {"live", "cancelled", "ended"}
           /\ \/ Mine.saw /\ latch' = [latch EXCEPT !.scope = Mine.rec.cycle]
              \/ Asked(Mine.rec.cycle)
    BY <1>0, <1>9, SweepsFacts
  <2> QED
    BY <1>0, <1>p, <2>1, MovesSame, MovesAsked, MovesScoped DEF RecordPc
<1> QED
  BY <1>1, <1>2, <1>3, <1>4, <1>5, <1>6, <1>7, <1>8, <1>9 DEF Passes

LEMMA LatchMovesStep ==
    ASSUME IInv, [Next]_vars
    PROVE  LatchMoves
<1>0. RegistryOK /\ RemoteOK
  BY DEF IInv
<1>1. CASE UNCHANGED vars
  BY <1>0, <1>1, MovesSame DEF vars, registry
<1>2. CASE HumanFlips \/ OtherLeaves \/ OtherWrites
  BY <1>0, <1>2, MovesSame DEF HumanFlips, OtherLeaves, OtherWrites, registry
<1>3. CASE OtherTakes
  BY <1>0, <1>3, MovesStaled DEF OtherTakes
<1> QED
  BY <1>1, <1>2, <1>3, LatchMovesPosts, LatchMovesPolls, LatchMovesPasses DEF Next

LEMMA ScannedStep ==
    ASSUME RunOK, RegistryOK, [Next]_vars
    PROVE  scanned' \in 0..MaxCycle
<1> DEFINE Same1 == scanned' \in {scanned, NoCycle, Mine.rec.cycle}
<1>1. CASE UNCHANGED vars
  BY <1>1 DEF vars, registry, RegistryOK
<1>2. ASSUME NEW t \in Thread, Posts(t) PROVE Same1
  <2>1. CASE Probe(t) \/ PostReadIssue(t) \/ PostReadRecord(t) \/ PostReadAgain(t)
           \/ PostReadBehind(t) \/ ClaimPost(t) \/ PostNamed(t) \/ PostFails(t)
    BY <2>1, QuietSteps, PostingSteps DEF registry
  <2>2. CASE PostTied(t) \/ SettleAfter(t) \/ PostLands(t)
    BY <2>2, ReceiptSteps
  <2> QED
    BY <1>2, <2>1, <2>2 DEF Posts
<1>3. CASE Polls
  BY <1>3, PollsLeave DEF RegistryOK
<1>4. CASE Elsewhere
  <2>1. Same1
    BY <1>4 DEF Elsewhere, HumanFlips, OtherTakes, OtherLeaves, OtherWrites, registry
  <2> QED
    BY <2>1, MineTyped, Bounds DEF RegistryOK, NoCycle
<1>5. CASE Passes
  <2>1. CASE WorkClaims \/ Refetches \/ Guards \/ AsksSettled \/ WorkLeaves
    BY <2>1, QuietSteps, ClaimSteps DEF registry, Thread, RegistryOK
  <2>2. CASE \/ Notices \/ Exits \/ GivesBack \/ MarksPolledClose \/ GuardsEnding \/ Restarts
             \/ Handles \/ Retires \/ ClosesWindow
    BY <2>2, ObserveSteps, HoldSteps, GuardSteps DEF RegistryOK
  <2>3. CASE GuardsLive \/ GuardsRetired \/ Walks \/ Marks \/ Sweeps
    <3>1. Same1
      BY <2>3 DEF GuardsLive, GuardsRetired, Walks, Marks, Sweeps, Adopts
    <3> QED
      BY <3>1, MineTyped, Bounds DEF RegistryOK, NoCycle
  <2> QED
    BY <1>5, <2>1, <2>2, <2>3 DEF Passes
<1>6. Same1 => scanned' \in 0..MaxCycle
  BY MineTyped, Bounds DEF RegistryOK, NoCycle
<1> QED
  BY <1>1, <1>2, <1>3, <1>4, <1>5, <1>6 DEF Next, Elsewhere

LEMMA RegistryStep ==
    ASSUME IInv, [Next]_vars
    PROVE  RegistryOK'
<1>0. RunOK /\ RegistryOK /\ HoldsOK /\ OwnerOK /\ LatchOK /\ SeenOK
  BY DEF IInv
<1>1. latch' \in LatchTypes
  BY LatchMovesStep DEF LatchMoves
<1>2. scanned' \in 0..MaxCycle
  BY <1>0, ScannedStep
<1>3. posting' \in {posting, "none", "current", "stale"}
  <2>1. ASSUME NEW t \in Thread, Posts(t)
        PROVE  posting' \in {posting, "none", "current", "stale"}
    <3>1. CASE Probe(t) \/ PostReadIssue(t) \/ PostReadRecord(t) \/ PostReadAgain(t)
               \/ PostReadBehind(t)
      BY <3>1, QuietSteps DEF registry
    <3>2. CASE ClaimPost(t) \/ PostNamed(t) \/ PostFails(t) \/ PostTied(t) \/ PostLands(t)
      BY <1>0, <3>2, ClaimPostFacts, PostNamedFacts, PostEndsFacts, PostTiedFacts
    <3>3. CASE SettleAfter(t)
      BY <1>0, <3>3, SettleAfterFacts DEF Settle, Dropped
    <3> QED
      BY <2>1, <3>1, <3>2, <3>3 DEF Posts
  <2>2. ReadingDropped => posting' \in {posting, "none", "current", "stale"}
    BY DEF ReadingDropped, Dropped
  <2>3. UNCHANGED vars => posting' = posting
    BY DEF vars, registry
  <2> QED
    BY <1>0, <2>1, <2>2, <2>3, LatchPolls, LatchPasses, LatchElsewhere DEF Next, Elsewhere
<1> QED
  BY <1>0, <1>1, <1>2, <1>3 DEF RegistryOK, LatchTypes

LEMMA Worlds ==
    ASSUME IInv, [Next]_vars
    PROVE  Worldly /\ proven \subseteq proven'
  BY WorldStep DEF IInv, Worldly

LEMMA ScopeStep ==
    ASSUME IInv, [Next]_vars
    PROVE  ScopeOK' /\ RemoteOK'
<1>1. latch'.scope \in Scopes /\ proven \subseteq proven'
  BY LatchMovesStep, Worlds DEF LatchMoves
<1>2. /\ RemoteOK' /\ receipts' \subseteq proven'
      /\ record'.phase \in {"cancelled", "ended"} => record'.cycle \in proven'
  BY RemoteStep DEF IInv
<1> QED
  BY <1>1, <1>2 DEF ScopeOK, Scopes, IInv

-----------------------------------------------------------------------------
(***************************************************************************)
(* What is written is of a close.                                          *)
(***************************************************************************)
LEMMA RoutingsMark ==
    ASSUME IInv, Routings, Mine'.pc \in MarkPc
    PROVE  Mine'.rec.cycle \in proven
<1>0. RunOK /\ RegistryOK
  BY DEF IInv
<1>1. Mine'.rec = Mine.rec /\ (Routed1("mark") \/ Routed1("mark_inside_walk"))
  <2>1. ~Restarts
    BY <1>0, RestartsFacts DEF Routed1, MarkPc
  <2>2. ToWalk \/ \E there : Routed1(there)
    BY <1>0, <2>1, MarksPolledFacts, GuardsEndingFacts, GuardsRoutedFacts, WalksFacts, MarksFacts,
       HandlesFacts, RetiresFacts, ClosesWindowFacts, SweepsFacts DEF Routings
  <2> QED
    BY <2>2 DEF ToWalk, Routed1, MarkPc
<1>n. \A there \in {"exit", "raised", "handler", "note", "retire", "retired", "torn", "restart",
                    "restarted"} : ~Routed1(there)
  BY DEF Routed1, MarkPc
<1>w. ~ToWalk
  BY DEF ToWalk, MarkPc
<1>s. latch.seen /\ latch.scope = Mine.rec.cycle /\ Mine.rec.phase = "retired"
      /\ Mine.pc \in RecordPc => Mine.rec.cycle \in proven
  BY CycleNamed DEF IInv, ScopeOK
<1>2. CASE MarksPolledClose
  <2>1. /\ Mine.pc \in RecordPc /\ Mine.rec.phase = "live"
        /\ \/ Mine.saw \/ latch.scope = Mine.rec.cycle
           \/ (latch.clean \/ Mine.clean) /\ ~fenced
    BY <1>0, <1>2, <1>n, MarksPolledFacts DEF RecordPc, MarkPc
  <2>2. latch.clean => latch.seen
    BY DEF IInv, LatchOK
  <2>3. latch.scope = Mine.rec.cycle => Mine.rec.cycle \in proven
    BY <2>1, CycleNamed DEF IInv, ScopeOK
  <2> QED
    BY <1>1, <2>1, <2>2, <2>3, PassProves DEF Ends
<1>3. CASE GuardsLive \/ GuardsRetired
  <2>1. /\ Mine.pc \in RecordPc
        /\ \/ Mine.rec.phase = "live" /\ Mine.saw
           \/ Mine.rec.phase = "retired" /\ latch.seen /\ latch.scope = Mine.rec.cycle
    BY <1>0, <1>3, <1>n, <1>w, GuardsRoutedFacts DEF RecordPc, MarkPc
  <2> QED
    BY <1>1, <1>s, <2>1, PassProves
<1>4. CASE Walks
  <2>1. Mine.rec.cycle \in receipts
    BY <1>0, <1>4, <1>n, WalksFacts DEF MarkPc
  <2> QED
    BY <1>1, <2>1 DEF IInv, ScopeOK
<1>5. CASE Handles
  <2>1. Mine.pc \in RecordPc /\ Mine.rec.phase = "live" /\ Ends(Mine.rec.cycle)
    BY <1>0, <1>5, <1>n, HandlesFacts DEF RecordPc, MarkPc
  <2> QED
    BY <1>1, <2>1, PassProves
<1>6. CASE ClosesWindow
  <2>1. Mine.pc \in WindowPc /\ Ends(Mine.rec.cycle)
    BY <1>0, <1>6, <1>n, ClosesWindowFacts DEF MarkPc
  <2> QED
    BY <1>1, <2>1, WindowProves
<1>7. CASE Sweeps
  <2>1. /\ Mine.pc \in RecordPc
        /\ \/ Mine.rec.phase = "retired" /\ latch.seen /\ latch.scope = Mine.rec.cycle
           \/ Mine.rec.phase = "live" /\ (Mine.saw \/ Ends(Mine.rec.cycle))
    BY <1>0, <1>7, <1>n, <1>w, SweepsFacts DEF RecordPc, MarkPc
  <2> QED
    BY <1>1, <1>s, <2>1, PassProves
<1>8. ~(GuardsEnding \/ Marks \/ Restarts \/ Retires)
  <2>1. Restarts => Routed1("restarted") \/ Mine'.pc = "exit"
    BY <1>0, RestartsFacts
  <2> QED
    BY <1>0, <1>n, <2>1, GuardsEndingFacts, MarksFacts, RetiresFacts DEF MarkPc
<1> QED
  BY <1>2, <1>3, <1>4, <1>5, <1>6, <1>7, <1>8 DEF Routings

LEMMA LandPosts ==
    ASSUME IInv, NEW t \in Thread, Posts(t), NEW u \in Thread, run'[u].pc = "land"
    PROVE  run'[u].named \in proven
<1>0. RunOK
  BY DEF IInv
<1>1. CASE u # t
  BY <1>0, <1>1, PostsPc DEF Others, IInv, WriteOK
<1>2. CASE u = t
  <2>b. ~\E keep \in BOOLEAN : Back(t, keep)
    BY <1>0, <1>2, PostsPc DEF Back
  <2>1. CASE PostTied(t)
    <3>1. /\ run[t].pc = "tied" /\ EndingCycle(run[t].rec) = run[t].named
          /\ (run[t].saw \/ Ends(run[t].named)) /\ run'[t].named = run[t].named
      BY <1>0, <2>b, <2>1, PostTiedFacts DEF Same, Kept
    <3> QED
      BY <1>2, <3>1, TiedProves
  <2>2. ~PostTied(t) => FALSE
    BY <1>0, <1>2, <2>b, ClaimPostFacts, ProbeFacts, PostReadsIssueFacts, PostReadsRecordFacts,
       PostNamedFacts, PostEndsFacts, SettleAfterFacts, PostsPc DEF Posts
  <2> QED
    BY <2>1, <2>2
<1> QED
  BY <1>1, <1>2

LEMMA WriteStep ==
    ASSUME IInv, [Next]_vars
    PROVE  WriteOK'
<1>0. RunOK /\ RegistryOK /\ WriteOK /\ proven \subseteq proven'
  BY Worlds DEF IInv
<1>1. ASSUME \/ Mine'.pc \notin MarkPc
             \/ Mine'.pc = Mine.pc /\ Mine'.rec = Mine.rec
             \/ Mine'.rec.cycle \in proven,
             \A t \in Thread : \/ run'[t].pc # "land"
                               \/ run[t].pc = "land" /\ run'[t].named = run[t].named
                               \/ run'[t].named \in proven
      PROVE  WriteOK'
  BY <1>0, <1>1 DEF WriteOK
<1>m. ASSUME Me'.pc # "land" \/ (Me'.pc = Me.pc /\ Me'.named = Me.named),
             Mine'.pc # "land" \/ (Mine'.pc = Mine.pc /\ Mine'.named = Mine.named)
      PROVE  \A t \in Thread : \/ run'[t].pc # "land"
                               \/ run[t].pc = "land" /\ run'[t].named = run[t].named
                               \/ run'[t].named \in proven
  BY <1>m DEF Thread, Me, Mine
<1>2. ASSUME NEW t \in Thread, Posts(t) PROVE WriteOK'
  <2>1. Mine' = Mine \/ Mine'.pc \notin MarkPc
    BY <1>0, <1>2, PostsPc DEF Thread, ReceiptPc, MarkPc
  <2> QED
    BY <1>1, <1>2, <2>1, LandPosts
<1>3. CASE Polls
  <2>1. Me'.pc # "land" /\ (Mine' = Mine \/ Mine'.pc = "queued")
    BY <1>0, <1>3, PollsPc, PollsMine DEF OwnerPc
  <2> QED
    BY <1>1, <1>m, <2>1 DEF MarkPc
<1>4. CASE Passes
  <2>1. Mine'.pc # "land" /\ Me'.pc = Me.pc /\ Me'.named = Me.named
    BY <1>0, <1>4, PassesPc, PassesMe DEF OwnerPc, Kept
  <2>2. CASE Routings
    BY <1>1, <1>m, <2>1, <2>2, RoutingsMark
  <2>3. CASE ~Routings
    <3>1. Mine'.pc \notin MarkPc
      BY <1>0, <1>4, <2>3, WorkClaimsFacts, RefetchesFacts, GuardsFacts, NoticesFacts, ExitsFacts,
         AsksSettledFacts, WorkLeavesFacts, GivesBackFacts, IdlePc
         DEF Passes, Routings, Routed1, MarkPc
    <3> QED
      BY <1>1, <1>m, <2>1, <3>1
  <2> QED
    BY <2>2, <2>3
<1>5. CASE Elsewhere
  BY <1>0, <1>1, <1>m, <1>5, ElsewherePc DEF Kept
<1>6. CASE UNCHANGED vars
  BY <1>0, <1>6 DEF vars, history, WriteOK, Mine
<1> QED
  BY <1>2, <1>3, <1>4, <1>5, <1>6 DEF Next, Elsewhere

-----------------------------------------------------------------------------
(***************************************************************************)
(* What a thread sees closed.                                              *)
(***************************************************************************)
LEMMA ClosedProves ==
    ASSUME IInv, closed
    PROVE  LiveProven /\ NextProven
<1>0. record.cycle \in 0..MaxCycle /\ MaxCycle \in Nat /\ (record.phase # "none" => record.cycle # 0)
  BY RecordTyped, Bounds, CycleNamed DEF IInv, NoCycle
<1>1. \A c \in Cycle : c \in ClosedUnder => c \in proven
  BY DEF IInv, ClosedOK
<1>2. record.phase = "live" => record.cycle \in Cycle
  BY <1>0 DEF Cycle
<1>3. record.cycle < MaxCycle => record.cycle + 1 \in Cycle
  BY <1>0 DEF Cycle
<1> QED
  BY <1>1, <1>2, <1>3, CloseOf DEF LiveProven, NextProven

\* A close seen is of the cycle asked about, or that was missed.
LEMMA ClosedOrMissed ==
    ASSUME IInv, closed, NEW c \in Cycle, c <= record.cycle
    PROVE  c \in proven \/ Missed(c)
<1>1. c \in ClosedUnder => c \in proven
  BY DEF IInv, ClosedOK
<1>2. record = Live(c) => record.phase = "live" /\ record.cycle = c
  BY DEF Live
<1> QED
  BY <1>1, <1>2, CloseOf DEF Missed

LEMMA LiveStays ==
    ASSUME IInv, Worldly, LiveProven, ~Started
    PROVE  LiveProven'
<1>1. record' = record \/ record'.phase # "live"
  BY RecordAfter DEF IInv, Worldly
<1> QED
  BY <1>1 DEF LiveProven, Worldly

LEMMA SawPosts ==
    ASSUME RunOK, NEW t \in Thread, Posts(t), run'[t].saw
    PROVE  run[t].saw \/ closed
<1>1. CASE ClaimPost(t) \/ Probe(t)
  BY <1>1, ClaimPostFacts, ProbeFacts DEF Same, Back
<1>2. CASE PostReadIssue(t) \/ PostReadAgain(t) \/ PostReadRecord(t) \/ PostReadBehind(t)
  BY <1>2, PostReadsIssueFacts, PostReadsRecordFacts
<1>3. CASE PostNamed(t)
  BY <1>3, PostNamedFacts DEF Back
<1>4. CASE PostTied(t)
  BY <1>4, PostTiedFacts DEF Same, Back
<1>5. CASE PostLands(t) \/ PostFails(t) \/ SettleAfter(t)
  BY <1>5, PostEndsFacts, SettleAfterFacts DEF Same, Back
<1> QED
  BY <1>1, <1>2, <1>3, <1>4, <1>5 DEF Posts

LEMMA SawStep ==
    ASSUME IInv, [Next]_vars
    PROVE  SawOK'
<1>0. RunOK /\ RegistryOK /\ RemoteOK /\ ClaimOK /\ PassOK /\ WriteOK /\ Worldly
  BY Worlds DEF IInv
<1>1. Mine.saw \/ closed => LiveProven
  BY ClosedProves DEF IInv, SawOK
<1>2. ASSUME Mine'.saw => (Mine.saw \/ closed) /\ ~Started /\ Mine'.pc \in InsidePc PROVE SawOK'
  BY <1>0, <1>1, <1>2, LiveStays DEF SawOK
<1>i. Mine.saw => Mine.pc \in InsidePc
  BY DEF IInv, SawOK
<1>r. record' = record => ~Started
  <2>1. record.cycle \in Nat
    BY <1>0, RecordTyped
  <2> QED
    BY <2>1 DEF Started, Live
<1>3. ASSUME NEW t \in Thread, Posts(t) PROVE SawOK'
  <2>1. ~Started
    BY <1>0, <1>3, <1>r, WorldPosts
  <2>2. Mine'.saw => (Mine.saw \/ closed) /\ Mine'.pc \in InsidePc
    BY <1>0, <1>3, <1>i, SawPosts, PostsPc DEF Thread, InsidePc, FrontPc, OutPc
  <2> QED
    BY <1>2, <2>1, <2>2
<1>4. CASE Polls
  <2>1. ~Started
    BY <1>0, <1>4, <1>r, WorldPolls
  <2>2. Mine' = Mine \/ ~Mine'.saw
    BY <1>0, <1>4, PollsMine, SubmitsFacts DEF Blank
  <2> QED
    BY <1>2, <1>i, <2>1, <2>2
<1>5. CASE Passes
  <2>1. CASE Routings
    <3>1. CASE Restarts \/ Handles \/ Retires
      BY <1>0, <1>2, <3>1, RestartsFacts, HandlesFacts, RetiresFacts DEF Routed1, Blank
    <3>2. CASE ~(Restarts \/ Handles \/ Retires)
      <4>1. record' = record \/ Ended \/ Marked
        BY <1>0, <1>5, <3>2, RecordPasses
      <4>2. ~Started
        BY <1>r, <4>1 DEF Started, Ended, Marked, Live, Cancelled
      <4>3. ToWalk \/ \E there : Routed1(there)
        BY <1>0, <2>1, <3>2, MarksPolledFacts, GuardsEndingFacts, GuardsRoutedFacts, WalksFacts,
           MarksFacts, ClosesWindowFacts, SweepsFacts DEF Routings
      <4> QED
        BY <1>2, <4>2, <4>3 DEF ToWalk, Same, Routed1, InsidePc, RecordPc
    <3> QED
      BY <3>1, <3>2
  <2>2. CASE ~Routings
    <3>1. ~Started
      BY <1>0, <1>5, <1>r, <2>2, RecordPasses DEF Routings, Started, Ended, Marked, Live, Cancelled,
         Passes
    <3>2. Mine'.saw => (Mine.saw \/ closed) /\ Mine'.pc \in InsidePc
      <4>1. WorkClaims => ~Mine'.saw
        BY <1>0, <1>i, WorkClaimsFacts DEF InsidePc, FrontPc, RecordPc, MarkPc, WindowPc, OutPc,
           ReceiptPc
      <4>2. GivesBack => ~Mine'.saw
        BY <1>0, GivesBackFacts, IdlePc DEF Blank
      <4>3. WorkLeaves => ~Mine'.saw
        BY <1>0, WorkLeavesFacts DEF Blank
      <4>4. Refetches \/ Guards => (Mine'.saw => (Mine.saw \/ closed) /\ Mine'.pc \in InsidePc)
        BY <1>0, RefetchesFacts, GuardsFacts DEF Routed1, InsidePc, FrontPc, RecordPc
      <4>5. Notices \/ Exits \/ AsksSettled
            => (Mine'.saw => (Mine.saw \/ closed) /\ Mine'.pc \in InsidePc)
        BY <1>0, NoticesFacts, ExitsFacts, AsksSettledFacts DEF InsidePc, OutPc, ReceiptPc
      <4> QED
        BY <1>5, <2>2, <4>1, <4>2, <4>3, <4>4, <4>5 DEF Passes, Routings
    <3> QED
      BY <1>2, <3>1, <3>2
  <2> QED
    BY <2>1, <2>2
<1>6. CASE Elsewhere
  <2>1. Mine'.saw = Mine.saw /\ Mine'.pc = Mine.pc
    BY <1>0, <1>6, ElsewherePc
  <2>2. Mine.saw => record' = record
    BY <1>0, <1>6, <1>i, WorldElsewhere, RefusedOutside
  <2> QED
    BY <1>2, <1>i, <1>r, <2>1, <2>2
<1>7. CASE UNCHANGED vars
  BY <1>7 DEF vars, remote, history, Mine, SawOK, LiveProven, IInv
<1> QED
  BY <1>3, <1>4, <1>5, <1>6, <1>7 DEF Next, Elsewhere

\* Where a receipt's records stand.
RecordedPc == {"named", "again", "behind", "tied"}

LEMMA TiedPosts ==
    ASSUME IInv, NEW t \in Thread, Posts(t)
    PROVE  TiedOK'
<1>0. RunOK /\ record' = record
  BY WorldPosts DEF IInv
<1>b. \A keep \in BOOLEAN : Back(t, keep) => run'[t].pc \notin RecordedPc
  BY <1>0, PostsPc DEF Back, RecordedPc
<1>1. run'[t].pc \in RecordedPc => \/ run'[t].rec = record
                                   \/ run[t].pc \in RecordedPc \ {"tied"} /\ run'[t].pc # "tied"
                                      /\ run'[t].rec = run[t].rec
  <2>1. CASE ClaimPost(t) \/ Probe(t)
    BY <1>0, <1>b, <2>1, ClaimPostFacts, ProbeFacts DEF RecordedPc
  <2>2. CASE PostReadIssue(t) \/ PostReadAgain(t) \/ PostReadRecord(t) \/ PostReadBehind(t)
    BY <1>0, <2>2, PostReadsIssueFacts, PostReadsRecordFacts DEF RecordedPc, Kept
  <2>3. CASE PostNamed(t)
    BY <1>0, <1>b, <2>3, PostNamedFacts DEF RecordedPc
  <2>4. CASE PostTied(t) \/ PostLands(t) \/ PostFails(t)
    BY <1>0, <1>b, <2>4, PostTiedFacts, PostEndsFacts DEF RecordedPc
  <2>5. CASE SettleAfter(t)
    BY <1>0, <2>5, SettleAfterFacts, PostsPc DEF RecordedPc
  <2> QED
    BY <2>1, <2>2, <2>3, <2>4, <2>5 DEF Posts
<1>2. CASE t = "poll"
  <2>1. Me'.pc = "tied" => Me'.rec = record
    BY <1>0, <1>1, <1>2, PostsPc DEF RecordedPc
  <2> QED
    BY <1>0, <1>2, <2>1, PostsPc DEF IInv, TiedOK
<1>3. CASE t = "work"
  <2>1. Mine'.pc \notin {"queued", "refetch"}
    BY <1>0, <1>3, PostsPc DEF ReceiptPc
  <2>2. Mine'.pc \in RecordedPc => Mine'.rec = record
    BY <1>0, <1>1, <1>3, PostsPc DEF IInv, TiedOK, RecordedPc
  <2> QED
    BY <1>0, <2>1, <2>2 DEF TiedOK, RecordedPc
<1> QED
  BY <1>2, <1>3 DEF Thread

LEMMA TiedStep ==
    ASSUME IInv, [Next]_vars
    PROVE  TiedOK'
<1>0. RunOK /\ RegistryOK /\ RemoteOK /\ ClaimOK /\ PassOK /\ WriteOK /\ TiedOK
  BY DEF IInv
<1>1. ASSUME record' = record, Me'.pc = "tied" => Me.pc = "tied" /\ Me'.rec = Me.rec,
             Mine'.pc \in {"queued", "refetch"} =>
                Mine.pc \in {"queued", "refetch"} \/ Me'.pc # "tied",
             Mine'.pc \in RecordedPc => Mine'.pc = Mine.pc /\ Mine'.rec = Mine.rec
      PROVE  TiedOK'
  BY <1>0, <1>1 DEF TiedOK, RecordedPc
<1>2. CASE Polls
  <2>1. record' = record /\ Me'.pc # "tied"
    BY <1>0, <1>2, PollsLeave, PollsPc DEF OwnerPc
  <2>2. Mine' = Mine \/ Mine'.pc = "queued"
    BY <1>0, <1>2, PollsMine
  <2> QED
    BY <1>1, <2>1, <2>2 DEF RecordedPc
<1>3. CASE Passes
  <2>1. Mine'.pc \notin RecordedPc /\ Me'.pc = Me.pc /\ Me'.rec = Me.rec
    BY <1>0, <1>3, PassesPc, PassesMe DEF OwnerPc, RecordedPc, Kept
  <2>2. CASE Mine'.pc \in {"queued", "refetch"}
    <3>1. CASE Routings
      BY <1>0, <2>2, <3>1, RoutingsPc DEF RecordPc, MarkPc, WindowPc
    <3>2. CASE ~Routings
      <4>1. Mine.pc = "queued" /\ record' = record
        BY <1>0, <1>3, <2>2, <3>2, WorkClaimsFacts, RefetchesFacts, GuardsFacts, NoticesFacts,
           ExitsFacts, AsksSettledFacts, WorkLeavesFacts, GivesBackFacts, IdlePc, ClaimSteps
           DEF Passes, Routings, Routed1, remote
      <4> QED
        BY <1>1, <2>1, <4>1
    <3> QED
      BY <3>1, <3>2
  <2>3. CASE Mine'.pc \notin {"queued", "refetch"}
    BY <2>1, <2>3 DEF TiedOK, RecordedPc
  <2> QED
    BY <2>2, <2>3
<1>4. CASE Elsewhere
  <2>1. /\ Me'.pc = Me.pc /\ Me'.rec = Me.rec /\ Mine'.pc = Mine.pc /\ Mine'.rec = Mine.rec
    BY <1>0, <1>4, ElsewherePc DEF Kept
  <2>2. CASE Me.pc = "tied" \/ Mine.pc \in RecordedPc
    <3>1. ~Refused
      BY <1>0, <2>2, RefusedOutside DEF PollInsidePc, InsidePc, ReceiptPc, RecordedPc
    <3> QED
      BY <1>0, <1>1, <1>4, <2>1, <3>1, WorldElsewhere
  <2>3. CASE ~(Me.pc = "tied" \/ Mine.pc \in RecordedPc)
    BY <2>1, <2>3 DEF TiedOK, RecordedPc
  <2> QED
    BY <2>2, <2>3
<1>5. CASE UNCHANGED vars
  BY <1>0, <1>5 DEF vars, remote, TiedOK, Me, Mine
<1> QED
  BY <1>2, <1>3, <1>4, <1>5, TiedPosts DEF Next, Elsewhere

-----------------------------------------------------------------------------
(***************************************************************************)
(* A closed reading between two records.                                   *)
(***************************************************************************)
SawPc == {"behind", "its_note", "second"}
TwicePc == {"tied", "last_note"}

\* What a step makes of one thread's reading.
Between(t) ==
    \/ run'[t].pc \notin SawPc \cup TwicePc
    \/ ~run'[t].saw
    \/ run'[t].pc = run[t].pc /\ run'[t].saw = run[t].saw
       /\ run'[t].rec = run[t].rec /\ run'[t].named = run[t].named
    \/ run'[t].pc \in SawPc /\ run'[t].saw = closed /\ run'[t].named = run[t].named
    \/ /\ run'[t].pc \in SawPc /\ run[t].pc \in SawPc
       /\ run'[t].saw = run[t].saw /\ run'[t].named = run[t].named
    \/ /\ run'[t].pc \in TwicePc /\ run[t].pc \in SawPc /\ run'[t].rec = record
       /\ run'[t].saw = run[t].saw /\ run'[t].named = run[t].named

LEMMA BetweenPosts ==
    ASSUME RunOK, NEW t \in Thread, Posts(t)
    PROVE  \A u \in Thread : Between(u)
<1>1. \A u \in Thread : u # t => Between(u)
  BY PostsPc DEF Others, Between
<1>b. \A keep \in BOOLEAN : Back(t, keep) => run'[t].pc \notin SawPc \cup TwicePc
  BY PostsPc DEF Back, SawPc, TwicePc
<1>2. CASE ClaimPost(t) \/ Probe(t)
  BY <1>b, <1>1, <1>2, ClaimPostFacts, ProbeFacts DEF Between, SawPc, TwicePc
<1>3. CASE PostReadIssue(t) \/ PostReadAgain(t)
  BY <1>1, <1>3, PostReadsIssueFacts DEF Kept, Between, SawPc, TwicePc
<1>4. CASE PostReadRecord(t) \/ PostReadBehind(t)
  BY <1>1, <1>4, PostReadsRecordFacts DEF Between, SawPc, TwicePc
<1>5. CASE PostNamed(t)
  BY <1>b, <1>1, <1>5, PostNamedFacts DEF Between, SawPc, TwicePc
<1>6. CASE PostTied(t) \/ PostLands(t) \/ PostFails(t)
  BY <1>b, <1>1, <1>6, PostTiedFacts, PostEndsFacts DEF Between, SawPc, TwicePc
<1>7. CASE SettleAfter(t)
  BY ZenonT(60), <1>1, <1>7, SettleAfterFacts, PostsPc DEF Between, SawPc, TwicePc
<1> QED
  BY <1>2, <1>3, <1>4, <1>5, <1>6, <1>7 DEF Posts

LEMMA BetweenMoves ==
    ASSUME RunOK, RegistryOK, [Next]_vars
    PROVE  \A t \in Thread : Between(t)
<1>1. ASSUME Me'.pc \notin SawPc \cup TwicePc
             \/ (Me'.pc = Me.pc /\ Me'.saw = Me.saw /\ Kept(Me', Me)) \/ Between("poll"),
             Mine'.pc \notin SawPc \cup TwicePc
             \/ (Mine'.pc = Mine.pc /\ Mine'.saw = Mine.saw /\ Kept(Mine', Mine))
      PROVE  \A t \in Thread : Between(t)
  BY <1>1 DEF Between, Thread, Me, Mine, Kept
<1>2. CASE Polls
  <2>1. Mine'.pc \notin SawPc \cup TwicePc
        \/ (Mine'.pc = Mine.pc /\ Mine'.saw = Mine.saw /\ Kept(Mine', Mine))
    BY <1>2, PollsMine DEF Kept, SawPc, TwicePc
  <2>2. CASE ContenderReads
    BY <1>1, <2>1, <2>2, ContenderReadsFacts DEF Kept, Between, SawPc, TwicePc, Me
  <2>3. CASE ~ContenderReads
    <3>1. Me'.pc \notin SawPc \cup TwicePc
      BY <1>2, <2>3, PollMomentFacts, PollListsFacts, PollClaimsFacts, PollLeavesFacts,
         RefusedAgainFacts, PollObservesFacts, ContenderFailsFacts, ContenderComparesFacts,
         SubmitsFacts, SubmitRefusedFacts, IdlePc DEF Polls, Done, SawPc, TwicePc
    <3> QED
      BY <1>1, <2>1, <3>1
  <2> QED
    BY <2>2, <2>3
<1>3. CASE Passes
  <2>1. Mine'.pc \notin SawPc \cup TwicePc
    <3>1. CASE Routings
      BY <3>1, RoutingsPc DEF RecordPc, MarkPc, WindowPc, SawPc, TwicePc
    <3>2. CASE ~Routings
      BY <1>3, <3>2, WorkClaimsFacts, RefetchesFacts, GuardsFacts, NoticesFacts, ExitsFacts,
         AsksSettledFacts, WorkLeavesFacts, GivesBackFacts, IdlePc
         DEF Passes, Routings, Routed1, SawPc, TwicePc
    <3> QED
      BY <3>1, <3>2
  <2> QED
    BY <1>1, <1>3, <2>1, PassesMe
<1>4. CASE Elsewhere
  BY <1>1, <1>4, ElsewherePc
<1>5. CASE UNCHANGED vars
  BY <1>5 DEF vars, Between
<1> QED
  BY <1>2, <1>3, <1>4, <1>5, BetweenPosts DEF Next, Elsewhere

LEMMA BetweenStep ==
    ASSUME IInv, [Next]_vars
    PROVE  BetweenOK'
<1>0. /\ RunOK /\ RegistryOK /\ RemoteOK /\ Worldly /\ proven \subseteq proven'
      /\ proven \subseteq Cycle
  BY Worlds DEF IInv, RemoteOK
<1>1. ASSUME NEW t \in Thread, run'[t].saw, run'[t].named # NoCycle,
             run'[t].pc \in SawPc \cup TwicePc
      PROVE  LET c == run'[t].named
             IN  /\ run'[t].pc \in SawPc => c \in proven' \/ MissedNext(c)
                 /\ run'[t].pc \in TwicePc =>
                       c \in proven' \/ (MissedNext(c) /\ run'[t].rec # Live(c))
  <2> DEFINE c == run'[t].named
  <2>1. Between(t)
    BY <1>0, BetweenMoves
  <2>2. c = run[t].named => c \in Cycle /\ c <= record.cycle
    BY <1>0, <1>1, RunTyped, Bounds DEF ThreadState, Cycle, NoCycle, IInv, ReadOK
  <2>3. c \in Cycle /\ Missed(c) => MissedNext(c)
    BY <1>0, MissedStays
  <2>4. run[t].saw /\ run[t].named # NoCycle =>
           /\ run[t].pc \in SawPc => run[t].named \in proven \/ Missed(run[t].named)
           /\ run[t].pc \in TwicePc =>
                 \/ run[t].named \in proven
                 \/ Missed(run[t].named) /\ run[t].rec # Live(run[t].named)
    BY DEF IInv, BetweenOK, SawPc, TwicePc
  <2>5. Missed(c) => record # Live(c)
    BY DEF Missed
  <2>6. SawPc \cap TwicePc = {}
    BY DEF SawPc, TwicePc
  <2>7. CASE /\ run'[t].pc = run[t].pc /\ run'[t].saw = run[t].saw
             /\ run'[t].rec = run[t].rec /\ run'[t].named = run[t].named
    BY <1>0, <1>1, <2>2, <2>3, <2>4, <2>7
  <2>8. CASE run'[t].pc \in SawPc /\ run'[t].saw = closed /\ run'[t].named = run[t].named
    BY <1>0, <1>1, <2>2, <2>3, <2>6, <2>8, ClosedOrMissed
  <2>9. CASE /\ run'[t].pc \in SawPc /\ run[t].pc \in SawPc
             /\ run'[t].saw = run[t].saw /\ run'[t].named = run[t].named
    BY <1>0, <1>1, <2>2, <2>3, <2>4, <2>6, <2>9
  <2>10. CASE /\ run'[t].pc \in TwicePc /\ run[t].pc \in SawPc /\ run'[t].rec = record
              /\ run'[t].saw = run[t].saw /\ run'[t].named = run[t].named
    BY <1>0, <1>1, <2>2, <2>3, <2>4, <2>5, <2>6, <2>10
  <2> QED
    BY <1>1, <2>1, <2>7, <2>8, <2>9, <2>10 DEF Between
<1> QED
  BY <1>1 DEF BetweenOK, Missed, MissedNext, SawPc, TwicePc

-----------------------------------------------------------------------------
(***************************************************************************)
(* The moments.                                                            *)
(***************************************************************************)
LEMMA PassesQueued ==
    ASSUME RunOK, RegistryOK, Passes
    PROVE  Mine'.pc # "queued" /\ (Mine'.pc = "sweep" => Mine'.kind = "sweep")
<1>1. CASE Routings
  <2>1. Restarts => Mine'.pc # "sweep"
    BY RestartsFacts DEF Routed1
  <2>2. ~Restarts => Mine'.pc # "sweep"
    BY <1>1, MarksPolledFacts, GuardsEndingFacts, GuardsRoutedFacts, WalksFacts, MarksFacts,
       HandlesFacts, RetiresFacts, ClosesWindowFacts, SweepsFacts DEF Routings, Routed1, ToWalk
  <2> QED
    BY <1>1, <2>1, <2>2, RoutingsPc DEF RecordPc, MarkPc, WindowPc
<1>2. CASE ~Routings
  BY <1>2, WorkClaimsFacts, RefetchesFacts, GuardsFacts, NoticesFacts, ExitsFacts,
     AsksSettledFacts, WorkLeavesFacts, GivesBackFacts, IdlePc DEF Passes, Routings, Routed1
<1> QED
  BY <1>1, <1>2

\* What the pass does to its moment.
LEMMA MineClean ==
    ASSUME RunOK, RegistryOK, Passes
    PROVE  /\ Mine'.clean => Mine.clean \/ (Refetches /\ closed /\ Mine.pc = "refetch")
           /\ Mine'.pc \in {"idle", "given_back"} => ~Mine'.clean \/ (Mine.pc = "queued" /\ Refused)
           /\ Mine'.pc = "noticed" => Refetches /\ closed
<1>1. CASE Routings
  <2>1. Mine'.pc \notin {"idle", "given_back", "noticed"}
    BY <1>1, RoutingsPc DEF RecordPc, MarkPc, WindowPc
  <2>2. Restarts => (Mine'.clean => Mine.clean)
    BY RestartsFacts DEF Routed1
  <2>3. ~Restarts => ToWalk \/ \E there : Routed1(there)
    BY <1>1, MarksPolledFacts, GuardsEndingFacts, GuardsRoutedFacts, WalksFacts, MarksFacts,
       HandlesFacts, RetiresFacts, ClosesWindowFacts, SweepsFacts DEF Routings
  <2>4. ToWalk \/ (\E there : Routed1(there)) => (Mine'.clean => Mine.clean)
    BY DEF ToWalk, Same, Carried, Routed1
  <2> QED
    BY <2>1, <2>2, <2>3, <2>4
<1>2. CASE WorkClaims \/ Guards \/ AsksSettled \/ WorkLeaves
  BY <1>2, WorkClaimsFacts, GuardsFacts, AsksSettledFacts, WorkLeavesFacts DEF Routed1
<1>3. CASE Notices \/ Exits \/ GivesBack
  BY <1>3, NoticesFacts, ExitsFacts, GivesBackFacts, IdlePc
<1>4. CASE Refetches
  BY <1>4, RefetchesFacts DEF Routed1
<1> QED
  BY <1>1, <1>2, <1>3, <1>4 DEF Passes, Routings

LEMMA MeClean ==
    ASSUME RunOK, Polls
    PROVE  /\ Me'.clean => (Me'.pc = "listing" /\ ~Refused) \/ Me.clean
           /\ Me'.clean /\ Me'.pc # "listing" => Me.pc # "listing" \/ closed
           /\ Me'.pc = "idle" => ~Me'.clean
           /\ Submits /\ Mine'.pc = "queued" /\ Mine.pc = "idle" => ~Me'.clean
           /\ Mine' = Mine \/ (Submits /\ Mine'.pc = "queued" /\ Mine.pc = "idle"
                               /\ (Mine'.clean => Me.clean /\ Mine'.kind = "closed")
                               /\ Me.pc = "submit")
<1>1. CASE PollMoment \/ PollLists
  BY <1>1, PollMomentFacts, PollListsFacts DEF Submits, At, Me
<1>2. CASE PollClaims \/ PollLeaves \/ RefusedAgain \/ SubmitRefused
  BY <1>2, PollClaimsFacts, PollLeavesFacts, RefusedAgainFacts, SubmitRefusedFacts, IdlePc
     DEF Same, Carried
<1>3. CASE PollObserves \/ RefusedDefers
  BY <1>3, PollObservesFacts
<1>4. CASE ContenderReads \/ ContenderCompares \/ ContenderFails
  BY <1>4, ContenderReadsFacts, ContenderComparesFacts, ContenderFailsFacts
     DEF Done, Carried, Observe
<1>5. CASE Submits
  BY <1>5, SubmitsFacts, IdlePc DEF Same, Carried
<1> QED
  BY <1>1, <1>2, <1>3, <1>4, <1>5 DEF Polls

LEMMA RefusedNext ==
    ASSUME IInv, [Next]_vars, Refused'
    PROVE  OtherTakes \/ (Refused /\ ~Posts("poll") /\ ~Posts("work"))
<1>0. RunOK /\ RegistryOK /\ ClaimOK /\ ClaimTyped
  BY ClaimTypes DEF IInv
<1>1. claim'.in = claim.in => Refused
  BY DEF Refused
<1>2. \A t \in Thread : ~Joins(t) /\ ~(t \in claim.in /\ Leaves(t))
  <2>1. ASSUME NEW t \in Thread, Joins(t) PROVE FALSE
    BY <1>0, <2>1, Joined DEF Refused, Thread
  <2>2. ASSUME NEW t \in Thread, t \in claim.in, Leaves(t) PROVE FALSE
    BY <1>0, <2>2, Left DEF Refused, Thread
  <2> QED
    BY <2>1, <2>2
<1>3. Refused => ~Posts("poll") /\ ~Posts("work")
  BY <1>0, RefusedOutside, PostsPc DEF Thread, PollInsidePc, InsidePc
<1>4. Polls => Refused
  BY <1>0, <1>1, <1>2, ClaimPolls DEF Thread
<1>5. Passes => Refused
  BY <1>0, <1>1, <1>2, ClaimPasses DEF Thread
<1>6. HumanFlips => Refused
  BY <1>0, <1>1 DEF HumanFlips, ClaimTyped
<1>7. (\E t \in Thread : Posts(t)) => Refused
  BY <1>0, <1>1, ClaimPosts
<1>8. UNCHANGED vars => Refused
  BY <1>1 DEF vars
<1> QED
  BY <1>3, <1>4, <1>5, <1>6, <1>7, <1>8 DEF Next, OtherLeaves, OtherWrites

\* A pass that may start a cycle could a step before, or is routed to now.
Routes == /\ WorkClaims /\ Mine.pc = "queued" /\ Mine.kind = "open" /\ ~latch.seen

LEMMA StartingPasses ==
    ASSUME IInv, Passes, Starting'
    PROVE  Starting \/ Routes
<1>0. RunOK /\ RegistryOK /\ (Mine.pc = "sweep" => Mine.kind = "sweep")
  BY DEF IInv, CleanOK
<1>1. /\ Mine'.kind = "open" /\ Mine'.pc \in {"refetch", "noticed", "guard", "guarded", "walk"} => Starting'
      /\ Mine.kind = "open" /\ Mine.pc \in {"refetch", "noticed", "guard", "guarded", "walk"} => Starting
  BY DEF Starting
<1>2. CASE Routings
  <2>1. Restarts => FALSE
    BY <1>0, RestartsFacts DEF Starting, Routed1, ReceiptPc
  <2>2. ASSUME NEW there \in {"mark", "mark_inside_walk", "exit", "raised", "restart", "note",
                              "retire", "retired", "torn"}, Routed1(there) PROVE FALSE
    BY <2>2 DEF Starting, Routed1, ReceiptPc
  <2>3. CASE GuardsLive \/ GuardsRetired
    BY <1>0, <1>1, <2>2, <2>3, GuardsRoutedFacts DEF ToWalk, Same, Carried, Starting, ReceiptPc
  <2>4. CASE Walks
    BY <1>0, <1>1, <2>2, <2>4, WalksFacts
  <2>5. CASE Sweeps
    BY <1>0, <2>2, <2>5, SweepsFacts DEF ToWalk, Same, Carried, Starting, ReceiptPc
  <2>6. CASE MarksPolledClose \/ GuardsEnding \/ Marks \/ Handles \/ Retires \/ ClosesWindow
    BY <1>0, <2>2, <2>6, MarksPolledFacts, GuardsEndingFacts, MarksFacts, HandlesFacts,
       RetiresFacts, ClosesWindowFacts
  <2> QED
    BY <1>2, <2>1, <2>3, <2>4, <2>5, <2>6 DEF Routings
<1>3. CASE WorkClaims
  BY <1>0, <1>3, WorkClaimsFacts DEF Starting, Routes, ReceiptPc
<1>4. CASE Refetches \/ Guards
  BY <1>0, <1>1, <1>4, RefetchesFacts, GuardsFacts DEF Routed1, Starting, ReceiptPc
<1>5. CASE Notices
  BY <1>0, <1>1, <1>5, NoticesFacts DEF Starting, ReceiptPc
<1>6. CASE Exits \/ AsksSettled
  BY <1>0, <1>6, ExitsFacts, AsksSettledFacts DEF Starting, ReceiptPc
<1>7. CASE WorkLeaves \/ GivesBack
  BY <1>0, <1>7, WorkLeavesFacts, GivesBackFacts, IdlePc DEF Starting, ReceiptPc
<1> QED
  BY <1>2, <1>3, <1>4, <1>5, <1>6, <1>7 DEF Passes, Routings

LEMMA StartingNext ==
    ASSUME IInv, [Next]_vars, ~Refused, Starting'
    PROVE  record' = record /\ (Starting \/ Routes)
<1>0. RunOK /\ RegistryOK /\ RemoteOK /\ ClaimOK /\ PassOK /\ WriteOK
  BY DEF IInv
<1>1. ASSUME NEW t \in Thread, Posts(t) PROVE record' = record /\ Starting
  <2>1. record' = record
    BY <1>0, <1>1, WorldPosts
  <2>2. t = "poll" \/ t = "work"
    BY DEF Thread
  <2>3. CASE t = "poll"
    BY <1>0, <1>1, <2>1, <2>3, PostsPc DEF Starting
  <2>4. CASE t = "work"
    <3>1. /\ Mine.pc \in ReceiptPc /\ Mine'.pc \in ReceiptPc \cup {After[Mine.back]}
          /\ Mine'.kind = Mine.kind /\ Mine'.back = Mine.back
          /\ After[Mine.back] \in {"guard", "leave"}
      BY <1>0, <1>1, <2>4, PostsPc DEF Carried
    <3>2. After[Mine.back] = "guard" => Mine.back = "refetched"
      BY <1>0, <3>1 DEF After, RunOK
    <3> QED
      BY <2>1, <3>1, <3>2 DEF Starting, ReceiptPc
  <2> QED
    BY <2>2, <2>3, <2>4
<1>2. CASE Polls
  <2>1. Mine' = Mine
    BY <1>0, <1>2, PollsMine DEF Starting, ReceiptPc
  <2> QED
    BY <1>0, <1>2, <2>1, WorldPolls DEF Starting
<1>3. CASE Passes
  <2>1. record' = record
    <3>1. ASSUME NEW there \in {"mark", "exit", "raised", "restarted", "note", "retire", "retired",
                                "torn"}, Routed1(there) PROVE FALSE
      BY <3>1 DEF Starting, Routed1, ReceiptPc
    <3>2. CASE GuardsEnding \/ Marks \/ Handles \/ Retires
      BY <1>0, <3>1, <3>2, GuardsEndingFacts, MarksFacts, HandlesFacts, RetiresFacts
    <3>3. CASE Restarts
      BY <1>0, <3>1, <3>3, RestartsFacts
    <3>4. CASE Sweeps
      BY <1>0, <3>1, <3>4, SweepsFacts
    <3>5. CASE ~(GuardsEnding \/ Marks \/ Handles \/ Retires \/ Restarts \/ Sweeps)
      BY <1>3, <3>5, QuietSteps, ClaimSteps, ObserveSteps, HoldSteps, GuardSteps DEF Passes, remote,
         Thread
    <3> QED
      BY <3>2, <3>3, <3>4, <3>5
  <2> QED
    BY <1>3, <2>1, StartingPasses
<1>4. CASE Elsewhere
  BY <1>0, <1>4, ElsewherePc, WorldElsewhere DEF Starting
<1>5. CASE UNCHANGED vars
  BY <1>5 DEF vars, remote, Starting, Mine
<1> QED
  BY <1>1, <1>2, <1>3, <1>4, <1>5 DEF Next, Elsewhere

\* The record the receipt has read is the one that stands, or the one it had.
TiedNext == Me'.pc = "tied" => \/ Me'.rec = record
                               \/ Me.pc = "tied" /\ Me'.rec = Me.rec

LEMMA TiedMoves ==
    ASSUME IInv, [Next]_vars
    PROVE  TiedNext
<1>0. RunOK /\ RegistryOK
  BY DEF IInv
<1>1. ASSUME NEW t \in Thread, Posts(t) PROVE TiedNext
  <2>b. \A keep \in BOOLEAN : Back(t, keep) => run'[t].pc # "tied"
    BY <1>0, <1>1, PostsPc DEF Back
  <2>1. run'[t].pc = "tied" => run'[t].rec = record
    <3>1. CASE ClaimPost(t) \/ Probe(t)
      BY <1>0, <2>b, <3>1, ClaimPostFacts, ProbeFacts
    <3>2. CASE PostReadIssue(t) \/ PostReadAgain(t) \/ PostReadRecord(t) \/ PostReadBehind(t)
      BY <1>0, <3>2, PostReadsIssueFacts, PostReadsRecordFacts
    <3>3. CASE PostNamed(t)
      BY <1>0, <2>b, <3>3, PostNamedFacts
    <3>4. CASE PostTied(t) \/ PostLands(t) \/ PostFails(t)
      BY <1>0, <2>b, <3>4, PostTiedFacts, PostEndsFacts
    <3>5. CASE SettleAfter(t)
      BY <1>0, <1>1, <3>5, SettleAfterFacts, PostsPc
    <3> QED
      BY <1>1, <3>1, <3>2, <3>3, <3>4, <3>5 DEF Posts
  <2> QED
    BY <1>0, <1>1, <2>1, PostsPc DEF TiedNext, Thread
<1>2. CASE Polls
  BY <1>0, <1>2, PollsPc DEF TiedNext, OwnerPc
<1>3. CASE Passes
  BY <1>0, <1>3, PassesMe DEF TiedNext, Kept
<1>4. CASE Elsewhere
  BY <1>0, <1>4, ElsewherePc DEF TiedNext, Kept
<1>5. CASE UNCHANGED vars
  BY <1>5 DEF vars, TiedNext, Me
<1> QED
  BY <1>1, <1>2, <1>3, <1>4, <1>5 DEF Next, Elsewhere

\* The worker enters its window with the live cycle it read.
WindowNext == Mine'.pc \in WindowPc => \/ Mine.pc \in WindowPc /\ Mine'.rec = Mine.rec
                                       \/ Mine.pc = "retire" /\ Mine'.rec = Mine.rec

LEMMA WindowMoves ==
    ASSUME IInv, [Next]_vars
    PROVE  WindowNext
<1>0. RunOK /\ RegistryOK
  BY DEF IInv
<1>1. ASSUME NEW t \in Thread, Posts(t) PROVE WindowNext
  BY <1>0, <1>1, PostsPc DEF WindowNext, Thread, WindowPc, ReceiptPc
<1>2. CASE Polls
  BY <1>0, <1>2, PollsMine DEF WindowNext, WindowPc
<1>3. CASE Passes
  <2>1. CASE Retires
    BY <1>0, <2>1, RetiresFacts DEF Routed1, WindowNext, WindowPc
  <2>2. CASE Routings /\ ~Retires
    <3>1. CASE Restarts
      BY <1>0, <3>1, RestartsFacts DEF Routed1, WindowNext, WindowPc
    <3>2. CASE ~Restarts
      <4>1. ASSUME NEW there \in {"mark", "mark_inside_walk", "exit", "raised", "restart", "note",
                                  "handler"}, Routed1(there) PROVE WindowNext
        BY <4>1 DEF WindowNext, Routed1, WindowPc
      <4>2. ToWalk => WindowNext
        BY DEF WindowNext, ToWalk, WindowPc
      <4> QED
        BY <1>0, <2>2, <3>2, <4>1, <4>2, MarksPolledFacts, GuardsEndingFacts, GuardsRoutedFacts,
           WalksFacts, MarksFacts, HandlesFacts, ClosesWindowFacts, SweepsFacts DEF Routings
    <3> QED
      BY <3>1, <3>2
  <2>3. CASE ~Routings
    <3>1. Mine'.pc \notin WindowPc
      BY <1>0, <1>3, <2>3, WorkClaimsFacts, RefetchesFacts, GuardsFacts, NoticesFacts, ExitsFacts,
         AsksSettledFacts, WorkLeavesFacts, GivesBackFacts, IdlePc
         DEF Passes, Routings, Routed1, WindowPc
    <3> QED
      BY <3>1 DEF WindowNext
  <2> QED
    BY <2>1, <2>2, <2>3
<1>4. CASE Elsewhere
  BY <1>0, <1>4, ElsewherePc DEF WindowNext, Kept
<1>5. CASE UNCHANGED vars
  BY <1>5 DEF vars, WindowNext, Mine
<1> QED
  BY <1>1, <1>2, <1>3, <1>4, <1>5 DEF Next, Elsewhere

\* A cycle is started by the handler a moment proves the next cycle for.
LEMMA LiveMoves ==
    ASSUME IInv, [Next]_vars, ~fenced, ~Refused, MomentProves
    PROVE  LiveProven'
<1>0. RunOK /\ RegistryOK /\ RemoteOK /\ ClaimOK /\ PassOK /\ WriteOK /\ Worldly
  BY Worlds DEF IInv
<1>r. record' = record => ~Started
  <2>1. record.cycle \in Nat
    BY <1>0, RecordTyped
  <2> QED
    BY <2>1 DEF Started, Live
<1>1. Started => Handles /\ Mine.pc = "handler"
  <2>1. Passes /\ Started => (Handles /\ Mine.pc = "handler") \/ Mine.pc = "restart"
    BY <1>0, <1>r, RecordPasses DEF Started, Ended, Marked, Dropping, Live, Cancelled, Retired
  <2>2. Mine.pc # "restart"
    BY DEF IInv, PassOK
  <2>3. ~Passes => ~Started
    BY <1>0, <1>r, WorldPosts, WorldPolls, WorldElsewhere DEF Next, Elsewhere, vars, remote
  <2> QED
    BY <2>1, <2>2, <2>3
<1>2. CASE Started
  <2>1. record.phase \in {"none", "retired"}
    <3>1. record' # record
      BY <1>2, <1>r
    <3>2. record = Mine.rec
      BY <1>1, <1>2 DEF IInv, PassOK, RecordPc
    <3> QED
      BY <1>0, <1>1, <1>2, <3>1, <3>2, HandlesFacts
  <2>2. record.cycle < MaxCycle /\ record' = Live(record.cycle + 1)
    BY <1>2 DEF Started
  <2>3. NextProven
    BY <1>1, <1>2 DEF MomentProves, Starting
  <2> QED
    BY <1>0, <2>1, <2>2, <2>3 DEF NextProven, LiveProven, Live, Worldly
<1>3. CASE ~Started
  BY <1>0, <1>3, LiveStays DEF MomentProves
<1> QED
  BY <1>2, <1>3

\* A moment that proves goes on proving, as long as nobody else writes.
LEMMA MomentStays ==
    ASSUME IInv, [Next]_vars, ~fenced, ~Refused, MomentProves, Routes => NextProven
    PROVE  MomentProves'
<1>0. proven \subseteq proven'
  BY Worlds
<1>1. LiveProven'
  BY LiveMoves
<1>2. Starting' => NextProven'
  <2>1. Starting' => record' = record /\ NextProven
    BY StartingNext DEF MomentProves
  <2> QED
    BY <1>0, <2>1 DEF NextProven
<1>3. Mine'.pc \in WindowPc => Mine'.rec.cycle \in proven'
  <2>1. Mine.pc = "retire" => record = Mine.rec /\ Mine.rec.phase = "live"
    BY DEF IInv, PassOK, RecordPc
  <2>2. Mine.pc = "retire" => Mine.rec.cycle \in proven
    BY <2>1 DEF MomentProves, LiveProven
  <2> QED
    BY <1>0, <2>2, WindowMoves DEF WindowNext, MomentProves
<1>4. Me'.pc = "tied" /\ Me'.rec.phase = "live" => Me'.rec.cycle \in proven'
  BY <1>0, TiedMoves DEF TiedNext, MomentProves, LiveProven
<1> QED
  BY <1>1, <1>2, <1>3, <1>4 DEF MomentProves

\* A close that stands now makes any moment prove, but that of a receipt which
\* compares a record that may be older.
LEMMA ClosedMoment ==
    ASSUME IInv, closed, Me.pc # "tied" \/ Mine.pc \in {"queued", "refetch"}
    PROVE  MomentProves /\ NextProven
<1>1. LiveProven /\ NextProven
  BY ClosedProves
<1>2. Mine.pc \in WindowPc => Mine.rec.cycle \in proven
  <2>1. ASSUME Mine.pc \in WindowPc PROVE Mine.rec.cycle \in proven
    <3>1. /\ retiring = Mine.rec.cycle /\ Mine.rec.cycle = record.cycle /\ record.cycle # NoCycle
          /\ record.cycle \in 0..MaxCycle
      BY <2>1, CycleNamed, RecordTyped DEF IInv, PassOK
    <3>2. claim.note = Mine.rec.cycle /\ Mine.rec.cycle \in Cycle
      BY <3>1, Bounds DEF IInv, PassOK, Cycle, NoCycle
    <3> QED
      BY <3>2, CloseOf DEF IInv, ClosedOK
  <2> QED
    BY <2>1
<1>3. Me.pc = "tied" /\ Me.rec.phase = "live" => Me.rec.cycle \in proven
  BY <1>1 DEF IInv, TiedOK, LiveProven
<1> QED
  BY <1>1, <1>2, <1>3 DEF MomentProves

\* The close only the refetch saw has a moment.
LEMMA NoticedClean ==
    ASSUME RunOK, Refetches, Mine'.pc = "noticed"
    PROVE  Mine'.clean
<1> DEFINE noticed == closed /\ Mine.kind = "open"
           there == IF noticed THEN "noticed" ELSE "guard"
           clean == Mine.clean \/ noticed
<1>1. \/ run' = [run EXCEPT !["work"].saw = closed, !["work"].clean = clean, !["work"].pc = there]
      \/ Works("raised")
  BY DEF Refetches, Works, Mine
<1>2. CASE run' = [run EXCEPT !["work"].saw = closed, !["work"].clean = clean, !["work"].pc = there]
  <2>1. Mine'.pc = there /\ Mine'.clean = clean
    <3> HIDE DEF there, clean
    <3> QED
      BY <1>2, RunTyped DEF Mine, Thread, ThreadState
  <2> QED
    BY <2>1
<1>3. CASE Works("raised")
  BY <1>3, WorksFacts DEF Routed1
<1> QED
  BY <1>1, <1>2, <1>3

\* Where the moments the threads carry come from.
MineMoment == Mine'.clean => \/ Mine.clean
                             \/ Refetches /\ closed /\ Mine.pc = "refetch"
                             \/ Submits /\ Me.clean /\ Me.pc = "submit"
MeMoment == Me'.clean => \/ Me'.pc = "listing" /\ ~Refused
                         \/ Me.clean /\ (Me'.pc # "listing" => Me.pc # "listing" \/ closed)

LEMMA MomentMoves ==
    ASSUME IInv, [Next]_vars
    PROVE  MineMoment /\ MeMoment
<1>0. RunOK /\ RegistryOK
  BY DEF IInv
<1>1. ASSUME NEW t \in Thread, Posts(t) PROVE MineMoment /\ MeMoment
  BY <1>0, <1>1, PostsPc DEF Thread, MineMoment, MeMoment, Carried, ReceiptPc
<1>2. CASE Polls
  BY <1>0, <1>2, MeClean DEF MineMoment, MeMoment
<1>3. CASE Passes
  BY <1>0, <1>3, MineClean, PassesMe DEF MineMoment, MeMoment
<1>4. CASE Elsewhere
  BY <1>0, <1>4, ElsewherePc DEF MineMoment, MeMoment
<1>5. CASE UNCHANGED vars
  BY <1>5 DEF vars, MineMoment, MeMoment, Mine, Me
<1> QED
  BY <1>1, <1>2, <1>3, <1>4, <1>5 DEF Next, Elsewhere

\* While another poller is inside, and from when it comes in, none is.
LEMMA NoneRefused ==
    ASSUME IInv, [Next]_vars, Refused'
    PROVE  ~latch'.clean /\ ~Me'.clean /\ ~Mine'.clean
<1>0. RunOK /\ RegistryOK /\ ClaimOK
  BY DEF IInv
<1>1. CASE OtherTakes
  <2>1. latch' = [latch EXCEPT !.clean = FALSE]
    BY <1>1 DEF OtherTakes
  <2> QED
    BY <1>0, <1>1, <2>1, OtherTakesFacts DEF RegistryOK
<1>2. CASE Refused /\ ~OtherTakes
  <2>1. ~latch.clean /\ ~Me.clean /\ ~Mine.clean /\ Mine.pc # "refetch"
    BY <1>0, <1>2, RefusedOutside DEF IInv, CleanOK, InsidePc, FrontPc
  <2>2. ~latch'.clean
    BY <2>1, LatchMovesStep DEF LatchMoves, CleanFrom
  <2> QED
    BY <1>2, <2>1, <2>2, MomentMoves DEF MineMoment, MeMoment
<1> QED
  BY <1>1, <1>2, RefusedNext

\* The parts of a moment's story that are about one thread at one place.
LEMMA CleanPlaces ==
    ASSUME IInv, [Next]_vars
    PROVE  /\ Mine'.pc \in {"idle", "given_back"} => ~Mine'.clean
           /\ Me'.pc = "idle" => ~Me'.clean
           /\ Mine'.pc = "noticed" => Mine'.clean
           /\ Mine'.pc = "sweep" => Mine'.kind = "sweep"
           /\ Mine'.clean /\ Mine'.pc = "queued" => Mine'.kind = "closed"
<1> DEFINE MinePlace == /\ Mine'.pc \in {"idle", "given_back"} => ~Mine'.clean
                        /\ Mine'.pc = "noticed" => Mine'.clean
                        /\ Mine'.pc = "sweep" => Mine'.kind = "sweep"
                        /\ Mine'.clean /\ Mine'.pc = "queued" => Mine'.kind = "closed"
           MePlace == Me'.pc = "idle" => ~Me'.clean
<1>0. RunOK /\ RegistryOK /\ CleanOK
  BY DEF IInv
<1>m. ASSUME Mine' = Mine PROVE MinePlace
  BY <1>0, <1>m DEF CleanOK
<1>i. ASSUME Me'.pc = Me.pc, Me'.clean => Me.clean PROVE MePlace
  BY <1>0, <1>i DEF CleanOK
<1>1. ASSUME NEW t \in Thread, Posts(t) PROVE MinePlace /\ MePlace
  <2>1. CASE t = "poll"
    BY <1>0, <1>1, <1>m, <2>1, PostsPc DEF ReceiptPc
  <2>2. CASE t = "work"
    BY <1>0, <1>1, <1>i, <2>2, PostsPc DEF ReceiptPc
  <2> QED
    BY <2>1, <2>2 DEF Thread
<1>2. CASE Polls
  BY <1>0, <1>2, <1>m, MeClean
<1>3. CASE Passes
  <2>1. MePlace
    BY <1>0, <1>3, <1>i, PassesMe
  <2>2. MinePlace
    BY <1>0, <1>3, MineClean, PassesQueued, NoticedClean DEF CleanOK
  <2> QED
    BY <2>1, <2>2
<1>4. CASE Elsewhere
  <2>1. MePlace
    BY <1>0, <1>4, <1>i, ElsewherePc
  <2>2. Mine'.pc = "noticed" => Mine'.clean
    <3>1. OtherTakes => Mine'.pc # "noticed"
      <4>1. OtherTakes => Mine.pc \notin InsidePc
        BY DEF OtherTakes, IInv, ClaimOK
      <4> QED
        BY <1>0, <4>1, OtherTakesFacts DEF InsidePc, FrontPc
    <3>2. ~OtherTakes => Mine' = Mine
      BY <1>4 DEF Elsewhere, HumanFlips, OtherLeaves, OtherWrites, Mine
    <3> QED
      BY <1>0, <3>1, <3>2 DEF CleanOK
  <2>3. MinePlace
    BY <1>0, <1>4, <2>2, ElsewherePc DEF CleanOK
  <2> QED
    BY <2>1, <2>3
<1>5. CASE UNCHANGED vars
  BY <1>m, <1>i, <1>5 DEF vars, Mine, Me
<1> QED
  BY <1>1, <1>2, <1>3, <1>4, <1>5 DEF Next, Elsewhere

\* The fence falls with the moments behind it.
LEMMA FenceMoves ==
    ASSUME IInv, [Next]_vars, ~fenced'
    PROVE  ~fenced \/ (~latch'.clean /\ ~Me'.clean /\ ~Mine'.clean)
<1>0. RunOK /\ RegistryOK
  BY DEF IInv
<1>1. CASE Restarts
  <2>1. latch' = [latch EXCEPT !.clean = FALSE] => ~latch'.clean
    BY <1>0 DEF RegistryOK
  <2> QED
    BY <1>0, <1>1, <2>1, RestartsFacts
<1>2. CASE GuardsEnding
  BY <1>0, <1>2, GuardsEndingFacts
<1>3. CASE ~Restarts /\ ~GuardsEnding
  <2>1. Passes => fenced' = fenced
    BY <1>3, QuietSteps, ClaimSteps, ObserveSteps, HoldSteps, GuardSteps
       DEF Passes, registry, Thread
  <2>2. ASSUME NEW t \in Thread, Posts(t) PROVE fenced' = fenced
    BY <2>2, QuietSteps, PostingSteps, ReceiptSteps DEF Posts, registry
  <2> QED
    BY <1>0, <2>1, <2>2, PollsLeave, ElsewherePc DEF Next, Elsewhere, vars, registry
<1> QED
  BY <1>1, <1>2, <1>3

\* A pass that waits is the one that waited, and the record stands.
LEMMA QueuedMoves ==
    ASSUME IInv, [Next]_vars, ~Refused, Mine'.pc = "queued", Me'.clean
    PROVE  Mine.pc = "queued" /\ Mine'.kind = Mine.kind /\ record' = record
<1>0. RunOK /\ RegistryOK /\ ClaimOK /\ RemoteOK
  BY DEF IInv
<1>1. ASSUME NEW t \in Thread, Posts(t)
      PROVE Mine.pc = "queued" /\ Mine'.kind = Mine.kind /\ record' = record
  BY <1>0, <1>1, PostsPc, WorldPosts DEF Thread, ReceiptPc
<1>2. CASE Polls
  BY <1>0, <1>2, WorldPolls, MeClean
<1>3. CASE Passes
  BY <1>0, <1>3, PassesQueued
<1>4. CASE Elsewhere
  BY <1>0, <1>4, ElsewherePc, WorldElsewhere
<1>5. CASE UNCHANGED vars
  BY <1>5 DEF vars, remote, Mine
<1> QED
  BY <1>1, <1>2, <1>3, <1>4, <1>5 DEF Next, Elsewhere

\* A moment that is clean afterwards proves already, whatever it came of.
LEMMA CleanSource ==
    ASSUME IInv, [Next]_vars, ~fenced, latch'.clean \/ Mine'.clean
    PROVE  MomentProves /\ (Routes => NextProven) /\ ~Refused
<1>0. CleanOK
  BY DEF IInv
<1>1. CASE latch.clean
  BY <1>0, <1>1 DEF CleanOK, Routes, IInv, LatchOK
<1>2. CASE Mine.clean
  BY <1>0, <1>2 DEF CleanOK, Routes
<1>3. CASE Me.clean /\ Me.pc # "listing"
  BY <1>0, <1>3 DEF CleanOK, Routes
<1>4. CASE Refetches /\ closed /\ Mine.pc = "refetch"
  <2>1. ~Refused
    BY <1>4, RefusedOutside DEF IInv, InsidePc, FrontPc
  <2> QED
    BY <1>4, <2>1, ClosedMoment
<1> QED
  BY <1>1, <1>2, <1>3, <1>4, LatchMovesStep, MomentMoves DEF LatchMoves, CleanFrom, MineMoment

LEMMA CleanStep ==
    ASSUME IInv, [Next]_vars
    PROVE  CleanOK'
<1>1. Refused' => ~latch'.clean /\ ~Me'.clean /\ ~Mine'.clean
  BY NoneRefused
<1>2. ~fenced' /\ (latch'.clean \/ Mine'.clean) => MomentProves'
  BY FenceMoves, CleanSource, MomentStays
<1>3. ~fenced' /\ Me'.clean /\ Me'.pc # "listing" =>
         /\ MomentProves'
         /\ Mine'.pc = "queued" /\ Mine'.kind = "open" => NextProven'
  <2>1. ASSUME ~fenced', Me'.clean, Me'.pc # "listing"
        PROVE  /\ MomentProves'
               /\ Mine'.pc = "queued" /\ Mine'.kind = "open" => NextProven'
    <3>1. ~fenced /\ Me.clean /\ ~Refused /\ (Me.pc # "listing" \/ closed)
      BY <2>1, FenceMoves, MomentMoves DEF MeMoment, IInv, CleanOK
    <3>2. MomentProves /\ (Mine.pc = "queued" /\ Mine.kind = "open" => NextProven)
      BY <3>1, ClosedMoment DEF IInv, CleanOK
    <3>3. MomentProves'
      BY <3>1, <3>2, MomentStays DEF Routes
    <3>4. Mine'.pc = "queued" /\ Mine'.kind = "open" => NextProven /\ record' = record
      BY <2>1, <3>1, <3>2, QueuedMoves
    <3> QED
      BY <3>3, <3>4, Worlds DEF NextProven
  <2> QED
    BY <2>1
<1> QED
  BY <1>1, <1>2, <1>3, CleanPlaces DEF CleanOK

-----------------------------------------------------------------------------
(***************************************************************************)
(* Types.  A step moves a thread to a state that is one of its own.        *)
(***************************************************************************)
LEMMA PollMoves ==
    ASSUME RunOK, NEW s \in ThreadState, s.pc \in PollPc,
           s.pc \in ReceiptPc \cup {"unclaim"} => s.back \in {"listed", "refused"},
           run' = [run EXCEPT !["poll"] = s]
    PROVE  RunOK' /\ Me' = s /\ Mine' = Mine
<1>1. run' \in [Thread -> ThreadState] /\ Me' = s /\ Mine' = Mine
  BY RunTyped DEF Thread, Me, Mine
<1> QED
  BY <1>1 DEF RunOK

LEMMA WorkMoves ==
    ASSUME RunOK, NEW s \in ThreadState, s.pc \in WorkPc,
           s.pc \in ReceiptPc => s.back \in {"refetched", "kept", "sent"},
           run' = [run EXCEPT !["work"] = s]
    PROVE  RunOK' /\ Mine' = s /\ Me' = Me
<1>1. run' \in [Thread -> ThreadState] /\ Mine' = s /\ Me' = Me
  BY RunTyped DEF Thread, Me, Mine
<1> QED
  BY <1>1 DEF RunOK

\* Within a receipt the caller stays the same.
LEMMA ReceiptMoves ==
    ASSUME RunOK, NEW t \in Thread, NEW s \in ThreadState, run[t].pc \in ReceiptPc,
           s.back = run[t].back, s.pc \in ReceiptPc \/ s.pc = After[run[t].back],
           run' = [run EXCEPT ![t] = s]
    PROVE  RunOK'
<1>1. CASE t = "poll"
  <2>1. s.back \in {"listed", "refused"} /\ s.pc \in ReceiptPc \cup {"unclaim"}
    BY <1>1 DEF RunOK, Me, After
  <2>2. s.pc \in PollPc
    BY <2>1 DEF PollPc
  <2> QED
    BY <1>1, <2>1, <2>2, PollMoves
<1>2. CASE t = "work"
  <2>1. s.back \in {"refetched", "kept", "sent"} /\ s.pc \in ReceiptPc \cup {"guard", "leave"}
    BY <1>2 DEF RunOK, Mine, After
  <2>2. s.pc \in WorkPc
    BY <2>1 DEF WorkPc, InsidePc, FrontPc, OutPc
  <2> QED
    BY <1>2, <2>1, <2>2, WorkMoves
<1> QED
  BY <1>1, <1>2 DEF Thread

LEMMA AfterTyped ==
    ASSUME RunOK, NEW t \in Thread, run[t].pc \in ReceiptPc
    PROVE  After[run[t].back] \in {"unclaim", "guard", "leave"}
  BY DEF RunOK, Thread, Me, Mine, After

LEMMA ReturnedMoves ==
    ASSUME RunOK, NEW t \in Thread, run[t].pc \in ReceiptPc, NEW keep \in BOOLEAN,
           run' = Returned(t, keep)
    PROVE  RunOK'
<1> DEFINE there == IF keep \/ run[t].back \in {"sent", "refused"}
                    THEN After[run[t].back] ELSE "settle"
           hold == IF keep /\ run[t].back = "refetched" THEN "closed" ELSE run[t].hold
           saw == run[t].saw /\ run[t].back = "refetched"
           q == [run[t] EXCEPT !.pc = there, !.hold = hold, !.saw = saw]
           r == [q EXCEPT !.rec = Fresh]
           n == [r EXCEPT !.named = NoCycle]
           s == [n EXCEPT !.landed = NoCycle]
<1>1. run[t] \in ThreadState
  BY RunTyped
<1>2. there \in {"settle", "unclaim", "guard", "leave"}
  BY AfterTyped
<1>3. Fresh \in Record /\ NoCycle \in 0..MaxCycle
  BY Bounds DEF Fresh, Record, NoCycle
<1>4. s \in ThreadState
  <2>1. there \in PollPc \cup WorkPc
    BY <1>2 DEF PollPc, WorkPc, InsidePc, FrontPc, OutPc, ReceiptPc
  <2>2. saw \in BOOLEAN
    OBVIOUS
  <2>3. hold \in {"none", "closed", "sweep"}
    BY <1>1 DEF ThreadState
  <2> HIDE DEF there, hold, saw
  <2>4. q \in ThreadState
    BY <1>1, <2>1, <2>2, <2>3 DEF ThreadState
  <2> HIDE DEF q
  <2>5. r \in ThreadState
    BY <1>3, <2>4 DEF ThreadState
  <2> HIDE DEF r
  <2>6. n \in ThreadState
    BY <1>3, <2>5 DEF ThreadState
  <2> HIDE DEF n
  <2> QED
    BY <1>3, <2>6 DEF ThreadState
<1>5. run' = [run EXCEPT ![t] = s]
  BY DEF Returned
<1>6. s.back = run[t].back /\ s.pc = there
  BY <1>1 DEF ThreadState
<1>7. s.pc \in ReceiptPc \/ s.pc = After[run[t].back]
  BY <1>6 DEF ReceiptPc
<1> HIDE DEF s
<1> QED
  BY <1>4, <1>5, <1>6, <1>7, ReceiptMoves

LEMMA RecordTypes ==
    ASSUME RemoteOK
    PROVE  /\ record \in Record /\ closed \in BOOLEAN
           /\ record.cycle \in 0..MaxCycle /\ record.phase \in {"none", "live", "cancelled", "ended", "retired"}
           /\ Fresh \in Record /\ NoCycle \in 0..MaxCycle
  BY Bounds DEF RemoteOK, Record, Fresh, NoCycle

LEMMA EndingTyped ==
    ASSUME RegistryOK, NEW r \in Record, retiring \in 0..MaxCycle
    PROVE  EndingCycle(r) \in 0..MaxCycle
  BY Bounds DEF EndingCycle, Record, NoCycle, RegistryOK

RetiringOK == retiring \in 0..MaxCycle

LEMMA RunPosts ==
    ASSUME RunOK, RemoteOK, RegistryOK, RetiringOK, NEW t \in Thread, Posts(t)
    PROVE  RunOK'
<1>t. run[t] \in ThreadState
  BY RunTyped
<1>r. record \in Record /\ closed \in BOOLEAN /\ Fresh \in Record /\ NoCycle \in 0..MaxCycle
  BY RecordTypes
<1> USE DEF ReceiptPc
<1>1. ASSUME ClaimPost(t) PROVE RunOK'
  <2>1. CASE posting # "none"
    <3> DEFINE s == [run[t] EXCEPT !.pc = "probe"]
    <3>1. s \in ThreadState /\ s.back = run[t].back /\ s.pc = "probe"
      BY <1>t DEF ThreadState, PollPc
    <3>2. run' = [run EXCEPT ![t] = s] /\ run[t].pc = "post"
      BY <1>1, <2>1 DEF ClaimPost, Go, At
    <3> QED
      BY <3>1, <3>2, ReceiptMoves
  <2>2. CASE posting = "none"
    <3> DEFINE s == [run[t] EXCEPT !.landed = latch.memo, !.pc =
                    IF run[t].back \in {"listed", "refetched"} THEN "record" ELSE "issue"]
    <3>1. s \in ThreadState /\ s.back = run[t].back /\ s.pc \in {"record", "issue"}
      BY <1>t DEF ThreadState, PollPc, RegistryOK
    <3>2. run' = [run EXCEPT ![t] = s] /\ run[t].pc = "post"
      BY <1>1, <2>2, <1>t DEF ClaimPost, At, ThreadState
    <3> QED
      BY <3>1, <3>2, ReceiptMoves
  <2> QED
    BY <2>1, <2>2
<1>2. ASSUME Probe(t) PROVE RunOK'
  <2>1. CASE At(t, "probe") /\ run' = [run EXCEPT ![t].rec = record, ![t].pc = "probed"]
    <3> DEFINE s == [run[t] EXCEPT !.rec = record, !.pc = "probed"]
    <3>1. s \in ThreadState /\ s.back = run[t].back /\ s.pc = "probed"
      BY <1>t, <1>r DEF ThreadState, PollPc
    <3>2. run' = [run EXCEPT ![t] = s] /\ run[t].pc = "probe"
      BY <2>1, <1>t DEF At, ThreadState
    <3> QED
      BY <3>1, <3>2, ReceiptMoves
  <2>2. ASSUME NEW keep \in BOOLEAN, run' = Returned(t, keep), run[t].pc \in {"probe", "probed"}
        PROVE  RunOK'
    BY <2>2, ReturnedMoves
  <2>3. At(t, "probe") \/ At(t, "probed") => run[t].pc \in {"probe", "probed"}
    BY DEF At
  <2>4. \/ At(t, "probe") /\ run' = [run EXCEPT ![t].rec = record, ![t].pc = "probed"]
        \/ At(t, "probe") /\ run' = Returned(t, TRUE)
        \/ At(t, "probed") /\ run' = Returned(t, EndingCycle(run[t].rec) # NoCycle)
    BY <1>2 DEF Probe
  <2> QED
    BY <2>1, <2>2, <2>3, <2>4
<1>3. ASSUME PostReadIssue(t) \/ PostReadAgain(t) PROVE RunOK'
  <2>1. PICK there \in {"record", "behind"} :
            run' = [run EXCEPT ![t].saw = closed, ![t].pc = there]
    BY <1>3 DEF PostReadIssue, PostReadAgain
  <2> DEFINE s == [run[t] EXCEPT !.saw = closed, !.pc = there]
  <2>2. s \in ThreadState /\ s.back = run[t].back /\ s.pc = there
    BY <1>t, <1>r DEF ThreadState, PollPc
  <2>3. run' = [run EXCEPT ![t] = s] /\ run[t].pc \in {"issue", "again"}
    BY <1>3, <2>1, <1>t DEF At, ThreadState, PostReadIssue, PostReadAgain
  <2> QED
    BY <2>2, <2>3, ReceiptMoves
<1>4. ASSUME PostReadRecord(t) \/ PostReadBehind(t) PROVE RunOK'
  <2>1. PICK there \in {"named", "tied"} :
            run' = [run EXCEPT ![t].rec = record, ![t].pc = there]
    BY <1>4 DEF PostReadRecord, PostReadBehind
  <2> DEFINE s == [run[t] EXCEPT !.rec = record, !.pc = there]
  <2>2. s \in ThreadState /\ s.back = run[t].back /\ s.pc = there
    BY <1>t, <1>r DEF ThreadState, PollPc
  <2>3. run' = [run EXCEPT ![t] = s] /\ run[t].pc \in {"record", "behind"}
    BY <1>4, <2>1, <1>t DEF At, ThreadState, PostReadRecord, PostReadBehind
  <2> QED
    BY <2>2, <2>3, ReceiptMoves
<1>5. ASSUME PostNamed(t) PROVE RunOK'
  <2> DEFINE c == EndingCycle(run[t].rec)
  <2>0. run[t].pc = "named"
    BY <1>5 DEF PostNamed, At
  <2>1. CASE c \in {NoCycle, run[t].landed}
    <3>1. run' = Returned(t, c # NoCycle)
      BY <1>5, <2>1 DEF PostNamed
    <3> QED
      BY <2>0, <3>1, ReturnedMoves
  <2>2. CASE c \notin {NoCycle, run[t].landed}
    <3> DEFINE s == [run[t] EXCEPT !.named = c, !.pc = IF run[t].saw THEN "again" ELSE "behind"]
    <3>0. c \in 0..MaxCycle
      BY <1>t, EndingTyped DEF ThreadState, RetiringOK
    <3>1. s \in ThreadState /\ s.back = run[t].back /\ s.pc \in {"again", "behind"}
      <4> HIDE DEF c
      <4> QED
        BY <1>t, <3>0 DEF ThreadState, PollPc
    <3>2. run' = [run EXCEPT ![t] = s]
      <4>1. run' = [run EXCEPT ![t].named = c, ![t].pc = IF run[t].saw THEN "again" ELSE "behind"]
        BY <1>5, <2>2 DEF PostNamed
      <4> HIDE DEF c
      <4> QED
        BY <4>1, <1>t DEF ThreadState
    <3> HIDE DEF s
    <3> QED
      BY <2>0, <3>1, <3>2, ReceiptMoves
  <2> QED
    BY <2>1, <2>2
<1>6. ASSUME PostTied(t) PROVE RunOK'
  <2>0. run[t].pc = "tied"
    BY <1>6 DEF PostTied, At
  <2>1. run' = [run EXCEPT ![t].pc = "land"] \/ run' = Returned(t, TRUE)
    BY <1>6 DEF PostTied, Go
  <2> DEFINE s == [run[t] EXCEPT !.pc = "land"]
  <2>2. s \in ThreadState /\ s.back = run[t].back /\ s.pc = "land"
    BY <1>t DEF ThreadState, PollPc
  <2>3. CASE run' = [run EXCEPT ![t].pc = "land"]
    BY <2>0, <2>2, <2>3, ReceiptMoves
  <2> QED
    BY <2>0, <2>1, <2>3, ReturnedMoves
<1>7. ASSUME PostLands(t) \/ PostFails(t) PROVE RunOK'
  <2>1. run' = Returned(t, TRUE) /\ run[t].pc \in ReceiptPc
    BY <1>7 DEF PostLands, PostFails, At
  <2> QED
    BY <2>1, ReturnedMoves
<1>8. ASSUME SettleAfter(t) PROVE RunOK'
  <2> DEFINE s == [run[t] EXCEPT !.pc = After[run[t].back]]
  <2>0. run[t].pc = "settle" /\ run' = [run EXCEPT ![t] = s]
    BY <1>8 DEF SettleAfter, At, Go
  <2>1. After[run[t].back] \in {"unclaim", "guard", "leave"}
    BY <2>0, AfterTyped
  <2>2. s \in ThreadState /\ s.back = run[t].back /\ s.pc = After[run[t].back]
    BY <1>t, <2>1 DEF ThreadState, PollPc, WorkPc, InsidePc, FrontPc, OutPc
  <2> QED
    BY <2>0, <2>2, ReceiptMoves
<1> QED
  BY <1>1, <1>2, <1>3, <1>4, <1>5, <1>6, <1>7, <1>8 DEF Posts

LEMMA RunPolls ==
    ASSUME RunOK, RemoteOK, RegistryOK, RetiringOK, ClaimOK, Polls
    PROVE  RunOK'
<1>t. Me \in ThreadState /\ Mine \in ThreadState
  BY RunTyped
<1>r. record \in Record /\ closed \in BOOLEAN /\ Fresh \in Record /\ NoCycle \in 0..MaxCycle
  BY RecordTypes
<1>i. Idle \in ThreadState /\ Idle.pc = "idle" /\ Idle.back = "none"
  BY <1>r DEF Idle, ThreadState, PollPc
<1>c. claim.note \in 0..MaxCycle
  BY DEF ClaimOK
<1> USE DEF PollPc, ReceiptPc, ContenderPc
<1>1. ASSUME PollMoment PROVE RunOK'
  <2> DEFINE s == [Me EXCEPT !.clean = ~Refused, !.pc = "listing",
                             !.kind = IF latch.seen THEN "sweep" ELSE "open"]
  <2>1. s \in ThreadState /\ s.pc = "listing"
    BY ZenonT(60), <1>t DEF ThreadState
  <2>2. run' = [run EXCEPT !["poll"] = s]
    BY <1>1 DEF PollMoment, Me
  <2> QED
    BY <2>1, <2>2, PollMoves
<1>2. ASSUME PollLists PROVE RunOK'
  <2>1. PICK kind \in {"sweep", "closed", "open"} :
            run' = [run EXCEPT !["poll"].saw = closed, !["poll"].kind = kind,
                               !["poll"].clean = @ /\ closed,
                               !["poll"].pc = IF kind = "open" THEN "submit" ELSE "claim"]
    BY <1>2 DEF PollLists
  <2> DEFINE b == Me.clean /\ closed
             there == IF kind = "open" THEN "submit" ELSE "claim"
             s == [Me EXCEPT !.saw = closed, !.kind = kind, !.clean = b, !.pc = there]
  <2>2. b \in BOOLEAN /\ there \in {"submit", "claim"}
    OBVIOUS
  <2>4. run' = [run EXCEPT !["poll"] = s]
    BY <2>1, <1>t DEF Me, ThreadState
  <2> HIDE DEF b, there
  <2>3. s \in ThreadState /\ s.pc \in {"submit", "claim"}
    BY ZenonT(60), <1>t, <1>r, <2>2 DEF ThreadState
  <2> HIDE DEF s
  <2> QED
    BY <2>3, <2>4, PollMoves
<1>3. ASSUME PollClaims \/ SubmitRefused PROVE RunOK'
  <2>1. PICK there \in {"listed", "notes", "submit", "again_held"} :
            run' = [run EXCEPT !["poll"].pc = there]
    BY <1>3 DEF PollClaims, SubmitRefused, Go
  <2> DEFINE s == [Me EXCEPT !.pc = there]
  <2>2. s \in ThreadState /\ s.pc \in {"listed", "notes", "submit", "again_held"}
    BY <1>t DEF ThreadState
  <2>3. run' = [run EXCEPT !["poll"] = s]
    BY <2>1 DEF Me
  <2> QED
    BY <2>2, <2>3, PollMoves
<1>4. ASSUME PollObserves \/ RefusedDefers PROVE RunOK'
  <2>1. PICK back \in {"listed", "refused"} :
            run' = [run EXCEPT !["poll"].pc = "post", !["poll"].back = back]
    BY <1>4 DEF PollObserves, RefusedDefers
  <2> DEFINE s == [Me EXCEPT !.pc = "post", !.back = back]
  <2>2. s \in ThreadState /\ s.pc = "post" /\ s.back = back
    BY <1>t DEF ThreadState
  <2>3. run' = [run EXCEPT !["poll"] = s]
    BY <2>1, <1>t DEF Me, ThreadState
  <2> QED
    BY <2>2, <2>3, PollMoves
<1>5. ASSUME PollLeaves \/ RefusedAgain PROVE RunOK'
  <2>1. CASE run' = [run EXCEPT !["poll"] = Idle]
    BY <1>i, <2>1, PollMoves
  <2>2. CASE run' = [run EXCEPT !["poll"].pc = "submit", !["poll"].back = "none",
                                !["poll"].clean = @ /\ run["poll"].kind = "closed"]
    <3> DEFINE s == [Me EXCEPT !.pc = "submit", !.back = "none",
                               !.clean = @ /\ Me.kind = "closed"]
    <3>1. (Me.clean /\ Me.kind = "closed") \in BOOLEAN
      OBVIOUS
    <3>2. s \in ThreadState /\ s.pc = "submit"
      BY ZenonT(60), <1>t, <3>1 DEF ThreadState
    <3>3. run' = [run EXCEPT !["poll"] = s]
      BY <2>2, <1>t DEF Me, ThreadState
    <3> QED
      BY <3>2, <3>3, PollMoves
  <2>3. CASE run' = [run EXCEPT !["poll"].pc = "defer"]
    <3> DEFINE s == [Me EXCEPT !.pc = "defer"]
    <3>1. s \in ThreadState /\ s.pc = "defer" /\ run' = [run EXCEPT !["poll"] = s]
      BY <1>t, <2>3 DEF Me, ThreadState
    <3> QED
      BY <3>1, PollMoves
  <2> QED
    BY <1>5, <2>1, <2>2, <2>3 DEF PollLeaves, RefusedAgain, Go
<1>6. ASSUME Submits PROVE RunOK'
  <2> DEFINE s == [Idle EXCEPT !.pc = "queued", !.kind = Me.kind,
                               !.clean = Me.clean /\ Me.kind = "closed"]
             r == [Me EXCEPT !.pc = "refused"]
  <2>0. (Me.clean /\ Me.kind = "closed") \in BOOLEAN
    OBVIOUS
  <2>1. s \in ThreadState /\ s.pc = "queued"
    BY ZenonT(60), <1>t, <1>i, <2>0 DEF ThreadState, WorkPc
  <2>2. r \in ThreadState /\ r.pc = "refused"
    BY <1>t DEF ThreadState
  <2>3. CASE run' = [run EXCEPT !["poll"] = r]
    BY <2>2, <2>3, PollMoves
  <2>4. CASE run' = [run EXCEPT !["poll"] = Idle, !["work"] = s]
    <3>1. /\ run' \in [Thread -> ThreadState] /\ Me' = Idle /\ Mine' = s
      BY <2>1, <1>i, <2>4, RunTyped DEF Thread, Me, Mine
    <3> QED
      BY <3>1, <1>i, <2>1 DEF RunOK, WorkPc
  <2>5. \/ run' = [run EXCEPT !["poll"] = r]
        \/ run' = [run EXCEPT !["poll"] = Idle, !["work"] = s]
    BY <1>6 DEF Submits, Go, Me
  <2> QED
    BY <2>3, <2>4, <2>5
<1>n. Noted \subseteq Cycle
  <2>1. Me.notes \subseteq Cycle
    BY <1>t DEF ThreadState
  <2> QED
    BY <2>1, <1>c, Bounds DEF Noted, Cycle, NoCycle
<1>e. \A r \in Record : EndedCycle(r, Noted) \in 0..MaxCycle
  BY EndingTyped DEF EndedCycle, Record, RetiringOK
<1>7. ASSUME ContenderReads PROVE RunOK'
  <2>1. CASE run' = [run EXCEPT !["poll"].notes = Noted,
                        !["poll"].pc = IF @ = "notes" THEN "first" ELSE "second"]
    <3> DEFINE s == [Me EXCEPT !.notes = Noted, !.pc = IF @ = "notes" THEN "first" ELSE "second"]
    <3>1. s \in ThreadState /\ s.pc \in {"first", "second"}
      BY <1>t, <1>n DEF ThreadState
    <3>2. run' = [run EXCEPT !["poll"] = s]
      BY <2>1, <1>t DEF Me, ThreadState
    <3> QED
      BY <3>1, <3>2, PollMoves
  <2>2. CASE run' = [run EXCEPT !["poll"].rec = record,
                        !["poll"].pc = IF @ = "first" THEN "first_note" ELSE "last_note"]
    <3> DEFINE s == [Me EXCEPT !.rec = record, !.pc = IF @ = "first" THEN "first_note" ELSE "last_note"]
    <3>1. s \in ThreadState /\ s.pc \in {"first_note", "last_note"}
      BY <1>t, <1>r DEF ThreadState
    <3>2. run' = [run EXCEPT !["poll"] = s]
      BY <2>2, <1>t DEF Me, ThreadState
    <3> QED
      BY <3>1, <3>2, PollMoves
  <2>3. CASE run' = [run EXCEPT !["poll"].saw = closed, !["poll"].reads = @ + 1,
                                !["poll"].pc = "its_note"]
    <3> DEFINE n == Me.reads + 1
               s == [Me EXCEPT !.saw = closed, !.reads = n, !.pc = "its_note"]
    <3>0. n \in Nat
      <4>1. Me.reads \in Nat
        BY <1>t DEF ThreadState
      <4> QED
        BY <4>1
    <3>2. run' = [run EXCEPT !["poll"] = s]
      BY <2>3, <1>t DEF Me, ThreadState
    <3> HIDE DEF n
    <3>1. s \in ThreadState /\ s.pc = "its_note"
      BY <1>t, <1>r, <3>0 DEF ThreadState
    <3> HIDE DEF s
    <3> QED
      BY <3>1, <3>2, PollMoves
  <2>4. CASE run' = [run EXCEPT !["poll"].notes = Noted, !["poll"].rec = Fresh,
                                !["poll"].named = EndedCycle(Me.rec, Noted),
                                !["poll"].pc = "behind_it"]
    <3> DEFINE c == EndedCycle(Me.rec, Noted)
               n == Noted
               s == [Me EXCEPT !.notes = n, !.rec = Fresh, !.named = c, !.pc = "behind_it"]
    <3>0. c \in 0..MaxCycle
      BY <1>e, <1>t DEF ThreadState
    <3>2. run' = [run EXCEPT !["poll"] = s]
      <4> HIDE DEF c, n
      <4>1. run' = [run EXCEPT !["poll"].notes = n, !["poll"].rec = Fresh,
                               !["poll"].named = c, !["poll"].pc = "behind_it"]
        BY <2>4 DEF c, n
      <4> QED
        BY <4>1, <1>t DEF Me, ThreadState
    <3>1. s \in ThreadState /\ s.pc = "behind_it"
      <4>1. n \subseteq Cycle
        BY <1>n
      <4> HIDE DEF c, n
      <4> QED
        BY <1>t, <1>r, <4>1, <3>0 DEF ThreadState
    <3> HIDE DEF s
    <3> QED
      BY <3>1, <3>2, PollMoves
  <2> QED
    BY <1>7, <2>1, <2>2, <2>3, <2>4 DEF ContenderReads
<1>d. ASSUME run' = ContenderDone PROVE RunOK'
  <2> DEFINE s == [Idle EXCEPT !.pc = "submit", !.kind = Me.kind, !.clean = Me.clean]
  <2>1. s \in ThreadState /\ s.pc = "submit"
    BY <1>t, <1>i DEF ThreadState
  <2>2. run' = [run EXCEPT !["poll"] = s]
    BY <1>d DEF ContenderDone
  <2> QED
    BY <2>1, <2>2, PollMoves
<1>8. ASSUME ContenderCompares PROVE RunOK'
  <2> DEFINE c == EndedCycle(Me.rec, Noted)
             n == Noted
             s == [Me EXCEPT !.named = c, !.rec = Fresh, !.notes = n, !.pc = "behind_it"]
  <2>0. c \in 0..MaxCycle /\ n \subseteq Cycle
    BY <1>e, <1>n, <1>t DEF ThreadState
  <2>1. \/ run' = ContenderDone
        \/ run' = [run EXCEPT !["poll"].named = c, !["poll"].rec = Fresh,
                              !["poll"].notes = n, !["poll"].pc = "behind_it"]
    BY <1>8 DEF ContenderCompares
  <2>2. CASE run' = [run EXCEPT !["poll"].named = c, !["poll"].rec = Fresh,
                              !["poll"].notes = n, !["poll"].pc = "behind_it"]
    <3> HIDE DEF c, n
    <3>1. s \in ThreadState /\ s.pc = "behind_it"
      BY <1>t, <1>r, <2>0 DEF ThreadState
    <3>2. run' = [run EXCEPT !["poll"] = s]
      BY <2>2, <1>t DEF Me, ThreadState
    <3> QED
      BY <3>1, <3>2, PollMoves
  <2> QED
    BY <2>1, <2>2, <1>d
<1>9. ASSUME ContenderFails PROVE RunOK'
  BY <1>9, <1>d DEF ContenderFails
<1> QED
  BY <1>1, <1>2, <1>3, <1>4, <1>5, <1>6, <1>7, <1>8, <1>9 DEF Polls

LEMMA StaleTyped ==
    ASSUME NEW s \in ThreadState
    PROVE  [s EXCEPT !.clean = FALSE] \in ThreadState
  BY DEF ThreadState

LEMMA RoutingMoves ==
    ASSUME RunOK, RemoteOK, NEW there \in WorkPc \ ReceiptPc, Works(there)
    PROVE  /\ RunOK' /\ Me' = Me
           /\ Mine' = [Idle EXCEPT !.pc = there, !.hold = Mine.hold,
                 !.clean = Mine.clean /\ Mine.hold = "closed",
                 !.rec = IF there \in {"exit", "raised"} THEN Fresh ELSE Mine.rec]
<1>t. Mine \in ThreadState /\ Fresh \in Record /\ NoCycle \in 0..MaxCycle
  BY RunTyped, RecordTypes
<1>i. Idle \in ThreadState
  BY <1>t DEF Idle, ThreadState, PollPc
<1> DEFINE b == Mine.clean /\ Mine.hold = "closed"
           s == [Idle EXCEPT !.pc = there, !.hold = Mine.hold, !.clean = b,
                   !.rec = IF there \in {"exit", "raised"} THEN Fresh ELSE Mine.rec]
<1>1. run' = [run EXCEPT !["work"] = s]
  BY DEF Works, Routing
<1>2. b \in BOOLEAN
  OBVIOUS
<1>4. s \in ThreadState /\ s.pc = there
  <2> HIDE DEF b
  <2> QED
    BY <1>t, <1>i, <1>2 DEF ThreadState
<1>5. RunOK' /\ Me' = Me /\ Mine' = s
  <2> HIDE DEF s
  <2> QED
    BY <1>1, <1>4, WorkMoves
<1> QED
  BY <1>5

LEMMA RunPasses ==
    ASSUME RunOK, RemoteOK, RegistryOK, Passes
    PROVE  RunOK'
<1>t. Mine \in ThreadState
  BY RunTyped
<1>r. record \in Record /\ closed \in BOOLEAN /\ Fresh \in Record /\ NoCycle \in 0..MaxCycle
  BY RecordTypes
<1>i. Idle \in ThreadState /\ Idle.pc = "idle" /\ Idle.back = "none"
  BY <1>r DEF Idle, ThreadState, PollPc
<1>0. ASSUME NEW there \in WorkPc \ ReceiptPc, run' = [run EXCEPT !["work"].pc = there]
      PROVE  RunOK'
  <2> DEFINE s == [Mine EXCEPT !.pc = there]
  <2>1. s \in ThreadState /\ s.pc = there
    BY <1>t DEF ThreadState
  <2>2. run' = [run EXCEPT !["work"] = s]
    BY <1>0 DEF Mine
  <2> HIDE DEF s
  <2> QED
    BY <2>1, <2>2, WorkMoves
<1> USE DEF WorkPc, InsidePc, FrontPc, RecordPc, MarkPc, WindowPc, OutPc, ReceiptPc
<1>1. ASSUME WorkClaims PROVE RunOK'
  <2>1. CASE run' = Routed
    <3> DEFINE kind == IF Mine.kind = "open" /\ latch.seen THEN "sweep" ELSE Mine.kind
               hold == IF kind = "sweep" \/ (kind = "closed" /\ latch.seen) THEN kind ELSE "none"
               s == [Mine EXCEPT !.pc = "refetch", !.kind = kind, !.hold = hold]
    <3>1. kind \in {"open", "closed", "sweep"} /\ hold \in {"none", "closed", "sweep"}
      BY <1>t DEF ThreadState
    <3>2. run' = [run EXCEPT !["work"] = s]
      <4>1. run' = [run EXCEPT !["work"].pc = "refetch", !["work"].kind = kind,
                               !["work"].hold = hold]
        BY <2>1 DEF Routed
      <4> HIDE DEF kind, hold
      <4> QED
        BY <4>1, <1>t DEF Mine, ThreadState
    <3> HIDE DEF kind, hold
    <3>3. s \in ThreadState /\ s.pc = "refetch"
      BY ZenonT(60), <1>t, <3>1 DEF ThreadState
    <3> HIDE DEF s
    <3> QED
      BY <3>2, <3>3, WorkMoves
  <2> QED
    BY <1>1, <1>0, <2>1 DEF WorkClaims, Go
<1>2. ASSUME Refetches PROVE RunOK'
  <2> DEFINE noticed == closed /\ Mine.kind = "open"
             clean == Mine.clean \/ noticed
             there == IF noticed THEN "noticed" ELSE "guard"
             s == [Mine EXCEPT !.saw = closed, !.clean = clean, !.pc = there]
  <2>1. \/ run' = [run EXCEPT !["work"].saw = closed, !["work"].clean = @ \/ noticed,
                              !["work"].pc = there]
        \/ Works("raised")
    BY <1>2 DEF Refetches, Works
  <2>2. CASE run' = [run EXCEPT !["work"].saw = closed, !["work"].clean = @ \/ noticed,
                              !["work"].pc = there]
    <3>1. run' = [run EXCEPT !["work"] = s]
      <4> HIDE DEF there, noticed
      <4> QED
        BY <2>2, <1>t DEF Mine, ThreadState
    <3>2. clean \in BOOLEAN /\ there \in {"noticed", "guard"}
      OBVIOUS
    <3>3. s \in ThreadState /\ s.pc \in {"noticed", "guard"}
      <4> HIDE DEF there, clean
      <4> QED
        BY ZenonT(60), <1>t, <1>r, <3>2 DEF ThreadState
    <3> HIDE DEF s
    <3> QED
      BY <3>1, <3>3, WorkMoves
  <2> QED
    BY <2>1, <2>2, RoutingMoves
<1>3. ASSUME Notices \/ Exits PROVE RunOK'
  <2>1. \/ \E there \in {"leave", "asks_settled"} : run' = [run EXCEPT !["work"].pc = there]
        \/ \E back \in {"refetched", "kept", "sent"} :
              run' = [run EXCEPT !["work"].pc = "post", !["work"].back = back]
    BY <1>3 DEF Notices, Exits, Go
  <2>2. ASSUME NEW back \in {"refetched", "kept", "sent"},
               run' = [run EXCEPT !["work"].pc = "post", !["work"].back = back]
        PROVE  RunOK'
    <3> DEFINE s == [Mine EXCEPT !.pc = "post", !.back = back]
    <3>1. s \in ThreadState /\ s.pc = "post" /\ s.back = back
      BY <1>t DEF ThreadState
    <3>2. run' = [run EXCEPT !["work"] = s]
      BY <2>2, <1>t DEF Mine, ThreadState
    <3> HIDE DEF s
    <3> QED
      BY <3>1, <3>2, WorkMoves
  <2> QED
    BY <2>1, <2>2, <1>0
<1>4. ASSUME Guards PROVE RunOK'
  <2> DEFINE there == IF Mine.kind = "sweep" THEN "sweep" ELSE "guarded"
             s == [Mine EXCEPT !.rec = record, !.pc = there]
  <2>1. run' = [run EXCEPT !["work"].rec = record, !["work"].pc = there] \/ Works("raised")
    BY <1>4 DEF Guards, Works
  <2>2. CASE run' = [run EXCEPT !["work"].rec = record, !["work"].pc = there]
    <3>1. s \in ThreadState /\ s.pc \in {"sweep", "guarded"}
      BY ZenonT(60), <1>t, <1>r DEF ThreadState
    <3>2. run' = [run EXCEPT !["work"] = s]
      BY <2>2, <1>t DEF Mine, ThreadState
    <3> HIDE DEF s
    <3> QED
      BY <3>1, <3>2, WorkMoves
  <2> QED
    BY <2>1, <2>2, RoutingMoves
<1>5. ASSUME MarksPolledClose \/ GuardsEnding \/ Walks \/ Marks \/ Handles \/ Retires
             \/ ClosesWindow \/ Sweeps \/ GuardsLive \/ GuardsRetired
      PROVE  RunOK'
  <2>1. \/ \E there \in WorkPc \ ReceiptPc : Works(there)
        \/ run' = [run EXCEPT !["work"].pc = "walk"]
    BY <1>5 DEF MarksPolledClose, GuardsEnding, Walks, Marks, Handles, Retires,
                ClosesWindow, Sweeps, GuardsLive, GuardsRetired, Adopts, Go
  <2> QED
    BY <2>1, <1>0, RoutingMoves
<1>6. ASSUME Restarts PROVE RunOK'
  <2>1. CASE Works("restarted")
    BY <2>1, RoutingMoves
  <2>2. CASE run' = Staled(Routing("exit"))
    <3> DEFINE b == Mine.clean /\ Mine.hold = "closed"
               s == [Idle EXCEPT !.pc = "exit", !.hold = Mine.hold, !.clean = b, !.rec = Fresh]
               f == [run EXCEPT !["work"] = s]
    <3>1. b \in BOOLEAN
      OBVIOUS
    <3>2. s \in ThreadState /\ s.pc = "exit"
      <4> DEFINE q == [Idle EXCEPT !.pc = "exit", !.hold = Mine.hold]
      <4> HIDE DEF b
      <4>1. q \in ThreadState /\ q.pc = "exit"
        BY <1>t, <1>r, <1>i DEF ThreadState
      <4>2. s = [q EXCEPT !.clean = b, !.rec = Fresh]
        OBVIOUS
      <4> HIDE DEF q, s
      <4> QED
        BY <1>t, <1>r, <1>i, <3>1, <4>1, <4>2 DEF ThreadState
    <3>3. f = Routing("exit")
      BY DEF Routing
    <3>4. f \in [Thread -> ThreadState] /\ f["work"] = s /\ f["poll"] = Me
      <4> HIDE DEF s
      <4> QED
        BY <3>2, RunTyped DEF Thread, Me
    <3>5. run' = [t \in Thread |-> [f[t] EXCEPT !.clean = FALSE]]
      BY <2>2, <3>3 DEF Staled
    <3> HIDE DEF s, f
    <3>6. ASSUME NEW t \in Thread PROVE [f[t] EXCEPT !.clean = FALSE] \in ThreadState
      <4>1. f[t] \in ThreadState
        BY <3>4
      <4> QED
        BY <4>1, StaleTyped
    <3>7. /\ run' \in [Thread -> ThreadState]
          /\ Me' = [Me EXCEPT !.clean = FALSE] /\ Mine' = [s EXCEPT !.clean = FALSE]
      BY <3>4, <3>5, <3>6 DEF Me, Mine, Thread
    <3>8. Me'.pc = Me.pc /\ Me'.back = Me.back /\ Mine'.pc = "exit"
      BY <3>2, <3>7, RunTyped DEF ThreadState
    <3> QED
      BY <3>7, <3>8 DEF RunOK
  <2> QED
    BY <1>6, <2>1, <2>2 DEF Restarts
<1>7. ASSUME AsksSettled PROVE RunOK'
  <2>1. \/ run' = [run EXCEPT !["work"].saw = closed, !["work"].pc = "asks_ending"]
        \/ run' = [run EXCEPT !["work"].pc = "leave"]
        \/ run' = [run EXCEPT !["work"].back = "kept", !["work"].pc = "settle"]
    BY <1>7 DEF AsksSettled
  <2>2. CASE run' = [run EXCEPT !["work"].saw = closed, !["work"].pc = "asks_ending"]
    <3> DEFINE s == [Mine EXCEPT !.saw = closed, !.pc = "asks_ending"]
    <3>1. s \in ThreadState /\ s.pc = "asks_ending"
      BY <1>t, <1>r DEF ThreadState
    <3>2. run' = [run EXCEPT !["work"] = s]
      BY <2>2, <1>t DEF Mine, ThreadState
    <3> HIDE DEF s
    <3> QED
      BY <3>1, <3>2, WorkMoves
  <2>3. CASE run' = [run EXCEPT !["work"].back = "kept", !["work"].pc = "settle"]
    <3> DEFINE s == [Mine EXCEPT !.back = "kept", !.pc = "settle"]
    <3>1. s \in ThreadState /\ s.pc = "settle" /\ s.back = "kept"
      BY <1>t DEF ThreadState
    <3>2. run' = [run EXCEPT !["work"] = s]
      BY <2>3, <1>t DEF Mine, ThreadState
    <3> HIDE DEF s
    <3> QED
      BY <3>1, <3>2, WorkMoves
  <2> QED
    BY <2>1, <2>2, <2>3, <1>0
<1>8. ASSUME WorkLeaves \/ GivesBack PROVE RunOK'
  <2> DEFINE s == [Idle EXCEPT !.pc = "given_back"]
  <2>1. s \in ThreadState /\ s.pc = "given_back"
    BY <1>i DEF ThreadState
  <2>2. run' = [run EXCEPT !["work"] = s] \/ run' = [run EXCEPT !["work"] = Idle]
    BY <1>8 DEF WorkLeaves, GivesBack
  <2> HIDE DEF s
  <2> QED
    BY <2>1, <2>2, <1>i, WorkMoves
<1> QED
  BY <1>1, <1>2, <1>3, <1>4, <1>5, <1>6, <1>7, <1>8 DEF Passes

LEMMA RunOthers ==
    ASSUME RunOK, HumanFlips \/ OtherTakes \/ OtherLeaves \/ OtherWrites
    PROVE  RunOK'
<1>1. ASSUME run' = run PROVE RunOK'
  BY <1>1 DEF RunOK, Me, Mine
<1>2. ASSUME run' = Staled(run) PROVE RunOK'
  <2>1. run' = [t \in Thread |-> [run[t] EXCEPT !.clean = FALSE]]
    BY <1>2 DEF Staled
  <2>2. \A t \in Thread : [run[t] EXCEPT !.clean = FALSE] \in ThreadState
    BY RunTyped, StaleTyped
  <2>3. /\ run' \in [Thread -> ThreadState]
        /\ Me' = [Me EXCEPT !.clean = FALSE] /\ Mine' = [Mine EXCEPT !.clean = FALSE]
    BY <2>1, <2>2 DEF Me, Mine, Thread
  <2>4. Me'.pc = Me.pc /\ Me'.back = Me.back /\ Mine'.pc = Mine.pc /\ Mine'.back = Mine.back
    BY <2>3, RunTyped DEF ThreadState
  <2> QED
    BY <2>3, <2>4 DEF RunOK
<1> QED
  BY <1>1, <1>2 DEF HumanFlips, OtherTakes, OtherLeaves, OtherWrites


LEMMA RunStep ==
    ASSUME IInv, [Next]_vars
    PROVE  RunOK'
<1>0. RunOK /\ RemoteOK /\ RegistryOK /\ ClaimOK
  BY DEF IInv
<1>1. RetiringOK
  BY <1>0, MineTyped, Bounds DEF RetiringOK, IInv, PassOK, NoCycle
<1>2. (\E t \in Thread : Posts(t)) => RunOK'
  BY <1>0, <1>1, RunPosts
<1>3. Polls => RunOK'
  BY <1>0, <1>1, RunPolls
<1>4. Passes => RunOK'
  BY <1>0, RunPasses
<1>5. HumanFlips \/ OtherTakes \/ OtherLeaves \/ OtherWrites => RunOK'
  BY <1>0, RunOthers
<1>6. UNCHANGED vars => RunOK'
  BY <1>0 DEF vars, RunOK, Me, Mine
<1> QED
  BY <1>2, <1>3, <1>4, <1>5, <1>6 DEF Next

LEMMA HoldsStep ==
    ASSUME IInv, [Next]_vars
    PROVE  HoldsOK'
<1>0. RunOK /\ RegistryOK /\ HoldsOK
  BY DEF IInv
<1>1. (\E t \in Thread : Posts(t)) => HoldsOK'
  BY <1>0, HoldsPosts
<1>2. Polls => HoldsOK'
  BY <1>0, HoldsPolls
<1>3. Passes => HoldsOK'
  BY <1>0, HoldsPasses
<1>4. Elsewhere => HoldsOK'
  BY <1>0, HoldsElsewhere
<1>5. UNCHANGED vars => HoldsOK'
  BY <1>0 DEF vars, registry, HoldsOK, Me, Mine
<1> QED
  BY <1>1, <1>2, <1>3, <1>4, <1>5 DEF Next, Elsewhere

-----------------------------------------------------------------------------
(***************************************************************************)
(* The inductive invariant.                                                *)
(***************************************************************************)
LEMMA InitIInv == Init => IInv
<1> SUFFICES ASSUME Init PROVE IInv
  OBVIOUS
<1>b. MaxCycle \in Nat /\ 1 <= MaxCycle
  BY Bounds
<1>i. Idle \in ThreadState /\ Idle.pc = "idle" /\ Blank(Idle) /\ ~Idle.clean
  BY <1>b DEF Idle, Blank, ThreadState, PollPc, Fresh, Record, NoCycle
<1>m. Me = Idle /\ Mine = Idle /\ run = [t \in Thread |-> Idle]
  BY DEF Init, Me, Mine, Thread
<1>c. /\ claim = [in |-> {}, note |-> 0, open |-> FALSE] /\ closed \in BOOLEAN
      /\ latch = [seen |-> FALSE, scope |-> 0, clean |-> FALSE, memo |-> 0]
      /\ posting = "none" /\ scanned = 0 /\ retiring = 0 /\ publishing = 0
      /\ deferred = FALSE /\ fenced = FALSE /\ proven = receipts \cup ClosedUnder
  BY DEF Init, Unclaimed, NoLatch, NoCycle
<1>r. /\ record \in {[cycle |-> 0, phase |-> "none"], [cycle |-> 1, phase |-> "live"],
                     [cycle |-> 1, phase |-> "retired"]}
      /\ receipts \subseteq {1}
  BY DEF Init, Fresh, Live, Retired, NoCycle
<1>1. RunOK
  BY <1>i, <1>m DEF RunOK, PollPc, WorkPc, ReceiptPc, Blank
<1>2. ClaimOK /\ HoldsOK
  <2>1. claim \in [in : SUBSET (Thread \cup {"other"}), note : 0..MaxCycle, open : BOOLEAN]
    BY <1>b, <1>c
  <2>2. Me.pc \notin PollInsidePc /\ Mine.pc \notin InsidePc
    BY <1>i, <1>m DEF PollInsidePc, InsidePc, FrontPc, RecordPc, MarkPc, WindowPc, OutPc, ReceiptPc
  <2>3. ClaimOK
    BY <1>c, <2>1, <2>2 DEF ClaimOK
  <2>4. HoldsOK
    <3>1. Me.pc = "idle" /\ Mine.pc = "idle"
      BY <1>i, <1>m
    <3>2. publishing = (IF Me.pc = "refused" THEN 1 ELSE 0) + (IF Mine.pc = "idle" THEN 0 ELSE 1)
      BY <1>c, <3>1
    <3>3. deferred \in BOOLEAN /\ ~deferred
      BY <1>c
    <3> QED
      BY <3>2, <3>3 DEF HoldsOK
  <2> QED
    BY <2>3, <2>4
<1>3. RegistryOK
  BY <1>b, <1>c DEF RegistryOK
<1>4. RemoteOK
  <2>1. record \in Record /\ (record.cycle = NoCycle <=> record.phase = "none")
    BY <1>b, <1>r DEF Record, NoCycle
  <2>2. receipts \subseteq Cycle /\ proven \subseteq Cycle
    BY <1>b, <1>c, <1>r, CyclesOnly DEF Cycle
  <2> QED
    BY <1>c, <2>1, <2>2 DEF RemoteOK
<1>5. PassOK /\ OwnerOK /\ LatchOK /\ SeenOK
  BY <1>c, <1>i, <1>m DEF PassOK, OwnerOK, LatchOK, SeenOK, RecordPc, MarkPc, WindowPc, OwnerPc,
     ReceiptPc, NoCycle, Thread
<1>6. ReadOK /\ NamedOK /\ BetweenOK
  <2>1. \A t \in Thread : /\ run[t].rec.cycle = 0 /\ run[t].named = 0 /\ run[t].pc = "idle"
                           /\ ~run[t].saw
    BY <1>i, <1>m DEF Blank, Fresh, NoCycle
  <2>2. 0 <= record.cycle
    BY <1>r
  <2> QED
    BY <2>1, <2>2 DEF ReadOK, NamedOK, BetweenOK
<1>7. ClosedOK /\ ScopeOK
  BY <1>c, <1>r DEF ClosedOK, ScopeOK, NoCycle
<1>8. WriteOK /\ SawOK /\ CleanOK /\ TiedOK
  BY <1>c, <1>i, <1>m DEF WriteOK, SawOK, CleanOK, TiedOK, MarkPc, Blank, Refused
<1> QED
  BY <1>1, <1>2, <1>3, <1>4, <1>5, <1>6, <1>7, <1>8 DEF IInv

LEMMA IInvStep == IInv /\ [Next]_vars => IInv'
<1> SUFFICES ASSUME IInv, [Next]_vars PROVE IInv'
  OBVIOUS
<1>1. RunOK' /\ RegistryOK' /\ HoldsOK' /\ RemoteOK' /\ ScopeOK'
  BY RunStep, RegistryStep, HoldsStep, ScopeStep
<1>2. ClaimOK' /\ PassOK' /\ OwnerOK' /\ LatchOK' /\ SeenOK'
  BY <1>1, ClaimStep, PassStep, OwnerStep, LatchStep, SeenStep DEF IInv
<1>3. ClosedOK' /\ ReadOK' /\ NamedOK'
  BY Worlds, ClosedStep, ReadStep, NamedStep DEF IInv
<1>4. WriteOK' /\ SawOK' /\ CleanOK' /\ TiedOK' /\ BetweenOK'
  BY WriteStep, SawStep, CleanStep, TiedStep, BetweenStep
<1> QED
  BY <1>1, <1>2, <1>3, <1>4 DEF IInv

LEMMA Inductive == Spec => []IInv
  BY InitIInv, IInvStep, PTL DEF Spec

-----------------------------------------------------------------------------
(***************************************************************************)
(* The theorems.                                                           *)
(***************************************************************************)
\* The record, the receipts, the claim and the registries keep their types, and
\* an issue's readings never have more than the two holds of a worker running
\* and of a submit on its way to a refusal (`hold_publication`).
THEOREM TypeCorrect == Spec => []TypeOK
<1>1. IInv => TypeOK
  <2> SUFFICES ASSUME IInv PROVE TypeOK
    OBVIOUS
  <2>1. RunOK /\ ClaimOK /\ HoldsOK /\ RegistryOK /\ RemoteOK /\ PassOK
    BY DEF IInv
  <2>2. retiring \in 0..MaxCycle
    BY <2>1, MineTyped, Bounds DEF PassOK, NoCycle
  <2>3. publishing \in 0..2
    BY <2>1 DEF HoldsOK
  <2> QED
    BY <2>1, <2>2, <2>3
       DEF TypeOK, ClaimOK, HoldsOK, RegistryOK, RemoteOK, PassOK
<1> QED
  BY <1>1, Inductive, PTL

\* A cycle is cancelled only for a close of its own (`_ends`, `_marked`): one
\* that stood while the record named it, or its holder was retiring it, or over
\* the work that was measured into it.
THEOREM CancelsOnlyForItsOwnClose == Spec => []EndedByItsOwnClose
<1>1. IInv => EndedByItsOwnClose
  BY DEF IInv, ScopeOK, EndedByItsOwnClose
<1> QED
  BY <1>1, Inductive, PTL

\* Every receipt on the thread, and the scope of every reading held, is of a
\* close of the cycle it names (`_record_observed_close`, `observed_between`).
THEOREM ReceiptsAndScopesAreOfAClose == Spec => []EvidenceIsOfAClose
<1>1. IInv => EvidenceIsOfAClose
  BY DEF IInv, ScopeOK, EvidenceIsOfAClose
<1> QED
  BY <1>1, Inductive, PTL

\* A receipt that lands once its reading has been settled leaves no memo behind
\* to suppress a later one (`receipt_written`).
THEOREM MemoGoesWithItsReading == Spec => []MemoIsOfAReading
<1>1. IInv => MemoIsOfAReading
  BY DEF IInv, LatchOK, MemoIsOfAReading
<1> QED
  BY <1>1, Inductive, PTL

\* A settlement that waits for the last hold is withdrawn by any reading taken
\* since, which has a moment of its own (`settle_close`, `observe_close`).
THEOREM PostponedOnlyOfAnOldReading == Spec => []PostponedReadingIsOld
<1>1. IInv => PostponedReadingIsOld
  BY DEF IInv, LatchOK, PostponedReadingIsOld
<1> QED
  BY <1>1, Inductive, PTL

\* No step drops a reading while a submit's hold stands, not the poller's own
\* settlement either: the last hold to go spends what was put off
\* (`release_publication`).
THEOREM HeldReadingIsKept == Spec => HeldReadingStands
<1>1. IInv /\ [Next]_vars => [latch.seen /\ ~latch'.seen => publishing' = 0]_vars
  <2> SUFFICES ASSUME IInv, [Next]_vars
               PROVE  latch.seen /\ ~latch'.seen => publishing' = 0
    OBVIOUS
  <2> QED
    BY LatchStep DEF IInv, ReadingKept, ReadingDropped
<1> QED
  BY <1>1, Inductive, PTL DEF Spec, HeldReadingStands

-----------------------------------------------------------------------------
(***************************************************************************)
(* The claim's own promise, which this module's clients keep to.           *)
(***************************************************************************)
Holders == Thread \cup {"other"}
Out == {Holder(t) : t \in claim.in \ {"poll"}}
Beside == {Holder(t) : t \in claim.in \cap {"poll"}}

\* Each holder is one of its own, and the claim's view of them goes by name.
LEMMA HolderIs ==
    /\ Holder("poll") = <<"own", "poll">>
    /\ Holder("work") = <<"own", "work">>
    /\ Holder("other") = <<"other", "other">>
  BY DEF Holder, Thread

LEMMA ViewOf ==
    ASSUME NEW S \in SUBSET Holders
    PROVE  /\ {Holder(t) : t \in S \ {"poll"}}
                = (IF "work" \in S THEN {<<"own", "work">>} ELSE {})
                  \cup (IF "other" \in S THEN {<<"other", "other">>} ELSE {})
           /\ {Holder(t) : t \in S \cap {"poll"}}
                = IF "poll" \in S THEN {<<"own", "poll">>} ELSE {}
<1>1. S \ {"poll"} = (IF "work" \in S THEN {"work"} ELSE {})
                     \cup (IF "other" \in S THEN {"other"} ELSE {})
  BY DEF Holders, Thread
<1>2. S \cap {"poll"} = IF "poll" \in S THEN {"poll"} ELSE {}
  OBVIOUS
<1> QED
  BY <1>1, <1>2, HolderIs

LEMMA ViewNow ==
    ASSUME ClaimTyped
    PROVE  /\ Out = (IF "work" \in claim.in THEN {<<"own", "work">>} ELSE {})
                    \cup (IF "other" \in claim.in THEN {<<"other", "other">>} ELSE {})
           /\ Beside = IF "poll" \in claim.in THEN {<<"own", "poll">>} ELSE {}
  BY ViewOf DEF ClaimTyped, Holders, Out, Beside

LEMMA ViewNext ==
    ASSUME ClaimTyped'
    PROVE  /\ Out' = (IF "work" \in claim'.in THEN {<<"own", "work">>} ELSE {})
                     \cup (IF "other" \in claim'.in THEN {<<"other", "other">>} ELSE {})
           /\ Beside' = IF "poll" \in claim'.in THEN {<<"own", "poll">>} ELSE {}
<1>1. claim'.in \in SUBSET Holders
  BY DEF ClaimTyped, Holders
<1> QED
  BY <1>1, ViewOf DEF Out, Beside

\* A thread of this poller that joins a claim it is not in enters it.
LEMMA JoinEnters ==
    ASSUME ClaimTyped, NEW t \in Thread, Joins(t)
    PROVE  [Claim!Next]_(Claim!vars)
<1>1. /\ ClaimTyped' /\ ~Refused /\ claim'.in = claim.in \cup {t}
      /\ claim'.note = IF claim.in = {} THEN NoCycle ELSE claim.note
  BY Joined
<1>2. claim.in \subseteq Thread /\ "other" \notin claim'.in
  BY <1>1 DEF ClaimTyped, Refused, Thread
<1>3. /\ Out = IF "work" \in claim.in THEN {<<"own", "work">>} ELSE {}
      /\ Beside = IF "poll" \in claim.in THEN {<<"own", "poll">>} ELSE {}
      /\ Out' = IF "work" \in claim'.in THEN {<<"own", "work">>} ELSE {}
      /\ Beside' = IF "poll" \in claim'.in THEN {<<"own", "poll">>} ELSE {}
  BY <1>1, <1>2, ViewNow, ViewNext DEF Refused
<1>4. CASE t \in claim.in
  <2>1. claim'.in = claim.in /\ claim'.note = claim.note
    BY <1>1, <1>4
  <2> QED
    BY <2>1, <1>3 DEF Claim!vars, Out, Beside
<1>5. CASE t \notin claim.in
  <2>1. Out \cup Beside = {} <=> claim.in = {}
    BY <1>2, <1>3 DEF Thread
  <2>2. \A h \in Out \cup Beside : h[1] = "own"
    BY <1>3
  <2>3. <<"own", t>> \notin Out \cup Beside
    BY <1>3, <1>5 DEF Thread
  <2>4. \/ Out = {} /\ Out' = {<<"own", t>>} /\ Beside' = Beside
        \/ Beside' = Beside \cup {<<"own", t>>} /\ Out' = Out
    BY <1>1, <1>3, <1>5 DEF Thread
  <2>5. Claim!Enter("own", t)
    BY <1>1, <2>1, <2>2, <2>3, <2>4 DEF Claim!Enter, Claim!Inside, Out, Beside
  <2> QED
    BY <2>5 DEF Claim!Next
<1> QED
  BY <1>4, <1>5

\* One that leaves it leaves it, the last one out with the note.
LEMMA LeaveLeaves ==
    ASSUME ClaimTyped, NEW t \in Thread, t \in claim.in, Leaves(t)
    PROVE  Claim!Next
<1>1. /\ ClaimTyped' /\ ~Refused /\ claim'.in = claim.in \ {t}
      /\ claim'.note = IF claim.in = {t} THEN NoCycle ELSE claim.note
  BY Left
<1>2. claim.in \subseteq Thread /\ "other" \notin claim'.in
  BY <1>1 DEF ClaimTyped, Refused, Thread
<1>3. /\ Out = IF "work" \in claim.in THEN {<<"own", "work">>} ELSE {}
      /\ Beside = IF "poll" \in claim.in THEN {<<"own", "poll">>} ELSE {}
      /\ Out' = IF "work" \in claim'.in THEN {<<"own", "work">>} ELSE {}
      /\ Beside' = IF "poll" \in claim'.in THEN {<<"own", "poll">>} ELSE {}
  BY <1>1, <1>2, ViewNow, ViewNext DEF Refused
<1>4. <<"own", t>> \in Out \cup Beside
  BY <1>3 DEF Thread
<1>5. Out' = Out \ {<<"own", t>>} /\ Beside' = Beside \ {<<"own", t>>}
  BY <1>1, <1>3 DEF Thread
<1>6. claim.in = {t} => Out \cup Beside = {<<"own", t>>}
  BY <1>3 DEF Thread
<1>7. Claim!Leave(<<"own", t>>)
  BY <1>1, <1>4, <1>5, <1>6 DEF Claim!Leave, Claim!Inside, Out, Beside
<1> QED
  BY <1>7 DEF Claim!Next

\* A note written by somebody who is inside to write.
LEMMA WriteNotes ==
    ASSUME ClaimTyped, claim'.in = claim.in, claim'.note \in 0..MaxCycle,
           claim.in \cap {"work", "other"} # {}
    PROVE  Claim!Next
<1>1. PICK c \in Cycle : claim'.note \in {c, NoCycle}
  BY Bounds DEF Cycle, NoCycle
<1>2. Out # {}
  BY ViewNow
<1>3. Claim!Note(c)
  BY <1>1, <1>2 DEF Claim!Note, Out
<1> QED
  BY <1>3 DEF Claim!Next

LEMMA ClaimUnmoved ==
    ASSUME claim'.in = claim.in, claim'.note = claim.note
    PROVE  UNCHANGED Claim!vars
  BY DEF Claim!vars

\* What the pollers beside this one do with it.
LEMMA OthersKeepTo ==
    ASSUME ClaimOK, RemoteOK, Elsewhere
    PROVE  [Claim!Next]_(Claim!vars)
<1>0. ClaimTyped /\ NoCycle \in 0..MaxCycle /\ record.cycle \in 0..MaxCycle
  BY ClaimTypes, Bounds DEF NoCycle, RemoteOK, Record
<1>1. CASE HumanFlips
  <2>1. claim'.in = claim.in /\ claim'.note = claim.note
    BY <1>0, <1>1 DEF HumanFlips, ClaimTyped
  <2> QED
    BY <2>1, ClaimUnmoved
<1>2. CASE OtherWrites
  <2>0. Refused
    BY <1>2 DEF OtherWrites
  <2>1. claim' = claim \/ claim' = [claim EXCEPT !.note = record.cycle]
    BY <1>2 DEF OtherWrites
  <2>2. CASE claim' = claim
    BY <2>2, ClaimUnmoved
  <2>3. CASE claim' = [claim EXCEPT !.note = record.cycle]
    <3>1. claim'.in = claim.in /\ claim'.note = record.cycle
      BY <1>0, <2>3 DEF ClaimTyped
    <3> QED
      BY <1>0, <2>0, <3>1, WriteNotes DEF Refused
  <2> QED
    BY <2>1, <2>2, <2>3
<1>3. CASE OtherTakes
  <2>1. claim' = [in |-> {"other"}, note |-> NoCycle, open |-> ~closed] /\ claim.in = {}
    BY <1>3 DEF OtherTakes, Unclaimed
  <2>2. ClaimTyped'
    BY <1>0, <2>1 DEF ClaimTyped, RemoteOK
  <2>3. Out = {} /\ Beside = {} /\ Out' = {<<"other", "other">>} /\ Beside' = {}
    BY <1>0, <2>1, <2>2, ViewNow, ViewNext
  <2>4. Claim!Enter("other", "other")
    BY <2>1, <2>3 DEF Claim!Enter, Claim!Inside, Out, Beside
  <2> QED
    BY <2>4 DEF Claim!Next
<1>4. CASE OtherLeaves
  <2>1. \E note \in {claim.note, NoCycle} : claim' = [in |-> {}, note |-> note, open |-> FALSE]
    BY <1>4 DEF OtherLeaves, Unclaimed
  <2>2. claim.in = {"other"}
    BY <1>4, RefusedOutside DEF OtherLeaves
  <2>3. ClaimTyped'
    BY <1>0, <2>1 DEF ClaimTyped
  <2>4. Out = {<<"other", "other">>} /\ Beside = {} /\ Out' = {} /\ Beside' = {}
    BY <1>0, <2>1, <2>2, <2>3, ViewNow, ViewNext
  <2>5. claim'.note \in {claim.note, NoCycle}
    BY <2>1
  <2>6. /\ Out \cup Beside = {<<"other", "other">>}
        /\ Out' = Out \ {<<"other", "other">>} /\ Beside' = Beside \ {<<"other", "other">>}
    BY <2>4
  <2>7. Claim!Leave(<<"other", "other">>)
    BY <2>5, <2>6 DEF Claim!Leave, Claim!Inside, Out, Beside
  <2> QED
    BY <2>7 DEF Claim!Next
<1> QED
  BY <1>1, <1>2, <1>3, <1>4 DEF Elsewhere

LEMMA KeepsTo ==
    ASSUME IInv, [Next]_vars
    PROVE  [Claim!Next]_(Claim!vars)
<1>0. /\ RunOK /\ ClaimOK /\ RegistryOK /\ RemoteOK /\ ClaimTyped
      /\ "poll" \in Thread /\ "work" \in Thread
  BY ClaimTypes DEF IInv, Thread
<1>1. ASSUME claim' = claim PROVE [Claim!Next]_(Claim!vars)
  BY <1>1, ClaimUnmoved
<1>2. ASSUME NEW t \in Thread, Posts(t) PROVE [Claim!Next]_(Claim!vars)
  BY <1>0, <1>1, <1>2, ClaimPosts
<1>3. CASE Polls
  BY <1>0, <1>1, <1>3, ClaimPolls, JoinEnters, LeaveLeaves
<1>4. CASE Passes
  <2>1. CASE Mine.pc = "note" /\ claim' = [claim EXCEPT !.note = Mine.rec.cycle]
    <3>1. claim'.in = claim.in /\ claim'.note = Mine.rec.cycle
      BY <1>0, <2>1 DEF ClaimTyped
    <3>2. Mine.rec.cycle \in 0..MaxCycle
      BY <1>0, RunTyped DEF ThreadState, Record
    <3>3. "work" \in claim.in
      BY <1>0, <2>1 DEF ClaimOK, InsidePc, RecordPc
    <3> QED
      BY <1>0, <3>1, <3>2, <3>3, WriteNotes
  <2> QED
    BY <1>0, <1>1, <1>4, <2>1, ClaimPasses, JoinEnters, LeaveLeaves
<1>5. CASE Elsewhere
  BY <1>0, <1>5, OthersKeepTo
<1>6. CASE UNCHANGED vars
  BY <1>1, <1>6 DEF vars
<1> QED
  BY <1>2, <1>3, <1>4, <1>5, <1>6 DEF Next, Elsewhere

\* The threads of this poller and the pollers beside it take, note and give back
\* the claim only as its own promise has it: nobody joins a claim another poller
\* is in, nobody notes a retirement from outside, and what a contender is told
\* goes only with the last of its holders.
THEOREM ClaimKept == Spec => KeepsToClaim
<1>1. Init => Claim!Init
  <2> SUFFICES ASSUME Init PROVE Claim!Init
    OBVIOUS
  <2>1. claim.in = {} /\ claim.note = NoCycle
    BY DEF Init, Unclaimed
  <2> QED
    BY <2>1 DEF Claim!Init
<1>2. IInv /\ [Next]_vars => [Claim!Next]_(Claim!vars)
  BY KeepsTo
<1> QED
  BY <1>1, <1>2, Inductive, PTL DEF Spec, KeepsToClaim, Claim!Spec
=============================================================================
