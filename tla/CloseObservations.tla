------------------------- MODULE CloseObservations -------------------------
(***************************************************************************)
(* What a poller keeps of a close it has read on one issue, until the late *)
(* cycle that close ends is marked cancelled (workflow/engine:             *)
(* observations, observation_receipts, publication_holds, retiring_cycles, *)
(* contended_closes, dispatch_closure, cleanup_observation;                *)
(* workflow/stages/decomposition: late_close_observation, late_sweep).     *)
(*                                                                         *)
(* The module is one poller, its polling thread and the worker its         *)
(* scheduler runs for the issue, in full, step by step, with every step    *)
(* one request or one use of the process's registries.  The pollers it     *)
(* shares the host with are "other": it takes the writer claim the module  *)
(* WriterClaims describes and writes under it what a poller may write.     *)
(*                                                                         *)
(* A moment is what the claim notes make of it (`undisturbed_since`): true *)
(* while no other poller has held the issue since, and since this poller   *)
(* last restarted the issue's cycle.  Both only ever turn it false.        *)
(***************************************************************************)
EXTENDS Naturals, FiniteSets

CONSTANTS
    MaxCycle,   \* bound: the last cycle id the issue's record reaches
    MaxFlips,   \* bound: how often a human closes or reopens the issue
    ConfirmingReads  \* `_CONFIRMING_READS`, the issue reads a contender takes

ASSUME ObservationBounds ==
    /\ MaxCycle \in Nat \ {0}
    /\ MaxFlips \in Nat
    /\ ConfirmingReads \in Nat \ {0}

VARIABLES
    closed,     \* whether the issue is closed
    record,     \* the issue's pinned record, as far as late cycles go
    receipts,   \* the cycles the thread carries a close receipt for
    claim,      \* who is inside the writer claim, and the note on its file
    latch,      \* `_observed`, `_scopes`, `_since` and `_receipted`
    posting,    \* `_posting`, and whether its claim's generation still stands
    scanned,    \* `_scanned`: the cycle whose receipt the thread was asked for
    retiring,   \* `_retiring`
    publishing, \* `_publishing`: the holds on the issue's readings
    deferred,   \* `_deferred`
    fenced,     \* whether a restart's write runs (`_restarted` is infinite)
    run,        \* what each thread is doing, and what it has read
    flips,      \* how often the issue was flipped
    proven      \* the cycles the issue was closed under: see ClosedUnder

remote == <<closed, record, receipts>>
registry == <<latch, posting, scanned, retiring, publishing, deferred, fenced>>
history == <<flips, proven>>
vars == <<remote, claim, registry, run, history>>

-----------------------------------------------------------------------------
Cycle == 1..MaxCycle
NoCycle == 0
Thread == {"poll", "work"}

\* The record names a live cycle, a cancelled one, one whose ending is over
\* and whose terminal an operator took off, or the one a retirement dropped.
Record == [cycle : 0..MaxCycle,
           phase : {"none", "live", "cancelled", "ended", "retired"}]
Fresh == [cycle |-> NoCycle, phase |-> "none"]
Live(c) == [cycle |-> c, phase |-> "live"]
Cancelled(c) == [cycle |-> c, phase |-> "cancelled"]
Retired(c) == [cycle |-> c, phase |-> "retired"]

NoLatch == [seen |-> FALSE, scope |-> NoCycle, clean |-> FALSE, memo |-> NoCycle]

\* A thread: where it is, where its receipt goes back to, the moment and the
\* closed reading it carries, the last record it read, the cycle the record
\* before that named, the receipt its claim found landed, the route of its
\* pass, the hold that pass ends in, and a contender's notes and reads.
Idle == [pc |-> "idle", back |-> "none", clean |-> FALSE, saw |-> FALSE,
         rec |-> Fresh, named |-> NoCycle, landed |-> NoCycle, kind |-> "open",
         hold |-> "none", notes |-> {}, reads |-> 0]

\* The claim's file: who holds it, the cycle its holder has noted (which a hold
\* that died leaves there), and whether another poller holding it has had the
\* issue open to read.
Unclaimed == [in |-> {}, note |-> NoCycle, open |-> FALSE]

\* The cycles a close standing now is a close of: the one the record names, the
\* one a hold that has not let go is retiring -- or had not when a contender
\* still at its reads found its note -- and, while the record names none, the
\* one the work being closed would be measured into.  A cycle a restart starts
\* is never such: it is fresh work, which only a later close ends.
ClosedUnder ==
    IF ~closed THEN {}
    ELSE Cycle \cap ({claim.note} \cup run["poll"].notes \cup
            CASE record.phase = "live" -> {record.cycle}
              [] record.phase \in {"none", "retired"} -> {record.cycle + 1}
              [] OTHER -> {})

Witnessed == proven' = proven \cup ClosedUnder'

\* The process starts on whatever the one before it left: its registries are
\* gone, and a close it knew of is known only by the receipt it may have posted.
Init ==
    /\ closed \in BOOLEAN /\ flips = IF closed THEN 0 ELSE 1
    /\ \/ record = Fresh /\ receipts = {}
       \/ record \in {Live(1), Retired(1)} /\ receipts \in SUBSET {1}
    /\ claim = Unclaimed
    /\ latch = NoLatch /\ posting = "none" /\ scanned = NoCycle
    /\ retiring = NoCycle /\ publishing = 0 /\ deferred = FALSE
    /\ fenced = FALSE
    /\ run = [t \in Thread |-> Idle]
    /\ proven = receipts \cup ClosedUnder

At(t, here) == run[t].pc = here
Go(t, there) == run' = [run EXCEPT ![t].pc = there]

-----------------------------------------------------------------------------
(***************************************************************************)
(* The registries.  Each of these is one critical section of `_lock`.      *)
(***************************************************************************)
\* Mutation: a fresh reading leaves a postponed settlement standing.
ObserveKeepingDrop(clean, fresh) ==
    /\ latch' = [latch EXCEPT !.seen = TRUE, !.clean = @ \/ clean]
    /\ deferred' = deferred

\* `observe_close`: the latest moment is kept, which is a clean one if any is.
Observe(clean, fresh) ==
    /\ latch' = [latch EXCEPT !.seen = TRUE, !.clean = @ \/ clean]
    /\ deferred' = (deferred /\ ~fresh)

\* `_settled`: the reading goes with its scope, moment and memo, and the
\* generation a receipt's claim was taken at is over.
Dropped ==
    /\ latch' = NoLatch
    /\ posting' = IF posting = "current" THEN "stale" ELSE posting

\* Mutation: a settlement is taken at once, whoever holds the readings.
SettleNow ==
    /\ Dropped /\ UNCHANGED deferred

\* `settle_close`: postponed while any hold stands.
Settle ==
    IF publishing > 0
    THEN /\ deferred' = TRUE
         /\ latch' = [latch EXCEPT !.clean = FALSE]
         /\ UNCHANGED posting
    ELSE Dropped /\ UNCHANGED deferred

\* `release_publication`: only the last hold spends it.
ReleaseHold ==
    /\ publishing' = publishing - 1
    /\ deferred' = (deferred /\ publishing > 1)
    /\ IF deferred /\ publishing = 1 THEN Dropped ELSE UNCHANGED <<latch, posting>>

\* `_ends`: a close scoped to the cycle, or one read since anybody else wrote.
Ends(c) == latch.seen /\ (latch.scope = c \/ (latch.clean /\ ~fenced))

\* Asking scopes the close to the cycle it is found to end.
Asked(c) == latch' = IF Ends(c) THEN [latch EXCEPT !.scope = c] ELSE latch

\* `_ending_cycle`: the cycle a close would end, as this poller reads it.
EndingCycle(r) ==
    CASE r.phase = "live" -> r.cycle
      [] r.phase \in {"cancelled", "ended"} -> NoCycle
      [] OTHER -> IF retiring # NoCycle THEN retiring
                  ELSE IF r.phase = "retired" /\ latch.seen /\ latch.scope = r.cycle
                  THEN r.cycle ELSE NoCycle

\* Every moment this poller has read is of the past now.
Staled(f) == [t \in Thread |-> [f[t] EXCEPT !.clean = FALSE]]

-----------------------------------------------------------------------------
(***************************************************************************)
(* The writer claim.                                                       *)
(***************************************************************************)
Refused == "other" \in claim.in

\* The first of this poller's threads to join empties the file.
Joins(t) ==
    /\ ~Refused
    /\ claim' = IF claim.in = {} THEN [Unclaimed EXCEPT !.in = {t}]
                ELSE [claim EXCEPT !.in = @ \cup {t}]

\* Leaving: the last holder stamps its release over the note.
Leaves(t) ==
    claim' = [claim EXCEPT !.in = @ \ {t},
                           !.note = IF claim.in = {t} THEN NoCycle ELSE @]

-----------------------------------------------------------------------------
(***************************************************************************)
(* A receipt (`_record_observed_close`), by either thread under the claim. *)
(* `saw` is the issue it was handed, read anew where it was handed none.   *)
(***************************************************************************)
\* Back to the caller, with whether the reading is still owed to a pass.  The
\* caller that owes none settles it, except the one that asks nothing.
After == [listed |-> "unclaim", refetched |-> "guard", kept |-> "leave",
          sent |-> "leave", refused |-> "unclaim"]
Returned(t, keep) ==
    [run EXCEPT ![t].pc = IF keep \/ run[t].back \in {"sent", "refused"}
                          THEN After[run[t].back] ELSE "settle",
                ![t].hold = IF keep /\ run[t].back = "refetched" THEN "closed" ELSE @,
                ![t].saw = @ /\ run[t].back = "refetched",
                ![t].rec = Fresh, ![t].named = NoCycle, ![t].landed = NoCycle]

\* `claim_receipt_post`: one post at a time.
ClaimPost(t) ==
    /\ At(t, "post")
    /\ IF posting # "none"
       THEN Go(t, "probe") /\ UNCHANGED posting
       ELSE /\ posting' = "current"
            /\ run' = [run EXCEPT ![t].landed = latch.memo, ![t].pc =
                    IF run[t].back \in {"listed", "refetched"} THEN "record" ELSE "issue"]
    /\ UNCHANGED <<remote, claim, latch, scanned, retiring, publishing, deferred,
                   fenced, history>>

\* `_owns_a_live_cycle`: another thread is posting, and the record decides.
Probe(t) ==
    /\ \/ /\ At(t, "probe")
          /\ \/ run' = [run EXCEPT ![t].rec = record, ![t].pc = "probed"]
             \/ run' = Returned(t, TRUE)                 \* the read failed
       \/ /\ At(t, "probed")
          /\ run' = Returned(t, EndingCycle(run[t].rec) # NoCycle)
    /\ UNCHANGED <<remote, claim, registry, history>>

PostReadIssue(t) ==
    /\ At(t, "issue")
    /\ run' = [run EXCEPT ![t].saw = closed, ![t].pc = "record"]
    /\ UNCHANGED <<remote, claim, registry, history>>

PostReadRecord(t) ==
    /\ At(t, "record")
    /\ run' = [run EXCEPT ![t].rec = record, ![t].pc = "named"]
    /\ UNCHANGED <<remote, claim, registry, history>>

\* Nothing to end, or a receipt this reading has put there already.
PostNamed(t) ==
    /\ At(t, "named")
    /\ LET c == EndingCycle(run[t].rec)
       IN  IF c \in {NoCycle, run[t].landed}
           THEN /\ posting' = "none"
                /\ run' = Returned(t, c # NoCycle)
           ELSE /\ UNCHANGED posting
                /\ run' = [run EXCEPT ![t].named = c, ![t].pc =
                               IF run[t].saw THEN "again" ELSE "behind"]
    /\ UNCHANGED <<remote, claim, latch, scanned, retiring, publishing, deferred,
                   fenced, history>>

PostReadAgain(t) ==
    /\ At(t, "again")
    /\ run' = [run EXCEPT ![t].saw = closed, ![t].pc = "behind"]
    /\ UNCHANGED <<remote, claim, registry, history>>

PostReadBehind(t) ==
    /\ At(t, "behind")
    /\ run' = [run EXCEPT ![t].rec = record, ![t].pc = "tied"]
    /\ UNCHANGED <<remote, claim, registry, history>>

\* Mutation: the record behind the issue is not compared with the one before.
PostTiedUnconfirmed(t) ==
    /\ At(t, "tied")
    /\ LET c == run[t].named
       IN  /\ latch' = [latch EXCEPT !.scope = IF run[t].saw THEN c ELSE @]
           /\ run' = [run EXCEPT ![t].pc = "land"] /\ UNCHANGED posting
    /\ UNCHANGED <<remote, claim, scanned, retiring, publishing, deferred, fenced, history>>

\* A close standing between two reads of the record that name this cycle is
\* scoped to it; any other is posted for only where the latch ends it.
PostTied(t) ==
    /\ At(t, "tied")
    /\ LET c == run[t].named
           same == EndingCycle(run[t].rec) = c
       IN  /\ latch' = IF same /\ (run[t].saw \/ Ends(c))
                       THEN [latch EXCEPT !.scope = c] ELSE latch
           /\ IF same /\ latch.seen /\ (run[t].saw \/ Ends(c))
              THEN Go(t, "land") /\ UNCHANGED posting
              ELSE posting' = "none" /\ run' = Returned(t, TRUE)
    /\ UNCHANGED <<remote, claim, scanned, retiring, publishing, deferred, fenced,
                   history>>

\* Mutation: the memo is written whatever settled the reading meanwhile.
LandMemoAlways(t) ==
    /\ At(t, "land")
    /\ receipts' = receipts \cup {run[t].named}
    /\ posting' = "none"
    /\ latch' = [latch EXCEPT !.memo = run[t].named]
    /\ scanned' = NoCycle
    /\ run' = Returned(t, TRUE)
    /\ UNCHANGED <<closed, record, claim, retiring, publishing, deferred, fenced, history>>

\* The receipt lands, and `receipt_written` remembers it for this generation.
PostLands(t) ==
    /\ At(t, "land")
    /\ receipts' = receipts \cup {run[t].named}
    /\ posting' = "none"
    /\ IF posting = "current"
       THEN latch' = [latch EXCEPT !.memo = run[t].named] /\ scanned' = NoCycle
       ELSE UNCHANGED <<latch, scanned>>
    /\ run' = Returned(t, TRUE)
    /\ UNCHANGED <<closed, record, claim, retiring, publishing, deferred, fenced, history>>

\* Any request of it may fail, and the reading is kept.
PostFails(t) ==
    /\ run[t].pc \in {"issue", "record", "again", "behind", "land"}
    /\ posting' = "none"
    /\ run' = Returned(t, TRUE)
    /\ UNCHANGED <<remote, claim, latch, scanned, retiring, publishing, deferred,
                   fenced, history>>

\* The caller that was told nothing is owed drops the reading.
SettleAfter(t) ==
    /\ At(t, "settle")
    /\ Settle
    /\ Go(t, After[run[t].back])
    /\ UNCHANGED <<remote, claim, scanned, retiring, publishing, fenced, history>>

Posts(t) ==
    \/ ClaimPost(t) \/ Probe(t) \/ PostReadIssue(t) \/ PostReadRecord(t)
    \/ PostNamed(t) \/ PostReadAgain(t) \/ PostReadBehind(t) \/ PostTied(t)
    \/ PostLands(t) \/ PostFails(t) \/ SettleAfter(t)

-----------------------------------------------------------------------------
(***************************************************************************)
(* The polling thread: a moment, the listing, the receipt of what it read  *)
(* closed under the claim, and the submit.                                 *)
(***************************************************************************)
\* What is owed and the moment are read before the listing asks for anything.
PollMoment ==
    /\ At("poll", "idle")
    /\ run' = [run EXCEPT !["poll"].clean = ~Refused, !["poll"].pc = "listing",
                          !["poll"].kind = IF latch.seen THEN "sweep" ELSE "open"]
    /\ UNCHANGED <<remote, claim, registry, history>>

\* The listing.  A closed issue is swept or handled as its label says, which
\* is left open here; an open one that nothing is owed on goes straight on.
PollLists ==
    /\ At("poll", "listing")
    /\ \E kind \in IF run["poll"].kind = "sweep" THEN {"sweep"}
                   ELSE IF closed THEN {"sweep", "closed"} ELSE {"open"} :
         run' = [run EXCEPT !["poll"].saw = closed, !["poll"].kind = kind,
                            !["poll"].clean = @ /\ closed,
                            !["poll"].pc = IF kind = "open" THEN "submit" ELSE "claim"]
    /\ UNCHANGED <<remote, claim, registry, history>>

\* `_writer_claim(alongside=True)`: refused, only a closed reading is kept.
PollClaims ==
    /\ At("poll", "claim")
    /\ \/ Joins("poll") /\ Go("poll", "listed")
       \/ /\ Refused
          /\ Go("poll", IF run["poll"].saw THEN "notes" ELSE "submit")
          /\ UNCHANGED claim
    /\ UNCHANGED <<remote, registry, history>>

\* Mutation: the moment is read as the close is kept, behind the listing.
PollObservesNow ==
    /\ At("poll", "listed")
    /\ Observe(TRUE, run["poll"].saw)
    /\ run' = [run EXCEPT !["poll"].pc = "post", !["poll"].back = "listed"]
    /\ UNCHANGED <<remote, claim, posting, scanned, retiring, publishing, fenced, history>>

\* `_recorded_at_poll`, at the enumeration.
PollObserves ==
    /\ At("poll", "listed")
    /\ Observe(run["poll"].clean, run["poll"].saw)
    /\ run' = [run EXCEPT !["poll"].pc = "post", !["poll"].back = "listed"]
    /\ UNCHANGED <<remote, claim, posting, scanned, retiring, publishing, fenced, history>>

PollLeaves ==
    /\ At("poll", "unclaim")
    /\ Leaves("poll")
    /\ IF run["poll"].back = "refused"
       THEN run' = [run EXCEPT !["poll"] = Idle]
       ELSE run' = [run EXCEPT !["poll"].pc = "submit", !["poll"].back = "none",
                               !["poll"].clean = @ /\ run["poll"].kind = "closed"]
    /\ UNCHANGED <<remote, registry, history>>

\* Mutation: the hold is taken by an admitted submit alone.
SubmitsUnheld ==
    /\ At("poll", "submit")
    /\ \/ /\ publishing' = publishing + 1
          /\ At("work", "idle")
          /\ run' = [run EXCEPT !["poll"] = Idle,
                        !["work"] = [Idle EXCEPT !.pc = "queued",
                                        !.kind = run["poll"].kind,
                            !.clean = run["poll"].clean /\ run["poll"].kind = "closed"]]
       \/ Go("poll", "refused") /\ UNCHANGED publishing
    /\ UNCHANGED <<remote, claim, latch, posting, scanned, retiring, deferred,
                   fenced, history>>

\* The submit takes its hold first.  The scheduler admits it where no worker
\* runs the issue, and may refuse it there too (its caps, its shutdown).
Submits ==
    /\ At("poll", "submit")
    /\ publishing' = publishing + 1
    /\ \/ /\ At("work", "idle")
          /\ run' = [run EXCEPT !["poll"] = Idle,
                        !["work"] = [Idle EXCEPT !.pc = "queued",
                                        !.kind = run["poll"].kind,
                            !.clean = run["poll"].clean /\ run["poll"].kind = "closed"]]
       \/ Go("poll", "refused")
    /\ UNCHANGED <<remote, claim, latch, posting, scanned, retiring, deferred,
                   fenced, history>>

\* `_refused_submit`: the hold goes back, and a cleanup still held is written
\* down again, if the claim can be had.
SubmitRefused ==
    /\ At("poll", "refused")
    /\ ReleaseHold
    /\ Go("poll", "again_held")
    /\ UNCHANGED <<remote, claim, scanned, retiring, fenced, history>>

RefusedAgain ==
    /\ At("poll", "again_held")
    /\ IF latch.seen /\ run["poll"].kind = "sweep" /\ ~Refused
       THEN Joins("poll") /\ Go("poll", "defer")
       ELSE run' = [run EXCEPT !["poll"] = Idle] /\ UNCHANGED claim
    /\ UNCHANGED <<remote, registry, history>>

RefusedDefers ==
    /\ At("poll", "defer")
    /\ Observe(FALSE, FALSE)
    /\ run' = [run EXCEPT !["poll"].pc = "post", !["poll"].back = "refused"]
    /\ UNCHANGED <<remote, claim, posting, scanned, retiring, publishing, fenced, history>>

-----------------------------------------------------------------------------
(***************************************************************************)
(* The contender (`_kept_contended_close`): the claim is another poller's, *)
(* so all of it is reads, and the latch is all it writes.                  *)
(***************************************************************************)
Me == run["poll"]

\* `_ended_cycle`: a retired cycle some note of the holder's has named too.
EndedCycle(r, notes) ==
    LET c == EndingCycle(r)
    IN  IF c = NoCycle /\ r.phase = "retired" /\ r.cycle \in notes THEN r.cycle ELSE c

\* Every note found so far, with the one standing now.
Noted == Me.notes \cup ({claim.note} \ {NoCycle})

\* The reads, one at a time: the note, the record, the note behind it, then
\* the issue, the note behind that, the record again and the note once more.
ContenderReads ==
    /\ \/ /\ Me.pc \in {"notes", "its_note"}
          /\ run' = [run EXCEPT !["poll"].notes = Noted,
                !["poll"].pc = IF @ = "notes" THEN "first" ELSE "second"]
       \/ /\ Me.pc \in {"first", "second"}
          /\ run' = [run EXCEPT !["poll"].rec = record,
                !["poll"].pc = IF @ = "first" THEN "first_note" ELSE "last_note"]
       \/ /\ Me.pc = "behind_it"
          /\ run' = [run EXCEPT !["poll"].saw = closed, !["poll"].reads = @ + 1,
                                !["poll"].pc = "its_note"]
       \/ /\ Me.pc = "first_note"
          /\ run' = [run EXCEPT !["poll"].notes = Noted, !["poll"].rec = Fresh,
                                !["poll"].named = EndedCycle(Me.rec, Noted),
                                !["poll"].pc = "behind_it"]
    /\ UNCHANGED <<remote, claim, registry, flips>>
    /\ Witnessed

ContenderDone == [run EXCEPT !["poll"] = [Idle EXCEPT !.pc = "submit",
                                            !.kind = Me.kind, !.clean = Me.clean]]

\* The record behind the issue names what the one before it did, or another
\* cycle the issue is read behind again, or the close stays unresolved.
ContenderCompares ==
    /\ Me.pc = "last_note"
    /\ LET c == EndedCycle(Me.rec, Noted)
       IN  \/ /\ c = Me.named
              /\ IF c = NoCycle THEN UNCHANGED <<latch, deferred>>
                 ELSE /\ latch' = [latch EXCEPT !.seen = TRUE, !.scope =
                                        IF Me.saw THEN c ELSE @]
                      /\ deferred' = FALSE
              /\ run' = ContenderDone
           \/ /\ c \notin {Me.named, NoCycle} /\ Me.reads < ConfirmingReads
              /\ run' = [run EXCEPT !["poll"].named = c, !["poll"].rec = Fresh,
                                     !["poll"].notes = Noted,
                                     !["poll"].pc = "behind_it"]
              /\ UNCHANGED <<latch, deferred>>
           \/ /\ c # Me.named /\ (c = NoCycle \/ Me.reads = ConfirmingReads)
              /\ Observe(FALSE, TRUE)
              /\ run' = ContenderDone
    /\ UNCHANGED <<remote, claim, posting, scanned, retiring, publishing, fenced, flips>>
    /\ Witnessed

\* A read that fails, or finds a record admission refuses, leaves it so too.
ContenderFails ==
    /\ Me.pc \in {"first", "second", "behind_it"}
    /\ Observe(FALSE, TRUE)
    /\ run' = ContenderDone
    /\ UNCHANGED <<remote, claim, posting, scanned, retiring, publishing, fenced, history>>

-----------------------------------------------------------------------------
(***************************************************************************)
(* The worker: the claim, the refetch, the guards, a handler or the sweep, *)
(* and on the way out whatever hold the pass ends in.                      *)
(***************************************************************************)
Mine == run["work"]

\* An ordinary pass that finds a close latched is that close's cleanup, and a
\* closed one whose reading is gone already runs without a hold.
Routed ==
    LET kind == IF Mine.kind = "open" /\ latch.seen THEN "sweep" ELSE Mine.kind
    IN  [run EXCEPT !["work"].pc = "refetch", !["work"].kind = kind,
                    !["work"].hold = IF kind = "sweep" \/ (kind = "closed" /\ latch.seen)
                                     THEN kind ELSE "none"]

\* What a pass has read that is of use past its routing: the record it writes
\* over, the hold it ends in, and the moment of a closed one.
Routing(there) ==
    [run EXCEPT !["work"] = [Idle EXCEPT
        !.pc = there, !.hold = Mine.hold, !.clean = Mine.clean /\ Mine.hold = "closed",
        !.rec = IF there \in {"exit", "raised"} THEN Fresh ELSE Mine.rec]]
Works(there) == run' = Routing(there)

WorkClaims ==
    /\ At("work", "queued")
    /\ \/ Joins("work") /\ run' = Routed
       \/ Refused /\ Go("work", "given_back") /\ UNCHANGED claim
    /\ UNCHANGED <<remote, registry, history>>

\* `_refetched_close`: a close only the refetch could see carries a moment read
\* behind it, sound because the claim is held.
Refetches ==
    /\ At("work", "refetch")
    /\ LET noticed == closed /\ Mine.kind = "open"
       IN  run' \in {[run EXCEPT !["work"].saw = closed,
                        !["work"].clean = @ \/ noticed,
                        !["work"].pc = IF noticed THEN "noticed" ELSE "guard"],
                     Routing("raised")}
    /\ UNCHANGED <<remote, claim, registry, history>>

Notices ==
    /\ At("work", "noticed")
    /\ Observe(TRUE, TRUE)
    /\ run' = [run EXCEPT !["work"].pc = "post", !["work"].back = "refetched"]
    /\ UNCHANGED <<remote, claim, posting, scanned, retiring, publishing, fenced, history>>

\* The dispatch reads the record.
Guards ==
    /\ At("work", "guard")
    /\ run' \in {[run EXCEPT !["work"].rec = record, !["work"].pc =
                      IF Mine.kind = "sweep" THEN "sweep" ELSE "guarded"], Routing("raised")}
    /\ UNCHANGED <<remote, claim, registry, history>>

\* `_mark_observed_close`: the poll's close on a live cycle marks it where the
\* issue is closed yet or the latch ends it, and stops the tick anywhere else.
MarksPolledClose ==
    /\ At("work", "guarded")
    /\ Mine.kind = "closed" /\ Mine.rec.phase = "live"
    /\ LET c == Mine.rec.cycle
           seen == [latch EXCEPT !.seen = TRUE, !.clean = @ \/ Mine.clean]
           ends == latch.scope = c \/ (seen.clean /\ ~fenced)
       IN  /\ latch' = IF ~Mine.saw /\ ends THEN [seen EXCEPT !.scope = c] ELSE seen
           /\ Works(IF Mine.saw \/ ends THEN "mark" ELSE "exit")
    /\ deferred' = FALSE
    /\ UNCHANGED <<remote, claim, posting, scanned, retiring, publishing, fenced, history>>

\* A cancelled record stops the tick, and its ending may get to where an
\* operator can take the terminal off; an ended one may be restarted, where
\* the issue is open and the operator has.
GuardsEnding ==
    /\ At("work", "guarded")
    /\ \/ /\ Mine.rec.phase = "cancelled"
          /\ record' \in {record, [record EXCEPT !.phase = "ended"]}
          /\ Works("exit")
          /\ UNCHANGED fenced
       \/ /\ Mine.rec.phase = "ended"
          /\ IF ~Mine.saw /\ record.cycle < MaxCycle
             THEN fenced' = TRUE /\ Works("restart")
             ELSE UNCHANGED fenced /\ Works("exit")
          /\ UNCHANGED record
    /\ UNCHANGED <<closed, receipts, claim, latch, posting, scanned, retiring,
                   publishing, deferred, history>>

\* `_closed_under_a_label`, then one walk of the thread per cycle for a receipt
\* a process that is gone left (`_inherited_close`, `_retired_close_adopted`).
GuardsLive ==
    /\ At("work", "guarded")
    /\ Mine.rec.phase = "live" /\ Mine.kind = "open"
    /\ IF Mine.saw THEN Works("mark") /\ UNCHANGED scanned
       ELSE IF scanned = Mine.rec.cycle THEN Works("handler") /\ UNCHANGED scanned
       ELSE scanned' = Mine.rec.cycle /\ Go("work", "walk")
    /\ UNCHANGED <<remote, claim, latch, posting, retiring, publishing, deferred,
                   fenced, history>>

\* Only a scope the latch has, or a receipt, puts a retired cycle back.
Adopts(there) ==
    IF latch.seen /\ latch.scope = Mine.rec.cycle THEN Works("mark") /\ UNCHANGED scanned
    ELSE IF scanned = Mine.rec.cycle THEN Works(there) /\ UNCHANGED scanned
    ELSE scanned' = Mine.rec.cycle /\ Go("work", "walk")

\* A closed pass that got here found no live cycle, and a handler of a closed
\* issue starts none.
GuardsRetired ==
    /\ At("work", "guarded")
    /\ Mine.rec.phase \in {"retired", "none"}
    /\ LET there == IF Mine.kind = "open" /\ ~Mine.saw THEN "handler" ELSE "exit"
       IN  IF Mine.rec.phase = "retired" THEN Adopts(there)
           ELSE Works(there) /\ UNCHANGED scanned
    /\ UNCHANGED <<remote, claim, latch, posting, retiring, publishing, deferred,
                   fenced, history>>

\* The walk: an answer that finds nothing keeps its claim, one that fails
\* gives it back.
Walks ==
    /\ At("work", "walk")
    /\ \/ /\ Works(IF Mine.rec.cycle \in receipts THEN "mark_inside_walk"
                   ELSE IF Mine.kind = "open" /\ ~Mine.saw THEN "handler" ELSE "exit")
          /\ UNCHANGED scanned
       \/ scanned' = NoCycle /\ Works("raised")
    /\ UNCHANGED <<remote, claim, latch, posting, retiring, publishing, deferred,
                   fenced, history>>

\* `_marked`: the write that cancels the cycle read, which may fail.
Marks ==
    /\ Mine.pc \in {"mark", "mark_inside_walk"}
    /\ \/ /\ record' = Cancelled(Mine.rec.cycle)
          /\ Works("exit") /\ UNCHANGED scanned
       \/ /\ record' \in {record, Cancelled(Mine.rec.cycle)}
          /\ Works("raised")
          /\ scanned' = IF Mine.pc = "mark" THEN scanned ELSE NoCycle
    /\ UNCHANGED <<closed, receipts, claim, latch, posting, retiring, publishing,
                   deferred, fenced, history>>

\* The restart an operator authorized (`_restarts`, `restarting`): its write
\* lands or not, and either way the moments before its end are no proof now.
Restarts ==
    /\ \/ /\ Mine.pc = "restart"
          /\ record' \in {record, Live(Mine.rec.cycle + 1)}
          /\ Works("restarted")
          /\ UNCHANGED <<fenced, latch>>
       \/ /\ Mine.pc = "restarted"
          /\ fenced' = FALSE
          /\ latch' = [latch EXCEPT !.clean = FALSE]
          /\ run' = Staled(Routing("exit"))
          /\ UNCHANGED record
    /\ UNCHANGED <<closed, receipts, claim, posting, scanned, retiring, publishing,
                   deferred, flips>>
    /\ Witnessed

\* A handler: no cycle and the measurement of an oversized candidate starts
\* the next; a live one is left as it is, or retired unless a close ends it
\* (`_cancelled`, `_latched_close_ends`: every barrier asks the same).
Handles ==
    /\ At("work", "handler")
    /\ \/ Works("exit") /\ UNCHANGED <<record, latch>>
       \/ /\ Mine.rec.phase \in {"none", "retired"} /\ record.cycle < MaxCycle
          /\ record' = Live(record.cycle + 1)
          /\ Works("exit") /\ UNCHANGED latch
       \/ /\ Mine.rec.phase = "live"
          /\ Asked(Mine.rec.cycle)
          /\ Works(IF Ends(Mine.rec.cycle) THEN "mark" ELSE "note")
          /\ UNCHANGED record
    /\ UNCHANGED <<closed, receipts, claim, posting, scanned, retiring, publishing,
                   deferred, fenced, flips>>
    /\ Witnessed

\* The retirement window (`RetiringCycle.held`): the note on the claim, the
\* advertised cycle, the write that takes it off the record, landing or not.
Retires ==
    /\ \/ /\ Mine.pc = "note"
          /\ claim' = [claim EXCEPT !.note = Mine.rec.cycle]
          /\ retiring' = Mine.rec.cycle
          /\ Works("retire")
          /\ UNCHANGED record
       \/ /\ Mine.pc = "retire"
          /\ \/ record' = Retired(Mine.rec.cycle) /\ Works("retired")
             \/ record' \in {record, Retired(Mine.rec.cycle)} /\ Works("torn")
          /\ UNCHANGED <<claim, retiring>>
    /\ UNCHANGED <<closed, receipts, latch, posting, scanned, publishing, deferred,
                   fenced, flips>>
    /\ Witnessed

\* The window closes with the question asked, and a close seen in it puts the
\* cycle back, cancelled -- unless the write raised.
ClosesWindow ==
    /\ Mine.pc \in {"retired", "torn"}
    /\ retiring' = NoCycle
    /\ Asked(Mine.rec.cycle)
    /\ Works(IF Mine.pc = "torn" THEN "raised"
             ELSE IF Ends(Mine.rec.cycle) THEN "mark" ELSE "exit")
    /\ UNCHANGED <<remote, claim, posting, scanned, publishing, deferred, fenced, history>>

\* The sweep (`_handle_closed_owner_cleanup`): a retired cycle is asked about
\* as above; a cycle the record names is marked where the issue is closed or
\* the held close ends it, and its ending may be finished if it is closed.
Sweeps ==
    /\ At("work", "sweep")
    /\ LET c == Mine.rec.cycle
       IN  \/ /\ Mine.rec.phase = "none"
              /\ Works("exit") /\ UNCHANGED <<record, latch, scanned>>
           \/ /\ Mine.rec.phase = "retired"
              /\ Adopts("exit") /\ UNCHANGED <<record, latch>>
           \/ /\ Mine.rec.phase \in {"live", "cancelled", "ended"}
              /\ IF Mine.saw THEN latch' = [latch EXCEPT !.scope = c] ELSE Asked(c)
              /\ IF Mine.rec.phase = "live"
                 THEN /\ Works(IF Mine.saw \/ Ends(c) THEN "mark" ELSE "exit")
                      /\ UNCHANGED record
                 ELSE /\ record' \in {record} \cup (IF Mine.saw
                              THEN {[record EXCEPT !.phase = "ended"]} ELSE {})
                      /\ Works("exit")
              /\ UNCHANGED scanned
    /\ UNCHANGED <<closed, receipts, claim, posting, retiring, publishing, deferred,
                   fenced, history>>

-----------------------------------------------------------------------------
(***************************************************************************)
(* The way out.  The handler's hold goes, then the observation hold the    *)
(* pass ends in is asked, then the claim and the submit's hold go.         *)
(***************************************************************************)
\* `_kept_closed_reading` and `_kept_cleanup_reading` latch the reading afresh
\* ahead of the read that decides it; `_deferred_cleanup`, after a sweep that
\* raised, hands the one it had back.
Exits ==
    /\ Mine.pc \in {"exit", "raised"}
    /\ \/ /\ Mine.hold = "none"
          /\ Go("work", "leave")
          /\ UNCHANGED <<latch, deferred>>
       \/ /\ Mine.hold = "closed"
          /\ Observe(Mine.clean, TRUE)
          /\ run' = [run EXCEPT !["work"].pc = "post", !["work"].back = "kept"]
       \/ /\ Mine.hold = "sweep" /\ Mine.pc = "raised"
          /\ Observe(FALSE, FALSE)
          /\ run' = [run EXCEPT !["work"].pc = "post", !["work"].back = "sent"]
       \/ /\ Mine.hold = "sweep" /\ Mine.pc = "exit"
          /\ Observe(FALSE, TRUE)
          /\ Go("work", "asks_settled")
    /\ UNCHANGED <<remote, claim, posting, scanned, retiring, publishing, fenced, history>>

\* `_cleanup_settled`: the issue, then its record.  An open issue, one under a
\* swept label and one whose ending is over are settled; the label is left
\* open.  A read that fails keeps the reading.
AsksSettled ==
    /\ \/ /\ Mine.pc = "asks_settled"
          /\ run' \in {[run EXCEPT !["work"].saw = closed, !["work"].pc = "asks_ending"],
                       [run EXCEPT !["work"].pc = "leave"]}
       \/ /\ Mine.pc = "asks_ending"
          /\ run' \in {[run EXCEPT !["work"].back = "kept", !["work"].pc = "settle"]}
                  \cup IF Mine.saw /\ record.phase \notin {"none", "retired"}
                       THEN {[run EXCEPT !["work"].pc = "leave"]} ELSE {}
    /\ UNCHANGED <<remote, claim, registry, history>>

WorkLeaves ==
    /\ Mine.pc = "leave"
    /\ Leaves("work")
    /\ run' = [run EXCEPT !["work"] = [Idle EXCEPT !.pc = "given_back"]]
    /\ UNCHANGED <<remote, registry, history>>

\* `_releases_the_claim`.
GivesBack ==
    /\ Mine.pc = "given_back"
    /\ ReleaseHold
    /\ run' = [run EXCEPT !["work"] = Idle]
    /\ UNCHANGED <<remote, claim, scanned, retiring, fenced, history>>

-----------------------------------------------------------------------------
(***************************************************************************)
(* Everything else: the human and the other pollers.                       *)
(***************************************************************************)
HumanFlips ==
    /\ flips < MaxFlips
    /\ flips' = flips + 1
    /\ closed' = ~closed
    /\ claim' = [claim EXCEPT !.open = @ \/ (closed /\ Refused)]
    /\ UNCHANGED <<record, receipts, registry, run>>
    /\ Witnessed

\* Another poller takes the claim: from here on no moment of this one is clean.
OtherTakes ==
    /\ claim.in = {}
    /\ claim' = [Unclaimed EXCEPT !.in = {"other"}, !.open = ~closed]
    /\ latch' = [latch EXCEPT !.clean = FALSE]
    /\ run' = Staled(run)
    /\ scanned' = NoCycle
    /\ UNCHANGED <<remote, posting, retiring, publishing, deferred, fenced, history>>

\* It lets go, or dies holding the claim, which leaves its signature and note.
OtherLeaves ==
    /\ Refused
    /\ \/ claim' = Unclaimed /\ UNCHANGED receipts
       \/ /\ claim' = [Unclaimed EXCEPT !.note = claim.note]
          /\ receipts' \in {receipts, receipts \cup (proven \cap
                  IF record.phase \in {"live", "retired"} THEN {record.cycle} ELSE {})}
    /\ UNCHANGED <<closed, record, registry, run, history>>

\* What it writes meanwhile is what this poller's own passes write: a cycle
\* started, ended by a close of its own, brought to its end, restarted, or
\* noted and then retired; and a receipt for a close.
OtherWrites ==
    /\ Refused
    /\ LET c == record.cycle
       IN  \/ /\ \/ record.phase \in {"none", "retired", "ended"} /\ c < MaxCycle
                    /\ claim.open /\ record' = Live(c + 1)
                 \/ record.phase \in {"live", "retired"} /\ c \in proven
                    /\ record' = Cancelled(c)
                 \/ record.phase = "cancelled"
                    /\ record' = [record EXCEPT !.phase = "ended"]
                 \/ record.phase = "live" /\ claim.note = c
                    /\ record' = Retired(c)
              /\ UNCHANGED claim
           \/ /\ record.phase = "live" /\ claim.open
              /\ claim' = [claim EXCEPT !.note = c]
              /\ UNCHANGED record
    /\ UNCHANGED <<closed, receipts, registry, run, flips>>
    /\ Witnessed

-----------------------------------------------------------------------------
Polls ==
    \/ PollMoment \/ PollLists \/ PollClaims \/ PollObserves \/ PollLeaves
    \/ Submits \/ SubmitRefused \/ RefusedAgain \/ RefusedDefers
    \/ ContenderReads \/ ContenderCompares \/ ContenderFails

Passes ==
    \/ WorkClaims \/ Refetches \/ Notices \/ Guards \/ MarksPolledClose
    \/ GuardsEnding \/ GuardsLive \/ GuardsRetired \/ Walks \/ Marks \/ Restarts
    \/ Handles \/ Retires \/ ClosesWindow \/ Sweeps
    \/ Exits \/ AsksSettled \/ WorkLeaves \/ GivesBack

Next ==
    \/ HumanFlips \/ OtherTakes \/ OtherLeaves \/ OtherWrites
    \/ Polls \/ Passes \/ \E t \in Thread : Posts(t)

Spec == Init /\ [][Next]_vars

-----------------------------------------------------------------------------
TypeOK ==
    /\ closed \in BOOLEAN /\ record \in Record /\ receipts \subseteq Cycle
    /\ claim.in \subseteq Thread \/ claim.in = {"other"}
    /\ claim.note \in 0..MaxCycle /\ claim.open \in BOOLEAN
    /\ latch \in [seen : BOOLEAN, scope : 0..MaxCycle, clean : BOOLEAN,
                  memo : 0..MaxCycle]
    /\ posting \in {"none", "current", "stale"}
    /\ {scanned, retiring} \subseteq 0..MaxCycle
    /\ publishing \in 0..2
    /\ {deferred, fenced} \subseteq BOOLEAN
    /\ proven \subseteq Cycle

\* A cycle is cancelled only for a close of its own: one that stood while the
\* record named it or its holder was retiring it, or over the work measured into
\* it -- never for a close that ended an earlier cycle, or one read before
\* another poller, or this one, restarted the issue (`_ends`).
EndedByItsOwnClose ==
    record.phase \in {"cancelled", "ended"} => record.cycle \in proven

\* What will end a cycle later is of a close of that cycle: the receipts, which
\* end theirs in whatever process reads them (`_observed_close_posted`), and the
\* scope of a held close, whether the receipt's reads, a contender's or the
\* moment of the latch gave it.
EvidenceIsOfAClose ==
    /\ receipts \subseteq proven
    /\ latch.seen /\ latch.scope # NoCycle => latch.scope \in proven

\* The memo that suppresses a second receipt is never left behind by a receipt
\* that landed once its reading had been settled (`receipt_written`).
MemoIsOfAReading == latch.memo # NoCycle => latch.seen

\* What a postponed settlement will drop is never a reading taken since it was
\* decided: such a one has a moment, and withdraws it (`observe_close`).
PostponedReadingIsOld == deferred => latch.seen /\ ~latch.clean

\* No reading is dropped while a submit's hold stands, a refused one's included:
\* a barrier of the worker it admitted may still have to read it.
HeldReadingStands == [][latch.seen /\ ~latch'.seen => publishing' = 0]_vars

\* What the contender and the receipt both say of the reading they keep: the
\* latch carries a close scoped to the live cycle until a receipt has it, landed
\* or under way.
LatchCarriesTheClose ==
    [][ latch.seen /\ ~latch'.seen /\ record = Live(latch.scope)
        => \/ latch.scope \in receipts
           \/ Me.pc = "land" /\ Me.named = latch.scope ]_vars

-----------------------------------------------------------------------------
\* The claim as its own promise sees it: the polling thread takes it alongside,
\* everybody else to write.
Holder(t) == <<IF t \in Thread THEN "own" ELSE "other", t>>

Claim == INSTANCE IssueClaim WITH
    Process <- {"own", "other"},
    Thread  <- Thread \cup {"other"},
    None    <- NoCycle,
    writing <- {Holder(t) : t \in claim.in \ {"poll"}},
    beside  <- {Holder(t) : t \in claim.in \cap {"poll"}},
    told    <- claim.note

\* This module's account of the claim, of the pollers beside this one and of the
\* notes a contender reads is one the claim's promise allows.
KeepsToClaim == Claim!Spec
=============================================================================
