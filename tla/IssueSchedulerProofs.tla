------------------------ MODULE IssueSchedulerProofs ------------------------
(***************************************************************************)
(* What IssueScheduler checks on four submissions, for every number of     *)
(* them, of repositories, issues and callers, and for all caps: no issue   *)
(* has two workers, slots are those of the work, the caps hold, and quiet  *)
(* stays quiet.                                                            *)
(***************************************************************************)
EXTENDS IssueScheduler, FiniteSetTheorems, TLAPS

\* What job j is admitted for, and what its drain has claimed.
Admitted(j, k) == job[j] # None /\ job[j].key = k
Claims(j, k) == job[j] # None /\ job[j].claim # None /\ k = <<job[j].key[1], job[j].claim>>

\* No two jobs have to do with one issue, however they came by it.
Apart ==
    \A k \in Key : \A i, j \in Job :
        (Admitted(i, k) \/ Claims(i, k)) /\ (Admitted(j, k) \/ Claims(j, k)) => i = j

\* Only a drain that runs has a claim.
ClaimInv ==
    \A j \in Job : job[j] # None /\ job[j].claim # None =>
        Family(job[j].key) /\ job[j].at = "running"

\* The two sets of keys and the family slots, one member at a time.
SlotInv ==
    /\ \A k \in Key :
        /\ k \in active <=> \E j \in Job : Admitted(j, k) /\ ~job[j].exempt
        /\ k \in tracked <=>
                \E j \in Job : (Admitted(j, k) /\ job[j].exempt) \/ Claims(j, k)
    /\ \A r \in Repo :
        r \in familyActiveRepos <=>
            \E j \in Job : Admitted(j, <<r, Bucket>>)

Of(r, keys) == {k \in keys : k[1] = r}

\* The counts are those of the keys, and within the caps.
CountInv ==
    /\ IsFiniteSet(active)
    /\ Cardinality(active) <= GlobalCap
    /\ \A r \in Repo : /\ perRepoActive[r] = Cardinality(Of(r, active))
                       /\ perRepoActive[r] <= PerRepoCap[r]

\* At most one caller has the hold, and it was granted while nothing was admitted
\* that the hold would not outlast.
BarrierInv ==
    /\ \A c, d \in Caller :
        barrier[c] \in {"waiting", "quiet", "busy"}
            /\ barrier[d] \in {"waiting", "quiet", "busy"} => c = d
    /\ \A c \in Caller :
        /\ barrier[c] \in {"waiting", "quiet", "busy"} => barred
        /\ barrier[c] = "quiet" => active = {} /\ tracked = {}

IInv == TypeOK /\ Apart /\ ClaimInv /\ SlotInv /\ CountInv /\ BarrierInv

-----------------------------------------------------------------------------
LEMMA JobTyped ==
    ASSUME TypeOK, NEW j \in Job, job[j] # None
    PROVE  /\ job[j] \in JobState
           /\ job[j].key \in Key /\ job[j].key[1] \in Repo
           /\ job[j].key = <<job[j].key[1], job[j].key[2]>>
           /\ job[j].exempt \in BOOLEAN
           /\ job[j].at \in {"queued", "running", "returned"}
           /\ job[j].claim \in Number \cup {None}
           /\ job[j].claim # None => <<job[j].key[1], job[j].claim>> \in Key
<1>1. job[j] \in JobState
  BY DEF TypeOK
<1>2. /\ job[j].key \in Key /\ job[j].exempt \in BOOLEAN
      /\ job[j].at \in {"queued", "running", "returned"}
      /\ job[j].claim \in Number \cup {None}
  BY <1>1 DEF JobState
<1>3. job[j].key[1] \in Repo /\ job[j].key = <<job[j].key[1], job[j].key[2]>>
  BY <1>2 DEF Key
<1> QED
  BY <1>1, <1>2, <1>3 DEF Key

\* A key nobody has a slot for is one no job has to do with.
LEMMA UnheldKey ==
    ASSUME TypeOK, SlotInv, NEW k \in Key, k \notin active, k \notin tracked,
           NEW j \in Job
    PROVE  ~ Admitted(j, k) /\ ~ Claims(j, k)
<1>1. ~ Claims(j, k)
  BY DEF SlotInv
<1>2. ASSUME Admitted(j, k) PROVE FALSE
  <2>1. job[j].exempt \in BOOLEAN
    BY <1>2, JobTyped DEF Admitted
  <2> QED
    BY <1>2, <2>1 DEF SlotInv
<1> QED
  BY <1>1, <1>2

\* A step that moves no key from one job to another or to nobody keeps the slots.
LEMMA JobsKept ==
    ASSUME IInv, UNCHANGED slots,
           \A i \in Job : \A k \in Key :
              /\ Admitted(i, k)' <=> Admitted(i, k)
              /\ Claims(i, k)' <=> Claims(i, k)
              /\ Admitted(i, k) => job'[i].exempt = job[i].exempt
    PROVE  Apart' /\ SlotInv' /\ CountInv'
<1>1. \A r \in Repo : <<r, Bucket>> \in Key
  BY DEF Key
<1>2. Apart'
  BY DEF IInv, Apart
<1>3. SlotInv'
  BY <1>1 DEF IInv, SlotInv, slots
<1>4. CountInv'
  BY DEF IInv, CountInv, slots, Of
<1> QED
  BY <1>2, <1>3, <1>4

LEMMA CourseStep ==
    ASSUME IInv, NEW j \in Job, Begin(j) \/ Return(j)
    PROVE  IInv'
<1>1. PICK to \in {"running", "returned"} :
        /\ job' = [job EXCEPT ![j].at = to]
        /\ job[j] # None
        /\ to = "returned" => job[j].claim = None
  BY DEF Begin, Return, Running, InFlight
<1>2. UNCHANGED <<slots, closed, barred, barrier>> 
  BY DEF Begin, Return
<1>3. TypeOK
  BY DEF IInv
<1>4. job[j] \in JobState
  BY <1>1, <1>3, JobTyped
<1>5. /\ job'[j] \in JobState /\ job'[j].at = to /\ job'[j].key = job[j].key
      /\ job'[j].exempt = job[j].exempt /\ job'[j].claim = job[j].claim
      /\ \A i \in Job : i # j => job'[i] = job[i]
  <2>1. job \in [Job -> JobState \cup {None}]
    BY <1>3 DEF TypeOK
  <2>2. job'[j] = [job[j] EXCEPT !.at = to]
    BY <1>1, <2>1
  <2>3. \A i \in Job : i # j => job'[i] = job[i]
    BY <1>1, <2>1
  <2> QED
    BY <1>4, <2>2, <2>3 DEF JobState
<1>6. job'[j] # None
  BY <1>5, CapsAssumption
<1>7. TypeOK'
  <2>1. job' \in [Job -> JobState \cup {None}]
    BY <1>1, <1>3, <1>5 DEF TypeOK
  <2> QED
    BY <1>2, <1>3, <2>1 DEF TypeOK, slots
<1>8. \A i \in Job : \A k \in Key :
        /\ Admitted(i, k)' <=> Admitted(i, k)
        /\ Claims(i, k)' <=> Claims(i, k)
        /\ Admitted(i, k) => job'[i].exempt = job[i].exempt
  BY <1>1, <1>5, <1>6 DEF Admitted, Claims
<1>9. Apart' /\ SlotInv' /\ CountInv'
  BY <1>2, <1>8, JobsKept
<1>10. ClaimInv'
  BY <1>1, <1>5, <1>6 DEF IInv, ClaimInv
<1>11. BarrierInv'
  BY <1>2 DEF IInv, BarrierInv, slots
<1> QED
  BY <1>7, <1>9, <1>10, <1>11 DEF IInv

LEMMA TrackStep ==
    ASSUME IInv, NEW j \in Job, NEW n \in Number, TrackActive(j, n)
    PROVE  IInv'
<1> DEFINE key == <<job[j].key[1], n>>
<1>1. /\ job[j] # None /\ job[j].at = "running" /\ Family(job[j].key)
      /\ job[j].claim = None /\ ~barred /\ key \notin active /\ key \notin tracked
      /\ tracked' = tracked \cup {key}
      /\ job' = [job EXCEPT ![j].claim = n]
      /\ UNCHANGED <<active, perRepoActive, familyActiveRepos, closed, barred, barrier>>
  BY DEF TrackActive, Running, InFlight, Claimable
<1>2. TypeOK /\ n # None
  BY CapsAssumption DEF IInv
<1>3. job[j] \in JobState /\ key \in Key
  BY <1>1, <1>2, JobTyped DEF Key
<1>4. /\ job'[j] \in JobState /\ job'[j].at = "running" /\ job'[j].key = job[j].key
      /\ job'[j].exempt = job[j].exempt /\ job'[j].claim = n
      /\ \A i \in Job : i # j => job'[i] = job[i]
  <2>1. job \in [Job -> JobState \cup {None}]
    BY <1>2 DEF TypeOK
  <2>2. job'[j] = [job[j] EXCEPT !.claim = n]
    BY <1>1, <2>1
  <2>3. \A i \in Job : i # j => job'[i] = job[i]
    BY <1>1, <2>1
  <2> QED
    BY <1>1, <1>3, <2>2, <2>3 DEF JobState
<1>5. job'[j] # None
  BY <1>4, CapsAssumption
<1>6. TypeOK'
  <2>1. job' \in [Job -> JobState \cup {None}]
    BY <1>1, <1>2, <1>4 DEF TypeOK
  <2> QED
    BY <1>1, <1>2, <1>3, <2>1 DEF TypeOK
<1>7. \A i \in Job : \A k \in Key :
        /\ Admitted(i, k)' <=> Admitted(i, k)
        /\ Claims(i, k)' <=> Claims(i, k) \/ (i = j /\ k = key)
        /\ Admitted(i, k) => job'[i].exempt = job[i].exempt
  BY <1>1, <1>2, <1>4, <1>5 DEF Admitted, Claims
<1>8. \A i \in Job : ~ Admitted(i, key) /\ ~ Claims(i, key)
  BY <1>1, <1>2, <1>3, UnheldKey DEF IInv
<1> HIDE DEF key
<1>9. Apart'
  BY <1>7, <1>8 DEF IInv, Apart
<1>10. SlotInv'
  <2>1. \A r \in Repo : <<r, Bucket>> \in Key
    BY DEF Key
  <2> QED
    BY <1>1, <1>7, <2>1 DEF IInv, SlotInv
<1>11. CountInv'
  BY <1>1 DEF IInv, CountInv, Of
<1>12. ClaimInv'
  BY <1>1, <1>4, <1>5 DEF IInv, ClaimInv
<1>13. BarrierInv'
  BY <1>1 DEF IInv, BarrierInv
<1> QED
  BY <1>6, <1>9, <1>10, <1>11, <1>12, <1>13 DEF IInv

LEMMA UntrackStep ==
    ASSUME IInv, NEW j \in Job, Untrack(j)
    PROVE  IInv'
<1> DEFINE key == <<job[j].key[1], job[j].claim>>
<1>1. /\ job[j] # None /\ job[j].at = "running" /\ job[j].claim # None
      /\ tracked' = tracked \ {key}
      /\ job' = [job EXCEPT ![j].claim = None]
      /\ UNCHANGED <<active, perRepoActive, familyActiveRepos, closed, barred, barrier>>
  BY DEF Untrack, Running, InFlight
<1>2. TypeOK
  BY DEF IInv
<1>3. job[j] \in JobState /\ key \in Key
  BY <1>1, <1>2, JobTyped
<1>4. /\ job'[j] \in JobState /\ job'[j].at = "running" /\ job'[j].key = job[j].key
      /\ job'[j].exempt = job[j].exempt /\ job'[j].claim = None
      /\ \A i \in Job : i # j => job'[i] = job[i]
  <2>1. job \in [Job -> JobState \cup {None}]
    BY <1>2 DEF TypeOK
  <2>2. job'[j] = [job[j] EXCEPT !.claim = None]
    BY <1>1, <2>1
  <2>3. \A i \in Job : i # j => job'[i] = job[i]
    BY <1>1, <2>1
  <2> QED
    BY <1>1, <1>3, <2>2, <2>3 DEF JobState
<1>5. job'[j] # None
  BY <1>4, CapsAssumption
<1>6. TypeOK'
  <2>1. job' \in [Job -> JobState \cup {None}]
    BY <1>1, <1>2, <1>4 DEF TypeOK
  <2> QED
    BY <1>1, <1>2, <2>1 DEF TypeOK
<1>7. \A i \in Job : \A k \in Key :
        /\ Admitted(i, k)' <=> Admitted(i, k)
        /\ Claims(i, k)' <=> Claims(i, k) /\ i # j
        /\ Admitted(i, k) => job'[i].exempt = job[i].exempt
  BY <1>1, <1>2, <1>4, <1>5 DEF Admitted, Claims
<1>8. /\ Claims(j, key) /\ ~ Admitted(j, key)
      /\ \A k \in Key : Claims(j, k) => k = key
  <2>1. job[j].key[2] = Bucket /\ job[j].claim \in Number
    BY <1>1, <1>2, JobTyped DEF IInv, ClaimInv, Family
  <2>2. job[j].key # key
    BY <2>1, <1>3, CapsAssumption
  <2> QED
    BY <1>1, <2>2 DEF Claims, Admitted
<1> HIDE DEF key
<1>9. Apart'
  BY <1>7 DEF IInv, Apart
<1>10. SlotInv'
  <2>1. \A r \in Repo : <<r, Bucket>> \in Key
    BY DEF Key
  <2>2. ASSUME NEW i \in Job, Admitted(i, key) \/ (Claims(i, key) /\ i # j)
        PROVE  FALSE
    BY <1>3, <1>8, <2>2 DEF IInv, Apart
  <2>3. ASSUME NEW k \in Key
        PROVE  k \in tracked' <=>
                \E i \in Job : (Admitted(i, k)' /\ job'[i].exempt) \/ Claims(i, k)'
    <3>1. CASE k = key
      BY <1>1, <1>3, <1>7, <2>2, <3>1
    <3>2. CASE k # key
      <4>1. \A i \in Job : Claims(i, k)' <=> Claims(i, k)
        BY <1>7, <1>8, <3>2
      <4> QED
        BY <1>1, <1>7, <3>2, <4>1 DEF IInv, SlotInv
    <3> QED
      BY <3>1, <3>2
  <2> QED
    BY <1>1, <1>7, <2>1, <2>3 DEF IInv, SlotInv
<1>11. CountInv'
  BY <1>1 DEF IInv, CountInv, Of
<1>12. ClaimInv'
  BY <1>1, <1>4, <1>5 DEF IInv, ClaimInv
<1>13. BarrierInv'
  BY <1>1 DEF IInv, BarrierInv
<1> QED
  BY <1>6, <1>9, <1>10, <1>11, <1>12, <1>13 DEF IInv

-----------------------------------------------------------------------------
\* One key more, or one less, in its repository's count and in no other.
LEMMA CountsOne ==
    ASSUME NEW keys, IsFiniteSet(keys), NEW key \in Key, key \notin keys
    PROVE  LET more == keys \cup {key}
           IN  /\ IsFiniteSet(more)
               /\ Cardinality(more) = Cardinality(keys) + 1 /\ Cardinality(keys) \in Nat
               /\ \A r \in Repo :
                    /\ Cardinality(Of(r, keys)) \in Nat
                    /\ r = key[1] =>
                            Cardinality(Of(r, more)) = Cardinality(Of(r, keys)) + 1
                    /\ r # key[1] => Of(r, more) = Of(r, keys)
<1> DEFINE more == keys \cup {key}
<1>1. IsFiniteSet(more) /\ Cardinality(more) = Cardinality(keys) + 1
      /\ Cardinality(keys) \in Nat
  BY FS_AddElement, FS_CardinalityType
<1>2. ASSUME NEW r \in Repo
      PROVE  /\ Cardinality(Of(r, keys)) \in Nat
             /\ r = key[1] => Cardinality(Of(r, more)) = Cardinality(Of(r, keys)) + 1
             /\ r # key[1] => Of(r, more) = Of(r, keys)
  <2>1. Of(r, keys) \subseteq keys
    BY DEF Of
  <2>2. IsFiniteSet(Of(r, keys)) /\ Cardinality(Of(r, keys)) \in Nat
    BY <2>1, FS_Subset, FS_CardinalityType
  <2>3. CASE r = key[1]
    <3>1. Of(r, more) = Of(r, keys) \cup {key} /\ key \notin Of(r, keys)
      BY <2>3 DEF Of
    <3>2. Cardinality(Of(r, more)) = Cardinality(Of(r, keys)) + 1
      BY <2>2, <3>1, FS_AddElement
    <3> QED
      BY <2>2, <2>3, <3>2
  <2>4. CASE r # key[1]
    <3>1. Of(r, more) = Of(r, keys)
      BY <2>4 DEF Of
    <3> QED
      BY <2>2, <2>4, <3>1
  <2> QED
    BY <2>3, <2>4
<1> QED
  BY <1>1, <1>2

LEMMA SubmitStep ==
    ASSUME IInv, NEW j \in Job, NEW key \in Key, NEW exempt \in BOOLEAN,
           Submit(j, key, exempt)
    PROVE  IInv'
<1> DEFINE new == [key |-> key, exempt |-> exempt, at |-> "queued", claim |-> None]
<1>1. /\ job[j] = None /\ Admissible(key, exempt) /\ ReserveSlot(key, exempt)
      /\ job' = [job EXCEPT ![j] = new]
      /\ UNCHANGED <<closed, barred, barrier>>
  BY DEF Submit
<1>2. TypeOK /\ key[1] \in Repo /\ key = <<key[1], key[2]>>
  BY DEF IInv, Key
<1>3. new \in JobState /\ new # None /\ new.key = key /\ new.exempt = exempt
      /\ new.at = "queued" /\ new.claim = None
  BY CapsAssumption DEF JobState
<1> HIDE DEF new
<1>4. /\ job' \in [Job -> JobState \cup {None}] /\ job'[j] = new
      /\ \A i \in Job : i # j => job'[i] = job[i]
  BY <1>1, <1>2, <1>3 DEF TypeOK
<1>5. \A i \in Job : \A k \in Key :
        /\ Admitted(i, k)' <=> Admitted(i, k) \/ (i = j /\ k = key)
        /\ Claims(i, k)' <=> Claims(i, k)
        /\ Admitted(i, k) => job'[i].exempt = job[i].exempt
  BY <1>1, <1>3, <1>4 DEF Admitted, Claims
<1>6. /\ ~ barred /\ key \notin active /\ key \notin tracked
      /\ exempt \/ /\ Cardinality(active) < GlobalCap
                   /\ perRepoActive[key[1]] < PerRepoCap[key[1]]
  BY <1>1 DEF Admissible
<1>7. \A i \in Job : ~ Admitted(i, key) /\ ~ Claims(i, key)
  BY <1>2, <1>6, UnheldKey DEF IInv
<1>8. /\ active' = IF exempt THEN active ELSE active \cup {key}
      /\ tracked' = IF exempt THEN tracked \cup {key} ELSE tracked
      /\ perRepoActive' = IF exempt THEN perRepoActive
                          ELSE [perRepoActive EXCEPT ![key[1]] = perRepoActive[key[1]] + 1]
      /\ familyActiveRepos' = IF Family(key) THEN familyActiveRepos \cup {key[1]}
                              ELSE familyActiveRepos
  BY <1>1 DEF ReserveSlot
<1>9. TypeOK'
  <2>1. active' \subseteq Key /\ tracked' \subseteq Key /\ familyActiveRepos' \subseteq Repo
    BY <1>2, <1>8 DEF TypeOK
  <2>2. perRepoActive' \in [Repo -> Nat]
    BY <1>2, <1>8 DEF TypeOK
  <2> QED
    BY <1>1, <1>2, <1>4, <2>1, <2>2 DEF TypeOK
<1>10. Apart'
  BY <1>5, <1>7 DEF IInv, Apart
<1>11. SlotInv'
  <2>1. \A r \in Repo : <<r, Bucket>> \in Key
    BY DEF Key
  <2>2. ASSUME NEW k \in Key
        PROVE  /\ k \in active' <=> \E i \in Job : Admitted(i, k)' /\ ~job'[i].exempt
               /\ k \in tracked' <=>
                    \E i \in Job : (Admitted(i, k)' /\ job'[i].exempt) \/ Claims(i, k)'
    <3>1. CASE k = key
      <4>1. \A i \in Job : (Admitted(i, k)' <=> i = j) /\ ~ Claims(i, k)'
        BY <1>5, <1>7, <3>1
      <4>2. job'[j].exempt = exempt
        BY <1>3, <1>4
      <4> QED
        BY <1>6, <1>8, <3>1, <4>1, <4>2
    <3>2. CASE k # key
      <4>1. \A i \in Job : /\ Admitted(i, k)' <=> Admitted(i, k)
                           /\ Claims(i, k)' <=> Claims(i, k)
                           /\ Admitted(i, k) => job'[i].exempt = job[i].exempt
        BY <1>5, <3>2
      <4>2. (k \in active' <=> k \in active) /\ (k \in tracked' <=> k \in tracked)
        BY <1>8, <3>2
      <4> QED
        BY <4>1, <4>2 DEF IInv, SlotInv
    <3> QED
      BY <3>1, <3>2
  <2>3. ASSUME NEW r \in Repo
        PROVE  r \in familyActiveRepos' <=> \E i \in Job : Admitted(i, <<r, Bucket>>)'
    <3>1. key = <<r, Bucket>> <=> Family(key) /\ r = key[1]
      BY <1>2 DEF Family
    <3>2. r \in familyActiveRepos' <=>
            r \in familyActiveRepos \/ (Family(key) /\ r = key[1])
      BY <1>8
    <3>3. \A i \in Job : Admitted(i, <<r, Bucket>>)' <=>
            Admitted(i, <<r, Bucket>>) \/ (i = j /\ <<r, Bucket>> = key)
      BY <1>5, <2>1
    <3>4. r \in familyActiveRepos <=> \E i \in Job : Admitted(i, <<r, Bucket>>)
      BY DEF IInv, SlotInv
    <3> QED
      BY <3>1, <3>2, <3>3, <3>4
  <2> QED
    BY <2>2, <2>3 DEF SlotInv
<1>12. CountInv'
  <2>1. CASE exempt
    BY <1>8, <2>1 DEF IInv, CountInv, Of
  <2>2. CASE ~ exempt
    <3>1. /\ active' = active \cup {key}
          /\ perRepoActive' = [perRepoActive EXCEPT ![key[1]] = perRepoActive[key[1]] + 1]
      BY <1>8, <2>2
    <3>2. /\ IsFiniteSet(active')
          /\ Cardinality(active') = Cardinality(active) + 1 /\ Cardinality(active) \in Nat
          /\ \A r \in Repo :
                /\ Cardinality(Of(r, active)) \in Nat
                /\ r = key[1] => Cardinality(Of(r, active')) = Cardinality(Of(r, active)) + 1
                /\ r # key[1] => Of(r, active') = Of(r, active)
      <4>1. IsFiniteSet(active) /\ key \in Key /\ key \notin active
        BY <1>6 DEF IInv, CountInv
      <4>2. active' = active \cup {key}
        BY <3>1
      <4> DEFINE more == active \cup {key}
      <4>3. /\ IsFiniteSet(more)
            /\ Cardinality(more) = Cardinality(active) + 1 /\ Cardinality(active) \in Nat
            /\ \A r \in Repo :
                /\ Cardinality(Of(r, active)) \in Nat
                /\ r = key[1] => Cardinality(Of(r, more)) = Cardinality(Of(r, active)) + 1
                /\ r # key[1] => Of(r, more) = Of(r, active)
        BY <4>1, CountsOne
      <4>4. more = active'
        BY <4>2
      <4> HIDE DEF more
      <4> QED
        BY <4>3, <4>4
    <3>3. Cardinality(active') <= GlobalCap
      BY <1>6, <2>2, <3>2, CapsAssumption
    <3>4. ASSUME NEW r \in Repo
          PROVE  /\ perRepoActive'[r] = Cardinality(Of(r, active'))
                 /\ perRepoActive'[r] <= PerRepoCap[r]
      <4>1. /\ perRepoActive[r] = Cardinality(Of(r, active))
            /\ perRepoActive[r] <= PerRepoCap[r] /\ perRepoActive[r] \in Nat
            /\ PerRepoCap[r] \in Nat
        BY <1>2, CapsAssumption DEF IInv, CountInv, TypeOK
      <4>2. perRepoActive'[r] = IF r = key[1] THEN perRepoActive[r] + 1 ELSE perRepoActive[r]
        BY <1>2, <3>1 DEF TypeOK
      <4>3. CASE r = key[1]
        BY <1>6, <2>2, <3>2, <4>1, <4>2, <4>3
      <4>4. CASE r # key[1]
        BY <3>2, <4>1, <4>2, <4>4
      <4> QED
        BY <4>3, <4>4
    <3>5. \A r \in Repo : Of(r, active)' = Of(r, active')
      BY DEF Of
    <3> QED
      BY <3>2, <3>3, <3>4, <3>5 DEF CountInv
  <2> QED
    BY <2>1, <2>2
<1>13. ClaimInv'
  BY <1>3, <1>4 DEF IInv, ClaimInv
<1>14. BarrierInv'
  BY <1>1, <1>6 DEF IInv, BarrierInv
<1> QED
  BY <1>9, <1>10, <1>11, <1>12, <1>13, <1>14 DEF IInv

LEMMA DoneStep ==
    ASSUME IInv, NEW j \in Job, OnWorkerDone(j)
    PROVE  IInv'
<1> DEFINE key == job[j].key
           exempt == job[j].exempt
<1>1. /\ job[j] # None /\ job[j].at = "returned" /\ ReleaseSlot(key, exempt)
      /\ job' = [job EXCEPT ![j] = None]
      /\ UNCHANGED <<closed, barred, barrier>>
  BY DEF OnWorkerDone
<1>2. /\ TypeOK /\ key \in Key /\ key[1] \in Repo /\ key = <<key[1], key[2]>>
      /\ exempt \in BOOLEAN /\ job[j].claim = None
  BY <1>1, JobTyped DEF IInv, ClaimInv
<1>3. /\ job' \in [Job -> JobState \cup {None}] /\ job'[j] = None
      /\ \A i \in Job : i # j => job'[i] = job[i]
  BY <1>1, <1>2 DEF TypeOK
<1>4. \A i \in Job : \A k \in Key :
        /\ Admitted(i, k)' <=> Admitted(i, k) /\ i # j
        /\ Claims(i, k)' <=> Claims(i, k)
        /\ Admitted(i, k)' => job'[i].exempt = job[i].exempt
  BY <1>1, <1>2, <1>3 DEF Admitted, Claims
<1>5. Admitted(j, key) /\ \A k \in Key : Admitted(j, k) => k = key
  BY <1>1 DEF Admitted
<1>6. \A i \in Job : Admitted(i, key) \/ Claims(i, key) => i = j
  BY <1>2, <1>5 DEF IInv, Apart
<1>7. \A k \in Key : ~ Claims(j, k)
  BY <1>2 DEF Claims
<1>8. /\ active' = IF exempt THEN active ELSE active \ {key}
      /\ tracked' = IF exempt THEN tracked \ {key} ELSE tracked
      /\ perRepoActive' = IF exempt THEN perRepoActive
                          ELSE [perRepoActive EXCEPT ![key[1]] =
                                  IF perRepoActive[key[1]] <= 1 THEN 0
                                  ELSE perRepoActive[key[1]] - 1]
      /\ familyActiveRepos' = IF Family(key) THEN familyActiveRepos \ {key[1]}
                              ELSE familyActiveRepos
  BY <1>1 DEF ReleaseSlot
<1>9. /\ ~ exempt => key \in active /\ key \notin tracked
      /\ exempt => key \notin active
  <2>1. ~ exempt => key \in active
    BY <1>2, <1>5 DEF IInv, SlotInv
  <2>2. ~ exempt => key \notin tracked
    BY <1>2, <1>6, <1>7 DEF IInv, SlotInv
  <2>3. exempt => key \notin active
    BY <1>2, <1>6 DEF IInv, SlotInv
  <2> QED
    BY <2>1, <2>2, <2>3
<1> HIDE DEF key, exempt
<1>10. TypeOK'
  <2>1. active' \subseteq Key /\ tracked' \subseteq Key /\ familyActiveRepos' \subseteq Repo
    BY <1>2, <1>8 DEF TypeOK
  <2>2. perRepoActive' \in [Repo -> Nat]
    BY <1>2, <1>8 DEF TypeOK
  <2> QED
    BY <1>1, <1>2, <1>3, <2>1, <2>2 DEF TypeOK
<1>11. Apart'
  BY <1>4 DEF IInv, Apart
<1>12. SlotInv'
  <2>1. \A r \in Repo : <<r, Bucket>> \in Key
    BY DEF Key
  <2>2. ASSUME NEW k \in Key
        PROVE  /\ k \in active' <=> \E i \in Job : Admitted(i, k)' /\ ~job'[i].exempt
               /\ k \in tracked' <=>
                    \E i \in Job : (Admitted(i, k)' /\ job'[i].exempt) \/ Claims(i, k)'
    <3>1. CASE k = key
      <4>1. \A i \in Job : ~ Admitted(i, k)' /\ ~ Claims(i, k)'
        BY <1>2, <1>4, <1>6, <1>7, <3>1
      <4> QED
        BY <1>2, <1>8, <1>9, <3>1, <4>1
    <3>2. CASE k # key
      <4>1. \A i \in Job : /\ Admitted(i, k)' <=> Admitted(i, k)
                           /\ Claims(i, k)' <=> Claims(i, k)
                           /\ Admitted(i, k) => job'[i].exempt = job[i].exempt
        BY <1>4, <1>5, <3>2
      <4>2. (k \in active' <=> k \in active) /\ (k \in tracked' <=> k \in tracked)
        BY <1>8, <3>2
      <4> QED
        BY <4>1, <4>2 DEF IInv, SlotInv
    <3> QED
      BY <3>1, <3>2
  <2>3. ASSUME NEW r \in Repo
        PROVE  r \in familyActiveRepos' <=> \E i \in Job : Admitted(i, <<r, Bucket>>)'
    <3>1. key = <<r, Bucket>> <=> Family(key) /\ r = key[1]
      BY <1>2 DEF Family
    <3>2. r \in familyActiveRepos' <=>
            r \in familyActiveRepos /\ ~ (Family(key) /\ r = key[1])
      BY <1>8
    <3>3. \A i \in Job : Admitted(i, <<r, Bucket>>)' <=> Admitted(i, <<r, Bucket>>) /\ i # j
      BY <1>4, <2>1
    <3>4. r \in familyActiveRepos <=> \E i \in Job : Admitted(i, <<r, Bucket>>)
      BY DEF IInv, SlotInv
    <3>5. Admitted(j, <<r, Bucket>>) => key = <<r, Bucket>>
      BY <1>5, <2>1
    <3> QED
      BY <1>6, <3>1, <3>2, <3>3, <3>4, <3>5
  <2> QED
    BY <2>2, <2>3 DEF SlotInv
<1>13. CountInv'
  <2>1. CASE exempt
    BY <1>8, <2>1 DEF IInv, CountInv, Of
  <2>2. CASE ~ exempt
    <3>1. /\ active' = active \ {key} /\ key \in active /\ IsFiniteSet(active')
          /\ perRepoActive' = [perRepoActive EXCEPT ![key[1]] =
                                  IF perRepoActive[key[1]] <= 1 THEN 0
                                  ELSE perRepoActive[key[1]] - 1]
      BY <1>8, <1>9, <2>2, FS_Subset DEF IInv, CountInv
    <3>2. /\ Cardinality(active) = Cardinality(active') + 1 /\ Cardinality(active') \in Nat
          /\ \A r \in Repo :
                /\ Cardinality(Of(r, active')) \in Nat
                /\ r = key[1] => Cardinality(Of(r, active)) = Cardinality(Of(r, active')) + 1
                /\ r # key[1] => Of(r, active) = Of(r, active')
      <4>1. IsFiniteSet(active') /\ key \in Key /\ key \notin active'
        BY <1>2, <3>1
      <4>2. active = active' \cup {key}
        BY <3>1
      <4> DEFINE more == active' \cup {key}
      <4>3. /\ IsFiniteSet(more)
            /\ Cardinality(more) = Cardinality(active') + 1 /\ Cardinality(active') \in Nat
            /\ \A r \in Repo :
                /\ Cardinality(Of(r, active')) \in Nat
                /\ r = key[1] => Cardinality(Of(r, more)) = Cardinality(Of(r, active')) + 1
                /\ r # key[1] => Of(r, more) = Of(r, active')
        BY <4>1, CountsOne
      <4>4. more = active
        BY <4>2
      <4> HIDE DEF more
      <4> QED
        BY <4>3, <4>4
    <3>3. Cardinality(active') <= GlobalCap
      BY <3>2, CapsAssumption DEF IInv, CountInv
    <3>4. ASSUME NEW r \in Repo
          PROVE  /\ perRepoActive'[r] = Cardinality(Of(r, active'))
                 /\ perRepoActive'[r] <= PerRepoCap[r]
      <4>1. /\ perRepoActive[r] = Cardinality(Of(r, active))
            /\ perRepoActive[r] <= PerRepoCap[r] /\ perRepoActive[r] \in Nat
            /\ PerRepoCap[r] \in Nat
        BY <1>2, CapsAssumption DEF IInv, CountInv, TypeOK
      <4>2. perRepoActive'[r] = IF r = key[1]
                                THEN IF perRepoActive[r] <= 1 THEN 0 ELSE perRepoActive[r] - 1
                                ELSE perRepoActive[r]
        BY <1>2, <3>1 DEF TypeOK
      <4>3. CASE r = key[1]
        BY <3>2, <4>1, <4>2, <4>3
      <4>4. CASE r # key[1]
        BY <3>2, <4>1, <4>2, <4>4
      <4> QED
        BY <4>3, <4>4
    <3>5. \A r \in Repo : Of(r, active)' = Of(r, active')
      BY DEF Of
    <3> QED
      BY <3>1, <3>3, <3>4, <3>5 DEF CountInv
  <2> QED
    BY <1>2, <2>1, <2>2
<1>14. ClaimInv'
  BY <1>3 DEF IInv, ClaimInv
<1>15. BarrierInv'
  BY <1>1, <1>8 DEF IInv, BarrierInv
<1> QED
  BY <1>10, <1>11, <1>12, <1>13, <1>14, <1>15 DEF IInv

-----------------------------------------------------------------------------
\* The barrier and the shutdown, which move no slot.
LEMMA BarrierStep ==
    ASSUME IInv, \/ Shutdown \/ UNCHANGED vars
                 \/ \E c \in Caller : EnterBarrier(c) \/ Quiesced(c) \/ LeaveBarrier(c)
    PROVE  IInv'
<1>1. UNCHANGED <<slots, job>>
  BY DEF Shutdown, EnterBarrier, Quiesced, LeaveBarrier, vars, slots
<1>2. Apart' /\ SlotInv' /\ CountInv'
  BY <1>1, JobsKept DEF Admitted, Claims
<1>3. ClaimInv'
  BY <1>1 DEF IInv, ClaimInv
<1>4. TypeOK
  BY DEF IInv
<1>5. TypeOK' /\ BarrierInv'
  <2>1. CASE Shutdown \/ UNCHANGED vars
    BY <1>1, <1>4, <2>1 DEF Shutdown, vars, slots, IInv, BarrierInv, TypeOK
  <2>2. ASSUME NEW c \in Caller, EnterBarrier(c) PROVE TypeOK' /\ BarrierInv'
    <3>1. PICK to \in {"waiting", "unheld"} :
            /\ barrier' = [barrier EXCEPT ![c] = to]
            /\ to = "waiting" => ~ barred /\ barred' = TRUE
            /\ to = "unheld" => barred' = barred
            /\ closed' = closed
      BY <2>2 DEF EnterBarrier
    <3>2. barrier'[c] = to /\ \A d \in Caller : d # c => barrier'[d] = barrier[d]
      BY <1>4, <3>1 DEF TypeOK
    <3>3. TypeOK'
      BY <1>1, <1>4, <3>1 DEF TypeOK, slots
    <3>4. BarrierInv'
      BY <1>1, <3>1, <3>2 DEF IInv, BarrierInv, slots
    <3> QED
      BY <3>3, <3>4
  <2>3. ASSUME NEW c \in Caller, Quiesced(c) PROVE TypeOK' /\ BarrierInv'
    BY <1>1, <1>4, <2>3 DEF Quiesced, Pending, slots, IInv, BarrierInv, TypeOK
  <2>4. ASSUME NEW c \in Caller, LeaveBarrier(c) PROVE TypeOK' /\ BarrierInv'
    BY <1>1, <1>4, <2>4 DEF LeaveBarrier, Lifted, slots, IInv, BarrierInv, TypeOK
  <2> QED
    BY <2>1, <2>2, <2>3, <2>4
<1> QED
  BY <1>2, <1>3, <1>5 DEF IInv

LEMMA InitHolds ==
    ASSUME Init
    PROVE  IInv
<1>1. TypeOK
  BY DEF Init, TypeOK
<1>2. Apart /\ ClaimInv /\ SlotInv /\ BarrierInv
  BY DEF Init, Apart, ClaimInv, SlotInv, BarrierInv, Admitted, Claims
<1>3. CountInv
  <2>1. active = {} /\ \A r \in Repo : perRepoActive[r] = 0 /\ Of(r, active) = {}
    BY DEF Init, Of
  <2> QED
    BY <2>1, FS_EmptySet, CapsAssumption DEF CountInv
<1> QED
  BY <1>1, <1>2, <1>3 DEF IInv

LEMMA StepHolds ==
    ASSUME IInv, [Next]_vars
    PROVE  IInv'
<1>1. CASE \/ Shutdown \/ UNCHANGED vars
           \/ \E c \in Caller : EnterBarrier(c) \/ Quiesced(c) \/ LeaveBarrier(c)
  BY <1>1, BarrierStep
<1>2. ASSUME NEW j \in Job, Begin(j) \/ Return(j) PROVE IInv'
  BY <1>2, CourseStep
<1>3. ASSUME NEW j \in Job, NEW n \in Number, TrackActive(j, n) PROVE IInv'
  BY <1>3, TrackStep
<1>4. ASSUME NEW j \in Job, Untrack(j) PROVE IInv'
  BY <1>4, UntrackStep
<1>5. ASSUME NEW j \in Job, NEW key \in Key, NEW exempt \in BOOLEAN, Submit(j, key, exempt)
      PROVE  IInv'
  BY <1>5, SubmitStep
<1>6. ASSUME NEW j \in Job, OnWorkerDone(j) PROVE IInv'
  BY <1>6, DoneStep
<1> QED
  BY <1>1, <1>2, <1>3, <1>4, <1>5, <1>6 DEF Next, Work

LEMMA Inductive == Spec => []IInv
<1>1. Init => IInv
  BY InitHolds
<1>2. IInv /\ [Next]_vars => IInv'
  BY StepHolds
<1> QED
  BY <1>1, <1>2, PTL DEF Spec

-----------------------------------------------------------------------------
\* The counts, the slots and the jobs stay of their kinds.
THEOREM TypeCorrect == Spec => []TypeOK
<1>1. IInv => TypeOK
  BY DEF IInv
<1> QED
  BY <1>1, Inductive, PTL

LEMMA InFlightTyped ==
    ASSUME IInv, NEW j \in InFlight
    PROVE  /\ j \in Job /\ job[j] # None
           /\ job[j].key \in Key /\ job[j].key[1] \in Repo
           /\ job[j].exempt \in BOOLEAN /\ Admitted(j, job[j].key)
           /\ job[j].claim # None => <<job[j].key[1], job[j].claim>> \in Key
BY JobTyped DEF IInv, InFlight, Admitted

\* Two of an issue's workers are one, whether it was submitted for itself or its
\* repository's drain has claimed it (`_skip_reason_locked`, `_claimable_locked`).
THEOREM OneWorkerAlways == Spec => []OneWorkerPerIssue
<1>1. ASSUME IInv, NEW key \in Key
      PROVE  Cardinality(WorkingOn(key)) <= 1
  <2>1. ASSUME NEW i \in WorkingOn(key)
        PROVE  i \in Job /\ (Admitted(i, key) \/ Claims(i, key))
    BY <2>1 DEF WorkingOn, Running, InFlight, Admitted, Claims
  <2>2. \A i, j \in WorkingOn(key) : i = j
    BY <1>1, <2>1 DEF IInv, Apart
  <2>3. CASE WorkingOn(key) = {}
    BY <2>3, FS_EmptySet
  <2>4. CASE WorkingOn(key) # {}
    <3>1. PICK i : WorkingOn(key) = {i}
      BY <2>2, <2>4
    <3> QED
      BY <3>1, FS_Singleton
  <2> QED
    BY <2>3, <2>4
<1>2. IInv => OneWorkerPerIssue
  BY <1>1 DEF OneWorkerPerIssue
<1> QED
  BY <1>2, Inductive, PTL

\* The sets and counts, taken one member at a time, are the sets and counts.
LEMMA SlotsFollow ==
    ASSUME IInv
    PROVE  SlotsMatchJobs
<1>1. active \subseteq Key /\ tracked \subseteq Key /\ familyActiveRepos \subseteq Repo
  BY DEF IInv, TypeOK
<1>2. ASSUME NEW k
      PROVE  /\ k \in active <=> \E j \in InFlight : ~job[j].exempt /\ k = job[j].key
             /\ k \in tracked <=>
                    \E j \in InFlight :
                        \/ job[j].exempt /\ k = job[j].key
                        \/ job[j].claim # None /\ k = <<job[j].key[1], job[j].claim>>
  <2>1. CASE k \in Key
    BY <2>1, InFlightTyped DEF IInv, SlotInv, Admitted, Claims, InFlight
  <2>2. CASE k \notin Key
    BY <1>1, <2>2, InFlightTyped
  <2> QED
    BY <2>1, <2>2
<1>3. ASSUME NEW r
      PROVE  r \in familyActiveRepos <=>
                \E j \in InFlight : Family(job[j].key) /\ r = job[j].key[1]
  <2>1. CASE r \in Repo
    <3>1. r \in familyActiveRepos <=> \E j \in Job : Admitted(j, <<r, Bucket>>)
      BY <2>1 DEF IInv, SlotInv
    <3>2. ASSUME NEW j \in InFlight
          PROVE  Admitted(j, <<r, Bucket>>) <=> Family(job[j].key) /\ r = job[j].key[1]
      <4>1. job[j].key = <<job[j].key[1], job[j].key[2]>>
        BY InFlightTyped, JobTyped DEF IInv
      <4> QED
        BY <4>1 DEF InFlight, Family, Admitted
    <3>3. \A j \in Job : Admitted(j, <<r, Bucket>>) => j \in InFlight
      BY DEF InFlight, Admitted
    <3>4. \A j \in InFlight : j \in Job
      BY DEF InFlight
    <3> QED
      BY <3>1, <3>2, <3>3, <3>4
  <2>2. CASE r \notin Repo
    BY <1>1, <2>2, InFlightTyped
  <2> QED
    BY <2>1, <2>2
<1>4. active = {job[j].key : j \in {i \in InFlight : ~job[i].exempt}}
  BY <1>2
<1>5. tracked = {job[j].key : j \in {i \in InFlight : job[i].exempt}}
            \cup {<<job[j].key[1], job[j].claim>> :
                    j \in {i \in InFlight : job[i].claim # None}}
  BY <1>2
<1>6. familyActiveRepos = {job[j].key[1] : j \in {i \in InFlight : Family(job[i].key)}}
  BY <1>3
<1>7. \A r \in Repo : perRepoActive[r] = Cardinality({k \in active : k[1] = r})
  BY DEF IInv, CountInv, Of
<1> QED
  BY <1>4, <1>5, <1>6, <1>7 DEF SlotsMatchJobs

\* No slot, claim or count outlives its work or ends before it, for either kind of
\* worker (`_reserve_slot_locked`, `_release_slot_locked`, `track_active`).
THEOREM SlotsAlwaysMatch == Spec => []SlotsMatchJobs
<1>1. IInv => SlotsMatchJobs
  BY SlotsFollow
<1> QED
  BY <1>1, Inductive, PTL

\* The counted jobs are no more than the active keys: each has one of its own.
LEMMA CapsFollow ==
    ASSUME IInv
    PROVE  CapsHold
<1> DEFINE counted == {j \in InFlight : ~job[j].exempt}
<1>1. ASSUME NEW jobs, jobs \subseteq counted, NEW keys, keys \subseteq active,
             \A j \in jobs : job[j].key \in keys
      PROVE  Cardinality(jobs) \in Nat /\ Cardinality(keys) \in Nat
             /\ Cardinality(jobs) <= Cardinality(keys)
  <2> DEFINE f == [j \in jobs |-> job[j].key]
  <2>1. ASSUME NEW i \in jobs, NEW j \in jobs, f[i] = f[j] PROVE i = j
    <3>1. Admitted(i, job[i].key) /\ Admitted(j, job[i].key) /\ job[i].key \in Key
          /\ i \in Job /\ j \in Job
      BY <1>1, <2>1, InFlightTyped
    <3> QED
      BY <3>1 DEF IInv, Apart
  <2>2. f \in [jobs -> keys] /\ DOMAIN f = jobs
    BY <1>1
  <2> HIDE DEF f
  <2>3. f \in Injection(jobs, keys)
    BY <2>1, <2>2 DEF Injection, IsInjective
  <2>4. IsFiniteSet(keys)
    BY <1>1, FS_Subset DEF IInv, CountInv
  <2> QED
    BY <2>3, <2>4, FS_Injection, FS_CardinalityType
<1>2. \A j \in counted : job[j].key \in active /\ j \in InFlight
  BY InFlightTyped DEF IInv, SlotInv
<1> HIDE DEF counted
<1>3. Cardinality(counted) <= GlobalCap
  <2>1. /\ Cardinality(counted) \in Nat /\ Cardinality(active) \in Nat
        /\ Cardinality(counted) <= Cardinality(active)
    BY <1>1, <1>2
  <2> QED
    BY <2>1, CapsAssumption DEF IInv, CountInv
<1>4. ASSUME NEW r \in Repo
      PROVE  Cardinality({j \in counted : job[j].key[1] = r}) <= PerRepoCap[r]
  <2> DEFINE here == {j \in counted : job[j].key[1] = r}
  <2>1. here \subseteq counted /\ Of(r, active) \subseteq active
        /\ \A j \in here : job[j].key \in Of(r, active)
    BY <1>2 DEF Of
  <2> HIDE DEF here
  <2>2. /\ Cardinality(here) \in Nat /\ Cardinality(Of(r, active)) \in Nat
        /\ Cardinality(here) <= Cardinality(Of(r, active))
    BY <1>1, <2>1
  <2>3. /\ Cardinality(Of(r, active)) <= PerRepoCap[r] /\ PerRepoCap[r] \in Nat
    BY CapsAssumption DEF IInv, CountInv
  <2>4. Cardinality(here) <= PerRepoCap[r]
    BY <2>2, <2>3
  <2> QED
    BY <2>4 DEF here
<1> QED
  BY <1>3, <1>4 DEF CapsHold, counted

\* The counted jobs in flight are within the caps, in all and in each repository,
\* however submissions, drains and releases follow each other.
THEOREM CapsAlways == Spec => []CapsHold
<1>1. IInv => CapsHold
  BY CapsFollow
<1> QED
  BY <1>1, Inductive, PTL

\* What a caller of the barrier was told stays true until it leaves, whoever else
\* asks for the barrier, claims an issue or shuts the scheduler down
\* (`maintenance_barrier`, `_quiesced`).
THEOREM QuietAlways == Spec => []QuietStaysQuiet
<1>1. ASSUME IInv, NEW c \in Caller, barrier[c] = "quiet"
      PROVE  InFlight = {} /\ barred
  <2>1. barred /\ active = {} /\ tracked = {}
    BY <1>1 DEF IInv, BarrierInv
  <2>2. ASSUME NEW j \in InFlight PROVE FALSE
    <3>1. /\ job[j].key \in Key /\ Admitted(j, job[j].key) /\ j \in Job
          /\ job[j].key \notin active /\ job[j].key \notin tracked
      BY <1>1, <2>1, InFlightTyped
    <3> QED
      BY <1>1, <3>1, UnheldKey DEF IInv
  <2> QED
    BY <2>1, <2>2
<1>2. IInv => QuietStaysQuiet
  BY <1>1 DEF QuietStaysQuiet
<1> QED
  BY <1>2, Inductive, PTL

-----------------------------------------------------------------------------
(***************************************************************************)
(* The refinement: what is admitted is what has a slot or a claim, and it  *)
(* is quiet while some caller of the barrier was answered so.              *)
(***************************************************************************)
Held == active \cup tracked
IsQuiet == \E c \in Caller : barrier[c] = "quiet"

LEMMA KeyKept ==
    ASSUME NEW k \in Key, Held' = Held \ {k}, k \in Held,
           UNCHANGED <<barred, barrier, closed>>
    PROVE  Admission!Release(k)
BY DEF Admission!Release, Held

\* A step that leaves what is held, the barrier and the close alone.
LEMMA NoneOfIt ==
    ASSUME UNCHANGED <<active, tracked, barred, barrier, closed>>
    PROVE  UNCHANGED Admission!vars
BY DEF Admission!vars

\* A key is in one of the two sets, whichever its job's kind, so that leaving
\* that one leaves both.
LEMMA ReleaseImplements ==
    ASSUME IInv, NEW j \in Job, OnWorkerDone(j) \/ Untrack(j)
    PROVE  Admission!Next
<1>1. TypeOK /\ Apart /\ ClaimInv /\ SlotInv
  BY DEF IInv
<1>2. job[j] # None
  BY DEF OnWorkerDone, Untrack, Running, InFlight
<1>3. /\ job[j].key \in Key /\ job[j].exempt \in BOOLEAN
      /\ job[j].claim # None => <<job[j].key[1], job[j].claim>> \in Key
  BY <1>1, <1>2, JobTyped
<1>4. UNCHANGED <<barred, barrier, closed>>
  BY DEF OnWorkerDone, Untrack
<1>5. CASE Untrack(j)
  <2> DEFINE n == <<job[j].key[1], job[j].claim>>
  <2>1. job[j].claim # None /\ tracked' = tracked \ {n} /\ active' = active
    BY <1>5 DEF Untrack
  <2>2. n \in Key /\ Claims(j, n)
    BY <1>2, <1>3, <2>1 DEF Claims
  <2>3. n \in tracked
    BY <1>1, <2>2 DEF SlotInv
  <2>4. n \notin active
    <3>1. ASSUME NEW i \in Job, Admitted(i, n) PROVE FALSE
      <4>1. i = j
        BY <1>1, <2>2, <3>1 DEF Apart
      <4>2. job[j].key[2] = job[j].claim
        BY <3>1, <4>1 DEF Admitted
      <4>3. job[j].key[2] = Bucket
        BY <1>1, <1>2, <2>1 DEF ClaimInv, Family
      <4>4. job[j].claim \in Number
        BY <1>1, <1>2, <2>1, JobTyped
      <4> QED
        BY <4>2, <4>3, <4>4, CapsAssumption
    <3> QED
      BY <1>1, <2>2, <3>1 DEF SlotInv
  <2>5. Held' = Held \ {n} /\ n \in Held
    BY <2>1, <2>3, <2>4 DEF Held
  <2> HIDE DEF n
  <2> QED
    BY <1>4, <2>2, <2>5, KeyKept DEF Admission!Next
<1>6. CASE OnWorkerDone(j)
  <2> DEFINE n == job[j].key
  <2>1. ReleaseSlot(n, job[j].exempt) /\ job[j].at = "returned"
    BY <1>6 DEF OnWorkerDone
  <2>2. n \in Key /\ Admitted(j, n)
    BY <1>2, <1>3 DEF Admitted
  <2>3. job[j].claim = None
    BY <1>1, <1>2, <2>1 DEF ClaimInv
  <2>4. \A i \in Job : Admitted(i, n) \/ Claims(i, n) => i = j
    BY <1>1, <2>2 DEF Apart
  <2>5. ~ Claims(j, n)
    BY <2>3 DEF Claims
  <2>6. CASE job[j].exempt
    <3>1. n \in tracked /\ n \notin active
      BY <1>1, <2>2, <2>4, <2>6 DEF SlotInv
    <3>2. tracked' = tracked \ {n} /\ active' = active
      BY <2>1, <2>6 DEF ReleaseSlot
    <3> QED
      BY <1>4, <2>2, <3>1, <3>2, KeyKept DEF Held, Admission!Next
  <2>7. CASE ~ job[j].exempt
    <3>1. n \in active /\ n \notin tracked
      BY <1>1, <2>2, <2>4, <2>5, <2>7 DEF SlotInv
    <3>2. active' = active \ {n} /\ tracked' = tracked
      BY <2>1, <2>7 DEF ReleaseSlot
    <3> QED
      BY <1>4, <2>2, <3>1, <3>2, KeyKept DEF Held, Admission!Next
  <2> QED
    BY <2>6, <2>7
<1> QED
  BY <1>5, <1>6

\* What is admitted is new, and behind a close it is a drain's that has its slot.
LEMMA AdmitImplements ==
    ASSUME IInv, NEW j \in Job,
           \/ \E key \in Key, exempt \in BOOLEAN : Submit(j, key, exempt)
           \/ \E n \in Number : TrackActive(j, n)
    PROVE  Admission!Next
<1>1. ASSUME NEW key \in Key, NEW exempt \in BOOLEAN, Submit(j, key, exempt)
      PROVE  Admission!Next
  <2>1. ~ closed /\ ~ barred /\ key \notin Held
    BY <1>1 DEF Submit, Admissible, Held
  <2>2. Held' = Held \cup {key}
    BY <1>1 DEF Submit, ReserveSlot, Held
  <2>3. UNCHANGED <<barred, barrier, closed>>
    BY <1>1 DEF Submit
  <2>4. Admission!Admit(key)
    BY <2>1, <2>2, <2>3 DEF Admission!Admit, Held
  <2> QED
    BY <2>4 DEF Admission!Next
<1>2. ASSUME NEW n \in Number, TrackActive(j, n) PROVE Admission!Next
  <2> DEFINE k == <<job[j].key[1], n>>
  <2>1. /\ ~ barred /\ k \notin active /\ k \notin tracked
        /\ tracked' = tracked \cup {k} /\ active' = active
        /\ UNCHANGED <<barred, barrier, closed>>
        /\ job[j] # None
    BY <1>2 DEF TrackActive, Claimable, Running, InFlight
  <2>2. job[j].key \in Key /\ job[j].key[1] \in Repo /\ job[j].exempt \in BOOLEAN
    BY <2>1, JobTyped DEF IInv
  <2>3. k \in Key
    BY <2>2 DEF Key
  <2>4. Held # {}
    <3>1. Admitted(j, job[j].key)
      BY <2>1 DEF Admitted
    <3>2. job[j].key \in Held
      BY <2>2, <3>1 DEF IInv, SlotInv, Held
    <3> QED
      BY <3>2
  <2> HIDE DEF k
  <2>5. Admission!Admit(k)
    BY <2>1, <2>4 DEF Admission!Admit, Held
  <2> QED
    BY <2>3, <2>5 DEF Admission!Next
<1> QED
  BY <1>1, <1>2

\* The hold of the barrier is one caller's, so no other is answered quiet.
LEMMA BarrierImplements ==
    ASSUME IInv, NEW c \in Caller, EnterBarrier(c) \/ Quiesced(c) \/ LeaveBarrier(c)
    PROVE  [Admission!Next]_(Admission!vars)
<1>1. BarrierInv /\ barrier \in [Caller -> {"out", "unheld", "waiting", "quiet", "busy"}]
      /\ barred \in BOOLEAN /\ closed \in BOOLEAN
  BY DEF IInv, TypeOK
<1>2. UNCHANGED <<active, tracked, closed>>
  BY DEF EnterBarrier, Quiesced, LeaveBarrier, slots
<1>3. PICK to \in {"out", "unheld", "waiting", "quiet", "busy"} :
          barrier' = [barrier EXCEPT ![c] = to]
  BY DEF EnterBarrier, Quiesced, LeaveBarrier
<1>4. ASSUME barrier[c] # "quiet", barrier'[c] # "quiet" PROVE IsQuiet' = IsQuiet
  <2>1. \A d \in Caller : barrier'[d] = "quiet" <=> barrier[d] = "quiet"
    BY <1>1, <1>3, <1>4
  <2> QED
    BY <2>1 DEF IsQuiet
<1>5. CASE EnterBarrier(c)
  <2>1. IsQuiet' = IsQuiet
    BY <1>1, <1>4, <1>5 DEF EnterBarrier
  <2>2. (~ closed /\ ~ barred /\ barred' = TRUE) \/ barred' = barred
    BY <1>5 DEF EnterBarrier
  <2>3. CASE ~ closed /\ ~ barred /\ barred' = TRUE
    BY <1>2, <2>1, <2>3 DEF Admission!Next, Admission!Bar, IsQuiet
  <2>4. CASE barred' = barred
    BY <1>2, <2>1, <2>4 DEF Admission!vars, IsQuiet
  <2> QED
    BY <2>2, <2>3, <2>4
<1>6. CASE Quiesced(c)
  <2>1. barrier[c] = "waiting" /\ barred /\ barred' = barred
    BY <1>1, <1>6 DEF Quiesced, BarrierInv
  <2>2. CASE ~ Pending /\ ~ closed
    <3>1. barrier'[c] = "quiet" /\ active \cup tracked = {}
      BY <1>1, <1>6, <2>2 DEF Quiesced, Pending
    <3>2. IsQuiet' = TRUE
      BY <3>1 DEF IsQuiet
    <3> QED
      BY <1>2, <2>1, <2>2, <3>1, <3>2 DEF Admission!Next, Admission!AnswerQuiet, IsQuiet
  <2>3. CASE ~ (~ Pending /\ ~ closed)
    <3>1. barrier'[c] = "busy"
      BY <1>1, <1>6, <2>3 DEF Quiesced
    <3>2. IsQuiet' = IsQuiet
      BY <1>4, <2>1, <3>1
    <3> QED
      BY <1>2, <2>1, <3>2 DEF Admission!vars, IsQuiet
  <2> QED
    BY <2>2, <2>3
<1>7. CASE LeaveBarrier(c)
  <2>1. barrier'[c] = "out" /\ \A d \in Caller : d # c => barrier'[d] = barrier[d]
    BY <1>1, <1>7 DEF LeaveBarrier
  <2>2. CASE barrier[c] = "unheld"
    <3>1. barred' = barred /\ IsQuiet' = IsQuiet
      BY <1>4, <1>7, <2>1, <2>2 DEF LeaveBarrier, Lifted
    <3> QED
      BY <1>2, <3>1 DEF Admission!vars, IsQuiet
  <2>3. CASE barrier[c] \in {"quiet", "busy"}
    <3>1. barred = TRUE /\ barred' = FALSE
      BY <1>1, <1>7, <2>3 DEF LeaveBarrier, Lifted, BarrierInv
    <3>2. \A d \in Caller : d # c => barrier[d] # "quiet"
      BY <1>1, <2>3 DEF BarrierInv
    <3>3. IsQuiet' = FALSE
      BY <2>1, <3>2 DEF IsQuiet
    <3> QED
      BY <1>2, <3>1, <3>3 DEF Admission!Next, Admission!Lift, IsQuiet
  <2> QED
    BY <1>7, <2>2, <2>3 DEF LeaveBarrier
<1> QED
  BY <1>5, <1>6, <1>7

LEMMA AdmissionInit == Init => Admission!Init
BY DEF Init, Admission!Init

LEMMA AdmissionStep == IInv /\ [Next]_vars => [Admission!Next]_(Admission!vars)
<1> SUFFICES ASSUME IInv, [Next]_vars PROVE [Admission!Next]_(Admission!vars)
  OBVIOUS
<1>1. CASE Shutdown
  BY <1>1 DEF Shutdown, slots, Admission!Next, Admission!Close
<1>2. ASSUME NEW j \in Job, Begin(j) \/ Return(j)
      PROVE  [Admission!Next]_(Admission!vars)
  BY <1>2, NoneOfIt DEF Begin, Return, slots
<1>3. CASE UNCHANGED vars
  BY <1>3, NoneOfIt DEF vars
<1> QED
  BY <1>1, <1>2, <1>3, ReleaseImplements, AdmitImplements, BarrierImplements DEF Next, Work

\* A scheduler of any caps, any number of submissions in flight and any callers of
\* its barrier is the admission the maintenance pass counts on: quiet is answered
\* with nothing admitted, nothing is admitted behind it, and only its own hold is
\* lifted (`maintenance_barrier`, `track_active`, `submit`).
THEOREM AdmissionImplemented == Spec => ImplementsAdmission
BY Inductive, AdmissionInit, AdmissionStep, PTL DEF Spec, ImplementsAdmission, Admission!Spec
=============================================================================
