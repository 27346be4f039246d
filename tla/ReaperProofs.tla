----------------------------- MODULE ReaperProofs -----------------------------
(* Theorems about Reaper, for every value of its constants. *)
EXTENDS Reaper, WellFoundedInduction, TLAPS

-------------------------------------------------------------------------------
(* Type correctness.                                                       *)

HoldsOK == /\ DOMAIN holds \subseteq Ids
           /\ \A i \in DOMAIN holds : holds[i] \in Expiries

PlacingOK == /\ DOMAIN placing \subseteq Ids
             /\ \A i \in DOMAIN placing :
                   placing[i] \in [expires_at : Expiries,
                                   at : {"locked", "lowered", "bumped"}]

ScanOK == scan \in [at : {"waiting", "due", "scanning", "storing", "expiring"},
                    time : 0 .. MaxNow, gen_before : Nat,
                    todo : SUBSET Resources, expired : SUBSET Ids,
                    next_earliest : 0 .. Never, had_locked : BOOLEAN,
                    unseen : SUBSET Ids]

\* Every variable has its type: expiries are times of the clock, and the
\* watermark is a time, i64::MIN or i64::MAX.
TypeOK == /\ now \in 0 .. MaxNow
          /\ HoldsOK /\ PlacingOK /\ ScanOK
          /\ watermark \in Unknown .. Never
          /\ generation \in Nat

\* A set of naturals has a least element, which is what next_earliest takes.
LEMMA LeastIsLeast ==
    ASSUME NEW S, S \subseteq Nat, S # {}
    PROVE  Least(S) \in S /\ \A y \in S : Least(S) <= y
  <1> DEFINE R == {ss \in Nat \X Nat : ss[1] < ss[2]}
  <1>1. OpToRel(<, Nat) = R
    BY Zenon DEF OpToRel
  <1>2. IsWellFoundedOn(R, Nat)
    BY <1>1, NatLessThanWellFounded, Zenon
  <1>3. \E x \in S : \A y \in S : ~ (<<y, x>> \in R)
    <2> HIDE DEF R
    <2> QED BY <1>2, WFMin
  <1>4. PICK x \in S : \A y \in S : ~ (<<y, x>> \in R)
    BY <1>3
  <1>5. ASSUME NEW y \in S PROVE x <= y
    <2>1. x \in Nat /\ y \in Nat /\ ~ (<<y, x>> \in R)
      BY <1>4, <1>5
    <2>2. ~ (y < x)
      BY <2>1
    <2> QED BY <2>1, <2>2
  <1> QED BY <1>5 DEF Least

\* What one read of a resource leaves in the scan: its due holds on the list,
\* and a bound that no other hold of the resource undercuts.
LEMMA ScanStep ==
    ASSUME TypeOK, NEW r \in Resources, ScanResource(r)
    PROVE  /\ ScanOK'
           /\ scan'.at = scan.at /\ scan'.time = scan.time
           /\ scan'.gen_before = scan.gen_before
           /\ scan'.todo = scan.todo \ {r}
           /\ scan'.unseen = scan.unseen
           /\ scan.expired \subseteq scan'.expired
           /\ scan'.next_earliest <= scan.next_earliest
           /\ scan.had_locked => scan'.had_locked
           /\ Locked(r) => scan'.had_locked
           /\ ~Locked(r) =>
                \A i \in DOMAIN holds : Home[i] = r =>
                   i \in scan'.expired \/ scan'.next_earliest <= holds[i]
  <1> USE ReaperAssumption DEF TypeOK, HoldsOK, ScanOK, Never
  <1>1. CASE Locked(r)
    <2>1. scan' = [scan EXCEPT !.todo = @ \ {r}, !.had_locked = TRUE]
      BY <1>1 DEF ScanResource
    <2>2. ScanOK'
      BY <2>1
    <2>3. /\ scan'.at = scan.at /\ scan'.time = scan.time
          /\ scan'.gen_before = scan.gen_before /\ scan'.unseen = scan.unseen
          /\ scan'.todo = scan.todo \ {r} /\ scan'.expired = scan.expired
          /\ scan'.next_earliest = scan.next_earliest /\ scan'.had_locked
      BY <2>1
    <2> QED BY <1>1, <2>2, <2>3
  <1>2. CASE ~Locked(r)
    <2> DEFINE here == {i \in DOMAIN holds : Home[i] = r}
               gone == {i \in here : holds[i] <= scan.time}
               E == {scan.next_earliest} \cup {holds[i] : i \in here \ gone}
    <2>1. scan' = [scan EXCEPT !.todo = @ \ {r}, !.expired = @ \cup gone,
                               !.next_earliest = Least(E)]
      BY <1>2 DEF ScanResource
    <2>2. E \subseteq 0 .. Never /\ scan.next_earliest \in E
      <3>1. scan.next_earliest \in 0 .. Never /\ 0 .. MaxNow \subseteq 0 .. Never
        OBVIOUS
      <3>2. \A i \in here : holds[i] \in 0 .. Never
        BY <3>1
      <3> QED BY <3>1, <3>2
    <2>3. Least(E) \in E /\ \A y \in E : Least(E) <= y
      <3> HIDE DEF E
      <3>1. E \subseteq Nat /\ E # {}
        BY <2>2
      <3> QED BY ONLY <3>1, LeastIsLeast
    <2>4. Least(E) \in 0 .. Never /\ Least(E) <= scan.next_earliest
      BY <2>2, <2>3
    <2>5. \A i \in here \ gone : Least(E) <= holds[i]
      BY <2>3
    <2>6. gone \subseteq Ids
      OBVIOUS
    <2> HIDE DEF E
    <2>7. ScanOK'
      BY <2>1, <2>4, <2>6
    <2>8. ASSUME NEW i \in DOMAIN holds, Home[i] = r
          PROVE  i \in scan'.expired \/ scan'.next_earliest <= holds[i]
      <3>1. CASE i \in gone
        BY <3>1, <2>1
      <3>2. CASE i \notin gone
        BY <3>2, <2>1, <2>5, <2>8
      <3> QED BY <3>1, <3>2
    <2> HIDE DEF gone
    <2> QED BY <1>2, <2>1, <2>4, <2>7, <2>8
  <1> QED BY <1>1, <1>2
\* TypeOK is inductive: one step per action of Next.
LEMMA TypeStep == TypeOK /\ [Next]_vars => TypeOK'
  <1> SUFFICES ASSUME TypeOK, [Next]_vars PROVE TypeOK'
    OBVIOUS
  <1> USE ReaperAssumption DEF TypeOK, HoldsOK, PlacingOK, Never, Unknown
  <1>1. ASSUME NEW i \in Ids, NEW e \in Expiries, BeginPlace(i, e) PROVE TypeOK'
    BY <1>1 DEF BeginPlace, Put, ScanOK
  <1>2. ASSUME NEW i \in Ids, LowerWatermark(i) PROVE TypeOK'
    <2>1. PlacingOK' /\ ScanOK'
      BY <1>2 DEF LowerWatermark, ScanOK
    <2>2. placing[i].expires_at \in 0 .. MaxNow
      BY <1>2 DEF LowerWatermark
    <2>3. watermark' \in Unknown .. Never
      BY <1>2, <2>2 DEF LowerWatermark
    <2> QED BY <1>2, <2>1, <2>3 DEF LowerWatermark
  <1>3. ASSUME NEW i \in Ids, BumpGeneration(i) PROVE TypeOK'
    BY <1>3 DEF BumpGeneration, ScanOK
  <1>4. ASSUME NEW i \in Ids, ApplyHold(i) PROVE TypeOK'
    BY <1>4 DEF ApplyHold, Put, Drop, ScanOK
  <1>5. ASSUME NEW i \in Ids, EndHold(i) PROVE TypeOK'
    BY <1>5 DEF EndHold, Drop, ScanOK
  <1>6. CASE StartCycle
    BY <1>6 DEF StartCycle, Scan, ScanOK
  <1>7. CASE LoadGeneration
    BY <1>7 DEF LoadGeneration, ScanOK
  <1>8. ASSUME NEW r \in Resources, ScanResource(r) PROVE TypeOK'
    <2>1. ScanOK'
      BY <1>8, ScanStep
    <2> QED BY <1>8, <2>1 DEF ScanResource
  <1>9. CASE CheckGeneration
    BY <1>9 DEF CheckGeneration, ScanOK
  <1>10. CASE StoreWatermark
    BY <1>10 DEF StoreWatermark, NextWatermark, ScanOK
  <1>11. ASSUME NEW i \in Ids, ExpireHold(i) PROVE TypeOK'
    BY <1>11 DEF ExpireHold, Drop, ScanOK
  <1>12. CASE EndCycle
    BY <1>12 DEF EndCycle, Waiting, Scan, ScanOK
  <1>13. CASE Tick
    BY <1>13 DEF Tick, ScanOK
  <1>14. CASE UNCHANGED vars
    BY <1>14 DEF vars, ScanOK
  <1> QED BY <1>1, <1>2, <1>3, <1>4, <1>5, <1>6, <1>7, <1>8, <1>9, <1>10,
             <1>11, <1>12, <1>13, <1>14 DEF Next, PlaceStep, ReaperStep

\* The variables keep their types through every placement, scan and reap.
THEOREM TypeCorrect == Spec => []TypeOK
  <1>1. Init => TypeOK
    BY ReaperAssumption DEF Init, TypeOK, HoldsOK, PlacingOK, ScanOK, Waiting, Scan,
       Unknown, Never
  <1> QED BY <1>1, TypeStep, PTL DEF Spec

-------------------------------------------------------------------------------
(* The inductive invariant.                                                *)

\* Placements whose watch_hold_expiry has begun: lowered, perhaps bumped.
Announced == {i \in DOMAIN placing : placing[i].at # "locked"}

\* A placement in flight is not on the list yet, and a scan that waits or has
\* only just begun has gathered nothing.
Shape == /\ DOMAIN placing \cap DOMAIN holds = {}
         /\ scan.at = "waiting" => scan.expired = {}
         /\ scan.at = "due" => scan.todo = Resources
         /\ scan.at = "scanning" => scan.gen_before <= generation

\* The watermark is below expiry e of i, or the reaper has i on its list, or a
\* scan overwrote the watermark of i: for holds and for announced placements.
Seen(i, e) == i \in overtaken \/ watermark <= e \/ i \in scan.expired
NoneMissed == /\ \A i \in DOMAIN holds : Seen(i, holds[i])
              /\ \A i \in Announced : Seen(i, placing[i].expires_at)

\* What a running scan would store covers i: it found a guard taken, or took
\* account of i.
Gathered(i, e) == scan.had_locked \/ scan.next_earliest <= e \/ i \in scan.expired

\* While a scan reads the resources: it has yet to read the one of i, or has
\* gathered i, or i came since and the generation gives that away.
Pending(i, e) == Home[i] \in scan.todo \/ Gathered(i, e) \/ generation # scan.gen_before
ScanningCovers ==
    scan.at = "scanning" =>
        /\ \A i \in DOMAIN holds : Pending(i, holds[i])
        /\ \A i \in DOMAIN placing :
              placing[i].at = "bumped" => Pending(i, placing[i].expires_at)

\* Between the second load of the generation and the store: gathered, or
\* among those whose watermark the store is about to overwrite.
StoringCovers ==
    scan.at = "storing" =>
        /\ \A i \in DOMAIN holds : Gathered(i, holds[i]) \/ i \in scan.unseen
        /\ \A i \in Announced :
              Gathered(i, placing[i].expires_at) \/ i \in scan.unseen

WatchInv == TypeOK /\ Shape /\ NoneMissed /\ ScanningCovers /\ StoringCovers

\* WatchInv is inductive: one step per action of Next.
LEMMA WatchStep == WatchInv /\ [Next]_vars => WatchInv'
  <1> SUFFICES ASSUME WatchInv, [Next]_vars PROVE WatchInv'
    OBVIOUS
  <1>0. TypeOK' /\ TypeOK /\ Shape /\ NoneMissed /\ ScanningCovers /\ StoringCovers
    BY TypeStep DEF WatchInv
  <1>a. /\ MaxNow \in Nat /\ Home \in [Ids -> Resources]
        /\ DOMAIN holds \subseteq Ids /\ DOMAIN placing \subseteq Ids
        /\ \A i \in DOMAIN holds : holds[i] \in 0 .. MaxNow
        /\ \A i \in DOMAIN placing :
              placing[i] \in [expires_at : 0 .. MaxNow, at : {"locked", "lowered", "bumped"}]
        /\ watermark \in Unknown .. Never /\ generation \in Nat
        /\ ScanOK
    BY <1>0, ReaperAssumption DEF TypeOK, HoldsOK, PlacingOK
  <1> USE DEF Shape, NoneMissed, ScanningCovers, StoringCovers, Seen, Gathered,
              Pending, Announced
  <1>1. ASSUME NEW i \in Ids, NEW e \in Expiries, BeginPlace(i, e) PROVE WatchInv'
    BY <1>0, <1>1 DEF WatchInv, BeginPlace, Put
  <1>2. ASSUME NEW i \in Ids, LowerWatermark(i) PROVE WatchInv'
    <2>1. /\ watermark' <= placing[i].expires_at /\ watermark' <= watermark
          /\ i \in DOMAIN placing
          /\ placing' = [placing EXCEPT ![i].at = "lowered"]
          /\ UNCHANGED <<holds, generation, overtaken>>
      BY <1>a, <1>2 DEF LowerWatermark, Unknown, Never
    <2>2. /\ scan'.at = scan.at /\ scan'.expired = scan.expired /\ scan'.todo = scan.todo
          /\ scan'.gen_before = scan.gen_before /\ scan'.had_locked = scan.had_locked
          /\ scan'.next_earliest = scan.next_earliest
          /\ scan.unseen \subseteq scan'.unseen
          /\ scan.at = "storing" => i \in scan'.unseen
      BY <1>a, <1>2 DEF LowerWatermark, ScanOK
    <2>3. NoneMissed'
      <3>1. ASSUME NEW j \in DOMAIN holds' PROVE Seen(j, holds[j])'
        <4>1. j \in DOMAIN holds /\ Seen(j, holds[j]) /\ holds[j] \in 0 .. MaxNow
          BY <1>0, <1>a, <2>1, <3>1
        <4> QED BY <1>0, <1>a, <2>1, <2>2, <4>1 DEF TypeOK, Unknown, Never
      <3>2. ASSUME NEW j \in Announced' PROVE Seen(j, placing[j].expires_at)'
        <4>1. /\ j \in DOMAIN placing /\ placing[j].expires_at \in 0 .. MaxNow
              /\ placing'[j].expires_at = placing[j].expires_at
              /\ j # i => j \in Announced
          BY <1>a, <2>1, <3>2
        <4>2. CASE j = i
          BY <2>1, <4>1, <4>2
        <4>3. CASE j # i
          BY <1>0, <1>a, <2>1, <2>2, <4>1, <4>3 DEF TypeOK, Unknown, Never
        <4> QED BY <4>2, <4>3
      <3> QED BY <3>1, <3>2
    <2> QED BY <1>0, <1>a, <2>1, <2>2, <2>3 DEF WatchInv
  <1>3. ASSUME NEW i \in Ids, BumpGeneration(i) PROVE WatchInv'
    <2>1. ScanningCovers'
      BY <1>0, <1>a, <1>3 DEF BumpGeneration, ScanOK
    <2>2. Shape'
      BY <1>0, <1>a, <1>3 DEF BumpGeneration, ScanOK
    <2> QED BY <1>0, <1>a, <1>3, <2>1, <2>2 DEF WatchInv, BumpGeneration
  <1>4. ASSUME NEW i \in Ids, ApplyHold(i) PROVE WatchInv'
    BY <1>0, <1>a, <1>4 DEF WatchInv, ApplyHold, Put, Drop
  <1>5. ASSUME NEW i \in Ids, EndHold(i) PROVE WatchInv'
    BY <1>0, <1>a, <1>5 DEF WatchInv, EndHold, Drop, Locked
  <1>6. CASE StartCycle
    BY <1>0, <1>a, <1>6 DEF WatchInv, StartCycle, Scan
  <1>7. CASE LoadGeneration
    BY <1>0, <1>a, <1>7 DEF WatchInv, LoadGeneration, ScanOK
  <1>8. ASSUME NEW r \in Resources, ScanResource(r) PROVE WatchInv'
    <2>1. UNCHANGED <<holds, placing, watermark, generation, overtaken>>
      BY <1>8 DEF ScanResource
    <2>2. scan.at = "scanning"
      BY <1>8 DEF ScanResource
    <2> QED BY <1>0, <1>a, <1>8, <2>1, <2>2, ScanStep DEF WatchInv, ScanOK, Locked, Never
  <1>9. CASE CheckGeneration
    BY <1>0, <1>a, <1>9 DEF WatchInv, CheckGeneration, Unraced, ScanOK
  <1>10. CASE StoreWatermark
    BY <1>0, <1>a, <1>10 DEF WatchInv, StoreWatermark, NextWatermark, ScanOK, Unknown
  <1>11. ASSUME NEW i \in Ids, ExpireHold(i) PROVE WatchInv'
    BY <1>0, <1>a, <1>11 DEF WatchInv, ExpireHold, Drop, Locked, ScanOK
  <1>12. CASE EndCycle
    BY <1>0, <1>a, <1>12 DEF WatchInv, EndCycle, Waiting, Scan
  <1>13. CASE Tick
    BY <1>0, <1>13 DEF WatchInv, Tick
  <1>14. CASE UNCHANGED vars
    BY <1>0, <1>14 DEF WatchInv, vars
  <1> QED BY <1>1, <1>2, <1>3, <1>4, <1>5, <1>6, <1>7, <1>8, <1>9, <1>10,
             <1>11, <1>12, <1>13, <1>14 DEF Next, PlaceStep, ReaperStep

\* A hold leaves the reaper's sight only when a scan, past its second load of
\* the generation, stored over the watermark that the hold's own
\* watch_hold_expiry had lowered: whatever is placed, locked, released or
\* placed again during a scan, the generation and had_locked account for it.
THEOREM WatermarkSafe == Spec => []MissedOnlyWhenOvertaken
  <1>1. Init => WatchInv
    <2>1. Init => TypeOK
      BY ReaperAssumption DEF Init, TypeOK, HoldsOK, PlacingOK, ScanOK, Waiting, Scan,
         Unknown, Never
    <2> QED BY <2>1 DEF Init, WatchInv, Shape, NoneMissed, ScanningCovers, StoringCovers,
                        Announced, Waiting, Scan
  <1>2. WatchInv => MissedOnlyWhenOvertaken
    BY DEF WatchInv, NoneMissed, Seen, MissedOnlyWhenOvertaken, Watched
  <1> QED BY <1>1, <1>2, WatchStep, PTL DEF Spec
===============================================================================
