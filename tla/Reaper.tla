-------------------------------- MODULE Reaper --------------------------------
(***************************************************************************)
(* The reaper's watermark (engine/mutations.rs, reaper.rs).  The reaper    *)
(* scans a tenant for expired holds only when the clock has reached a      *)
(* lower bound on their expiries.  Placements lower the bound, a scan      *)
(* recomputes it, a generation counter is to keep a scan from raising it   *)
(* over a placement it did not see.  All of this is relaxed atomics and    *)
(* try_read, so every load, store and lock here is a step of its own.      *)
(***************************************************************************)
EXTENDS Integers, FiniteSets

CONSTANTS
    Resources,
    Ids,
    Home,           \* Home[i]: the resource a hold i is placed on
    Expiries,       \* expiries that callers' holds get
    MaxNow,         \* the clock stops there (bound)
    MaxPlacements   \* placements in a run (bound)

Unknown == -1           \* i64::MIN: scan at the next cycle
Never   == MaxNow + 1   \* i64::MAX: no hold seen

ASSUME ReaperAssumption ==
    /\ Home \in [Ids -> Resources]
    /\ MaxNow \in Nat /\ MaxPlacements \in Nat
    /\ Expiries \subseteq 0 .. MaxNow

VARIABLES
    now,         \* the clock
    holds,       \* holds in memory: a function from ids to their expiry
    placing,     \* placements in flight: a function from ids to [expires_at, at]
    placed,      \* how many placements have begun
    watermark,   \* earliest_hold_expiry
    generation,  \* hold_generation
    scan,        \* the reaper: where it is and what its scan has gathered
    overtaken    \* holds whose watermark a scan has overwritten unseen

vars == <<now, holds, placing, placed, watermark, generation, scan, overtaken>>

Put(f, i, v) == [j \in DOMAIN f \cup {i} |-> IF j = i THEN v ELSE f[j]]
Drop(f, i)   == [j \in DOMAIN f \ {i} |-> f[j]]

-------------------------------------------------------------------------------
(* place_hold, from its write guard on.                                    *)

Locked(r) == \E i \in DOMAIN placing : Home[i] = r

\* The guard is taken; the id is free in the index.
BeginPlace(i, expires_at) ==
    /\ placed < MaxPlacements
    /\ ~Locked(Home[i]) /\ i \notin DOMAIN holds
    /\ placing' = Put(placing, i, [expires_at |-> expires_at, at |-> "locked"])
    /\ placed' = placed + 1
    /\ UNCHANGED <<now, holds, watermark, generation, scan, overtaken>>

\* watch_hold_expiry: fetch_min, then fetch_add.
LowerWatermark(i) ==
    /\ i \in DOMAIN placing /\ placing[i].at = "locked"
    /\ watermark' = IF placing[i].expires_at < watermark
                    THEN placing[i].expires_at ELSE watermark
    /\ placing' = [placing EXCEPT ![i].at = "lowered"]
    /\ scan' = IF scan.at = "storing"
               THEN [scan EXCEPT !.unseen = @ \cup {i}] ELSE scan
    /\ UNCHANGED <<now, holds, placed, generation, overtaken>>

BumpGeneration(i) ==
    /\ i \in DOMAIN placing /\ placing[i].at = "lowered"
    /\ generation' = generation + 1
    /\ placing' = [placing EXCEPT ![i].at = "bumped"]
    /\ UNCHANGED <<now, holds, placed, watermark, scan, overtaken>>

\* persist_early: the hold is on the list and the guard is gone.
ApplyHold(i) ==
    /\ i \in DOMAIN placing /\ placing[i].at = "bumped"
    /\ holds' = Put(holds, i, placing[i].expires_at)
    /\ placing' = Drop(placing, i)
    /\ UNCHANGED <<now, placed, watermark, generation, scan, overtaken>>

\* release_hold and commit_holds take a hold off the list; the watermark stays.
EndHold(i) ==
    /\ i \in DOMAIN holds /\ ~Locked(Home[i])
    /\ holds' = Drop(holds, i)
    /\ overtaken' = overtaken \ {i}
    /\ UNCHANGED <<now, placing, placed, watermark, generation, scan>>

-------------------------------------------------------------------------------
(* run_reaper.                                                             *)

Scan(at, time, gen_before, todo, expired, next_earliest, had_locked) ==
    [at |-> at, time |-> time, gen_before |-> gen_before, todo |-> todo,
     expired |-> expired, next_earliest |-> next_earliest,
     had_locked |-> had_locked, unseen |-> {}]

Waiting == Scan("waiting", 0, 0, {}, {}, Never, FALSE)

\* The clock is read, then the watermark; a cycle that is too early ends here.
StartCycle ==
    /\ scan.at = "waiting"
    /\ now >= watermark
    /\ scan' = Scan("due", now, 0, Resources, {}, Never, FALSE)
    /\ UNCHANGED <<now, holds, placing, placed, watermark, generation, overtaken>>

LoadGeneration ==
    /\ scan.at = "due"
    /\ scan' = [scan EXCEPT !.at = "scanning", !.gen_before = generation]
    /\ UNCHANGED <<now, holds, placing, placed, watermark, generation, overtaken>>

Least(S) == CHOOSE x \in S : \A y \in S : x <= y

\* try_read: a resource whose guard is taken shows nothing.
ScanResource(r) ==
    /\ scan.at = "scanning" /\ r \in scan.todo
    /\ LET here == {i \in DOMAIN holds : Home[i] = r}
           due  == {i \in here : holds[i] <= scan.time}
       IN  scan' = IF Locked(r)
                   THEN [scan EXCEPT !.todo = @ \ {r}, !.had_locked = TRUE]
                   ELSE [scan EXCEPT !.todo = @ \ {r},
                            !.expired = @ \cup due,
                            !.next_earliest =
                                Least({@} \cup {holds[i] : i \in here \ due})]
    /\ UNCHANGED <<now, holds, placing, placed, watermark, generation, overtaken>>

\* Mutant: the generation is not compared.
AssumeUnraced == TRUE

Unraced == generation = scan.gen_before

\* The second load of the generation decides whether the bound is stored ...
CheckGeneration ==
    /\ scan.at = "scanning" /\ scan.todo = {}
    /\ scan' = IF Unraced
               THEN [scan EXCEPT !.at = "storing",
                        !.unseen = {i \in DOMAIN placing : placing[i].at = "lowered"}]
               ELSE [scan EXCEPT !.at = "expiring"]
    /\ UNCHANGED <<now, holds, placing, placed, watermark, generation, overtaken>>

\* Mutant: a resource that could not be read is taken to have no holds.
TrustScan == scan.next_earliest

NextWatermark == IF scan.had_locked THEN Unknown ELSE scan.next_earliest

\* ... and the store comes later, whatever was placed in between.
StoreWatermark ==
    /\ scan.at = "storing"
    /\ watermark' = NextWatermark
    /\ overtaken' = IF scan.had_locked THEN overtaken ELSE overtaken \cup scan.unseen
    /\ scan' = [scan EXCEPT !.at = "expiring"]
    /\ UNCHANGED <<now, holds, placing, placed, generation>>

\* expire_hold for each id of the list, after its resource's guard.
ExpireHold(i) ==
    /\ scan.at = "expiring" /\ i \in scan.expired
    /\ ~Locked(Home[i])
    /\ scan' = [scan EXCEPT !.expired = @ \ {i}]
    /\ holds' = Drop(holds, i)
    /\ overtaken' = overtaken \ {i}
    /\ UNCHANGED <<now, placing, placed, watermark, generation>>

EndCycle ==
    /\ scan.at = "expiring" /\ scan.expired = {}
    /\ scan' = Waiting
    /\ UNCHANGED <<now, holds, placing, placed, watermark, generation, overtaken>>

-------------------------------------------------------------------------------

Tick == /\ now < MaxNow
        /\ now' = now + 1
        /\ UNCHANGED <<holds, placing, placed, watermark, generation, scan, overtaken>>

Init == /\ now = 0
        /\ holds = [i \in {} |-> 0]
        /\ placing = [i \in {} |-> 0]
        /\ placed = 0
        /\ watermark = Unknown
        /\ generation = 0
        /\ scan = Waiting
        /\ overtaken = {}

PlaceStep(i) == LowerWatermark(i) \/ BumpGeneration(i) \/ ApplyHold(i)

ReaperStep == \/ StartCycle \/ LoadGeneration \/ CheckGeneration
              \/ StoreWatermark \/ EndCycle
              \/ \E r \in Resources : ScanResource(r)
              \/ \E i \in Ids : ExpireHold(i)

Next == \/ \E i \in Ids : \/ \E expires_at \in Expiries : BeginPlace(i, expires_at)
                          \/ PlaceStep(i)
                          \/ EndHold(i)
        \/ ReaperStep
        \/ Tick

Spec == Init /\ [][Next]_vars

\* Time passes, the reaper's loop and every call run on.
FairSpec == /\ Spec
            /\ WF_vars(Tick)
            /\ WF_vars(ReaperStep)
            /\ \A i \in Ids : WF_vars(PlaceStep(i))

-------------------------------------------------------------------------------
(* Properties.                                                             *)

\* The reaper has the hold on its list, or will look again in time.
Watched(i) == watermark <= holds[i] \/ i \in scan.expired

\* What the generation counter does guarantee: outside a scan's last two
\* steps, no placement is ever lost from sight, on a locked resource or not.
MissedOnlyWhenOvertaken == \A i \in DOMAIN holds : i \in overtaken \/ Watched(i)

Due(i) == i \in DOMAIN holds /\ holds[i] <= now

\* Every hold whose time has come is taken off the list, unless a scan
\* overwrote its watermark.
ExpiredHoldsReaped == \A i \in Ids : Due(i) ~> (~Due(i) \/ i \in overtaken)
===============================================================================
