------------------------------- MODULE Calendar -------------------------------
(***************************************************************************)
(* A tenant's calendar (engine/mutations.rs): many callers, a reaper and a *)
(* garbage collector write rules, holds and bookings on a fixed hierarchy  *)
(* of resources.                                                           *)
(*                                                                         *)
(* A resource's write guard is held from an operation's first check to the *)
(* end of its apply, so that part of an operation is one action.  What the *)
(* code does BEFORE taking the guard is a step of its own: a hold, booking *)
(* or rule reads its ancestors' rules one lock at a time (C1), and the     *)
(* reaper collects its list, long before either is used.                   *)
(*                                                                         *)
(* Admission is stated per instant (module Instants); module Timeline      *)
(* checks that the code's sweeps decide the same.  Durability is module    *)
(* Journal, the reaper's watermark module Reaper.                          *)
(***************************************************************************)
EXTENDS Instants, Sequences

CONSTANTS
    Resources,
    Ancestors,     \* Ancestors[r]: the parent of r, its parent, ...
    Ids,           \* entity ids: rules, holds and bookings share one index
    Clients,       \* concurrent callers
    Instants,      \* the instants a run looks at
    Shapes,        \* [capacity, buffer_after] a resource may be given
    InitialShape,  \* the shape resources are created with
    Batches,       \* requests: functions from ids to [res, start, end]
    HoldExpiries,  \* expires_at values callers ask for
    RuleRequests,  \* rules callers ask for: [id, res, start, end, kind]
    MaxTtl,        \* DELTAT_MAX_HOLD_TTL_MS
    Retention,     \* the GC's retention_ms
    MaxIntervals,  \* MAX_INTERVALS_PER_RESOURCE
    MaxBatch,      \* MAX_BATCH_SIZE
    MaxNow         \* the clock stops there (bound)

Kinds   == {"NonBlocking", "Blocking", "Hold", "Booking"}
Members == [res : Resources, start : Nat, end : Nat]
AllShapes == [capacity : Nat \ {0}, buffer_after : Nat]

ASSUME IdsAssumption == IsFiniteSet(Ids)
ASSUME HierarchyAssumption == Ancestors \in [Resources -> Seq(Resources)]
ASSUME ShapesAssumption ==
    Shapes \subseteq AllShapes /\ InitialShape \in AllShapes
ASSUME LimitsAssumption ==
    /\ MaxTtl \in Nat /\ Retention \in Nat /\ MaxNow \in Nat
    /\ MaxIntervals \in Nat \ {0} /\ MaxBatch \in Nat \ {0}
    /\ HoldExpiries \subseteq Nat
\* What validate_span and reject_repeats let through, and MAX_BATCH_SIZE.
ASSUME BatchesAssumption ==
    \A b \in Batches :
        /\ DOMAIN b \subseteq Ids /\ DOMAIN b # {}
        /\ Cardinality(DOMAIN b) <= MaxBatch
        /\ \A i \in DOMAIN b : b[i] \in Members /\ b[i].start < b[i].end
ASSUME RulesAssumption ==
    \A q \in RuleRequests :
        /\ q \in [id : Ids, res : Resources, start : Nat, end : Nat,
                  kind : {"NonBlocking", "Blocking"}]
        /\ q.start < q.end
\* The instants cover every footprint that can be asked for.
ASSUME InstantsAssumption ==
    /\ Instants \subseteq Nat
    /\ \A b \in Batches, s \in Shapes \cup {InitialShape} :
           \A i \in DOMAIN b :
               b[i].start .. (b[i].end + s.buffer_after - 1) \subseteq Instants

VARIABLES
    shape,    \* shape[r]: capacity and buffer_after of resource r
    iv,       \* the intervals: a function from the ids in use
    now,      \* the clock
    alloc,    \* holds and bookings in flight: a function from busy clients
    ruling,   \* rule writes in flight: a function from busy clients
    due       \* the reaper's list of holds still to expire

vars == <<shape, iv, now, alloc, ruling, due>>

-------------------------------------------------------------------------------
(* The store.                                                              *)

On(r) == {i \in DOMAIN iv : iv[i].res = r}

Interval(m, kind, expires_at) ==
    [res |-> m.res, start |-> m.start, end |-> m.end,
     kind |-> kind, expires_at |-> expires_at]

\* iv with the intervals of new put in, and with those of S taken out.
Added(new) == [i \in DOMAIN iv \cup DOMAIN new |->
                  IF i \in DOMAIN new THEN new[i] ELSE iv[i]]
Dropped(S) == [i \in DOMAIN iv \ S |-> iv[i]]

Load(r, t) == LoadAt(iv, On(r), t, shape[r].buffer_after, now)

-------------------------------------------------------------------------------
(* The rule context an operation collects before its guard.                *)

NoRules == [open |-> {}, blocked |-> {}, found |-> FALSE]

RuleInstants(r, kind) == {t \in Instants : RuleAt(iv, On(r), kind, t)}

\* One more ancestor read: blocking accumulates, the nearest schedule wins.
WithRulesOf(ctx, a) ==
    [open    |-> IF ctx.found THEN ctx.open
                 ELSE ctx.open \cup RuleInstants(a, "NonBlocking"),
     blocked |-> ctx.blocked \cup RuleInstants(a, "Blocking"),
     found   |-> ctx.found \/ HasSchedule(iv, On(a))]

\* t lies in the base schedule of r, given what was collected above it.
BaseOpen(r, ctx, t) == IF HasSchedule(iv, On(r))
                       THEN t \in RuleInstants(r, "NonBlocking")
                       ELSE t \in ctx.open

\* Mutant: the resource's own closures are not looked at.
ClosedAbove(r, ctx, t) == t \in ctx.blocked

Closed(r, ctx, t) == t \in RuleInstants(r, "Blocking") \cup ctx.blocked

\* check_rules_admit: no schedule anywhere leaves only the blocking rules.
RulesAdmit(m, ctx) ==
    \A t \in m.start .. (m.end - 1) :
        /\ ~Closed(m.res, ctx, t)
        /\ HasSchedule(iv, On(m.res)) \/ ctx.found => BaseOpen(m.res, ctx, t)

\* check_parent_coverage: the parent's availability covers the rule.
CoveredBy(p, ctx, q) ==
    \A t \in q.start .. (q.end - 1) :
        /\ BaseOpen(p, ctx, t) /\ ~Closed(p, ctx, t)
        /\ Load(p, t) < shape[p].capacity

-------------------------------------------------------------------------------
(* Admission of a batch; a single hold or booking is a batch of one.       *)

MembersOn(b, r) == {i \in DOMAIN b : b[i].res = r}
ResourcesOf(b)  == {b[i].res : i \in DOMAIN b}

\* The active allocations the batch's hull reaches, as check_batch_capacity
\* collects them: from the first start less a buffer to the last end plus one.
NearBatch(b, r) ==
    LET B == MembersOn(b, r)
        buffer == shape[r].buffer_after
    IN  {i \in On(r) : /\ \E j \in B : iv[i].start < b[j].end + buffer
                       /\ \E j \in B : iv[i].end > b[j].start - buffer}

\* Mutant: each member is admitted by itself.
FitsAnyhow(b, r) == TRUE

\* Members weighed against each other, once each of them has room alone.
BatchFits(b, r) ==
    Cardinality(MembersOn(b, r)) > 1 =>
        \A t \in Instants :
            LET extra == BatchLoadAt(b, MembersOn(b, r), t, shape[r].buffer_after)
            IN  IF shape[r].capacity <= 1 THEN extra <= 1
                ELSE extra + LoadAt(iv, NearBatch(b, r), t,
                                    shape[r].buffer_after, now)
                       <= shape[r].capacity

\* Mutant: no limit.
NoListLimit(r) == TRUE

RoomOnList(r) == Cardinality(On(r)) < MaxIntervals

\* Mutant: nobody looks for room.
AdmissibleByRules(b, ctx) ==
    /\ DOMAIN b \cap DOMAIN iv = {}
    /\ \A i \in DOMAIN b : RulesAdmit(b[i], ctx[b[i].res])

Admissible(b, ctx) ==
    /\ \A r \in ResourcesOf(b) : RoomOnList(r)
    /\ DOMAIN b \cap DOMAIN iv = {}
    /\ \A i \in DOMAIN b :
           /\ RulesAdmit(b[i], ctx[b[i].res])
           /\ HasRoom(iv, On(b[i].res), b[i], shape[b[i].res].capacity,
                      shape[b[i].res].buffer_after, now)
    /\ \A r \in ResourcesOf(b) : BatchFits(b, r)

Idle(c) == c \notin DOMAIN alloc \cup DOMAIN ruling

\* Mutants: the caller's word is taken; a time to live is stored.
ExpiryAsAsked(requested)  == requested
ExpiryFromNow(requested) == requested - now

\* hold_expiry: the server's clock caps what the caller asked for.
HoldExpiry(requested) ==
    IF requested <= now + MaxTtl THEN requested ELSE now + MaxTtl

\* A hold or booking in flight: the request, the rules collected so far for
\* each of its resources, and the ancestors still to be read.
Call(b, kind, expires_at, ctx, todo) ==
    [members |-> b, kind |-> kind, expires_at |-> expires_at,
     ctx |-> ctx, todo |-> todo]

SetCall(c, call) ==
    alloc' = [d \in DOMAIN alloc \cup {c} |-> IF d = c THEN call ELSE alloc[d]]

\* place_hold, confirm_booking and their batches, up to the first await.
BeginAllocate(c, b, kind, expires_at) ==
    /\ Idle(c)
    /\ SetCall(c, Call(b, kind, expires_at,
                       [r \in ResourcesOf(b) |-> NoRules],
                       [r \in ResourcesOf(b) |-> Ancestors[r]]))
    /\ UNCHANGED <<shape, iv, now, ruling, due>>

\* collect_inherited_rules: one ancestor, under that ancestor's lock alone.
ReadAncestor(c) ==
    /\ c \in DOMAIN alloc
    /\ \E r \in ResourcesOf(alloc[c].members) :
          /\ alloc[c].todo[r] # <<>>
          /\ SetCall(c, Call(alloc[c].members, alloc[c].kind, alloc[c].expires_at,
                 [alloc[c].ctx EXCEPT ![r] = WithRulesOf(@, Head(alloc[c].todo[r]))],
                 [alloc[c].todo EXCEPT ![r] = Tail(@)]))
    /\ UNCHANGED <<shape, iv, now, ruling, due>>

Collected(c) == /\ c \in DOMAIN alloc
                /\ \A r \in ResourcesOf(alloc[c].members) :
                       alloc[c].todo[r] = <<>>

Finish(c) == alloc' = [d \in DOMAIN alloc \ {c} |-> alloc[d]]

\* Under the write guards of every resource of the batch: check all, then
\* queue and apply all.
Admit(c) ==
    /\ Collected(c)
    /\ Admissible(alloc[c].members, alloc[c].ctx)
    /\ iv' = Added([i \in DOMAIN alloc[c].members |->
                      Interval(alloc[c].members[i], alloc[c].kind,
                               alloc[c].expires_at)])
    /\ Finish(c)
    /\ UNCHANGED <<shape, now, ruling, due>>

\* A refusal changes nothing.
Refuse(c) ==
    /\ Collected(c)
    /\ ~Admissible(alloc[c].members, alloc[c].ctx)
    /\ Finish(c)
    /\ UNCHANGED <<shape, iv, now, ruling, due>>

-------------------------------------------------------------------------------
(* Rules.                                                                  *)

NeedsCoverage(q) == q.kind = "NonBlocking" /\ Ancestors[q.res] # <<>>

\* A rule write in flight: the rules collected above the parent, whether the
\* parent is known to cover it, and the ancestors still to be read.
Ruling(q, op, ctx, covered, todo) ==
    [rule |-> q, op |-> op, ctx |-> ctx, covered |-> covered, todo |-> todo]

SetRuling(c, call) ==
    ruling' = [d \in DOMAIN ruling \cup {c} |-> IF d = c THEN call ELSE ruling[d]]

\* add_rule and update_rule, up to the first await.  update_rule resolves the
\* id to its resource here and must find the rule there again later.
BeginRule(c, q, op) ==
    /\ Idle(c)
    /\ op = "update" => q.id \in DOMAIN iv /\ iv[q.id].res = q.res
    /\ SetRuling(c, Ruling(q, op, NoRules, ~NeedsCoverage(q),
                           IF NeedsCoverage(q) THEN Tail(Ancestors[q.res])
                           ELSE <<>>))
    /\ UNCHANGED <<shape, iv, now, alloc, due>>

\* compute_availability(parent): the parent's ancestors one at a time ...
ReadAboveParent(c) ==
    /\ c \in DOMAIN ruling
    /\ ruling[c].todo # <<>>
    /\ SetRuling(c, Ruling(ruling[c].rule, ruling[c].op,
                           WithRulesOf(ruling[c].ctx, Head(ruling[c].todo)),
                           FALSE, Tail(ruling[c].todo)))
    /\ UNCHANGED <<shape, iv, now, alloc, due>>

FinishRule(c) == ruling' = [d \in DOMAIN ruling \ {c} |-> ruling[d]]

\* ... then the parent, whose free time must cover the rule.
CheckParentCoverage(c) ==
    /\ c \in DOMAIN ruling
    /\ ruling[c].todo = <<>> /\ ~ruling[c].covered
    /\ IF CoveredBy(Head(Ancestors[ruling[c].rule.res]),
                    ruling[c].ctx, ruling[c].rule)
       THEN SetRuling(c, Ruling(ruling[c].rule, ruling[c].op, ruling[c].ctx,
                                TRUE, <<>>))
       ELSE FinishRule(c)
    /\ UNCHANGED <<shape, iv, now, alloc, due>>

RuleApplies(q, op) ==
    IF op = "add"
    THEN q.id \notin DOMAIN iv /\ RoomOnList(q.res)
    ELSE /\ q.id \in DOMAIN iv
         /\ iv[q.id].res = q.res /\ IsRule(iv[q.id].kind)

\* Under the resource's write guard.
WriteRule(c) ==
    /\ c \in DOMAIN ruling
    /\ ruling[c].covered
    /\ LET q == ruling[c].rule
       IN  IF RuleApplies(q, ruling[c].op)
           THEN iv' = Added([i \in {q.id} |-> Interval(q, q.kind, 0)])
           ELSE UNCHANGED iv
    /\ FinishRule(c)
    /\ UNCHANGED <<shape, now, alloc, due>>

\* Taking an interval out, after find_interval_of_kind under the guard.
Remove(id, kinds) ==
    /\ id \in DOMAIN iv /\ iv[id].kind \in kinds
    /\ iv' = Dropped({id})
    /\ UNCHANGED <<shape, now, alloc, ruling, due>>

RemoveRule(id)    == Remove(id, {"NonBlocking", "Blocking"})
ReleaseHold(id)   == Remove(id, {"Hold"})
CancelBooking(id) == Remove(id, {"Booking"})

-------------------------------------------------------------------------------
(* Committing holds.                                                       *)

\* commits maps each hold id to the id its booking takes.
Committable(commits) ==
    \A h \in DOMAIN commits :
        /\ h \in DOMAIN iv /\ IsHold(iv[h].kind)
        /\ commits[h] \notin DOMAIN iv
        /\ \A g \in DOMAIN commits : commits[g] = commits[h] => g = h
        /\ HasRoom(iv, On(iv[h].res) \ {h}, iv[h], shape[iv[h].res].capacity,
                   shape[iv[h].res].buffer_after, now)

\* Every hold becomes a booking of the same span, all or nothing.
Committed(commits) ==
    [i \in (DOMAIN iv \ DOMAIN commits) \cup {commits[h] : h \in DOMAIN commits} |->
        IF i \in DOMAIN iv THEN iv[i]
        ELSE Interval(iv[CHOOSE h \in DOMAIN commits : commits[h] = i],
                      "Booking", 0)]

CommitHolds(commits) ==
    /\ Committable(commits)
    /\ iv' = Committed(commits)
    /\ UNCHANGED <<shape, now, alloc, ruling, due>>

-------------------------------------------------------------------------------
(* Resources, background tasks, the clock.                                 *)

\* update_resource checks the new shape by itself, never against the load.
UpdateResource(r, s) ==
    /\ shape' = [shape EXCEPT ![r] = s]
    /\ UNCHANGED <<iv, now, alloc, ruling, due>>

Expired(x) == IsHold(x.kind) /\ x.expires_at <= now

\* run_reaper: a resource whose lock is taken is left for the next round.
CollectExpiredHolds(unlocked) ==
    /\ due = {}
    /\ due' = {i \in DOMAIN iv : iv[i].res \in unlocked /\ Expired(iv[i])}
    /\ UNCHANGED <<shape, iv, now, alloc, ruling>>

\* expire_hold, for each id of the list: whatever hold the id names by then.
ExpireHold(id) ==
    /\ id \in due
    /\ due' = due \ {id}
    /\ iv' = IF id \in DOMAIN iv /\ IsHold(iv[id].kind)
             THEN Dropped({id}) ELSE iv
    /\ UNCHANGED <<shape, now, alloc, ruling>>

\* Mutant: the turnaround is forgotten.
DominatedRaw(x) ==
    /\ x.end < now - Retention
    /\ IsBooking(x.kind) \/ Expired(x)

Dominated(x) ==
    /\ x.end + shape[x.res].buffer_after < now - Retention
    /\ IsBooking(x.kind) \/ Expired(x)

\* gc_past_intervals on one resource.
Gc(r) == /\ iv' = Dropped({i \in On(r) : Dominated(iv[i])})
         /\ UNCHANGED <<shape, now, alloc, ruling, due>>

Tick == /\ now < MaxNow
        /\ now' = now + 1
        /\ UNCHANGED <<shape, iv, alloc, ruling, due>>

Init == /\ shape = [r \in Resources |-> InitialShape]
        /\ iv = [i \in {} |-> 0]
        /\ now = 0
        /\ alloc = [c \in {} |-> 0]
        /\ ruling = [c \in {} |-> 0]
        /\ due = {}

Holds == {i \in DOMAIN iv : IsHold(iv[i].kind)}

AllocateStep == \E c \in Clients :
    \/ \E b \in Batches : BeginAllocate(c, b, "Booking", 0)
    \/ \E b \in Batches, e \in HoldExpiries :
          BeginAllocate(c, b, "Hold", HoldExpiry(e))
    \/ ReadAncestor(c)
    \/ Admit(c)
    \/ Refuse(c)

RuleStep == \E c \in Clients :
    \/ \E q \in RuleRequests, op \in {"add", "update"} : BeginRule(c, q, op)
    \/ ReadAboveParent(c)
    \/ CheckParentCoverage(c)
    \/ WriteRule(c)

RemoveStep == \E id \in Ids :
    RemoveRule(id) \/ ReleaseHold(id) \/ CancelBooking(id)

CommitStep == \E H \in SUBSET Holds :
    /\ H # {} /\ Cardinality(H) <= MaxBatch
    /\ \E commits \in [H -> Ids] : CommitHolds(commits)

BackgroundStep ==
    \/ \E unlocked \in SUBSET Resources : CollectExpiredHolds(unlocked)
    \/ \E id \in Ids : ExpireHold(id)
    \/ \E r \in Resources : Gc(r)

ReshapeStep == \E r \in Resources, s \in Shapes : UpdateResource(r, s)

Next == \/ AllocateStep \/ RuleStep \/ RemoveStep \/ CommitStep
        \/ BackgroundStep \/ ReshapeStep \/ Tick

Spec == Init /\ [][Next]_vars

-------------------------------------------------------------------------------
(* Properties.                                                             *)

Intervals == [res : Resources, start : Nat, end : Nat,
              kind : Kinds, expires_at : Nat]

\* Every id in use names a well-formed interval, and every call in flight
\* carries one of the requests callers make.
TypeOK ==
    /\ shape \in [Resources -> AllShapes]
    /\ DOMAIN iv \subseteq Ids
    /\ \A i \in DOMAIN iv : iv[i] \in Intervals /\ iv[i].start < iv[i].end
    /\ now \in 0 .. MaxNow
    /\ DOMAIN alloc \subseteq Clients
    /\ \A c \in DOMAIN alloc :
          /\ alloc[c].members \in Batches
          /\ alloc[c].kind \in {"Hold", "Booking"}
          /\ alloc[c].expires_at \in Nat
    /\ DOMAIN ruling \subseteq Clients
    /\ \A c \in DOMAIN ruling : ruling[c].rule \in RuleRequests
    /\ due \subseteq Ids

WithinCapacity(r, t) == Load(r, t) <= shape[r].capacity

\* INV-01 as the requirements state it: at every instant of every resource
\* the active allocations, turnaround included, are within capacity.
NeverDoubleBook == \A r \in Resources, t \in Instants : WithinCapacity(r, t)

\* The step turns two lapsed holds that both reach t into bookings.
RevivesTwo(r, t) ==
    LET lapsed == {i \in On(r) : /\ Expired(iv[i])
                                 /\ InSpan(Buffered(iv[i], shape[r].buffer_after), t)}
    IN  /\ \E i, j \in lapsed \ DOMAIN iv' : i # j
        /\ \E i \in DOMAIN iv' \ DOMAIN iv : IsBooking(iv'[i].kind)

\* INV-01 as the code keeps it: no step of any caller or background task
\* takes an instant past capacity, as long as the resource keeps its shape
\* and no single commit revives two lapsed holds that share the instant.
StepKeepsCapacity ==
    [][\A r \in Resources, t \in Instants :
          /\ shape'[r] = shape[r] /\ ~RevivesTwo(r, t)
          /\ WithinCapacity(r, t)
          => WithinCapacity(r, t)']_vars

\* The same as a specification: shapes stay as they are and no commit revives
\* two lapsed holds of one instant.
SteadyCommit == /\ CommitStep
                /\ \A r \in Resources, t \in Instants : ~RevivesTwo(r, t)
SteadyNext == \/ AllocateStep \/ RuleStep \/ RemoveStep \/ SteadyCommit
              \/ BackgroundStep \/ Tick
SteadySpec == Init /\ [][SteadyNext]_vars

\* INV-02, garbage collection: collecting the past never frees an instant
\* inside the retention period or ahead, buffer tails included.
GcFreesOnlyThePast ==
    [][\A r \in Resources : Gc(r) =>
          \A t \in Instants : t + Retention >= now => Load(r, t)' = Load(r, t)]_vars

\* AVAIL-08: whatever expiry a caller asks for, and however long its call
\* waited for a guard, no hold outlives the server's clock by more than the
\* ceiling.
HoldExpiryCapped ==
    \A i \in DOMAIN iv : IsHold(iv[i].kind) => iv[i].expires_at <= now + MaxTtl

\* The interval list stays bounded: the limit is checked before a batch is
\* added, so it can be passed by what one batch adds, never by more.
IntervalsBounded ==
    \A r \in Resources : Cardinality(On(r)) < MaxIntervals + MaxBatch

\* An allocation that a step puts in and that was nobody's hold before.
NewlyAdmitted(i) == /\ i \in DOMAIN iv' \ DOMAIN iv
                    /\ ~IsRule(iv'[i].kind)
                    /\ DOMAIN iv \subseteq DOMAIN iv'

OwnRulesAdmit(i) ==
    LET r == iv'[i].res
    IN  \A t \in iv'[i].start .. (iv'[i].end - 1) :
           /\ t \notin RuleInstants(r, "Blocking")
           /\ HasSchedule(iv, On(r)) => t \in RuleInstants(r, "NonBlocking")

\* AVAIL-16, own rules: they are read under the guard, so an admission always
\* lies inside the resource's own open hours at the moment it is applied,
\* however long its call has been in flight.
AdmittedByOwnRules ==
    [][\A i \in Ids : NewlyAdmitted(i) => OwnRulesAdmit(i)]_vars
===============================================================================
