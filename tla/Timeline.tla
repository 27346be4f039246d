------------------------------- MODULE Timeline -------------------------------
(***************************************************************************)
(* One resource's timeline: the sorted interval list, capacity and         *)
(* turnaround of a ResourceState, below a chain of ancestors, changed the  *)
(* way apply_event changes it.  In every state that such a history can     *)
(* reach, the sweeps of module Sweep are compared, for every query and     *)
(* every candidate, with the instant-by-instant definitions of Instants.   *)
(***************************************************************************)
EXTENDS Sweep

CONSTANTS
    Ids,            \* interval ids
    Horizon,        \* spans lie in 0 .. Horizon (bound)
    MaxIntervals,   \* intervals on the list at once (bound)
    Expiries,       \* when holds may expire
    Settings        \* the surroundings of a resource: the interval kinds it
                    \* is given, the capacities and buffers it may have, the
                    \* clock's last value (bound), its chain of ancestors

ASSUME BoundsAssumption ==
    /\ Horizon \in Nat \ {0} /\ MaxIntervals \in Nat
    /\ \A s \in Settings :
          s.capacities \subseteq Nat \ {0} /\ s.buffers \subseteq Nat /\ s.maxNow \in Nat

VARIABLES intervals, capacity, buffer_after, now, setting

vars == <<intervals, capacity, buffer_after, now, setting>>

\* The intervals of the ancestors, nearest first.
chain == setting.chain

Spans == {s \in [start : 0 .. Horizon, end : 0 .. Horizon] : s.start < s.end}

Interval(id, s, kind, expires_at) ==
    [id |-> id, start |-> s.start, end |-> s.end,
     kind |-> kind, expires_at |-> expires_at]

rs == [intervals |-> intervals, capacity |-> capacity,
       buffer_after |-> buffer_after]

Init == /\ intervals = <<>>
        /\ now = 0
        /\ setting \in Settings
        /\ capacity \in setting.capacities
        /\ buffer_after \in setting.buffers

Insert(list, x) ==
    \E pos \in InsertPositions(list, x.start) :
        intervals' = InsertAt(list, pos, x)

\* RuleAdded, HoldPlaced, BookingConfirmed.
InsertInterval(id, s, kind, expires_at) ==
    /\ Len(intervals) < MaxIntervals
    /\ id \notin {intervals[i].id : i \in DOMAIN intervals}
    /\ Insert(intervals, Interval(id, s, kind, expires_at))
    /\ UNCHANGED <<capacity, buffer_after, now, setting>>

\* RuleRemoved, HoldReleased, BookingCancelled.
RemoveInterval(id) ==
    /\ \E i \in DOMAIN intervals : intervals[i].id = id
    /\ intervals' = RemoveById(intervals, id)
    /\ UNCHANGED <<capacity, buffer_after, now, setting>>

\* RuleUpdated: removed, then inserted where its new start belongs.
UpdateRule(id, s, kind) ==
    /\ IsRule(kind)
    /\ \E i \in DOMAIN intervals :
           intervals[i].id = id /\ IsRule(intervals[i].kind)
    /\ Insert(RemoveById(intervals, id), Interval(id, s, kind, 0))
    /\ UNCHANGED <<capacity, buffer_after, now, setting>>

\* ResourceUpdated.
UpdateResource(c, b) ==
    /\ capacity' = c /\ buffer_after' = b
    /\ UNCHANGED <<intervals, now, setting>>

Tick == /\ now < setting.maxNow
        /\ now' = now + 1
        /\ UNCHANGED <<intervals, capacity, buffer_after, setting>>

Next ==
    \/ \E id \in Ids, s \in Spans, kind \in setting.kinds :
          \E e \in IF IsHold(kind) THEN Expiries ELSE {0} :
              InsertInterval(id, s, kind, e)
    \/ \E id \in Ids : RemoveInterval(id)
    \/ \E id \in Ids, s \in Spans, kind \in setting.kinds : UpdateRule(id, s, kind)
    \/ \E c \in setting.capacities, b \in setting.buffers : UpdateResource(c, b)
    \/ Tick

Spec == Init /\ [][Next]_vars

-------------------------------------------------------------------------------
(* The reference: what is open, taken and free at one instant.             *)

\* The lists that define a schedule, the one in force first: the resource's
\* own when it has any, else those of its ancestors, nearest first.
Scheduling == IF HasSchedule(intervals, DOMAIN intervals) THEN <<intervals>>
              ELSE SelectSeq(chain, LAMBDA l : HasSchedule(l, DOMAIN l))

InSchedule(t) == Scheduling # <<>> /\
    RuleAt(Scheduling[1], DOMAIN Scheduling[1], "NonBlocking", t)

Blocked(t) == \/ RuleAt(intervals, DOMAIN intervals, "Blocking", t)
              \/ \E i \in DOMAIN chain :
                    RuleAt(chain[i], DOMAIN chain[i], "Blocking", t)

Load(t) == LoadAt(intervals, DOMAIN intervals, t, buffer_after, now)

FreeAt(t) == InSchedule(t) /\ ~Blocked(t) /\ Load(t) < capacity

\* The longest runs of instants of query that pass, as ascending spans.
MaximalRuns(query, Test(_)) ==
    LET passing  == {t \in query.start .. (query.end - 1) : Test(t)}
        starts   == {t \in passing : t - 1 \notin passing}
        RunEnd(t) == Min({u \in t .. query.end : u \notin passing})
    IN  SetToSortSeq({Span(t, RunEnd(t)) : t \in starts},
                     LAMBDA a, b : a.start < b.start)

-------------------------------------------------------------------------------
(* Properties.                                                             *)

\* INV-02, read side: availability() with the rules collected from the
\* ancestors returns the maximal runs of free instants of the window, for
\* every window (so no answer depends on the query's bounds), in every state:
\* the binary searches that keep the list sorted and cut it lose nothing.
ReadMatchesInstants ==
    \A query \in Spans :
        ComputeAvailability(rs, chain, query, now) = MaximalRuns(query, FreeAt)

\* AVAIL-02, INV-01: check_no_conflict lets a candidate in exactly when every
\* instant of its footprint has a unit of capacity left, on the fast path
\* for capacity 1 and on the sweep alike; leaving one allocation out of the
\* check, as commit_holds does, is the same as checking without it.
\* (They look at the resource alone: one chain is as good as another.)
AdmissionMatchesInstants ==
    chain = <<>> => \A span \in Spans :
        /\ CheckNoConflict(rs, span, now)
            <=> HasRoom(intervals, DOMAIN intervals, span,
                        capacity, buffer_after, now)
        /\ \A i \in DOMAIN intervals :
              CheckNoConflictExcluding(rs, span, now, intervals[i].id)
                <=> HasRoom(intervals, DOMAIN intervals \ {i}, span,
                            capacity, buffer_after, now)

\* AVAIL-06: a batch admitted on one resource (each member against the state,
\* then all of them together) never takes an instant past capacity, and on a
\* timeline that is within capacity every batch that fits is admitted.
\* (One chain is as good as another here, too.)
BatchMatchesInstants ==
    chain = <<>> => \A s1, s2 \in Spans :
        LET spans == <<s1, s2>>
            fits  == \A t \in 0 .. (2 * Horizon) :
                        LET extra == BatchLoadAt(spans, {1, 2}, t, buffer_after)
                        IN  extra > 0 => Load(t) + extra <= capacity
            calm  == \A t \in 0 .. (2 * Horizon) : Load(t) <= capacity
        IN  /\ AdmitBatch(rs, spans, now) => fits
            /\ calm /\ fits => AdmitBatch(rs, spans, now)

\* T-03: check_rules_admit lets a span in exactly when no instant of it is
\* blocked and, if any schedule exists in the chain, all of it is open: the
\* same windows the read path starts from.
RulesMatchInstants ==
    \A span \in Spans :
        CheckRulesAdmit(rs, span, CollectInheritedRules(chain, span))
            <=> \A t \in span.start .. (span.end - 1) :
                   ~Blocked(t) /\ (Scheduling # <<>> => InSchedule(t))

\* offer.rs: every alternative that rides on a refusal would itself be
\* admitted, by the rules and by the conflict check, at the same instant.
OffersAreAdmissible ==
    \A requested \in Spans :
        \A s \in Range(Rank(rs, requested, chain, now, Horizon, 3)) :
            /\ CheckRulesAdmit(rs, s, CollectInheritedRules(chain, s))
            /\ CheckNoConflict(rs, s, now)

\* GAP-13: availability across resources (this one listed twice, and a
\* schedule of its parent's) is the maximal runs in which enough of them are
\* free, however the runs of the single resources are cut.
MultiMatchesInstants ==
    LET whole  == Span(0, Horizon)
        own    == ComputeAvailability(rs, chain, whole, now)
        other  == IF chain = <<>> THEN <<>>
                  ELSE ComputeAvailability(
                          [intervals |-> Head(chain), capacity |-> 1,
                           buffer_after |-> 0], Tail(chain), whole, now)
        frees  == <<own, other, own>>
        FreeCount(t) == Cardinality({k \in 1 .. 3 :
            \E i \in DOMAIN frees[k] : InSpan(frees[k][i], t)})
    IN  \A need \in 1 .. 3, min_duration \in 1 .. 2 :
            ComputeMultiAvailability(frees, need, min_duration)
              = SelectSeq(MaximalRuns(whole, LAMBDA t : FreeCount(t) >= need),
                          LAMBDA s : s.end - s.start >= min_duration)
===============================================================================
