--------------------------------- MODULE Sweep --------------------------------
(***************************************************************************)
(* The pure algorithms of the engine, as the code computes them: sorted    *)
(* vectors of spans, one forward pass, an accumulator.                     *)
(*   model.rs         the sorted interval list of a resource               *)
(*   availability.rs  merging, subtracting, the capacity sweep, the read   *)
(*   conflict.rs      the admission checks                                 *)
(*   queries.rs       inherited rules, availability across resources       *)
(*   offer.rs         the ranking of counter-offers                        *)
(* rs is a resource: [intervals, capacity, buffer_after].                  *)
(***************************************************************************)
EXTENDS Instants, SequencesExt

Larger(a, b)  == IF a >= b THEN a ELSE b
Smaller(a, b) == IF a <= b THEN a ELSE b

SpanOf(x) == Span(x.start, x.end)

Overlap(a, b) == a.start < b.end /\ b.start < a.end

SortByStart(spans) == SortSeq(spans, LAMBDA a, b : a.start < b.start)

\* The first index at or after i whose element passes, else one past the end.
FirstFrom(seq, i, Test(_)) ==
    Min({k \in i .. Len(seq) : Test(seq[k])} \cup {Len(seq) + 1})

-------------------------------------------------------------------------------
(* The interval list (model.rs).                                           *)

\* Mutant: the list is appended to, never sorted.
AppendPosition(intervals, start) == {Len(intervals) + 1}

\* binary_search_by_key may land on any of the elements with an equal key.
InsertPositions(intervals, start) ==
    LET equal == {i \in DOMAIN intervals : intervals[i].start = start}
    IN  IF equal # {} THEN equal
        ELSE {FirstFrom(intervals, 1, LAMBDA x : x.start > start)}

RemoveById(intervals, id) == RemoveFirstMatch(intervals, LAMBDA x : x.id = id)

\* partition_point on the starts, then a filter on the ends.
Overlapping(intervals, query) ==
    LET right_bound == FirstFrom(intervals, 1, LAMBDA x : x.start >= query.end)
    IN  SelectSeq(SubSeq(intervals, 1, right_bound - 1),
                  LAMBDA x : x.end > query.start)

HasNonBlockingRule(rs) == HasSchedule(rs.intervals, DOMAIN rs.intervals)

-------------------------------------------------------------------------------
(* Spans (availability.rs).                                                *)

\* Mutant: spans that touch stay apart.
MergeStrictlyOverlapping(sorted) ==
    FoldLeft(LAMBDA merged, s :
                IF merged # <<>> /\ s.start < Last(merged).end
                THEN [merged EXCEPT ![Len(merged)].end = Larger(@, s.end)]
                ELSE Append(merged, s),
             <<>>, sorted)

MergeOverlapping(sorted) ==
    FoldLeft(LAMBDA merged, s :
                IF merged # <<>> /\ s.start <= Last(merged).end
                THEN [merged EXCEPT ![Len(merged)].end = Larger(@, s.end)]
                ELSE Append(merged, s),
             <<>>, sorted)

\* One base span against to_remove, from the pointer ri on.
SubtractFromOne(acc, b, to_remove) ==
    LET ri == FirstFrom(to_remove, acc.ri, LAMBDA r : r.end > b.start)
        j  == FirstFrom(to_remove, ri, LAMBDA r : r.start >= b.end)
        cut == FoldLeft(LAMBDA a, r :
                   [result |-> IF r.start > a.from
                               THEN Append(a.result, Span(a.from, r.start))
                               ELSE a.result,
                    from   |-> Larger(a.from, r.end)],
                   [result |-> acc.result, from |-> b.start],
                   SubSeq(to_remove, ri, j - 1))
    IN  [ri     |-> ri,
         result |-> IF cut.from < b.end
                    THEN Append(cut.result, Span(cut.from, b.end))
                    ELSE cut.result]

SubtractIntervals(base, to_remove) ==
    FoldLeft(LAMBDA acc, b : SubtractFromOne(acc, b, to_remove),
             [ri |-> 1, result |-> <<>>], base).result

\* The sweep's events, +1 at a start and -1 at an end; at one instant the
\* ends come first.
SweepEvents(spans) ==
    SortSeq(FlattenSeq([i \in DOMAIN spans |->
                <<<<spans[i].start, 1>>, <<spans[i].end, -1>>>>]),
            LAMBDA a, b : a[1] < b[1] \/ (a[1] = b[1] /\ a[2] < b[2]))

\* The runs in which the sweep's count is at least threshold.
RunsAtLeast(spans, threshold) ==
    FoldLeft(LAMBDA acc, e :
        LET count == acc.count + e[2]
        IN  CASE count >= threshold /\ acc.from = -1 ->
                   [acc EXCEPT !.count = count, !.from = e[1]]
              [] count < threshold /\ acc.from # -1 ->
                   [count |-> count, from |-> -1,
                    runs  |-> IF e[1] > acc.from
                              THEN Append(acc.runs, Span(acc.from, e[1]))
                              ELSE acc.runs]
              [] OTHER -> [acc EXCEPT !.count = count],
        [count |-> 0, from |-> -1, runs |-> <<>>], SweepEvents(spans)).runs

ComputeSaturatedSpans(allocs, capacity) ==
    CASE allocs = <<>> \/ capacity = 0 -> <<>>
      [] capacity = 1 -> MergeOverlapping(allocs)
      [] OTHER        -> RunsAtLeast(allocs, capacity)

Clamp(s, query) ==
    Span(Larger(s.start, query.start), Smaller(s.end, query.end))

\* The spans of the rules of one kind that overlap query, clamped to it.
RuleSpans(intervals, query, kind) ==
    LET rules == SelectSeq(Overlapping(intervals, query),
                           LAMBDA x : x.kind = kind)
    IN  [i \in DOMAIN rules |-> Clamp(rules[i], query)]

\* Mutant: an ancestor's closures are forgotten.
OwnWindows(base, own_blocking, inherited_blocking) ==
    SubtractIntervals(MergeOverlapping(SortByStart(base)),
                      SortByStart(own_blocking))

AssembleOpenWindows(base, own_blocking, inherited_blocking) ==
    SubtractIntervals(MergeOverlapping(SortByStart(base)),
                      SortByStart(own_blocking \o inherited_blocking))

\* Mutant: the excluded allocation counts as well.
CountsAlways(x, now, exclude) == Active(x, now)

Counts(x, now, exclude) == x.id # exclude /\ Active(x, now)

\* Active allocations that overlap scan, stretched by the buffer and sorted.
CollectActiveAllocs(rs, scan, now, exclude) ==
    LET active == SelectSeq(Overlapping(rs.intervals, scan),
                            LAMBDA x : Counts(x, now, exclude))
    IN  SortByStart([i \in DOMAIN active |->
                        Buffered(SpanOf(active[i]), rs.buffer_after)])

NoId == "no id"

\* The window an allocation whose turnaround reaches into s can start in.
ScanWindow(rs, s) == Span(Larger(s.start - rs.buffer_after, 0), s.end)

\* The read path.
Availability(rs, query, inherited_nb, inherited_blocking, now) ==
    LET base   == IF HasNonBlockingRule(rs)
                  THEN RuleSpans(rs.intervals, query, "NonBlocking")
                  ELSE inherited_nb
        free   == AssembleOpenWindows(base,
                      RuleSpans(rs.intervals, query, "Blocking"),
                      inherited_blocking)
        allocs == SelectSeq(CollectActiveAllocs(rs, ScanWindow(rs, query), now, NoId),
                            LAMBDA s : s.end > query.start)
    IN  IF rs.capacity <= 1
        THEN SubtractIntervals(free, allocs)
        ELSE SubtractIntervals(free, ComputeSaturatedSpans(allocs, rs.capacity))

-------------------------------------------------------------------------------
(* Inherited rules (queries.rs).  chain: the interval lists of the         *)
(* ancestors, nearest first.                                               *)

CollectInheritedRules(chain, query) ==
    LET all == FoldLeft(LAMBDA acc, intervals :
                 [blocking |-> acc.blocking \o
                                 RuleSpans(intervals, query, "Blocking"),
                  nb       |-> IF acc.found THEN acc.nb
                               ELSE acc.nb \o
                                 RuleSpans(intervals, query, "NonBlocking"),
                  found    |-> acc.found \/
                                 HasSchedule(intervals, DOMAIN intervals)],
                 [blocking |-> <<>>, nb |-> <<>>, found |-> FALSE], chain)
    IN  [all EXCEPT !.blocking = SortByStart(@), !.nb = SortByStart(@)]

\* Free runs of the resource below this chain of ancestors.
ComputeAvailability(rs, chain, query, now) ==
    LET ctx == CollectInheritedRules(chain, query)
    IN  Availability(rs, query, ctx.nb, ctx.blocking, now)

\* frees: the free runs of each listed resource, in list order.
ComputeMultiAvailability(frees, min_available, min_duration) ==
    IF min_available = 0 \/ min_available > Len(frees) THEN <<>>
    ELSE SelectSeq(MergeOverlapping(RunsAtLeast(FlattenSeq(frees),
                                                min_available)),
                   LAMBDA s : s.end - s.start >= min_duration)

-------------------------------------------------------------------------------
(* Admission (conflict.rs, the batch's pairwise check of mutations.rs).    *)

CheckRulesAdmit(rs, span, ctx) ==
    LET base == CASE HasNonBlockingRule(rs) ->
                       RuleSpans(rs.intervals, span, "NonBlocking")
                  [] ~HasNonBlockingRule(rs) /\ ctx.found -> ctx.nb
                  [] OTHER -> <<span>>
        open == AssembleOpenWindows(base,
                    RuleSpans(rs.intervals, span, "Blocking"), ctx.blocking)
    IN  SubtractIntervals(<<span>>, open) = <<>>

Footprint(rs, span) == Buffered(span, rs.buffer_after)

CheckNoConflictExcluding(rs, span, now, exclude) ==
    LET candidate == Footprint(rs, span)
        allocs    == CollectActiveAllocs(rs, ScanWindow(rs, candidate), now, exclude)
        refusing  == IF rs.capacity <= 1 THEN allocs
                     ELSE ComputeSaturatedSpans(allocs, rs.capacity)
    IN  \A i \in DOMAIN refusing : ~Overlap(refusing[i], candidate)

CheckNoConflict(rs, span, now) == CheckNoConflictExcluding(rs, span, now, NoId)

CheckBatchCapacity(rs, spans, now) ==
    LET lo     == Min({spans[i].start : i \in DOMAIN spans})
        hi     == Max({spans[i].end + rs.buffer_after : i \in DOMAIN spans})
        window == ScanWindow(rs, Span(lo, hi))
        own    == [i \in DOMAIN spans |-> Footprint(rs, spans[i])]
        allocs == SortByStart(CollectActiveAllocs(rs, window, now, NoId) \o own)
    IN  ComputeSaturatedSpans(allocs, rs.capacity + 1) = <<>>

\* Mutant: only the earlier member's turnaround counts.
BatchOneWayApart(rs, spans) ==
    \A i, j \in DOMAIN spans :
        i < j => ~Overlap(Footprint(rs, spans[i]), spans[j])

BatchPairwiseApart(rs, spans) ==
    \A i, j \in DOMAIN spans :
        i < j => /\ ~Overlap(Footprint(rs, spans[i]), spans[j])
                 /\ ~Overlap(Footprint(rs, spans[j]), spans[i])

\* The allocation half of admit_batch for the members on one resource.
AdmitBatch(rs, spans, now) ==
    /\ \A i \in DOMAIN spans : CheckNoConflict(rs, spans[i], now)
    /\ Len(spans) > 1 => IF rs.capacity <= 1
                         THEN BatchPairwiseApart(rs, spans)
                         ELSE CheckBatchCapacity(rs, spans, now)

-------------------------------------------------------------------------------
(* Counter-offers (offer.rs).                                              *)

\* Mutant: a run that fits the span alone is offered.
RunForSpan(rs, length) == length

\* A run is worth offering when the span and its turnaround fit.
RunNeeded(rs, length) == length + rs.buffer_after

Rank(rs, requested, chain, now, window_end, limit) ==
    LET window == Span(requested.start, window_end)
        ctx    == CollectInheritedRules(chain, window)
        length == requested.end - requested.start
        free   == Availability(rs, window, ctx.nb, ctx.blocking, now)
        fits   == SelectSeq(free, LAMBDA run :
                      run.end - run.start >= RunNeeded(rs, length))
        offers == [i \in DOMAIN fits |->
                      Span(fits[i].start, fits[i].start + length)]
    IN  IF limit = 0 \/ ~(HasNonBlockingRule(rs) \/ ctx.found) THEN <<>>
        ELSE SubSeq(offers, 1, Smaller(limit, Len(offers)))
===============================================================================
