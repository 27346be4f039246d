------------------------------- MODULE Instants -------------------------------
(***************************************************************************)
(* What the sweeps of engine/availability.rs and engine/conflict.rs decide,*)
(* said one instant at a time.  Nothing here sorts, merges or subtracts:   *)
(* an instant is taken by an allocation or it is not.                      *)
(*                                                                         *)
(* A collection of intervals is a function f and a set D of its arguments, *)
(* so the definitions read a sorted sequence (module Timeline, D is its    *)
(* DOMAIN) and an id-indexed store (module Calendar) alike.  Timeline      *)
(* checks that the code's sweeps agree with these definitions; Calendar    *)
(* is written with them.                                                   *)
(***************************************************************************)
EXTENDS Integers, FiniteSets

\* A half-open span [start, end), model.rs Span.
Span(s, e) == [start |-> s, end |-> e]

InSpan(s, t) == s.start <= t /\ t < s.end

\* The span an allocation really occupies: itself and its turnaround.
Buffered(s, buffer) == Span(s.start, s.end + buffer)

IsRule(k)    == k \in {"NonBlocking", "Blocking"}
IsHold(k)    == k = "Hold"
IsBooking(k) == k = "Booking"

\* A booking, or a hold whose expiry the clock has not reached.
Active(x, now) == \/ IsBooking(x.kind)
                  \/ IsHold(x.kind) /\ x.expires_at > now

\* x takes a unit of capacity at instant t.
Occupies(x, t, buffer, now) ==
    Active(x, now) /\ x.start <= t /\ t < x.end + buffer

\* How many allocations of f, among D, take a unit at t.
LoadAt(f, D, t, buffer, now) ==
    Cardinality({i \in D : Occupies(f[i], t, buffer, now)})

\* Every instant of the span, turnaround included, has a unit left.
HasRoom(f, D, s, capacity, buffer, now) ==
    \A t \in s.start .. (s.end + buffer - 1) :
        LoadAt(f, D, t, buffer, now) < capacity

\* How many of the spans m[j], j \in M, take a unit at t, turnaround included.
BatchLoadAt(m, M, t, buffer) ==
    Cardinality({j \in M : InSpan(Buffered(m[j], buffer), t)})

\* t is inside a rule of this kind.
RuleAt(f, D, kind, t) == \E i \in D : f[i].kind = kind /\ InSpan(f[i], t)

\* A state fact, never a fact about a query window (MODEL-06).
HasSchedule(f, D) == \E i \in D : f[i].kind = "NonBlocking"
===============================================================================
