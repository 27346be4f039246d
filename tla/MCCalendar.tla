------------------------------ MODULE MCCalendar ------------------------------
(* Instances of Calendar for TLC: hierarchies, requests and shapes. *)
EXTENDS Calendar, TLC

CONSTANTS a, b, d, e,   \* entity ids
          g, p, c       \* resources: c below p below g

On1(r, s, t) == [res |-> r, start |-> s, end |-> t]
Shape(cap, buf) == [capacity |-> cap, buffer_after |-> buf]
RuleOn(id, r, s, t, kind) ==
    [id |-> id, res |-> r, start |-> s, end |-> t, kind |-> kind]

OneUnit    == Shape(1, 0)
TwoUnits   == Shape(2, 2)
BothShapes == {OneUnit, TwoUnits}

Flat      == [r \in {c} |-> <<>>]
ThreeDeep == (g :> <<>>) @@ (p :> <<g>>) @@ (c :> <<p, g>>)

FourInstants == 0 .. 3

\* Three ids on overlapping and touching spans, alone and in pairs that
\* overlap, that touch, and that lie apart within one turnaround.
Mixed == {a :> On1(c, 0, 1), b :> On1(c, 0, 2), d :> On1(c, 1, 2),
          (a :> On1(c, 0, 1)) @@ (b :> On1(c, 0, 2)),
          (a :> On1(c, 0, 1)) @@ (d :> On1(c, 1, 2))}

\* The same span for two ids, on one resource.
Contended == {a :> On1(c, 0, 1), b :> On1(c, 0, 1)}

\* A batch across two resources beside a single request on one of them.
Kit == {(a :> On1(c, 0, 1)) @@ (d :> On1(p, 0, 1)), b :> On1(c, 0, 2)}

NoRuleRequests == {}
\* Hours on the grandparent, the child's own hours and a closure of it.
HierarchyRules == {RuleOn(b, g, 0, 2, "NonBlocking"),
                   RuleOn(d, c, 0, 1, "NonBlocking"),
                   RuleOn(d, c, 0, 2, "Blocking")}
===============================================================================
