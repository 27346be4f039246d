------------------------------ MODULE MCTimeline ------------------------------
(* Instances of Timeline for TLC. *)
EXTENDS Timeline

Rule(s, e, kind) == [id |-> "rule", start |-> s, end |-> e,
                     kind |-> kind, expires_at |-> 0]

\* No ancestor; a parent that only blocks, below a grandparent with split
\* hours; a scheduling parent that hides the grandparent's hours but not its
\* closure.
SomeChains == {
    <<>>,
    << <<Rule(1, 2, "Blocking")>>,
       <<Rule(0, 2, "NonBlocking"), Rule(2, 3, "NonBlocking")>> >>,
    << <<Rule(1, 2, "NonBlocking"), Rule(1, 3, "NonBlocking")>>,
       <<Rule(0, 3, "NonBlocking"), Rule(0, 2, "Blocking")>> >> }

\* Rules and bookings below every chain; holds and bookings on a shape that
\* has more to it, while the holds expire.
AllSettings ==
    {[kinds |-> {"NonBlocking", "Blocking", "Booking"}, capacities |-> {1, 2},
      buffers |-> {0, 1}, maxNow |-> 0, chain |-> c] : c \in SomeChains}
    \cup {[kinds |-> {"Hold", "Booking"}, capacities |-> {1, 2, 3},
           buffers |-> {0, 1, 2}, maxNow |-> 1, chain |-> <<>>]}

IdSymmetry == Permutations(Ids)
===============================================================================
