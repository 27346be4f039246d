------------------------------ MODULE MCTopology ------------------------------
(* Instances of Topology for TLC. *)
EXTENDS Topology

CONSTANTS one, two

Entity(e, r) == [id |-> e, rid |-> r]
Creates == {Call("create", 1, None, {}), Call("create", 2, 1, {}), Call("create", 3, 2, {})}
Deletes == {Call("delete", r, None, {}) : r \in {1, 2}}
Adds    == {Call("add", None, None, {Entity(1, r)}) : r \in {1, 2}}
Batches == {Call("batch", None, None, {Entity(1, 2), Entity(2, 1)}),
            Call("batch", None, None, {Entity(1, 1), Entity(2, 2)})}
Removes == {Call("remove", None, None, {Entity(1, None)})}
Commits == {Call("commit", None, None, {[id |-> 1, rid |-> None, becomes |-> 3],
                                        [id |-> 2, rid |-> None, becomes |-> 4]})}
Reads   == {Call("read", 2, None, {})}
AllOperations == Creates \cup Deletes \cup Adds \cup Batches \cup Removes \cup Commits \cup Reads
===============================================================================
