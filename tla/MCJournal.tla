------------------------------- MODULE MCJournal ------------------------------
(* Instances of Journal for TLC. *)
EXTENDS Journal

CONSTANTS A, B, C,               \* resources
          h1, h2, b1, b2, x, y   \* intervals

Holding(ids, v) == [shape |-> 1, iv |-> [i \in Ids |-> IF i \in ids THEN <<v>> ELSE <<>>]]
Store(onA, onB) == [r \in {A, B} |-> IF r = A THEN Holding(onA, 1) ELSE Holding(onB, 1)]

Ask(kind, records) == [kind |-> kind, records |-> records]
Add(r, i, v)  == Change("add", r, i, v)
Drop(r, i, v) == Change("remove", r, i, v)

CommitBoth  == Ask("commit", << <<Drop(A, h1, 1), Add(A, b1, 1),
                                  Drop(B, h2, 1), Add(B, b2, 1)>> >>)
BookOne     == Ask("allocate", << <<Add(A, x, 2)>> >>)
CancelX     == Ask("free", << <<Drop(A, x, 2)>> >>)
ReleaseH1   == Ask("free", << <<Drop(A, h1, 1)>> >>)
HoldBoth    == Ask("allocate", << <<Add(A, x, 2)>>, <<Add(B, b2, 2)>> >>)
RuleOnB     == Ask("rule", << <<Add(B, b2, 3)>> >>)
ChangeRule  == Ask("rule", << <<Change("update", B, y, 4)>> >>)
ReshapeB    == Ask("reshape", << <<Change("reshape", B, B, 2)>> >>)
CreateB     == Ask("create", << <<Change("create", B, B, 1)>> >>)
CreateC     == Ask("create", << <<Change("create", C, C, 1)>> >>)
DeleteC     == Ask("delete", << <<Change("delete", C, C, 1)>> >>)
BookOnC     == Ask("allocate", << <<Add(C, y, 2)>> >>)

TwoHolds  == Store({h1}, {h2})
OneOld    == Store({h1}, {y})
OnlyA     == [r \in {A} |-> Holding({h1}, 1)]

CommitTraffic   == {CommitBoth, BookOne, CancelX, ReleaseH1,
                    CreateC, DeleteC, BookOnC}
RuleTraffic     == {HoldBoth, RuleOnB, ChangeRule, ReshapeB, CancelX}
JustCreate      == {CreateB}
===============================================================================
