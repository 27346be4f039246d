----------------------------- MODULE TopologyProofs ---------------------------
(* Proofs about Topology, for any number of resources, callers, calls and  *)
(* restarts: the tree of resources, in memory and in the log.              *)
EXTENDS Topology, ListFacts

-------------------------------------------------------------------------------
(* The invariant.                                                          *)

OrNone == Resources \cup {None}

\* A call has its ten fields.
Plain(x) == x = [op |-> x.op, rid |-> x.rid, parent |-> x.parent, members |-> x.members,
                 at |-> x.at, todo |-> x.todo, tolock |-> x.tolock, arc |-> x.arc,
                 want |-> x.want, held |-> x.held]

Writes == {"add", "batch", "remove", "commit"}

\* A call that changes the tree takes no resource's write guard on its way.
CallOK(c) ==
    /\ Plain(call[c]) /\ IsFiniteSet(call[c].members)
    /\ call[c].at \in {"check", "append", "apply"} => call[c].op \in Reshaping \cup Writes
    /\ Shapes(c) => /\ call[c].rid \in Resources /\ call[c].parent \in OrNone
                    /\ call[c].todo = <<>> /\ call[c].tolock = <<>>
                    /\ call[c].at \in {"start", "shape", "unmap", "append", "drop"}

CallsOK == /\ call = [c \in Callers |-> call[c]]
           /\ \A c \in Callers : CallOK(c)

\* A state has its three fields, and the table leads to states.
ArcOK(x) == x = [id |-> x.id, parent |-> x.parent, items |-> x.items]
StoreOK == /\ IsSeq(arcs) /\ \A a \in DOMAIN arcs : ArcOK(arcs[a])
           /\ resources \in [Resources -> Nat]
           /\ children \in [Resources -> SUBSET Resources]
           /\ \A r \in Live : resources[r] \in DOMAIN arcs

\* A call that has checked the tree and not left it yet.
Changing(c) == Shapes(c) /\ call[c].at \in {"unmap", "append", "drop"}
Creating(c) == Changing(c) /\ call[c].op = "create"
Removing(c) == Changing(c) /\ call[c].op = "delete"

\* There is one at a time.
MutexOK == IsSeq(topology) /\ \A c \in Callers : Changing(c) => HasTopology(c)

\* What it has found still holds.
IntentOK ==
    \A c \in Callers :
        /\ Creating(c) => /\ call[c].at # "unmap" /\ call[c].rid \notin Live
                          /\ call[c].parent \in Live \cup {None}
        /\ Removing(c) => /\ call[c].rid \in Live /\ call[c].arc = resources[call[c].rid]
                          /\ \A r \in Live : get_parent(r) # call[c].rid

\* Parents exist, and know their children until these are being deleted.
RootedOK == \A r \in Live : get_parent(r) \in Live \cup {None}
CoverOK ==
    \A r \in Live : get_parent(r) # None =>
        \/ r \in children[get_parent(r)]
        \/ \E c \in Callers : Removing(c) /\ call[c].at # "unmap" /\ call[c].rid = r

\* Every resource has a depth, and so has one that is about to be made.
Depths(d) ==
    /\ \A r \in Live : d[r] = IF get_parent(r) = None THEN 0 ELSE d[get_parent(r)] + 1
    /\ \A c \in Callers : Creating(c) /\ call[c].parent # None =>
                              d[call[c].parent] + 1 <= MAX_HIERARCHY_DEPTH
DepthOK == \E d \in [Resources -> 0 .. MAX_HIERARCHY_DEPTH] : Depths(d)

\* What replay builds has its fields, and its parents know their children.
Formed(g) ==
    /\ g = [states |-> g.states, children |-> g.children, entity |-> g.entity]
    /\ g.states = [r \in Resources |-> g.states[r]]
    /\ g.children \in [Resources -> SUBSET Resources]
    /\ \A r \in Resources :
          /\ g.states[r] = [there |-> g.states[r].there, parent |-> g.states[r].parent,
                            items |-> g.states[r].items]
          /\ g.states[r].there \in BOOLEAN /\ g.states[r].parent \in OrNone
          /\ g.states[r].there /\ g.states[r].parent # None =>
                r \in g.children[g.states[r].parent]

\* A record that is in the log while memory does not have its change.
Owed(c, op, r) == call[c].op = op /\ call[c].at = "drop" /\ call[c].rid = r
Kept(r) == \/ r \in Live /\ ~\E c \in Callers : Owed(c, "delete", r)
           \/ \E c \in Callers : Owed(c, "create", r)

\* The log has the tree of memory, save for that.
Tied(g) ==
    /\ \A r \in Resources : g.states[r].there <=> Kept(r)
    /\ \A r \in Live : g.states[r].there => g.states[r].parent = get_parent(r)
    /\ \A c \in Callers : Owed(c, "create", call[c].rid) =>
                              g.states[call[c].rid].parent = call[c].parent

LogOK == IsSeq(log) /\ Formed(ReplayAll(log)) /\ Tied(ReplayAll(log))

TreeInv == /\ CallsOK /\ StoreOK /\ MutexOK /\ IntentOK /\ RootedOK /\ CoverOK
           /\ DepthOK /\ LogOK
-------------------------------------------------------------------------------
(* The run of a replay.                                                    *)

RunOf(f, s, m) ==
    f = [n \in 0 .. m |-> IF n = 0 THEN Nothing ELSE ReplayOne(f[n - 1], s[n])]

\* Replay has a run.
LEMMA RunExists ==
    ASSUME NEW s, IsSeq(s), NEW m \in Nat
    PROVE  \E f : RunOf(f, s, m)
  <1> DEFINE S == {k \in Nat : ~\E f : RunOf(f, s, k)}
  <1> SUFFICES ASSUME S # {} PROVE FALSE
    OBVIOUS
  <1>1. PICK x \in S : \A y \in S : x <= y
    BY FirstFailure
  <1>2. CASE x = 0
    <2> DEFINE f == [n \in 0 .. 0 |-> Nothing]
    <2>1. RunOf(f, s, 0)
      BY DEF RunOf
    <2> QED BY <1>1, <1>2, <2>1
  <1>3. CASE x # 0
    <2>1. x - 1 \in Nat /\ x \in Nat
      BY <1>3
    <2>2. x - 1 \notin S
      <3>1. ~ (x <= x - 1)
        BY <2>1
      <3> HIDE DEF S
      <3> QED BY <1>1, <3>1
    <2>3. PICK f : RunOf(f, s, x - 1)
      BY <2>1, <2>2
    <2> DEFINE g == [n \in 0 .. x |-> IF n = x THEN ReplayOne(f[x - 1], s[x]) ELSE f[n]]
    <2>a. DOMAIN f = 0 .. x - 1 /\ \A n \in 0 .. x - 1 : f[n] =
                IF n = 0 THEN Nothing ELSE ReplayOne(f[n - 1], s[n])
      BY <2>3, Zenon DEF RunOf
    <2>4. ASSUME NEW n \in 0 .. x
          PROVE  g[n] = IF n = 0 THEN Nothing ELSE ReplayOne(g[n - 1], s[n])
      <3>1. CASE n = 0
        <4>1. n # x /\ n \in 0 .. x - 1
          BY <2>1, <1>3, <3>1
        <4> QED BY <2>a, <3>1, <4>1
      <3>2. CASE n # 0
        <4>1. n - 1 \in 0 .. x /\ n - 1 # x /\ n - 1 \in 0 .. x - 1
          BY <2>1, <3>2
        <4>2. g[n - 1] = f[n - 1]
          BY <4>1
        <4>3. CASE n = x
          BY <3>2, <4>2, <4>3
        <4>4. CASE n # x
          <5>1. n \in 0 .. x - 1
            BY <2>1, <4>4
          <5> QED BY <2>a, <3>2, <4>2, <4>4, <5>1
        <4> QED BY <4>3, <4>4
      <3> QED BY <3>1, <3>2
    <2>5. g = [n \in 0 .. x |-> IF n = 0 THEN Nothing ELSE ReplayOne(g[n - 1], s[n])]
      <3>1. g = [n \in 0 .. x |-> g[n]]
        OBVIOUS
      <3> HIDE DEF g
      <3> QED BY <2>4, <3>1
    <2> QED BY <2>5 DEF RunOf
  <1> QED BY <1>2, <1>3

\* It has one, as far as the records are the same.
LEMMA RunsAgree ==
    ASSUME NEW s, NEW t, NEW f, NEW g, NEW m \in Nat, NEW k \in Nat, m <= k,
           RunOf(f, s, m), RunOf(g, t, k), \A n \in 1 .. m : s[n] = t[n]
    PROVE  \A n \in 0 .. m : f[n] = g[n]
  <1> DEFINE S == {n \in 0 .. m : f[n] # g[n]}
  <1> SUFFICES ASSUME S # {} PROVE FALSE
    OBVIOUS
  <1>0. S \subseteq Nat
    OBVIOUS
  <1>1. PICK x \in S : \A y \in S : x <= y
    <2> HIDE DEF S
    <2> QED BY <1>0, FirstFailure
  <1>2. /\ x \in 0 .. m /\ x \in 0 .. k
        /\ f[x] = IF x = 0 THEN Nothing ELSE ReplayOne(f[x - 1], s[x])
        /\ g[x] = IF x = 0 THEN Nothing ELSE ReplayOne(g[x - 1], t[x])
    <2>1. x \in 0 .. m
      BY <1>1
    <2>2. x \in 0 .. k
      BY ONLY <2>1, m \in Nat, k \in Nat, m <= k
    <2>3. f[x] = IF x = 0 THEN Nothing ELSE ReplayOne(f[x - 1], s[x])
      BY ONLY <2>1, RunOf(f, s, m), Zenon DEF RunOf
    <2>4. g[x] = IF x = 0 THEN Nothing ELSE ReplayOne(g[x - 1], t[x])
      BY ONLY <2>2, RunOf(g, t, k), Zenon DEF RunOf
    <2> QED BY <2>1, <2>2, <2>3, <2>4
  <1>3. x # 0
    BY <1>1, <1>2
  <1>4. x - 1 \in 0 .. m /\ ~ (x <= x - 1) /\ x \in 1 .. m
    BY <1>2, <1>3
  <1>5. f[x - 1] = g[x - 1]
    <2>1. x - 1 \notin S
      <3> HIDE DEF S
      <3> QED BY <1>1, <1>4
    <2> QED BY <1>4, <2>1
  <1> QED BY <1>1, <1>2, <1>3, <1>4, <1>5

\* Replay is where its run ends.
LEMMA ReplayEnds ==
    ASSUME NEW s, IsSeq(s)
    PROVE  \E f : RunOf(f, s, Len(s)) /\ ReplayAll(s) = f[Len(s)]
  <1>1. Len(s) \in Nat
    BY Sequences
  <1> DEFINE after == CHOOSE f : f = [n \in 0 .. Len(s) |-> IF n = 0 THEN Nothing
                                                 ELSE ReplayOne(f[n - 1], s[n])]
  <1>2. after = [n \in 0 .. Len(s) |-> IF n = 0 THEN Nothing ELSE ReplayOne(after[n - 1], s[n])]
    <2>1. \E f : f = [n \in 0 .. Len(s) |-> IF n = 0 THEN Nothing ELSE ReplayOne(f[n - 1], s[n])]
      BY <1>1, RunExists, Zenon DEF RunOf
    <2> QED BY <2>1, Zenon
  <1>3. ReplayAll(s) = after[Len(s)]
    BY Zenon DEF ReplayAll
  <1> HIDE DEF after
  <1> QED BY <1>2, <1>3, Zenon DEF RunOf

\* Replay goes record by record.
LEMMA ReplayIsStepwise ==
    /\ ReplayAll(<<>>) = Nothing
    /\ \A s, x : IsSeq(s) => ReplayAll(Append(s, x)) = ReplayOne(ReplayAll(s), x)
  <1>1. ReplayAll(<<>>) = Nothing
    <2>1. IsSeq(<<>>) /\ Len(<<>>) = 0
      BY DEF IsSeq
    <2>2. PICK f : RunOf(f, <<>>, 0) /\ ReplayAll(<<>>) = f[0]
      BY <2>1, ReplayEnds
    <2> QED BY <2>2 DEF RunOf
  <1>2. ASSUME NEW s, NEW x, IsSeq(s)
        PROVE  ReplayAll(Append(s, x)) = ReplayOne(ReplayAll(s), x)
    <2> PICK t : t = Append(s, x)
      OBVIOUS
    <2>1. /\ IsSeq(t) /\ Len(s) \in Nat /\ Len(t) = Len(s) + 1 /\ t[Len(s) + 1] = x
          /\ \A n \in 1 .. Len(s) : s[n] = t[n]
      BY <1>2, Sequences
    <2>2. PICK f : RunOf(f, s, Len(s)) /\ ReplayAll(s) = f[Len(s)]
      BY <1>2, ReplayEnds
    <2>3. PICK g : RunOf(g, t, Len(s) + 1) /\ ReplayAll(t) = g[Len(s) + 1]
      BY <2>1, ReplayEnds
    <2> PICK m : m = Len(s)
      OBVIOUS
    <2>4. m \in Nat /\ m + 1 \in Nat /\ m <= m + 1
      BY <2>1
    <2>5. f[m] = g[m]
      BY ONLY <2>1, <2>2, <2>3, <2>4, RunsAgree, m = Len(s)
    <2>6. /\ m + 1 \in 0 .. m + 1 /\ m + 1 # 0 /\ (m + 1) - 1 = m
      BY <2>4
    <2>7. g[m + 1] = ReplayOne(g[m], x)
      <3>1. g[m + 1] = IF m + 1 = 0 THEN Nothing ELSE ReplayOne(g[(m + 1) - 1], t[m + 1])
        BY <2>3, <2>6 DEF RunOf
      <3> QED BY <2>1, <2>6, <3>1
    <2> QED BY <2>2, <2>3, <2>5, <2>7
  <1> QED BY <1>1, <1>2

\* Records of entities leave the tree alone.
OfEntity(rec) == rec.op \notin Reshaping
SameTree(g, h) ==
    /\ h.children = g.children
    /\ \A r \in Resources : /\ h.states[r].there = g.states[r].there
                            /\ h.states[r].parent = g.states[r].parent

\* One of them does.
LEMMA EntityRecord ==
    ASSUME NEW g, Formed(g), NEW rec, OfEntity(rec)
    PROVE  Formed(ReplayOne(g, rec)) /\ SameTree(g, ReplayOne(g, rec))
  <1> DEFINE there == {r \in Resources : g.states[r].there}
             h == ReplayOne(g, rec)
  <1>1. rec.op # "create" /\ rec.op # "delete"
    BY DEF OfEntity, Reshaping
  <1> PICK states, entities :
        /\ states = [r \in Resources |->
                        IF r \in there
                        THEN [g.states[r] EXCEPT !.items = ItemsAfter(@, rec, r)]
                        ELSE g.states[r]]
        /\ entities = IndexAfter(g.entity, rec, there)
    OBVIOUS
  <1>2. h = [states |-> states, children |-> g.children, entity |-> entities]
    BY <1>1, Zenon DEF ReplayOne
  <1>4. h = [states |-> h.states, children |-> h.children, entity |-> h.entity]
    BY ONLY <1>2
  <1>5. /\ h.states = [r \in Resources |->
                        IF r \in there
                        THEN [g.states[r] EXCEPT !.items = ItemsAfter(@, rec, r)]
                        ELSE g.states[r]]
        /\ h.children = g.children
    <2>1. h.states = states /\ h.children = g.children
      BY ONLY <1>2
    <2> QED BY <2>1
  <1> HIDE DEF h, there
  <1>6. ASSUME NEW r \in Resources
        PROVE  /\ h.states[r] = [there |-> h.states[r].there, parent |-> h.states[r].parent,
                                 items |-> h.states[r].items]
               /\ h.states[r].there = g.states[r].there
               /\ h.states[r].parent = g.states[r].parent
    <2>1. g.states[r] = [there |-> g.states[r].there, parent |-> g.states[r].parent,
                         items |-> g.states[r].items]
      BY DEF Formed
    <2>2. h.states[r] = IF r \in there
                        THEN [g.states[r] EXCEPT !.items = ItemsAfter(@, rec, r)]
                        ELSE g.states[r]
      BY <1>5
    <2> QED BY <2>1, <2>2
  <1>7. h.states = [r \in Resources |-> h.states[r]]
    BY <1>5
  <1> QED BY <1>4, <1>5, <1>6, <1>7 DEF Formed, SameTree, h

\* Any number of them do.
LEMMA EntityRecords ==
    ASSUME NEW s, NEW t, IsSeq(s), IsSeq(t), \A n \in 1 .. Len(t) : OfEntity(t[n]),
           Formed(ReplayAll(s))
    PROVE  Formed(ReplayAll(s \o t)) /\ SameTree(ReplayAll(s), ReplayAll(s \o t))
  <1> PICK m, k, u : m = Len(s) /\ k = Len(t) /\ u = s \o t
    OBVIOUS
  <1>1. m \in Nat /\ k \in Nat /\ m + k \in Nat /\ m <= m + k /\ Len(u) = m + k /\ IsSeq(u)
    BY Sequences, Concatenated
  <1>2. /\ \A n \in 1 .. m : s[n] = u[n]
        /\ \A n \in 1 .. k : u[m + n] = t[n]
    BY Concatenated
  <1>3. PICK f : RunOf(f, s, m) /\ ReplayAll(s) = f[m]
    BY ReplayEnds
  <1>4. PICK g : RunOf(g, u, m + k) /\ ReplayAll(u) = g[m + k]
    BY <1>1, ReplayEnds
  <1>5. f[m] = g[m]
    BY ONLY <1>1, <1>2, <1>3, <1>4, RunsAgree
  <1> DEFINE Good(n) == Formed(g[m + n]) /\ SameTree(f[m], g[m + n])
             S == {n \in 0 .. k : ~Good(n)}
  <1>6. S = {}
    <2> SUFFICES ASSUME S # {} PROVE FALSE
      OBVIOUS
    <2>0. S \subseteq Nat
      OBVIOUS
    <2>1. PICK x \in S : \A y \in S : x <= y
      <3> HIDE DEF S
      <3> QED BY <2>0, FirstFailure
    <2>2. Good(0)
      <3>1. m + 0 = m
        BY <1>1
      <3>2. Formed(g[m]) /\ SameTree(f[m], g[m])
        BY <1>3, <1>5 DEF SameTree
      <3> QED BY <3>1, <3>2
    <2>3. x # 0 /\ x \in 0 .. k
      BY <2>1, <2>2
    <2>4. x - 1 \in 0 .. k /\ ~ (x <= x - 1) /\ x \in 1 .. k
      BY <2>3, <1>1
    <2>5. Good(x - 1)
      <3>1. x - 1 \notin S
        <4> HIDE DEF S
        <4> QED BY <2>1, <2>4
      <3> QED BY <2>4, <3>1
    <2>6. /\ m + x \in 0 .. m + k /\ m + x # 0 /\ (m + x) - 1 = m + (x - 1)
      BY <1>1, <2>4
    <2>7. g[m + x] = ReplayOne(g[m + (x - 1)], t[x])
      <3>1. g[m + x] = IF m + x = 0 THEN Nothing ELSE ReplayOne(g[(m + x) - 1], u[m + x])
        BY ONLY <1>4, <2>6 DEF RunOf
      <3> QED BY <1>2, <2>4, <2>6, <3>1
    <2>8. /\ Formed(g[m + x]) /\ SameTree(g[m + (x - 1)], g[m + x])
      <3>1. Formed(g[m + (x - 1)]) /\ OfEntity(t[x])
        BY <2>4, <2>5
      <3> QED BY <2>7, <3>1, EntityRecord
    <2>9. SameTree(f[m], g[m + x])
      BY <2>5, <2>8 DEF SameTree
    <2> QED BY <2>1, <2>8, <2>9
  <1>7. Good(k)
    <2>1. k \in 0 .. k
      BY <1>1
    <2> QED BY <1>6, <2>1
  <1> QED BY <1>3, <1>4, <1>7

\* The record of a create.
LEMMA CreateRecord ==
    ASSUME NEW g, Formed(g), NEW r \in Resources, NEW p \in OrNone, NEW h,
           h = ReplayOne(g, Record("create", None, r, p, {}))
    PROVE  /\ Formed(h) /\ h.states[r].there /\ h.states[r].parent = p
           /\ h.states[r].items = {} /\ h.entity = g.entity
           /\ \A x \in Resources \ {r} : h.states[x] = g.states[x]
  <1> PICK states, kids :
        /\ states = [g.states EXCEPT ![r] = [there |-> TRUE, parent |-> p, items |-> {}]]
        /\ kids = IF p = None THEN g.children
                  ELSE [g.children EXCEPT ![p] = @ \cup {r}]
    OBVIOUS
  <1>1. h = [states |-> states, children |-> kids, entity |-> g.entity]
    BY Zenon DEF ReplayOne, Record
  <1>2. h.states = states /\ h.children = kids /\ h.entity = g.entity
    BY ONLY <1>1
  <1>3. states = [x \in Resources |-> states[x]]
    BY DEF Formed
  <1>4. kids \in [Resources -> SUBSET Resources]
    BY DEF Formed, OrNone
  <1>5. /\ states[r] = [there |-> TRUE, parent |-> p, items |-> {}]
        /\ \A x \in Resources \ {r} : states[x] = g.states[x]
    BY DEF Formed
  <1>a. states[r].there = TRUE /\ states[r].parent = p /\ states[r].items = {}
    BY ONLY <1>5
  <1>6. ASSUME NEW x \in Resources
        PROVE  /\ states[x] = [there |-> states[x].there, parent |-> states[x].parent,
                               items |-> states[x].items]
               /\ states[x].there \in BOOLEAN /\ states[x].parent \in OrNone
               /\ states[x].there /\ states[x].parent # None => x \in kids[states[x].parent]
    <2>1. CASE x = r
      <3>1. p # None => r \in kids[p]
        BY DEF Formed, OrNone
      <3> QED BY ONLY <1>a, <1>5, <2>1, <3>1, p \in OrNone
    <2>2. CASE x # r
      <3>1. /\ g.states[x] = [there |-> g.states[x].there, parent |-> g.states[x].parent,
                              items |-> g.states[x].items]
            /\ g.states[x].there \in BOOLEAN /\ g.states[x].parent \in OrNone
            /\ g.states[x].there /\ g.states[x].parent # None =>
                    x \in g.children[g.states[x].parent]
        BY DEF Formed
      <3>2. \A y \in Resources : g.children[y] \subseteq kids[y]
        BY DEF Formed, OrNone
      <3>3. states[x] = g.states[x]
        BY <1>5, <2>2
      <3>4. g.states[x].parent # None => g.states[x].parent \in Resources
        BY <3>1 DEF OrNone
      <3> QED BY ONLY <3>1, <3>2, <3>3, <3>4
    <2> QED BY <2>1, <2>2
  <1>7. Formed(h)
    BY ONLY <1>1, <1>2, <1>3, <1>4, <1>6 DEF Formed
  <1> QED BY ONLY <1>2, <1>5, <1>a, <1>7

\* The record of a delete.
LEMMA DeleteRecord ==
    ASSUME NEW g, Formed(g), NEW r \in Resources, NEW p \in OrNone, NEW h,
           h = ReplayOne(g, Record("delete", None, r, p, {}))
    PROVE  /\ Formed(h) /\ ~h.states[r].there /\ h.states[r].items = {} /\ h.entity = g.entity
           /\ \A x \in Resources \ {r} : h.states[x] = g.states[x]
  <1> PICK states, kids :
        /\ states = [g.states EXCEPT ![r] = [there |-> FALSE, parent |-> None, items |-> {}]]
        /\ kids = [x \in Resources |-> g.children[x] \ {r}]
    OBVIOUS
  <1>1. h = [states |-> states, children |-> kids, entity |-> g.entity]
    BY Zenon DEF ReplayOne, Record
  <1>2. h.states = states /\ h.children = kids /\ h.entity = g.entity
    BY ONLY <1>1
  <1>3. states = [x \in Resources |-> states[x]]
    BY DEF Formed
  <1>4. kids \in [Resources -> SUBSET Resources]
    BY DEF Formed, OrNone
  <1>5. /\ states[r] = [there |-> FALSE, parent |-> None, items |-> {}]
        /\ \A x \in Resources \ {r} : states[x] = g.states[x]
    BY DEF Formed
  <1>a. states[r].there = FALSE /\ states[r].parent = None /\ states[r].items = {}
    BY ONLY <1>5
  <1>6. ASSUME NEW x \in Resources
        PROVE  /\ states[x] = [there |-> states[x].there, parent |-> states[x].parent,
                               items |-> states[x].items]
               /\ states[x].there \in BOOLEAN /\ states[x].parent \in OrNone
               /\ states[x].there /\ states[x].parent # None => x \in kids[states[x].parent]
    <2>1. CASE x = r
      BY ONLY <1>a, <1>5, <2>1 DEF OrNone
    <2>2. CASE x # r
      <3>1. /\ g.states[x] = [there |-> g.states[x].there, parent |-> g.states[x].parent,
                              items |-> g.states[x].items]
            /\ g.states[x].there \in BOOLEAN /\ g.states[x].parent \in OrNone
            /\ g.states[x].there /\ g.states[x].parent # None =>
                    x \in g.children[g.states[x].parent]
        BY DEF Formed
      <3>2. \A y \in Resources : x \in g.children[y] => x \in kids[y]
        BY <2>2
      <3>3. states[x] = g.states[x]
        BY <1>5, <2>2
      <3>4. g.states[x].parent # None => g.states[x].parent \in Resources
        BY <3>1 DEF OrNone
      <3> QED BY ONLY <3>1, <3>2, <3>3, <3>4
    <2> QED BY <2>1, <2>2
  <1>7. Formed(h)
    BY ONLY <1>1, <1>2, <1>3, <1>4, <1>6 DEF Formed
  <1> QED BY ONLY <1>2, <1>5, <1>a, <1>7

-------------------------------------------------------------------------------
(* The walk up the tree is as long as its start is deep.                   *)

ClimbOf(f, r, m) ==
    f = [n \in 0 .. m |-> IF n = 0 THEN r
                          ELSE IF f[n - 1] = None THEN None ELSE get_parent(f[n - 1])]

\* The walk is what its definition says.
LEMMA WalkIs ==
    ASSUME NEW r
    PROVE  ClimbOf(Walk(r), r, MAX_HIERARCHY_DEPTH + 1)
  <1> PICK M : M = MAX_HIERARCHY_DEPTH + 1
    OBVIOUS
  <1>0. M \in Nat
    BY TopologyAssumption
  <1>1. \E f : ClimbOf(f, r, M)
    <2> DEFINE S == {k \in Nat : ~\E f : ClimbOf(f, r, k)}
    <2> SUFFICES ASSUME S # {} PROVE FALSE
      BY <1>0
    <2>1. PICK x \in S : \A y \in S : x <= y
      BY FirstFailure
    <2>2. CASE x = 0
      <3> DEFINE f == [n \in 0 .. 0 |-> r]
      <3>1. ClimbOf(f, r, 0)
        BY DEF ClimbOf
      <3> QED BY <2>1, <2>2, <3>1
    <2>3. CASE x # 0
      <3>1. x - 1 \in Nat /\ x \in Nat
        BY <2>3
      <3>2. x - 1 \notin S
        <4>1. ~ (x <= x - 1)
          BY <3>1
        <4> HIDE DEF S
        <4> QED BY <2>1, <4>1
      <3>3. PICK f : ClimbOf(f, r, x - 1)
        BY <3>1, <3>2
      <3> DEFINE g == [n \in 0 .. x |-> IF n = x THEN IF f[x - 1] = None THEN None
                                                      ELSE get_parent(f[x - 1])
                                        ELSE f[n]]
      <3>4. \A n \in 0 .. x - 1 : f[n] =
                IF n = 0 THEN r ELSE IF f[n - 1] = None THEN None ELSE get_parent(f[n - 1])
        BY <3>3, Zenon DEF ClimbOf
      <3>5. ASSUME NEW n \in 0 .. x
            PROVE  g[n] = IF n = 0 THEN r
                          ELSE IF g[n - 1] = None THEN None ELSE get_parent(g[n - 1])
        <4>1. CASE n = 0
          <5>1. n # x /\ n \in 0 .. x - 1
            BY <3>1, <2>3, <4>1
          <5> QED BY <3>4, <4>1, <5>1
        <4>2. CASE n # 0
          <5>1. n - 1 \in 0 .. x /\ n - 1 # x
            BY <3>1, <4>2
          <5>2. g[n - 1] = f[n - 1]
            BY <5>1
          <5>3. CASE n = x
            BY <4>2, <5>2, <5>3
          <5>4. CASE n # x
            <6>1. n \in 0 .. x - 1
              BY <3>1, <5>4
            <6> QED BY <3>4, <4>2, <5>2, <5>4, <6>1
          <5> QED BY <5>3, <5>4
        <4> QED BY <4>1, <4>2
      <3>6. g = [n \in 0 .. x |-> IF n = 0 THEN r
                                  ELSE IF g[n - 1] = None THEN None ELSE get_parent(g[n - 1])]
        <4>1. g = [n \in 0 .. x |-> g[n]]
          OBVIOUS
        <4> HIDE DEF g
        <4> QED BY <3>5, <4>1
      <3> QED BY <3>6 DEF ClimbOf
    <2> QED BY <2>2, <2>3
  <1>2. Walk(r) = CHOOSE f : f = [n \in 0 .. M |-> IF n = 0 THEN r
                          ELSE IF f[n - 1] = None THEN None ELSE get_parent(f[n - 1])]
    BY Zenon DEF Walk
  <1> QED BY <1>1, <1>2, Zenon DEF ClimbOf

\* A resource has as many ancestors as it is deep.
LEMMA DepthIsLength ==
    ASSUME RootedOK, NEW d \in [Resources -> 0 .. MAX_HIERARCHY_DEPTH],
           \A r \in Live : d[r] = IF get_parent(r) = None THEN 0 ELSE d[get_parent(r)] + 1,
           NEW r \in Live
    PROVE  Len(Ancestors(r)) = d[r]
  <1> PICK M, w : M = MAX_HIERARCHY_DEPTH /\ w = Walk(r)
    OBVIOUS
  <1>0. M \in Nat /\ None \notin Live /\ Live \subseteq Resources /\ d[r] \in 0 .. M
    BY TopologyAssumption DEF Live, None
  <1>1. \A n \in 0 .. M + 1 : w[n] =
            IF n = 0 THEN r ELSE IF w[n - 1] = None THEN None ELSE get_parent(w[n - 1])
    <2>1. ClimbOf(w, r, M + 1)
      BY WalkIs
    <2> QED BY <2>1, Zenon DEF ClimbOf
  <1> DEFINE Good(n) == /\ n <= d[r] => w[n] \in Live /\ d[w[n]] = d[r] - n
                        /\ n > d[r] => w[n] = None
             S == {n \in 0 .. M + 1 : ~Good(n)}
  <1>2. S = {}
    <2> SUFFICES ASSUME S # {} PROVE FALSE
      OBVIOUS
    <2>0. S \subseteq Nat
      BY <1>0
    <2>1. PICK x \in S : \A y \in S : x <= y
      <3> HIDE DEF S
      <3> QED BY <2>0, FirstFailure
    <2>2. x \in 0 .. M + 1 /\ ~Good(x)
      BY <2>1
    <2>3. x # 0
      <3>1. CASE x = 0
        <4>1. w[0] = r
          BY <1>0, <1>1
        <4>2. Good(0)
          BY <1>0, <4>1
        <4> QED BY <2>2, <3>1, <4>2
      <3> QED BY <3>1
    <2>4. x - 1 \in 0 .. M + 1 /\ ~ (x <= x - 1)
      BY <1>0, <2>2, <2>3
    <2>5. Good(x - 1)
      <3>1. x - 1 \notin S
        <4> HIDE DEF S
        <4> QED BY <2>1, <2>4
      <3> QED BY <2>4, <3>1
    <2>6. w[x] = IF w[x - 1] = None THEN None ELSE get_parent(w[x - 1])
      BY <1>1, <2>2, <2>3
    <2>7. CASE x <= d[r]
      <3>1. x - 1 <= d[r] /\ ~ (x > d[r]) /\ d[r] - (x - 1) # 0 /\ d[r] - (x - 1) = (d[r] - x) + 1
        BY <1>0, <2>2, <2>7
      <3>2. w[x - 1] \in Live /\ d[w[x - 1]] = d[r] - (x - 1)
        BY <2>5, <3>1
      <3>3. w[x] = get_parent(w[x - 1])
        BY <1>0, <2>6, <3>2
      <3>4. get_parent(w[x - 1]) # None /\ d[w[x - 1]] = d[get_parent(w[x - 1])] + 1
        BY <3>1, <3>2
      <3>5. w[x] \in Live
        BY <3>2, <3>3, <3>4 DEF RootedOK
      <3>6. d[w[x]] \in Int /\ d[w[x]] + 1 = (d[r] - x) + 1
        BY <1>0, <3>1, <3>2, <3>3, <3>4, <3>5
      <3>7. d[w[x]] = d[r] - x
        BY <1>0, <2>2, <3>6
      <3> QED BY <2>2, <3>1, <3>5, <3>7
    <2>8. CASE ~ (x <= d[r])
      <3>1. x > d[r]
        BY <1>0, <2>2, <2>8
      <3>2. CASE x - 1 > d[r]
        <4>1. w[x - 1] = None
          BY <2>5, <3>2
        <4> QED BY <2>2, <2>6, <2>8, <4>1
      <3>3. CASE ~ (x - 1 > d[r])
        <4>1. x - 1 <= d[r] /\ d[r] - (x - 1) = 0
          BY <1>0, <2>2, <3>1, <3>3
        <4>2. w[x - 1] \in Live /\ d[w[x - 1]] = 0
          BY <2>5, <4>1
        <4>3. get_parent(w[x - 1]) = None
          <5>1. CASE get_parent(w[x - 1]) # None
            <6>1. get_parent(w[x - 1]) \in Live
              BY <4>2, <5>1 DEF RootedOK
            <6>2. d[get_parent(w[x - 1])] \in 0 .. M /\ 0 = d[get_parent(w[x - 1])] + 1
              BY <1>0, <4>2, <5>1, <6>1
            <6> QED BY <1>0, <6>2
          <5> QED BY <5>1
        <4> QED BY <2>2, <2>6, <2>8, <4>2, <4>3
      <3> QED BY <3>2, <3>3
    <2> QED BY <2>7, <2>8
  <1>3. \A n \in 0 .. M + 1 : Good(n)
    BY <1>2
  <1>4. {k \in 1 .. M + 1 : w[k] # None} = 1 .. d[r]
    <2>1. ASSUME NEW k \in 1 .. M + 1 PROVE w[k] # None <=> k <= d[r]
      <3>1. k \in 0 .. M + 1 /\ d[r] \in Int /\ (~ (k <= d[r]) <=> k > d[r])
        BY <1>0
      <3> QED BY <1>0, <1>3, <3>1
    <2> HIDE DEF Good
    <2> QED BY <1>0, <2>1
  <1>5. Ancestors(r) = [n \in 1 .. d[r] |-> w[n]]
    BY <1>4 DEF Ancestors
  <1>6. d[r] \in Nat
    BY <1>0
  <1> HIDE DEF Good, S
  <1> QED BY <1>5, <1>6

-------------------------------------------------------------------------------
(* Steps that leave the tree alone.                                        *)

\* What a call may become: its fields stay its fields.
FitsCall(x) ==
    /\ Plain(x) /\ IsFiniteSet(x.members)
    /\ x.at \in {"check", "append", "apply"} => x.op \in Reshaping \cup Writes
    /\ x.op \in Reshaping =>
          /\ x.rid \in Resources /\ x.parent \in OrNone
          /\ x.todo = <<>> /\ x.tolock = <<>>
          /\ x.at \in {"start", "shape", "unmap", "append", "drop"}
Aside(x) == ~ (x.op \in Reshaping /\ x.at \in {"unmap", "append", "drop"})

\* The caller's own line changes, and no other.
LEMMA OneCall ==
    ASSUME CallsOK, NEW c \in Callers, NEW new, call' = [call EXCEPT ![c] = new]
    PROVE  /\ call'[c] = new /\ \A b \in Callers \ {c} : call'[b] = call[b]
           /\ call' = [b \in Callers |-> call'[b]]
           /\ FitsCall(new) => CallsOK'
  <1>1. call = [b \in Callers |-> call[b]]
    BY DEF CallsOK
  <1>2. /\ call'[c] = new /\ \A b \in Callers \ {c} : call'[b] = call[b]
        /\ call' = [b \in Callers |-> call'[b]]
    BY ONLY <1>1, c \in Callers, call' = [call EXCEPT ![c] = new]
  <1>3. ASSUME FitsCall(new), NEW b \in Callers PROVE CallOK(b)'
    <2>1. CASE b = c
      BY ONLY <1>2, <1>3, <2>1 DEF CallOK, FitsCall, Shapes
    <2>2. CASE b # c
      <3>1. CallOK(b)
        BY DEF CallsOK
      <3>2. call'[b] = call[b]
        BY <1>2, <1>3, <2>2
      <3> QED BY ONLY <3>1, <3>2 DEF CallOK, Shapes
    <2> QED BY <2>1, <2>2
  <1> QED BY <1>2, <1>3 DEF CallsOK

SameArcs ==
    /\ IsSeq(arcs') /\ DOMAIN arcs' = DOMAIN arcs
    /\ \A a \in DOMAIN arcs : ArcOK(arcs'[a]) /\ arcs'[a].parent = arcs[a].parent
    /\ resources' = resources /\ children' = children
SameLog ==
    /\ IsSeq(log') /\ Formed(ReplayAll(log)') /\ SameTree(ReplayAll(log), ReplayAll(log)')
OthersWait(c) ==
    IsSeq(topology') /\ \A b \in Callers \ {c} : HasTopology(b) => HasTopology(b)'

\* With the states' parents, every parent is what it was.
LEMMA SameParents ==
    ASSUME StoreOK, SameArcs
    PROVE  /\ StoreOK' /\ Live' = Live
           /\ \A r \in Resources : get_parent(r)' = get_parent(r)
  <1>1. Live' = Live
    BY DEF Live, SameArcs
  <1>2. ASSUME NEW r \in Resources PROVE get_parent(r)' = get_parent(r)
    BY DEF get_parent, SameArcs, StoreOK, Live
  <1>3. StoreOK'
    BY <1>1 DEF StoreOK, SameArcs
  <1> QED BY <1>1, <1>2, <1>3

\* A call that is not changing the tree, and does not begin to, may do what it
\* likes with the rest.
LEMMA Quiet ==
    ASSUME TreeInv, NEW c \in Callers, NEW new, call' = [call EXCEPT ![c] = new],
           FitsCall(new), Aside(new), Aside(call[c]), SameArcs, SameLog, OthersWait(c)
    PROVE  TreeInv'
  <1>1. /\ CallsOK /\ StoreOK /\ MutexOK /\ IntentOK /\ RootedOK /\ CoverOK
        /\ DepthOK /\ LogOK
    BY DEF TreeInv
  <1>2. /\ CallsOK' /\ call'[c] = new /\ \A b \in Callers \ {c} : call'[b] = call[b]
    BY <1>1, OneCall
  <1>3. /\ StoreOK' /\ Live' = Live
        /\ \A r \in Resources : get_parent(r)' = get_parent(r)
    BY <1>1, SameParents
  <1>4. ~Changing(c) /\ ~Changing(c)'
    BY <1>2 DEF Changing, Shapes, Aside
  <1>5. \A b \in Callers : Changing(b)' <=> Changing(b)
    BY <1>2, <1>4 DEF Changing, Shapes
  <1>a. \A b \in Callers : /\ Creating(b)' <=> Creating(b)
                           /\ Removing(b)' <=> Removing(b)
                           /\ Changing(b) => call'[b] = call[b]
    BY <1>2, <1>4, <1>5 DEF Creating, Removing
  <1>6. MutexOK'
    <2>1. ASSUME NEW b \in Callers, Changing(b)' PROVE HasTopology(b)'
      <3>1. Changing(b) /\ b # c
        BY <1>4, <1>5, <2>1
      <3> QED BY <1>1, <3>1 DEF MutexOK, OthersWait
    <2> QED BY <2>1 DEF MutexOK, OthersWait
  <1>7. IntentOK'
    <2> SUFFICES ASSUME NEW b \in Callers
                 PROVE  /\ Creating(b) =>
                             /\ call[b].at # "unmap" /\ call[b].rid \notin Live
                             /\ call[b].parent \in Live \cup {None}
                        /\ Removing(b) =>
                             /\ call[b].rid \in Live /\ call[b].arc = resources[call[b].rid]
                             /\ \A r \in Live : get_parent(r)' # call[b].rid
      BY <1>3, <1>a DEF IntentOK, Creating, Removing, SameArcs
    <2>1. Live \subseteq Resources
      BY DEF Live
    <2> QED BY <1>1, <1>3, <2>1 DEF IntentOK
  <1>8. RootedOK'
    BY <1>1, <1>3 DEF RootedOK, Live
  <1>9. CoverOK'
    <2> SUFFICES ASSUME NEW r \in Live, get_parent(r) # None
                 PROVE  \/ r \in children[get_parent(r)]
                        \/ \E b \in Callers : /\ Removing(b)' /\ call'[b].at # "unmap"
                                              /\ call'[b].rid = r
      BY <1>3 DEF CoverOK, Live, SameArcs
    <2>1. CASE r \in children[get_parent(r)]
      BY <2>1
    <2>2. CASE r \notin children[get_parent(r)]
      <3>1. PICK b \in Callers : Removing(b) /\ call[b].at # "unmap" /\ call[b].rid = r
        BY <1>1, <2>2 DEF CoverOK
      <3>2. Removing(b)' /\ call'[b].at # "unmap" /\ call'[b].rid = r
        BY <1>a, <3>1 DEF Removing
      <3> QED BY <3>2
    <2> QED BY <2>1, <2>2
  <1>10. DepthOK'
    <2>1. PICK d \in [Resources -> 0 .. MAX_HIERARCHY_DEPTH] : Depths(d)
      BY <1>1 DEF DepthOK
    <2>2. ASSUME NEW b \in Callers, Creating(b)', call'[b].parent # None
          PROVE  d[call'[b].parent] + 1 <= MAX_HIERARCHY_DEPTH
      <3>1. Creating(b) /\ call'[b] = call[b]
        BY <1>a, <2>2 DEF Creating
      <3> QED BY <2>1, <2>2, <3>1 DEF Depths
    <2>3. \A r \in Live : d[r] = IF get_parent(r)' = None THEN 0 ELSE d[get_parent(r)'] + 1
      <3>1. Live \subseteq Resources
        BY DEF Live
      <3> QED BY <1>3, <2>1, <3>1 DEF Depths
    <2>4. Depths(d)'
      BY <1>3, <2>2, <2>3 DEF Depths
    <2> QED BY <2>4 DEF DepthOK
  <1>11. LogOK'
    <2> PICK g, h : g = ReplayAll(log) /\ h = ReplayAll(log)'
      OBVIOUS
    <2>1. Tied(g) /\ SameTree(g, h)
      BY <1>1 DEF LogOK, SameLog
    <2>2. ASSUME NEW b \in Callers, NEW op \in Reshaping, NEW r
          PROVE  Owed(b, op, r)' <=> Owed(b, op, r)
      BY <1>2, <1>4 DEF Owed, Changing, Shapes
    <2>3. \A r \in Resources : Kept(r)' <=> Kept(r)
      BY <1>3, <2>2 DEF Kept, Reshaping
    <2>4. \A r \in Resources : h.states[r].there <=> Kept(r)'
      BY <2>1, <2>3 DEF Tied, SameTree
    <2>5. \A r \in Live : h.states[r].there => h.states[r].parent = get_parent(r)'
      BY <1>3, <2>1 DEF Tied, SameTree, Live
    <2>6. ASSUME NEW b \in Callers, Owed(b, "create", call[b].rid)'
          PROVE  h.states[call'[b].rid].parent = call'[b].parent
      <3>1. Owed(b, "create", call'[b].rid) /\ b # c /\ call'[b] = call[b]
        BY <1>2, <1>4, <2>6 DEF Owed, Changing, Shapes, Reshaping
      <3>2. call[b].rid \in Resources
        BY <1>1, <3>1 DEF Owed, CallsOK, CallOK, Shapes, Reshaping
      <3> QED BY <2>1, <3>1, <3>2 DEF Tied, SameTree
    <2>7. Tied(h)'
      BY <1>3, <2>4, <2>5, <2>6 DEF Tied
    <2> QED BY <2>7 DEF LogOK, SameLog
  <1> QED BY <1>2, <1>3, <1>6, <1>7, <1>8, <1>9, <1>10, <1>11 DEF TreeInv

\* Who is first in line stays first until it leaves.
LEMMA Lines ==
    ASSUME MutexOK, NEW c \in Callers,
           topology' = topology \/ topology' = Append(topology, c) \/ topology' = Past(c)
    PROVE  OthersWait(c)
  <1>0. IsSeq(topology)
    BY DEF MutexOK
  <1>1. CASE topology' = topology
    BY <1>0, <1>1 DEF OthersWait, HasTopology
  <1>2. CASE topology' = Append(topology, c)
    <2>1. IsSeq(topology')
      BY <1>0, <1>2, Sequences
    <2>2. ASSUME NEW b \in Callers \ {c}, HasTopology(b) PROVE HasTopology(b)'
      <3> PICK X : topology \in Seq(X)
        BY <1>0 DEF IsSeq
      <3>1. topology \in Seq(X \cup {c}) /\ topology # <<>>
        BY <2>2 DEF HasTopology
      <3>2. Head(Append(topology, c)) = Head(topology) /\ Append(topology, c) # <<>>
        BY <3>1
      <3> QED BY <1>2, <2>2, <3>2 DEF HasTopology
    <2> QED BY <2>1, <2>2 DEF OthersWait
  <1>3. CASE topology' = Past(c)
    <2>1. IsSeq(topology')
      BY <1>0, <1>3, Sequences DEF Past
    <2>2. ASSUME NEW b \in Callers \ {c}, HasTopology(b) PROVE HasTopology(b)'
      BY <1>3, <2>2 DEF Past, HasTopology
    <2> QED BY <2>1, <2>2 DEF OthersWait
  <1> QED BY <1>1, <1>2, <1>3

\* What is left as it is.
LEMMA StoreStays ==
    ASSUME TreeInv
    PROVE  /\ arcs' = arcs /\ resources' = resources /\ children' = children => SameArcs
           /\ log' = log => SameLog
  <1>1. arcs' = arcs /\ resources' = resources /\ children' = children => SameArcs
    BY DEF TreeInv, StoreOK, SameArcs
  <1>2. ASSUME log' = log PROVE SameLog
    <2>1. ReplayAll(log)' = ReplayAll(log)
      BY <1>2
    <2> QED BY <1>2, <2>1 DEF TreeInv, LogOK, SameLog, SameTree
  <1> QED BY <1>1, <1>2

\* The caller that is at rest.
LEMMA IdleFits ==
    FitsCall(Idle) /\ Aside(Idle)
  <1>1. IsFiniteSet({})
    BY FS_EmptySet
  <1> QED BY <1>1 DEF FitsCall, Aside, Idle, Plain, Reshaping

\* A step of a call that does not change the tree.
LEMMA QuietStep ==
    ASSUME TreeInv, NEW c \in Callers, NEW new, call' = [call EXCEPT ![c] = new],
           FitsCall(new), Aside(new), Aside(call[c]), UNCHANGED <<store, log>>,
           topology' = topology \/ topology' = Append(topology, c) \/ topology' = Past(c)
    PROVE  TreeInv'
  <1>1. SameArcs /\ SameLog
    BY StoreStays DEF store
  <1>2. OthersWait(c)
    BY Lines DEF TreeInv
  <1> QED BY <1>1, <1>2, Quiet

\* A call that does not change the tree returns.
LEMMA QuietReturn ==
    ASSUME TreeInv, NEW c \in Callers, Return(c), Aside(call[c]), UNCHANGED <<store, log>>
    PROVE  TreeInv'
  <1>1. call' = [call EXCEPT ![c] = Idle] /\ topology' = Past(c)
    BY DEF Return, Becomes
  <1> QED BY <1>1, IdleFits, QuietStep

\* A call that reads and one that writes a resource keep their fields.
LEMMA OtherFits ==
    ASSUME CallsOK, NEW c \in Callers, ~Shapes(c), NEW at, NEW todo, NEW tolock, NEW arc,
           NEW want, NEW held, NEW members, IsFiniteSet(members), NEW new,
           at \in {"check", "append", "apply"} => call[c].op \in Writes,
           new = [op |-> call[c].op, rid |-> call[c].rid, parent |-> call[c].parent,
                  members |-> members, at |-> at, todo |-> todo, tolock |-> tolock,
                  arc |-> arc, want |-> want, held |-> held]
    PROVE  FitsCall(new) /\ Aside(new) /\ Aside(call[c])
  <1>1. new.op = call[c].op /\ new.members = members /\ new.at = at /\ Plain(new)
    BY ONLY new = [op |-> call[c].op, rid |-> call[c].rid, parent |-> call[c].parent,
                  members |-> members, at |-> at, todo |-> todo, tolock |-> tolock,
                  arc |-> arc, want |-> want, held |-> held] DEF Plain
  <1> QED BY <1>1 DEF FitsCall, Aside, Shapes

\* The fields of a call.
LEMMA Fields ==
    ASSUME CallsOK, NEW c \in Callers
    PROVE  /\ call[c] = [op |-> call[c].op, rid |-> call[c].rid, parent |-> call[c].parent,
                         members |-> call[c].members, at |-> call[c].at,
                         todo |-> call[c].todo, tolock |-> call[c].tolock,
                         arc |-> call[c].arc, want |-> call[c].want, held |-> call[c].held]
           /\ IsFiniteSet(call[c].members)
           /\ (call[c].at \in {"check", "append", "apply"} /\ ~Shapes(c) => call[c].op \in Writes)
           /\ Shapes(c) => /\ call[c].todo = <<>> /\ call[c].tolock = <<>>
                           /\ call[c].at \in {"start", "shape", "unmap", "append", "drop"}
                           /\ call[c].rid \in Resources /\ call[c].parent \in OrNone
  BY DEF CallsOK, CallOK, Plain, Shapes

\* Begin.
LEMMA BeginKeeps ==
    ASSUME TreeInv, NEW c \in Callers, NEW new \in Operations, Begin(c, new)
    PROVE  TreeInv'
  <1>1. /\ call[c] = Idle /\ call' = [call EXCEPT ![c] = new]
        /\ UNCHANGED <<store, log>> /\ topology' = topology
    BY DEF Begin, Becomes, locks
  <1>2. FitsCall(new) /\ Aside(new)
    <2>1. /\ new = Call(new.op, new.rid, new.parent, new.members) /\ IsFiniteSet(new.members)
          /\ new.op \in Reshaping => new.rid \in Resources /\ new.parent \in OrNone
      BY OperationsAssumption DEF OrNone
    <2>2. new = [op |-> new.op, rid |-> new.rid, parent |-> new.parent,
                 members |-> new.members, at |-> "start", todo |-> <<>>, tolock |-> <<>>,
                 arc |-> None, want |-> None, held |-> <<>>]
      BY ONLY <2>1 DEF Call, Idle
    <2>3. new.at = "start" /\ new.todo = <<>> /\ new.tolock = <<>> /\ Plain(new)
      BY ONLY <2>2 DEF Plain
    <2> QED BY <2>1, <2>3 DEF FitsCall, Aside
  <1>3. Aside(call[c])
    BY <1>1, IdleFits
  <1> QED BY <1>1, <1>2, <1>3, QuietStep

\* The first step of a call.
LEMMA StartKeeps ==
    ASSUME TreeInv, NEW c \in Callers, Start(c)
    PROVE  TreeInv'
  <1>0. CallsOK
    BY DEF TreeInv
  <1> PICK x : x = call[c]
    OBVIOUS
  <1>a. /\ x = [op |-> x.op, rid |-> x.rid, parent |-> x.parent, members |-> x.members,
                at |-> x.at, todo |-> x.todo, tolock |-> x.tolock, arc |-> x.arc,
                want |-> x.want, held |-> x.held]
        /\ IsFiniteSet(x.members)
    BY <1>0, Fields
  <1>1. CASE StartAdd(c)
    <2> PICK m : m = CHOOSE y \in call[c].members : TRUE
      OBVIOUS
    <2>1. /\ x.op = "add" /\ UNCHANGED <<store, log>>
          /\ \/ Return(c)
             \/ /\ call' = [call EXCEPT ![c] = [x EXCEPT !.at = "check",
                                !.arc = resources[m.rid], !.todo = Ancestors(m.rid),
                                !.tolock = <<m.rid>>]]
                /\ topology' = topology
      BY <1>1 DEF StartAdd, Becomes, locks
    <2>2. ~Shapes(c) /\ Aside(call[c])
      BY <2>1 DEF Shapes, Reshaping, Aside
    <2>3. CASE Return(c)
      BY <2>1, <2>2, <2>3, QuietReturn
    <2>4. CASE ~Return(c)
      <3> PICK new : new = [x EXCEPT !.at = "check", !.arc = resources[m.rid],
                                     !.todo = Ancestors(m.rid), !.tolock = <<m.rid>>]
        OBVIOUS
      <3>1. new = [op |-> x.op, rid |-> x.rid, parent |-> x.parent, members |-> x.members,
                   at |-> "check", todo |-> Ancestors(m.rid), tolock |-> <<m.rid>>,
                   arc |-> resources[m.rid], want |-> x.want, held |-> x.held]
        BY <1>a
      <3>2. FitsCall(new) /\ Aside(new)
        BY <1>0, <1>a, <2>1, <2>2, <3>1, OtherFits DEF Writes
      <3> QED BY <2>1, <2>2, <2>4, <3>2, QuietStep
    <2> QED BY <2>3, <2>4
  <1>2. CASE StartBatch(c)
    <2>1. /\ x.op = "batch" /\ UNCHANGED <<store, log>> /\ topology' = topology
          /\ \E order, todo : call' = [call EXCEPT ![c] = [x EXCEPT !.at = "check",
                                                  !.tolock = order, !.todo = todo]]
      BY <1>2 DEF StartBatch, Becomes, locks
    <2>2. ~Shapes(c) /\ Aside(call[c])
      BY <2>1 DEF Shapes, Reshaping, Aside
    <2>3. PICK order, todo : call' = [call EXCEPT ![c] = [x EXCEPT !.at = "check",
                                                  !.tolock = order, !.todo = todo]]
      BY <2>1
    <2> PICK new : new = [x EXCEPT !.at = "check", !.tolock = order, !.todo = todo]
      OBVIOUS
    <2>4. new = [op |-> x.op, rid |-> x.rid, parent |-> x.parent, members |-> x.members,
                 at |-> "check", todo |-> todo, tolock |-> order,
                 arc |-> x.arc, want |-> x.want, held |-> x.held]
      BY <1>a
    <2>5. FitsCall(new) /\ Aside(new)
      BY <1>0, <1>a, <2>1, <2>2, <2>4, OtherFits DEF Writes
    <2> QED BY <2>1, <2>2, <2>3, <2>5, QuietStep
  <1>3. CASE StartRemove(c)
    <2> PICK m : m = CHOOSE y \in call[c].members : TRUE
      OBVIOUS
    <2> PICK r : r = entity[m.id]
      OBVIOUS
    <2>1. /\ x.op = "remove" /\ UNCHANGED <<store, log>>
          /\ \/ Return(c)
             \/ /\ call' = [call EXCEPT ![c] = [x EXCEPT !.at = "check",
                                !.arc = resources[r], !.members = {[m EXCEPT !.rid = r]},
                                !.tolock = <<r>>]]
                /\ topology' = topology
      BY <1>3 DEF StartRemove, Becomes, locks
    <2>2. ~Shapes(c) /\ Aside(call[c])
      BY <2>1 DEF Shapes, Reshaping, Aside
    <2>3. CASE Return(c)
      BY <2>1, <2>2, <2>3, QuietReturn
    <2>4. CASE ~Return(c)
      <3> PICK members : members = {[m EXCEPT !.rid = r]}
        OBVIOUS
      <3> PICK new : new = [x EXCEPT !.at = "check", !.arc = resources[r],
                                     !.members = members, !.tolock = <<r>>]
        OBVIOUS
      <3>1. new = [op |-> x.op, rid |-> x.rid, parent |-> x.parent, members |-> members,
                   at |-> "check", todo |-> x.todo, tolock |-> <<r>>,
                   arc |-> resources[r], want |-> x.want, held |-> x.held]
        BY <1>a
      <3>2. IsFiniteSet(members)
        BY FS_Singleton
      <3>3. FitsCall(new) /\ Aside(new)
        BY ONLY <1>0, <2>1, <2>2, <3>1, <3>2, OtherFits, c \in Callers, x = call[c] DEF Writes
      <3> QED BY <2>1, <2>2, <2>4, <3>3, QuietStep
    <2> QED BY <2>3, <2>4
  <1>4. CASE StartCommit(c)
    <2> PICK members : members = {[m EXCEPT !.rid = entity[m.id]] : m \in call[c].members}
      OBVIOUS
    <2>1. /\ x.op = "commit" /\ UNCHANGED <<store, log>>
          /\ \/ Return(c)
             \/ /\ call' = [call EXCEPT ![c] = [x EXCEPT !.at = "check",
                                !.members = members, !.tolock = LockOrder(members)]]
                /\ topology' = topology
      BY <1>4 DEF StartCommit, Becomes, locks
    <2>2. ~Shapes(c) /\ Aside(call[c])
      BY <2>1 DEF Shapes, Reshaping, Aside
    <2>3. CASE Return(c)
      BY <2>1, <2>2, <2>3, QuietReturn
    <2>4. CASE ~Return(c)
      <3> PICK new : new = [x EXCEPT !.at = "check", !.members = members,
                                     !.tolock = LockOrder(members)]
        OBVIOUS
      <3>1. new = [op |-> x.op, rid |-> x.rid, parent |-> x.parent, members |-> members,
                   at |-> "check", todo |-> x.todo, tolock |-> LockOrder(members),
                   arc |-> x.arc, want |-> x.want, held |-> x.held]
        BY <1>a
      <3>2. IsFiniteSet(members)
        <4> DEFINE f == [m \in x.members |-> [m EXCEPT !.rid = entity[m.id]]]
        <4>1. members = {f[m] : m \in x.members}
          OBVIOUS
        <4>2. f \in [x.members -> members]
          BY <4>1
        <4>3. f \in Surjection(x.members, members)
          BY <4>1, <4>2 DEF Surjection
        <4> HIDE DEF f
        <4> QED BY <1>a, <4>3, FS_Surjection
      <3>3. FitsCall(new) /\ Aside(new)
        BY ONLY <1>0, <2>1, <2>2, <3>1, <3>2, OtherFits, c \in Callers, x = call[c] DEF Writes
      <3> QED BY <2>1, <2>2, <2>4, <3>3, QuietStep
    <2> QED BY <2>3, <2>4
  <1>5. CASE StartRead(c)
    <2>0. x.op = "read" /\ UNCHANGED <<store, log>>
      BY <1>5 DEF StartRead
    <2>2. ~Shapes(c) /\ Aside(call[c])
      BY <2>0 DEF Shapes, Reshaping, Aside
    <2>3. CASE Return(c)
      BY <2>0, <2>2, <2>3, QuietReturn
    <2>4. CASE ~Return(c)
      <3> PICK a, todo : /\ a = resources[call[c].rid]
                         /\ todo = Append(Ancestors(call[c].rid), call[c].rid)
        OBVIOUS
      <3> PICK new : new = [x EXCEPT !.at = "done", !.arc = a, !.todo = todo]
        OBVIOUS
      <3>1. topology' = topology /\ call' = [call EXCEPT ![c] = new]
        BY <1>5, <2>4 DEF StartRead, Becomes, locks
      <3>2. new = [op |-> x.op, rid |-> x.rid, parent |-> x.parent, members |-> x.members,
                   at |-> "done", todo |-> todo, tolock |-> x.tolock,
                   arc |-> a, want |-> x.want, held |-> x.held]
        BY ONLY <1>a, new = [x EXCEPT !.at = "done", !.arc = a, !.todo = todo]
      <3>3. FitsCall(new) /\ Aside(new)
        BY <1>0, <1>a, <2>0, <2>2, <3>2, OtherFits DEF Writes
      <3> QED BY <2>0, <2>2, <3>1, <3>3, QuietStep
    <2> QED BY <2>3, <2>4
  <1>6. CASE AskTopology(c)
    <2>1. /\ Shapes(c) /\ x.at = "start" /\ UNCHANGED <<store, log>>
          /\ topology' = Append(topology, c)
          /\ call' = [call EXCEPT ![c] = [x EXCEPT !.at = "shape"]]
      BY <1>6 DEF AskTopology, Becomes
    <2> PICK new : new = [x EXCEPT !.at = "shape"]
      OBVIOUS
    <2>2. new = [op |-> x.op, rid |-> x.rid, parent |-> x.parent, members |-> x.members,
                 at |-> "shape", todo |-> x.todo, tolock |-> x.tolock,
                 arc |-> x.arc, want |-> x.want, held |-> x.held]
      BY ONLY <1>a, new = [x EXCEPT !.at = "shape"]
    <2>3. /\ Plain(new) /\ new.members = x.members /\ new.at = "shape"
          /\ new.rid = x.rid /\ new.parent = x.parent /\ new.todo = x.todo
          /\ new.tolock = x.tolock
      BY ONLY <2>2 DEF Plain
    <2>4. FitsCall(new) /\ Aside(new)
      BY <1>0, <1>a, <2>1, <2>3, Fields DEF FitsCall, Aside
    <2>5. Aside(call[c])
      BY <2>1 DEF Aside
    <2> QED BY <2>1, <2>4, <2>5, QuietStep
  <1> QED BY <1>1, <1>2, <1>3, <1>4, <1>5, <1>6 DEF Start

\* A call that reads or locks on its way.
LEMMA OnTheWayKeeps ==
    ASSUME TreeInv, NEW c \in Callers, Visit(c) \/ Visited(c) \/ Lock(c) \/ Locked(c)
    PROVE  TreeInv'
  <1>0. CallsOK
    BY DEF TreeInv
  <1> PICK x : x = call[c]
    OBVIOUS
  <1>a. /\ x = [op |-> x.op, rid |-> x.rid, parent |-> x.parent, members |-> x.members,
                at |-> x.at, todo |-> x.todo, tolock |-> x.tolock, arc |-> x.arc,
                want |-> x.want, held |-> x.held]
        /\ IsFiniteSet(x.members)
        /\ (x.at \in {"check", "append", "apply"} /\ ~Shapes(c) => x.op \in Writes)
        /\ Shapes(c) => x.todo = <<>> /\ x.tolock = <<>>
    BY <1>0, Fields
  <1>b. ~Shapes(c) /\ Aside(call[c]) /\ UNCHANGED <<store, log>>
    BY <1>a DEF Visit, Visited, Lock, Locked, Shapes, Aside
  <1>c. ASSUME NEW todo, NEW tolock, NEW want, NEW held, NEW new,
               new = [op |-> x.op, rid |-> x.rid, parent |-> x.parent, members |-> x.members,
                      at |-> x.at, todo |-> todo, tolock |-> tolock, arc |-> x.arc,
                      want |-> want, held |-> held],
               call' = [call EXCEPT ![c] = new], topology' = topology
        PROVE  TreeInv'
    <2>1. FitsCall(new) /\ Aside(new)
      BY ONLY <1>0, <1>a, <1>b, <1>c, OtherFits, c \in Callers, x = call[c] DEF Writes
    <2> QED BY <1>b, <1>c, <2>1, QuietStep
  <1>1. CASE Return(c)
    BY <1>1, <1>b, QuietReturn
  <1>2. CASE ~Return(c) /\ (Visit(c) \/ Lock(c))
    <2>1. topology' = topology /\ \E a : call' = [call EXCEPT ![c] = [x EXCEPT !.want = a]]
      BY <1>2 DEF Visit, Lock, Becomes
    <2>2. PICK a : call' = [call EXCEPT ![c] = [x EXCEPT !.want = a]]
      BY <2>1
    <2> PICK new : new = [x EXCEPT !.want = a]
      OBVIOUS
    <2>3. new = [op |-> x.op, rid |-> x.rid, parent |-> x.parent, members |-> x.members,
                 at |-> x.at, todo |-> x.todo, tolock |-> x.tolock, arc |-> x.arc,
                 want |-> a, held |-> x.held]
      BY ONLY <1>a, new = [x EXCEPT !.want = a]
    <2>4. call' = [call EXCEPT ![c] = new] /\ topology' = topology
      BY <2>1, <2>2
    <2> QED BY ONLY <1>c, <2>3, <2>4
  <1>3. CASE Visited(c)
    <2> PICK t : t = Tail(x.todo)
      OBVIOUS
    <2> PICK new : new = [x EXCEPT !.todo = t, !.want = None]
      OBVIOUS
    <2>3. new = [op |-> x.op, rid |-> x.rid, parent |-> x.parent, members |-> x.members,
                 at |-> x.at, todo |-> t, tolock |-> x.tolock, arc |-> x.arc,
                 want |-> None, held |-> x.held]
      BY ONLY <1>a, new = [x EXCEPT !.todo = t, !.want = None]
    <2>4. call' = [call EXCEPT ![c] = new] /\ topology' = topology
      BY <1>3 DEF Visited, Becomes
    <2> QED BY ONLY <1>c, <2>3, <2>4
  <1>4. CASE Locked(c)
    <2> PICK t, h : t = Tail(x.tolock) /\ h = Append(x.held, x.want)
      OBVIOUS
    <2> PICK new : new = [x EXCEPT !.tolock = t, !.want = None, !.held = h]
      OBVIOUS
    <2>3. new = [op |-> x.op, rid |-> x.rid, parent |-> x.parent, members |-> x.members,
                 at |-> x.at, todo |-> x.todo, tolock |-> t, arc |-> x.arc,
                 want |-> None, held |-> h]
      BY ONLY <1>a, new = [x EXCEPT !.tolock = t, !.want = None, !.held = h]
    <2>4. call' = [call EXCEPT ![c] = new] /\ topology' = topology
      BY <1>4 DEF Locked, Becomes, locks
    <2> QED BY ONLY <1>c, <2>3, <2>4
  <1> QED BY <1>1, <1>2, <1>3, <1>4

\* The records of a call are all about entities.
LEMMA RecordsAreOfEntities ==
    ASSUME CallsOK, NEW c \in Callers, call[c].op \in Writes
    PROVE  IsSeq(Records(c)) /\ \A n \in 1 .. Len(Records(c)) : OfEntity(Records(c)[n])
  <1> PICK ms, recs : ms = SetToSeq(call[c].members) /\ recs = Records(c)
    OBVIOUS
  <1>1. PICK k \in Nat : DOMAIN ms = 1 .. k
    <2>1. IsFiniteSet(call[c].members)
      BY Fields
    <2>2. PICK k \in Nat : ms \in [1 .. k -> call[c].members]
      BY <2>1, Listed
    <2> QED BY <2>2
  <1>2. ASSUME call[c].op \in {"add", "batch"}
        PROVE  IsSeq(recs) /\ \A n \in 1 .. Len(recs) : OfEntity(recs[n])
    <2>1. recs = [n \in 1 .. k |-> Record("added", ms[n].id, ms[n].rid, None, {})]
      BY <1>1, <1>2 DEF Records
    <2> DEFINE X == {Record("added", ms[n].id, ms[n].rid, None, {}) : n \in 1 .. k}
    <2>2. recs \in Seq(X) /\ Len(recs) = k
      BY <2>1
    <2>3. \A n \in 1 .. k : OfEntity(recs[n])
      BY <2>1 DEF OfEntity, Record, Reshaping
    <2> QED BY <2>2, <2>3 DEF IsSeq
  <1>3. ASSUME call[c].op = "remove"
        PROVE  IsSeq(recs) /\ \A n \in 1 .. Len(recs) : OfEntity(recs[n])
    <2>1. recs = [n \in 1 .. k |-> Record("removed", ms[n].id, ms[n].rid, None, {})]
      BY <1>1, <1>3 DEF Records
    <2> DEFINE X == {Record("removed", ms[n].id, ms[n].rid, None, {}) : n \in 1 .. k}
    <2>2. recs \in Seq(X) /\ Len(recs) = k
      BY <2>1
    <2>3. \A n \in 1 .. k : OfEntity(recs[n])
      BY <2>1 DEF OfEntity, Record, Reshaping
    <2> QED BY <2>2, <2>3 DEF IsSeq
  <1>4. ASSUME call[c].op = "commit"
        PROVE  IsSeq(recs) /\ \A n \in 1 .. Len(recs) : OfEntity(recs[n])
    <2> PICK one : one = Record("committed", None, None, None, call[c].members)
      OBVIOUS
    <2>1. recs = <<one>>
      BY <1>4 DEF Records
    <2>2. recs \in Seq({one}) /\ Len(recs) = 1 /\ recs[1] = one
      BY ONLY <2>1
    <2>3. OfEntity(one)
      BY DEF OfEntity, Record, Reshaping
    <2> QED BY <2>2, <2>3 DEF IsSeq
  <1> QED BY <1>2, <1>3, <1>4 DEF Writes

\* A call that has what it needs: it is refused, checked, or has read.
LEMMA CheckKeeps ==
    ASSUME TreeInv, NEW c \in Callers, ReadEnds(c) \/ Check(c)
    PROVE  TreeInv'
  <1>0. CallsOK
    BY DEF TreeInv
  <1> PICK x : x = call[c]
    OBVIOUS
  <1>a. /\ x = [op |-> x.op, rid |-> x.rid, parent |-> x.parent, members |-> x.members,
                at |-> x.at, todo |-> x.todo, tolock |-> x.tolock, arc |-> x.arc,
                want |-> x.want, held |-> x.held]
        /\ IsFiniteSet(x.members)
        /\ (x.at \in {"check", "append", "apply"} /\ ~Shapes(c) => x.op \in Writes)
        /\ Shapes(c) => x.at \in {"start", "shape", "unmap", "append", "drop"}
    BY <1>0, Fields
  <1>1. UNCHANGED <<store, log>> /\ (x.at = "done" \/ x.at = "check")
    BY DEF ReadEnds, Check, Holding
  <1>2. ~Shapes(c) /\ Aside(call[c])
    BY <1>1, <1>a DEF Aside
  <1>3. CASE Return(c)
    BY <1>1, <1>2, <1>3, QuietReturn
  <1>4. CASE ~Return(c)
    <2> PICK new : new = [x EXCEPT !.at = "append"]
      OBVIOUS
    <2>1. call' = [call EXCEPT ![c] = new] /\ topology' = topology /\ x.at = "check"
      BY <1>4 DEF ReadEnds, Check, Becomes, locks, Holding
    <2>2. new = [op |-> x.op, rid |-> x.rid, parent |-> x.parent, members |-> x.members,
                 at |-> "append", todo |-> x.todo, tolock |-> x.tolock, arc |-> x.arc,
                 want |-> x.want, held |-> x.held]
      BY ONLY <1>a, new = [x EXCEPT !.at = "append"]
    <2>3. FitsCall(new) /\ Aside(new)
      BY ONLY <1>0, <1>a, <1>2, <2>1, <2>2, OtherFits, c \in Callers, x = call[c] DEF Writes
    <2> QED BY <1>1, <1>2, <2>1, <2>3, QuietStep
  <1> QED BY <1>3, <1>4

\* Entities' records are queued.
LEMMA QueueKeeps ==
    ASSUME TreeInv, NEW c \in Callers, QueueRecords(c)
    PROVE  TreeInv'
  <1>0. CallsOK /\ MutexOK /\ LogOK
    BY DEF TreeInv
  <1> PICK x : x = call[c]
    OBVIOUS
  <1>a. /\ x = [op |-> x.op, rid |-> x.rid, parent |-> x.parent, members |-> x.members,
                at |-> x.at, todo |-> x.todo, tolock |-> x.tolock, arc |-> x.arc,
                want |-> x.want, held |-> x.held]
        /\ IsFiniteSet(x.members)
        /\ (x.at \in {"check", "append", "apply"} /\ ~Shapes(c) => x.op \in Writes)
    BY <1>0, Fields
  <1> PICK new : new = [x EXCEPT !.at = "apply"]
    OBVIOUS
  <1>1. /\ ~Shapes(c) /\ x.at = "append" /\ log' = log \o Records(c)
        /\ call' = [call EXCEPT ![c] = new]
        /\ arcs' = arcs /\ resources' = resources /\ children' = children
        /\ topology' = topology
    BY DEF QueueRecords, Holding, Becomes, store, locks
  <1>2. new = [op |-> x.op, rid |-> x.rid, parent |-> x.parent, members |-> x.members,
               at |-> "apply", todo |-> x.todo, tolock |-> x.tolock, arc |-> x.arc,
               want |-> x.want, held |-> x.held]
    BY ONLY <1>a, new = [x EXCEPT !.at = "apply"]
  <1>3. FitsCall(new) /\ Aside(new) /\ Aside(call[c])
    BY ONLY <1>0, <1>a, <1>1, <1>2, OtherFits, c \in Callers, x = call[c] DEF Writes
  <1>4. SameLog
    <2>1. IsSeq(Records(c)) /\ \A n \in 1 .. Len(Records(c)) : OfEntity(Records(c)[n])
      BY <1>0, <1>1, <1>a, RecordsAreOfEntities
    <2> PICK recs, old : recs = Records(c) /\ old = log
      OBVIOUS
    <2>2. IsSeq(old) /\ Formed(ReplayAll(old))
      BY <1>0 DEF LogOK
    <2>3. /\ Formed(ReplayAll(old \o recs)) /\ SameTree(ReplayAll(old), ReplayAll(old \o recs))
          /\ IsSeq(old \o recs)
      BY <2>1, <2>2, EntityRecords, Concatenated
    <2>4. ReplayAll(log)' = ReplayAll(old \o recs) /\ log' = old \o recs
      BY <1>1
    <2> QED BY <2>3, <2>4 DEF SameLog
  <1>5. SameArcs
    BY <1>1, StoreStays
  <1>6. OthersWait(c)
    BY <1>0, <1>1, Lines
  <1> QED BY <1>1, <1>3, <1>4, <1>5, <1>6, Quiet

\* They are applied, to states whose place in the tree they leave.
LEMMA ApplyKeeps ==
    ASSUME TreeInv, NEW c \in Callers, ApplyRecords(c)
    PROVE  TreeInv'
  <1>0. CallsOK /\ MutexOK /\ StoreOK
    BY DEF TreeInv
  <1>1. /\ ~Shapes(c) /\ call' = [call EXCEPT ![c] = Idle] /\ log' = log
        /\ resources' = resources /\ children' = children /\ topology' = Past(c)
    BY DEF ApplyRecords, Return, Becomes
  <1>2. Aside(call[c])
    BY <1>1 DEF Aside, Shapes
  <1> DEFINE Items2(a) == AllItemsAfter(a, Records(c))
  <1>3. arcs' = [a \in DOMAIN arcs |->
                    IF a \in Range(call[c].held)
                    THEN [arcs[a] EXCEPT !.items = Items2(a)] ELSE arcs[a]]
    BY DEF ApplyRecords
  <1> HIDE DEF Items2
  <1>4. ASSUME NEW a \in DOMAIN arcs
        PROVE  ArcOK(arcs'[a]) /\ arcs'[a].parent = arcs[a].parent
    <2> PICK old, items : old = arcs[a] /\ items = Items2(a)
      OBVIOUS
    <2>1. old = [id |-> old.id, parent |-> old.parent, items |-> old.items]
      BY <1>0 DEF StoreOK, ArcOK
    <2>2. arcs'[a] = old \/ arcs'[a] = [old EXCEPT !.items = items]
      BY <1>3
    <2> QED BY ONLY <2>1, <2>2, old = arcs[a] DEF ArcOK
  <1>5. IsSeq(arcs') /\ DOMAIN arcs' = DOMAIN arcs
    <2>1. Len(arcs) \in Nat /\ DOMAIN arcs = 1 .. Len(arcs)
      BY <1>0, Sequences DEF StoreOK
    <2> PICK n, new : n = Len(arcs) /\ new = arcs'
      OBVIOUS
    <2>2. DOMAIN new = 1 .. n /\ new = [a \in 1 .. n |-> new[a]] /\ n \in Nat
      BY <1>3, <2>1
    <2> DEFINE X == {new[a] : a \in 1 .. n}
    <2>3. new \in [1 .. n -> X]
      BY ONLY <2>2
    <2>4. new \in Seq(X)
      BY ONLY <2>2, <2>3
    <2> QED BY <2>1, <2>2, <2>4 DEF IsSeq
  <1>6. SameArcs
    BY <1>1, <1>4, <1>5 DEF SameArcs
  <1>7. SameLog
    BY <1>1, StoreStays
  <1>8. OthersWait(c)
    BY <1>0, <1>1, Lines
  <1> QED BY <1>1, <1>2, <1>6, <1>7, <1>8, IdleFits, Quiet

-------------------------------------------------------------------------------
(* Steps that change the tree.                                             *)

\* While a call changes the tree, or is about to, no other does.
LEMMA Alone ==
    ASSUME MutexOK, NEW c \in Callers, HasTopology(c)
    PROVE  \A b \in Callers \ {c} : ~Changing(b)
  BY DEF MutexOK, HasTopology

\* It is not in the way of what the others have found.
LEMMA AloneAfter ==
    ASSUME TreeInv, NEW c \in Callers, HasTopology(c), NEW new,
           call' = [call EXCEPT ![c] = new], FitsCall(new)
    PROVE  /\ CallsOK' /\ call'[c] = new /\ \A b \in Callers \ {c} : call'[b] = call[b]
           /\ \A b \in Callers \ {c} : ~Changing(b) /\ ~Changing(b)'
           /\ \A b \in Callers \ {c} : \A r : ~Owed(b, "create", r) /\ ~Owed(b, "delete", r)
           /\ \A b \in Callers \ {c} : \A r : ~Owed(b, "create", r)' /\ ~Owed(b, "delete", r)'
  <1>1. /\ CallsOK' /\ call'[c] = new /\ \A b \in Callers \ {c} : call'[b] = call[b]
    BY OneCall DEF TreeInv
  <1>2. \A b \in Callers \ {c} : ~Changing(b)
    BY Alone DEF TreeInv
  <1>3. \A b \in Callers \ {c} : ~Changing(b)'
    BY <1>1, <1>2 DEF Changing, Shapes
  <1> QED BY <1>1, <1>2, <1>3 DEF Owed, Changing, Shapes, Reshaping

\* What a call that changes the tree, as x says, must have found.
MakesOK(x) ==
    x.op = "create" /\ x.at \in {"unmap", "append", "drop"} =>
        /\ x.at # "unmap" /\ x.rid \notin Live /\ x.parent \in Live \cup {None}
        /\ x.parent # None => \A d \in [Resources -> 0 .. MAX_HIERARCHY_DEPTH] :
                                  Depths(d) => d[x.parent] + 1 <= MAX_HIERARCHY_DEPTH
DropsOK(x) ==
    x.op = "delete" /\ x.at \in {"unmap", "append", "drop"} =>
        /\ x.rid \in Live /\ x.arc = resources[x.rid]
        /\ \A r \in Live : get_parent(r) # x.rid
StillKnown(x, kids) ==
    \A r \in Live : get_parent(r) # None =>
        \/ r \in kids[get_parent(r)]
        \/ x.op = "delete" /\ x.at \in {"append", "drop"} /\ x.rid = r

\* The one that may change the tree takes a step before it does.
LEMMA OwnStep ==
    ASSUME TreeInv, NEW c \in Callers, HasTopology(c), NEW new,
           call' = [call EXCEPT ![c] = new], FitsCall(new), MakesOK(new), DropsOK(new),
           arcs' = arcs, resources' = resources, topology' = topology,
           children' \in [Resources -> SUBSET Resources], StillKnown(new, children'), LogOK'
    PROVE  TreeInv'
  <1>1. /\ CallsOK /\ StoreOK /\ MutexOK /\ RootedOK /\ DepthOK
    BY DEF TreeInv
  <1>2. /\ CallsOK' /\ call'[c] = new
        /\ \A b \in Callers \ {c} : ~Changing(b)'
    BY AloneAfter
  <1>3. /\ Live' = Live /\ \A r : get_parent(r)' = get_parent(r)
    BY DEF Live, get_parent
  <1>4. StoreOK'
    BY <1>1, <1>3 DEF StoreOK
  <1>5. MutexOK'
    BY <1>1, <1>2 DEF MutexOK, HasTopology
  <1>6. IntentOK'
    <2> SUFFICES ASSUME NEW b \in Callers
                 PROVE  /\ Creating(b)' =>
                             /\ call'[b].at # "unmap" /\ call'[b].rid \notin Live
                             /\ call'[b].parent \in Live \cup {None}
                        /\ Removing(b)' =>
                             /\ call'[b].rid \in Live
                             /\ call'[b].arc = resources[call'[b].rid]
                             /\ \A r \in Live : get_parent(r) # call'[b].rid
      BY <1>3 DEF IntentOK
    <2>1. CASE b = c
      BY <1>2, <2>1 DEF Creating, Removing, Changing, Shapes, MakesOK, DropsOK
    <2>2. CASE b # c
      BY <1>2, <2>2 DEF Creating, Removing
    <2> QED BY <2>1, <2>2
  <1>7. RootedOK'
    BY <1>1, <1>3 DEF RootedOK
  <1>8. CoverOK'
    <2> SUFFICES ASSUME NEW r \in Live, get_parent(r) # None
                 PROVE  \/ r \in children'[get_parent(r)]
                        \/ \E b \in Callers : /\ Removing(b)' /\ call'[b].at # "unmap"
                                              /\ call'[b].rid = r
      BY <1>3 DEF CoverOK
    <2>1. \/ r \in children'[get_parent(r)]
          \/ new.op = "delete" /\ new.at \in {"append", "drop"} /\ new.rid = r
      BY DEF StillKnown
    <2> QED BY <1>2, <2>1 DEF Removing, Changing, Shapes, Reshaping
  <1>9. DepthOK'
    <2>1. PICK d \in [Resources -> 0 .. MAX_HIERARCHY_DEPTH] : Depths(d)
      BY <1>1 DEF DepthOK
    <2>2. ASSUME NEW b \in Callers, Creating(b)', call'[b].parent # None
          PROVE  d[call'[b].parent] + 1 <= MAX_HIERARCHY_DEPTH
      <3>1. b = c
        BY <1>2, <2>2 DEF Creating
      <3>2. new.op = "create" /\ new.at \in {"unmap", "append", "drop"} /\ new.parent # None
        BY <1>2, <2>2, <3>1 DEF Creating, Changing
      <3> QED BY <1>2, <2>1, <3>1, <3>2 DEF MakesOK
    <2>3. Depths(d)'
      BY <1>3, <2>1, <2>2 DEF Depths
    <2> QED BY <2>3 DEF DepthOK
  <1> QED BY <1>2, <1>4, <1>5, <1>6, <1>7, <1>8, <1>9 DEF TreeInv

\* It owes the tree nothing before its record is in the log.
LEMMA NothingOwed ==
    ASSUME TreeInv, NEW c \in Callers, HasTopology(c), NEW new,
           call' = [call EXCEPT ![c] = new], FitsCall(new),
           call[c].at # "drop", new.at # "drop",
           arcs' = arcs, resources' = resources, log' = log
    PROVE  LogOK'
  <1>1. LogOK /\ CallsOK
    BY DEF TreeInv
  <1>2. /\ call'[c] = new
        /\ \A b \in Callers \ {c} : \A r : ~Owed(b, "create", r) /\ ~Owed(b, "delete", r)
        /\ \A b \in Callers \ {c} : \A r : ~Owed(b, "create", r)' /\ ~Owed(b, "delete", r)'
    BY AloneAfter
  <1>3. \A b \in Callers : \A r : ~Owed(b, "create", r) /\ ~Owed(b, "delete", r)
    BY <1>2 DEF Owed
  <1>4. \A b \in Callers : \A r : ~Owed(b, "create", r)' /\ ~Owed(b, "delete", r)'
    BY <1>2 DEF Owed
  <1>5. Live' = Live /\ \A r : get_parent(r)' = get_parent(r)
    BY DEF Live, get_parent
  <1>6. \A r \in Resources : Kept(r)' <=> Kept(r)
    BY <1>3, <1>4, <1>5 DEF Kept
  <1> PICK g : g = ReplayAll(log)
    OBVIOUS
  <1>7. Formed(g) /\ Tied(g) /\ IsSeq(log)
    BY <1>1 DEF LogOK
  <1>8. \A b \in Callers : ~Owed(b, "create", call[b].rid)'
    BY <1>4 DEF Owed
  <1>9. Tied(g)'
    BY <1>5, <1>6, <1>7, <1>8 DEF Tied
  <1>10. ReplayAll(log)' = g
    OBVIOUS
  <1> QED BY <1>7, <1>9, <1>10 DEF LogOK

\* Before it begins, every parent knows its children.
LEMMA AllKnown ==
    ASSUME TreeInv, NEW c \in Callers, HasTopology(c), ~Changing(c)
    PROVE  \A r \in Live : get_parent(r) # None => r \in children[get_parent(r)]
  <1>1. \A b \in Callers : ~Changing(b)
    BY Alone DEF TreeInv
  <1> QED BY <1>1 DEF TreeInv, CoverOK, Removing

\* A create finds out.
LEMMA CheckCreateKeeps ==
    ASSUME TreeInv, NEW c \in Callers, CheckCreate(c)
    PROVE  TreeInv'
  <1>0. CallsOK /\ StoreOK /\ RootedOK
    BY DEF TreeInv
  <1> PICK x : x = call[c]
    OBVIOUS
  <1>1. /\ x.op = "create" /\ x.at = "shape" /\ HasTopology(c)
        /\ UNCHANGED <<store, log>> /\ Aside(call[c]) /\ ~Changing(c) /\ Shapes(c)
    BY DEF CheckCreate, Aside, Changing, Shapes, Reshaping
  <1>2. CASE Return(c)
    BY <1>1, <1>2, QuietReturn
  <1>3. CASE ~Return(c)
    <2> PICK new : new = [x EXCEPT !.at = "append"]
      OBVIOUS
    <2>1. /\ call' = [call EXCEPT ![c] = new] /\ topology' = topology
          /\ arcs' = arcs /\ resources' = resources /\ children' = children
          /\ log' = log
      BY <1>1, <1>3 DEF CheckCreate, Becomes, locks, store
    <2>2. /\ x.rid \notin Live
          /\ x.parent # None => /\ x.parent \in Live
                                /\ 1 + Len(Ancestors(x.parent)) <= MAX_HIERARCHY_DEPTH
      BY <1>3 DEF CheckCreate, Creatable
    <2>3. /\ x = [op |-> x.op, rid |-> x.rid, parent |-> x.parent, members |-> x.members,
                  at |-> x.at, todo |-> x.todo, tolock |-> x.tolock, arc |-> x.arc,
                  want |-> x.want, held |-> x.held]
          /\ IsFiniteSet(x.members) /\ x.todo = <<>> /\ x.tolock = <<>>
          /\ x.rid \in Resources /\ x.parent \in OrNone
      BY <1>0, <1>1, Fields
    <2>4. new = [op |-> x.op, rid |-> x.rid, parent |-> x.parent, members |-> x.members,
                 at |-> "append", todo |-> x.todo, tolock |-> x.tolock, arc |-> x.arc,
                 want |-> x.want, held |-> x.held]
      BY ONLY <2>3, new = [x EXCEPT !.at = "append"]
    <2>5. /\ Plain(new) /\ new.op = "create" /\ new.at = "append" /\ new.rid = x.rid
          /\ new.parent = x.parent /\ new.todo = <<>> /\ new.tolock = <<>>
          /\ new.members = x.members
      BY ONLY <1>1, <2>3, <2>4 DEF Plain
    <2>6. FitsCall(new)
      BY ONLY <2>3, <2>5 DEF FitsCall, Reshaping
    <2>7. MakesOK(new)
      <3>1. ASSUME NEW d \in [Resources -> 0 .. MAX_HIERARCHY_DEPTH], Depths(d), x.parent # None
            PROVE  d[x.parent] + 1 <= MAX_HIERARCHY_DEPTH
        <4>1. \A r \in Live : d[r] = IF get_parent(r) = None THEN 0 ELSE d[get_parent(r)] + 1
          BY <3>1 DEF Depths
        <4>2. Len(Ancestors(x.parent)) = d[x.parent]
          BY <1>0, <2>2, <3>1, <4>1, DepthIsLength
        <4>3. d[x.parent] \in 0 .. MAX_HIERARCHY_DEPTH /\ MAX_HIERARCHY_DEPTH \in Nat
          BY <2>2, <3>1, TopologyAssumption DEF Live
        <4>4. 1 + d[x.parent] <= MAX_HIERARCHY_DEPTH
          BY <2>2, <3>1, <4>2
        <4> QED BY ONLY <4>3, <4>4
      <3> QED BY <2>2, <2>5, <3>1 DEF MakesOK
    <2>8. DropsOK(new)
      BY <2>5 DEF DropsOK
    <2>9. StillKnown(new, children')
      BY <1>1, <2>1, AllKnown DEF StillKnown
    <2>10. LogOK'
      BY <1>1, <2>1, <2>5, <2>6, NothingOwed
    <2>11. children' \in [Resources -> SUBSET Resources]
      BY <1>0, <2>1 DEF StoreOK
    <2> QED BY <1>1, <2>1, <2>6, <2>7, <2>8, <2>9, <2>10, <2>11, OwnStep
  <1> QED BY <1>2, <1>3

\* A delete finds out.
LEMMA CheckDeleteKeeps ==
    ASSUME TreeInv, NEW c \in Callers, CheckDelete(c)
    PROVE  TreeInv'
  <1>0. CallsOK /\ StoreOK /\ RootedOK
    BY DEF TreeInv
  <1> PICK x : x = call[c]
    OBVIOUS
  <1>1. /\ x.op = "delete" /\ x.at = "shape" /\ HasTopology(c)
        /\ UNCHANGED <<store, log>> /\ Aside(call[c]) /\ ~Changing(c) /\ Shapes(c)
    BY DEF CheckDelete, Aside, Changing, Shapes, Reshaping
  <1>2. CASE Return(c)
    BY <1>1, <1>2, QuietReturn
  <1>3. CASE ~Return(c)
    <2> PICK new : new = [x EXCEPT !.at = "unmap", !.arc = resources[x.rid]]
      OBVIOUS
    <2>1. /\ call' = [call EXCEPT ![c] = new] /\ topology' = topology
          /\ arcs' = arcs /\ resources' = resources /\ children' = children
          /\ log' = log
      BY <1>1, <1>3 DEF CheckDelete, Becomes, store
    <2>2. x.rid \in Live /\ children[x.rid] = {}
      BY <1>3 DEF CheckDelete
    <2>3. /\ x = [op |-> x.op, rid |-> x.rid, parent |-> x.parent, members |-> x.members,
                  at |-> x.at, todo |-> x.todo, tolock |-> x.tolock, arc |-> x.arc,
                  want |-> x.want, held |-> x.held]
          /\ IsFiniteSet(x.members) /\ x.todo = <<>> /\ x.tolock = <<>>
          /\ x.rid \in Resources /\ x.parent \in OrNone
      BY <1>0, <1>1, Fields
    <2>4. new = [op |-> x.op, rid |-> x.rid, parent |-> x.parent, members |-> x.members,
                 at |-> "unmap", todo |-> x.todo, tolock |-> x.tolock,
                 arc |-> resources[x.rid], want |-> x.want, held |-> x.held]
      BY ONLY <2>3, new = [x EXCEPT !.at = "unmap", !.arc = resources[x.rid]]
    <2>5. /\ Plain(new) /\ new.op = "delete" /\ new.at = "unmap" /\ new.rid = x.rid
          /\ new.parent = x.parent /\ new.todo = <<>> /\ new.tolock = <<>>
          /\ new.members = x.members /\ new.arc = resources[x.rid]
      BY ONLY <1>1, <2>3, <2>4 DEF Plain
    <2>6. FitsCall(new)
      BY ONLY <2>3, <2>5 DEF FitsCall, Reshaping
    <2>7. MakesOK(new)
      BY <2>5 DEF MakesOK
    <2>8. \A r \in Live : get_parent(r) # None => r \in children[get_parent(r)]
      BY <1>1, AllKnown
    <2>9. DropsOK(new)
      <3>1. x.rid # None
        BY <2>3, TopologyAssumption DEF None
      <3>2. ASSUME NEW r \in Live PROVE get_parent(r) # x.rid
        BY <2>2, <2>8, <3>1
      <3> QED BY <2>2, <2>5, <3>2 DEF DropsOK
    <2>10. StillKnown(new, children')
      BY <2>1, <2>8 DEF StillKnown
    <2>11. LogOK'
      BY <1>1, <2>1, <2>5, <2>6, NothingOwed
    <2>12. children' \in [Resources -> SUBSET Resources]
      BY <1>0, <2>1 DEF StoreOK
    <2> QED BY <1>1, <2>1, <2>6, <2>7, <2>9, <2>10, <2>11, <2>12, OwnStep
  <1> QED BY <1>2, <1>3

\* Under the read guard, a delete takes its resource from the children.
LEMMA UnmapKeeps ==
    ASSUME TreeInv, NEW c \in Callers, Unmap(c)
    PROVE  TreeInv'
  <1>0. CallsOK /\ StoreOK /\ RootedOK /\ MutexOK /\ IntentOK /\ CoverOK
    BY DEF TreeInv
  <1> PICK x : x = call[c]
    OBVIOUS
  <1> PICK new : new = [x EXCEPT !.at = "append"]
    OBVIOUS
  <1>1. /\ x.op = "delete" /\ x.at = "unmap" /\ Removing(c) /\ Changing(c) /\ Shapes(c)
        /\ call' = [call EXCEPT ![c] = new] /\ topology' = topology
        /\ arcs' = arcs /\ resources' = resources /\ log' = log
    BY DEF Unmap, Becomes, Removing, Changing, Shapes, Reshaping
  <1>2. HasTopology(c) /\ \A b \in Callers \ {c} : ~Changing(b)
    BY <1>0, <1>1, Alone DEF MutexOK
  <1>3. /\ x.rid \in Live /\ x.arc = resources[x.rid]
        /\ \A r \in Live : get_parent(r) # x.rid
    BY <1>0, <1>1 DEF IntentOK
  <1>4. /\ x = [op |-> x.op, rid |-> x.rid, parent |-> x.parent, members |-> x.members,
                at |-> x.at, todo |-> x.todo, tolock |-> x.tolock, arc |-> x.arc,
                want |-> x.want, held |-> x.held]
        /\ IsFiniteSet(x.members) /\ x.todo = <<>> /\ x.tolock = <<>>
        /\ x.rid \in Resources /\ x.parent \in OrNone
    BY <1>0, <1>1, Fields
  <1>5. new = [op |-> x.op, rid |-> x.rid, parent |-> x.parent, members |-> x.members,
               at |-> "append", todo |-> x.todo, tolock |-> x.tolock,
               arc |-> x.arc, want |-> x.want, held |-> x.held]
    BY ONLY <1>4, new = [x EXCEPT !.at = "append"]
  <1>6. /\ Plain(new) /\ new.op = "delete" /\ new.at = "append" /\ new.rid = x.rid
        /\ new.parent = x.parent /\ new.todo = <<>> /\ new.tolock = <<>>
        /\ new.members = x.members /\ new.arc = x.arc
    BY ONLY <1>1, <1>4, <1>5 DEF Plain
  <1>7. FitsCall(new) /\ MakesOK(new)
    BY ONLY <1>4, <1>6 DEF FitsCall, Reshaping, MakesOK
  <1>8. DropsOK(new)
    BY <1>3, <1>6 DEF DropsOK
  <1> PICK p : p = arcs[x.arc].parent
    OBVIOUS
  <1>9. p = get_parent(x.rid) /\ p \in Resources \cup {None}
    BY <1>0, <1>3 DEF get_parent, Live, RootedOK
  <1>10. children' = IF p = None THEN children ELSE [children EXCEPT ![p] = @ \ {x.rid}]
    BY DEF Unmap
  <1>11. children \in [Resources -> SUBSET Resources]
    BY <1>0 DEF StoreOK
  <1>12. /\ children' \in [Resources -> SUBSET Resources]
         /\ \A y \in Resources : \A r : r \in children[y] /\ r # x.rid => r \in children'[y]
    BY ONLY <1>9, <1>10, <1>11
  <1>13. StillKnown(new, children')
    <2> SUFFICES ASSUME NEW r \in Live, get_parent(r) # None, r # x.rid
                 PROVE  r \in children'[get_parent(r)]
      BY <1>6 DEF StillKnown
    <2>1. r \in children[get_parent(r)]
      <3>1. ~\E b \in Callers : Removing(b) /\ call[b].at # "unmap" /\ call[b].rid = r
        BY <1>1, <1>2 DEF Removing
      <3> QED BY <1>0, <3>1 DEF CoverOK
    <2>2. get_parent(r) \in Resources
      BY <1>0 DEF RootedOK, Live
    <2> QED BY <1>12, <2>1, <2>2
  <1>14. LogOK'
    BY <1>1, <1>2, <1>6, <1>7, NothingOwed
  <1> QED BY <1>1, <1>2, <1>7, <1>8, <1>12, <1>13, <1>14, OwnStep

\* The record of a create or a delete is in the log before memory has it.
LEMMA AppendKeeps ==
    ASSUME TreeInv, NEW c \in Callers, AppendShape(c)
    PROVE  TreeInv'
  <1>0. CallsOK /\ StoreOK /\ RootedOK /\ MutexOK /\ IntentOK /\ CoverOK /\ LogOK
    BY DEF TreeInv
  <1> PICK x : x = call[c]
    OBVIOUS
  <1> PICK new : new = [x EXCEPT !.at = "drop"]
    OBVIOUS
  <1>1. /\ x.op \in Reshaping /\ x.at = "append" /\ Changing(c) /\ Shapes(c)
        /\ call' = [call EXCEPT ![c] = new] /\ topology' = topology
        /\ arcs' = arcs /\ resources' = resources /\ children' = children
        /\ log' = Append(log, Record(x.op, None, x.rid, x.parent, {}))
    BY DEF AppendShape, Becomes, Changing, Shapes, store, locks
  <1>2. HasTopology(c) /\ \A b \in Callers \ {c} : ~Changing(b)
    BY <1>0, <1>1, Alone DEF MutexOK
  <1>3. /\ x.op = "create" => x.rid \notin Live /\ x.parent \in Live \cup {None}
        /\ x.op = "delete" => /\ x.rid \in Live /\ x.arc = resources[x.rid]
                              /\ \A r \in Live : get_parent(r) # x.rid
    BY <1>0, <1>1 DEF IntentOK, Creating, Removing
  <1>4. /\ x = [op |-> x.op, rid |-> x.rid, parent |-> x.parent, members |-> x.members,
                at |-> x.at, todo |-> x.todo, tolock |-> x.tolock, arc |-> x.arc,
                want |-> x.want, held |-> x.held]
        /\ IsFiniteSet(x.members) /\ x.todo = <<>> /\ x.tolock = <<>>
        /\ x.rid \in Resources /\ x.parent \in OrNone
    BY <1>0, <1>1, Fields
  <1>5. new = [op |-> x.op, rid |-> x.rid, parent |-> x.parent, members |-> x.members,
               at |-> "drop", todo |-> x.todo, tolock |-> x.tolock,
               arc |-> x.arc, want |-> x.want, held |-> x.held]
    BY ONLY <1>4, new = [x EXCEPT !.at = "drop"]
  <1>6. /\ Plain(new) /\ new.op = x.op /\ new.at = "drop" /\ new.rid = x.rid
        /\ new.parent = x.parent /\ new.todo = <<>> /\ new.tolock = <<>>
        /\ new.members = x.members /\ new.arc = x.arc
    BY ONLY <1>4, <1>5 DEF Plain
  <1>7. FitsCall(new)
    BY ONLY <1>1, <1>4, <1>6 DEF FitsCall
  <1>8. DropsOK(new)
    BY <1>3, <1>6 DEF DropsOK
  <1>9. MakesOK(new)
    <2>1. ASSUME NEW d, Depths(d), x.op = "create", x.parent # None
          PROVE  d[x.parent] + 1 <= MAX_HIERARCHY_DEPTH
      BY <1>1, <2>1 DEF Depths, Creating
    <2> QED BY <1>3, <1>6, <2>1 DEF MakesOK
  <1>10. children' \in [Resources -> SUBSET Resources]
    BY <1>0, <1>1 DEF StoreOK
  <1>11. StillKnown(new, children')
    <2> SUFFICES ASSUME NEW r \in Live, get_parent(r) # None, r \notin children[get_parent(r)]
                 PROVE  x.op = "delete" /\ x.rid = r
      BY <1>1, <1>6 DEF StillKnown
    <2>1. PICK b \in Callers : Removing(b) /\ call[b].at # "unmap" /\ call[b].rid = r
      BY <1>0 DEF CoverOK
    <2>2. b = c
      BY <1>2, <2>1 DEF Removing
    <2> QED BY <2>1, <2>2 DEF Removing
  <1>12. LogOK'
    <2> PICK g, h : g = ReplayAll(log) /\ h = ReplayAll(log)'
      OBVIOUS
    <2>1. IsSeq(log) /\ Formed(g) /\ Tied(g)
      BY <1>0 DEF LogOK
    <2>2. IsSeq(log') /\ h = ReplayOne(g, Record(x.op, None, x.rid, x.parent, {}))
      <3> PICK old, new2, rec : old = log /\ new2 = log'
                                /\ rec = Record(x.op, None, x.rid, x.parent, {})
        OBVIOUS
      <3>1. new2 = Append(old, rec) /\ IsSeq(old)
        BY <1>1, <2>1
      <3>2. IsSeq(new2)
        BY ONLY <3>1, Sequences
      <3>3. ReplayAll(new2) = ReplayOne(ReplayAll(old), rec)
        BY ONLY <3>1, ReplayIsStepwise
      <3>4. h = ReplayAll(new2)
        OBVIOUS
      <3> QED BY <3>2, <3>3, <3>4
    <2>3. /\ call'[c] = new /\ \A b \in Callers \ {c} : call'[b] = call[b]
          /\ \A b \in Callers \ {c} : \A r : ~Owed(b, "create", r) /\ ~Owed(b, "delete", r)
          /\ \A b \in Callers \ {c} : \A r : ~Owed(b, "create", r)' /\ ~Owed(b, "delete", r)'
      BY <1>1, <1>2, <1>7, AloneAfter
    <2>4. /\ \A r : Owed(c, "create", r)' <=> x.op = "create" /\ r = x.rid
          /\ \A r : Owed(c, "delete", r)' <=> x.op = "delete" /\ r = x.rid
          /\ \A b \in Callers : \A r : ~Owed(b, "create", r) /\ ~Owed(b, "delete", r)
      BY <1>1, <1>6, <2>3 DEF Owed
    <2>5. Live' = Live /\ \A r : get_parent(r)' = get_parent(r)
      BY <1>1 DEF Live, get_parent
    <2>6. /\ \A r \in Resources : Kept(r) <=> r \in Live
          /\ \A r \in Resources :
                Kept(r)' <=> \/ r \in Live /\ ~ (x.op = "delete" /\ r = x.rid)
                             \/ x.op = "create" /\ r = x.rid
      BY <2>3, <2>4, <2>5 DEF Kept
    <2>7. CASE x.op = "create"
      <3>1. /\ Formed(h) /\ h.states[x.rid].there /\ h.states[x.rid].parent = x.parent
            /\ \A r \in Resources \ {x.rid} : h.states[r] = g.states[r]
        BY ONLY <1>4, <2>1, <2>2, <2>7, CreateRecord
      <3>2. \A r \in Resources : h.states[r].there <=> Kept(r)'
        BY <2>1, <2>6, <2>7, <3>1 DEF Tied
      <3>3. \A r \in Live : h.states[r].there => h.states[r].parent = get_parent(r)
        BY <1>3, <2>1, <2>7, <3>1 DEF Tied, Live
      <3>4. ASSUME NEW b \in Callers, Owed(b, "create", call[b].rid)'
            PROVE  h.states[call'[b].rid].parent = call'[b].parent
        <4>1. b = c
          BY <2>3, <3>4 DEF Owed
        <4> QED BY <1>6, <2>3, <3>1, <4>1
      <3>5. Tied(h)'
        BY <2>5, <3>2, <3>3, <3>4 DEF Tied
      <3> QED BY <2>2, <3>1, <3>5 DEF LogOK
    <2>8. CASE x.op = "delete"
      <3>1. /\ Formed(h) /\ ~h.states[x.rid].there
            /\ \A r \in Resources \ {x.rid} : h.states[r] = g.states[r]
        <4>1. h = ReplayOne(g, Record("delete", None, x.rid, x.parent, {}))
          BY <2>2, <2>8
        <4>2. x.rid \in Resources /\ x.parent \in OrNone
          BY <1>4
        <4> QED BY ONLY <2>1, <4>1, <4>2, DeleteRecord
      <3>2. \A r \in Resources : h.states[r].there <=> Kept(r)'
        BY <2>1, <2>6, <2>8, <3>1 DEF Tied
      <3>3. \A r \in Live : h.states[r].there => h.states[r].parent = get_parent(r)
        BY <2>1, <2>8, <3>1 DEF Tied, Live
      <3>4. \A b \in Callers : ~Owed(b, "create", call[b].rid)'
        BY <1>6, <2>3, <2>8 DEF Owed
      <3>5. Tied(h)'
        BY <2>5, <3>2, <3>3, <3>4 DEF Tied
      <3> QED BY <2>2, <3>1, <3>5 DEF LogOK
    <2> QED BY <1>1, <2>7, <2>8 DEF Reshaping
  <1> QED BY <1>1, <1>2, <1>7, <1>8, <1>9, <1>10, <1>11, <1>12, OwnStep

\* A resource is made: the table leads to a new state at the end of the line.
LEMMA InsertKeeps ==
    ASSUME TreeInv, NEW c \in Callers, InsertResource(c)
    PROVE  TreeInv'
  <1>0. CallsOK /\ StoreOK /\ RootedOK /\ MutexOK /\ IntentOK /\ CoverOK /\ LogOK /\ DepthOK
    BY DEF TreeInv
  <1> PICK x, r0, p0, n : x = call[c] /\ r0 = x.rid /\ p0 = x.parent /\ n = Len(arcs) + 1
    OBVIOUS
  <1>1. /\ x.op = "create" /\ x.at = "drop" /\ Creating(c) /\ Changing(c) /\ Shapes(c)
        /\ call' = [call EXCEPT ![c] = Idle] /\ topology' = Past(c)
        /\ arcs' = Append(arcs, [id |-> r0, parent |-> p0, items |-> {}])
        /\ resources' = [resources EXCEPT ![r0] = n]
        /\ children' = IF p0 = None THEN children ELSE [children EXCEPT ![p0] = @ \cup {r0}]
        /\ log' = log
    BY DEF InsertResource, Creating, Changing, Shapes, Reshaping
  <1>2. HasTopology(c) /\ \A b \in Callers \ {c} : ~Changing(b)
    BY <1>0, <1>1, Alone DEF MutexOK
  <1>3. r0 \in Resources /\ r0 \notin Live /\ p0 \in Live \cup {None}
    BY <1>0, <1>1, Fields DEF IntentOK
  <1>4. /\ CallsOK' /\ call'[c] = Idle
        /\ \A b \in Callers \ {c} : ~Changing(b)'
        /\ \A b \in Callers \ {c} : \A r : ~Owed(b, "create", r) /\ ~Owed(b, "delete", r)
        /\ \A b \in Callers \ {c} : \A r : ~Owed(b, "create", r)' /\ ~Owed(b, "delete", r)'
    BY <1>1, <1>2, IdleFits, AloneAfter
  <1>5. \A b \in Callers : ~Changing(b)'
    BY <1>4 DEF Changing, Shapes, Idle, Reshaping
  <1>6. /\ Len(arcs) \in Nat /\ n = Len(arcs) + 1 /\ n \in Nat /\ n # None
        /\ DOMAIN arcs = 1 .. Len(arcs)
        /\ IsSeq(arcs') /\ DOMAIN arcs' = 1 .. n /\ n \notin DOMAIN arcs
        /\ arcs'[n] = [id |-> r0, parent |-> p0, items |-> {}]
        /\ \A a \in DOMAIN arcs : arcs'[a] = arcs[a] /\ a \in DOMAIN arcs'
    <2>1. IsSeq(arcs)
      BY <1>0 DEF StoreOK
    <2> PICK s, e, t : s = arcs /\ e = [id |-> r0, parent |-> p0, items |-> {}] /\ t = arcs'
      OBVIOUS
    <2>2. t = Append(s, e) /\ IsSeq(s) /\ n = Len(s) + 1
      BY <1>1, <2>1
    <2>3. /\ Len(s) \in Nat /\ DOMAIN s = 1 .. Len(s) /\ IsSeq(t)
          /\ t = [k \in 1 .. Len(s) + 1 |-> IF k = Len(s) + 1 THEN e ELSE s[k]]
      BY ONLY <2>2, Sequences
    <2>4. n \in Nat /\ n # 0 /\ n \in 1 .. n /\ n \notin 1 .. Len(s) /\ 1 .. Len(s) \subseteq 1 .. n
      BY ONLY <2>2, <2>3
    <2>5. DOMAIN t = 1 .. n /\ t[n] = e /\ \A k \in 1 .. Len(s) : t[k] = s[k]
      BY ONLY <2>2, <2>3, <2>4
    <2> QED BY <2>3, <2>4, <2>5 DEF None
  <1>7. resources \in [Resources -> Nat] /\ children \in [Resources -> SUBSET Resources]
    BY <1>0 DEF StoreOK
  <1>8. resources'[r0] = n /\ \A r \in Resources \ {r0} : resources'[r] = resources[r]
    BY <1>1, <1>3, <1>7
  <1>9. Live' = Live \cup {r0}
    BY <1>3, <1>6, <1>8 DEF Live
  <1>10. /\ get_parent(r0)' = p0
         /\ \A r \in Live : get_parent(r)' = get_parent(r)
    <2>1. get_parent(r0)' = p0
      BY <1>6, <1>8 DEF get_parent
    <2>2. ASSUME NEW r \in Live PROVE get_parent(r)' = get_parent(r)
      <3>1. r # r0 /\ r \in Resources /\ resources[r] \in DOMAIN arcs
        BY <1>0, <1>3 DEF Live, StoreOK
      <3>2. resources'[r] = resources[r] /\ arcs'[resources[r]] = arcs[resources[r]]
        BY <1>6, <1>8, <3>1
      <3> QED BY <3>2 DEF get_parent
    <2> QED BY <2>1, <2>2
  <1>11. /\ children' \in [Resources -> SUBSET Resources]
         /\ \A y \in Resources : children[y] \subseteq children'[y]
         /\ p0 # None => r0 \in children'[p0]
    <2>1. p0 # None => p0 \in Resources
      BY <1>3 DEF Live
    <2> QED BY ONLY <1>1, <1>3, <1>7, <2>1
  <1>12. StoreOK'
    <2>1. ASSUME NEW a \in DOMAIN arcs' PROVE ArcOK(arcs'[a])
      <3>1. CASE a = n
        BY ONLY <1>6, <3>1 DEF ArcOK
      <3>2. CASE a # n
        <4>1. a \in DOMAIN arcs
          <5>1. a \in 1 .. n
            BY <1>6
          <5>2. a \in 1 .. Len(arcs)
            BY ONLY <1>6, <3>2, <5>1
          <5> QED BY <1>6, <5>2
        <4> QED BY <1>0, <1>6, <4>1 DEF StoreOK
      <3> QED BY <3>1, <3>2
    <2>2. resources' \in [Resources -> Nat]
      BY <1>1, <1>6, <1>7
    <2>3. ASSUME NEW r \in Live' PROVE resources'[r] \in DOMAIN arcs'
      <3>1. CASE r = r0
        BY <1>6, <1>8, <3>1
      <3>2. CASE r # r0
        <4>1. r \in Live /\ r \in Resources
          BY <1>9, <3>2 DEF Live
        <4> QED BY <1>0, <1>6, <1>8, <3>2, <4>1 DEF StoreOK
      <3> QED BY <3>1, <3>2
    <2> QED BY <1>6, <1>11, <2>1, <2>2, <2>3 DEF StoreOK
  <1>13. MutexOK'
    <2>1. IsSeq(topology')
      BY <1>0, <1>1, Sequences DEF MutexOK, Past
    <2> QED BY <1>5, <2>1 DEF MutexOK
  <1>14. IntentOK'
    BY <1>5 DEF IntentOK, Creating, Removing
  <1>15. RootedOK'
    BY <1>0, <1>3, <1>9, <1>10 DEF RootedOK
  <1>16. CoverOK'
    <2> SUFFICES ASSUME NEW r \in Live', get_parent(r)' # None
                 PROVE  r \in children'[get_parent(r)']
      BY DEF CoverOK
    <2>1. CASE r = r0
      BY <1>10, <1>11, <2>1
    <2>2. CASE r # r0
      <3>1. r \in Live /\ get_parent(r)' = get_parent(r)
        BY <1>9, <1>10, <2>2
      <3>2. ~\E b \in Callers : Removing(b) /\ call[b].at # "unmap" /\ call[b].rid = r
        BY <1>1, <1>2 DEF Removing
      <3>3. r \in children[get_parent(r)] /\ get_parent(r) \in Resources
        BY <1>0, <3>1, <3>2 DEF CoverOK, RootedOK, Live
      <3> QED BY <1>11, <3>1, <3>3
    <2> QED BY <2>1, <2>2
  <1>17. DepthOK'
    <2>1. PICK d \in [Resources -> 0 .. MAX_HIERARCHY_DEPTH] : Depths(d)
      BY <1>0 DEF DepthOK
    <2> PICK m : m = IF p0 = None THEN 0 ELSE d[p0] + 1
      OBVIOUS
    <2>2. m \in 0 .. MAX_HIERARCHY_DEPTH
      <3>1. MAX_HIERARCHY_DEPTH \in Nat
        BY TopologyAssumption
      <3>2. CASE p0 = None
        BY <3>1, <3>2
      <3>3. CASE p0 # None
        <4>1. d[p0] + 1 <= MAX_HIERARCHY_DEPTH
          BY <1>1, <2>1, <3>3 DEF Depths
        <4>2. d[p0] \in 0 .. MAX_HIERARCHY_DEPTH
          BY <1>3, <2>1, <3>3 DEF Live
        <4> QED BY <3>1, <3>3, <4>1, <4>2
      <3> QED BY <3>2, <3>3
    <2> PICK e : e = [d EXCEPT ![r0] = m]
      OBVIOUS
    <2>3. /\ e \in [Resources -> 0 .. MAX_HIERARCHY_DEPTH] /\ e[r0] = m
          /\ \A r \in Resources \ {r0} : e[r] = d[r]
      BY <1>3, <2>1, <2>2
    <2>4. ASSUME NEW r \in Live'
          PROVE  e[r] = IF get_parent(r)' = None THEN 0 ELSE e[get_parent(r)'] + 1
      <3>1. CASE r = r0
        <4>1. p0 # None => e[p0] = d[p0]
          BY <1>3, <2>3 DEF Live
        <4> QED BY <1>10, <2>3, <3>1, <4>1
      <3>2. CASE r # r0
        <4>1. r \in Live /\ get_parent(r)' = get_parent(r) /\ e[r] = d[r]
          BY <1>9, <1>10, <2>3, <3>2 DEF Live
        <4>2. get_parent(r) # None => e[get_parent(r)] = d[get_parent(r)]
          BY <1>0, <1>3, <2>3, <4>1 DEF RootedOK, Live
        <4>3. d[r] = IF get_parent(r) = None THEN 0 ELSE d[get_parent(r)] + 1
          BY <2>1, <4>1 DEF Depths
        <4> QED BY ONLY <4>1, <4>2, <4>3
      <3> QED BY <3>1, <3>2
    <2>5. Depths(e)'
      BY <1>5, <2>4 DEF Depths, Creating
    <2> QED BY <2>3, <2>5 DEF DepthOK
  <1>18. LogOK'
    <2> PICK g : g = ReplayAll(log)
      OBVIOUS
    <2>1. Formed(g) /\ Tied(g) /\ IsSeq(log)
      BY <1>0 DEF LogOK
    <2>2. \A b \in Callers : \A r : ~Owed(b, "create", r)' /\ ~Owed(b, "delete", r)'
      BY <1>5 DEF Owed, Changing, Shapes, Reshaping
    <2>3. /\ \A r : Owed(c, "create", r) <=> r = r0
          /\ \A b \in Callers : \A r : ~Owed(b, "delete", r)
      BY <1>1, <1>4 DEF Owed
    <2>4. \A r \in Resources : Kept(r) <=> r \in Live \cup {r0}
      BY <1>4, <2>3 DEF Kept
    <2>5. \A r \in Resources : Kept(r)' <=> r \in Live'
      BY <2>2 DEF Kept
    <2>6. \A r \in Resources : g.states[r].there <=> Kept(r)'
      BY <1>9, <2>1, <2>4, <2>5 DEF Tied
    <2>7. \A r \in Live' : g.states[r].there => g.states[r].parent = get_parent(r)'
      <3>1. g.states[r0].parent = p0
        <4>1. Owed(c, "create", call[c].rid) /\ call[c].rid = r0 /\ call[c].parent = p0
          BY <2>3
        <4> QED BY <2>1, <4>1 DEF Tied
      <3> QED BY <1>9, <1>10, <2>1, <3>1 DEF Tied
    <2>8. \A b \in Callers : ~Owed(b, "create", call[b].rid)'
      BY <2>2 DEF Owed
    <2>9. Tied(g)'
      BY <2>6, <2>7, <2>8 DEF Tied
    <2>10. ReplayAll(log)' = g /\ log' = log
      BY <1>1
    <2> QED BY <2>1, <2>9, <2>10 DEF LogOK
  <1> QED BY <1>4, <1>12, <1>13, <1>14, <1>15, <1>16, <1>17, <1>18 DEF TreeInv

\* A resource is gone from the table.
LEMMA RemoveKeeps ==
    ASSUME TreeInv, NEW c \in Callers, RemoveResource(c)
    PROVE  TreeInv'
  <1>0. CallsOK /\ StoreOK /\ RootedOK /\ MutexOK /\ IntentOK /\ CoverOK /\ LogOK /\ DepthOK
    BY DEF TreeInv
  <1> PICK x, r0 : x = call[c] /\ r0 = x.rid
    OBVIOUS
  <1>1. /\ x.op = "delete" /\ x.at = "drop" /\ Removing(c) /\ Changing(c) /\ Shapes(c)
        /\ call' = [call EXCEPT ![c] = Idle] /\ topology' = Past(c)
        /\ arcs' = arcs /\ resources' = [resources EXCEPT ![r0] = None]
        /\ children' = children /\ log' = log
    BY DEF RemoveResource, Return, Becomes, Removing, Changing, Shapes, Reshaping
  <1>2. HasTopology(c) /\ \A b \in Callers \ {c} : ~Changing(b)
    BY <1>0, <1>1, Alone DEF MutexOK
  <1>3. r0 \in Resources /\ r0 \in Live /\ \A r \in Live : get_parent(r) # r0
    BY <1>0, <1>1, Fields DEF IntentOK
  <1>4. /\ CallsOK' /\ call'[c] = Idle
        /\ \A b \in Callers \ {c} : ~Changing(b)'
        /\ \A b \in Callers \ {c} : \A r : ~Owed(b, "create", r) /\ ~Owed(b, "delete", r)
        /\ \A b \in Callers \ {c} : \A r : ~Owed(b, "create", r)' /\ ~Owed(b, "delete", r)'
    BY <1>1, <1>2, IdleFits, AloneAfter
  <1>5. \A b \in Callers : ~Changing(b)'
    BY <1>4 DEF Changing, Shapes, Idle, Reshaping
  <1>7. resources \in [Resources -> Nat]
    BY <1>0 DEF StoreOK
  <1>8. resources'[r0] = None /\ \A r \in Resources \ {r0} : resources'[r] = resources[r]
    BY <1>1, <1>3, <1>7
  <1>9. Live' = Live \ {r0}
    BY <1>3, <1>8 DEF Live
  <1>10. \A r \in Live' : get_parent(r)' = get_parent(r)
    <2>1. ASSUME NEW r \in Live' PROVE get_parent(r)' = get_parent(r)
      <3>1. resources'[r] = resources[r]
        BY <1>8, <1>9 DEF Live
      <3> QED BY <1>1, <3>1 DEF get_parent
    <2> QED BY <2>1
  <1>12. StoreOK'
    <2>1. resources' \in [Resources -> Nat]
      BY <1>1, <1>7 DEF None
    <2>2. \A r \in Live' : resources'[r] \in DOMAIN arcs'
      BY <1>0, <1>1, <1>8, <1>9 DEF StoreOK, Live
    <2> QED BY <1>0, <1>1, <2>1, <2>2 DEF StoreOK
  <1>13. MutexOK'
    <2>1. IsSeq(topology')
      BY <1>0, <1>1, Sequences DEF MutexOK, Past
    <2> QED BY <1>5, <2>1 DEF MutexOK
  <1>14. IntentOK'
    BY <1>5 DEF IntentOK, Creating, Removing
  <1>15. RootedOK'
    BY <1>0, <1>3, <1>9, <1>10 DEF RootedOK
  <1>16. CoverOK'
    <2> SUFFICES ASSUME NEW r \in Live', get_parent(r)' # None
                 PROVE  r \in children'[get_parent(r)']
      BY DEF CoverOK
    <2>1. r \in Live /\ r # r0 /\ get_parent(r)' = get_parent(r)
      BY <1>9, <1>10
    <2>2. ~\E b \in Callers : Removing(b) /\ call[b].at # "unmap" /\ call[b].rid = r
      BY <1>1, <1>2, <2>1 DEF Removing
    <2>3. r \in children[get_parent(r)]
      BY <1>0, <2>1, <2>2 DEF CoverOK
    <2> QED BY <1>1, <2>1, <2>3
  <1>17. DepthOK'
    <2>1. PICK d \in [Resources -> 0 .. MAX_HIERARCHY_DEPTH] : Depths(d)
      BY <1>0 DEF DepthOK
    <2>2. \A r \in Live' : d[r] = IF get_parent(r)' = None THEN 0 ELSE d[get_parent(r)'] + 1
      BY <1>9, <1>10, <2>1 DEF Depths
    <2>3. Depths(d)'
      BY <1>5, <2>2 DEF Depths, Creating
    <2> QED BY <2>3 DEF DepthOK
  <1>18. LogOK'
    <2> PICK g : g = ReplayAll(log)
      OBVIOUS
    <2>1. Formed(g) /\ Tied(g) /\ IsSeq(log)
      BY <1>0 DEF LogOK
    <2>2. \A b \in Callers : \A r : ~Owed(b, "create", r)' /\ ~Owed(b, "delete", r)'
      BY <1>5 DEF Owed, Changing, Shapes, Reshaping
    <2>3. /\ \A r : Owed(c, "delete", r) <=> r = r0
          /\ \A b \in Callers : \A r : ~Owed(b, "create", r)
      BY <1>1, <1>4 DEF Owed
    <2>4. \A r \in Resources : Kept(r) <=> r \in Live \ {r0}
      BY <1>4, <2>3 DEF Kept
    <2>5. \A r \in Resources : Kept(r)' <=> r \in Live'
      BY <2>2 DEF Kept
    <2>6. \A r \in Resources : g.states[r].there <=> Kept(r)'
      BY <1>9, <2>1, <2>4, <2>5 DEF Tied
    <2>7. \A r \in Live' : g.states[r].there => g.states[r].parent = get_parent(r)'
      BY <1>9, <1>10, <2>1 DEF Tied
    <2>8. \A b \in Callers : ~Owed(b, "create", call[b].rid)'
      BY <2>2 DEF Owed
    <2>9. Tied(g)'
      BY <2>6, <2>7, <2>8 DEF Tied
    <2>10. ReplayAll(log)' = g /\ log' = log
      BY <1>1
    <2> QED BY <2>1, <2>9, <2>10 DEF LogOK
  <1> QED BY <1>4, <1>12, <1>13, <1>14, <1>15, <1>16, <1>17, <1>18 DEF TreeInv

\* The tree in the log has no orphan either.
LEMMA LogRooted ==
    ASSUME TreeInv, NEW g, g = ReplayAll(log), NEW r \in Resources, g.states[r].there,
           g.states[r].parent # None
    PROVE  g.states[r].parent \in Resources /\ g.states[g.states[r].parent].there
  <1>0. CallsOK /\ RootedOK /\ MutexOK /\ IntentOK /\ Formed(g) /\ Tied(g)
    BY DEF TreeInv, LogOK
  <1> PICK p : p = g.states[r].parent
    OBVIOUS
  <1>1. p \in Resources
    BY <1>0 DEF Formed, OrNone
  <1>2. ASSUME NEW b \in Callers, NEW q, Owed(b, "delete", q) PROVE Removing(b) /\ call[b].rid = q
    BY <1>2 DEF Owed, Removing, Changing, Shapes, Reshaping
  <1>3. ASSUME NEW b \in Callers, NEW q, Owed(b, "create", q) PROVE Creating(b) /\ call[b].rid = q
    BY <1>3 DEF Owed, Creating, Changing, Shapes, Reshaping
  <1>4. Kept(p)
    <2>1. CASE \E b \in Callers : Owed(b, "create", r)
      <3>1. PICK b \in Callers : Owed(b, "create", r)
        BY <2>1
      <3>2. Creating(b) /\ call[b].rid = r
        BY <1>3, <3>1
      <3>3. p = call[b].parent /\ p \in Live
        BY <1>0, <3>1, <3>2 DEF Tied, IntentOK
      <3>4. ~\E a \in Callers : Owed(a, "delete", p)
        <4> SUFFICES ASSUME NEW a \in Callers, Removing(a) PROVE FALSE
          BY <1>2
        <4>1. HasTopology(a) /\ HasTopology(b)
          BY <1>0, <3>2 DEF MutexOK, Removing, Creating
        <4>2. a = b
          BY <4>1 DEF HasTopology
        <4> QED BY <3>2, <4>2 DEF Removing, Creating
      <3> QED BY <3>3, <3>4 DEF Kept
    <2>2. CASE ~\E b \in Callers : Owed(b, "create", r)
      <3>1. r \in Live
        BY <1>0, <2>2 DEF Tied, Kept
      <3>2. p = get_parent(r) /\ p \in Live
        BY <1>0, <3>1 DEF Tied, RootedOK
      <3>3. ~\E a \in Callers : Owed(a, "delete", p)
        BY <1>0, <1>2, <3>1, <3>2 DEF IntentOK
      <3> QED BY <3>2, <3>3 DEF Kept
    <2> QED BY <2>1, <2>2
  <1>5. g.states[p].there
    BY <1>0, <1>1, <1>4 DEF Tied
  <1> QED BY <1>1, <1>5

\* So no child becomes a root at the end of a replay.
LEMMA NoneDetached ==
    ASSUME TreeInv, NEW g, g = ReplayAll(log)
    PROVE  /\ \A r \in Resources : /\ Replay.states[r].there <=> g.states[r].there
                                   /\ g.states[r].there => Replay.states[r] = g.states[r]
           /\ Replay.children \in [Resources -> SUBSET Resources]
           /\ \A r \in Resources : g.states[r].there /\ g.states[r].parent # None =>
                                       r \in Replay.children[g.states[r].parent]
  <1> DEFINE gone(r) == g.states[r].parent # None /\ ~g.states[g.states[r].parent].there
  <1> PICK states, kids :
        /\ states = [r \in Resources |-> IF gone(r) THEN [g.states[r] EXCEPT !.parent = None]
                                         ELSE g.states[r]]
        /\ kids = [r \in Resources |-> {k \in g.children[r] : ~gone(k)}]
    OBVIOUS
  <1>1. Replay = [states |-> states, children |-> kids, entity |-> g.entity]
    BY Zenon DEF Replay, Detached
  <1>2. Replay.states = states /\ Replay.children = kids
    BY ONLY <1>1
  <1>3. Formed(g)
    BY DEF TreeInv, LogOK
  <1>4. ASSUME NEW r \in Resources, g.states[r].there PROVE ~gone(r)
    BY <1>4, LogRooted
  <1>5. ASSUME NEW r \in Resources
        PROVE  /\ states[r].there <=> g.states[r].there
               /\ g.states[r].there => states[r] = g.states[r]
    <2>1. g.states[r] = [there |-> g.states[r].there, parent |-> g.states[r].parent,
                         items |-> g.states[r].items]
      BY <1>3 DEF Formed
    <2>2. states[r] = IF gone(r) THEN [g.states[r] EXCEPT !.parent = None] ELSE g.states[r]
      OBVIOUS
    <2> HIDE DEF gone
    <2>3. states[r].there = g.states[r].there
      BY ONLY <2>1, <2>2
    <2> QED BY <1>4, <2>2, <2>3
  <1>6. kids \in [Resources -> SUBSET Resources]
    BY <1>3 DEF Formed
  <1>7. ASSUME NEW r \in Resources, g.states[r].there, g.states[r].parent # None
        PROVE  r \in kids[g.states[r].parent]
    <2>1. r \in g.children[g.states[r].parent] /\ g.states[r].parent \in Resources
      BY <1>3, <1>7 DEF Formed, OrNone
    <2>2. ~gone(r)
      BY <1>4, <1>7
    <2> HIDE DEF gone
    <2> QED BY <2>1, <2>2
  <1> QED BY <1>2, <1>5, <1>6, <1>7

\* A restart builds the tree of the log.
LEMMA RestartKeeps ==
    ASSUME TreeInv, Restart
    PROVE  TreeInv'
  <1>0. CallsOK /\ StoreOK /\ RootedOK /\ MutexOK /\ IntentOK /\ CoverOK /\ LogOK /\ DepthOK
    BY DEF TreeInv
  <1> PICK g, s, T, q : /\ g = ReplayAll(log) /\ s = Replay
                        /\ T = {r \in Resources : s.states[r].there} /\ q = SetToSeq(T)
    OBVIOUS
  <1>1. /\ \A r \in Resources : /\ s.states[r].there <=> g.states[r].there
                                /\ g.states[r].there => s.states[r] = g.states[r]
        /\ s.children \in [Resources -> SUBSET Resources]
        /\ \A r \in Resources : g.states[r].there /\ g.states[r].parent # None =>
                                    r \in s.children[g.states[r].parent]
    BY NoneDetached
  <1>2. PICK n \in Nat : /\ q \in [1 .. n -> T]
                         /\ \A r \in T : \E k \in 1 .. n : q[k] = r
                         /\ \A k, l \in 1 .. n : q[k] = q[l] => k = l
    <2>1. IsFiniteSet(T)
      BY TopologyAssumption, FS_Subset
    <2>2. q = SetToSeq(T)
      OBVIOUS
    <2> QED BY ONLY <2>1, <2>2, Listed
  <1>3. /\ arcs' = [k \in 1 .. n |-> [id |-> q[k], parent |-> s.states[q[k]].parent,
                                      items |-> s.states[q[k]].items]]
        /\ resources' = [r \in Resources |->
                IF r \in T THEN CHOOSE k \in 1 .. n : q[k] = r ELSE None]
        /\ children' = s.children /\ topology' = <<>> /\ log' = log
        /\ call' = [c \in Callers |-> Idle]
    <2>1. DOMAIN q = 1 .. n
      BY <1>2
    <2>2. arcs' = [k \in DOMAIN q |-> [id |-> q[k], parent |-> s.states[q[k]].parent,
                                      items |-> s.states[q[k]].items]]
      BY DEF Restart
    <2>3. resources' = [r \in Resources |->
                IF s.states[r].there THEN CHOOSE k \in DOMAIN q : q[k] = r ELSE None]
      BY DEF Restart
    <2>4. \A r \in Resources : r \in T <=> s.states[r].there
      OBVIOUS
    <2>5. children' = s.children /\ topology' = <<>> /\ log' = log
          /\ call' = [c \in Callers |-> Idle]
      BY DEF Restart
    <2>6. resources' = [r \in Resources |->
                IF r \in T THEN CHOOSE k \in 1 .. n : q[k] = r ELSE None]
      BY ONLY <2>1, <2>3, <2>4
    <2> QED BY ONLY <2>1, <2>2, <2>5, <2>6
  <1>4. /\ \A r \in T : resources'[r] \in 1 .. n /\ q[resources'[r]] = r
        /\ \A r \in Resources \ T : resources'[r] = None
        /\ T \subseteq Resources
    <2>1. ASSUME NEW r \in T PROVE resources'[r] \in 1 .. n /\ q[resources'[r]] = r
      <3>1. resources'[r] = CHOOSE k \in 1 .. n : q[k] = r
        BY <1>3
      <3>2. \E k \in 1 .. n : q[k] = r
        BY <1>2
      <3> HIDE <1>3
      <3> QED BY <3>1, <3>2
    <2> QED BY <1>3, <2>1
  <1>5. Live' = T
    BY <1>4 DEF Live, None
  <1>6. ASSUME NEW r \in T PROVE get_parent(r)' = g.states[r].parent
    <2>1. resources'[r] # None
      BY <1>4 DEF None
    <2>2. get_parent(r)' = arcs'[resources'[r]].parent
      BY <2>1 DEF get_parent
    <2> PICK k : k = resources'[r]
      OBVIOUS
    <2>3. k \in 1 .. n /\ q[k] = r
      BY <1>4
    <2>4. arcs'[k] = [id |-> q[k], parent |-> s.states[q[k]].parent,
                      items |-> s.states[q[k]].items]
      BY <1>3, <2>3
    <2>5. arcs'[k].parent = s.states[r].parent
      BY ONLY <2>3, <2>4
    <2>6. s.states[r] = g.states[r]
      BY <1>1
    <2> QED BY <2>2, <2>5, <2>6
  <1>7. \A b \in Callers : call'[b] = Idle /\ ~Changing(b)'
    BY <1>3 DEF Changing, Shapes, Idle, Reshaping
  <1>8. CallsOK'
    <2>1. call' = [b \in Callers |-> call'[b]]
      BY <1>3
    <2>2. ASSUME NEW b \in Callers PROVE CallOK(b)'
      BY <1>7, IdleFits DEF CallOK, FitsCall, Shapes
    <2> QED BY <2>1, <2>2 DEF CallsOK
  <1>9. StoreOK'
    <2> PICK new : new = arcs'
      OBVIOUS
    <2>1. DOMAIN new = 1 .. n /\ new = [k \in 1 .. n |-> new[k]] /\ n \in Nat
      BY <1>3
    <2>2. IsSeq(new)
      <3> DEFINE X == {new[k] : k \in 1 .. n}
      <3>1. new \in [1 .. n -> X]
        BY ONLY <2>1
      <3>2. new \in Seq(X)
        BY ONLY <2>1, <3>1
      <3> QED BY ONLY <3>2 DEF IsSeq
    <2>3. ASSUME NEW k \in DOMAIN new PROVE ArcOK(new[k])
      <3>1. new[k] = [id |-> q[k], parent |-> s.states[q[k]].parent,
                      items |-> s.states[q[k]].items]
        BY <1>3, <2>1
      <3> QED BY ONLY <3>1 DEF ArcOK
    <2>4. resources' \in [Resources -> Nat]
      <3>1. \A r \in Resources : resources'[r] \in Nat
        BY <1>4 DEF None
      <3>2. resources' = [r \in Resources |-> resources'[r]]
        BY <1>3
      <3> QED BY ONLY <3>1, <3>2
    <2>5. \A r \in Live' : resources'[r] \in DOMAIN new
      BY <1>4, <1>5, <2>1
    <2> QED BY <1>1, <1>3, <2>2, <2>3, <2>4, <2>5 DEF StoreOK
  <1>10. MutexOK'
    <2>1. IsSeq(<<>>)
      BY DEF IsSeq
    <2> QED BY <1>3, <1>7, <2>1 DEF MutexOK
  <1>11. IntentOK'
    BY <1>7 DEF IntentOK, Creating, Removing
  <1>12. \A r \in T : g.states[r].there /\ r \in Resources
    BY <1>1
  <1>13. RootedOK'
    <2>1. ASSUME NEW r \in T PROVE g.states[r].parent \in T \cup {None}
      <3>1. CASE g.states[r].parent # None
        BY <1>1, <1>12, <3>1, LogRooted
      <3> QED BY <3>1
    <2> QED BY <1>5, <1>6, <2>1 DEF RootedOK
  <1>14. CoverOK'
    <2> SUFFICES ASSUME NEW r \in T, g.states[r].parent # None
                 PROVE  r \in s.children[g.states[r].parent]
      BY <1>3, <1>5, <1>6 DEF CoverOK
    <2> QED BY <1>1, <1>12
  <1>15. Formed(g) /\ Tied(g) /\ IsSeq(log)
    BY <1>0 DEF LogOK
  <1>16. LogOK'
    <2>1. \A b \in Callers : \A r : ~Owed(b, "create", r)' /\ ~Owed(b, "delete", r)'
      BY <1>7 DEF Owed, Changing, Shapes, Reshaping
    <2>2. \A r \in Resources : Kept(r)' <=> r \in T
      BY <1>5, <2>1 DEF Kept
    <2>3. \A r \in Resources : g.states[r].there <=> Kept(r)'
      BY <1>1, <2>2
    <2>4. \A r \in Live' : g.states[r].there => g.states[r].parent = get_parent(r)'
      BY <1>5, <1>6
    <2>5. \A b \in Callers : ~Owed(b, "create", call[b].rid)'
      BY <2>1 DEF Owed
    <2>6. Tied(g)'
      BY <2>3, <2>4, <2>5 DEF Tied
    <2>7. ReplayAll(log)' = g /\ log' = log
      BY <1>3
    <2> QED BY <1>15, <2>6, <2>7 DEF LogOK
  <1>17. DepthOK'
    <2>0. MAX_HIERARCHY_DEPTH \in Nat
      BY TopologyAssumption
    <2>1. PICK d \in [Resources -> 0 .. MAX_HIERARCHY_DEPTH] : Depths(d)
      BY <1>0 DEF DepthOK
    <2> DEFINE up(r) == IF g.states[r].parent = None THEN 0 ELSE d[g.states[r].parent] + 1
    <2> PICK e : e = [r \in Resources |-> IF r \in Live THEN d[r]
                                         ELSE IF r \in T THEN up(r) ELSE 0]
      OBVIOUS
    <2>2. ASSUME NEW r \in T
          PROVE  /\ g.states[r].parent \in Live \cup {None}
                 /\ r \in Live => d[r] = up(r)
                 /\ r \notin Live => up(r) \in 0 .. MAX_HIERARCHY_DEPTH
      <3>1. CASE r \in Live
        <4>1. g.states[r].parent = get_parent(r)
          BY <1>12, <1>15, <3>1 DEF Tied
        <4> QED BY <1>0, <2>1, <3>1, <4>1 DEF RootedOK, Depths
      <3>2. CASE r \notin Live
        <4>1. PICK b \in Callers : Owed(b, "create", r)
          BY <1>12, <1>15, <3>2 DEF Tied, Kept
        <4>2. Creating(b) /\ call[b].rid = r /\ g.states[r].parent = call[b].parent
          BY <1>15, <4>1 DEF Owed, Creating, Changing, Shapes, Reshaping, Tied
        <4>3. g.states[r].parent \in Live \cup {None}
          BY <1>0, <4>2 DEF IntentOK
        <4>4. CASE g.states[r].parent = None
          BY <2>0, <3>2, <4>3, <4>4
        <4>5. CASE g.states[r].parent # None
          <5>1. d[g.states[r].parent] + 1 <= MAX_HIERARCHY_DEPTH
            BY <2>1, <4>2, <4>5 DEF Depths
          <5>2. d[g.states[r].parent] \in 0 .. MAX_HIERARCHY_DEPTH
            BY <2>1, <4>3, <4>5 DEF Live
          <5> QED BY <2>0, <3>2, <4>3, <4>5, <5>1, <5>2
        <4> QED BY <4>4, <4>5
      <3> QED BY <3>1, <3>2
    <2>3. e \in [Resources -> 0 .. MAX_HIERARCHY_DEPTH]
      <3> HIDE DEF up
      <3> QED BY <2>0, <2>1, <2>2
    <2>4. \A r \in T : e[r] = up(r)
      <3> HIDE DEF up
      <3> QED BY <1>4, <2>2
    <2>5. \A r \in Live : e[r] = d[r] /\ r \in Resources
      BY DEF Live
    <2>6. \A r \in T : e[r] = IF g.states[r].parent = None THEN 0
                              ELSE e[g.states[r].parent] + 1
      BY ONLY <2>2, <2>4, <2>5
    <2> HIDE DEF up
    <2>7. \A r \in Live' : e[r] = IF get_parent(r)' = None THEN 0 ELSE e[get_parent(r)'] + 1
      BY ONLY <1>5, <1>6, <2>6
    <2>8. \A b \in Callers : ~Creating(b)'
      BY <1>7 DEF Creating
    <2>9. Depths(e)'
      BY ONLY <2>7, <2>8 DEF Depths
    <2> QED BY <2>3, <2>9 DEF DepthOK
  <1> QED BY <1>8, <1>9, <1>10, <1>11, <1>13, <1>14, <1>16, <1>17 DEF TreeInv

\* At first there is nothing.
LEMMA InitTree ==
    ASSUME Init
    PROVE  TreeInv
  <1>1. Live = {} /\ None \in Nat
    BY DEF Init, Live, None
  <1>2. \A b \in Callers : call[b] = Idle /\ ~Changing(b) /\ CallOK(b)
    BY IdleFits DEF Init, Changing, Shapes, Idle, Reshaping, CallOK, FitsCall
  <1>3. IsSeq(<<>>)
    BY DEF IsSeq
  <1>4. CallsOK
    BY <1>2 DEF CallsOK, Init
  <1>5. StoreOK /\ MutexOK /\ IntentOK /\ RootedOK /\ CoverOK
    BY <1>1, <1>2, <1>3 DEF Init, StoreOK, MutexOK, IntentOK, RootedOK, CoverOK,
                            Creating, Removing
  <1>6. DepthOK
    <2> DEFINE d == [r \in Resources |-> 0]
    <2>1. d \in [Resources -> 0 .. MAX_HIERARCHY_DEPTH]
      BY TopologyAssumption
    <2>2. Depths(d)
      BY <1>1, <1>2 DEF Depths, Creating
    <2> QED BY <2>1, <2>2 DEF DepthOK
  <1>7. LogOK
    <2>1. log = <<>> /\ ReplayAll(log) = Nothing
      BY ReplayIsStepwise DEF Init
    <2>2. Formed(Nothing)
      BY DEF Formed, Nothing, OrNone
    <2>3. \A b \in Callers : \A r : ~Owed(b, "create", r) /\ ~Owed(b, "delete", r)
      BY <1>2 DEF Owed, Idle
    <2>4. \A r \in Resources : ~Kept(r)
      BY <1>1, <2>3 DEF Kept
    <2>5. \A r \in Resources : Nothing.states[r].there = FALSE
      BY DEF Nothing
    <2>6. Tied(Nothing)
      BY <1>1, <2>3, <2>4, <2>5 DEF Tied
    <2> QED BY <1>3, <2>1, <2>2, <2>6 DEF LogOK
  <1> QED BY <1>4, <1>5, <1>6, <1>7 DEF TreeInv

\* Every step keeps the invariant.
LEMMA StepKeeps ==
    ASSUME TreeInv, [Next]_vars
    PROVE  TreeInv'
  <1>1. ASSUME NEW c \in Callers, Step(c) PROVE TreeInv'
    BY <1>1, StartKeeps, OnTheWayKeeps, CheckKeeps, QueueKeeps, ApplyKeeps,
       CheckCreateKeeps, CheckDeleteKeeps, UnmapKeeps, AppendKeeps, InsertKeeps, RemoveKeeps
       DEF Step, Shape
  <1>2. ASSUME NEW c \in Callers, NEW new \in Operations, Begin(c, new) PROVE TreeInv'
    BY <1>2, BeginKeeps
  <1>3. CASE Restart
    BY <1>3, RestartKeeps
  <1>4. CASE UNCHANGED vars
    <2>1. /\ arcs' = arcs /\ resources' = resources /\ children' = children
          /\ topology' = topology /\ log' = log /\ call' = call
      BY <1>4 DEF vars, store, locks
    <2>2. ReplayAll(log)' = ReplayAll(log)
      BY <2>1
    <2>3. /\ CallsOK' /\ StoreOK' /\ MutexOK' /\ RootedOK'
      BY <2>1 DEF TreeInv, CallsOK, CallOK, Shapes, StoreOK, Live, MutexOK, Changing,
                  HasTopology, RootedOK, get_parent
    <2>4. Live' = Live /\ \A r : get_parent(r)' = get_parent(r)
      BY <2>1 DEF Live, get_parent
    <2>5. \A b \in Callers : /\ Creating(b)' <=> Creating(b)
                             /\ Removing(b)' <=> Removing(b)
                             /\ \A op, r : Owed(b, op, r)' <=> Owed(b, op, r)
      BY <2>1 DEF Creating, Removing, Changing, Shapes, Owed
    <2>6. IntentOK' /\ CoverOK'
      BY <2>1, <2>4, <2>5 DEF TreeInv, IntentOK, CoverOK
    <2>7. DepthOK'
      BY <2>1, <2>4, <2>5 DEF TreeInv, DepthOK, Depths
    <2>8. \A r \in Resources : Kept(r)' <=> Kept(r)
      BY <2>4, <2>5 DEF Kept
    <2>9. LogOK'
      <3> PICK g : g = ReplayAll(log)
        OBVIOUS
      <3>1. Formed(g) /\ Tied(g) /\ IsSeq(log)
        BY DEF TreeInv, LogOK
      <3>2. Tied(g)'
        BY <2>1, <2>4, <2>5, <2>8, <3>1 DEF Tied
      <3> QED BY <2>1, <2>2, <3>1, <3>2 DEF LogOK
    <2> QED BY <2>3, <2>6, <2>7, <2>9 DEF TreeInv
  <1> QED BY <1>1, <1>2, <1>3, <1>4 DEF Next

\* In a state of the invariant there is no orphan.
LEMMA TreeInvMeansNoOrphans ==
    TreeInv => NoOrphans
  <1> SUFFICES ASSUME TreeInv PROVE NoOrphans
    OBVIOUS
  <1>0. RootedOK /\ DepthOK
    BY DEF TreeInv
  <1>1. PICK d \in [Resources -> 0 .. MAX_HIERARCHY_DEPTH] : Depths(d)
    BY <1>0 DEF DepthOK
  <1>2. \A r \in Live : d[r] = IF get_parent(r) = None THEN 0 ELSE d[get_parent(r)] + 1
    BY <1>1 DEF Depths
  <1>3. ASSUME NEW r \in Live
        PROVE  get_parent(r) \in Live \cup {None} /\ Len(Ancestors(r)) <= MAX_HIERARCHY_DEPTH
    <2>1. Len(Ancestors(r)) = d[r]
      BY <1>0, <1>2, DepthIsLength
    <2>2. d[r] \in 0 .. MAX_HIERARCHY_DEPTH /\ MAX_HIERARCHY_DEPTH \in Nat
      BY TopologyAssumption DEF Live
    <2> QED BY <1>0, <2>1, <2>2 DEF RootedOK
  <1>4. ASSUME NEW r \in Resources, ReplayAll(log).states[r].there,
               ReplayAll(log).states[r].parent # None
        PROVE  ReplayAll(log).states[ReplayAll(log).states[r].parent].there
    BY <1>4, LogRooted
  <1> QED BY <1>3, <1>4 DEF NoOrphans

\* Between two records, the tree in memory is the one a restart would build.
TreeIsReplay ==
    Between => \A r \in Resources :
        /\ Replay.states[r].there <=> r \in Live
        /\ r \in Live => Replay.states[r].parent = get_parent(r)

\* In a state of the invariant it is.
LEMMA TreeInvMeansReplay ==
    TreeInv => TreeIsReplay
  <1> SUFFICES ASSUME TreeInv, Between PROVE TreeIsReplay
    BY DEF TreeIsReplay
  <1> PICK g : g = ReplayAll(log)
    OBVIOUS
  <1>1. Tied(g)
    BY DEF TreeInv, LogOK
  <1>2. \A c \in Callers : \A r : ~Owed(c, "create", r) /\ ~Owed(c, "delete", r)
    BY DEF Between, Owed
  <1>3. \A r \in Resources : Kept(r) <=> r \in Live
    BY <1>2 DEF Kept
  <1>4. \A r \in Resources : /\ Replay.states[r].there <=> g.states[r].there
                             /\ g.states[r].there => Replay.states[r] = g.states[r]
    BY NoneDetached
  <1>5. ASSUME NEW r \in Resources
        PROVE  /\ Replay.states[r].there <=> r \in Live
               /\ r \in Live => Replay.states[r].parent = get_parent(r)
    BY <1>1, <1>3, <1>4 DEF Tied
  <1> QED BY <1>5 DEF TreeIsReplay

\* The invariant always holds.
LEMMA Tree ==
    Spec => []TreeInv
  <1>1. Init => TreeInv
    BY InitTree
  <1>2. TreeInv /\ [Next]_vars => TreeInv'
    BY StepKeeps
  <1> QED BY <1>1, <1>2, PTL DEF Spec

\* The topology lock's reason (engine/mod.rs, create_resource and
\* delete_resource): whatever creates, deletes, other calls and restarts run,
\* no resource has a parent that does not exist, in memory or in the log, and
\* none lies deeper than MAX_HIERARCHY_DEPTH.
THEOREM TreeHasNoOrphans ==
    Spec => []NoOrphans
  BY Tree, TreeInvMeansNoOrphans, PTL

\* Write-ahead, for the tree: between two records, a restart would find the
\* resources and the parents that memory has.
THEOREM TreeIsWhatReplayBuilds ==
    Spec => []TreeIsReplay
  BY Tree, TreeInvMeansReplay, PTL
-------------------------------------------------------------------------------
(* Types: the lines for the locks, and the index.                          *)

\* Those in a line that are not the caller's.
LEMMA OthersStay ==
    ASSUME NEW s, IsSeq(s), NEW c
    PROVE  /\ IsSeq(Others(s, c))
           /\ \A k \in DOMAIN Others(s, c) : \E j \in DOMAIN s :
                  Others(s, c)[k] = s[j] /\ s[j].caller # c
  <1> DEFINE X == {s[j] : j \in {i \in DOMAIN s : s[i].caller # c}}
  <1> PICK t : t = [k \in DOMAIN s |-> IF s[k].caller = c THEN <<>> ELSE <<s[k]>>]
    OBVIOUS
  <1>1. Len(s) \in Nat /\ DOMAIN s = 1 .. Len(s)
    BY Sequences
  <1>2. ASSUME NEW k \in DOMAIN s PROVE t[k] \in Seq(X)
    <2>1. CASE s[k].caller = c
      BY <2>1
    <2>2. CASE s[k].caller # c
      <3>1. s[k] \in X
        BY <2>2
      <3>2. t[k] = <<s[k]>>
        BY <2>2
      <3> HIDE DEF X
      <3> QED BY ONLY <3>1, <3>2
    <2> QED BY <2>1, <2>2
  <1> HIDE DEF X
  <1>3. t \in [1 .. Len(s) -> Seq(X)]
    BY <1>1, <1>2
  <1>4. t \in Seq(Seq(X))
    BY ONLY <1>1, <1>3
  <1>5. Others(s, c) \in Seq(X)
    <2>1. Others(s, c) = FlattenSeq(t)
      BY DEF Others
    <2> QED BY <1>4, <2>1, Flattened
  <1>6. \A k \in DOMAIN Others(s, c) : Others(s, c)[k] \in X
    BY <1>5
  <1> QED BY <1>5, <1>6 DEF IsSeq, X

Indexes == [Entities -> OrNone]

\* A record leaves the index an index.
LEMMA IndexStep ==
    ASSUME NEW index \in Indexes, NEW rec, NEW rids, rids \subseteq Resources
    PROVE  IndexAfter(index, rec, rids) \in Indexes
  <1> DEFINE x(e) ==
        CASE rec.op = "added" /\ rec.id = e /\ rec.rid \in rids -> rec.rid
          [] rec.op = "removed" /\ rec.id = e /\ rec.rid \in rids -> None
          [] rec.op = "committed" /\ \E m \in rec.moves : m.rid \in rids /\ m.becomes = e ->
                (CHOOSE m \in rec.moves : m.rid \in rids /\ m.becomes = e).rid
          [] /\ rec.op = "committed" /\ \E m \in rec.moves : m.rid \in rids /\ m.id = e
             /\ \A m \in rec.moves : m.rid \in rids => m.becomes # e -> None
          [] OTHER -> index[e]
  <1>1. ASSUME NEW e \in Entities PROVE x(e) \in OrNone
    <2>1. index[e] \in OrNone /\ None \in OrNone /\ rids \subseteq OrNone
      BY DEF Indexes, OrNone
    <2>2. ASSUME \E m \in rec.moves : m.rid \in rids /\ m.becomes = e
          PROVE  (CHOOSE m \in rec.moves : m.rid \in rids /\ m.becomes = e).rid \in rids
      BY <2>2, Zenon
    <2>3. CASE rec.op = "added"
      BY <2>1, <2>3
    <2>4. CASE rec.op = "removed"
      BY <2>1, <2>4
    <2>5. CASE rec.op = "committed"
      <3> DEFINE A == \E m \in rec.moves : m.rid \in rids /\ m.becomes = e
                 B == \E m \in rec.moves : m.rid \in rids /\ m.id = e
                 y == (CHOOSE m \in rec.moves : m.rid \in rids /\ m.becomes = e).rid
      <3>1. x(e) = CASE rec.op = "added" /\ rec.id = e /\ rec.rid \in rids -> rec.rid
                     [] rec.op = "removed" /\ rec.id = e /\ rec.rid \in rids -> None
                     [] rec.op = "committed" /\ A -> y
                     [] rec.op = "committed" /\ B /\ ~A -> None
                     [] OTHER -> index[e]
        OBVIOUS
      <3>2. A => y \in rids
        BY <2>2
      <3> HIDE DEF A, B, y, x
      <3> QED BY <2>1, <2>5, <3>1, <3>2
    <2>6. CASE rec.op \notin {"added", "removed", "committed"}
      BY <2>1, <2>6
    <2> QED BY <2>3, <2>4, <2>5, <2>6
  <1>2. IndexAfter(index, rec, rids) = [e \in Entities |-> x(e)]
    BY DEF IndexAfter
  <1> HIDE DEF x
  <1> QED BY <1>1, <1>2 DEF Indexes

\* The index that replay builds is one.
LEMMA ReplayedIndex ==
    ASSUME NEW s, IsSeq(s)
    PROVE  ReplayAll(s).entity \in Indexes
  <1>1. PICK f : RunOf(f, s, Len(s)) /\ ReplayAll(s) = f[Len(s)]
    BY ReplayEnds
  <1> PICK m : m = Len(s)
    OBVIOUS
  <1>2. m \in Nat /\ m \in 0 .. m
    BY Sequences
  <1>3. \A n \in 0 .. m : f[n] = IF n = 0 THEN Nothing ELSE ReplayOne(f[n - 1], s[n])
    BY <1>1, Zenon DEF RunOf
  <1> DEFINE S == {n \in 0 .. m : f[n].entity \notin Indexes}
  <1>4. S = {}
    <2> SUFFICES ASSUME S # {} PROVE FALSE
      OBVIOUS
    <2>1. S \subseteq Nat
      OBVIOUS
    <2>2. PICK x \in S : \A y \in S : x <= y
      <3> HIDE DEF S
      <3> QED BY <2>1, FirstFailure
    <2>3. x \in 0 .. m /\ f[x].entity \notin Indexes
      OBVIOUS
    <2>4. x # 0
      <3>1. Nothing.entity \in Indexes
        BY DEF Nothing, Indexes, OrNone
      <3> QED BY <1>3, <2>3, <3>1
    <2>5. x - 1 \in 0 .. m /\ ~ (x <= x - 1)
      BY <1>2, <2>3, <2>4
    <2>6. f[x - 1].entity \in Indexes
      <3>1. x - 1 \notin S
        <4> HIDE DEF S
        <4> QED BY <2>2, <2>5
      <3> QED BY <2>5, <3>1
    <2>7. f[x] = ReplayOne(f[x - 1], s[x])
      BY <1>3, <2>3, <2>4
    <2> PICK g, rec : g = f[x - 1] /\ rec = s[x]
      OBVIOUS
    <2> DEFINE there == {r \in Resources : g.states[r].there}
    <2>8. ReplayOne(g, rec).entity \in {g.entity, IndexAfter(g.entity, rec, there)}
      BY DEF ReplayOne
    <2>9. IndexAfter(g.entity, rec, there) \in Indexes
      BY <2>6, IndexStep
    <2> QED BY <2>3, <2>6, <2>7, <2>8, <2>9
  <1> QED BY <1>1, <1>2, <1>4

IndexRunOf(f, base, rids, s, m) ==
    f = [n \in 0 .. m |-> IF n = 0 THEN base ELSE IndexAfter(f[n - 1], s[n], rids)]

\* Records can be applied to the index one after the other.
LEMMA IndexRunExists ==
    ASSUME NEW base, NEW rids, NEW s, NEW m \in Nat
    PROVE  \E f : IndexRunOf(f, base, rids, s, m)
  <1> DEFINE S == {k \in Nat : ~\E f : IndexRunOf(f, base, rids, s, k)}
  <1> SUFFICES ASSUME S # {} PROVE FALSE
    OBVIOUS
  <1>1. PICK x \in S : \A y \in S : x <= y
    BY FirstFailure
  <1>2. CASE x = 0
    <2> DEFINE f == [n \in 0 .. 0 |-> base]
    <2>1. IndexRunOf(f, base, rids, s, 0)
      BY DEF IndexRunOf
    <2> QED BY <1>1, <1>2, <2>1
  <1>3. CASE x # 0
    <2>1. x - 1 \in Nat /\ x \in Nat
      BY <1>3
    <2>2. x - 1 \notin S
      <3>1. ~ (x <= x - 1)
        BY <2>1
      <3> HIDE DEF S
      <3> QED BY <1>1, <3>1
    <2>3. PICK f : IndexRunOf(f, base, rids, s, x - 1)
      BY <2>1, <2>2
    <2> DEFINE g == [n \in 0 .. x |-> IF n = x THEN IndexAfter(f[x - 1], s[x], rids) ELSE f[n]]
    <2>a. \A n \in 0 .. x - 1 : f[n] =
                IF n = 0 THEN base ELSE IndexAfter(f[n - 1], s[n], rids)
      BY <2>3, Zenon DEF IndexRunOf
    <2>4. ASSUME NEW n \in 0 .. x
          PROVE  g[n] = IF n = 0 THEN base ELSE IndexAfter(g[n - 1], s[n], rids)
      <3>1. CASE n = 0
        <4>1. n # x /\ n \in 0 .. x - 1
          BY <2>1, <1>3, <3>1
        <4> QED BY <2>a, <3>1, <4>1
      <3>2. CASE n # 0
        <4>1. n - 1 \in 0 .. x /\ n - 1 # x /\ n - 1 \in 0 .. x - 1
          BY <2>1, <3>2
        <4>2. g[n - 1] = f[n - 1]
          BY <4>1
        <4>3. CASE n = x
          BY <3>2, <4>2, <4>3
        <4>4. CASE n # x
          <5>1. n \in 0 .. x - 1
            BY <2>1, <4>4
          <5> QED BY <2>a, <3>2, <4>2, <4>4, <5>1
        <4> QED BY <4>3, <4>4
      <3> QED BY <3>1, <3>2
    <2>5. g = [n \in 0 .. x |-> IF n = 0 THEN base ELSE IndexAfter(g[n - 1], s[n], rids)]
      <3>1. g = [n \in 0 .. x |-> g[n]]
        OBVIOUS
      <3> HIDE DEF g
      <3> QED BY <2>4, <3>1
    <2> QED BY <2>5 DEF IndexRunOf
  <1> QED BY <1>2, <1>3

\* The index that a call leaves is one.
LEMMA AppliedIndex ==
    ASSUME NEW recs, IsSeq(recs), NEW rids, rids \subseteq Resources, entity \in Indexes
    PROVE  WholeIndexAfter(rids, recs) \in Indexes
  <1> PICK m, base : m = Len(recs) /\ base = entity
    OBVIOUS
  <1>1. m \in Nat /\ m \in 0 .. m
    BY Sequences
  <1> DEFINE index == CHOOSE f : f = [n \in 0 .. Len(recs) |->
                        IF n = 0 THEN entity ELSE IndexAfter(f[n - 1], recs[n], rids)]
  <1>2. WholeIndexAfter(rids, recs) = index[m]
    BY Zenon DEF WholeIndexAfter
  <1>3. index = [n \in 0 .. Len(recs) |->
                        IF n = 0 THEN entity ELSE IndexAfter(index[n - 1], recs[n], rids)]
    <2>1. \E f : f = [n \in 0 .. Len(recs) |->
                        IF n = 0 THEN entity ELSE IndexAfter(f[n - 1], recs[n], rids)]
      <3>1. \E f : IndexRunOf(f, base, rids, recs, m)
        BY <1>1, IndexRunExists
      <3> QED BY <3>1, Zenon DEF IndexRunOf
    <2> QED BY <2>1, Zenon
  <1> HIDE DEF index
  <1>4. \A n \in 0 .. m : index[n] =
            IF n = 0 THEN base ELSE IndexAfter(index[n - 1], recs[n], rids)
    BY <1>3, Zenon
  <1> DEFINE S == {n \in 0 .. m : index[n] \notin Indexes}
  <1>5. S = {}
    <2> SUFFICES ASSUME S # {} PROVE FALSE
      OBVIOUS
    <2>1. S \subseteq Nat
      OBVIOUS
    <2>2. PICK x \in S : \A y \in S : x <= y
      <3> HIDE DEF S
      <3> QED BY <2>1, FirstFailure
    <2>3. x \in 0 .. m /\ index[x] \notin Indexes
      OBVIOUS
    <2>4. x # 0
      BY <1>4, <2>3
    <2>5. x - 1 \in 0 .. m /\ ~ (x <= x - 1)
      BY <1>1, <2>3, <2>4
    <2>6. index[x - 1] \in Indexes
      <3>1. x - 1 \notin S
        <4> HIDE DEF S
        <4> QED BY <2>2, <2>5
      <3> QED BY <2>5, <3>1
    <2>7. index[x] = IndexAfter(index[x - 1], recs[x], rids)
      BY <1>4, <2>3, <2>4
    <2> QED BY <2>3, <2>6, <2>7, IndexStep
  <1> QED BY <1>1, <1>2, <1>5

\* A call that has joined the line for the topology lock.
Waits(x) == x.op \in Reshaping /\ x.at # "start"
Guarding(b) == b \in Callers /\ call[b] # Idle /\ call[b].op # "create"

\* Nobody is in that line twice, or without a reason.
LineOK ==
    /\ \A i, j \in DOMAIN topology : topology[i] = topology[j] => i = j
    /\ \A i \in DOMAIN topology : topology[i] \in Callers /\ Waits(call[topology[i]])

\* Those in a resource's line run, and have not come to create.
GuardsOK ==
    /\ IsSeq(lock) /\ Len(lock) = Len(arcs)
    /\ \A a \in DOMAIN lock : /\ IsSeq(lock[a])
                              /\ \A k \in DOMAIN lock[a] : Guarding(lock[a][k].caller)
RestOK == \A b \in Callers : call[b].at = "idle" => call[b] = Idle

\* A state is that of a resource, the one whose id leads to it.
IdsOK == /\ \A a \in DOMAIN arcs : arcs[a].id \in Resources
         /\ \A r \in Live : arcs[resources[r]].id = r

LocksOK == LineOK /\ GuardsOK /\ RestOK

\* The line, when nobody comes or goes.
LEMMA LineStays ==
    ASSUME CallsOK, LineOK, NEW c \in Callers, NEW new, call' = [call EXCEPT ![c] = new],
           Waits(call[c]) => Waits(new), topology' = topology
    PROVE  LineOK'
  <1>1. call'[c] = new /\ \A b \in Callers \ {c} : call'[b] = call[b]
    BY OneCall
  <1> QED BY <1>1 DEF LineOK

\* When the caller leaves it.
LEMMA LineLeaves ==
    ASSUME CallsOK, LineOK, NEW c \in Callers, NEW new, call' = [call EXCEPT ![c] = new],
           IsSeq(topology), Waits(call[c]) => HasTopology(c), topology' = Past(c)
    PROVE  LineOK'
  <1>1. call'[c] = new /\ \A b \in Callers \ {c} : call'[b] = call[b]
    BY OneCall
  <1> PICK X : topology \in Seq(X)
    BY DEF IsSeq
  <1>2. CASE HasTopology(c)
    <2> PICK t, u : t = topology /\ u = topology'
      OBVIOUS
    <2>1. t \in Seq(X) /\ t # <<>> /\ Head(t) = c /\ u = Tail(t)
      BY <1>2 DEF HasTopology, Past
    <2>2. /\ DOMAIN u = 1 .. Len(t) - 1 /\ DOMAIN t = 1 .. Len(t) /\ Len(t) \in Nat
          /\ t[1] = c /\ 1 \in DOMAIN t
          /\ \A i \in 1 .. Len(t) - 1 : u[i] = t[i + 1] /\ i + 1 \in DOMAIN t /\ i + 1 # 1
      BY ONLY <2>1
    <2>3. /\ \A i, j \in DOMAIN t : t[i] = t[j] => i = j
          /\ \A i \in DOMAIN t : t[i] \in Callers /\ Waits(call[t[i]])
      BY DEF LineOK
    <2>4. ASSUME NEW i \in DOMAIN u PROVE u[i] \in Callers \ {c} /\ Waits(call[u[i]])
      BY ONLY <2>2, <2>3, <2>4
    <2>5. ASSUME NEW i \in DOMAIN u, NEW j \in DOMAIN u, u[i] = u[j] PROVE i = j
      <3>1. i \in 1 .. Len(t) - 1 /\ j \in 1 .. Len(t) - 1
        BY <2>2, <2>5
      <3>2. /\ i + 1 \in DOMAIN t /\ j + 1 \in DOMAIN t /\ t[i + 1] = t[j + 1]
        BY ONLY <2>2, <2>5, <3>1
      <3>3. i + 1 = j + 1
        BY ONLY <2>3, <3>2
      <3> QED BY ONLY <2>2, <3>1, <3>3
    <2>6. \A i \in DOMAIN u : Waits(call'[u[i]])
      BY <1>1, <2>4 DEF Waits
    <2> QED BY <2>4, <2>5, <2>6 DEF LineOK
  <1>3. CASE ~HasTopology(c)
    <2>1. topology' = topology /\ ~Waits(call[c])
      BY <1>3 DEF Past, HasTopology
    <2> QED BY <1>1, <2>1 DEF LineOK
  <1> QED BY <1>2, <1>3

\* When the caller joins it.
LEMMA LineJoins ==
    ASSUME CallsOK, LineOK, NEW c \in Callers, NEW new, call' = [call EXCEPT ![c] = new],
           IsSeq(topology), ~Waits(call[c]), Waits(new), topology' = Append(topology, c)
    PROVE  LineOK'
  <1>1. call'[c] = new /\ \A b \in Callers \ {c} : call'[b] = call[b]
    BY OneCall
  <1> PICK t, u : t = topology /\ u = topology'
    OBVIOUS
  <1>2. /\ DOMAIN t = 1 .. Len(t) /\ Len(t) \in Nat
        /\ u = [n \in 1 .. Len(t) + 1 |-> IF n = Len(t) + 1 THEN c ELSE t[n]]
    BY Sequences
  <1>3. /\ \A i, j \in DOMAIN t : t[i] = t[j] => i = j
        /\ \A i \in DOMAIN t : t[i] \in Callers \ {c} /\ Waits(call[t[i]])
    BY DEF LineOK
  <1>4. ASSUME NEW i \in DOMAIN u
        PROVE  \/ i = Len(t) + 1 /\ u[i] = c
               \/ i \in DOMAIN t /\ u[i] = t[i]
    BY ONLY <1>2, <1>4
  <1>5. ASSUME NEW i \in DOMAIN u, NEW j \in DOMAIN u, u[i] = u[j] PROVE i = j
    BY ONLY <1>3, <1>4, <1>5
  <1>6. ASSUME NEW i \in DOMAIN u PROVE u[i] \in Callers /\ Waits(call'[u[i]])
    <2>1. CASE u[i] = c
      BY <1>1, <2>1
    <2>2. CASE u[i] # c
      BY <1>1, <1>3, <1>4, <2>2
    <2> QED BY <2>1, <2>2
  <1> QED BY <1>5, <1>6 DEF LineOK

\* The resources' lines, when the caller joins one, leaves all, or moves on.
LEMMA GuardsKept ==
    ASSUME CallsOK, GuardsOK, NEW c \in Callers, NEW new, call' = [call EXCEPT ![c] = new],
           Len(arcs') = Len(arcs), NEW fits \in BOOLEAN,
           fits => new # Idle /\ new.op # "create",
           \/ lock' = lock /\ (fits \/ ~Guarding(c))
           \/ lock' = Without(c)
           \/ fits /\ \E a, mode : Ask(a, c, mode)
    PROVE  GuardsOK'
  <1>1. /\ call'[c] = new /\ \A b \in Callers \ {c} : call'[b] = call[b]
    BY OneCall
  <1>2. \A b : Guarding(b) /\ b # c => Guarding(b)'
    BY <1>1 DEF Guarding
  <1>3. fits => Guarding(c)'
    BY <1>1 DEF Guarding
  <1>4. CASE lock' = lock /\ (fits \/ ~Guarding(c))
    <2>1. ASSUME NEW a \in DOMAIN lock, NEW k \in DOMAIN lock[a]
          PROVE  Guarding(lock[a][k].caller)'
      <3> PICK b : b = lock[a][k].caller
        OBVIOUS
      <3>1. Guarding(b)
        BY DEF GuardsOK
      <3>2. Guarding(b)'
        BY <1>2, <1>3, <1>4, <3>1
      <3> QED BY <1>4, <3>2 DEF Guarding
    <2> QED BY <1>4, <2>1 DEF GuardsOK, Guarding
  <1> PICK old, now : old = lock /\ now = lock'
    OBVIOUS
  <1>5. /\ IsSeq(old) /\ Len(old) = Len(arcs) /\ Len(old) \in Nat
        /\ DOMAIN old = 1 .. Len(old) /\ old = [a \in 1 .. Len(old) |-> old[a]]
        /\ \A a \in DOMAIN old : /\ IsSeq(old[a])
                                 /\ \A k \in DOMAIN old[a] : Guarding(old[a][k].caller)
    <2>1. /\ IsSeq(old) /\ Len(old) = Len(arcs)
          /\ \A a \in DOMAIN old : /\ IsSeq(old[a])
                                   /\ \A k \in DOMAIN old[a] : Guarding(old[a][k].caller)
      BY DEF GuardsOK
    <2>2. Len(old) \in Nat /\ DOMAIN old = 1 .. Len(old) /\ old = [a \in 1 .. Len(old) |-> old[a]]
      BY <2>1, Sequences
    <2> QED BY <2>1, <2>2
  <1>6. ASSUME now = [a \in 1 .. Len(old) |-> now[a]],
               \A a \in 1 .. Len(old) :
                   /\ IsSeq(now[a])
                   /\ \A k \in DOMAIN now[a] : Guarding(now[a][k].caller)'
        PROVE  GuardsOK'
    <2>1. IsSeq(now) /\ Len(now) = Len(old) /\ DOMAIN now = 1 .. Len(old)
      <3> DEFINE X == {now[a] : a \in 1 .. Len(old)}
      <3> PICK n : n = Len(old)
        OBVIOUS
      <3>1. n \in Nat /\ now \in [1 .. n -> X]
        BY ONLY <1>5, <1>6, n = Len(old)
      <3> HIDE DEF X
      <3>2. now \in Seq(X) /\ Len(now) = n /\ DOMAIN now = 1 .. n
        BY ONLY <3>1
      <3> QED BY <3>2 DEF IsSeq
    <2>2. IsSeq(lock') /\ Len(lock') = Len(arcs')
      BY <1>5, <2>1
    <2>3. ASSUME NEW a \in DOMAIN lock'
          PROVE  IsSeq(lock'[a]) /\ \A k \in DOMAIN lock'[a] : Guarding(lock[a][k].caller)'
      <3>1. a \in 1 .. Len(old) /\ lock'[a] = now[a]
        BY <2>1, <2>3
      <3> QED BY <1>6, <3>1 DEF Guarding
    <2> QED BY <2>2, <2>3 DEF GuardsOK
  <1>7. CASE lock' = Without(c)
    <2>1. now = [a \in DOMAIN old |-> Others(old[a], c)]
      BY <1>7 DEF Without
    <2>2. ASSUME NEW a \in 1 .. Len(old)
          PROVE  /\ IsSeq(now[a])
                 /\ \A k \in DOMAIN now[a] : Guarding(now[a][k].caller)'
      <3>1. now[a] = Others(old[a], c) /\ IsSeq(old[a])
        BY <1>5, <2>1
      <3>2. /\ IsSeq(now[a])
            /\ \A k \in DOMAIN now[a] : \E j \in DOMAIN old[a] :
                   now[a][k] = old[a][j] /\ old[a][j].caller # c
        BY <3>1, OthersStay
      <3>3. ASSUME NEW k \in DOMAIN now[a] PROVE Guarding(now[a][k].caller)'
        <4>1. PICK j \in DOMAIN old[a] : now[a][k] = old[a][j] /\ old[a][j].caller # c
          BY <3>2
        <4>2. Guarding(old[a][j].caller)
          BY <1>5
        <4> PICK b : b = old[a][j].caller
          OBVIOUS
        <4>3. Guarding(b)'
          BY <1>2, <4>1, <4>2
        <4> QED BY <4>1, <4>3 DEF Guarding
      <3> QED BY <3>2, <3>3
    <2>3. now = [a \in 1 .. Len(old) |-> now[a]]
      BY <1>5, <2>1
    <2> QED BY <1>6, <2>2, <2>3
  <1>8. CASE fits /\ \E a, mode : Ask(a, c, mode)
    <2>1. PICK at, mode : Ask(at, c, mode)
      BY <1>8
    <2> PICK e : e = [caller |-> c, mode |-> mode]
      OBVIOUS
    <2>2. now = [old EXCEPT ![at] = Append(@, e)] /\ e.caller = c
      BY <2>1 DEF Ask
    <2>3. now = [a \in 1 .. Len(old) |-> now[a]]
      BY ONLY <1>5, <2>2
    <2>4. ASSUME NEW a \in 1 .. Len(old)
          PROVE  /\ IsSeq(now[a])
                 /\ \A k \in DOMAIN now[a] : Guarding(now[a][k].caller)'
      <3>1. CASE a # at
        <4>1. now[a] = old[a]
          BY ONLY <1>5, <2>2, <3>1, a \in 1 .. Len(old)
        <4>2. ASSUME NEW k \in DOMAIN old[a] PROVE Guarding(old[a][k].caller)'
          <5> PICK b : b = old[a][k].caller
            OBVIOUS
          <5>1. Guarding(b)
            BY <1>5
          <5>2. Guarding(b)'
            BY <1>2, <1>3, <1>8, <5>1
          <5> QED BY <5>2 DEF Guarding
        <4> QED BY <1>5, <4>1, <4>2
      <3>2. CASE a = at
        <4> PICK s, u : s = old[a] /\ u = now[a]
          OBVIOUS
        <4>1. u = Append(s, e) /\ IsSeq(s)
          BY ONLY <1>5, <2>2, <3>2, a \in 1 .. Len(old), s = old[a], u = now[a]
        <4>2. /\ IsSeq(u) /\ u = [n \in 1 .. Len(s) + 1 |-> IF n = Len(s) + 1 THEN e ELSE s[n]]
              /\ Len(s) \in Nat /\ DOMAIN s = 1 .. Len(s)
          BY ONLY <4>1, Sequences
        <4>3. ASSUME NEW k \in DOMAIN u PROVE Guarding(u[k].caller)'
          <5> PICK b : b = u[k].caller
            OBVIOUS
          <5>1. b = c \/ \E j \in DOMAIN s : b = s[j].caller
            BY ONLY <2>2, <4>2, <4>3, b = u[k].caller
          <5>2. b = c \/ Guarding(b)
            BY <1>5, <5>1
          <5>3. Guarding(b)'
            BY <1>2, <1>3, <1>8, <5>2
          <5> QED BY <5>3 DEF Guarding
        <4> QED BY <4>2, <4>3
      <3> QED BY <3>1, <3>2
    <2> QED BY <1>6, <2>3, <2>4
  <1> QED BY <1>4, <1>7, <1>8

\* A call moves on.
LEMMA StepOn ==
    ASSUME TreeInv, LocksOK, NEW c \in Callers, NEW new, call' = [call EXCEPT ![c] = new],
           new.op = call[c].op, new.at # "idle", call[c].at # "start" => new.at # "start",
           Len(arcs') = Len(arcs), topology' = topology,
           \/ lock' = lock /\ call[c] # Idle
           \/ lock' = Without(c)
           \/ new.op # "create" /\ \E a, mode : Ask(a, c, mode)
    PROVE  LocksOK'
  <1>1. CallsOK /\ LineOK /\ GuardsOK /\ RestOK
    BY DEF TreeInv, LocksOK
  <1>2. call'[c] = new /\ \A b \in Callers \ {c} : call'[b] = call[b]
    BY <1>1, OneCall
  <1>3. LineOK'
    <2>1. Waits(call[c]) => Waits(new)
      BY DEF Waits
    <2> QED BY <1>1, <2>1, LineStays
  <1>4. new # Idle
    BY DEF Idle
  <1>5. GuardsOK'
    <2> DEFINE fits == new.op # "create"
    <2>1. fits \in BOOLEAN /\ (fits => new # Idle /\ new.op # "create")
      BY <1>4
    <2>2. ~fits => ~Guarding(c)
      BY DEF Guarding
    <2> HIDE DEF fits
    <2>3. \/ lock' = lock /\ (fits \/ ~Guarding(c))
          \/ lock' = Without(c)
          \/ fits /\ \E a, mode : Ask(a, c, mode)
      BY <2>2 DEF fits
    <2> QED BY <1>1, <2>1, <2>3, GuardsKept
  <1>6. RestOK'
    BY <1>1, <1>2 DEF RestOK
  <1> QED BY <1>3, <1>5, <1>6 DEF LocksOK

\* A call returns.
LEMMA StepsOff ==
    ASSUME TreeInv, LocksOK, NEW c \in Callers, Return(c), Waits(call[c]) => HasTopology(c),
           Len(arcs') = Len(arcs)
    PROVE  LocksOK'
  <1>1. CallsOK /\ LineOK /\ GuardsOK /\ RestOK /\ IsSeq(topology)
    BY DEF TreeInv, LocksOK, MutexOK
  <1>2. call' = [call EXCEPT ![c] = Idle] /\ topology' = Past(c) /\ lock' = Without(c)
    BY DEF Return, Becomes
  <1>3. call'[c] = Idle /\ \A b \in Callers \ {c} : call'[b] = call[b]
    BY <1>1, <1>2, OneCall
  <1>4. LineOK'
    BY <1>1, <1>2, LineLeaves
  <1>5. GuardsOK'
    <2>1. FALSE \in BOOLEAN /\ (FALSE => Idle # Idle /\ Idle.op # "create")
      OBVIOUS
    <2> QED BY <1>1, <1>2, <2>1, GuardsKept
  <1>6. RestOK'
    BY <1>1, <1>3 DEF RestOK
  <1> QED BY <1>4, <1>5, <1>6 DEF LocksOK

\* Every step of a call that has no other effect.
LEMMA LocksOnTheWay ==
    ASSUME TreeInv, LocksOK, NEW c \in Callers,
           \/ StartAdd(c) \/ StartBatch(c) \/ StartRemove(c) \/ StartCommit(c) \/ StartRead(c)
           \/ Visit(c) \/ Visited(c) \/ Lock(c) \/ Locked(c) \/ ReadEnds(c)
           \/ Check(c) \/ QueueRecords(c) \/ CheckCreate(c) \/ CheckDelete(c) \/ Unmap(c)
           \/ AppendShape(c) \/ RemoveResource(c)
    PROVE  LocksOK'
  <1>0. CallsOK /\ MutexOK /\ RestOK
    BY DEF TreeInv, LocksOK
  <1> PICK x : x = call[c]
    OBVIOUS
  <1>a. /\ x = [op |-> x.op, rid |-> x.rid, parent |-> x.parent, members |-> x.members,
                at |-> x.at, todo |-> x.todo, tolock |-> x.tolock, arc |-> x.arc,
                want |-> x.want, held |-> x.held]
        /\ Shapes(c) => /\ x.todo = <<>> /\ x.tolock = <<>>
                        /\ x.at \in {"start", "shape", "unmap", "append", "drop"}
    BY <1>0, Fields
  <1>b. (x.at = "idle" => x.todo = <<>> /\ x.tolock = <<>>) /\ (x.at # "idle" => x # Idle)
    BY <1>0 DEF RestOK, Idle
  <1>c. Len(arcs') = Len(arcs)
    BY DEF StartAdd, StartBatch, StartRemove, StartCommit, StartRead, Visit, Visited, Lock,
           Locked, ReadEnds, Check, QueueRecords, CheckCreate, CheckDelete, Unmap,
           AppendShape, RemoveResource, store
  <1>1. ASSUME Return(c), ~Shapes(c) \/ HasTopology(c) PROVE LocksOK'
    BY <1>1, <1>c, StepsOff DEF Waits, Shapes
  <1>2. ASSUME NEW new, call' = [call EXCEPT ![c] = new], new.op = x.op,
               new.at # "idle", x.at # "start" => new.at # "start", topology' = topology,
               \/ lock' = lock /\ x.at # "idle"
               \/ lock' = Without(c)
               \/ new.op # "create" /\ \E a, mode : Ask(a, c, mode)
        PROVE  LocksOK'
    BY <1>2, <1>b, <1>c, StepOn
  <1>d. ASSUME StartAdd(c) \/ StartBatch(c) \/ StartRemove(c) \/ StartCommit(c) \/ StartRead(c)
        PROVE  ~Shapes(c) /\ x.at # "idle"
    BY <1>d DEF StartAdd, StartBatch, StartRemove, StartCommit, StartRead, Shapes, Reshaping
  <1>e. ASSUME Visit(c) \/ Visited(c) \/ Lock(c) \/ Locked(c) \/ ReadEnds(c) \/ Check(c)
        PROVE  ~Shapes(c) /\ x.at # "idle"
    BY <1>a, <1>b, <1>e DEF Visit, Visited, Lock, Locked, ReadEnds, Check, Holding
  <1>3. CASE StartAdd(c) /\ ~Return(c)
    <2> PICK m : m = CHOOSE y \in call[c].members : TRUE
      OBVIOUS
    <2> PICK new : new = [x EXCEPT !.at = "check", !.arc = resources[m.rid],
                             !.todo = Ancestors(m.rid), !.tolock = <<m.rid>>]
      OBVIOUS
    <2>1. call' = [call EXCEPT ![c] = new] /\ topology' = topology /\ lock' = lock
      BY <1>3 DEF StartAdd, Becomes, locks
    <2>2. new.op = x.op /\ new.at = "check"
      BY ONLY <1>a, new = [x EXCEPT !.at = "check", !.arc = resources[m.rid],
                             !.todo = Ancestors(m.rid), !.tolock = <<m.rid>>]
    <2> QED BY <1>2, <1>d, <1>3, <2>1, <2>2
  <1>4. CASE StartBatch(c) /\ ~Return(c)
    <2> PICK order : order = LockOrder(call[c].members)
      OBVIOUS
    <2> PICK todo : todo = FlattenSeq([k \in DOMAIN order |-> Ancestors(order[k])])
      OBVIOUS
    <2> PICK new : new = [x EXCEPT !.at = "check", !.tolock = order, !.todo = todo]
      OBVIOUS
    <2>1. call' = [call EXCEPT ![c] = new] /\ topology' = topology /\ lock' = lock
      BY <1>4 DEF StartBatch, Becomes, locks
    <2>2. new.op = x.op /\ new.at = "check"
      BY ONLY <1>a, new = [x EXCEPT !.at = "check", !.tolock = order, !.todo = todo]
    <2> QED BY <1>2, <1>d, <1>4, <2>1, <2>2
  <1>5. CASE StartRemove(c) /\ ~Return(c)
    <2> PICK m : m = CHOOSE y \in call[c].members : TRUE
      OBVIOUS
    <2> PICK r : r = entity[m.id]
      OBVIOUS
    <2> PICK new : new = [x EXCEPT !.at = "check", !.arc = resources[r],
                             !.members = {[m EXCEPT !.rid = r]}, !.tolock = <<r>>]
      OBVIOUS
    <2>1. call' = [call EXCEPT ![c] = new] /\ topology' = topology /\ lock' = lock
      BY <1>5 DEF StartRemove, Becomes, locks
    <2>2. new.op = x.op /\ new.at = "check"
      BY ONLY <1>a, new = [x EXCEPT !.at = "check", !.arc = resources[r],
                             !.members = {[m EXCEPT !.rid = r]}, !.tolock = <<r>>]
    <2> QED BY <1>2, <1>d, <1>5, <2>1, <2>2
  <1>6. CASE StartCommit(c) /\ ~Return(c)
    <2> PICK found : found = {[m EXCEPT !.rid = entity[m.id]] : m \in call[c].members}
      OBVIOUS
    <2> PICK new : new = [x EXCEPT !.at = "check", !.members = found, !.tolock = LockOrder(found)]
      OBVIOUS
    <2>1. call' = [call EXCEPT ![c] = new] /\ topology' = topology /\ lock' = lock
      BY <1>6 DEF StartCommit, Becomes, locks
    <2>2. new.op = x.op /\ new.at = "check"
      BY ONLY <1>a, new = [x EXCEPT !.at = "check", !.members = found, !.tolock = LockOrder(found)]
    <2> QED BY <1>2, <1>d, <1>6, <2>1, <2>2
  <1>7. CASE StartRead(c) /\ ~Return(c)
    <2> PICK a, todo : /\ a = resources[call[c].rid]
                       /\ todo = Append(Ancestors(call[c].rid), call[c].rid)
      OBVIOUS
    <2> PICK new : new = [x EXCEPT !.at = "done", !.arc = a, !.todo = todo]
      OBVIOUS
    <2>1. call' = [call EXCEPT ![c] = new] /\ topology' = topology /\ lock' = lock
      BY <1>7 DEF StartRead, Becomes, locks
    <2>2. new.op = x.op /\ new.at = "done"
      BY ONLY <1>a, new = [x EXCEPT !.at = "done", !.arc = a, !.todo = todo]
    <2> QED BY <1>2, <1>d, <1>7, <2>1, <2>2
  <1>8. CASE Visit(c) /\ ~Return(c)
    <2> PICK a : a = NextToRead(c)
      OBVIOUS
    <2> PICK new : new = [x EXCEPT !.want = a]
      OBVIOUS
    <2>1. call' = [call EXCEPT ![c] = new] /\ topology' = topology /\ Ask(a, c, "read")
      BY <1>8 DEF Visit, Becomes, locks
    <2>2. new.op = x.op /\ new.at = x.at
      BY ONLY <1>a, new = [x EXCEPT !.want = a]
    <2> QED BY <1>2, <1>e, <1>8, <2>1, <2>2 DEF Shapes, Reshaping
  <1>9. CASE Visited(c) /\ ~Return(c)
    <2> PICK rest : rest = Tail(x.todo)
      OBVIOUS
    <2> PICK new : new = [x EXCEPT !.todo = rest, !.want = None]
      OBVIOUS
    <2>1. call' = [call EXCEPT ![c] = new] /\ topology' = topology /\ lock' = Without(c)
      BY <1>9 DEF Visited, Becomes, locks
    <2>2. new.op = x.op /\ new.at = x.at
      BY ONLY <1>a, new = [x EXCEPT !.todo = rest, !.want = None]
    <2> QED BY <1>2, <1>e, <1>9, <2>1, <2>2
  <1>10. CASE Lock(c) /\ ~Return(c)
    <2> PICK a : a = IF call[c].arc # None THEN call[c].arc ELSE get_resource(Head(call[c].tolock))
      OBVIOUS
    <2> PICK new : new = [x EXCEPT !.want = a]
      OBVIOUS
    <2>1. call' = [call EXCEPT ![c] = new] /\ topology' = topology /\ Ask(a, c, "write")
      BY <1>10 DEF Lock, Becomes, locks
    <2>2. new.op = x.op /\ new.at = x.at
      BY ONLY <1>a, new = [x EXCEPT !.want = a]
    <2> QED BY <1>2, <1>e, <1>10, <2>1, <2>2 DEF Shapes, Reshaping
  <1>11. CASE Locked(c) /\ ~Return(c)
    <2> PICK rest, guards : rest = Tail(x.tolock) /\ guards = Append(x.held, call[c].want)
      OBVIOUS
    <2> PICK new : new = [x EXCEPT !.tolock = rest, !.want = None, !.held = guards]
      OBVIOUS
    <2>1. call' = [call EXCEPT ![c] = new] /\ topology' = topology /\ lock' = lock
      BY <1>11 DEF Locked, Becomes, locks
    <2>2. new.op = x.op /\ new.at = x.at
      BY ONLY <1>a, new = [x EXCEPT !.tolock = rest, !.want = None, !.held = guards]
    <2> QED BY <1>2, <1>e, <1>11, <2>1, <2>2
  <1>12. CASE Check(c) /\ ~Return(c)
    <2> PICK new : new = [x EXCEPT !.at = "append"]
      OBVIOUS
    <2>1. call' = [call EXCEPT ![c] = new] /\ topology' = topology /\ lock' = lock
      BY <1>12 DEF Check, Becomes, locks
    <2>2. new.op = x.op /\ new.at = "append"
      BY ONLY <1>a, new = [x EXCEPT !.at = "append"]
    <2> QED BY <1>2, <1>e, <1>12, <2>1, <2>2
  <1>13. CASE QueueRecords(c) /\ ~Return(c)
    <2> PICK new : new = [x EXCEPT !.at = "apply"]
      OBVIOUS
    <2>1. call' = [call EXCEPT ![c] = new] /\ topology' = topology /\ lock' = lock /\ x.at = "append"
      BY <1>13 DEF QueueRecords, Becomes, locks, Holding
    <2>2. new.op = x.op /\ new.at = "apply"
      BY ONLY <1>a, new = [x EXCEPT !.at = "apply"]
    <2> QED BY <1>2, <1>b, <1>13, <2>1, <2>2
  <1>14. CASE CheckCreate(c) /\ ~Return(c)
    <2> PICK new : new = [x EXCEPT !.at = "append"]
      OBVIOUS
    <2>1. call' = [call EXCEPT ![c] = new] /\ topology' = topology /\ lock' = lock /\ x.at = "shape"
      BY <1>14 DEF CheckCreate, Becomes, locks
    <2>2. new.op = x.op /\ new.at = "append"
      BY ONLY <1>a, new = [x EXCEPT !.at = "append"]
    <2> QED BY <1>2, <1>b, <1>14, <2>1, <2>2
  <1>15. CASE CheckDelete(c) /\ ~Return(c)
    <2> PICK a : a = resources[call[c].rid]
      OBVIOUS
    <2> PICK new : new = [x EXCEPT !.at = "unmap", !.arc = a]
      OBVIOUS
    <2>1. call' = [call EXCEPT ![c] = new] /\ topology' = topology /\ x.op = "delete" /\ Ask(a, c, "read")
      BY <1>15 DEF CheckDelete, Becomes, locks
    <2>2. new.op = x.op /\ new.at = "unmap"
      BY ONLY <1>a, new = [x EXCEPT !.at = "unmap", !.arc = a]
    <2> QED BY <1>2, <1>b, <1>15, <2>1, <2>2 DEF Shapes, Reshaping
  <1>16. CASE Unmap(c) /\ ~Return(c)
    <2> PICK new : new = [x EXCEPT !.at = "append"]
      OBVIOUS
    <2>1. call' = [call EXCEPT ![c] = new] /\ topology' = topology /\ lock' = Without(c)
      BY <1>16 DEF Unmap, Becomes, locks
    <2>2. new.op = x.op /\ new.at = "append"
      BY ONLY <1>a, new = [x EXCEPT !.at = "append"]
    <2> QED BY <1>2, <1>b, <1>16, <2>1, <2>2
  <1>17. CASE AppendShape(c) /\ ~Return(c)
    <2> PICK new : new = [x EXCEPT !.at = "drop"]
      OBVIOUS
    <2>1. call' = [call EXCEPT ![c] = new] /\ topology' = topology /\ lock' = lock /\ x.at = "append"
      BY <1>17 DEF AppendShape, Becomes, locks
    <2>2. new.op = x.op /\ new.at = "drop"
      BY ONLY <1>a, new = [x EXCEPT !.at = "drop"]
    <2> QED BY <1>2, <1>b, <1>17, <2>1, <2>2
  <1>18. CASE Return(c)
    <2>1. ~Shapes(c) \/ HasTopology(c)
      <3>1. CASE CheckCreate(c) \/ CheckDelete(c)
        BY <3>1 DEF CheckCreate, CheckDelete
      <3>2. CASE Unmap(c) \/ AppendShape(c) \/ RemoveResource(c)
        <4>1. Shapes(c) => Changing(c)
          BY <3>2 DEF Unmap, AppendShape, RemoveResource, Changing
        <4> QED BY <1>0, <4>1 DEF MutexOK
      <3>3. CASE QueueRecords(c)
        BY <3>3 DEF QueueRecords
      <3> QED BY <1>d, <1>e, <3>1, <3>2, <3>3
    <2> QED BY <1>1, <1>18, <2>1
  <1>19. CASE ReadEnds(c) \/ RemoveResource(c)
    <2>1. Return(c)
      BY <1>19 DEF ReadEnds, RemoveResource
    <2> QED BY <1>18, <2>1
  <1> QED
    BY <1>3, <1>4, <1>5, <1>6, <1>7, <1>8, <1>9, <1>10, <1>11, <1>12, <1>13, <1>14, <1>15,
       <1>16, <1>17, <1>18, <1>19

\* A call that changes the tree gets in line.
LEMMA LocksAsked ==
    ASSUME TreeInv, LocksOK, NEW c \in Callers, AskTopology(c)
    PROVE  LocksOK'
  <1>1. CallsOK /\ LineOK /\ GuardsOK /\ RestOK /\ IsSeq(topology)
    BY DEF TreeInv, LocksOK, MutexOK
  <1> PICK x : x = call[c]
    OBVIOUS
  <1> PICK new : new = [x EXCEPT !.at = "shape"]
    OBVIOUS
  <1>2. /\ call' = [call EXCEPT ![c] = new] /\ topology' = Append(topology, c)
        /\ lock' = lock /\ arcs' = arcs /\ x.op \in Reshaping /\ x.at = "start"
    BY DEF AskTopology, Becomes, Shapes, store
  <1>3. new.op = x.op /\ new.at = "shape"
    <2>1. x = [op |-> x.op, rid |-> x.rid, parent |-> x.parent, members |-> x.members,
                at |-> x.at, todo |-> x.todo, tolock |-> x.tolock, arc |-> x.arc,
                want |-> x.want, held |-> x.held]
      BY <1>1, Fields
    <2> QED BY ONLY <2>1, new = [x EXCEPT !.at = "shape"]
  <1>4. LineOK'
    <2>1. ~Waits(call[c]) /\ Waits(new)
      BY <1>2, <1>3 DEF Waits
    <2> QED BY <1>1, <1>2, <2>1, LineJoins
  <1>5. GuardsOK'
    <2> DEFINE fits == new.op # "create"
    <2>1. fits \in BOOLEAN /\ (fits => new # Idle /\ new.op # "create")
      BY <1>3 DEF Idle
    <2>2. lock' = lock /\ (fits \/ ~Guarding(c)) /\ Len(arcs') = Len(arcs)
      BY <1>2, <1>3 DEF Guarding
    <2> HIDE DEF fits
    <2> QED BY <1>1, <1>2, <2>1, <2>2, GuardsKept
  <1>6. RestOK'
    <2>1. call'[c] = new /\ \A b \in Callers \ {c} : call'[b] = call[b]
      BY <1>1, <1>2, OneCall
    <2> QED BY <1>1, <1>3, <2>1 DEF RestOK
  <1> QED BY <1>4, <1>5, <1>6 DEF LocksOK

\* A call begins.
LEMMA LocksBegin ==
    ASSUME TreeInv, LocksOK, NEW c \in Callers, NEW new \in Operations, Begin(c, new)
    PROVE  LocksOK'
  <1>1. CallsOK /\ LineOK /\ GuardsOK /\ RestOK
    BY DEF TreeInv, LocksOK
  <1>2. /\ call[c] = Idle /\ call' = [call EXCEPT ![c] = new] /\ topology' = topology
        /\ lock' = lock /\ arcs' = arcs
    BY DEF Begin, Becomes, locks, store
  <1>3. new.at = "start"
    <2>1. new = Call(new.op, new.rid, new.parent, new.members)
      BY OperationsAssumption
    <2>2. new = [op |-> new.op, rid |-> new.rid, parent |-> new.parent,
                 members |-> new.members, at |-> "start", todo |-> <<>>, tolock |-> <<>>,
                 arc |-> None, want |-> None, held |-> <<>>]
      BY ONLY <2>1 DEF Call, Idle
    <2> QED BY ONLY <2>2
  <1>4. LineOK'
    <2>1. ~Waits(call[c])
      BY <1>2 DEF Waits, Idle, Reshaping
    <2> QED BY <1>1, <1>2, <2>1, LineStays
  <1>5. GuardsOK'
    <2>1. ~Guarding(c) /\ FALSE \in BOOLEAN /\ Len(arcs') = Len(arcs)
      BY <1>2 DEF Guarding
    <2> QED BY <1>1, <1>2, <2>1, GuardsKept
  <1>6. RestOK'
    <2>1. call'[c] = new /\ \A b \in Callers \ {c} : call'[b] = call[b]
      BY <1>1, <1>2, OneCall
    <2> QED BY <1>1, <1>3, <2>1 DEF RestOK
  <1> QED BY <1>4, <1>5, <1>6 DEF LocksOK

\* Records are applied.
LEMMA LocksApplied ==
    ASSUME TreeInv, LocksOK, NEW c \in Callers, ApplyRecords(c)
    PROVE  LocksOK'
  <1>1. Return(c) /\ ~Shapes(c) /\ DOMAIN arcs' = DOMAIN arcs
    BY DEF ApplyRecords
  <1>2. Len(arcs') = Len(arcs)
    <2>1. IsSeq(arcs) /\ IsSeq(arcs')
      BY ApplyKeeps DEF TreeInv, StoreOK
    <2> PICK old, now : old = arcs /\ now = arcs'
      OBVIOUS
    <2>2. /\ Len(old) \in Nat /\ DOMAIN old = 1 .. Len(old)
          /\ Len(now) \in Nat /\ DOMAIN now = 1 .. Len(now) /\ DOMAIN now = DOMAIN old
      BY <1>1, <2>1, Sequences
    <2> PICK n, m : n = Len(old) /\ m = Len(now)
      OBVIOUS
    <2>3. n \in Nat /\ m \in Nat /\ 1 .. n = 1 .. m
      BY <2>2
    <2>4. m \in 1 .. n \/ m = 0
      BY ONLY <2>3
    <2>5. n \in 1 .. m \/ n = 0
      BY ONLY <2>3
    <2>6. n = m
      BY ONLY <2>3, <2>4, <2>5
    <2> QED BY <2>6
  <1> QED BY <1>1, <1>2, StepsOff DEF Waits, Shapes

\* A resource is made, with a lock of its own.
LEMMA LocksInserted ==
    ASSUME TreeInv, LocksOK, NEW c \in Callers, InsertResource(c)
    PROVE  LocksOK'
  <1>1. CallsOK /\ LineOK /\ GuardsOK /\ RestOK /\ MutexOK /\ StoreOK
    BY DEF TreeInv, LocksOK
  <1> PICK made : made = [id |-> call[c].rid, parent |-> call[c].parent, items |-> {}]
    OBVIOUS
  <1>2. /\ call[c].op = "create" /\ call[c].at = "drop" /\ arcs' = Append(arcs, made)
        /\ call' = [call EXCEPT ![c] = Idle] /\ lock' = Append(lock, <<>>)
        /\ topology' = Past(c)
    BY DEF InsertResource
  <1>3. call'[c] = Idle /\ \A b \in Callers \ {c} : call'[b] = call[b]
    BY <1>1, <1>2, OneCall
  <1>4. LineOK'
    <2>1. Changing(c)
      BY <1>2 DEF Changing, Shapes, Reshaping
    <2>2. HasTopology(c) /\ IsSeq(topology)
      BY <1>1, <2>1 DEF MutexOK
    <2> QED BY <1>1, <1>2, <2>2, LineLeaves
  <1>5. GuardsOK'
    <2> PICK old, now : old = lock /\ now = lock'
      OBVIOUS
    <2>1. /\ IsSeq(now) /\ Len(now) = Len(old) + 1 /\ Len(old) \in Nat
          /\ now = [n \in 1 .. Len(old) + 1 |-> IF n = Len(old) + 1 THEN <<>> ELSE old[n]]
          /\ DOMAIN old = 1 .. Len(old)
      BY <1>1, <1>2, Sequences DEF GuardsOK
    <2>2. Len(arcs') = Len(arcs) + 1 /\ Len(old) = Len(arcs)
      BY <1>1, <1>2, Sequences DEF StoreOK, GuardsOK
    <2>3. ASSUME NEW b, Guarding(b) PROVE Guarding(b)'
      BY <1>2, <1>3, <2>3 DEF Guarding
    <2>4. ASSUME NEW a \in DOMAIN now
          PROVE  /\ IsSeq(now[a])
                 /\ \A k \in DOMAIN now[a] : Guarding(now[a][k].caller)'
      <3>1. CASE a = Len(old) + 1
        <4>1. now[a] = <<>>
          BY ONLY <2>1, <3>1, a \in DOMAIN now
        <4> QED BY <4>1 DEF IsSeq
      <3>2. CASE a # Len(old) + 1
        <4>1. now[a] = old[a] /\ a \in DOMAIN old
          BY ONLY <2>1, <3>2, a \in DOMAIN now
        <4>2. IsSeq(old[a]) /\ \A k \in DOMAIN old[a] : Guarding(old[a][k].caller)
          BY <1>1, <4>1 DEF GuardsOK
        <4>3. ASSUME NEW k \in DOMAIN old[a] PROVE Guarding(old[a][k].caller)'
          <5> PICK b : b = old[a][k].caller
            OBVIOUS
          <5>1. Guarding(b)'
            BY <2>3, <4>2
          <5> QED BY <5>1 DEF Guarding
        <4> QED BY <4>1, <4>2, <4>3
      <3> QED BY <3>1, <3>2
    <2>5. IsSeq(lock') /\ Len(lock') = Len(arcs')
      BY <2>1, <2>2
    <2>6. ASSUME NEW a \in DOMAIN lock'
          PROVE  IsSeq(lock'[a]) /\ \A k \in DOMAIN lock'[a] : Guarding(lock[a][k].caller)'
      <3>1. a \in DOMAIN now /\ lock'[a] = now[a]
        BY <2>6
      <3> QED BY <2>4, <3>1 DEF Guarding
    <2> QED BY <2>5, <2>6 DEF GuardsOK
  <1>6. RestOK'
    BY <1>1, <1>3 DEF RestOK
  <1> QED BY <1>4, <1>5, <1>6 DEF LocksOK

\* What a call refers to are states.
States == DOMAIN arcs \cup {None}
PointsAt(x) == x.want \in States /\ x.arc \in States /\ x.held \in Seq(DOMAIN arcs)
HeldOK == \A b \in Callers : PointsAt(call[b])

\* States are not taken away.
LEMMA HeldKept ==
    ASSUME CallsOK, HeldOK, NEW c \in Callers, NEW new, call' = [call EXCEPT ![c] = new],
           PointsAt(new), DOMAIN arcs \subseteq DOMAIN arcs'
    PROVE  HeldOK'
  <1>1. call'[c] = new /\ \A b \in Callers \ {c} : call'[b] = call[b]
    BY OneCall
  <1>2. ASSUME NEW x, PointsAt(x) PROVE x.want \in States' /\ x.arc \in States'
                                       /\ x.held \in Seq(DOMAIN arcs')
    <2> PICK A, B : A = DOMAIN arcs /\ B = DOMAIN arcs'
      OBVIOUS
    <2>1. x.held \in Seq(A) /\ A \subseteq B
      BY <1>2 DEF PointsAt
    <2>2. x.held \in Seq(B)
      BY ONLY <2>1
    <2> QED BY <1>2, <2>2 DEF PointsAt, States
  <1>3. ASSUME NEW b \in Callers PROVE PointsAt(call[b])'
    <2>1. CASE b = c
      BY <1>1, <1>2, <2>1 DEF PointsAt
    <2>2. CASE b # c
      <3>1. PointsAt(call[b]) /\ call'[b] = call[b]
        BY <1>1, <2>2 DEF HeldOK
      <3> PICK x : x = call[b]
        OBVIOUS
      <3>2. x.want \in States' /\ x.arc \in States' /\ x.held \in Seq(DOMAIN arcs')
        BY <1>2, <3>1
      <3> QED BY <3>1, <3>2 DEF PointsAt
    <2> QED BY <2>1, <2>2
  <1> QED BY <1>3 DEF HeldOK

\* A call at rest refers to none.
LEMMA IdlePoints ==
    PointsAt(Idle)
  <1> PICK A : A = DOMAIN arcs
    OBVIOUS
  <1>1. Idle.want = None /\ Idle.arc = None /\ Idle.held = <<>>
    BY DEF Idle
  <1>2. <<>> \in Seq(A)
    OBVIOUS
  <1> QED BY <1>1, <1>2 DEF PointsAt, States

\* A step takes its states from the table.
LEMMA HeldOnTheWay ==
    ASSUME TreeInv, HeldOK, NEW c \in Callers, Step(c), DOMAIN arcs \subseteq DOMAIN arcs'
    PROVE  HeldOK'
  <1>0. CallsOK /\ StoreOK
    BY DEF TreeInv
  <1> PICK x : x = call[c]
    OBVIOUS
  <1>a. /\ x = [op |-> x.op, rid |-> x.rid, parent |-> x.parent, members |-> x.members,
                at |-> x.at, todo |-> x.todo, tolock |-> x.tolock, arc |-> x.arc,
                want |-> x.want, held |-> x.held]
    BY <1>0, Fields
  <1>b. PointsAt(x)
    BY DEF HeldOK
  <1>c. \A r \in Live : resources[r] \in States
    BY <1>0 DEF StoreOK, States
  <1>d. ASSUME NEW r PROVE get_resource(r) \in States
    BY <1>c DEF get_resource, States
  <1>1. ASSUME Return(c) PROVE HeldOK'
    <2>1. call' = [call EXCEPT ![c] = Idle]
      BY <1>1 DEF Return, Becomes
    <2> QED BY <1>0, <2>1, IdlePoints, HeldKept
  <1>2. ASSUME NEW new, call' = [call EXCEPT ![c] = new], new.want \in States,
               new.arc \in States, new.held = x.held
        PROVE  HeldOK'
    <2>1. PointsAt(new)
      BY <1>b, <1>2 DEF PointsAt
    <2> QED BY <1>0, <1>2, <2>1, HeldKept
  <1>w. x.want \in States /\ x.arc \in States /\ None \in States
    BY <1>b DEF PointsAt, States
  <1>3. CASE StartAdd(c) /\ ~Return(c)
    <2> PICK m : m = CHOOSE y \in call[c].members : TRUE
      OBVIOUS
    <2> PICK new : new = [x EXCEPT !.at = "check", !.arc = resources[m.rid],
                             !.todo = Ancestors(m.rid), !.tolock = <<m.rid>>]
      OBVIOUS
    <2>1. call' = [call EXCEPT ![c] = new] /\ m.rid \in Live
      BY <1>3 DEF StartAdd, Becomes
    <2>2. new.want = x.want /\ new.arc = resources[m.rid] /\ new.held = x.held
      BY ONLY <1>a, new = [x EXCEPT !.at = "check", !.arc = resources[m.rid],
                             !.todo = Ancestors(m.rid), !.tolock = <<m.rid>>]
    <2> QED BY <1>2, <1>w, <2>1, <2>2, <1>c
  <1>4. CASE StartBatch(c) /\ ~Return(c)
    <2> PICK order : order = LockOrder(call[c].members)
      OBVIOUS
    <2> PICK todo : todo = FlattenSeq([k \in DOMAIN order |-> Ancestors(order[k])])
      OBVIOUS
    <2> PICK new : new = [x EXCEPT !.at = "check", !.tolock = order, !.todo = todo]
      OBVIOUS
    <2>1. call' = [call EXCEPT ![c] = new]
      BY <1>4 DEF StartBatch, Becomes
    <2>2. new.want = x.want /\ new.arc = x.arc /\ new.held = x.held
      BY ONLY <1>a, new = [x EXCEPT !.at = "check", !.tolock = order, !.todo = todo]
    <2> QED BY <1>2, <1>w, <2>1, <2>2
  <1>5. CASE StartRemove(c) /\ ~Return(c)
    <2> PICK m : m = CHOOSE y \in call[c].members : TRUE
      OBVIOUS
    <2> PICK r : r = entity[m.id]
      OBVIOUS
    <2> PICK new : new = [x EXCEPT !.at = "check", !.arc = resources[r],
                             !.members = {[m EXCEPT !.rid = r]}, !.tolock = <<r>>]
      OBVIOUS
    <2>1. call' = [call EXCEPT ![c] = new] /\ r \in Live
      BY <1>5 DEF StartRemove, Becomes
    <2>2. new.want = x.want /\ new.arc = resources[r] /\ new.held = x.held
      BY ONLY <1>a, new = [x EXCEPT !.at = "check", !.arc = resources[r],
                             !.members = {[m EXCEPT !.rid = r]}, !.tolock = <<r>>]
    <2> QED BY <1>2, <1>w, <2>1, <2>2, <1>c
  <1>6. CASE StartCommit(c) /\ ~Return(c)
    <2> PICK found : found = {[m EXCEPT !.rid = entity[m.id]] : m \in call[c].members}
      OBVIOUS
    <2> PICK new : new = [x EXCEPT !.at = "check", !.members = found, !.tolock = LockOrder(found)]
      OBVIOUS
    <2>1. call' = [call EXCEPT ![c] = new]
      BY <1>6 DEF StartCommit, Becomes
    <2>2. new.want = x.want /\ new.arc = x.arc /\ new.held = x.held
      BY ONLY <1>a, new = [x EXCEPT !.at = "check", !.members = found, !.tolock = LockOrder(found)]
    <2> QED BY <1>2, <1>w, <2>1, <2>2
  <1>7. CASE StartRead(c) /\ ~Return(c)
    <2> PICK a, todo : /\ a = resources[call[c].rid]
                       /\ todo = Append(Ancestors(call[c].rid), call[c].rid)
      OBVIOUS
    <2> PICK new : new = [x EXCEPT !.at = "done", !.arc = a, !.todo = todo]
      OBVIOUS
    <2>1. call' = [call EXCEPT ![c] = new] /\ call[c].rid \in Live
      BY <1>7 DEF StartRead, Becomes
    <2>2. new.want = x.want /\ new.arc = a /\ new.held = x.held
      BY ONLY <1>a, new = [x EXCEPT !.at = "done", !.arc = a, !.todo = todo]
    <2> QED BY <1>2, <1>w, <2>1, <2>2, <1>c
  <1>8. CASE AskTopology(c) /\ ~Return(c)
    <2> PICK new : new = [x EXCEPT !.at = "shape"]
      OBVIOUS
    <2>1. call' = [call EXCEPT ![c] = new]
      BY <1>8 DEF AskTopology, Becomes
    <2>2. new.want = x.want /\ new.arc = x.arc /\ new.held = x.held
      BY ONLY <1>a, new = [x EXCEPT !.at = "shape"]
    <2> QED BY <1>2, <1>w, <2>1, <2>2
  <1>9. CASE Visit(c) /\ ~Return(c)
    <2> PICK r : r = Head(call[c].todo)
      OBVIOUS
    <2> PICK a : a = NextToRead(c)
      OBVIOUS
    <2>3. a \in States
      BY <1>d, <1>w DEF NextToRead
    <2> PICK new : new = [x EXCEPT !.want = a]
      OBVIOUS
    <2>1. call' = [call EXCEPT ![c] = new]
      BY <1>9 DEF Visit, Becomes
    <2>2. new.want = a /\ new.arc = x.arc /\ new.held = x.held
      BY ONLY <1>a, new = [x EXCEPT !.want = a]
    <2> QED BY <1>2, <1>w, <2>1, <2>2, <2>3
  <1>10. CASE Visited(c) /\ ~Return(c)
    <2> PICK rest : rest = Tail(x.todo)
      OBVIOUS
    <2> PICK new : new = [x EXCEPT !.todo = rest, !.want = None]
      OBVIOUS
    <2>1. call' = [call EXCEPT ![c] = new]
      BY <1>10 DEF Visited, Becomes
    <2>2. new.want = None /\ new.arc = x.arc /\ new.held = x.held
      BY ONLY <1>a, new = [x EXCEPT !.todo = rest, !.want = None]
    <2> QED BY <1>2, <1>w, <2>1, <2>2
  <1>11. CASE Lock(c) /\ ~Return(c)
    <2> PICK r : r = Head(call[c].tolock)
      OBVIOUS
    <2> PICK a : a = IF call[c].arc # None THEN call[c].arc ELSE get_resource(r)
      OBVIOUS
    <2> PICK new : new = [x EXCEPT !.want = a]
      OBVIOUS
    <2>1. call' = [call EXCEPT ![c] = new]
      BY <1>11 DEF Lock, Becomes
    <2>2. new.want = a /\ new.arc = x.arc /\ new.held = x.held
      BY ONLY <1>a, new = [x EXCEPT !.want = a]
    <2> QED BY <1>2, <1>w, <2>1, <2>2, <1>d
  <1>12. CASE Check(c) /\ ~Return(c)
    <2> PICK new : new = [x EXCEPT !.at = "append"]
      OBVIOUS
    <2>1. call' = [call EXCEPT ![c] = new]
      BY <1>12 DEF Check, Becomes
    <2>2. new.want = x.want /\ new.arc = x.arc /\ new.held = x.held
      BY ONLY <1>a, new = [x EXCEPT !.at = "append"]
    <2> QED BY <1>2, <1>w, <2>1, <2>2
  <1>13. CASE QueueRecords(c) /\ ~Return(c)
    <2> PICK new : new = [x EXCEPT !.at = "apply"]
      OBVIOUS
    <2>1. call' = [call EXCEPT ![c] = new]
      BY <1>13 DEF QueueRecords, Becomes
    <2>2. new.want = x.want /\ new.arc = x.arc /\ new.held = x.held
      BY ONLY <1>a, new = [x EXCEPT !.at = "apply"]
    <2> QED BY <1>2, <1>w, <2>1, <2>2
  <1>14. CASE CheckCreate(c) /\ ~Return(c)
    <2> PICK new : new = [x EXCEPT !.at = "append"]
      OBVIOUS
    <2>1. call' = [call EXCEPT ![c] = new]
      BY <1>14 DEF CheckCreate, Becomes
    <2>2. new.want = x.want /\ new.arc = x.arc /\ new.held = x.held
      BY ONLY <1>a, new = [x EXCEPT !.at = "append"]
    <2> QED BY <1>2, <1>w, <2>1, <2>2
  <1>15. CASE CheckDelete(c) /\ ~Return(c)
    <2> PICK a : a = resources[call[c].rid]
      OBVIOUS
    <2> PICK new : new = [x EXCEPT !.at = "unmap", !.arc = a]
      OBVIOUS
    <2>1. call' = [call EXCEPT ![c] = new] /\ call[c].rid \in Live
      BY <1>15 DEF CheckDelete, Becomes
    <2>2. new.want = x.want /\ new.arc = a /\ new.held = x.held
      BY ONLY <1>a, new = [x EXCEPT !.at = "unmap", !.arc = a]
    <2> QED BY <1>2, <1>w, <2>1, <2>2, <1>c
  <1>16. CASE Unmap(c) /\ ~Return(c)
    <2> PICK new : new = [x EXCEPT !.at = "append"]
      OBVIOUS
    <2>1. call' = [call EXCEPT ![c] = new]
      BY <1>16 DEF Unmap, Becomes
    <2>2. new.want = x.want /\ new.arc = x.arc /\ new.held = x.held
      BY ONLY <1>a, new = [x EXCEPT !.at = "append"]
    <2> QED BY <1>2, <1>w, <2>1, <2>2
  <1>17. CASE AppendShape(c) /\ ~Return(c)
    <2> PICK new : new = [x EXCEPT !.at = "drop"]
      OBVIOUS
    <2>1. call' = [call EXCEPT ![c] = new]
      BY <1>17 DEF AppendShape, Becomes
    <2>2. new.want = x.want /\ new.arc = x.arc /\ new.held = x.held
      BY ONLY <1>a, new = [x EXCEPT !.at = "drop"]
    <2> QED BY <1>2, <1>w, <2>1, <2>2
  <1>18. CASE Locked(c)
    <2> PICK rest, guards : rest = Tail(x.tolock) /\ guards = Append(x.held, x.want)
      OBVIOUS
    <2> PICK new : new = [x EXCEPT !.tolock = rest, !.want = None, !.held = guards]
      OBVIOUS
    <2>1. call' = [call EXCEPT ![c] = new] /\ x.want # None
      BY <1>18 DEF Locked, Becomes
    <2>2. new.want = None /\ new.arc = x.arc /\ new.held = guards
      BY ONLY <1>a, new = [x EXCEPT !.tolock = rest, !.want = None, !.held = guards]
    <2> PICK A : A = DOMAIN arcs
      OBVIOUS
    <2>3. x.held \in Seq(A) /\ x.want \in A
      BY <1>b, <2>1 DEF PointsAt, States
    <2>4. guards \in Seq(A)
      BY ONLY <2>3, guards = Append(x.held, x.want)
    <2>5. PointsAt(new)
      BY <1>w, <2>2, <2>4 DEF PointsAt
    <2> QED BY <1>0, <2>1, <2>5, HeldKept
  <1>19. CASE InsertResource(c)
    <2>1. call' = [call EXCEPT ![c] = Idle]
      BY <1>19 DEF InsertResource
    <2> QED BY <1>0, <2>1, IdlePoints, HeldKept
  <1>20. CASE ReadEnds(c) \/ ApplyRecords(c) \/ RemoveResource(c)
    <2>1. Return(c)
      BY <1>20 DEF ReadEnds, ApplyRecords, RemoveResource
    <2> QED BY <1>1, <2>1
  <1> QED
    BY <1>1, <1>3, <1>4, <1>5, <1>6, <1>7, <1>8, <1>9, <1>10, <1>11,
       <1>12, <1>13, <1>14, <1>15, <1>16, <1>17, <1>18, <1>19, <1>20 DEF Step, Start, Shape

TypeInv == TreeInv /\ LocksOK /\ HeldOK /\ IdsOK /\ entity \in Indexes

\* The store, where a step leaves it.
LEMMA IdsStay ==
    ASSUME TypeInv, UNCHANGED store
    PROVE  IdsOK' /\ entity' \in Indexes
  BY DEF TypeInv, IdsOK, Live, store

\* The store, after the records of a call.
LEMMA IdsApplied ==
    ASSUME TypeInv, NEW c \in Callers, ApplyRecords(c)
    PROVE  IdsOK' /\ entity' \in Indexes
  <1>0. CallsOK /\ StoreOK /\ IdsOK /\ entity \in Indexes
    BY DEF TypeInv, TreeInv
  <1> PICK recs, held : recs = Records(c) /\ held = Range(call[c].held)
    OBVIOUS
  <1> DEFINE Items2(a) == AllItemsAfter(a, recs)
  <1>1. /\ arcs' = [a \in DOMAIN arcs |-> IF a \in held
                    THEN [arcs[a] EXCEPT !.items = Items2(a)] ELSE arcs[a]]
        /\ entity' = WholeIndexAfter({arcs[a].id : a \in held}, recs)
        /\ resources' = resources /\ call[c].at = "apply" /\ ~Shapes(c)
    BY DEF ApplyRecords, Holding
  <1> HIDE DEF Items2
  <1>2. ASSUME NEW a \in DOMAIN arcs PROVE arcs'[a].id = arcs[a].id
    <2> PICK old, items : old = arcs[a] /\ items = Items2(a)
      OBVIOUS
    <2>1. old = [id |-> old.id, parent |-> old.parent, items |-> old.items]
      BY <1>0 DEF StoreOK, ArcOK
    <2>2. arcs'[a] = old \/ arcs'[a] = [old EXCEPT !.items = items]
      BY <1>1
    <2> QED BY ONLY <2>1, <2>2, old = arcs[a]
  <1>3. IdsOK'
    <2>1. DOMAIN arcs' = DOMAIN arcs /\ Live' = Live
      BY <1>1 DEF Live
    <2> QED BY <1>0, <1>1, <1>2, <2>1 DEF IdsOK, StoreOK
  <1>4. {arcs[a].id : a \in held} \subseteq Resources
    <2>1. ASSUME NEW a \in held PROVE arcs[a].id \in Resources
      <3> PICK A, h : A = DOMAIN arcs /\ h = call[c].held
        OBVIOUS
      <3>1. h \in Seq(A)
        BY DEF TypeInv, HeldOK, PointsAt
      <3>2. held = {h[n] : n \in DOMAIN h}
        BY Zenon DEF Range
      <3>3. a \in A
        BY ONLY <3>1, <3>2, <2>1
      <3> QED BY <1>0, <3>3 DEF IdsOK
    <2> QED BY <2>1
  <1>5. IsSeq(recs)
    <2>1. call[c].op \in Writes
      BY <1>0, <1>1, Fields
    <2> QED BY <1>0, <2>1, RecordsAreOfEntities
  <1> PICK rids : rids = {arcs[a].id : a \in held}
    OBVIOUS
  <1>6. WholeIndexAfter(rids, recs) \in Indexes
    BY <1>0, <1>4, <1>5, AppliedIndex
  <1> QED BY <1>1, <1>3, <1>6

\* The store, when a resource comes or goes.
LEMMA IdsReshaped ==
    ASSUME TypeInv, NEW c \in Callers, Unmap(c) \/ InsertResource(c) \/ RemoveResource(c)
    PROVE  IdsOK' /\ entity' \in Indexes
  <1>0. CallsOK /\ StoreOK /\ IdsOK /\ entity \in Indexes
    BY DEF TypeInv, TreeInv
  <1>1. CASE Unmap(c)
    <2>1. entity' = Unmapped(call[c].arc) /\ arcs' = arcs /\ resources' = resources
      BY <1>1 DEF Unmap
    <2>2. entity' \in Indexes
      BY <1>0, <2>1 DEF Unmapped, Indexes, OrNone
    <2> QED BY <1>0, <2>1, <2>2 DEF IdsOK, Live
  <1>2. CASE RemoveResource(c)
    <2>1. /\ entity' = entity /\ arcs' = arcs
          /\ resources' = [resources EXCEPT ![call[c].rid] = None]
      BY <1>2 DEF RemoveResource
    <2>2. \A r \in Live' : r \in Live /\ resources'[r] = resources[r]
      BY <1>0, <2>1 DEF Live, StoreOK
    <2> QED BY <1>0, <2>1, <2>2 DEF IdsOK
  <1>3. CASE InsertResource(c)
    <2> PICK rid, made : /\ rid = call[c].rid
                         /\ made = [id |-> rid, parent |-> call[c].parent, items |-> {}]
      OBVIOUS
    <2>1. /\ entity' = entity /\ arcs' = Append(arcs, made) /\ made.id = rid
          /\ resources' = [resources EXCEPT ![rid] = Len(arcs) + 1] /\ call[c].op = "create"
      BY <1>3 DEF InsertResource
    <2>2. rid \in Resources
      BY <1>0, <2>1, Fields DEF Shapes, Reshaping
    <2> PICK old, now : old = arcs /\ now = arcs'
      OBVIOUS
    <2>3. /\ Len(old) \in Nat /\ DOMAIN old = 1 .. Len(old)
          /\ now = [n \in 1 .. Len(old) + 1 |-> IF n = Len(old) + 1 THEN made ELSE old[n]]
      BY <1>0, <2>1, Sequences DEF StoreOK
    <2>4. /\ now[Len(old) + 1] = made /\ DOMAIN now = 1 .. Len(old) + 1
          /\ \A n \in DOMAIN old : now[n] = old[n]
          /\ \A n \in DOMAIN now : n \in DOMAIN old \/ n = Len(old) + 1
      BY ONLY <2>3
    <2>5. \A a \in DOMAIN now : now[a].id \in Resources
      BY <1>0, <2>1, <2>2, <2>4 DEF IdsOK
    <2>6. ASSUME NEW r \in Live' PROVE now[resources'[r]].id = r
      <3>1. CASE r = rid
        BY <1>0, <2>1, <2>2, <2>4, <3>1 DEF StoreOK
      <3>2. CASE r # rid
        <4>1. r \in Live /\ resources'[r] = resources[r]
          BY <1>0, <2>1, <2>6, <3>2 DEF Live, StoreOK
        <4>2. old[resources[r]].id = r /\ resources[r] \in DOMAIN old
          BY <1>0, <4>1 DEF IdsOK, StoreOK
        <4> QED BY <2>4, <4>1, <4>2
      <3> QED BY <3>1, <3>2
    <2> QED BY <1>0, <2>1, <2>5, <2>6 DEF IdsOK
  <1> QED BY <1>1, <1>2, <1>3

\* States are not taken away but by a restart.
LEMMA StatesStay ==
    ASSUME TreeInv, NEW c \in Callers, Step(c)
    PROVE  DOMAIN arcs \subseteq DOMAIN arcs'
  <1>1. CASE InsertResource(c)
    <2> PICK made : made = [id |-> call[c].rid, parent |-> call[c].parent, items |-> {}]
      OBVIOUS
    <2> PICK old, now : old = arcs /\ now = arcs'
      OBVIOUS
    <2>1. now = Append(old, made) /\ IsSeq(old)
      BY <1>1 DEF InsertResource, TreeInv, StoreOK
    <2>2. /\ Len(old) \in Nat /\ DOMAIN old = 1 .. Len(old)
          /\ now = [n \in 1 .. Len(old) + 1 |-> IF n = Len(old) + 1 THEN made ELSE old[n]]
      BY <2>1, Sequences
    <2>3. DOMAIN old \subseteq DOMAIN now
      BY ONLY <2>2
    <2> QED BY <2>3
  <1>2. CASE ~InsertResource(c)
    BY <1>2 DEF Step, Start, Shape, StartAdd, StartBatch, StartRemove, StartCommit, StartRead,
        AskTopology, Visit, Visited, Lock, Locked, ReadEnds, Check, QueueRecords, ApplyRecords,
        CheckCreate, CheckDelete, Unmap, AppendShape, RemoveResource, store
  <1> QED BY <1>1, <1>2

\* A restart has no calls, and the states that replay builds.
LEMMA TypeRestart ==
    ASSUME TypeInv, Restart
    PROVE  LocksOK' /\ HeldOK' /\ IdsOK' /\ entity' \in Indexes
  <1> PICK s, T, q : /\ s = Replay /\ T = {r \in Resources : s.states[r].there}
                     /\ q = SetToSeq(T)
    OBVIOUS
  <1>1. PICK n \in Nat : /\ q \in [1 .. n -> T]
                         /\ \A r \in T : \E k \in 1 .. n : q[k] = r
    <2>1. IsFiniteSet(T)
      BY TopologyAssumption, FS_Subset
    <2>2. q = SetToSeq(T)
      OBVIOUS
    <2> QED BY ONLY <2>1, <2>2, Listed
  <1>2. DOMAIN q = 1 .. n /\ T \subseteq Resources
    BY <1>1
  <1>3. /\ arcs' = [k \in DOMAIN q |-> [id |-> q[k], parent |-> s.states[q[k]].parent,
                                      items |-> s.states[q[k]].items]]
        /\ resources' = [r \in Resources |->
                IF s.states[r].there THEN CHOOSE k \in DOMAIN q : q[k] = r ELSE None]
        /\ entity' = s.entity /\ lock' = [k \in DOMAIN q |-> <<>>]
        /\ topology' = <<>> /\ call' = [c \in Callers |-> Idle]
    BY DEF Restart
  <1>4. entity' \in Indexes
    <2>1. s.entity = ReplayAll(log).entity
      BY DEF Replay, Detached
    <2>2. IsSeq(log)
      BY DEF TypeInv, TreeInv, LogOK
    <2> QED BY <1>3, <2>1, <2>2, ReplayedIndex
  <1>5. IdsOK'
    <2>1. ASSUME NEW k \in 1 .. n PROVE arcs'[k].id = q[k] /\ q[k] \in T
      BY <1>1, <1>2, <1>3
    <2>2. DOMAIN arcs' = 1 .. n
      BY <1>2, <1>3
    <2>3. ASSUME NEW r \in Live' PROVE arcs'[resources'[r]].id = r
      <3>1. r \in T
        BY <1>3, <2>3 DEF Live
      <3>2. resources'[r] = CHOOSE k \in 1 .. n : q[k] = r
        <4>1. r \in Resources /\ s.states[r].there
          BY <3>1
        <4>2. resources'[r] = CHOOSE k \in DOMAIN q : q[k] = r
          BY <1>3, <4>1
        <4> QED BY <1>2, <4>2
      <3>3. \E k \in 1 .. n : q[k] = r
        BY <1>1, <3>1
      <3>4. resources'[r] \in 1 .. n /\ q[resources'[r]] = r
        BY ONLY <3>2, <3>3, Zenon
      <3> QED BY <2>1, <3>4
    <2> QED BY <1>2, <2>1, <2>2, <2>3 DEF IdsOK
  <1>6. \A b \in Callers : call'[b] = Idle
    BY <1>3
  <1>7. HeldOK'
    <2>1. PointsAt(Idle)'
      <3> PICK A : A = DOMAIN arcs'
        OBVIOUS
      <3>1. Idle.want = None /\ Idle.arc = None /\ Idle.held = <<>>
        BY DEF Idle
      <3>2. <<>> \in Seq(A)
        OBVIOUS
      <3> QED BY <3>1, <3>2 DEF PointsAt, States
    <2> QED BY <1>6, <2>1 DEF HeldOK, PointsAt
  <1>8. LineOK' /\ RestOK'
    BY <1>3, <1>6 DEF LineOK, RestOK
  <1>9. GuardsOK'
    <2> PICK now, states : now = lock' /\ states = arcs'
      OBVIOUS
    <2>1. now = [k \in 1 .. n |-> <<>>] /\ states = [k \in 1 .. n |-> states[k]]
      BY <1>2, <1>3
    <2>2. now \in Seq({<<>>}) /\ Len(now) = n /\ DOMAIN now = 1 .. n
      BY ONLY <2>1, n \in Nat
    <2>3. Len(states) = n
      BY ONLY <2>1, n \in Nat
    <2>4. IsSeq(<<>>) /\ DOMAIN <<>> = {}
      BY DEF IsSeq
    <2>5. \A a \in DOMAIN now : now[a] = <<>>
      BY ONLY <2>1
    <2>6. IsSeq(lock') /\ Len(lock') = Len(arcs') /\ \A a \in DOMAIN lock' : lock'[a] = <<>>
      BY <2>2, <2>3, <2>5 DEF IsSeq
    <2> QED BY <2>4, <2>6 DEF GuardsOK
  <1> QED BY <1>4, <1>5, <1>7, <1>8, <1>9 DEF LocksOK

\* Every step keeps the types.
LEMMA TypeKept ==
    ASSUME TypeInv, [Next]_vars
    PROVE  TypeInv'
  <1>0. TreeInv /\ LocksOK /\ HeldOK /\ IdsOK /\ entity \in Indexes
    BY DEF TypeInv
  <1>a. TreeInv'
    BY <1>0, StepKeeps
  <1>1. ASSUME NEW c \in Callers, Step(c)
        PROVE  LocksOK' /\ HeldOK' /\ IdsOK' /\ entity' \in Indexes
    <2>1. HeldOK'
      BY <1>0, <1>1, StatesStay, HeldOnTheWay
    <2>2. LocksOK'
      BY <1>0, <1>1, LocksOnTheWay, LocksAsked, LocksApplied, LocksInserted
         DEF Step, Start, Shape
    <2>3. IdsOK' /\ entity' \in Indexes
      <3>1. CASE ApplyRecords(c)
        BY <3>1, IdsApplied
      <3>2. CASE Unmap(c) \/ InsertResource(c) \/ RemoveResource(c)
        BY <3>2, IdsReshaped
      <3>3. CASE ~ (ApplyRecords(c) \/ Unmap(c) \/ InsertResource(c) \/ RemoveResource(c))
        <4>1. UNCHANGED store
          BY <1>1, <3>3 DEF Step, Start, Shape, StartAdd, StartBatch, StartRemove,
             StartCommit, StartRead, AskTopology, Visit, Visited, Lock, Locked, ReadEnds,
             Check, QueueRecords, CheckCreate, CheckDelete, AppendShape
        <4> QED BY <4>1, IdsStay
      <3> QED BY <3>1, <3>2, <3>3
    <2> QED BY <2>1, <2>2, <2>3
  <1>2. ASSUME NEW c \in Callers, NEW new \in Operations, Begin(c, new)
        PROVE  LocksOK' /\ HeldOK' /\ IdsOK' /\ entity' \in Indexes
    <2>1. UNCHANGED store /\ call' = [call EXCEPT ![c] = new]
      BY <1>2 DEF Begin, Becomes
    <2>2. PointsAt(new)
      <3>1. new = Call(new.op, new.rid, new.parent, new.members)
        BY OperationsAssumption
      <3>2. new.want = None /\ new.arc = None /\ new.held = <<>>
        BY ONLY <3>1 DEF Call, Idle
      <3> PICK A : A = DOMAIN arcs
        OBVIOUS
      <3>3. <<>> \in Seq(A)
        OBVIOUS
      <3> QED BY <3>2, <3>3 DEF PointsAt, States
    <2>3. HeldOK'
      BY <1>0, <2>1, <2>2, HeldKept DEF TreeInv, store
    <2> QED BY <1>0, <1>2, <2>1, <2>3, LocksBegin, IdsStay
  <1>3. CASE Restart
    BY <1>0, <1>a, <1>3, TypeRestart DEF TypeInv
  <1>4. CASE UNCHANGED vars
    <2>1. UNCHANGED store /\ call' = call /\ topology' = topology /\ lock' = lock
      BY <1>4 DEF vars, locks
    <2>2. IdsOK' /\ entity' \in Indexes
      BY <2>1, IdsStay
    <2>3. arcs' = arcs
      BY <2>1 DEF store
    <2>4. LocksOK' /\ HeldOK'
      BY <1>0, <2>1, <2>3 DEF LocksOK, LineOK, GuardsOK, Guarding, RestOK, HeldOK, PointsAt, States
    <2> QED BY <1>a, <2>2, <2>4 DEF TypeInv
  <1> QED BY <1>a, <1>1, <1>2, <1>3, <1>4 DEF Next, TypeInv

\* At first there is nothing.
LEMMA InitTypes ==
    ASSUME Init
    PROVE  TypeInv
  <1>1. TreeInv
    BY InitTree
  <1>2. IsSeq(<<>>) /\ DOMAIN <<>> = {} /\ Len(<<>>) = 0
    BY DEF IsSeq
  <1>3. LineOK /\ RestOK
    BY <1>2 DEF Init, LineOK, RestOK
  <1>4. GuardsOK
    BY <1>2 DEF Init, GuardsOK
  <1>5. HeldOK
    BY IdlePoints DEF Init, HeldOK
  <1>6. IdsOK /\ entity \in Indexes
    BY <1>2 DEF Init, IdsOK, Live, Indexes, OrNone
  <1> QED BY <1>1, <1>3, <1>4, <1>5, <1>6 DEF TypeInv, LocksOK

\* The invariant implies TypeOK.
LEMMA TypeInvMeansTypeOK ==
    TypeInv => TypeOK
  <1> SUFFICES ASSUME TypeInv PROVE TypeOK
    OBVIOUS
  <1>1. LineOK /\ GuardsOK /\ IdsOK /\ entity \in Indexes
    BY DEF TypeInv, LocksOK
  <1>2. Range(topology) \subseteq {c \in Callers : Shapes(c)}
    <2>1. ASSUME NEW c \in Range(topology) PROVE c \in Callers /\ Shapes(c)
      <3>1. PICK i \in DOMAIN topology : c = topology[i]
        BY <2>1, Zenon DEF Range
      <3> QED BY <1>1, <3>1 DEF LineOK, Waits, Shapes
    <2> QED BY <2>1
  <1>3. \A a \in DOMAIN lock : \A k \in DOMAIN lock[a] : call[lock[a][k].caller] # Idle
    BY <1>1 DEF GuardsOK, Guarding
  <1>4. \A e \in Entities : entity[e] \in Resources \cup {None}
    BY <1>1 DEF Indexes, OrNone
  <1> QED BY <1>1, <1>2, <1>3, <1>4 DEF TypeOK, IdsOK, GuardsOK

\* The table leads to the resource that was asked for, the index to ids that
\* can exist, and nobody is left in a line once its call is over, whatever
\* early return it took (Return in every operation, guards dropped).
THEOREM TypeCorrect ==
    Spec => []TypeOK
  <1>1. Init => TypeInv
    BY InitTypes
  <1>2. TypeInv /\ [Next]_vars => TypeInv'
    BY TypeKept
  <1> QED BY <1>1, <1>2, TypeInvMeansTypeOK, PTL DEF Spec
===============================================================================
