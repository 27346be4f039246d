------------------------------ MODULE IndexProofs -----------------------------
(* Proofs about Topology, for any number of resources, callers, calls and  *)
(* restarts: what the resources hold, in memory and in the log, and the    *)
(* index from an entity to its resource.                                   *)
EXTENDS TopologyProofs

-------------------------------------------------------------------------------
(* The guards a write holds.                                               *)

Writing(c) == call[c].op \in Writes
HeldBy(c) == Range(call[c].held)

\* A call has asked for nothing when it starts, and for no more when it has
\* its guards.
Begun(x) == /\ x.todo = <<>> /\ x.tolock = <<>> /\ x.held = <<>>
            /\ x.want = None /\ x.arc = None
Ready(x) == x.todo = <<>> /\ x.tolock = <<>> /\ x.want = None

\* Only writes keep guards, and they read nothing more once they have one.
Staged(x) ==
    /\ IsSeq(x.tolock)
    /\ x.at = "start" => Begun(x)
    /\ x.op \notin Writes => x.held = <<>> /\ x.tolock = <<>>
    /\ x.at = "drop" => x.op \in Reshaping
    /\ x.held # <<>> => x.todo = <<>>
    /\ x.op \in Writes => /\ x.at \in {"start", "check", "append", "apply"}
                          /\ x.at \in {"append", "apply"} => Ready(x)

\* The members of a write: no id twice.
Member(op, m) ==
    /\ m.id \in Entities /\ m.rid \in OrNone
    /\ op = "commit" => /\ m = [id |-> m.id, rid |-> m.rid, becomes |-> m.becomes]
                        /\ m.becomes \in Entities
    /\ op # "commit" => m = [id |-> m.id, rid |-> m.rid]
Distinct(op, members) ==
    \A m, n \in members : m.id = n.id \/ (op = "commit" /\ m.becomes = n.becomes) => m = n
Named(x) ==
    x.op \in Writes => /\ \A m \in x.members : Member(x.op, m)
                       /\ Distinct(x.op, x.members)
                       /\ x.op \in {"add", "remove"} => \E m : x.members = {m}

\* Every resource it names is one it has the guard of, or is about to ask for.
Covered(x) ==
    x.op \in Writes =>
        /\ x.at # "start" =>
              \A m \in x.members : \/ m.rid \in Range(x.tolock)
                                   \/ \E a \in Range(x.held) : arcs[a].id = m.rid
        /\ x.arc # None /\ x.tolock # <<>> => x.tolock = <<arcs[x.arc].id>>
        /\ x.todo = <<>> /\ x.tolock # <<>> /\ x.want # None =>
              arcs[x.want].id = Head(x.tolock)

Fits(x) == Staged(x) /\ Named(x) /\ Covered(x)
FitOK == \A c \in Callers : Fits(call[c])

\* Those in a line to read are on their way there, or delete the resource.
Reads(x) == x.todo # <<>> \/ (x.op = "delete" /\ x.at = "unmap")
ReadersOK ==
    \A a \in DOMAIN lock : \A k \in DOMAIN lock[a] :
        lock[a][k].mode = "read" => Reads(call[lock[a][k].caller])

\* Who holds a guard is the first in line, and has come to write.
Owns(c, a) == /\ a \in DOMAIN lock /\ lock[a] # <<>>
              /\ lock[a][1].caller = c /\ lock[a][1].mode # "read"
OwnersOK == \A c \in Callers : \A a \in HeldBy(c) : Owns(c, a)

GuardInv == TypeInv /\ FitOK /\ ReadersOK /\ OwnersOK

-------------------------------------------------------------------------------
(* Lists of resources, and lines.                                          *)

\* LockOrder leaves no resource out.
LEMMA AscendingCovers ==
    ASSUME NEW rids, IsFiniteSet(rids), rids \subseteq Nat
    PROVE  IsSeq(Ascending(rids)) /\ rids \subseteq Range(Ascending(rids))
  <1> DEFINE rank(r) == Cardinality({x \in rids : x <= r})
             n == Cardinality(rids)
  <1> PICK s : s = Ascending(rids)
    OBVIOUS
  <1>1. n \in Nat
    BY FS_CardinalityType
  <1>2. s = [k \in 1 .. n |-> CHOOSE r \in rids : rank(r) = k]
    BY DEF Ascending
  <1>3. ASSUME NEW r \in rids PROVE rank(r) \in 1 .. n
    <2> DEFINE below == {x \in rids : x <= r}
    <2>1. IsFiniteSet(below) /\ Cardinality(below) <= n
      BY FS_Subset
    <2>2. r \in below
      OBVIOUS
    <2>3. below # {} /\ Cardinality(below) \in Nat
      BY <2>1, <2>2, FS_CardinalityType
    <2>4. Cardinality(below) # 0
      BY <2>1, <2>3, FS_EmptySet
    <2> HIDE DEF below
    <2>5. Cardinality(below) \in 1 .. n
      BY <1>1, <2>1, <2>3, <2>4
    <2> QED BY <2>5 DEF below
  <1>4. ASSUME NEW q \in rids, NEW r \in rids, q < r PROVE rank(q) # rank(r)
    <2> DEFINE low == {x \in rids : x <= q}
               high == {x \in rids : x <= r}
    <2>1. low \subseteq high /\ r \in high /\ r \notin low
      <3>1. q \in Nat /\ r \in Nat /\ \A x \in rids : x \in Nat
        OBVIOUS
      <3>2. \A x \in Nat : x <= q => x <= r
        BY ONLY <3>1, <1>4
      <3>3. r <= r /\ ~ (r <= q)
        BY ONLY <3>1, <1>4
      <3> QED BY <3>1, <3>2, <3>3
    <2>2. IsFiniteSet(high)
      BY FS_Subset
    <2>3. low # high
      BY <2>1
    <2> HIDE DEF low, high
    <2>4. Cardinality(low) # Cardinality(high)
      BY <2>1, <2>2, <2>3, FS_Subset
    <2> QED BY <2>4 DEF low, high
  <1>5. ASSUME NEW r \in rids PROVE r \in Range(s)
    <2> PICK k : k = rank(r)
      OBVIOUS
    <2>1. k \in 1 .. n
      BY <1>3
    <2>2. s[k] = CHOOSE q \in rids : rank(q) = k
      BY <1>2, <2>1
    <2> PICK q : q = s[k]
      OBVIOUS
    <2> HIDE DEF rank
    <2>3. q \in rids /\ rank(q) = k
      <3>1. \E x \in rids : rank(x) = k
        OBVIOUS
      <3> QED BY <2>2, <3>1, Zenon
    <2>4. q = r
      <3>1. ~ (q < r) /\ ~ (r < q)
        BY <1>4, <2>3
      <3>2. q \in Nat /\ r \in Nat
        BY <2>3
      <3> QED BY ONLY <3>1, <3>2
    <2>5. k \in DOMAIN s
      BY <1>2, <2>1
    <2> QED BY <2>4, <2>5 DEF Range
  <1>6. IsSeq(s)
    <2> DEFINE X == {s[k] : k \in 1 .. n}
    <2>1. s = [k \in 1 .. n |-> s[k]]
      BY <1>2
    <2>2. \A k \in 1 .. n : s[k] \in X
      OBVIOUS
    <2> PICK m : m = n
      OBVIOUS
    <2> HIDE DEF X, n
    <2>3. s \in Seq(X)
      BY ONLY <1>1, <2>1, <2>2, m = n
    <2> QED BY <2>3 DEF IsSeq
  <1> QED BY <1>5, <1>6

\* Who is first in line stays so when others leave it.
LEMMA FirstStays ==
    ASSUME NEW s, IsSeq(s), s # <<>>, NEW c, s[1].caller # c
    PROVE  Others(s, c) # <<>> /\ Others(s, c)[1] = s[1]
  <1> PICK t : t = [k \in DOMAIN s |-> IF s[k].caller = c THEN <<>> ELSE <<s[k]>>]
    OBVIOUS
  <1> PICK m : m = Len(s)
    OBVIOUS
  <1>1. m \in Nat /\ DOMAIN s = 1 .. m /\ m # 0 /\ 1 \in 1 .. m
    <2>1. m \in Nat /\ DOMAIN s = 1 .. m /\ s = [n \in 1 .. m |-> s[n]]
      BY Sequences
    <2>2. m # 0
      <3> SUFFICES ASSUME m = 0 PROVE FALSE
        OBVIOUS
      <3>1. IsSeq(s) /\ Len(s) = 0
        OBVIOUS
      <3>2. s = <<>>
        BY ONLY <3>1 DEF IsSeq
      <3> QED BY <3>2
    <2> QED BY <2>1, <2>2
  <1>2. t = [k \in 1 .. m |-> t[k]] /\ t[1] = <<s[1]>>
    BY <1>1
  <1>3. \A k \in 1 .. m : IsSeq(t[k])
    <2>1. ASSUME NEW k \in 1 .. m PROVE IsSeq(t[k])
      <3>1. t[k] = <<>> \/ t[k] = <<s[k]>>
        BY <1>1
      <3>2. IsSeq(<<>>) /\ IsSeq(<<s[k]>>)
        BY DEF IsSeq
      <3> QED BY <3>1, <3>2
    <2> QED BY <2>1
  <1>4. Len(t) = m
    <2> DEFINE X == {t[k] : k \in 1 .. m}
    <2>1. \A k \in 1 .. m : t[k] \in X
      OBVIOUS
    <2> HIDE DEF X
    <2>2. t \in [1 .. m -> X]
      BY <1>2, <2>1
    <2> QED BY ONLY <1>1, <2>2
  <1>5. PICK f : FlatOf(f, t, m) /\ FlattenSeq(t) = f[m]
    <2> DEFINE g == CHOOSE f : f = [i \in 1 .. Len(t) |->
                                      IF i = 1 THEN t[i] ELSE f[i - 1] \o t[i]]
    <2>1. \E f : f = [i \in 1 .. Len(t) |-> IF i = 1 THEN t[i] ELSE f[i - 1] \o t[i]]
      <3>1. \E f : FlatOf(f, t, Len(t))
        BY <1>1, <1>4, FlatExists
      <3> QED BY <3>1, Zenon DEF FlatOf
    <2>2. g = [i \in 1 .. Len(t) |-> IF i = 1 THEN t[i] ELSE g[i - 1] \o t[i]]
      BY <2>1, Zenon
    <2>3. FlattenSeq(t) = g[Len(t)]
      BY <1>1, <1>4, Zenon DEF FlattenSeq
    <2> HIDE DEF g
    <2>4. FlatOf(g, t, m)
      BY <1>4, <2>2, Zenon DEF FlatOf
    <2> QED BY <1>4, <2>3, <2>4
  <1>6. \A i \in 1 .. m : f[i] = IF i = 1 THEN t[i] ELSE f[i - 1] \o t[i]
    BY <1>5, Zenon DEF FlatOf
  <1> DEFINE Good(i) == IsSeq(f[i]) /\ Len(f[i]) >= 1 /\ f[i][1] = s[1]
             S == {i \in 1 .. m : ~Good(i)}
  <1>7. S = {}
    <2> SUFFICES ASSUME S # {} PROVE FALSE
      OBVIOUS
    <2>1. S \subseteq Nat
      OBVIOUS
    <2>2. PICK x \in S : \A y \in S : x <= y
      <3> HIDE DEF S
      <3> QED BY <2>1, FirstFailure
    <2>3. x \in 1 .. m /\ ~Good(x)
      OBVIOUS
    <2>4. x # 1
      <3> SUFFICES ASSUME x = 1 PROVE FALSE
        OBVIOUS
      <3>1. f[1] = <<s[1]>>
        BY <1>1, <1>2, <1>6
      <3>2. IsSeq(<<s[1]>>) /\ Len(<<s[1]>>) = 1 /\ <<s[1]>>[1] = s[1]
        BY DEF IsSeq
      <3> QED BY <2>3, <3>1, <3>2
    <2>5. x - 1 \in 1 .. m /\ ~ (x <= x - 1)
      BY <1>1, <2>3, <2>4
    <2>6. Good(x - 1)
      <3>1. x - 1 \notin S
        <4> HIDE DEF S
        <4> QED BY <2>2, <2>5
      <3> HIDE DEF Good
      <3> QED BY <2>5, <3>1
    <2>7. f[x] = f[x - 1] \o t[x]
      BY <1>6, <2>3, <2>4
    <2> PICK p, q : p = f[x - 1] /\ q = t[x]
      OBVIOUS
    <2>8. IsSeq(p) /\ IsSeq(q) /\ Len(p) >= 1 /\ p[1] = s[1]
      BY <1>3, <2>3, <2>6
    <2>9. /\ IsSeq(p \o q) /\ Len(p \o q) = Len(p) + Len(q)
          /\ \A n \in 1 .. Len(p) : (p \o q)[n] = p[n]
          /\ Len(p) \in Nat /\ Len(q) \in Nat
      <3>1. IsSeq(p) /\ IsSeq(q)
        BY <2>8
      <3>2. Len(p) \in Nat /\ Len(q) \in Nat
        BY ONLY <3>1, Sequences
      <3>3. /\ IsSeq(p \o q) /\ Len(p \o q) = Len(p) + Len(q)
            /\ \A n \in 1 .. Len(p) : (p \o q)[n] = p[n]
        BY ONLY <3>1, Concatenated
      <3> QED BY <3>2, <3>3
    <2>10. IsSeq(p \o q) /\ Len(p \o q) >= 1 /\ (p \o q)[1] = s[1]
      <3>1. 1 \in 1 .. Len(p) /\ Len(p) + Len(q) >= 1
        BY ONLY <2>8, <2>9
      <3> QED BY <2>8, <2>9, <3>1
    <2> QED BY <2>3, <2>7, <2>10
  <1>8. Good(m)
    <2> HIDE DEF Good
    <2> QED BY <1>1, <1>7
  <1>9. Others(s, c) = f[m]
    BY <1>5 DEF Others
  <1>10. f[m] # <<>>
    BY <1>8
  <1> QED BY <1>8, <1>9, <1>10

-------------------------------------------------------------------------------
(* How a step keeps the guards.                                            *)

\* States keep their ids.
SameIds == \A a \in DOMAIN arcs : a \in DOMAIN arcs' /\ arcs'[a].id = arcs[a].id

\* A call's own fields, and the states' ids, decide whether it fits.
LEMMA FitStays ==
    ASSUME NEW x, Fits(x), PointsAt(x), SameIds
    PROVE  Fits(x)'
  <1>1. Staged(x)' /\ Named(x)'
    BY DEF Fits, Staged, Named, Begun, Ready, Member, Distinct
  <1>2. ASSUME NEW a \in Range(x.held) PROVE a \in DOMAIN arcs
    <2> PICK h, A : h = x.held /\ A = DOMAIN arcs
      OBVIOUS
    <2>1. h \in Seq(A) /\ a \in {h[n] : n \in DOMAIN h}
      BY Zenon DEF PointsAt, Range
    <2> QED BY ONLY <2>1, A = DOMAIN arcs
  <1>3. /\ x.want # None => x.want \in DOMAIN arcs
        /\ x.arc # None => x.arc \in DOMAIN arcs
    BY DEF PointsAt, States
  <1>4. Covered(x)'
    BY <1>2, <1>3 DEF Fits, Covered, SameIds
  <1> QED BY <1>1, <1>4 DEF Fits

\* One call changes, and fits.
LEMMA FitKept ==
    ASSUME CallsOK, HeldOK, FitOK, NEW c \in Callers, NEW new,
           call' = [call EXCEPT ![c] = new], PointsAt(new), Fits(new), SameIds
    PROVE  FitOK'
  <1>1. call'[c] = new /\ \A b \in Callers \ {c} : call'[b] = call[b]
    BY OneCall
  <1>2. ASSUME NEW b \in Callers PROVE Fits(call[b])'
    <2> PICK x : x = call'[b]
      OBVIOUS
    <2>1. Fits(x) /\ PointsAt(x)
      BY <1>1 DEF FitOK, HeldOK
    <2>2. Fits(x)'
      BY <2>1, FitStays
    <2> QED BY <2>2 DEF Fits, Staged, Named, Covered
  <1> QED BY <1>2 DEF FitOK

\* What a step may do to a line: leave it, go, or join at its end.
LEMMA LineSteps ==
    ASSUME GuardsOK, NEW c, NEW mode, NEW at,
           \/ lock' = lock
           \/ lock' = Without(c)
           \/ Ask(at, c, mode)
    PROVE  \A a \in DOMAIN lock :
              /\ a \in DOMAIN lock'
              /\ \A k \in DOMAIN lock'[a] :
                    /\ \/ \E j \in DOMAIN lock[a] : lock'[a][k] = lock[a][j]
                       \/ Ask(at, c, mode) /\ lock'[a][k].caller = c /\ lock'[a][k].mode = mode
                    /\ lock' = Without(c) => lock'[a][k].caller # c
              /\ \A b : Owns(b, a) /\ (b # c \/ lock' = lock \/ Ask(at, c, mode)) => Owns(b, a)'
  <1> SUFFICES ASSUME NEW a \in DOMAIN lock
               PROVE  /\ a \in DOMAIN lock'
                      /\ \A k \in DOMAIN lock'[a] :
                            /\ \/ \E j \in DOMAIN lock[a] : lock'[a][k] = lock[a][j]
                               \/ Ask(at, c, mode) /\ lock'[a][k].caller = c /\ lock'[a][k].mode = mode
                            /\ lock' = Without(c) => lock'[a][k].caller # c
                      /\ \A b : Owns(b, a) /\ (b # c \/ lock' = lock \/ Ask(at, c, mode)) => Owns(b, a)'
    OBVIOUS
  <1>1. IsSeq(lock[a]) /\ lock = [b \in DOMAIN lock |-> lock[b]]
    <2>1. IsSeq(lock) /\ IsSeq(lock[a])
      BY DEF GuardsOK
    <2>2. DOMAIN lock = 1 .. Len(lock) /\ lock = [b \in 1 .. Len(lock) |-> lock[b]]
      BY <2>1, Sequences
    <2> QED BY <2>1, <2>2
  <1>2. ASSUME lock' = Without(c)
        PROVE  /\ a \in DOMAIN lock'
               /\ \A k \in DOMAIN lock'[a] : \E j \in DOMAIN lock[a] :
                      lock'[a][k] = lock[a][j] /\ lock[a][j].caller # c
               /\ \A b : Owns(b, a) /\ b # c => Owns(b, a)'
    <2>1. lock'[a] = Others(lock[a], c) /\ a \in DOMAIN lock'
      BY <1>2 DEF Without
    <2>2. \A k \in DOMAIN lock'[a] : \E j \in DOMAIN lock[a] :
                lock'[a][k] = lock[a][j] /\ lock[a][j].caller # c
      BY <1>1, <2>1, OthersStay
    <2>3. ASSUME NEW b, Owns(b, a), b # c PROVE Owns(b, a)'
      <3>1. lock[a] # <<>> /\ lock[a][1].caller # c
        BY <2>3 DEF Owns
      <3>2. lock'[a] # <<>> /\ lock'[a][1] = lock[a][1]
        BY <1>1, <2>1, <3>1, FirstStays
      <3> QED BY <2>1, <2>3, <3>2 DEF Owns
    <2> QED BY <1>2, <2>1, <2>2, <2>3
  <1>3. ASSUME lock' = lock
        PROVE  a \in DOMAIN lock' /\ lock'[a] = lock[a] /\ \A b : Owns(b, a) => Owns(b, a)'
    BY <1>3 DEF Owns
  <1>4. ASSUME Ask(at, c, mode)
        PROVE  /\ a \in DOMAIN lock'
               /\ \A k \in DOMAIN lock'[a] :
                     \/ \E j \in DOMAIN lock[a] : lock'[a][k] = lock[a][j]
                     \/ lock'[a][k].caller = c /\ lock'[a][k].mode = mode
               /\ \A b : Owns(b, a) => Owns(b, a)'
    <2> PICK e : e = [caller |-> c, mode |-> mode]
      OBVIOUS
    <2>1. lock' = [lock EXCEPT ![at] = Append(@, e)] /\ e.caller = c /\ e.mode = mode
      BY <1>4 DEF Ask
    <2>2. CASE a # at
      <3>1. lock'[a] = lock[a] /\ a \in DOMAIN lock'
        BY <1>1, <2>1, <2>2
      <3> QED BY <1>4, <3>1 DEF Owns
    <2>3. CASE a = at
      <3> PICK s, u : s = lock[a] /\ u = lock'[a]
        OBVIOUS
      <3>1. u = Append(s, e) /\ a \in DOMAIN lock'
        BY <1>1, <2>1, <2>3
      <3>2. /\ u = [n \in 1 .. Len(s) + 1 |-> IF n = Len(s) + 1 THEN e ELSE s[n]]
            /\ Len(s) \in Nat /\ DOMAIN s = 1 .. Len(s) /\ IsSeq(s)
        BY <1>1, <3>1, Sequences
      <3>3. \A k \in DOMAIN u : (\E j \in DOMAIN s : u[k] = s[j]) \/ u[k] = e
        BY ONLY <3>2
      <3>4. s # <<>> => u # <<>> /\ u[1] = s[1]
        <4> SUFFICES ASSUME s # <<>> PROVE u # <<>> /\ u[1] = s[1]
          OBVIOUS
        <4>1. Len(s) # 0
          BY ONLY <3>2, s # <<>> DEF IsSeq
        <4>2. 1 \in 1 .. Len(s) + 1 /\ 1 # Len(s) + 1
          BY ONLY <3>2, <4>1
        <4>3. u # <<>>
          BY ONLY <3>2, <4>2
        <4> QED BY <3>2, <4>2, <4>3
      <3> QED BY <1>4, <2>1, <3>1, <3>3, <3>4 DEF Owns
    <2> QED BY <2>2, <2>3
  <1>5. CASE lock' = Without(c)
    <2>1. \A k \in DOMAIN lock'[a] : /\ \E j \in DOMAIN lock[a] : lock'[a][k] = lock[a][j]
                                     /\ lock'[a][k].caller # c
      BY <1>2, <1>5
    <2> QED BY <1>2, <1>3, <1>4, <1>5, <2>1
  <1>6. CASE lock' # Without(c)
    BY <1>3, <1>4, <1>6
  <1> QED BY <1>5, <1>6

\* Who waits or holds does so for the reason he had.
LEMMA LinesKept ==
    ASSUME CallsOK, GuardsOK, ReadersOK, OwnersOK, NEW c \in Callers, NEW new,
           call' = [call EXCEPT ![c] = new], NEW mode, NEW at,
           \/ lock' = lock /\ (Reads(call[c]) => Reads(new))
           \/ lock' = Without(c) /\ new.held = <<>>
           \/ Ask(at, c, mode) /\ (Reads(call[c]) \/ mode = "read" => Reads(new)),
           \A a \in Range(new.held) : a \in HeldBy(c) \/ Owns(c, a)
    PROVE  ReadersOK' /\ OwnersOK'
  <1>1. call'[c] = new /\ \A b \in Callers \ {c} : call'[b] = call[b]
    BY OneCall
  <1>2. \A a \in DOMAIN lock :
              /\ \A k \in DOMAIN lock'[a] :
                    /\ \/ \E j \in DOMAIN lock[a] : lock'[a][k] = lock[a][j]
                       \/ Ask(at, c, mode) /\ lock'[a][k].caller = c /\ lock'[a][k].mode = mode
                    /\ lock' = Without(c) => lock'[a][k].caller # c
              /\ \A b : Owns(b, a) /\ (b # c \/ lock' = lock \/ Ask(at, c, mode)) => Owns(b, a)'
    BY LineSteps
  <1>a. DOMAIN lock' = DOMAIN lock
    BY DEF Without, Ask
  <1>3. ASSUME NEW a \in DOMAIN lock', NEW k \in DOMAIN lock'[a], lock'[a][k].mode = "read"
        PROVE  Reads(call'[lock'[a][k].caller])
    <2>a. a \in DOMAIN lock
      BY <1>a
    <2> PICK e : e = lock'[a][k]
      OBVIOUS
    <2>1. CASE \E j \in DOMAIN lock[a] : e = lock[a][j]
      <3>1. PICK j \in DOMAIN lock[a] : e = lock[a][j]
        BY <2>1
      <3>2. Reads(call[e.caller]) /\ e.caller \in Callers
        BY <1>3, <2>a, <3>1 DEF ReadersOK, GuardsOK, Guarding
      <3>3. CASE e.caller # c
        BY <1>1, <3>2, <3>3
      <3>4. CASE e.caller = c
        <4>1. lock' # Without(c)
          BY <1>2, <2>a, <3>4
        <4>2. Reads(new)
          BY <3>2, <3>4, <4>1
        <4> QED BY <1>1, <3>4, <4>2
      <3> QED BY <3>3, <3>4
    <2>2. CASE ~\E j \in DOMAIN lock[a] : e = lock[a][j]
      <3>1. Ask(at, c, mode) /\ e.caller = c /\ e.mode = mode
        BY <1>2, <2>a, <2>2
      <3>2. lock' # Without(c)
        BY <1>2, <2>a, <3>1
      <3>3. lock' # lock
        BY <2>2
      <3>4. Reads(new)
        BY <1>3, <3>1, <3>2, <3>3
      <3> QED BY <1>1, <3>1, <3>4
    <2> QED BY <2>1, <2>2
  <1>4. ASSUME NEW b \in Callers, NEW a \in HeldBy(b)' PROVE Owns(b, a)'
    <2>1. CASE b # c
      <3>1. a \in HeldBy(b)
        BY <1>1, <2>1 DEF HeldBy
      <3>2. Owns(b, a) /\ a \in DOMAIN lock
        BY <3>1 DEF OwnersOK, Owns
      <3> QED BY <1>2, <2>1, <3>2
    <2>2. CASE b = c
      <3>1. a \in Range(new.held)
        BY <1>1, <2>2 DEF HeldBy
      <3>2. Owns(c, a) /\ a \in DOMAIN lock
        BY <3>1 DEF OwnersOK, Owns
      <3>3. new.held # <<>>
        <4>1. Range(<<>>) = {}
          BY DEF Range
        <4> QED BY <3>1, <4>1
      <3> QED BY <1>2, <2>2, <3>2, <3>3
    <2> QED BY <2>1, <2>2
  <1>5. ReadersOK'
    BY <1>3 DEF ReadersOK
  <1>6. OwnersOK'
    BY <1>4 DEF OwnersOK
  <1> QED BY <1>5, <1>6

\* A call at rest fits.
LEMMA IdleHolds ==
    Fits(Idle) /\ ~Reads(Idle)
  <1>1. /\ Idle.op = "none" /\ Idle.at = "idle" /\ Idle.todo = <<>> /\ Idle.tolock = <<>>
        /\ Idle.held = <<>>
    BY DEF Idle
  <1>2. IsSeq(<<>>)
    BY DEF IsSeq
  <1> QED BY <1>1, <1>2 DEF Fits, Staged, Named, Covered, Reads, Writes

\* One call moves, and keeps to the rules.
LEMMA Moves ==
    ASSUME GuardInv, TypeInv', NEW c \in Callers, NEW new,
           call' = [call EXCEPT ![c] = new], PointsAt(new), Fits(new), SameIds,
           NEW mode, NEW at,
           \/ lock' = lock /\ (Reads(call[c]) => Reads(new))
           \/ lock' = Without(c) /\ new.held = <<>>
           \/ Ask(at, c, mode) /\ (Reads(call[c]) \/ mode = "read" => Reads(new)),
           \A a \in Range(new.held) : a \in HeldBy(c) \/ Owns(c, a)
    PROVE  GuardInv'
  <1>1. CallsOK /\ HeldOK /\ GuardsOK /\ FitOK /\ ReadersOK /\ OwnersOK
    BY DEF GuardInv, TypeInv, TreeInv, LocksOK
  <1>2. FitOK'
    BY <1>1, FitKept
  <1>3. ReadersOK' /\ OwnersOK'
    BY <1>1, LinesKept
  <1> QED BY <1>2, <1>3 DEF GuardInv

\* A call returns.
LEMMA GuardsReturned ==
    ASSUME GuardInv, TypeInv', NEW c \in Callers, Return(c), SameIds
    PROVE  GuardInv'
  <1>1. call' = [call EXCEPT ![c] = Idle] /\ lock' = Without(c)
    BY DEF Return, Becomes
  <1>2. Idle.held = <<>> /\ Range(<<>>) = {}
    BY DEF Idle, Range
  <1>3. Fits(Idle) /\ PointsAt(Idle)
    BY IdleHolds, IdlePoints
  <1>4. \A a \in Range(Idle.held) : a \in HeldBy(c) \/ Owns(c, a)
    BY <1>2
  <1> PICK at, mode : at = 0 /\ mode = "write"
    OBVIOUS
  <1> QED BY <1>1, <1>2, <1>3, <1>4, Moves

\* A call moves, and the states stay.
LEMMA GuardsMoved ==
    ASSUME GuardInv, TypeInv', NEW c \in Callers, NEW new,
           call' = [call EXCEPT ![c] = new], Fits(new), arcs' = arcs, NEW mode, NEW at,
           \/ lock' = lock /\ (Reads(call[c]) => Reads(new))
           \/ lock' = Without(c) /\ new.held = <<>>
           \/ Ask(at, c, mode) /\ (Reads(call[c]) \/ mode = "read" => Reads(new)),
           new.held = call[c].held
    PROVE  GuardInv'
  <1>1. CallsOK /\ HeldOK'
    BY DEF GuardInv, TypeInv, TreeInv
  <1>2. call'[c] = new
    BY <1>1, OneCall
  <1>3. PointsAt(new)
    BY <1>1, <1>2 DEF HeldOK, PointsAt, States
  <1>4. \A a \in Range(new.held) : a \in HeldBy(c) \/ Owns(c, a)
    BY DEF HeldBy
  <1>5. SameIds
    BY DEF SameIds
  <1> QED BY <1>3, <1>4, <1>5, Moves

\* One resource in a list.
LEMMA OneInLine ==
    ASSUME NEW r
    PROVE  IsSeq(<<r>>) /\ Range(<<r>>) = {r}
  <1> PICK s : s = <<r>>
    OBVIOUS
  <1>1. s \in Seq({r}) /\ DOMAIN s = {1} /\ s[1] = r
    BY ONLY s = <<r>>
  <1>2. Range(s) = {s[x] : x \in DOMAIN s}
    BY Zenon DEF Range
  <1> QED BY <1>1, <1>2 DEF IsSeq

\* The resources of finitely many members.
LEMMA FewResources ==
    ASSUME NEW S, IsFiniteSet(S)
    PROVE  IsFiniteSet({m.rid : m \in S})
  <1> DEFINE T == {m.rid : m \in S}
             f == [m \in S |-> m.rid]
  <1>1. f \in Surjection(S, T)
    BY DEF Surjection
  <1> QED BY <1>1, FS_Surjection

\* The first step of a call.
LEMMA GuardsStart ==
    ASSUME GuardInv, TypeInv', NEW c \in Callers,
           StartAdd(c) \/ StartBatch(c) \/ StartRemove(c) \/ StartCommit(c) \/ StartRead(c)
    PROVE  GuardInv'
  <1>0. /\ CallsOK /\ StoreOK /\ IdsOK /\ entity \in Indexes /\ FitOK
    BY DEF GuardInv, TypeInv, TreeInv
  <1> PICK x : x = call[c]
    OBVIOUS
  <1>a. /\ x = [op |-> x.op, rid |-> x.rid, parent |-> x.parent, members |-> x.members,
                at |-> x.at, todo |-> x.todo, tolock |-> x.tolock, arc |-> x.arc,
                want |-> x.want, held |-> x.held]
        /\ IsFiniteSet(x.members)
    BY <1>0, Fields
  <1>b. /\ x.at = "start" /\ x.op \in {"add", "batch", "remove", "commit", "read"}
        /\ arcs' = arcs
    BY DEF StartAdd, StartBatch, StartRemove, StartCommit, StartRead, store
  <1>c. Staged(x) /\ Named(x) /\ Begun(x)
    BY <1>0, <1>b DEF FitOK, Fits, Staged
  <1>d. ~Reads(x) /\ x.held = <<>> /\ x.want = None /\ x.arc = None
    BY <1>b, <1>c DEF Reads, Begun
  <1>e. SameIds
    BY <1>b DEF SameIds
  <1>1. ASSUME Return(c) PROVE GuardInv'
    BY <1>1, <1>e, GuardsReturned
  <1>2. ASSUME NEW new, call' = [call EXCEPT ![c] = new], Fits(new), lock' = lock,
               new.held = x.held
        PROVE  GuardInv'
    <2> PICK at, mode : at = 0 /\ mode = "write"
      OBVIOUS
    <2> QED BY <1>2, <1>b, <1>d, GuardsMoved
  <1>3. CASE StartAdd(c) /\ ~Return(c)
    <2> PICK m : m = CHOOSE y \in call[c].members : TRUE
      OBVIOUS
    <2> PICK a, todo : a = resources[m.rid] /\ todo = Ancestors(m.rid)
      OBVIOUS
    <2> PICK new : new = [x EXCEPT !.at = "check", !.arc = a, !.todo = todo,
                                   !.tolock = <<m.rid>>]
      OBVIOUS
    <2>1. call' = [call EXCEPT ![c] = new] /\ m.rid \in Live /\ lock' = lock /\ x.op = "add"
      BY <1>3 DEF StartAdd, Becomes, locks
    <2>2. /\ new.op = x.op /\ new.members = x.members /\ new.at = "check" /\ new.todo = todo
          /\ new.tolock = <<m.rid>> /\ new.arc = a /\ new.want = x.want /\ new.held = x.held
      BY ONLY <1>a, new = [x EXCEPT !.at = "check", !.arc = a, !.todo = todo,
                                   !.tolock = <<m.rid>>]
    <2>3. x.members = {m}
      <3>1. PICK y : x.members = {y}
        BY <1>c, <2>1 DEF Named, Writes
      <3>2. m \in x.members
        BY <3>1
      <3> QED BY <3>1, <3>2
    <2>4. IsSeq(<<m.rid>>) /\ Range(<<m.rid>>) = {m.rid} /\ arcs[a].id = m.rid
      BY <1>0, <2>1, OneInLine DEF IdsOK
    <2>5. Staged(new)
      BY <1>d, <2>1, <2>2, <2>4 DEF Staged, Writes
    <2>6. Named(new)
      BY <1>c, <2>2 DEF Named
    <2>7. Covered(new)
      BY <1>d, <2>2, <2>3, <2>4 DEF Covered
    <2> QED BY <1>2, <2>1, <2>2, <2>5, <2>6, <2>7 DEF Fits
  <1>4. CASE StartBatch(c)
    <2> PICK order : order = LockOrder(call[c].members)
      OBVIOUS
    <2> PICK todo : todo = FlattenSeq([k \in DOMAIN order |-> Ancestors(order[k])])
      OBVIOUS
    <2> PICK new : new = [x EXCEPT !.at = "check", !.tolock = order, !.todo = todo]
      OBVIOUS
    <2>1. call' = [call EXCEPT ![c] = new] /\ lock' = lock /\ x.op = "batch"
      BY <1>4 DEF StartBatch, Becomes, locks
    <2>2. /\ new.op = x.op /\ new.members = x.members /\ new.at = "check" /\ new.todo = todo
          /\ new.tolock = order /\ new.arc = x.arc /\ new.want = x.want /\ new.held = x.held
      BY ONLY <1>a, new = [x EXCEPT !.at = "check", !.tolock = order, !.todo = todo]
    <2>3. IsSeq(order) /\ \A m \in x.members : m.rid \in Range(order)
      <3> PICK rids : rids = {m.rid : m \in x.members}
        OBVIOUS
      <3>1. IsFiniteSet(rids)
        BY <1>a, FewResources
      <3>2. rids \subseteq Nat
        BY <1>c, <2>1, TopologyAssumption DEF Named, Member, OrNone, None, Writes
      <3>3. IsSeq(Ascending(rids)) /\ rids \subseteq Range(Ascending(rids))
        BY <3>1, <3>2, AscendingCovers
      <3> QED BY <3>3 DEF LockOrder
    <2>5. Staged(new)
      BY <1>d, <2>1, <2>2, <2>3 DEF Staged, Writes
    <2>6. Named(new)
      BY <1>c, <2>2 DEF Named
    <2>7. Covered(new)
      BY <1>d, <2>2, <2>3 DEF Covered
    <2> QED BY <1>2, <2>1, <2>2, <2>5, <2>6, <2>7 DEF Fits
  <1>5. CASE StartRemove(c) /\ ~Return(c)
    <2> PICK m : m = CHOOSE y \in call[c].members : TRUE
      OBVIOUS
    <2> PICK r, a, n : r = entity[m.id] /\ a = resources[r] /\ n = [m EXCEPT !.rid = r]
      OBVIOUS
    <2> PICK new : new = [x EXCEPT !.at = "check", !.arc = a, !.members = {n},
                                   !.tolock = <<r>>]
      OBVIOUS
    <2>1. call' = [call EXCEPT ![c] = new] /\ r \in Live /\ lock' = lock /\ x.op = "remove"
      BY <1>5 DEF StartRemove, Becomes, locks
    <2>2. /\ new.op = x.op /\ new.members = {n} /\ new.at = "check" /\ new.todo = x.todo
          /\ new.tolock = <<r>> /\ new.arc = a /\ new.want = x.want /\ new.held = x.held
      BY ONLY <1>a, new = [x EXCEPT !.at = "check", !.arc = a, !.members = {n},
                                   !.tolock = <<r>>]
    <2>3. m \in x.members
      <3>1. PICK y : x.members = {y}
        BY <1>c, <2>1 DEF Named, Writes
      <3> QED BY <3>1
    <2>4. n.id = m.id /\ n.rid = r /\ n = [id |-> n.id, rid |-> n.rid] /\ m.id \in Entities
      <3>1. m = [id |-> m.id, rid |-> m.rid] /\ m.id \in Entities
        BY <1>c, <2>1, <2>3 DEF Named, Member, Writes
      <3>2. n.id = m.id /\ n.rid = r /\ n = [id |-> n.id, rid |-> n.rid]
        BY ONLY <3>1, n = [m EXCEPT !.rid = r]
      <3> QED BY <3>1, <3>2
    <2>5. IsSeq(<<r>>) /\ Range(<<r>>) = {r} /\ arcs[a].id = r
      BY <1>0, <2>1, OneInLine DEF IdsOK
    <2>6. Staged(new)
      BY <1>d, <2>1, <2>2, <2>5 DEF Staged, Writes
    <2>7. Named(new)
      <3>1. r \in OrNone
        BY <2>1 DEF Live, OrNone
      <3>2. Member("remove", n)
        BY <2>4, <3>1 DEF Member
      <3>3. Distinct("remove", {n})
        BY DEF Distinct
      <3> QED BY <2>1, <2>2, <3>2, <3>3 DEF Named
    <2>8. Covered(new)
      BY <1>d, <2>2, <2>4, <2>5 DEF Covered
    <2> QED BY <1>2, <2>1, <2>2, <2>6, <2>7, <2>8 DEF Fits
  <1>6. CASE StartCommit(c) /\ ~Return(c)
    <2> PICK found : found = {[m EXCEPT !.rid = entity[m.id]] : m \in call[c].members}
      OBVIOUS
    <2> PICK order : order = LockOrder(found)
      OBVIOUS
    <2> PICK new : new = [x EXCEPT !.at = "check", !.members = found, !.tolock = order]
      OBVIOUS
    <2>1. /\ call' = [call EXCEPT ![c] = new] /\ lock' = lock /\ x.op = "commit"
          /\ \A m \in x.members : entity[m.id] # None
      BY <1>6 DEF StartCommit, Becomes, locks
    <2>2. /\ new.op = x.op /\ new.members = found /\ new.at = "check" /\ new.todo = x.todo
          /\ new.tolock = order /\ new.arc = x.arc /\ new.want = x.want /\ new.held = x.held
      BY ONLY <1>a, new = [x EXCEPT !.at = "check", !.members = found, !.tolock = order]
    <2>3. ASSUME NEW n \in found
          PROVE  \E m \in x.members : /\ n.id = m.id /\ n.becomes = m.becomes
                                      /\ n.rid = entity[m.id]
                                      /\ Member("commit", n)
                                      /\ n = [m EXCEPT !.rid = entity[m.id]]
      <3>1. PICK m \in x.members : n = [m EXCEPT !.rid = entity[m.id]]
        OBVIOUS
      <3>2. m = [id |-> m.id, rid |-> m.rid, becomes |-> m.becomes] /\ Member("commit", m)
        BY <1>c, <2>1 DEF Named, Member, Writes
      <3> PICK r : r = entity[m.id]
        OBVIOUS
      <3>3. n.id = m.id /\ n.rid = r /\ n.becomes = m.becomes
            /\ n = [id |-> n.id, rid |-> n.rid, becomes |-> n.becomes]
        BY ONLY <3>1, <3>2, r = entity[m.id]
      <3>4. r \in OrNone
        BY <1>0, <3>2 DEF Member, Indexes
      <3>5. Member("commit", n)
        BY <3>2, <3>3, <3>4 DEF Member
      <3> QED BY <3>1, <3>3, <3>5
    <2>4. IsFiniteSet(found)
      <3> DEFINE f == [m \in x.members |-> [m EXCEPT !.rid = entity[m.id]]]
      <3>1. f \in Surjection(x.members, found)
        BY DEF Surjection
      <3> QED BY <1>a, <3>1, FS_Surjection
    <2>5. IsSeq(order) /\ \A m \in found : m.rid \in Range(order)
      <3> PICK rids : rids = {m.rid : m \in found}
        OBVIOUS
      <3>1. IsFiniteSet(rids)
        BY <2>4, FewResources
      <3>2. rids \subseteq Nat
        BY <2>3, TopologyAssumption DEF Member, OrNone, None
      <3>3. IsSeq(Ascending(rids)) /\ rids \subseteq Range(Ascending(rids))
        BY <3>1, <3>2, AscendingCovers
      <3> QED BY <3>3 DEF LockOrder
    <2>6. Staged(new)
      BY <1>d, <2>1, <2>2, <2>5 DEF Staged, Writes
    <2>7. Named(new)
      <3>1. Distinct("commit", found)
        <4>1. ASSUME NEW m \in found, NEW n \in found, m.id = n.id \/ m.becomes = n.becomes
              PROVE  m = n
          <5>1. PICK p \in x.members : /\ m.id = p.id /\ m.becomes = p.becomes
                                       /\ m = [p EXCEPT !.rid = entity[p.id]]
            BY <2>3
          <5>2. PICK q \in x.members : /\ n.id = q.id /\ n.becomes = q.becomes
                                       /\ n = [q EXCEPT !.rid = entity[q.id]]
            BY <2>3
          <5>3. p = q
            BY <1>c, <2>1, <4>1, <5>1, <5>2 DEF Named, Distinct, Writes
          <5> QED BY <5>1, <5>2, <5>3
        <4> QED BY <4>1 DEF Distinct
      <3> QED BY <2>1, <2>2, <2>3, <3>1 DEF Named
    <2>8. Covered(new)
      BY <1>d, <2>2, <2>5 DEF Covered
    <2> QED BY <1>2, <2>1, <2>2, <2>6, <2>7, <2>8 DEF Fits
  <1>7. CASE StartRead(c) /\ ~Return(c)
    <2> PICK a, todo : /\ a = resources[call[c].rid]
                       /\ todo = Append(Ancestors(call[c].rid), call[c].rid)
      OBVIOUS
    <2> PICK new : new = [x EXCEPT !.at = "done", !.arc = a, !.todo = todo]
      OBVIOUS
    <2>1. call' = [call EXCEPT ![c] = new] /\ lock' = lock /\ x.op = "read"
      BY <1>7 DEF StartRead, Becomes, locks
    <2>2. /\ new.op = x.op /\ new.at = "done" /\ new.tolock = x.tolock /\ new.held = x.held
      BY ONLY <1>a, new = [x EXCEPT !.at = "done", !.arc = a, !.todo = todo]
    <2>3. Fits(new)
      BY <1>c, <1>d, <2>1, <2>2 DEF Fits, Staged, Named, Covered, Writes
    <2> QED BY <1>2, <2>1, <2>2, <2>3
  <1> QED BY <1>1, <1>3, <1>4, <1>5, <1>6, <1>7

\* What lists hold.
LEMMA ListParts ==
    ASSUME NEW s, IsSeq(s)
    PROVE  /\ \A x : Range(Append(s, x)) = Range(s) \cup {x}
           /\ s # <<>> => \A r \in Range(s) : r = Head(s) \/ r \in Range(Tail(s))
  <1>1. /\ Len(s) \in Nat /\ DOMAIN s = 1 .. Len(s) /\ s = [n \in 1 .. Len(s) |-> s[n]]
        /\ \A x : Append(s, x) = [n \in 1 .. Len(s) + 1 |-> IF n = Len(s) + 1 THEN x ELSE s[n]]
    BY Sequences
  <1>2. Range(s) = {s[n] : n \in DOMAIN s}
    BY Zenon DEF Range
  <1>3. ASSUME NEW x PROVE Range(Append(s, x)) = Range(s) \cup {x}
    <2> PICK t, m : t = Append(s, x) /\ m = Len(s)
      OBVIOUS
    <2>1. Range(t) = {t[n] : n \in DOMAIN t}
      BY Zenon DEF Range
    <2>2. t = [n \in 1 .. m + 1 |-> IF n = m + 1 THEN x ELSE s[n]] /\ m \in Nat /\ DOMAIN s = 1 .. m
      BY <1>1
    <2>3. Range(t) = {s[n] : n \in DOMAIN s} \cup {x}
      <3>1. DOMAIN t = 1 .. m + 1 /\ t[m + 1] = x /\ \A n \in 1 .. m : t[n] = s[n]
        BY ONLY <2>2
      <3>2. \A n \in 1 .. m + 1 : n = m + 1 \/ n \in 1 .. m
        BY ONLY <2>2
      <3>3. m + 1 \in 1 .. m + 1 /\ \A n \in 1 .. m : n \in 1 .. m + 1
        BY ONLY <2>2
      <3> QED BY <2>1, <2>2, <3>1, <3>2, <3>3
    <2> QED BY <1>2, <2>3
  <1>4. ASSUME s # <<>>, NEW r \in Range(s) PROVE r = Head(s) \/ r \in Range(Tail(s))
    <2> PICK t, m : t = Tail(s) /\ m = Len(s)
      OBVIOUS
    <2>1. PICK n \in 1 .. m : r = s[n]
      BY <1>1, <1>2
    <2>2. Range(t) = {t[k] : k \in DOMAIN t}
      BY Zenon DEF Range
    <2>3. PICK X : s \in Seq(X)
      BY DEF IsSeq
    <2>4. Head(s) = s[1] /\ DOMAIN t = 1 .. m - 1 /\ \A k \in 1 .. m - 1 : t[k] = s[k + 1]
      BY ONLY <2>3, <1>4, t = Tail(s), m = Len(s)
    <2>5. m \in Nat
      BY <1>1
    <2>6. CASE n = 1
      BY <2>1, <2>4, <2>6
    <2>7. CASE n # 1
      <3>1. n - 1 \in 1 .. m - 1 /\ (n - 1) + 1 = n
        BY ONLY <2>5, <2>7, n \in 1 .. m
      <3>2. t[n - 1] = s[n]
        BY <2>4, <3>1
      <3> QED BY <2>1, <2>2, <2>4, <3>1, <3>2
    <2> QED BY <2>6, <2>7
  <1> QED BY <1>3, <1>4

\* The way to a resource's guard, to read or to write.
LEMMA GuardsOnTheWay ==
    ASSUME GuardInv, TypeInv', NEW c \in Callers,
           Visit(c) \/ Visited(c) \/ Lock(c) \/ Locked(c)
    PROVE  GuardInv'
  <1>0. /\ CallsOK /\ StoreOK /\ IdsOK /\ FitOK /\ ReadersOK /\ OwnersOK /\ GuardsOK /\ HeldOK
    BY DEF GuardInv, TypeInv, TreeInv, LocksOK
  <1> PICK x : x = call[c]
    OBVIOUS
  <1>a. x = [op |-> x.op, rid |-> x.rid, parent |-> x.parent, members |-> x.members,
             at |-> x.at, todo |-> x.todo, tolock |-> x.tolock, arc |-> x.arc,
             want |-> x.want, held |-> x.held]
    BY <1>0, Fields
  <1>b. arcs' = arcs /\ SameIds
    BY DEF Visit, Visited, Lock, Locked, store, SameIds
  <1>c. Staged(x) /\ Named(x) /\ Covered(x) /\ PointsAt(x)
    BY <1>0 DEF FitOK, Fits, HeldOK
  <1>1. ASSUME Return(c) PROVE GuardInv'
    BY <1>1, <1>b, GuardsReturned
  <1>2. CASE Visit(c) /\ ~Return(c)
    <2> PICK a : a = NextToRead(c)
      OBVIOUS
    <2> PICK new : new = [x EXCEPT !.want = a]
      OBVIOUS
    <2>1. /\ call' = [call EXCEPT ![c] = new] /\ Ask(a, c, "read")
          /\ x.todo # <<>> /\ x.want = None
      BY <1>2 DEF Visit, Becomes
    <2>2. /\ new.op = x.op /\ new.members = x.members /\ new.at = x.at /\ new.todo = x.todo
          /\ new.tolock = x.tolock /\ new.arc = x.arc /\ new.want = a /\ new.held = x.held
      BY ONLY <1>a, new = [x EXCEPT !.want = a]
    <2>3. Staged(new)
      BY <1>c, <2>1, <2>2 DEF Staged, Begun, Ready
    <2>4. Named(new)
      BY <1>c, <2>2 DEF Named
    <2>5. Covered(new)
      BY <1>c, <2>1, <2>2 DEF Covered
    <2>6. Reads(new)
      BY <2>1, <2>2 DEF Reads
    <2>7. Fits(new)
      BY <2>3, <2>4, <2>5 DEF Fits
    <2> QED BY <1>b, <2>1, <2>2, <2>6, <2>7, GuardsMoved
  <1>3. CASE Visited(c)
    <2> PICK rest : rest = Tail(call[c].todo)
      OBVIOUS
    <2> PICK new : new = [x EXCEPT !.todo = rest, !.want = None]
      OBVIOUS
    <2>1. /\ call' = [call EXCEPT ![c] = new] /\ lock' = Without(c) /\ x.todo # <<>>
      <3>1. [x EXCEPT !.todo = Tail(@), !.want = None] = new
        BY ONLY <1>a, x = call[c], rest = Tail(call[c].todo),
                new = [x EXCEPT !.todo = rest, !.want = None]
      <3> QED BY <1>3, <3>1 DEF Visited, Becomes
    <2>2. /\ new.op = x.op /\ new.members = x.members /\ new.at = x.at /\ new.todo = rest
          /\ new.tolock = x.tolock /\ new.arc = x.arc /\ new.want = None /\ new.held = x.held
      BY ONLY <1>a, new = [x EXCEPT !.todo = rest, !.want = None]
    <2>a. x.held = <<>> /\ x.at # "start" /\ ~(x.op \in Writes /\ x.at \in {"append", "apply"})
      BY <1>c, <2>1 DEF Staged, Begun, Ready
    <2>3. Staged(new)
      BY <1>c, <2>a, <2>2 DEF Staged
    <2>4. Named(new)
      BY <1>c, <2>2 DEF Named
    <2>5. Covered(new)
      BY <1>c, <2>1, <2>2 DEF Covered
    <2>6. Fits(new)
      BY <2>3, <2>4, <2>5 DEF Fits
    <2> PICK at, mode : at = 0 /\ mode = "read"
      OBVIOUS
    <2> QED BY <1>b, <2>1, <2>2, <2>a, <2>6, GuardsMoved
  <1>4. CASE Lock(c) /\ ~Return(c)
    <2> PICK a : a = IF call[c].arc # None THEN call[c].arc
                     ELSE get_resource(Head(call[c].tolock))
      OBVIOUS
    <2> PICK new : new = [x EXCEPT !.want = a]
      OBVIOUS
    <2>1. /\ call' = [call EXCEPT ![c] = new] /\ Ask(a, c, "write") /\ a # None
          /\ x.todo = <<>> /\ x.want = None /\ x.tolock # <<>>
      BY <1>4 DEF Lock, Becomes
    <2>2. /\ new.op = x.op /\ new.members = x.members /\ new.at = x.at /\ new.todo = x.todo
          /\ new.tolock = x.tolock /\ new.arc = x.arc /\ new.want = a /\ new.held = x.held
      BY ONLY <1>a, new = [x EXCEPT !.want = a]
    <2>a. x.op \in Writes /\ x.at = "check"
      BY <1>c, <2>1 DEF Staged, Begun, Ready
    <2>3. Staged(new)
      BY <1>c, <2>a, <2>2 DEF Staged
    <2>4. Named(new)
      BY <1>c, <2>2 DEF Named
    <2>b. arcs[a].id = Head(x.tolock)
      <3>1. CASE x.arc # None
        <4>1. x.tolock = <<arcs[x.arc].id>> /\ a = x.arc
          BY <1>c, <2>1, <2>a, <3>1 DEF Covered
        <4> PICK id : id = arcs[x.arc].id
          OBVIOUS
        <4>2. Head(<<id>>) = id
          OBVIOUS
        <4> QED BY <4>1, <4>2
      <3>2. CASE x.arc = None
        <4>1. a = get_resource(Head(x.tolock))
          BY <3>2
        <4> QED BY <1>0, <2>1, <4>1 DEF get_resource, IdsOK
      <3> QED BY <3>1, <3>2
    <2>5. Covered(new)
      BY <1>c, <2>1, <2>2, <2>b DEF Covered
    <2>6. ~Reads(x)
      BY <2>1, <2>a DEF Reads, Writes
    <2>7. Fits(new)
      BY <2>3, <2>4, <2>5 DEF Fits
    <2> PICK mode : mode = "write"
      OBVIOUS
    <2>8. /\ Ask(a, c, mode) /\ (Reads(call[c]) \/ mode = "read" => Reads(new))
          /\ new.held = call[c].held /\ arcs' = arcs
      BY <1>b, <2>1, <2>2, <2>6
    <2>9. GuardInv /\ TypeInv'
      OBVIOUS
    <2> QED BY ONLY c \in Callers, <2>1, <2>7, <2>8, <2>9, GuardsMoved
  <1>5. CASE Locked(c)
    <2> PICK rest, held, a : /\ a = call[c].want /\ rest = Tail(call[c].tolock)
                             /\ held = Append(call[c].held, a)
      OBVIOUS
    <2> PICK new : new = [x EXCEPT !.tolock = rest, !.want = None, !.held = held]
      OBVIOUS
    <2>1. /\ call' = [call EXCEPT ![c] = new] /\ lock' = lock /\ x.todo = <<>>
          /\ x.tolock # <<>> /\ x.want = a /\ a # None /\ Granted(a, c)
      <3>1. [x EXCEPT !.tolock = Tail(@), !.want = None, !.held = Append(@, call[c].want)] = new
        BY ONLY <1>a, x = call[c], rest = Tail(call[c].tolock), a = call[c].want,
                held = Append(call[c].held, a),
                new = [x EXCEPT !.tolock = rest, !.want = None, !.held = held]
      <3> QED BY <1>5, <3>1 DEF Locked, Becomes, locks
    <2>2. /\ new.op = x.op /\ new.members = x.members /\ new.at = x.at /\ new.todo = x.todo
          /\ new.tolock = rest /\ new.arc = x.arc /\ new.want = None /\ new.held = held
      BY ONLY <1>a, new = [x EXCEPT !.tolock = rest, !.want = None, !.held = held]
    <2>a. x.op \in Writes /\ x.at = "check" /\ IsSeq(x.tolock)
      BY <1>c, <2>1 DEF Staged, Begun, Ready
    <2>b. IsSeq(x.held)
      BY <1>c DEF PointsAt, IsSeq
    <2>c. /\ IsSeq(rest) /\ Range(held) = Range(x.held) \cup {a}
          /\ \A r \in Range(x.tolock) : r = Head(x.tolock) \/ r \in Range(rest)
      BY <2>1, <2>a, <2>b, ListParts, Sequences
    <2>3. Staged(new)
      BY <1>c, <2>a, <2>2, <2>1, <2>c DEF Staged
    <2>4. Named(new)
      BY <1>c, <2>2 DEF Named
    <2>d. arcs[a].id = Head(x.tolock)
      BY <1>c, <2>a, <2>1 DEF Covered
    <2>5. Covered(new)
      <3>1. ASSUME NEW m \in x.members
            PROVE  m.rid \in Range(rest) \/ \E b \in Range(held) : arcs[b].id = m.rid
        <4>1. m.rid \in Range(x.tolock) \/ \E b \in Range(x.held) : arcs[b].id = m.rid
          BY <1>c, <2>a DEF Covered
        <4> QED BY <2>c, <2>d, <4>1
      <3>2. x.arc # None => rest = <<>>
        <4>1. ASSUME x.arc # None PROVE rest = <<>>
          <5> PICK id : id = arcs[x.arc].id
            OBVIOUS
          <5>1. x.tolock = <<id>>
            BY <1>c, <2>1, <2>a, <4>1 DEF Covered
          <5>2. Tail(<<id>>) = <<>>
            OBVIOUS
          <5> QED BY <5>1, <5>2
        <4> QED BY <4>1
      <3> QED BY <2>2, <3>1, <3>2 DEF Covered
    <2>6. ~Reads(x)
      BY <2>1, <2>a DEF Reads, Writes
    <2>7. Fits(new)
      BY <2>3, <2>4, <2>5 DEF Fits
    <2>8. Owns(c, a)
      <3>1. a \in DOMAIN lock
        <4>1. IsSeq(arcs) /\ IsSeq(lock) /\ Len(lock) = Len(arcs)
          BY <1>0 DEF StoreOK, GuardsOK
        <4>2. DOMAIN lock = DOMAIN arcs
          BY <4>1, Sequences
        <4> QED BY <1>c, <2>1, <4>2 DEF PointsAt, States
      <3>2. PICK n \in DOMAIN lock[a] :
              /\ lock[a][n].caller = c
              /\ \A k \in 1 .. n - 1 : lock[a][k].mode = "read" /\ lock[a][n].mode = "read"
        BY <2>1 DEF Granted
      <3>3. lock[a][n].mode # "read"
        BY <1>0, <2>6, <3>1, <3>2 DEF ReadersOK
      <3>4. n = 1
        <4>1. IsSeq(lock[a])
          BY <1>0, <3>1 DEF GuardsOK
        <4>2. n \in Nat /\ n >= 1
          BY <4>1, Sequences
        <4>3. ~ (1 \in 1 .. n - 1)
          BY <3>2, <3>3
        <4> QED BY ONLY <4>2, <4>3
      <3>5. lock[a] # <<>>
        <4>1. DOMAIN <<>> = {}
          OBVIOUS
        <4> QED BY <3>2, <4>1
      <3> QED BY <3>1, <3>2, <3>3, <3>4, <3>5 DEF Owns
    <2>9. PointsAt(new)
      <3>1. call'[c] = new
        BY <1>0, <2>1, OneCall
      <3>2. HeldOK'
        BY DEF TypeInv
      <3> QED BY <1>b, <3>1, <3>2 DEF HeldOK, PointsAt, States
    <2>10. \A b \in Range(new.held) : b \in HeldBy(c) \/ Owns(c, b)
      BY <2>2, <2>8, <2>c DEF HeldBy
    <2> PICK at, mode : at = 0 /\ mode = "write"
      OBVIOUS
    <2> QED BY <1>b, <2>1, <2>6, <2>7, <2>9, <2>10, Moves
  <1> QED BY <1>1, <1>2, <1>3, <1>4, <1>5

\* The work of a call, once it has its guards.
LEMMA GuardsAtWork ==
    ASSUME GuardInv, TypeInv', NEW c \in Callers,
           \/ ReadEnds(c) \/ Check(c) \/ QueueRecords(c) \/ AskTopology(c) \/ CheckCreate(c)
           \/ AppendShape(c) \/ CheckDelete(c) \/ Unmap(c) \/ RemoveResource(c)
    PROVE  GuardInv'
  <1>0. CallsOK /\ FitOK
    BY DEF GuardInv, TypeInv, TreeInv
  <1> PICK x : x = call[c]
    OBVIOUS
  <1>a. x = [op |-> x.op, rid |-> x.rid, parent |-> x.parent, members |-> x.members,
             at |-> x.at, todo |-> x.todo, tolock |-> x.tolock, arc |-> x.arc,
             want |-> x.want, held |-> x.held]
    BY <1>0, Fields
  <1>b. arcs' = arcs /\ SameIds
    BY DEF ReadEnds, Check, QueueRecords, AskTopology, CheckCreate, AppendShape, CheckDelete,
           Unmap, RemoveResource, store, SameIds
  <1>c. Staged(x) /\ Named(x) /\ Covered(x)
    BY <1>0 DEF FitOK, Fits
  <1>1. ASSUME Return(c) PROVE GuardInv'
    BY <1>1, <1>b, GuardsReturned
  <1>2. ASSUME NEW at, x.op \in Writes, at \in {"append", "apply"}, x.at # "start", Ready(x),
               call' = [call EXCEPT ![c].at = at], lock' = lock
        PROVE  GuardInv'
    <2> PICK new : new = [x EXCEPT !.at = at]
      OBVIOUS
    <2>1. call' = [call EXCEPT ![c] = new]
      <3> PICK f : f = call
        OBVIOUS
      <3>1. f = [b \in Callers |-> f[b]]
        BY <1>0 DEF CallsOK
      <3>2. [f EXCEPT ![c].at = at] = [f EXCEPT ![c] = [f[c] EXCEPT !.at = at]]
        OBVIOUS
      <3> QED BY <1>2, <3>2
    <2>2. /\ new.op = x.op /\ new.members = x.members /\ new.at = at /\ new.todo = x.todo
          /\ new.tolock = x.tolock /\ new.arc = x.arc /\ new.want = x.want /\ new.held = x.held
      BY ONLY <1>a, new = [x EXCEPT !.at = at]
    <2>3. Staged(new)
      BY <1>c, <1>2, <2>2 DEF Staged, Ready
    <2>4. Named(new)
      BY <1>c, <2>2 DEF Named
    <2>5. Covered(new)
      BY <1>c, <1>2, <2>2 DEF Covered
    <2>6. ~Reads(x)
      BY <1>2 DEF Reads, Ready, Writes
    <2>7. Fits(new)
      BY <2>3, <2>4, <2>5 DEF Fits
    <2> PICK arc, mode : arc = 0 /\ mode = "write"
      OBVIOUS
    <2>8. /\ lock' = lock /\ (Reads(call[c]) => Reads(new))
          /\ new.held = call[c].held /\ arcs' = arcs
      BY <1>2, <1>b, <2>2, <2>6
    <2>9. GuardInv /\ TypeInv'
      OBVIOUS
    <2> QED BY ONLY c \in Callers, <2>1, <2>7, <2>8, <2>9, GuardsMoved
  <1>3. CASE Check(c) /\ ~Return(c)
    <2>1. /\ call' = [call EXCEPT ![c] = [call[c] EXCEPT !.at = "append"]] /\ lock' = lock
          /\ x.at = "check" /\ x.todo = <<>> /\ x.tolock = <<>> /\ x.want = None
      BY <1>3 DEF Check, Becomes, Holding, locks
    <2>2. x.op \in Writes
      <3>1. ~Shapes(c)
        BY <1>0, <2>1, Fields
      <3> QED BY <1>0, <2>1, <3>1, Fields
    <2> QED BY <1>2, <2>1, <2>2 DEF Ready
  <1>4. CASE QueueRecords(c)
    <2>1. /\ call' = [call EXCEPT ![c] = [call[c] EXCEPT !.at = "apply"]] /\ lock' = lock
          /\ x.at = "append" /\ x.todo = <<>> /\ x.tolock = <<>> /\ x.want = None /\ ~Shapes(c)
      BY <1>4 DEF QueueRecords, Becomes, Holding, locks
    <2>2. x.op \in Writes
      BY <1>0, <2>1, Fields
    <2> QED BY <1>2, <2>1, <2>2 DEF Ready
  <1>5. ASSUME NEW at, NEW new, x.op \in Reshaping, at # "start", new.at = at, new.op = x.op,
               new.tolock = x.tolock, new.held = x.held, new.todo = x.todo,
               call' = [call EXCEPT ![c] = new],
               \/ lock' = lock /\ (Reads(x) => Reads(new))
               \/ lock' = Without(c)
               \/ \E a : Ask(a, c, "read") /\ Reads(new)
        PROVE  GuardInv'
    <2>1. x.op \notin Writes /\ x.held = <<>>
      BY <1>c, <1>5 DEF Staged, Writes, Reshaping
    <2>2. Fits(new)
      BY <1>c, <1>5, <2>1 DEF Fits, Staged, Named, Covered
    <2> PICK mode : mode = "read"
      OBVIOUS
    <2>3. CASE \E a : Ask(a, c, "read") /\ Reads(new)
      <3> PICK a : Ask(a, c, "read") /\ Reads(new)
        BY <2>3
      <3> QED BY <1>5, <1>b, <2>2, GuardsMoved
    <2>4. CASE ~\E a : Ask(a, c, "read") /\ Reads(new)
      <3> PICK a : a = 0
        OBVIOUS
      <3>1. \/ lock' = lock /\ (Reads(x) => Reads(new))
            \/ lock' = Without(c) /\ new.held = <<>>
        BY <1>5, <2>1, <2>4
      <3> QED BY <1>5, <1>b, <2>2, <3>1, GuardsMoved
    <2> QED BY <2>3, <2>4
  <1>6. CASE AskTopology(c) \/ (CheckCreate(c) /\ ~Return(c)) \/ AppendShape(c)
    <2> PICK at : /\ at \in {"shape", "append", "drop"}
                  /\ call' = [call EXCEPT ![c] = [call[c] EXCEPT !.at = at]]
      BY <1>6 DEF AskTopology, CheckCreate, AppendShape, Becomes
    <2> PICK new : new = [x EXCEPT !.at = at]
      OBVIOUS
    <2>1. /\ new.op = x.op /\ new.at = at /\ new.todo = x.todo
          /\ new.tolock = x.tolock /\ new.held = x.held
      BY ONLY <1>a, new = [x EXCEPT !.at = at]
    <2>2. x.op \in Reshaping /\ lock' = lock /\ x.at # "unmap"
      BY <1>6 DEF AskTopology, CheckCreate, AppendShape, Shapes, Reshaping, locks
    <2>3. ~Reads(x)
      <3>1. x.todo = <<>>
        BY <1>0, <2>2, Fields DEF Shapes
      <3> QED BY <2>2, <3>1 DEF Reads
    <2>4. call' = [call EXCEPT ![c] = new]
      OBVIOUS
    <2>5. at # "start"
      OBVIOUS
    <2> QED BY <1>5, <2>1, <2>2, <2>3, <2>4, <2>5
  <1>7. CASE CheckDelete(c) /\ ~Return(c)
    <2> PICK a : a = resources[call[c].rid]
      OBVIOUS
    <2> PICK new : new = [x EXCEPT !.at = "unmap", !.arc = a]
      OBVIOUS
    <2>1. call' = [call EXCEPT ![c] = new] /\ Ask(a, c, "read") /\ x.op = "delete"
      BY <1>7 DEF CheckDelete, Becomes
    <2>2. /\ new.op = x.op /\ new.at = "unmap" /\ new.todo = x.todo
          /\ new.tolock = x.tolock /\ new.held = x.held
      BY ONLY <1>a, new = [x EXCEPT !.at = "unmap", !.arc = a]
    <2>3. Reads(new)
      BY <2>1, <2>2 DEF Reads
    <2>4. x.op \in Reshaping
      BY <2>1 DEF Reshaping
    <2> PICK at : at = "unmap"
      OBVIOUS
    <2>5. at # "start"
      OBVIOUS
    <2> QED BY <1>5, <2>1, <2>2, <2>3, <2>4, <2>5
  <1>8. CASE Unmap(c)
    <2> PICK new : new = [x EXCEPT !.at = "append"]
      OBVIOUS
    <2>1. call' = [call EXCEPT ![c] = new] /\ lock' = Without(c) /\ x.op = "delete"
      BY <1>8 DEF Unmap, Becomes
    <2>2. /\ new.op = x.op /\ new.at = "append" /\ new.todo = x.todo
          /\ new.tolock = x.tolock /\ new.held = x.held
      BY ONLY <1>a, new = [x EXCEPT !.at = "append"]
    <2>3. x.op \in Reshaping
      BY <2>1 DEF Reshaping
    <2> PICK at : at = "append"
      OBVIOUS
    <2>4. at # "start"
      OBVIOUS
    <2> QED BY <1>5, <2>1, <2>2, <2>3, <2>4
  <1> QED BY <1>1, <1>3, <1>4, <1>6, <1>7, <1>8 DEF ReadEnds, RemoveResource

\* A call applies its records, and returns.
LEMMA GuardsApplied ==
    ASSUME GuardInv, TypeInv', NEW c \in Callers, ApplyRecords(c)
    PROVE  GuardInv'
  <1>0. StoreOK
    BY DEF GuardInv, TypeInv, TreeInv
  <1> PICK recs, held : recs = Records(c) /\ held = Range(call[c].held)
    OBVIOUS
  <1> DEFINE Items2(a) == AllItemsAfter(a, recs)
  <1>1. arcs' = [a \in DOMAIN arcs |-> IF a \in held
                    THEN [arcs[a] EXCEPT !.items = Items2(a)] ELSE arcs[a]]
    BY DEF ApplyRecords
  <1> HIDE DEF Items2
  <1>2. ASSUME NEW a \in DOMAIN arcs PROVE arcs'[a].id = arcs[a].id
    <2> PICK old, items : old = arcs[a] /\ items = Items2(a)
      OBVIOUS
    <2>1. old = [id |-> old.id, parent |-> old.parent, items |-> old.items]
      BY <1>0 DEF StoreOK, ArcOK
    <2>2. arcs'[a] = old \/ arcs'[a] = [old EXCEPT !.items = items]
      BY <1>1
    <2> QED BY ONLY <2>1, <2>2, old = arcs[a]
  <1>3. SameIds
    BY <1>1, <1>2 DEF SameIds
  <1>4. Return(c)
    BY DEF ApplyRecords
  <1> QED BY <1>3, <1>4, GuardsReturned

\* A resource is made, with a line of its own.
LEMMA GuardsInserted ==
    ASSUME GuardInv, TypeInv', NEW c \in Callers, InsertResource(c)
    PROVE  GuardInv'
  <1>0. CallsOK /\ StoreOK /\ GuardsOK /\ HeldOK /\ FitOK /\ ReadersOK /\ OwnersOK
    BY DEF GuardInv, TypeInv, TreeInv, LocksOK
  <1> PICK made : made = [id |-> call[c].rid, parent |-> call[c].parent, items |-> {}]
    OBVIOUS
  <1>1. /\ arcs' = Append(arcs, made) /\ call' = [call EXCEPT ![c] = Idle]
        /\ lock' = Append(lock, <<>>) /\ call[c].op = "create"
    BY DEF InsertResource
  <1>2. SameIds
    <2> PICK old, now : old = arcs /\ now = arcs'
      OBVIOUS
    <2>1. /\ Len(old) \in Nat /\ DOMAIN old = 1 .. Len(old)
          /\ now = [n \in 1 .. Len(old) + 1 |-> IF n = Len(old) + 1 THEN made ELSE old[n]]
      BY <1>0, <1>1, Sequences DEF StoreOK
    <2>2. \A a \in DOMAIN old : a \in DOMAIN now /\ now[a] = old[a]
      BY ONLY <2>1
    <2> QED BY <2>2 DEF SameIds
  <1>3. FitOK'
    BY <1>0, <1>1, <1>2, IdleHolds, IdlePoints, FitKept
  <1>4. call'[c] = Idle /\ \A b \in Callers \ {c} : call'[b] = call[b]
    BY <1>0, <1>1, OneCall
  <1>5. /\ \A a \in DOMAIN lock : a \in DOMAIN lock' /\ lock'[a] = lock[a]
        /\ \A a \in DOMAIN lock' : a \in DOMAIN lock \/ lock'[a] = <<>>
    <2> PICK old, now : old = lock /\ now = lock'
      OBVIOUS
    <2>1. /\ Len(old) \in Nat /\ DOMAIN old = 1 .. Len(old)
          /\ now = [n \in 1 .. Len(old) + 1 |-> IF n = Len(old) + 1 THEN <<>> ELSE old[n]]
      BY <1>0, <1>1, Sequences DEF GuardsOK
    <2>2. /\ \A a \in DOMAIN old : a \in DOMAIN now /\ now[a] = old[a]
          /\ \A a \in DOMAIN now : a \in DOMAIN old \/ now[a] = <<>>
      BY ONLY <2>1
    <2> QED BY <2>2
  <1>6. ~Reads(call[c]) /\ HeldBy(c) = {}
    <2>1. call[c].todo = <<>> /\ Staged(call[c])
      BY <1>0, <1>1, Fields DEF Shapes, Reshaping, FitOK, Fits
    <2>2. call[c].held = <<>>
      BY <1>1, <2>1 DEF Staged, Writes
    <2> QED BY <1>1, <2>1, <2>2 DEF Reads, HeldBy, Range
  <1>7. ReadersOK'
    <2>1. ASSUME NEW a \in DOMAIN lock', NEW k \in DOMAIN lock'[a], lock'[a][k].mode = "read"
          PROVE  Reads(call'[lock'[a][k].caller])
      <3> PICK e : e = lock'[a][k]
        OBVIOUS
      <3>1. a \in DOMAIN lock
        <4>1. DOMAIN <<>> = {}
          OBVIOUS
        <4> QED BY <1>5, <4>1
      <3>2. Reads(call[e.caller]) /\ e.caller \in Callers
        BY <1>0, <1>5, <2>1, <3>1 DEF ReadersOK, GuardsOK, Guarding
      <3> QED BY <1>4, <1>6, <3>2
    <2> QED BY <2>1 DEF ReadersOK
  <1>8. OwnersOK'
    <2>1. ASSUME NEW b \in Callers, NEW a \in HeldBy(b)' PROVE Owns(b, a)'
      <3>1. CASE b = c
        <4>1. HeldBy(b)' = {}
          BY <1>4, <3>1 DEF HeldBy, Range, Idle
        <4> QED BY <2>1, <4>1
      <3>2. CASE b # c
        <4>1. a \in HeldBy(b)
          BY <1>4, <3>2, <2>1 DEF HeldBy
        <4>2. Owns(b, a)
          BY <1>0, <4>1 DEF OwnersOK
        <4> QED BY <1>5, <4>2 DEF Owns
      <3> QED BY <3>1, <3>2
    <2> QED BY <2>1 DEF OwnersOK
  <1> QED BY <1>3, <1>7, <1>8 DEF GuardInv

\* A caller calls.
LEMMA GuardsBegin ==
    ASSUME GuardInv, TypeInv', NEW c \in Callers, NEW new \in Operations, Begin(c, new)
    PROVE  GuardInv'
  <1>1. /\ call' = [call EXCEPT ![c] = new] /\ lock' = lock /\ arcs' = arcs /\ call[c] = Idle
    BY DEF Begin, Becomes, locks, store
  <1>2. /\ new = Call(new.op, new.rid, new.parent, new.members)
        /\ new.members \subseteq Members(new.op)
        /\ new.op \in {"add", "remove"} => \E m \in new.members : new.members = {m}
        /\ \A m, n \in new.members :
              m.id = n.id \/ (new.op = "commit" /\ m.becomes = n.becomes) => m = n
    BY OperationsAssumption
  <1>3. /\ new.at = "start" /\ new.todo = <<>> /\ new.tolock = <<>> /\ new.arc = None
        /\ new.want = None /\ new.held = <<>>
    BY ONLY <1>2 DEF Call, Idle
  <1>4. Staged(new)
    BY <1>3 DEF Staged, Begun, IsSeq
  <1>5. Named(new)
    <2>1. ASSUME new.op \in Writes, NEW m \in new.members PROVE Member(new.op, m)
      <3>1. CASE new.op = "commit"
        <4>1. m \in [id : Entities, rid : {None}, becomes : Entities]
          BY <1>2, <3>1 DEF Members
        <4> QED BY <3>1, <4>1 DEF Member, OrNone
      <3>2. CASE new.op # "commit"
        <4>1. m \in [id : Entities, rid : Resources \cup {None}]
          BY <1>2, <3>2 DEF Members
        <4> QED BY <3>2, <4>1 DEF Member, OrNone
      <3> QED BY <3>1, <3>2
    <2>2. Distinct(new.op, new.members)
      BY <1>2 DEF Distinct
    <2> QED BY <1>2, <2>1, <2>2 DEF Named
  <1>6. Covered(new)
    BY <1>3 DEF Covered
  <1>7. Fits(new)
    BY <1>4, <1>5, <1>6 DEF Fits
  <1>8. new.held = call[c].held /\ ~Reads(call[c])
    BY <1>1, <1>3, IdleHolds DEF Idle
  <1> PICK at, mode : at = 0 /\ mode = "write"
    OBVIOUS
  <1> QED BY <1>1, <1>7, <1>8, GuardsMoved

\* Every step keeps them.
LEMMA GuardsKeep ==
    ASSUME GuardInv, [Next]_vars
    PROVE  GuardInv'
  <1>0. TypeInv'
    BY TypeKept DEF GuardInv
  <1>1. ASSUME NEW c \in Callers, Step(c) PROVE GuardInv'
    BY <1>0, <1>1, GuardsStart, GuardsOnTheWay, GuardsAtWork, GuardsApplied, GuardsInserted
       DEF Step, Start, Shape
  <1>2. ASSUME NEW c \in Callers, NEW new \in Operations, Begin(c, new) PROVE GuardInv'
    BY <1>0, <1>2, GuardsBegin
  <1>3. CASE Restart
    <2>1. /\ \A c \in Callers : call'[c] = Idle
          /\ \A a \in DOMAIN lock' : lock'[a] = <<>>
      BY <1>3 DEF Restart
    <2>2. Staged(Idle) /\ Named(Idle) /\ Idle.op \notin Writes /\ Idle.held = <<>>
      BY IdleHolds DEF Fits, Idle, Writes
    <2>3. FitOK'
      BY <2>1, <2>2 DEF FitOK, Fits, Covered, Staged, Named
    <2>4. DOMAIN <<>> = {} /\ Range(<<>>) = {}
      BY DEF Range
    <2>5. ReadersOK' /\ OwnersOK'
      BY <2>1, <2>2, <2>4 DEF ReadersOK, OwnersOK, HeldBy
    <2> QED BY <1>0, <2>3, <2>5 DEF GuardInv
  <1>4. CASE UNCHANGED vars
    <2>1. call' = call /\ lock' = lock /\ arcs' = arcs
      BY <1>4 DEF vars, store, locks
    <2>2. FitOK'
      BY <2>1 DEF GuardInv, FitOK, Fits, Staged, Named, Covered
    <2>3. ReadersOK' /\ OwnersOK'
      BY <2>1 DEF GuardInv, ReadersOK, OwnersOK, HeldBy, Owns
    <2> QED BY <1>0, <2>2, <2>3 DEF GuardInv
  <1> QED BY <1>1, <1>2, <1>3, <1>4 DEF Next

\* At first nobody calls.
LEMMA InitGuards ==
    ASSUME Init
    PROVE  GuardInv
  <1>1. TypeInv
    BY InitTypes
  <1>2. /\ \A c \in Callers : call[c] = Idle
        /\ lock = <<>>
    BY DEF Init
  <1>3. DOMAIN <<>> = {} /\ Range(<<>>) = {}
    BY DEF Range
  <1>4. FitOK
    BY <1>2, IdleHolds DEF FitOK
  <1>5. ReadersOK /\ OwnersOK
    BY <1>2, <1>3 DEF ReadersOK, OwnersOK, HeldBy, Idle
  <1> QED BY <1>1, <1>4, <1>5 DEF GuardInv

\* The invariant always holds.
LEMMA Guards ==
    Spec => []GuardInv
  <1>1. Init => GuardInv
    BY InitGuards
  <1>2. GuardInv /\ [Next]_vars => GuardInv'
    BY GuardsKeep
  <1> QED BY <1>1, <1>2, PTL DEF Spec

-------------------------------------------------------------------------------
(* What the records of a call do.                                          *)

\* A call puts an entity on a resource, or takes it from there; so do its
\* records.
Puts(x, e, r) ==
    \/ x.op \in {"add", "batch"} /\ \E m \in x.members : m.id = e /\ m.rid = r
    \/ x.op = "commit" /\ \E m \in x.members : m.becomes = e /\ m.rid = r
Takes(x, e, r) == x.op \in {"remove", "commit"} /\ \E m \in x.members : m.id = e /\ m.rid = r
Places(rec, e, r) ==
    \/ rec.op = "added" /\ rec.id = e /\ rec.rid = r
    \/ rec.op = "committed" /\ \E m \in rec.moves : m.becomes = e /\ m.rid = r
Removes(rec, e, r) ==
    \/ rec.op = "removed" /\ rec.id = e /\ rec.rid = r
    \/ rec.op = "committed" /\ \E m \in rec.moves : m.id = e /\ m.rid = r

\* Records that say what a call does, each entity once.
Says(x, recs) ==
    /\ IsSeq(recs)
    /\ \A n \in 1 .. Len(recs) : OfEntity(recs[n])
    /\ \A e, r : /\ Puts(x, e, r) <=> \E n \in 1 .. Len(recs) : Places(recs[n], e, r)
                 /\ Takes(x, e, r) <=> \E n \in 1 .. Len(recs) : Removes(recs[n], e, r)
    /\ \A i, j \in 1 .. Len(recs) : \A e, q, r :
          /\ Places(recs[i], e, q) \/ Removes(recs[i], e, q)
          /\ Places(recs[j], e, r) \/ Removes(recs[j], e, r)
          => i = j
    /\ \A n \in 1 .. Len(recs) : \A e, q, r :
          Places(recs[n], e, q) /\ Places(recs[n], e, r) => q = r

\* What is written once, at most, stays.
Once(k, v, w, D) ==
    /\ D \subseteq 1 .. k /\ \A i, j \in D : i = j
    /\ \A n \in 1 .. k : v[n] = IF n \in D THEN w[n] ELSE v[n - 1]

\* So the end is what was written, or the beginning.
LEMMA OneWrites ==
    ASSUME NEW k \in Nat, NEW v, NEW w, NEW D, Once(k, v, w, D)
    PROVE  (D = {} => v[k] = v[0]) /\ \A n \in D : v[k] = w[n]
  <1>0. /\ D \subseteq 1 .. k /\ \A i, j \in D : i = j
        /\ \A n \in 1 .. k : v[n] = IF n \in D THEN w[n] ELSE v[n - 1]
    BY DEF Once
  <1>1. ASSUME D = {} PROVE v[k] = v[0]
    <2> DEFINE S == {i \in 0 .. k : v[i] # v[0]}
    <2>1. S = {}
      <3> SUFFICES ASSUME S # {} PROVE FALSE
        OBVIOUS
      <3>0. S \subseteq Nat
        OBVIOUS
      <3>1. PICK x \in S : \A y \in S : x <= y
        <4> HIDE DEF S
        <4> QED BY <3>0, FirstFailure
      <3>2. x \in 0 .. k /\ v[x] # v[0] /\ x # 0
        BY <3>1
      <3>3. x \in 1 .. k /\ x - 1 \in 0 .. k /\ ~ (x <= x - 1)
        BY ONLY <3>2, k \in Nat
      <3>4. x - 1 \notin S
        <4> HIDE DEF S
        <4> QED BY <3>1, <3>3
      <3>5. v[x] = v[x - 1]
        BY <1>0, <1>1, <3>3
      <3> QED BY <3>2, <3>3, <3>4, <3>5
    <2>2. k \in 0 .. k
      OBVIOUS
    <2> QED BY <2>1, <2>2
  <1>2. ASSUME NEW n \in D PROVE v[k] = w[n]
    <2> DEFINE S == {i \in n .. k : v[i] # w[n]}
    <2>0. n \in 1 .. k /\ n \in Nat
      BY <1>0
    <2>1. S = {}
      <3> SUFFICES ASSUME S # {} PROVE FALSE
        OBVIOUS
      <3>0. S \subseteq Nat
        BY <2>0
      <3>1. PICK x \in S : \A y \in S : x <= y
        <4> HIDE DEF S
        <4> QED BY <3>0, FirstFailure
      <3>2. x \in n .. k /\ v[x] # w[n]
        BY <3>1
      <3>3. x # n
        <4>1. v[n] = w[n]
          BY <1>0, <2>0
        <4> QED BY <3>2, <4>1
      <3>4. x \in 1 .. k /\ x - 1 \in n .. k /\ ~ (x <= x - 1)
        BY ONLY <2>0, <3>2, <3>3, k \in Nat
      <3>5. x - 1 \notin S
        <4> HIDE DEF S
        <4> QED BY <3>1, <3>4
      <3>6. x \notin D
        BY <1>0, <3>3
      <3>7. v[x] = v[x - 1]
        BY <1>0, <3>4, <3>6
      <3> QED BY <3>2, <3>4, <3>5, <3>7
    <2>2. k \in n .. k
      BY ONLY <2>0, k \in Nat
    <2> QED BY <2>1, <2>2
  <1> QED BY <1>1, <1>2

\* So do the records of a write.
LEMMA RecordsSay ==
    ASSUME CallsOK, NEW c \in Callers, call[c].op \in Writes, Named(call[c])
    PROVE  Says(call[c], Records(c))
  <1> PICK x, ms, recs : x = call[c] /\ ms = SetToSeq(call[c].members) /\ recs = Records(c)
    OBVIOUS
  <1>1. PICK k \in Nat : /\ ms \in [1 .. k -> x.members]
                         /\ \A m \in x.members : \E i \in 1 .. k : ms[i] = m
                         /\ \A i, j \in 1 .. k : ms[i] = ms[j] => i = j
    <2>1. IsFiniteSet(call[c].members)
      BY Fields
    <2> QED BY <2>1, Listed
  <1>2. DOMAIN ms = 1 .. k
    BY <1>1
  <1>3. IsSeq(recs) /\ \A n \in 1 .. Len(recs) : OfEntity(recs[n])
    BY RecordsAreOfEntities
  <1>4. DOMAIN recs = 1 .. Len(recs) /\ Len(recs) \in Nat
    BY <1>3, Sequences
  <1>5. ASSUME NEW op, x.op # "commit",
               \/ op = "added" /\ x.op \in {"add", "batch"}
               \/ op = "removed" /\ x.op = "remove",
               recs = [i \in DOMAIN ms |-> Record(op, ms[i].id, ms[i].rid, None, {})]
        PROVE  /\ \A e, r : /\ Puts(x, e, r) <=> \E n \in 1 .. Len(recs) : Places(recs[n], e, r)
                            /\ Takes(x, e, r) <=> \E n \in 1 .. Len(recs) : Removes(recs[n], e, r)
               /\ \A i, j \in 1 .. Len(recs) : \A e, q, r :
                     /\ Places(recs[i], e, q) \/ Removes(recs[i], e, q)
                     /\ Places(recs[j], e, r) \/ Removes(recs[j], e, r)
                     => i = j
               /\ \A n \in 1 .. Len(recs) : \A e, q, r :
                     Places(recs[n], e, q) /\ Places(recs[n], e, r) => q = r
    <2>1. Len(recs) = k
      <3>1. DOMAIN recs = 1 .. k
        BY <1>2, <1>5
      <3> PICK l : l = Len(recs)
        OBVIOUS
      <3>2. l \in Nat /\ 1 .. l = 1 .. k
        BY <1>4, <3>1
      <3> QED BY ONLY <3>2, k \in Nat, l = Len(recs)
    <2>2. \A n \in 1 .. k : /\ recs[n].op = op /\ recs[n].id = ms[n].id
                            /\ recs[n].rid = ms[n].rid
      BY <1>2, <1>5 DEF Record
    <2>3. \A n \in 1 .. k : \A e, r :
              /\ Places(recs[n], e, r) <=> op = "added" /\ ms[n].id = e /\ ms[n].rid = r
              /\ Removes(recs[n], e, r) <=> op = "removed" /\ ms[n].id = e /\ ms[n].rid = r
      BY <1>5, <2>2 DEF Places, Removes
    <2>4. \A n \in 1 .. k : ms[n] \in x.members
      BY <1>1
    <2>5. ASSUME NEW i \in 1 .. k, NEW j \in 1 .. k, ms[i].id = ms[j].id PROVE i = j
      <3>1. Distinct(x.op, x.members)
        BY DEF Named
      <3>2. \A m, n \in x.members : m.id = n.id => m = n
        BY ONLY <3>1 DEF Distinct
      <3>3. ms[i] = ms[j]
        BY <2>4, <2>5, <3>2
      <3> QED BY <1>1, <3>3
    <2>6. ASSUME NEW e, NEW r
          PROVE  /\ Puts(x, e, r) <=> \E n \in 1 .. k : Places(recs[n], e, r)
                 /\ Takes(x, e, r) <=> \E n \in 1 .. k : Removes(recs[n], e, r)
      <3>1. (\E m \in x.members : m.id = e /\ m.rid = r)
              <=> \E n \in 1 .. k : ms[n].id = e /\ ms[n].rid = r
        BY <1>1, <2>4
      <3> QED BY <1>5, <2>3, <3>1 DEF Puts, Takes
    <2>7. ASSUME NEW i \in 1 .. k, NEW j \in 1 .. k, NEW e, NEW q, NEW r,
                 Places(recs[i], e, q) \/ Removes(recs[i], e, q),
                 Places(recs[j], e, r) \/ Removes(recs[j], e, r)
          PROVE  i = j
      <3>1. ms[i].id = e
        BY ONLY <2>3, <2>7
      <3>2. ms[j].id = e
        BY ONLY <2>3, <2>7
      <3> QED BY <2>5, <3>1, <3>2
    <2>8. ASSUME NEW n \in 1 .. k, NEW e, NEW q, NEW r,
                 Places(recs[n], e, q), Places(recs[n], e, r)
          PROVE  q = r
      <3>1. ms[n].rid = q
        BY ONLY <2>3, <2>8
      <3>2. ms[n].rid = r
        BY ONLY <2>3, <2>8
      <3> QED BY ONLY <3>1, <3>2
    <2> QED BY <2>1, <2>6, <2>7, <2>8
  <1>6. CASE x.op \in {"add", "batch"}
    <2>1. recs = [i \in DOMAIN ms |-> Record("added", ms[i].id, ms[i].rid, None, {})]
      BY <1>6 DEF Records
    <2> QED BY <1>3, <1>5, <1>6, <2>1 DEF Says
  <1>7. CASE x.op = "remove"
    <2>1. recs = [i \in DOMAIN ms |-> Record("removed", ms[i].id, ms[i].rid, None, {})]
      BY <1>7 DEF Records
    <2> QED BY <1>3, <1>5, <1>7, <2>1 DEF Says
  <1>8. CASE x.op = "commit"
    <2> PICK rec : rec = Record("committed", None, None, None, x.members)
      OBVIOUS
    <2>1. recs = <<rec>>
      BY <1>8 DEF Records
    <2>2. Len(recs) = 1 /\ recs[1] = rec
      BY ONLY <2>1
    <2>3. rec.op = "committed" /\ rec.moves = x.members
      BY ONLY rec = Record("committed", None, None, None, x.members) DEF Record
    <2>4. \A n \in 1 .. 1 : n = 1
      OBVIOUS
    <2>5. 1 \in 1 .. 1
      OBVIOUS
    <2>6. \A e, r : /\ Places(rec, e, r) <=> Puts(x, e, r)
                    /\ Removes(rec, e, r) <=> Takes(x, e, r)
      BY <1>8, <2>3 DEF Places, Removes, Puts, Takes
    <2>7. ASSUME NEW e, NEW q, NEW r, Places(rec, e, q), Places(rec, e, r) PROVE q = r
      BY <1>8, <2>3, <2>7 DEF Places, Named, Distinct
    <2> QED BY <1>3, <2>2, <2>4, <2>5, <2>6, <2>7 DEF Says
  <1> QED BY <1>6, <1>7, <1>8 DEF Writes

\* One record, and what a resource holds.
LEMMA ItemsStep ==
    ASSUME NEW items, NEW rec, NEW r
    PROVE  \A e : e \in ItemsAfter(items, rec, r) <=>
                      Places(rec, e, r) \/ (e \in items /\ ~Removes(rec, e, r))
  <1>1. CASE rec.op = "added"
    BY <1>1 DEF ItemsAfter, Places, Removes
  <1>2. CASE rec.op = "removed"
    BY <1>2 DEF ItemsAfter, Places, Removes
  <1>3. CASE rec.op = "committed"
    <2> DEFINE own == {m \in rec.moves : m.rid = r}
    <2>1. ItemsAfter(items, rec, r) = (items \ {m.id : m \in own}) \cup {m.becomes : m \in own}
      BY <1>3 DEF ItemsAfter
    <2> QED BY <1>3, <2>1 DEF Places, Removes
  <1>4. CASE rec.op \notin {"added", "removed", "committed"}
    BY <1>4 DEF ItemsAfter, Places, Removes
  <1> QED BY <1>1, <1>2, <1>3, <1>4

\* One record, and the index.
LEMMA EntityStep ==
    ASSUME NEW index, NEW rec, NEW rids, NEW e \in Entities,
           \A q, r : Places(rec, e, q) /\ Places(rec, e, r) => q = r
    PROVE  /\ \A r \in rids : Places(rec, e, r) => IndexAfter(index, rec, rids)[e] = r
           /\ (\A r \in rids : ~Places(rec, e, r)) =>
                 IndexAfter(index, rec, rids)[e] =
                     IF \E r \in rids : Removes(rec, e, r) THEN None ELSE index[e]
  <1> PICK after : after = IndexAfter(index, rec, rids)[e]
    OBVIOUS
  <1>0. after =
            CASE rec.op = "added" /\ rec.id = e /\ rec.rid \in rids -> rec.rid
              [] rec.op = "removed" /\ rec.id = e /\ rec.rid \in rids -> None
              [] rec.op = "committed" /\ \E m \in rec.moves : m.rid \in rids /\ m.becomes = e ->
                    (CHOOSE m \in rec.moves : m.rid \in rids /\ m.becomes = e).rid
              [] /\ rec.op = "committed" /\ \E m \in rec.moves : m.rid \in rids /\ m.id = e
                 /\ \A m \in rec.moves : m.rid \in rids => m.becomes # e -> None
              [] OTHER -> index[e]
    BY DEF IndexAfter
  <1>1. CASE rec.op = "added"
    <2>1. after = IF rec.id = e /\ rec.rid \in rids THEN rec.rid ELSE index[e]
      BY <1>0, <1>1
    <2> QED BY <1>1, <2>1 DEF Places, Removes
  <1>2. CASE rec.op = "removed"
    <2>1. after = IF rec.id = e /\ rec.rid \in rids THEN None ELSE index[e]
      BY <1>0, <1>2
    <2> QED BY <1>2, <2>1 DEF Places, Removes
  <1>3. CASE rec.op = "committed"
    <2> DEFINE A == \E m \in rec.moves : m.rid \in rids /\ m.becomes = e
               B == \E m \in rec.moves : m.rid \in rids /\ m.id = e
               y == (CHOOSE m \in rec.moves : m.rid \in rids /\ m.becomes = e).rid
    <2>1. after = CASE rec.op = "added" /\ rec.id = e /\ rec.rid \in rids -> rec.rid
                    [] rec.op = "removed" /\ rec.id = e /\ rec.rid \in rids -> None
                    [] rec.op = "committed" /\ A -> y
                    [] rec.op = "committed" /\ B /\ ~A -> None
                    [] OTHER -> index[e]
      BY <1>0
    <2>2. A => y \in rids /\ Places(rec, e, y)
      <3>1. ASSUME A PROVE /\ y \in rids
                           /\ \E m \in rec.moves : m.becomes = e /\ m.rid = y
        BY <3>1, Zenon
      <3> HIDE DEF A, y
      <3> QED BY <1>3, <3>1 DEF Places
    <2>3. (\E r \in rids : Places(rec, e, r)) <=> A
      BY <1>3 DEF Places
    <2>4. (\E r \in rids : Removes(rec, e, r)) <=> B
      BY <1>3 DEF Removes
    <2> HIDE DEF A, B, y
    <2>5. after = IF A THEN y ELSE IF B THEN None ELSE index[e]
      <3>1. rec.op # "added" /\ rec.op # "removed"
        BY ONLY <1>3
      <3>2. CASE A
        BY ONLY <1>3, <2>1, <3>1, <3>2, Zenon
      <3>3. CASE ~A /\ B
        BY ONLY <1>3, <2>1, <3>1, <3>3, Zenon
      <3>4. CASE ~A /\ ~B
        BY ONLY <1>3, <2>1, <3>1, <3>4, Zenon
      <3> QED BY <3>2, <3>3, <3>4
    <2> QED BY <2>2, <2>3, <2>4, <2>5
  <1>4. CASE rec.op \notin {"added", "removed", "committed"}
    <2>1. after = index[e]
      BY <1>0, <1>4
    <2> QED BY <1>4, <2>1 DEF Places, Removes
  <1> QED BY <1>1, <1>2, <1>3, <1>4

ItemsRunOf(f, base, r, s, m) ==
    f = [n \in 0 .. m |-> IF n = 0 THEN base ELSE ItemsAfter(f[n - 1], s[n], r)]

\* Records can be applied to a resource one after the other.
LEMMA ItemsRunExists ==
    ASSUME NEW base, NEW r, NEW s, NEW m \in Nat
    PROVE  \E f : ItemsRunOf(f, base, r, s, m)
  <1> DEFINE S == {k \in Nat : ~\E f : ItemsRunOf(f, base, r, s, k)}
  <1> SUFFICES ASSUME S # {} PROVE FALSE
    OBVIOUS
  <1>1. PICK x \in S : \A y \in S : x <= y
    BY FirstFailure
  <1>2. CASE x = 0
    <2> DEFINE f == [n \in 0 .. 0 |-> base]
    <2>1. ItemsRunOf(f, base, r, s, 0)
      BY DEF ItemsRunOf
    <2> QED BY <1>1, <1>2, <2>1
  <1>3. CASE x # 0
    <2>1. x - 1 \in Nat /\ x \in Nat
      BY <1>3
    <2>2. x - 1 \notin S
      <3>1. ~ (x <= x - 1)
        BY <2>1
      <3> HIDE DEF S
      <3> QED BY <1>1, <3>1
    <2>3. PICK f : ItemsRunOf(f, base, r, s, x - 1)
      BY <2>1, <2>2
    <2> DEFINE g == [n \in 0 .. x |-> IF n = x THEN ItemsAfter(f[x - 1], s[x], r) ELSE f[n]]
    <2>a. \A n \in 0 .. x - 1 : f[n] =
                IF n = 0 THEN base ELSE ItemsAfter(f[n - 1], s[n], r)
      BY <2>3, Zenon DEF ItemsRunOf
    <2>4. ASSUME NEW n \in 0 .. x
          PROVE  g[n] = IF n = 0 THEN base ELSE ItemsAfter(g[n - 1], s[n], r)
      <3>1. CASE n = 0
        <4>1. n # x /\ n \in 0 .. x - 1
          BY <2>1, <1>3, <3>1
        <4> QED BY <2>a, <3>1, <4>1
      <3>2. CASE n # 0
        <4>1. n - 1 \in 0 .. x /\ n - 1 # x /\ n - 1 \in 0 .. x - 1
          BY <2>1, <3>2
        <4>2. g[n - 1] = f[n - 1]
          BY <4>1
        <4>3. CASE n = x
          BY <3>2, <4>2, <4>3
        <4>4. CASE n # x
          <5>1. n \in 0 .. x - 1
            BY <2>1, <4>4
          <5> QED BY <2>a, <3>2, <4>2, <4>4, <5>1
        <4> QED BY <4>3, <4>4
      <3> QED BY <3>1, <3>2
    <2>5. g = [n \in 0 .. x |-> IF n = 0 THEN base ELSE ItemsAfter(g[n - 1], s[n], r)]
      <3>1. g = [n \in 0 .. x |-> g[n]]
        OBVIOUS
      <3> HIDE DEF g
      <3> QED BY <2>4, <3>1
    <2> QED BY <2>5 DEF ItemsRunOf
  <1> QED BY <1>2, <1>3

\* What a resource holds at the end of a run that goes record by record.
LEMMA ItemsAtLast ==
    ASSUME NEW x, NEW recs, Says(x, recs), NEW r, NEW e, NEW F, NEW k \in Nat,
           k = Len(recs), \A n \in 1 .. k : F[n] = ItemsAfter(F[n - 1], recs[n], r)
    PROVE  e \in F[k] <=> Puts(x, e, r) \/ (e \in F[0] /\ ~Takes(x, e, r))
  <1> DEFINE D == {n \in 1 .. k : Places(recs[n], e, r) \/ Removes(recs[n], e, r)}
             v == [n \in 0 .. k |-> IF e \in F[n] THEN 1 ELSE 0]
             w == [n \in 1 .. k |-> IF Places(recs[n], e, r) THEN 1 ELSE 0]
  <1>0. k \in 0 .. k /\ 0 \in 0 .. k
    OBVIOUS
  <1>4. \A n \in 1 .. k : v[n] = IF n \in D THEN w[n] ELSE v[n - 1]
    <2> SUFFICES ASSUME NEW n \in 1 .. k PROVE v[n] = IF n \in D THEN w[n] ELSE v[n - 1]
      OBVIOUS
    <2>1. n \in 0 .. k /\ n - 1 \in 0 .. k
      BY <1>0
    <2>2. F[n] = ItemsAfter(F[n - 1], recs[n], r)
      OBVIOUS
    <2>3. e \in F[n] <=> Places(recs[n], e, r) \/ (e \in F[n - 1] /\ ~Removes(recs[n], e, r))
      BY <2>2, ItemsStep
    <2> QED BY <2>1, <2>3
  <1>5. \A i, j \in D : i = j
    BY DEF Says
  <1>6. D \subseteq 1 .. k
    OBVIOUS
  <1>7. (D = {} => v[k] = v[0]) /\ \A n \in D : v[k] = w[n]
    <2> HIDE DEF D, v, w
    <2>1. Once(k, v, w, D)
      BY ONLY <1>4, <1>5, <1>6 DEF Once
    <2> QED BY <2>1, OneWrites
  <1>8. (e \in F[k] <=> v[k] = 1) /\ (e \in F[0] <=> v[0] = 1)
    BY <1>0
  <1>9. /\ Puts(x, e, r) <=> \E n \in 1 .. k : Places(recs[n], e, r)
        /\ Takes(x, e, r) <=> \E n \in 1 .. k : Removes(recs[n], e, r)
    BY DEF Says
  <1>10. CASE D = {}
    BY <1>7, <1>8, <1>9, <1>10
  <1>11. CASE D # {}
    <2> PICK n \in D : TRUE
      BY <1>11
    <2>1. v[k] = w[n] /\ n \in 1 .. k
      BY <1>7
    <2>2. (\E i \in 1 .. k : Places(recs[i], e, r)) <=> Places(recs[n], e, r)
      BY <1>5
    <2>3. (\E i \in 1 .. k : Removes(recs[i], e, r)) <=> Removes(recs[n], e, r)
      BY <1>5
    <2>4. w[n] = 1 <=> Places(recs[n], e, r)
      BY <2>1
    <2>5. Places(recs[n], e, r) \/ Removes(recs[n], e, r)
      OBVIOUS
    <2> HIDE DEF D, v, w
    <2> QED BY <1>8, <1>9, <2>1, <2>2, <2>3, <2>4, <2>5
  <1> QED BY <1>10, <1>11

\* What a state holds once the records are applied.
LEMMA ItemsApplied ==
    ASSUME NEW x, NEW recs, Says(x, recs), NEW a
    PROVE  \A e : e \in AllItemsAfter(a, recs) <=>
                      \/ Puts(x, e, arcs[a].id)
                      \/ e \in arcs[a].items /\ ~Takes(x, e, arcs[a].id)
  <1> PICK k, base, r : k = Len(recs) /\ base = arcs[a].items /\ r = arcs[a].id
    OBVIOUS
  <1>0. k \in Nat /\ k \in 0 .. k /\ 0 \in 0 .. k
    BY Sequences DEF Says
  <1> DEFINE F == CHOOSE f : f = [n \in 0 .. Len(recs) |->
                        IF n = 0 THEN arcs[a].items
                        ELSE ItemsAfter(f[n - 1], recs[n], arcs[a].id)]
  <1>1. AllItemsAfter(a, recs) = F[k]
    BY Zenon DEF AllItemsAfter
  <1>2. F = [n \in 0 .. Len(recs) |-> IF n = 0 THEN arcs[a].items
                                      ELSE ItemsAfter(F[n - 1], recs[n], arcs[a].id)]
    <2>1. \E f : f = [n \in 0 .. Len(recs) |-> IF n = 0 THEN arcs[a].items
                                      ELSE ItemsAfter(f[n - 1], recs[n], arcs[a].id)]
      <3>1. \E f : ItemsRunOf(f, base, r, recs, k)
        BY <1>0, ItemsRunExists
      <3> QED BY <3>1, Zenon DEF ItemsRunOf
    <2> QED BY <2>1, Zenon
  <1> HIDE DEF F
  <1>3. \A n \in 0 .. k : F[n] = IF n = 0 THEN base ELSE ItemsAfter(F[n - 1], recs[n], r)
    BY <1>2, Zenon
  <1>4. \A n \in 1 .. k : F[n] = ItemsAfter(F[n - 1], recs[n], r)
    <2>1. \A n \in 1 .. k : n \in 0 .. k /\ n # 0
      BY <1>0
    <2> QED BY <1>3, <2>1
  <1>5. F[0] = base
    BY <1>0, <1>3
  <1>6. ASSUME NEW e PROVE e \in F[k] <=> Puts(x, e, r) \/ (e \in base /\ ~Takes(x, e, r))
    <2>1. k \in Nat /\ k = Len(recs) /\ Says(x, recs)
      BY <1>0
    <2>2. e \in F[k] <=> Puts(x, e, r) \/ (e \in F[0] /\ ~Takes(x, e, r))
      BY ONLY <1>4, <2>1, ItemsAtLast, Zenon
    <2> QED BY <1>5, <2>2
  <1> QED BY <1>1, <1>6

\* What the index has of an entity once the records are applied.
Indexed(x, e, rids, before, after) ==
    /\ \A r \in rids : Puts(x, e, r) => after = r
    /\ (\A r \in rids : ~Puts(x, e, r)) =>
           after = IF \E r \in rids : Takes(x, e, r) THEN None ELSE before

\* A run that goes record by record has it at its end.
LEMMA IndexedAtLast ==
    ASSUME NEW x, NEW recs, Says(x, recs), NEW rids, NEW e \in Entities, NEW F, NEW k \in Nat,
           k = Len(recs), \A n \in 1 .. k : F[n] = IndexAfter(F[n - 1], recs[n], rids)
    PROVE  Indexed(x, e, rids, F[0][e], F[k][e])
  <1> DEFINE D == {n \in 1 .. k : \E r \in rids : Places(recs[n], e, r) \/ Removes(recs[n], e, r)}
             v == [n \in 0 .. k |-> F[n][e]]
             w == [n \in 1 .. k |-> IF \E r \in rids : Places(recs[n], e, r)
                                    THEN CHOOSE r \in rids : Places(recs[n], e, r) ELSE None]
  <1>0. k \in 0 .. k /\ 0 \in 0 .. k
    OBVIOUS
  <1>a. ASSUME NEW n \in 1 .. k
        PROVE  /\ \A r \in rids : Places(recs[n], e, r) => w[n] = r
               /\ (\A r \in rids : ~Places(recs[n], e, r)) => w[n] = None
    <2>1. ASSUME NEW r \in rids, Places(recs[n], e, r) PROVE w[n] = r
      <3> PICK q : q = CHOOSE y \in rids : Places(recs[n], e, y)
        OBVIOUS
      <3>1. q \in rids /\ Places(recs[n], e, q)
        BY <2>1, Zenon
      <3>2. w[n] = q
        BY <2>1
      <3> QED BY <2>1, <3>1, <3>2 DEF Says
    <2> QED BY <2>1
  <1>4. ASSUME NEW n \in 1 .. k PROVE v[n] = IF n \in D THEN w[n] ELSE v[n - 1]
    <2>1. n \in 0 .. k /\ n - 1 \in 0 .. k
      BY <1>0
    <2> PICK rec, old, new : rec = recs[n] /\ old = F[n - 1] /\ new = F[n]
      OBVIOUS
    <2>2. new = IndexAfter(old, rec, rids)
      OBVIOUS
    <2>3. \A q, r : Places(rec, e, q) /\ Places(rec, e, r) => q = r
      BY DEF Says
    <2>4. /\ \A r \in rids : Places(rec, e, r) => new[e] = r
          /\ (\A r \in rids : ~Places(rec, e, r)) =>
                 new[e] = IF \E r \in rids : Removes(rec, e, r) THEN None ELSE old[e]
      BY <2>2, <2>3, EntityStep
    <2>5. v[n] = new[e] /\ v[n - 1] = old[e]
      BY <2>1
    <2>6. n \in D <=> \E r \in rids : Places(rec, e, r) \/ Removes(rec, e, r)
      OBVIOUS
    <2>7. /\ \A r \in rids : Places(rec, e, r) => w[n] = r
          /\ (\A r \in rids : ~Places(rec, e, r)) => w[n] = None
      BY <1>a
    <2> HIDE DEF D, v, w
    <2> QED BY <2>4, <2>5, <2>6, <2>7
  <1>5. ASSUME NEW i \in D, NEW j \in D PROVE i = j
    <2>1. PICK q : Places(recs[i], e, q) \/ Removes(recs[i], e, q)
      OBVIOUS
    <2>2. PICK r : Places(recs[j], e, r) \/ Removes(recs[j], e, r)
      OBVIOUS
    <2>3. i \in 1 .. Len(recs) /\ j \in 1 .. Len(recs)
      OBVIOUS
    <2> HIDE DEF D
    <2> QED BY <2>1, <2>2, <2>3 DEF Says
  <1>6. D \subseteq 1 .. k
    OBVIOUS
  <1>7. (D = {} => v[k] = v[0]) /\ \A n \in D : v[k] = w[n]
    <2> HIDE DEF D, v, w
    <2>1. Once(k, v, w, D)
      BY ONLY <1>4, <1>5, <1>6 DEF Once
    <2> QED BY <2>1, OneWrites
  <1>8. v[k] = F[k][e] /\ v[0] = F[0][e]
    BY <1>0
  <1>9. \A r : /\ Puts(x, e, r) <=> \E n \in 1 .. k : Places(recs[n], e, r)
               /\ Takes(x, e, r) <=> \E n \in 1 .. k : Removes(recs[n], e, r)
    BY DEF Says
  <1>10. CASE D = {}
    <2>1. \A r \in rids : ~Puts(x, e, r) /\ ~Takes(x, e, r)
      BY <1>9, <1>10
    <2> HIDE DEF D, v, w
    <2> QED BY <1>7, <1>8, <1>10, <2>1 DEF Indexed
  <1>11. CASE D # {}
    <2> PICK n \in D : TRUE
      BY <1>11
    <2>1. v[k] = w[n] /\ n \in 1 .. k
      BY <1>7
    <2>2. \A r \in rids : (\E i \in 1 .. k : Places(recs[i], e, r)) <=> Places(recs[n], e, r)
      BY <1>5
    <2>3. \A r \in rids : (\E i \in 1 .. k : Removes(recs[i], e, r)) <=> Removes(recs[n], e, r)
      BY <1>5
    <2>4. \E r \in rids : Places(recs[n], e, r) \/ Removes(recs[n], e, r)
      OBVIOUS
    <2>5. /\ \A r \in rids : Places(recs[n], e, r) => w[n] = r
          /\ (\A r \in rids : ~Places(recs[n], e, r)) => w[n] = None
      BY <1>a, <2>1
    <2> HIDE DEF D, v, w
    <2> QED BY <1>8, <1>9, <2>1, <2>2, <2>3, <2>4, <2>5 DEF Indexed
  <1> QED BY <1>10, <1>11

\* So has the index of memory.
LEMMA EntityApplied ==
    ASSUME NEW x, NEW recs, Says(x, recs), NEW rids, NEW e \in Entities
    PROVE  Indexed(x, e, rids, entity[e], WholeIndexAfter(rids, recs)[e])
  <1> PICK m, base : m = Len(recs) /\ base = entity
    OBVIOUS
  <1>1. m \in Nat /\ m \in 0 .. m /\ 0 \in 0 .. m
    BY Sequences DEF Says
  <1> DEFINE index == CHOOSE f : f = [n \in 0 .. Len(recs) |->
                        IF n = 0 THEN entity ELSE IndexAfter(f[n - 1], recs[n], rids)]
  <1>2. WholeIndexAfter(rids, recs) = index[m]
    BY Zenon DEF WholeIndexAfter
  <1>3. index = [n \in 0 .. Len(recs) |->
                        IF n = 0 THEN entity ELSE IndexAfter(index[n - 1], recs[n], rids)]
    <2>1. \E f : f = [n \in 0 .. Len(recs) |->
                        IF n = 0 THEN entity ELSE IndexAfter(f[n - 1], recs[n], rids)]
      <3>1. \E f : IndexRunOf(f, base, rids, recs, m)
        BY <1>1, IndexRunExists
      <3> QED BY <3>1, Zenon DEF IndexRunOf
    <2> QED BY <2>1, Zenon
  <1> HIDE DEF index
  <1>4. \A n \in 0 .. m : index[n] =
            IF n = 0 THEN base ELSE IndexAfter(index[n - 1], recs[n], rids)
    BY <1>3, Zenon
  <1>5. \A n \in 1 .. m : index[n] = IndexAfter(index[n - 1], recs[n], rids)
    <2>1. \A n \in 1 .. m : n \in 0 .. m /\ n # 0
      BY <1>1
    <2> QED BY <1>4, <2>1
  <1>6. index[0] = base
    BY <1>1, <1>4
  <1>7. Indexed(x, e, rids, index[0][e], index[m][e])
    BY <1>1, <1>5, IndexedAtLast
  <1> QED BY <1>2, <1>6, <1>7

\* Where replay applies records.
There(g) == {r \in Resources : g.states[r].there}

\* One record of an entity, replayed.
LEMMA ReplayedRecord ==
    ASSUME NEW g, Formed(g), NEW rec, OfEntity(rec), NEW h, h = ReplayOne(g, rec)
    PROVE  /\ Formed(h) /\ There(h) = There(g)
           /\ h.entity = IndexAfter(g.entity, rec, There(g))
           /\ \A r \in Resources :
                 h.states[r].items = IF r \in There(g) THEN ItemsAfter(g.states[r].items, rec, r)
                                     ELSE g.states[r].items
  <1> DEFINE there == {r \in Resources : g.states[r].there}
  <1>1. rec.op # "create" /\ rec.op # "delete"
    BY DEF OfEntity, Reshaping
  <1> PICK states, entities :
        /\ states = [r \in Resources |->
                        IF r \in there
                        THEN [g.states[r] EXCEPT !.items = ItemsAfter(@, rec, r)]
                        ELSE g.states[r]]
        /\ entities = IndexAfter(g.entity, rec, there)
    OBVIOUS
  <1>2. h = [states |-> states, children |-> g.children, entity |-> entities]
    BY <1>1, Zenon DEF ReplayOne
  <1>3. h.states = states /\ h.entity = entities
    BY ONLY <1>2
  <1>4. Formed(h) /\ SameTree(g, h)
    BY EntityRecord
  <1>5. There(h) = There(g) /\ there = There(g)
    BY <1>4 DEF SameTree, There
  <1>6. ASSUME NEW r \in Resources
        PROVE  h.states[r].items = IF r \in there THEN ItemsAfter(g.states[r].items, rec, r)
                                   ELSE g.states[r].items
    <2> HIDE DEF there
    <2> PICK old, items : old = g.states[r] /\ items = ItemsAfter(g.states[r].items, rec, r)
      OBVIOUS
    <2>1. old = [there |-> old.there, parent |-> old.parent, items |-> old.items]
      BY DEF Formed
    <2>2. states[r] = IF r \in there THEN [old EXCEPT !.items = items] ELSE old
      BY <2>1
    <2>3. states[r].items = IF r \in there THEN items ELSE old.items
      BY ONLY <2>1, <2>2
    <2> QED BY <1>3, <2>3
  <1> HIDE DEF there
  <1> QED BY <1>3, <1>4, <1>5, <1>6

\* The records of a call, replayed after those before them.
LEMMA ReplayedCall ==
    ASSUME NEW s, IsSeq(s), NEW x, NEW recs, Says(x, recs), NEW g, g = ReplayAll(s), Formed(g),
           NEW h, h = ReplayAll(s \o recs)
    PROVE  /\ IsSeq(s \o recs) /\ Formed(h) /\ There(h) = There(g)
           /\ \A r \in There(g) : \A e : e \in h.states[r].items <=>
                  Puts(x, e, r) \/ (e \in g.states[r].items /\ ~Takes(x, e, r))
           /\ \A r \in Resources \ There(g) : h.states[r].items = g.states[r].items
           /\ \A e \in Entities : Indexed(x, e, There(g), g.entity[e], h.entity[e])
  <1> PICK m, k, u, T : m = Len(s) /\ k = Len(recs) /\ u = s \o recs /\ T = There(g)
    OBVIOUS
  <1>0. IsSeq(recs) /\ \A n \in 1 .. k : OfEntity(recs[n])
    BY DEF Says
  <1>1. m \in Nat /\ k \in Nat /\ m + k \in Nat /\ m <= m + k /\ Len(u) = m + k /\ IsSeq(u)
    BY <1>0, Sequences, Concatenated
  <1>2. /\ \A n \in 1 .. m : s[n] = u[n]
        /\ \A n \in 1 .. k : u[m + n] = recs[n]
    BY <1>0, Concatenated
  <1>3. PICK f0 : RunOf(f0, s, m) /\ g = f0[m]
    BY ReplayEnds
  <1>4. PICK f : RunOf(f, u, m + k) /\ h = f[m + k]
    BY <1>1, ReplayEnds
  <1>5. f[m] = g
    BY ONLY <1>1, <1>2, <1>3, <1>4, RunsAgree
  <1> PICK F : F = [n \in 0 .. k |-> f[m + n]]
    OBVIOUS
  <1>6. F[0] = g /\ F[k] = h
    <2>1. 0 \in 0 .. k /\ k \in 0 .. k /\ m + 0 = m
      BY <1>1
    <2> QED BY <1>4, <1>5, <2>1
  <1>7. ASSUME NEW n \in 1 .. k PROVE F[n] = ReplayOne(F[n - 1], recs[n])
    <2>1. /\ m + n \in 0 .. m + k /\ m + n # 0 /\ (m + n) - 1 = m + (n - 1)
          /\ n \in 0 .. k /\ n - 1 \in 0 .. k
      BY <1>1
    <2>2. f[m + n] = IF m + n = 0 THEN Nothing ELSE ReplayOne(f[(m + n) - 1], u[m + n])
      BY ONLY <1>4, <2>1 DEF RunOf
    <2> QED BY <1>2, <2>1, <2>2
  <1> DEFINE S == {n \in 0 .. k : ~(Formed(F[n]) /\ There(F[n]) = T)}
  <1>8. S = {}
    <2> SUFFICES ASSUME S # {} PROVE FALSE
      OBVIOUS
    <2>0. S \subseteq Nat
      OBVIOUS
    <2>1. PICK y \in S : \A z \in S : y <= z
      <3> HIDE DEF S
      <3> QED BY <2>0, FirstFailure
    <2>2. y \in 0 .. k /\ y # 0 /\ ~(Formed(F[y]) /\ There(F[y]) = T)
      BY <1>6, <2>1
    <2>3. y \in 1 .. k /\ y - 1 \in 0 .. k /\ ~ (y <= y - 1)
      BY ONLY <2>2, <1>1
    <2>4. y - 1 \notin S
      <3> HIDE DEF S
      <3> QED BY <2>1, <2>3
    <2>5. Formed(F[y - 1]) /\ There(F[y - 1]) = T
      BY <2>3, <2>4
    <2>6. Formed(F[y]) /\ There(F[y]) = There(F[y - 1])
      <3> PICK old, rec, new : old = F[y - 1] /\ rec = recs[y] /\ new = F[y]
        OBVIOUS
      <3>1. Formed(old) /\ OfEntity(rec) /\ new = ReplayOne(old, rec)
        BY <1>0, <1>7, <2>3, <2>5
      <3>2. Formed(new) /\ There(new) = There(old)
        BY ONLY <3>1, ReplayedRecord
      <3> QED BY <3>2
    <2> QED BY <2>2, <2>5, <2>6
  <1>9. \A n \in 0 .. k : Formed(F[n]) /\ There(F[n]) = T
    BY <1>8
  <1> HIDE DEF S
  <1>10. ASSUME NEW n \in 1 .. k
         PROVE  /\ F[n].entity = IndexAfter(F[n - 1].entity, recs[n], T)
                /\ \A r \in Resources :
                      F[n].states[r].items =
                          IF r \in T THEN ItemsAfter(F[n - 1].states[r].items, recs[n], r)
                          ELSE F[n - 1].states[r].items
    <2>1. n - 1 \in 0 .. k
      BY <1>1
    <2>2. Formed(F[n - 1]) /\ There(F[n - 1]) = T
      BY <1>9, <2>1
    <2>0. PICK old, rec, new : old = F[n - 1] /\ rec = recs[n] /\ new = F[n]
      OBVIOUS
    <2>3. Formed(old) /\ OfEntity(rec) /\ new = ReplayOne(old, rec) /\ There(old) = T
      BY <1>0, <1>7, <2>0, <2>2
    <2>4. /\ new.entity = IndexAfter(old.entity, rec, T)
          /\ \A r \in Resources :
                new.states[r].items = IF r \in T THEN ItemsAfter(old.states[r].items, rec, r)
                                      ELSE old.states[r].items
      BY ONLY <2>3, ReplayedRecord
    <2>5. ASSUME NEW r \in Resources
          PROVE  F[n].states[r].items =
                     IF r \in T THEN ItemsAfter(F[n - 1].states[r].items, recs[n], r)
                     ELSE F[n - 1].states[r].items
      BY ONLY <2>0, <2>4, <2>5, Zenon
    <2>6. F[n].entity = IndexAfter(F[n - 1].entity, recs[n], T)
      BY ONLY <2>0, <2>4, Zenon
    <2> QED BY ONLY <2>5, <2>6
  <1>11. ASSUME NEW r \in T, NEW e
         PROVE  e \in h.states[r].items <=>
                    Puts(x, e, r) \/ (e \in g.states[r].items /\ ~Takes(x, e, r))
    <2> PICK I : I = [n \in 0 .. k |-> F[n].states[r].items]
      OBVIOUS
    <2>0. r \in Resources
      BY DEF There
    <2>1. ASSUME NEW n \in 1 .. k PROVE I[n] = ItemsAfter(I[n - 1], recs[n], r)
      <3>1. n \in 0 .. k /\ n - 1 \in 0 .. k
        BY <1>1
      <3> QED BY <1>10, <2>0, <3>1
    <2>2. e \in I[k] <=> Puts(x, e, r) \/ (e \in I[0] /\ ~Takes(x, e, r))
      <3>1. k \in Nat /\ k = Len(recs) /\ Says(x, recs)
        BY <1>1
      <3> QED BY ONLY <2>1, <3>1, ItemsAtLast, Zenon
    <2>3. 0 \in 0 .. k /\ k \in 0 .. k
      BY <1>1
    <2> QED BY <1>6, <2>2, <2>3
  <1>12. ASSUME NEW r \in Resources \ T PROVE h.states[r].items = g.states[r].items
    <2> PICK I : I = [n \in 0 .. k |-> F[n].states[r].items]
      OBVIOUS
    <2>1. ASSUME NEW n \in 1 .. k PROVE I[n] = I[n - 1]
      <3>1. n \in 0 .. k /\ n - 1 \in 0 .. k
        BY <1>1
      <3> QED BY <1>10, <3>1
    <2>2. I[k] = I[0]
      <3>0. PICK D : D = {}
        OBVIOUS
      <3>1. Once(k, I, I, D)
        BY ONLY <2>1, <3>0 DEF Once
      <3>2. k \in Nat
        BY <1>1
      <3>3. D = {} => I[k] = I[0]
        BY ONLY <3>1, <3>2, OneWrites, Zenon
      <3> QED BY <3>0, <3>3
    <2>3. 0 \in 0 .. k /\ k \in 0 .. k
      BY <1>1
    <2> QED BY <1>6, <2>2, <2>3
  <1>13. ASSUME NEW e \in Entities PROVE Indexed(x, e, T, g.entity[e], h.entity[e])
    <2> PICK I : I = [n \in 0 .. k |-> F[n].entity]
      OBVIOUS
    <2>1. ASSUME NEW n \in 1 .. k PROVE I[n] = IndexAfter(I[n - 1], recs[n], T)
      <3>1. n \in 0 .. k /\ n - 1 \in 0 .. k
        BY <1>1
      <3> QED BY <1>10, <3>1
    <2>2. Indexed(x, e, T, I[0][e], I[k][e])
      <3>1. k \in Nat /\ k = Len(recs) /\ Says(x, recs)
        BY <1>1
      <3> QED BY ONLY e \in Entities, <2>1, <3>1, IndexedAtLast, Zenon
    <2>3. 0 \in 0 .. k /\ k \in 0 .. k
      BY <1>1
    <2> QED BY <1>6, <2>2, <2>3
  <1>14. Formed(h) /\ There(h) = T
    <2>1. k \in 0 .. k
      BY <1>1
    <2> QED BY <1>6, <1>9, <2>1
  <1> QED BY <1>1, <1>11, <1>12, <1>13, <1>14

-------------------------------------------------------------------------------
(* What the log says of a resource, and what memory will have.             *)

\* A write that has made its checks; one whose records are in the log, and not
\* in memory yet; and one that has the states which the table leads to.
InFlight(c) == Writing(c) /\ call[c].at \in {"append", "apply"}
Pends(c) == Writing(c) /\ call[c].at = "apply"
Steady(c) == \A a \in HeldBy(c) : Current(a)

\* What memory has, and what it will have.
Has(e, r) == r \in Live /\ e \in Items(r)
Coming(e, r) == \E c \in Callers : Pends(c) /\ Puts(call[c], e, r)
Going(e, r) == \E c \in Callers : Pends(c) /\ Takes(call[c], e, r)
Will(e, r) == Coming(e, r) \/ (Has(e, r) /\ ~Going(e, r))

\* Records go to states that the table leads to, or what they touch is stale.
SteadyOK == \A c \in Callers : Pends(c) => Steady(c) \/ Touched(c) \subseteq stale

\* The log has what memory will have.
ItemsOK ==
    \A r \in Resources : (\A c \in Callers : ~Owed(c, "delete", r)) =>
        \A e : e \notin stale => (e \in ReplayAll(log).states[r].items <=> Will(e, r))
BareOK == \A r \in Resources \ There(ReplayAll(log)) : ReplayAll(log).states[r].items = {}

ItemsInv == GuardInv /\ SteadyOK /\ ItemsOK /\ BareOK

\* A state's write guard is held by one call.
LEMMA OneHolder ==
    ASSUME GuardInv, NEW b \in Callers, NEW c \in Callers, NEW a \in HeldBy(b), a \in HeldBy(c)
    PROVE  b = c
  BY DEF GuardInv, OwnersOK, Owns

\* While it is, no other call is given the state's guard, to read or to write.
LEMMA NoneBeside ==
    ASSUME GuardInv, NEW b \in Callers, NEW c \in Callers, NEW a \in HeldBy(b), Granted(a, c)
    PROVE  b = c
  <1>1. /\ a \in DOMAIN lock /\ lock[a][1].caller = b /\ lock[a][1].mode # "read"
        /\ IsSeq(lock[a])
    BY DEF GuardInv, OwnersOK, Owns, TypeInv, LocksOK, GuardsOK
  <1>2. PICK n \in DOMAIN lock[a] :
            /\ lock[a][n].caller = c
            /\ \A k \in 1 .. n - 1 : lock[a][k].mode = "read" /\ lock[a][n].mode = "read"
    BY DEF Granted
  <1>3. n \in Nat /\ n >= 1
    BY <1>1, Sequences
  <1>4. ~ (1 \in 1 .. n - 1)
    BY <1>1, <1>2
  <1>5. n = 1
    BY ONLY <1>3, <1>4
  <1> QED BY <1>1, <1>2, <1>5

\* Those who hold it are there, and have come to write.
LEMMA HoldersWrite ==
    ASSUME GuardInv, NEW c \in Callers, NEW a \in HeldBy(c)
    PROVE  /\ Writing(c) /\ a \in DOMAIN arcs /\ a # None /\ arcs[a].id \in Resources
           /\ call[c].at \in {"check", "append", "apply"}
  <1>1. call[c].held \in Seq(DOMAIN arcs) /\ IsSeq(arcs)
    BY DEF GuardInv, TypeInv, TreeInv, StoreOK, HeldOK, PointsAt
  <1>2. a \in DOMAIN arcs
    <2> PICK A, h : A = DOMAIN arcs /\ h = call[c].held
      OBVIOUS
    <2>1. h \in Seq(A) /\ a \in {h[n] : n \in DOMAIN h}
      BY <1>1, Zenon DEF HeldBy, Range
    <2> QED BY ONLY <2>1, A = DOMAIN arcs
  <1>3. a # None
    <2>1. DOMAIN arcs = 1 .. Len(arcs)
      BY <1>1, Sequences
    <2> QED BY <1>2, <2>1 DEF None
  <1>4. call[c].held # <<>>
    <2>1. Range(<<>>) = {}
      BY DEF Range
    <2> QED BY <2>1 DEF HeldBy
  <1>5. Writing(c) /\ call[c].at \in {"check", "append", "apply"}
    BY <1>4 DEF GuardInv, FitOK, Fits, Staged, Writing, Begun
  <1>6. arcs[a].id \in Resources
    BY <1>2 DEF GuardInv, TypeInv, IdsOK
  <1> QED BY <1>2, <1>3, <1>5, <1>6

Touches(x, e, r) == Puts(x, e, r) \/ Takes(x, e, r)

\* A call holds the guard of every resource that it changes.
LEMMA Guarded ==
    ASSUME GuardInv, NEW c \in Callers, InFlight(c), NEW e, NEW r, Touches(call[c], e, r)
    PROVE  e \in Touched(c) /\ \E a \in HeldBy(c) : arcs[a].id = r
  <1>1. PICK m \in call[c].members : m.rid = r
    BY DEF Touches, Puts, Takes
  <1>2. Covered(call[c]) /\ Staged(call[c]) /\ call[c].op \in Writes
    BY DEF GuardInv, FitOK, Fits, InFlight, Writing
  <1>3. Ready(call[c]) /\ call[c].at # "start"
    BY <1>2 DEF Staged, InFlight
  <1>4. \E a \in HeldBy(c) : arcs[a].id = m.rid
    <2>1. Range(<<>>) = {}
      BY DEF Range
    <2>2. m.rid \notin Range(call[c].tolock)
      BY <1>3, <2>1 DEF Ready
    <2> QED BY <1>2, <1>3, <2>2 DEF Covered, HeldBy
  <1>5. e \in Touched(c)
    BY DEF Touches, Puts, Takes, Touched
  <1> QED BY <1>1, <1>4, <1>5

\* A steady one changes what the table leads to.
LEMMA SteadyHolds ==
    ASSUME GuardInv, NEW c \in Callers, InFlight(c), Steady(c), NEW e, NEW r,
           Touches(call[c], e, r)
    PROVE  /\ e \in Touched(c) /\ r \in Live /\ resources[r] \in HeldBy(c)
           /\ arcs[resources[r]].id = r /\ ~Deleting(resources[r])
  <1>1. PICK a \in HeldBy(c) : arcs[a].id = r
    BY Guarded
  <1>2. resources[arcs[a].id] = a /\ ~Deleting(a)
    BY DEF Steady, Current
  <1>3. r \in Resources /\ a # None
    BY <1>1, HoldersWrite
  <1> QED BY <1>1, <1>2, <1>3, Guarded DEF Live

\* Two of them never change the same one.
LEMMA OneSteady ==
    ASSUME GuardInv, NEW b \in Callers, NEW c \in Callers, InFlight(b), InFlight(c),
           Steady(b), Steady(c), NEW d, NEW e, NEW r, Touches(call[b], d, r), Touches(call[c], e, r)
    PROVE  b = c
  <1>1. resources[r] \in HeldBy(b) /\ resources[r] \in HeldBy(c)
    BY SteadyHolds
  <1> QED BY <1>1, OneHolder

\* Nor does one change a resource that is not there.
LEMMA SteadyPuts ==
    ASSUME GuardInv, SteadyOK, NEW c \in Callers, Pends(c), NEW e, e \notin stale, NEW r,
           Touches(call[c], e, r)
    PROVE  InFlight(c) /\ Steady(c) /\ r \in Live /\ ~Deleting(resources[r])
  <1>1. InFlight(c)
    BY DEF Pends, InFlight
  <1>2. e \in Touched(c)
    BY <1>1, Guarded
  <1>3. Steady(c)
    BY <1>2 DEF SteadyOK
  <1> QED BY <1>1, <1>3, SteadyHolds

\* A step of a call with no record between the log and memory.
LEMMA ItemsQuiet ==
    ASSUME ItemsInv, GuardInv', NEW c \in Callers, NEW new, call' = [call EXCEPT ![c] = new],
           call[c].at \notin {"apply", "drop"}, new.at \notin {"apply", "drop"},
           arcs' = arcs, resources' = resources, log' = log, stale' = stale,
           new.op = "delete" /\ new.at = "append" => \A b \in Callers : new.arc \notin HeldBy(b)
    PROVE  ItemsInv'
  <1>0. CallsOK /\ SteadyOK /\ ItemsOK /\ BareOK
    BY DEF ItemsInv, GuardInv, TypeInv, TreeInv
  <1>1. call'[c] = new /\ \A b \in Callers \ {c} : call'[b] = call[b]
    BY <1>0, OneCall
  <1>2. \A b \in Callers : /\ Pends(b)' <=> Pends(b)
                           /\ Pends(b) => call'[b] = call[b]
    BY <1>1 DEF Pends, Writing
  <1>3. Live' = Live /\ \A r \in Live : Items(r)' = Items(r)
    BY DEF Live, Items
  <1>4. \A r : \A b \in Callers : Owed(b, "delete", r)' <=> Owed(b, "delete", r)
    BY <1>1 DEF Owed
  <1>5. ReplayAll(log)' = ReplayAll(log)
    OBVIOUS
  <1>6. \A e, r : Has(e, r)' <=> Has(e, r)
    BY <1>3 DEF Has
  <1>7. \A e, r : (Coming(e, r)' <=> Coming(e, r)) /\ (Going(e, r)' <=> Going(e, r))
    BY <1>2 DEF Coming, Going, Puts, Takes
  <1>8. ItemsOK'
    BY <1>0, <1>4, <1>5, <1>6, <1>7 DEF ItemsOK, Will
  <1>9. BareOK'
    BY <1>0, <1>5 DEF BareOK
  <1>10. SteadyOK'
    <2>1. ASSUME NEW b \in Callers, Pends(b)' PROVE (Steady(b) \/ Touched(b) \subseteq stale)'
      <3>1. Pends(b) /\ call'[b] = call[b]
        BY <1>2, <2>1
      <3>2. CASE Steady(b)
        <4>1. ASSUME NEW a \in HeldBy(b) PROVE Current(a)'
          <5>1. Current(a)
            BY <3>2 DEF Steady
          <5>2. ~Deleting(a)'
            <6>1. ASSUME NEW d \in Callers, call'[d].op = "delete", call'[d].arc = a,
                         call'[d].at \in {"append", "drop"}
                  PROVE  FALSE
              <7>1. CASE d = c
                BY <1>1, <6>1, <7>1
              <7>2. CASE d # c
                BY <1>1, <5>1, <6>1, <7>2 DEF Current, Deleting
              <7> QED BY <7>1, <7>2
            <6> QED BY <6>1 DEF Deleting
          <5> QED BY <5>1, <5>2 DEF Current
        <4> QED BY <3>1, <4>1 DEF Steady, HeldBy
      <3>3. CASE ~Steady(b)
        <4>1. Touched(b) \subseteq stale
          BY <1>0, <3>1, <3>3 DEF SteadyOK
        <4> QED BY <3>1, <4>1 DEF Touched
      <3> QED BY <3>2, <3>3
    <2> QED BY <2>1 DEF SteadyOK
  <1> QED BY <1>8, <1>9, <1>10 DEF ItemsInv

\* A call that starts comes to its checks, or to its end.
LEMMA Started ==
    ASSUME CallsOK, NEW c \in Callers,
           StartAdd(c) \/ StartBatch(c) \/ StartRemove(c) \/ StartCommit(c) \/ StartRead(c)
    PROVE  Return(c) \/ \E new : /\ call' = [call EXCEPT ![c] = new]
                                 /\ new.at \in {"check", "done"}
  <1> PICK x : x = call[c]
    OBVIOUS
  <1>a. x = [op |-> x.op, rid |-> x.rid, parent |-> x.parent, members |-> x.members,
             at |-> x.at, todo |-> x.todo, tolock |-> x.tolock, arc |-> x.arc,
             want |-> x.want, held |-> x.held]
    BY Fields
  <1>3. CASE StartAdd(c) /\ ~Return(c)
    <2> PICK a, t, l : /\ a = resources[(CHOOSE y \in call[c].members : TRUE).rid]
                       /\ t = Ancestors((CHOOSE y \in call[c].members : TRUE).rid)
                       /\ l = <<(CHOOSE y \in call[c].members : TRUE).rid>>
      OBVIOUS
    <2> PICK new : new = [x EXCEPT !.at = "check", !.arc = a, !.todo = t, !.tolock = l]
      OBVIOUS
    <2>1. call' = [call EXCEPT ![c] = new]
      BY <1>3 DEF StartAdd, Becomes
    <2>2. new.at = "check"
      BY ONLY <1>a, new = [x EXCEPT !.at = "check", !.arc = a, !.todo = t, !.tolock = l]
    <2> QED BY <2>1, <2>2
  <1>4. CASE StartBatch(c)
    <2> PICK order : order = LockOrder(call[c].members)
      OBVIOUS
    <2> PICK t : t = FlattenSeq([k \in DOMAIN order |-> Ancestors(order[k])])
      OBVIOUS
    <2> PICK new : new = [x EXCEPT !.at = "check", !.tolock = order, !.todo = t]
      OBVIOUS
    <2>1. call' = [call EXCEPT ![c] = new]
      BY <1>4 DEF StartBatch, Becomes
    <2>2. new.at = "check"
      BY ONLY <1>a, new = [x EXCEPT !.at = "check", !.tolock = order, !.todo = t]
    <2> QED BY <2>1, <2>2
  <1>5. CASE StartRemove(c) /\ ~Return(c)
    <2> PICK m : m = CHOOSE y \in call[c].members : TRUE
      OBVIOUS
    <2> PICK r, a, n : r = entity[m.id] /\ a = resources[r] /\ n = {[m EXCEPT !.rid = r]}
      OBVIOUS
    <2> PICK l : l = <<r>>
      OBVIOUS
    <2> PICK new : new = [x EXCEPT !.at = "check", !.arc = a, !.members = n, !.tolock = l]
      OBVIOUS
    <2>1. call' = [call EXCEPT ![c] = new]
      BY <1>5 DEF StartRemove, Becomes
    <2>2. new.at = "check"
      BY ONLY <1>a, new = [x EXCEPT !.at = "check", !.arc = a, !.members = n, !.tolock = l]
    <2> QED BY <2>1, <2>2
  <1>6. CASE StartCommit(c) /\ ~Return(c)
    <2> PICK found : found = {[m EXCEPT !.rid = entity[m.id]] : m \in call[c].members}
      OBVIOUS
    <2> PICK l : l = LockOrder(found)
      OBVIOUS
    <2> PICK new : new = [x EXCEPT !.at = "check", !.members = found, !.tolock = l]
      OBVIOUS
    <2>1. call' = [call EXCEPT ![c] = new]
      BY <1>6 DEF StartCommit, Becomes
    <2>2. new.at = "check"
      BY ONLY <1>a, new = [x EXCEPT !.at = "check", !.members = found, !.tolock = l]
    <2> QED BY <2>1, <2>2
  <1>7. CASE StartRead(c) /\ ~Return(c)
    <2> PICK a, t : /\ a = resources[call[c].rid]
                    /\ t = Append(Ancestors(call[c].rid), call[c].rid)
      OBVIOUS
    <2> PICK new : new = [x EXCEPT !.at = "done", !.arc = a, !.todo = t]
      OBVIOUS
    <2>1. call' = [call EXCEPT ![c] = new]
      BY <1>7 DEF StartRead, Becomes
    <2>2. new.at = "done"
      BY ONLY <1>a, new = [x EXCEPT !.at = "done", !.arc = a, !.todo = t]
    <2> QED BY <2>1, <2>2
  <1> QED BY <1>3, <1>4, <1>5, <1>6, <1>7

\* Most steps bring a call neither to its records nor on from there.
LEMMA Ways ==
    ASSUME GuardInv, NEW c \in Callers, Step(c),
           ~ (\/ Check(c) \/ QueueRecords(c) \/ ApplyRecords(c) \/ AppendShape(c)
              \/ InsertResource(c) \/ Unmap(c) \/ RemoveResource(c))
    PROVE  /\ UNCHANGED store /\ log' = log /\ stale' = stale /\ twice' = twice
           /\ call[c].at \notin {"append", "apply", "drop"}
           /\ \E new : /\ call' = [call EXCEPT ![c] = new]
                       /\ new.at \notin {"apply", "drop"}
                       /\ new.at = "append" => new.op = "create"
  <1>0. CallsOK
    BY DEF GuardInv, TypeInv, TreeInv
  <1> PICK x : x = call[c]
    OBVIOUS
  <1>a. /\ x = [op |-> x.op, rid |-> x.rid, parent |-> x.parent, members |-> x.members,
                at |-> x.at, todo |-> x.todo, tolock |-> x.tolock, arc |-> x.arc,
                want |-> x.want, held |-> x.held]
    BY <1>0, Fields
  <1>b. /\ UNCHANGED store /\ log' = log /\ stale' = stale /\ twice' = twice
    BY DEF Step, Start, Shape, StartAdd, StartBatch, StartRemove, StartCommit, StartRead,
       AskTopology, Visit, Visited, Lock, Locked, ReadEnds, CheckCreate, CheckDelete
  <1> DEFINE Elsewhere == /\ x.at \notin {"append", "apply", "drop"}
                          /\ \E new : /\ call' = [call EXCEPT ![c] = new]
                                      /\ new.at \notin {"apply", "drop"}
                                      /\ new.at = "append" => new.op = "create"
  <1>1. ASSUME NEW new, call' = [call EXCEPT ![c] = new], x.at \notin {"append", "apply", "drop"},
               new.at \notin {"apply", "drop"}, new.at = "append" => new.op = "create"
        PROVE  Elsewhere
    BY <1>1
  <1>2. ASSUME Return(c), x.at \notin {"append", "apply", "drop"} PROVE Elsewhere
    <2>1. call' = [call EXCEPT ![c] = Idle] /\ Idle.at = "idle"
      BY <1>2 DEF Return, Becomes, Idle
    <2> QED BY <1>1, <1>2, <2>1
  <1> HIDE DEF Elsewhere
  <1> SUFFICES Elsewhere
    BY <1>b DEF Elsewhere
  <1>3. CASE Visit(c) \/ Visited(c) \/ Lock(c) \/ Locked(c)
    <2>1. x.at \notin {"append", "apply", "drop"}
      <3>1. x.todo # <<>> \/ x.tolock # <<>>
        BY <1>3 DEF Visit, Visited, Lock, Locked
      <3>2. Staged(x)
        BY <1>0 DEF GuardInv, FitOK, Fits
      <3>3. x.op \notin Reshaping
        BY <1>0, <3>1, Fields DEF Shapes
      <3>4. CASE x.op \in Writes
        BY <3>1, <3>2, <3>4 DEF Staged, Ready
      <3>5. CASE x.op \notin Writes
        <4>1. x.at \notin {"append", "apply"}
          BY <1>0, <3>3, <3>5 DEF CallsOK, CallOK
        <4>2. x.at # "drop"
          BY <3>2, <3>3 DEF Staged
        <4> QED BY <4>1, <4>2
      <3> QED BY <3>4, <3>5
    <2>2. ASSUME NEW new, call' = [call EXCEPT ![c] = new], new.at = x.at PROVE Elsewhere
      BY <1>1, <2>1, <2>2
    <2>3. CASE Visit(c) /\ ~Return(c)
      <3> PICK a : a = NextToRead(c)
        OBVIOUS
      <3> PICK new : new = [x EXCEPT !.want = a]
        OBVIOUS
      <3>1. call' = [call EXCEPT ![c] = new]
        BY <2>3 DEF Visit, Becomes
      <3>2. new.at = x.at
        BY ONLY <1>a, new = [x EXCEPT !.want = a]
      <3> QED BY ONLY <2>2, <3>1, <3>2
    <2>4. CASE Visited(c)
      <3> PICK new : new = [x EXCEPT !.todo = Tail(@), !.want = None]
        OBVIOUS
      <3>1. call' = [call EXCEPT ![c] = new]
        BY <2>4 DEF Visited, Becomes
      <3>2. new.at = x.at
        BY ONLY <1>a, new = [x EXCEPT !.todo = Tail(@), !.want = None]
      <3> QED BY ONLY <2>2, <3>1, <3>2
    <2>5. CASE Lock(c) /\ ~Return(c)
      <3> PICK a : a = IF call[c].arc # None THEN call[c].arc
                       ELSE get_resource(Head(call[c].tolock))
        OBVIOUS
      <3> PICK new : new = [x EXCEPT !.want = a]
        OBVIOUS
      <3>1. call' = [call EXCEPT ![c] = new]
        BY <2>5 DEF Lock, Becomes
      <3>2. new.at = x.at
        BY ONLY <1>a, new = [x EXCEPT !.want = a]
      <3> QED BY ONLY <2>2, <3>1, <3>2
    <2>6. CASE Locked(c)
      <3> PICK a : a = call[c].want
        OBVIOUS
      <3> PICK new : new = [x EXCEPT !.tolock = Tail(@), !.want = None, !.held = Append(@, a)]
        OBVIOUS
      <3>1. call' = [call EXCEPT ![c] = new]
        BY <2>6 DEF Locked, Becomes
      <3>2. new.at = x.at
        BY ONLY <1>a, new = [x EXCEPT !.tolock = Tail(@), !.want = None, !.held = Append(@, a)]
      <3> QED BY ONLY <2>2, <3>1, <3>2
    <2> QED BY <1>2, <1>3, <2>1, <2>3, <2>4, <2>5, <2>6
  <1>4. CASE StartAdd(c) \/ StartBatch(c) \/ StartRemove(c) \/ StartCommit(c) \/ StartRead(c)
    <2>1. x.at = "start"
      BY <1>4 DEF StartAdd, StartBatch, StartRemove, StartCommit, StartRead
    <2>2. Return(c) \/ \E new : /\ call' = [call EXCEPT ![c] = new]
                                /\ new.at \in {"check", "done"}
      BY <1>0, <1>4, Started
    <2> QED BY <1>1, <1>2, <2>1, <2>2
  <1>5. CASE AskTopology(c) \/ CheckCreate(c) \/ CheckDelete(c) \/ ReadEnds(c)
    <2>1. x.at \in {"start", "shape", "done"}
      BY <1>5 DEF AskTopology, CheckCreate, CheckDelete, ReadEnds, Holding
    <2>2. CASE AskTopology(c)
      <3> PICK new : new = [x EXCEPT !.at = "shape"]
        OBVIOUS
      <3>1. call' = [call EXCEPT ![c] = new]
        BY <2>2 DEF AskTopology, Becomes
      <3>2. new.at = "shape"
        BY ONLY <1>a, new = [x EXCEPT !.at = "shape"]
      <3> QED BY ONLY <1>1, <2>1, <3>1, <3>2
    <2>3. CASE CheckCreate(c) /\ ~Return(c)
      <3> PICK new : new = [x EXCEPT !.at = "append"]
        OBVIOUS
      <3>1. call' = [call EXCEPT ![c] = new]
        BY <2>3 DEF CheckCreate, Becomes
      <3>2. new.at = "append" /\ new.op = x.op
        BY ONLY <1>a, new = [x EXCEPT !.at = "append"]
      <3>3. x.op = "create"
        BY <2>3 DEF CheckCreate
      <3> QED BY ONLY <1>1, <2>1, <3>1, <3>2, <3>3
    <2>4. CASE CheckDelete(c) /\ ~Return(c)
      <3> PICK a : a = resources[call[c].rid]
        OBVIOUS
      <3> PICK new : new = [x EXCEPT !.at = "unmap", !.arc = a]
        OBVIOUS
      <3>1. call' = [call EXCEPT ![c] = new]
        BY <2>4 DEF CheckDelete, Becomes
      <3>2. new.at = "unmap"
        BY ONLY <1>a, new = [x EXCEPT !.at = "unmap", !.arc = a]
      <3> QED BY ONLY <1>1, <2>1, <3>1, <3>2
    <2> QED BY <1>2, <1>5, <2>1, <2>2, <2>3, <2>4 DEF ReadEnds
  <1> QED BY <1>3, <1>4, <1>5 DEF Step, Start, Shape

\* What its checks make of a call.
LEMMA Checked ==
    ASSUME CallsOK, NEW c \in Callers, Check(c)
    PROVE  /\ UNCHANGED store /\ log' = log /\ stale' = stale
           /\ call[c].at = "check" /\ Writing(c)
           /\ \/ Return(c) /\ twice' = twice
              \/ \E new : /\ call' = [call EXCEPT ![c] = new] /\ Checks(c)
                          /\ new.op = call[c].op /\ new.at = "append"
                          /\ new.members = call[c].members /\ new.held = call[c].held
                          /\ twice' = twice \cup (Appears(c) \cap Contended)
  <1> PICK x : x = call[c]
    OBVIOUS
  <1>a. x = [op |-> x.op, rid |-> x.rid, parent |-> x.parent, members |-> x.members,
             at |-> x.at, todo |-> x.todo, tolock |-> x.tolock, arc |-> x.arc,
             want |-> x.want, held |-> x.held]
    BY Fields
  <1>1. x.at = "check" /\ UNCHANGED store /\ log' = log /\ stale' = stale
    BY DEF Check, Holding
  <1>2. x.op \in Writes
    BY <1>1, Fields DEF Shapes
  <1>3. CASE Checks(c)
    <2> PICK new : new = [x EXCEPT !.at = "append"]
      OBVIOUS
    <2>1. call' = [call EXCEPT ![c] = new] /\ twice' = twice \cup (Appears(c) \cap Contended)
      BY <1>3 DEF Check, Becomes
    <2>2. /\ new.op = x.op /\ new.at = "append" /\ new.members = x.members
          /\ new.held = x.held
      BY ONLY <1>a, new = [x EXCEPT !.at = "append"]
    <2> QED BY <1>1, <1>2, <1>3, <2>1, <2>2 DEF Writing
  <1>4. CASE ~Checks(c)
    BY <1>1, <1>2, <1>4 DEF Check, Writing
  <1> QED BY <1>3, <1>4

\* Most steps leave the contents alone.
LEMMA ItemsOnTheWay ==
    ASSUME ItemsInv, GuardInv', NEW c \in Callers,
           Step(c), ~ (\/ QueueRecords(c) \/ ApplyRecords(c) \/ AppendShape(c)
                       \/ InsertResource(c) \/ RemoveResource(c))
    PROVE  ItemsInv'
  <1>0. CallsOK /\ TypeInv /\ GuardInv
    BY DEF ItemsInv, GuardInv, TypeInv, TreeInv
  <1> PICK x : x = call[c]
    OBVIOUS
  <1>1. CASE ~Check(c) /\ ~Unmap(c)
    <2>1. /\ UNCHANGED store /\ log' = log /\ stale' = stale
          /\ x.at \notin {"append", "apply", "drop"}
          /\ \E new : /\ call' = [call EXCEPT ![c] = new]
                      /\ new.at \notin {"apply", "drop"}
                      /\ new.at = "append" => new.op = "create"
      BY <1>0, <1>1, Ways
    <2> QED BY <2>1, ItemsQuiet DEF store
  <1>2. CASE Check(c)
    <2>1. UNCHANGED store /\ log' = log /\ stale' = stale /\ x.at = "check" /\ Writing(c)
      BY <1>0, <1>2, Checked
    <2>2. \/ Return(c)
          \/ \E new : /\ call' = [call EXCEPT ![c] = new]
                      /\ new.op = x.op /\ new.at = "append"
      BY <1>0, <1>2, Checked
    <2>3. CASE Return(c)
      <3>1. call' = [call EXCEPT ![c] = Idle] /\ Idle.at = "idle"
        BY <2>3 DEF Return, Becomes, Idle
      <3> QED BY <2>1, <3>1, ItemsQuiet DEF store
    <2> QED BY <2>1, <2>2, <2>3, ItemsQuiet DEF store, Writing, Writes
  <1>a. x = [op |-> x.op, rid |-> x.rid, parent |-> x.parent, members |-> x.members,
             at |-> x.at, todo |-> x.todo, tolock |-> x.tolock, arc |-> x.arc,
             want |-> x.want, held |-> x.held]
    BY <1>0, Fields
  <1>3. CASE Unmap(c)
    <2> PICK new : new = [x EXCEPT !.at = "append"]
      OBVIOUS
    <2>1. /\ call' = [call EXCEPT ![c] = new] /\ x.op = "delete" /\ x.at = "unmap"
          /\ Granted(x.arc, c)
          /\ arcs' = arcs /\ resources' = resources /\ log' = log /\ stale' = stale
      BY <1>3 DEF Unmap, Becomes
    <2>2. new.at = "append" /\ new.arc = x.arc
      BY ONLY <1>a, new = [x EXCEPT !.at = "append"]
    <2>3. ASSUME NEW b \in Callers, x.arc \in HeldBy(b) PROVE FALSE
      <3>1. b = c
        BY <1>0, <2>1, <2>3, NoneBeside
      <3>2. Writing(c)
        BY <1>0, <2>3, <3>1, HoldersWrite
      <3> QED BY <2>1, <3>2 DEF Writing, Writes
    <2> QED BY <2>1, <2>2, <2>3, ItemsQuiet
  <1> QED BY <1>1, <1>2, <1>3

\* A state that the table leads to, while nobody deletes it.
LEMMA CurrentKept ==
    ASSUME CallsOK, NEW c \in Callers, NEW new, call' = [call EXCEPT ![c] = new], SameIds,
           NEW a \in DOMAIN arcs, Current(a), resources'[arcs[a].id] = a,
           ~ (new.op = "delete" /\ new.at \in {"append", "drop"} /\ new.arc = a)
    PROVE  Current(a)'
  <1>1. call'[c] = new /\ \A b \in Callers \ {c} : call'[b] = call[b]
    BY OneCall
  <1>2. ~Deleting(a)'
    <2>1. ASSUME NEW d \in Callers, call'[d].op = "delete", call'[d].arc = a,
                 call'[d].at \in {"append", "drop"}
          PROVE  FALSE
      <3>1. CASE d = c
        BY <1>1, <2>1, <3>1
      <3>2. CASE d # c
        BY <1>1, <2>1, <3>2 DEF Current, Deleting
      <3> QED BY <3>1, <3>2
    <2> QED BY <2>1 DEF Deleting
  <1> QED BY <1>2 DEF Current, SameIds

\* Records stay on their way to where they belong.
LEMMA SteadyKept ==
    ASSUME CallsOK, SteadyOK, NEW c \in Callers, NEW new, call' = [call EXCEPT ![c] = new],
           \A b \in Callers \ {c} : \A a \in HeldBy(b) : Current(a) => Current(a)',
           stale \subseteq stale', Pends(c)' => (Steady(c) \/ Touched(c) \subseteq stale)'
    PROVE  SteadyOK'
  <1>1. call'[c] = new /\ \A b \in Callers \ {c} : call'[b] = call[b]
    BY OneCall
  <1>2. ASSUME NEW b \in Callers, Pends(b)', b # c PROVE (Steady(b) \/ Touched(b) \subseteq stale)'
    <2>1. Pends(b) /\ call'[b] = call[b]
      BY <1>1, <1>2 DEF Pends, Writing
    <2>2. CASE Steady(b)
      BY <1>2, <2>1, <2>2 DEF Steady, HeldBy
    <2>3. CASE ~Steady(b)
      <3>1. Touched(b) \subseteq stale
        BY <2>1, <2>3 DEF SteadyOK
      <3> QED BY <2>1, <3>1 DEF Touched
    <2> QED BY <2>2, <2>3
  <1> QED BY <1>2 DEF SteadyOK

\* The records are queued.
LEMMA ItemsQueued ==
    ASSUME ItemsInv, GuardInv', NEW c \in Callers, QueueRecords(c)
    PROVE  ItemsInv'
  <1>0. /\ GuardInv /\ CallsOK /\ IdsOK /\ SteadyOK /\ ItemsOK /\ BareOK
        /\ IsSeq(log) /\ Formed(ReplayAll(log)) /\ Tied(ReplayAll(log))
    BY DEF ItemsInv, GuardInv, TypeInv, TreeInv, LogOK
  <1> PICK x, recs, g, h : /\ x = call[c] /\ recs = Records(c) /\ g = ReplayAll(log)
                           /\ h = ReplayAll(log \o recs)
    OBVIOUS
  <1> PICK new : new = [x EXCEPT !.at = "apply"]
    OBVIOUS
  <1>a. x = [op |-> x.op, rid |-> x.rid, parent |-> x.parent, members |-> x.members,
             at |-> x.at, todo |-> x.todo, tolock |-> x.tolock, arc |-> x.arc,
             want |-> x.want, held |-> x.held]
    BY <1>0, Fields
  <1>1. /\ call' = [call EXCEPT ![c] = new] /\ log' = log \o recs /\ x.at = "append"
        /\ ~Shapes(c) /\ arcs' = arcs /\ resources' = resources
        /\ stale' = IF Steady(c) THEN stale ELSE stale \cup Touched(c)
    BY DEF QueueRecords, Becomes, Holding, store, Steady, HeldBy
  <1>2. /\ new.op = x.op /\ new.members = x.members /\ new.at = "apply" /\ new.held = x.held
        /\ new.arc = x.arc
    BY ONLY <1>a, new = [x EXCEPT !.at = "apply"]
  <1>3. x.op \in Writes /\ InFlight(c) /\ ~Pends(c)
    <2>1. x.op \in Writes
      BY <1>0, <1>1, Fields
    <2> QED BY <1>1, <2>1 DEF InFlight, Pends, Writing
  <1>4. Says(x, recs)
    <2>1. Named(call[c])
      BY <1>0 DEF GuardInv, FitOK, Fits
    <2> QED BY <1>0, <1>3, <2>1, RecordsSay
  <1>5. /\ There(h) = There(g)
        /\ \A r \in There(g) : \A e : e \in h.states[r].items <=>
               Puts(x, e, r) \/ (e \in g.states[r].items /\ ~Takes(x, e, r))
        /\ \A r \in Resources \ There(g) : h.states[r].items = g.states[r].items
    BY <1>0, <1>4, ReplayedCall
  <1>6. ReplayAll(log)' = h
    BY <1>1
  <1>7. BareOK'
    BY <1>0, <1>5, <1>6 DEF BareOK
  <1>8. call'[c] = new /\ \A b \in Callers \ {c} : call'[b] = call[b]
    BY <1>0, <1>1, OneCall
  <1>9. SameIds
    BY <1>1 DEF SameIds
  <1>10. ASSUME NEW b \in Callers, NEW a \in HeldBy(b), Current(a) PROVE Current(a)'
    <2>1. a \in DOMAIN arcs
      BY <1>0, HoldersWrite
    <2>2. new.op # "delete" /\ resources'[arcs[a].id] = a
      BY <1>1, <1>2, <1>3, <1>10 DEF Writes, Current
    <2> QED BY <1>0, <1>1, <1>9, <1>10, <2>1, <2>2, CurrentKept
  <1>11. SteadyOK'
    <2>1. Steady(c) => Steady(c)'
      BY <1>2, <1>8, <1>10 DEF Steady, HeldBy
    <2>2. Touched(c)' = Touched(c)
      BY <1>2, <1>8 DEF Touched
    <2>3. stale \subseteq stale' /\ (Steady(c) \/ Touched(c) \subseteq stale)'
      BY <1>1, <2>1, <2>2
    <2> QED BY <1>0, <1>1, <1>10, <2>3, SteadyKept
  <1>12. \A b \in Callers : \A r : Owed(b, "delete", r)' <=> Owed(b, "delete", r)
    BY <1>1, <1>2, <1>8 DEF Owed
  <1>13. ASSUME NEW e, NEW r
         PROVE  /\ Has(e, r)' <=> Has(e, r)
                /\ Coming(e, r)' <=> Coming(e, r) \/ Puts(x, e, r)
                /\ Going(e, r)' <=> Going(e, r) \/ Takes(x, e, r)
    <2>1. Has(e, r)' <=> Has(e, r)
      BY <1>1 DEF Has, Live, Items
    <2>2. \A b \in Callers \ {c} : Pends(b)' <=> Pends(b)
      BY <1>8 DEF Pends, Writing
    <2>3. Pends(c)'
      BY <1>2, <1>3, <1>8 DEF Pends, Writing
    <2>4. /\ Puts(call'[c], e, r) <=> Puts(x, e, r)
          /\ Takes(call'[c], e, r) <=> Takes(x, e, r)
      BY <1>2, <1>8 DEF Puts, Takes
    <2>5. Coming(e, r)' <=> \E b \in Callers : Pends(b)' /\ Puts(call'[b], e, r)
      BY DEF Coming, Puts
    <2>6. Going(e, r)' <=> \E b \in Callers : Pends(b)' /\ Takes(call'[b], e, r)
      BY DEF Going, Takes
    <2>7. Coming(e, r)' <=> Coming(e, r) \/ Puts(x, e, r)
      BY <1>3, <1>8, <2>2, <2>3, <2>4, <2>5 DEF Coming
    <2>8. Going(e, r)' <=> Going(e, r) \/ Takes(x, e, r)
      BY <1>3, <1>8, <2>2, <2>3, <2>4, <2>6 DEF Going
    <2> QED BY <2>1, <2>7, <2>8
  <1>14. ASSUME NEW r \in Resources, \A b \in Callers : ~Owed(b, "delete", r)', NEW e, e \notin stale'
         PROVE  e \in h.states[r].items <=> Will(e, r)'
    <2>1. e \notin stale
      BY <1>1, <1>14
    <2>2. e \in g.states[r].items <=> Will(e, r)
      BY <1>0, <1>12, <1>14, <2>1 DEF ItemsOK
    <2>3. Will(e, r)' <=> \/ Coming(e, r) \/ Puts(x, e, r)
                          \/ Has(e, r) /\ ~Going(e, r) /\ ~Takes(x, e, r)
      BY <1>13 DEF Will
    <2>4. CASE ~Touches(x, e, r)
      <3>1. ~Puts(x, e, r) /\ ~Takes(x, e, r)
        BY <2>4 DEF Touches
      <3>2. e \in h.states[r].items <=> e \in g.states[r].items
        BY <1>5, <3>1
      <3> QED BY <2>2, <2>3, <3>1, <3>2 DEF Will
    <2>5. CASE Touches(x, e, r)
      <3>1. Steady(c)
        <4>1. e \in Touched(c)
          BY <1>0, <1>3, <2>5, Guarded
        <4> QED BY <1>1, <1>14, <4>1
      <3>2. r \in Live
        BY <1>0, <1>3, <2>5, <3>1, SteadyHolds
      <3>3. r \in There(g)
        BY <1>0, <1>12, <1>14, <3>2 DEF Tied, Kept, There
      <3>4. ~Coming(e, r) /\ ~Going(e, r)
        <4>1. ASSUME NEW b \in Callers, Pends(b), Touches(call[b], e, r) PROVE FALSE
          <5>1. InFlight(b) /\ Steady(b)
            BY <1>0, <2>1, <4>1, SteadyPuts
          <5>2. b = c
            BY <1>0, <1>3, <2>5, <3>1, <4>1, <5>1, OneSteady
          <5> QED BY <1>3, <4>1, <5>2
        <4> QED BY <4>1 DEF Coming, Going, Touches
      <3> QED BY <1>5, <2>2, <2>3, <3>3, <3>4 DEF Will
    <2> QED BY <2>4, <2>5
  <1>15. ItemsOK'
    BY <1>6, <1>14 DEF ItemsOK
  <1> QED BY <1>7, <1>11, <1>15 DEF ItemsInv

\* What applying its records does to the states.
LEMMA Written ==
    ASSUME GuardInv, NEW c \in Callers, ApplyRecords(c)
    PROVE  /\ Pends(c) /\ InFlight(c) /\ SameIds /\ DOMAIN arcs' = DOMAIN arcs
           /\ Says(call[c], Records(c))
           /\ \A a \in HeldBy(c) : \A e : e \in arcs'[a].items <=>
                  \/ Puts(call[c], e, arcs[a].id)
                  \/ e \in arcs[a].items /\ ~Takes(call[c], e, arcs[a].id)
           /\ \A a \in DOMAIN arcs \ HeldBy(c) : arcs'[a] = arcs[a]
           /\ entity' = WholeIndexAfter({arcs[a].id : a \in HeldBy(c)}, Records(c))
  <1>0. CallsOK /\ StoreOK
    BY DEF GuardInv, TypeInv, TreeInv
  <1> PICK x, recs, held : x = call[c] /\ recs = Records(c) /\ held = HeldBy(c)
    OBVIOUS
  <1>1. x.at = "apply" /\ ~Shapes(c)
    BY DEF ApplyRecords, Holding
  <1>2. Pends(c) /\ InFlight(c) /\ x.op \in Writes
    BY <1>0, <1>1, Fields DEF Pends, InFlight, Writing
  <1>3. Says(x, recs)
    <2>1. Named(call[c])
      BY DEF GuardInv, FitOK, Fits
    <2> QED BY <1>0, <1>2, <2>1, RecordsSay
  <1> DEFINE Items2(a) == AllItemsAfter(a, recs)
  <1>4. /\ arcs' = [a \in DOMAIN arcs |-> IF a \in held
                    THEN [arcs[a] EXCEPT !.items = Items2(a)] ELSE arcs[a]]
        /\ entity' = WholeIndexAfter({arcs[a].id : a \in held}, recs)
    BY DEF ApplyRecords, HeldBy
  <1>5. ASSUME NEW a \in DOMAIN arcs
        PROVE  arcs'[a].id = arcs[a].id /\ (a \in held => arcs'[a].items = Items2(a))
    <2> HIDE DEF Items2
    <2> PICK old, items : old = arcs[a] /\ items = Items2(a)
      OBVIOUS
    <2>1. old = [id |-> old.id, parent |-> old.parent, items |-> old.items]
      BY <1>0 DEF StoreOK, ArcOK
    <2>2. arcs'[a] = IF a \in held THEN [old EXCEPT !.items = items] ELSE old
      BY <1>4
    <2> QED BY ONLY <2>1, <2>2, old = arcs[a], items = Items2(a)
  <1>6. ASSUME NEW a \in held, NEW e
        PROVE  e \in arcs'[a].items <=>
                  \/ Puts(x, e, arcs[a].id)
                  \/ e \in arcs[a].items /\ ~Takes(x, e, arcs[a].id)
    <2>1. a \in DOMAIN arcs
      BY HoldersWrite
    <2>2. e \in AllItemsAfter(a, recs) <=>
                  \/ Puts(x, e, arcs[a].id)
                  \/ e \in arcs[a].items /\ ~Takes(x, e, arcs[a].id)
      BY <1>3, ItemsApplied
    <2> QED BY <1>5, <2>1, <2>2
  <1>7. \A a \in DOMAIN arcs \ held : arcs'[a] = arcs[a]
    BY <1>4
  <1>8. DOMAIN arcs' = DOMAIN arcs
    BY <1>4
  <1>9. SameIds
    BY <1>5, <1>8 DEF SameIds
  <1> HIDE DEF Items2
  <1> QED BY <1>2, <1>3, <1>4, <1>6, <1>7, <1>8, <1>9

\* The records are applied.
LEMMA ItemsWritten ==
    ASSUME ItemsInv, GuardInv', NEW c \in Callers, ApplyRecords(c)
    PROVE  ItemsInv'
  <1>0. /\ GuardInv /\ CallsOK /\ IdsOK /\ StoreOK /\ SteadyOK /\ ItemsOK /\ BareOK
    BY DEF ItemsInv, GuardInv, TypeInv, TreeInv
  <1> PICK x : x = call[c]
    OBVIOUS
  <1>1. /\ Pends(c) /\ InFlight(c) /\ SameIds /\ DOMAIN arcs' = DOMAIN arcs
        /\ \A a \in HeldBy(c) : \A e : e \in arcs'[a].items <=>
                  \/ Puts(x, e, arcs[a].id)
                  \/ e \in arcs[a].items /\ ~Takes(x, e, arcs[a].id)
        /\ \A a \in DOMAIN arcs \ HeldBy(c) : arcs'[a] = arcs[a]
    BY <1>0, Written
  <1>2. /\ call' = [call EXCEPT ![c] = Idle] /\ log' = log
        /\ resources' = resources /\ stale' = stale
    BY DEF ApplyRecords, Return, Becomes
  <1>3. call'[c] = Idle /\ \A b \in Callers \ {c} : call'[b] = call[b]
    BY <1>0, <1>2, OneCall
  <1>4. Idle.op = "none"
    BY DEF Idle
  <1>5. ASSUME NEW b \in Callers, NEW a \in HeldBy(b), Current(a) PROVE Current(a)'
    <2>1. a \in DOMAIN arcs
      BY <1>0, HoldersWrite
    <2>2. resources'[arcs[a].id] = a
      BY <1>2, <1>5 DEF Current
    <2> QED BY <1>0, <1>1, <1>2, <1>4, <1>5, <2>1, <2>2, CurrentKept
  <1>6. SteadyOK'
    <2>1. ~Pends(c)'
      BY <1>3, <1>4 DEF Pends, Writing, Writes
    <2> QED BY <1>0, <1>2, <1>5, <2>1, SteadyKept
  <1>7. ReplayAll(log)' = ReplayAll(log)
    BY <1>2
  <1>8. \A b \in Callers : \A r : Owed(b, "delete", r)' <=> Owed(b, "delete", r)
    BY <1>1, <1>3, <1>4 DEF Owed, Pends, Writing, Writes
  <1>9. \A b \in Callers : Pends(b)' <=> (Pends(b) /\ b # c)
    BY <1>3, <1>4 DEF Pends, Writing, Writes
  <1>10. ASSUME NEW e, NEW r
         PROVE  /\ Coming(e, r) <=> Coming(e, r)' \/ Puts(x, e, r)
                /\ Going(e, r) <=> Going(e, r)' \/ Takes(x, e, r)
    <2>1. Coming(e, r)' <=> \E b \in Callers : Pends(b)' /\ Puts(call'[b], e, r)
      BY DEF Coming, Puts
    <2>2. Going(e, r)' <=> \E b \in Callers : Pends(b)' /\ Takes(call'[b], e, r)
      BY DEF Going, Takes
    <2>3. Coming(e, r)' <=> \E b \in Callers \ {c} : Pends(b) /\ Puts(call[b], e, r)
      BY <1>3, <1>9, <2>1
    <2>4. Going(e, r)' <=> \E b \in Callers \ {c} : Pends(b) /\ Takes(call[b], e, r)
      BY <1>3, <1>9, <2>2
    <2> QED BY <1>1, <2>3, <2>4 DEF Coming, Going
  <1>11. ASSUME NEW r \in Live, NEW e
         PROVE  /\ r \in Live' /\ resources[r] \in DOMAIN arcs /\ arcs[resources[r]].id = r
                /\ Items(r)' = arcs'[resources[r]].items
                /\ resources[r] \in HeldBy(c) =>
                      (e \in Items(r)' <=> Puts(x, e, r) \/ (e \in Items(r) /\ ~Takes(x, e, r)))
                /\ resources[r] \notin HeldBy(c) => Items(r)' = Items(r)
    <2>1. resources[r] \in DOMAIN arcs /\ arcs[resources[r]].id = r
      BY <1>0 DEF StoreOK, IdsOK
    <2>2. r \in Live' /\ Items(r)' = arcs'[resources[r]].items
      BY <1>2 DEF Live, Items
    <2> QED BY <1>1, <2>1, <2>2 DEF Items
  <1>12. \A r : r \in Live' => r \in Live
    BY <1>2 DEF Live
  <1>13. ASSUME NEW r, NEW e, e \notin stale PROVE Will(e, r)' <=> Will(e, r)
    <2>1. CASE ~Touches(x, e, r)
      <3>1. ~Puts(x, e, r) /\ ~Takes(x, e, r)
        BY <2>1 DEF Touches
      <3>2. Has(e, r)' <=> Has(e, r)
        BY <1>11, <1>12, <3>1 DEF Has
      <3> QED BY <1>10, <3>1, <3>2 DEF Will
    <2>2. CASE Touches(x, e, r)
      <3>1. Steady(c)
        BY <1>0, <1>1, <1>13, <2>2, SteadyPuts
      <3>2. r \in Live /\ resources[r] \in HeldBy(c)
        BY <1>0, <1>1, <2>2, <3>1, SteadyHolds
      <3>3. ASSUME NEW b \in Callers, Pends(b), Touches(call[b], e, r) PROVE b = c
        <4>1. InFlight(b) /\ Steady(b)
          BY <1>0, <1>13, <3>3, SteadyPuts
        <4> QED BY <1>0, <1>1, <2>2, <3>1, <3>3, <4>1, OneSteady
      <3>4. ~Coming(e, r)' /\ ~Going(e, r)'
        <4>1. ASSUME NEW b \in Callers, Pends(b)', Touches(call'[b], e, r) PROVE FALSE
          <5>1. Pends(b) /\ b # c /\ call'[b] = call[b]
            BY <1>3, <1>9, <4>1
          <5> QED BY <3>3, <4>1, <5>1
        <4>2. Coming(e, r)' => \E b \in Callers : Pends(b)' /\ Puts(call'[b], e, r)
          BY DEF Coming, Puts
        <4>3. Going(e, r)' => \E b \in Callers : Pends(b)' /\ Takes(call'[b], e, r)
          BY DEF Going, Takes
        <4> QED BY <4>1, <4>2, <4>3 DEF Touches
      <3>5. Has(e, r)' <=> Puts(x, e, r) \/ (Has(e, r) /\ ~Takes(x, e, r))
        BY <1>11, <3>2 DEF Has
      <3> QED BY <1>10, <3>4, <3>5 DEF Will
    <2> QED BY <2>1, <2>2
  <1>14. ItemsOK'
    <2>1. ASSUME NEW r \in Resources, \A b \in Callers : ~Owed(b, "delete", r)', NEW e, e \notin stale'
          PROVE  e \in ReplayAll(log).states[r].items <=> Will(e, r)'
      BY <1>0, <1>2, <1>8, <1>13, <2>1 DEF ItemsOK
    <2> QED BY <1>7, <2>1 DEF ItemsOK
  <1>15. BareOK'
    BY <1>0, <1>7 DEF BareOK
  <1> QED BY <1>6, <1>14, <1>15 DEF ItemsInv

\* The record of a create or a delete is queued.
LEMMA ItemsShaped ==
    ASSUME ItemsInv, GuardInv', NEW c \in Callers, AppendShape(c)
    PROVE  ItemsInv'
  <1>0. /\ GuardInv /\ CallsOK /\ SteadyOK /\ ItemsOK /\ BareOK /\ IntentOK
        /\ IsSeq(log) /\ Formed(ReplayAll(log))
    BY DEF ItemsInv, GuardInv, TypeInv, TreeInv, LogOK
  <1> PICK x, g, h : x = call[c] /\ g = ReplayAll(log) /\ h = ReplayAll(log')
    OBVIOUS
  <1> PICK new : new = [x EXCEPT !.at = "drop"]
    OBVIOUS
  <1>a. x = [op |-> x.op, rid |-> x.rid, parent |-> x.parent, members |-> x.members,
             at |-> x.at, todo |-> x.todo, tolock |-> x.tolock, arc |-> x.arc,
             want |-> x.want, held |-> x.held]
    BY <1>0, Fields
  <1>1. /\ call' = [call EXCEPT ![c] = new] /\ x.at = "append" /\ x.op \in Reshaping
        /\ log' = Append(log, Record(x.op, None, x.rid, x.parent, {}))
        /\ arcs' = arcs /\ resources' = resources /\ stale' = stale
    BY DEF AppendShape, Becomes, Shapes, store
  <1>2. new.op = x.op /\ new.at = "drop" /\ new.rid = x.rid /\ new.arc = x.arc
    BY ONLY <1>a, new = [x EXCEPT !.at = "drop"]
  <1>3. call'[c] = new /\ \A b \in Callers \ {c} : call'[b] = call[b]
    BY <1>0, <1>1, OneCall
  <1>4. x.rid \in Resources /\ x.parent \in OrNone
    BY <1>0, <1>1, Fields DEF Shapes
  <1>5. /\ h.states[x.rid].items = {}
        /\ \A r \in Resources \ {x.rid} : h.states[r] = g.states[r]
    <2>1. h = ReplayOne(g, Record(x.op, None, x.rid, x.parent, {}))
      BY <1>0, <1>1, ReplayIsStepwise
    <2>2. CASE x.op = "create"
      BY <1>0, <1>4, <2>1, <2>2, CreateRecord
    <2>3. CASE x.op = "delete"
      BY <1>0, <1>4, <2>1, <2>3, DeleteRecord
    <2> QED BY <1>1, <2>2, <2>3 DEF Reshaping
  <1>6. \A b \in Callers : Pends(b)' <=> Pends(b)
    BY <1>1, <1>2, <1>3 DEF Pends, Writing
  <1>7. \A b \in Callers : Pends(b) => b # c
    BY <1>1 DEF Pends
  <1>8. SameIds
    BY <1>1 DEF SameIds
  <1>9. ASSUME NEW b \in Callers \ {c}, NEW a \in HeldBy(b), Current(a) PROVE Current(a)'
    <2>1. a \in DOMAIN arcs
      BY <1>0, HoldersWrite
    <2>2. resources'[arcs[a].id] = a
      BY <1>1, <1>9 DEF Current
    <2>3. ~ (new.op = "delete" /\ new.at \in {"append", "drop"} /\ new.arc = a)
      BY <1>1, <1>2, <1>9 DEF Current, Deleting
    <2> QED BY <1>0, <1>1, <1>8, <1>9, <2>1, <2>2, <2>3, CurrentKept
  <1>10. SteadyOK'
    <2>1. ~Pends(c)'
      BY <1>6, <1>7
    <2> QED BY <1>0, <1>1, <1>9, <2>1, SteadyKept
  <1>11. \A e, r : Will(e, r)' <=> Will(e, r)
    <2>1. \A e, r : Has(e, r)' <=> Has(e, r)
      BY <1>1 DEF Has, Live, Items
    <2>2. \A b \in Callers : Pends(b) => call'[b] = call[b]
      BY <1>3, <1>7
    <2>3. \A e, r : (Coming(e, r)' <=> Coming(e, r)) /\ (Going(e, r)' <=> Going(e, r))
      BY <1>6, <2>2 DEF Coming, Going, Puts, Takes
    <2> QED BY <2>1, <2>3 DEF Will
  <1>12. ASSUME NEW r \in Resources, \A b \in Callers : ~Owed(b, "delete", r)', NEW e, e \notin stale'
         PROVE  e \in h.states[r].items <=> Will(e, r)'
    <2>1. CASE r # x.rid
      <3>1. \A b \in Callers : ~Owed(b, "delete", r)
        BY <1>3, <1>12, <2>1, <1>1 DEF Owed
      <3>2. e \in g.states[r].items <=> Will(e, r)
        BY <1>0, <1>1, <1>12, <3>1 DEF ItemsOK
      <3> QED BY <1>5, <1>11, <2>1, <3>2
    <2>2. CASE r = x.rid
      <3>1. x.op = "create"
        BY <1>1, <1>2, <1>3, <1>12, <2>2 DEF Owed, Reshaping
      <3>2. r \notin Live
        BY <1>0, <1>1, <2>2, <3>1 DEF IntentOK, Creating, Changing, Shapes
      <3>3. ~Coming(e, r)
        <4>1. ASSUME NEW b \in Callers, Pends(b), Touches(call[b], e, r) PROVE FALSE
          BY <1>0, <1>1, <1>12, <3>2, <4>1, SteadyPuts
        <4> QED BY <4>1 DEF Coming, Touches
      <3>4. ~Will(e, r)
        BY <3>2, <3>3 DEF Will, Has
      <3> QED BY <1>5, <1>11, <2>2, <3>4
    <2> QED BY <2>1, <2>2
  <1>13. ItemsOK'
    BY <1>12 DEF ItemsOK
  <1>14. BareOK'
    <2>1. \A r \in Resources \ There(h) : h.states[r].items = {}
      BY <1>0, <1>5 DEF BareOK, There
    <2> QED BY <2>1 DEF BareOK
  <1> QED BY <1>10, <1>13, <1>14 DEF ItemsInv

\* What making a resource does to the table.
LEMMA Inserted ==
    ASSUME GuardInv, NEW c \in Callers, InsertResource(c), NEW rid, rid = call[c].rid
    PROVE  /\ SameIds /\ \A a \in DOMAIN arcs : arcs'[a] = arcs[a]
           /\ rid \in Resources /\ rid \notin Live /\ resources[rid] = None
           /\ \A r \in Resources \ {rid} : resources'[r] = resources[r]
           /\ \A r : r # rid => /\ r \in Live' <=> r \in Live
                                /\ r \in Live => Items(r)' = Items(r)
           /\ Items(rid)' = {}
           /\ call' = [call EXCEPT ![c] = Idle] /\ log' = log /\ stale' = stale
           /\ twice' = twice /\ entity' = entity
           /\ call[c].op = "create" /\ call[c].at = "drop"
  <1>0. /\ CallsOK /\ StoreOK /\ IntentOK
    BY DEF GuardInv, TypeInv, TreeInv
  <1> PICK made : made = [id |-> rid, parent |-> call[c].parent, items |-> {}]
    OBVIOUS
  <1>1. /\ arcs' = Append(arcs, made) /\ made.items = {}
        /\ resources' = [resources EXCEPT ![rid] = Len(arcs) + 1]
        /\ call' = [call EXCEPT ![c] = Idle] /\ log' = log /\ stale' = stale
        /\ twice' = twice /\ entity' = entity
        /\ call[c].op = "create" /\ call[c].at = "drop"
    BY DEF InsertResource
  <1>2. /\ DOMAIN arcs \subseteq DOMAIN arcs' /\ \A a \in DOMAIN arcs : arcs'[a] = arcs[a]
        /\ Len(arcs) \in Nat /\ arcs'[Len(arcs) + 1] = made
    <2> PICK old, now, n : old = arcs /\ now = arcs' /\ n = Len(arcs)
      OBVIOUS
    <2>1. /\ n \in Nat /\ DOMAIN old = 1 .. n
          /\ now = [k \in 1 .. n + 1 |-> IF k = n + 1 THEN made ELSE old[k]]
      BY <1>0, <1>1, Sequences DEF StoreOK
    <2>2. /\ DOMAIN old \subseteq DOMAIN now /\ \A a \in DOMAIN old : now[a] = old[a]
          /\ now[n + 1] = made
      BY ONLY <2>1
    <2> QED BY <2>1, <2>2
  <1>3. SameIds
    BY <1>2 DEF SameIds
  <1>4. rid \in Resources /\ rid \notin Live
    <2>1. Shapes(c) /\ Creating(c)
      BY <1>1 DEF Creating, Changing, Shapes, Reshaping
    <2> QED BY <1>0, <2>1, Fields DEF IntentOK
  <1>5. resources[rid] = None /\ \A r \in Resources \ {rid} : resources'[r] = resources[r]
    BY <1>0, <1>1, <1>4 DEF Live, StoreOK
  <1>6. ASSUME NEW r \in Resources, r # rid
        PROVE  /\ r \in Live' <=> r \in Live
               /\ r \in Live => Items(r)' = Items(r)
    BY <1>0, <1>2, <1>5, <1>6 DEF Live, Items, StoreOK
  <1>7. Items(rid)' = {}
    BY <1>0, <1>1, <1>2, <1>4 DEF Items, StoreOK
  <1>8. \A r : r \in Live \/ r \in Live' => r \in Resources
    BY DEF Live
  <1>9. \A r : r # rid => /\ r \in Live' <=> r \in Live
                          /\ r \in Live => Items(r)' = Items(r)
    BY <1>6, <1>8
  <1> QED BY <1>1, <1>2, <1>3, <1>4, <1>5, <1>7, <1>9

\* A resource is made.
LEMMA ItemsInserted ==
    ASSUME ItemsInv, GuardInv', NEW c \in Callers, InsertResource(c)
    PROVE  ItemsInv'
  <1>0. /\ GuardInv /\ CallsOK /\ SteadyOK /\ ItemsOK /\ BareOK
    BY DEF ItemsInv, GuardInv, TypeInv, TreeInv
  <1> PICK rid : rid = call[c].rid
    OBVIOUS
  <1>1. /\ call' = [call EXCEPT ![c] = Idle] /\ log' = log /\ stale' = stale
        /\ call[c].op = "create" /\ call[c].at = "drop" /\ SameIds
    BY <1>0, Inserted
  <1>5. /\ rid \in Resources /\ rid \notin Live /\ resources[rid] = None
        /\ \A r \in Resources \ {rid} : resources'[r] = resources[r]
    BY <1>0, Inserted
  <1>6. \A e, r : Has(e, r)' <=> Has(e, r)
    <2>1. /\ \A r : r # rid => /\ r \in Live' <=> r \in Live
                               /\ r \in Live => Items(r)' = Items(r)
          /\ Items(rid)' = {}
      BY <1>0, Inserted
    <2> QED BY <1>5, <2>1 DEF Has
  <1>7. call'[c] = Idle /\ \A b \in Callers \ {c} : call'[b] = call[b]
    BY <1>0, <1>1, OneCall
  <1>8. Idle.op = "none"
    BY DEF Idle
  <1>9. \A b \in Callers : /\ Pends(b)' <=> Pends(b)
                           /\ Pends(b) => call'[b] = call[b]
    BY <1>1, <1>7, <1>8 DEF Pends, Writing, Writes
  <1>10. ASSUME NEW b \in Callers \ {c}, NEW a \in HeldBy(b), Current(a) PROVE Current(a)'
    <2>1. a \in DOMAIN arcs /\ a # None /\ arcs[a].id \in Resources
      BY <1>0, HoldersWrite
    <2>2. arcs[a].id # rid
      BY <1>5, <1>10, <2>1 DEF Current
    <2>3. resources'[arcs[a].id] = a
      BY <1>5, <1>10, <2>1, <2>2 DEF Current
    <2> QED BY <1>0, <1>1, <1>8, <1>10, <2>1, <2>3, CurrentKept
  <1>11. SteadyOK'
    <2>1. ~Pends(c)'
      BY <1>7, <1>8 DEF Pends, Writing, Writes
    <2> QED BY <1>0, <1>1, <1>10, <2>1, SteadyKept
  <1>12. \A e, r : Will(e, r)' <=> Will(e, r)
    <2>1. \A e, r : (Coming(e, r)' <=> Coming(e, r)) /\ (Going(e, r)' <=> Going(e, r))
      BY <1>9 DEF Coming, Going, Puts, Takes
    <2> QED BY <1>6, <2>1 DEF Will
  <1>13. \A b \in Callers : \A r : Owed(b, "delete", r)' <=> Owed(b, "delete", r)
    BY <1>1, <1>7, <1>8 DEF Owed
  <1>14. ReplayAll(log)' = ReplayAll(log)
    BY <1>1
  <1>15. ItemsOK'
    BY <1>0, <1>1, <1>12, <1>13, <1>14 DEF ItemsOK
  <1>16. BareOK'
    BY <1>0, <1>14 DEF BareOK
  <1> QED BY <1>11, <1>15, <1>16 DEF ItemsInv

\* A resource is dropped.
LEMMA ItemsRemoved ==
    ASSUME ItemsInv, GuardInv', NEW c \in Callers, RemoveResource(c)
    PROVE  ItemsInv'
  <1>0. /\ GuardInv /\ CallsOK /\ StoreOK /\ IdsOK /\ SteadyOK /\ ItemsOK /\ BareOK /\ IntentOK
        /\ MutexOK /\ Tied(ReplayAll(log))
    BY DEF ItemsInv, GuardInv, TypeInv, TreeInv, LogOK
  <1> PICK rid : rid = call[c].rid
    OBVIOUS
  <1>1. /\ resources' = [resources EXCEPT ![rid] = None] /\ arcs' = arcs
        /\ call' = [call EXCEPT ![c] = Idle] /\ log' = log /\ stale' = stale
        /\ call[c].op = "delete" /\ call[c].at = "drop"
    BY DEF RemoveResource, Return, Becomes
  <1>2. Shapes(c) /\ Removing(c) /\ Changing(c)
    BY <1>1 DEF Removing, Changing, Shapes, Reshaping
  <1>3. /\ rid \in Resources /\ rid \in Live /\ call[c].arc = resources[rid]
        /\ Deleting(resources[rid])
    BY <1>0, <1>1, <1>2, Fields DEF IntentOK, Deleting
  <1>4. rid \notin Live' /\ \A r \in Resources \ {rid} : resources'[r] = resources[r]
    BY <1>0, <1>1, <1>3 DEF Live, StoreOK
  <1>5. \A e, r : r # rid => (Has(e, r)' <=> Has(e, r))
    BY <1>1, <1>4 DEF Has, Live, Items
  <1>6. call'[c] = Idle /\ \A b \in Callers \ {c} : call'[b] = call[b]
    BY <1>0, <1>1, OneCall
  <1>7. Idle.op = "none"
    BY DEF Idle
  <1>8. \A b \in Callers : /\ Pends(b)' <=> Pends(b)
                           /\ Pends(b) => call'[b] = call[b]
    BY <1>1, <1>6, <1>7 DEF Pends, Writing, Writes
  <1>9. SameIds
    BY <1>1 DEF SameIds
  <1>10. ASSUME NEW b \in Callers \ {c}, NEW a \in HeldBy(b), Current(a) PROVE Current(a)'
    <2>1. a \in DOMAIN arcs /\ a # None /\ arcs[a].id \in Resources
      BY <1>0, HoldersWrite
    <2>2. arcs[a].id # rid
      BY <1>3, <1>10, <2>1 DEF Current
    <2>3. resources'[arcs[a].id] = a
      BY <1>4, <1>10, <2>1, <2>2 DEF Current
    <2> QED BY <1>0, <1>1, <1>9, <1>7, <1>10, <2>1, <2>3, CurrentKept
  <1>11. SteadyOK'
    <2>1. ~Pends(c)'
      BY <1>6, <1>7 DEF Pends, Writing, Writes
    <2> QED BY <1>0, <1>1, <1>10, <2>1, SteadyKept
  <1>12. \A e, r : (Coming(e, r)' <=> Coming(e, r)) /\ (Going(e, r)' <=> Going(e, r))
    BY <1>8 DEF Coming, Going, Puts, Takes
  <1>13. ReplayAll(log)' = ReplayAll(log)
    BY <1>1
  <1>14. ASSUME NEW r \in Resources, \A b \in Callers : ~Owed(b, "delete", r)', NEW e, e \notin stale'
         PROVE  e \in ReplayAll(log).states[r].items <=> Will(e, r)'
    <2>1. CASE r # rid
      <3>1. \A b \in Callers : ~Owed(b, "delete", r)
        BY <1>6, <1>14, <2>1 DEF Owed
      <3>2. e \in ReplayAll(log).states[r].items <=> Will(e, r)
        BY <1>0, <1>1, <1>14, <3>1 DEF ItemsOK
      <3> QED BY <1>5, <1>12, <2>1, <3>2 DEF Will
    <2>2. CASE r = rid
      <3>1. ~Kept(rid)
        <4>1. ASSUME NEW b \in Callers, Owed(b, "create", rid) PROVE FALSE
          <5>1. Changing(b) /\ b # c
            BY <1>1, <4>1 DEF Owed, Changing, Shapes, Reshaping
          <5>2. HasTopology(b) /\ HasTopology(c)
            BY <1>0, <1>2, <5>1 DEF MutexOK
          <5> QED BY <5>1, <5>2 DEF HasTopology
        <4>2. Owed(c, "delete", rid)
          BY <1>1 DEF Owed
        <4> QED BY <4>1, <4>2 DEF Kept
      <3>2. ReplayAll(log).states[rid].items = {}
        BY <1>0, <1>3, <3>1 DEF Tied, There, BareOK
      <3>3. ~Coming(e, rid)
        <4>1. ASSUME NEW b \in Callers, Pends(b), Touches(call[b], e, rid) PROVE FALSE
          BY <1>0, <1>1, <1>3, <1>14, <4>1, SteadyPuts
        <4> QED BY <4>1 DEF Coming, Touches
      <3>4. ~Has(e, rid)'
        BY <1>4 DEF Has
      <3> QED BY <1>12, <2>2, <3>2, <3>3, <3>4 DEF Will
    <2> QED BY <2>1, <2>2
  <1>15. ItemsOK'
    BY <1>13, <1>14 DEF ItemsOK
  <1>16. BareOK'
    BY <1>0, <1>13 DEF BareOK
  <1> QED BY <1>11, <1>15, <1>16 DEF ItemsInv

\* A restart has what replay builds, and no call.
LEMMA Rebuilt ==
    ASSUME GuardInv, Restart, NEW g, g = ReplayAll(log)
    PROVE  /\ Live' = There(g)
           /\ \A r \in There(g) : Items(r)' = g.states[r].items
           /\ entity' = g.entity /\ log' = log /\ twice' = twice
           /\ \A c \in Callers : call'[c] = Idle
           /\ stale' = stale \cup {e \in Entities : /\ g.entity[e] # None
                                                    /\ e \notin Replay.states[g.entity[e]].items}
  <1>0. TypeInv /\ TreeInv
    BY DEF GuardInv, TypeInv
  <1> PICK s, T, q : /\ s = Replay /\ T = {r \in Resources : s.states[r].there}
                     /\ q = SetToSeq(T)
    OBVIOUS
  <1>1. \A r \in Resources : /\ s.states[r].there <=> g.states[r].there
                             /\ g.states[r].there => s.states[r] = g.states[r]
    BY <1>0, NoneDetached
  <1>2. T = There(g)
    BY <1>1 DEF There
  <1>3. PICK n \in Nat : /\ q \in [1 .. n -> T]
                         /\ \A r \in T : \E k \in 1 .. n : q[k] = r
    <2>1. IsFiniteSet(T)
      BY TopologyAssumption, FS_Subset
    <2>2. q = SetToSeq(T)
      OBVIOUS
    <2> QED BY ONLY <2>1, <2>2, Listed
  <1>4. DOMAIN q = 1 .. n
    BY <1>3
  <1>5. /\ arcs' = [k \in DOMAIN q |-> [id |-> q[k], parent |-> s.states[q[k]].parent,
                                      items |-> s.states[q[k]].items]]
        /\ resources' = [r \in Resources |->
                IF s.states[r].there THEN CHOOSE k \in DOMAIN q : q[k] = r ELSE None]
        /\ entity' = s.entity /\ log' = log /\ twice' = twice
        /\ call' = [c \in Callers |-> Idle]
        /\ stale' = stale \cup {e \in Entities : /\ s.entity[e] # None
                                                 /\ e \notin s.states[s.entity[e]].items}
    BY DEF Restart
  <1>6. s.entity = g.entity
    BY DEF Replay, Detached
  <1>7. ASSUME NEW r \in T PROVE resources'[r] \in 1 .. n /\ q[resources'[r]] = r
    <2>1. r \in Resources /\ s.states[r].there
      OBVIOUS
    <2>2. resources'[r] = CHOOSE k \in 1 .. n : q[k] = r
      BY <1>4, <1>5, <2>1
    <2>3. \E k \in 1 .. n : q[k] = r
      BY <1>3
    <2> QED BY ONLY <2>2, <2>3, Zenon
  <1>8. ASSUME NEW r \in Resources, r \notin T PROVE resources'[r] = None
    <2>1. ~s.states[r].there
      BY <1>8
    <2> QED BY <1>5, <2>1
  <1>9. ASSUME NEW r \in T PROVE resources'[r] # None
    BY <1>7 DEF None
  <1>10. Live' = T
    BY <1>8, <1>9 DEF Live
  <1>11. ASSUME NEW r \in T PROVE Items(r)' = g.states[r].items
    <2> PICK k : k = resources'[r]
      OBVIOUS
    <2>1. k \in 1 .. n /\ q[k] = r
      BY <1>7
    <2>2. arcs'[k].items = s.states[r].items
      BY <1>4, <1>5, <2>1
    <2>3. s.states[r] = g.states[r]
      BY <1>1
    <2> QED BY <2>2, <2>3 DEF Items
  <1>12. \A c \in Callers : call'[c] = Idle
    BY <1>5
  <1>13. stale' = stale \cup {e \in Entities : /\ g.entity[e] # None
                                               /\ e \notin Replay.states[g.entity[e]].items}
    BY <1>5, <1>6
  <1> QED BY <1>2, <1>5, <1>6, <1>10, <1>11, <1>12, <1>13

\* A restart builds the items anew from the log, and nothing is on its way.
LEMMA ItemsRestarted ==
    ASSUME ItemsInv, GuardInv', Restart
    PROVE  ItemsInv'
  <1> PICK g : g = ReplayAll(log)
    OBVIOUS
  <1>1. /\ Live' = There(g)
        /\ \A r \in There(g) : Items(r)' = g.states[r].items
        /\ log' = log /\ \A c \in Callers : call'[c] = Idle
    BY Rebuilt DEF ItemsInv
  <1>2. Idle.op = "none"
    BY DEF Idle
  <1>3. \A c \in Callers : ~Pends(c)'
    BY <1>1, <1>2 DEF Pends, Writing, Writes
  <1>4. ReplayAll(log)' = g
    BY <1>1
  <1>5. SteadyOK'
    BY <1>3 DEF SteadyOK
  <1>6. BareOK'
    BY <1>4 DEF ItemsInv, BareOK
  <1>7. ASSUME NEW r \in Resources, NEW e PROVE e \in g.states[r].items <=> Will(e, r)'
    <2>1. Will(e, r)' <=> Has(e, r)'
      BY <1>3 DEF Will, Coming, Going
    <2>2. CASE r \in There(g)
      BY <1>1, <2>1, <2>2 DEF Has
    <2>3. CASE r \notin There(g)
      <3>1. g.states[r].items = {}
        BY <2>3 DEF ItemsInv, BareOK
      <3> QED BY <1>1, <2>1, <2>3, <3>1 DEF Has
    <2> QED BY <2>2, <2>3
  <1>8. ItemsOK'
    BY <1>4, <1>7 DEF ItemsOK
  <1> QED BY <1>5, <1>6, <1>8 DEF ItemsInv

\* Every step keeps the contents.
LEMMA ItemsKeep ==
    ASSUME ItemsInv, [Next]_vars
    PROVE  ItemsInv'
  <1>0. GuardInv'
    BY GuardsKeep DEF ItemsInv
  <1>1. ASSUME NEW c \in Callers, Step(c) PROVE ItemsInv'
    <2>1. CASE QueueRecords(c) \/ ApplyRecords(c)
      BY <1>0, <2>1, ItemsQueued, ItemsWritten
    <2>2. CASE AppendShape(c) \/ InsertResource(c) \/ RemoveResource(c)
      BY <1>0, <2>2, ItemsShaped, ItemsInserted, ItemsRemoved
    <2> QED BY <1>0, <1>1, <2>1, <2>2, ItemsOnTheWay
  <1>2. ASSUME NEW c \in Callers, NEW new \in Operations, Begin(c, new) PROVE ItemsInv'
    <2>1. /\ call' = [call EXCEPT ![c] = new] /\ call[c] = Idle
          /\ arcs' = arcs /\ resources' = resources /\ log' = log /\ stale' = stale
      BY <1>2 DEF Begin, Becomes, locks, store
    <2>2. new = Call(new.op, new.rid, new.parent, new.members)
      BY OperationsAssumption
    <2>3. new.at = "start"
      BY ONLY <2>2 DEF Call, Idle
    <2>4. Idle.at = "idle"
      BY DEF Idle
    <2> QED BY <1>0, <2>1, <2>3, <2>4, ItemsQuiet
  <1>3. CASE Restart
    BY <1>0, <1>3, ItemsRestarted
  <1>4. CASE UNCHANGED vars
    <2>1. /\ call' = call /\ arcs' = arcs /\ resources' = resources /\ log' = log
          /\ stale' = stale
      BY <1>4 DEF vars, store, locks
    <2>2. SteadyOK'
      BY <2>1 DEF ItemsInv, SteadyOK, Pends, Writing, Steady, HeldBy, Current, Deleting, Touched
    <2>3. BareOK' /\ ReplayAll(log)' = ReplayAll(log)
      BY <2>1 DEF ItemsInv, BareOK
    <2>4. \A e, r : Will(e, r)' <=> Will(e, r)
      BY <2>1 DEF Will, Has, Live, Items, Coming, Going, Pends, Writing, Puts, Takes
    <2>5. ItemsOK'
      BY <2>1, <2>3, <2>4 DEF ItemsInv, ItemsOK, Owed
    <2> QED BY <1>0, <2>2, <2>3, <2>5 DEF ItemsInv
  <1> QED BY <1>1, <1>2, <1>3, <1>4 DEF Next

\* At first nothing holds anything.
LEMMA InitItems ==
    ASSUME Init
    PROVE  ItemsInv
  <1>1. GuardInv
    BY InitGuards
  <1>2. Idle.op = "none"
    BY DEF Idle
  <1>3. \A c \in Callers : ~Pends(c)
    BY <1>2 DEF Init, Pends, Writing, Writes
  <1>4. ReplayAll(log) = Nothing /\ Live = {}
    BY ReplayIsStepwise DEF Init, Live
  <1>5. \A r \in Resources : Nothing.states[r].items = {}
    BY DEF Nothing
  <1>6. \A e, r : ~Will(e, r)
    BY <1>3, <1>4 DEF Will, Coming, Has
  <1> QED BY <1>1, <1>3, <1>4, <1>5, <1>6 DEF ItemsInv, SteadyOK, ItemsOK, BareOK

\* The items of memory and log agree in every state.
LEMMA Contents ==
    Spec => []ItemsInv
  <1>1. Init => ItemsInv
    BY InitItems
  <1>2. ItemsInv /\ [Next]_vars => ItemsInv'
    BY ItemsKeep
  <1> QED BY <1>1, <1>2, PTL DEF Spec

\* Between two records nothing is on its way.
LEMMA ContentsMeanReplay ==
    ItemsInv => MemoryIsReplay
  <1> SUFFICES ASSUME ItemsInv, Between PROVE MemoryIsReplay
    BY DEF MemoryIsReplay
  <1> PICK g : g = ReplayAll(log)
    OBVIOUS
  <1>0. TreeInv
    BY DEF ItemsInv, GuardInv, TypeInv
  <1>1. \A r \in Resources : /\ Replay.states[r].there <=> r \in Live
                             /\ r \in Live => Replay.states[r].parent = get_parent(r)
    BY <1>0, TreeInvMeansReplay DEF TreeIsReplay
  <1>2. \A c \in Callers : ~Pends(c) /\ \A r : ~Owed(c, "delete", r)
    BY DEF Between, Pends, Owed
  <1>3. ASSUME NEW r \in Resources, r \in Live
        PROVE  Replay.states[r].items \ stale = Items(r) \ stale
    <2>1. Replay.states[r] = g.states[r]
      BY <1>0, <1>1, <1>3, NoneDetached
    <2>2. ASSUME NEW e, e \notin stale PROVE e \in g.states[r].items <=> e \in Items(r)
      <3>1. e \in g.states[r].items <=> Will(e, r)
        BY <1>2, <2>2 DEF ItemsInv, ItemsOK
      <3> QED BY <1>2, <1>3, <3>1 DEF Will, Coming, Going, Has
    <2> QED BY <2>1, <2>2
  <1> QED BY <1>1, <1>3 DEF MemoryIsReplay

\* Write-ahead (engine/mutations.rs: wal_append, then apply_event, under the
\* guards): between two records, whatever calls and restarts there were, a
\* restart would find the resources, the parents and the rules, holds and
\* bookings that memory has; save those a call changed through a resource that
\* was being deleted.
THEOREM MemoryIsWhatReplayBuilds ==
    Spec => []MemoryIsReplay
  BY Contents, ContentsMeanReplay, PTL

-------------------------------------------------------------------------------
(* The index.                                                              *)

\* Entities that were neither changed through a state being deleted nor placed
\* by two calls at once.
Sound == Entities \ (stale \cup twice)

\* What a call takes from a state is still there.
FoundOK ==
    \A c \in Callers : InFlight(c) =>
        \A e, r : Takes(call[c], e, r) =>
            \E a \in HeldBy(c) : arcs[a].id = r /\ e \in arcs[a].items

\* What it places is nowhere yet, and nobody else is about to place it.
FreshOK ==
    \A c \in Callers : InFlight(c) => \A e \in Appears(c) \cap Sound :
        /\ entity[e] = None
        /\ \A r \in Live : e \notin Items(r)
        /\ \A d \in Callers \ {c} : InFlight(d) => e \notin Appears(d)

\* The index leads to what holds the entity, which nothing else does; what a
\* delete has unmapped is in no index.
ExactOK ==
    \A e \in Sound :
        /\ entity[e] # None => /\ entity[e] \in Live /\ e \in Items(entity[e])
                               /\ Current(resources[entity[e]])
        /\ \A r \in Live : e \in Items(r) =>
              entity[e] = r \/ (entity[e] = None /\ ~Current(resources[r]))

\* So it does in the log.
LogIndexOK ==
    \A e \in Sound : \A r \in Resources :
        e \in ReplayAll(log).states[r].items => ReplayAll(log).entity[e] = r

IndexOK == FoundOK /\ FreshOK /\ ExactOK /\ LogIndexOK
IndexInv == ItemsInv /\ IndexOK

\* What a call makes appear, member by member.
LEMMA AppearsPut ==
    ASSUME NEW c \in Callers, Writing(c), NEW e
    PROVE  e \in Appears(c) <=> \E r : Puts(call[c], e, r)
  <1>1. CASE call[c].op = "commit"
    BY <1>1 DEF Appears, Puts
  <1>2. CASE call[c].op = "remove"
    BY <1>2 DEF Appears, Puts
  <1>3. CASE call[c].op \in {"add", "batch"}
    BY <1>3 DEF Appears, Puts
  <1> QED BY <1>1, <1>2, <1>3 DEF Writing, Writes

\* A state that the table leads to after a step is one that it led to before.
LEMMA WasCurrent ==
    ASSUME CallsOK, NEW c \in Callers, NEW new, call' = [call EXCEPT ![c] = new], SameIds,
           NEW a \in DOMAIN arcs, Current(a)', resources[arcs[a].id] = a,
           ~ (call[c].op = "delete" /\ call[c].at \in {"append", "drop"} /\ call[c].arc = a)
    PROVE  Current(a)
  <1>1. call'[c] = new /\ \A b \in Callers \ {c} : call'[b] = call[b]
    BY OneCall
  <1>2. ~Deleting(a)
    <2>1. ASSUME NEW d \in Callers, call[d].op = "delete", call[d].arc = a,
                 call[d].at \in {"append", "drop"}
          PROVE  FALSE
      <3>1. CASE d = c
        BY <2>1, <3>1
      <3>2. CASE d # c
        BY <1>1, <2>1, <3>2 DEF Current, Deleting
      <3> QED BY <3>1, <3>2
    <2> QED BY <2>1 DEF Deleting
  <1> QED BY <1>2 DEF Current

\* Calls that have made their checks, and go on.
LEMMA FreshKept ==
    ASSUME FoundOK, FreshOK, NEW c \in Callers,
           \A b \in Callers : InFlight(b)' => InFlight(b) /\ (b = c \/ call'[b] = call[b]),
           InFlight(c)' => /\ call'[c].op = call[c].op /\ call'[c].held = call[c].held
                           /\ call'[c].members = call[c].members,
           \A b \in Callers : InFlight(b)' => \A a \in HeldBy(b) : arcs'[a] = arcs[a],
           \A b \in Callers : InFlight(b)' => \A e \in Appears(b) \cap Sound :
               /\ entity'[e] = None \/ entity'[e] = entity[e]
               /\ \A r \in Live' : r \in Live \/ e \notin Items(r)'
               /\ \A r \in Live \cap Live' : e \in Items(r)' => e \in Items(r),
           stale \subseteq stale', twice \subseteq twice'
    PROVE  FoundOK' /\ FreshOK'
  <1>1. ASSUME NEW b \in Callers, InFlight(b)'
        PROVE  /\ InFlight(b) /\ call'[b].op = call[b].op /\ call'[b].held = call[b].held
               /\ call'[b].members = call[b].members
    BY <1>1
  <1>2. ASSUME NEW b \in Callers, InFlight(b)'
        PROVE  Appears(b)' = Appears(b) /\ HeldBy(b)' = HeldBy(b)
    BY <1>1, <1>2 DEF Appears, HeldBy
  <1>3. Sound' \subseteq Sound
    BY DEF Sound
  <1>4. FoundOK'
    <2>1. ASSUME NEW b \in Callers, InFlight(b)', NEW e, NEW r, Takes(call'[b], e, r)
          PROVE  \E a \in HeldBy(b)' : arcs'[a].id = r /\ e \in arcs'[a].items
      <3>1. Takes(call[b], e, r)
        BY <1>1, <2>1 DEF Takes
      <3>2. PICK a \in HeldBy(b) : arcs[a].id = r /\ e \in arcs[a].items
        BY <1>1, <2>1, <3>1 DEF FoundOK
      <3> QED BY <1>2, <2>1, <3>2
    <2>2. \A b, e, r : Takes(call[b], e, r)' <=> Takes(call'[b], e, r)
      BY DEF Takes
    <2> QED BY <2>1, <2>2 DEF FoundOK
  <1>5. FreshOK'
    <2>1. ASSUME NEW b \in Callers, InFlight(b)', NEW e \in Appears(b)' \cap Sound'
          PROVE  /\ entity'[e] = None
                 /\ \A r \in Live' : e \notin Items(r)'
                 /\ \A d \in Callers \ {b} : InFlight(d)' => e \notin Appears(d)'
      <3>1. e \in Appears(b) \cap Sound /\ InFlight(b)
        BY <1>1, <1>2, <1>3, <2>1
      <3>2. /\ entity[e] = None
            /\ \A r \in Live : e \notin Items(r)
            /\ \A d \in Callers \ {b} : InFlight(d) => e \notin Appears(d)
        BY <3>1 DEF FreshOK
      <3> QED BY <1>1, <1>2, <2>1, <3>1, <3>2
    <2> QED BY <2>1 DEF FreshOK
  <1> QED BY <1>4, <1>5

\* The table leads to the resource's state, while nobody deletes it.
Leads(r) == Current(resources[r])
Hides(x, a) == x.op = "delete" /\ x.at \in {"append", "drop"} /\ x.arc = a

\* What no step but a write changes.
LEMMA ExactKept ==
    ASSUME ExactOK, entity' = entity, stale \subseteq stale', twice \subseteq twice',
           \A r \in Live : Leads(r) => r \in Live' /\ Leads(r)' /\ Items(r)' = Items(r),
           \A r \in Live' : \A e \in Items(r)' :
               r \in Live /\ e \in Items(r) /\ (Leads(r)' => Leads(r))
    PROVE  ExactOK'
  <1>1. Sound' \subseteq Sound
    BY DEF Sound
  <1>2. ASSUME NEW e \in Sound', entity'[e] # None
        PROVE  /\ entity'[e] \in Live' /\ e \in Items(entity[e])' /\ Leads(entity[e])'
    <2> PICK r : r = entity[e]
      OBVIOUS
    <2>1. entity'[e] = r
      OBVIOUS
    <2>2. r \in Live /\ e \in Items(r) /\ Leads(r)
      BY <1>1, <1>2, <2>1 DEF ExactOK, Leads
    <2>3. r \in Live' /\ Leads(r)' /\ Items(r)' = Items(r)
      BY <2>2
    <2> QED BY <2>1, <2>2, <2>3 DEF Leads, Items
  <1>3. ASSUME NEW e \in Sound', NEW r \in Live', e \in Items(r)'
        PROVE  entity'[e] = r \/ (entity'[e] = None /\ ~Leads(r)')
    <2>1. r \in Live /\ e \in Items(r) /\ (Leads(r)' => Leads(r))
      BY <1>3
    <2> QED BY <1>1, <2>1 DEF ExactOK, Leads
  <1> QED BY <1>2, <1>3 DEF ExactOK, Leads

\* The table, where a step leaves it.
LEMMA LeadsKept ==
    ASSUME CallsOK, NEW c \in Callers, NEW new, call' = [call EXCEPT ![c] = new],
           arcs' = arcs, resources' = resources, \A a : Hides(new, a) <=> Hides(call[c], a)
    PROVE  /\ Live' = Live
           /\ \A r : (Items(r)' = Items(r)) /\ (Leads(r)' <=> Leads(r))
  <1>1. call'[c] = new /\ \A b \in Callers \ {c} : call'[b] = call[b]
    BY OneCall
  <1>2. ASSUME NEW a PROVE Deleting(a)' <=> Deleting(a)
    <2>1. Deleting(a) <=> \E b \in Callers : Hides(call[b], a)
      BY DEF Deleting, Hides
    <2>2. Deleting(a)' <=> \E b \in Callers : Hides(call'[b], a)
      BY DEF Deleting, Hides
    <2>3. \A b \in Callers : Hides(call'[b], a) <=> Hides(call[b], a)
      BY <1>1
    <2> QED BY <2>1, <2>2, <2>3
  <1>3. Live' = Live /\ \A r : Items(r)' = Items(r)
    BY DEF Live, Items
  <1>4. \A r : Leads(r)' <=> Leads(r)
    BY <1>2 DEF Leads, Current
  <1> QED BY <1>3, <1>4

\* A step of a call that is not between its checks and its end.
LEMMA IndexQuiet ==
    ASSUME IndexInv, NEW c \in Callers, NEW new, call' = [call EXCEPT ![c] = new],
           ~ (new.op \in Writes /\ new.at \in {"append", "apply"}),
           \A a : Hides(new, a) <=> Hides(call[c], a),
           UNCHANGED store, log' = log, stale' = stale, twice' = twice
    PROVE  IndexOK'
  <1>0. CallsOK /\ FoundOK /\ FreshOK /\ ExactOK /\ LogIndexOK
    BY DEF IndexInv, IndexOK, ItemsInv, GuardInv, TypeInv, TreeInv
  <1>1. call'[c] = new /\ \A b \in Callers \ {c} : call'[b] = call[b]
    BY <1>0, OneCall
  <1>2. arcs' = arcs /\ resources' = resources /\ entity' = entity
    BY DEF store
  <1>3. Live' = Live /\ \A r : (Items(r)' = Items(r)) /\ (Leads(r)' <=> Leads(r))
    BY <1>0, <1>2, LeadsKept
  <1>4. ~InFlight(c)'
    BY <1>1 DEF InFlight, Writing
  <1>5. \A b \in Callers : InFlight(b)' => InFlight(b) /\ b # c /\ call'[b] = call[b]
    BY <1>1, <1>4 DEF InFlight, Writing
  <1>6. FoundOK' /\ FreshOK'
    BY <1>0, <1>2, <1>3, <1>4, <1>5, FreshKept
  <1>7. ExactOK'
    BY <1>0, <1>2, <1>3, ExactKept
  <1>8. Sound' = Sound
    BY DEF Sound
  <1>9. ReplayAll(log)' = ReplayAll(log)
    OBVIOUS
  <1>10. LogIndexOK'
    BY <1>0, <1>8, <1>9 DEF LogIndexOK
  <1> QED BY <1>6, <1>7, <1>10 DEF IndexOK

\* Its checks: what it takes is there, what it places is nowhere.
LEMMA IndexChecked ==
    ASSUME IndexInv, GuardInv', NEW c \in Callers, Check(c)
    PROVE  IndexOK'
  <1>0. /\ GuardInv /\ CallsOK /\ FoundOK /\ FreshOK /\ ExactOK /\ LogIndexOK
    BY DEF IndexInv, IndexOK, ItemsInv, GuardInv, TypeInv, TreeInv
  <1> PICK x : x = call[c]
    OBVIOUS
  <1>1. UNCHANGED store /\ log' = log /\ stale' = stale /\ x.at = "check" /\ Writing(c)
    BY <1>0, Checked
  <1>2. CASE Return(c) /\ twice' = twice
    <2>1. call' = [call EXCEPT ![c] = Idle] /\ Idle.at = "idle"
      BY <1>2 DEF Return, Becomes, Idle
    <2> QED BY <1>1, <1>2, <2>1, IndexQuiet DEF Hides
  <1>3. ASSUME NEW new, call' = [call EXCEPT ![c] = new], Checks(c), new.op = x.op,
               new.at = "append", new.members = x.members, new.held = x.held,
               twice' = twice \cup (Appears(c) \cap Contended)
        PROVE  IndexOK'
    <2>1. call'[c] = new /\ \A b \in Callers \ {c} : call'[b] = call[b]
      BY <1>0, <1>3, OneCall
    <2>2. arcs' = arcs /\ resources' = resources /\ entity' = entity
      BY <1>1 DEF store
    <2>3. Live' = Live /\ \A r : (Items(r)' = Items(r)) /\ (Leads(r)' <=> Leads(r))
      <3>1. \A a : Hides(new, a) <=> Hides(call[c], a)
        BY <1>1, <1>3 DEF Hides, Writing, Writes
      <3> QED BY <1>0, <1>3, <2>2, <3>1, LeadsKept
    <2>4. InFlight(c)' /\ ~InFlight(c)
      BY <1>1, <1>3, <2>1 DEF InFlight, Writing
    <2>5. \A b \in Callers \ {c} : InFlight(b)' <=> InFlight(b)
      BY <2>1 DEF InFlight, Writing
    <2>6. \A b \in Callers : Appears(b)' = Appears(b) /\ HeldBy(b)' = HeldBy(b)
      BY <1>3, <2>1 DEF Appears, HeldBy
    <2>7. Sound' \subseteq Sound
      BY <1>1, <1>3 DEF Sound
    <2>8. FoundOK'
      <3>1. ASSUME NEW b \in Callers, InFlight(b)', NEW e, NEW r, Takes(call'[b], e, r)
            PROVE  \E a \in HeldBy(b)' : arcs'[a].id = r /\ e \in arcs'[a].items
        <4>1. CASE b # c
          <5>1. Takes(call[b], e, r) /\ InFlight(b)
            BY <2>1, <2>5, <3>1, <4>1 DEF Takes
          <5> QED BY <1>0, <2>2, <2>6, <5>1 DEF FoundOK
        <4>2. CASE b = c
          <5>1. PICK m \in x.members : m.id = e /\ m.rid = r /\ x.op \in {"remove", "commit"}
            BY <1>3, <2>1, <3>1, <4>2 DEF Takes
          <5>2. e \in arcs[Held(c, r)].items
            BY <1>3, <5>1 DEF Checks
          <5>3. \E a \in Range(call[c].held) : arcs[a].id = r
            <6>1. Covered(x)
              BY <1>0 DEF GuardInv, FitOK, Fits
            <6>2. x.tolock = <<>>
              BY DEF Check, Holding
            <6>3. Range(<<>>) = {}
              BY DEF Range
            <6> QED BY <1>1, <5>1, <6>1, <6>2, <6>3 DEF Covered, Writing
          <5>4. Held(c, r) \in Range(call[c].held) /\ arcs[Held(c, r)].id = r
            BY <5>3, Zenon DEF Held
          <5> QED BY <2>2, <2>6, <4>2, <5>2, <5>4 DEF HeldBy
        <4> QED BY <4>1, <4>2
      <3>2. \A b, e, r : Takes(call[b], e, r)' <=> Takes(call'[b], e, r)
        BY DEF Takes
      <3> QED BY <3>1, <3>2 DEF FoundOK
    <2>9. FreshOK'
      <3>1. ASSUME NEW e \in Appears(c) \cap Sound'
            PROVE  /\ entity[e] = None /\ \A r \in Live : e \notin Items(r)
                   /\ \A d \in Callers \ {c} : InFlight(d) => e \notin Appears(d)
        <4>1. e \in Sound /\ e \notin Contended
          BY <1>3, <2>7 DEF Sound
        <4>2. entity[e] = None
          <5>1. PICK r : Puts(x, e, r)
            BY <1>1, AppearsPut
          <5> QED BY <1>3, <5>1 DEF Checks, Puts, Taken
        <4>3. ASSUME NEW r \in Live, e \in Items(r) PROVE FALSE
          <5>1. r # None
            BY TopologyAssumption DEF Live, None
          <5>2. ~Current(resources[r])
            BY <1>0, <4>1, <4>2, <4>3, <5>1 DEF ExactOK
          <5>3. e \in Contended
            BY <4>3, <5>2, Zenon DEF Contended
          <5> QED BY <4>1, <5>3
        <4>4. ASSUME NEW d \in Callers \ {c}, InFlight(d), e \in Appears(d) PROVE FALSE
          <5>1. call[d].at \in {"append", "apply"}
            BY <4>4 DEF InFlight
          <5>2. e \in Contended
            BY <4>4, <5>1 DEF Contended
          <5> QED BY <4>1, <5>2
        <4> QED BY <4>2, <4>3, <4>4
      <3>2. ASSUME NEW b \in Callers \ {c}, InFlight(b), NEW e \in Appears(b) \cap Sound'
            PROVE  /\ entity[e] = None /\ \A r \in Live : e \notin Items(r)
                   /\ \A d \in Callers \ {b, c} : InFlight(d) => e \notin Appears(d)
                   /\ e \notin Appears(c)
        <4>1. /\ entity[e] = None /\ \A r \in Live : e \notin Items(r)
              /\ \A d \in Callers \ {b, c} : InFlight(d) => e \notin Appears(d)
          BY <1>0, <2>7, <3>2 DEF FreshOK
        <4>2. e \notin Appears(c)
          BY <3>1, <3>2
        <4> QED BY <4>1, <4>2
      <3>3. ASSUME NEW b \in Callers, InFlight(b)', NEW e \in Appears(b)' \cap Sound'
            PROVE  /\ entity'[e] = None /\ \A r \in Live' : e \notin Items(r)'
                   /\ \A d \in Callers \ {b} : InFlight(d)' => e \notin Appears(d)'
        <4>1. CASE b = c
          BY <2>2, <2>3, <2>5, <2>6, <3>1, <3>3, <4>1
        <4>2. CASE b # c
          BY <2>2, <2>3, <2>5, <2>6, <3>2, <3>3, <4>2
        <4> QED BY <4>1, <4>2
      <3> QED BY <3>3 DEF FreshOK
    <2>10. ExactOK'
      BY <1>0, <1>1, <1>3, <2>2, <2>3, ExactKept
    <2>11. ReplayAll(log)' = ReplayAll(log)
      BY <1>1
    <2>12. LogIndexOK'
      BY <1>0, <2>7, <2>11 DEF LogIndexOK
    <2> QED BY <2>8, <2>9, <2>10, <2>12 DEF IndexOK
  <1> QED BY <1>0, <1>2, <1>3, Checked

\* Where replay has a resource, no delete of it is in the log before memory.
LEMMA ThereStays ==
    ASSUME TreeInv, NEW r \in There(ReplayAll(log)), NEW c \in Callers, Owed(c, "delete", r)
    PROVE  FALSE
  <1>0. Tied(ReplayAll(log)) /\ MutexOK
    BY DEF TreeInv, LogOK
  <1>1. Kept(r)
    BY <1>0 DEF Tied, There
  <1>2. PICK b \in Callers : Owed(b, "create", r)
    BY <1>1 DEF Kept
  <1>3. Changing(b) /\ Changing(c) /\ b # c
    BY <1>2 DEF Owed, Changing, Shapes, Reshaping
  <1>4. HasTopology(b) /\ HasTopology(c)
    BY <1>0, <1>3 DEF MutexOK
  <1> QED BY <1>3, <1>4 DEF HasTopology

\* An entity that a call is about to place is in no resource of the log.
LEMMA FreshIsNew ==
    ASSUME IndexInv, NEW c \in Callers, InFlight(c), ~Pends(c), NEW e \in Appears(c) \cap Sound,
           NEW r \in Resources, e \in ReplayAll(log).states[r].items
    PROVE  FALSE
  <1>0. TreeInv /\ ItemsOK /\ BareOK /\ FreshOK
    BY DEF IndexInv, IndexOK, ItemsInv, GuardInv, TypeInv
  <1>1. r \in There(ReplayAll(log))
    BY <1>0 DEF BareOK
  <1>2. \A b \in Callers : ~Owed(b, "delete", r)
    BY <1>0, <1>1, ThereStays
  <1>3. Will(e, r)
    BY <1>0, <1>2 DEF ItemsOK, Sound
  <1>4. /\ \A q \in Live : e \notin Items(q)
        /\ \A d \in Callers \ {c} : InFlight(d) => e \notin Appears(d)
    BY <1>0 DEF FreshOK
  <1>5. ~Coming(e, r)
    <2>1. ASSUME NEW b \in Callers, Pends(b), Puts(call[b], e, r) PROVE FALSE
      <3>1. InFlight(b) /\ Writing(b) /\ b # c
        BY <2>1 DEF Pends, InFlight
      <3>2. e \in Appears(b)
        BY <2>1, <3>1, AppearsPut
      <3> QED BY <1>4, <3>1, <3>2
    <2> QED BY <2>1 DEF Coming
  <1> QED BY <1>3, <1>4, <1>5 DEF Will, Has

\* The resource that a call takes an entity from is where the index has it,
\* and no other resource of the log has it.
LEMMA FoundIsThere ==
    ASSUME IndexInv, NEW c \in Callers, InFlight(c), Steady(c), NEW e \in Sound, NEW q,
           Takes(call[c], e, q)
    PROVE  /\ q \in Live /\ e \in Items(q) /\ entity[e] = q
           /\ \A r \in Live : e \in Items(r) => r = q
           /\ \A r \in Resources : e \in ReplayAll(log).states[r].items => r = q
  <1>0. GuardInv /\ TreeInv /\ ItemsOK /\ BareOK /\ FreshOK /\ FoundOK /\ ExactOK
    BY DEF IndexInv, IndexOK, ItemsInv, GuardInv, TypeInv
  <1>1. PICK a \in HeldBy(c) : arcs[a].id = q /\ e \in arcs[a].items
    BY <1>0 DEF FoundOK
  <1>2. resources[q] = a /\ Current(a) /\ a # None /\ q \in Resources
    BY <1>0, <1>1, HoldersWrite DEF Steady, Current
  <1>3. q \in Live /\ e \in Items(q)
    BY <1>1, <1>2 DEF Live, Items
  <1>4. entity[e] = q /\ q # None
    <2>1. q # None
      BY <1>2, TopologyAssumption DEF None
    <2> QED BY <1>0, <1>2, <1>3, <2>1 DEF ExactOK
  <1>5. \A r \in Live : e \in Items(r) => r = q
    BY <1>0, <1>4 DEF ExactOK
  <1>6. ASSUME NEW r \in Resources, e \in ReplayAll(log).states[r].items PROVE r = q
    <2>1. r \in There(ReplayAll(log))
      BY <1>0, <1>6 DEF BareOK
    <2>2. \A b \in Callers : ~Owed(b, "delete", r)
      BY <1>0, <2>1, ThereStays
    <2>3. Will(e, r)
      BY <1>0, <1>6, <2>2 DEF ItemsOK, Sound
    <2>4. ~Coming(e, r)
      <3>1. ASSUME NEW b \in Callers, Pends(b), Puts(call[b], e, r) PROVE FALSE
        <4>1. InFlight(b) /\ Writing(b)
          BY <3>1 DEF Pends, InFlight
        <4>2. e \in Appears(b)
          BY <3>1, <4>1, AppearsPut
        <4> QED BY <1>0, <1>4, <4>1, <4>2 DEF FreshOK
      <3> QED BY <3>1 DEF Coming
    <2> QED BY <1>5, <2>3, <2>4 DEF Will, Has
  <1> QED BY <1>3, <1>4, <1>5, <1>6

\* The records are queued.
LEMMA IndexQueued ==
    ASSUME IndexInv, ItemsInv', NEW c \in Callers, QueueRecords(c)
    PROVE  IndexOK'
  <1>0. /\ GuardInv /\ CallsOK /\ IsSeq(log) /\ Formed(ReplayAll(log)) /\ BareOK /\ BareOK'
        /\ FoundOK /\ FreshOK /\ ExactOK /\ LogIndexOK
    BY DEF IndexInv, IndexOK, ItemsInv, GuardInv, TypeInv, TreeInv, LogOK
  <1> PICK x, recs, g, h : /\ x = call[c] /\ recs = Records(c) /\ g = ReplayAll(log)
                           /\ h = ReplayAll(log \o recs)
    OBVIOUS
  <1> PICK new : new = [x EXCEPT !.at = "apply"]
    OBVIOUS
  <1>a. x = [op |-> x.op, rid |-> x.rid, parent |-> x.parent, members |-> x.members,
             at |-> x.at, todo |-> x.todo, tolock |-> x.tolock, arc |-> x.arc,
             want |-> x.want, held |-> x.held]
    BY <1>0, Fields
  <1>1. /\ call' = [call EXCEPT ![c] = new] /\ log' = log \o recs /\ x.at = "append"
        /\ ~Shapes(c) /\ UNCHANGED store /\ twice' = twice
        /\ stale' = IF Steady(c) THEN stale ELSE stale \cup Touched(c)
    BY DEF QueueRecords, Becomes, Holding, Steady, HeldBy
  <1>2. /\ new.op = x.op /\ new.members = x.members /\ new.at = "apply" /\ new.held = x.held
    BY ONLY <1>a, new = [x EXCEPT !.at = "apply"]
  <1>3. x.op \in Writes /\ Writing(c) /\ InFlight(c) /\ ~Pends(c)
    <2>1. x.op \in Writes
      BY <1>0, <1>1, Fields
    <2> QED BY <1>1, <2>1 DEF InFlight, Pends, Writing
  <1>4. Says(x, recs)
    <2>1. Named(call[c])
      BY <1>0 DEF GuardInv, FitOK, Fits
    <2> QED BY <1>0, <1>3, <2>1, RecordsSay
  <1>5. /\ There(h) = There(g)
        /\ \A r \in There(g) : \A e : e \in h.states[r].items <=>
               Puts(x, e, r) \/ (e \in g.states[r].items /\ ~Takes(x, e, r))
        /\ \A e \in Entities : Indexed(x, e, There(g), g.entity[e], h.entity[e])
    BY <1>0, <1>4, ReplayedCall
  <1>6. ReplayAll(log)' = h
    BY <1>1
  <1>7. call'[c] = new /\ \A b \in Callers \ {c} : call'[b] = call[b]
    BY <1>0, <1>1, OneCall
  <1>8. arcs' = arcs /\ resources' = resources /\ entity' = entity
    BY <1>1 DEF store
  <1>9. Live' = Live /\ \A r : (Items(r)' = Items(r)) /\ (Leads(r)' <=> Leads(r))
    <2>1. \A a : Hides(new, a) <=> Hides(call[c], a)
      BY <1>2, <1>3 DEF Hides, Writes
    <2> QED BY <1>0, <1>1, <1>8, <2>1, LeadsKept
  <1>10. FoundOK' /\ FreshOK'
    <2>1. \A b \in Callers : InFlight(b)' => InFlight(b) /\ (b = c \/ call'[b] = call[b])
      BY <1>3, <1>7 DEF InFlight, Writing
    <2>2. /\ call'[c].op = call[c].op /\ call'[c].held = call[c].held
          /\ call'[c].members = call[c].members
      BY <1>2, <1>7
    <2>3. stale \subseteq stale'
      BY <1>1
    <2> QED BY <1>0, <1>1, <1>8, <1>9, <2>1, <2>2, <2>3, FreshKept
  <1>11. ExactOK'
    <2>1. stale \subseteq stale'
      BY <1>1
    <2> QED BY <1>0, <1>1, <1>8, <1>9, <2>1, ExactKept
  <1>12. LogIndexOK'
    <2>1. ASSUME NEW e \in Sound', NEW r \in Resources, e \in h.states[r].items
          PROVE  h.entity[e] = r
      <3>1. e \in Sound /\ (e \in Touched(c) => Steady(c))
        BY <1>1, <2>1 DEF Sound
      <3>2. r \in There(g)
        BY <1>0, <1>5, <1>6, <2>1 DEF BareOK
      <3>3. Indexed(x, e, There(g), g.entity[e], h.entity[e])
        BY <1>5, <3>1 DEF Sound
      <3>4. CASE Puts(x, e, r)
        BY <3>2, <3>3, <3>4 DEF Indexed
      <3>5. CASE ~Puts(x, e, r)
        <4>1. e \in g.states[r].items /\ ~Takes(x, e, r)
          BY <1>5, <2>1, <3>2, <3>5
        <4>2. g.entity[e] = r
          BY <1>0, <2>1, <3>1, <4>1 DEF LogIndexOK
        <4>3. ASSUME NEW q, Puts(x, e, q) PROVE FALSE
          <5>1. e \in Appears(c)
            BY <1>3, <4>3, AppearsPut
          <5> QED BY <1>3, <3>1, <4>1, <5>1, FreshIsNew
        <4>4. ASSUME NEW q, Takes(x, e, q) PROVE FALSE
          <5>1. Steady(c)
            BY <1>0, <1>3, <3>1, <4>4, Guarded DEF Touches
          <5>2. r = q
            BY <1>3, <3>1, <4>1, <4>4, <5>1, FoundIsThere
          <5> QED BY <4>1, <4>4, <5>2
        <4> QED BY <3>3, <4>2, <4>3, <4>4 DEF Indexed
      <3> QED BY <3>4, <3>5
    <2> QED BY <1>6, <2>1 DEF LogIndexOK
  <1> QED BY <1>10, <1>11, <1>12 DEF IndexOK

\* Calls that have made their checks, while another call takes such a step.
LEMMA OthersInFlight ==
    ASSUME CallsOK, NEW c \in Callers, NEW new, call' = [call EXCEPT ![c] = new],
           new.op \notin Writes
    PROVE  /\ ~InFlight(c)'
           /\ \A b \in Callers : InFlight(b)' => InFlight(b) /\ b # c /\ call'[b] = call[b]
  <1>1. call'[c] = new /\ \A b \in Callers \ {c} : call'[b] = call[b]
    BY OneCall
  <1> QED BY <1>1 DEF InFlight, Writing

\* The record of a create or a delete is queued.
LEMMA IndexShaped ==
    ASSUME IndexInv, NEW c \in Callers, AppendShape(c)
    PROVE  IndexOK'
  <1>0. /\ CallsOK /\ IsSeq(log) /\ Formed(ReplayAll(log))
        /\ FoundOK /\ FreshOK /\ ExactOK /\ LogIndexOK
    BY DEF IndexInv, IndexOK, ItemsInv, GuardInv, TypeInv, TreeInv, LogOK
  <1> PICK x, g, h : x = call[c] /\ g = ReplayAll(log) /\ h = ReplayAll(log')
    OBVIOUS
  <1> PICK new : new = [x EXCEPT !.at = "drop"]
    OBVIOUS
  <1>a. x = [op |-> x.op, rid |-> x.rid, parent |-> x.parent, members |-> x.members,
             at |-> x.at, todo |-> x.todo, tolock |-> x.tolock, arc |-> x.arc,
             want |-> x.want, held |-> x.held]
    BY <1>0, Fields
  <1>1. /\ call' = [call EXCEPT ![c] = new] /\ x.at = "append" /\ x.op \in Reshaping
        /\ log' = Append(log, Record(x.op, None, x.rid, x.parent, {}))
        /\ UNCHANGED store /\ stale' = stale /\ twice' = twice
    BY DEF AppendShape, Becomes, Shapes
  <1>2. new.op = x.op /\ new.at = "drop" /\ new.arc = x.arc
    BY ONLY <1>a, new = [x EXCEPT !.at = "drop"]
  <1>3. arcs' = arcs /\ resources' = resources /\ entity' = entity
    BY <1>1 DEF store
  <1>4. Live' = Live /\ \A r : (Items(r)' = Items(r)) /\ (Leads(r)' <=> Leads(r))
    <2>1. \A a : Hides(new, a) <=> Hides(call[c], a)
      BY <1>1, <1>2 DEF Hides
    <2> QED BY <1>0, <1>1, <1>3, <2>1, LeadsKept
  <1>5. FoundOK' /\ FreshOK'
    <2>1. new.op \notin Writes
      BY <1>1, <1>2 DEF Reshaping, Writes
    <2>2. /\ ~InFlight(c)'
          /\ \A b \in Callers : InFlight(b)' => InFlight(b) /\ b # c /\ call'[b] = call[b]
      BY <1>0, <1>1, <2>1, OthersInFlight
    <2> QED BY <1>0, <1>1, <1>3, <1>4, <2>2, FreshKept
  <1>6. ExactOK'
    BY <1>0, <1>1, <1>3, <1>4, ExactKept
  <1>7. x.rid \in Resources /\ x.parent \in OrNone
    BY <1>0, <1>1, Fields DEF Shapes
  <1>8. /\ h.states[x.rid].items = {} /\ h.entity = g.entity
        /\ \A r \in Resources \ {x.rid} : h.states[r] = g.states[r]
    <2>1. h = ReplayOne(g, Record(x.op, None, x.rid, x.parent, {}))
      BY <1>0, <1>1, ReplayIsStepwise
    <2>2. CASE x.op = "create"
      BY <1>0, <1>7, <2>1, <2>2, CreateRecord
    <2>3. CASE x.op = "delete"
      BY <1>0, <1>7, <2>1, <2>3, DeleteRecord
    <2> QED BY <1>1, <2>2, <2>3 DEF Reshaping
  <1>9. LogIndexOK'
    <2>1. ASSUME NEW e \in Sound, NEW r \in Resources, e \in h.states[r].items
          PROVE  h.entity[e] = r
      <3>1. r # x.rid
        BY <1>8, <2>1
      <3>2. e \in g.states[r].items
        BY <1>8, <2>1, <3>1
      <3> QED BY <1>0, <1>8, <2>1, <3>2 DEF LogIndexOK
    <2>2. Sound' = Sound
      BY <1>1 DEF Sound
    <2> QED BY <2>1, <2>2 DEF LogIndexOK
  <1> QED BY <1>5, <1>6, <1>9 DEF IndexOK

\* A resource is made: it holds nothing, and the others stay.
LEMMA IndexInserted ==
    ASSUME IndexInv, NEW c \in Callers, InsertResource(c)
    PROVE  IndexOK'
  <1>0. /\ GuardInv /\ CallsOK /\ StoreOK /\ IdsOK
        /\ FoundOK /\ FreshOK /\ ExactOK /\ LogIndexOK
    BY DEF IndexInv, IndexOK, ItemsInv, GuardInv, TypeInv, TreeInv
  <1> PICK rid : rid = call[c].rid
    OBVIOUS
  <1>1. /\ call' = [call EXCEPT ![c] = Idle] /\ log' = log /\ stale' = stale
        /\ twice' = twice /\ entity' = entity /\ call[c].op = "create"
        /\ SameIds /\ \A a \in DOMAIN arcs : arcs'[a] = arcs[a]
    BY <1>0, Inserted
  <1>2. /\ rid \in Resources /\ rid \notin Live
        /\ \A r \in Resources \ {rid} : resources'[r] = resources[r]
    BY <1>0, Inserted
  <1>3. /\ \A r : r # rid => /\ r \in Live' <=> r \in Live
                             /\ r \in Live => Items(r)' = Items(r)
        /\ Items(rid)' = {}
    BY <1>0, Inserted
  <1>4. Idle.op = "none"
    BY DEF Idle
  <1>5. ASSUME NEW r \in Live
        PROVE  r \in Live' /\ Items(r)' = Items(r) /\ (Leads(r)' <=> Leads(r))
    <2>1. r \in Resources /\ r # rid
      BY <1>2 DEF Live
    <2> PICK a : a = resources[r]
      OBVIOUS
    <2>2. a \in DOMAIN arcs /\ arcs[a].id = r /\ resources'[r] = a
      BY <1>0, <1>2, <2>1 DEF StoreOK, IdsOK
    <2>3. Current(a) => Current(a)'
      BY <1>0, <1>1, <1>4, <2>2, CurrentKept
    <2>4. Current(a)' => Current(a)
      BY <1>0, <1>1, <2>2, WasCurrent
    <2>5. Leads(r)' <=> Current(a)'
      BY <2>2 DEF Leads, Current, Deleting
    <2> QED BY <1>3, <2>1, <2>3, <2>4, <2>5 DEF Leads
  <1>6. FoundOK' /\ FreshOK'
    <2>1. /\ ~InFlight(c)'
          /\ \A b \in Callers : InFlight(b)' => InFlight(b) /\ b # c /\ call'[b] = call[b]
      BY <1>0, <1>1, <1>4, OthersInFlight DEF Writes
    <2>2. \A b \in Callers : \A a \in HeldBy(b) : arcs'[a] = arcs[a]
      BY <1>0, <1>1, HoldersWrite
    <2> QED BY <1>0, <1>1, <1>3, <1>5, <2>1, <2>2, FreshKept
  <1>7. ExactOK'
    <2>1. \A r \in Live' : \A e \in Items(r)' : r \in Live /\ e \in Items(r)
      BY <1>3, <1>5
    <2> QED BY <1>0, <1>1, <1>5, <2>1, ExactKept
  <1>8. LogIndexOK'
    <2>1. Sound' = Sound /\ ReplayAll(log)' = ReplayAll(log)
      BY <1>1 DEF Sound
    <2> QED BY <1>0, <2>1 DEF LogIndexOK
  <1> QED BY <1>6, <1>7, <1>8 DEF IndexOK

\* A delete unmaps what its resource holds.
LEMMA IndexUnmapped ==
    ASSUME IndexInv, NEW c \in Callers, Unmap(c)
    PROVE  IndexOK'
  <1>0. /\ GuardInv /\ CallsOK /\ StoreOK /\ IdsOK /\ IntentOK /\ entity \in Indexes
        /\ FoundOK /\ FreshOK /\ ExactOK /\ LogIndexOK
    BY DEF IndexInv, IndexOK, ItemsInv, GuardInv, TypeInv, TreeInv
  <1> PICK x, rid : x = call[c] /\ rid = call[c].rid
    OBVIOUS
  <1> PICK arc : arc = x.arc
    OBVIOUS
  <1> PICK new : new = [x EXCEPT !.at = "append"]
    OBVIOUS
  <1>a. x = [op |-> x.op, rid |-> x.rid, parent |-> x.parent, members |-> x.members,
             at |-> x.at, todo |-> x.todo, tolock |-> x.tolock, arc |-> x.arc,
             want |-> x.want, held |-> x.held]
    BY <1>0, Fields
  <1>1. /\ call' = [call EXCEPT ![c] = new] /\ x.op = "delete" /\ x.at = "unmap"
        /\ entity' = Unmapped(arc) /\ arcs' = arcs /\ resources' = resources
        /\ log' = log /\ stale' = stale /\ twice' = twice
    BY DEF Unmap, Becomes
  <1>2. new.op = "delete" /\ new.at = "append" /\ new.arc = arc
    BY ONLY <1>a, <1>1, arc = x.arc, new = [x EXCEPT !.at = "append"]
  <1>3. rid \in Live /\ arc = resources[rid] /\ rid # None
    <2>1. Removing(c)
      BY <1>1 DEF Removing, Changing, Shapes, Reshaping
    <2>2. rid \in Live /\ arc = resources[rid]
      BY <1>0, <2>1 DEF IntentOK
    <2> QED BY <2>2, TopologyAssumption DEF Live, None
  <1>4. call'[c] = new /\ \A b \in Callers \ {c} : call'[b] = call[b]
    BY <1>0, <1>1, OneCall
  <1>5. Live' = Live /\ (\A r : Items(r)' = Items(r)) /\ SameIds
    BY <1>1 DEF Live, Items, SameIds
  <1>6. \A e \in Entities : entity'[e] = IF e \in Items(rid) THEN None ELSE entity[e]
    BY <1>1, <1>3 DEF Unmapped, Items
  <1>7. ~Leads(rid)'
    <2>1. Deleting(arc)'
      BY <1>2, <1>4 DEF Deleting
    <2>2. Leads(rid)' => ~Deleting(arc)'
      BY <1>1, <1>3 DEF Leads, Current, Deleting
    <2> QED BY <2>1, <2>2
  <1>8. ASSUME NEW r \in Live, r # rid PROVE Leads(r)' <=> Leads(r)
    <2> PICK a : a = resources[r]
      OBVIOUS
    <2>1. a \in DOMAIN arcs /\ arcs[a].id = r /\ resources'[r] = a
      BY <1>0, <1>1 DEF StoreOK, IdsOK
    <2>2. a # arc
      BY <1>0, <1>3, <1>8, <2>1 DEF IdsOK
    <2>3. Current(a) => Current(a)'
      BY <1>0, <1>1, <1>2, <1>5, <2>1, <2>2, CurrentKept
    <2>4. Current(a)' => Current(a)
      BY <1>0, <1>1, <1>5, <2>1, <2>2, WasCurrent
    <2>5. Leads(r)' <=> Current(a)'
      BY <2>1 DEF Leads, Current, Deleting
    <2> QED BY <2>3, <2>4, <2>5 DEF Leads
  <1>9. FoundOK' /\ FreshOK'
    <2>1. new.op \notin Writes
      BY <1>2 DEF Writes
    <2>2. /\ ~InFlight(c)'
          /\ \A b \in Callers : InFlight(b)' => InFlight(b) /\ b # c /\ call'[b] = call[b]
      BY <1>0, <1>1, <2>1, OthersInFlight
    <2>3. \A e \in Sound : entity'[e] = None \/ entity'[e] = entity[e]
      BY <1>6 DEF Sound
    <2> QED BY <1>0, <1>1, <1>5, <2>2, <2>3, FreshKept
  <1>10. ExactOK'
    <2>1. ASSUME NEW e \in Sound
          PROVE  /\ entity'[e] # None => /\ entity'[e] \in Live /\ e \in Items(entity'[e])
                                         /\ entity'[e] # rid /\ Leads(entity'[e])
                 /\ \A r \in Live : e \in Items(r) =>
                       \/ entity'[e] = r
                       \/ entity'[e] = None /\ (r = rid \/ ~Leads(r))
      <3>0. e \in Entities
        BY DEF Sound
      <3>1. CASE e \in Items(rid)
        <4>1. entity'[e] = None
          BY <1>6, <3>0, <3>1
        <4>2. ASSUME NEW r \in Live, e \in Items(r), r # rid PROVE ~Leads(r)
          <5>1. r # None
            BY TopologyAssumption DEF Live, None
          <5> QED BY <1>0, <1>3, <3>1, <4>2, <5>1 DEF ExactOK, Leads
        <4> QED BY <4>1, <4>2
      <3>2. CASE e \notin Items(rid)
        <4>1. entity'[e] = entity[e]
          BY <1>6, <3>0, <3>2
        <4>2. entity[e] # None => entity[e] \in Live /\ e \in Items(entity[e]) /\ Leads(entity[e])
          BY <1>0 DEF ExactOK, Leads
        <4>3. \A r \in Live : e \in Items(r) =>
                  entity[e] = r \/ (entity[e] = None /\ ~Leads(r))
          BY <1>0 DEF ExactOK, Leads
        <4> QED BY <3>2, <4>1, <4>2, <4>3
      <3> QED BY <3>1, <3>2
    <2>2. Sound' = Sound
      BY <1>1 DEF Sound
    <2>3. ASSUME NEW e \in Sound, entity'[e] # None
          PROVE  /\ entity'[e] \in Live' /\ e \in Items(entity[e])' /\ Leads(entity[e])'
      <3> PICK q : q = entity'[e]
        OBVIOUS
      <3>1. q \in Live /\ e \in Items(q) /\ q # rid /\ Leads(q)
        BY <2>1, <2>3
      <3>2. Leads(q)' /\ e \in Items(q)'
        BY <1>5, <1>8, <3>1
      <3> QED BY <1>5, <3>1, <3>2 DEF Leads, Items, Current, Deleting
    <2>4. ASSUME NEW e \in Sound, NEW r \in Live', e \in Items(r)'
          PROVE  entity'[e] = r \/ (entity'[e] = None /\ ~Leads(r)')
      BY <1>5, <1>7, <1>8, <2>1, <2>4
    <2> QED BY <2>2, <2>3, <2>4 DEF ExactOK, Leads
  <1>11. LogIndexOK'
    <2>1. Sound' = Sound /\ ReplayAll(log)' = ReplayAll(log)
      BY <1>1 DEF Sound
    <2> QED BY <1>0, <2>1 DEF LogIndexOK
  <1> QED BY <1>9, <1>10, <1>11 DEF IndexOK

\* A resource is dropped: the index led to nothing it holds.
LEMMA IndexRemoved ==
    ASSUME IndexInv, NEW c \in Callers, RemoveResource(c)
    PROVE  IndexOK'
  <1>0. /\ GuardInv /\ CallsOK /\ StoreOK /\ IdsOK /\ IntentOK
        /\ FoundOK /\ FreshOK /\ ExactOK /\ LogIndexOK
    BY DEF IndexInv, IndexOK, ItemsInv, GuardInv, TypeInv, TreeInv
  <1> PICK rid : rid = call[c].rid
    OBVIOUS
  <1>1. /\ resources' = [resources EXCEPT ![rid] = None] /\ arcs' = arcs
        /\ call' = [call EXCEPT ![c] = Idle] /\ log' = log /\ stale' = stale
        /\ twice' = twice /\ entity' = entity
        /\ call[c].op = "delete" /\ call[c].at = "drop"
    BY DEF RemoveResource, Return, Becomes
  <1>2. /\ rid \in Resources /\ rid \in Live /\ call[c].arc = resources[rid] /\ ~Leads(rid)
    <2>1. Shapes(c) /\ Removing(c)
      BY <1>1 DEF Removing, Changing, Shapes, Reshaping
    <2>2. rid \in Live /\ call[c].arc = resources[rid]
      BY <1>0, <2>1 DEF IntentOK
    <2>3. Deleting(resources[rid])
      BY <1>1, <2>2 DEF Deleting
    <2> QED BY <2>2, <2>3 DEF Leads, Current, Live
  <1>3. rid \notin Live' /\ \A r \in Resources \ {rid} : resources'[r] = resources[r]
    BY <1>0, <1>1, <1>2 DEF Live, StoreOK
  <1>4. SameIds /\ Idle.op = "none"
    BY <1>1 DEF SameIds, Idle
  <1>5. ASSUME NEW r \in Live, r # rid
        PROVE  r \in Live' /\ Items(r)' = Items(r) /\ (Leads(r)' <=> Leads(r))
    <2>1. r \in Resources /\ resources'[r] = resources[r]
      BY <1>3, <1>5 DEF Live
    <2> PICK a : a = resources[r]
      OBVIOUS
    <2>2. a \in DOMAIN arcs /\ arcs[a].id = r /\ resources'[r] = a
      BY <1>0, <2>1 DEF StoreOK, IdsOK
    <2>3. a # call[c].arc
      BY <1>0, <1>2, <1>5, <2>2 DEF IdsOK
    <2>4. Current(a) => Current(a)'
      BY <1>0, <1>1, <1>4, <2>2, CurrentKept
    <2>5. Current(a)' => Current(a)
      BY <1>0, <1>1, <1>4, <2>2, <2>3, WasCurrent
    <2>6. Leads(r)' <=> Current(a)'
      BY <2>2 DEF Leads, Current, Deleting
    <2>7. r \in Live' /\ Items(r)' = Items(r)
      BY <1>1, <1>5, <2>1 DEF Live, Items
    <2> QED BY <2>4, <2>5, <2>6, <2>7 DEF Leads
  <1>6. \A r \in Live' : r \in Live /\ r # rid
    BY <1>3 DEF Live
  <1>7. FoundOK' /\ FreshOK'
    <2>1. /\ ~InFlight(c)'
          /\ \A b \in Callers : InFlight(b)' => InFlight(b) /\ b # c /\ call'[b] = call[b]
      BY <1>0, <1>1, <1>4, OthersInFlight DEF Writes
    <2> QED BY <1>0, <1>1, <1>5, <1>6, <2>1, FreshKept
  <1>8. ExactOK'
    <2>1. \A r \in Live : Leads(r) => r # rid
      BY <1>2
    <2> QED BY <1>0, <1>1, <1>5, <1>6, <2>1, ExactKept
  <1>9. LogIndexOK'
    <2>1. Sound' = Sound /\ ReplayAll(log)' = ReplayAll(log)
      BY <1>1 DEF Sound
    <2> QED BY <1>0, <2>1 DEF LogIndexOK
  <1> QED BY <1>7, <1>8, <1>9 DEF IndexOK

\* The records are applied.
LEMMA IndexWritten ==
    ASSUME IndexInv, NEW c \in Callers, ApplyRecords(c)
    PROVE  IndexOK'
  <1>0. /\ GuardInv /\ CallsOK /\ StoreOK /\ IdsOK /\ SteadyOK
        /\ FoundOK /\ FreshOK /\ ExactOK /\ LogIndexOK
    BY DEF IndexInv, IndexOK, ItemsInv, GuardInv, TypeInv, TreeInv
  <1> PICK x, rids : x = call[c] /\ rids = {arcs[a].id : a \in HeldBy(c)}
    OBVIOUS
  <1>1. /\ Pends(c) /\ InFlight(c) /\ SameIds /\ DOMAIN arcs' = DOMAIN arcs
        /\ Says(x, Records(c))
        /\ \A a \in HeldBy(c) : \A e : e \in arcs'[a].items <=>
                  \/ Puts(x, e, arcs[a].id)
                  \/ e \in arcs[a].items /\ ~Takes(x, e, arcs[a].id)
        /\ \A a \in DOMAIN arcs \ HeldBy(c) : arcs'[a] = arcs[a]
        /\ entity' = WholeIndexAfter(rids, Records(c))
    BY <1>0, Written
  <1>2. /\ call' = [call EXCEPT ![c] = Idle] /\ log' = log
        /\ resources' = resources /\ stale' = stale /\ twice' = twice
    BY DEF ApplyRecords, Return, Becomes
  <1>3. call'[c] = Idle /\ \A b \in Callers \ {c} : call'[b] = call[b]
    BY <1>0, <1>2, OneCall
  <1>4. Idle.op = "none" /\ Writing(c) /\ Sound' = Sound /\ Live' = Live
    BY <1>1, <1>2 DEF Idle, Pends, Sound, Live
  <1>5. \A e \in Entities : Indexed(x, e, rids, entity[e], entity'[e])
    BY <1>1, EntityApplied
  <1>6. ASSUME NEW r \in Live
        PROVE  /\ Leads(r)' <=> Leads(r)
               /\ \A e : e \in Items(r)' => Puts(x, e, r) \/ e \in Items(r)
               /\ \A e : ~Touches(x, e, r) => (e \in Items(r)' <=> e \in Items(r))
               /\ \A e : resources[r] \in HeldBy(c) =>
                     (e \in Items(r)' <=> Puts(x, e, r) \/ (e \in Items(r) /\ ~Takes(x, e, r)))
    <2> PICK a : a = resources[r]
      OBVIOUS
    <2>1. a \in DOMAIN arcs /\ arcs[a].id = r /\ resources'[r] = a
      BY <1>0, <1>2 DEF StoreOK, IdsOK
    <2>2. Current(a) => Current(a)'
      BY <1>0, <1>1, <1>2, <1>4, <2>1, CurrentKept
    <2>3. Current(a)' => Current(a)
      BY <1>0, <1>1, <1>2, <1>4, <2>1, WasCurrent DEF Writing, Writes
    <2>4. Leads(r)' <=> Current(a)'
      BY <2>1 DEF Leads, Current, Deleting
    <2>5. Items(r)' = arcs'[a].items /\ Items(r) = arcs[a].items
      BY <2>1 DEF Items
    <2> QED BY <1>1, <2>1, <2>2, <2>3, <2>4, <2>5 DEF Leads, Touches
  <1>7. ASSUME NEW e \in Sound, NEW q, Touches(x, e, q)
        PROVE  /\ Steady(c) /\ q \in Live /\ resources[q] \in HeldBy(c) /\ q \in rids /\ Leads(q)
               /\ q # None
    <2>1. Steady(c)
      <3>1. e \in Touched(c)
        BY <1>0, <1>1, <1>7, Guarded
      <3> QED BY <1>0, <1>1, <3>1 DEF SteadyOK, Sound
    <2>2. q \in Live /\ resources[q] \in HeldBy(c) /\ arcs[resources[q]].id = q
      BY <1>0, <1>1, <1>7, <2>1, SteadyHolds
    <2>3. q # None
      BY <2>2, TopologyAssumption DEF Live, None
    <2> QED BY <2>1, <2>2, <2>3 DEF Steady, Leads
  <1>8. FoundOK' /\ FreshOK'
    <2>1. /\ ~InFlight(c)'
          /\ \A b \in Callers : InFlight(b)' => InFlight(b) /\ b # c /\ call'[b] = call[b]
      BY <1>0, <1>2, <1>4, OthersInFlight DEF Writes
    <2>2. ASSUME NEW b \in Callers, InFlight(b)', NEW a \in HeldBy(b) PROVE arcs'[a] = arcs[a]
      <3>1. a \in DOMAIN arcs
        BY <1>0, HoldersWrite
      <3>2. a \notin HeldBy(c)
        BY <1>0, <2>1, <2>2, OneHolder
      <3> QED BY <1>1, <3>1, <3>2
    <2>3. ASSUME NEW b \in Callers, InFlight(b)', NEW e \in Appears(b) \cap Sound
          PROVE  /\ entity'[e] = None \/ entity'[e] = entity[e]
                 /\ \A r \in Live : e \in Items(r)' => e \in Items(r)
      <3>1. e \notin Appears(c)
        BY <1>0, <1>1, <2>1, <2>3 DEF FreshOK
      <3>2. \A r : ~Puts(x, e, r)
        BY <1>4, <3>1, AppearsPut
      <3>3. Indexed(x, e, rids, entity[e], entity'[e])
        BY <1>5 DEF Sound
      <3> QED BY <1>6, <3>2, <3>3 DEF Indexed
    <2> QED BY <1>0, <1>2, <1>4, <2>1, <2>2, <2>3, FreshKept
  <1>9. ASSUME NEW e \in Sound
        PROVE  /\ entity'[e] # None => /\ entity'[e] \in Live /\ e \in Items(entity[e])'
                                       /\ Leads(entity'[e])
               /\ \A r \in Live : e \in Items(r)' =>
                     entity'[e] = r \/ (entity'[e] = None /\ ~Leads(r))
    <2>0. e \in Entities /\ Indexed(x, e, rids, entity[e], entity'[e])
      BY <1>5 DEF Sound
    <2>1. CASE \E q : Puts(x, e, q)
      <3>1. PICK q : Puts(x, e, q)
        BY <2>1
      <3>2. q \in Live /\ resources[q] \in HeldBy(c) /\ q \in rids /\ Leads(q)
        BY <1>7, <3>1 DEF Touches
      <3>3. entity'[e] = q
        BY <2>0, <3>1, <3>2 DEF Indexed
      <3>4. e \in Items(q)'
        BY <1>6, <3>1, <3>2
      <3>5. ASSUME NEW r \in Live, e \in Items(r)' PROVE r = q
        <4>1. e \in Appears(c)
          BY <1>4, <3>1, AppearsPut
        <4>2. e \notin Items(r)
          BY <1>0, <1>1, <4>1 DEF FreshOK
        <4>3. Puts(x, e, r)
          BY <1>6, <3>5, <4>2
        <4>4. r \in rids
          BY <1>7, <4>3 DEF Touches
        <4> QED BY <2>0, <3>3, <4>3, <4>4 DEF Indexed
      <3>6. e \in Items(entity[e])'
        BY <3>3, <3>4 DEF Items
      <3> QED BY <3>2, <3>3, <3>5, <3>6
    <2>2. CASE (\A q : ~Puts(x, e, q)) /\ \E q : Takes(x, e, q)
      <3>1. PICK q : Takes(x, e, q)
        BY <2>2
      <3>2. Steady(c) /\ q \in Live /\ resources[q] \in HeldBy(c) /\ q \in rids
        BY <1>7, <3>1 DEF Touches
      <3>3. entity'[e] = None
        BY <2>0, <2>2, <3>1, <3>2 DEF Indexed
      <3>4. ASSUME NEW r \in Live, e \in Items(r)' PROVE FALSE
        <4>1. e \in Items(r)
          BY <1>6, <2>2, <3>4
        <4>2. r = q
          BY <1>1, <3>1, <3>2, <4>1, FoundIsThere
        <4> QED BY <1>6, <2>2, <3>1, <3>2, <3>4, <4>2
      <3> QED BY <3>3, <3>4
    <2>3. CASE \A q : ~Touches(x, e, q)
      <3>1. entity'[e] = entity[e]
        BY <2>0, <2>3 DEF Indexed, Touches
      <3>2. \A r \in Live : e \in Items(r)' <=> e \in Items(r)
        BY <1>6, <2>3
      <3>3. /\ entity[e] # None => /\ entity[e] \in Live /\ e \in Items(entity[e])
                                   /\ Leads(entity[e])
            /\ \A r \in Live : e \in Items(r) =>
                  entity[e] = r \/ (entity[e] = None /\ ~Leads(r))
        BY <1>0 DEF ExactOK, Leads
      <3>4. ASSUME entity'[e] # None PROVE e \in Items(entity[e])'
        <4> PICK q : q = entity[e]
          OBVIOUS
        <4>1. q \in Live /\ e \in Items(q)
          BY <3>1, <3>3, <3>4
        <4>2. e \in Items(q)' /\ entity'[e] = q
          BY <3>1, <3>2, <4>1
        <4> QED BY <4>2 DEF Items
      <3> QED BY <3>1, <3>2, <3>3, <3>4
    <2> QED BY <2>1, <2>2, <2>3 DEF Touches
  <1>10. ExactOK'
    <2>1. ASSUME NEW e \in Sound, entity'[e] # None PROVE Leads(entity[e])'
      <3> PICK q : q = entity'[e]
        OBVIOUS
      <3>1. q \in Live /\ Leads(q)
        BY <1>9, <2>1
      <3>2. Leads(q)'
        BY <1>6, <3>1
      <3> QED BY <3>2 DEF Leads, Current, Deleting
    <2> QED BY <1>4, <1>6, <1>9, <2>1 DEF ExactOK, Leads
  <1>11. LogIndexOK'
    <2>1. ReplayAll(log)' = ReplayAll(log)
      BY <1>2
    <2> QED BY <1>0, <1>4, <2>1 DEF LogIndexOK
  <1> QED BY <1>8, <1>10, <1>11 DEF IndexOK

\* The end of a replay leaves what the resources hold.
LEMMA DetachedItems ==
    ASSUME NEW g, g = ReplayAll(log), Formed(g), NEW r \in Resources
    PROVE  Replay.states[r].items = g.states[r].items
  <1> DEFINE gone(q) == g.states[q].parent # None /\ ~g.states[g.states[q].parent].there
  <1> PICK states, kids :
        /\ states = [q \in Resources |-> IF gone(q) THEN [g.states[q] EXCEPT !.parent = None]
                                         ELSE g.states[q]]
        /\ kids = [q \in Resources |-> {k \in g.children[q] : ~gone(k)}]
    OBVIOUS
  <1>1. Replay = [states |-> states, children |-> kids, entity |-> g.entity]
    BY Zenon DEF Replay, Detached
  <1>2. Replay.states = states
    BY ONLY <1>1
  <1>3. g.states[r] = [there |-> g.states[r].there, parent |-> g.states[r].parent,
                       items |-> g.states[r].items]
    BY DEF Formed
  <1>4. states[r] = IF gone(r) THEN [g.states[r] EXCEPT !.parent = None] ELSE g.states[r]
    OBVIOUS
  <1> HIDE DEF gone
  <1>5. states[r].items = g.states[r].items
    BY ONLY <1>3, <1>4
  <1> QED BY <1>2, <1>5

\* A restart finds the index of the log.
LEMMA IndexRestarted ==
    ASSUME IndexInv, GuardInv', Restart
    PROVE  IndexOK'
  <1>0. /\ GuardInv /\ BareOK /\ LogIndexOK /\ IsSeq(log) /\ Formed(ReplayAll(log)) /\ IdsOK'
    BY DEF IndexInv, IndexOK, ItemsInv, GuardInv, TypeInv, TreeInv, LogOK
  <1> PICK g : g = ReplayAll(log)
    OBVIOUS
  <1>1. /\ Live' = There(g) /\ entity' = g.entity /\ log' = log /\ twice' = twice
        /\ \A r \in There(g) : Items(r)' = g.states[r].items
        /\ \A c \in Callers : call'[c] = Idle
        /\ stale' = stale \cup {e \in Entities : /\ g.entity[e] # None
                                                 /\ e \notin Replay.states[g.entity[e]].items}
    BY <1>0, Rebuilt
  <1>2. Idle.op = "none"
    BY DEF Idle
  <1>3. FoundOK' /\ FreshOK'
    <2>1. \A c \in Callers : ~InFlight(c)'
      BY <1>1, <1>2 DEF InFlight, Writing, Writes
    <2> QED BY <2>1 DEF FoundOK, FreshOK
  <1>4. Sound' \subseteq Sound /\ ReplayAll(log)' = g
    BY <1>1 DEF Sound
  <1>5. LogIndexOK'
    BY <1>0, <1>4 DEF LogIndexOK
  <1>6. ASSUME NEW r \in Live' PROVE Leads(r)'
    <2> PICK a : a = resources'[r]
      OBVIOUS
    <2>1. arcs'[a].id = r
      BY <1>0 DEF IdsOK
    <2>2. ~Deleting(a)'
      BY <1>1, <1>2 DEF Deleting
    <2>3. Current(a)'
      BY <2>1, <2>2 DEF Current
    <2> QED BY <2>3 DEF Leads, Current, Deleting
  <1>7. ASSUME NEW e \in Sound', entity'[e] # None
        PROVE  entity'[e] \in Live' /\ e \in Items(entity[e])'
    <2> PICK q : q = entity'[e]
      OBVIOUS
    <2>1. q \in Resources
      <3>1. e \in Entities /\ entity' \in Indexes
        BY DEF Sound, GuardInv, TypeInv
      <3> QED BY <1>7, <3>1 DEF Indexes, OrNone
    <2>2. e \in Replay.states[q].items
      BY <1>1, <1>7 DEF Sound
    <2>3. e \in g.states[q].items
      BY <1>0, <2>1, <2>2, DetachedItems
    <2>4. q \in There(g)
      BY <1>0, <2>1, <2>3 DEF BareOK
    <2>5. e \in Items(q)'
      BY <1>1, <2>3, <2>4
    <2> QED BY <1>1, <2>4, <2>5 DEF Items
  <1>8. ASSUME NEW e \in Sound', NEW r \in Live', e \in Items(r)' PROVE entity'[e] = r
    <2>1. r \in Resources /\ e \in g.states[r].items
      BY <1>1, <1>8 DEF There
    <2> QED BY <1>0, <1>1, <1>4, <2>1 DEF LogIndexOK
  <1>9. ExactOK'
    <2>1. ASSUME NEW e \in Sound', entity'[e] # None PROVE Leads(entity[e])'
      <3> PICK q : q = entity'[e]
        OBVIOUS
      <3>1. Leads(q)'
        BY <1>6, <1>7, <2>1
      <3> QED BY <3>1 DEF Leads, Current, Deleting
    <2> QED BY <1>7, <1>8, <2>1 DEF ExactOK, Leads
  <1> QED BY <1>3, <1>5, <1>9 DEF IndexOK

\* Every step keeps the index.
LEMMA IndexKeep ==
    ASSUME IndexInv, [Next]_vars
    PROVE  IndexInv'
  <1>0. ItemsInv /\ ItemsInv' /\ GuardInv /\ GuardInv' /\ CallsOK
    BY ItemsKeep DEF IndexInv, ItemsInv, GuardInv, TypeInv, TreeInv
  <1>1. ASSUME NEW c \in Callers, Step(c) PROVE IndexOK'
    <2>1. CASE Check(c) \/ QueueRecords(c) \/ ApplyRecords(c)
      BY <1>0, <2>1, IndexChecked, IndexQueued, IndexWritten
    <2>2. CASE AppendShape(c) \/ InsertResource(c) \/ Unmap(c) \/ RemoveResource(c)
      BY <2>2, IndexShaped, IndexInserted, IndexUnmapped, IndexRemoved
    <2>3. CASE ~ (\/ Check(c) \/ QueueRecords(c) \/ ApplyRecords(c) \/ AppendShape(c)
                  \/ InsertResource(c) \/ Unmap(c) \/ RemoveResource(c))
      <3>1. /\ UNCHANGED store /\ log' = log /\ stale' = stale /\ twice' = twice
            /\ call[c].at \notin {"append", "apply", "drop"}
            /\ \E new : /\ call' = [call EXCEPT ![c] = new]
                        /\ new.at \notin {"apply", "drop"}
                        /\ new.at = "append" => new.op = "create"
        BY <1>0, <1>1, <2>3, Ways
      <3> QED BY <3>1, IndexQuiet DEF Hides, Writes
    <2> QED BY <2>1, <2>2, <2>3
  <1>2. ASSUME NEW c \in Callers, NEW new \in Operations, Begin(c, new) PROVE IndexOK'
    <2>1. /\ call' = [call EXCEPT ![c] = new] /\ call[c] = Idle /\ UNCHANGED store
          /\ log' = log /\ stale' = stale /\ twice' = twice
      BY <1>2 DEF Begin, Becomes
    <2>2. new = Call(new.op, new.rid, new.parent, new.members)
      BY OperationsAssumption
    <2>3. new.at = "start"
      BY ONLY <2>2 DEF Call, Idle
    <2>4. Idle.at = "idle"
      BY DEF Idle
    <2> QED BY <2>1, <2>3, <2>4, IndexQuiet DEF Hides
  <1>3. CASE Restart
    BY <1>0, <1>3, IndexRestarted DEF IndexInv
  <1>4. CASE UNCHANGED vars
    <2>1. /\ call' = call /\ arcs' = arcs /\ resources' = resources /\ entity' = entity
          /\ log' = log /\ stale' = stale /\ twice' = twice
      BY <1>4 DEF vars, store
    <2>2. FoundOK'
      BY <2>1 DEF IndexInv, IndexOK, FoundOK, InFlight, Writing, Takes, HeldBy
    <2>3. FreshOK'
      BY <2>1 DEF IndexInv, IndexOK, FreshOK, InFlight, Writing, Appears, Sound, Live, Items
    <2>4. ExactOK'
      BY <2>1 DEF IndexInv, IndexOK, ExactOK, Sound, Live, Items, Current, Deleting
    <2>5. ReplayAll(log)' = ReplayAll(log) /\ Sound' = Sound
      BY <2>1 DEF Sound
    <2>6. LogIndexOK'
      BY <2>5 DEF IndexInv, IndexOK, LogIndexOK
    <2> QED BY <1>0, <2>2, <2>3, <2>4, <2>6 DEF IndexInv, IndexOK
  <1> QED BY <1>0, <1>1, <1>2, <1>3, <1>4 DEF Next, IndexInv

\* At first the index is empty.
LEMMA InitIndex ==
    ASSUME Init
    PROVE  IndexInv
  <1>1. ItemsInv
    BY InitItems
  <1>2. Idle.op = "none"
    BY DEF Idle
  <1>3. \A c \in Callers : ~InFlight(c)
    BY <1>2 DEF Init, InFlight, Writing, Writes
  <1>4. ReplayAll(log) = Nothing /\ Live = {}
    BY ReplayIsStepwise DEF Init, Live
  <1>5. \A e \in Sound : entity[e] = None
    BY DEF Init, Sound
  <1>6. \A r \in Resources : Nothing.states[r].items = {}
    BY DEF Nothing
  <1> QED BY <1>1, <1>3, <1>4, <1>5, <1>6
          DEF IndexInv, IndexOK, FoundOK, FreshOK, ExactOK, LogIndexOK

\* The last layer says what the run checks.
LEMMA IndexMeansExact ==
    IndexInv => IndexIsExact
  BY DEF IndexInv, IndexOK, ExactOK, Sound, IndexIsExact

\* The reason of reject_reused_id, and of the unmapping in delete_resource
\* (engine/mutations.rs): in every state, whatever calls wait, are half done or
\* were lost in a restart, the index leads to the resource that holds the
\* entity, and a resource that no delete has reached holds nothing that the
\* index does not lead to; save what two calls placed at once, or what was
\* changed through a resource that was being deleted.
THEOREM IndexIsAlwaysExact ==
    Spec => []IndexIsExact
  <1>1. Init => IndexInv
    BY InitIndex
  <1>2. IndexInv /\ [Next]_vars => IndexInv'
    BY IndexKeep
  <1> QED BY <1>1, <1>2, IndexMeansExact, PTL DEF Spec
===============================================================================
