-------------------------------- MODULE ListFacts ------------------------------
(* What the proofs need to know of sequences, and of sets as sequences.    *)
EXTENDS Integers, SequencesExt, FiniteSetTheorems, WellFoundedInduction, TLAPS

IsSeq(s) == \E X : s \in Seq(X)

\* A predicate that fails somewhere fails somewhere first.
LEMMA FirstFailure ==
    ASSUME NEW S, S \subseteq Nat, S # {}
    PROVE  \E x \in S : \A y \in S : x <= y
  <1> DEFINE R == {ss \in Nat \X Nat : ss[1] < ss[2]}
  <1>1. OpToRel(<, Nat) = R
    BY Zenon DEF OpToRel
  <1>2. IsWellFoundedOn(R, Nat)
    BY <1>1, NatLessThanWellFounded, Zenon
  <1>3. PICK x \in S : \A y \in S : ~ (<<y, x>> \in R)
    <2> HIDE DEF R
    <2> QED BY <1>2, WFMin
  <1>4. ASSUME NEW y \in S PROVE x <= y
    <2>1. x \in Nat /\ y \in Nat /\ ~ (<<y, x>> \in R)
      BY <1>3, <1>4
    <2>2. ~ (y < x)
      BY <2>1
    <2> QED BY <2>1, <2>2
  <1> QED BY <1>4

\* What is added to a sequence, and what is left of one.
LEMMA Sequences ==
    ASSUME NEW s, IsSeq(s)
    PROVE  /\ Len(s) \in Nat /\ DOMAIN s = 1 .. Len(s)
           /\ s = [n \in 1 .. Len(s) |-> s[n]]
           /\ \A x : /\ IsSeq(Append(s, x)) /\ Len(Append(s, x)) = Len(s) + 1
                     /\ Append(s, x) = [n \in 1 .. Len(s) + 1 |->
                                          IF n = Len(s) + 1 THEN x ELSE s[n]]
           /\ s # <<>> => IsSeq(Tail(s))
  <1> PICK X : s \in Seq(X)
    BY DEF IsSeq
  <1>1. Len(s) \in Nat /\ DOMAIN s = 1 .. Len(s)
    OBVIOUS
  <1>2. ASSUME NEW x PROVE /\ IsSeq(Append(s, x)) /\ Len(Append(s, x)) = Len(s) + 1
                           /\ Append(s, x) = [n \in 1 .. Len(s) + 1 |->
                                          IF n = Len(s) + 1 THEN x ELSE s[n]]
    <2> DEFINE Y == X \cup {x}
    <2>1. s \in Seq(Y)
      OBVIOUS
    <2>2. Append(s, x) \in Seq(Y) /\ Len(Append(s, x)) = Len(s) + 1
      BY <2>1
    <2>3. IsSeq(Append(s, x))
      BY <2>2, Zenon DEF IsSeq
    <2>4. Append(s, x) = [n \in 1 .. Len(s) + 1 |-> Append(s, x)[n]]
      <3> PICK z : z = Append(s, x)
        OBVIOUS
      <3>1. z \in Seq(Y) /\ Len(z) = Len(s) + 1
        BY <2>2
      <3>2. z = [n \in 1 .. Len(z) |-> z[n]]
        BY ONLY <3>1
      <3> QED BY ONLY <3>1, <3>2, z = Append(s, x)
    <2>5. \A n \in 1 .. Len(s) + 1 : Append(s, x)[n] = IF n = Len(s) + 1 THEN x ELSE s[n]
      BY <2>1
    <2> QED BY <2>2, <2>3, <2>4, <2>5
  <1>3. s # <<>> => Tail(s) \in Seq(X)
    OBVIOUS
  <1> QED BY <1>1, <1>2, <1>3 DEF IsSeq

\* A line of two.
LEMMA Concatenated ==
    ASSUME NEW s, NEW t, IsSeq(s), IsSeq(t)
    PROVE  /\ IsSeq(s \o t) /\ Len(s \o t) = Len(s) + Len(t)
           /\ \A n \in 1 .. Len(s) : (s \o t)[n] = s[n]
           /\ \A n \in 1 .. Len(t) : (s \o t)[Len(s) + n] = t[n]
  <1> PICK X : s \in Seq(X)
    BY DEF IsSeq
  <1> PICK Y : t \in Seq(Y)
    BY DEF IsSeq
  <1>1. s \in Seq(X \cup Y) /\ t \in Seq(X \cup Y)
    OBVIOUS
  <1>2. s \o t \in Seq(X \cup Y) /\ Len(s \o t) = Len(s) + Len(t)
    BY <1>1
  <1>3. ASSUME NEW n \in 1 .. Len(s) PROVE (s \o t)[n] = s[n]
    BY <1>1
  <1>4. ASSUME NEW n \in 1 .. Len(t) PROVE (s \o t)[Len(s) + n] = t[n]
    BY <1>1
  <1> QED BY <1>2, <1>3, <1>4 DEF IsSeq

FlatOf(f, t, m) ==
    f = [i \in 1 .. m |-> IF i = 1 THEN t[i] ELSE f[i - 1] \o t[i]]

\* Sequences can be strung together.
LEMMA FlatExists ==
    ASSUME NEW t, NEW m \in Nat
    PROVE  \E f : FlatOf(f, t, m)
  <1> DEFINE S == {k \in Nat : ~\E f : FlatOf(f, t, k)}
  <1> SUFFICES ASSUME S # {} PROVE FALSE
    OBVIOUS
  <1>1. PICK x \in S : \A y \in S : x <= y
    BY FirstFailure
  <1>2. CASE x = 0
    <2> DEFINE f == [i \in 1 .. 0 |-> 0]
    <2>1. FlatOf(f, t, 0)
      BY DEF FlatOf
    <2> QED BY <1>1, <1>2, <2>1
  <1>3. CASE x # 0
    <2>1. x - 1 \in Nat /\ x \in Nat
      BY <1>3
    <2>2. x - 1 \notin S
      <3>1. ~ (x <= x - 1)
        BY <2>1
      <3> HIDE DEF S
      <3> QED BY <1>1, <3>1
    <2>3. PICK f : FlatOf(f, t, x - 1)
      BY <2>1, <2>2
    <2> DEFINE g == [i \in 1 .. x |-> IF i = x /\ x # 1 THEN f[x - 1] \o t[x]
                                      ELSE IF i = x THEN t[x] ELSE f[i]]
    <2>a. \A i \in 1 .. x - 1 : f[i] = IF i = 1 THEN t[i] ELSE f[i - 1] \o t[i]
      BY <2>3, Zenon DEF FlatOf
    <2>4. ASSUME NEW i \in 1 .. x
          PROVE  g[i] = IF i = 1 THEN t[i] ELSE g[i - 1] \o t[i]
      <3>1. CASE i = x
        <4>1. CASE x = 1
          BY <3>1, <4>1
        <4>2. CASE x # 1
          <5>1. x - 1 \in 1 .. x /\ x - 1 # x
            BY <2>1, <1>3, <4>2
          <5>2. g[x - 1] = f[x - 1]
            BY <5>1
          <5> QED BY <3>1, <4>2, <5>2
        <4> QED BY <4>1, <4>2
      <3>2. CASE i # x
        <4>1. i \in 1 .. x - 1
          BY <2>1, <3>2
        <4>2. g[i] = f[i]
          BY <3>2
        <4>3. CASE i = 1
          BY <2>a, <4>1, <4>2, <4>3
        <4>4. CASE i # 1
          <5>1. i - 1 \in 1 .. x /\ i - 1 # x
            BY <2>1, <4>1, <4>4
          <5>2. g[i - 1] = f[i - 1]
            BY <5>1
          <5> QED BY <2>a, <4>1, <4>2, <4>4, <5>2
        <4> QED BY <4>3, <4>4
      <3> QED BY <3>1, <3>2
    <2>5. g = [i \in 1 .. x |-> IF i = 1 THEN t[i] ELSE g[i - 1] \o t[i]]
      <3>1. g = [i \in 1 .. x |-> g[i]]
        OBVIOUS
      <3> HIDE DEF g
      <3> QED BY <2>4, <3>1
    <2> QED BY <1>1, <2>5 DEF FlatOf
  <1> QED BY <1>2, <1>3

\* What is strung together is made of what the parts are made of.
LEMMA Flattened ==
    ASSUME NEW X, NEW t \in Seq(Seq(X))
    PROVE  FlattenSeq(t) \in Seq(X)
  <1> PICK m : m = Len(t)
    OBVIOUS
  <1>1. m \in Nat /\ \A i \in 1 .. m : t[i] \in Seq(X)
    OBVIOUS
  <1>2. CASE m = 0
    <2>1. t = [i \in 1 .. 0 |-> t[i]]
      <3>1. IsSeq(t)
        BY Zenon DEF IsSeq
      <3>2. t = [i \in 1 .. Len(t) |-> t[i]] /\ Len(t) = 0
        BY <1>2, <3>1, Sequences
      <3> QED BY ONLY <3>2
    <2>2. t \in Seq(X)
      BY ONLY <2>1
    <2>3. FlattenSeq(t) = t
      BY <1>2, Zenon DEF FlattenSeq
    <2> QED BY <2>2, <2>3
  <1>3. CASE m # 0
    <2> DEFINE flatten == CHOOSE f : f = [i \in 1 .. Len(t) |->
                                         IF i = 1 THEN t[i] ELSE f[i - 1] \o t[i]]
    <2>1. FlattenSeq(t) = flatten[m]
      BY <1>3, Zenon DEF FlattenSeq
    <2>2. flatten = [i \in 1 .. Len(t) |-> IF i = 1 THEN t[i] ELSE flatten[i - 1] \o t[i]]
      <3>1. \E f : f = [i \in 1 .. Len(t) |-> IF i = 1 THEN t[i] ELSE f[i - 1] \o t[i]]
        BY <1>1, FlatExists, Zenon DEF FlatOf
      <3> QED BY <3>1, Zenon
    <2> HIDE DEF flatten
    <2>3. \A i \in 1 .. m : flatten[i] = IF i = 1 THEN t[i] ELSE flatten[i - 1] \o t[i]
      BY <2>2, Zenon
    <2> DEFINE S == {i \in 1 .. m : flatten[i] \notin Seq(X)}
    <2>4. S = {}
      <3> SUFFICES ASSUME S # {} PROVE FALSE
        OBVIOUS
      <3>1. S \subseteq Nat
        OBVIOUS
      <3>2. PICK x \in S : \A y \in S : x <= y
        <4> HIDE DEF S
        <4> QED BY <3>1, FirstFailure
      <3>3. x \in 1 .. m /\ flatten[x] \notin Seq(X) /\ t[x] \in Seq(X)
        BY <1>1
      <3>4. x # 1
        BY <2>3, <3>3
      <3>5. x - 1 \in 1 .. m /\ ~ (x <= x - 1)
        BY <1>1, <3>3, <3>4
      <3>6. flatten[x - 1] \in Seq(X)
        <4>1. x - 1 \notin S
          <5> HIDE DEF S
          <5> QED BY <3>2, <3>5
        <4> QED BY <3>5, <4>1
      <3>7. flatten[x] = flatten[x - 1] \o t[x]
        BY <2>3, <3>3, <3>4
      <3>8. flatten[x - 1] \o t[x] \in Seq(X)
        BY ONLY <3>3, <3>6
      <3> QED BY <3>3, <3>7, <3>8
    <2>5. m \in 1 .. m
      BY <1>1, <1>3
    <2> QED BY <2>1, <2>4, <2>5
  <1> QED BY <1>2, <1>3

\* A finite set, as a sequence, has each of its elements once.
LEMMA Listed ==
    ASSUME NEW S, IsFiniteSet(S)
    PROVE  \E n \in Nat : /\ SetToSeq(S) \in [1 .. n -> S]
                          /\ \A x \in S : \E k \in 1 .. n : SetToSeq(S)[k] = x
                          /\ \A k, l \in 1 .. n : SetToSeq(S)[k] = SetToSeq(S)[l] => k = l
  <1> PICK n, q : n = Cardinality(S) /\ q = SetToSeq(S)
    OBVIOUS
  <1>1. n \in Nat /\ ExistsBijection(1 .. n, S)
    BY FS_CardinalityType
  <1>2. PICK f : f \in [1 .. n -> S] /\ IsInjective(f)
    BY <1>1 DEF ExistsBijection, Bijection, Injection, IsInjective
  <1>3. q \in [1 .. n -> S] /\ IsInjective(q)
    BY <1>2, Zenon DEF SetToSeq
  <1>4. q \in Injection(1 .. n, S)
    BY <1>3, Zenon DEF Injection
  <1>5. IsFiniteSet(1 .. n) /\ Cardinality(1 .. n) = n
    <2>1. 1 \in Int /\ n \in Int /\ (1 > n => n = 0) /\ n - 1 + 1 = n
      BY <1>1
    <2> QED BY <2>1, FS_Interval
  <1>6. q \in Surjection(1 .. n, S)
    BY <1>4, <1>5, FS_Injection
  <1> QED BY <1>1, <1>3, <1>6 DEF Surjection, IsInjective

\* Two lists are one list when they are so element by element.
LEMMA SameList ==
    ASSUME NEW s, NEW t, IsSeq(s), IsSeq(t), Len(s) = Len(t),
           \A n \in 1 .. Len(s) : s[n] = t[n]
    PROVE  s = t
  <1>1. s = [n \in 1 .. Len(s) |-> s[n]] /\ t = [n \in 1 .. Len(t) |-> t[n]]
    BY Sequences
  <1>2. [n \in 1 .. Len(s) |-> s[n]] = [n \in 1 .. Len(s) |-> t[n]]
    OBVIOUS
  <1> QED BY <1>1, <1>2, Zenon

\* Lists put one after the other.
LEMMA ThreeLists ==
    ASSUME NEW s, NEW t, NEW u, IsSeq(s), IsSeq(t), IsSeq(u)
    PROVE  (s \o t) \o u = s \o (t \o u)
  <1> PICK X : s \in Seq(X)
    BY DEF IsSeq
  <1> PICK Y : t \in Seq(Y)
    BY DEF IsSeq
  <1> PICK Z : u \in Seq(Z)
    BY DEF IsSeq
  <1> PICK W : W = X \cup Y \cup Z
    OBVIOUS
  <1>1. s \in Seq(W) /\ t \in Seq(W) /\ u \in Seq(W)
    OBVIOUS
  <1> QED BY ONLY <1>1

\* Nothing added to a sequence, on either side.
LEMMA NoneAdded ==
    ASSUME NEW s, IsSeq(s)
    PROVE  s \o <<>> = s /\ <<>> \o s = s
  <1> PICK X : s \in Seq(X)
    BY DEF IsSeq
  <1> QED OBVIOUS

\* One more element, at the end of two sequences put together.
LEMMA OneAdded ==
    ASSUME NEW s, NEW t, IsSeq(s), IsSeq(t), NEW x
    PROVE  s \o Append(t, x) = Append(s \o t, x) /\ Append(s, x) = s \o <<x>>
  <1> PICK X : s \in Seq(X)
    BY DEF IsSeq
  <1> PICK Y : t \in Seq(Y)
    BY DEF IsSeq
  <1> PICK W : W = X \cup Y \cup {x}
    OBVIOUS
  <1>1. s \in Seq(W) /\ t \in Seq(W) /\ x \in W
    OBVIOUS
  <1> QED BY ONLY <1>1

\* What holds of the empty list and of a list with one more holds of them all.
LEMMA ListInduction ==
    ASSUME NEW C, NEW X, <<>> \in X,
           \A s \in Seq(C) : s \in X => \A c \in C : Append(s, c) \in X
    PROVE  \A s \in Seq(C) : s \in X
  <1> SUFFICES ASSUME NEW s \in Seq(C), s \notin X PROVE FALSE
    OBVIOUS
  <1> DEFINE S == {n \in 0 .. Len(s) : SubSeq(s, 1, n) \notin X}
  <1>1. Len(s) \in Nat /\ SubSeq(s, 1, Len(s)) = s
    OBVIOUS
  <1>2. Len(s) \in S
    <2>1. Len(s) \in 0 .. Len(s)
      BY <1>1
    <2>2. SubSeq(s, 1, Len(s)) \notin X
      BY <1>1
    <2> QED BY <2>1, <2>2
  <1>3. PICK n \in S : \A m \in S : n <= m
    <2>1. S \subseteq Nat /\ S # {}
      BY <1>1, <1>2
    <2> HIDE DEF S
    <2> QED BY <2>1, FirstFailure
  <1>4. n # 0
    <2>1. SubSeq(s, 1, 0) = <<>>
      OBVIOUS
    <2> QED BY <2>1
  <1>5. n \in 1 .. Len(s) /\ n - 1 \in 0 .. Len(s) /\ ~ (n <= n - 1)
    BY <1>1, <1>4
  <1>6. SubSeq(s, 1, n - 1) \in X
    <2>1. n - 1 \notin S
      <3> HIDE DEF S
      <3> QED BY <1>3, <1>5
    <2> QED BY <1>5, <2>1
  <1>7. SubSeq(s, 1, n - 1) \in Seq(C) /\ s[n] \in C
    BY <1>1, <1>5
  <1>8. SubSeq(s, 1, n) = Append(SubSeq(s, 1, n - 1), s[n])
    BY <1>1, <1>5
  <1> QED BY <1>6, <1>7, <1>8

\* A list of lists.
IsLists(t) == IsSeq(t) /\ \A k \in 1 .. Len(t) : IsSeq(t[k])

\* The lists of a list of lists have their elements from one set.
LEMMA ListsOver ==
    ASSUME NEW t, IsLists(t)
    PROVE  \E X : t \in Seq(Seq(X))
  <1> DEFINE X == UNION {{t[k][n] : n \in 1 .. Len(t[k])} : k \in 1 .. Len(t)}
  <1>1. ASSUME NEW k \in 1 .. Len(t) PROVE t[k] \in Seq(X)
    <2> PICK s : s = t[k]
      OBVIOUS
    <2>1. Len(s) \in Nat /\ s = [n \in 1 .. Len(s) |-> s[n]]
      BY Sequences DEF IsLists
    <2>2. \A n \in 1 .. Len(s) : s[n] \in X
      OBVIOUS
    <2> HIDE DEF X
    <2> QED BY <2>1, <2>2
  <1>2. Len(t) \in Nat /\ t = [n \in 1 .. Len(t) |-> t[n]]
    BY Sequences DEF IsLists
  <1> HIDE DEF X
  <1>3. t \in Seq(Seq(X))
    BY <1>1, <1>2
  <1> QED BY <1>3

\* A list of lists with one more.
LEMMA OneMore ==
    ASSUME NEW t, NEW x, IsLists(t), IsSeq(x)
    PROVE  IsLists(Append(t, x))
  <1> PICK u : u = Append(t, x)
    OBVIOUS
  <1>1. /\ Len(t) \in Nat /\ IsSeq(u) /\ Len(u) = Len(t) + 1
        /\ u = [n \in 1 .. Len(t) + 1 |-> IF n = Len(t) + 1 THEN x ELSE t[n]]
    BY Sequences DEF IsLists
  <1>2. ASSUME NEW k \in 1 .. Len(u) PROVE IsSeq(u[k])
    <2>1. u[k] = IF k = Len(t) + 1 THEN x ELSE t[k]
      BY <1>1
    <2>2. k # Len(t) + 1 => k \in 1 .. Len(t)
      BY <1>1
    <2> QED BY <2>1, <2>2 DEF IsLists
  <1> QED BY <1>1, <1>2 DEF IsLists

\* No lists strung together.
LEMMA NothingStrung == FlattenSeq(<<>>) = <<>>
  BY DEF FlattenSeq

\* What FlattenSeq returns is the last of the lists that it builds up.
LEMMA Strung ==
    ASSUME NEW t, NEW m \in Nat, IsSeq(t), Len(t) = m, m # 0
    PROVE  \E f : FlatOf(f, t, m) /\ FlattenSeq(t) = f[m]
  <1> DEFINE flatten == CHOOSE f : f = [i \in 1 .. Len(t) |->
                                       IF i = 1 THEN t[i] ELSE f[i - 1] \o t[i]]
  <1>1. FlattenSeq(t) = flatten[m]
    BY Zenon DEF FlattenSeq
  <1>2. flatten = [i \in 1 .. Len(t) |-> IF i = 1 THEN t[i] ELSE flatten[i - 1] \o t[i]]
    <2>1. \E f : f = [i \in 1 .. Len(t) |-> IF i = 1 THEN t[i] ELSE f[i - 1] \o t[i]]
      BY FlatExists, Zenon DEF FlatOf
    <2> QED BY <2>1, Zenon
  <1> QED BY <1>1, <1>2, Zenon DEF FlatOf

\* One list more is put after the others.
LEMMA StrungOne ==
    ASSUME NEW t, NEW x, IsLists(t), IsSeq(x)
    PROVE  FlattenSeq(Append(t, x)) = FlattenSeq(t) \o x
  <1> PICK m : m = Len(t)
    OBVIOUS
  <1> PICK u : u = Append(t, x)
    OBVIOUS
  <1>1. /\ m \in Nat /\ IsSeq(t) /\ IsSeq(u) /\ Len(u) = m + 1 /\ u[m + 1] = x
        /\ \A i \in 1 .. m : u[i] = t[i]
    <2>1. /\ m \in Nat /\ IsSeq(t) /\ IsSeq(u) /\ Len(u) = m + 1
          /\ u = [n \in 1 .. m + 1 |-> IF n = m + 1 THEN x ELSE t[n]]
      BY Sequences DEF IsLists
    <2> QED BY <2>1
  <1>2. PICK g : FlatOf(g, u, m + 1) /\ FlattenSeq(u) = g[m + 1]
    <2>1. m + 1 \in Nat /\ m + 1 # 0
      BY <1>1
    <2> QED BY <1>1, <2>1, Strung
  <1>3. \A i \in 1 .. m + 1 : g[i] = IF i = 1 THEN u[i] ELSE g[i - 1] \o u[i]
    BY <1>2, Zenon DEF FlatOf
  <1>4. m + 1 \in 1 .. m + 1
    BY <1>1
  <1>5. CASE m = 0
    <2>1. t = <<>>
      BY <1>1, <1>5, SameList, Len(<<>>) = 0, IsSeq(<<>>)
    <2>2. FlattenSeq(t) = <<>>
      BY <2>1, NothingStrung
    <2>3. g[m + 1] = x
      BY <1>1, <1>3, <1>4, <1>5
    <2> QED BY <1>2, <2>2, <2>3, NoneAdded
  <1>6. CASE m # 0
    <2>1. PICK f : FlatOf(f, t, m) /\ FlattenSeq(t) = f[m]
      BY <1>1, <1>6, Strung
    <2>2. \A i \in 1 .. m : f[i] = IF i = 1 THEN t[i] ELSE f[i - 1] \o t[i]
      BY <2>1, Zenon DEF FlatOf
    <2> DEFINE S == {i \in 1 .. m : g[i] # f[i]}
    <2>3. S = {}
      <3> SUFFICES ASSUME S # {} PROVE FALSE
        OBVIOUS
      <3>1. S \subseteq Nat
        OBVIOUS
      <3>2. PICK n \in S : \A k \in S : n <= k
        <4> HIDE DEF S
        <4> QED BY <3>1, FirstFailure
      <3>3. n \in 1 .. m /\ g[n] # f[n] /\ n \in 1 .. m + 1
        BY <1>1
      <3>4. n # 1
        BY <1>1, <1>3, <2>2, <3>3
      <3>5. n - 1 \in 1 .. m /\ ~ (n <= n - 1)
        BY <1>1, <3>3, <3>4
      <3>6. g[n - 1] = f[n - 1]
        <4>1. n - 1 \notin S
          <5> HIDE DEF S
          <5> QED BY <3>2, <3>5
        <4> QED BY <3>5, <4>1
      <3> QED BY <1>1, <1>3, <2>2, <3>3, <3>4, <3>6
    <2>4. m \in 1 .. m /\ m + 1 # 1 /\ (m + 1) - 1 = m
      BY <1>1, <1>6
    <2>5. g[m + 1] = g[m] \o x
      BY <1>1, <1>3, <1>4, <2>4
    <2>6. g[m] = f[m]
      BY <2>3, <2>4
    <2> QED BY <1>2, <2>1, <2>5, <2>6
  <1> QED BY <1>5, <1>6

\* Lists strung together are a list.
LEMMA StrungIsList ==
    ASSUME NEW t, IsLists(t)
    PROVE  IsSeq(FlattenSeq(t))
  <1> PICK X : t \in Seq(Seq(X))
    BY ListsOver
  <1>1. FlattenSeq(t) \in Seq(X)
    BY Flattened
  <1> QED BY <1>1, Zenon DEF IsSeq

\* Two lists of lists.
LEMMA StrungJoined ==
    ASSUME NEW t, NEW u, IsLists(t), IsLists(u)
    PROVE  IsLists(t \o u) /\ FlattenSeq(t \o u) = FlattenSeq(t) \o FlattenSeq(u)
  <1> PICK X : t \in Seq(Seq(X))
    BY ListsOver
  <1> PICK Y : u \in Seq(Seq(Y))
    BY ListsOver
  <1> DEFINE W == {v \in Seq(Seq(Y)) : /\ IsLists(t \o v)
                                       /\ FlattenSeq(t \o v) = FlattenSeq(t) \o FlattenSeq(v)}
  <1>1. <<>> \in W
    <2>1. <<>> \in Seq(Seq(Y)) /\ t \o <<>> = t
      OBVIOUS
    <2>2. FlattenSeq(t) \o FlattenSeq(<<>>) = FlattenSeq(t)
      BY NothingStrung, StrungIsList, NoneAdded
    <2> QED BY <2>1, <2>2
  <1>2. ASSUME NEW v \in Seq(Seq(Y)), v \in W, NEW c \in Seq(Y) PROVE Append(v, c) \in W
    <2>1. IsSeq(t) /\ IsSeq(v) /\ IsSeq(c) /\ IsLists(v) /\ IsLists(t \o v)
      <3>1. \A k \in 1 .. Len(v) : v[k] \in Seq(Y)
        OBVIOUS
      <3>2. \A k \in 1 .. Len(v) : IsSeq(v[k])
        BY <3>1, Zenon DEF IsSeq
      <3>3. IsSeq(v) /\ IsSeq(c)
        BY Zenon DEF IsSeq
      <3>4. IsLists(t \o v)
        BY <1>2
      <3> QED BY <3>2, <3>3, <3>4, Zenon DEF IsLists
    <2>2. t \o Append(v, c) = Append(t \o v, c)
      BY <2>1, OneAdded
    <2>3. FlattenSeq(Append(t \o v, c)) = FlattenSeq(t \o v) \o c
      BY <2>1, StrungOne
    <2>4. FlattenSeq(Append(v, c)) = FlattenSeq(v) \o c
      BY <2>1, StrungOne
    <2>5. IsSeq(FlattenSeq(t)) /\ IsSeq(FlattenSeq(v))
      BY <2>1, StrungIsList
    <2>6. (FlattenSeq(t) \o FlattenSeq(v)) \o c = FlattenSeq(t) \o (FlattenSeq(v) \o c)
      BY <2>1, <2>5, ThreeLists
    <2>7. IsLists(Append(t \o v, c))
      BY <2>1, OneMore
    <2>8. Append(v, c) \in Seq(Seq(Y))
      OBVIOUS
    <2>9. FlattenSeq(t \o v) = FlattenSeq(t) \o FlattenSeq(v)
      BY <1>2
    <2>10. FlattenSeq(t \o Append(v, c)) = FlattenSeq(t) \o FlattenSeq(Append(v, c))
      BY <2>2, <2>3, <2>4, <2>6, <2>9
    <2> QED BY <2>2, <2>7, <2>8, <2>10
  <1> HIDE DEF W
  <1>3. u \in W
    BY <1>1, <1>2, ListInduction
  <1> QED BY <1>3 DEF W

-------------------------------------------------------------------------------
(* Parts of lists, and lists strung together.                              *)

\* The empty list, and a list of one.
LEMMA ShortLists ==
    /\ IsSeq(<<>>) /\ DOMAIN <<>> = {}
    /\ \A x : IsSeq(<<x>>) /\ DOMAIN <<x>> = {1} /\ <<x>>[1] = x
  <1>1. IsSeq(<<>>) /\ DOMAIN <<>> = {}
    BY DEF IsSeq
  <1>2. ASSUME NEW x PROVE IsSeq(<<x>>) /\ DOMAIN <<x>> = {1} /\ <<x>>[1] = x
    <2>1. <<x>> \in Seq({x})
      OBVIOUS
    <2>2. IsSeq(<<x>>)
      BY <2>1, Zenon DEF IsSeq
    <2> QED BY <2>1, <2>2
  <1> QED BY <1>1, <1>2

\* The first n of a list and the rest of it.
LEMMA Parts ==
    ASSUME NEW s, IsSeq(s), NEW n \in 0 .. Len(s)
    PROVE  /\ Len(s) - n \in Nat
           /\ IsSeq(SubSeq(s, 1, n)) /\ DOMAIN SubSeq(s, 1, n) = 1 .. n
           /\ \A k \in 1 .. n : SubSeq(s, 1, n)[k] = s[k]
           /\ IsSeq(SubSeq(s, n + 1, Len(s)))
           /\ DOMAIN SubSeq(s, n + 1, Len(s)) = 1 .. Len(s) - n
           /\ \A k \in 1 .. Len(s) - n : SubSeq(s, n + 1, Len(s))[k] = s[k + n]
  <1> PICK X : s \in Seq(X)
    BY DEF IsSeq
  <1>1. Len(s) \in Nat /\ Len(s) - n \in Nat /\ n \in Nat /\ DOMAIN s = 1 .. Len(s)
    OBVIOUS
  <1>2. SubSeq(s, 1, n) = [k \in 1 .. n |-> s[k]]
    BY <1>1
  <1>3. SubSeq(s, n + 1, Len(s)) = [k \in 1 .. Len(s) - n |-> s[k + n]]
    BY <1>1
  <1>4. \A k \in 1 .. n : s[k] \in X
    BY <1>1
  <1>5. \A k \in 1 .. Len(s) - n : s[k + n] \in X
    BY <1>1
  <1>6. SubSeq(s, 1, n) \in Seq(X)
    BY <1>1, <1>2, <1>4
  <1>7. SubSeq(s, n + 1, Len(s)) \in Seq(X)
    BY <1>1, <1>3, <1>5
  <1>8. IsSeq(SubSeq(s, 1, n)) /\ IsSeq(SubSeq(s, n + 1, Len(s)))
    BY <1>6, <1>7, Zenon DEF IsSeq
  <1> QED BY <1>1, <1>2, <1>3, <1>8

\* Lists strung together have the elements of the lists.
LEMMA StrungTogether ==
    ASSUME NEW t, IsSeq(t), NEW X, \A k \in 1 .. Len(t) : t[k] \in Seq(X)
    PROVE  FlattenSeq(t) \in Seq(X)
  <1>1. t \in Seq(Seq(X))
    <2>1. Len(t) \in Nat /\ t = [n \in 1 .. Len(t) |-> t[n]]
      BY Sequences
    <2> QED BY <2>1
  <1> QED BY <1>1, Flattened

Elements(t) == UNION {{t[k][n] : n \in 1 .. Len(t[k])} : k \in 1 .. Len(t)}

\* Sequences strung together have the elements of the ones strung.
LEMMA StrungElements ==
    ASSUME NEW t, IsSeq(t), \A k \in 1 .. Len(t) : IsSeq(t[k])
    PROVE  FlattenSeq(t) \in Seq(Elements(t))
  <1>1. ASSUME NEW k \in 1 .. Len(t) PROVE t[k] \in Seq(Elements(t))
    <2> PICK s : s = t[k]
      OBVIOUS
    <2>1. IsSeq(s) /\ Len(s) \in Nat /\ s = [n \in 1 .. Len(s) |-> s[n]]
      BY Sequences
    <2>2. \A n \in 1 .. Len(s) : s[n] \in Elements(t)
      BY DEF Elements
    <2>3. s \in Seq(Elements(t))
      BY <2>1, <2>2
    <2> QED BY <2>3
  <1> QED BY <1>1, StrungTogether

\* A function from 1 .. n is a list.
LEMMA ListOf ==
    ASSUME NEW n \in Nat, NEW f, f = [k \in 1 .. n |-> f[k]]
    PROVE  IsSeq(f) /\ Len(f) = n
  <1> DEFINE X == {f[k] : k \in 1 .. n}
  <1>1. f \in [1 .. n -> X]
    OBVIOUS
  <1> HIDE DEF X
  <1>2. f \in Seq(X) /\ Len(f) = n
    BY <1>1
  <1> QED BY <1>2, Zenon DEF IsSeq

\* A set of numbers with a bound has a greatest one.
LEMMA Greatest ==
    ASSUME NEW m \in Nat, NEW S, S \subseteq 1 .. m, S # {}
    PROVE  Max(S) \in S
  <1> DEFINE R == {m - x : x \in S}
  <1>1. R \subseteq Nat /\ R # {}
    <2>1. ASSUME NEW x \in S PROVE m - x \in Nat
      <3>1. x \in 1 .. m
        OBVIOUS
      <3> QED BY ONLY <3>1, m \in Nat
    <2>2. PICK x : x \in S
      OBVIOUS
    <2>3. m - x \in R
      BY <2>2
    <2> QED BY <2>1, <2>3
  <1>2. PICK y \in R : \A z \in R : y <= z
    <2> HIDE DEF R
    <2> QED BY <1>1, FirstFailure
  <1>3. PICK x \in S : y = m - x
    BY <1>2
  <1>4. ASSUME NEW z \in S PROVE x >= z
    <2>1. y <= m - z
      BY <1>2
    <2> QED BY <1>3, <2>1
  <1>5. \E g \in S : \A z \in S : g >= z
    BY <1>4
  <1> QED BY <1>5, Zenon DEF Max

-------------------------------------------------------------------------------
(* The elements of lists.                                                  *)

\* A list is one over its elements, and only a list is.
LEMMA OverItsElements ==
    ASSUME NEW s
    PROVE  s \in Seq(Range(s)) <=> IsSeq(s)
  <1>1. ASSUME s \in Seq(Range(s)) PROVE IsSeq(s)
    BY <1>1, Zenon DEF IsSeq
  <1>2. ASSUME IsSeq(s) PROVE s \in Seq(Range(s))
    <2>1. Len(s) \in Nat /\ s = [n \in 1 .. Len(s) |-> s[n]] /\ DOMAIN s = 1 .. Len(s)
      BY <1>2, Sequences
    <2>2. \A n \in 1 .. Len(s) : s[n] \in Range(s)
      BY <2>1 DEF Range
    <2> QED BY <2>1, <2>2
  <1> QED BY <1>1, <1>2

\* The elements of lists.
LEMMA Elems ==
    /\ Range(<<>>) = {}
    /\ \A c : Range(<<c>>) = {c}
  <1>1. Range(<<>>) = {}
    BY DEF Range
  <1>2. ASSUME NEW c PROVE Range(<<c>>) = {c}
    BY DEF Range
  <1> QED BY <1>1, <1>2

\* A list is one over its elements.
LEMMA ElemsOf ==
    ASSUME NEW s, IsSeq(s)
    PROVE  s \in Seq(Range(s)) /\ Range(s) = {s[n] : n \in 1 .. Len(s)}
  <1>1. DOMAIN s = 1 .. Len(s)
    BY Sequences
  <1>2. Range(s) = {s[n] : n \in 1 .. Len(s)}
    BY <1>1 DEF Range
  <1>3. s \in Seq(Range(s))
    BY OverItsElements
  <1> QED BY <1>2, <1>3

\* The elements of two lists in one.
LEMMA ElemsJoined ==
    ASSUME NEW s, NEW t, IsSeq(s), IsSeq(t)
    PROVE  Range(s \o t) = Range(s) \cup Range(t)
  <1>1. /\ IsSeq(s \o t) /\ Len(s \o t) = Len(s) + Len(t)
        /\ Len(s) \in Nat /\ Len(t) \in Nat
        /\ \A n \in 1 .. Len(s) : (s \o t)[n] = s[n]
        /\ \A n \in 1 .. Len(t) : (s \o t)[Len(s) + n] = t[n]
    BY Concatenated, Sequences
  <1>2. ASSUME NEW x PROVE x \in Range(s \o t) <=> x \in Range(s) \cup Range(t)
    <2>1. x \in Range(s \o t) <=> \E n \in 1 .. Len(s) + Len(t) : x = (s \o t)[n]
      <3>1. Range(s \o t) = {(s \o t)[n] : n \in 1 .. Len(s \o t)}
        BY <1>1, ElemsOf
      <3> QED BY ONLY <1>1, <3>1
    <2>2. x \in Range(s) <=> \E n \in 1 .. Len(s) : x = s[n]
      BY ElemsOf
    <2>3. x \in Range(t) <=> \E n \in 1 .. Len(t) : x = t[n]
      BY ElemsOf
    <2>4. ASSUME NEW n \in 1 .. Len(s) + Len(t), x = (s \o t)[n]
          PROVE  x \in Range(s) \/ x \in Range(t)
      <3>1. CASE n <= Len(s)
        <4>1. n \in 1 .. Len(s)
          BY <1>1, <3>1
        <4> QED BY <1>1, <2>2, <2>4, <4>1
      <3>2. CASE ~ (n <= Len(s))
        <4> PICK k : k = n - Len(s)
          OBVIOUS
        <4>1. k \in 1 .. Len(t) /\ n = Len(s) + k
          BY <1>1, <3>2
        <4> QED BY <1>1, <2>3, <2>4, <4>1
      <3> QED BY <3>1, <3>2
    <2>5. ASSUME NEW n \in 1 .. Len(s), x = s[n] PROVE x \in Range(s \o t)
      <3>1. n \in 1 .. Len(s) + Len(t)
        BY <1>1
      <3> QED BY <1>1, <2>1, <2>5, <3>1
    <2>6. ASSUME NEW n \in 1 .. Len(t), x = t[n] PROVE x \in Range(s \o t)
      <3>1. Len(s) + n \in 1 .. Len(s) + Len(t)
        BY <1>1
      <3> QED BY <1>1, <2>1, <2>6, <3>1
    <2> QED BY <2>1, <2>2, <2>3, <2>4, <2>5, <2>6
  <1> QED BY <1>2

\* The elements of a list with one more.
LEMMA ElemsOneMore ==
    ASSUME NEW s, NEW c, IsSeq(s)
    PROVE  Range(Append(s, c)) = Range(s) \cup {c} /\ IsSeq(Append(s, c))
  <1>1. Append(s, c) = s \o <<c>> /\ IsSeq(<<c>>)
    BY OneAdded, ShortLists
  <1>2. Range(s \o <<c>>) = Range(s) \cup Range(<<c>>)
    BY <1>1, ElemsJoined
  <1>3. IsSeq(Append(s, c))
    BY Sequences
  <1> QED BY <1>1, <1>2, <1>3, Elems

\* A list strung together has the elements of its lists.
LEMMA ElemsStrung ==
    ASSUME NEW t, IsLists(t)
    PROVE  Range(FlattenSeq(t)) = UNION {Range(t[k]) : k \in 1 .. Len(t)}
  <1> PICK X : t \in Seq(Seq(X))
    BY ListsOver
  <1> DEFINE W == {v \in Seq(Seq(X)) :
                     IsLists(v) /\ Range(FlattenSeq(v)) = UNION {Range(x) : x \in Range(v)}}
  <1>1. <<>> \in W
    <2>1. <<>> \in Seq(Seq(X)) /\ IsLists(<<>>)
      BY ShortLists DEF IsLists
    <2> QED BY <2>1, NothingStrung, Elems
  <1>2. ASSUME NEW v \in Seq(Seq(X)), v \in W, NEW c \in Seq(X) PROVE Append(v, c) \in W
    <2>1. IsLists(v) /\ Range(FlattenSeq(v)) = UNION {Range(x) : x \in Range(v)}
      BY <1>2
    <2>2. IsSeq(c) /\ IsSeq(v)
      BY <2>1, Zenon DEF IsSeq, IsLists
    <2>3. FlattenSeq(Append(v, c)) = FlattenSeq(v) \o c
      BY <2>1, <2>2, StrungOne
    <2>4. Range(FlattenSeq(Append(v, c))) = Range(FlattenSeq(v)) \cup Range(c)
      BY <2>1, <2>2, <2>3, StrungIsList, ElemsJoined
    <2>5. Range(Append(v, c)) = Range(v) \cup {c}
      BY <2>2, ElemsOneMore
    <2>6. IsLists(Append(v, c)) /\ Append(v, c) \in Seq(Seq(X))
      BY <2>1, <2>2, OneMore
    <2>7. Range(FlattenSeq(Append(v, c))) = UNION {Range(x) : x \in Range(Append(v, c))}
      BY ONLY <2>1, <2>4, <2>5
    <2> QED BY <2>6, <2>7
  <1> HIDE DEF W
  <1>3. t \in W
    BY <1>1, <1>2, ListInduction
  <1>4. Range(FlattenSeq(t)) = UNION {Range(x) : x \in Range(t)}
    BY <1>3 DEF W
  <1>5. Range(t) = {t[k] : k \in 1 .. Len(t)}
    BY ElemsOf DEF IsLists
  <1> QED BY ONLY <1>4, <1>5

-------------------------------------------------------------------------------
(* Lists made from others.                                                 *)

\* A list made from another one, element by element.
LEMMA MappedOne ==
    ASSUME NEW g, NEW s, IsSeq(s), NEW c,
           NEW t, IsSeq(t), Len(t) = Len(s), \A k \in 1 .. Len(s) : t[k] = g[s[k]],
           NEW v, IsSeq(v), Len(v) = Len(s) + 1,
           \A k \in 1 .. Len(s) + 1 : v[k] = g[Append(s, c)[k]]
    PROVE  v = Append(t, g[c])
  <1> PICK u, w : u = Append(s, c) /\ w = Append(t, g[c])
    OBVIOUS
  <1>1. /\ Len(s) \in Nat
        /\ u = [n \in 1 .. Len(s) + 1 |-> IF n = Len(s) + 1 THEN c ELSE s[n]]
        /\ w = [n \in 1 .. Len(s) + 1 |-> IF n = Len(s) + 1 THEN g[c] ELSE t[n]]
        /\ IsSeq(w) /\ Len(w) = Len(s) + 1
    BY Sequences
  <1>2. ASSUME NEW n \in 1 .. Len(s) + 1 PROVE v[n] = w[n]
    <2>1. n # Len(s) + 1 => n \in 1 .. Len(s)
      BY <1>1
    <2>2. u[n] = IF n = Len(s) + 1 THEN c ELSE s[n]
      BY <1>1
    <2>3. w[n] = IF n = Len(s) + 1 THEN g[c] ELSE t[n]
      BY <1>1
    <2> QED BY <2>1, <2>2, <2>3
  <1> QED BY <1>1, <1>2, SameList

\* A list of lists, made from another by one more.
LEMMA StrungMore ==
    ASSUME NEW n \in Nat, NEW t, t = [k \in 1 .. n |-> t[k]],
           NEW z, z = [k \in 1 .. n + 1 |-> z[k]],
           \A k \in 1 .. n : z[k] = t[k] /\ IsSeq(t[k]), IsSeq(z[n + 1])
    PROVE  IsLists(t) /\ FlattenSeq(z) = FlattenSeq(t) \o z[n + 1]
  <1>1. IsSeq(t) /\ Len(t) = n /\ IsSeq(z) /\ Len(z) = n + 1
    BY ListOf
  <1>2. IsLists(t)
    BY <1>1 DEF IsLists
  <1>3. z = Append(t, z[n + 1])
    <2> PICK w : w = Append(t, z[n + 1])
      OBVIOUS
    <2>1. IsSeq(w) /\ Len(w) = n + 1 /\ w = [k \in 1 .. n + 1 |-> IF k = n + 1 THEN z[n + 1] ELSE t[k]]
      BY <1>1, Sequences
    <2>2. ASSUME NEW k \in 1 .. n + 1 PROVE z[k] = w[k]
      BY <2>1, SMTT(30)
    <2> QED BY <1>1, <2>1, <2>2, SameList
  <1>4. FlattenSeq(Append(t, z[n + 1])) = FlattenSeq(t) \o z[n + 1]
    BY <1>2, StrungOne
  <1> QED BY <1>2, <1>3, <1>4

\* A list is its head and its tail.
LEMMA TailIs ==
    ASSUME NEW s, IsSeq(s), s # <<>>
    PROVE  /\ Tail(s) = SubSeq(s, 1 + 1, Len(s)) /\ 1 \in 0 .. Len(s) /\ Head(s) = s[1]
           /\ IsSeq(Tail(s)) /\ s = <<Head(s)>> \o Tail(s)
  <1> PICK m \in Nat : m = Len(s)
    BY DEF IsSeq
  <1>1. DOMAIN s = 1 .. m /\ m # 0 /\ s = [k \in 1 .. m |-> s[k]]
    BY DEF IsSeq
  <1>2. s \in Seq(Range(s))
    BY ElemsOf
  <1>3. s = <<Head(s)>> \o Tail(s) /\ Tail(s) = SubSeq(s, 2, Len(s)) /\ Head(s) = s[1]
    BY <1>1, <1>2
  <1>4. 1 \in 0 .. Len(s)
    BY <1>1
  <1>5. IsSeq(SubSeq(s, 1 + 1, Len(s)))
    BY <1>4, Parts
  <1>6. SubSeq(s, 1 + 1, Len(s)) = SubSeq(s, 2, Len(s))
    OBVIOUS
  <1> QED BY <1>3, <1>4, <1>5, <1>6

\* Lists put together.
LEMMA JoinFacts ==
    /\ \A s, t, u : IsSeq(s) /\ IsSeq(t) /\ IsSeq(u) => (s \o t) \o u = s \o (t \o u)
    /\ \A s : IsSeq(s) => s \o <<>> = s /\ <<>> \o s = s
    /\ \A s, c : IsSeq(s) => Append(s, c) = s \o <<c>> /\ IsSeq(<<c>>) /\ IsSeq(Append(s, c))
    /\ \A s, t : IsSeq(s) /\ IsSeq(t) => IsSeq(s \o t)
  <1>1. ASSUME NEW s, IsSeq(s) PROVE s \o <<>> = s /\ <<>> \o s = s
    BY <1>1, NoneAdded
  <1>2. ASSUME NEW s, IsSeq(s), NEW c
        PROVE  Append(s, c) = s \o <<c>> /\ IsSeq(<<c>>) /\ IsSeq(Append(s, c))
    BY <1>2, OneAdded, ElemsOneMore, ShortLists
  <1>3. ASSUME NEW s, NEW t, IsSeq(s), IsSeq(t) PROVE IsSeq(s \o t)
    BY <1>3, Concatenated
  <1> QED BY <1>1, <1>2, <1>3, ThreeLists, SMTT(30)

\* A list in two parts.
LEMMA LineDivides ==
    ASSUME NEW s, IsSeq(s), NEW n \in 0 .. Len(s)
    PROVE  /\ s = SubSeq(s, 1, n) \o SubSeq(s, n + 1, Len(s))
           /\ IsSeq(SubSeq(s, 1, n)) /\ IsSeq(SubSeq(s, n + 1, Len(s)))
  <1> PICK a, b, m : a = SubSeq(s, 1, n) /\ b = SubSeq(s, n + 1, Len(s)) /\ m = Len(s)
    OBVIOUS
  <1>1. /\ IsSeq(a) /\ IsSeq(b) /\ DOMAIN a = 1 .. n /\ DOMAIN b = 1 .. m - n
        /\ \A k \in 1 .. n : a[k] = s[k]
        /\ \A k \in 1 .. m - n : b[k] = s[k + n]
        /\ m - n \in Nat /\ n \in Nat /\ m \in Nat
    BY Parts, Sequences
  <1>2. Len(a) = n /\ Len(b) = m - n
    BY <1>1, Sequences
  <1>3. /\ IsSeq(a \o b) /\ Len(a \o b) = Len(a) + Len(b)
        /\ \A k \in 1 .. Len(a) : (a \o b)[k] = a[k]
        /\ \A k \in 1 .. Len(b) : (a \o b)[Len(a) + k] = b[k]
    <2>1. IsSeq(a) /\ IsSeq(b)
      BY <1>1
    <2> QED BY ONLY <2>1, Concatenated
  <1> PICK ab : ab = a \o b
    OBVIOUS
  <1>4. /\ IsSeq(ab) /\ Len(ab) = m /\ m \in Nat /\ n \in 0 .. m
        /\ \A k \in 1 .. n : ab[k] = s[k]
        /\ \A k \in 1 .. m - n : ab[n + k] = s[k + n]
    <2>1. n \in 0 .. m /\ m \in Nat /\ n \in Nat /\ m - n \in Nat
      BY <1>1
    <2>2. IsSeq(ab) /\ Len(ab) = n + (m - n) /\ n + (m - n) = m
      <3>1. IsSeq(ab) /\ Len(ab) = Len(a) + Len(b)
        BY <1>3
      <3>2. n + (m - n) = m
        BY ONLY <2>1
      <3>3. Len(ab) = n + (m - n)
        BY <1>2, <3>1
      <3> QED BY <3>1, <3>2, <3>3
    <2>3. ASSUME NEW k \in 1 .. n PROVE ab[k] = s[k]
      BY <1>1, <1>2, <1>3, <2>3
    <2>4. ASSUME NEW k \in 1 .. m - n PROVE ab[n + k] = s[k + n]
      BY <1>1, <1>2, <1>3, <2>4, ZenonT(60)
    <2> QED BY <2>1, <2>2, <2>3, <2>4
  <1>5. ASSUME NEW k \in 1 .. m PROVE s[k] = ab[k]
    <2>1. CASE k <= n
      <3>1. k \in 1 .. n
        BY <1>4, <2>1
      <3> QED BY <1>4, <3>1
    <2>2. CASE k > n
      <3> PICK j : j = k - n
        OBVIOUS
      <3>1. j \in 1 .. m - n /\ k = n + j /\ k = j + n
        BY <1>4, <2>2
      <3> QED BY <1>4, <3>1
    <2>3. k <= n \/ k > n
      BY <1>1
    <2> QED BY <2>1, <2>2, <2>3
  <1>6. s = ab
    BY <1>4, <1>5, SameList
  <1> QED BY <1>1, <1>6

\* A beginning of a list.
LEMMA Beginnings ==
    ASSUME NEW s, IsSeq(s), NEW kept \in Prefixes(s)
    PROVE  /\ IsSeq(kept) /\ Len(kept) \in 0 .. Len(s)
           /\ \A k \in 1 .. Len(kept) : k \in 1 .. Len(s) /\ kept[k] = s[k]
  <1>1. PICK n \in 0 .. Len(s) : kept = SubSeq(s, 1, n)
    BY Zenon DEF Prefixes
  <1>2. /\ IsSeq(kept) /\ DOMAIN kept = 1 .. n
        /\ \A k \in 1 .. n : kept[k] = s[k]
    BY <1>1, Parts
  <1>3. Len(s) \in Nat /\ Len(kept) = n
    <2>1. DOMAIN kept = 1 .. Len(kept) /\ Len(kept) \in Nat /\ Len(s) \in Nat
      BY <1>2, Sequences
    <2> PICK m : m = Len(kept)
      OBVIOUS
    <2>2. m \in Nat /\ n \in Nat /\ 1 .. m = 1 .. n
      BY <2>1, <1>2
    <2>3. \A k \in Nat : k \in 1 .. m <=> k \in 1 .. n
      BY <2>2
    <2>4. m = n
      BY ONLY <2>2, <2>3
    <2> QED BY <2>1, <2>4
  <1>4. \A k \in 1 .. n : k \in 1 .. Len(s)
    BY <1>3
  <1> QED BY <1>2, <1>3, <1>4

\* All of a list is a beginning of it.
LEMMA WholePrefix ==
    ASSUME NEW s, IsSeq(s)
    PROVE  s \in Prefixes(s)
  <1> PICK X : s \in Seq(X)
    BY DEF IsSeq
  <1>1. Len(s) \in 0 .. Len(s) /\ s = SubSeq(s, 1, Len(s))
    OBVIOUS
  <1> QED BY <1>1, Zenon DEF Prefixes

\* a begins with w, and q is what is left of it, followed by rest.
Parted(a, w, q, rest) == \E e : IsSeq(e) /\ a = w \o e /\ q = e \o rest

\* w is the beginning of a list that has c where a ends, and c is not in w: then w
\* is the beginning of a, and what follows w still has the rest of a and then cb.
LEMMA PartedAt ==
    ASSUME NEW a, NEW w, NEW q, NEW cb, IsSeq(a), IsSeq(w), IsSeq(q), IsSeq(cb),
           NEW l, l = a \o cb, l = w \o q, cb # <<>>,
           \A k \in 1 .. Len(w) : w[k] # cb[1]
    PROVE  Parted(a, w, q, cb)
  <1> PICK c : c = cb[1]
    OBVIOUS
  <1>1. Len(a) \in Nat /\ Len(cb) \in Nat /\ Len(w) \in Nat /\ Len(q) \in Nat
    BY Sequences
  <1>3. Len(cb) # 0 /\ cb[1] = c
    BY Sequences
  <1>4. /\ Len(l) = Len(a) + Len(cb)
        /\ \A k \in 1 .. Len(a) : l[k] = a[k]
        /\ \A k \in 1 .. Len(cb) : l[Len(a) + k] = cb[k]
    <2>1. IsSeq(a) /\ IsSeq(cb)
      OBVIOUS
    <2> QED BY ONLY <2>1, l = a \o cb, Concatenated
  <1>5. /\ Len(l) = Len(w) + Len(q)
        /\ \A k \in 1 .. Len(w) : l[k] = w[k]
        /\ \A k \in 1 .. Len(q) : l[Len(w) + k] = q[k]
    <2>1. l = w \o q
      OBVIOUS
    <2> QED BY <2>1, Concatenated
  <1>6. Len(w) <= Len(a)
    <2> SUFFICES ASSUME Len(w) > Len(a) PROVE FALSE
      BY <1>1
    <2>1. Len(a) + 1 \in 1 .. Len(w) /\ 1 \in 1 .. Len(cb)
      BY <1>1, <1>3
    <2>2. l[Len(a) + 1] = c
      BY <1>3, <1>4, <2>1
    <2>3. w[Len(a) + 1] # c
      BY <2>1
    <2> QED BY <1>5, <2>1, <2>2, <2>3
  <1> PICK e, m, n : e = SubSeq(a, Len(w) + 1, Len(a)) /\ m = Len(w) /\ n = Len(a) - Len(w)
    OBVIOUS
  <1>7. /\ IsSeq(e) /\ Len(e) = n /\ n \in Nat /\ m \in Nat /\ Len(a) = m + n
        /\ \A k \in 1 .. n : e[k] = a[k + m]
    <2>1. Len(w) \in 0 .. Len(a)
      BY <1>1, <1>6
    <2>2. /\ n \in Nat /\ IsSeq(e) /\ DOMAIN e = 1 .. n
          /\ \A k \in 1 .. n : e[k] = a[k + m]
      BY <2>1, Parts
    <2>3. DOMAIN e = 1 .. Len(e) /\ Len(e) \in Nat
      BY <2>2, Sequences
    <2>4. Len(e) = n
      BY <2>2, <2>3
    <2> QED BY <1>1, <2>2, <2>4
  <1>8. a = w \o e
    <2> PICK v : v = w \o e
      OBVIOUS
    <2>1. /\ IsSeq(v) /\ Len(v) = m + n
          /\ \A k \in 1 .. m : v[k] = w[k]
          /\ \A k \in 1 .. n : v[m + k] = e[k]
      BY <1>7, Concatenated
    <2>2. ASSUME NEW k \in 1 .. m + n PROVE a[k] = v[k]
      <3>1. l[k] = a[k]
        BY <1>4, <1>7
      <3>2. CASE k \in 1 .. m
        BY <1>5, <2>1, <3>1, <3>2
      <3>3. CASE k > m
        <4>1. k - m \in 1 .. n /\ m + (k - m) = k /\ (k - m) + m = k
          BY <1>7, <3>3
        <4>2. v[k] = e[k - m]
          BY <2>1, <4>1
        <4> QED BY <1>7, <4>1, <4>2
      <3> QED BY <1>7, <3>2, <3>3
    <2> QED BY <1>7, <2>1, <2>2, SameList, ZenonT(60)
  <1>9. q = e \o cb
    <2> PICK v : v = e \o cb
      OBVIOUS
    <2>1. /\ IsSeq(v) /\ Len(v) = n + Len(cb)
          /\ \A k \in 1 .. n : v[k] = e[k]
          /\ \A k \in 1 .. Len(cb) : v[n + k] = cb[k]
      <3>1. v = e \o cb
        OBVIOUS
      <3>2. /\ IsSeq(v) /\ Len(v) = Len(e) + Len(cb)
            /\ \A k \in 1 .. Len(e) : v[k] = e[k]
            /\ \A k \in 1 .. Len(cb) : v[Len(e) + k] = cb[k]
        <4>1. IsSeq(e) /\ IsSeq(cb)
          BY <1>3, <1>7
        <4> QED BY ONLY <3>1, <4>1, Concatenated
      <3> QED BY ONLY <1>7, <3>2
    <2>2. Len(q) = n + Len(cb) /\ Len(cb) \in Nat
      BY <1>1, <1>3, <1>4, <1>5, <1>7
    <2>3. ASSUME NEW k \in 1 .. n + Len(cb) PROVE q[k] = v[k]
      <3>1. q[k] = l[m + k]
        BY <1>5, <2>2
      <3>2. CASE k \in 1 .. n
        <4>1. m + k \in 1 .. Len(a) /\ m + k = k + m
          BY <1>7, <3>2
        <4>2. l[m + k] = a[m + k] /\ e[k] = a[k + m] /\ v[k] = e[k]
          BY <1>4, <1>7, <2>1, <3>2, <4>1
        <4> QED BY <3>1, <4>1, <4>2
      <3>3. CASE k > n
        <4>1. k - n \in 1 .. Len(cb) /\ n + (k - n) = k /\ Len(a) + (k - n) = m + k
          BY <1>7, <2>2, <3>3
        <4>2. v[k] = cb[k - n]
          BY <2>1, <4>1
        <4>3. l[Len(a) + (k - n)] = cb[k - n]
          BY <1>4, <4>1
        <4>4. l[Len(a) + (k - n)] = l[m + k]
          BY <4>1
        <4> QED BY ONLY <3>1, <4>2, <4>3, <4>4
      <3>4. k \in 1 .. n \/ k > n
        BY ONLY <1>7, <2>2, k \in 1 .. n + Len(cb)
      <3> QED BY ONLY <3>2, <3>3, <3>4
    <2>4. IsSeq(q) /\ IsSeq(v) /\ Len(q) = Len(v) /\ \A k \in 1 .. Len(q) : q[k] = v[k]
      BY ONLY IsSeq(q), <2>1, <2>2, <2>3
    <2>5. q = v
      BY <2>4, SameList, Zenon
    <2> QED BY <2>5
  <1> QED BY <1>7, <1>8, <1>9 DEF Parted

-------------------------------------------------------------------------------
(* The list of one interval.                                               *)

\* At most one entry.
Short(l) == l = <<>> \/ \E v : l = <<v>>

\* None and one are short.
LEMMA ShortFacts ==
    ASSUME NEW val
    PROVE  Short(<<>>) /\ Short(<<val>>) /\ <<val>> # <<>>
  BY DEF Short

\* The list of an interval after an addition, an update or a removal.
After(op, l, val) ==
    IF op = "add" THEN Append(l, val)
    ELSE IF op = "update" THEN Append(IF l = <<>> THEN l ELSE Tail(l), val)
    ELSE IF l = <<>> THEN l ELSE Tail(l)

\* It stays a list.
LEMMA AfterIsSeq ==
    ASSUME NEW op, NEW l, NEW val, IsSeq(l)
    PROVE  IsSeq(After(op, l, val))
  <1>1. IsSeq(IF l = <<>> THEN l ELSE Tail(l))
    BY Sequences
  <1>2. IsSeq(Append(l, val)) /\ IsSeq(Append(IF l = <<>> THEN l ELSE Tail(l), val))
    BY <1>1, Sequences
  <1> QED BY <1>1, <1>2 DEF After

\* A short list after a change.
LEMMA AfterShort ==
    ASSUME NEW op \in {"add", "update", "remove"}, NEW l, NEW val,
           Short(l), op = "add" => l = <<>>
    PROVE  /\ Short(After(op, l, val))
           /\ op # "remove" => After(op, l, val) = <<val>>
           /\ op = "remove" => After(op, l, val) = <<>>
  <1>1. Append(<<>>, val) = <<val>>
    OBVIOUS
  <1>2. \A v : Tail(<<v>>) = <<>> /\ <<v>> # <<>>
    OBVIOUS
  <1>3. op # "remove" => After(op, l, val) = <<val>>
    BY <1>1, <1>2 DEF After, Short
  <1>4. op = "remove" => After(op, l, val) = <<>>
    BY <1>1, <1>2 DEF After, Short
  <1> QED BY <1>3, <1>4, ShortFacts

\* The values of a list after a change.
LEMMA ValuesAfter ==
    ASSUME NEW l, IsSeq(l), NEW op \in {"add", "update", "remove"}, NEW val
    PROVE  /\ op # "update" => Range(After(op, l, val)) \subseteq Range(l) \cup {val}
           /\ op = "add" => Range(After(op, l, val)) = Range(l) \cup {val}
  <1>1. op = "add" => Range(After(op, l, val)) = Range(l) \cup {val}
    BY ElemsOneMore DEF After
  <1>2. ASSUME op = "remove" PROVE Range(After(op, l, val)) \subseteq Range(l)
    <2>1. CASE l = <<>>
      BY <1>2, <2>1 DEF After
    <2>2. CASE l # <<>>
      <3>1. After(op, l, val) = Tail(l)
        BY <1>2, <2>2 DEF After
      <3>2. Range(l) = Range(<<Head(l)>>) \cup Range(Tail(l))
        <4>1. l = <<Head(l)>> \o Tail(l) /\ IsSeq(Tail(l)) /\ IsSeq(<<Head(l)>>)
          BY <2>2, TailIs, ShortLists
        <4> QED BY <4>1, ElemsJoined
      <3> QED BY <3>1, <3>2
    <2> QED BY <2>1, <2>2
  <1> QED BY <1>1, <1>2
===============================================================================
