------------------------------ MODULE JournalProofs ----------------------------
(* What the pipeline of module Journal promises, for all its constants.    *)
EXTENDS Journal, ListFacts

-------------------------------------------------------------------------------
(* Lists, logs and stores.                                                 *)

\* Journal's lists are the sequences.
LEMMA Lists ==
    ASSUME NEW s
    PROVE  IsList(s) <=> IsSeq(s)
  BY OverItsElements, Zenon DEF IsList

\* A log, as the proofs use it.
LEMMA Logs ==
    ASSUME NEW s
    PROVE  IsLog(s) <=> IsSeq(s) /\ \A k \in 1 .. Len(s) : IsRecord(s[k])
  <1>1. IsSeq(s) => DOMAIN s = 1 .. Len(s)
    BY Sequences
  <1> QED BY <1>1, Lists DEF IsLog

\* A record is a sequence of changes.
LEMMA Records ==
    ASSUME NEW s
    PROVE  IsRecord(s) <=> IsSeq(s) /\ \A k \in 1 .. Len(s) : IsChange(s[k])
  <1>1. IsSeq(s) => DOMAIN s = 1 .. Len(s)
    BY Sequences
  <1> QED BY <1>1, Lists DEF IsRecord

\* Two logs, one after the other.
LEMMA TwoLogs ==
    ASSUME NEW s, NEW t, IsLog(s), IsLog(t)
    PROVE  IsLog(s \o t)
  <1>1. IsSeq(s) /\ IsSeq(t)
    BY Logs
  <1>2. /\ IsSeq(s \o t) /\ Len(s \o t) = Len(s) + Len(t)
        /\ Len(s) \in Nat /\ Len(t) \in Nat
        /\ \A n \in 1 .. Len(s) : (s \o t)[n] = s[n]
        /\ \A n \in 1 .. Len(t) : (s \o t)[Len(s) + n] = t[n]
    BY <1>1, Concatenated, Sequences
  <1>3. ASSUME NEW k \in 1 .. Len(s \o t) PROVE IsRecord((s \o t)[k])
    <2>1. CASE k <= Len(s)
      <3>1. k \in 1 .. Len(s)
        BY <1>2, <2>1
      <3> QED BY <1>2, <3>1, Logs
    <2>2. CASE ~ (k <= Len(s))
      <3> PICK n : n = k - Len(s)
        OBVIOUS
      <3>1. n \in 1 .. Len(t) /\ k = Len(s) + n
        BY <1>2, <2>2
      <3> QED BY <1>2, <3>1, Logs
    <2> QED BY <2>1, <2>2
  <1> QED BY <1>2, <1>3, Logs

\* The first records of a log.
LEMMA FirstOfLog ==
    ASSUME NEW s, IsLog(s), NEW kept \in Prefixes(s)
    PROVE  IsLog(kept)
  <1>1. IsSeq(s) /\ \A k \in 1 .. Len(s) : IsRecord(s[k])
    BY Logs
  <1>2. IsSeq(kept) /\ \A k \in 1 .. Len(kept) : k \in 1 .. Len(s) /\ kept[k] = s[k]
    BY <1>1, Beginnings
  <1> QED BY <1>1, <1>2, Logs

\* Logs strung together are a log.
LEMMA StrungLogs ==
    ASSUME NEW t, IsSeq(t), \A k \in 1 .. Len(t) : IsLog(t[k])
    PROVE  IsLog(FlattenSeq(t))
  <1> PICK f : f = FlattenSeq(t)
    OBVIOUS
  <1>1. \A k \in 1 .. Len(t) : IsSeq(t[k]) /\ \A n \in 1 .. Len(t[k]) : IsRecord(t[k][n])
    BY Logs
  <1>2. f \in Seq(Elements(t))
    BY <1>1, StrungElements
  <1>3. \A x \in Elements(t) : IsRecord(x)
    BY <1>1 DEF Elements
  <1>4. IsSeq(f)
    BY <1>2, Zenon DEF IsSeq
  <1>5. \A k \in 1 .. Len(f) : f[k] \in Elements(t)
    BY <1>2
  <1> QED BY <1>3, <1>4, <1>5, Logs

\* The records of a log strung together are one record.
LEMMA StrungRecords ==
    ASSUME NEW t, IsLog(t)
    PROVE  IsRecord(FlattenSeq(t))
  <1> PICK f : f = FlattenSeq(t)
    OBVIOUS
  <1>1. IsSeq(t) /\ \A k \in 1 .. Len(t) : IsSeq(t[k]) /\ \A n \in 1 .. Len(t[k]) : IsChange(t[k][n])
    BY Logs, Records
  <1>2. f \in Seq(Elements(t))
    BY <1>1, StrungElements
  <1>3. \A x \in Elements(t) : IsChange(x)
    BY <1>1 DEF Elements
  <1>4. IsSeq(f)
    BY <1>2, Zenon DEF IsSeq
  <1>5. \A k \in 1 .. Len(f) : f[k] \in Elements(t)
    BY <1>2
  <1> QED BY <1>3, <1>4, <1>5, Records

\* A log of one record of one change.
LEMMA OneChange ==
    ASSUME NEW c, IsChange(c)
    PROVE  IsRecord(<<c>>) /\ IsLog(<< <<c>> >>) /\ IsLog(<<>>)
  <1>1. IsRecord(<<c>>)
    BY ShortLists, Lists DEF IsRecord
  <1> QED BY <1>1, ShortLists, Lists DEF IsLog
\* One resource of a store.
IsState(x) ==
    /\ x = [shape |-> x.shape, iv |-> x.iv]
    /\ x.iv = [i \in Ids |-> x.iv[i]]
    /\ \A i \in Ids : IsList(x.iv[i])

\* A store, resource by resource.
LEMMA Stores ==
    ASSUME NEW store
    PROVE  IsStore(store) <=> /\ DOMAIN store \subseteq Resources
                              /\ store = [r \in DOMAIN store |-> store[r]]
                              /\ \A r \in DOMAIN store : IsState(store[r])
  <1>1. ASSUME IsStore(store)
        PROVE  /\ DOMAIN store \subseteq Resources
               /\ store = [r \in DOMAIN store |-> store[r]]
               /\ \A r \in DOMAIN store : IsState(store[r])
    <2>1. store = [r \in DOMAIN store |-> [shape |-> store[r].shape, iv |-> store[r].iv]]
      BY <1>1 DEF IsStore
    <2>2. \A r \in DOMAIN store : store[r] = [shape |-> store[r].shape, iv |-> store[r].iv]
      BY <2>1, Zenon
    <2>3. store = [r \in DOMAIN store |-> store[r]]
      BY ONLY <2>1
    <2> QED BY <1>1, <2>2, <2>3, Zenon DEF IsStore, IsState
  <1>2. ASSUME /\ DOMAIN store \subseteq Resources
               /\ store = [r \in DOMAIN store |-> store[r]]
               /\ \A r \in DOMAIN store : IsState(store[r])
        PROVE  IsStore(store)
    <2>1. \A r \in DOMAIN store : store[r] = [shape |-> store[r].shape, iv |-> store[r].iv]
      BY <1>2, Zenon DEF IsState
    <2>2. store = [r \in DOMAIN store |-> [shape |-> store[r].shape, iv |-> store[r].iv]]
      BY ONLY <1>2, <2>1
    <2> QED BY <1>2, <2>2, Zenon DEF IsStore, IsState
  <1> QED BY <1>1, <1>2

\* A store with one resource put in place is a store.
LEMMA PutInPlace ==
    ASSUME NEW store, IsStore(store), NEW r \in Resources, NEW x, IsState(x),
           NEW s, s = [q \in DOMAIN store \cup {r} |-> IF q = r THEN x ELSE store[q]]
    PROVE  IsStore(s)
  <1>1. DOMAIN s = DOMAIN store \cup {r}
    OBVIOUS
  <1>2. s = [q \in DOMAIN s |-> s[q]]
    OBVIOUS
  <1>3. \A q \in DOMAIN s : s[q] = IF q = r THEN x ELSE store[q]
    BY <1>1
  <1>4. \A q \in DOMAIN s : IsState(s[q])
    BY <1>1, <1>3, Stores
  <1>5. DOMAIN s \subseteq Resources
    BY <1>1, Stores
  <1> QED BY <1>2, <1>4, <1>5, Stores

\* A store without some of its resources is a store.
LEMMA Narrowed ==
    ASSUME NEW store, IsStore(store), NEW D, D \subseteq DOMAIN store
    PROVE  IsStore([q \in D |-> store[q]])
  <1> PICK s : s = [q \in D |-> store[q]]
    OBVIOUS
  <1>1. DOMAIN s = D /\ s = [q \in DOMAIN s |-> s[q]] /\ \A q \in D : s[q] = store[q]
    OBVIOUS
  <1>2. DOMAIN s \subseteq Resources /\ \A q \in DOMAIN s : IsState(s[q])
    BY <1>1, Stores
  <1> QED BY <1>1, <1>2, Stores

\* A resource with one of its lists replaced.
LEMMA ListReplaced ==
    ASSUME NEW x, IsState(x), NEW i, NEW l, i \in Ids => IsList(l),
           NEW y, y = [x EXCEPT !.iv[i] = l]
    PROVE  IsState(y)
  <1>1. PICK iv, shape : x = [shape |-> shape, iv |-> iv] /\ iv = x.iv
    BY DEF IsState
  <1>2. iv = [j \in Ids |-> iv[j]] /\ \A j \in Ids : IsList(iv[j])
    BY <1>1, Zenon DEF IsState
  <1>3. PICK new : new = [iv EXCEPT ![i] = l]
    OBVIOUS
  <1>4. y = [shape |-> shape, iv |-> new]
    BY ONLY <1>1, <1>3, y = [x EXCEPT !.iv[i] = l]
  <1>5. DOMAIN new = Ids /\ new = [j \in Ids |-> new[j]]
    BY ONLY <1>2, <1>3
  <1>6. \A j \in Ids : new[j] = IF j = i THEN l ELSE iv[j]
    BY <1>2, <1>3, Zenon
  <1>7. \A j \in Ids : IsList(new[j])
    BY <1>2, <1>6
  <1>8. y.iv = new /\ y.shape = shape
    BY ONLY <1>4
  <1> QED BY <1>4, <1>5, <1>7, <1>8 DEF IsState

\* A change leaves an interval's list a list.
LEMMA AfterIsList ==
    ASSUME NEW op, NEW l, NEW val, IsList(l)
    PROVE  IsList(After(op, l, val))
  BY Lists, AfterIsSeq

\* Replaying a change keeps a store a store.
LEMMA ApplyKeeps ==
    ASSUME NEW store, IsStore(store), NEW c, IsChange(c)
    PROVE  IsStore(Apply(store, c))
  <1>1. c.op \in ChangeOps /\ c.res \in Resources
    BY DEF IsChange
  <1>2. DOMAIN store \subseteq Resources /\ store = [r \in DOMAIN store |-> store[r]]
        /\ \A r \in DOMAIN store : IsState(store[r])
    BY Stores
  <1> PICK s : s = Apply(store, c)
    OBVIOUS
  <1> PICK r : r = c.res
    OBVIOUS
  <1>3. CASE c.op = "create"
    <2> PICK x : x = [shape |-> c.val, iv |-> NoIntervals]
      OBVIOUS
    <2>1. s = [q \in DOMAIN store \cup {r} |-> IF q = r THEN x ELSE store[q]]
      BY <1>3, Zenon DEF Apply
    <2>2. IsState(x)
      <3>1. x.iv = [i \in Ids |-> <<>>] /\ x.shape = c.val
        BY DEF NoIntervals
      <3>2. x.iv = [i \in Ids |-> x.iv[i]] /\ \A i \in Ids : x.iv[i] = <<>>
        BY <3>1
      <3>3. IsList(<<>>)
        BY ShortLists, Lists
      <3>4. x = [shape |-> x.shape, iv |-> x.iv]
        OBVIOUS
      <3> QED BY <3>2, <3>3, <3>4 DEF IsState
    <2> QED BY <1>1, <2>1, <2>2, PutInPlace
  <1>4. CASE c.op = "delete"
    <2>1. s = [q \in DOMAIN store \ {r} |-> store[q]]
      BY <1>4, Zenon DEF Apply
    <2> QED BY <2>1, Narrowed
  <1>5. CASE c.op \notin {"create", "delete"} /\ r \notin DOMAIN store
    <2>1. c.op \in {"reshape", "add", "update", "remove"}
      BY <1>1, <1>5 DEF ChangeOps
    <2>2. s = store
      BY <1>5, <2>1, Zenon DEF Apply
    <2> QED BY <2>2
  <1> PICK x : x = store[r]
    OBVIOUS
  <1>6. CASE c.op = "reshape" /\ r \in DOMAIN store
    <2>1. s = [store EXCEPT ![r].shape = c.val]
      BY <1>6, Zenon DEF Apply
    <2> PICK y : y = [x EXCEPT !.shape = c.val]
      OBVIOUS
    <2>2. s = [q \in DOMAIN store \cup {r} |-> IF q = r THEN y ELSE store[q]]
      BY ONLY <1>2, <1>6, <2>1, x = store[r], y = [x EXCEPT !.shape = c.val]
    <2>3. IsState(y)
      <3>1. IsState(x)
        BY <1>2, <1>6
      <3>2. x = [shape |-> x.shape, iv |-> x.iv]
        BY <3>1 DEF IsState
      <3>3. y = [shape |-> c.val, iv |-> x.iv]
        BY ONLY <3>2, y = [x EXCEPT !.shape = c.val]
      <3>4. y.iv = x.iv /\ y.shape = c.val
        BY ONLY <3>3
      <3> QED BY <3>1, <3>3, <3>4, Zenon DEF IsState
    <2> QED BY <1>1, <2>2, <2>3, PutInPlace
  <1>7. CASE c.op \in {"add", "update", "remove"} /\ r \in DOMAIN store
    <2> PICK l : l = After(c.op, x.iv[c.id], c.val)
      OBVIOUS
    <2>1. s = [store EXCEPT ![r].iv[c.id] = l]
      <3>1. CASE c.op = "add"
        <4>1. s = [store EXCEPT ![r].iv[c.id] = Append(@, c.val)]
          BY <1>7, <3>1, Zenon DEF Apply
        <4>2. l = Append(x.iv[c.id], c.val)
          BY <3>1 DEF After
        <4> QED BY <4>1, <4>2
      <3>2. CASE c.op = "update"
        <4>1. s = [store EXCEPT ![r].iv[c.id] =
                      Append(IF @ = <<>> THEN @ ELSE Tail(@), c.val)]
          BY <1>7, <3>2, Zenon DEF Apply
        <4>2. l = Append(IF x.iv[c.id] = <<>> THEN x.iv[c.id] ELSE Tail(x.iv[c.id]), c.val)
          BY <3>2 DEF After
        <4> QED BY <4>1, <4>2
      <3>3. CASE c.op = "remove"
        <4>1. s = [store EXCEPT ![r].iv[c.id] = IF @ = <<>> THEN @ ELSE Tail(@)]
          BY <1>7, <3>3, Zenon DEF Apply
        <4>2. l = IF x.iv[c.id] = <<>> THEN x.iv[c.id] ELSE Tail(x.iv[c.id])
          BY <3>3 DEF After
        <4> QED BY <4>1, <4>2
      <3> QED BY <1>7, <3>1, <3>2, <3>3
    <2> PICK y : y = [x EXCEPT !.iv[c.id] = l]
      OBVIOUS
    <2>2. s = [q \in DOMAIN store \cup {r} |-> IF q = r THEN y ELSE store[q]]
      BY ONLY <1>2, <1>7, <2>1, x = store[r], y = [x EXCEPT !.iv[c.id] = l]
    <2>3. IsState(x)
      BY <1>2, <1>7
    <2>4. c.id \in Ids => IsList(l)
      BY <2>3, AfterIsList DEF IsState
    <2>5. IsState(y)
      BY <2>3, <2>4, ListReplaced
    <2> QED BY <1>1, <2>2, <2>5, PutInPlace
  <1> QED BY <1>1, <1>3, <1>4, <1>5, <1>6, <1>7 DEF ChangeOps
ChangeRun(f, store, s, m) ==
    f = [n \in 0 .. m |-> IF n = 0 THEN store ELSE Apply(f[n - 1], s[n])]

\* The changes of a record can be replayed one after the other.
LEMMA ChangeRunExists ==
    ASSUME NEW store, NEW s, NEW m \in Nat
    PROVE  \E f : ChangeRun(f, store, s, m)
  <1> DEFINE S == {k \in Nat : ~\E f : ChangeRun(f, store, s, k)}
  <1> SUFFICES ASSUME S # {} PROVE FALSE
    OBVIOUS
  <1>1. PICK x \in S : \A y \in S : x <= y
    BY FirstFailure
  <1>2. CASE x = 0
    <2> DEFINE f == [n \in 0 .. 0 |-> store]
    <2>1. ChangeRun(f, store, s, 0)
      BY DEF ChangeRun
    <2> QED BY <1>1, <1>2, <2>1
  <1>3. CASE x # 0
    <2>1. x - 1 \in Nat /\ x \in Nat
      BY <1>3
    <2>2. x - 1 \notin S
      <3>1. ~ (x <= x - 1)
        BY <2>1
      <3> HIDE DEF S
      <3> QED BY <1>1, <3>1
    <2>3. PICK f : ChangeRun(f, store, s, x - 1)
      BY <2>1, <2>2
    <2> DEFINE g == [n \in 0 .. x |-> IF n = x THEN Apply(f[x - 1], s[x]) ELSE f[n]]
    <2>4. \A n \in 0 .. x - 1 : f[n] = IF n = 0 THEN store ELSE Apply(f[n - 1], s[n])
      BY <2>3, Zenon DEF ChangeRun
    <2>5. ASSUME NEW n \in 0 .. x
          PROVE  g[n] = IF n = 0 THEN store ELSE Apply(g[n - 1], s[n])
      <3>1. CASE n = 0
        <4>1. n # x /\ n \in 0 .. x - 1
          BY <2>1, <1>3, <3>1
        <4> QED BY <2>4, <3>1, <4>1
      <3>2. CASE n # 0
        <4>1. n - 1 \in 0 .. x /\ n - 1 # x
          BY <2>1, <3>2
        <4>2. g[n - 1] = f[n - 1]
          BY <4>1
        <4>3. CASE n = x
          BY <3>2, <4>2, <4>3
        <4>4. CASE n # x
          <5>1. n \in 0 .. x - 1
            BY <2>1, <4>4
          <5> QED BY <2>4, <3>2, <4>2, <4>4, <5>1
        <4> QED BY <4>3, <4>4
      <3> QED BY <3>1, <3>2
    <2>6. g = [n \in 0 .. x |-> IF n = 0 THEN store ELSE Apply(g[n - 1], s[n])]
      <3>1. g = [n \in 0 .. x |-> g[n]]
        OBVIOUS
      <3> HIDE DEF g
      <3> QED BY <2>5, <3>1
    <2> QED BY <2>6 DEF ChangeRun
  <1> QED BY <1>2, <1>3

\* Replaying a record keeps a store a store.
LEMMA ApplyRecordKeeps ==
    ASSUME NEW store, IsStore(store), NEW s, IsRecord(s)
    PROVE  IsStore(ApplyRecord(store, s))
  <1>1. Len(s) \in Nat /\ \A n \in 1 .. Len(s) : IsChange(s[n])
    BY Records, Sequences
  <1> DEFINE after == CHOOSE f : f = [n \in 0 .. Len(s) |->
                          IF n = 0 THEN store ELSE Apply(f[n - 1], s[n])]
  <1>2. ApplyRecord(store, s) = after[Len(s)]
    BY Zenon DEF ApplyRecord
  <1>3. ChangeRun(after, store, s, Len(s))
    <2>1. \E f : f = [n \in 0 .. Len(s) |->
                          IF n = 0 THEN store ELSE Apply(f[n - 1], s[n])]
      <3>1. \E f : ChangeRun(f, store, s, Len(s))
        <4>1. Len(s) \in Nat
          BY <1>1
        <4> QED BY ONLY <4>1, ChangeRunExists
      <3> QED BY ONLY <3>1, Zenon DEF ChangeRun
    <2> QED BY <2>1, Zenon DEF ChangeRun
  <1> HIDE DEF after
  <1>4. \A n \in 0 .. Len(s) : after[n] = IF n = 0 THEN store ELSE Apply(after[n - 1], s[n])
    BY <1>3, Zenon DEF ChangeRun
  <1> DEFINE S == {n \in 0 .. Len(s) : ~IsStore(after[n])}
  <1>5. S = {}
    <2> SUFFICES ASSUME S # {} PROVE FALSE
      OBVIOUS
    <2>1. S \subseteq Nat
      BY <1>1
    <2>2. PICK x \in S : \A y \in S : x <= y
      <3> HIDE DEF S
      <3> QED BY <2>1, FirstFailure
    <2>3. x \in 0 .. Len(s) /\ ~IsStore(after[x])
      OBVIOUS
    <2>4. x # 0
      BY <1>4, <2>3
    <2>5. x \in 1 .. Len(s) /\ x - 1 \in 0 .. Len(s) /\ ~ (x <= x - 1)
      BY <1>1, <2>3, <2>4
    <2>6. IsStore(after[x - 1])
      <3>1. x - 1 \notin S
        <4> HIDE DEF S
        <4> QED BY <2>2, <2>5
      <3> QED BY <2>5, <3>1
    <2>7. after[x] = Apply(after[x - 1], s[x])
      BY <1>4, <2>3, <2>4
    <2> QED BY <1>1, <2>3, <2>5, <2>6, <2>7, ApplyKeeps
  <1>6. Len(s) \in 0 .. Len(s)
    BY <1>1
  <1> QED BY <1>2, <1>5, <1>6

RecordRun(f, store, s, m) ==
    f = [n \in 0 .. m |-> IF n = 0 THEN store ELSE ApplyRecord(f[n - 1], s[n])]

\* The records of a log can.
LEMMA RecordRunExists ==
    ASSUME NEW store, NEW s, NEW m \in Nat
    PROVE  \E f : RecordRun(f, store, s, m)
  <1> DEFINE S == {k \in Nat : ~\E f : RecordRun(f, store, s, k)}
  <1> SUFFICES ASSUME S # {} PROVE FALSE
    OBVIOUS
  <1>1. PICK x \in S : \A y \in S : x <= y
    BY FirstFailure
  <1>2. CASE x = 0
    <2> DEFINE f == [n \in 0 .. 0 |-> store]
    <2>1. RecordRun(f, store, s, 0)
      BY DEF RecordRun
    <2> QED BY <1>1, <1>2, <2>1
  <1>3. CASE x # 0
    <2>1. x - 1 \in Nat /\ x \in Nat
      BY <1>3
    <2>2. x - 1 \notin S
      <3>1. ~ (x <= x - 1)
        BY <2>1
      <3> HIDE DEF S
      <3> QED BY <1>1, <3>1
    <2>3. PICK f : RecordRun(f, store, s, x - 1)
      BY <2>1, <2>2
    <2> DEFINE g == [n \in 0 .. x |-> IF n = x THEN ApplyRecord(f[x - 1], s[x]) ELSE f[n]]
    <2>4. \A n \in 0 .. x - 1 : f[n] = IF n = 0 THEN store ELSE ApplyRecord(f[n - 1], s[n])
      BY <2>3, Zenon DEF RecordRun
    <2>5. ASSUME NEW n \in 0 .. x
          PROVE  g[n] = IF n = 0 THEN store ELSE ApplyRecord(g[n - 1], s[n])
      <3>1. CASE n = 0
        <4>1. n # x /\ n \in 0 .. x - 1
          BY <2>1, <1>3, <3>1
        <4> QED BY <2>4, <3>1, <4>1
      <3>2. CASE n # 0
        <4>1. n - 1 \in 0 .. x /\ n - 1 # x
          BY <2>1, <3>2
        <4>2. g[n - 1] = f[n - 1]
          BY <4>1
        <4>3. CASE n = x
          BY <3>2, <4>2, <4>3
        <4>4. CASE n # x
          <5>1. n \in 0 .. x - 1
            BY <2>1, <4>4
          <5> QED BY <2>4, <3>2, <4>2, <4>4, <5>1
        <4> QED BY <4>3, <4>4
      <3> QED BY <3>1, <3>2
    <2>6. g = [n \in 0 .. x |-> IF n = 0 THEN store ELSE ApplyRecord(g[n - 1], s[n])]
      <3>1. g = [n \in 0 .. x |-> g[n]]
        OBVIOUS
      <3> HIDE DEF g
      <3> QED BY <2>5, <3>1
    <2> QED BY <2>6 DEF RecordRun
  <1> QED BY <1>2, <1>3

\* Replaying a log keeps a store a store.
LEMMA ApplyAllKeeps ==
    ASSUME NEW store, IsStore(store), NEW s, IsLog(s)
    PROVE  IsStore(ApplyAll(store, s))
  <1>1. Len(s) \in Nat /\ \A n \in 1 .. Len(s) : IsRecord(s[n])
    BY Logs, Sequences
  <1> DEFINE after == CHOOSE f : f = [n \in 0 .. Len(s) |->
                          IF n = 0 THEN store ELSE ApplyRecord(f[n - 1], s[n])]
  <1>2. ApplyAll(store, s) = after[Len(s)]
    BY Zenon DEF ApplyAll
  <1>3. RecordRun(after, store, s, Len(s))
    <2>1. \E f : f = [n \in 0 .. Len(s) |->
                          IF n = 0 THEN store ELSE ApplyRecord(f[n - 1], s[n])]
      <3>1. \E f : RecordRun(f, store, s, Len(s))
        <4>1. Len(s) \in Nat
          BY <1>1
        <4> QED BY ONLY <4>1, RecordRunExists
      <3> QED BY ONLY <3>1, Zenon DEF RecordRun
    <2> QED BY <2>1, Zenon DEF RecordRun
  <1> HIDE DEF after
  <1>4. \A n \in 0 .. Len(s) : after[n] = IF n = 0 THEN store ELSE ApplyRecord(after[n - 1], s[n])
    BY <1>3, Zenon DEF RecordRun
  <1> DEFINE S == {n \in 0 .. Len(s) : ~IsStore(after[n])}
  <1>5. S = {}
    <2> SUFFICES ASSUME S # {} PROVE FALSE
      OBVIOUS
    <2>1. S \subseteq Nat
      BY <1>1
    <2>2. PICK x \in S : \A y \in S : x <= y
      <3> HIDE DEF S
      <3> QED BY <2>1, FirstFailure
    <2>3. x \in 0 .. Len(s) /\ ~IsStore(after[x])
      OBVIOUS
    <2>4. x # 0
      BY <1>4, <2>3
    <2>5. x \in 1 .. Len(s) /\ x - 1 \in 0 .. Len(s) /\ ~ (x <= x - 1)
      BY <1>1, <2>3, <2>4
    <2>6. IsStore(after[x - 1])
      <3>1. x - 1 \notin S
        <4> HIDE DEF S
        <4> QED BY <2>2, <2>5
      <3> QED BY <2>5, <3>1
    <2>7. after[x] = ApplyRecord(after[x - 1], s[x])
      BY <1>4, <2>3, <2>4
    <2> QED BY <1>1, <2>3, <2>5, <2>6, <2>7, ApplyRecordKeeps
  <1>6. Len(s) \in 0 .. Len(s)
    BY <1>1
  <1> QED BY <1>2, <1>5, <1>6
\* Replaying a log from nothing.
LEMMA ReplayIsStore ==
    ASSUME NEW s, IsLog(s)
    PROVE  IsStore(Replay(s)) /\ IsStore(Nothing)
  <1>1. IsStore(Nothing)
    <2>1. DOMAIN Nothing = {} /\ Nothing = [r \in DOMAIN Nothing |-> Nothing[r]]
      BY DEF Nothing
    <2> QED BY <2>1, Stores
  <1>2. Replay(s) = ApplyAll(Nothing, s)
    BY DEF Replay, Nothing
  <1> QED BY <1>1, <1>2, ApplyAllKeeps

-------------------------------------------------------------------------------
(* What a compaction writes is a log.                                      *)

\* The changes the model makes are changes.
LEMMA Made ==
    ASSUME NEW op \in ChangeOps, NEW r \in Resources, NEW i, NEW val
    PROVE  IsChange(Change(op, r, i, val))
  BY DEF Change, IsChange

IntervalRecords(snap, r) ==
    FlattenSeq([k \in DOMAIN IdOrder |->
       [n \in DOMAIN snap[r].iv[IdOrder[k]] |->
          <<Change("add", r, IdOrder[k], snap[r].iv[IdOrder[k]][n])>>]])

\* What compact_wal writes for a resource's intervals is a log.
LEMMA IntervalsAreLogged ==
    ASSUME NEW snap, IsStore(snap), NEW r \in DOMAIN snap
    PROVE  IsLog(IntervalRecords(snap, r))
  <1>1. IsState(snap[r]) /\ r \in Resources
    BY Stores
  <1>2. PICK m \in Nat : IdOrder \in [1 .. m -> Ids]
    BY JournalAssumption, Listed DEF IdOrder
  <1> PICK t : t = [k \in DOMAIN IdOrder |->
                      [n \in DOMAIN snap[r].iv[IdOrder[k]] |->
                         <<Change("add", r, IdOrder[k], snap[r].iv[IdOrder[k]][n])>>]]
    OBVIOUS
  <1>3. t = [k \in 1 .. m |->
                      [n \in DOMAIN snap[r].iv[IdOrder[k]] |->
                         <<Change("add", r, IdOrder[k], snap[r].iv[IdOrder[k]][n])>>]]
    BY <1>2
  <1>4. t = [k \in 1 .. m |-> t[k]]
    BY ONLY <1>3
  <1>5. IsSeq(t) /\ Len(t) = m
    BY <1>4, ListOf
  <1>6. ASSUME NEW k \in 1 .. m PROVE IsLog(t[k])
    <2>1. PICK i \in Ids : i = IdOrder[k]
      BY <1>2
    <2> PICK l : l = snap[r].iv[i]
      OBVIOUS
    <2> PICK u : u = t[k]
      OBVIOUS
    <2>2. IsSeq(l) /\ DOMAIN l = 1 .. Len(l) /\ Len(l) \in Nat
      <3>1. IsSeq(l)
        BY <1>1, Lists DEF IsState
      <3> QED BY <3>1, Sequences
    <2>3. u = [n \in 1 .. Len(l) |-> <<Change("add", r, i, l[n])>>]
      BY <1>3, <2>1, <2>2
    <2>4. u = [n \in 1 .. Len(l) |-> u[n]]
      BY ONLY <2>3
    <2>5. IsSeq(u) /\ Len(u) = Len(l)
      BY <2>2, <2>4, ListOf
    <2>6. ASSUME NEW n \in 1 .. Len(l) PROVE IsRecord(u[n])
      <3> PICK c : c = Change("add", r, i, l[n])
        OBVIOUS
      <3>1. "add" \in ChangeOps
        BY DEF ChangeOps
      <3>2. IsChange(c)
        BY <1>1, <3>1, Made
      <3>3. u[n] = <<c>>
        BY <2>3
      <3> QED BY <3>2, <3>3, OneChange
    <2>7. IsLog(u)
      BY <2>5, <2>6, Logs
    <2> QED BY <2>7
  <1>7. IsLog(FlattenSeq(t))
    BY <1>5, <1>6, StrungLogs
  <1> QED BY <1>7 DEF IntervalRecords

\* What compact_wal writes for a whole store is a log.
LEMMA SnapshotIsLogged ==
    ASSUME NEW snap, IsStore(snap)
    PROVE  IsLog(SnapshotRecords(snap))
  <1> PICK rs : rs = SetToSeq(DOMAIN snap)
    OBVIOUS
  <1>1. IsFiniteSet(DOMAIN snap)
    BY Stores, JournalAssumption, FS_Subset
  <1>2. PICK m \in Nat : rs \in [1 .. m -> DOMAIN snap]
    BY <1>1, Listed
  <1> PICK t : t = [k \in 1 .. m |->
                      << <<Change("create", rs[k], rs[k], snap[rs[k]].shape)>> >>
                      \o IntervalRecords(snap, rs[k])]
    OBVIOUS
  <1>3. SnapshotRecords(snap) = FlattenSeq(t)
    <2>1. DOMAIN rs = 1 .. m
      BY <1>2
    <2> QED BY <2>1 DEF SnapshotRecords, IntervalRecords
  <1>4. t = [k \in 1 .. m |-> t[k]]
    OBVIOUS
  <1>5. IsSeq(t) /\ Len(t) = m
    BY <1>4, ListOf
  <1>6. ASSUME NEW k \in 1 .. m PROVE IsLog(t[k])
    <2>1. PICK r \in DOMAIN snap : r = rs[k]
      BY <1>2
    <2> PICK c, l : c = Change("create", r, r, snap[r].shape) /\ l = IntervalRecords(snap, r)
      OBVIOUS
    <2>2. "create" \in ChangeOps /\ r \in Resources
      BY Stores DEF ChangeOps
    <2>3. IsLog(<< <<c>> >>)
      BY <2>2, Made, OneChange
    <2>4. IsLog(l)
      BY IntervalsAreLogged
    <2>5. t[k] = << <<c>> >> \o l
      BY <2>1
    <2> QED BY <2>3, <2>4, <2>5, TwoLogs
  <1> QED BY <1>3, <1>5, <1>6, StrungLogs

\* merge_recorded makes a log of two.
LEMMA MergeIsLogged ==
    ASSUME NEW s, IsLog(s), NEW recorded, IsLog(recorded)
    PROVE  IsLog(MergeRecorded(s, recorded))
  <1> PICK all : all = Changes(recorded)
    OBVIOUS
  <1>1. IsRecord(all)
    BY StrungRecords DEF Changes
  <1>2. Len(all) \in Nat /\ DOMAIN all = 1 .. Len(all)
        /\ \A k \in 1 .. Len(all) : IsChange(all[k])
    BY <1>1, Records, Sequences
  <1> PICK t : t = [k \in 1 .. Len(all) |->
                      IF Duplicate(all[k], s) THEN <<>> ELSE << <<all[k]>> >>]
    OBVIOUS
  <1>3. MergeRecorded(s, recorded) = s \o FlattenSeq(t)
    BY <1>2 DEF MergeRecorded
  <1>4. t = [k \in 1 .. Len(all) |-> t[k]]
    OBVIOUS
  <1>5. IsSeq(t) /\ Len(t) = Len(all)
    BY <1>2, <1>4, ListOf
  <1>6. ASSUME NEW k \in 1 .. Len(all) PROVE IsLog(t[k])
    <2>1. IsLog(<< <<all[k]>> >>) /\ IsLog(<<>>)
      BY <1>2, OneChange
    <2>2. t[k] = <<>> \/ t[k] = << <<all[k]>> >>
      OBVIOUS
    <2> QED BY <2>1, <2>2
  <1>7. IsLog(FlattenSeq(t))
    BY <1>5, <1>6, StrungLogs
  <1> QED BY <1>3, <1>7, TwoLogs
-------------------------------------------------------------------------------
(* The line of commands and the calls that wait for them.                  *)

\* Who has a write in a line of commands, and that nobody has two.
TasksOf(line) == {line[k].task : k \in {n \in 1 .. Len(line) : Writes(line[n])}}
Once(line) ==
    \A k, n \in 1 .. Len(line) :
        Writes(line[k]) /\ Writes(line[n]) /\ line[k].task = line[n].task => k = n

\* A line of commands, each with a log to write.
IsLine(line) == IsSeq(line) /\ \A k \in 1 .. Len(line) : IsLog(line[k].records)
AllWrite(line) == \A k \in 1 .. Len(line) : Writes(line[k])

\* A command joins the line.
LEMMA Joins ==
    ASSUME NEW line, IsLine(line), Once(line), NEW c, IsLog(c.records),
           Writes(c) => c.task \notin TasksOf(line)
    PROVE  /\ IsLine(Append(line, c)) /\ Once(Append(line, c))
           /\ TasksOf(Append(line, c)) =
                 TasksOf(line) \cup (IF Writes(c) THEN {c.task} ELSE {})
  <1> PICK new : new = Append(line, c)
    OBVIOUS
  <1> PICK m : m = Len(line)
    OBVIOUS
  <1>1. /\ m \in Nat /\ IsSeq(new) /\ Len(new) = m + 1
        /\ new = [n \in 1 .. m + 1 |-> IF n = m + 1 THEN c ELSE line[n]]
    BY Sequences DEF IsLine
  <1>2. new[m + 1] = c /\ \A n \in 1 .. m : new[n] = line[n]
    BY <1>1
  <1>3. \A n \in 1 .. m + 1 : n = m + 1 \/ n \in 1 .. m
    BY <1>1
  <1>4. m + 1 \in 1 .. m + 1 /\ \A n \in 1 .. m : n \in 1 .. m + 1
    BY <1>1
  <1>5. IsLine(new)
    BY <1>1, <1>2, <1>3 DEF IsLine
  <1>6. Once(new)
    <2> SUFFICES ASSUME NEW k \in 1 .. m + 1, NEW n \in 1 .. m + 1,
                        Writes(new[k]), Writes(new[n]), new[k].task = new[n].task
                 PROVE  k = n
      BY <1>1 DEF Once
    <2>1. ASSUME NEW i \in 1 .. m, Writes(line[i]), Writes(c), line[i].task = c.task
          PROVE  FALSE
      BY <2>1 DEF TasksOf
    <2>2. CASE k = m + 1 /\ n # m + 1
      BY <1>2, <1>3, <2>1, <2>2
    <2>3. CASE k # m + 1 /\ n = m + 1
      BY <1>2, <1>3, <2>1, <2>3
    <2>4. CASE k # m + 1 /\ n # m + 1
      <3>1. k \in 1 .. m /\ n \in 1 .. m
        BY <1>3, <2>4
      <3> QED BY <1>2, <3>1 DEF Once
    <2> QED BY <2>2, <2>3, <2>4
  <1>7. ASSUME NEW t PROVE t \in TasksOf(new) <=>
                 t \in TasksOf(line) \/ (Writes(c) /\ t = c.task)
    <2>1. t \in TasksOf(new) <=> \E k \in 1 .. m + 1 : Writes(new[k]) /\ t = new[k].task
      BY <1>1 DEF TasksOf
    <2>2. t \in TasksOf(line) <=> \E k \in 1 .. m : Writes(line[k]) /\ t = line[k].task
      BY DEF TasksOf
    <2> QED BY <1>2, <1>3, <1>4, <2>1, <2>2
  <1>8. TasksOf(new) = TasksOf(line) \cup (IF Writes(c) THEN {c.task} ELSE {})
    BY <1>7
  <1> QED BY <1>5, <1>6, <1>8

\* The line is taken apart.
LEMMA Divides ==
    ASSUME NEW line, IsLine(line), Once(line), NEW n \in 0 .. Len(line)
    PROVE  LET a == SubSeq(line, 1, n)
               b == SubSeq(line, n + 1, Len(line))
           IN  /\ IsLine(a) /\ IsLine(b) /\ Once(b) /\ Len(a) = n
               /\ TasksOf(a) \cup TasksOf(b) = TasksOf(line)
               /\ TasksOf(a) \cap TasksOf(b) = {}
  <1> PICK a : a = SubSeq(line, 1, n)
    OBVIOUS
  <1> PICK b : b = SubSeq(line, n + 1, Len(line))
    OBVIOUS
  <1> PICK m : m = Len(line)
    OBVIOUS
  <1>1. IsSeq(line) /\ m \in Nat /\ n \in Nat /\ m - n \in Nat /\ n <= m
    <2>1. IsSeq(line) /\ Len(line) \in Nat
      BY Sequences DEF IsLine
    <2> QED BY <2>1
  <1>2. /\ IsSeq(a) /\ a = [k \in 1 .. n |-> a[k]] /\ \A k \in 1 .. n : a[k] = line[k]
        /\ IsSeq(b) /\ b = [k \in 1 .. m - n |-> b[k]]
        /\ \A k \in 1 .. m - n : b[k] = line[k + n]
    <2>1. /\ IsSeq(a) /\ DOMAIN a = 1 .. n /\ \A k \in 1 .. n : a[k] = line[k]
          /\ IsSeq(b) /\ DOMAIN b = 1 .. m - n
          /\ \A k \in 1 .. m - n : b[k] = line[k + n]
      BY <1>1, Parts
    <2>2. /\ a = [k \in 1 .. Len(a) |-> a[k]] /\ DOMAIN a = 1 .. Len(a)
          /\ b = [k \in 1 .. Len(b) |-> b[k]] /\ DOMAIN b = 1 .. Len(b)
      BY <2>1, Sequences
    <2> QED BY <2>1, <2>2
  <1>3. Len(a) = n /\ Len(b) = m - n
    BY <1>1, <1>2, ListOf
  <1>4. /\ \A k \in 1 .. n : k \in 1 .. m
        /\ \A k \in 1 .. m - n : k + n \in 1 .. m
        /\ \A k \in 1 .. n, l \in 1 .. m - n : k # l + n
        /\ \A k \in 1 .. m - n, l \in 1 .. m - n : k + n = l + n => k = l
        /\ \A k \in 1 .. m : k \in 1 .. n \/ (k - n \in 1 .. m - n /\ (k - n) + n = k)
    BY <1>1
  <1>5. IsLine(a) /\ IsLine(b)
    <2>1. \A k \in 1 .. m : IsLog(line[k].records)
      BY DEF IsLine
    <2>2. ASSUME NEW k \in 1 .. n PROVE IsLog(a[k].records)
      BY <1>2, <1>4, <2>1
    <2>3. ASSUME NEW k \in 1 .. m - n PROVE IsLog(b[k].records)
      <3>1. k + n \in 1 .. m /\ b[k] = line[k + n]
        BY <1>2, <1>4
      <3> QED BY <2>1, <3>1
    <2> QED BY <1>2, <1>3, <2>2, <2>3 DEF IsLine
  <1>6. Once(b)
    <2> SUFFICES ASSUME NEW k \in 1 .. m - n, NEW l \in 1 .. m - n,
                        Writes(b[k]), Writes(b[l]), b[k].task = b[l].task
                 PROVE  k = l
      BY <1>3 DEF Once
    <2>1. b[k] = line[k + n] /\ b[l] = line[l + n]
      BY <1>2
    <2>2. k + n = l + n
      BY <1>4, <2>1 DEF Once
    <2> QED BY <1>4, <2>2
  <1>7. \A t : t \in TasksOf(a) <=> \E k \in 1 .. n : Writes(line[k]) /\ t = line[k].task
    <2>1. ASSUME NEW t PROVE t \in TasksOf(a) <=> \E k \in 1 .. n : Writes(a[k]) /\ t = a[k].task
      BY <1>3 DEF TasksOf
    <2> QED BY <1>2, <2>1, ZenonT(60)
  <1>8. \A t : t \in TasksOf(b) <=>
                 \E k \in 1 .. m - n : Writes(line[k + n]) /\ t = line[k + n].task
    <2>1. ASSUME NEW t
          PROVE  t \in TasksOf(b) <=> \E k \in 1 .. m - n : Writes(b[k]) /\ t = b[k].task
      BY <1>3 DEF TasksOf
    <2>2. \A k \in 1 .. m - n : b[k] = line[k + n]
      BY <1>2
    <2>3. ASSUME NEW t
          PROVE  (\E k \in 1 .. m - n : Writes(b[k]) /\ t = b[k].task) <=>
                 \E k \in 1 .. m - n : Writes(line[k + n]) /\ t = line[k + n].task
      BY ONLY <2>2, Zenon
    <2>4. ASSUME NEW t
          PROVE  t \in TasksOf(b) <=>
                 \E k \in 1 .. m - n : Writes(line[k + n]) /\ t = line[k + n].task
      BY ONLY <2>1, <2>3, SMTT(30)
    <2> QED BY ONLY <2>4, Zenon
  <1>9. \A t : t \in TasksOf(line) <=> \E k \in 1 .. m : Writes(line[k]) /\ t = line[k].task
    BY DEF TasksOf
  <1>10. TasksOf(a) \cup TasksOf(b) = TasksOf(line)
    <2>1. ASSUME NEW t \in TasksOf(line) PROVE t \in TasksOf(a) \cup TasksOf(b)
      <3> PICK k \in 1 .. m : Writes(line[k]) /\ t = line[k].task
        BY <1>9
      <3>1. CASE k \in 1 .. n
        BY <1>7, <3>1
      <3>2. CASE k - n \in 1 .. m - n /\ (k - n) + n = k
        BY <1>8, <3>2
      <3> QED BY <1>4, <3>1, <3>2
    <2>2. ASSUME NEW t, t \in TasksOf(a) \/ t \in TasksOf(b) PROVE t \in TasksOf(line)
      BY <1>4, <1>7, <1>8, <1>9, <2>2
    <2> QED BY <2>1, <2>2
  <1>11. TasksOf(a) \cap TasksOf(b) = {}
    <2> SUFFICES ASSUME NEW t, t \in TasksOf(a), t \in TasksOf(b) PROVE FALSE
      OBVIOUS
    <2> PICK k \in 1 .. n : Writes(line[k]) /\ t = line[k].task
      BY <1>7
    <2> PICK l \in 1 .. m - n : Writes(line[l + n]) /\ t = line[l + n].task
      BY <1>8
    <2>1. k \in 1 .. m /\ l + n \in 1 .. m /\ k # l + n
      BY <1>4
    <2> QED BY <2>1 DEF Once
  <1> QED BY <1>2, <1>3, <1>5, <1>6, <1>10, <1>11
\* A call in flight, a table of them, and those that wait for a flush.
IsCall(x) ==
    /\ x = [req |-> x.req, at |-> x.at, answer |-> x.answer]
    /\ x.req \in Requests
    /\ x.at \in {"locked", "queued", "applied"}
    /\ x.answer \in {"none", "ok", "err"}
    /\ x.at = "locked" => x.answer = "none"
IsTable(f) ==
    /\ DOMAIN f \subseteq Tasks
    /\ f = [t \in DOMAIN f |-> f[t]]
    /\ \A t \in DOMAIN f : IsCall(f[t])
Waits(x) == x.at # "locked" /\ x.answer = "none"
InWait(f) == {t \in DOMAIN f : Waits(f[t])}

\* A call is put in place: whether its task waits is the call's affair alone.
LEMMA CallPut ==
    ASSUME NEW f, IsTable(f), NEW t \in Tasks, NEW x, IsCall(x),
           NEW g, g = [u \in DOMAIN f \cup {t} |-> IF u = t THEN x ELSE f[u]]
    PROVE  /\ IsTable(g)
           /\ InWait(g) = (InWait(f) \ {t}) \cup (IF Waits(x) THEN {t} ELSE {})
  <1>1. DOMAIN g = DOMAIN f \cup {t} /\ g = [u \in DOMAIN g |-> g[u]]
    OBVIOUS
  <1>2. \A u \in DOMAIN g : g[u] = IF u = t THEN x ELSE f[u]
    BY <1>1
  <1>3. IsTable(g)
    BY <1>1, <1>2 DEF IsTable
  <1>4. ASSUME NEW u PROVE u \in InWait(g) <=>
                 (u \in InWait(f) /\ u # t) \/ (Waits(x) /\ u = t)
    BY <1>1, <1>2 DEF InWait
  <1>5. InWait(g) = (InWait(f) \ {t}) \cup (IF Waits(x) THEN {t} ELSE {})
    <2>1. CASE Waits(x)
      BY <1>4, <2>1
    <2>2. CASE ~Waits(x)
      BY <1>4, <2>2
    <2> QED BY <2>1, <2>2
  <1> QED BY <1>3, <1>5

\* A call that does not wait goes.
LEMMA CallGone ==
    ASSUME NEW f, IsTable(f), NEW t \in DOMAIN f, ~Waits(f[t]),
           NEW g, g = [u \in DOMAIN f \ {t} |-> f[u]]
    PROVE  IsTable(g) /\ InWait(g) = InWait(f)
  <1>1. /\ DOMAIN g = DOMAIN f \ {t} /\ g = [u \in DOMAIN g |-> g[u]]
        /\ \A u \in DOMAIN g : g[u] = f[u]
    OBVIOUS
  <1>2. IsTable(g)
    BY <1>1 DEF IsTable
  <1>3. ASSUME NEW u PROVE u \in InWait(g) <=> u \in InWait(f)
    BY <1>1 DEF InWait
  <1> QED BY <1>2, <1>3

\* The callers of a batch are answered, and nobody else is.
LEMMA BatchAnswered ==
    ASSUME NEW f, IsTable(f), NEW line, IsLine(line), AllWrite(line),
           TasksOf(line) \subseteq InWait(f), NEW outcome \in {"ok", "err"},
           NEW g, g = [t \in DOMAIN f |->
                         IF \E k \in DOMAIN line : line[k].task = t
                         THEN [f[t] EXCEPT !.answer = outcome] ELSE f[t]]
    PROVE  IsTable(g) /\ InWait(g) = InWait(f) \ TasksOf(line)
  <1>1. DOMAIN line = 1 .. Len(line)
    BY Sequences DEF IsLine
  <1>2. ASSUME NEW t PROVE (\E k \in DOMAIN line : line[k].task = t) <=> t \in TasksOf(line)
    BY <1>1 DEF TasksOf, AllWrite
  <1>3. DOMAIN g = DOMAIN f /\ g = [u \in DOMAIN g |-> g[u]]
    OBVIOUS
  <1>4. ASSUME NEW t \in DOMAIN f
        PROVE  /\ IsCall(g[t])
               /\ Waits(g[t]) <=> Waits(f[t]) /\ t \notin TasksOf(line)
    <2>1. IsCall(f[t])
      BY DEF IsTable
    <2>2. CASE t \in TasksOf(line)
      <3> PICK x, y : x = f[t] /\ y = [x EXCEPT !.answer = outcome]
        OBVIOUS
      <3>1. g[t] = y
        BY <1>2, <2>2, Zenon
      <3>2. x = [req |-> x.req, at |-> x.at, answer |-> x.answer]
        BY <2>1 DEF IsCall
      <3>3. y = [req |-> x.req, at |-> x.at, answer |-> outcome]
        BY ONLY <3>2, y = [x EXCEPT !.answer = outcome]
      <3>4. y.req = x.req /\ y.at = x.at /\ y.answer = outcome
        BY ONLY <3>3
      <3>5. IsCall(y) /\ ~Waits(y)
        <4>1. x.at # "locked"
          BY <2>2 DEF InWait, Waits
        <4> QED BY <2>1, <3>3, <3>4, <4>1 DEF IsCall, Waits
      <3> QED BY <2>2, <3>1, <3>5
    <2>3. CASE t \notin TasksOf(line)
      <3>1. g[t] = f[t]
        BY <1>2, <2>3, Zenon
      <3> QED BY <2>1, <2>3, <3>1
    <2> QED BY <2>2, <2>3
  <1>5. IsTable(g)
    BY <1>3, <1>4 DEF IsTable
  <1>6. ASSUME NEW t PROVE t \in InWait(g) <=> t \in InWait(f) /\ t \notin TasksOf(line)
    BY <1>3, <1>4 DEF InWait
  <1> QED BY <1>5, <1>6

-------------------------------------------------------------------------------
(* The invariant.                                                          *)

LogsOK   == IsLog(file) /\ IsLog(recording)
StoresOK == IsStore(mem) /\ IsStore(compactor.snap)
FlagsOK  == window \in BOOLEAN /\ failed \in BOOLEAN

CompactorOK ==
    /\ compactor = Compactor(compactor.at, compactor.todo, compactor.snap)
    /\ compactor.at \in {"idle", "begun", "listing", "copying", "sent"}
    /\ compactor.todo \subseteq Resources
    /\ compactor.todo \cap DOMAIN compactor.snap = {}

\* What is in the pipeline, and who waits for it.
LinesOK == IsLine(queue) /\ IsLine(writing) /\ AllWrite(writing) /\ Once(queue)
Matched ==
    /\ TasksOf(writing) \cup TasksOf(queue) = InWait(calls)
    /\ TasksOf(writing) \cap TasksOf(queue) = {}

PipelineInv ==
    LogsOK /\ StoresOK /\ FlagsOK /\ CompactorOK /\ LinesOK /\ IsTable(calls) /\ Matched

\* Nothing in the pipeline.
LEMMA EmptyLine ==
    /\ IsLog(<<>>) /\ IsLine(<<>>) /\ AllWrite(<<>>) /\ Once(<<>>)
    /\ TasksOf(<<>>) = {}
    /\ IsTable(Nothing) /\ InWait(Nothing) = {}
  <1>1. Len(<<>>) = 0 /\ IsSeq(<<>>) /\ 1 .. 0 = {}
    BY ShortLists
  <1>2. IsLog(<<>>)
    BY <1>1, Logs
  <1>3. IsLine(<<>>) /\ AllWrite(<<>>) /\ Once(<<>>) /\ TasksOf(<<>>) = {}
    BY <1>1 DEF IsLine, AllWrite, Once, TasksOf
  <1>4. DOMAIN Nothing = {} /\ Nothing = [t \in DOMAIN Nothing |-> Nothing[t]]
    BY DEF Nothing
  <1> QED BY <1>2, <1>3, <1>4 DEF IsTable, InWait

\* The pipeline is in order at the start.
LEMMA PipelineStarts == Init => PipelineInv
  <1> SUFFICES ASSUME Init PROVE PipelineInv
    OBVIOUS
  <1>1. IsStore(InitialStore)
    BY ContentsAssumption
  <1>2. IsLog(SnapshotRecords(InitialStore))
    BY <1>1, SnapshotIsLogged
  <1>3. LogsOK
    BY <1>2, EmptyLine DEF Init, LogsOK
  <1>4. compactor = [at |-> "idle", todo |-> {}, snap |-> Nothing]
    BY DEF Init, Compactor
  <1>5. compactor.at = "idle" /\ compactor.todo = {} /\ compactor.snap = Nothing
    BY ONLY <1>4
  <1>6. CompactorOK
    BY <1>4, <1>5, Zenon DEF CompactorOK, Compactor
  <1>7. StoresOK
    BY <1>1, <1>2, <1>5, ReplayIsStore DEF Init, StoresOK
  <1>8. LinesOK /\ IsTable(calls) /\ Matched
    BY EmptyLine DEF Init, LinesOK, Matched
  <1>9. FlagsOK
    BY DEF Init, FlagsOK
  <1> QED BY <1>3, <1>6, <1>7, <1>8, <1>9 DEF PipelineInv
-------------------------------------------------------------------------------
(* The calls.                                                              *)

\* A call that begins has nothing on the line yet.
LEMMA BeginKeeps ==
    ASSUME PipelineInv, NEW t \in Tasks, NEW q \in Requests, Begin(t, q)
    PROVE  PipelineInv'
  <1> PICK x : x = [req |-> q, at |-> "locked", answer |-> "none"]
    OBVIOUS
  <1>1. IsCall(x) /\ ~Waits(x)
    <2>1. x.req = q /\ x.at = "locked" /\ x.answer = "none"
      OBVIOUS
    <2> QED BY <2>1 DEF IsCall, Waits
  <1>2. /\ t \notin DOMAIN calls
        /\ calls' = [u \in DOMAIN calls \cup {t} |-> IF u = t THEN x ELSE calls[u]]
    BY DEF Begin, Busy
  <1>3. IsTable(calls') /\ InWait(calls') = InWait(calls)
    <2>1. IsTable(calls)
      BY DEF PipelineInv
    <2>2. IsTable(calls') /\ InWait(calls') = (InWait(calls) \ {t}) \cup {}
      BY <1>1, <1>2, <2>1, CallPut
    <2>3. t \notin InWait(calls)
      BY <1>2 DEF InWait
    <2> QED BY <2>2, <2>3
  <1>4. UNCHANGED <<file, queue, writing, recording, window, failed, mem, compactor>>
    BY DEF Begin
  <1>5. LogsOK' /\ StoresOK' /\ FlagsOK' /\ CompactorOK' /\ LinesOK'
    BY <1>4 DEF PipelineInv, LogsOK, StoresOK, FlagsOK, CompactorOK, LinesOK
  <1>6. Matched'
    BY <1>3, <1>4 DEF PipelineInv, Matched
  <1> QED BY <1>3, <1>5, <1>6 DEF PipelineInv

\* Queuing puts one write on the line, of a call that now waits for it.
LEMMA EnqueueKeeps ==
    ASSUME PipelineInv, NEW t \in Tasks, Enqueue(t)
    PROVE  PipelineInv'
  <1>1. IsTable(calls) /\ t \in DOMAIN calls /\ calls[t].at = "locked"
    BY DEF PipelineInv, Enqueue, Busy
  <1>2. IsCall(calls[t]) /\ ~Waits(calls[t])
    BY <1>1 DEF IsTable, Waits
  <1>3. UNCHANGED <<file, writing, recording, window, failed, mem, compactor>>
    BY DEF Enqueue
  <1>4. LogsOK' /\ StoresOK' /\ FlagsOK' /\ CompactorOK'
    BY <1>3 DEF PipelineInv, LogsOK, StoresOK, FlagsOK, CompactorOK
  <1>5. t \notin InWait(calls)
    BY <1>2 DEF InWait
  <1>6. CASE failed
    <2>1. queue' = queue /\ calls' = [u \in DOMAIN calls \ {t} |-> calls[u]]
      BY <1>6 DEF Enqueue, End, Busy
    <2>2. IsTable(calls') /\ InWait(calls') = InWait(calls)
      BY <1>1, <1>2, <2>1, CallGone
    <2> QED BY <1>3, <1>4, <2>1, <2>2 DEF PipelineInv, LinesOK, Matched
  <1>7. CASE ~failed
    <2> PICK x, new : x = calls[t] /\ new = [x EXCEPT !.at = "queued"]
      OBVIOUS
    <2> PICK c : c = [cmd |-> IF Len(x.req.records) = 1 THEN "Append" ELSE "AppendAtomic",
                      records |-> x.req.records, task |-> t]
      OBVIOUS
    <2>1. queue' = Append(queue, c) /\ calls' = [calls EXCEPT ![t].at = "queued"]
      BY <1>7 DEF Enqueue
    <2>2. Writes(c) /\ c.task = t /\ c.records = x.req.records
      BY DEF Writes
    <2>3. x = [req |-> x.req, at |-> x.at, answer |-> x.answer] /\ x.req \in Requests
          /\ x.answer \in {"none", "ok", "err"}
      BY <1>2, Zenon DEF IsCall
    <2>4. new = [req |-> x.req, at |-> "queued", answer |-> x.answer]
      BY ONLY <2>3, new = [x EXCEPT !.at = "queued"]
    <2>5. new.req = x.req /\ new.at = "queued" /\ new.answer = x.answer
      BY ONLY <2>4
    <2>6. IsCall(new)
      BY <2>3, <2>4, <2>5 DEF IsCall
    <2>7. Waits(new)
      <3>1. x.answer = "none"
        BY <1>1, <1>2 DEF IsCall
      <3> QED BY <2>5, <3>1 DEF Waits
    <2>8. calls' = [u \in DOMAIN calls \cup {t} |-> IF u = t THEN new ELSE calls[u]]
      <3>1. calls = [u \in DOMAIN calls |-> calls[u]]
        BY <1>1 DEF IsTable
      <3> QED BY ONLY <1>1, <2>1, <3>1, x = calls[t], new = [x EXCEPT !.at = "queued"]
    <2>9. IsTable(calls') /\ InWait(calls') = (InWait(calls) \ {t}) \cup {t}
      BY <1>1, <2>6, <2>7, <2>8, CallPut
    <2>10. IsLog(c.records)
      BY <2>2, <2>3, ContentsAssumption
    <2>11. t \notin TasksOf(queue) /\ t \notin TasksOf(writing)
      BY <1>5 DEF PipelineInv, Matched
    <2>12. IsLine(queue) /\ Once(queue)
      BY DEF PipelineInv, LinesOK
    <2>13. IsLine(queue') /\ Once(queue') /\ TasksOf(queue') = TasksOf(queue) \cup {t}
      BY <2>1, <2>2, <2>10, <2>11, <2>12, Joins
    <2>14. LinesOK'
      BY <1>3, <2>13 DEF PipelineInv, LinesOK
    <2>15. Matched'
      <3>1. TasksOf(writing') = TasksOf(writing)
        BY <1>3
      <3>2. TasksOf(writing) \cup TasksOf(queue) = InWait(calls)
            /\ TasksOf(writing) \cap TasksOf(queue) = {}
        BY DEF PipelineInv, Matched
      <3> QED BY <1>5, <2>9, <2>11, <2>13, <3>1, <3>2 DEF Matched
    <2> QED BY <1>4, <2>9, <2>14, <2>15 DEF PipelineInv
  <1> QED BY <1>6, <1>7

\* persist_early changes memory only, which stays a store.
LEMMA ApplyEarlyKeeps ==
    ASSUME PipelineInv, NEW t \in Tasks, ApplyEarly(t)
    PROVE  PipelineInv'
  <1>1. IsTable(calls) /\ t \in DOMAIN calls /\ calls[t].at = "queued"
    BY DEF PipelineInv, ApplyEarly, Busy
  <1>2. UNCHANGED <<file, queue, writing, recording, window, failed, compactor>>
    BY DEF ApplyEarly
  <1> PICK x, new : x = calls[t] /\ new = [x EXCEPT !.at = "applied"]
    OBVIOUS
  <1>3. IsCall(x) /\ x.at = "queued"
    BY <1>1 DEF IsTable
  <1>4. x = [req |-> x.req, at |-> x.at, answer |-> x.answer]
    BY <1>3, Zenon DEF IsCall
  <1>5. new = [req |-> x.req, at |-> "applied", answer |-> x.answer]
    BY ONLY <1>4, new = [x EXCEPT !.at = "applied"]
  <1>6. new.req = x.req /\ new.at = "applied" /\ new.answer = x.answer
    BY ONLY <1>5
  <1>7. IsCall(new) /\ (Waits(new) <=> Waits(x))
    BY <1>3, <1>5, <1>6 DEF IsCall, Waits
  <1>8. calls' = [u \in DOMAIN calls \cup {t} |-> IF u = t THEN new ELSE calls[u]]
    <2>1. calls = [u \in DOMAIN calls |-> calls[u]] /\ calls' = [calls EXCEPT ![t].at = "applied"]
      BY <1>1 DEF IsTable, ApplyEarly
    <2> QED BY ONLY <1>1, <2>1, x = calls[t], new = [x EXCEPT !.at = "applied"]
  <1>9. IsTable(calls') /\ InWait(calls') = InWait(calls)
    <2>1. /\ IsTable(calls')
          /\ InWait(calls') = (InWait(calls) \ {t}) \cup (IF Waits(new) THEN {t} ELSE {})
      BY <1>1, <1>7, <1>8, CallPut
    <2>2. t \in InWait(calls) <=> Waits(new)
      BY <1>1, <1>7 DEF InWait
    <2> QED BY <2>1, <2>2
  <1>10. IsStore(mem')
    <2>1. IsLog(x.req.records)
      BY <1>3, ContentsAssumption DEF IsCall
    <2>2. IsStore(mem) /\ mem' = ApplyAll(mem, x.req.records)
      BY DEF PipelineInv, StoresOK, ApplyEarly
    <2> QED BY <2>1, <2>2, ApplyAllKeeps
  <1>11. StoresOK'
    BY <1>2, <1>10 DEF PipelineInv, StoresOK
  <1>12. LogsOK' /\ FlagsOK' /\ CompactorOK' /\ LinesOK'
    BY <1>2 DEF PipelineInv, LogsOK, FlagsOK, CompactorOK, LinesOK
  <1>13. Matched'
    BY <1>2, <1>9 DEF PipelineInv, Matched
  <1> QED BY <1>9, <1>11, <1>12, <1>13 DEF PipelineInv

\* Who returns has been answered, and has no write on the line.
LEMMA ReturnKeeps ==
    ASSUME PipelineInv, NEW t \in Tasks, Return(t)
    PROVE  PipelineInv'
  <1>1. IsTable(calls) /\ t \in DOMAIN calls /\ calls[t].answer # "none"
    BY DEF PipelineInv, Return, Busy, Answered
  <1>2. UNCHANGED <<file, queue, writing, recording, window, failed, compactor>>
    BY DEF Return
  <1>3. calls' = [u \in DOMAIN calls \ {t} |-> calls[u]]
    BY DEF Return, End, Busy
  <1>4. IsTable(calls') /\ InWait(calls') = InWait(calls)
    <2>1. ~Waits(calls[t])
      BY <1>1 DEF Waits
    <2> QED BY <1>1, <1>3, <2>1, CallGone
  <1>5. IsStore(mem')
    <2>1. IsStore(mem)
      BY DEF PipelineInv, StoresOK
    <2> PICK records : records = calls[t].req.records
      OBVIOUS
    <2>2. IsLog(records)
      BY <1>1, ContentsAssumption DEF IsTable, IsCall
    <2>3. mem' = mem \/ mem' = ApplyAll(mem, records)
      BY DEF Return
    <2> QED BY <2>1, <2>2, <2>3, ApplyAllKeeps
  <1>6. StoresOK'
    BY <1>2, <1>5 DEF PipelineInv, StoresOK
  <1>7. LogsOK' /\ FlagsOK' /\ CompactorOK' /\ LinesOK'
    BY <1>2 DEF PipelineInv, LogsOK, FlagsOK, CompactorOK, LinesOK
  <1>8. Matched'
    BY <1>2, <1>4 DEF PipelineInv, Matched
  <1> QED BY <1>4, <1>6, <1>7, <1>8 DEF PipelineInv

-------------------------------------------------------------------------------
(* The writer.                                                             *)

\* The writer takes at least one command, and nothing but writes.
LEMMA BatchIsWrites ==
    ASSUME IsLine(queue), queue # <<>>, Writes(Head(queue))
    PROVE  /\ BatchLength \in 1 .. Len(queue)
           /\ \A k \in 1 .. BatchLength : Writes(queue[k])
  <1> PICK m : m = Len(queue)
    OBVIOUS
  <1>1. m \in Nat /\ 1 \in 1 .. m /\ Head(queue) = queue[1]
    <2> PICK X : queue \in Seq(X)
      BY DEF IsLine, IsSeq
    <2>1. m \in Nat /\ m # 0
      OBVIOUS
    <2> QED BY <2>1
  <1>2. CASE Head(queue).cmd = "AppendAtomic"
    <2>1. BatchLength = 1
      BY <1>2 DEF BatchLength
    <2>2. \A k \in 1 .. 1 : k = 1
      OBVIOUS
    <2> QED BY <1>1, <2>1, <2>2
  <1>3. CASE Head(queue).cmd # "AppendAtomic"
    <2> DEFINE S == {n \in 1 .. m : \A k \in 1 .. n : queue[k].cmd = "Append"}
    <2>1. BatchLength = Max(S)
      BY <1>3 DEF BatchLength
    <2>2. 1 \in S
      <3>1. queue[1].cmd = "Append"
        BY <1>1, <1>3 DEF Writes
      <3>2. \A k \in 1 .. 1 : k = 1
        OBVIOUS
      <3> QED BY <1>1, <3>1, <3>2
    <2>3. S \subseteq 1 .. m /\ S # {}
      BY <2>2
    <2>4. BatchLength \in S
      <3> HIDE DEF S
      <3> QED BY <1>1, <2>1, <2>3, Greatest
    <2> QED BY <2>4 DEF Writes
  <1> QED BY <1>2, <1>3

\* A line's records are a log.
LEMMA LineRecords ==
    ASSUME NEW line, IsLine(line)
    PROVE  IsLog(RecordsOf(line))
  <1>1. Len(line) \in Nat /\ DOMAIN line = 1 .. Len(line)
    BY Sequences DEF IsLine
  <1> PICK t : t = [k \in 1 .. Len(line) |-> line[k].records]
    OBVIOUS
  <1>2. RecordsOf(line) = FlattenSeq(t)
    BY <1>1 DEF RecordsOf
  <1>3. t = [k \in 1 .. Len(line) |-> t[k]]
    OBVIOUS
  <1>4. IsSeq(t) /\ Len(t) = Len(line)
    BY <1>1, <1>3, ListOf
  <1>5. \A k \in 1 .. Len(t) : IsLog(t[k])
    BY <1>4 DEF IsLine
  <1> QED BY <1>2, <1>4, <1>5, StrungLogs

\* commit_batch moves writes from the queue to the batch.
LEMMA TakeBatchKeeps ==
    ASSUME PipelineInv, TakeBatch
    PROVE  PipelineInv'
  <1>1. writing = <<>> /\ queue # <<>> /\ Writes(Head(queue))
    BY DEF TakeBatch
  <1>2. IsLine(queue) /\ Once(queue) /\ IsTable(calls) /\ TasksOf(queue) = InWait(calls)
    BY <1>1, EmptyLine DEF PipelineInv, LinesOK, Matched
  <1>3. PICK n \in 1 .. Len(queue) : n = BatchLength /\ \A k \in 1 .. n : Writes(queue[k])
    BY <1>1, <1>2, BatchIsWrites
  <1>4. n \in 0 .. Len(queue)
    <2>1. Len(queue) \in Nat
      BY <1>2, Sequences DEF IsLine
    <2> QED BY <2>1
  <1>a. PICK a : a = SubSeq(queue, 1, n)
    OBVIOUS
  <1>b. PICK b : b = SubSeq(queue, n + 1, Len(queue))
    OBVIOUS
  <1>5. /\ IsLine(a) /\ IsLine(b) /\ Once(b) /\ Len(a) = n
        /\ TasksOf(a) \cup TasksOf(b) = TasksOf(queue)
        /\ TasksOf(a) \cap TasksOf(b) = {}
    BY ONLY <1>2, <1>4, <1>a, <1>b, Divides, Zenon
  <1>c. \A k \in 1 .. n : a[k] = queue[k]
    BY <1>2, <1>4, <1>a, Parts DEF IsLine
  <1>6. AllWrite(a)
    BY <1>3, <1>5, <1>c DEF AllWrite
  <1>7. queue' = b
    BY <1>3, <1>b DEF TakeBatch
  <1>8. UNCHANGED <<file, recording, window, failed, mem, compactor>>
    BY DEF TakeBatch
  <1>9. LogsOK' /\ StoresOK' /\ FlagsOK' /\ CompactorOK'
    BY <1>8 DEF PipelineInv, LogsOK, StoresOK, FlagsOK, CompactorOK
  <1>10. CASE failed
    <2>1. writing' = writing /\ Answer(a, "err")
      BY <1>3, <1>10, <1>a DEF TakeBatch
    <2>2. calls' = [t \in DOMAIN calls |->
                      IF \E k \in DOMAIN a : a[k].task = t
                      THEN [calls[t] EXCEPT !.answer = "err"] ELSE calls[t]]
      BY <2>1 DEF Answer, Busy
    <2>3. TasksOf(a) \subseteq InWait(calls)
      BY <1>2, <1>5
    <2>4. IsTable(calls') /\ InWait(calls') = InWait(calls) \ TasksOf(a)
      <3>1. "err" \in {"ok", "err"} /\ IsTable(calls) /\ IsLine(a)
        BY <1>2, <1>5
      <3> QED BY ONLY <3>1, <1>6, <2>2, <2>3, BatchAnswered
    <2>5. LinesOK'
      BY <1>5, <1>7, <2>1 DEF PipelineInv, LinesOK
    <2>6. Matched'
      BY <1>1, <1>2, <1>5, <1>7, <2>1, <2>4, EmptyLine DEF Matched
    <2> QED BY <1>9, <2>4, <2>5, <2>6 DEF PipelineInv
  <1>11. CASE ~failed
    <2>1. writing' = a /\ calls' = calls
      BY <1>3, <1>11, <1>a DEF TakeBatch
    <2>2. LinesOK'
      BY <1>5, <1>6, <1>7, <2>1 DEF LinesOK
    <2>3. Matched'
      BY <1>2, <1>5, <1>7, <2>1 DEF Matched
    <2> QED BY <1>2, <1>9, <2>1, <2>2, <2>3 DEF PipelineInv
  <1> QED BY <1>10, <1>11

\* A flush ends, well or badly: its callers are answered, the queue's are not.
LEMMA FlushAnswers ==
    ASSUME PipelineInv, NEW outcome \in {"ok", "err"}, Answer(writing, outcome),
           writing' = <<>>, UNCHANGED queue
    PROVE  LinesOK' /\ IsTable(calls') /\ Matched'
  <1>1. /\ IsLine(writing) /\ AllWrite(writing) /\ IsTable(calls)
        /\ TasksOf(writing) \cup TasksOf(queue) = InWait(calls)
        /\ TasksOf(writing) \cap TasksOf(queue) = {}
    BY DEF PipelineInv, LinesOK, Matched
  <1>2. calls' = [t \in DOMAIN calls |->
                    IF \E k \in DOMAIN writing : writing[k].task = t
                    THEN [calls[t] EXCEPT !.answer = outcome] ELSE calls[t]]
    BY DEF Answer, Busy
  <1>3. IsTable(calls') /\ InWait(calls') = InWait(calls) \ TasksOf(writing)
    <2>1. TasksOf(writing) \subseteq InWait(calls)
      BY <1>1
    <2> QED BY <1>1, <1>2, <2>1, BatchAnswered
  <1>4. LinesOK'
    BY EmptyLine DEF PipelineInv, LinesOK
  <1>5. Matched'
    <2>1. TasksOf(writing') = {} /\ TasksOf(queue') = TasksOf(queue)
      BY EmptyLine
    <2> QED BY <1>1, <1>3, <2>1 DEF Matched
  <1> QED BY <1>3, <1>4, <1>5

\* A flush answers the batch's callers and nobody else.
LEMMA FlushOkKeeps ==
    ASSUME PipelineInv, FlushOk
    PROVE  PipelineInv'
  <1>1. UNCHANGED <<queue, window, failed, mem, compactor>>
    BY DEF FlushOk
  <1>2. LinesOK' /\ IsTable(calls') /\ Matched'
    BY FlushAnswers DEF FlushOk
  <1>3. StoresOK' /\ FlagsOK' /\ CompactorOK'
    BY <1>1 DEF PipelineInv, StoresOK, FlagsOK, CompactorOK
  <1>4. IsLog(file) /\ IsLog(recording) /\ IsLog(RecordsOf(writing))
    BY LineRecords DEF PipelineInv, LogsOK, LinesOK
  <1>5. file' = file \o RecordsOf(writing)
        /\ (recording' = recording \o RecordsOf(writing) \/ recording' = recording)
    BY DEF FlushOk
  <1>6. LogsOK'
    BY <1>4, <1>5, TwoLogs DEF LogsOK
  <1> QED BY <1>2, <1>3, <1>6 DEF PipelineInv

\* So does a failed one, which leaves a beginning of the batch in the file.
LEMMA FlushFailKeeps ==
    ASSUME PipelineInv, NEW kept, FlushFail(kept)
    PROVE  PipelineInv'
  <1>1. UNCHANGED <<queue, recording, window, mem, compactor>>
    BY DEF FlushFail
  <1>2. LinesOK' /\ IsTable(calls') /\ Matched'
    BY FlushAnswers DEF FlushFail
  <1>3. StoresOK' /\ FlagsOK' /\ CompactorOK'
    BY <1>1 DEF PipelineInv, StoresOK, FlagsOK, CompactorOK, FlushFail
  <1>4. IsLog(file) /\ IsLog(recording) /\ IsLog(kept)
    <2>1. IsLog(RecordsOf(writing))
      BY LineRecords DEF PipelineInv, LinesOK
    <2>2. kept \in Prefixes(RecordsOf(writing))
      BY DEF FlushFail
    <2>3. IsLog(kept)
      BY <2>1, <2>2, FirstOfLog
    <2> QED BY <2>3 DEF PipelineInv, LogsOK
  <1>5. file' = file \o kept
    BY DEF FlushFail
  <1>6. LogsOK'
    BY <1>1, <1>4, <1>5, TwoLogs DEF LogsOK
  <1> QED BY <1>2, <1>3, <1>6 DEF PipelineInv

\* The command at the head, which writes nothing, is done with.
LEMMA HeadGoes ==
    ASSUME PipelineInv, writing = <<>>, queue # <<>>, ~Writes(Head(queue)),
           queue' = Tail(queue), UNCHANGED <<writing, calls>>
    PROVE  /\ IsLog(Head(queue).records)
           /\ LinesOK' /\ IsTable(calls') /\ Matched'
  <1>1. IsLine(queue) /\ Once(queue)
    BY DEF PipelineInv, LinesOK
  <1> PICK m : m = Len(queue)
    OBVIOUS
  <1>2. /\ m \in Nat /\ 1 \in 0 .. m /\ 1 \in 1 .. m /\ Head(queue) = queue[1]
        /\ Tail(queue) = SubSeq(queue, 1 + 1, m)
    <2> PICK X : queue \in Seq(X)
      BY <1>1 DEF IsLine, IsSeq
    <2>1. m \in Nat /\ m # 0 /\ Head(queue) = queue[1]
      OBVIOUS
    <2>2. 1 \in 0 .. m /\ 1 \in 1 .. m
      BY <2>1
    <2>3. Tail(queue) = SubSeq(queue, 1 + 1, m)
      OBVIOUS
    <2> QED BY <2>1, <2>2, <2>3
  <1>3. PICK a : a = SubSeq(queue, 1, 1)
    OBVIOUS
  <1>4. PICK b : b = SubSeq(queue, 1 + 1, Len(queue))
    OBVIOUS
  <1>5. 1 \in 0 .. Len(queue)
    BY <1>2
  <1>6. /\ IsLine(a) /\ IsLine(b) /\ Once(b) /\ Len(a) = 1
        /\ TasksOf(a) \cup TasksOf(b) = TasksOf(queue)
    BY ONLY <1>1, <1>3, <1>4, <1>5, Divides, Zenon
  <1>7. TasksOf(a) = {}
    <2>a. \A k \in 1 .. 1 : a[k] = queue[k]
      BY <1>1, <1>3, <1>5, Parts DEF IsLine
    <2>1. \A k \in 1 .. 1 : k = 1
      OBVIOUS
    <2>2. \A k \in 1 .. Len(a) : ~Writes(a[k])
      BY <1>2, <1>6, <2>1, <2>a
    <2> QED BY <2>2 DEF TasksOf
  <1>8. queue' = b /\ TasksOf(b) = TasksOf(queue)
    BY <1>2, <1>4, <1>6, <1>7
  <1>9. LinesOK'
    BY <1>6, <1>8 DEF PipelineInv, LinesOK
  <1>10. IsTable(calls') /\ Matched'
    BY <1>8 DEF PipelineInv, Matched
  <1>11. IsLog(Head(queue).records)
    BY <1>1, <1>2 DEF IsLine
  <1> QED BY <1>9, <1>10, <1>11

\* The compactor hears from the writer.
LEMMA ReplyKeeps ==
    ASSUME CompactorOK, IsStore(compactor.snap), NEW at \in {"listing", "idle"}, Reply(at)
    PROVE  CompactorOK' /\ IsStore(compactor'.snap)
  <1> PICK x, new : x = compactor /\ new = [x EXCEPT !.at = at]
    OBVIOUS
  <1>1. /\ x = [at |-> x.at, todo |-> x.todo, snap |-> x.snap]
        /\ x.todo \subseteq Resources /\ x.todo \cap DOMAIN x.snap = {}
    BY DEF CompactorOK, Compactor
  <1>2. new = [at |-> at, todo |-> x.todo, snap |-> x.snap]
    BY ONLY <1>1, new = [x EXCEPT !.at = at]
  <1>3. new.at = at /\ new.todo = x.todo /\ new.snap = x.snap
    BY ONLY <1>2
  <1>4. compactor' = new
    BY DEF Reply
  <1>5. new = Compactor(new.at, new.todo, new.snap)
    BY <1>2, <1>3 DEF Compactor
  <1> QED BY <1>1, <1>3, <1>4, <1>5 DEF CompactorOK

\* The writer opens the recording.
LEMMA HandleBeginKeeps ==
    ASSUME PipelineInv, HandleBegin
    PROVE  PipelineInv'
  <1>1. ~Writes(Head(queue)) /\ UNCHANGED <<file, failed, mem, writing, calls>>
    BY DEF HandleBegin, Writes
  <1>2. LinesOK' /\ IsTable(calls') /\ Matched'
    BY <1>1, HeadGoes DEF HandleBegin
  <1>3. CompactorOK' /\ IsStore(compactor'.snap)
    BY ReplyKeeps DEF HandleBegin, PipelineInv, StoresOK
  <1>4. StoresOK' /\ FlagsOK'
    BY <1>1, <1>3 DEF PipelineInv, StoresOK, FlagsOK, HandleBegin
  <1>5. LogsOK'
    BY <1>1, EmptyLine DEF PipelineInv, LogsOK, HandleBegin
  <1> QED BY <1>2, <1>3, <1>4, <1>5 DEF PipelineInv

\* The writer swaps the file for snapshot and recording.
LEMMA HandleCompactKeeps ==
    ASSUME PipelineInv, HandleCompact
    PROVE  PipelineInv'
  <1>1. ~Writes(Head(queue)) /\ UNCHANGED <<failed, mem, writing, calls>>
    BY DEF HandleCompact, Writes
  <1>2. IsLog(Head(queue).records) /\ LinesOK' /\ IsTable(calls') /\ Matched'
    BY <1>1, HeadGoes DEF HandleCompact
  <1>3. CompactorOK' /\ IsStore(compactor'.snap)
    BY ReplyKeeps DEF HandleCompact, PipelineInv, StoresOK
  <1>4. StoresOK' /\ FlagsOK'
    BY <1>1, <1>3 DEF PipelineInv, StoresOK, FlagsOK, HandleCompact
  <1>5. IsLog(file')
    <2>1. file' = file \/ file' = MergeRecorded(Head(queue).records, recording)
      BY DEF HandleCompact
    <2>2. IsLog(file) /\ IsLog(recording)
      BY DEF PipelineInv, LogsOK
    <2> QED BY <1>2, <2>1, <2>2, MergeIsLogged
  <1>6. LogsOK'
    BY <1>5, EmptyLine DEF LogsOK, HandleCompact
  <1> QED BY <1>2, <1>3, <1>4, <1>6 DEF PipelineInv

-------------------------------------------------------------------------------
(* The compactor, the collector and restarts.                              *)

\* A command of the compactor joins the queue.
LEMMA CompactorAsks ==
    ASSUME PipelineInv, NEW c, IsLog(c.records), ~Writes(c),
           queue' = Append(queue, c), UNCHANGED <<writing, calls>>
    PROVE  LinesOK' /\ IsTable(calls') /\ Matched'
  <1>1. IsLine(queue) /\ Once(queue)
    BY DEF PipelineInv, LinesOK
  <1>2. IsLine(queue') /\ Once(queue') /\ TasksOf(queue') = TasksOf(queue) \cup {}
    BY <1>1, Joins
  <1>3. TasksOf(queue') = TasksOf(queue)
    BY <1>2
  <1> QED BY <1>2, <1>3 DEF PipelineInv, LinesOK, Matched

\* The compactor goes on to another state.
LEMMA CompactorMoves ==
    ASSUME NEW at \in {"begun", "listing", "copying", "sent", "idle"},
           NEW todo, todo \subseteq Resources,
           NEW snap, IsStore(snap), todo \cap DOMAIN snap = {}, compactor' = Compactor(at, todo, snap)
    PROVE  CompactorOK' /\ IsStore(compactor'.snap)
  <1> PICK new : new = Compactor(at, todo, snap)
    OBVIOUS
  <1>1. new = [at |-> at, todo |-> todo, snap |-> snap]
    BY DEF Compactor
  <1>2. new.at = at /\ new.todo = todo /\ new.snap = snap
    BY ONLY <1>1
  <1>3. compactor' = new
    OBVIOUS
  <1> QED BY <1>2, <1>3 DEF CompactorOK

\* The compactor's first command is no write.
LEMMA StartCompactKeeps ==
    ASSUME PipelineInv, StartCompact
    PROVE  PipelineInv'
  <1>1. UNCHANGED <<file, writing, recording, window, failed, mem, calls>>
    BY DEF StartCompact
  <1> PICK c : c = [cmd |-> "CompactBegin", records |-> <<>>, task |-> 0]
    OBVIOUS
  <1>2. c.records = <<>> /\ ~Writes(c) /\ queue' = Append(queue, c)
    BY DEF Writes, StartCompact
  <1>3. LinesOK' /\ IsTable(calls') /\ Matched'
    BY <1>1, <1>2, EmptyLine, CompactorAsks
  <1>4. CompactorOK' /\ IsStore(compactor'.snap)
    <2>1. IsStore(Nothing) /\ {} \subseteq Resources /\ {} \cap DOMAIN Nothing = {}
      BY EmptyLine, ReplayIsStore
    <2>2. compactor' = Compactor("begun", {}, Nothing)
      BY DEF StartCompact
    <2> QED BY <2>1, <2>2, CompactorMoves
  <1>5. LogsOK' /\ StoresOK' /\ FlagsOK'
    BY <1>1, <1>4 DEF PipelineInv, LogsOK, StoresOK, FlagsOK
  <1> QED BY <1>3, <1>4, <1>5 DEF PipelineInv

\* Listing the resources changes the compactor alone.
LEMMA ListResourcesKeeps ==
    ASSUME PipelineInv, ListResources
    PROVE  PipelineInv'
  <1>1. UNCHANGED <<file, queue, writing, recording, window, failed, mem, calls>>
    BY DEF ListResources
  <1>2. CompactorOK' /\ IsStore(compactor'.snap)
    <2>1. IsStore(Nothing) /\ DOMAIN mem \subseteq Resources /\ DOMAIN mem \cap DOMAIN Nothing = {}
      BY EmptyLine, ReplayIsStore, Stores DEF PipelineInv, StoresOK, Nothing
    <2>2. compactor' = Compactor("copying", DOMAIN mem, Nothing)
      BY DEF ListResources
    <2> QED BY <2>1, <2>2, CompactorMoves
  <1>3. LogsOK' /\ StoresOK' /\ FlagsOK' /\ LinesOK' /\ IsTable(calls') /\ Matched'
    BY <1>1, <1>2 DEF PipelineInv, LogsOK, StoresOK, FlagsOK, LinesOK, Matched
  <1> QED BY <1>2, <1>3 DEF PipelineInv

\* A resource that is copied leaves what is to do.
LEMMA SnapshotOneKeeps ==
    ASSUME PipelineInv, NEW r \in Resources, SnapshotOne(r)
    PROVE  PipelineInv'
  <1>1. UNCHANGED <<file, queue, writing, recording, window, failed, mem, calls>>
    BY DEF SnapshotOne
  <1> PICK snap : snap = compactor.snap
    OBVIOUS
  <1> PICK new : new = [s \in DOMAIN snap \cup ({r} \cap DOMAIN mem) |->
                          IF s = r THEN mem[r] ELSE snap[s]]
    OBVIOUS
  <1>2. IsStore(snap) /\ IsStore(mem)
    BY DEF PipelineInv, StoresOK
  <1>3. IsStore(new)
    <2>1. CASE r \in DOMAIN mem
      <3>1. IsState(mem[r])
        BY <1>2, <2>1, Stores
      <3>2. new = [s \in DOMAIN snap \cup {r} |-> IF s = r THEN mem[r] ELSE snap[s]]
        BY <2>1
      <3> QED BY <1>2, <3>1, <3>2, PutInPlace
    <2>2. CASE r \notin DOMAIN mem
      <3>1. r \notin DOMAIN snap
        BY DEF SnapshotOne, PipelineInv, CompactorOK
      <3>2. new = [s \in DOMAIN snap |-> snap[s]]
        BY <2>2, <3>1
      <3> QED BY <1>2, <3>2, Narrowed
    <2> QED BY <2>1, <2>2
  <1>4. CompactorOK' /\ IsStore(compactor'.snap)
    <2>1. compactor.todo \ {r} \subseteq Resources /\ (compactor.todo \ {r}) \cap DOMAIN new = {}
      BY DEF PipelineInv, CompactorOK
    <2>2. compactor' = Compactor("copying", compactor.todo \ {r}, new)
      BY DEF SnapshotOne
    <2> QED BY <1>3, <2>1, <2>2, CompactorMoves
  <1>5. LogsOK' /\ StoresOK' /\ FlagsOK' /\ LinesOK' /\ IsTable(calls') /\ Matched'
    BY <1>1, <1>4 DEF PipelineInv, LogsOK, StoresOK, FlagsOK, LinesOK, Matched
  <1> QED BY <1>4, <1>5 DEF PipelineInv

\* The compactor's second command is no write and carries a log.
LEMMA SendCompactKeeps ==
    ASSUME PipelineInv, SendCompact
    PROVE  PipelineInv'
  <1>1. UNCHANGED <<file, writing, recording, window, failed, mem, calls>>
    BY DEF SendCompact
  <1> PICK records : records = SnapshotRecords(compactor.snap)
    OBVIOUS
  <1> PICK c : c = [cmd |-> "Compact", task |-> 0, records |-> records]
    OBVIOUS
  <1>2. c.records = records /\ ~Writes(c) /\ queue' = Append(queue, c)
    BY DEF Writes, SendCompact
  <1>3. IsLog(records)
    BY SnapshotIsLogged DEF PipelineInv, StoresOK
  <1>4. LinesOK' /\ IsTable(calls') /\ Matched'
    BY <1>1, <1>2, <1>3, CompactorAsks
  <1>5. CompactorOK' /\ IsStore(compactor'.snap)
    <2>1. IsStore(Nothing) /\ {} \subseteq Resources /\ {} \cap DOMAIN Nothing = {}
      BY EmptyLine, ReplayIsStore
    <2>2. compactor' = Compactor("sent", {}, Nothing)
      BY DEF SendCompact
    <2> QED BY <2>1, <2>2, CompactorMoves
  <1>6. LogsOK' /\ StoresOK' /\ FlagsOK'
    BY <1>1, <1>5 DEF PipelineInv, LogsOK, StoresOK, FlagsOK
  <1> QED BY <1>4, <1>5, <1>6 DEF PipelineInv

\* Garbage collection leaves memory a store.
LEMMA GcKeeps ==
    ASSUME PipelineInv, NEW r \in Resources, Gc(r)
    PROVE  PipelineInv'
  <1>1. UNCHANGED <<file, queue, writing, recording, window, failed, calls, compactor>>
    BY DEF Gc
  <1>2. IsStore(mem) /\ r \in DOMAIN mem
    BY DEF Gc, PipelineInv, StoresOK
  <1> PICK x : x = mem[r]
    OBVIOUS
  <1> PICK iv : iv = [i \in Ids |-> IF i \in PastIds THEN <<>> ELSE x.iv[i]]
    OBVIOUS
  <1> PICK y : y = [x EXCEPT !.iv = iv]
    OBVIOUS
  <1>3. IsState(x) /\ mem = [q \in DOMAIN mem |-> mem[q]]
    BY <1>2, Stores
  <1>4. IsState(y)
    <2>1. x = [shape |-> x.shape, iv |-> x.iv] /\ \A i \in Ids : IsList(x.iv[i])
      BY <1>3, Zenon DEF IsState
    <2>2. y = [shape |-> x.shape, iv |-> iv]
      BY ONLY <2>1, y = [x EXCEPT !.iv = iv]
    <2>3. y.shape = x.shape /\ y.iv = iv
      BY ONLY <2>2
    <2>4. iv = [i \in Ids |-> iv[i]]
      OBVIOUS
    <2>5. \A i \in Ids : IsList(iv[i])
      BY <2>1, ShortLists, Lists
    <2> QED BY <2>2, <2>3, <2>4, <2>5 DEF IsState
  <1>5. mem' = [q \in DOMAIN mem \cup {r} |-> IF q = r THEN y ELSE mem[q]]
    <2>1. mem' = [mem EXCEPT ![r].iv = iv]
      BY DEF Gc
    <2> QED BY ONLY <1>2, <1>3, <2>1, x = mem[r], y = [x EXCEPT !.iv = iv]
  <1>6. IsStore(mem')
    BY <1>2, <1>4, <1>5, PutInPlace
  <1>7. StoresOK'
    BY <1>1, <1>6 DEF PipelineInv, StoresOK
  <1>8. LogsOK' /\ FlagsOK' /\ CompactorOK' /\ LinesOK' /\ IsTable(calls') /\ Matched'
    BY <1>1 DEF PipelineInv, LogsOK, FlagsOK, CompactorOK, LinesOK, Matched
  <1> QED BY <1>7, <1>8 DEF PipelineInv

\* A restart from a log empties the pipeline.
LEMMA RestartKeeps ==
    ASSUME NEW log, IsLog(log), Restart(log)
    PROVE  PipelineInv'
  <1>1. file' = log /\ recording' = <<>> /\ mem' = Replay(log)
    BY DEF Restart
  <1>2. IsStore(Replay(log)) /\ IsStore(Nothing)
    BY ReplayIsStore
  <1>3. CompactorOK' /\ IsStore(compactor'.snap)
    <2>1. {} \subseteq Resources /\ {} \cap DOMAIN Nothing = {}
      OBVIOUS
    <2>2. compactor' = Compactor("idle", {}, Nothing)
      BY DEF Restart
    <2> QED BY <1>2, <2>1, <2>2, CompactorMoves
  <1>4. LogsOK' /\ StoresOK'
    BY <1>1, <1>2, <1>3, EmptyLine DEF LogsOK, StoresOK
  <1>5. FlagsOK'
    BY DEF Restart, FlagsOK
  <1>6. queue' = <<>> /\ writing' = <<>> /\ calls' = Nothing
    BY DEF Restart
  <1>7. LinesOK' /\ IsTable(calls') /\ Matched'
    BY <1>6, EmptyLine DEF LinesOK, Matched
  <1> QED BY <1>3, <1>4, <1>5, <1>7 DEF PipelineInv

\* A crash leaves a beginning of the batch in the file, which is a log.
LEMMA CrashKeeps ==
    ASSUME PipelineInv, NEW kept, Crash(kept)
    PROVE  PipelineInv'
  <1>1. IsLog(RecordsOf(writing)) /\ IsLog(file)
    BY LineRecords DEF PipelineInv, LogsOK, LinesOK
  <1>2. kept \in Prefixes(RecordsOf(writing))
    BY DEF Crash
  <1>3. IsLog(kept)
    BY <1>1, <1>2, FirstOfLog
  <1> PICK log : log = file \o kept
    OBVIOUS
  <1>4. IsLog(log)
    BY <1>1, <1>3, TwoLogs
  <1>5. Restart(log)
    BY DEF Crash
  <1> QED BY <1>4, <1>5, RestartKeeps

\* A tenant rebuilt in the same process starts from the file as it is.
LEMMA RebuildKeeps ==
    ASSUME PipelineInv, Rebuild
    PROVE  PipelineInv'
  <1> PICK log : log = file
    OBVIOUS
  <1>1. IsLog(log) /\ Restart(log)
    BY DEF PipelineInv, LogsOK, Rebuild
  <1> QED BY <1>1, RestartKeeps

-------------------------------------------------------------------------------
(* All of it.                                                              *)

\* Every step keeps the pipeline in order.
LEMMA PipelineKept == PipelineInv /\ [Next]_vars => PipelineInv'
  <1> SUFFICES ASSUME PipelineInv, [Next]_vars PROVE PipelineInv'
    OBVIOUS
  <1>1. ASSUME NEW t \in Tasks, TaskStep(t) PROVE PipelineInv'
    BY <1>1, EnqueueKeeps, ApplyEarlyKeeps, ReturnKeeps DEF TaskStep
  <1>2. ASSUME NEW t \in Tasks, NEW q \in Requests, Begin(t, q) PROVE PipelineInv'
    BY <1>2, BeginKeeps
  <1>3. CASE WriterStep
    BY <1>3, TakeBatchKeeps, FlushOkKeeps, HandleBeginKeeps, HandleCompactKeeps DEF WriterStep
  <1>4. CASE StartCompact
    BY <1>4, StartCompactKeeps
  <1>5. CASE CompactStep
    BY <1>5, ListResourcesKeeps, SendCompactKeeps, SnapshotOneKeeps DEF CompactStep
  <1>6. ASSUME NEW r \in Resources, Gc(r) PROVE PipelineInv'
    BY <1>6, GcKeeps
  <1>7. CASE FaultStep
    BY <1>7, FlushFailKeeps, CrashKeeps DEF FaultStep
  <1>8. CASE Rebuild
    BY <1>8, RebuildKeeps
  <1>9. CASE UNCHANGED vars
    <2>1. UNCHANGED <<file, queue, writing, recording, window, failed, mem, calls, compactor>>
      BY <1>9 DEF vars
    <2> QED BY <2>1 DEF PipelineInv, LogsOK, StoresOK, FlagsOK, CompactorOK, LinesOK, Matched
  <1> QED BY <1>1, <1>2, <1>3, <1>4, <1>5, <1>6, <1>7, <1>8, <1>9 DEF Next

\* The invariant says what TypeOK says of the two lines as one.
LEMMA PipelineIsTyped == PipelineInv => TypeOK
  <1> SUFFICES ASSUME PipelineInv PROVE TypeOK
    OBVIOUS
  <1>1. PICK line : line = writing \o queue
    OBVIOUS
  <1> PICK m, l : m = Len(writing) /\ l = Len(queue)
    OBVIOUS
  <1>2. IsSeq(writing) /\ IsSeq(queue) /\ m \in Nat /\ l \in Nat
    <2>1. IsSeq(writing) /\ IsSeq(queue)
      BY DEF PipelineInv, LinesOK, IsLine
    <2> QED BY <2>1, Sequences
  <1>3. /\ IsSeq(line) /\ Len(line) = m + l
        /\ \A n \in 1 .. m : line[n] = writing[n]
        /\ \A n \in 1 .. l : line[m + n] = queue[n]
    BY <1>1, <1>2, Concatenated
  <1>4. DOMAIN line = 1 .. m + l
    BY <1>3, Sequences
  <1>5. /\ \A n \in 1 .. m : n \in 1 .. m + l
        /\ \A n \in 1 .. l : m + n \in 1 .. m + l
        /\ \A n \in 1 .. m + l : n \in 1 .. m \/ (n - m \in 1 .. l /\ n = m + (n - m))
    BY <1>2
  <1>6. TasksOf(writing) \cup TasksOf(queue) = {t \in Busy : Waiting(t)}
    BY DEF PipelineInv, Matched, InWait, Waits, Waiting, Busy
  <1>7. ASSUME NEW n \in 1 .. m + l, Writes(line[n])
        PROVE  line[n].task \in Busy /\ Waiting(line[n].task)
    <2>1. line[n].task \in TasksOf(writing) \cup TasksOf(queue)
      <3>1. CASE n \in 1 .. m
        BY <1>3, <1>7, <3>1 DEF TasksOf
      <3>2. CASE n - m \in 1 .. l /\ n = m + (n - m)
        <4> PICK k : k = n - m
          OBVIOUS
        <4>1. k \in 1 .. l /\ line[n] = queue[k]
          BY <1>3, <3>2
        <4> QED BY <1>7, <4>1 DEF TasksOf
      <3> QED BY <1>5, <3>1, <3>2
    <2> QED BY <1>6, <2>1
  <1>8. ASSUME NEW t \in Busy, Waiting(t)
        PROVE  \E n \in 1 .. m + l : Writes(line[n]) /\ line[n].task = t
    <2>1. t \in TasksOf(writing) \/ t \in TasksOf(queue)
      BY <1>6, <1>8
    <2>2. CASE t \in TasksOf(writing)
      <3> PICK n \in 1 .. m : Writes(writing[n]) /\ writing[n].task = t
        BY <2>2 DEF TasksOf
      <3> QED BY <1>3, <1>5
    <2>3. CASE t \in TasksOf(queue)
      <3> PICK n \in 1 .. l : Writes(queue[n]) /\ queue[n].task = t
        BY <2>3 DEF TasksOf
      <3>1. m + n \in 1 .. m + l /\ line[m + n] = queue[n]
        BY <1>3, <1>5
      <3> QED BY <3>1
    <2> QED BY <2>1, <2>2, <2>3
  <1>9. LET writes == {n \in DOMAIN (writing \o queue) : Writes((writing \o queue)[n])}
            task(n) == (writing \o queue)[n].task
        IN  /\ \A n \in writes : task(n) \in Busy /\ Waiting(task(n))
            /\ \A t \in Busy : Waiting(t) => \E n \in writes : task(n) = t
    BY <1>1, <1>4, <1>7, <1>8
  <1>10. /\ Busy \subseteq Tasks
         /\ \A t \in Busy : /\ calls[t].req \in Requests
                            /\ calls[t].at \in {"locked", "queued", "applied"}
                            /\ calls[t].answer \in {"none", "ok", "err"}
    BY DEF PipelineInv, IsTable, IsCall, Busy
  <1>11. /\ compactor.at \in {"idle", "begun", "listing", "copying", "sent"}
         /\ compactor.todo \subseteq Resources
         /\ IsStore(mem) /\ IsStore(compactor.snap)
         /\ window \in BOOLEAN /\ failed \in BOOLEAN
    BY DEF PipelineInv, CompactorOK, StoresOK, FlagsOK
  <1> QED BY <1>9, <1>10, <1>11 DEF TypeOK

\* The pipeline from a caller to the log is well formed at every step: memory,
\* the snapshot and what a replay builds are stores, every write on its way to
\* the writer belongs to a call that waits for it, and every call that waits has
\* one (persist, the writer task, compact_wal, recover).
THEOREM TypeCorrect == Spec => []TypeOK
  <1>1. Init => PipelineInv
    BY PipelineStarts
  <1>2. PipelineInv /\ [Next]_vars => PipelineInv'
    BY PipelineKept
  <1>3. PipelineInv => TypeOK
    BY PipelineIsTyped
  <1> QED BY <1>1, <1>2, <1>3, PTL DEF Spec

-------------------------------------------------------------------------------
(* Replaying one change more, and one record more.                          *)

\* Replaying no changes, and one change more.
LEMMA RunOf ==
    ASSUME NEW store, NEW s, IsSeq(s)
    PROVE  \E f : ChangeRun(f, store, s, Len(s)) /\ ApplyRecord(store, s) = f[Len(s)]
  <1> DEFINE after == CHOOSE f : f = [n \in 0 .. Len(s) |->
                          IF n = 0 THEN store ELSE Apply(f[n - 1], s[n])]
  <1>1. ApplyRecord(store, s) = after[Len(s)]
    BY Zenon DEF ApplyRecord
  <1>2. \E f : ChangeRun(f, store, s, Len(s))
    <2>1. Len(s) \in Nat
      BY Sequences
    <2> QED BY ONLY <2>1, ChangeRunExists
  <1>3. ChangeRun(after, store, s, Len(s))
    BY <1>2, Zenon DEF ChangeRun
  <1> QED BY <1>1, <1>3

\* No change.
LEMMA RunNone ==
    ASSUME NEW store
    PROVE  ApplyRecord(store, <<>>) = store
  <1>1. IsSeq(<<>>) /\ Len(<<>>) = 0
    BY ShortLists
  <1>2. PICK f : ChangeRun(f, store, <<>>, 0) /\ ApplyRecord(store, <<>>) = f[0]
    BY <1>1, RunOf
  <1>3. f = [n \in 0 .. 0 |-> IF n = 0 THEN store ELSE Apply(f[n - 1], <<>>[n])]
    BY <1>2, Zenon DEF ChangeRun
  <1>4. 0 \in 0 .. 0
    OBVIOUS
  <1>5. f[0] = store
    BY <1>3, <1>4, Zenon
  <1> QED BY <1>2, <1>5

\* One change more.
LEMMA RunOne ==
    ASSUME NEW store, NEW s, IsSeq(s), NEW c
    PROVE  ApplyRecord(store, Append(s, c)) = Apply(ApplyRecord(store, s), c)
  <1> PICK m : m = Len(s)
    OBVIOUS
  <1> PICK u : u = Append(s, c)
    OBVIOUS
  <1>1. /\ m \in Nat /\ IsSeq(u) /\ Len(u) = m + 1 /\ u[m + 1] = c
        /\ \A i \in 1 .. m : u[i] = s[i]
    <2>1. /\ m \in Nat /\ IsSeq(u) /\ Len(u) = m + 1
          /\ u = [n \in 1 .. m + 1 |-> IF n = m + 1 THEN c ELSE s[n]]
      BY Sequences
    <2> QED BY <2>1
  <1>2. PICK f : ChangeRun(f, store, s, m) /\ ApplyRecord(store, s) = f[m]
    BY RunOf
  <1>3. PICK g : ChangeRun(g, store, u, m + 1) /\ ApplyRecord(store, u) = g[m + 1]
    BY <1>1, RunOf
  <1>4. \A n \in 0 .. m : f[n] = IF n = 0 THEN store ELSE Apply(f[n - 1], s[n])
    BY <1>2, Zenon DEF ChangeRun
  <1>5. \A n \in 0 .. m + 1 : g[n] = IF n = 0 THEN store ELSE Apply(g[n - 1], u[n])
    BY <1>3, Zenon DEF ChangeRun
  <1> DEFINE S == {n \in 0 .. m : g[n] # f[n]}
  <1>6. S = {}
    <2> SUFFICES ASSUME S # {} PROVE FALSE
      OBVIOUS
    <2>1. S \subseteq Nat
      BY <1>1
    <2>2. PICK n \in S : \A k \in S : n <= k
      <3> HIDE DEF S
      <3> QED BY <2>1, FirstFailure
    <2>3. n \in 0 .. m /\ g[n] # f[n] /\ n \in 0 .. m + 1
      BY <1>1
    <2>4. n # 0
      BY <1>4, <1>5, <2>3
    <2>5. n \in 1 .. m /\ n - 1 \in 0 .. m /\ ~ (n <= n - 1)
      BY <1>1, <2>3, <2>4
    <2>6. g[n - 1] = f[n - 1]
      <3>1. n - 1 \notin S
        <4> HIDE DEF S
        <4> QED BY <2>2, <2>5
      <3> QED BY <2>5, <3>1
    <2>7. u[n] = s[n]
      BY <1>1, <2>5
    <2>8. f[n] = Apply(f[n - 1], s[n])
      BY <1>4, <2>3, <2>4
    <2>9. g[n] = Apply(g[n - 1], u[n])
      BY <1>5, <2>3, <2>4
    <2> QED BY <2>3, <2>6, <2>7, <2>8, <2>9
  <1>7. m \in 0 .. m /\ m + 1 \in 0 .. m + 1 /\ m + 1 # 0 /\ (m + 1) - 1 = m
    BY <1>1
  <1>8. g[m] = f[m]
    BY <1>6, <1>7
  <1>9. g[m + 1] = Apply(g[m], c)
    BY <1>1, <1>5, <1>7
  <1> QED BY <1>2, <1>3, <1>8, <1>9

\* Replaying what comes after.
LEMMA RunJoined ==
    ASSUME NEW store, NEW s, NEW t, IsSeq(s), IsSeq(t)
    PROVE  ApplyRecord(store, s \o t) = ApplyRecord(ApplyRecord(store, s), t)
  <1> PICK C : t \in Seq(C)
    BY DEF IsSeq
  <1> DEFINE W == {v \in Seq(C) :
                     ApplyRecord(store, s \o v) = ApplyRecord(ApplyRecord(store, s), v)}
  <1>1. <<>> \in W
    BY RunNone, NoneAdded
  <1>2. ASSUME NEW v \in Seq(C), v \in W, NEW c \in C PROVE Append(v, c) \in W
    <2>1. IsSeq(v)
      BY Zenon DEF IsSeq
    <2>2. IsSeq(s \o v) /\ s \o Append(v, c) = Append(s \o v, c)
      BY <2>1, OneAdded, Concatenated
    <2>3. ApplyRecord(store, s \o Append(v, c)) = Apply(ApplyRecord(store, s \o v), c)
      BY <2>2, RunOne
    <2>4. ApplyRecord(ApplyRecord(store, s), Append(v, c))
            = Apply(ApplyRecord(ApplyRecord(store, s), v), c)
      BY <2>1, RunOne
    <2>5. ApplyRecord(store, s \o v) = ApplyRecord(ApplyRecord(store, s), v)
      BY <1>2
    <2>6. Append(v, c) \in Seq(C)
      OBVIOUS
    <2> QED BY <2>3, <2>4, <2>5, <2>6
  <1> HIDE DEF W
  <1>3. t \in W
    BY <1>1, <1>2, ListInduction
  <1> QED BY <1>3 DEF W

\* The same of records.
LEMMA AllOf ==
    ASSUME NEW store, NEW s, IsSeq(s)
    PROVE  \E f : RecordRun(f, store, s, Len(s)) /\ ApplyAll(store, s) = f[Len(s)]
  <1> DEFINE after == CHOOSE f : f = [n \in 0 .. Len(s) |->
                          IF n = 0 THEN store ELSE ApplyRecord(f[n - 1], s[n])]
  <1>1. ApplyAll(store, s) = after[Len(s)]
    BY Zenon DEF ApplyAll
  <1>2. \E f : RecordRun(f, store, s, Len(s))
    <2>1. Len(s) \in Nat
      BY Sequences
    <2> QED BY ONLY <2>1, RecordRunExists
  <1>3. RecordRun(after, store, s, Len(s))
    BY <1>2, Zenon DEF RecordRun
  <1> QED BY <1>1, <1>3

\* No record.
LEMMA AllNone ==
    ASSUME NEW store
    PROVE  ApplyAll(store, <<>>) = store
  <1>1. IsSeq(<<>>) /\ Len(<<>>) = 0
    BY ShortLists
  <1>2. PICK f : RecordRun(f, store, <<>>, 0) /\ ApplyAll(store, <<>>) = f[0]
    BY <1>1, AllOf
  <1>3. f = [n \in 0 .. 0 |-> IF n = 0 THEN store ELSE ApplyRecord(f[n - 1], <<>>[n])]
    BY <1>2, Zenon DEF RecordRun
  <1>4. 0 \in 0 .. 0
    OBVIOUS
  <1>5. f[0] = store
    BY <1>3, <1>4, Zenon
  <1> QED BY <1>2, <1>5

\* One record more.
LEMMA AllOne ==
    ASSUME NEW store, NEW s, IsSeq(s), NEW c
    PROVE  ApplyAll(store, Append(s, c)) = ApplyRecord(ApplyAll(store, s), c)
  <1> PICK m : m = Len(s)
    OBVIOUS
  <1> PICK u : u = Append(s, c)
    OBVIOUS
  <1>1. /\ m \in Nat /\ IsSeq(u) /\ Len(u) = m + 1 /\ u[m + 1] = c
        /\ \A i \in 1 .. m : u[i] = s[i]
    <2>1. /\ m \in Nat /\ IsSeq(u) /\ Len(u) = m + 1
          /\ u = [n \in 1 .. m + 1 |-> IF n = m + 1 THEN c ELSE s[n]]
      BY Sequences
    <2> QED BY <2>1
  <1>2. PICK f : RecordRun(f, store, s, m) /\ ApplyAll(store, s) = f[m]
    BY AllOf
  <1>3. PICK g : RecordRun(g, store, u, m + 1) /\ ApplyAll(store, u) = g[m + 1]
    BY <1>1, AllOf
  <1>4. \A n \in 0 .. m : f[n] = IF n = 0 THEN store ELSE ApplyRecord(f[n - 1], s[n])
    BY <1>2, Zenon DEF RecordRun
  <1>5. \A n \in 0 .. m + 1 : g[n] = IF n = 0 THEN store ELSE ApplyRecord(g[n - 1], u[n])
    BY <1>3, Zenon DEF RecordRun
  <1> DEFINE S == {n \in 0 .. m : g[n] # f[n]}
  <1>6. S = {}
    <2> SUFFICES ASSUME S # {} PROVE FALSE
      OBVIOUS
    <2>1. S \subseteq Nat
      BY <1>1
    <2>2. PICK n \in S : \A k \in S : n <= k
      <3> HIDE DEF S
      <3> QED BY <2>1, FirstFailure
    <2>3. n \in 0 .. m /\ g[n] # f[n] /\ n \in 0 .. m + 1
      BY <1>1
    <2>4. n # 0
      BY <1>4, <1>5, <2>3
    <2>5. n \in 1 .. m /\ n - 1 \in 0 .. m /\ ~ (n <= n - 1)
      BY <1>1, <2>3, <2>4
    <2>6. g[n - 1] = f[n - 1]
      <3>1. n - 1 \notin S
        <4> HIDE DEF S
        <4> QED BY <2>2, <2>5
      <3> QED BY <2>5, <3>1
    <2>7. u[n] = s[n]
      BY <1>1, <2>5
    <2>8. f[n] = ApplyRecord(f[n - 1], s[n])
      BY <1>4, <2>3, <2>4
    <2>9. g[n] = ApplyRecord(g[n - 1], u[n])
      BY <1>5, <2>3, <2>4
    <2> QED BY <2>3, <2>6, <2>7, <2>8, <2>9
  <1>7. m \in 0 .. m /\ m + 1 \in 0 .. m + 1 /\ m + 1 # 0 /\ (m + 1) - 1 = m
    BY <1>1
  <1>8. g[m] = f[m]
    BY <1>6, <1>7
  <1>9. g[m + 1] = ApplyRecord(g[m], c)
    BY <1>1, <1>5, <1>7
  <1> QED BY <1>2, <1>3, <1>8, <1>9

\* A log is replayed by replaying its changes.
LEMMA AllIsRun ==
    ASSUME NEW store, NEW t, IsLists(t)
    PROVE  ApplyAll(store, t) = ApplyRecord(store, Changes(t))
  <1> PICK X : t \in Seq(Seq(X))
    BY ListsOver
  <1> DEFINE W == {v \in Seq(Seq(X)) : /\ IsLists(v)
                                       /\ ApplyAll(store, v) = ApplyRecord(store, FlattenSeq(v))}
  <1>1. <<>> \in W
    <2>1. IsLists(<<>>) /\ <<>> \in Seq(Seq(X))
      BY ShortLists DEF IsLists
    <2> QED BY <2>1, NothingStrung, RunNone, AllNone
  <1>2. ASSUME NEW v \in Seq(Seq(X)), v \in W, NEW c \in Seq(X) PROVE Append(v, c) \in W
    <2>1. IsLists(v) /\ IsSeq(v) /\ ApplyAll(store, v) = ApplyRecord(store, FlattenSeq(v))
      BY <1>2 DEF IsLists
    <2>2. IsSeq(c)
      BY Zenon DEF IsSeq
    <2>3. ApplyAll(store, Append(v, c)) = ApplyRecord(ApplyAll(store, v), c)
      BY <2>1, AllOne
    <2>4. FlattenSeq(Append(v, c)) = FlattenSeq(v) \o c /\ IsSeq(FlattenSeq(v))
      BY <2>1, <2>2, StrungOne, StrungIsList
    <2>5. ApplyRecord(store, FlattenSeq(v) \o c) = ApplyRecord(ApplyRecord(store, FlattenSeq(v)), c)
      BY <2>2, <2>4, RunJoined
    <2>6. IsLists(Append(v, c))
      BY <2>1, <2>2, OneMore
    <2>7. Append(v, c) \in Seq(Seq(X))
      OBVIOUS
    <2>8. ApplyAll(store, Append(v, c)) = ApplyRecord(store, FlattenSeq(Append(v, c)))
      BY <2>1, <2>3, <2>4, <2>5
    <2> QED BY <2>6, <2>7, <2>8
  <1> HIDE DEF W
  <1>3. t \in W
    BY <1>1, <1>2, ListInduction
  <1> QED BY <1>3 DEF W, Changes

\* What a change does to the resource it is about, and to the others.

\* Apply leaves the other resources alone.
LEMMA AppliedElsewhere ==
    ASSUME NEW store, IsStore(store), NEW c, IsChange(c), NEW r, r # c.res
    PROVE  LET s == Apply(store, c)
           IN  /\ r \in DOMAIN s <=> r \in DOMAIN store
               /\ r \in DOMAIN store => s[r] = store[r]
  <1> PICK s : s = Apply(store, c)
    OBVIOUS
  <1>1. c.op \in ChangeOps
    BY DEF IsChange
  <1>2. store = [q \in DOMAIN store |-> store[q]]
    BY Stores
  <1>3. CASE c.op = "create"
    <2>1. s = [q \in DOMAIN store \cup {c.res} |->
                IF q = c.res THEN [shape |-> c.val, iv |-> NoIntervals] ELSE store[q]]
      BY <1>3, Zenon DEF Apply
    <2> QED BY <2>1
  <1>4. CASE c.op = "delete"
    <2>1. s = [q \in DOMAIN store \ {c.res} |-> store[q]]
      BY <1>4, Zenon DEF Apply
    <2> QED BY <2>1
  <1>5. CASE c.op \notin {"create", "delete"} /\ c.res \notin DOMAIN store
    <2>1. c.op \in {"reshape", "add", "update", "remove"}
      BY <1>1, <1>5 DEF ChangeOps
    <2>2. s = store
      BY <1>5, <2>1, Zenon DEF Apply
    <2> QED BY <2>2
  <1>6. CASE c.op = "reshape" /\ c.res \in DOMAIN store
    <2>1. s = [store EXCEPT ![c.res].shape = c.val]
      BY <1>6, Zenon DEF Apply
    <2> QED BY <1>2, <2>1
  <1>7. CASE c.op = "add" /\ c.res \in DOMAIN store
    <2>1. s = [store EXCEPT ![c.res].iv[c.id] = Append(@, c.val)]
      BY <1>7, Zenon DEF Apply
    <2> QED BY <1>2, <2>1
  <1>8. CASE c.op = "update" /\ c.res \in DOMAIN store
    <2>1. s = [store EXCEPT ![c.res].iv[c.id] =
                      Append(IF @ = <<>> THEN @ ELSE Tail(@), c.val)]
      BY <1>8, Zenon DEF Apply
    <2> QED BY <1>2, <2>1
  <1>9. CASE c.op = "remove" /\ c.res \in DOMAIN store
    <2>1. s = [store EXCEPT ![c.res].iv[c.id] = IF @ = <<>> THEN @ ELSE Tail(@)]
      BY <1>9, Zenon DEF Apply
    <2> QED BY <1>2, <2>1
  <1> QED BY <1>1, <1>3, <1>4, <1>5, <1>6, <1>7, <1>8, <1>9 DEF ChangeOps

\* What Apply makes of the resource itself.
LEMMA AppliedThere ==
    ASSUME NEW store, IsStore(store), NEW c, IsChange(c)
    PROVE  LET s == Apply(store, c)
               r == c.res
           IN  /\ c.op = "create" =>
                    /\ r \in DOMAIN s /\ s[r].shape = c.val
                    /\ \A i \in Ids : s[r].iv[i] = <<>>
               /\ c.op = "delete" => r \notin DOMAIN s
               /\ c.op \notin {"create", "delete"} =>
                    /\ r \in DOMAIN s <=> r \in DOMAIN store
                    /\ r \in DOMAIN store =>
                         /\ s[r].shape = IF c.op = "reshape" THEN c.val ELSE store[r].shape
                         /\ \A i \in Ids : s[r].iv[i] =
                              IF Interval(c) /\ i = c.id
                              THEN After(c.op, store[r].iv[i], c.val) ELSE store[r].iv[i]
  <1> PICK s, r : s = Apply(store, c) /\ r = c.res
    OBVIOUS
  <1>1. c.op \in ChangeOps
    BY DEF IsChange
  <1>2. /\ store = [q \in DOMAIN store |-> store[q]]
        /\ \A q \in DOMAIN store : IsState(store[q])
    BY Stores
  <1>3. CASE c.op = "create"
    <2>1. s = [q \in DOMAIN store \cup {r} |->
                IF q = r THEN [shape |-> c.val, iv |-> NoIntervals] ELSE store[q]]
      BY <1>3, Zenon DEF Apply
    <2>2. r \in DOMAIN s /\ s[r] = [shape |-> c.val, iv |-> NoIntervals]
      BY <2>1
    <2>3. \A i \in Ids : NoIntervals[i] = <<>>
      BY DEF NoIntervals
    <2> QED BY <1>3, <2>2, <2>3
  <1>4. CASE c.op = "delete"
    <2>1. s = [q \in DOMAIN store \ {r} |-> store[q]]
      BY <1>4, Zenon DEF Apply
    <2> QED BY <1>4, <2>1
  <1>5. CASE c.op \notin {"create", "delete"} /\ r \notin DOMAIN store
    <2>1. c.op \in {"reshape", "add", "update", "remove"}
      BY <1>1, <1>5 DEF ChangeOps
    <2>2. s = store
      BY <1>5, <2>1, Zenon DEF Apply
    <2> QED BY <1>5, <2>2
  <1> PICK x : x = store[r]
    OBVIOUS
  <1>6. CASE c.op = "reshape" /\ r \in DOMAIN store
    <2>1. s = [store EXCEPT ![r].shape = c.val]
      BY <1>6, Zenon DEF Apply
    <2>2. s[r] = [x EXCEPT !.shape = c.val] /\ DOMAIN s = DOMAIN store
      BY <1>2, <1>6, <2>1
    <2>3. x = [shape |-> x.shape, iv |-> x.iv]
      BY <1>2, <1>6 DEF IsState
    <2>4. s[r].shape = c.val /\ s[r].iv = x.iv
      BY ONLY <2>2, <2>3
    <2> QED BY <1>6, <2>2, <2>4 DEF Interval
  <1>7. CASE Interval(c) /\ r \in DOMAIN store
    <2> PICK l : l = After(c.op, x.iv[c.id], c.val)
      OBVIOUS
    <2>1. s = [store EXCEPT ![r].iv[c.id] = l]
      <3>1. CASE c.op = "add"
        <4>1. s = [store EXCEPT ![r].iv[c.id] = Append(@, c.val)]
          BY <1>7, <3>1, Zenon DEF Apply
        <4>2. l = Append(x.iv[c.id], c.val)
          BY <3>1 DEF After
        <4> QED BY <4>1, <4>2
      <3>2. CASE c.op = "update"
        <4>1. s = [store EXCEPT ![r].iv[c.id] =
                      Append(IF @ = <<>> THEN @ ELSE Tail(@), c.val)]
          BY <1>7, <3>2, Zenon DEF Apply
        <4>2. l = Append(IF x.iv[c.id] = <<>> THEN x.iv[c.id] ELSE Tail(x.iv[c.id]), c.val)
          BY <3>2 DEF After
        <4> QED BY <4>1, <4>2
      <3>3. CASE c.op = "remove"
        <4>1. s = [store EXCEPT ![r].iv[c.id] = IF @ = <<>> THEN @ ELSE Tail(@)]
          BY <1>7, <3>3, Zenon DEF Apply
        <4>2. l = IF x.iv[c.id] = <<>> THEN x.iv[c.id] ELSE Tail(x.iv[c.id])
          BY <3>3 DEF After
        <4> QED BY <4>1, <4>2
      <3> QED BY <1>7, <3>1, <3>2, <3>3 DEF Interval
    <2>2. s[r] = [x EXCEPT !.iv[c.id] = l] /\ DOMAIN s = DOMAIN store
      BY <1>2, <1>7, <2>1
    <2>3. PICK iv, shape : x = [shape |-> shape, iv |-> iv] /\ iv = x.iv /\ shape = x.shape
      BY <1>2, <1>7 DEF IsState
    <2>4. iv = [i \in Ids |-> iv[i]]
      BY <1>2, <1>7, <2>3, ZenonT(60) DEF IsState
    <2> PICK new : new = [iv EXCEPT ![c.id] = l]
      OBVIOUS
    <2>5. s[r] = [shape |-> shape, iv |-> new]
      BY ONLY <2>2, <2>3, new = [iv EXCEPT ![c.id] = l]
    <2>6. s[r].shape = shape /\ s[r].iv = new
      BY ONLY <2>5
    <2>7. \A i \in Ids : new[i] = IF i = c.id THEN l ELSE iv[i]
      BY <2>4, Zenon
    <2>8. \A i \in Ids : s[r].iv[i] = IF Interval(c) /\ i = c.id
                           THEN After(c.op, store[r].iv[i], c.val) ELSE store[r].iv[i]
      BY <1>7, <2>3, <2>6, <2>7
    <2>9. c.op \notin {"create", "delete", "reshape"}
      BY <1>7 DEF Interval
    <2> QED BY <1>7, <2>2, <2>3, <2>6, <2>8, <2>9
  <1> QED BY <1>1, <1>3, <1>4, <1>5, <1>6, <1>7 DEF ChangeOps, Interval

\* Two stores hold the same for a resource, as far as the collector's intervals
\* do not count.
Agree(s1, s2, r) ==
    /\ r \in DOMAIN s1 <=> r \in DOMAIN s2
    /\ r \in DOMAIN s1 => /\ s1[r].shape = s2[r].shape
                          /\ \A i \in Ids \ PastIds : s1[r].iv[i] = s2[r].iv[i]

\* Applying one change keeps two stores in agreement.
LEMMA AgreeSteps ==
    ASSUME NEW s1, NEW s2, IsStore(s1), IsStore(s2), NEW c, IsChange(c), NEW r,
           Agree(s1, s2, r)
    PROVE  Agree(Apply(s1, c), Apply(s2, c), r)
  <1> PICK u1, u2 : u1 = Apply(s1, c) /\ u2 = Apply(s2, c)
    OBVIOUS
  <1>1. CASE r # c.res
    BY <1>1, AppliedElsewhere DEF Agree
  <1>2. CASE r = c.res /\ c.op = "create"
    BY <1>2, AppliedThere DEF Agree
  <1>3. CASE r = c.res /\ c.op = "delete"
    BY <1>3, AppliedThere DEF Agree
  <1>4. CASE r = c.res /\ c.op \notin {"create", "delete"}
    <2>1. r \in DOMAIN u1 <=> r \in DOMAIN u2
      BY <1>4, AppliedThere DEF Agree
    <2>2. ASSUME r \in DOMAIN u1
          PROVE  /\ u1[r].shape = u2[r].shape
                 /\ \A i \in Ids \ PastIds : u1[r].iv[i] = u2[r].iv[i]
      <3>1. r \in DOMAIN s1 /\ r \in DOMAIN s2
        BY <1>4, <2>2, AppliedThere DEF Agree
      <3>2. u1[r].shape = u2[r].shape
        BY <1>4, <3>1, AppliedThere DEF Agree
      <3>3. ASSUME NEW i \in Ids \ PastIds PROVE u1[r].iv[i] = u2[r].iv[i]
        BY <1>4, <3>1, AppliedThere DEF Agree
      <3> QED BY <3>2, <3>3
    <2> QED BY <2>1, <2>2 DEF Agree
  <1> QED BY <1>1, <1>2, <1>3, <1>4

\* A list of changes.
LEMMA RecordElems ==
    ASSUME NEW s
    PROVE  IsRecord(s) <=> IsSeq(s) /\ \A c \in Range(s) : IsChange(c)
  <1>1. ASSUME IsSeq(s)
        PROVE  (\A c \in Range(s) : IsChange(c)) <=> \A k \in 1 .. Len(s) : IsChange(s[k])
    <2>1. Range(s) = {s[n] : n \in 1 .. Len(s)}
      BY <1>1, ElemsOf
    <2> QED BY ONLY <2>1
  <1> QED BY <1>1, Records

-------------------------------------------------------------------------------
(* Replaying what a compaction carries over.                               *)

\* What MergeRecorded leaves out of the recording: Kept is the rest, and Rerun
\* replays the rest on a store.
Skipped(D, c) == Introduces(c) /\ c.id \in D
Kept(D, s) == FlattenSeq([k \in DOMAIN s |-> IF Skipped(D, s[k]) THEN <<>> ELSE <<s[k]>>])
Rerun(store, D, s) == ApplyRecord(store, Kept(D, s))

\* Kept strings lists together.
LEMMA KeptTable ==
    ASSUME NEW D, NEW s, IsSeq(s)
    PROVE  IsLists([k \in DOMAIN s |-> IF Skipped(D, s[k]) THEN <<>> ELSE <<s[k]>>])
  <1> PICK t : t = [k \in DOMAIN s |-> IF Skipped(D, s[k]) THEN <<>> ELSE <<s[k]>>]
    OBVIOUS
  <1>1. DOMAIN s = 1 .. Len(s) /\ Len(s) \in Nat
    BY Sequences
  <1>2. t = [k \in 1 .. Len(s) |-> t[k]]
    BY <1>1
  <1>3. IsSeq(t) /\ Len(t) = Len(s)
    BY <1>1, <1>2, ListOf
  <1>4. ASSUME NEW k \in 1 .. Len(s) PROVE IsSeq(t[k])
    <2>1. t[k] = IF Skipped(D, s[k]) THEN <<>> ELSE <<s[k]>>
      BY <1>1
    <2> QED BY <2>1, ShortLists
  <1> QED BY <1>3, <1>4 DEF IsLists

\* Of nothing, nothing is kept.
LEMMA KeptNone ==
    ASSUME NEW D
    PROVE  Kept(D, <<>>) = <<>>
  <1>1. [k \in DOMAIN <<>> |-> IF Skipped(D, <<>>[k]) THEN <<>> ELSE << <<>>[k]>>] = <<>>
    OBVIOUS
  <1> QED BY <1>1, NothingStrung DEF Kept

\* A change more is kept or skipped.
LEMMA KeptOne ==
    ASSUME NEW D, NEW s, NEW c, IsSeq(s)
    PROVE  /\ IsSeq(Kept(D, s))
           /\ Kept(D, Append(s, c)) =
                IF Skipped(D, c) THEN Kept(D, s) ELSE Append(Kept(D, s), c)
  <1> PICK t : t = [k \in DOMAIN s |-> IF Skipped(D, s[k]) THEN <<>> ELSE <<s[k]>>]
    OBVIOUS
  <1> PICK u : u = Append(s, c)
    OBVIOUS
  <1> PICK x : x = IF Skipped(D, c) THEN <<>> ELSE <<c>>
    OBVIOUS
  <1> PICK w : w = [k \in DOMAIN u |-> IF Skipped(D, u[k]) THEN <<>> ELSE <<u[k]>>]
    OBVIOUS
  <1>1. /\ Len(s) \in Nat /\ DOMAIN s = 1 .. Len(s)
        /\ IsSeq(u) /\ Len(u) = Len(s) + 1
        /\ u = [n \in 1 .. Len(s) + 1 |-> IF n = Len(s) + 1 THEN c ELSE s[n]]
    BY Sequences
  <1>2. IsLists(t) /\ IsLists(w) /\ IsSeq(t) /\ IsSeq(w)
    BY <1>1, KeptTable DEF IsLists
  <1>3. t = [k \in 1 .. Len(s) |-> t[k]] /\ Len(t) = Len(s)
    <2>1. t = [k \in 1 .. Len(s) |-> t[k]]
      BY <1>1
    <2> QED BY <1>1, <2>1, ListOf
  <1>4. Append(t, x) = [n \in 1 .. Len(s) + 1 |-> IF n = Len(s) + 1 THEN x ELSE t[n]]
    BY <1>2, <1>3, Sequences
  <1>5. w = Append(t, x)
    <2>1. DOMAIN u = 1 .. Len(s) + 1
      BY <1>1
    <2>2. ASSUME NEW n \in 1 .. Len(s) + 1
          PROVE  (IF Skipped(D, u[n]) THEN <<>> ELSE <<u[n]>>)
                   = IF n = Len(s) + 1 THEN x ELSE t[n]
      <3>1. u[n] = IF n = Len(s) + 1 THEN c ELSE s[n]
        BY <1>1
      <3>2. n # Len(s) + 1 => n \in DOMAIN s
        BY <1>1
      <3> QED BY <3>1, <3>2
    <2>3. w = [n \in 1 .. Len(s) + 1 |-> IF Skipped(D, u[n]) THEN <<>> ELSE <<u[n]>>]
      BY <2>1
    <2> QED BY ONLY <1>4, <2>2, <2>3
  <1>6. IsSeq(x)
    BY ShortLists
  <1>7. FlattenSeq(w) = FlattenSeq(t) \o x
    BY <1>2, <1>5, <1>6, StrungOne
  <1>8. IsSeq(FlattenSeq(t))
    BY <1>2, StrungIsList
  <1>9. FlattenSeq(t) \o <<>> = FlattenSeq(t) /\ FlattenSeq(t) \o <<c>> = Append(FlattenSeq(t), c)
    BY <1>8, NoneAdded, OneAdded
  <1>10. Kept(D, s) = FlattenSeq(t) /\ Kept(D, u) = FlattenSeq(w)
    BY DEF Kept
  <1> QED BY <1>7, <1>8, <1>9, <1>10

\* Rerunning nothing.
LEMMA RerunNone ==
    ASSUME NEW store, NEW D
    PROVE  Rerun(store, D, <<>>) = store
  BY KeptNone, RunNone DEF Rerun

\* Rerunning one change more.
LEMMA RerunOne ==
    ASSUME NEW store, NEW D, NEW s, NEW c, IsSeq(s)
    PROVE  Rerun(store, D, Append(s, c)) =
             IF Skipped(D, c) THEN Rerun(store, D, s) ELSE Apply(Rerun(store, D, s), c)
  <1>1. IsSeq(Kept(D, s)) /\ Kept(D, Append(s, c)) =
           IF Skipped(D, c) THEN Kept(D, s) ELSE Append(Kept(D, s), c)
    BY KeptOne
  <1>2. ApplyRecord(store, Append(Kept(D, s), c)) = Apply(ApplyRecord(store, Kept(D, s)), c)
    BY <1>1, RunOne
  <1> QED BY <1>1, <1>2 DEF Rerun

\* What is carried over is among what was recorded.
LEMMA KeptElems ==
    ASSUME NEW D, NEW s, IsSeq(s)
    PROVE  Range(Kept(D, s)) \subseteq Range(s) /\ IsSeq(Kept(D, s))
  <1> PICK t : t = [k \in DOMAIN s |-> IF Skipped(D, s[k]) THEN <<>> ELSE <<s[k]>>]
    OBVIOUS
  <1>1. IsLists(t) /\ Kept(D, s) = FlattenSeq(t)
    BY KeptTable DEF Kept
  <1>2. Range(Kept(D, s)) = UNION {Range(t[k]) : k \in 1 .. Len(t)}
    <2>1. Range(FlattenSeq(t)) = UNION {Range(t[k]) : k \in 1 .. Len(t)}
      BY <1>1, ElemsStrung
    <2> QED BY ONLY <1>1, <2>1
  <1>3. DOMAIN s = 1 .. Len(s) /\ Len(s) \in Nat
    BY Sequences
  <1>4. Len(t) = Len(s)
    <2>1. t = [k \in 1 .. Len(s) |-> t[k]]
      BY <1>3
    <2> QED BY <1>3, <2>1, ListOf
  <1>5. ASSUME NEW k \in 1 .. Len(s) PROVE Range(t[k]) \subseteq Range(s)
    <2>1. t[k] = <<>> \/ t[k] = <<s[k]>>
      BY <1>3
    <2>2. s[k] \in Range(s)
      BY <1>3 DEF Range
    <2> QED BY <2>1, <2>2, Elems
  <1> QED BY <1>1, <1>2, <1>4, <1>5, StrungIsList

\* A list over changes is a record.
LEMMA OverChanges ==
    ASSUME NEW C, \A c \in C : IsChange(c), NEW s \in Seq(C)
    PROVE  IsRecord(s) /\ IsSeq(s) /\ Range(s) \subseteq C
  <1>1. IsSeq(s)
    BY Zenon DEF IsSeq
  <1>2. \A k \in 1 .. Len(s) : s[k] \in C
    OBVIOUS
  <1>3. Range(s) = {s[n] : n \in 1 .. Len(s)}
    BY <1>1, ElemsOf
  <1> QED BY <1>1, <1>2, <1>3, Records

\* What is kept is a record.
LEMMA KeptIsRecord ==
    ASSUME NEW D, NEW s, IsRecord(s)
    PROVE  IsRecord(Kept(D, s))
  BY KeptElems, RecordElems

\* Rerunning keeps a store a store.
LEMMA RerunIsStore ==
    ASSUME NEW store, IsStore(store), NEW D, NEW s, IsRecord(s)
    PROVE  IsStore(Rerun(store, D, s))
  BY KeptIsRecord, ApplyRecordKeeps DEF Rerun

\* Nothing is skipped when nothing is held.
LEMMA RerunAll ==
    ASSUME NEW store, NEW s, IsRecord(s)
    PROVE  Rerun(store, {}, s) = ApplyRecord(store, s)
  <1> PICK C : C = Range(s)
    OBVIOUS
  <1>1. s \in Seq(C) /\ \A c \in C : IsChange(c)
    BY RecordElems, ElemsOf
  <1> DEFINE W == {v \in Seq(C) : Rerun(store, {}, v) = ApplyRecord(store, v)}
  <1>2. <<>> \in W
    BY RerunNone, RunNone
  <1>3. ASSUME NEW v \in Seq(C), v \in W, NEW c \in C PROVE Append(v, c) \in W
    <2>1. IsSeq(v) /\ Append(v, c) \in Seq(C)
      BY <1>1, OverChanges
    <2>2. ~Skipped({}, c)
      BY DEF Skipped
    <2>3. Rerun(store, {}, Append(v, c)) = Apply(Rerun(store, {}, v), c)
      BY <2>1, <2>2, RerunOne
    <2>4. ApplyRecord(store, Append(v, c)) = Apply(ApplyRecord(store, v), c)
      BY <2>1, RunOne
    <2>5. Rerun(store, {}, v) = ApplyRecord(store, v)
      BY <1>3
    <2> QED BY <2>1, <2>3, <2>4, <2>5
  <1> HIDE DEF W
  <1>4. s \in W
    BY <1>1, <1>2, <1>3, ListInduction
  <1> QED BY <1>4 DEF W

\* Rerunning two lists is rerunning one after the other.
LEMMA RerunJoined ==
    ASSUME NEW store, NEW D, NEW s, NEW t, IsSeq(s), IsSeq(t)
    PROVE  Rerun(store, D, s \o t) = Rerun(Rerun(store, D, s), D, t)
  <1> PICK C : t \in Seq(C)
    BY DEF IsSeq
  <1> DEFINE W == {v \in Seq(C) : Rerun(store, D, s \o v) = Rerun(Rerun(store, D, s), D, v)}
  <1>1. <<>> \in W
    BY RerunNone, NoneAdded
  <1>2. ASSUME NEW v \in Seq(C), v \in W, NEW c \in C PROVE Append(v, c) \in W
    <2>1. IsSeq(v)
      BY Zenon DEF IsSeq
    <2>2. IsSeq(s \o v) /\ s \o Append(v, c) = Append(s \o v, c)
      BY <2>1, OneAdded, Concatenated
    <2>3. Rerun(store, D, s \o Append(v, c)) =
             IF Skipped(D, c) THEN Rerun(store, D, s \o v) ELSE Apply(Rerun(store, D, s \o v), c)
      BY <2>2, RerunOne
    <2> PICK u : u = Rerun(store, D, s)
      OBVIOUS
    <2>4. Rerun(u, D, Append(v, c))
            = IF Skipped(D, c) THEN Rerun(u, D, v) ELSE Apply(Rerun(u, D, v), c)
      BY <2>1, RerunOne
    <2>5. Rerun(store, D, s \o v) = Rerun(u, D, v)
      BY <1>2
    <2>6. Append(v, c) \in Seq(C)
      OBVIOUS
    <2> QED BY <2>3, <2>4, <2>5, <2>6
  <1> HIDE DEF W
  <1>3. t \in W
    BY <1>1, <1>2, ListInduction
  <1> QED BY <1>3 DEF W

\* Two stores that hold the same for a resource still do after replaying the
\* same, when the same changes of the resource are skipped.
LEMMA RerunAgree ==
    ASSUME NEW s1, NEW s2, IsStore(s1), IsStore(s2), NEW s, IsRecord(s), NEW r,
           NEW D1, NEW D2,
           \A c \in Range(s) : c.res = r => (Skipped(D1, c) <=> Skipped(D2, c)),
           Agree(s1, s2, r)
    PROVE  Agree(Rerun(s1, D1, s), Rerun(s2, D2, s), r)
  <1> PICK C : C = Range(s)
    OBVIOUS
  <1>1. s \in Seq(C) /\ \A c \in C : IsChange(c)
    BY RecordElems, ElemsOf
  <1> DEFINE W == {v \in Seq(C) : Agree(Rerun(s1, D1, v), Rerun(s2, D2, v), r)}
  <1>2. <<>> \in W
    BY RerunNone
  <1>3. ASSUME NEW v \in Seq(C), v \in W, NEW c \in C PROVE Append(v, c) \in W
    <2>1. IsSeq(v) /\ Append(v, c) \in Seq(C) /\ IsRecord(v) /\ IsChange(c)
      BY <1>1, OverChanges
    <2> PICK u1, u2 : u1 = Rerun(s1, D1, v) /\ u2 = Rerun(s2, D2, v)
      OBVIOUS
    <2>2. IsStore(u1) /\ IsStore(u2) /\ Agree(u1, u2, r)
      BY <1>3, <2>1, RerunIsStore
    <2> PICK w1, w2 : w1 = Rerun(s1, D1, Append(v, c)) /\ w2 = Rerun(s2, D2, Append(v, c))
      OBVIOUS
    <2>3. /\ w1 = IF Skipped(D1, c) THEN u1 ELSE Apply(u1, c)
          /\ w2 = IF Skipped(D2, c) THEN u2 ELSE Apply(u2, c)
      BY <2>1, RerunOne
    <2>4. Agree(w1, w2, r)
      <3>1. CASE Skipped(D1, c) /\ Skipped(D2, c)
        BY <2>2, <2>3, <3>1
      <3>2. CASE ~Skipped(D1, c) /\ ~Skipped(D2, c)
        BY <2>1, <2>2, <2>3, <3>2, AgreeSteps
      <3>3. CASE c.res # r
        <4>1. /\ r \in DOMAIN w1 <=> r \in DOMAIN u1
              /\ r \in DOMAIN u1 => w1[r] = u1[r]
              /\ r \in DOMAIN w2 <=> r \in DOMAIN u2
              /\ r \in DOMAIN u2 => w2[r] = u2[r]
          BY <2>1, <2>2, <2>3, <3>3, AppliedElsewhere
        <4> QED BY <2>2, <4>1 DEF Agree
      <3>4. c \in Range(s)
        OBVIOUS
      <3> QED BY <3>1, <3>2, <3>3, <3>4
    <2> QED BY <2>1, <2>4
  <1> HIDE DEF W
  <1>4. s \in W
    BY <1>1, <1>2, <1>3, ListInduction
  <1> QED BY <1>4 DEF W

\* A resource nothing is about stays as it was.
LEMMA RerunElsewhere ==
    ASSUME NEW store, IsStore(store), NEW s, IsRecord(s), NEW D, NEW r,
           \A c \in Range(s) : c.res # r
    PROVE  LET u == Rerun(store, D, s)
           IN  /\ r \in DOMAIN u <=> r \in DOMAIN store
               /\ r \in DOMAIN store => u[r] = store[r]
  <1> PICK C : C = Range(s)
    OBVIOUS
  <1>1. s \in Seq(C) /\ \A c \in C : IsChange(c)
    BY RecordElems, ElemsOf
  <1> DEFINE W == {v \in Seq(C) : /\ r \in DOMAIN Rerun(store, D, v) <=> r \in DOMAIN store
                                  /\ r \in DOMAIN store => Rerun(store, D, v)[r] = store[r]}
  <1>2. <<>> \in W
    BY RerunNone
  <1>3. ASSUME NEW v \in Seq(C), v \in W, NEW c \in C PROVE Append(v, c) \in W
    <2>1. IsSeq(v) /\ Append(v, c) \in Seq(C) /\ IsRecord(v) /\ IsChange(c) /\ r # c.res
      BY <1>1, OverChanges
    <2> PICK u : u = Rerun(store, D, v)
      OBVIOUS
    <2>2. IsStore(u) /\ (r \in DOMAIN u <=> r \in DOMAIN store)
          /\ (r \in DOMAIN store => u[r] = store[r])
      BY <1>3, <2>1, RerunIsStore
    <2> PICK w : w = Rerun(store, D, Append(v, c))
      OBVIOUS
    <2>3. w = IF Skipped(D, c) THEN u ELSE Apply(u, c)
      BY <2>1, RerunOne
    <2>4. (r \in DOMAIN w <=> r \in DOMAIN u) /\ (r \in DOMAIN u => w[r] = u[r])
      BY <2>1, <2>2, <2>3, AppliedElsewhere
    <2> QED BY <2>1, <2>2, <2>4
  <1> HIDE DEF W
  <1>4. s \in W
    BY <1>1, <1>2, <1>3, ListInduction
  <1> QED BY <1>4 DEF W

\* A resource that is not there is not there until it is created.
LEMMA RerunAbsent ==
    ASSUME NEW store, IsStore(store), NEW s, IsRecord(s), NEW D, NEW r,
           r \notin DOMAIN store,
           \A c \in Range(s) : ~ (c.op = "create" /\ c.res = r)
    PROVE  r \notin DOMAIN Rerun(store, D, s)
  <1> PICK C : C = Range(s)
    OBVIOUS
  <1>1. s \in Seq(C) /\ \A c \in C : IsChange(c)
    BY RecordElems, ElemsOf
  <1> DEFINE W == {v \in Seq(C) : r \notin DOMAIN Rerun(store, D, v)}
  <1>2. <<>> \in W
    BY RerunNone
  <1>3. ASSUME NEW v \in Seq(C), v \in W, NEW c \in C PROVE Append(v, c) \in W
    <2>1. IsSeq(v) /\ Append(v, c) \in Seq(C) /\ IsRecord(v) /\ IsChange(c)
          /\ ~ (c.op = "create" /\ c.res = r)
      BY <1>1, OverChanges
    <2> PICK u : u = Rerun(store, D, v)
      OBVIOUS
    <2>2. IsStore(u) /\ r \notin DOMAIN u
      BY <1>3, <2>1, RerunIsStore
    <2>3. Rerun(store, D, Append(v, c)) = IF Skipped(D, c) THEN u ELSE Apply(u, c)
      BY <2>1, RerunOne
    <2>4. r \notin DOMAIN Apply(u, c)
      <3>1. CASE c.res # r
        BY <2>1, <2>2, <3>1, AppliedElsewhere
      <3>2. CASE c.res = r
        BY <2>1, <2>2, <3>2, AppliedThere
      <3> QED BY <3>1, <3>2
    <2> QED BY <2>1, <2>2, <2>3, <2>4
  <1> HIDE DEF W
  <1>4. s \in W
    BY <1>1, <1>2, <1>3, ListInduction
  <1> QED BY <1>4 DEF W

-------------------------------------------------------------------------------
(* The order in which a log mentions an interval.                           *)

\* An addition is the first change about its interval, for the intervals the
\* collector keeps.
LiveIds == Ids \ PastIds
Mentions(c, i) == Interval(c) /\ c.id = i
FirstMention(s) ==
    \A k \in 1 .. Len(s) : s[k].op = "add" /\ s[k].id \in LiveIds =>
        \A j \in 1 .. Len(s) : j < k => ~Mentions(s[j], s[k].id)

\* None of the additions of t is about an interval that s is about.
NewIn(s, t) ==
    \A c \in Range(t) : c.op = "add" /\ c.id \in LiveIds =>
        \A d \in Range(s) : ~Mentions(d, c.id)

\* No change mentions nothing.
LEMMA FirstNone == FirstMention(<<>>)
  BY DEF FirstMention

\* Two lists mention first, as one list.
LEMMA FirstJoined ==
    ASSUME NEW s, NEW t, IsSeq(s), IsSeq(t)
    PROVE  FirstMention(s \o t) <=> FirstMention(s) /\ FirstMention(t) /\ NewIn(s, t)
  <1> PICK u : u = s \o t
    OBVIOUS
  <1> PICK m, n : m = Len(s) /\ n = Len(t)
    OBVIOUS
  <1>1. /\ IsSeq(u) /\ Len(u) = m + n /\ m \in Nat /\ n \in Nat
        /\ \A k \in 1 .. m : u[k] = s[k]
        /\ \A k \in 1 .. n : u[m + k] = t[k]
    BY Concatenated, Sequences
  <1>2. Range(s) = {s[k] : k \in 1 .. m} /\ Range(t) = {t[k] : k \in 1 .. n}
    BY ElemsOf
  <1>3. /\ \A k \in 1 .. m : k \in 1 .. m + n
        /\ \A k \in 1 .. n : m + k \in 1 .. m + n
        /\ \A k \in 1 .. m + n : k \in 1 .. m \/ (k - m \in 1 .. n /\ m + (k - m) = k)
        /\ \A k \in 1 .. m, l \in 1 .. n : k < m + l
        /\ \A k \in 1 .. n, l \in 1 .. n : k < l <=> m + k < m + l
        /\ \A k \in 1 .. m, l \in 1 .. n : ~ (m + l < k)
    BY <1>1
  <1>4. ASSUME FirstMention(u) PROVE FirstMention(s) /\ FirstMention(t) /\ NewIn(s, t)
    <2>1. FirstMention(s)
      <3> SUFFICES ASSUME NEW k \in 1 .. m, s[k].op = "add", s[k].id \in LiveIds,
                          NEW j \in 1 .. m, j < k
                   PROVE  ~Mentions(s[j], s[k].id)
        BY DEF FirstMention
      <3>1. u[k] = s[k] /\ u[j] = s[j] /\ k \in 1 .. m + n /\ j \in 1 .. m + n
        BY <1>1, <1>3
      <3> QED BY <1>1, <1>4, <3>1 DEF FirstMention
    <2>2. FirstMention(t)
      <3> SUFFICES ASSUME NEW k \in 1 .. n, t[k].op = "add", t[k].id \in LiveIds,
                          NEW j \in 1 .. n, j < k
                   PROVE  ~Mentions(t[j], t[k].id)
        BY DEF FirstMention
      <3>1. u[m + k] = t[k] /\ u[m + j] = t[j] /\ m + k \in 1 .. m + n /\ m + j \in 1 .. m + n
            /\ m + j < m + k
        BY <1>1, <1>3
      <3> QED BY <1>1, <1>4, <3>1 DEF FirstMention
    <2>3. NewIn(s, t)
      <3> SUFFICES ASSUME NEW k \in 1 .. n, t[k].op = "add", t[k].id \in LiveIds,
                          NEW j \in 1 .. m
                   PROVE  ~Mentions(s[j], t[k].id)
        BY <1>2 DEF NewIn
      <3>1. u[m + k] = t[k] /\ u[j] = s[j] /\ m + k \in 1 .. m + n /\ j \in 1 .. m + n
            /\ j < m + k
        BY <1>1, <1>3
      <3> QED BY <1>1, <1>4, <3>1 DEF FirstMention
    <2> QED BY <2>1, <2>2, <2>3
  <1>5. ASSUME FirstMention(s), FirstMention(t), NewIn(s, t) PROVE FirstMention(u)
    <2> SUFFICES ASSUME NEW k \in 1 .. m + n, u[k].op = "add", u[k].id \in LiveIds,
                        NEW j \in 1 .. m + n, j < k
                 PROVE  ~Mentions(u[j], u[k].id)
      BY <1>1 DEF FirstMention
    <2>1. CASE k \in 1 .. m
      <3>1. j \in 1 .. m
        BY <1>1, <2>1
      <3>2. u[k] = s[k] /\ u[j] = s[j]
        BY <1>1, <2>1, <3>1
      <3> QED BY <1>5, <2>1, <3>1, <3>2 DEF FirstMention
    <2>2. CASE k - m \in 1 .. n /\ m + (k - m) = k
      <3> PICK l : l = k - m
        OBVIOUS
      <3>1. l \in 1 .. n /\ u[k] = t[l]
        BY <1>1, <2>2
      <3>2. CASE j \in 1 .. m
        <4>1. u[j] = s[j] /\ s[j] \in Range(s) /\ t[l] \in Range(t)
          BY <1>1, <1>2, <3>1, <3>2
        <4> QED BY <1>5, <3>1, <4>1 DEF NewIn
      <3>3. CASE j - m \in 1 .. n /\ m + (j - m) = j
        <4> PICK i : i = j - m
          OBVIOUS
        <4>1. i \in 1 .. n /\ u[j] = t[i] /\ i < l
          BY <1>1, <2>2, <3>1, <3>3
        <4> QED BY <1>5, <3>1, <4>1 DEF FirstMention
      <3> QED BY <1>3, <3>2, <3>3
    <2> QED BY <1>3, <2>1, <2>2
  <1> QED BY <1>4, <1>5

\* One change more.
LEMMA FirstOneMore ==
    ASSUME NEW s, NEW c, IsSeq(s)
    PROVE  FirstMention(Append(s, c)) <=>
             /\ FirstMention(s)
             /\ c.op = "add" /\ c.id \in LiveIds => \A d \in Range(s) : ~Mentions(d, c.id)
  <1>1. Append(s, c) = s \o <<c>> /\ IsSeq(<<c>>) /\ Range(<<c>>) = {c}
    BY OneAdded, ShortLists, Elems
  <1>2. FirstMention(<<c>>)
    <2>1. Len(<<c>>) = 1 /\ \A k, j \in 1 .. 1 : ~ (j < k)
      OBVIOUS
    <2> QED BY <2>1 DEF FirstMention
  <1>3. FirstMention(s \o <<c>>) <=> FirstMention(s) /\ FirstMention(<<c>>) /\ NewIn(s, <<c>>)
    BY <1>1, FirstJoined
  <1>4. NewIn(s, <<c>>) <=>
          (c.op = "add" /\ c.id \in LiveIds => \A d \in Range(s) : ~Mentions(d, c.id))
    BY <1>1 DEF NewIn
  <1> QED BY <1>1, <1>2, <1>3, <1>4

\* What is kept mentions first, too.
LEMMA FirstKept ==
    ASSUME NEW D, NEW s, IsSeq(s), FirstMention(s)
    PROVE  FirstMention(Kept(D, s))
  <1> PICK C : s \in Seq(C)
    BY DEF IsSeq
  <1> DEFINE W == {v \in Seq(C) : FirstMention(v) => FirstMention(Kept(D, v))}
  <1>1. <<>> \in W
    BY KeptNone
  <1>2. ASSUME NEW v \in Seq(C), v \in W, NEW c \in C PROVE Append(v, c) \in W
    <2>1. IsSeq(v)
      BY Zenon DEF IsSeq
    <2>2. /\ IsSeq(Kept(D, v)) /\ Range(Kept(D, v)) \subseteq Range(v)
          /\ Kept(D, Append(v, c)) =
               IF Skipped(D, c) THEN Kept(D, v) ELSE Append(Kept(D, v), c)
      BY <2>1, KeptOne, KeptElems
    <2>3. ASSUME FirstMention(Append(v, c)) PROVE FirstMention(Kept(D, Append(v, c)))
      <3>1. /\ FirstMention(v)
            /\ c.op = "add" /\ c.id \in LiveIds => \A d \in Range(v) : ~Mentions(d, c.id)
        BY <2>1, <2>3, FirstOneMore
      <3>2. FirstMention(Kept(D, v))
        BY <1>2, <3>1
      <3>3. FirstMention(Append(Kept(D, v), c))
        BY <2>2, <3>1, <3>2, FirstOneMore
      <3> QED BY <2>2, <3>2, <3>3
    <2>4. Append(v, c) \in Seq(C)
      OBVIOUS
    <2> QED BY <2>3, <2>4
  <1> HIDE DEF W
  <1>3. s \in W
    BY <1>1, <1>2, ListInduction
  <1> QED BY <1>3 DEF W

-------------------------------------------------------------------------------
(* Where replaying leads a list.                                              *)

\* What replaying s makes of the list of an interval, and of a shape.
Lasting(s) == \A c \in Range(s) : c.op \notin {"create", "delete"}
Leads(s, r, i, K, l, m) ==
    \A store, D : IsStore(store) /\ r \in DOMAIN store
                  /\ store[r].iv[i] = l /\ (i \in D <=> i \in K) =>
        r \in DOMAIN Rerun(store, D, s) /\ Rerun(store, D, s)[r].iv[i] = m
Shapes(s, r, a, b) ==
    \A store, D : IsStore(store) /\ r \in DOMAIN store /\ store[r].shape = a =>
        r \in DOMAIN Rerun(store, D, s) /\ Rerun(store, D, s)[r].shape = b

\* No change leads nowhere.
LEMMA LeadsNone ==
    ASSUME NEW r, NEW i, NEW K, NEW l
    PROVE  Leads(<<>>, r, i, K, l, l) /\ Shapes(<<>>, r, l, l)
  BY RerunNone DEF Leads, Shapes

\* Where one change more leads an interval's list,
LEMMA LeadsOne ==
    ASSUME NEW s, IsRecord(s), NEW c, IsChange(c), c.op \notin {"create", "delete"},
           NEW r, NEW i \in Ids, NEW K, NEW l, NEW m, Leads(s, r, i, K, l, m)
    PROVE  Leads(Append(s, c), r, i, K, l,
                 IF c.res = r /\ Mentions(c, i) /\ ~ (c.op = "add" /\ i \in K)
                 THEN After(c.op, m, c.val) ELSE m)
  <1> PICK n : n = IF c.res = r /\ Mentions(c, i) /\ ~ (c.op = "add" /\ i \in K)
                   THEN After(c.op, m, c.val) ELSE m
    OBVIOUS
  <1> SUFFICES ASSUME NEW store, NEW D, IsStore(store), r \in DOMAIN store,
                      store[r].iv[i] = l, i \in D <=> i \in K
               PROVE  /\ r \in DOMAIN Rerun(store, D, Append(s, c))
                      /\ Rerun(store, D, Append(s, c))[r].iv[i] = n
    BY DEF Leads
  <1> PICK u : u = Rerun(store, D, s)
    OBVIOUS
  <1>1. IsStore(u) /\ r \in DOMAIN u /\ u[r].iv[i] = m
    BY RerunIsStore DEF Leads
  <1> PICK w : w = Rerun(store, D, Append(s, c))
    OBVIOUS
  <1>2. w = IF Skipped(D, c) THEN u ELSE Apply(u, c)
    <2>1. IsSeq(s)
      BY Records
    <2> QED BY <2>1, RerunOne
  <1>3. Skipped(D, c) <=> c.op = "add" /\ c.id \in D
    BY DEF Skipped, Introduces
  <1>4. CASE c.res # r
    BY <1>1, <1>2, <1>4, AppliedElsewhere
  <1>5. CASE c.res = r /\ ~Mentions(c, i)
    <2>1. r \in DOMAIN Apply(u, c) /\ Apply(u, c)[r].iv[i] = u[r].iv[i]
      BY <1>1, <1>5, AppliedThere DEF Mentions
    <2> QED BY <1>1, <1>2, <1>5, <2>1
  <1>6. CASE c.res = r /\ Mentions(c, i)
    <2>1. r \in DOMAIN Apply(u, c) /\ Apply(u, c)[r].iv[i] = After(c.op, m, c.val)
      BY <1>1, <1>6, AppliedThere DEF Mentions
    <2>2. Skipped(D, c) <=> c.op = "add" /\ i \in K
      BY <1>3, <1>6 DEF Mentions
    <2> QED BY <1>1, <1>2, <1>6, <2>1, <2>2
  <1> QED BY <1>4, <1>5, <1>6

\* and a shape.
LEMMA ShapesOne ==
    ASSUME NEW s, IsRecord(s), NEW c, IsChange(c), c.op \notin {"create", "delete"},
           NEW r, NEW a, NEW b, Shapes(s, r, a, b)
    PROVE  Shapes(Append(s, c), r, a, IF c.res = r /\ c.op = "reshape" THEN c.val ELSE b)
  <1> PICK n : n = IF c.res = r /\ c.op = "reshape" THEN c.val ELSE b
    OBVIOUS
  <1> SUFFICES ASSUME NEW store, NEW D, IsStore(store), r \in DOMAIN store,
                      store[r].shape = a
               PROVE  /\ r \in DOMAIN Rerun(store, D, Append(s, c))
                      /\ Rerun(store, D, Append(s, c))[r].shape = n
    BY DEF Shapes
  <1> PICK u : u = Rerun(store, D, s)
    OBVIOUS
  <1>1. IsStore(u) /\ r \in DOMAIN u /\ u[r].shape = b
    BY RerunIsStore DEF Shapes
  <1> PICK w : w = Rerun(store, D, Append(s, c))
    OBVIOUS
  <1>2. w = IF Skipped(D, c) THEN u ELSE Apply(u, c)
    <2>1. IsSeq(s)
      BY Records
    <2> QED BY <2>1, RerunOne
  <1>3. Skipped(D, c) => c.op = "add"
    BY DEF Skipped, Introduces
  <1>4. CASE c.res # r
    BY <1>1, <1>2, <1>4, AppliedElsewhere
  <1>5. CASE c.res = r
    <2>1. r \in DOMAIN Apply(u, c)
          /\ Apply(u, c)[r].shape = IF c.op = "reshape" THEN c.val ELSE u[r].shape
      BY <1>1, <1>5, AppliedThere
    <2> QED BY <1>1, <1>2, <1>3, <1>5, <2>1
  <1> QED BY <1>4, <1>5

\* Nothing of s is about the interval.
LEMMA LeadsUntouched ==
    ASSUME NEW s, IsRecord(s), Lasting(s), NEW r, NEW i \in Ids, NEW K, NEW l,
           \A c \in Range(s) : ~ (c.res = r /\ Mentions(c, i))
    PROVE  Leads(s, r, i, K, l, l)
  <1> PICK C : C = Range(s)
    OBVIOUS
  <1>1. s \in Seq(C) /\ \A c \in C : IsChange(c)
    BY RecordElems, ElemsOf
  <1> DEFINE W == {v \in Seq(C) : Leads(v, r, i, K, l, l)}
  <1>2. <<>> \in W
    BY LeadsNone
  <1>3. ASSUME NEW v \in Seq(C), v \in W, NEW c \in C PROVE Append(v, c) \in W
    <2>1. /\ IsRecord(v) /\ IsChange(c) /\ Append(v, c) \in Seq(C)
          /\ c.op \notin {"create", "delete"} /\ ~ (c.res = r /\ Mentions(c, i))
      BY <1>1, OverChanges DEF Lasting
    <2>2. Leads(v, r, i, K, l, l)
      BY <1>3
    <2>3. Leads(Append(v, c), r, i, K, l,
                 IF c.res = r /\ Mentions(c, i) /\ ~ (c.op = "add" /\ i \in K)
                 THEN After(c.op, l, c.val) ELSE l)
      BY <2>1, <2>2, LeadsOne
    <2> QED BY <2>1, <2>3
  <1> HIDE DEF W
  <1>4. s \in W
    BY <1>1, <1>2, <1>3, ListInduction
  <1> QED BY <1>4 DEF W

\* A list of one or none stays one when the additions are skipped,
LEMMA LeadsShort ==
    ASSUME NEW s, IsRecord(s), Lasting(s), NEW r, NEW i \in Ids, NEW l, Short(l)
    PROVE  \E m : Short(m) /\ Leads(s, r, i, {i}, l, m)
  <1> PICK C : C = Range(s)
    OBVIOUS
  <1>1. s \in Seq(C) /\ \A c \in C : IsChange(c)
    BY RecordElems, ElemsOf
  <1> DEFINE W == {v \in Seq(C) : \E m : Short(m) /\ Leads(v, r, i, {i}, l, m)}
  <1>2. <<>> \in W
    BY LeadsNone
  <1>3. ASSUME NEW v \in Seq(C), v \in W, NEW c \in C PROVE Append(v, c) \in W
    <2>1. /\ IsRecord(v) /\ IsChange(c) /\ Append(v, c) \in Seq(C)
          /\ c.op \notin {"create", "delete"}
      BY <1>1, OverChanges DEF Lasting
    <2>2. PICK m : Short(m) /\ Leads(v, r, i, {i}, l, m)
      BY <1>3
    <2> PICK n : n = IF c.res = r /\ Mentions(c, i) /\ ~ (c.op = "add" /\ i \in {i})
                 THEN After(c.op, m, c.val) ELSE m
      OBVIOUS
    <2>3. Leads(Append(v, c), r, i, {i}, l, n)
      BY <2>1, <2>2, LeadsOne
    <2>4. Short(n)
      <3>1. Interval(c) /\ c.op # "add" => c.op = "update" \/ c.op = "remove"
        BY DEF Interval
      <3> QED BY <2>2, <3>1, AfterShort, ShortFacts DEF Mentions
    <2> QED BY <2>1, <2>3, <2>4
  <1> HIDE DEF W
  <1>4. s \in W
    BY <1>1, <1>2, <1>3, ListInduction
  <1> QED BY <1>4 DEF W

\* or when an addition is the first of its interval.
LEMMA LeadsFresh ==
    ASSUME NEW s, IsRecord(s), Lasting(s), FirstMention(s), NEW r, NEW i \in LiveIds
    PROVE  \E m : Short(m) /\ Leads(s, r, i, {}, <<>>, m)
  <1> PICK C : C = Range(s)
    OBVIOUS
  <1>1. s \in Seq(C) /\ \A c \in C : IsChange(c)
    BY RecordElems, ElemsOf
  <1>0. i \in Ids
    BY DEF LiveIds
  <1> DEFINE W == {v \in Seq(C) : FirstMention(v) =>
                      \E m : Short(m) /\ Leads(v, r, i, {}, <<>>, m)}
  <1>2. <<>> \in W
    <2>1. Leads(<<>>, r, i, {}, <<>>, <<>>)
      BY LeadsNone
    <2>2. Short(<<>>) /\ <<>> \in Seq(C)
      BY DEF Short
    <2> QED BY <2>1, <2>2
  <1>3. ASSUME NEW v \in Seq(C), v \in W, NEW c \in C PROVE Append(v, c) \in W
    <2>1. /\ IsRecord(v) /\ IsSeq(v) /\ IsChange(c) /\ Append(v, c) \in Seq(C)
          /\ c.op \notin {"create", "delete"} /\ Lasting(v)
      BY <1>1, OverChanges DEF Lasting
    <2>2. SUFFICES ASSUME FirstMention(Append(v, c))
                   PROVE  \E m : Short(m) /\ Leads(Append(v, c), r, i, {}, <<>>, m)
      BY <2>1
    <2>3. /\ FirstMention(v)
          /\ c.op = "add" /\ c.id \in LiveIds => \A d \in Range(v) : ~Mentions(d, c.id)
      BY <2>1, <2>2, FirstOneMore
    <2>4. PICK m : Short(m) /\ Leads(v, r, i, {}, <<>>, m)
      BY <1>3, <2>3
    <2>5. CASE c.op = "add" /\ c.res = r /\ Mentions(c, i)
      <3>1. Leads(v, r, i, {}, <<>>, <<>>)
        BY <1>0, <2>1, <2>3, <2>5, LeadsUntouched DEF Mentions
      <3>2. Leads(Append(v, c), r, i, {}, <<>>,
                 IF c.res = r /\ Mentions(c, i) /\ ~ (c.op = "add" /\ i \in {})
                 THEN After(c.op, <<>>, c.val) ELSE <<>>)
        BY <1>0, <2>1, <3>1, LeadsOne
      <3>3. Leads(Append(v, c), r, i, {}, <<>>, <<c.val>>)
        BY <2>5, <3>2, AfterShort, ShortFacts
      <3> QED BY <3>3, AfterShort, ShortFacts
    <2>6. CASE ~ (c.op = "add" /\ c.res = r /\ Mentions(c, i))
      <3> PICK n : n = IF c.res = r /\ Mentions(c, i) /\ ~ (c.op = "add" /\ i \in {})
                 THEN After(c.op, m, c.val) ELSE m
        OBVIOUS
      <3>1. Leads(Append(v, c), r, i, {}, <<>>, n)
        BY <1>0, <2>1, <2>4, LeadsOne
      <3>2. Short(n)
        <4>1. Interval(c) /\ c.op # "add" => c.op = "update" \/ c.op = "remove"
          BY DEF Interval
        <4> QED BY <2>4, <2>6, <4>1, AfterShort, ShortFacts DEF Mentions
      <3> QED BY <3>1, <3>2
    <2> QED BY <2>5, <2>6
  <1> HIDE DEF W
  <1>4. s \in W
    BY <1>1, <1>2, <1>3, ListInduction
  <1> QED BY <1>4 DEF W

\* A shape ends somewhere.
LEMMA ShapesTo ==
    ASSUME NEW s, IsRecord(s), Lasting(s), NEW r, NEW a
    PROVE  \E b : Shapes(s, r, a, b)
  <1> PICK C : C = Range(s)
    OBVIOUS
  <1>1. s \in Seq(C) /\ \A c \in C : IsChange(c)
    BY RecordElems, ElemsOf
  <1> DEFINE W == {v \in Seq(C) : \E b : Shapes(v, r, a, b)}
  <1>2. <<>> \in W
    BY LeadsNone
  <1>3. ASSUME NEW v \in Seq(C), v \in W, NEW c \in C PROVE Append(v, c) \in W
    <2>1. /\ IsRecord(v) /\ IsChange(c) /\ Append(v, c) \in Seq(C)
          /\ c.op \notin {"create", "delete"}
      BY <1>1, OverChanges DEF Lasting
    <2>2. PICK b : Shapes(v, r, a, b)
      BY <1>3
    <2>3. Shapes(Append(v, c), r, a, IF c.res = r /\ c.op = "reshape" THEN c.val ELSE b)
      BY <2>1, <2>2, ShapesOne
    <2> QED BY <2>1, <2>3
  <1> HIDE DEF W
  <1>4. s \in W
    BY <1>1, <1>2, <1>3, ListInduction
  <1> QED BY <1>4 DEF W

-------------------------------------------------------------------------------
(* Replaying the recording on what it led to.                              *)

\* The additions to a list are skipped when it has something.
Skips(i, l) == IF l = <<>> THEN {} ELSE {i}
\* Replaying s on store, without the additions store has, leads back to store:
\* what a compaction's recording does to a snapshot that was taken late.
Idem(s, store) ==
    /\ Lasting(s)
    /\ \A r \in DOMAIN store :
          /\ Shapes(s, r, store[r].shape, store[r].shape)
          /\ \A i \in LiveIds :
                Leads(s, r, i, Skips(i, store[r].iv[i]), store[r].iv[i], store[r].iv[i])
AllShort(store) == \A r \in DOMAIN store, i \in LiveIds : Short(store[r].iv[i])

\* One change more, applied to the store as well.
LEMMA IdemOne ==
    ASSUME NEW store, IsStore(store), NEW s, IsRecord(s), Idem(s, store),
           NEW c, IsChange(c), c.op \notin {"create", "delete"},
           FirstMention(Append(s, c)), AllShort(store),
           c.op = "add" /\ c.id \in LiveIds /\ c.res \in DOMAIN store =>
               store[c.res].iv[c.id] = <<>>
    PROVE  Idem(Append(s, c), Apply(store, c))
  <1> PICK new : new = Apply(store, c)
    OBVIOUS
  <1>1. Lasting(Append(s, c))
    <2>1. Range(Append(s, c)) = Range(s) \cup {c}
      BY Records, ElemsOneMore
    <2> QED BY <2>1 DEF Lasting, Idem
  <1>2. IsSeq(s) /\ FirstMention(s)
        /\ (c.op = "add" /\ c.id \in LiveIds => \A d \in Range(s) : ~Mentions(d, c.id))
    BY Records, FirstOneMore
  <1>3. ASSUME NEW r \in DOMAIN new
        PROVE  /\ Shapes(Append(s, c), r, new[r].shape, new[r].shape)
               /\ \A i \in LiveIds :
                    Leads(Append(s, c), r, i, Skips(i, new[r].iv[i]), new[r].iv[i], new[r].iv[i])
    <2>1. r \in DOMAIN store
      <3>1. CASE c.res = r
        BY <3>1, AppliedThere
      <3>2. CASE c.res # r
        BY <3>2, AppliedElsewhere
      <3> QED BY <3>1, <3>2
    <2>2. new[r].shape = IF c.res = r /\ c.op = "reshape" THEN c.val ELSE store[r].shape
      <3>1. CASE c.res = r
        BY <2>1, <3>1, AppliedThere
      <3>2. CASE c.res # r
        BY <2>1, <3>2, AppliedElsewhere
      <3> QED BY <3>1, <3>2
    <2>3. \A i \in Ids : new[r].iv[i] = IF c.res = r /\ Mentions(c, i)
                                        THEN After(c.op, store[r].iv[i], c.val)
                                        ELSE store[r].iv[i]
      <3>1. CASE c.res = r
        BY <2>1, <3>1, AppliedThere DEF Mentions
      <3>2. CASE c.res # r
        BY <2>1, <3>2, AppliedElsewhere
      <3> QED BY <3>1, <3>2
    <2>4. Shapes(Append(s, c), r, new[r].shape, new[r].shape)
      <3>1. CASE c.res = r /\ c.op = "reshape"
        <4>1. PICK b : Shapes(s, r, new[r].shape, b)
          BY ShapesTo DEF Idem
        <4> QED BY <2>2, <3>1, <4>1, ShapesOne
      <3>2. CASE ~ (c.res = r /\ c.op = "reshape")
        <4>1. Shapes(s, r, new[r].shape, new[r].shape)
          BY <2>1, <2>2, <3>2 DEF Idem
        <4>2. Shapes(Append(s, c), r, new[r].shape,
                     IF c.res = r /\ c.op = "reshape" THEN c.val ELSE new[r].shape)
          BY <4>1, ShapesOne
        <4> QED BY <3>2, <4>2
      <3> QED BY <3>1, <3>2
    <2>5. ASSUME NEW i \in LiveIds
          PROVE  Leads(Append(s, c), r, i, Skips(i, new[r].iv[i]), new[r].iv[i], new[r].iv[i])
      <3>0. i \in Ids /\ Short(store[r].iv[i])
        BY <2>1 DEF LiveIds, AllShort
      <3> PICK l : l = store[r].iv[i]
        OBVIOUS
      <3>1. CASE ~ (c.res = r /\ Mentions(c, i))
        <4>1. new[r].iv[i] = l
          BY <2>3, <3>0, <3>1
        <4>2. Leads(s, r, i, Skips(i, l), l, l)
          BY <2>1 DEF Idem
        <4>3. Leads(Append(s, c), r, i, Skips(i, l), l,
                 IF c.res = r /\ Mentions(c, i) /\ ~ (c.op = "add" /\ i \in Skips(i, l))
                 THEN After(c.op, l, c.val) ELSE l)
          BY <3>0, <4>2, LeadsOne
        <4> QED BY <3>1, <4>1, <4>3
      <3>2. CASE c.res = r /\ Mentions(c, i) /\ c.op = "add"
        <4>1. new[r].iv[i] = <<c.val>> /\ <<c.val>> # <<>>
          <5>1. l = <<>>
            BY <2>1, <3>2 DEF Mentions
          <5>2. new[r].iv[i] = After("add", <<>>, c.val)
            BY <2>3, <3>0, <3>2, <5>1
          <5> QED BY <5>2, AfterShort, ShortFacts
        <4>2. Leads(s, r, i, {i}, <<c.val>>, <<c.val>>)
          BY <1>2, <3>0, <3>2, LeadsUntouched DEF Mentions, Idem
        <4>3. Leads(Append(s, c), r, i, {i}, <<c.val>>,
                 IF c.res = r /\ Mentions(c, i) /\ ~ (c.op = "add" /\ i \in {i})
                 THEN After(c.op, <<c.val>>, c.val) ELSE <<c.val>>)
          BY <3>0, <4>2, LeadsOne
        <4>4. Leads(Append(s, c), r, i, {i}, <<c.val>>, <<c.val>>)
          BY <3>2, <4>3
        <4>5. Skips(i, new[r].iv[i]) = {i}
          BY <4>1 DEF Skips
        <4> QED BY <4>1, <4>4, <4>5
      <3>3. CASE c.res = r /\ Mentions(c, i) /\ c.op = "update"
        <4>1. new[r].iv[i] = <<c.val>> /\ <<c.val>> # <<>>
          BY <2>3, <3>0, <3>3, AfterShort, ShortFacts
        <4>2. PICK m : Short(m) /\ Leads(s, r, i, {i}, <<c.val>>, m)
          BY <3>0, AfterShort, ShortFacts, LeadsShort DEF Idem
        <4>3. Leads(Append(s, c), r, i, {i}, <<c.val>>,
                 IF c.res = r /\ Mentions(c, i) /\ ~ (c.op = "add" /\ i \in {i})
                 THEN After(c.op, m, c.val) ELSE m)
          BY <3>0, <4>2, LeadsOne
        <4>4. Leads(Append(s, c), r, i, {i}, <<c.val>>, <<c.val>>)
          BY <3>3, <4>2, <4>3, AfterShort, ShortFacts
        <4>5. Skips(i, new[r].iv[i]) = {i}
          BY <4>1 DEF Skips
        <4> QED BY <4>1, <4>4, <4>5
      <3>4. CASE c.res = r /\ Mentions(c, i) /\ c.op = "remove"
        <4>1. new[r].iv[i] = <<>>
          BY <2>3, <3>0, <3>4, AfterShort, ShortFacts
        <4>2. PICK m : Short(m) /\ Leads(s, r, i, {}, <<>>, m)
          BY <1>2, LeadsFresh DEF Idem
        <4>3. Leads(Append(s, c), r, i, {}, <<>>,
                 IF c.res = r /\ Mentions(c, i) /\ ~ (c.op = "add" /\ i \in {})
                 THEN After(c.op, m, c.val) ELSE m)
          BY <3>0, <4>2, LeadsOne
        <4>4. Leads(Append(s, c), r, i, {}, <<>>, <<>>)
          BY <3>4, <4>2, <4>3, AfterShort, ShortFacts
        <4>5. Skips(i, new[r].iv[i]) = {}
          BY <4>1 DEF Skips
        <4> QED BY <4>1, <4>4, <4>5
      <3>5. Mentions(c, i) => c.op \in {"add", "update", "remove"}
        BY DEF Mentions, Interval
      <3> QED BY <3>1, <3>2, <3>3, <3>4, <3>5
    <2> QED BY <2>4, <2>5
  <1> QED BY <1>1, <1>3 DEF Idem

\* What a log whose additions are first mentions leads to.
LEMMA ShortLogged ==
    ASSUME NEW s, IsRecord(s), FirstMention(s)
    PROVE  LET store == ApplyRecord(Nothing, s)
           IN  /\ IsStore(store) /\ AllShort(store)
               /\ \A r \in DOMAIN store, i \in LiveIds :
                     store[r].iv[i] # <<>> => \E c \in Range(s) : Mentions(c, i)
  <1> PICK C : C = Range(s)
    OBVIOUS
  <1>1. s \in Seq(C) /\ \A c \in C : IsChange(c)
    BY RecordElems, ElemsOf
  <1> DEFINE Good(v) == LET store == ApplyRecord(Nothing, v)
                        IN  \A r \in DOMAIN store, i \in LiveIds :
                               /\ Short(store[r].iv[i])
                               /\ store[r].iv[i] # <<>> => \E c \in Range(v) : Mentions(c, i)
  <1> DEFINE W == {v \in Seq(C) : FirstMention(v) => Good(v)}
  <1>0. IsStore(Nothing) /\ DOMAIN Nothing = {}
    <2>1. IsStore(Nothing)
      BY EmptyLine, ReplayIsStore
    <2>2. DOMAIN Nothing = {}
      BY DEF Nothing
    <2> QED BY <2>1, <2>2
  <1>2. <<>> \in W
    <2>1. ApplyRecord(Nothing, <<>>) = Nothing
      BY RunNone
    <2> QED BY <1>0, <2>1
  <1>3. ASSUME NEW v \in Seq(C), v \in W, NEW c \in C PROVE Append(v, c) \in W
    <2>1. IsRecord(v) /\ IsSeq(v) /\ IsChange(c) /\ Append(v, c) \in Seq(C)
          /\ Range(Append(v, c)) = Range(v) \cup {c}
      BY <1>1, OverChanges, ElemsOneMore
    <2>2. SUFFICES ASSUME FirstMention(Append(v, c)) PROVE Good(Append(v, c))
      BY <2>1
    <2>3. /\ FirstMention(v)
          /\ c.op = "add" /\ c.id \in LiveIds => \A d \in Range(v) : ~Mentions(d, c.id)
      BY <2>1, <2>2, FirstOneMore
    <2> PICK u : u = ApplyRecord(Nothing, v)
      OBVIOUS
    <2> PICK w : w = ApplyRecord(Nothing, Append(v, c))
      OBVIOUS
    <2>4. w = Apply(u, c) /\ IsStore(u)
      BY <1>0, <2>1, RunOne, ApplyRecordKeeps
    <2>5. \A r \in DOMAIN u, i \in LiveIds :
             /\ Short(u[r].iv[i])
             /\ u[r].iv[i] # <<>> => \E d \in Range(v) : Mentions(d, i)
      BY <1>3, <2>3
    <2>6. ASSUME NEW r \in DOMAIN w, NEW i \in LiveIds
          PROVE  /\ Short(w[r].iv[i])
                 /\ w[r].iv[i] # <<>> => \E d \in Range(v) \cup {c} : Mentions(d, i)
      <3>0. i \in Ids
        BY DEF LiveIds
      <3>1. CASE c.res # r
        <4>1. r \in DOMAIN u /\ w[r] = u[r]
          BY <2>1, <2>4, <3>1, AppliedElsewhere
        <4> QED BY <2>5, <4>1
      <3>2. CASE c.res = r /\ c.op = "create"
        <4>1. w[r].iv[i] = <<>>
          BY <2>1, <2>4, <3>0, <3>2, AppliedThere
        <4> QED BY <4>1, AfterShort, ShortFacts
      <3>3. CASE c.res = r /\ c.op \notin {"create", "delete"}
        <4>1. /\ r \in DOMAIN u
              /\ w[r].iv[i] = IF Mentions(c, i) THEN After(c.op, u[r].iv[i], c.val)
                              ELSE u[r].iv[i]
          BY <2>1, <2>4, <3>0, <3>3, AppliedThere DEF Mentions
        <4>2. CASE ~Mentions(c, i)
          BY <2>5, <4>1, <4>2
        <4>3. CASE Mentions(c, i)
          <5>1. Short(u[r].iv[i]) /\ (c.op = "add" => u[r].iv[i] = <<>>)
            BY <2>3, <2>5, <4>1, <4>3 DEF Mentions
          <5>2. c.op \in {"add", "update", "remove"}
            BY <4>3 DEF Mentions, Interval
          <5>3. Short(w[r].iv[i])
            BY <4>1, <4>3, <5>1, <5>2, AfterShort, ShortFacts
          <5> QED BY <4>3, <5>3
        <4> QED BY <4>2, <4>3
      <3>4. ~ (c.res = r /\ c.op = "delete")
        BY <2>1, <2>4, AppliedThere
      <3> QED BY <3>1, <3>2, <3>3, <3>4
    <2> QED BY <2>1, <2>6
  <1> HIDE DEF W
  <1>4. s \in W
    BY <1>1, <1>2, <1>3, ListInduction
  <1>5. Good(s)
    BY <1>4 DEF W
  <1> QED BY <1>0, <1>5, ApplyRecordKeeps DEF AllShort

\* The changes of a new record.
LEMMA IdemExtends ==
    ASSUME NEW f, NEW s, NEW t, IsRecord(f), IsRecord(s), IsRecord(t),
           FirstMention(f \o t), FirstMention(s \o t), Lasting(t),
           Idem(s, ApplyRecord(Nothing, f))
    PROVE  Idem(s \o t, ApplyRecord(Nothing, f \o t))
  <1> PICK C : C = Range(t)
    OBVIOUS
  <1>1. t \in Seq(C) /\ \A c \in C : IsChange(c) /\ c.op \notin {"create", "delete"}
    BY RecordElems, ElemsOf DEF Lasting
  <1> DEFINE W == {v \in Seq(C) : FirstMention(f \o v) /\ FirstMention(s \o v) =>
                      Idem(s \o v, ApplyRecord(Nothing, f \o v))}
  <1>0. IsSeq(f) /\ IsSeq(s) /\ IsSeq(t)
    BY Records
  <1>2. <<>> \in W
    <2>1. f \o <<>> = f /\ s \o <<>> = s
      BY <1>0, NoneAdded
    <2> QED BY <2>1
  <1>3. ASSUME NEW v \in Seq(C), v \in W, NEW c \in C PROVE Append(v, c) \in W
    <2>1. IsRecord(v) /\ IsSeq(v) /\ IsChange(c) /\ Append(v, c) \in Seq(C)
          /\ c.op \notin {"create", "delete"}
      BY <1>1, OverChanges
    <2> PICK g, u : g = f \o v /\ u = s \o v
      OBVIOUS
    <2>2. /\ f \o Append(v, c) = Append(g, c) /\ s \o Append(v, c) = Append(u, c)
          /\ IsSeq(g) /\ IsSeq(u) /\ IsRecord(g) /\ IsRecord(u)
      <3>1. Range(g) = Range(f) \cup Range(v) /\ Range(u) = Range(s) \cup Range(v)
        BY <1>0, <2>1, ElemsJoined
      <3>2. IsSeq(g) /\ IsSeq(u)
        BY <1>0, <2>1, Concatenated
      <3>3. IsRecord(g) /\ IsRecord(u)
        BY <2>1, <3>1, <3>2, RecordElems
      <3>4. ASSUME NEW a, IsSeq(a) PROVE a \o Append(v, c) = Append(a \o v, c)
        BY ONLY <2>1, <3>4, OneAdded, SMT
      <3> QED BY <1>0, <2>1, <3>2, <3>3, <3>4
    <2>3. SUFFICES ASSUME FirstMention(Append(g, c)), FirstMention(Append(u, c))
                   PROVE  Idem(Append(u, c), ApplyRecord(Nothing, Append(g, c)))
      BY <2>1, <2>2
    <2>4. /\ FirstMention(g) /\ FirstMention(u)
          /\ c.op = "add" /\ c.id \in LiveIds => \A d \in Range(g) : ~Mentions(d, c.id)
      BY <2>2, <2>3, FirstOneMore
    <2> PICK store : store = ApplyRecord(Nothing, g)
      OBVIOUS
    <2>5. Idem(u, store)
      BY <1>3, <2>4
    <2>6. /\ IsStore(store) /\ AllShort(store)
          /\ \A r \in DOMAIN store, i \in LiveIds :
                store[r].iv[i] # <<>> => \E d \in Range(g) : Mentions(d, i)
      BY <2>2, <2>4, ShortLogged
    <2>7. ApplyRecord(Nothing, Append(g, c)) = Apply(store, c)
      BY <2>2, RunOne
    <2>8. c.op = "add" /\ c.id \in LiveIds /\ c.res \in DOMAIN store =>
             store[c.res].iv[c.id] = <<>>
      BY <2>4, <2>6
    <2>9. Idem(Append(u, c), Apply(store, c))
      BY <2>1, <2>2, <2>3, <2>5, <2>6, <2>8, IdemOne
    <2> QED BY <2>7, <2>9
  <1> HIDE DEF W
  <1>4. t \in W
    BY <1>1, <1>2, <1>3, ListInduction
  <1> QED BY <1>4 DEF W

\* A log is a list of lists of changes.
LEMMA LogIsLists ==
    ASSUME NEW s, IsLog(s)
    PROVE  IsLists(s) /\ IsSeq(s) /\ IsRecord(Changes(s)) /\ IsSeq(Changes(s))
  <1>1. IsLists(s)
    BY Logs, Records DEF IsLists
  <1>2. IsRecord(Changes(s))
    BY StrungRecords DEF Changes
  <1> QED BY <1>1, <1>2, Records DEF IsLists

\* The changes of two logs.
LEMMA ChangesJoined ==
    ASSUME NEW s, NEW t, IsLog(s), IsLog(t)
    PROVE  IsLog(s \o t) /\ Changes(s \o t) = Changes(s) \o Changes(t)
  BY LogIsLists, StrungJoined, TwoLogs DEF Changes

\* A log of one change.
LEMMA ChangesOfOne ==
    ASSUME NEW c, IsChange(c)
    PROVE  /\ IsLog(<< <<c>> >>) /\ Changes(<< <<c>> >>) = <<c>>
           /\ \A store : ApplyRecord(store, <<c>>) = Apply(store, c)
  <1>1. IsLists(<<>>) /\ IsSeq(<<>>) /\ IsSeq(<<c>>)
    BY ShortLists DEF IsLists
  <1>2. << <<c>> >> = Append(<<>>, <<c>>) /\ <<c>> = Append(<<>>, c) /\ <<>> \o <<c>> = <<c>>
    OBVIOUS
  <1>3. Changes(<< <<c>> >>) = <<c>>
    BY <1>1, <1>2, StrungOne, NothingStrung DEF Changes
  <1>4. ASSUME NEW store PROVE ApplyRecord(store, <<c>>) = Apply(store, c)
    <2>1. ApplyRecord(store, Append(<<>>, c)) = Apply(ApplyRecord(store, <<>>), c)
      BY <1>1, RunOne
    <2> QED BY <1>2, <2>1, RunNone
  <1> QED BY <1>3, <1>4, OneChange

-------------------------------------------------------------------------------
(* What a snapshot's records build.                                        *)

\* The additions of one interval's list.
Additions(r, i, l) == [n \in DOMAIN l |-> <<Change("add", r, i, l[n])>>]

\* What the additions of one list are,
LEMMA AdditionsAre ==
    ASSUME NEW r \in Resources, NEW i, NEW l, IsSeq(l)
    PROVE  /\ IsLog(Additions(r, i, l))
           /\ \A c \in Range(Changes(Additions(r, i, l))) :
                 c.op = "add" /\ c.res = r /\ c.id = i /\ l # <<>>
           /\ l # <<>> => Change("add", r, i, l[1]) \in Range(Changes(Additions(r, i, l)))
           /\ Short(l) => FirstMention(Changes(Additions(r, i, l)))
  <1> PICK t : t = Additions(r, i, l)
    OBVIOUS
  <1>1. DOMAIN l = 1 .. Len(l) /\ Len(l) \in Nat
    BY Sequences
  <1>2. t = [n \in 1 .. Len(l) |-> <<Change("add", r, i, l[n])>>]
    BY <1>1 DEF Additions
  <1>3. IsSeq(t) /\ Len(t) = Len(l)
    <2>1. t = [n \in 1 .. Len(l) |-> t[n]]
      BY ONLY <1>2
    <2> QED BY <1>1, <2>1, ListOf
  <1>4. ASSUME NEW n \in 1 .. Len(l)
        PROVE  IsRecord(t[n]) /\ Range(t[n]) = {Change("add", r, i, l[n])}
    <2> PICK c : c = Change("add", r, i, l[n])
      OBVIOUS
    <2>1. IsChange(c)
      BY Made DEF ChangeOps
    <2>2. t[n] = <<c>>
      BY <1>2
    <2> QED BY <2>1, <2>2, OneChange, Elems
  <1>5. IsLog(t) /\ IsLists(t)
    BY <1>3, <1>4, Logs, LogIsLists
  <1>6. Range(Changes(t)) = UNION {Range(t[k]) : k \in 1 .. Len(t)}
    BY <1>5, ElemsStrung DEF Changes
  <1>7. ASSUME NEW c \in Range(Changes(t))
        PROVE  c.op = "add" /\ c.res = r /\ c.id = i /\ l # <<>>
    <2>1. PICK k \in 1 .. Len(t) : c \in Range(t[k])
      BY <1>6
    <2>2. c = Change("add", r, i, l[k]) /\ k \in 1 .. Len(l)
      BY <1>3, <1>4, <2>1
    <2>3. l # <<>>
      BY <2>2
    <2> QED BY <2>2, <2>3 DEF Change
  <1>8. l # <<>> => Change("add", r, i, l[1]) \in Range(Changes(t))
    <2> SUFFICES ASSUME l # <<>> PROVE Change("add", r, i, l[1]) \in Range(Changes(t))
      OBVIOUS
    <2>1. Len(l) # 0
      <3>1. IsSeq(<<>>) /\ Len(<<>>) = 0
        BY ShortLists
      <3> QED BY <3>1, SameList
    <2>2. 1 \in 1 .. Len(t)
      BY <1>1, <1>3, <2>1
    <2> QED BY <1>3, <1>4, <1>6, <2>2
  <1>9. ASSUME Short(l) PROVE FirstMention(Changes(t))
    <2>1. CASE l = <<>>
      <3>1. t = <<>>
        BY <2>1 DEF Additions
      <3> QED BY <3>1, NothingStrung, FirstNone DEF Changes
    <2>2. ASSUME NEW v, l = <<v>> PROVE FirstMention(Changes(t))
      <3> PICK c : c = Change("add", r, i, v)
        OBVIOUS
      <3>1. t = << <<c>> >>
        <4>1. DOMAIN l = 1 .. 1 /\ l[1] = v
          BY <2>2
        <4>2. t = [n \in 1 .. 1 |-> <<c>>]
          BY <4>1 DEF Additions
        <4> QED BY ONLY <4>2
      <3>2. Changes(t) = <<c>>
        <4>1. IsChange(c)
          BY Made DEF ChangeOps
        <4> QED BY <3>1, <4>1, ChangesOfOne
      <3>3. FirstMention(<<c>>)
        <4>1. Len(<<c>>) = 1 /\ \A k, j \in 1 .. 1 : ~ (j < k)
          OBVIOUS
        <4> QED BY <4>1 DEF FirstMention
      <3> QED BY <3>2, <3>3
    <2> QED BY <1>9, <2>1, <2>2 DEF Short
  <1> QED BY <1>5, <1>7, <1>8, <1>9

\* and what they build.
LEMMA AdditionsMake ==
    ASSUME NEW store, IsStore(store), NEW r \in DOMAIN store, NEW i \in Ids,
           store[r].iv[i] = <<>>, NEW l, IsSeq(l)
    PROVE  LET u == ApplyAll(store, Additions(r, i, l))
           IN  /\ IsStore(u) /\ r \in DOMAIN u /\ u[r].shape = store[r].shape
               /\ \A j \in Ids : u[r].iv[j] = IF j = i THEN l ELSE store[r].iv[j]
               /\ \A q : q # r => /\ q \in DOMAIN u <=> q \in DOMAIN store
                                  /\ q \in DOMAIN store => u[q] = store[q]
  <1>0. r \in Resources
    BY Stores
  <1> PICK C : l \in Seq(C)
    BY DEF IsSeq
  <1> DEFINE Good(v) == LET u == ApplyAll(store, Additions(r, i, v))
           IN  /\ IsStore(u) /\ r \in DOMAIN u /\ u[r].shape = store[r].shape
               /\ \A j \in Ids : u[r].iv[j] = IF j = i THEN v ELSE store[r].iv[j]
               /\ \A q : q # r => /\ q \in DOMAIN u <=> q \in DOMAIN store
                                  /\ q \in DOMAIN store => u[q] = store[q]
  <1> DEFINE W == {v \in Seq(C) : Good(v)}
  <1>1. <<>> \in W
    <2>1. Additions(r, i, <<>>) = <<>>
      BY DEF Additions
    <2>2. ApplyAll(store, <<>>) = store
      BY AllNone
    <2> QED BY <2>1, <2>2
  <1>2. ASSUME NEW v \in Seq(C), v \in W, NEW x \in C PROVE Append(v, x) \in W
    <2>1. IsSeq(v) /\ Good(v)
      BY <1>2, Zenon DEF IsSeq
    <2> PICK c, u : c = Change("add", r, i, x) /\ u = ApplyAll(store, Additions(r, i, v))
      OBVIOUS
    <2>2. IsChange(c) /\ c.op = "add" /\ c.res = r /\ c.id = i /\ c.val = x
      BY <1>0, Made DEF ChangeOps, Change
    <2>3. Additions(r, i, Append(v, x)) = Append(Additions(r, i, v), <<c>>)
      <3> PICK w : w = Append(v, x)
        OBVIOUS
      <3>1. /\ Len(v) \in Nat /\ DOMAIN v = 1 .. Len(v) /\ DOMAIN w = 1 .. Len(v) + 1
            /\ w = [n \in 1 .. Len(v) + 1 |-> IF n = Len(v) + 1 THEN x ELSE v[n]]
        BY <2>1, Sequences
      <3> PICK t : t = Additions(r, i, v)
        OBVIOUS
      <3>2. t = [n \in 1 .. Len(v) |-> <<Change("add", r, i, v[n])>>]
        BY <3>1 DEF Additions
      <3>3. IsSeq(t) /\ Len(t) = Len(v)
        <4>1. t = [n \in 1 .. Len(v) |-> t[n]]
          BY ONLY <3>2
        <4> QED BY <3>1, <4>1, ListOf
      <3>4. Append(t, <<c>>) = [n \in 1 .. Len(v) + 1 |-> IF n = Len(v) + 1 THEN <<c>> ELSE t[n]]
        BY <3>3, Sequences
      <3>5. ASSUME NEW n \in 1 .. Len(v) + 1
            PROVE  <<Change("add", r, i, w[n])>> = IF n = Len(v) + 1 THEN <<c>> ELSE t[n]
        <4>1. w[n] = IF n = Len(v) + 1 THEN x ELSE v[n]
          BY <3>1
        <4>2. n # Len(v) + 1 => n \in 1 .. Len(v)
          BY <3>1
        <4> QED BY <3>2, <4>1, <4>2
      <3>6. Additions(r, i, w) = [n \in 1 .. Len(v) + 1 |-> <<Change("add", r, i, w[n])>>]
        BY <3>1 DEF Additions
      <3> QED BY ONLY <3>4, <3>5, <3>6, w = Append(v, x), t = Additions(r, i, v)
    <2>4. ApplyAll(store, Append(Additions(r, i, v), <<c>>)) = Apply(u, c)
      <3>1. IsSeq(Additions(r, i, v))
        BY <1>0, <2>1, AdditionsAre, LogIsLists
      <3>2. ApplyAll(store, Append(Additions(r, i, v), <<c>>)) = ApplyRecord(u, <<c>>)
        BY <3>1, AllOne
      <3> QED BY <2>2, <3>2, ChangesOfOne
    <2> PICK w : w = Apply(u, c)
      OBVIOUS
    <2>5. IsStore(w)
      BY <2>1, <2>2, ApplyKeeps
    <2>6. r \in DOMAIN w /\ w[r].shape = store[r].shape
      BY <2>1, <2>2, AppliedThere
    <2>7. ASSUME NEW j \in Ids
          PROVE  w[r].iv[j] = IF j = i THEN Append(v, x) ELSE store[r].iv[j]
      <3>1. w[r].iv[j] = IF Interval(c) /\ j = c.id THEN After(c.op, u[r].iv[j], c.val) ELSE u[r].iv[j]
        BY <2>1, <2>2, AppliedThere
      <3>2. Interval(c) /\ \A y : After(c.op, y, c.val) = Append(y, x)
        BY <2>2 DEF Interval, After
      <3> QED BY <2>1, <2>2, <3>1, <3>2
    <2>8. ASSUME NEW q, q # r
          PROVE  /\ q \in DOMAIN w <=> q \in DOMAIN store
                 /\ q \in DOMAIN store => w[q] = store[q]
      BY <2>1, <2>2, <2>8, AppliedElsewhere
    <2>9. Good(Append(v, x))
      BY <2>3, <2>4, <2>5, <2>6, <2>7, <2>8
    <2>10. Append(v, x) \in Seq(C)
      OBVIOUS
    <2> HIDE DEF Good
    <2> QED BY <2>9, <2>10
  <1> HIDE DEF W
  <1>3. l \in W
    BY <1>1, <1>2, ListInduction
  <1>4. Good(l)
    BY <1>3 DEF W
  <1> QED BY <1>4

\* No element twice.
Distinct(v) == \A k, n \in 1 .. Len(v) : v[k] = v[n] => k = n

\* One element more is a new one.
LEMMA DistinctOne ==
    ASSUME NEW v, IsSeq(v), NEW x, Distinct(Append(v, x))
    PROVE  Distinct(v) /\ x \notin Range(v)
  <1> PICK w : w = Append(v, x)
    OBVIOUS
  <1>1. /\ Len(v) \in Nat /\ DOMAIN v = 1 .. Len(v) /\ Len(w) = Len(v) + 1
        /\ w = [n \in 1 .. Len(v) + 1 |-> IF n = Len(v) + 1 THEN x ELSE v[n]]
    BY Sequences
  <1>2. /\ w[Len(v) + 1] = x /\ \A n \in 1 .. Len(v) : w[n] = v[n] /\ n # Len(v) + 1
        /\ \A n \in 1 .. Len(v) : n \in 1 .. Len(w)
        /\ Len(v) + 1 \in 1 .. Len(w)
    BY <1>1
  <1>3. \A k, n \in 1 .. Len(w) : w[k] = w[n] => k = n
    BY DEF Distinct
  <1>4. Distinct(v)
    BY <1>2, <1>3 DEF Distinct
  <1>5. \A n \in 1 .. Len(v) : v[n] # x
    BY <1>2, <1>3
  <1> QED BY <1>4, <1>5, ElemsOf

\* The additions of several intervals' lists.
Several(S, r, ids) ==
    FlattenSeq([k \in DOMAIN ids |-> Additions(r, ids[k], S[r].iv[ids[k]])])
ShortAt(S, r) == \A i \in LiveIds : Short(S[r].iv[i])
Empty(store, r) == \A i \in Ids : store[r].iv[i] = <<>>

\* One interval more.
LEMMA SeveralOne ==
    ASSUME NEW S, IsStore(S), NEW r \in DOMAIN S, NEW v \in Seq(Ids), NEW x \in Ids,
           IsLog(Several(S, r, v))
    PROVE  LET t == Several(S, r, v)
               a == Additions(r, x, S[r].iv[x])
               u == Several(S, r, Append(v, x))
           IN  /\ u = t \o a /\ IsLog(a) /\ IsLog(u)
               /\ Changes(u) = Changes(t) \o Changes(a)
  <1>0. IsSeq(v) /\ r \in Resources
    BY Stores, Zenon DEF IsSeq
  <1> PICK g : g = [i \in Ids |-> Additions(r, i, S[r].iv[i])]
    OBVIOUS
  <1> PICK t : t = [k \in DOMAIN v |-> g[v[k]]]
    OBVIOUS
  <1>1. \A i \in Ids : IsLog(g[i])
    <2> SUFFICES ASSUME NEW i \in Ids PROVE IsLog(g[i])
      OBVIOUS
    <2>1. IsSeq(S[r].iv[i])
      BY Lists DEF IsStore
    <2> QED BY <1>0, <2>1, AdditionsAre
  <1> PICK w : w = Append(v, x)
    OBVIOUS
  <1>2. /\ DOMAIN v = 1 .. Len(v) /\ \A k \in 1 .. Len(v) : v[k] \in Ids
        /\ DOMAIN w = 1 .. Len(v) + 1 /\ \A k \in 1 .. Len(v) + 1 : w[k] \in Ids
        /\ Len(v) \in Nat
    OBVIOUS
  <1>3. Several(S, r, v) = FlattenSeq(t)
    <2>1. [k \in DOMAIN v |-> Additions(r, v[k], S[r].iv[v[k]])] = t
      BY <1>2
    <2> QED BY <2>1 DEF Several
  <1> PICK z : z = [k \in DOMAIN w |-> g[w[k]]]
    OBVIOUS
  <1>4. Several(S, r, w) = FlattenSeq(z)
    <2>1. [k \in DOMAIN w |-> Additions(r, w[k], S[r].iv[w[k]])] = z
      BY <1>2
    <2> QED BY <2>1 DEF Several
  <1>5. g[x] = Additions(r, x, S[r].iv[x])
    OBVIOUS
  <1>6. /\ IsSeq(t) /\ Len(t) = Len(v) /\ \A k \in 1 .. Len(v) : t[k] = g[v[k]]
        /\ z = Append(t, g[x])
    <2>1. t = [k \in 1 .. Len(v) |-> t[k]] /\ \A k \in 1 .. Len(v) : t[k] = g[v[k]]
      BY <1>2
    <2>2. z = [k \in 1 .. Len(v) + 1 |-> z[k]] /\ \A k \in 1 .. Len(v) + 1 : z[k] = g[w[k]]
      BY <1>2
    <2>3. IsSeq(t) /\ Len(t) = Len(v)
      BY <1>2, <2>1, ListOf
    <2>4. IsSeq(z) /\ Len(z) = Len(v) + 1
      BY <1>2, <2>2, ListOf
    <2>5. z = Append(t, g[x])
      BY <1>0, <2>1, <2>2, <2>3, <2>4, MappedOne, SMTT(30)
    <2> QED BY <2>1, <2>3, <2>5
  <1>7. IsLists(t) /\ IsSeq(g[x])
    BY <1>1, <1>2, <1>6, LogIsLists DEF IsLists
  <1>8. Several(S, r, w) = Several(S, r, v) \o g[x]
    <2>1. FlattenSeq(Append(t, g[x])) = FlattenSeq(t) \o g[x]
      BY <1>7, StrungOne
    <2> QED BY ONLY <1>3, <1>4, <1>6, <2>1
  <1>9. IsLog(g[x])
    BY <1>1
  <1> QED BY <1>5, <1>8, <1>9, ChangesJoined

\* What the additions of several lists are,
LEMMA SeveralAre ==
    ASSUME NEW S, IsStore(S), NEW r \in DOMAIN S, NEW ids \in Seq(Ids)
    PROVE  LET t == Several(S, r, ids)
           IN  /\ IsLog(t)
               /\ \A c \in Range(Changes(t)) : /\ c.op = "add" /\ c.res = r /\ c.id \in Range(ids)
                                               /\ S[r].iv[c.id] # <<>>
               /\ \A i \in Range(ids) : S[r].iv[i] # <<>> =>
                     \E c \in Range(Changes(t)) : c.op = "add" /\ c.id = i
               /\ Distinct(ids) /\ ShortAt(S, r) => FirstMention(Changes(t))
  <1>0. r \in Resources /\ \A i \in Ids : IsSeq(S[r].iv[i])
    BY Lists DEF IsStore
  <1> DEFINE Good(v) == LET t == Several(S, r, v)
           IN  /\ IsLog(t)
               /\ \A c \in Range(Changes(t)) : /\ c.op = "add" /\ c.res = r /\ c.id \in Range(v)
                                               /\ S[r].iv[c.id] # <<>>
               /\ \A i \in Range(v) : S[r].iv[i] # <<>> =>
                     \E c \in Range(Changes(t)) : c.op = "add" /\ c.id = i
               /\ Distinct(v) /\ ShortAt(S, r) => FirstMention(Changes(t))
  <1> DEFINE W == {v \in Seq(Ids) : Good(v)}
  <1>1. <<>> \in W
    <2>1. Several(S, r, <<>>) = <<>>
      <3>1. [k \in DOMAIN <<>> |-> Additions(r, <<>>[k], S[r].iv[<<>>[k]])] = <<>>
        OBVIOUS
      <3> QED BY <3>1, NothingStrung DEF Several
    <2>2. IsLog(<<>>) /\ Changes(<<>>) = <<>> /\ FirstMention(<<>>) /\ Range(<<>>) = {}
      BY EmptyLine, NothingStrung, FirstNone, Elems DEF Changes
    <2> QED BY <2>1, <2>2
  <1>2. ASSUME NEW v \in Seq(Ids), v \in W, NEW x \in Ids PROVE Append(v, x) \in W
    <2>0. Good(v) /\ IsSeq(v) /\ IsLog(Several(S, r, v))
      <3>1. Good(v)
        BY <1>2
      <3>2. IsSeq(v)
        BY <1>2, Zenon DEF IsSeq
      <3> QED BY <3>1, <3>2
    <2> PICK t, a, u, l : /\ t = Several(S, r, v) /\ a = Additions(r, x, S[r].iv[x])
                          /\ u = Several(S, r, Append(v, x)) /\ l = S[r].iv[x]
      OBVIOUS
    <2>1. IsLog(a) /\ IsLog(u) /\ Changes(u) = Changes(t) \o Changes(a)
      BY <2>0, SeveralOne, ZenonT(60)
    <2>2. Range(Changes(u)) = Range(Changes(t)) \cup Range(Changes(a))
          /\ IsSeq(Changes(t)) /\ IsSeq(Changes(a))
      BY <2>0, <2>1, LogIsLists, ElemsJoined
    <2>3. Range(Append(v, x)) = Range(v) \cup {x}
      BY <2>0, ElemsOneMore
    <2>4. /\ \A c \in Range(Changes(a)) : c.op = "add" /\ c.res = r /\ c.id = x /\ l # <<>>
          /\ l # <<>> => Change("add", r, x, l[1]) \in Range(Changes(a))
          /\ Short(l) => FirstMention(Changes(a))
      BY <1>0, AdditionsAre
    <2>5. \A c \in Range(Changes(u)) : /\ c.op = "add" /\ c.res = r /\ c.id \in Range(Append(v, x))
                                       /\ S[r].iv[c.id] # <<>>
      BY <2>0, <2>2, <2>3, <2>4
    <2>6. ASSUME NEW i \in Range(Append(v, x)), S[r].iv[i] # <<>>
          PROVE  \E c \in Range(Changes(u)) : c.op = "add" /\ c.id = i
      <3>1. CASE i = x
        <4> PICK c : c = Change("add", r, x, l[1])
          OBVIOUS
        <4>1. c \in Range(Changes(u)) /\ c.op = "add" /\ c.id = i
          BY <2>2, <2>4, <2>6, <3>1 DEF Change
        <4> QED BY <4>1
      <3>2. CASE i \in Range(v)
        BY <2>0, <2>2, <2>6, <3>2
      <3> QED BY <2>3, <3>1, <3>2
    <2>7. ASSUME Distinct(Append(v, x)), ShortAt(S, r) PROVE FirstMention(Changes(u))
      <3>1. Distinct(v) /\ x \notin Range(v)
        BY <2>0, <2>7, DistinctOne
      <3>2. FirstMention(Changes(t))
        BY <2>0, <2>7, <3>1
      <3>3. FirstMention(Changes(a))
        <4>1. CASE x \in LiveIds
          BY <2>4, <2>7, <4>1 DEF ShortAt
        <4>2. CASE x \notin LiveIds
          <5>1. \A k \in 1 .. Len(Changes(a)) : Changes(a)[k].id \notin LiveIds
            BY <2>2, <2>4, <4>2, ElemsOf, SMTT(30)
          <5> QED BY <5>1 DEF FirstMention
        <4> QED BY <4>1, <4>2
      <3>4. NewIn(Changes(t), Changes(a))
        BY <2>0, <2>4, <3>1 DEF NewIn, Mentions
      <3> QED BY <2>1, <2>2, <3>2, <3>3, <3>4, FirstJoined
    <2>8. Good(Append(v, x))
      BY <2>1, <2>5, <2>6, <2>7
    <2>9. Append(v, x) \in Seq(Ids)
      BY <1>2
    <2> HIDE DEF Good
    <2> QED BY <2>8, <2>9
  <1> HIDE DEF W
  <1>3. ids \in W
    BY <1>1, <1>2, ListInduction
  <1>4. Good(ids)
    BY <1>3 DEF W
  <1> QED BY <1>4

\* and what they build.
LEMMA SeveralMake ==
    ASSUME NEW S, IsStore(S), NEW r \in DOMAIN S, NEW ids \in Seq(Ids), Distinct(ids),
           NEW store, IsStore(store), r \in DOMAIN store, Empty(store, r)
    PROVE  LET u == ApplyAll(store, Several(S, r, ids))
           IN  /\ IsStore(u) /\ r \in DOMAIN u /\ u[r].shape = store[r].shape
               /\ \A j \in Ids : u[r].iv[j] = IF j \in Range(ids) THEN S[r].iv[j] ELSE <<>>
               /\ \A q : q # r => /\ q \in DOMAIN u <=> q \in DOMAIN store
                                  /\ q \in DOMAIN store => u[q] = store[q]
  <1>0. r \in Resources /\ \A i \in Ids : IsSeq(S[r].iv[i])
    BY Lists DEF IsStore
  <1> DEFINE Good(v) == LET u == ApplyAll(store, Several(S, r, v))
           IN  Distinct(v) =>
               /\ IsStore(u) /\ r \in DOMAIN u /\ u[r].shape = store[r].shape
               /\ \A j \in Ids : u[r].iv[j] = IF j \in Range(v) THEN S[r].iv[j] ELSE <<>>
               /\ \A q : q # r => /\ q \in DOMAIN u <=> q \in DOMAIN store
                                  /\ q \in DOMAIN store => u[q] = store[q]
  <1> DEFINE W == {v \in Seq(Ids) : Good(v)}
  <1>1. <<>> \in W
    <2>1. Several(S, r, <<>>) = <<>>
      <3>1. [k \in DOMAIN <<>> |-> Additions(r, <<>>[k], S[r].iv[<<>>[k]])] = <<>>
        OBVIOUS
      <3> QED BY <3>1, NothingStrung DEF Several
    <2>2. ApplyAll(store, <<>>) = store /\ Range(<<>>) = {}
      BY AllNone, Elems
    <2> QED BY <2>1, <2>2 DEF Empty
  <1>2. ASSUME NEW v \in Seq(Ids), v \in W, NEW x \in Ids PROVE Append(v, x) \in W
    <2>0. Good(v) /\ IsSeq(v)
      <3>1. Good(v)
        BY <1>2
      <3>2. IsSeq(v)
        BY <1>2, Zenon DEF IsSeq
      <3> QED BY <3>1, <3>2
    <2> SUFFICES ASSUME Distinct(Append(v, x)) PROVE Good(Append(v, x)) /\ Append(v, x) \in Seq(Ids)
      BY <1>2
    <2> PICK t, a, u, l : /\ t = Several(S, r, v) /\ a = Additions(r, x, S[r].iv[x])
                          /\ u = ApplyAll(store, t) /\ l = S[r].iv[x]
      OBVIOUS
    <2>1. Several(S, r, Append(v, x)) = t \o a /\ IsLog(t) /\ IsLog(a) /\ IsLog(t \o a)
      <3>1. IsLog(t)
        BY SeveralAre
      <3> QED BY <3>1, SeveralOne
    <2>2. Distinct(v) /\ x \notin Range(v)
      BY <2>0, DistinctOne
    <2>3. /\ IsStore(u) /\ r \in DOMAIN u /\ u[r].shape = store[r].shape
          /\ \A j \in Ids : u[r].iv[j] = IF j \in Range(v) THEN S[r].iv[j] ELSE <<>>
          /\ \A q : q # r => /\ q \in DOMAIN u <=> q \in DOMAIN store
                             /\ q \in DOMAIN store => u[q] = store[q]
      BY <2>0, <2>2
    <2>4. ApplyAll(store, t \o a) = ApplyAll(u, a)
      <3>1. /\ ApplyAll(store, t \o a) = ApplyRecord(store, Changes(t \o a))
            /\ ApplyAll(store, t) = ApplyRecord(store, Changes(t))
            /\ ApplyAll(u, a) = ApplyRecord(u, Changes(a))
            /\ Changes(t \o a) = Changes(t) \o Changes(a)
            /\ IsSeq(Changes(t)) /\ IsSeq(Changes(a))
        BY <2>1, AllIsRun, ChangesJoined, LogIsLists
      <3> QED BY <3>1, RunJoined
    <2> PICK w : w = ApplyAll(u, a)
      OBVIOUS
    <2>5. u[r].iv[x] = <<>>
      BY <2>2, <2>3
    <2>6. /\ IsStore(w) /\ r \in DOMAIN w /\ w[r].shape = u[r].shape
          /\ \A j \in Ids : w[r].iv[j] = IF j = x THEN l ELSE u[r].iv[j]
          /\ \A q : q # r => /\ q \in DOMAIN w <=> q \in DOMAIN u
                             /\ q \in DOMAIN u => w[q] = u[q]
      BY <1>0, <2>3, <2>5, AdditionsMake
    <2>7. Range(Append(v, x)) = Range(v) \cup {x}
      BY <2>0, ElemsOneMore
    <2>8. \A j \in Ids : w[r].iv[j] = IF j \in Range(Append(v, x)) THEN S[r].iv[j] ELSE <<>>
      BY <2>3, <2>6, <2>7
    <2>9. \A q : q # r => /\ q \in DOMAIN w <=> q \in DOMAIN store
                          /\ q \in DOMAIN store => w[q] = store[q]
      BY <2>3, <2>6
    <2>10. Good(Append(v, x))
      BY <2>1, <2>3, <2>4, <2>6, <2>8, <2>9
    <2>11. Append(v, x) \in Seq(Ids)
      BY <1>2
    <2> HIDE DEF Good
    <2> QED BY <2>10, <2>11
  <1> HIDE DEF W
  <1>3. ids \in W
    BY <1>1, <1>2, ListInduction
  <1>4. Good(ids)
    BY <1>3 DEF W
  <1> QED BY <1>4

\* A resource's part of a snapshot.
Block(S, r) == << <<Change("create", r, r, S[r].shape)>> >> \o IntervalRecords(S, r)

\* IdOrder has every id once.
LEMMA AllIds ==
    /\ IdOrder \in Seq(Ids) /\ Distinct(IdOrder) /\ Range(IdOrder) = Ids
    /\ \A S, r : IntervalRecords(S, r) = Several(S, r, IdOrder)
  <1>1. PICK n \in Nat : /\ IdOrder \in [1 .. n -> Ids]
                         /\ \A x \in Ids : \E k \in 1 .. n : IdOrder[k] = x
                         /\ \A k, l \in 1 .. n : IdOrder[k] = IdOrder[l] => k = l
    BY Listed, JournalAssumption DEF IdOrder
  <1>2. IdOrder \in Seq(Ids) /\ Len(IdOrder) = n
    BY <1>1
  <1>3. Distinct(IdOrder)
    BY <1>1, <1>2 DEF Distinct
  <1>4. Range(IdOrder) = {IdOrder[k] : k \in 1 .. n}
    <2>1. IsSeq(IdOrder)
      BY <1>2, Zenon DEF IsSeq
    <2> QED BY <1>2, <2>1, ElemsOf
  <1>5. \A S, r : IntervalRecords(S, r) = Several(S, r, IdOrder)
    BY DEF IntervalRecords, Several, Additions
  <1> QED BY <1>1, <1>2, <1>3, <1>4, <1>5

\* What the records of one resource are,
LEMMA BlockIs ==
    ASSUME NEW S, IsStore(S), NEW r \in DOMAIN S
    PROVE  LET t == Block(S, r)
           IN  /\ IsLog(t)
               /\ \A c \in Range(Changes(t)) :
                     \/ c.op = "create" /\ c.res = r /\ c.id = r
                     \/ c.op = "add" /\ c.res = r /\ c.id \in Ids /\ S[r].iv[c.id] # <<>>
               /\ \E c \in Range(Changes(t)) : c.op = "create" /\ c.id = r
               /\ \A i \in Ids : S[r].iv[i] # <<>> =>
                     \E c \in Range(Changes(t)) : c.op = "add" /\ c.id = i
               /\ ShortAt(S, r) => FirstMention(Changes(t))
  <1> PICK c, l, t : /\ c = Change("create", r, r, S[r].shape) /\ l = Several(S, r, IdOrder)
                     /\ t = Block(S, r)
    OBVIOUS
  <1>1. /\ IsLog(l)
        /\ \A d \in Range(Changes(l)) : /\ d.op = "add" /\ d.res = r /\ d.id \in Ids
                                        /\ S[r].iv[d.id] # <<>>
        /\ \A i \in Ids : S[r].iv[i] # <<>> =>
              \E d \in Range(Changes(l)) : d.op = "add" /\ d.id = i
        /\ ShortAt(S, r) => FirstMention(Changes(l))
    BY AllIds, SeveralAre
  <1>2. r \in Resources
    BY Stores
  <1>3. IsChange(c) /\ c.op = "create" /\ c.res = r /\ c.id = r
    BY <1>2, Made DEF ChangeOps, Change
  <1>4. t = << <<c>> >> \o l
    BY AllIds DEF Block
  <1>5. IsLog(t) /\ Changes(t) = <<c>> \o Changes(l)
    <2>1. IsLog(<< <<c>> >>) /\ Changes(<< <<c>> >>) = <<c>>
      BY <1>3, ChangesOfOne
    <2>2. IsLog(<< <<c>> >> \o l) /\ Changes(<< <<c>> >> \o l) = Changes(<< <<c>> >>) \o Changes(l)
      BY <1>1, <2>1, ChangesJoined, ZenonT(60)
    <2> QED BY ONLY <1>4, <2>1, <2>2
  <1>6. IsSeq(<<c>>) /\ IsSeq(Changes(l)) /\ Range(<<c>>) = {c}
    BY <1>1, ShortLists, LogIsLists, Elems
  <1>7. Range(Changes(t)) = {c} \cup Range(Changes(l))
    BY <1>5, <1>6, ElemsJoined
  <1>8. ASSUME ShortAt(S, r) PROVE FirstMention(Changes(t))
    <2>1. FirstMention(<<c>>)
      BY <1>3 DEF FirstMention
    <2>2. NewIn(<<c>>, Changes(l))
      BY <1>3, <1>6 DEF NewIn, Mentions, Interval
    <2> QED BY <1>1, <1>5, <1>6, <1>8, <2>1, <2>2, FirstJoined
  <1> QED BY <1>1, <1>3, <1>5, <1>7, <1>8

\* and what they build.
LEMMA BlockMakes ==
    ASSUME NEW S, IsStore(S), NEW r \in DOMAIN S, NEW store, IsStore(store)
    PROVE  LET u == ApplyAll(store, Block(S, r))
           IN  /\ IsStore(u) /\ r \in DOMAIN u /\ u[r].shape = S[r].shape
               /\ \A j \in Ids : u[r].iv[j] = S[r].iv[j]
               /\ \A q : q # r => /\ q \in DOMAIN u <=> q \in DOMAIN store
                                  /\ q \in DOMAIN store => u[q] = store[q]
  <1> PICK c, l, s : /\ c = Change("create", r, r, S[r].shape) /\ l = Several(S, r, IdOrder)
                     /\ s = Apply(store, c)
    OBVIOUS
  <1>1. r \in Resources
    BY Stores
  <1>2. IsChange(c) /\ c.op = "create" /\ c.res = r /\ c.val = S[r].shape
    BY <1>1, Made DEF ChangeOps, Change
  <1>3. IsLog(l)
    BY AllIds, SeveralAre
  <1>4. Block(S, r) = << <<c>> >> \o l
    BY AllIds DEF Block
  <1>5. ApplyAll(store, Block(S, r)) = ApplyAll(s, l)
    <2>1. IsLog(<< <<c>> >>) /\ Changes(<< <<c>> >>) = <<c>> /\ ApplyRecord(store, <<c>>) = s
      BY <1>2, ChangesOfOne
    <2>2. /\ Changes(Block(S, r)) = <<c>> \o Changes(l)
          /\ IsLog(Block(S, r)) /\ IsSeq(<<c>>) /\ IsSeq(Changes(l))
      <3>1. IsLog(<< <<c>> >> \o l) /\ Changes(<< <<c>> >> \o l) = Changes(<< <<c>> >>) \o Changes(l)
        BY <1>3, <2>1, ChangesJoined
      <3>2. IsSeq(<<c>>) /\ IsSeq(Changes(l))
        BY <1>3, LogIsLists, ShortLists
      <3> QED BY ONLY <1>4, <2>1, <3>1, <3>2
    <2>3. ApplyAll(store, Block(S, r)) = ApplyRecord(store, <<c>> \o Changes(l))
      BY <2>2, AllIsRun, LogIsLists
    <2>4. ApplyAll(s, l) = ApplyRecord(s, Changes(l))
      BY <1>3, AllIsRun, LogIsLists
    <2> QED BY <2>1, <2>2, <2>3, <2>4, RunJoined
  <1>6. IsStore(s) /\ r \in DOMAIN s /\ s[r].shape = S[r].shape /\ Empty(s, r)
    BY <1>2, ApplyKeeps, AppliedThere DEF Empty
  <1>7. \A q : q # r => /\ q \in DOMAIN s <=> q \in DOMAIN store
                        /\ q \in DOMAIN store => s[q] = store[q]
    BY <1>2, AppliedElsewhere
  <1> PICK u : u = ApplyAll(s, l)
    OBVIOUS
  <1>8. /\ IsStore(u) /\ r \in DOMAIN u /\ u[r].shape = s[r].shape
        /\ \A j \in Ids : u[r].iv[j] = IF j \in Range(IdOrder) THEN S[r].iv[j] ELSE <<>>
        /\ \A q : q # r => /\ q \in DOMAIN u <=> q \in DOMAIN s
                           /\ q \in DOMAIN s => u[q] = s[q]
    BY <1>6, AllIds, SeveralMake
  <1>9. \A j \in Ids : u[r].iv[j] = S[r].iv[j]
    BY <1>8, AllIds
  <1>10. \A q : q # r => /\ q \in DOMAIN u <=> q \in DOMAIN store
                         /\ q \in DOMAIN store => u[q] = store[q]
    BY <1>7, <1>8
  <1> QED BY <1>5, <1>6, <1>8, <1>9, <1>10

-------------------------------------------------------------------------------
\* The parts of several resources.
Blocks(S, rs) == FlattenSeq([k \in DOMAIN rs |-> Block(S, rs[k])])
ShortIn(S) == \A r \in DOMAIN S : ShortAt(S, r)
\* No interval is on the lists of two resources.
OnOne(S) == \A r, s \in DOMAIN S, i \in Ids :
                S[r].iv[i] # <<>> /\ S[s].iv[i] # <<>> => r = s

\* One resource more.
LEMMA BlocksOne ==
    ASSUME NEW S, IsStore(S), NEW v \in Seq(DOMAIN S), NEW x \in DOMAIN S,
           IsLog(Blocks(S, v))
    PROVE  LET t == Blocks(S, v)
               a == Block(S, x)
               u == Blocks(S, Append(v, x))
           IN  /\ u = t \o a /\ IsLog(a) /\ IsLog(u)
               /\ Changes(u) = Changes(t) \o Changes(a)
  <1>0. IsSeq(v)
    BY Zenon DEF IsSeq
  <1> PICK g : g = [r \in DOMAIN S |-> Block(S, r)]
    OBVIOUS
  <1> PICK t : t = [k \in DOMAIN v |-> g[v[k]]]
    OBVIOUS
  <1>1. \A r \in DOMAIN S : IsLog(g[r])
    BY BlockIs
  <1> PICK w : w = Append(v, x)
    OBVIOUS
  <1>2. /\ DOMAIN v = 1 .. Len(v) /\ \A k \in 1 .. Len(v) : v[k] \in DOMAIN S
        /\ DOMAIN w = 1 .. Len(v) + 1 /\ \A k \in 1 .. Len(v) + 1 : w[k] \in DOMAIN S
        /\ Len(v) \in Nat
    OBVIOUS
  <1>3. Blocks(S, v) = FlattenSeq(t)
    <2>1. [k \in DOMAIN v |-> Block(S, v[k])] = t
      BY <1>2
    <2> QED BY <2>1 DEF Blocks
  <1> PICK z : z = [k \in DOMAIN w |-> g[w[k]]]
    OBVIOUS
  <1>4. Blocks(S, w) = FlattenSeq(z)
    <2>1. [k \in DOMAIN w |-> Block(S, w[k])] = z
      BY <1>2
    <2> QED BY <2>1 DEF Blocks
  <1>5. g[x] = Block(S, x)
    OBVIOUS
  <1>6. /\ IsSeq(t) /\ Len(t) = Len(v) /\ \A k \in 1 .. Len(v) : t[k] = g[v[k]]
        /\ z = Append(t, g[x])
    <2>1. t = [k \in 1 .. Len(v) |-> t[k]] /\ \A k \in 1 .. Len(v) : t[k] = g[v[k]]
      BY <1>2
    <2>2. z = [k \in 1 .. Len(v) + 1 |-> z[k]] /\ \A k \in 1 .. Len(v) + 1 : z[k] = g[w[k]]
      BY <1>2
    <2>3. IsSeq(t) /\ Len(t) = Len(v)
      BY <1>2, <2>1, ListOf
    <2>4. IsSeq(z) /\ Len(z) = Len(v) + 1
      BY <1>2, <2>2, ListOf
    <2>5. z = Append(t, g[x])
      BY <1>0, <2>1, <2>2, <2>3, <2>4, MappedOne
    <2> QED BY <2>1, <2>3, <2>5
  <1>7. IsLists(t) /\ IsSeq(g[x])
    BY <1>1, <1>2, <1>6, LogIsLists DEF IsLists
  <1>8. Blocks(S, w) = Blocks(S, v) \o g[x]
    <2>1. FlattenSeq(Append(t, g[x])) = FlattenSeq(t) \o g[x]
      BY <1>7, StrungOne
    <2> QED BY ONLY <1>3, <1>4, <1>6, <2>1
  <1>9. IsLog(g[x])
    BY <1>1
  <1> QED BY <1>5, <1>8, <1>9, ChangesJoined

\* What blocks are made of, what they build, and when they mention first.
BlocksGood(S, v) ==
    LET t == Blocks(S, v)
        u == ApplyAll(Nothing, t)
    IN  /\ IsLog(t)
        /\ \A c \in Range(Changes(t)) :
              \/ c.op = "create" /\ c.res \in Range(v) /\ c.id = c.res
              \/ c.op = "add" /\ c.res \in Range(v) /\ c.id \in Ids /\ S[c.res].iv[c.id] # <<>>
        /\ \A r \in Range(v) :
              /\ \E c \in Range(Changes(t)) : c.op = "create" /\ c.id = r
              /\ \A i \in Ids : S[r].iv[i] # <<>> =>
                    \E c \in Range(Changes(t)) : c.op = "add" /\ c.id = i
        /\ IsStore(u) /\ DOMAIN u = Range(v)
        /\ \A r \in Range(v) : /\ u[r].shape = S[r].shape
                               /\ \A j \in Ids : u[r].iv[j] = S[r].iv[j]
        /\ Distinct(v) /\ ShortIn(S) /\ OnOne(S) => FirstMention(Changes(t))

\* No resource.
LEMMA BlocksNone ==
    ASSUME NEW S
    PROVE  BlocksGood(S, <<>>)
  <1>1. Blocks(S, <<>>) = <<>>
    <2>1. [k \in DOMAIN <<>> |-> Block(S, <<>>[k])] = <<>>
      OBVIOUS
    <2> QED BY <2>1, NothingStrung DEF Blocks
  <1>2. IsLog(<<>>) /\ Changes(<<>>) = <<>> /\ FirstMention(<<>>) /\ Range(<<>>) = {}
    BY EmptyLine, NothingStrung, FirstNone, Elems DEF Changes
  <1>3. ApplyAll(Nothing, <<>>) = Nothing /\ DOMAIN Nothing = {}
    BY AllNone DEF Nothing
  <1>4. IsStore(Nothing)
    BY <1>2, ReplayIsStore
  <1> QED BY <1>1, <1>2, <1>3, <1>4 DEF BlocksGood

\* One resource more.
LEMMA BlocksMore ==
    ASSUME NEW S, IsStore(S), NEW v \in Seq(DOMAIN S), BlocksGood(S, v), NEW x \in DOMAIN S
    PROVE  BlocksGood(S, Append(v, x))
  <1>0. IsSeq(v)
    BY Zenon DEF IsSeq
  <1> PICK t, a, u, b, w, y : /\ t = Blocks(S, v) /\ a = Block(S, x) /\ b = ApplyAll(Nothing, t)
                              /\ y = Append(v, x) /\ u = Blocks(S, y) /\ w = ApplyAll(b, a)
    OBVIOUS
  <1>1. /\ IsLog(t)
        /\ \A c \in Range(Changes(t)) :
              \/ c.op = "create" /\ c.res \in Range(v) /\ c.id = c.res
              \/ c.op = "add" /\ c.res \in Range(v) /\ c.id \in Ids /\ S[c.res].iv[c.id] # <<>>
        /\ \A r \in Range(v) :
              /\ \E c \in Range(Changes(t)) : c.op = "create" /\ c.id = r
              /\ \A i \in Ids : S[r].iv[i] # <<>> =>
                    \E c \in Range(Changes(t)) : c.op = "add" /\ c.id = i
        /\ IsStore(b) /\ DOMAIN b = Range(v)
        /\ \A r \in Range(v) : /\ b[r].shape = S[r].shape
                               /\ \A j \in Ids : b[r].iv[j] = S[r].iv[j]
        /\ Distinct(v) /\ ShortIn(S) /\ OnOne(S) => FirstMention(Changes(t))
    BY DEF BlocksGood
  <1>2. u = t \o a /\ IsLog(a) /\ IsLog(u) /\ Changes(u) = Changes(t) \o Changes(a)
    <2>1. IsLog(Blocks(S, v))
      BY <1>1
    <2>2. /\ Blocks(S, Append(v, x)) = Blocks(S, v) \o Block(S, x)
          /\ IsLog(Block(S, x)) /\ IsLog(Blocks(S, Append(v, x)))
          /\ Changes(Blocks(S, Append(v, x))) = Changes(Blocks(S, v)) \o Changes(Block(S, x))
      BY <2>1, BlocksOne
    <2> QED BY <2>2
  <1>3. /\ \A c \in Range(Changes(a)) :
              \/ c.op = "create" /\ c.res = x /\ c.id = x
              \/ c.op = "add" /\ c.res = x /\ c.id \in Ids /\ S[x].iv[c.id] # <<>>
        /\ \E c \in Range(Changes(a)) : c.op = "create" /\ c.id = x
        /\ \A i \in Ids : S[x].iv[i] # <<>> =>
              \E c \in Range(Changes(a)) : c.op = "add" /\ c.id = i
        /\ ShortAt(S, x) => FirstMention(Changes(a))
    BY BlockIs
  <1>4. Range(y) = Range(v) \cup {x}
    BY <1>0, ElemsOneMore
  <1>5. Range(Changes(u)) = Range(Changes(t)) \cup Range(Changes(a))
        /\ IsSeq(Changes(t)) /\ IsSeq(Changes(a))
    BY <1>1, <1>2, LogIsLists, ElemsJoined
  <1>6. \A c \in Range(Changes(u)) :
              \/ c.op = "create" /\ c.res \in Range(y) /\ c.id = c.res
              \/ c.op = "add" /\ c.res \in Range(y) /\ c.id \in Ids /\ S[c.res].iv[c.id] # <<>>
    BY <1>1, <1>3, <1>4, <1>5
  <1>7. ASSUME NEW r \in Range(y)
        PROVE  /\ \E c \in Range(Changes(u)) : c.op = "create" /\ c.id = r
               /\ \A i \in Ids : S[r].iv[i] # <<>> =>
                    \E c \in Range(Changes(u)) : c.op = "add" /\ c.id = i
    BY <1>1, <1>3, <1>4, <1>5
  <1>8. ApplyAll(Nothing, u) = w
    <2>1. /\ ApplyAll(Nothing, u) = ApplyRecord(Nothing, Changes(t) \o Changes(a))
          /\ b = ApplyRecord(Nothing, Changes(t)) /\ w = ApplyRecord(b, Changes(a))
      <3>1. IsLists(t) /\ IsLists(a) /\ IsLists(u)
        BY <1>1, <1>2, LogIsLists
      <3>2. ApplyAll(Nothing, u) = ApplyRecord(Nothing, Changes(u))
        BY <3>1, AllIsRun
      <3>3. b = ApplyRecord(Nothing, Changes(t)) /\ w = ApplyRecord(b, Changes(a))
        BY <3>1, AllIsRun
      <3> QED BY <1>2, <3>2, <3>3
    <2> QED BY <1>5, <2>1, RunJoined
  <1>9. /\ IsStore(w) /\ x \in DOMAIN w /\ w[x].shape = S[x].shape
        /\ \A j \in Ids : w[x].iv[j] = S[x].iv[j]
        /\ \A q : q # x => /\ q \in DOMAIN w <=> q \in DOMAIN b
                           /\ q \in DOMAIN b => w[q] = b[q]
    BY <1>1, BlockMakes
  <1>10. DOMAIN w = Range(y)
    <2>1. \A q : q \in DOMAIN w <=> q \in Range(v) \/ q = x
      BY <1>1, <1>9
    <2>2. \A q : q \in DOMAIN w <=> q \in Range(y)
      BY <1>4, <2>1
    <2> QED BY ONLY <2>2, Zenon
  <1>11. ASSUME NEW r \in Range(y)
         PROVE  w[r].shape = S[r].shape /\ \A j \in Ids : w[r].iv[j] = S[r].iv[j]
    <2>1. CASE r = x
      BY <1>9, <2>1
    <2>2. CASE r # x /\ r \in Range(v)
      BY <1>1, <1>9, <2>2
    <2> QED BY <1>4, <2>1, <2>2
  <1>12. ASSUME Distinct(y), ShortIn(S), OnOne(S) PROVE FirstMention(Changes(u))
    <2>1. Distinct(v) /\ x \notin Range(v)
      BY <1>0, <1>12, DistinctOne
    <2>2. FirstMention(Changes(t)) /\ FirstMention(Changes(a))
      BY <1>1, <1>3, <1>12, <2>1 DEF ShortIn
    <2>3. NewIn(Changes(t), Changes(a))
      <3> SUFFICES ASSUME NEW c \in Range(Changes(a)), c.op = "add",
                          NEW d \in Range(Changes(t)), Mentions(d, c.id)
                   PROVE  FALSE
        BY DEF NewIn
      <3>1. c.id \in Ids /\ S[x].iv[c.id] # <<>>
        BY <1>3
      <3>2. d.res \in Range(v) /\ d.id = c.id /\ S[d.res].iv[c.id] # <<>>
        BY <1>1 DEF Mentions, Interval
      <3>3. d.res \in DOMAIN S
        <4>1. v \in Seq(Range(v)) /\ Range(v) = {v[n] : n \in 1 .. Len(v)} /\ \A n \in 1 .. Len(v) : v[n] \in DOMAIN S
          BY <1>0, ElemsOf
        <4> QED BY <3>2, <4>1
      <3>4. d.res = x
        BY <1>12, <3>1, <3>2, <3>3 DEF OnOne
      <3> QED BY <2>1, <3>2, <3>4
    <2> QED BY <1>2, <1>5, <2>2, <2>3, FirstJoined
  <1> QED BY <1>2, <1>6, <1>7, <1>8, <1>9, <1>10, <1>11, <1>12 DEF BlocksGood

\* Any resources.
LEMMA BlocksAre ==
    ASSUME NEW S, IsStore(S), NEW rs \in Seq(DOMAIN S)
    PROVE  BlocksGood(S, rs)
  <1> DEFINE W == {v \in Seq(DOMAIN S) : BlocksGood(S, v)}
  <1>1. <<>> \in W
    BY BlocksNone
  <1>2. ASSUME NEW v \in Seq(DOMAIN S), v \in W, NEW x \in DOMAIN S PROVE Append(v, x) \in W
    <2>1. BlocksGood(S, Append(v, x))
      BY <1>2, BlocksMore
    <2>2. Append(v, x) \in Seq(DOMAIN S)
      BY <1>2
    <2> QED BY <2>1, <2>2
  <1> HIDE DEF W
  <1>3. rs \in W
    BY <1>1, <1>2, ListInduction
  <1> QED BY <1>3 DEF W

\* What a snapshot's records introduce.
Skip(S) == AddedIds(SnapshotRecords(S))

\* These are its resources and the intervals on its lists, and what the records
\* build is the snapshot.
LEMMA SnapshotIs ==
    ASSUME NEW S, IsStore(S)
    PROVE  LET t == SnapshotRecords(S)
           IN  /\ IsLog(t)
               /\ \A c \in Range(Changes(t)) :
                     \/ c.op = "create" /\ c.res \in DOMAIN S /\ c.id = c.res
                     \/ /\ c.op = "add" /\ c.res \in DOMAIN S /\ c.id \in Ids
                        /\ S[c.res].iv[c.id] # <<>>
               /\ \A i \in Ids \ Resources :
                     i \in Skip(S) <=> \E r \in DOMAIN S : S[r].iv[i] # <<>>
               /\ Skip(S) \subseteq DOMAIN S \cup Ids /\ DOMAIN S \subseteq Skip(S)
               /\ \A r : Agree(Replay(t), S, r)
               /\ ShortIn(S) /\ OnOne(S) => FirstMention(Changes(t))
  <1> PICK t, rs : t = SnapshotRecords(S) /\ rs = SetToSeq(DOMAIN S)
    OBVIOUS
  <1>0. DOMAIN S \subseteq Resources /\ IsFiniteSet(DOMAIN S)
    <2>1. DOMAIN S \subseteq Resources
      BY Stores
    <2> QED BY <2>1, JournalAssumption, FS_Subset
  <1>1. PICK n \in Nat : /\ rs \in [1 .. n -> DOMAIN S]
                         /\ \A x \in DOMAIN S : \E k \in 1 .. n : rs[k] = x
                         /\ \A k, l \in 1 .. n : rs[k] = rs[l] => k = l
    BY <1>0, Listed, SMTT(30)
  <1>2. rs \in Seq(DOMAIN S) /\ Len(rs) = n
    BY <1>1
  <1>3. Distinct(rs) /\ Range(rs) = DOMAIN S
    <2>1. IsSeq(rs)
      BY <1>2, Zenon DEF IsSeq
    <2>2. Range(rs) = {rs[k] : k \in 1 .. n}
      BY <1>2, <2>1, ElemsOf
    <2>3. Range(rs) = DOMAIN S
      <3> PICK D : D = DOMAIN S
        OBVIOUS
      <3>1. \A k \in 1 .. n : rs[k] \in D
        BY <1>1
      <3>2. \A x \in D : \E k \in 1 .. n : rs[k] = x
        BY <1>1
      <3>3. {rs[k] : k \in 1 .. n} = D
        BY ONLY <3>1, <3>2
      <3> QED BY <2>2, <3>3
    <2>4. Distinct(rs)
      BY <1>1, <1>2 DEF Distinct
    <2> QED BY <2>3, <2>4
  <1>4. t = Blocks(S, rs)
    BY DEF SnapshotRecords, Blocks, Block, IntervalRecords
  <1>5. BlocksGood(S, rs)
    BY <1>2, BlocksAre
  <1>6. /\ IsLog(t)
        /\ \A c \in Range(Changes(t)) :
              \/ c.op = "create" /\ c.res \in DOMAIN S /\ c.id = c.res
              \/ c.op = "add" /\ c.res \in DOMAIN S /\ c.id \in Ids /\ S[c.res].iv[c.id] # <<>>
        /\ \A r \in DOMAIN S :
              /\ \E c \in Range(Changes(t)) : c.op = "create" /\ c.id = r
              /\ \A i \in Ids : S[r].iv[i] # <<>> =>
                    \E c \in Range(Changes(t)) : c.op = "add" /\ c.id = i
        /\ ShortIn(S) /\ OnOne(S) => FirstMention(Changes(t))
    BY <1>3, <1>4, <1>5 DEF BlocksGood
  <1>7. \A r : Agree(Replay(t), S, r)
    <2> PICK u : u = ApplyAll(Nothing, t)
      OBVIOUS
    <2>1. /\ DOMAIN u = DOMAIN S
          /\ \A r \in DOMAIN S : /\ u[r].shape = S[r].shape
                                 /\ \A j \in Ids : u[r].iv[j] = S[r].iv[j]
      BY <1>3, <1>4, <1>5 DEF BlocksGood
    <2>2. Replay(t) = u
      BY DEF Replay, Nothing
    <2> QED BY <2>1, <2>2 DEF Agree
  <1>8. \A i : i \in Skip(S) <=> \E c \in Range(Changes(t)) : Introduces(c) /\ c.id = i
    BY DEF Skip, AddedIds
  <1>9. \A i \in Ids \ Resources : i \in Skip(S) <=> \E r \in DOMAIN S : S[r].iv[i] # <<>>
    BY <1>0, <1>6, <1>8 DEF Introduces
  <1>10. Skip(S) \subseteq DOMAIN S \cup Ids /\ DOMAIN S \subseteq Skip(S)
    BY <1>6, <1>8 DEF Introduces
  <1> QED BY <1>6, <1>7, <1>9, <1>10

-------------------------------------------------------------------------------
(* What MergeRecorded keeps of the recording.                              *)

OneEach(D, s) == FlattenSeq([k \in DOMAIN s |-> IF Skipped(D, s[k]) THEN <<>> ELSE << <<s[k]>> >>])

\* What is kept, a record for each change.
LEMMA OneEachKept ==
    ASSUME NEW D, NEW s, IsRecord(s)
    PROVE  IsLog(OneEach(D, s)) /\ Changes(OneEach(D, s)) = Kept(D, s)
  <1> PICK C : C = Range(s)
    OBVIOUS
  <1>0. s \in Seq(C) /\ \A c \in C : IsChange(c)
    BY RecordElems, ElemsOf
  <1> DEFINE Good(v) == IsLog(OneEach(D, v)) /\ Changes(OneEach(D, v)) = Kept(D, v)
  <1> DEFINE W == {v \in Seq(C) : Good(v)}
  <1>1. <<>> \in W
    <2>1. OneEach(D, <<>>) = <<>>
      <3>1. [k \in DOMAIN <<>> |-> IF Skipped(D, <<>>[k]) THEN <<>> ELSE << << <<>>[k]>> >>] = <<>>
        OBVIOUS
      <3> QED BY <3>1, NothingStrung DEF OneEach
    <2>2. IsLog(<<>>) /\ Changes(<<>>) = <<>> /\ Kept(D, <<>>) = <<>>
      BY EmptyLine, NothingStrung, KeptNone DEF Changes
    <2> QED BY <2>1, <2>2
  <1>2. ASSUME NEW v \in Seq(C), v \in W, NEW x \in C PROVE Append(v, x) \in W
    <2>0. Good(v) /\ IsSeq(v) /\ IsChange(x)
      <3>1. Good(v)
        BY <1>2
      <3>2. IsSeq(v)
        BY <1>2, Zenon DEF IsSeq
      <3> QED BY <1>0, <3>1, <3>2
    <2> PICK w, n, y : w = Append(v, x) /\ n = Len(v)
                       /\ y = IF Skipped(D, x) THEN <<>> ELSE << <<x>> >>
      OBVIOUS
    <2> PICK t, z : /\ t = [k \in DOMAIN v |-> IF Skipped(D, v[k]) THEN <<>> ELSE << <<v[k]>> >>]
                    /\ z = [k \in DOMAIN w |-> IF Skipped(D, w[k]) THEN <<>> ELSE << <<w[k]>> >>]
      OBVIOUS
    <2>1. /\ n \in Nat /\ DOMAIN v = 1 .. n /\ DOMAIN w = 1 .. n + 1
          /\ w = [k \in 1 .. n + 1 |-> IF k = n + 1 THEN x ELSE v[k]]
      <3>1. IsSeq(w) /\ Len(w) = n + 1
        BY <2>0, Sequences
      <3> QED BY <2>0, <3>1, Sequences
    <2>2. t = [k \in 1 .. n |-> t[k]] /\ z = [k \in 1 .. n + 1 |-> z[k]]
      BY <2>1
    <2>3. /\ \A k \in 1 .. n : z[k] = t[k]
          /\ z[n + 1] = y
      <3>1. \A k \in 1 .. n : w[k] = v[k] /\ k \in 1 .. n + 1
        BY <2>1
      <3>2. w[n + 1] = x /\ n + 1 \in 1 .. n + 1
        BY <2>1
      <3> QED BY <2>1, <3>1, <3>2
    <2>4. IsSeq(<<>>) /\ \A c : IsSeq(<< <<c>> >>)
      BY ShortLists
    <2>5. \A k \in 1 .. n : z[k] = t[k] /\ IsSeq(t[k])
      BY <2>1, <2>3, <2>4
    <2>6. IsSeq(z[n + 1])
      BY <2>3, <2>4
    <2>7. FlattenSeq(z) = FlattenSeq(t) \o y
      <3>1. FlattenSeq(z) = FlattenSeq(t) \o z[n + 1]
        BY ONLY <2>1, <2>2, <2>5, <2>6, StrungMore
      <3> QED BY <2>3, <3>1
    <2>8. OneEach(D, w) = OneEach(D, v) \o y
      BY <2>7 DEF OneEach
    <2>9. IsLog(y) /\ Changes(y) = IF Skipped(D, x) THEN <<>> ELSE <<x>>
      <3>1. IsLog(<<>>) /\ Changes(<<>>) = <<>>
        BY EmptyLine, NothingStrung DEF Changes
      <3> QED BY <2>0, <3>1, ChangesOfOne
    <2>10. IsLog(OneEach(D, w)) /\ Changes(OneEach(D, w)) = Kept(D, v) \o Changes(y)
      BY <2>0, <2>8, <2>9, ChangesJoined
    <2>11. Changes(OneEach(D, w)) = Kept(D, w)
      <3>1. /\ IsSeq(Kept(D, v))
            /\ Kept(D, Append(v, x)) = IF Skipped(D, x) THEN Kept(D, v) ELSE Append(Kept(D, v), x)
        <4>1. IsSeq(v)
          BY <2>0
        <4> QED BY ONLY <4>1, KeptOne
      <3>2. Kept(D, v) \o <<>> = Kept(D, v) /\ Append(Kept(D, v), x) = Kept(D, v) \o <<x>>
        BY <2>0, <3>1, NoneAdded, OneAdded
      <3>3. w = Append(v, x)
        OBVIOUS
      <3> QED BY ONLY <2>9, <2>10, <3>1, <3>2, <3>3
    <2>12. Good(Append(v, x)) /\ Append(v, x) \in Seq(C)
      <3>1. Append(v, x) \in Seq(C)
        BY <1>2
      <3>2. w = Append(v, x)
        OBVIOUS
      <3>3. Good(w)
        BY <2>10, <2>11
      <3> QED BY <3>1, <3>2, <3>3
    <2> HIDE DEF Good
    <2> QED BY <2>12
  <1> HIDE DEF W
  <1>3. s \in W
    BY <1>0, <1>1, <1>2, ListInduction
  <1>4. Good(s)
    BY <1>3 DEF W
  <1> QED BY <1>4

\* The changes of the file a compaction writes.
LEMMA Merged ==
    ASSUME NEW s, IsLog(s), NEW recorded, IsLog(recorded)
    PROVE  Changes(MergeRecorded(s, recorded)) =
             Changes(s) \o Kept(AddedIds(s), Changes(recorded))
  <1>1. MergeRecorded(s, recorded) = s \o OneEach(AddedIds(s), Changes(recorded))
    BY DEF MergeRecorded, OneEach, Duplicate, Skipped
  <1>2. IsRecord(Changes(recorded))
    BY LogIsLists
  <1> QED BY <1>1, <1>2, OneEachKept, ChangesJoined, SMTT(30)

-------------------------------------------------------------------------------
(* The records on their way.                                               *)

Payload(c) == IF Writes(c) THEN c.records ELSE <<>>
WrittenTable(line) == [k \in DOMAIN line |-> Payload(line[k])]

\* The records of a line, command by command.
LEMMA TableIs ==
    ASSUME NEW line, IsLine(line)
    PROVE  LET t == WrittenTable(line)
           IN  /\ IsSeq(t) /\ Len(t) = Len(line) /\ IsLists(t)
               /\ \A k \in 1 .. Len(line) :
                    t[k] = Payload(line[k]) /\ IsLog(t[k])
               /\ Written(line) = FlattenSeq(t)
  <1> PICK t : t = WrittenTable(line)
    OBVIOUS
  <1>1. IsSeq(line) /\ DOMAIN line = 1 .. Len(line) /\ Len(line) \in Nat
    BY Sequences DEF IsLine
  <1>2. \A k \in 1 .. Len(line) :
           t[k] = Payload(line[k])
    BY <1>1 DEF WrittenTable
  <1>3. t = [k \in 1 .. Len(line) |-> t[k]]
    BY <1>1 DEF WrittenTable
  <1>4. IsSeq(t) /\ Len(t) = Len(line)
    BY <1>1, <1>3, ListOf
  <1>5. \A k \in 1 .. Len(line) : IsLog(t[k])
    BY <1>2, EmptyLine DEF IsLine, Payload
  <1>6. IsLists(t)
    BY <1>4, <1>5, LogIsLists DEF IsLists
  <1>7. Written(line) = FlattenSeq(t)
    BY DEF Written, WrittenTable, Payload
  <1> QED BY <1>2, <1>4, <1>5, <1>6, <1>7

\* They are a log.
LEMMA WrittenIsLog ==
    ASSUME NEW line, IsLine(line)
    PROVE  IsLog(Written(line))
  BY TableIs, StrungLogs

\* An empty line writes nothing.
LEMMA WrittenNone == Written(<<>>) = <<>>
  <1>1. WrittenTable(<<>>) = <<>>
    BY DEF WrittenTable
  <1> QED BY <1>1, NothingStrung DEF Written, WrittenTable, Payload

\* Two lines in one.
LEMMA LinesJoined ==
    ASSUME NEW a, NEW b, IsLine(a), IsLine(b)
    PROVE  IsLine(a \o b) /\ (AllWrite(a \o b) <=> AllWrite(a) /\ AllWrite(b))
  <1> PICK l, m, n : l = a \o b /\ m = Len(a) /\ n = Len(b)
    OBVIOUS
  <1>1. /\ IsSeq(l) /\ Len(l) = m + n /\ m \in Nat /\ n \in Nat
        /\ \A k \in 1 .. m : l[k] = a[k]
        /\ \A k \in 1 .. n : l[m + k] = b[k]
    BY Concatenated, Sequences DEF IsLine
  <1>2. ASSUME NEW k \in 1 .. m + n
        PROVE  k \in 1 .. m \/ \E j \in 1 .. n : k = m + j
    <2>1. CASE k > m
      <3>1. k - m \in 1 .. n /\ k = m + (k - m)
        BY <1>1, <2>1
      <3> QED BY <3>1
    <2> QED BY <1>1, <2>1
  <1>3. \A k \in 1 .. m + n : IsLog(l[k].records)
    BY <1>1, <1>2 DEF IsLine
  <1>4. \A k \in 1 .. m : k \in 1 .. m + n
    BY <1>1
  <1>5. \A k \in 1 .. n : m + k \in 1 .. m + n
    BY <1>1
  <1>6. AllWrite(l) <=> AllWrite(a) /\ AllWrite(b)
    BY <1>1, <1>2, <1>4, <1>5 DEF AllWrite
  <1> QED BY <1>1, <1>3, <1>6 DEF IsLine

\* They write one after the other.
LEMMA WrittenJoined ==
    ASSUME NEW a, NEW b, IsLine(a), IsLine(b)
    PROVE  Written(a \o b) = Written(a) \o Written(b)
  <1> PICK l, m, n : l = a \o b /\ m = Len(a) /\ n = Len(b)
    OBVIOUS
  <1> PICK t, u, w : t = WrittenTable(a) /\ u = WrittenTable(b) /\ w = WrittenTable(l)
    OBVIOUS
  <1>1. /\ IsSeq(l) /\ Len(l) = m + n /\ m \in Nat /\ n \in Nat
        /\ \A k \in 1 .. m : l[k] = a[k]
        /\ \A k \in 1 .. n : l[m + k] = b[k]
    BY Concatenated, Sequences DEF IsLine
  <1>2. IsLine(l)
    BY LinesJoined
  <1>3. /\ IsSeq(t) /\ Len(t) = m /\ IsLists(t) /\ Written(a) = FlattenSeq(t)
        /\ \A k \in 1 .. m : t[k] = Payload(a[k])
    BY TableIs
  <1>4. /\ IsSeq(u) /\ Len(u) = n /\ IsLists(u) /\ Written(b) = FlattenSeq(u)
        /\ \A k \in 1 .. n : u[k] = Payload(b[k])
    BY TableIs
  <1>5. /\ IsSeq(w) /\ Len(w) = m + n /\ Written(l) = FlattenSeq(w)
        /\ \A k \in 1 .. m + n : w[k] = Payload(l[k])
    BY <1>1, <1>2, TableIs, ZenonT(60)
  <1> PICK v : v = t \o u
    OBVIOUS
  <1>6. /\ IsSeq(v) /\ Len(v) = m + n
        /\ \A k \in 1 .. m : v[k] = t[k]
        /\ \A k \in 1 .. n : v[m + k] = u[k]
    <2>1. /\ IsSeq(v) /\ Len(v) = Len(t) + Len(u)
          /\ \A k \in 1 .. Len(t) : v[k] = t[k]
          /\ \A k \in 1 .. Len(u) : v[Len(t) + k] = u[k]
      <3>1. v = t \o u
        OBVIOUS
      <3>2. IsSeq(t) /\ IsSeq(u)
        BY <1>3, <1>4
      <3> QED BY ONLY <3>1, <3>2, Concatenated
    <2> QED BY ONLY <1>3, <1>4, <2>1
  <1>7. ASSUME NEW k \in 1 .. m + n PROVE w[k] = v[k]
    <2>1. CASE k \in 1 .. m
      <3>1. l[k] = a[k] /\ v[k] = t[k] /\ t[k] = Payload(a[k]) /\ w[k] = Payload(l[k])
        BY ONLY <1>1, <1>3, <1>5, <1>6, <2>1, k \in 1 .. m + n
      <3> QED BY <3>1
    <2>2. ASSUME NEW j \in 1 .. n, k = m + j PROVE w[k] = v[k]
      <3>1. l[m + j] = b[j] /\ v[m + j] = u[j] /\ u[j] = Payload(b[j])
        BY <1>1, <1>4, <1>6
      <3>2. w[k] = Payload(l[k])
        BY <1>5
      <3> QED BY <2>2, <3>1, <3>2
    <2>3. k \in 1 .. m \/ \E j \in 1 .. n : k = m + j
      <3>1. CASE k > m
        <4>1. k - m \in 1 .. n /\ k = m + (k - m)
          BY <1>1, <3>1
        <4> QED BY <4>1
      <3> QED BY <1>1, <3>1
    <2> QED BY <2>1, <2>2, <2>3
  <1>8. w = t \o u
    BY <1>5, <1>6, <1>7, SameList
  <1>9. FlattenSeq(t \o u) = FlattenSeq(t) \o FlattenSeq(u)
    BY <1>3, <1>4, StrungJoined
  <1>10. l = a \o b
    OBVIOUS
  <1> QED BY ONLY <1>3, <1>4, <1>5, <1>8, <1>9, <1>10

\* A line of one command.
LEMMA WrittenOne ==
    ASSUME NEW c, IsLog(c.records)
    PROVE  /\ IsLine(<<c>>)
           /\ Written(<<c>>) = Payload(c)
  <1> PICK l, y : l = <<c>> /\ y = Payload(c)
    OBVIOUS
  <1>1. IsSeq(l) /\ Len(l) = 1 /\ DOMAIN l = 1 .. 1 /\ l[1] = c
    BY ShortLists
  <1>2. IsLine(l)
    BY <1>1 DEF IsLine
  <1>3. WrittenTable(l) = [k \in 1 .. 1 |-> y]
    BY <1>1 DEF WrittenTable
  <1>4. [k \in 1 .. 1 |-> y] = Append(<<>>, y)
    OBVIOUS
  <1>5. IsSeq(y) /\ IsLists(<<>>)
    <2>1. IsLog(<<>>)
      BY EmptyLine
    <2>2. IsLog(y)
      BY <2>1 DEF Payload
    <2> QED BY <2>1, <2>2, LogIsLists
  <1>6. FlattenSeq(Append(<<>>, y)) = <<>> \o y
    BY <1>5, StrungOne, NothingStrung
  <1>7. Written(l) = <<>> \o y
    BY <1>2, <1>3, <1>4, <1>6, TableIs
  <1> QED BY <1>2, <1>5, <1>7, NoneAdded

\* A line of writes.
LEMMA WrittenAll ==
    ASSUME NEW line, IsLine(line), AllWrite(line)
    PROVE  Written(line) = RecordsOf(line)
  <1>1. DOMAIN line = 1 .. Len(line)
    BY Sequences DEF IsLine
  <1>2. WrittenTable(line) = [k \in DOMAIN line |-> line[k].records]
    BY <1>1 DEF WrittenTable, Payload, AllWrite
  <1> QED BY <1>2, TableIs DEF RecordsOf

\* The first command is no write.
Stops(line) == line # <<>> /\ ~Writes(line[1])

\* The writer's commands are the first ones of a line: what is left of the line
\* still has the compactor's command, and what was before it.
LEMMA CutAfter ==
    ASSUME NEW a, NEW w, NEW q, NEW cb, IsSeq(a), IsSeq(w), IsSeq(q), IsSeq(cb),
           NEW l, l = a \o cb, l = w \o q, AllWrite(w), Stops(cb)
    PROVE  Parted(a, w, q, cb)
  <1>1. cb # <<>> /\ \A k \in 1 .. Len(w) : w[k] # cb[1]
    BY DEF Stops, AllWrite
  <1> QED BY <1>1, PartedAt

-------------------------------------------------------------------------------
\* Lines whose parts are lines.
LEMMA PartsAreLines ==
    ASSUME NEW a, NEW b, IsSeq(a), IsSeq(b), IsLine(a \o b)
    PROVE  IsLine(a) /\ IsLine(b)
  <1> PICK l, m, n : l = a \o b /\ m = Len(a) /\ n = Len(b)
    OBVIOUS
  <1>1. /\ Len(l) = m + n /\ m \in Nat /\ n \in Nat
        /\ \A k \in 1 .. m : l[k] = a[k]
        /\ \A k \in 1 .. n : l[m + k] = b[k]
    BY Concatenated, Sequences
  <1>2. \A k \in 1 .. m : k \in 1 .. m + n
    BY <1>1
  <1>3. \A k \in 1 .. n : m + k \in 1 .. m + n
    BY <1>1
  <1> QED BY <1>1, <1>2, <1>3 DEF IsLine

-------------------------------------------------------------------------------
(* The records of a line of commands, and parts of a log.                   *)

\* The changes in a line's records.
LineChanges(line) == UNION {Range(Changes(line[k].records)) : k \in 1 .. Len(line)}

\* The changes of a log are those of its records.
LEMMA LogElems ==
    ASSUME NEW s, IsLog(s)
    PROVE  \A c : c \in Range(Changes(s)) <=> \E rec \in Range(s) : c \in Range(rec)
  <1>1. IsLists(s) /\ IsSeq(s)
    BY LogIsLists
  <1>2. Range(Changes(s)) = UNION {Range(s[k]) : k \in 1 .. Len(s)}
    BY <1>1, ElemsStrung DEF Changes
  <1>3. Range(s) = {s[k] : k \in 1 .. Len(s)}
    BY <1>1, ElemsOf
  <1> QED BY <1>2, <1>3

\* What a line writes is among its changes.
LEMMA WrittenElems ==
    ASSUME NEW line, IsLine(line)
    PROVE  /\ IsLog(Written(line)) /\ Range(Changes(Written(line))) \subseteq LineChanges(line)
           /\ AllWrite(line) => IsLog(RecordsOf(line)) /\ RecordsOf(line) = Written(line)
                                /\ Range(Changes(RecordsOf(line))) = LineChanges(line)
  <1> PICK t : t = WrittenTable(line)
    OBVIOUS
  <1>1. /\ IsLists(t) /\ Len(t) = Len(line) /\ Written(line) = FlattenSeq(t)
        /\ \A k \in 1 .. Len(line) : t[k] = Payload(line[k]) /\ IsLog(t[k])
    BY TableIs
  <1>2. Range(Written(line)) = UNION {Range(t[k]) : k \in 1 .. Len(line)}
    BY <1>1, ElemsStrung
  <1>3. IsLog(Written(line))
    BY WrittenIsLog
  <1>4. Range(<<>>) = {}
    BY Elems
  <1>5. \A c : c \in LineChanges(line) <=>
                  \E k \in 1 .. Len(line) : c \in Range(Changes(line[k].records))
    BY DEF LineChanges
  <1>6. ASSUME NEW c \in Range(Changes(Written(line))) PROVE c \in LineChanges(line)
    <2>1. PICK rec \in Range(Written(line)) : c \in Range(rec)
      BY <1>3, <1>6, LogElems
    <2>2. PICK k \in 1 .. Len(line) : rec \in Range(t[k])
      BY <1>2
    <2>3. t[k] = line[k].records
      BY <1>1, <1>4, <2>2 DEF Payload
    <2>4. IsLog(line[k].records)
      BY DEF IsLine
    <2>5. c \in Range(Changes(line[k].records))
      BY <2>1, <2>2, <2>3, <2>4, LogElems
    <2> QED BY <1>5, <2>5
  <1>7. ASSUME AllWrite(line), NEW c \in LineChanges(line) PROVE c \in Range(Changes(Written(line)))
    <2>1. PICK k \in 1 .. Len(line) : c \in Range(Changes(line[k].records))
      BY <1>5
    <2>2. t[k] = line[k].records /\ IsLog(t[k])
      BY <1>1, <1>7 DEF Payload, AllWrite
    <2>3. PICK rec \in Range(t[k]) : c \in Range(rec)
      BY <2>1, <2>2, LogElems
    <2>4. rec \in Range(Written(line))
      BY <1>2, <2>3
    <2> QED BY <1>3, <2>3, <2>4, LogElems
  <1>8. AllWrite(line) => RecordsOf(line) = Written(line)
    BY WrittenAll
  <1> QED BY <1>3, <1>6, <1>7, <1>8

\* The changes of a line with one more, and of a part.
LEMMA LineElems ==
    /\ LineChanges(<<>>) = {}
    /\ \A line, c : IsLine(line) => LineChanges(Append(line, c)) =
                                       LineChanges(line) \cup Range(Changes(c.records))
    /\ \A line : IsLine(line) => \A n \in 0 .. Len(line) :
          /\ LineChanges(SubSeq(line, 1, n)) \subseteq LineChanges(line)
          /\ LineChanges(SubSeq(line, n + 1, Len(line))) \subseteq LineChanges(line)
  <1>1. LineChanges(<<>>) = {}
    <2>1. Len(<<>>) = 0 /\ 1 .. 0 = {}
      OBVIOUS
    <2> QED BY <2>1 DEF LineChanges
  <1>2. ASSUME NEW line, NEW c, IsLine(line)
        PROVE  LineChanges(Append(line, c)) = LineChanges(line) \cup Range(Changes(c.records))
    <2> PICK l, n : l = Append(line, c) /\ n = Len(line)
      OBVIOUS
    <2>1. /\ n \in Nat /\ Len(l) = n + 1
          /\ l = [k \in 1 .. n + 1 |-> IF k = n + 1 THEN c ELSE line[k]]
      BY <1>2, Sequences DEF IsLine
    <2>2. l[n + 1] = c /\ \A k \in 1 .. n : l[k] = line[k]
      BY <2>1
    <2>3. \A k \in 1 .. n + 1 : k \in 1 .. n \/ k = n + 1
      BY <2>1
    <2>4. \A k \in 1 .. n : k \in 1 .. n + 1
      BY <2>1
    <2>5. n + 1 \in 1 .. n + 1
      BY <2>1
    <2>6. \A d : d \in LineChanges(l) <=> \E k \in 1 .. n + 1 : d \in Range(Changes(l[k].records))
      BY <2>1 DEF LineChanges
    <2>7. \A d : d \in LineChanges(line) <=> \E k \in 1 .. n : d \in Range(Changes(line[k].records))
      BY DEF LineChanges
    <2>8. \A d : d \in LineChanges(l) <=> d \in LineChanges(line) \/ d \in Range(Changes(c.records))
      BY ONLY <2>2, <2>3, <2>4, <2>5, <2>6, <2>7
    <2> QED BY <2>8
  <1>3. ASSUME NEW line, IsLine(line), NEW n \in 0 .. Len(line)
        PROVE  /\ LineChanges(SubSeq(line, 1, n)) \subseteq LineChanges(line)
               /\ LineChanges(SubSeq(line, n + 1, Len(line))) \subseteq LineChanges(line)
    <2> PICK a, b, m : /\ a = SubSeq(line, 1, n) /\ b = SubSeq(line, n + 1, Len(line))
                       /\ m = Len(line)
      OBVIOUS
    <2>0. IsSeq(line) /\ m \in Nat
      BY <1>3, Sequences DEF IsLine
    <2>1. /\ m - n \in Nat
          /\ IsSeq(a) /\ DOMAIN a = 1 .. n
          /\ \A k \in 1 .. n : a[k] = line[k]
          /\ IsSeq(b) /\ DOMAIN b = 1 .. m - n
          /\ \A k \in 1 .. m - n : b[k] = line[k + n]
      BY <1>3, <2>0, Parts
    <2>2. DOMAIN a = 1 .. Len(a) /\ DOMAIN b = 1 .. Len(b)
      BY <2>1, Sequences
    <2>3. \A k \in 1 .. Len(a) : a[k] = line[k] /\ k \in 1 .. m
      BY <1>3, <2>0, <2>1, <2>2
    <2>4. \A k \in 1 .. Len(b) : b[k] = line[k + n] /\ k + n \in 1 .. m
      BY <1>3, <2>0, <2>1, <2>2
    <2>5. LineChanges(a) \subseteq LineChanges(line)
      BY <2>3 DEF LineChanges
    <2>6. LineChanges(b) \subseteq LineChanges(line)
      BY <2>4 DEF LineChanges
    <2> QED BY <2>5, <2>6
  <1> QED BY <1>1, <1>2, <1>3

\* A log and the part of it that a failed flush or a crash keeps.
LEMMA KeptPart ==
    ASSUME NEW s, IsLog(s), NEW kept \in Prefixes(s)
    PROVE  \E rest : IsLog(kept) /\ IsLog(rest) /\ s = kept \o rest
  <1> PICK m : m = Len(s)
    OBVIOUS
  <1>0. IsSeq(s) /\ m \in Nat
    BY Logs, Sequences
  <1>1. PICK n \in 0 .. m : kept = SubSeq(s, 1, n)
    BY DEF Prefixes
  <1> PICK rest : rest = SubSeq(s, n + 1, Len(s))
    OBVIOUS
  <1>2. /\ m - n \in Nat
        /\ IsSeq(kept) /\ DOMAIN kept = 1 .. n
        /\ \A k \in 1 .. n : kept[k] = s[k]
        /\ IsSeq(rest) /\ DOMAIN rest = 1 .. m - n
        /\ \A k \in 1 .. m - n : rest[k] = s[k + n]
    BY <1>0, <1>1, Parts
  <1>3. Len(kept) = n /\ Len(rest) = m - n
    <2>1. DOMAIN kept = 1 .. Len(kept) /\ DOMAIN rest = 1 .. Len(rest) /\ Len(kept) \in Nat /\ Len(rest) \in Nat
      BY <1>2, Sequences
    <2> QED BY <1>2, <2>1
  <1> PICK u : u = kept \o rest
    OBVIOUS
  <1>4. /\ IsSeq(u) /\ Len(u) = Len(kept) + Len(rest)
        /\ \A k \in 1 .. Len(kept) : u[k] = kept[k]
        /\ \A k \in 1 .. Len(rest) : u[Len(kept) + k] = rest[k]
    BY <1>2, Concatenated
  <1>5. ASSUME NEW k \in 1 .. m PROVE s[k] = u[k]
    <2>1. CASE k \in 1 .. n
      BY <1>2, <1>3, <1>4, <2>1
    <2>2. CASE k > n
      <3>1. k - n \in 1 .. m - n /\ n + (k - n) = k /\ (k - n) + n = k
        BY <1>0, <2>2
      <3>2. u[n + (k - n)] = rest[k - n] /\ rest[k - n] = s[(k - n) + n]
        BY <1>2, <1>3, <1>4, <3>1
      <3> QED BY <3>1, <3>2
    <2>3. k \in 1 .. n \/ k > n
      BY <1>0
    <2> QED BY <2>1, <2>2, <2>3
  <1>6. Len(u) = m
    BY <1>0, <1>3, <1>4
  <1>7. s = u
    BY <1>0, <1>4, <1>5, <1>6, SameList
  <1>8. IsLog(kept)
    BY FirstOfLog
  <1>9. IsLog(rest)
    <2>1. \A k \in 1 .. m - n : k + n \in 1 .. m
      BY <1>0
    <2>2. \A k \in 1 .. Len(rest) : IsRecord(rest[k])
      BY <1>2, <1>3, <2>1, Logs
    <2> QED BY <1>2, <2>2, Logs
  <1> QED BY <1>7, <1>8, <1>9

-------------------------------------------------------------------------------
(* What replaying builds, resource by resource.                            *)

\* Applying a log is rerunning its changes.
LEMMA AllIsRerun ==
    ASSUME NEW store, NEW s, IsLog(s)
    PROVE  /\ ApplyAll(store, s) = Rerun(store, {}, Changes(s))
           /\ ApplyAll(store, s) = ApplyRecord(store, Changes(s))
           /\ IsRecord(Changes(s)) /\ IsSeq(Changes(s))
  BY LogIsLists, AllIsRun, RerunAll

\* Replaying a log and what follows.
LEMMA ReplayJoined ==
    ASSUME NEW s, NEW t, IsLog(s), IsLog(t)
    PROVE  /\ Replay(s \o t) = ApplyAll(Replay(s), t)
           /\ IsLog(s \o t) /\ IsStore(Replay(s)) /\ IsStore(Replay(s \o t))
           /\ Replay(s) = ApplyRecord(Nothing, Changes(s))
  <1>1. IsLog(s \o t) /\ Changes(s \o t) = Changes(s) \o Changes(t)
    BY ChangesJoined
  <1>2. \A u : Replay(u) = ApplyAll(Nothing, u)
    BY DEF Replay, Nothing
  <1>3. /\ ApplyAll(Nothing, s \o t) = ApplyRecord(Nothing, Changes(s) \o Changes(t))
        /\ ApplyAll(Nothing, s) = ApplyRecord(Nothing, Changes(s))
        /\ IsSeq(Changes(s)) /\ IsSeq(Changes(t))
    BY <1>1, AllIsRerun
  <1>4. ApplyAll(ApplyRecord(Nothing, Changes(s)), t) =
           ApplyRecord(ApplyRecord(Nothing, Changes(s)), Changes(t))
    BY AllIsRerun
  <1>5. IsStore(Replay(s)) /\ IsStore(Replay(s \o t))
    BY <1>1, ReplayIsStore
  <1>6. ApplyRecord(Nothing, Changes(s) \o Changes(t)) =
           ApplyRecord(ApplyRecord(Nothing, Changes(s)), Changes(t))
    BY <1>3, RunJoined
  <1> QED BY <1>1, <1>2, <1>3, <1>4, <1>5, <1>6

\* Agreement is an equivalence.
LEMMA AgreeFacts ==
    ASSUME NEW r
    PROVE  /\ \A s : Agree(s, s, r)
           /\ \A s, t : Agree(s, t, r) => Agree(t, s, r)
           /\ \A s, t, u : Agree(s, t, r) /\ Agree(t, u, r) => Agree(s, u, r)
           /\ \A s, t : Agree(s, t, r) => (r \in DOMAIN s <=> r \in DOMAIN t)
           /\ \A s, t : r \notin DOMAIN s /\ r \notin DOMAIN t => Agree(s, t, r)
           /\ \A s, t : r \in DOMAIN s /\ r \in DOMAIN t /\ s[r] = t[r] => Agree(s, t, r)
  BY DEF Agree

\* It lasts under the same records.
LEMMA AgreeAll ==
    ASSUME NEW s, NEW t, IsStore(s), IsStore(t), NEW recs, IsLog(recs), NEW r, Agree(s, t, r)
    PROVE  Agree(ApplyAll(s, recs), ApplyAll(t, recs), r)
  <1>1. Agree(Rerun(s, {}, Changes(recs)), Rerun(t, {}, Changes(recs)), r)
    <2>1. \A c \in Range(Changes(recs)) : c.res = r => (Skipped({}, c) <=> Skipped({}, c))
      OBVIOUS
    <2>2. IsRecord(Changes(recs))
      BY AllIsRerun
    <2> QED BY <2>1, <2>2, RerunAgree
  <1> QED BY <1>1, AllIsRerun

\* Records about other resources.
LEMMA UntouchedAll ==
    ASSUME NEW s, IsStore(s), NEW recs, IsLog(recs), NEW r,
           \A c \in Range(Changes(recs)) : c.res # r
    PROVE  Agree(ApplyAll(s, recs), s, r) /\ IsStore(ApplyAll(s, recs))
  <1>1. IsRecord(Changes(recs)) /\ ApplyAll(s, recs) = Rerun(s, {}, Changes(recs))
    BY AllIsRerun
  <1>2. LET u == Rerun(s, {}, Changes(recs))
        IN  /\ r \in DOMAIN u <=> r \in DOMAIN s
            /\ r \in DOMAIN s => u[r] = s[r]
    BY <1>1, RerunElsewhere
  <1>3. IsStore(ApplyAll(s, recs))
    BY ApplyAllKeeps
  <1> QED BY <1>1, <1>2, <1>3 DEF Agree

\* Records that do not create the resource.
LEMMA AbsentAll ==
    ASSUME NEW s, IsStore(s), NEW recs, IsLog(recs), NEW r, r \notin DOMAIN s,
           \A c \in Range(Changes(recs)) : ~ (c.op = "create" /\ c.res = r)
    PROVE  r \notin DOMAIN ApplyAll(s, recs)
  <1>1. IsRecord(Changes(recs)) /\ ApplyAll(s, recs) = Rerun(s, {}, Changes(recs))
    BY AllIsRerun
  <1> QED BY <1>1, RerunAbsent

\* Where what is in a store comes from.
LEMMA Origins ==
    ASSUME NEW store, IsStore(store), NEW s, IsRecord(s)
    PROVE  LET u == ApplyRecord(store, s)
           IN  \A r \in DOMAIN u :
                 /\ r \in DOMAIN store \/ \E c \in Range(s) : c.op = "create" /\ c.res = r
                 /\ \A i \in Ids : u[r].iv[i] # <<>> =>
                       \/ r \in DOMAIN store /\ store[r].iv[i] # <<>>
                       \/ \E c \in Range(s) : Mentions(c, i) /\ c.res = r
  <1> PICK C : C = Range(s)
    OBVIOUS
  <1>0. s \in Seq(C) /\ \A c \in C : IsChange(c)
    BY RecordElems, ElemsOf
  <1> DEFINE Good(v) == LET u == ApplyRecord(store, v)
           IN  /\ IsStore(u) 
               /\ \A r \in DOMAIN u :
                 /\ r \in DOMAIN store \/ \E c \in C : c.op = "create" /\ c.res = r
                 /\ \A i \in Ids : u[r].iv[i] # <<>> =>
                       \/ r \in DOMAIN store /\ store[r].iv[i] # <<>>
                       \/ \E c \in C : Mentions(c, i) /\ c.res = r
  <1> DEFINE W == {v \in Seq(C) : Good(v)}
  <1>1. <<>> \in W
    BY RunNone
  <1>2. ASSUME NEW v \in Seq(C), v \in W, NEW x \in C PROVE Append(v, x) \in W
    <2>0. Good(v) /\ IsSeq(v) /\ IsChange(x)
      <3>1. Good(v)
        BY <1>2
      <3>2. IsSeq(v)
        BY <1>2, Zenon DEF IsSeq
      <3> QED BY <1>0, <3>1, <3>2
    <2> PICK u, w : u = ApplyRecord(store, v) /\ w = Apply(u, x)
      OBVIOUS
    <2>1. ApplyRecord(store, Append(v, x)) = w
      BY <2>0, RunOne
    <2>2. IsStore(u) /\ IsStore(w)
      <3>1. IsStore(u)
        BY <2>0
      <3> QED BY <2>0, <3>1, ApplyKeeps
    <2>3. ASSUME NEW r \in DOMAIN w
          PROVE  /\ r \in DOMAIN store \/ \E c \in C : c.op = "create" /\ c.res = r
                 /\ \A i \in Ids : w[r].iv[i] # <<>> =>
                       \/ r \in DOMAIN store /\ store[r].iv[i] # <<>>
                       \/ \E c \in C : Mentions(c, i) /\ c.res = r
      <3>0. /\ \A q \in DOMAIN u : q \in DOMAIN store \/ \E c \in C : c.op = "create" /\ c.res = q
            /\ \A q \in DOMAIN u : \A i \in Ids : u[q].iv[i] # <<>> =>
                       \/ q \in DOMAIN store /\ store[q].iv[i] # <<>>
                       \/ \E c \in C : Mentions(c, i) /\ c.res = q
        BY <2>0
      <3>1. CASE r # x.res
        <4>1. r \in DOMAIN u /\ w[r] = u[r]
          BY <2>0, <2>2, <3>1, AppliedElsewhere
        <4> QED BY <3>0, <4>1
      <3>2. CASE r = x.res /\ x.op = "create"
        <4>1. \A i \in Ids : w[r].iv[i] = <<>>
          BY <2>0, <2>2, <3>2, AppliedThere
        <4> QED BY <3>2, <4>1
      <3>3. CASE r = x.res /\ x.op # "create"
        <4>1. x.op # "delete" /\ r \in DOMAIN u
              /\ \A i \in Ids : w[r].iv[i] = IF Interval(x) /\ i = x.id
                                             THEN After(x.op, u[r].iv[i], x.val) ELSE u[r].iv[i]
          <5>1. x.op # "delete"
            BY <2>0, <2>2, <3>3, AppliedThere
          <5>2. r \in DOMAIN u
            BY <2>0, <2>2, <3>3, <5>1, AppliedThere
          <5>3. ASSUME NEW i \in Ids
                PROVE  w[r].iv[i] = IF Interval(x) /\ i = x.id
                                    THEN After(x.op, u[r].iv[i], x.val) ELSE u[r].iv[i]
            BY <2>0, <2>2, <3>3, <5>1, <5>2, AppliedThere
          <5> QED BY <5>1, <5>2, <5>3
        <4>2. ASSUME NEW i \in Ids, w[r].iv[i] # <<>>
              PROVE  \/ r \in DOMAIN store /\ store[r].iv[i] # <<>>
                     \/ \E c \in C : Mentions(c, i) /\ c.res = r
          <5>1. CASE Interval(x) /\ i = x.id
            <6>1. Mentions(x, i)
              BY <5>1 DEF Mentions
            <6> QED BY <3>3, <6>1
          <5>2. CASE ~ (Interval(x) /\ i = x.id)
            BY <3>0, <4>1, <4>2, <5>2
          <5> QED BY <5>1, <5>2
        <4> QED BY <3>0, <4>1, <4>2
      <3> QED BY <3>1, <3>2, <3>3
    <2>4. Good(Append(v, x)) /\ Append(v, x) \in Seq(C)
      <3>1. Append(v, x) \in Seq(C)
        BY <1>2
      <3> QED BY <2>1, <2>2, <2>3, <3>1
    <2> HIDE DEF Good
    <2> QED BY <2>4
  <1> HIDE DEF W
  <1>3. s \in W
    BY <1>0, <1>1, <1>2, ListInduction
  <1>4. Good(s)
    BY <1>3 DEF W
  <1> QED BY <1>4

-------------------------------------------------------------------------------
(* The calls in flight.                                                    *)

Asked(t)      == ChangesOf(calls[t].req)
Creates(t, r) == \E c \in Asked(t) : c.op = "create" /\ c.res = r

\* Ordinary calls hold the locks of what they touch until they have applied,
\* one topology call is in flight at a time, what is being created is nobody
\* else's, and while a compaction is under way no topology call is.
CallsApart ==
    /\ \A t, u \in Busy : t # u =>
          /\ Locks(t) \cap Locks(u) = {}
          /\ ~ (Topology(calls[t].req) /\ Topology(calls[u].req))
    /\ \A t \in Busy : /\ calls[t].at = "applied" => Early(calls[t].req)
                       /\ calls[t].answer = "err" => failed
    /\ \A t, u \in Busy, r \in Resources :
          t # u /\ Creates(t, r) => r \notin Touches(calls[u].req)
    /\ \A t \in Busy, r \in Resources : Creates(t, r) => r \notin DOMAIN mem
    /\ \A t \in Busy : Touches(calls[t].req) \subseteq spent
    /\ DOMAIN mem \subseteq spent
    /\ failed => writing = <<>>
    /\ compactor.at # "idle" => \A t \in Busy : ~Topology(calls[t].req)

\* Calls go on, or end.
Moves ==
    /\ Busy' \subseteq Busy
    /\ \A t \in Busy' :
          /\ calls'[t].req = calls[t].req
          /\ calls'[t].at = "locked" => calls[t].at = "locked"
          /\ calls[t].at = "applied" => calls'[t].at = "applied"
          /\ calls'[t].at = "applied" => calls[t].at = "applied" \/ Early(calls[t].req)
          /\ calls'[t].answer = "err" => calls[t].answer = "err" \/ failed'

\* What callers ask for.
LEMMA RequestFacts ==
    ASSUME NEW q \in Requests
    PROVE  /\ IsLog(q.records) /\ IsRecord(Changes(q.records)) /\ IsSeq(Changes(q.records))
           /\ ChangesOf(q) = Range(Changes(q.records))
           /\ \A c \in ChangesOf(q) : IsChange(c) /\ (Interval(c) => c.id \in Ids)
           /\ FirstMention(Changes(q.records))
           /\ ~Topology(q) => Lasting(Changes(q.records))
           /\ Topology(q) => \E c \in ChangesOf(q) :
                 ChangesOf(q) = {c} /\ c.op = q.kind /\ c.id = c.res
           /\ Touches(q) \subseteq Resources
           /\ Early(q) => ~Topology(q)
  <1>1. IsLog(q.records)
    BY ContentsAssumption
  <1>2. IsRecord(Changes(q.records)) /\ IsSeq(Changes(q.records))
    BY <1>1, AllIsRerun
  <1>3. ChangesOf(q) = Range(Changes(q.records))
    BY DEF ChangesOf
  <1>4. \A c \in ChangesOf(q) : IsChange(c)
    BY <1>2, <1>3, RecordElems
  <1>5. \A c \in ChangesOf(q) : Interval(c) => c.id \in Ids
    BY RequestsAssumption
  <1>6. FirstMention(Changes(q.records))
    <2> PICK all : all = Changes(q.records)
      OBVIOUS
    <2>1. DOMAIN all = 1 .. Len(all) /\ Len(all) \in Nat
      BY <1>2, Sequences
    <2>2. \A k, n \in DOMAIN all :
              all[k].op = "add" /\ Interval(all[n]) /\ all[n].id = all[k].id => n = k
      BY RequestsAssumption
    <2>3. ASSUME NEW k \in 1 .. Len(all), NEW j \in 1 .. Len(all), j < k, all[k].op = "add"
          PROVE  ~Mentions(all[j], all[k].id)
      <3>1. j # k
        BY <2>1, <2>3
      <3> QED BY <2>1, <2>2, <2>3, <3>1 DEF Mentions
    <2> QED BY <2>3 DEF FirstMention
  <1>7. ~Topology(q) => Lasting(Changes(q.records))
    BY <1>3, RequestsAssumption DEF Lasting
  <1>8. ASSUME Topology(q)
        PROVE  \E c \in ChangesOf(q) : ChangesOf(q) = {c} /\ c.op = q.kind /\ c.id = c.res
    <2>1. PICK c \in ChangesOf(q) : /\ q.records = << <<c>> >>
                                    /\ c.op = q.kind /\ c.id = c.res
      BY <1>8, RequestsAssumption
    <2>2. Changes(q.records) = <<c>>
      BY <1>4, <2>1, ChangesOfOne
    <2>3. ChangesOf(q) = {c}
      BY <1>3, <2>2, Elems
    <2> QED BY <2>1, <2>3
  <1>9. Touches(q) \subseteq Resources
    BY <1>4 DEF Touches, IsChange
  <1>10. Early(q) => ~Topology(q)
    BY DEF Early, Takes, Topology
  <1> QED BY <1>1, <1>2, <1>3, <1>4, <1>5, <1>6, <1>7, <1>8, <1>9, <1>10

\* The shape of the calls, from the pipeline's invariant.
LEMMA CallFacts ==
    ASSUME PipelineInv
    PROVE  \A t \in Busy : calls[t].req \in Requests
                           /\ calls[t].at \in {"locked", "queued", "applied"}
  BY DEF PipelineInv, IsTable, IsCall, Busy

\* What keeps CallsApart.
LEMMA CallsKept ==
    ASSUME PipelineInv, CallsApart, Moves, spent \subseteq spent',
           \A r \in DOMAIN mem' : \/ r \in DOMAIN mem
                                  \/ r \in spent' /\ \A t \in Busy' : ~Creates(t, r),
           failed => failed', failed' => writing' = <<>>,
           compactor'.at # "idle" => \/ compactor.at # "idle"
                                     \/ \A t \in Busy' : ~Topology(calls[t].req)
    PROVE  CallsApart'
  <1>1. ASSUME NEW t \in Busy'
        PROVE  /\ t \in Busy /\ calls'[t].req = calls[t].req
               /\ Locks(t)' \subseteq Locks(t) /\ Asked(t)' = Asked(t)
               /\ \A r : Creates(t, r)' <=> Creates(t, r)
    <2>1. t \in Busy /\ calls'[t].req = calls[t].req
      BY DEF Moves
    <2>2. Locks(t)' \subseteq Locks(t)
      BY <2>1 DEF Moves, Locks
    <2>3. Asked(t)' = Asked(t)
      BY <2>1 DEF Asked
    <2> QED BY <2>1, <2>2, <2>3 DEF Creates
  <1>2. ASSUME NEW t \in Busy', NEW u \in Busy', t # u
        PROVE  /\ Locks(t)' \cap Locks(u)' = {}
               /\ ~ (Topology(calls'[t].req) /\ Topology(calls'[u].req))
    <2>1. Locks(t) \cap Locks(u) = {} /\ ~ (Topology(calls[t].req) /\ Topology(calls[u].req))
      BY <1>1, <1>2 DEF CallsApart
    <2> QED BY <1>1, <2>1
  <1>3. ASSUME NEW t \in Busy'
        PROVE  /\ calls'[t].at = "applied" => Early(calls'[t].req)
               /\ calls'[t].answer = "err" => failed'
    BY <1>1 DEF CallsApart, Moves
  <1>4. ASSUME NEW t \in Busy', NEW u \in Busy', NEW r \in Resources, t # u, Creates(t, r)'
        PROVE  r \notin Touches(calls'[u].req)
    BY <1>1, <1>4 DEF CallsApart
  <1>5. ASSUME NEW t \in Busy', NEW r \in Resources, Creates(t, r)'
        PROVE  r \notin DOMAIN mem'
    BY <1>1, <1>5 DEF CallsApart
  <1>6. \A t \in Busy' : Touches(calls'[t].req) \subseteq spent'
    BY <1>1 DEF CallsApart
  <1>7. DOMAIN mem' \subseteq spent'
    BY DEF CallsApart
  <1>8. compactor'.at # "idle" => \A t \in Busy' : ~Topology(calls'[t].req)
    BY <1>1 DEF CallsApart
  <1> QED BY <1>2, <1>3, <1>4, <1>5, <1>6, <1>7, <1>8 DEF CallsApart

\* The ways in which calls go on.
LEMMA MovesSame ==
    ASSUME UNCHANGED calls
    PROVE  Moves
  BY DEF Moves, Busy

\* They are answered,
LEMMA MovesAnswer ==
    ASSUME PipelineInv, NEW commands, NEW outcome, Answer(commands, outcome),
           outcome = "err" => failed'
    PROVE  Moves /\ Busy' = Busy
  <1>1. \A t \in Busy : calls[t] = [req |-> calls[t].req, at |-> calls[t].at, answer |-> calls[t].answer]
    BY DEF PipelineInv, IsTable, IsCall, Busy
  <1>2. Busy' = Busy
    BY DEF Answer, Busy
  <1>3. ASSUME NEW t \in Busy
        PROVE  /\ calls'[t].req = calls[t].req /\ calls'[t].at = calls[t].at
               /\ calls'[t].answer = calls[t].answer \/ calls'[t].answer = outcome
    <2>1. calls'[t] = calls[t] \/ calls'[t] = [calls[t] EXCEPT !.answer = outcome]
      BY DEF Answer
    <2> QED BY <1>1, <2>1
  <1> QED BY <1>2, <1>3 DEF Moves

\* end,
LEMMA MovesEnd ==
    ASSUME NEW t, End(t)
    PROVE  Moves /\ Busy' = Busy \ {t}
  BY DEF Moves, End, Busy

\* or take a step.
LEMMA MovesOn ==
    ASSUME PipelineInv, NEW t \in Busy, NEW at, calls' = [calls EXCEPT ![t].at = at],
           \/ at = "queued" /\ calls[t].at = "locked"
           \/ at = "applied" /\ Early(calls[t].req)
    PROVE  /\ Moves /\ Busy' = Busy
           /\ calls'[t].at = at /\ \A u \in Busy : u # t => calls'[u] = calls[u]
  <1>1. \A u \in Busy : calls[u] = [req |-> calls[u].req, at |-> calls[u].at, answer |-> calls[u].answer]
    BY DEF PipelineInv, IsTable, IsCall, Busy
  <1>2. DOMAIN calls = Busy /\ calls = [u \in Busy |-> calls[u]]
    BY DEF PipelineInv, IsTable, Busy
  <1>3. /\ Busy' = Busy
        /\ calls'[t] = [calls[t] EXCEPT !.at = at]
        /\ \A u \in Busy : u # t => calls'[u] = calls[u]
    BY <1>2 DEF Busy
  <1>4. calls'[t].req = calls[t].req /\ calls'[t].at = at /\ calls'[t].answer = calls[t].answer
    <2> PICK x, y, z, c, d : /\ x = calls[t].req /\ y = calls[t].at /\ z = calls[t].answer
                             /\ c = calls[t] /\ d = calls'[t]
      OBVIOUS
    <2>1. c = [req |-> x, at |-> y, answer |-> z] /\ d = [c EXCEPT !.at = at]
      BY <1>1, <1>3
    <2>2. d.req = x /\ d.at = at /\ d.answer = z
      BY ONLY <2>1
    <2> QED BY <2>2
  <1> QED BY <1>3, <1>4 DEF Moves

\* What applying a call's records to memory adds.
LEMMA AppliedDomain ==
    ASSUME PipelineInv, NEW t \in Busy, NEW r \in DOMAIN ApplyAll(mem, calls[t].req.records)
    PROVE  r \in DOMAIN mem \/ Creates(t, r)
  <1> PICK q : q = calls[t].req
    OBVIOUS
  <1>1. q \in Requests /\ IsStore(mem)
    BY CallFacts DEF PipelineInv, StoresOK
  <1>2. IsRecord(Changes(q.records)) /\ IsLog(q.records) /\ Asked(t) = Range(Changes(q.records))
    BY <1>1, RequestFacts DEF Asked
  <1>3. ApplyAll(mem, q.records) = ApplyRecord(mem, Changes(q.records))
    BY <1>2, AllIsRerun
  <1>4. r \in DOMAIN mem \/ \E c \in Range(Changes(q.records)) : c.op = "create" /\ c.res = r
    BY <1>1, <1>2, <1>3, Origins
  <1> QED BY <1>2, <1>4 DEF Creates

\* Only topology calls create.
LEMMA OrdinaryCreatesNothing ==
    ASSUME PipelineInv, NEW t \in Busy
    PROVE  /\ \A r : Creates(t, r) => Topology(calls[t].req) /\ r \in Touches(calls[t].req)
           /\ Touches(calls[t].req) \subseteq Resources
           /\ Touches(calls[t].req) = {c.res : c \in Asked(t)}
  <1>1. calls[t].req \in Requests
    BY CallFacts
  <1>2. \A c \in ChangesOf(calls[t].req) : c.op \in {"create", "delete"} => Topology(calls[t].req)
    BY <1>1, RequestsAssumption
  <1> QED BY <1>1, <1>2, RequestFacts DEF Creates, Asked, Touches

\* Begin checks the locks and the topology lock.
LEMMA BeginApart ==
    ASSUME PipelineInv, CallsApart, QuietTopology, NEW t \in Tasks, NEW q \in Requests, Begin(t, q)
    PROVE  CallsApart'
  <1>1. /\ t \notin Busy /\ Busy' = Busy \cup {t}
        /\ calls'[t] = [req |-> q, at |-> "locked", answer |-> "none"]
        /\ \A u \in Busy : calls'[u] = calls[u]
    <2>1. calls' = [u \in Busy \cup {t} |->
                    IF u = t THEN [req |-> q, at |-> "locked", answer |-> "none"]
                    ELSE calls[u]]
      BY DEF Begin
    <2>2. t \notin Busy
      BY DEF Begin
    <2> QED BY <2>1, <2>2 DEF Busy
  <1>2. /\ calls'[t].req = q /\ calls'[t].at = "locked" /\ calls'[t].answer = "none"
    BY <1>1
  <1>3. /\ \A r \in Touches(q) : ~Locked(r)
        /\ Topology(q) => \A u \in Busy : ~Topology(calls[u].req)
        /\ Topology(q) => compactor.at = "idle"
        /\ \A c \in ChangesOf(q) : Valid(c) /\ (c.op = "create" => c.res \notin spent)
        /\ spent' = spent \cup {c.id : c \in {d \in ChangesOf(q) : Introduces(d)}}
        /\ UNCHANGED <<mem, failed, writing, compactor>>
    BY DEF Begin, KeepsClear, NeverAgain
  <1>4. ASSUME NEW u \in Busy
        PROVE  /\ Locks(u)' = Locks(u) /\ \A r : Creates(u, r)' <=> Creates(u, r)
               /\ calls'[u] = calls[u] /\ u # t
    BY <1>1 DEF Locks, Creates, Asked
  <1>5. /\ Locks(t)' \subseteq Touches(q)
        /\ \A r : Creates(t, r)' <=> \E c \in ChangesOf(q) : c.op = "create" /\ c.res = r
    BY <1>2 DEF Locks, Creates, Asked
  <1>6. \A u \in Busy : Locks(u) \cap Touches(q) = {}
    BY <1>3 DEF Locked
  <1>7. ASSUME NEW c \in ChangesOf(q), c.op # "create" PROVE c.res \in DOMAIN mem
    <2>1. Valid(c) /\ c.op \in ChangeOps
      BY <1>3, RequestFacts DEF IsChange
    <2>2. CASE c.op \in {"delete", "reshape"}
      BY <2>1, <2>2 DEF Valid
    <2>3. CASE c.op = "add"
      BY <2>1, <2>3 DEF Valid
    <2>4. CASE c.op \in {"update", "remove"}
      BY <2>1, <2>4 DEF Valid
    <2> QED BY <1>7, <2>1, <2>2, <2>3, <2>4 DEF ChangeOps
  <1>8. Touches(q) \subseteq spent'
    <2> SUFFICES ASSUME NEW c \in ChangesOf(q) PROVE c.res \in spent'
      BY DEF Touches
    <2>1. CASE c.op = "create"
      <3>1. Topology(q)
        BY <2>1, RequestsAssumption
      <3>2. c.id = c.res
        BY <3>1, RequestFacts
      <3> QED BY <1>3, <2>1, <3>2 DEF Introduces
    <2>2. CASE c.op # "create"
      BY <1>3, <1>7, <2>2 DEF CallsApart
    <2> QED BY <2>1, <2>2
  <1>9. ASSUME NEW r, \E c \in ChangesOf(q) : c.op = "create" /\ c.res = r
        PROVE  r \notin DOMAIN mem /\ \A u \in Busy : r \notin Touches(calls[u].req)
    <2>1. r \notin spent
      BY <1>3, <1>9
    <2> QED BY <2>1 DEF CallsApart
  <1>10. ASSUME NEW u \in Busy, NEW r, Creates(u, r), NEW c \in ChangesOf(q), c.res = r
         PROVE  FALSE
    <2>1. Topology(calls[u].req) /\ r \in Touches(calls[u].req) /\ r \in Resources
      BY <1>10, OrdinaryCreatesNothing
    <2>2. ~Topology(q)
      BY <1>3, <2>1
    <2>3. c.op # "create"
      BY <2>2, RequestsAssumption
    <2>4. r \in DOMAIN mem
      BY <1>7, <1>10, <2>3
    <2> QED BY <1>10, <2>1, <2>4 DEF CallsApart
  <1>11. \A u, v \in Busy' : u # v =>
            /\ Locks(u)' \cap Locks(v)' = {}
            /\ ~ (Topology(calls'[u].req) /\ Topology(calls'[v].req))
    <2> SUFFICES ASSUME NEW u \in Busy', NEW v \in Busy', u # v
                 PROVE  /\ Locks(u)' \cap Locks(v)' = {}
                        /\ ~ (Topology(calls'[u].req) /\ Topology(calls'[v].req))
      OBVIOUS
    <2>1. CASE u \in Busy /\ v \in Busy
      BY <1>4, <2>1 DEF CallsApart
    <2>2. CASE u = t /\ v \in Busy
      BY <1>2, <1>3, <1>4, <1>5, <1>6, <2>2
    <2>3. CASE v = t /\ u \in Busy
      BY <1>2, <1>3, <1>4, <1>5, <1>6, <2>3
    <2> QED BY <1>1, <2>1, <2>2, <2>3
  <1>12. \A u \in Busy' : /\ calls'[u].at = "applied" => Early(calls'[u].req)
                          /\ calls'[u].answer = "err" => failed'
    BY <1>1, <1>2, <1>3, <1>4 DEF CallsApart
  <1>13. \A u, v \in Busy', r \in Resources :
            u # v /\ Creates(u, r)' => r \notin Touches(calls'[v].req)
    <2> SUFFICES ASSUME NEW u \in Busy', NEW v \in Busy', NEW r \in Resources,
                        u # v, Creates(u, r)'
                 PROVE  r \notin Touches(calls'[v].req)
      OBVIOUS
    <2>1. CASE u \in Busy /\ v \in Busy
      BY <1>4, <2>1 DEF CallsApart
    <2>2. CASE u = t /\ v \in Busy
      BY <1>4, <1>5, <1>9, <2>2
    <2>3. CASE v = t /\ u \in Busy
      <3>1. Creates(u, r)
        BY <1>4, <2>3
      <3> QED BY <1>2, <1>10, <2>3, <3>1 DEF Touches
    <2> QED BY <1>1, <2>1, <2>2, <2>3
  <1>14. \A u \in Busy', r \in Resources : Creates(u, r)' => r \notin DOMAIN mem'
    <2> SUFFICES ASSUME NEW u \in Busy', NEW r \in Resources, Creates(u, r)'
                 PROVE  r \notin DOMAIN mem
      BY <1>3
    <2>1. CASE u \in Busy
      BY <1>4, <2>1 DEF CallsApart
    <2>2. CASE u = t
      BY <1>5, <1>9, <2>2
    <2> QED BY <1>1, <2>1, <2>2
  <1>15. \A u \in Busy' : Touches(calls'[u].req) \subseteq spent'
    BY <1>1, <1>2, <1>3, <1>4, <1>8 DEF CallsApart
  <1>16. DOMAIN mem' \subseteq spent' /\ (failed' => writing' = <<>>)
    BY <1>3 DEF CallsApart
  <1>17. compactor'.at # "idle" => \A u \in Busy' : ~Topology(calls'[u].req)
    BY <1>1, <1>2, <1>3, <1>4 DEF CallsApart
  <1> QED BY <1>11, <1>12, <1>13, <1>14, <1>15, <1>16, <1>17 DEF CallsApart

\* The other steps of a call, of the writer and of the rest.
LEMMA EnqueueApart ==
    ASSUME PipelineInv, CallsApart, NEW t \in Tasks, Enqueue(t)
    PROVE  CallsApart' /\ Moves
  <1>1. /\ t \in Busy /\ calls[t].at = "locked"
        /\ UNCHANGED <<writing, failed, mem, compactor, spent>>
    BY DEF Enqueue
  <1>2. Moves
    <2>1. CASE failed
      <3>1. End(t)
        BY <2>1 DEF Enqueue
      <3> QED BY <3>1, MovesEnd
    <2>2. CASE ~failed
      <3>1. calls' = [calls EXCEPT ![t].at = "queued"]
        BY <2>2 DEF Enqueue
      <3> QED BY <1>1, <3>1, MovesOn
    <2> QED BY <2>1, <2>2
  <1>3. failed' => writing' = <<>>
    BY <1>1 DEF CallsApart
  <1> QED BY <1>1, <1>2, <1>3, CallsKept

\* persist_early.
LEMMA ApplyEarlyApart ==
    ASSUME PipelineInv, CallsApart, NEW t \in Tasks, ApplyEarly(t)
    PROVE  CallsApart' /\ Moves
  <1>1. /\ t \in Busy /\ calls[t].at = "queued" /\ Early(calls[t].req)
        /\ mem' = ApplyAll(mem, calls[t].req.records)
        /\ calls' = [calls EXCEPT ![t].at = "applied"]
        /\ UNCHANGED <<writing, failed, compactor, spent>>
    BY DEF ApplyEarly
  <1>2. Moves
    BY <1>1, MovesOn
  <1>3. \A r : ~Creates(t, r)
    BY <1>1, OrdinaryCreatesNothing DEF Early, Takes, Topology
  <1>4. \A r \in DOMAIN mem' : r \in DOMAIN mem
    BY <1>1, <1>3, AppliedDomain
  <1>5. failed' => writing' = <<>>
    BY <1>1 DEF CallsApart
  <1> QED BY <1>1, <1>2, <1>4, <1>5, CallsKept

\* A call returns.
LEMMA ReturnApart ==
    ASSUME PipelineInv, CallsApart, NEW t \in Tasks, Return(t)
    PROVE  CallsApart' /\ Moves
  <1>1. /\ t \in Busy /\ End(t)
        /\ mem' = mem \/ mem' = ApplyAll(mem, calls[t].req.records)
        /\ UNCHANGED <<writing, failed, compactor, spent>>
    BY DEF Return
  <1>2. Moves /\ Busy' = Busy \ {t}
    BY <1>1, MovesEnd
  <1>3. ASSUME NEW r \in DOMAIN mem'
        PROVE  r \in DOMAIN mem \/ (r \in spent' /\ \A u \in Busy' : ~Creates(u, r))
    <2>1. CASE r \in DOMAIN mem
      BY <2>1
    <2>2. CASE r \notin DOMAIN mem
      <3>1. Creates(t, r)
        BY <1>1, <1>3, <2>2, AppliedDomain
      <3>2. r \in Touches(calls[t].req) /\ r \in Resources
        BY <1>1, <3>1, OrdinaryCreatesNothing
      <3>3. r \in spent
        BY <1>1, <3>2 DEF CallsApart
      <3>4. \A u \in Busy' : ~Creates(u, r)
        BY <1>1, <1>2, <3>2 DEF CallsApart
      <3> QED BY <1>1, <3>3, <3>4
    <2> QED BY <2>1, <2>2
  <1>4. failed' => writing' = <<>>
    BY <1>1 DEF CallsApart
  <1> QED BY <1>1, <1>2, <1>3, <1>4, CallsKept

\* The writer takes a batch, or flushes it.
LEMMA WriterApart ==
    ASSUME PipelineInv, CallsApart,
           \/ TakeBatch \/ FlushOk \/ \E kept : FlushFail(kept)
    PROVE  CallsApart' /\ Moves
  <1>1. UNCHANGED <<mem, spent, compactor>> /\ (failed => failed')
    BY DEF TakeBatch, FlushOk, FlushFail
  <1>2. Moves /\ (failed' => writing' = <<>>)
    <2>1. CASE TakeBatch
      <3>1. CASE failed
        <4>1. Answer(SubSeq(queue, 1, BatchLength), "err") /\ UNCHANGED <<writing, failed>>
          BY <2>1, <3>1 DEF TakeBatch
        <4> QED BY <3>1, <4>1, MovesAnswer DEF CallsApart
      <3>2. CASE ~failed
        <4>1. UNCHANGED <<calls, failed>>
          BY <2>1, <3>2 DEF TakeBatch
        <4> QED BY <3>2, <4>1, MovesSame
      <3> QED BY <3>1, <3>2
    <2>2. CASE FlushOk
      <3>1. Answer(writing, "ok") /\ writing' = <<>>
        BY <2>2 DEF FlushOk
      <3>2. Moves
        BY <3>1, MovesAnswer
      <3> QED BY <3>1, <3>2
    <2>3. CASE \E kept : FlushFail(kept)
      <3>1. Answer(writing, "err") /\ writing' = <<>> /\ failed'
        BY <2>3 DEF FlushFail
      <3>2. Moves
        BY <3>1, MovesAnswer
      <3> QED BY <3>1, <3>2
    <2> QED BY <2>1, <2>2, <2>3
  <1> QED BY <1>1, <1>2, CallsKept

\* The compactor's steps, the writer's part in them, and the collector.
LEMMA QuietApart ==
    ASSUME PipelineInv, CallsApart, QuietTopology,
           HandleBegin => compactor.at # "idle",
           \/ HandleBegin \/ HandleCompact \/ StartCompact \/ ListResources \/ SendCompact
           \/ \E r \in Resources : SnapshotOne(r) \/ Gc(r)
    PROVE  CallsApart' /\ Moves
  <1>1. UNCHANGED <<calls, spent, writing, failed>>
    BY DEF HandleBegin, HandleCompact, StartCompact, ListResources, SendCompact, SnapshotOne, Gc
  <1>2. Moves
    BY <1>1, MovesSame
  <1>3. DOMAIN mem' = DOMAIN mem
    <2>1. CASE \E r \in Resources : Gc(r)
      <3> PICK r \in Resources : Gc(r)
        BY <2>1
      <3> PICK f : mem' = [mem EXCEPT ![r].iv = f]
        BY DEF Gc
      <3> QED OBVIOUS
    <2>2. CASE UNCHANGED mem
      BY <2>2
    <2> QED BY <2>1, <2>2 DEF HandleBegin, HandleCompact, StartCompact, ListResources, SendCompact, SnapshotOne
  <1>4. compactor'.at # "idle" => compactor.at # "idle" \/ \A t \in Busy : ~Topology(calls[t].req)
    <2>1. CASE StartCompact
      BY <2>1 DEF StartCompact, NoneUnderWay
    <2>2. CASE HandleBegin
      BY <2>2
    <2>3. CASE HandleCompact
      <3>1. compactor' = [compactor EXCEPT !.at = "idle"]
        BY <2>3 DEF HandleCompact, Reply
      <3>2. compactor = Compactor(compactor.at, compactor.todo, compactor.snap)
        BY DEF PipelineInv, CompactorOK
      <3>3. compactor'.at = "idle"
        BY <3>1, <3>2 DEF Compactor
      <3> QED BY <3>3
    <2>4. CASE ListResources \/ SendCompact \/ \E r \in Resources : SnapshotOne(r)
      BY <2>4 DEF ListResources, SendCompact, SnapshotOne
    <2>5. CASE \E r \in Resources : Gc(r)
      BY <2>5 DEF Gc
    <2> QED BY <2>1, <2>2, <2>3, <2>4, <2>5
  <1>5. failed' => writing' = <<>>
    BY <1>1 DEF CallsApart
  <1> QED BY <1>1, <1>2, <1>3, <1>4, <1>5, CallsKept DEF Busy

-------------------------------------------------------------------------------
(* Ids.  An interval's id is given to one resource for good; before a call *)
(* has queued its records nobody has heard of the ids it adds.             *)

\* The ids a call adds; the ids of calls that have not queued yet are not heard of.
Adds(t) == {c.id : c \in {d \in Asked(t) : d.op = "add"}}
Checked == {t \in Busy : calls[t].at = "locked"}
Heard   == spent \ UNION {Adds(t) : t \in Checked}

\* A change is about an interval on its owner's list, of an id heard of.
Familiar(c, own, H, P) ==
    /\ Interval(c) => c.id \in Ids /\ c.id \in H /\ own[c.id] = c.res
    /\ c.op = "create" => c.res \in P
Familiars(C, own, H, P) == \A c \in C : Familiar(c, own, H, P)
\* A store has intervals with their owners only.
Holds(store, own, H, P) ==
    /\ DOMAIN store \subseteq P
    /\ \A r \in DOMAIN store, i \in Ids :
          store[r].iv[i] # <<>> => i \in H /\ own[i] = r

\* All that is on disk, recorded or on its way.
Logged == Range(Changes(file)) \cup Range(Changes(recording))
          \cup LineChanges(writing) \cup LineChanges(queue)

\* own is the resource that an interval's id was given to, once and for all.
Known(own) ==
    /\ Familiars(Logged, own, Heard, spent)
    /\ Holds(mem, own, Heard, spent)
    /\ Holds(compactor.snap, own, Heard, spent)
    /\ \A t \in Busy : \A c \in Asked(t) :
          /\ Interval(c) => c.id \in Ids /\ c.id \in spent /\ own[c.id] = c.res
          /\ ~ (t \in Checked /\ c.op = "add") => Familiar(c, own, Heard, spent)
    /\ \A t, u \in Checked : t # u => Adds(t) \cap Adds(u) = {}

IdsKnown == \E own : Known(own)

\* More ids, and the owners of the old ones as they were.
LEMMA FamiliarGrows ==
    ASSUME NEW own, NEW H, NEW P, NEW own2, NEW H2, NEW P2, H \subseteq H2, P \subseteq P2,
           \A i \in H : own2[i] = own[i]
    PROVE  /\ \A c : Familiar(c, own, H, P) => Familiar(c, own2, H2, P2)
           /\ \A C : Familiars(C, own, H, P) => Familiars(C, own2, H2, P2)
           /\ \A store : Holds(store, own, H, P) => Holds(store, own2, H2, P2)
  <1>1. ASSUME NEW c, Familiar(c, own, H, P) PROVE Familiar(c, own2, H2, P2)
    BY <1>1 DEF Familiar
  <1>2. ASSUME NEW store, Holds(store, own, H, P) PROVE Holds(store, own2, H2, P2)
    BY <1>2 DEF Holds
  <1> QED BY <1>1, <1>2 DEF Familiars

\* Replaying what is familiar.
LEMMA HoldsAfter ==
    ASSUME NEW own, NEW H, NEW P, NEW store, IsStore(store), Holds(store, own, H, P),
           NEW s, IsRecord(s), Familiars(Range(s), own, H, P)
    PROVE  Holds(ApplyRecord(store, s), own, H, P)
  <1> PICK u : u = ApplyRecord(store, s)
    OBVIOUS
  <1>1. \A r \in DOMAIN u :
           /\ r \in DOMAIN store \/ \E c \in Range(s) : c.op = "create" /\ c.res = r
           /\ \A i \in Ids : u[r].iv[i] # <<>> =>
                 \/ r \in DOMAIN store /\ store[r].iv[i] # <<>>
                 \/ \E c \in Range(s) : Mentions(c, i) /\ c.res = r
    BY Origins
  <1>2. DOMAIN u \subseteq P
    BY <1>1 DEF Holds, Familiars, Familiar
  <1>3. ASSUME NEW r \in DOMAIN u, NEW i \in Ids, u[r].iv[i] # <<>>
        PROVE  i \in H /\ own[i] = r
    <2>1. CASE r \in DOMAIN store /\ store[r].iv[i] # <<>>
      BY <2>1 DEF Holds
    <2>2. CASE \E c \in Range(s) : Mentions(c, i) /\ c.res = r
      BY <2>2 DEF Mentions, Familiars, Familiar
    <2> QED BY <1>1, <1>3, <2>1, <2>2
  <1> QED BY <1>2, <1>3 DEF Holds

\* Replaying it on nothing.
LEMMA HoldsReplayed ==
    ASSUME NEW own, NEW H, NEW P, NEW s, IsLog(s), Familiars(Range(Changes(s)), own, H, P)
    PROVE  Holds(Replay(s), own, H, P) /\ Holds(Nothing, own, H, P)
  <1>1. IsStore(Nothing) /\ DOMAIN Nothing = {}
    BY ReplayIsStore DEF Nothing
  <1>2. Holds(Nothing, own, H, P)
    BY <1>1 DEF Holds
  <1>3. Replay(s) = ApplyRecord(Nothing, Changes(s)) /\ IsRecord(Changes(s))
    <2>1. Replay(s) = ApplyAll(Nothing, s)
      BY DEF Replay, Nothing
    <2> QED BY <2>1, AllIsRerun
  <1> QED BY <1>1, <1>2, <1>3, HoldsAfter

\* What of the ids is kept while calls go on.
LEMMA HeardGrows ==
    ASSUME PipelineInv, Moves, spent' = spent
    PROVE  /\ Checked' \subseteq Checked /\ \A t \in Busy' : Asked(t)' = Asked(t) /\ Adds(t)' = Adds(t)
           /\ Heard \subseteq Heard' /\ Heard' \subseteq spent
  <1>1. \A t \in Busy' : Asked(t)' = Asked(t) /\ Adds(t)' = Adds(t)
    BY DEF Moves, Asked, Adds
  <1>2. Checked' \subseteq Checked
    BY DEF Moves, Checked
  <1>3. Checked' \subseteq Busy'
    BY DEF Checked
  <1> QED BY <1>1, <1>2, <1>3 DEF Heard

\* What keeps Known.
LEMMA KnownKept ==
    ASSUME PipelineInv, Moves, spent' = spent, NEW own, Known(own),
           \A t \in Busy' \ Checked' : t \notin Checked,
           Logged' \subseteq Logged,
           Holds(mem', own, Heard, spent), Holds(compactor'.snap, own, Heard, spent)
    PROVE  Known(own)'
  <1>1. /\ Checked' \subseteq Checked /\ \A t \in Busy' : Asked(t)' = Asked(t) /\ Adds(t)' = Adds(t)
        /\ Heard \subseteq Heard'
    BY HeardGrows
  <1>2. /\ \A c : Familiar(c, own, Heard, spent) => Familiar(c, own, Heard', spent')
        /\ Holds(mem', own, Heard', spent') /\ Holds(compactor'.snap, own, Heard', spent')
    BY <1>1, FamiliarGrows
  <1>3. Familiars(Logged', own, Heard', spent')
    BY <1>2 DEF Known, Familiars
  <1>4. ASSUME NEW t \in Busy', NEW c \in Asked(t)'
        PROVE  /\ Interval(c) => c.id \in Ids /\ c.id \in spent' /\ own[c.id] = c.res
               /\ ~ (t \in Checked' /\ c.op = "add") => Familiar(c, own, Heard', spent')
    <2>1. t \in Busy /\ c \in Asked(t) /\ (t \in Checked => t \in Checked')
      BY <1>1 DEF Moves
    <2> QED BY <1>2, <2>1 DEF Known
  <1>5. \A t, u \in Checked' : t # u => Adds(t)' \cap Adds(u)' = {}
    <2>1. Checked' \subseteq Busy'
      BY DEF Checked
    <2> QED BY <1>1, <2>1 DEF Known
  <1> QED BY <1>2, <1>3, <1>4, <1>5 DEF Known

\* What a call has queued is familiar.
LEMMA RequestFamiliar ==
    ASSUME PipelineInv, NEW own, Known(own), NEW t \in Busy, t \notin Checked
    PROVE  /\ IsRecord(Changes(calls[t].req.records))
           /\ ApplyAll(mem, calls[t].req.records) = ApplyRecord(mem, Changes(calls[t].req.records))
           /\ Familiars(Range(Changes(calls[t].req.records)), own, Heard, spent)
           /\ Holds(ApplyAll(mem, calls[t].req.records), own, Heard, spent)
  <1> PICK q : q = calls[t].req
    OBVIOUS
  <1>1. q \in Requests /\ IsStore(mem)
    BY CallFacts DEF PipelineInv, StoresOK
  <1>2. IsLog(q.records) /\ IsRecord(Changes(q.records)) /\ Asked(t) = Range(Changes(q.records))
    BY <1>1, RequestFacts DEF Asked
  <1>3. ApplyAll(mem, q.records) = ApplyRecord(mem, Changes(q.records))
    BY <1>2, AllIsRerun
  <1>4. Familiars(Range(Changes(q.records)), own, Heard, spent)
    BY <1>2 DEF Known, Familiars
  <1>5. Holds(mem, own, Heard, spent)
    BY DEF Known
  <1>6. Holds(ApplyRecord(mem, Changes(q.records)), own, Heard, spent)
    BY <1>1, <1>2, <1>4, <1>5, HoldsAfter
  <1> QED BY <1>2, <1>3, <1>4, <1>6

\* New ids get the owner their request names.
LEMMA BeginKnown ==
    ASSUME PipelineInv, ~ReuseIds, NEW own, Known(own),
           NEW t \in Tasks, NEW q \in Requests, Begin(t, q)
    PROVE  IdsKnown'
  <1> PICK new : new = {c \in ChangesOf(q) : c.op = "add"}
    OBVIOUS
  <1> PICK own2 : own2 = [i \in spent' |-> IF \E c \in new : c.id = i
                                        THEN (CHOOSE c \in new : c.id = i).res ELSE own[i]]
    OBVIOUS
  <1>1. /\ t \notin Busy /\ Busy' = Busy \cup {t}
        /\ calls'[t] = [req |-> q, at |-> "locked", answer |-> "none"]
        /\ \A u \in Busy : calls'[u] = calls[u]
    <2>1. calls' = [u \in Busy \cup {t} |->
                    IF u = t THEN [req |-> q, at |-> "locked", answer |-> "none"]
                    ELSE calls[u]]
      BY DEF Begin
    <2>2. t \notin Busy
      BY DEF Begin
    <2> QED BY <2>1, <2>2 DEF Busy
  <1>2. /\ calls'[t].req = q /\ calls'[t].at = "locked"
    BY <1>1
  <1>3. /\ \A c \in ChangesOf(q) : Valid(c) /\ (c.op = "add" => c.id \notin spent)
        /\ spent' = spent \cup {c.id : c \in {d \in ChangesOf(q) : Introduces(d)}}
        /\ UNCHANGED <<mem, file, queue, writing, recording, compactor>>
    BY DEF Begin, NeverAgain
  <1>4. /\ \A u \in Busy : Asked(u)' = Asked(u) /\ Adds(u)' = Adds(u) /\ (u \in Checked' <=> u \in Checked)
        /\ Asked(t)' = ChangesOf(q) /\ Adds(t)' = {c.id : c \in new} /\ t \in Checked'
    BY <1>1, <1>2 DEF Asked, Adds, Checked
  <1>5. Checked' = Checked \cup {t}
    BY <1>1, <1>4 DEF Checked
  <1>6. \A c \in new : c.id \in spent' /\ c.id \notin spent /\ c.id \in Ids
    BY <1>3, RequestFacts DEF Introduces, Interval
  <1>7. Adds(t)' \cap spent = {}
    BY <1>4, <1>6
  <1>8. Heard \subseteq Heard' /\ Heard \subseteq spent /\ spent \subseteq spent'
    <2>1. \A u \in Checked : u \in Busy
      BY DEF Checked
    <2>2. \A u \in Checked : Adds(u)' = Adds(u)
      BY <1>4, <2>1
    <2> QED BY <1>3, <1>5, <1>7, <2>2 DEF Heard
  <1>9. \A i \in spent : own2[i] = own[i]
    BY <1>6, <1>8
  <1>10. ASSUME NEW c \in new PROVE own2[c.id] = c.res /\ c.id \in spent'
    <2>1. \A d \in new : d.id = c.id => d = c
      <3> SUFFICES ASSUME NEW d \in new, d.id = c.id PROVE d = c
        OBVIOUS
      <3> PICK all : all = Changes(q.records)
        OBVIOUS
      <3>1. ChangesOf(q) = {all[n] : n \in DOMAIN all}
        BY DEF ChangesOf, Range
      <3>2. PICK k \in DOMAIN all : all[k] = c
        BY <3>1
      <3>3. PICK n \in DOMAIN all : all[n] = d
        BY <3>1
      <3>4. all[k].op = "add" /\ Interval(all[n]) /\ all[n].id = all[k].id
        BY <3>2, <3>3 DEF Interval
      <3>5. n = k
        BY <3>4, RequestsAssumption
      <3> QED BY <3>2, <3>3, <3>5
    <2>2. (CHOOSE d \in new : d.id = c.id) = c
      BY <2>1
    <2> QED BY <1>6, <2>2
  <1>11. /\ \A c : Familiar(c, own, Heard, spent) => Familiar(c, own2, Heard', spent')
         /\ \A C : Familiars(C, own, Heard, spent) => Familiars(C, own2, Heard', spent')
         /\ \A store : Holds(store, own, Heard, spent) => Holds(store, own2, Heard', spent')
    BY <1>8, <1>9, FamiliarGrows
  <1>12. Logged' = Logged
    BY <1>3 DEF Logged
  <1>13. /\ Familiars(Logged', own2, Heard', spent')
         /\ Holds(mem', own2, Heard', spent') /\ Holds(compactor'.snap, own2, Heard', spent')
    BY <1>3, <1>11, <1>12 DEF Known
  <1>14. ASSUME NEW c \in ChangesOf(q)
         PROVE  /\ Interval(c) => c.id \in Ids /\ c.id \in spent' /\ own2[c.id] = c.res
                /\ c.op # "add" => Familiar(c, own2, Heard', spent')
    <2>1. Valid(c) /\ c.op \in ChangeOps /\ (Interval(c) => c.id \in Ids)
      BY <1>3, RequestFacts DEF IsChange
    <2>2. CASE c.op = "add"
      BY <1>10, <2>1, <2>2 DEF Interval
    <2>3. CASE c.op \in {"update", "remove"}
      <3>1. c.res \in DOMAIN mem /\ mem[c.res].iv[c.id] # <<>>
        BY <2>1, <2>3 DEF Valid
      <3>2. c.id \in Ids /\ c.id \in Heard /\ own[c.id] = c.res
        BY <2>1, <2>3, <3>1 DEF Known, Holds, Interval
      <3>3. Familiar(c, own, Heard, spent)
        BY <2>3, <3>2 DEF Familiar
      <3> QED BY <1>8, <1>9, <1>11, <2>3, <3>2, <3>3
    <2>4. CASE c.op = "create"
      <3>1. Topology(q)
        BY <2>4, RequestsAssumption
      <3>2. c.id = c.res
        BY <3>1, RequestFacts
      <3> QED BY <1>3, <2>4, <3>2 DEF Introduces, Familiar, Interval
    <2>5. CASE c.op \in {"delete", "reshape"}
      BY <2>5 DEF Interval, Familiar
    <2> QED BY <2>1, <2>2, <2>3, <2>4, <2>5 DEF ChangeOps
  <1>15. ASSUME NEW u \in Busy', NEW c \in Asked(u)'
         PROVE  /\ Interval(c) => c.id \in Ids /\ c.id \in spent' /\ own2[c.id] = c.res
                /\ ~ (u \in Checked' /\ c.op = "add") => Familiar(c, own2, Heard', spent')
    <2>1. CASE u = t
      BY <1>4, <1>14, <2>1
    <2>2. CASE u \in Busy
      <3>1. c \in Asked(u) /\ (u \in Checked' <=> u \in Checked)
        BY <1>4, <2>2
      <3> QED BY <1>8, <1>9, <1>11, <2>2, <3>1 DEF Known
    <2> QED BY <1>1, <2>1, <2>2
  <1>16. ASSUME NEW u \in Checked', NEW v \in Checked', u # v
         PROVE  Adds(u)' \cap Adds(v)' = {}
    <2>1. \A w \in Checked : w \in Busy /\ Adds(w)' = Adds(w)
      BY <1>4 DEF Checked
    <2>2. \A w \in Checked : Adds(w) \subseteq spent
      <3> SUFFICES ASSUME NEW w \in Checked, NEW c \in Asked(w), c.op = "add"
                   PROVE  c.id \in spent
        BY DEF Adds
      <3> QED BY <2>1 DEF Known, Interval
    <2>3. CASE u \in Checked /\ v \in Checked
      BY <1>16, <2>1, <2>3 DEF Known
    <2>4. CASE u = t /\ v \in Checked
      BY <1>7, <2>1, <2>2, <2>4
    <2>5. CASE v = t /\ u \in Checked
      BY <1>7, <2>1, <2>2, <2>5
    <2> QED BY <1>5, <1>16, <2>3, <2>4, <2>5
  <1>17. Known(own2)'
    BY <1>13, <1>15, <1>16 DEF Known
  <1> QED BY <1>17 DEF IdsKnown

\* A call queues its records: its ids are heard of.
LEMMA EnqueueKnown ==
    ASSUME PipelineInv, NEW own, Known(own), NEW t \in Tasks, Enqueue(t)
    PROVE  Known(own)'
  <1>1. /\ t \in Busy /\ calls[t].at = "locked"
        /\ UNCHANGED <<file, writing, recording, failed, mem, compactor, spent>>
    BY DEF Enqueue
  <1>2. CASE failed
    <2>1. End(t) /\ UNCHANGED queue
      BY <1>2 DEF Enqueue
    <2>2. Moves /\ Busy' = Busy \ {t} /\ \A u \in Busy' : calls'[u] = calls[u]
      BY <2>1, MovesEnd DEF End, Busy
    <2>3. \A u \in Busy' \ Checked' : u \notin Checked
      BY <2>2 DEF Checked
    <2>4. Logged' = Logged
      BY <1>1, <2>1 DEF Logged
    <2>5. Holds(mem', own, Heard, spent) /\ Holds(compactor'.snap, own, Heard, spent)
      BY <1>1 DEF Known
    <2> QED BY <1>1, <2>2, <2>3, <2>4, <2>5, KnownKept
  <1>3. CASE ~failed
    <2> PICK q : q = calls[t].req
      OBVIOUS
    <2>1. /\ calls' = [calls EXCEPT ![t].at = "queued"]
          /\ \E c : queue' = Append(queue, c) /\ c.records = q.records
      BY <1>3 DEF Enqueue
    <2>2. /\ Moves /\ Busy' = Busy
          /\ calls'[t].at = "queued" /\ \A u \in Busy : u # t => calls'[u] = calls[u]
      BY <1>1, <2>1, MovesOn
    <2>3. /\ Checked' = Checked \ {t} /\ t \in Checked
          /\ \A u \in Busy : Asked(u)' = Asked(u) /\ Adds(u)' = Adds(u)
          /\ Heard \subseteq Heard' /\ Heard' \subseteq spent
      <3>1. \A u \in Busy' : Asked(u)' = Asked(u) /\ Adds(u)' = Adds(u)
        BY <1>1, <2>2, HeardGrows
      <3> QED BY <1>1, <2>2, <3>1, HeardGrows DEF Checked
    <2>4. Asked(t) = Range(Changes(q.records))
      BY <1>1, CallFacts, RequestFacts DEF Asked
    <2>5. \A i \in Adds(t) : i \in Heard' \/ i \notin spent
      <3>1. \A u \in Checked : u \in Busy
        BY DEF Checked
      <3>2. \A u \in Checked' : u \in Checked /\ u # t /\ Adds(u)' = Adds(u)
        BY <2>3, <3>1
      <3>3. \A u \in Checked' : Adds(u)' \cap Adds(t) = {}
        BY <2>3, <3>2 DEF Known
      <3> QED BY <1>1, <3>3 DEF Heard
    <2>6. /\ \A c : Familiar(c, own, Heard, spent) => Familiar(c, own, Heard', spent')
          /\ \A C : Familiars(C, own, Heard, spent) => Familiars(C, own, Heard', spent')
          /\ \A store : Holds(store, own, Heard, spent) => Holds(store, own, Heard', spent')
      BY <1>1, <2>3, FamiliarGrows
    <2>7. ASSUME NEW c \in Asked(t) PROVE Familiar(c, own, Heard', spent')
      <3>1. CASE c.op = "add"
        <4>1. c.id \in Adds(t) /\ c.id \in Ids /\ c.id \in spent /\ own[c.id] = c.res
          BY <1>1, <3>1 DEF Adds, Known, Interval
        <4> QED BY <2>5, <3>1, <4>1 DEF Familiar
      <3>2. CASE c.op # "add"
        BY <1>1, <2>6, <3>2 DEF Known
      <3> QED BY <3>1, <3>2
    <2>8. Logged' = Logged \cup Asked(t)
      <3>1. LineChanges(queue') = LineChanges(queue) \cup Asked(t)
        BY <2>1, <2>4, LineElems DEF PipelineInv, LinesOK
      <3> QED BY <1>1, <3>1 DEF Logged
    <2>9. Familiars(Logged', own, Heard', spent')
      BY <2>6, <2>7, <2>8 DEF Known, Familiars
    <2>10. Holds(mem', own, Heard', spent') /\ Holds(compactor'.snap, own, Heard', spent')
      BY <1>1, <2>6 DEF Known
    <2>11. ASSUME NEW u \in Busy', NEW c \in Asked(u)'
           PROVE  /\ Interval(c) => c.id \in Ids /\ c.id \in spent' /\ own[c.id] = c.res
                  /\ ~ (u \in Checked' /\ c.op = "add") => Familiar(c, own, Heard', spent')
      <3>1. u \in Busy /\ c \in Asked(u)
        BY <2>2, <2>3
      <3>2. Interval(c) => c.id \in Ids /\ c.id \in spent' /\ own[c.id] = c.res
        BY <1>1, <3>1 DEF Known
      <3>3. CASE u = t
        BY <2>7, <3>1, <3>2, <3>3
      <3>4. CASE u # t
        BY <2>3, <2>6, <3>1, <3>2, <3>4 DEF Known
      <3> QED BY <3>3, <3>4
    <2>12. \A u, v \in Checked' : u # v => Adds(u)' \cap Adds(v)' = {}
      <3>1. \A u \in Checked' : u \in Checked /\ Adds(u)' = Adds(u)
        BY <2>3 DEF Checked
      <3> QED BY <3>1 DEF Known
    <2> QED BY <2>9, <2>10, <2>11, <2>12 DEF Known
  <1> QED BY <1>2, <1>3

\* A call applies them.
LEMMA CallerKnown ==
    ASSUME PipelineInv, NEW own, Known(own), NEW t \in Tasks, ApplyEarly(t) \/ Return(t)
    PROVE  Known(own)'
  <1>1. /\ t \in Busy /\ calls[t].at # "locked"
        /\ mem' = mem \/ mem' = ApplyAll(mem, calls[t].req.records)
        /\ UNCHANGED <<file, queue, writing, recording, compactor, spent>>
    BY DEF ApplyEarly, Return
  <1>2. Moves
    <2>1. CASE ApplyEarly(t)
      BY <2>1, MovesOn DEF ApplyEarly
    <2>2. CASE Return(t)
      BY <2>2, MovesEnd DEF Return
    <2> QED BY <2>1, <2>2
  <1>3. \A u \in Busy' \ Checked' : u \notin Checked
    <2>1. CASE ApplyEarly(t)
      <3>1. \A u \in Busy : u # t => calls'[u] = calls[u]
        BY <2>1, MovesOn DEF ApplyEarly
      <3> QED BY <1>1, <1>2, <3>1 DEF Checked, Moves
    <2>2. CASE Return(t)
      <3>1. \A u \in Busy' : calls'[u] = calls[u]
        BY <2>2 DEF Return, End, Busy
      <3> QED BY <1>2, <3>1 DEF Checked, Moves
    <2> QED BY <2>1, <2>2
  <1>4. Logged' = Logged
    BY <1>1 DEF Logged
  <1>5. Holds(mem', own, Heard, spent)
    <2>1. t \notin Checked
      BY <1>1 DEF Checked
    <2>2. Holds(ApplyAll(mem, calls[t].req.records), own, Heard, spent)
      BY <1>1, <2>1, RequestFamiliar
    <2> QED BY <1>1, <2>2 DEF Known
  <1>6. Holds(compactor'.snap, own, Heard, spent)
    BY <1>1 DEF Known
  <1> QED BY <1>1, <1>2, <1>3, <1>4, <1>5, <1>6, KnownKept

\* The changes of two logs, as a set.
LEMMA LogsJoined ==
    ASSUME NEW s, NEW t, IsLog(s), IsLog(t)
    PROVE  /\ IsLog(s \o t)
           /\ Range(Changes(s \o t)) = Range(Changes(s)) \cup Range(Changes(t))
  <1>1. IsSeq(Changes(s)) /\ IsSeq(Changes(t))
    BY LogIsLists
  <1>2. IsLog(s \o t) /\ Changes(s \o t) = Changes(s) \o Changes(t)
    BY ChangesJoined
  <1> QED BY <1>1, <1>2, ElemsJoined

\* A swap writes nothing new.
LEMMA LogMerged ==
    ASSUME NEW s, IsLog(s), NEW recorded, IsLog(recorded)
    PROVE  Range(Changes(MergeRecorded(s, recorded)))
             \subseteq Range(Changes(s)) \cup Range(Changes(recorded))
  <1> PICK D : D = AddedIds(s)
    OBVIOUS
  <1>1. Changes(MergeRecorded(s, recorded)) = Changes(s) \o Kept(D, Changes(recorded))
    BY Merged
  <1>2. IsSeq(Changes(s)) /\ IsSeq(Changes(recorded))
    BY LogIsLists
  <1>3. IsSeq(Kept(D, Changes(recorded))) /\ Range(Kept(D, Changes(recorded))) \subseteq Range(Changes(recorded))
    BY <1>2, KeptElems
  <1> QED BY <1>1, <1>2, <1>3, ElemsJoined

\* The calls and memory are as they were, the answers aside.
LEMMA WriterKnown ==
    ASSUME PipelineInv, NEW own, Known(own),
           \/ TakeBatch \/ FlushOk \/ (\E kept : FlushFail(kept)) \/ HandleBegin \/ HandleCompact
    PROVE  Known(own)'
  <1>1. UNCHANGED <<mem, spent>> /\ compactor'.snap = compactor.snap
    <2>1. CASE HandleBegin \/ HandleCompact
      <3>1. \E at : compactor' = [compactor EXCEPT !.at = at]
        BY <2>1 DEF HandleBegin, HandleCompact, Reply
      <3>2. compactor = Compactor(compactor.at, compactor.todo, compactor.snap)
        BY DEF PipelineInv, CompactorOK
      <3> QED BY <2>1, <3>1, <3>2 DEF HandleBegin, HandleCompact, Compactor
    <2>2. CASE TakeBatch \/ FlushOk \/ \E kept : FlushFail(kept)
      BY <2>2 DEF TakeBatch, FlushOk, FlushFail
    <2> QED BY <2>1, <2>2
  <1>2. Moves /\ \A u \in Busy' \ Checked' : u \notin Checked
    <2>1. CASE UNCHANGED calls
      BY <2>1, MovesSame DEF Checked, Busy
    <2>2. CASE \E commands, outcome : Answer(commands, outcome) /\ (outcome = "err" => failed')
      <3> PICK commands, outcome : Answer(commands, outcome) /\ (outcome = "err" => failed')
        BY <2>2
      <3>1. Moves /\ Busy' = Busy
        BY MovesAnswer
      <3>2. \A u \in Busy : calls'[u].at = calls[u].at
        <4>1. \A u \in Busy : calls[u] = [req |-> calls[u].req, at |-> calls[u].at, answer |-> calls[u].answer]
          BY DEF PipelineInv, IsTable, IsCall, Busy
        <4>2. ASSUME NEW u \in Busy PROVE calls'[u].at = calls[u].at
          <5>1. calls'[u] = calls[u] \/ calls'[u] = [calls[u] EXCEPT !.answer = outcome]
            BY DEF Answer
          <5> QED BY <4>1, <5>1
        <4> QED BY <4>2
      <3> QED BY <3>1, <3>2 DEF Checked
    <2>3. CASE TakeBatch
      BY <2>1, <2>2, <2>3 DEF TakeBatch
    <2>4. CASE FlushOk
      <3>1. "ok" # "err"
        OBVIOUS
      <3> QED BY <2>2, <2>4, <3>1 DEF FlushOk
    <2>5. CASE \E kept : FlushFail(kept)
      BY <2>2, <2>5 DEF FlushFail
    <2>6. CASE HandleBegin \/ HandleCompact
      BY <2>1, <2>6 DEF HandleBegin, HandleCompact
    <2> QED BY <2>3, <2>4, <2>5, <2>6
  <1>3. /\ IsLine(queue) /\ IsLine(writing) /\ AllWrite(writing) /\ IsLog(file) /\ IsLog(recording)
        /\ Changes(<<>>) = <<>> /\ Range(<<>>) = {}
    <2>1. Changes(<<>>) = <<>>
      BY NothingStrung DEF Changes
    <2> QED BY <2>1, Elems DEF PipelineInv, LinesOK, LogsOK
  <1>4. Logged' \subseteq Logged
    <2>1. CASE TakeBatch
      <3>1. BatchLength \in 0 .. Len(queue)
        BY <1>3, <2>1, BatchIsWrites DEF TakeBatch, IsLine, IsSeq
      <3>2. /\ queue' = SubSeq(queue, BatchLength + 1, Len(queue))
            /\ writing' = writing \/ writing' = SubSeq(queue, 1, BatchLength)
            /\ UNCHANGED <<file, recording>>
        BY <2>1 DEF TakeBatch
      <3>3. LineChanges(queue') \subseteq LineChanges(queue)
        BY <1>3, <3>1, <3>2, LineElems
      <3>4. LineChanges(writing') \subseteq LineChanges(queue) \cup LineChanges(writing)
        BY <1>3, <3>1, <3>2, LineElems
      <3> QED BY <3>2, <3>3, <3>4 DEF Logged
    <2>2. CASE FlushOk
      <3>1. /\ file' = file \o RecordsOf(writing) /\ writing' = <<>> /\ UNCHANGED queue
            /\ recording' = recording \/ recording' = recording \o RecordsOf(writing)
        BY <2>2 DEF FlushOk
      <3>2. IsLog(RecordsOf(writing)) /\ Range(Changes(RecordsOf(writing))) = LineChanges(writing)
        BY <1>3, WrittenElems
      <3>3. Range(Changes(file')) = Range(Changes(file)) \cup LineChanges(writing)
        BY <1>3, <3>1, <3>2, LogsJoined
      <3>4. Range(Changes(recording')) \subseteq Range(Changes(recording)) \cup LineChanges(writing)
        <4>1. Range(Changes(recording \o RecordsOf(writing))) = Range(Changes(recording)) \cup LineChanges(writing)
          BY <1>3, <3>2, LogsJoined
        <4> QED BY <3>1, <4>1
      <3>5. LineChanges(writing') = {}
        BY <3>1, LineElems
      <3> QED BY <3>1, <3>3, <3>4, <3>5 DEF Logged
    <2>3. CASE \E kept : FlushFail(kept)
      <3> PICK kept : FlushFail(kept)
        BY <2>3
      <3>1. /\ file' = file \o kept /\ writing' = <<>> /\ UNCHANGED <<queue, recording>>
            /\ kept \in Prefixes(RecordsOf(writing))
        BY DEF FlushFail
      <3>2. IsLog(RecordsOf(writing)) /\ Range(Changes(RecordsOf(writing))) = LineChanges(writing)
        BY <1>3, WrittenElems
      <3>3. PICK rest : IsLog(kept) /\ IsLog(rest) /\ RecordsOf(writing) = kept \o rest
        BY <3>1, <3>2, KeptPart
      <3>4. Range(Changes(kept)) \subseteq LineChanges(writing)
        BY <3>2, <3>3, LogsJoined
      <3>5. Range(Changes(file')) = Range(Changes(file)) \cup Range(Changes(kept))
        BY <1>3, <3>1, <3>3, LogsJoined
      <3>6. LineChanges(writing') = {}
        BY <3>1, LineElems
      <3> QED BY <3>1, <3>4, <3>5, <3>6 DEF Logged
    <2>4. CASE HandleBegin \/ HandleCompact
      <3>1. /\ queue # <<>> /\ queue' = Tail(queue) /\ recording' = <<>> /\ UNCHANGED writing
            /\ file' = file \/ file' = MergeRecorded(Head(queue).records, recording)
        BY <2>4 DEF HandleBegin, HandleCompact
      <3>2. /\ 1 \in 0 .. Len(queue) /\ Tail(queue) = SubSeq(queue, 1 + 1, Len(queue))
            /\ Head(queue) = queue[1] /\ 1 \in 1 .. Len(queue)
        BY <1>3, <3>1, TailIs DEF IsLine, IsSeq
      <3>3. LineChanges(queue') \subseteq LineChanges(queue)
        BY <1>3, <3>1, <3>2, LineElems
      <3>4. IsLog(Head(queue).records) /\ Range(Changes(Head(queue).records)) \subseteq LineChanges(queue)
        BY <1>3, <3>2 DEF IsLine, LineChanges
      <3>5. Range(Changes(MergeRecorded(Head(queue).records, recording)))
              \subseteq LineChanges(queue) \cup Range(Changes(recording))
        BY <1>3, <3>4, LogMerged
      <3> QED BY <1>3, <3>1, <3>3, <3>5 DEF Logged
    <2> QED BY <2>1, <2>2, <2>3, <2>4
  <1>5. Holds(mem', own, Heard, spent) /\ Holds(compactor'.snap, own, Heard, spent)
    BY <1>1 DEF Known
  <1> QED BY <1>1, <1>2, <1>4, <1>5, KnownKept

\* The compactor and the collector.
LEMMA QuietKnown ==
    ASSUME PipelineInv, NEW own, Known(own),
           \/ StartCompact \/ ListResources \/ SendCompact
           \/ \E r \in Resources : SnapshotOne(r) \/ Gc(r)
    PROVE  Known(own)'
  <1>1. UNCHANGED <<calls, spent, writing, failed, file, recording>>
    BY DEF StartCompact, ListResources, SendCompact, SnapshotOne, Gc
  <1>2. Moves /\ \A u \in Busy' \ Checked' : u \notin Checked
    BY <1>1, MovesSame DEF Checked, Busy
  <1>3. /\ IsLine(queue) /\ IsStore(mem) /\ IsStore(compactor.snap)
        /\ Holds(mem, own, Heard, spent) /\ Holds(compactor.snap, own, Heard, spent)
    BY DEF PipelineInv, LinesOK, StoresOK, Known
  <1>4. Holds(Nothing, own, Heard, spent)
    <2>1. DOMAIN Nothing = {}
      BY DEF Nothing
    <2> QED BY <2>1 DEF Holds
  <1>5. CASE StartCompact
    <2>1. /\ \E c : queue' = Append(queue, c) /\ c.records = <<>>
          /\ compactor'.snap = Nothing /\ UNCHANGED mem
      BY <1>5 DEF StartCompact, Compactor
    <2>2. Range(Changes(<<>>)) = {}
      <3>1. Changes(<<>>) = <<>>
        BY NothingStrung DEF Changes
      <3> QED BY <3>1, Elems
    <2>3. LineChanges(queue') = LineChanges(queue)
      <3> PICK c : queue' = Append(queue, c) /\ c.records = <<>>
        BY <2>1
      <3>1. LineChanges(Append(queue, c)) = LineChanges(queue) \cup Range(Changes(c.records))
        BY <1>3, LineElems
      <3> QED BY <2>2, <3>1
    <2>4. Logged' \subseteq Logged
      BY <1>1, <2>3 DEF Logged
    <2> QED BY <1>1, <1>2, <1>3, <1>4, <2>1, <2>4, KnownKept
  <1>6. CASE ListResources
    <2>1. compactor'.snap = Nothing /\ UNCHANGED <<mem, queue>>
      BY <1>6 DEF ListResources, Compactor
    <2>2. Logged' \subseteq Logged
      BY <1>1, <2>1 DEF Logged
    <2> QED BY <1>1, <1>2, <1>3, <1>4, <2>1, <2>2, KnownKept
  <1>7. CASE SendCompact
    <2> PICK S : S = compactor.snap
      OBVIOUS
    <2>1. /\ \E c : queue' = Append(queue, c) /\ c.records = SnapshotRecords(S)
          /\ compactor'.snap = Nothing /\ UNCHANGED mem
      BY <1>7 DEF SendCompact, Compactor
    <2>2. \A c \in Range(Changes(SnapshotRecords(S))) :
             \/ c.op = "create" /\ c.res \in DOMAIN S /\ c.id = c.res
             \/ c.op = "add" /\ c.res \in DOMAIN S /\ c.id \in Ids /\ S[c.res].iv[c.id] # <<>>
      BY <1>3, SnapshotIs
    <2>3. Familiars(Range(Changes(SnapshotRecords(S))), own, Heard, spent)
      BY <1>3, <2>2 DEF Familiars, Familiar, Interval, Holds
    <2>4. LineChanges(queue') = LineChanges(queue) \cup Range(Changes(SnapshotRecords(S)))
      BY <1>3, <2>1, LineElems
    <2>5. Familiars(Logged', own, Heard, spent)
      BY <1>1, <2>3, <2>4 DEF Logged, Known, Familiars
    <2>6. Checked' = Checked /\ Heard' = Heard /\ \A t \in Busy : Asked(t)' = Asked(t) /\ Adds(t)' = Adds(t)
      BY <1>1 DEF Checked, Heard, Asked, Adds, Busy
    <2>7. ASSUME NEW t \in Busy', NEW c \in Asked(t)'
          PROVE  /\ Interval(c) => c.id \in Ids /\ c.id \in spent' /\ own[c.id] = c.res
                 /\ ~ (t \in Checked' /\ c.op = "add") => Familiar(c, own, Heard', spent')
      <3>1. t \in Busy /\ c \in Asked(t)
        BY <1>1, <2>6 DEF Busy
      <3> QED BY <1>1, <2>6, <3>1 DEF Known
    <2>8. \A t, u \in Checked' : t # u => Adds(t)' \cap Adds(u)' = {}
      <3>1. Checked \subseteq Busy
        BY DEF Checked
      <3> QED BY <2>6, <3>1 DEF Known
    <2>9. Holds(mem', own, Heard', spent') /\ Holds(compactor'.snap, own, Heard', spent')
      BY <1>1, <1>3, <1>4, <2>1, <2>6
    <2>10. Familiars(Logged', own, Heard', spent')
      BY <1>1, <2>5, <2>6
    <2> QED BY <2>7, <2>8, <2>9, <2>10 DEF Known
  <1>8. CASE \E r \in Resources : SnapshotOne(r)
    <2> PICK r \in Resources : SnapshotOne(r)
      BY <1>8
    <2> PICK S : S = compactor.snap
      OBVIOUS
    <2>1. /\ compactor'.snap = [s \in DOMAIN S \cup ({r} \cap DOMAIN mem) |->
                                   IF s = r THEN mem[r] ELSE S[s]]
          /\ UNCHANGED <<mem, queue>> /\ compactor.todo \cap DOMAIN S = {} /\ r \in compactor.todo
      BY DEF SnapshotOne, Compactor, PipelineInv, CompactorOK
    <2>2. Holds(compactor'.snap, own, Heard, spent)
      BY <1>3, <2>1 DEF Holds
    <2>3. Logged' \subseteq Logged
      BY <1>1, <2>1 DEF Logged
    <2> QED BY <1>1, <1>2, <1>3, <2>1, <2>2, <2>3, KnownKept
  <1>9. CASE \E r \in Resources : Gc(r)
    <2> PICK r \in Resources : Gc(r)
      BY <1>9
    <2>1. /\ mem' = [mem EXCEPT ![r].iv = [i \in Ids |-> IF i \in PastIds THEN <<>> ELSE @[i]]]
          /\ UNCHANGED <<compactor, queue>> /\ r \in DOMAIN mem
      BY DEF Gc
    <2>2. DOMAIN mem' = DOMAIN mem /\ \A s \in DOMAIN mem : s # r => mem'[s] = mem[s]
      BY <2>1
    <2>3. \A i \in Ids : mem'[r].iv[i] # <<>> => mem[r].iv[i] # <<>>
      <3> PICK x, v : x = mem[r] /\ v = x.iv
        OBVIOUS
      <3>1. x = [shape |-> x.shape, iv |-> x.iv]
        BY <1>3, <2>1 DEF IsStore
      <3>2. mem'[r] = [x EXCEPT !.iv = [i \in Ids |-> IF i \in PastIds THEN <<>> ELSE @[i]]]
        BY <2>1
      <3>3. mem'[r].iv = [i \in Ids |-> IF i \in PastIds THEN <<>> ELSE v[i]]
        BY <3>1, <3>2
      <3> QED BY <3>3
    <2>4. Holds(mem', own, Heard, spent)
      BY <1>3, <2>2, <2>3 DEF Holds
    <2>5. Logged' \subseteq Logged
      BY <1>1, <2>1 DEF Logged
    <2> QED BY <1>1, <1>2, <1>3, <2>1, <2>4, <2>5, KnownKept
  <1> QED BY <1>5, <1>6, <1>7, <1>8, <1>9

\* A restart on a part of what is logged.
LEMMA RestartKnown ==
    ASSUME PipelineInv, NEW own, Known(own), NEW log, IsLog(log), Restart(log),
           Range(Changes(log)) \subseteq Logged
    PROVE  Known(own)'
  <1>1. /\ file' = log /\ mem' = Replay(log) /\ queue' = <<>> /\ writing' = <<>> /\ recording' = <<>>
        /\ compactor'.snap = Nothing /\ Busy' = {} /\ spent' = spent
    BY DEF Restart, Compactor, Nothing, Busy
  <1>2. Checked' = {} /\ Heard' = spent /\ Heard \subseteq spent
    BY <1>1 DEF Checked, Heard
  <1>3. Range(Changes(<<>>)) = {} /\ LineChanges(<<>>) = {}
    <2>1. Changes(<<>>) = <<>>
      BY NothingStrung DEF Changes
    <2> QED BY <2>1, Elems, LineElems
  <1>4. Logged' \subseteq Logged
    BY <1>1, <1>3 DEF Logged
  <1>5. Familiars(Logged', own, spent, spent) /\ Familiars(Range(Changes(log)), own, spent, spent)
    <2>1. \A C : Familiars(C, own, Heard, spent) => Familiars(C, own, spent, spent)
      BY <1>2, FamiliarGrows
    <2> QED BY <1>4, <2>1 DEF Known, Familiars
  <1>6. Holds(Replay(log), own, spent, spent) /\ Holds(Nothing, own, spent, spent)
    BY <1>5, HoldsReplayed
  <1> QED BY <1>1, <1>2, <1>5, <1>6 DEF Known

\* The start: the owner is where InitialStore has it.
LEMMA StartKnown ==
    ASSUME Init
    PROVE  IdsKnown
  <1> PICK S : S = InitialStore
    OBVIOUS
  <1> PICK own : own = [i \in Ids |-> CHOOSE r \in DOMAIN S : S[r].iv[i] # <<>>]
    OBVIOUS
  <1>1. /\ file = SnapshotRecords(S) /\ mem = S /\ queue = <<>> /\ writing = <<>> /\ recording = <<>>
        /\ compactor.snap = Nothing /\ Busy = {} /\ spent = Skip(S) /\ IsStore(S)
    BY ContentsAssumption DEF Init, Skip, Compactor, Busy, Nothing
  <1>2. Checked = {} /\ Heard = spent
    BY <1>1 DEF Checked, Heard
  <1>3. Range(Changes(<<>>)) = {} /\ LineChanges(<<>>) = {} /\ DOMAIN Nothing = {}
    <2>1. Changes(<<>>) = <<>>
      BY NothingStrung DEF Changes
    <2> QED BY <2>1, Elems, LineElems DEF Nothing
  <1>4. /\ \A c \in Range(Changes(SnapshotRecords(S))) :
             \/ c.op = "create" /\ c.res \in DOMAIN S /\ c.id = c.res
             \/ c.op = "add" /\ c.res \in DOMAIN S /\ c.id \in Ids /\ S[c.res].iv[c.id] # <<>>
        /\ \A i \in Ids \ Resources : i \in Skip(S) <=> \E r \in DOMAIN S : S[r].iv[i] # <<>>
        /\ DOMAIN S \subseteq Skip(S)
    BY <1>1, SnapshotIs
  <1>5. ASSUME NEW i \in Ids, NEW r \in DOMAIN S, S[r].iv[i] # <<>>
        PROVE  own[i] = r /\ i \in Skip(S)
    <2>1. \A s \in DOMAIN S : S[s].iv[i] # <<>> => s = r
      BY <1>5, StartAssumption
    <2>2. (CHOOSE s \in DOMAIN S : S[s].iv[i] # <<>>) = r
      BY <1>5, <2>1
    <2>3. i \notin Resources
      BY RequestsAssumption
    <2> QED BY <1>4, <1>5, <2>2, <2>3
  <1>6. Familiars(Logged, own, Heard, spent)
    <2>1. Logged = Range(Changes(SnapshotRecords(S)))
      BY <1>1, <1>3 DEF Logged
    <2>2. ASSUME NEW c \in Range(Changes(SnapshotRecords(S))) PROVE Familiar(c, own, Skip(S), Skip(S))
      BY <1>4, <1>5 DEF Familiar, Interval
    <2> QED BY <1>1, <1>2, <2>1, <2>2 DEF Familiars
  <1>7. Holds(mem, own, Heard, spent) /\ Holds(Nothing, own, Heard, spent)
    BY <1>1, <1>2, <1>3, <1>4, <1>5 DEF Holds
  <1>8. Known(own)
    BY <1>1, <1>2, <1>6, <1>7 DEF Known
  <1> QED BY <1>8 DEF IdsKnown

-------------------------------------------------------------------------------
(* What memory and the log mean while records are on their way.            *)

\* The log with what is on its way to it, and what replaying that builds.
Whole == file \o Pipeline
Built == Replay(Whole)

\* Additions to the log are first mentions.
Firsts == /\ FirstMention(Changes(file))
          /\ ~failed => FirstMention(Changes(Whole))

\* The calls whose records are on their way and not yet in memory.
Touching(r) == {t \in Busy : calls[t].at = "queued" /\ r \in Touches(calls[t].req)}
Gone(r)     == \E t \in Touching(r) : calls[t].req.kind = "delete"

\* Memory is what the log will build, except for the calls on their way: a
\* delete has gone ahead, and applying any other call makes up for it.
InStep(r) ==
    IF Gone(r) THEN r \notin DOMAIN Built
    ELSE IF Touching(r) = {} THEN Agree(mem, Built, r)
    ELSE \A t \in Touching(r) : Agree(ApplyAll(mem, calls[t].req.records), Built, r)

InMemory == ~failed => \A r \in Resources : InStep(r)

-------------------------------------------------------------------------------
(* Where a compaction is, by the commands on the line.                     *)

Begins      == [cmd |-> "CompactBegin", records |-> <<>>, task |-> 0]
Compacts(S) == [cmd |-> "Compact", task |-> 0, records |-> SnapshotRecords(S)]
Line        == writing \o queue

\* c stands between a and b, and both are writes.
Cut(line, a, c, b) == /\ IsSeq(a) /\ IsSeq(b) /\ AllWrite(a) /\ AllWrite(b)
                      /\ line = a \o (<<c>> \o b)

\* The recording is the end of the file.
Recorded == \E old : IsLog(old) /\ file = old \o recording

\* The snapshot and what follows it build what the log and the line do.
Copied(S, todo) ==
    /\ ShortIn(S)
    /\ \A r \in Resources \ todo :
          Agree(Rerun(S, Skip(S), Changes(recording \o Pipeline)), Built, r)

\* a is written before the swap and b after it: the swap then changes nothing.
Swaps(S, a, b) ==
    /\ Recorded /\ ShortIn(S) /\ OnOne(S)
    /\ \A c \in Range(Changes(Written(b))) : c.op = "add" => c.id \notin Skip(S)
    /\ \A r \in Resources : Agree(Rerun(S, Skip(S), Changes(recording \o Written(a))),
                                  Replay(file \o Written(a)), r)

\* Where a compaction is.
AtIdle    == ~window /\ AllWrite(queue)
AtBegun   == /\ ~window
             /\ \E a, b : /\ Cut(Line, a, Begins, b)
                          /\ ~failed => Idem(Changes(Written(b)), Built)
AtCopying == /\ window /\ AllWrite(queue)
             /\ ~failed => Recorded /\ Idem(Changes(recording \o Pipeline), Built)
AtSent    == /\ window
             /\ \E a, b, S : /\ Cut(Line, a, Compacts(S), b) /\ IsStore(S)
                             /\ ~failed => Swaps(S, a, b)

Compacting ==
    /\ compactor.at = "idle" => AtIdle
    /\ compactor.at = "begun" => AtBegun
    /\ compactor.at \in {"listing", "copying"} => AtCopying
    /\ compactor.at = "copying" /\ ~failed => Copied(compactor.snap, compactor.todo)
    /\ compactor.at = "sent" => AtSent

-------------------------------------------------------------------------------
(* How the line moves.                                                      *)

\* The parts of the pipeline.
LEMMA WholeIs ==
    ASSUME PipelineInv
    PROVE  /\ IsLine(Line) /\ IsLog(Pipeline) /\ IsLog(Whole) /\ IsStore(Built)
           /\ Pipeline = Written(writing) \o Written(queue)
           /\ Written(writing) = RecordsOf(writing)
           /\ IsLog(Written(writing)) /\ IsLog(Written(queue))
           /\ Built = ApplyAll(Replay(file), Pipeline)
           /\ Built = ApplyRecord(Nothing, Changes(Whole))
           /\ IsRecord(Changes(Whole)) /\ IsSeq(Changes(Whole))
           /\ Changes(Whole) = Changes(file) \o Changes(Pipeline)
           /\ Range(Changes(Whole)) \subseteq Logged
           /\ IsSeq(Changes(file)) /\ IsSeq(Changes(Pipeline))
  <1>1. IsLine(queue) /\ IsLine(writing) /\ AllWrite(writing) /\ IsLog(file)
    BY DEF PipelineInv, LinesOK, LogsOK
  <1>2. IsLine(Line) /\ Pipeline = Written(writing) \o Written(queue)
    BY <1>1, LinesJoined, WrittenJoined DEF Line, Pipeline
  <1>3. /\ IsLog(Written(writing)) /\ IsLog(Written(queue)) /\ Written(writing) = RecordsOf(writing)
    BY <1>1, WrittenElems
  <1>4. IsLog(Pipeline)
    BY <1>2, <1>3, LogsJoined
  <1>5. IsLog(Whole) /\ IsStore(Built) /\ Built = ApplyAll(Replay(file), Pipeline)
    BY <1>1, <1>4, ReplayJoined DEF Whole, Built
  <1>6. Changes(Whole) = Changes(file) \o Changes(Pipeline)
    BY <1>1, <1>4, ChangesJoined DEF Whole
  <1>7. /\ IsRecord(Changes(Whole)) /\ IsSeq(Changes(Whole))
        /\ IsSeq(Changes(file)) /\ IsSeq(Changes(Pipeline))
    BY <1>1, <1>4, <1>5, LogIsLists
  <1>8. Built = ApplyRecord(Nothing, Changes(Whole))
    <2>1. Replay(Whole) = ApplyAll(Nothing, Whole)
      BY DEF Replay, Nothing
    <2> QED BY <1>5, <2>1, AllIsRerun DEF Built
  <1>9. Range(Changes(Whole)) \subseteq Logged
    <2>1. /\ Range(Changes(Written(writing))) \subseteq LineChanges(writing)
          /\ Range(Changes(Written(queue))) \subseteq LineChanges(queue)
      BY <1>1, WrittenElems
    <2>2. Range(Changes(Pipeline)) = Range(Changes(Written(writing))) \cup Range(Changes(Written(queue)))
      BY <1>2, <1>3, LogsJoined
    <2>3. Range(Changes(Whole)) = Range(Changes(file)) \cup Range(Changes(Pipeline))
      BY <1>1, <1>4, LogsJoined DEF Whole
    <2> QED BY <2>1, <2>2, <2>3 DEF Logged
  <1> QED BY <1>2, <1>3, <1>4, <1>5, <1>6, <1>7, <1>8, <1>9

\* What a command that joins the queue adds to what is on its way.
LEMMA LineGrows ==
    ASSUME PipelineInv, NEW c, IsLog(c.records), queue' = Append(queue, c), UNCHANGED <<file, writing>>
    PROVE  /\ Line' = Line \o <<c>>
           /\ Pipeline' = Pipeline \o Payload(c) /\ Whole' = Whole \o Payload(c)
           /\ IsLog(Payload(c))
  <1>1. IsLine(queue) /\ IsLine(writing) /\ IsSeq(queue) /\ IsSeq(writing)
    BY DEF PipelineInv, LinesOK, IsLine
  <1>2. IsLine(<<c>>) /\ Written(<<c>>) = Payload(c) /\ IsSeq(<<c>>)
    BY WrittenOne, JoinFacts DEF IsLine
  <1>3. queue' = queue \o <<c>>
    BY <1>1, JoinFacts
  <1>4. Line' = Line \o <<c>>
    BY <1>1, <1>2, <1>3, JoinFacts DEF Line
  <1>5. Pipeline = Written(Line) /\ Pipeline' = Written(Line')
    BY DEF Pipeline, Line
  <1>6. Pipeline' = Pipeline \o Payload(c)
    BY <1>2, <1>4, <1>5, WholeIs, WrittenJoined, ZenonT(60)
  <1>7. IsLog(Payload(c))
    <2>1. IsLog(<<>>)
      BY OneChange, EmptyLine
    <2> QED BY <2>1 DEF Payload
  <1>8. IsSeq(file) /\ IsSeq(Pipeline) /\ IsSeq(Payload(c))
    BY <1>7, WholeIs, LogIsLists DEF PipelineInv, LogsOK
  <1>9. (file \o Pipeline) \o Payload(c) = file \o (Pipeline \o Payload(c))
    BY <1>8, JoinFacts
  <1>10. Whole' = Whole \o Payload(c)
    BY <1>6, <1>9 DEF Whole
  <1> QED BY <1>4, <1>6, <1>7, <1>10

\* A batch goes from the queue to the writer.
LEMMA BatchTaken ==
    ASSUME PipelineInv, TakeBatch
    PROVE  /\ UNCHANGED <<file, recording, window, failed, mem, compactor, spent>> /\ writing = <<>>
           /\ \E batch : /\ IsSeq(batch) /\ AllWrite(batch) /\ IsSeq(queue')
                         /\ queue = batch \o queue'
                         /\ failed => writing' = <<>>
                         /\ ~failed => writing' = batch
           /\ ~failed => Line' = Line /\ Pipeline' = Pipeline /\ Whole' = Whole /\ UNCHANGED calls
  <1>1. /\ writing = <<>> /\ queue # <<>> /\ Writes(Head(queue))
        /\ queue' = SubSeq(queue, BatchLength + 1, Len(queue))
        /\ failed => writing' = <<>>
        /\ ~failed => writing' = SubSeq(queue, 1, BatchLength) /\ UNCHANGED calls
        /\ UNCHANGED <<file, recording, window, failed, mem, compactor, spent>>
    BY DEF TakeBatch
  <1>2. IsLine(queue) /\ IsSeq(queue)
    BY DEF PipelineInv, LinesOK, IsLine
  <1> PICK batch : batch = SubSeq(queue, 1, BatchLength)
    OBVIOUS
  <1>3. BatchLength \in 1 .. Len(queue) /\ \A k \in 1 .. BatchLength : Writes(queue[k])
    BY <1>1, <1>2, BatchIsWrites
  <1>4. BatchLength \in 0 .. Len(queue) /\ Len(queue) \in Nat
    BY <1>2, <1>3, Sequences
  <1>5. /\ queue = batch \o queue' /\ IsSeq(batch) /\ IsSeq(queue')
    BY <1>1, <1>2, <1>4, LineDivides
  <1>6. AllWrite(batch)
    <2>1. /\ DOMAIN batch = 1 .. BatchLength
          /\ \A k \in 1 .. BatchLength : batch[k] = queue[k]
      BY <1>2, <1>4, Parts
    <2>2. Len(batch) = BatchLength
      BY <1>4, <1>5, <2>1, Sequences
    <2> QED BY <1>3, <2>1, <2>2 DEF AllWrite
  <1>7. ~failed => Line' = Line
    BY <1>1, <1>2, <1>5, JoinFacts DEF Line
  <1>8. ~failed => Pipeline' = Pipeline /\ Whole' = Whole
    BY <1>1, <1>7 DEF Pipeline, Line, Whole
  <1> QED BY <1>1, <1>5, <1>6, <1>7, <1>8

\* A flush goes from the writer to the file.
LEMMA FlushMoves ==
    ASSUME PipelineInv, writing' = <<>>, UNCHANGED queue
    PROVE  /\ Line' = queue /\ Line = writing \o Line'
           /\ Pipeline' = Written(queue) /\ Pipeline = RecordsOf(writing) \o Pipeline'
           /\ IsLog(RecordsOf(writing)) /\ IsLog(Pipeline')
           /\ file' = file \o RecordsOf(writing) => Whole' = Whole
  <1>1. IsSeq(queue) /\ IsSeq(file)
    BY LogIsLists DEF PipelineInv, LinesOK, IsLine, LogsOK
  <1>2. Line' = queue /\ Line = writing \o queue
    BY <1>1, JoinFacts DEF Line
  <1>3. Pipeline' = Written(queue) /\ Pipeline = RecordsOf(writing) \o Written(queue)
        /\ IsLog(RecordsOf(writing)) /\ IsLog(Written(queue))
    BY <1>2, WholeIs DEF Pipeline, Line
  <1>4. IsSeq(RecordsOf(writing)) /\ IsSeq(Written(queue))
    BY <1>3, LogIsLists
  <1>5. file' = file \o RecordsOf(writing) => Whole' = Whole
    BY <1>1, <1>3, <1>4, JoinFacts, SMTT(30) DEF Whole
  <1> QED BY <1>2, <1>3, <1>5

\* The compactor's command leaves the queue.
LEMMA HeadMoves ==
    ASSUME PipelineInv, writing = <<>>, queue # <<>>, ~Writes(Head(queue)),
           queue' = Tail(queue), UNCHANGED writing
    PROVE  /\ Line = <<Head(queue)>> \o Line' /\ Line = queue /\ Line' = queue'
           /\ IsSeq(Line') /\ IsLine(Line')
           /\ Pipeline' = Pipeline /\ IsLog(Head(queue).records)
  <1>1. IsLine(queue) /\ IsSeq(queue)
    BY DEF PipelineInv, LinesOK, IsLine
  <1>2. queue = <<Head(queue)>> \o queue' /\ IsSeq(queue') /\ Head(queue) = queue[1]
        /\ IsSeq(<<Head(queue)>>)
    BY <1>1, TailIs, JoinFacts
  <1>3. Line = queue /\ Line' = queue'
    BY <1>1, <1>2, JoinFacts DEF Line
  <1>4. IsLine(<<Head(queue)>>) /\ IsLine(queue')
    BY <1>1, <1>2, PartsAreLines
  <1>5. IsLog(Head(queue).records)
    BY <1>1, HeadGoes, LogIsLists DEF PipelineInv, IsLine
  <1>6. Written(<<Head(queue)>>) = <<>>
    BY <1>5, WrittenOne DEF Payload
  <1>7. Written(queue) = <<>> \o Written(queue')
    BY <1>2, <1>4, <1>6, WrittenJoined
  <1>8. IsSeq(Written(queue'))
    BY <1>4, WrittenIsLog, LogIsLists
  <1>9. Pipeline = Written(queue) /\ Pipeline' = Written(queue')
    BY <1>3 DEF Pipeline, Line
  <1> QED BY <1>2, <1>3, <1>4, <1>5, <1>7, <1>8, <1>9, JoinFacts

-------------------------------------------------------------------------------
(* Memory is in step with what is logged.                                   *)

\* A resource that nothing has happened to.
LEMMA InStepKept ==
    ASSUME PipelineInv, PipelineInv', NEW r, InStep(r),
           Agree(mem', mem, r), Agree(Built', Built, r), Touching(r)' = Touching(r),
           \A t \in Touching(r) : calls'[t].req = calls[t].req
    PROVE  InStep(r)'
  <1>1. Gone(r)' <=> Gone(r)
    BY DEF Gone
  <1>2. r \in DOMAIN Built' <=> r \in DOMAIN Built
    BY AgreeFacts
  <1>3. Agree(Built, Built', r)
    BY AgreeFacts
  <1>4. CASE Gone(r)
    BY <1>1, <1>2, <1>4 DEF InStep
  <1>5. CASE ~Gone(r) /\ Touching(r) = {}
    <2>1. Agree(mem, Built, r)
      BY <1>5 DEF InStep
    <2>2. Agree(mem', Built', r)
      BY <1>3, <2>1, AgreeFacts
    <2> QED BY <1>1, <1>5, <2>2 DEF InStep
  <1>6. CASE ~Gone(r) /\ Touching(r) # {}
    <2>1. ASSUME NEW t \in Touching(r)
          PROVE  Agree(ApplyAll(mem', calls'[t].req.records), Built', r)
      <3> PICK q : q = calls[t].req
        OBVIOUS
      <3>1. t \in Busy
        BY DEF Touching
      <3>2. IsLog(q.records) /\ IsStore(mem) /\ IsStore(mem')
        BY <3>1, CallFacts, RequestFacts DEF PipelineInv, StoresOK
      <3>3. Agree(ApplyAll(mem', q.records), ApplyAll(mem, q.records), r)
        BY <3>2, AgreeAll
      <3>4. Agree(ApplyAll(mem, q.records), Built, r)
        BY <1>6 DEF InStep
      <3>5. Agree(ApplyAll(mem', q.records), Built', r)
        BY <1>3, <3>3, <3>4, AgreeFacts
      <3> QED BY <3>5
    <2> QED BY <1>1, <1>6, <2>1 DEF InStep
  <1> QED BY <1>4, <1>5, <1>6

\* An answer changes nobody's place.
LEMMA AnswerTells ==
    ASSUME PipelineInv, NEW commands, NEW outcome, Answer(commands, outcome)
    PROVE  /\ \A r : Touching(r)' = Touching(r)
           /\ \A t \in Busy : calls'[t].req = calls[t].req
  <1>1. \A t \in Busy : calls[t] = [req |-> calls[t].req, at |-> calls[t].at, answer |-> calls[t].answer]
    BY DEF PipelineInv, IsTable, IsCall, Busy
  <1>2. Busy' = Busy
    BY DEF Answer, Busy
  <1>3. ASSUME NEW t \in Busy
        PROVE  calls'[t].req = calls[t].req /\ calls'[t].at = calls[t].at
    <2>1. calls'[t] = calls[t] \/ calls'[t] = [calls[t] EXCEPT !.answer = outcome]
      BY DEF Answer
    <2> QED BY <1>1, <2>1
  <1> QED BY <1>2, <1>3 DEF Touching

\* Memory and what is logged mean what they did, and so do the calls.
LEMMA MemoryKept ==
    ASSUME PipelineInv, PipelineInv', ~failed, InMemory,
           \A r \in Resources : Agree(mem', mem, r) /\ Agree(Built', Built, r),
           UNCHANGED calls \/ \E commands, outcome : Answer(commands, outcome)
    PROVE  InMemory'
  <1>1. /\ \A r : Touching(r)' = Touching(r)
        /\ \A t \in Busy : calls'[t].req = calls[t].req
    <2>1. CASE UNCHANGED calls
      BY <2>1 DEF Touching, Busy
    <2>2. CASE \E commands, outcome : Answer(commands, outcome)
      BY <2>2, AnswerTells
    <2> QED BY <2>1, <2>2
  <1>2. ASSUME NEW r \in Resources PROVE InStep(r)'
    <2>1. InStep(r)
      BY DEF InMemory
    <2>2. \A t \in Touching(r) : calls'[t].req = calls[t].req
      BY <1>1 DEF Touching
    <2> QED BY <1>1, <2>1, <2>2, InStepKept
  <1> QED BY <1>2 DEF InMemory

\* Who else touches what a call is about to change.
LEMMA OneTouches ==
    ASSUME PipelineInv, CallsApart, NEW t \in Busy, calls[t].at # "applied",
           NEW r, r \in Touches(calls[t].req), ~Gone(r), calls[t].req.kind # "delete"
    PROVE  Touching(r) \subseteq {t}
  <1> SUFFICES ASSUME NEW u \in Touching(r), u # t PROVE FALSE
    OBVIOUS
  <1>1. u \in Busy /\ calls[u].at = "queued" /\ r \in Touches(calls[u].req) /\ calls[u].req.kind # "delete"
    BY DEF Touching, Gone
  <1>2. ASSUME NEW w \in Busy, r \in Touches(calls[w].req), calls[w].req.kind # "delete",
               Topology(calls[w].req)
        PROVE  Creates(w, r) /\ r \in Resources
    <2> PICK q : q = calls[w].req
      OBVIOUS
    <2>1. q \in Requests
      BY CallFacts
    <2>2. PICK c \in ChangesOf(q) : ChangesOf(q) = {c} /\ c.op = q.kind
      BY <1>2, <2>1, RequestFacts
    <2>3. c.res = r
      BY <1>2, <2>2 DEF Touches
    <2>4. Touches(q) \subseteq Resources
      BY <2>1, RequestFacts
    <2> QED BY <1>2, <2>2, <2>3, <2>4 DEF Creates, Asked, Topology
  <1>3. CASE Topology(calls[t].req)
    BY <1>1, <1>2, <1>3 DEF CallsApart
  <1>4. CASE Topology(calls[u].req)
    BY <1>1, <1>2, <1>4 DEF CallsApart
  <1>5. CASE ~Topology(calls[t].req) /\ ~Topology(calls[u].req)
    <2>1. r \in Locks(t) /\ r \in Locks(u)
      BY <1>1, <1>5 DEF Locks
    <2> QED BY <1>1, <2>1 DEF CallsApart
  <1> QED BY <1>3, <1>4, <1>5

\* A resource that a delete on its way has taken from the log stays away.
LEMMA GoneStays ==
    ASSUME PipelineInv, CallsApart, NEW r, Gone(r), NEW t \in Busy, calls[t].req.kind # "delete",
           NEW store, IsStore(store), r \notin DOMAIN store
    PROVE  r \notin DOMAIN ApplyAll(store, calls[t].req.records)
  <1> PICK q : q = calls[t].req
    OBVIOUS
  <1>1. IsLog(q.records) /\ Asked(t) = Range(Changes(q.records)) /\ Touches(q) \subseteq Resources
    BY CallFacts, RequestFacts DEF Asked
  <1>2. PICK u \in Busy : r \in Touches(calls[u].req) /\ calls[u].req.kind = "delete"
    BY DEF Gone, Touching
  <1>3. r \in Resources
    BY <1>2, CallFacts, RequestFacts
  <1>4. ~Creates(t, r)
    BY <1>2, <1>3 DEF CallsApart
  <1>5. \A c \in Range(Changes(q.records)) : ~ (c.op = "create" /\ c.res = r)
    BY <1>1, <1>4 DEF Creates
  <1> QED BY <1>1, <1>5, AbsentAll

\* What a delete does.
LEMMA Deleted ==
    ASSUME NEW q \in Requests, q.kind = "delete", NEW store, IsStore(store), NEW r, r \in Touches(q)
    PROVE  r \notin DOMAIN ApplyAll(store, q.records)
  <1>1. PICK c \in ChangesOf(q) : ChangesOf(q) = {c} /\ q.records = << <<c>> >> /\ c.op = "delete"
    <2>1. Topology(q)
      BY DEF Topology
    <2>2. PICK c \in ChangesOf(q) : q.records = << <<c>> >> /\ c.op = "delete"
      BY <2>1, RequestsAssumption
    <2>3. PICK d \in ChangesOf(q) : ChangesOf(q) = {d}
      BY <2>1, RequestFacts
    <2> QED BY <2>2, <2>3
  <1>2. c.res = r /\ IsChange(c)
    BY <1>1, RequestFacts DEF Touches
  <1>3. ApplyAll(store, q.records) = Apply(store, c)
    <2>1. IsLog(q.records) /\ Changes(q.records) = <<c>> /\ ApplyRecord(store, <<c>>) = Apply(store, c)
      BY <1>1, <1>2, ChangesOfOne
    <2> QED BY <2>1, AllIsRerun
  <1> QED BY <1>1, <1>2, <1>3, AppliedThere

\* What a call does not touch.
LEMMA Elsewhere ==
    ASSUME NEW q \in Requests, NEW store, IsStore(store), NEW r, r \notin Touches(q)
    PROVE  Agree(ApplyAll(store, q.records), store, r)
  <1>1. IsLog(q.records) /\ ChangesOf(q) = Range(Changes(q.records))
    BY RequestFacts
  <1>2. \A c \in Range(Changes(q.records)) : c.res # r
    BY <1>1 DEF Touches
  <1> QED BY <1>1, <1>2, UntouchedAll

\* A call's records join the line.
LEMMA EnqueueMemory ==
    ASSUME PipelineInv, PipelineInv', CallsApart, InMemory, NEW t \in Tasks, Enqueue(t), ~failed
    PROVE  InMemory' /\ Whole' = Whole \o calls[t].req.records
           /\ Built' = ApplyAll(Built, calls[t].req.records)
  <1> PICK q : q = calls[t].req
    OBVIOUS
  <1>1. /\ t \in Busy /\ calls[t].at = "locked"
        /\ calls' = [calls EXCEPT ![t].at = "queued"]
        /\ UNCHANGED <<file, writing, mem, failed>>
        /\ \E c : queue' = Append(queue, c) /\ c.records = q.records /\ Writes(c)
    BY DEF Enqueue, Writes
  <1>2. q \in Requests /\ IsLog(q.records) /\ IsStore(mem) /\ IsStore(Built) /\ IsLog(Whole)
    BY <1>1, CallFacts, RequestFacts, WholeIs DEF PipelineInv, StoresOK
  <1>3. Whole' = Whole \o q.records
    <2> PICK c : queue' = Append(queue, c) /\ c.records = q.records /\ Writes(c)
      BY <1>1
    <2> QED BY <1>1, <1>2, LineGrows DEF Payload
  <1>4. Built' = ApplyAll(Built, q.records)
    BY <1>2, <1>3, ReplayJoined DEF Built
  <1>5. /\ Moves /\ Busy' = Busy /\ calls'[t].at = "queued" /\ \A u \in Busy : u # t => calls'[u] = calls[u]
        /\ calls'[t].req = q
    <2>1. Moves /\ Busy' = Busy /\ calls'[t].at = "queued" /\ \A u \in Busy : u # t => calls'[u] = calls[u]
      BY <1>1, MovesOn
    <2> QED BY <1>1, <2>1 DEF Moves
  <1>6. ASSUME NEW r \in Resources, r \notin Touches(q) PROVE InStep(r)'
    <2>1. Touching(r)' = Touching(r) /\ \A u \in Touching(r) : calls'[u].req = calls[u].req
      BY <1>1, <1>5, <1>6 DEF Touching
    <2>2. Agree(Built', Built, r)
      BY <1>2, <1>4, <1>6, Elsewhere
    <2>3. Agree(mem', mem, r) /\ InStep(r)
      BY <1>1, AgreeFacts DEF InMemory
    <2> QED BY <2>1, <2>2, <2>3, InStepKept
  <1>7. ASSUME NEW r \in Resources, r \in Touches(q) PROVE InStep(r)'
    <2>1. /\ Touching(r)' = Touching(r) \cup {t} /\ t \notin Touching(r)
          /\ \A u \in Touching(r) : calls'[u].req = calls[u].req
      BY <1>1, <1>5, <1>7 DEF Touching
    <2>2. InStep(r)
      BY DEF InMemory
    <2>3. CASE q.kind = "delete"
      <3>1. Gone(r)'
        BY <1>5, <2>1, <2>3 DEF Gone
      <3>2. r \notin DOMAIN Built'
        BY <1>2, <1>4, <1>7, <2>3, Deleted
      <3> QED BY <3>1, <3>2 DEF InStep
    <2>4. CASE q.kind # "delete" /\ Gone(r)
      <3>1. Gone(r)'
        BY <2>1, <2>4 DEF Gone
      <3>2. r \notin DOMAIN Built
        BY <2>2, <2>4 DEF InStep
      <3>3. r \notin DOMAIN Built'
        BY <1>1, <1>2, <1>4, <2>4, <3>2, GoneStays
      <3> QED BY <3>1, <3>3 DEF InStep
    <2>5. CASE q.kind # "delete" /\ ~Gone(r)
      <3>1. Touching(r) = {}
        <4>1. calls[t].at # "applied"
          BY <1>1
        <4> QED BY <1>1, <1>7, <2>1, <2>5, <4>1, OneTouches
      <3>2. Touching(r)' = {t} /\ ~Gone(r)'
        BY <1>5, <2>1, <2>5, <3>1 DEF Gone
      <3>3. Agree(mem, Built, r)
        BY <2>2, <2>5, <3>1 DEF InStep
      <3>4. Agree(ApplyAll(mem', q.records), Built', r)
        BY <1>1, <1>2, <1>4, <3>3, AgreeAll
      <3> QED BY <1>5, <3>2, <3>4 DEF InStep
    <2> QED BY <2>3, <2>4, <2>5
  <1>8. InMemory'
    BY <1>6, <1>7 DEF InMemory
  <1> QED BY <1>3, <1>4, <1>8

\* A call applies what it has queued, and goes on or ends.
LEMMA AppliesMemory ==
    ASSUME PipelineInv, PipelineInv', CallsApart, InMemory, ~failed, NEW t \in Busy,
           calls[t].at = "queued", mem' = ApplyAll(mem, calls[t].req.records), Whole' = Whole,
           Busy' \subseteq Busy,
           \A u \in Busy : u # t => u \in Busy' /\ calls'[u] = calls[u],
           t \in Busy' => calls'[t].at = "applied"
    PROVE  InMemory'
  <1> PICK q : q = calls[t].req
    OBVIOUS
  <1>1. q \in Requests /\ IsLog(q.records) /\ IsStore(mem) /\ IsStore(mem') /\ Built' = Built
    BY CallFacts, RequestFacts DEF PipelineInv, StoresOK, Built
  <1>2. \A r : Touching(r)' = Touching(r) \ {t}
    BY DEF Touching
  <1>3. ASSUME NEW r \in Resources, r \notin Touches(q) PROVE InStep(r)'
    <2>1. Touching(r)' = Touching(r) /\ \A u \in Touching(r) : calls'[u].req = calls[u].req
      BY <1>2, <1>3 DEF Touching
    <2>2. Agree(Built', Built, r)
      BY <1>1, AgreeFacts
    <2>3. Agree(mem', mem, r) /\ InStep(r)
      BY <1>1, <1>3, Elsewhere DEF InMemory
    <2> QED BY <2>1, <2>2, <2>3, InStepKept
  <1>4. ASSUME NEW r \in Resources, r \in Touches(q) PROVE InStep(r)'
    <2>1. InStep(r) /\ t \in Touching(r)
      BY <1>4 DEF InMemory, Touching
    <2>2. \A u \in Touching(r)' : u \in Touching(r) /\ u # t /\ u \in Busy /\ calls'[u] = calls[u]
      BY <1>2 DEF Touching
    <2>3. CASE q.kind = "delete"
      <3>1. Gone(r) /\ r \notin DOMAIN Built
        BY <2>1, <2>3 DEF Gone, InStep
      <3>2. r \notin DOMAIN mem'
        BY <1>1, <1>4, <2>3, Deleted DEF PipelineInv, StoresOK
      <3>3. ASSUME NEW u \in Touching(r)'
            PROVE  calls[u].req.kind # "delete"
        <4>1. ~ (Topology(calls[t].req) /\ Topology(calls[u].req))
          BY <2>2 DEF CallsApart
        <4> QED BY <2>3, <4>1 DEF Topology
      <3>4. ~Gone(r)'
        BY <2>2, <3>3 DEF Gone
      <3>5. Agree(mem', Built', r)
        BY <1>1, <3>1, <3>2, AgreeFacts
      <3>6. ASSUME NEW u \in Touching(r)'
            PROVE  Agree(ApplyAll(mem', calls'[u].req.records), Built', r)
        <4>1. r \notin DOMAIN ApplyAll(mem', calls[u].req.records)
          BY <1>1, <2>2, <3>1, <3>2, <3>3, GoneStays
        <4>2. calls'[u] = calls[u]
          BY <2>2
        <4> QED BY <1>1, <3>1, <4>1, <4>2, AgreeFacts
      <3> QED BY <3>4, <3>5, <3>6 DEF InStep
    <2>4. CASE q.kind # "delete" /\ Gone(r)
      <3>1. PICK u \in Touching(r) : calls[u].req.kind = "delete"
        BY <2>4 DEF Gone
      <3>2. u # t /\ u \in Touching(r)' /\ calls'[u] = calls[u]
        BY <1>2, <2>2, <2>4, <3>1
      <3>3. Gone(r)'
        BY <3>1, <3>2 DEF Gone
      <3>4. r \notin DOMAIN Built'
        BY <1>1, <2>1, <2>4 DEF InStep
      <3> QED BY <3>3, <3>4 DEF InStep
    <2>5. CASE q.kind # "delete" /\ ~Gone(r)
      <3>1. Touching(r) = {t}
        BY <1>4, <2>1, <2>5, OneTouches
      <3>2. Touching(r)' = {} /\ ~Gone(r)'
        BY <1>2, <3>1 DEF Gone
      <3>3. Agree(mem', Built', r)
        BY <1>1, <2>1, <2>5, <3>1 DEF InStep
      <3> QED BY <3>2, <3>3 DEF InStep
    <2> QED BY <2>3, <2>4, <2>5
  <1> QED BY <1>3, <1>4 DEF InMemory

\* The two places where a call applies.
LEMMA CallerMemory ==
    ASSUME PipelineInv, PipelineInv', CallsApart, InMemory, NEW t \in Tasks,
           ApplyEarly(t) \/ Return(t), ~failed
    PROVE  InMemory' /\ Whole' = Whole
  <1>1. t \in Busy /\ UNCHANGED <<file, writing, queue, failed>>
    BY DEF ApplyEarly, Return
  <1>2. Whole' = Whole /\ Built' = Built
    BY <1>1 DEF Whole, Pipeline, Built
  <1>3. CASE ApplyEarly(t)
    <2>1. /\ calls[t].at = "queued" /\ mem' = ApplyAll(mem, calls[t].req.records)
          /\ Busy' = Busy /\ calls'[t].at = "applied" /\ \A u \in Busy : u # t => calls'[u] = calls[u]
      BY <1>3, MovesOn DEF ApplyEarly
    <2> QED BY <1>1, <1>2, <2>1, AppliesMemory
  <1>4. CASE Return(t)
    <2>1. /\ Busy' = Busy \ {t} /\ \A u \in Busy : u # t => calls'[u] = calls[u]
      BY <1>4 DEF Return, End, Busy
    <2>2. calls[t].answer = "ok"
      <3>1. calls[t].answer # "none" /\ calls[t].answer # "err"
        BY <1>1, <1>4 DEF Return, Answered, CallsApart
      <3> QED BY <1>1, <3>1 DEF PipelineInv, IsTable, IsCall, Busy
    <2>3. CASE calls[t].at = "queued"
      <3>1. mem' = ApplyAll(mem, calls[t].req.records)
        BY <1>4, <2>2, <2>3 DEF Return
      <3> QED BY <1>1, <1>2, <2>1, <2>3, <3>1, AppliesMemory
    <2>4. CASE calls[t].at # "queued"
      <3>1. UNCHANGED mem
        BY <1>4, <2>4 DEF Return
      <3>2. ASSUME NEW r \in Resources PROVE InStep(r)'
        <4>1. Touching(r)' = Touching(r) /\ \A u \in Touching(r) : calls'[u].req = calls[u].req
          BY <2>1, <2>4 DEF Touching
        <4>2. Agree(mem', mem, r) /\ Agree(Built', Built, r) /\ InStep(r)
          BY <1>2, <3>1, AgreeFacts DEF InMemory
        <4> QED BY <4>1, <4>2, InStepKept
      <3> QED BY <1>2, <3>2 DEF InMemory
    <2> QED BY <2>3, <2>4
  <1> QED BY <1>3, <1>4

\* A call begins.
LEMMA BeginMemory ==
    ASSUME PipelineInv, PipelineInv', InMemory, NEW t \in Tasks, NEW q \in Requests, Begin(t, q), ~failed
    PROVE  InMemory' /\ Whole' = Whole
  <1>1. Whole' = Whole /\ Built' = Built /\ mem' = mem
    BY DEF Begin, Whole, Pipeline, Built
  <1>2. /\ t \notin Busy /\ Busy' = Busy \cup {t}
        /\ calls'[t] = [req |-> q, at |-> "locked", answer |-> "none"]
        /\ \A u \in Busy : calls'[u] = calls[u]
    <2>1. calls' = [u \in Busy \cup {t} |->
                    IF u = t THEN [req |-> q, at |-> "locked", answer |-> "none"]
                    ELSE calls[u]]
      BY DEF Begin
    <2>2. t \notin Busy
      BY DEF Begin
    <2> QED BY <2>1, <2>2 DEF Busy
  <1>3. calls'[t].at = "locked"
    BY <1>2
  <1>4. ASSUME NEW r \in Resources PROVE InStep(r)'
    <2>1. Touching(r)' = Touching(r) /\ \A u \in Touching(r) : calls'[u].req = calls[u].req
      BY <1>2, <1>3 DEF Touching
    <2>2. Agree(mem', mem, r) /\ Agree(Built', Built, r) /\ InStep(r)
      BY <1>1, AgreeFacts DEF InMemory
    <2> QED BY <2>1, <2>2, InStepKept
  <1> QED BY <1>1, <1>4 DEF InMemory

\* Collecting drops what memory and the log need not agree on.
LEMMA GcAgrees ==
    ASSUME IsStore(mem), NEW r \in Resources, Gc(r)
    PROVE  \A s : Agree(mem', mem, s)
  <1>1. /\ mem' = [mem EXCEPT ![r].iv = [i \in Ids |-> IF i \in PastIds THEN <<>> ELSE @[i]]]
        /\ r \in DOMAIN mem
    BY DEF Gc
  <1>2. DOMAIN mem' = DOMAIN mem /\ \A s \in DOMAIN mem : s # r => mem'[s] = mem[s]
    BY <1>1
  <1>3. mem'[r].shape = mem[r].shape /\ \A i \in Ids \ PastIds : mem'[r].iv[i] = mem[r].iv[i]
    <2> PICK x, v : x = mem[r] /\ v = x.iv
      OBVIOUS
    <2>1. x = [shape |-> x.shape, iv |-> x.iv]
      BY <1>1 DEF IsStore
    <2>2. mem'[r] = [x EXCEPT !.iv = [i \in Ids |-> IF i \in PastIds THEN <<>> ELSE @[i]]]
      BY <1>1
    <2>3. mem'[r].iv = [i \in Ids |-> IF i \in PastIds THEN <<>> ELSE v[i]]
      BY <2>1, <2>2
    <2>4. mem'[r].shape = x.shape
      BY <2>1, <2>2
    <2> QED BY <2>3, <2>4
  <1> QED BY <1>2, <1>3 DEF Agree

\* Memory is replayed.
LEMMA RestartMemory ==
    ASSUME NEW log, IsLog(log), Restart(log)
    PROVE  InMemory' /\ Whole' = log /\ Pipeline' = <<>>
  <1>1. /\ file' = log /\ mem' = Replay(log) /\ queue' = <<>> /\ writing' = <<>>
        /\ Busy' = {}
    BY DEF Restart, Nothing, Busy
  <1>2. Pipeline' = <<>>
    <2>1. <<>> \o <<>> = <<>>
      BY EmptyLine, JoinFacts DEF IsLine
    <2> QED BY <1>1, <2>1, WrittenNone DEF Pipeline
  <1>3. Whole' = log
    BY <1>1, <1>2, LogIsLists, JoinFacts DEF Whole
  <1>4. ASSUME NEW r \in Resources PROVE InStep(r)'
    <2>1. Touching(r)' = {} /\ ~Gone(r)'
      BY <1>1 DEF Touching, Gone
    <2>2. Agree(mem', Built', r)
      BY <1>1, <1>3, AgreeFacts DEF Built
    <2> QED BY <2>1, <2>2 DEF InStep
  <1> QED BY <1>2, <1>3, <1>4 DEF InMemory

\* The start.
LEMMA StartMemory ==
    ASSUME Init
    PROVE  InMemory /\ Whole = file /\ Pipeline = <<>>
  <1>1. /\ file = SnapshotRecords(InitialStore) /\ mem = InitialStore /\ queue = <<>> /\ writing = <<>>
        /\ Busy = {} /\ IsStore(InitialStore)
    BY ContentsAssumption DEF Init, Nothing, Busy
  <1>2. Pipeline = <<>>
    <2>1. <<>> \o <<>> = <<>>
      BY EmptyLine, JoinFacts DEF IsLine
    <2> QED BY <1>1, <2>1, WrittenNone DEF Pipeline
  <1>3. IsLog(file) /\ \A r : Agree(Replay(file), mem, r)
    BY <1>1, SnapshotIs
  <1>4. Whole = file
    BY <1>2, <1>3, LogIsLists, JoinFacts DEF Whole
  <1>5. ASSUME NEW r \in Resources PROVE InStep(r)
    <2>1. Touching(r) = {} /\ ~Gone(r)
      BY <1>1 DEF Touching, Gone
    <2>2. Agree(mem, Built, r)
      BY <1>3, <1>4, AgreeFacts DEF Built
    <2> QED BY <2>1, <2>2 DEF InStep
  <1> QED BY <1>2, <1>4, <1>5 DEF InMemory

\* A resource that nobody is changing.
LEMMA SettledAgrees ==
    ASSUME PipelineInv, InMemory, ~failed, NEW r \in Resources, ~Locked(r),
           \A t \in Busy : Topology(calls[t].req) => r \notin Touches(calls[t].req)
    PROVE  Agree(mem, Built, r)
  <1>1. Touching(r) = {}
    <2> SUFFICES ASSUME NEW t \in Touching(r) PROVE FALSE
      OBVIOUS
    <2>1. t \in Busy /\ calls[t].at = "queued" /\ r \in Touches(calls[t].req)
      BY DEF Touching
    <2>2. r \in Locks(t)
      BY <2>1 DEF Locks
    <2> QED BY <2>1, <2>2 DEF Locked
  <1>2. ~Gone(r)
    BY <1>1 DEF Gone
  <1> QED BY <1>1, <1>2 DEF InMemory, InStep

\* Memory and log agree where nobody is changing them.
LEMMA MemoryMatches ==
    ASSUME PipelineInv, InMemory
    PROVE  MemoryMatchesLog
  <1> SUFFICES ASSUME ~failed, NEW r \in Resources, Settled(r)
               PROVE  /\ r \in DOMAIN mem <=> r \in DOMAIN Meaning(file \o Pipeline)
                      /\ r \in DOMAIN mem => Live(mem)[r] = Meaning(file \o Pipeline)[r]
    BY DEF MemoryMatchesLog
  <1>1. Meaning(file \o Pipeline) = Live(Built)
    BY DEF Meaning, Built, Whole
  <1>2. Agree(mem, Built, r)
    BY SettledAgrees DEF Settled, Reshaping
  <1>3. /\ DOMAIN Live(mem) = DOMAIN mem /\ DOMAIN Live(Built) = DOMAIN Built
        /\ r \in DOMAIN mem <=> r \in DOMAIN Built
    BY <1>2 DEF Live, Agree
  <1>4. ASSUME r \in DOMAIN mem PROVE Live(mem)[r] = Live(Built)[r]
    <2> PICK x, y : x = mem[r] /\ y = Built[r]
      OBVIOUS
    <2>1. IsStore(mem) /\ IsStore(Built)
      BY WholeIs DEF PipelineInv, StoresOK
    <2>2. x = [shape |-> x.shape, iv |-> x.iv] /\ y = [shape |-> y.shape, iv |-> y.iv]
      BY <1>3, <1>4, <2>1 DEF IsStore
    <2>3. x.shape = y.shape /\ \A i \in Ids \ PastIds : x.iv[i] = y.iv[i]
      BY <1>2, <1>4 DEF Agree
    <2>4. Live(mem)[r] = [x EXCEPT !.iv = [i \in Ids \ PastIds |-> @[i]]]
      BY <1>4 DEF Live
    <2>5. Live(Built)[r] = [y EXCEPT !.iv = [i \in Ids \ PastIds |-> @[i]]]
      BY <1>3, <1>4 DEF Live
    <2> PICK f, g : f = x.iv /\ g = y.iv
      OBVIOUS
    <2>6. [i \in Ids \ PastIds |-> f[i]] = [i \in Ids \ PastIds |-> g[i]]
      BY <2>3
    <2>7. [x EXCEPT !.iv = [i \in Ids \ PastIds |-> @[i]]] = [shape |-> x.shape, iv |-> [i \in Ids \ PastIds |-> f[i]]]
      BY <2>2
    <2>8. [y EXCEPT !.iv = [i \in Ids \ PastIds |-> @[i]]] = [shape |-> y.shape, iv |-> [i \in Ids \ PastIds |-> g[i]]]
      BY <2>2
    <2> QED BY <2>3, <2>4, <2>5, <2>6, <2>7, <2>8
  <1> QED BY <1>1, <1>3, <1>4

-------------------------------------------------------------------------------
(* Cuts of the line.                                                        *)

\* Lines of writes.
LEMMA WritesJoined ==
    /\ AllWrite(<<>>) /\ IsSeq(<<>>)
    /\ \A c : Writes(c) => AllWrite(<<c>>)
    /\ \A c : AllWrite(<<c>>) => Writes(c)
    /\ \A a, b : IsSeq(a) /\ IsSeq(b) => (AllWrite(a \o b) <=> AllWrite(a) /\ AllWrite(b))
  <1>1. AllWrite(<<>>) /\ IsSeq(<<>>)
    BY EmptyLine DEF IsLine
  <1>2. ASSUME NEW c PROVE AllWrite(<<c>>) <=> Writes(c)
    <2>1. Len(<<c>>) = 1 /\ <<c>>[1] = c
      OBVIOUS
    <2> QED BY <2>1 DEF AllWrite
  <1>3. ASSUME NEW a, NEW b, IsSeq(a), IsSeq(b)
        PROVE  AllWrite(a \o b) <=> AllWrite(a) /\ AllWrite(b)
    <2> PICK m, n, ab : m = Len(a) /\ n = Len(b) /\ ab = a \o b
      OBVIOUS
    <2>1. m \in Nat /\ n \in Nat
      BY <1>3, Sequences
    <2>2. /\ Len(ab) = m + n
          /\ \A k \in 1 .. m : ab[k] = a[k]
          /\ \A k \in 1 .. n : ab[m + k] = b[k]
      BY <1>3, Concatenated
    <2>3. ASSUME AllWrite(ab) PROVE AllWrite(a) /\ AllWrite(b)
      <3>1. ASSUME NEW k \in 1 .. m PROVE Writes(a[k])
        <4>1. k \in 1 .. m + n
          BY <2>1
        <4> QED BY <2>2, <2>3, <4>1 DEF AllWrite
      <3>2. ASSUME NEW k \in 1 .. n PROVE Writes(b[k])
        <4>1. m + k \in 1 .. m + n
          BY <2>1
        <4> QED BY <2>2, <2>3, <4>1 DEF AllWrite
      <3> QED BY <3>1, <3>2 DEF AllWrite
    <2>4. ASSUME AllWrite(a), AllWrite(b) PROVE AllWrite(ab)
      <3>1. ASSUME NEW k \in 1 .. m + n PROVE Writes(ab[k])
        <4>1. CASE k <= m
          <5>1. k \in 1 .. m
            BY <2>1, <4>1
          <5> QED BY <2>2, <2>4, <5>1 DEF AllWrite
        <4>2. CASE k > m
          <5> PICK j : j = k - m
            OBVIOUS
          <5>1. j \in 1 .. n /\ k = m + j
            BY <2>1, <4>2
          <5> QED BY <2>2, <2>4, <5>1 DEF AllWrite
        <4>3. k <= m \/ k > m
          BY <2>1
        <4> QED BY <4>1, <4>2, <4>3
      <3> QED BY <2>2, <3>1 DEF AllWrite
    <2> QED BY <2>3, <2>4
  <1> QED BY <1>1, <1>2, <1>3

\* A command joins a line of writes.
LEMMA CutHere ==
    ASSUME NEW line, IsSeq(line), AllWrite(line), NEW c
    PROVE  Cut(line \o <<c>>, line, c, <<>>)
  <1>1. <<c>> \o <<>> = <<c>>
    BY JoinFacts, ShortLists
  <1> QED BY <1>1, WritesJoined DEF Cut

\* A write joins behind it.
LEMMA CutGrows ==
    ASSUME NEW line, NEW a, NEW c, NEW b, Cut(line, a, c, b), NEW d, Writes(d)
    PROVE  Cut(line \o <<d>>, a, c, b \o <<d>>)
  <1>1. IsSeq(a) /\ IsSeq(b) /\ IsSeq(<<c>>) /\ IsSeq(<<d>>) /\ IsSeq(<<c>> \o b)
        /\ AllWrite(a) /\ AllWrite(b) /\ line = a \o (<<c>> \o b)
    BY JoinFacts, ShortLists DEF Cut
  <1>2. (a \o (<<c>> \o b)) \o <<d>> = a \o ((<<c>> \o b) \o <<d>>)
    BY <1>1, ThreeLists
  <1>3. (<<c>> \o b) \o <<d>> = <<c>> \o (b \o <<d>>)
    BY <1>1, ThreeLists
  <1>4. IsSeq(b \o <<d>>) /\ AllWrite(b \o <<d>>)
    BY <1>1, JoinFacts, WritesJoined
  <1> QED BY <1>1, <1>2, <1>3, <1>4 DEF Cut

\* Writes before it leave.
LEMMA CutShrinks ==
    ASSUME NEW a, NEW c, NEW b, NEW w, NEW q, Cut(w \o q, a, c, b),
           IsSeq(w), IsSeq(q), AllWrite(w), ~Writes(c)
    PROVE  \E e : IsSeq(e) /\ a = w \o e /\ Cut(q, e, c, b)
  <1>1. IsSeq(a) /\ IsSeq(b) /\ AllWrite(a) /\ AllWrite(b) /\ a \o (<<c>> \o b) = w \o q
    BY DEF Cut
  <1> PICK cb : cb = <<c>> \o b
    OBVIOUS
  <1>2. PICK e : IsSeq(e) /\ a = w \o e /\ q = e \o cb
    <2>1. IsSeq(a) /\ IsSeq(w) /\ IsSeq(q) /\ AllWrite(w) /\ a \o cb = w \o q
      BY <1>1
    <2>2. IsSeq(cb) /\ cb # <<>> /\ cb[1] = c
      <3>1. IsSeq(<<c>>) /\ Len(<<c>>) = 1 /\ <<c>>[1] = c /\ Len(b) \in Nat
        BY <1>1, ShortLists, Sequences
      <3>2. IsSeq(cb) /\ Len(cb) = 1 + Len(b) /\ cb[1] = c
        BY <1>1, <3>1, Concatenated
      <3> QED BY <3>1, <3>2, Sequences
    <2>3. ~Writes(cb[1])
      BY <2>2
    <2>4. IsSeq(a) /\ IsSeq(w) /\ IsSeq(q) /\ IsSeq(cb)
      BY <2>1, <2>2
    <2> PICK l : l = w \o q
      OBVIOUS
    <2>5. l = a \o cb /\ l = w \o q
      BY <2>1
    <2>6. AllWrite(w) /\ Stops(cb)
      BY <2>1, <2>2, <2>3 DEF Stops
    <2>7. Parted(a, w, q, cb)
      BY ONLY <2>4, <2>5, <2>6, CutAfter
    <2> QED BY <2>7 DEF Parted
  <1>3. AllWrite(e)
    BY <1>1, <1>2, WritesJoined
  <1> QED BY <1>1, <1>2, <1>3 DEF Cut

\* It is at the head.
LEMMA CutHead ==
    ASSUME NEW a, NEW c, NEW b, NEW d, NEW rest, IsSeq(rest), Cut(<<d>> \o rest, a, c, b),
           ~Writes(d)
    PROVE  a = <<>> /\ c = d /\ b = rest
  <1> PICK line : line = <<d>> \o rest
    OBVIOUS
  <1>1. IsSeq(a) /\ IsSeq(b) /\ AllWrite(a) /\ line = a \o (<<c>> \o b) /\ IsSeq(<<c>>) /\ IsSeq(<<d>>)
        /\ IsSeq(<<c>> \o b)
    BY JoinFacts, ShortLists DEF Cut
  <1>2. line[1] = d /\ Tail(line) = rest
    <2> PICK X : rest \in Seq(X)
      BY DEF IsSeq
    <2>1. rest \in Seq(X \cup {d}) /\ <<d>> \in Seq(X \cup {d})
      OBVIOUS
    <2> QED BY <2>1
  <1>3. CASE a # <<>>
    <2>1. Len(a) \in Nat /\ Len(a) # 0 /\ 1 \in 1 .. Len(a)
      BY <1>1, <1>3, Sequences
    <2>2. \A k \in 1 .. Len(a) : line[k] = a[k]
      BY <1>1, Concatenated
    <2>3. Writes(a[1])
      BY <1>1, <2>1 DEF AllWrite
    <2> QED BY <1>2, <2>1, <2>2, <2>3
  <1>4. CASE a = <<>>
    <2>1. line = <<c>> \o b
      BY <1>1, <1>4, JoinFacts
    <2> PICK X : b \in Seq(X)
      BY <1>1 DEF IsSeq
    <2>2. b \in Seq(X \cup {c}) /\ <<c>> \in Seq(X \cup {c})
      OBVIOUS
    <2>3. line[1] = c /\ Tail(line) = b
      BY <2>1, <2>2
    <2> QED BY <1>2, <1>4, <2>3
  <1> QED BY <1>3, <1>4

\* The changes of two lines.
LEMMA LineChangesJoined ==
    ASSUME NEW a, NEW b, IsSeq(a), IsSeq(b)
    PROVE  LineChanges(a \o b) = LineChanges(a) \cup LineChanges(b)
  <1> PICK m, n, ab : m = Len(a) /\ n = Len(b) /\ ab = a \o b
    OBVIOUS
  <1>1. m \in Nat /\ n \in Nat
    BY Sequences
  <1>2. /\ Len(ab) = m + n
        /\ \A k \in 1 .. m : ab[k] = a[k]
        /\ \A k \in 1 .. n : ab[m + k] = b[k]
    BY Concatenated
  <1>3. ASSUME NEW k \in 1 .. m + n
        PROVE  \/ \E j \in 1 .. m : ab[k] = a[j]
               \/ \E j \in 1 .. n : ab[k] = b[j]
    <2>1. CASE k <= m
      <3>1. k \in 1 .. m
        BY <1>1, <2>1
      <3> QED BY <1>2, <3>1
    <2>2. CASE k > m
      <3> PICK j : j = k - m
        OBVIOUS
      <3>1. j \in 1 .. n /\ k = m + j
        BY <1>1, <2>2
      <3> QED BY <1>2, <3>1
    <2>3. k <= m \/ k > m
      BY <1>1
    <2> QED BY <2>1, <2>2, <2>3
  <1>4. \A j \in 1 .. m : \E k \in 1 .. m + n : a[j] = ab[k]
    <2> SUFFICES ASSUME NEW j \in 1 .. m PROVE \E k \in 1 .. m + n : a[j] = ab[k]
      OBVIOUS
    <2>1. j \in 1 .. m + n
      BY <1>1
    <2> QED BY <1>2, <2>1
  <1>5. \A j \in 1 .. n : \E k \in 1 .. m + n : b[j] = ab[k]
    <2> SUFFICES ASSUME NEW j \in 1 .. n PROVE \E k \in 1 .. m + n : b[j] = ab[k]
      OBVIOUS
    <2>1. m + j \in 1 .. m + n
      BY <1>1
    <2> QED BY <1>2, <2>1
  <1>6. /\ \A x : x \in LineChanges(ab) <=> \E k \in 1 .. m + n : x \in Range(Changes(ab[k].records))
        /\ \A x : x \in LineChanges(a) <=> \E k \in 1 .. m : x \in Range(Changes(a[k].records))
        /\ \A x : x \in LineChanges(b) <=> \E k \in 1 .. n : x \in Range(Changes(b[k].records))
    BY <1>2 DEF LineChanges
  <1>7. ASSUME NEW x \in LineChanges(ab) PROVE x \in LineChanges(a) \/ x \in LineChanges(b)
    BY <1>3, <1>6, <1>7
  <1>8. ASSUME NEW x \in LineChanges(a) PROVE x \in LineChanges(ab)
    BY <1>4, <1>6, <1>8
  <1>9. ASSUME NEW x \in LineChanges(b) PROVE x \in LineChanges(ab)
    BY <1>5, <1>6, <1>9
  <1> QED BY <1>7, <1>8, <1>9

\* What a cut of the line means for what is written.
LEMMA CutWrites ==
    ASSUME PipelineInv, NEW a, NEW c, NEW b, Cut(Line, a, c, b), ~Writes(c)
    PROVE  /\ IsLine(a) /\ IsLine(b) /\ IsLog(Written(a)) /\ IsLog(Written(b))
           /\ Pipeline = Written(a) \o Written(b)
           /\ IsLog(file \o Written(a)) /\ Whole = (file \o Written(a)) \o Written(b)
           /\ IsLog(c.records) /\ Range(Changes(c.records)) \subseteq Logged
           /\ Range(Changes(Written(a))) \subseteq Logged
           /\ Range(Changes(Written(b))) \subseteq Logged
  <1>1. IsSeq(a) /\ IsSeq(b) /\ IsSeq(<<c>>) /\ IsSeq(<<c>> \o b) /\ Line = a \o (<<c>> \o b)
    BY JoinFacts, ShortLists DEF Cut
  <1>2. IsLine(Line) /\ Pipeline = Written(Line) /\ IsLog(file)
    BY WholeIs DEF Pipeline, Line, PipelineInv, LogsOK
  <1>3. IsLine(a) /\ IsLine(<<c>> \o b)
    BY <1>1, <1>2, PartsAreLines
  <1>4. IsLine(<<c>>) /\ IsLine(b)
    BY <1>1, <1>3, PartsAreLines
  <1>5. IsLog(c.records)
    <2>1. Len(<<c>>) = 1 /\ <<c>>[1] = c
      OBVIOUS
    <2> QED BY <1>4, <2>1 DEF IsLine
  <1>6. Written(<<c>>) = <<>>
    BY <1>5, WrittenOne DEF Payload
  <1>7. IsLog(Written(a)) /\ IsLog(Written(b))
    BY <1>3, <1>4, WrittenIsLog
  <1>8. IsSeq(Written(a)) /\ IsSeq(Written(b)) /\ IsSeq(file)
    BY <1>2, <1>7, LogIsLists
  <1>9. Written(<<c>> \o b) = Written(b)
    <2>1. Written(<<c>> \o b) = Written(<<c>>) \o Written(b)
      BY <1>4, WrittenJoined
    <2> QED BY <1>6, <1>8, <2>1, JoinFacts
  <1>10. Pipeline = Written(a) \o Written(b)
    BY <1>1, <1>2, <1>3, <1>9, WrittenJoined
  <1>11. Whole = (file \o Written(a)) \o Written(b) /\ IsLog(file \o Written(a))
    BY <1>2, <1>7, <1>8, <1>10, JoinFacts, LogsJoined, SMTT(30) DEF Whole
  <1>12. /\ LineChanges(Line) = LineChanges(a) \cup LineChanges(<<c>> \o b)
         /\ LineChanges(<<c>> \o b) = LineChanges(<<c>>) \cup LineChanges(b)
    BY <1>1, LineChangesJoined
  <1>13. LineChanges(Line) \subseteq Logged
    <2>1. IsSeq(writing) /\ IsSeq(queue)
      BY DEF PipelineInv, LinesOK, IsLine
    <2>2. LineChanges(Line) = LineChanges(writing) \cup LineChanges(queue)
      BY <2>1, LineChangesJoined DEF Line
    <2> QED BY <2>2 DEF Logged
  <1>14. LineChanges(<<c>>) = Range(Changes(c.records))
    <2>1. Len(<<c>>) = 1 /\ <<c>>[1] = c
      OBVIOUS
    <2> QED BY <2>1 DEF LineChanges
  <1>15. Range(Changes(Written(a))) \subseteq LineChanges(a) /\ Range(Changes(Written(b))) \subseteq LineChanges(b)
    BY <1>3, <1>4, WrittenElems
  <1> QED BY <1>3, <1>4, <1>5, <1>7, <1>10, <1>11, <1>12, <1>13, <1>14, <1>15

-------------------------------------------------------------------------------
(* Additions are first mentions, whatever is flushed.                       *)

\* What replaying first mentions builds.
LEMMA FirstsFacts ==
    ASSUME PipelineInv, Firsts, ~failed
    PROVE  FirstMention(Changes(Whole)) /\ AllShort(Built)
  <1>1. FirstMention(Changes(Whole)) /\ IsRecord(Changes(Whole)) /\ Built = ApplyRecord(Nothing, Changes(Whole))
    BY WholeIs DEF Firsts
  <1> QED BY <1>1, ShortLogged

\* A part of what is logged, and the rest.
LEMMA FrontAndBack ==
    ASSUME NEW front, NEW s, IsLog(front), IsLog(s)
    PROVE  /\ IsLog(front \o s) /\ IsRecord(Changes(s)) /\ IsRecord(Changes(front))
           /\ Changes(front \o s) = Changes(front) \o Changes(s)
           /\ FirstMention(Changes(front \o s)) =>
                 FirstMention(Changes(front)) /\ FirstMention(Changes(s))
           /\ Range(Changes(s)) \subseteq Range(Changes(front \o s))
  <1>1. /\ IsLog(front \o s) /\ Changes(front \o s) = Changes(front) \o Changes(s)
        /\ IsSeq(Changes(front)) /\ IsSeq(Changes(s)) /\ IsRecord(Changes(s)) /\ IsRecord(Changes(front))
    BY ChangesJoined, LogIsLists
  <1>2. FirstMention(Changes(front) \o Changes(s)) => FirstMention(Changes(front)) /\ FirstMention(Changes(s))
    BY <1>1, FirstJoined
  <1>3. Range(Changes(s)) \subseteq Range(Changes(front \o s))
    BY LogsJoined
  <1> QED BY <1>1, <1>2, <1>3

\* A part of what is logged.
LEMMA PartIs ==
    ASSUME PipelineInv, Firsts, ~failed, NEW front, NEW s, IsLog(front), IsLog(s), Whole = front \o s
    PROVE  /\ IsRecord(Changes(s)) /\ FirstMention(Changes(s)) /\ FirstMention(Changes(front))
           /\ Range(Changes(s)) \subseteq Logged
  <1>1. FirstMention(Changes(Whole)) /\ Range(Changes(Whole)) \subseteq Logged
    BY FirstsFacts, WholeIs
  <1> QED BY <1>1, FrontAndBack

\* Nobody has heard of what a call is about to add.
LEMMA NewRecords ==
    ASSUME PipelineInv, NEW own, Known(own), NEW t \in Busy, calls[t].at = "locked"
    PROVE  /\ IsLog(calls[t].req.records) /\ IsRecord(Changes(calls[t].req.records))
           /\ FirstMention(Changes(calls[t].req.records))
           /\ \A c \in Range(Changes(calls[t].req.records)) : c.op = "add" => c.id \notin Heard
           /\ \A s : Range(s) \subseteq Logged => NewIn(s, Changes(calls[t].req.records))
  <1> PICK q : q = calls[t].req
    OBVIOUS
  <1>1. /\ IsLog(q.records) /\ IsRecord(Changes(q.records)) /\ FirstMention(Changes(q.records))
        /\ Asked(t) = Range(Changes(q.records))
    BY CallFacts, RequestFacts DEF Asked
  <1>2. ASSUME NEW c \in Asked(t), c.op = "add" PROVE c.id \notin Heard
    <2>1. t \in Checked /\ c.id \in Adds(t)
      BY <1>2 DEF Checked, Adds
    <2> QED BY <2>1 DEF Heard
  <1>3. ASSUME NEW s, Range(s) \subseteq Logged PROVE NewIn(s, Changes(q.records))
    <2> SUFFICES ASSUME NEW c \in Asked(t), c.op = "add", NEW d \in Range(s), Mentions(d, c.id) PROVE FALSE
      BY <1>1 DEF NewIn
    <2>1. d \in Logged
      BY <1>3
    <2>2. d.id \in Heard
      BY <2>1 DEF Known, Familiars, Familiar, Mentions
    <2> QED BY <1>2, <2>2 DEF Mentions
  <1> QED BY <1>1, <1>2, <1>3

\* A call's additions are new.
LEMMA EnqueueFirsts ==
    ASSUME PipelineInv, NEW own, Known(own), Firsts, ~failed, NEW t \in Busy, calls[t].at = "locked",
           UNCHANGED <<file, failed>>, Whole' = Whole \o calls[t].req.records
    PROVE  Firsts'
  <1> PICK recs : recs = calls[t].req.records
    OBVIOUS
  <1>1. /\ IsLog(recs) /\ FirstMention(Changes(recs)) /\ IsSeq(Changes(recs))
        /\ \A s : Range(s) \subseteq Logged => NewIn(s, Changes(recs))
    BY NewRecords, LogIsLists
  <1>2. IsLog(Whole) /\ IsSeq(Changes(Whole)) /\ FirstMention(Changes(Whole)) /\ Range(Changes(Whole)) \subseteq Logged
    BY WholeIs, FirstsFacts
  <1>3. FirstMention(Changes(Whole) \o Changes(recs))
    BY <1>1, <1>2, FirstJoined
  <1>4. Changes(Whole \o recs) = Changes(Whole) \o Changes(recs)
    BY <1>1, <1>2, ChangesJoined
  <1> QED BY <1>3, <1>4 DEF Firsts

\* What is logged goes on building the same once it has been applied again.
LEMMA EnqueueIdem ==
    ASSUME PipelineInv, NEW own, Known(own), Firsts, ~failed, NEW t \in Busy, calls[t].at = "locked",
           ~Topology(calls[t].req),
           NEW front, NEW s, IsLog(front), IsLog(s), Whole = front \o s, Idem(Changes(s), Built),
           Whole' = Whole \o calls[t].req.records
    PROVE  Idem(Changes(s \o calls[t].req.records), Built')
  <1> PICK recs : recs = calls[t].req.records
    OBVIOUS
  <1> PICK f, m, n : f = Changes(Whole) /\ m = Changes(s) /\ n = Changes(recs)
    OBVIOUS
  <1>1. /\ IsLog(recs) /\ IsRecord(n) /\ FirstMention(n) /\ IsSeq(n)
        /\ \A z : Range(z) \subseteq Logged => NewIn(z, n)
    BY NewRecords, LogIsLists
  <1>2. /\ IsLog(Whole) /\ IsRecord(f) /\ IsSeq(f) /\ FirstMention(f) /\ Range(f) \subseteq Logged
        /\ Built = ApplyRecord(Nothing, f)
    BY WholeIs, FirstsFacts
  <1>3. IsRecord(m) /\ IsSeq(m) /\ FirstMention(m) /\ Range(m) \subseteq Logged
    BY PartIs, LogIsLists
  <1>4. FirstMention(f \o n) /\ FirstMention(m \o n)
    BY <1>1, <1>2, <1>3, FirstJoined
  <1>5. Lasting(n)
    BY CallFacts, RequestFacts
  <1>6. Changes(Whole') = f \o n /\ Changes(s \o recs) = m \o n /\ IsLog(Whole')
    BY <1>1, <1>2, ChangesJoined, LogsJoined
  <1>7. Built' = ApplyRecord(Nothing, f \o n)
    <2>1. Built' = ApplyAll(Nothing, Whole')
      BY DEF Built, Replay, Nothing
    <2> QED BY <1>6, <2>1, AllIsRerun
  <1>8. Idem(m \o n, ApplyRecord(Nothing, f \o n))
    <2>1. Idem(m, ApplyRecord(Nothing, f))
      BY <1>2
    <2>2. IsRecord(f) /\ IsRecord(m) /\ IsRecord(n)
      BY <1>1, <1>2, <1>3
    <2> QED BY ONLY <1>4, <1>5, <2>1, <2>2, IdemExtends
  <1> QED BY <1>6, <1>7, <1>8

\* What is logged stays, though more of it is on disk.
LEMMA FirstsKept ==
    ASSUME PipelineInv, Firsts,
           IsLog(file'), NEW rest, IsLog(rest), failed => file' = file, ~failed => Whole = file' \o rest,
           failed' \/ (~failed /\ Whole' = Whole)
    PROVE  Firsts'
  <1>1. CASE failed
    BY <1>1 DEF Firsts
  <1>2. CASE ~failed
    <2>1. FirstMention(Changes(file'))
      BY <1>2, PartIs
    <2>2. FirstMention(Changes(Whole))
      BY <1>2, FirstsFacts
    <2> QED BY <2>1, <2>2 DEF Firsts
  <1> QED BY <1>1, <1>2

\* A restart.
LEMMA RestartFirsts ==
    ASSUME NEW log, IsLog(log), Restart(log), FirstMention(Changes(log))
    PROVE  Firsts'
  <1>1. file' = log /\ Whole' = log
    BY RestartMemory DEF Restart
  <1> QED BY <1>1 DEF Firsts

\* Whole records of a flush that came to nothing.
LEMMA PartFlushed ==
    ASSUME PipelineInv, Firsts, failed => writing = <<>>, NEW kept \in Prefixes(RecordsOf(writing))
    PROVE  /\ IsLog(kept) /\ IsLog(file \o kept) /\ FirstMention(Changes(file \o kept))
           /\ Range(Changes(file \o kept)) \subseteq Logged
  <1>1. /\ IsLog(RecordsOf(writing)) /\ RecordsOf(writing) = Written(writing)
        /\ Range(Changes(RecordsOf(writing))) = LineChanges(writing)
        /\ IsLog(file) /\ IsLog(Written(queue)) /\ Pipeline = Written(writing) \o Written(queue)
    BY WrittenElems, WholeIs DEF PipelineInv, LinesOK, LogsOK
  <1> PICK rest : IsLog(kept) /\ IsLog(rest) /\ RecordsOf(writing) = kept \o rest
    BY <1>1, KeptPart
  <1>2. IsLog(file \o kept) /\ Range(Changes(file \o kept)) = Range(Changes(file)) \cup Range(Changes(kept))
    BY <1>1, LogsJoined
  <1>3. Range(Changes(kept)) \subseteq LineChanges(writing)
    <2>1. Range(Changes(kept \o rest)) = Range(Changes(kept)) \cup Range(Changes(rest))
      BY LogsJoined
    <2> QED BY <1>1, <2>1
  <1>4. FirstMention(Changes(file \o kept))
    <2>1. CASE failed
      <3>1. kept \o rest = <<>>
        BY <1>1, <2>1, WrittenNone
      <3>2. kept = <<>>
        <4>1. IsSeq(kept) /\ IsSeq(rest) /\ Len(<<>>) = 0
          BY LogIsLists
        <4>2. Len(kept) + Len(rest) = 0
          BY <3>1, <4>1, Concatenated
        <4>3. Len(kept) \in Nat /\ Len(rest) \in Nat
          BY <4>1, Sequences
        <4>4. Len(kept) = 0
          BY <4>2, <4>3
        <4> QED BY <4>1, <4>4, Sequences
      <3>3. file \o kept = file
        BY <1>1, <3>2, LogIsLists, JoinFacts
      <3> QED BY <3>3 DEF Firsts
    <2>2. CASE ~failed
      <3>1. IsSeq(file) /\ IsSeq(kept) /\ IsSeq(rest) /\ IsSeq(Written(queue)) /\ IsSeq(rest \o Written(queue))
        BY <1>1, LogIsLists, JoinFacts
      <3>2. /\ (kept \o rest) \o Written(queue) = kept \o (rest \o Written(queue))
            /\ file \o (kept \o (rest \o Written(queue))) = (file \o kept) \o (rest \o Written(queue))
        <4> PICK y, z : z = Written(queue) /\ y = rest \o z
          OBVIOUS
        <4>1. IsSeq(file) /\ IsSeq(kept) /\ IsSeq(rest) /\ IsSeq(z) /\ IsSeq(y)
          BY <3>1
        <4>2. (kept \o rest) \o z = kept \o (rest \o z)
          BY ONLY <4>1, ThreeLists, SMTT(30)
        <4>3. (file \o kept) \o y = file \o (kept \o y)
          BY ONLY <4>1, ThreeLists
        <4> QED BY <4>2, <4>3
      <3>3. Whole = (file \o kept) \o (rest \o Written(queue))
        BY <1>1, <3>2 DEF Whole
      <3>4. IsLog(rest \o Written(queue))
        BY <1>1, LogsJoined
      <3> QED BY <1>2, <2>2, <3>3, <3>4, PartIs
    <2> QED BY <2>1, <2>2
  <1> QED BY <1>2, <1>3, <1>4 DEF Logged

-------------------------------------------------------------------------------
(* A snapshot and what follows it.                                          *)

\* The intervals a snapshot has.
LEMMA SkipIs ==
    ASSUME NEW S, IsStore(S)
    PROVE  /\ \A i \in Ids : i \in Skip(S) <=> \E r \in DOMAIN S : S[r].iv[i] # <<>>
           /\ \A own, H, P : Holds(S, own, H, P) =>
                 /\ OnOne(S)
                 /\ \A i \in Ids : i \in Skip(S) =>
                       i \in H /\ own[i] \in DOMAIN S /\ S[own[i]].iv[i] # <<>>
                 /\ \A i \in Ids, r \in DOMAIN S : S[r].iv[i] # <<>> => i \in Skip(S) /\ own[i] = r
  <1>1. \A i \in Ids : i \in Skip(S) <=> \E r \in DOMAIN S : S[r].iv[i] # <<>>
    <2>1. \A i \in Ids \ Resources : i \in Skip(S) <=> \E r \in DOMAIN S : S[r].iv[i] # <<>>
      BY SnapshotIs
    <2> QED BY <2>1, RequestsAssumption
  <1>2. ASSUME NEW own, NEW H, NEW P, Holds(S, own, H, P)
        PROVE  /\ OnOne(S)
               /\ \A i \in Ids : i \in Skip(S) =>
                     i \in H /\ own[i] \in DOMAIN S /\ S[own[i]].iv[i] # <<>>
               /\ \A i \in Ids, r \in DOMAIN S : S[r].iv[i] # <<>> => i \in Skip(S) /\ own[i] = r
    <2>1. \A i \in Ids, r \in DOMAIN S : S[r].iv[i] # <<>> => i \in H /\ own[i] = r
      BY <1>2 DEF Holds
    <2>2. OnOne(S)
      BY <2>1 DEF OnOne
    <2>3. \A i \in Ids : i \in Skip(S) => i \in H /\ own[i] \in DOMAIN S /\ S[own[i]].iv[i] # <<>>
      BY <1>1, <2>1
    <2> QED BY <1>1, <2>1, <2>2, <2>3
  <1> QED BY <1>1, <1>2

\* They have been heard of.
LEMMA SnapshotHeard ==
    ASSUME NEW own, Known(own), NEW S, IsStore(S), Range(Changes(SnapshotRecords(S))) \subseteq Logged
    PROVE  \A i \in Ids : i \in Skip(S) => i \in Heard
  <1> SUFFICES ASSUME NEW i \in Ids, i \in Skip(S) PROVE i \in Heard
    OBVIOUS
  <1> PICK t : t = SnapshotRecords(S)
    OBVIOUS
  <1>1. PICK c \in Range(Changes(t)) : Introduces(c) /\ c.id = i
    BY DEF Skip, AddedIds
  <1>2. \/ c.op = "create" /\ c.res \in DOMAIN S /\ c.id = c.res
        \/ c.op = "add"
    BY SnapshotIs
  <1>3. i \notin DOMAIN S
    BY RequestsAssumption DEF IsStore
  <1>4. c.op = "add"
    BY <1>1, <1>2, <1>3
  <1> QED BY <1>1, <1>4 DEF Known, Familiars, Familiar, Interval

\* Records that nobody had heard of lead the snapshot and the log on alike.
LEMMA CopiedMore ==
    ASSUME PipelineInv, NEW own, Known(own), NEW t \in Busy, calls[t].at = "locked",
           ~Topology(calls[t].req), NEW S, IsStore(S),
           \A i \in Ids : i \in Skip(S) => i \in Heard,
           NEW x, IsLog(x), NEW store, IsStore(store), NEW r,
           Agree(Rerun(S, Skip(S), Changes(x)), store, r)
    PROVE  Agree(Rerun(S, Skip(S), Changes(x \o calls[t].req.records)),
                 ApplyAll(store, calls[t].req.records), r)
  <1> PICK recs : recs = calls[t].req.records
    OBVIOUS
  <1> PICK m, n, D, u : m = Changes(x) /\ n = Changes(recs) /\ D = Skip(S) /\ u = Rerun(S, D, m)
    OBVIOUS
  <1>1. /\ IsLog(recs) /\ IsRecord(n) /\ IsSeq(n)
        /\ \A c \in Range(n) : c.op = "add" => c.id \notin Heard
    BY NewRecords, LogIsLists
  <1>2. IsRecord(m) /\ IsSeq(m) /\ IsStore(u)
    BY LogIsLists, RerunIsStore
  <1>3. Changes(x \o recs) = m \o n
    BY <1>1, ChangesJoined
  <1>4. Rerun(S, D, m \o n) = Rerun(u, D, n)
    BY <1>1, <1>2, RerunJoined
  <1>5. ApplyAll(store, recs) = Rerun(store, {}, n)
    BY <1>1, AllIsRerun
  <1>6. \A c \in Range(n) : ~Skipped(D, c) /\ ~Skipped({}, c)
    <2> SUFFICES ASSUME NEW c \in Range(n) PROVE ~Skipped(D, c)
      BY DEF Skipped
    <2>1. c \in ChangesOf(calls[t].req) /\ (Interval(c) => c.id \in Ids) /\ c.op # "create"
      BY CallFacts, RequestFacts, RequestsAssumption
    <2>2. CASE c.op = "add"
      BY <1>1, <2>1, <2>2 DEF Skipped, Interval
    <2>3. CASE c.op # "add"
      BY <2>1, <2>3 DEF Skipped, Introduces
    <2> QED BY <2>2, <2>3
  <1>7. Agree(Rerun(u, D, n), Rerun(store, {}, n), r)
    <2>1. \A c \in Range(n) : c.res = r => (Skipped(D, c) <=> Skipped({}, c))
      BY <1>6
    <2>2. Agree(u, store, r)
      OBVIOUS
    <2> QED BY <1>1, <1>2, <2>1, <2>2, RerunAgree
  <1> QED BY <1>3, <1>4, <1>5, <1>7

\* One more resource copied as memory, and so the log, has it.
LEMMA CopiedOne ==
    ASSUME NEW own, NEW H, NEW P, NEW X, IsRecord(X), Lasting(X), Familiars(Range(X), own, H, P),
           NEW S, IsStore(S), Holds(S, own, H, P), NEW T, IsStore(T), Holds(T, own, H, P),
           NEW store, IsStore(store), Idem(X, store), NEW r, Agree(T, store, r),
           \A q : q # r => /\ q \in DOMAIN T <=> q \in DOMAIN S
                           /\ q \in DOMAIN S => T[q] = S[q]
    PROVE  /\ Agree(Rerun(T, Skip(T), X), store, r)
           /\ \A q : q # r /\ Agree(Rerun(S, Skip(S), X), store, q) =>
                 Agree(Rerun(T, Skip(T), X), store, q)
  <1> PICK D, E, u : D = Skip(T) /\ E = Skip(S) /\ u = Rerun(T, D, X)
    OBVIOUS
  <1>1. \A c \in Range(X) : /\ c.op \notin {"create", "delete"}
                            /\ Interval(c) => c.id \in Ids /\ own[c.id] = c.res
    BY DEF Lasting, Familiars, Familiar
  <1>2. /\ \A i \in Ids : i \in D => own[i] \in DOMAIN T /\ T[own[i]].iv[i] # <<>>
        /\ \A i \in Ids, q \in DOMAIN T : T[q].iv[i] # <<>> => i \in D /\ own[i] = q
        /\ \A i \in Ids : i \in E => own[i] \in DOMAIN S /\ S[own[i]].iv[i] # <<>>
        /\ \A i \in Ids, q \in DOMAIN S : S[q].iv[i] # <<>> => i \in E /\ own[i] = q
    BY SkipIs
  <1>3. ASSUME NEW q, q # r, Agree(Rerun(S, E, X), store, q)
        PROVE  Agree(u, store, q)
    <2>1. \A c \in Range(X) : c.res = q => (Skipped(D, c) <=> Skipped(E, c))
      <3> SUFFICES ASSUME NEW c \in Range(X), c.res = q, Introduces(c)
                   PROVE  c.id \in D <=> c.id \in E
        BY DEF Skipped
      <3>1. c.id \in Ids /\ own[c.id] = q
        BY <1>1 DEF Introduces, Interval
      <3> QED BY <1>2, <1>3, <3>1
    <2>2. Agree(T, S, q)
      <3>1. CASE q \in DOMAIN S
        BY <1>3, <3>1, AgreeFacts
      <3>2. CASE q \notin DOMAIN S
        BY <1>3, <3>2, AgreeFacts
      <3> QED BY <3>1, <3>2
    <2>3. Agree(Rerun(T, D, X), Rerun(S, E, X), q)
      BY <2>1, <2>2, RerunAgree
    <2> QED BY <1>3, <2>3, AgreeFacts
  <1>4. Agree(u, store, r)
    <2>1. CASE r \notin DOMAIN T
      <3>1. r \notin DOMAIN store
        BY <2>1, AgreeFacts
      <3>2. r \notin DOMAIN u
        BY <1>1, <2>1, RerunAbsent
      <3> QED BY <3>1, <3>2, AgreeFacts
    <2>2. CASE r \in DOMAIN T
      <3>1. /\ r \in DOMAIN store /\ T[r].shape = store[r].shape
            /\ \A i \in LiveIds : T[r].iv[i] = store[r].iv[i]
        BY <2>2 DEF Agree, LiveIds
      <3>2. r \in DOMAIN u /\ u[r].shape = store[r].shape
        <4>1. Shapes(X, r, store[r].shape, store[r].shape)
          BY <3>1 DEF Idem
        <4> QED BY <2>2, <3>1, <4>1 DEF Shapes
      <3>3. ASSUME NEW i \in LiveIds PROVE u[r].iv[i] = store[r].iv[i]
        <4> PICK l : l = store[r].iv[i]
          OBVIOUS
        <4>1. T[r].iv[i] = l /\ i \in Ids
          BY <3>1 DEF LiveIds
        <4>2. Leads(X, r, i, Skips(i, l), l, l)
          BY <3>1 DEF Idem
        <4>3. CASE i \in D <=> i \in Skips(i, l)
          <5>1. u[r].iv[i] = l
            BY <2>2, <4>1, <4>2, <4>3 DEF Leads
          <5> QED BY <5>1
        <4>4. CASE ~ (i \in D <=> i \in Skips(i, l))
          <5>1. l = <<>> /\ i \in D
            BY <1>2, <2>2, <4>1, <4>4 DEF Skips
          <5>2. own[i] # r
            BY <1>2, <4>1, <5>1
          <5>3. \A c \in Range(X) : ~ (c.res = r /\ Mentions(c, i))
            BY <1>1, <5>2 DEF Mentions
          <5>4. Leads(X, r, i, {i}, l, l)
            BY <4>1, <5>3, LeadsUntouched
          <5>5. u[r].iv[i] = l
            BY <2>2, <4>1, <5>1, <5>4 DEF Leads
          <5> QED BY <5>5
        <4> QED BY <4>3, <4>4
      <3> QED BY <3>1, <3>2, <3>3 DEF Agree, LiveIds
    <2> QED BY <2>1, <2>2
  <1> QED BY <1>3, <1>4

\* What is kept of the recording is not in the snapshot.
LEMMA KeptNotSkipped ==
    ASSUME NEW D, NEW s, IsSeq(s)
    PROVE  \A c \in Range(Kept(D, s)) : ~Skipped(D, c)
  <1> PICK t : t = [k \in DOMAIN s |-> IF Skipped(D, s[k]) THEN <<>> ELSE <<s[k]>>]
    OBVIOUS
  <1>1. IsLists(t) /\ Kept(D, s) = FlattenSeq(t)
    BY KeptTable DEF Kept
  <1>2. Len(t) \in Nat /\ DOMAIN t = 1 .. Len(t) /\ DOMAIN t = DOMAIN s
    BY <1>1, Sequences DEF IsLists
  <1> SUFFICES ASSUME NEW c \in Range(Kept(D, s)) PROVE ~Skipped(D, c)
    OBVIOUS
  <1>3. PICK k \in 1 .. Len(t) : c \in Range(t[k])
    <2>1. Range(FlattenSeq(t)) = UNION {Range(t[n]) : n \in 1 .. Len(t)}
      BY <1>1, ElemsStrung
    <2>2. c \in UNION {Range(t[n]) : n \in 1 .. Len(t)}
      BY ONLY <1>1, <2>1, c \in Range(Kept(D, s))
    <2> QED BY ONLY <2>2
  <1>4. CASE Skipped(D, s[k])
    <2>1. t[k] = <<>>
      BY <1>2, <1>4
    <2> QED BY <1>3, <2>1, Elems
  <1>5. CASE ~Skipped(D, s[k])
    <2>1. t[k] = <<s[k]>>
      BY <1>2, <1>5
    <2>2. c = s[k]
      BY <1>3, <2>1, Elems
    <2> QED BY <1>5, <2>2
  <1> QED BY <1>4, <1>5

\* The log that a swap leaves means what the log before it did.
LEMMA SwapMeans ==
    ASSUME PipelineInv, NEW S, IsStore(S), NEW b, Swaps(S, <<>>, b)
    PROVE  LET m == MergeRecorded(SnapshotRecords(S), recording)
           IN  IsLog(m) /\ \A r : Agree(Replay(m), Replay(file), r)
  <1> PICK s, m, x, D : /\ s = SnapshotRecords(S) /\ m = MergeRecorded(s, recording)
                        /\ x = Changes(recording) /\ D = Skip(S)
    OBVIOUS
  <1>1. IsLog(file) /\ IsLog(recording) /\ IsLog(s) /\ IsLog(m)
    BY SnapshotIs, MergeIsLogged DEF PipelineInv, LogsOK
  <1>2. IsRecord(x) /\ IsSeq(x) /\ IsSeq(Changes(s)) /\ IsSeq(Kept(D, x))
    BY <1>1, LogIsLists, KeptElems
  <1>3. Changes(m) = Changes(s) \o Kept(D, x)
    BY <1>1, Merged DEF Skip
  <1>4. IsStore(Replay(s)) /\ IsStore(Replay(m)) /\ IsStore(Replay(file))
        /\ Replay(m) = ApplyRecord(Nothing, Changes(m)) /\ Replay(s) = ApplyRecord(Nothing, Changes(s))
    BY <1>1, EmptyLine, ReplayJoined
  <1>5. Replay(m) = Rerun(Replay(s), D, x)
    <2>1. ApplyRecord(Nothing, Changes(s) \o Kept(D, x)) = ApplyRecord(ApplyRecord(Nothing, Changes(s)), Kept(D, x))
      BY <1>2, RunJoined
    <2> QED BY <1>3, <1>4, <2>1 DEF Rerun
  <1>6. Written(<<>>) = <<>> /\ recording \o Written(<<>>) = recording /\ file \o Written(<<>>) = file
    <2>1. IsSeq(recording) /\ IsSeq(file)
      BY <1>1, LogIsLists
    <2> QED BY <2>1, WrittenNone, NoneAdded
  <1>7. \A r \in Resources : Agree(Rerun(S, D, x), Replay(file), r)
    BY <1>6 DEF Swaps
  <1>8. ASSUME NEW r \in Resources PROVE Agree(Replay(m), Replay(file), r)
    <2>1. Agree(Replay(s), S, r)
      BY SnapshotIs
    <2>2. Agree(Rerun(Replay(s), D, x), Rerun(S, D, x), r)
      BY <1>2, <1>4, <2>1, RerunAgree
    <2> QED BY <1>5, <1>7, <2>2, AgreeFacts
  <1>9. ASSUME NEW r, r \notin Resources PROVE Agree(Replay(m), Replay(file), r)
    <2>1. r \notin DOMAIN Replay(m) /\ r \notin DOMAIN Replay(file)
      BY <1>4, <1>9 DEF IsStore
    <2> QED BY <2>1, AgreeFacts
  <1> QED BY <1>1, <1>8, <1>9

\* Its additions are first mentions, with what is on its way as well.
LEMMA SwapFirsts ==
    ASSUME PipelineInv, Firsts, ~failed, NEW S, IsStore(S), NEW b, Swaps(S, <<>>, b),
           Pipeline = Written(b)
    PROVE  LET m == MergeRecorded(SnapshotRecords(S), recording)
           IN  FirstMention(Changes(m)) /\ FirstMention(Changes(m \o Pipeline))
  <1> PICK s, m, x, y, D, K : /\ s = SnapshotRecords(S) /\ m = MergeRecorded(s, recording)
                           /\ x = Changes(recording) /\ y = Changes(Pipeline) /\ D = Skip(S)
                           /\ K = Kept(D, x)
    OBVIOUS
  <1>1. IsLog(file) /\ IsLog(recording) /\ IsLog(s) /\ IsLog(m) /\ IsLog(Pipeline)
    BY SnapshotIs, MergeIsLogged, WholeIs DEF PipelineInv, LogsOK
  <1>2. IsSeq(x) /\ IsSeq(y) /\ IsSeq(Changes(s)) /\ IsSeq(K) /\ Range(K) \subseteq Range(x)
    BY <1>1, LogIsLists, KeptElems
  <1>3. Changes(m) = Changes(s) \o K
    BY <1>1, Merged DEF Skip
  <1>4. Changes(m \o Pipeline) = (Changes(s) \o K) \o y
    BY <1>1, <1>3, ChangesJoined
  <1>5. FirstMention(x) /\ FirstMention(y) /\ NewIn(x, y)
    <2>1. PICK old : IsLog(old) /\ file = old \o recording
      BY DEF Swaps, Recorded
    <2>2. /\ IsSeq(old) /\ IsSeq(recording) /\ IsSeq(Pipeline) 
      BY <1>1, <2>1, LogIsLists
    <2>3. Whole = old \o (recording \o Pipeline)
      BY <2>1, <2>2, ThreeLists DEF Whole
    <2>4. IsLog(recording \o Pipeline) /\ Changes(recording \o Pipeline) = x \o y
      BY <1>1, ChangesJoined
    <2>5. FirstMention(x \o y)
      BY <2>1, <2>3, <2>4, PartIs
    <2> QED BY <1>2, <2>5, FirstJoined
  <1>6. FirstMention(Changes(s)) /\ FirstMention(K)
    BY <1>2, <1>5, SnapshotIs, FirstKept DEF Swaps
  <1>7. \A c \in Range(Changes(s)) : c.op = "add" /\ c.id \in LiveIds => c.id \in D
    <2> SUFFICES ASSUME NEW c \in Range(Changes(s)), c.op = "add" PROVE c.id \in D
      OBVIOUS
    <2> QED BY DEF Skip, AddedIds, Introduces
  <1>8. \A d \in Range(Changes(s)) : \A i : Mentions(d, i) => i \in D
    <2> SUFFICES ASSUME NEW d \in Range(Changes(s)), Interval(d) PROVE d.id \in D
      BY DEF Mentions
    <2>1. d.op = "create" \/ d.op = "add"
      BY SnapshotIs
    <2>2. Introduces(d)
      BY <2>1 DEF Introduces
    <2> QED BY <2>2 DEF Skip, AddedIds
  <1>9. NewIn(Changes(s), K)
    <2>1. \A c \in Range(K) : ~Skipped(D, c)
      BY <1>2, <1>1, LogIsLists, KeptNotSkipped
    <2>2. \A c \in Range(K) : c.op = "add" => c.id \notin D
      BY <2>1 DEF Skipped, Introduces
    <2> QED BY <1>8, <2>2 DEF NewIn
  <1>10. NewIn(Changes(s) \o K, y)
    <2>1. \A c \in Range(y) : c.op = "add" => c.id \notin D
      BY DEF Swaps
    <2>2. Range(Changes(s) \o K) = Range(Changes(s)) \cup Range(K)
      BY <1>2, ElemsJoined
    <2> QED BY <1>2, <1>5, <1>8, <2>1, <2>2 DEF NewIn
  <1>11. FirstMention(Changes(s) \o K) /\ IsSeq(Changes(s) \o K)
    BY <1>2, <1>6, <1>9, FirstJoined, JoinFacts
  <1>12. FirstMention((Changes(s) \o K) \o y)
    BY <1>2, <1>5, <1>10, <1>11, FirstJoined
  <1> QED BY <1>3, <1>4, <1>11, <1>12

-------------------------------------------------------------------------------
(* Where a compaction is, step by step.                                     *)

\* What a compaction is about does not change when only callers move.
LEMMA CompactingSame ==
    ASSUME Compacting,
           UNCHANGED <<file, queue, writing, recording, window, failed, compactor>>
    PROVE  Compacting'
  <1>1. Line' = Line /\ Pipeline' = Pipeline /\ Whole' = Whole
    BY DEF Line, Pipeline, Whole
  <1>2. Built' = Built
    BY <1>1 DEF Built
  <1>3. Recorded' = Recorded /\ \A S, a, b : Swaps(S, a, b)' = Swaps(S, a, b)
    BY DEF Recorded, Swaps
  <1>4. \A S, todo : Copied(S, todo)' = Copied(S, todo)
    BY <1>1, <1>2 DEF Copied
  <1>5. AtIdle' = AtIdle /\ AtBegun' = AtBegun /\ AtCopying' = AtCopying
    BY <1>1, <1>2, <1>3 DEF AtIdle, AtBegun, AtCopying
  <1>6. AtSent' = AtSent
    BY <1>1, <1>3 DEF AtSent
  <1> QED BY <1>4, <1>5, <1>6 DEF Compacting

\* The compactor's commands.
LEMMA CommandsAre ==
    /\ \A S : ~Writes(Begins) /\ ~Writes(Compacts(S))
    /\ Begins.records = <<>> /\ Begins.cmd = "CompactBegin"
    /\ \A S : Compacts(S).records = SnapshotRecords(S) /\ Compacts(S).cmd = "Compact"
  BY DEF Begins, Compacts, Writes

\* One more write at the end of the line.
LEMMA WriteJoins ==
    ASSUME PipelineInv, NEW a, NEW c, NEW b, Cut(Line, a, c, b), ~Writes(c),
           NEW d, Writes(d), IsLog(d.records), Line' = Line \o <<d>>
    PROVE  /\ Cut(Line', a, c, b \o <<d>>)
           /\ Written(b \o <<d>>) = Written(b) \o d.records
  <1>1. Cut(Line', a, c, b \o <<d>>)
    BY CutGrows
  <1>2. IsLine(b) /\ IsLine(<<d>>) /\ Written(<<d>>) = d.records
    BY CutWrites, WrittenOne DEF Payload
  <1> QED BY <1>1, <1>2, WrittenJoined

\* A call's record joins the line: after the recording has begun it counts for
\* the recording, after the snapshot is on its way it follows the swap.
LEMMA EnqueueCompacting ==
    ASSUME PipelineInv, PipelineInv', CallsApart, NEW own, Known(own), Firsts, InMemory, Compacting,
           NEW t \in Tasks, Enqueue(t)
    PROVE  Compacting'
  <1>1. CASE failed
    <2>1. UNCHANGED <<file, queue, writing, recording, window, failed, compactor>>
      BY <1>1 DEF Enqueue
    <2> QED BY <2>1, CompactingSame
  <1>2. CASE ~failed
    <2> PICK recs, at : recs = calls[t].req.records /\ at = compactor.at
      OBVIOUS
    <2>1. /\ t \in Busy /\ calls[t].at = "locked"
          /\ UNCHANGED <<file, writing, recording, window, failed, compactor>>
          /\ \E d : queue' = Append(queue, d) /\ d.records = recs /\ Writes(d)
      BY <1>2 DEF Enqueue, Writes
    <2> PICK d : queue' = Append(queue, d) /\ d.records = recs /\ Writes(d)
      BY <2>1
    <2>2. /\ IsLog(recs) /\ IsStore(Built) /\ IsLog(Whole) /\ IsLog(Pipeline) /\ IsSeq(queue)
          /\ IsLog(recording) /\ IsSeq(Pipeline) /\ IsSeq(recording) /\ IsSeq(recs) /\ IsSeq(Line)
      BY <2>1, CallFacts, RequestFacts, WholeIs, LogIsLists DEF PipelineInv, LinesOK, LogsOK, IsLine
    <2>3. Line' = Line \o <<d>> /\ Pipeline' = Pipeline \o recs /\ Whole' = Whole \o recs
      BY <2>1, <2>2, LineGrows DEF Payload
    <2>4. Built' = ApplyAll(Built, recs)
      BY <1>2, EnqueueMemory
    <2>5. AllWrite(queue) => AllWrite(queue')
      <3>1. queue' = queue \o <<d>>
        BY <2>2, JoinFacts
      <3> QED BY <2>2, <3>1, WritesJoined, ShortLists
    <2>6. at # "idle" => ~Topology(calls[t].req)
      BY <2>1 DEF CallsApart
    <2>7. CASE at = "idle"
      <3>1. AtIdle'
        BY <2>1, <2>5, <2>7 DEF Compacting, AtIdle
      <3> QED BY <2>1, <2>7, <3>1 DEF Compacting
    <2>8. CASE at = "begun"
      <3>1. PICK a, b : Cut(Line, a, Begins, b) /\ Idem(Changes(Written(b)), Built)
        BY <1>2, <2>8 DEF Compacting, AtBegun
      <3>2. Cut(Line', a, Begins, b \o <<d>>) /\ Written(b \o <<d>>) = Written(b) \o recs
        <4>1. ~Writes(Begins) /\ Writes(d) /\ IsLog(d.records) /\ d.records = recs
          BY <2>2, CommandsAre
        <4>2. Cut(Line', a, Begins, b \o <<d>>) /\ Written(b \o <<d>>) = Written(b) \o d.records
          BY ONLY PipelineInv, <2>3, <3>1, <4>1, WriteJoins, ZenonT(60)
        <4> QED BY <4>1, <4>2
      <3>3. IsLog(file \o Written(a)) /\ IsLog(Written(b)) /\ Whole = (file \o Written(a)) \o Written(b)
        BY <3>1, CommandsAre, CutWrites
      <3>4. Idem(Changes(Written(b) \o recs), Built')
        BY <1>2, <2>1, <2>3, <2>6, <2>8, <3>1, <3>3, EnqueueIdem
      <3>5. AtBegun'
        BY <2>1, <2>8, <3>2, <3>4 DEF AtBegun, Compacting
      <3> QED BY <2>1, <2>8, <3>5 DEF Compacting
    <2>9. CASE at \in {"listing", "copying"}
      <3>1. /\ window /\ AllWrite(queue) /\ Recorded
            /\ Idem(Changes(recording \o Pipeline), Built)
        BY <1>2, <2>9 DEF Compacting, AtCopying
      <3>2. PICK old : IsLog(old) /\ file = old \o recording
        BY <3>1 DEF Recorded
      <3>3. Whole = old \o (recording \o Pipeline) /\ IsLog(recording \o Pipeline)
        <4>1. IsSeq(old)
          BY <3>2, LogIsLists
        <4> QED BY <2>2, <3>2, <4>1, ThreeLists, TwoLogs, SMTT(30) DEF Whole
      <3>4. recording' \o Pipeline' = (recording \o Pipeline) \o recs
        <4> PICK x, y : x = recording /\ y = Pipeline
          OBVIOUS
        <4>1. (x \o y) \o recs = x \o (y \o recs)
          BY ONLY <2>2, x = recording, y = Pipeline, ThreeLists, SMTT(30)
        <4> QED BY <2>1, <2>3, <4>1
      <3>5. Idem(Changes((recording \o Pipeline) \o recs), Built')
        BY <1>2, <2>1, <2>3, <2>6, <2>9, <3>1, <3>2, <3>3, EnqueueIdem
      <3>6. AtCopying'
        <4>1. Recorded'
          BY <2>1, <3>1 DEF Recorded
        <4> QED BY <2>1, <2>5, <3>1, <3>4, <3>5, <4>1 DEF AtCopying
      <3>7. ASSUME at = "copying" PROVE Copied(compactor.snap, compactor.todo)'
        <4> PICK S, todo : S = compactor.snap /\ todo = compactor.todo
          OBVIOUS
        <4>1. Copied(S, todo) /\ IsStore(S) /\ Holds(S, own, Heard, spent)
          BY <1>2, <3>7 DEF Compacting, PipelineInv, StoresOK, Known
        <4>2. \A i \in Ids : i \in Skip(S) => i \in Heard
          BY <4>1, SkipIs
        <4>3. ASSUME NEW r \in Resources \ todo
              PROVE  Agree(Rerun(S, Skip(S), Changes((recording \o Pipeline) \o recs)), Built', r)
          <5>1. Agree(Rerun(S, Skip(S), Changes(recording \o Pipeline)), Built, r)
            BY <4>1 DEF Copied
          <5> QED BY <2>1, <2>2, <2>4, <2>6, <2>9, <3>3, <4>1, <4>2, <5>1, CopiedMore
        <4> QED BY <2>1, <3>4, <4>1, <4>3 DEF Copied
      <3> QED BY <2>1, <2>9, <3>6, <3>7 DEF Compacting
    <2>10. CASE at = "sent"
      <3>1. PICK a, b, S : Cut(Line, a, Compacts(S), b) /\ IsStore(S) /\ Swaps(S, a, b)
        BY <1>2, <2>10 DEF Compacting, AtSent
      <3>2. Cut(Line', a, Compacts(S), b \o <<d>>) /\ Written(b \o <<d>>) = Written(b) \o recs
        <4>1. ~Writes(Compacts(S)) /\ Writes(d) /\ IsLog(d.records) /\ d.records = recs
          BY <2>2, CommandsAre
        <4>2. Cut(Line', a, Compacts(S), b \o <<d>>) /\ Written(b \o <<d>>) = Written(b) \o d.records
          BY ONLY PipelineInv, <2>3, <3>1, <4>1, WriteJoins, ZenonT(60)
        <4> QED BY <4>1, <4>2
      <3>3. /\ Range(Changes(SnapshotRecords(S))) \subseteq Logged
            /\ IsLog(Written(b))
        BY <3>1, CommandsAre, CutWrites
      <3>4. \A c \in Range(Changes(recs)) : c.op = "add" => c.id \notin Skip(S)
        <4>1. \A i \in Ids : i \in Skip(S) => i \in Heard
          BY <3>1, <3>3, SnapshotHeard
        <4>2. \A c \in Range(Changes(recs)) : c.op = "add" => c.id \notin Heard
          BY <2>1, NewRecords
        <4>3. \A c \in Range(Changes(recs)) : c.op = "add" => c.id \in Ids
          <5>1. ChangesOf(calls[t].req) = Range(Changes(recs)) /\ calls[t].req \in Requests
            BY <2>1, CallFacts, RequestFacts
          <5> QED BY <5>1, RequestFacts DEF Interval
        <4> QED BY <4>1, <4>2, <4>3
      <3>5. Range(Changes(Written(b) \o recs)) = Range(Changes(Written(b))) \cup Range(Changes(recs))
        BY <2>2, <3>3, LogsJoined
      <3>6. Swaps(S, a, b \o <<d>>)'
        <4>1. Recorded'
          BY <2>1, <3>1 DEF Swaps, Recorded
        <4>2. \A c \in Range(Changes(Written(b \o <<d>>))) : c.op = "add" => c.id \notin Skip(S)
          BY <3>1, <3>2, <3>4, <3>5 DEF Swaps
        <4> QED BY <2>1, <3>1, <4>1, <4>2 DEF Swaps
      <3>7. AtSent'
        BY <2>1, <2>10, <3>1, <3>2, <3>6 DEF AtSent, Compacting
      <3> QED BY <2>1, <2>10, <3>7 DEF Compacting
    <2> QED BY <2>7, <2>8, <2>9, <2>10 DEF PipelineInv, CompactorOK
  <1> QED BY <1>1, <1>2

\* On a stopped tenant only the order of the commands matters.
LEMMA StoppedCompacting ==
    ASSUME PipelineInv, PipelineInv', Compacting, failed', UNCHANGED <<window, compactor>>,
           NEW w, IsSeq(w), AllWrite(w), Line = w \o Line',
           AllWrite(queue) => AllWrite(queue')
    PROVE  Compacting'
  <1> PICK at : at = compactor.at
    OBVIOUS
  <1>1. IsSeq(Line') /\ failed' = TRUE
    <2>1. IsSeq(writing') /\ IsSeq(queue') /\ failed' \in BOOLEAN
      BY DEF PipelineInv, LinesOK, IsLine, FlagsOK
    <2>2. IsSeq(writing' \o queue')
      BY ONLY <2>1, JoinFacts
    <2> QED BY <2>1, <2>2 DEF Line
  <1>2. ASSUME NEW a, NEW c, NEW b, ~Writes(c), Cut(Line, a, c, b)
        PROVE  \E e : Cut(Line', e, c, b)
    <2>1. PICK l : l = Line'
      OBVIOUS
    <2>2. Cut(w \o l, a, c, b) /\ IsSeq(l)
      BY <1>1, <1>2, <2>1
    <2>3. \E e : IsSeq(e) /\ a = w \o e /\ Cut(l, e, c, b)
      BY <1>2, <2>2, CutShrinks
    <2> QED BY <2>1, <2>3
  <1>3. CASE at = "idle"
    <2>1. AtIdle'
      BY <1>3 DEF Compacting, AtIdle
    <2> QED BY <1>3, <2>1 DEF Compacting
  <1>4. CASE at = "begun"
    <2>1. PICK a, b : Cut(Line, a, Begins, b)
      BY <1>4 DEF Compacting, AtBegun
    <2>2. PICK e : Cut(Line', e, Begins, b)
      BY <1>2, <2>1, CommandsAre
    <2>3. AtBegun'
      BY <1>4, <2>2 DEF Compacting, AtBegun
    <2> QED BY <1>4, <2>3 DEF Compacting
  <1>5. CASE at \in {"listing", "copying"}
    <2>1. AtCopying'
      BY <1>5 DEF Compacting, AtCopying
    <2> QED BY <1>5, <2>1 DEF Compacting
  <1>6. CASE at = "sent"
    <2>1. PICK a, b, S : Cut(Line, a, Compacts(S), b) /\ IsStore(S)
      BY <1>6 DEF Compacting, AtSent
    <2>2. PICK e : Cut(Line', e, Compacts(S), b)
      BY <1>2, <2>1, CommandsAre
    <2>3. AtSent'
      BY <1>6, <2>1, <2>2 DEF Compacting, AtSent
    <2> QED BY <1>6, <2>3 DEF Compacting
  <1> QED BY <1>3, <1>4, <1>5, <1>6 DEF PipelineInv, CompactorOK

\* The writer takes a batch.
LEMMA TakeBatchCompacting ==
    ASSUME PipelineInv, PipelineInv', CallsApart, Compacting, TakeBatch
    PROVE  Compacting'
  <1>1. /\ UNCHANGED <<file, recording, window, failed, compactor>> /\ writing = <<>>
        /\ ~failed => Line' = Line /\ Pipeline' = Pipeline /\ Whole' = Whole
    BY BatchTaken
  <1>2. PICK batch : /\ IsSeq(batch) /\ AllWrite(batch) /\ IsSeq(queue')
                     /\ queue = batch \o queue' /\ (failed => writing' = <<>>)
    BY BatchTaken
  <1>3. AllWrite(queue) => AllWrite(queue')
    BY <1>2, WritesJoined
  <1>4. CASE failed
    <2>1. Line = queue /\ Line' = queue'
      BY <1>1, <1>2, <1>4, NoneAdded DEF Line, PipelineInv, LinesOK, IsLine
    <2>2. Line = batch \o Line'
      BY <1>2, <2>1
    <2> QED BY <1>1, <1>2, <1>3, <1>4, <2>2, StoppedCompacting
  <1>5. CASE ~failed
    <2>1. Built' = Built
      BY <1>1, <1>5 DEF Built
    <2>2. AtIdle => AtIdle'
      BY <1>1, <1>3 DEF AtIdle
    <2>3. AtBegun => AtBegun'
      BY <1>1, <1>5, <2>1 DEF AtBegun
    <2>4. Recorded' = Recorded
      BY <1>1 DEF Recorded
    <2>5. AtCopying => AtCopying'
      BY <1>1, <1>3, <1>5, <2>1, <2>4 DEF AtCopying
    <2>6. \A S, todo : Copied(S, todo)' = Copied(S, todo)
      BY <1>1, <1>5, <2>1 DEF Copied
    <2>7. \A S, a, b : Swaps(S, a, b)' = Swaps(S, a, b)
      BY <1>1, <2>4 DEF Swaps
    <2>8. AtSent => AtSent'
      BY <1>1, <1>5, <2>7 DEF AtSent
    <2> QED BY <1>1, <1>5, <2>2, <2>3, <2>5, <2>6, <2>8 DEF Compacting
  <1> QED BY <1>4, <1>5

\* A flush fails.
LEMMA FlushFailCompacting ==
    ASSUME PipelineInv, PipelineInv', Compacting, NEW kept, FlushFail(kept)
    PROVE  Compacting'
  <1>1. writing' = <<>> /\ UNCHANGED <<queue, window, compactor>> /\ failed'
    BY DEF FlushFail
  <1>2. Line = writing \o Line' /\ IsSeq(writing) /\ AllWrite(writing)
    BY <1>1, FlushMoves DEF PipelineInv, LinesOK, IsLine
  <1> QED BY <1>1, <1>2, StoppedCompacting

\* A flush moves records from the line to the file and the recording.
LEMMA FlushOkCompacting ==
    ASSUME PipelineInv, PipelineInv', CallsApart, Compacting, FlushOk
    PROVE  Compacting'
  <1> PICK at, R : at = compactor.at /\ R = RecordsOf(writing)
    OBVIOUS
  <1>1. /\ writing' = <<>> /\ UNCHANGED <<queue, window, failed, compactor>> /\ ~failed
        /\ file' = file \o R /\ recording' = IF window THEN recording \o R ELSE recording
    BY DEF FlushOk, CallsApart
  <1>2. /\ Line = writing \o Line' /\ IsSeq(writing) /\ AllWrite(writing) /\ IsSeq(Line')
        /\ Pipeline = R \o Pipeline' /\ IsLog(R) /\ IsLog(Pipeline') /\ Whole' = Whole /\ Built' = Built
        /\ R = Written(writing)
    <2>1. Whole' = Whole /\ Line' = queue
      BY <1>1, FlushMoves
    <2> QED BY <1>1, <2>1, FlushMoves, WholeIs DEF PipelineInv, LinesOK, IsLine, Built
  <1>3. /\ IsSeq(R) /\ IsSeq(Pipeline') /\ IsSeq(recording) /\ IsSeq(file)
        /\ IsLog(recording) /\ IsLog(file)
    BY <1>2, LogIsLists DEF PipelineInv, LogsOK
  <1>4. ASSUME NEW a, NEW c, NEW b, ~Writes(c), Cut(Line, a, c, b)
        PROVE  \E e : IsSeq(e) /\ a = writing \o e /\ Cut(Line', e, c, b)
    <2>1. PICK l : l = Line'
      OBVIOUS
    <2>2. Cut(writing \o l, a, c, b) /\ IsSeq(l)
      BY <1>2, <1>4, <2>1
    <2>3. \E e : IsSeq(e) /\ a = writing \o e /\ Cut(l, e, c, b)
      BY <1>2, <1>4, <2>2, CutShrinks
    <2> QED BY <2>1, <2>3
  <1>5. ASSUME window, Recorded PROVE Recorded'
    <2>1. PICK old : IsLog(old) /\ file = old \o recording
      BY <1>5 DEF Recorded
    <2>2. IsSeq(old)
      BY <2>1, LogIsLists
    <2>3. (old \o recording) \o R = old \o (recording \o R)
      BY <1>3, <2>2, ThreeLists, SMTT(30)
    <2>4. file' = old \o recording'
      BY <1>1, <1>5, <2>1, <2>3
    <2> QED BY <2>1, <2>4 DEF Recorded
  <1>6. CASE at = "idle"
    <2>1. AtIdle'
      BY <1>1, <1>6 DEF Compacting, AtIdle
    <2> QED BY <1>1, <1>6, <2>1 DEF Compacting
  <1>7. CASE at = "begun"
    <2>1. PICK a, b : Cut(Line, a, Begins, b) /\ Idem(Changes(Written(b)), Built)
      BY <1>1, <1>7 DEF Compacting, AtBegun
    <2>2. PICK e : Cut(Line', e, Begins, b)
      BY <1>4, <2>1, CommandsAre
    <2>3. AtBegun'
      BY <1>1, <1>2, <1>7, <2>1, <2>2 DEF Compacting, AtBegun
    <2> QED BY <1>1, <1>7, <2>3 DEF Compacting
  <1>8. CASE at \in {"listing", "copying"}
    <2>1. window /\ AllWrite(queue) /\ Recorded /\ Idem(Changes(recording \o Pipeline), Built)
      BY <1>1, <1>8 DEF Compacting, AtCopying
    <2>2. recording' \o Pipeline' = recording \o Pipeline
      <3> PICK z : z = Pipeline'
        OBVIOUS
      <3>1. (recording \o R) \o z = recording \o (R \o z)
        BY <1>3, z = Pipeline', ThreeLists
      <3> QED BY <1>1, <1>2, <2>1, <3>1
    <2>3. AtCopying'
      BY <1>1, <1>2, <1>5, <2>1, <2>2 DEF AtCopying
    <2>4. \A S, todo : Copied(S, todo) => Copied(S, todo)'
      BY <1>2, <2>2 DEF Copied
    <2> QED BY <1>1, <1>8, <2>3, <2>4 DEF Compacting
  <1>9. CASE at = "sent"
    <2>1. PICK a, b, S : window /\ Cut(Line, a, Compacts(S), b) /\ IsStore(S) /\ Swaps(S, a, b)
      BY <1>1, <1>9 DEF Compacting, AtSent
    <2>2. PICK e : IsSeq(e) /\ a = writing \o e /\ Cut(Line', e, Compacts(S), b)
      BY <1>4, <2>1, CommandsAre
    <2>3. IsLine(a) /\ IsLine(writing) /\ IsLine(e)
      <3>1. IsLine(a)
        BY <2>1, CommandsAre, CutWrites
      <3> QED BY <1>2, <2>2, <3>1, PartsAreLines
    <2>4. Written(a) = R \o Written(e) /\ IsSeq(Written(e))
      BY <1>2, <2>2, <2>3, WrittenJoined, WrittenIsLog, LogIsLists
    <2>5. recording' \o Written(e) = recording \o Written(a) /\ file' \o Written(e) = file \o Written(a)
      <3> PICK z : z = Written(e)
        OBVIOUS
      <3>1. IsSeq(z)
        BY <2>4
      <3>2. (recording \o R) \o z = recording \o (R \o z)
        BY ONLY <1>3, <3>1, ThreeLists, SMTT(30)
      <3>3. (file \o R) \o z = file \o (R \o z)
        BY ONLY <1>3, <3>1, ThreeLists
      <3> QED BY <1>1, <2>1, <2>4, <3>2, <3>3
    <2>6. Swaps(S, e, b)'
      <3>1. Recorded'
        BY <1>5, <2>1 DEF Swaps
      <3> QED BY <2>1, <2>5, <3>1 DEF Swaps
    <2>7. AtSent'
      BY <1>1, <2>1, <2>2, <2>6 DEF AtSent
    <2> QED BY <1>1, <1>9, <2>7 DEF Compacting
  <1> QED BY <1>6, <1>7, <1>8, <1>9 DEF PipelineInv, CompactorOK

\* The compactor's command at the head of the line: what the writer finds.
Starting(b) == /\ compactor.at = "begun" /\ queue' = b /\ AllWrite(b)
               /\ Cut(Line, <<>>, Begins, b) /\ Head(queue) = Begins
               /\ ~failed => Idem(Changes(Written(b)), Built)
Swapping(S, b) == /\ compactor.at = "sent" /\ queue' = b /\ AllWrite(b)
                  /\ Cut(Line, <<>>, Compacts(S), b) /\ Head(queue) = Compacts(S)
                  /\ IsStore(S) /\ (~failed => Swaps(S, <<>>, b))

\* Which of the two it is, by where the compactor is.
LEMMA AtTheHead ==
    ASSUME PipelineInv, Compacting, writing = <<>>, queue # <<>>, ~Writes(Head(queue)),
           queue' = Tail(queue), UNCHANGED writing
    PROVE  (\E b : Starting(b)) \/ (\E S, b : Swapping(S, b))
  <1> PICK at, d, rest : at = compactor.at /\ d = Head(queue) /\ rest = queue'
    OBVIOUS
  <1>1. Line = <<d>> \o rest /\ Line = queue /\ IsSeq(rest) /\ IsSeq(queue)
    BY HeadMoves DEF PipelineInv, LinesOK, IsLine
  <1>2. ~AllWrite(queue)
    <2>1. AllWrite(<<d>> \o rest) => AllWrite(<<d>>)
      BY <1>1, WritesJoined, ShortLists
    <2> QED BY <1>1, <2>1, WritesJoined
  <1>3. ASSUME NEW a, NEW c, NEW b, Cut(Line, a, c, b)
        PROVE  a = <<>> /\ c = d /\ b = rest /\ Cut(Line, <<>>, c, rest) /\ AllWrite(rest)
    <2>1. a = <<>> /\ c = d /\ b = rest
      <3>1. Cut(<<d>> \o rest, a, c, b) /\ ~Writes(d) /\ IsSeq(rest)
        BY <1>1, <1>3
      <3> QED BY ONLY <3>1, CutHead
    <2> QED BY <1>3, <2>1 DEF Cut
  <1>4. CASE at \in {"idle", "listing", "copying"}
    BY <1>2, <1>4 DEF Compacting, AtIdle, AtCopying
  <1>5. CASE at = "begun"
    <2>1. PICK a, b : /\ Cut(Line, a, Begins, b)
                      /\ ~failed => Idem(Changes(Written(b)), Built)
      BY <1>5 DEF Compacting, AtBegun
    <2>2. Starting(rest)
      BY <1>3, <1>5, <2>1 DEF Starting
    <2> QED BY <2>2
  <1>6. CASE at = "sent"
    <2>1. PICK a, b, S : /\ Cut(Line, a, Compacts(S), b) /\ IsStore(S)
                         /\ ~failed => Swaps(S, a, b)
      BY <1>6 DEF Compacting, AtSent
    <2>2. Swapping(S, rest)
      BY <1>3, <1>6, <2>1 DEF Swapping
    <2> QED BY <2>2
  <1> QED BY <1>4, <1>5, <1>6 DEF PipelineInv, CompactorOK

\* CompactBegin.
LEMMA BeginsHandled ==
    ASSUME PipelineInv, Compacting, HandleBegin
    PROVE  \E b : Starting(b)
  <1>1. /\ writing = <<>> /\ queue # <<>> /\ ~Writes(Head(queue)) /\ Head(queue).cmd = "CompactBegin"
        /\ queue' = Tail(queue) /\ UNCHANGED writing
    BY DEF HandleBegin, Writes
  <1>2. ASSUME NEW S, NEW b, Swapping(S, b) PROVE FALSE
    BY <1>1, <1>2, CommandsAre DEF Swapping
  <1> QED BY <1>1, <1>2, AtTheHead

\* Compact.
LEMMA CompactHandled ==
    ASSUME PipelineInv, Compacting, HandleCompact
    PROVE  \E S, b : Swapping(S, b)
  <1>1. /\ writing = <<>> /\ queue # <<>> /\ ~Writes(Head(queue)) /\ Head(queue).cmd = "Compact"
        /\ queue' = Tail(queue) /\ UNCHANGED writing
    BY DEF HandleCompact, Writes
  <1>2. ASSUME NEW b, Starting(b) PROVE FALSE
    BY <1>1, <1>2, CommandsAre DEF Starting
  <1> QED BY <1>1, <1>2, AtTheHead

\* The recording begins with nothing.
LEMMA HandleBeginCompacting ==
    ASSUME PipelineInv, PipelineInv', Compacting, HandleBegin
    PROVE  Compacting'
  <1>1. PICK b : Starting(b)
    BY BeginsHandled
  <1>2. /\ writing = <<>> /\ writing' = <<>> /\ recording' = <<>> /\ window' = TRUE
        /\ UNCHANGED <<file, failed>> /\ queue' = b /\ compactor'.at = "listing"
    BY <1>1 DEF HandleBegin, Reply, Starting, PipelineInv, CompactorOK, Compactor
  <1>3. IsLog(file) /\ IsLog(Pipeline) /\ IsSeq(file) /\ IsSeq(Pipeline)
    BY WholeIs, LogIsLists DEF PipelineInv, LogsOK
  <1>4. Pipeline' = Pipeline /\ Whole' = Whole
    <2>1. queue # <<>> /\ ~Writes(Head(queue)) /\ queue' = Tail(queue)
      BY DEF HandleBegin, Writes
    <2>2. Pipeline' = Pipeline
      BY <1>2, <2>1, HeadMoves
    <2> QED BY <1>2, <2>2 DEF Whole
  <1>5. Pipeline = Written(b)
    <2>1. Pipeline = Written(<<>>) \o Written(b) /\ IsLog(Written(b))
      BY <1>1, CommandsAre, CutWrites DEF Starting
    <2> QED BY <2>1, WrittenNone, LogIsLists, NoneAdded
  <1>6. Recorded'
    <2>1. file' = file \o recording'
      BY <1>2, <1>3, NoneAdded
    <2> QED BY <1>3, <2>1 DEF Recorded
  <1>7. recording' \o Pipeline' = Pipeline
    BY <1>2, <1>3, <1>4, NoneAdded
  <1>8. AtCopying'
    <2>1. Built' = Built
      BY <1>4 DEF Built
    <2> QED BY <1>1, <1>2, <1>5, <1>6, <1>7, <2>1 DEF AtCopying, Starting
  <1> QED BY <1>2, <1>8 DEF Compacting

\* The compaction ends.
LEMMA HandleCompactCompacting ==
    ASSUME PipelineInv, PipelineInv', Compacting, HandleCompact
    PROVE  Compacting'
  <1>1. PICK S, b : Swapping(S, b)
    BY CompactHandled
  <1>2. window' = FALSE /\ queue' = b /\ compactor'.at = "idle"
    BY <1>1 DEF HandleCompact, Reply, Swapping, PipelineInv, CompactorOK, Compactor
  <1> QED BY <1>1, <1>2 DEF Compacting, AtIdle, Swapping

\* Nothing is under way.
LEMMA RestartCompacting ==
    /\ Init => Compacting
    /\ \A log : Restart(log) => Compacting'
  <1>1. AllWrite(<<>>)
    BY EmptyLine
  <1> QED BY <1>1 DEF Init, Restart, Compactor, Compacting, AtIdle

\* CompactBegin joins a line of writes.
LEMMA StartCompactCompacting ==
    ASSUME PipelineInv, PipelineInv', Compacting, StartCompact
    PROVE  Compacting'
  <1>1. /\ ~window /\ AllWrite(queue) /\ queue' = Append(queue, Begins) /\ compactor'.at = "begun"
        /\ UNCHANGED <<file, writing, window, failed>>
    BY DEF StartCompact, Compactor, Compacting, AtIdle, Begins
  <1>2. /\ IsSeq(Line) /\ AllWrite(Line) /\ IsLog(Begins.records)
    BY <1>1, WholeIs, WritesJoined, EmptyLine, CommandsAre DEF Line, PipelineInv, LinesOK, IsLine
  <1>3. Line' = Line \o <<Begins>>
    BY <1>1, <1>2, LineGrows
  <1>4. Cut(Line', Line, Begins, <<>>)
    BY <1>2, <1>3, CutHere
  <1>5. Idem(Changes(Written(<<>>)), Built')
    <2>1. Changes(Written(<<>>)) = <<>>
      BY WrittenNone, NothingStrung DEF Changes
    <2>2. Lasting(<<>>)
      BY Elems DEF Lasting
    <2> QED BY <2>1, <2>2, LeadsNone DEF Idem
  <1>6. AtBegun'
    BY <1>1, <1>4, <1>5 DEF AtBegun
  <1> QED BY <1>1, <1>6 DEF Compacting

\* The whole snapshot is sent, with nothing behind it.
LEMMA SendCompactCompacting ==
    ASSUME PipelineInv, PipelineInv', NEW own, Known(own), Compacting, SendCompact
    PROVE  Compacting'
  <1> PICK S, l : S = compactor.snap /\ l = Line
    OBVIOUS
  <1>1. /\ window /\ AllWrite(queue) /\ compactor.at = "copying" /\ compactor.todo = {}
        /\ queue' = Append(queue, Compacts(S)) /\ compactor'.at = "sent"
        /\ UNCHANGED <<file, writing, recording, window, failed>>
    BY DEF SendCompact, Compactor, Compacting, AtCopying, Compacts
  <1>2. IsStore(S) /\ OnOne(S)
    <2>1. IsStore(S) /\ Holds(S, own, Heard, spent)
      BY DEF PipelineInv, StoresOK, Known
    <2> QED BY <2>1, SkipIs
  <1>3. /\ IsSeq(Line) /\ AllWrite(Line) /\ IsLog(Compacts(S).records)
    BY <1>1, <1>2, WholeIs, WritesJoined, SnapshotIs, CommandsAre DEF Line, PipelineInv, LinesOK, IsLine
  <1>4. Line' = Line \o <<Compacts(S)>>
    BY <1>1, <1>3, LineGrows
  <1>5. Cut(Line', l, Compacts(S), <<>>)
    BY <1>3, <1>4, CutHere
  <1>6. ASSUME ~failed PROVE Swaps(S, l, <<>>)'
    <2>1. Recorded'
      BY <1>1, <1>6 DEF Recorded, Compacting, AtCopying
    <2>2. Copied(S, {})
      BY <1>1, <1>6 DEF Compacting
    <2>3. \A c \in Range(Changes(Written(<<>>))) : c.op = "add" => c.id \notin Skip(S)
      BY WrittenNone, NothingStrung, Elems DEF Changes
    <2>4. Pipeline = Written(l) /\ Built = Replay(file \o Written(l))
      BY DEF Pipeline, Line, Built, Whole
    <2>5. \A r \in Resources : Agree(Rerun(S, Skip(S), Changes(recording \o Written(l))),
                                     Replay(file \o Written(l)), r)
      BY <2>2, <2>4 DEF Copied
    <2> QED BY <1>1, <1>2, <2>1, <2>2, <2>3, <2>5 DEF Swaps, Copied
  <1>7. AtSent'
    BY <1>1, <1>2, <1>5, <1>6 DEF AtSent
  <1> QED BY <1>1, <1>7 DEF Compacting

\* While a compaction is under way, what memory lacks the log lacks.
LEMMA LackedByLog ==
    ASSUME PipelineInv, CallsApart, InMemory, ~failed, compactor.at # "idle",
           NEW r \in Resources, r \notin DOMAIN mem
    PROVE  r \notin DOMAIN Built
  <1>1. InStep(r)
    BY DEF InMemory
  <1>2. CASE Gone(r) \/ Touching(r) = {}
    BY <1>1, <1>2, AgreeFacts DEF InStep
  <1>3. CASE ~Gone(r) /\ Touching(r) # {}
    <2>1. PICK t : t \in Touching(r) /\ Agree(ApplyAll(mem, calls[t].req.records), Built, r)
      BY <1>1, <1>3 DEF InStep
    <2> PICK q : q = calls[t].req
      OBVIOUS
    <2>2. t \in Busy /\ q \in Requests /\ ~Topology(q) /\ IsStore(mem)
      BY <2>1, CallFacts DEF Touching, CallsApart, PipelineInv, StoresOK
    <2>3. IsLog(q.records) /\ Lasting(Changes(q.records))
      BY <2>2, RequestFacts
    <2>4. r \notin DOMAIN ApplyAll(mem, q.records)
      BY <2>2, <2>3, AbsentAll DEF Lasting
    <2> QED BY <2>1, <2>4, AgreeFacts
  <1> QED BY <1>2, <1>3

\* The resources to copy are those of the log.
LEMMA ListResourcesCompacting ==
    ASSUME PipelineInv, PipelineInv', CallsApart, Firsts, InMemory, Compacting, ListResources
    PROVE  Compacting'
  <1>1. /\ compactor.at = "listing" /\ compactor'.at = "copying"
        /\ compactor'.todo = DOMAIN mem /\ compactor'.snap = Nothing
        /\ UNCHANGED <<file, queue, writing, recording, window, failed>>
    BY DEF ListResources, Compactor
  <1>2. Line' = Line /\ Pipeline' = Pipeline /\ Whole' = Whole
    BY <1>1 DEF Line, Pipeline, Whole
  <1>3. Built' = Built
    BY <1>2 DEF Built
  <1>4. AtCopying /\ AtCopying'
    <2>1. Recorded' = Recorded
      BY <1>1 DEF Recorded
    <2> QED BY <1>1, <1>2, <1>3, <2>1 DEF AtCopying, Compacting
  <1>5. ASSUME ~failed PROVE Copied(Nothing, DOMAIN mem)
    <2> PICK X : X = Changes(recording \o Pipeline)
      OBVIOUS
    <2>1. IsStore(Nothing) /\ DOMAIN Nothing = {}
      BY ReplayIsStore, EmptyLine DEF Nothing
    <2>2. IsRecord(X) /\ Lasting(X)
      <3>1. IsLog(recording \o Pipeline)
        BY WholeIs, TwoLogs DEF PipelineInv, LogsOK
      <3>2. Lasting(X)
        BY <1>4, <1>5 DEF AtCopying, Idem
      <3> QED BY <3>1, <3>2, LogIsLists
    <2>3. ASSUME NEW r \in Resources \ DOMAIN mem
          PROVE  Agree(Rerun(Nothing, Skip(Nothing), X), Built, r)
      <3>1. r \notin DOMAIN Built
        BY <1>1, <1>5, LackedByLog
      <3>2. r \notin DOMAIN Rerun(Nothing, Skip(Nothing), X)
        BY <2>1, <2>2, RerunAbsent DEF Lasting
      <3> QED BY <3>1, <3>2, AgreeFacts
    <2>4. ShortIn(Nothing)
      BY <2>1 DEF ShortIn
    <2> QED BY <2>3, <2>4 DEF Copied
  <1> PICK T, todo : T = compactor'.snap /\ todo = compactor'.todo
    OBVIOUS
  <1>6. ~failed => Copied(T, todo)
    BY <1>1, <1>5
  <1>7. ~failed => Copied(compactor.snap, compactor.todo)'
    BY <1>1, <1>2, <1>3, <1>6 DEF Copied
  <1> QED BY <1>1, <1>4, <1>7 DEF Compacting

\* One of them is copied.
LEMMA SnapshotOneCompacting ==
    ASSUME PipelineInv, PipelineInv', CallsApart, NEW own, Known(own), Firsts, InMemory, Compacting,
           NEW r \in Resources, SnapshotOne(r)
    PROVE  Compacting'
  <1> PICK S, T, todo, X : /\ S = compactor.snap /\ T = compactor'.snap /\ todo = compactor.todo
                           /\ X = Changes(recording \o Pipeline)
    OBVIOUS
  <1>1. /\ compactor.at = "copying" /\ compactor'.at = "copying" /\ r \in todo /\ ~Locked(r)
        /\ compactor'.todo = todo \ {r}
        /\ T = [s \in DOMAIN S \cup ({r} \cap DOMAIN mem) |-> IF s = r THEN mem[r] ELSE S[s]]
        /\ UNCHANGED <<file, queue, writing, recording, window, failed>>
    BY DEF SnapshotOne, Compactor
  <1>2. Line' = Line /\ Pipeline' = Pipeline /\ Whole' = Whole
    BY <1>1 DEF Line, Pipeline, Whole
  <1>3. Built' = Built
    BY <1>2 DEF Built
  <1>4. AtCopying /\ AtCopying'
    <2>1. Recorded' = Recorded
      BY <1>1 DEF Recorded
    <2> QED BY <1>1, <1>2, <1>3, <2>1 DEF AtCopying, Compacting
  <1>5. IsStore(S) /\ IsStore(T) /\ IsStore(mem) /\ r \notin DOMAIN S
    BY <1>1 DEF PipelineInv, StoresOK, CompactorOK
  <1>6. /\ r \in DOMAIN T <=> r \in DOMAIN mem
        /\ r \in DOMAIN T => T[r] = mem[r]
        /\ \A q : q # r => /\ q \in DOMAIN T <=> q \in DOMAIN S
                           /\ q \in DOMAIN S => T[q] = S[q]
    BY <1>1, <1>5
  <1>7. ASSUME ~failed PROVE Copied(T, todo \ {r})
    <2>1. Agree(mem, Built, r)
      <3>1. \A t \in Busy : ~Topology(calls[t].req)
        BY <1>1 DEF CallsApart
      <3> QED BY <1>1, <1>7, <3>1, SettledAgrees
    <2>2. Agree(T, Built, r)
      <3>1. Agree(T, mem, r)
        BY <1>6, AgreeFacts
      <3> QED BY <2>1, <3>1, AgreeFacts
    <2>3. Holds(S, own, Heard, spent) /\ Holds(T, own, Heard, spent)
      <3>1. Holds(S, own, Heard, spent) /\ Holds(mem, own, Heard, spent)
        BY DEF Known
      <3> QED BY <1>6, <3>1 DEF Holds
    <2>4. Copied(S, todo) /\ Idem(X, Built) /\ Lasting(X)
      BY <1>1, <1>4, <1>7 DEF Compacting, AtCopying, Idem
    <2>5. IsStore(Built) /\ AllShort(Built)
      BY <1>7, WholeIs, FirstsFacts
    <2>6. IsRecord(X) /\ Familiars(Range(X), own, Heard, spent)
      <3>1. IsLog(recording) /\ IsLog(Pipeline) /\ IsLog(file)
        BY WholeIs DEF PipelineInv, LogsOK
      <3>2. /\ IsLog(recording \o Pipeline)
            /\ Range(X) = Range(Changes(recording)) \cup Range(Changes(Pipeline))
            /\ Range(Changes(Whole)) = Range(Changes(file)) \cup Range(Changes(Pipeline))
        BY <3>1, LogsJoined DEF Whole
      <3>3. Range(X) \subseteq Logged
        BY <3>2, WholeIs DEF Logged
      <3> QED BY <3>2, <3>3, LogIsLists DEF Known, Familiars
    <2>7. /\ Agree(Rerun(T, Skip(T), X), Built, r)
          /\ \A q : q # r /\ Agree(Rerun(S, Skip(S), X), Built, q) => Agree(Rerun(T, Skip(T), X), Built, q)
      BY <1>5, <1>6, <2>2, <2>3, <2>4, <2>5, <2>6, CopiedOne
    <2>8. ShortIn(T)
      <3>1. ShortIn(S)
        BY <2>4 DEF Copied
      <3>2. ASSUME NEW q \in DOMAIN T PROVE ShortAt(T, q)
        <4>1. CASE q # r
          BY <1>6, <3>1, <3>2, <4>1 DEF ShortIn, ShortAt
        <4>2. CASE q = r
          <5>1. \A i \in LiveIds : T[r].iv[i] = Built[r].iv[i]
            BY <2>2, <3>2, <4>2 DEF Agree, LiveIds
          <5>2. r \in DOMAIN Built
            BY <2>2, <3>2, <4>2, AgreeFacts
          <5> QED BY <2>5, <4>2, <5>1, <5>2 DEF AllShort, ShortAt
        <4> QED BY <4>1, <4>2
      <3> QED BY <3>2 DEF ShortIn
    <2>9. \A q \in Resources \ (todo \ {r}) : Agree(Rerun(T, Skip(T), X), Built, q)
      BY <2>4, <2>7 DEF Copied
    <2> QED BY <2>8, <2>9 DEF Copied
  <1>8. ~failed => Copied(compactor.snap, compactor.todo)'
    <2>1. compactor'.todo = todo \ {r} /\ compactor'.snap = T /\ failed' = failed
      BY <1>1
    <2> QED BY <1>1, <1>2, <1>3, <1>7, <2>1 DEF Copied
  <1> QED BY <1>1, <1>4, <1>8 DEF Compacting

-------------------------------------------------------------------------------
(* All of it together.                                                      *)

\* The inductive invariant.
JournalInv == /\ PipelineInv /\ CallsApart /\ IdsKnown
              /\ Firsts /\ InMemory /\ Compacting

\* What is logged stays, and so does what memory is held against.
LEMMA LoggedStays ==
    ASSUME PipelineInv, PipelineInv', Firsts, InMemory, UNCHANGED <<file, failed>>,
           ~failed => /\ Whole' = Whole
                      /\ \A r \in Resources : Agree(mem', mem, r)
                      /\ UNCHANGED calls \/ \E commands, outcome : Answer(commands, outcome)
    PROVE  Firsts' /\ InMemory'
  <1>1. CASE failed
    BY <1>1 DEF Firsts, InMemory
  <1>2. CASE ~failed
    <2>1. Firsts'
      BY <1>2 DEF Firsts
    <2>2. Built' = Built
      BY <1>2 DEF Built
    <2>3. \A r \in Resources : Agree(mem', mem, r) /\ Agree(Built', Built, r)
      BY <1>2, <2>2, AgreeFacts
    <2>4. InMemory'
      BY <1>2, <2>3, MemoryKept
    <2> QED BY <2>1, <2>4
  <1> QED BY <1>1, <1>2

\* Memory as it was.
LEMMA SameAgrees == UNCHANGED mem => \A r \in Resources : Agree(mem', mem, r)
  BY AgreeFacts

\* The steps of callers.
LEMMA CallerStays ==
    ASSUME PipelineInv, PipelineInv', CallsApart, NEW own, Known(own), Firsts, InMemory,
           \/ \E t \in Tasks : TaskStep(t)
           \/ \E t \in Tasks, q \in Requests : Begin(t, q)
    PROVE  Firsts' /\ InMemory'
  <1>1. UNCHANGED <<file, failed>>
    BY DEF TaskStep, Enqueue, ApplyEarly, Return, Begin
  <1>2. CASE failed
    BY <1>1, <1>2 DEF Firsts, InMemory
  <1>3. ASSUME ~failed, NEW t \in Tasks, Enqueue(t) PROVE Firsts' /\ InMemory'
    <2>1. InMemory' /\ Whole' = Whole \o calls[t].req.records
      BY <1>3, EnqueueMemory
    <2>2. t \in Busy /\ calls[t].at = "locked"
      BY <1>3 DEF Enqueue
    <2> QED BY <1>1, <1>3, <2>1, <2>2, EnqueueFirsts
  <1>4. ASSUME ~failed, NEW t \in Tasks, ApplyEarly(t) \/ Return(t) PROVE Firsts' /\ InMemory'
    <2>1. InMemory' /\ Whole' = Whole
      BY <1>4, CallerMemory
    <2> QED BY <1>1, <2>1 DEF Firsts
  <1>5. ASSUME ~failed, NEW t \in Tasks, NEW q \in Requests, Begin(t, q) PROVE Firsts' /\ InMemory'
    <2>1. InMemory' /\ Whole' = Whole
      BY <1>5, BeginMemory
    <2> QED BY <1>1, <2>1 DEF Firsts
  <1> QED BY <1>2, <1>3, <1>4, <1>5 DEF TaskStep

\* The steps of the writer.
LEMMA TakeBatchStays ==
    ASSUME PipelineInv, PipelineInv', Firsts, InMemory, TakeBatch
    PROVE  Firsts' /\ InMemory'
  <1>1. UNCHANGED <<file, failed, mem>> /\ (~failed => Whole' = Whole /\ UNCHANGED calls)
    BY BatchTaken
  <1> QED BY <1>1, SameAgrees, LoggedStays

\* A flush.
LEMMA FlushOkStays ==
    ASSUME PipelineInv, PipelineInv', CallsApart, Firsts, InMemory, FlushOk
    PROVE  Firsts' /\ InMemory'
  <1>1. /\ writing' = <<>> /\ UNCHANGED <<queue, failed, mem>> /\ ~failed
        /\ file' = file \o RecordsOf(writing) /\ Answer(writing, "ok")
    BY DEF FlushOk, CallsApart
  <1>2. Whole' = Whole /\ IsLog(Pipeline') /\ IsLog(file')
    BY <1>1, FlushMoves DEF PipelineInv, LogsOK
  <1>3. Firsts'
    <2>1. Whole = file' \o Pipeline'
      BY <1>2 DEF Whole
    <2> QED BY <1>1, <1>2, <2>1, FirstsKept
  <1>4. \A r \in Resources : Agree(mem', mem, r) /\ Agree(Built', Built, r)
    <2>1. Built' = Built
      BY <1>2 DEF Built
    <2> QED BY <1>1, <2>1, AgreeFacts
  <1>5. InMemory'
    BY <1>1, <1>4, MemoryKept
  <1> QED BY <1>3, <1>5

\* A failed flush.
LEMMA FlushFailStays ==
    ASSUME PipelineInv, CallsApart, Firsts, NEW kept, FlushFail(kept)
    PROVE  Firsts' /\ InMemory'
  <1>1. kept \in Prefixes(RecordsOf(writing)) /\ file' = file \o kept /\ failed' = TRUE
    BY DEF FlushFail
  <1>2. FirstMention(Changes(file \o kept))
    BY <1>1, PartFlushed DEF CallsApart
  <1> QED BY <1>1, <1>2 DEF Firsts, InMemory

\* A log is replaced by one that means the same.
LEMMA LogReplaced ==
    ASSUME PipelineInv, PipelineInv', Firsts, InMemory, ~failed,
           UNCHANGED <<failed, mem, calls>>, Pipeline' = Pipeline,
           \A r : Agree(Replay(file'), Replay(file), r),
           FirstMention(Changes(file')), FirstMention(Changes(file' \o Pipeline))
    PROVE  Firsts' /\ InMemory'
  <1>1. IsLog(file) /\ IsLog(file') /\ IsLog(Pipeline)
    BY WholeIs DEF PipelineInv, LogsOK
  <1>2. /\ Built' = ApplyAll(Replay(file'), Pipeline) /\ Built = ApplyAll(Replay(file), Pipeline)
        /\ IsStore(Replay(file)) /\ IsStore(Replay(file'))
    <2>1. Built' = Replay(file' \o Pipeline)
      BY DEF Built, Whole
    <2> QED BY <1>1, <2>1, ReplayJoined DEF Built, Whole
  <1>3. \A r \in Resources : Agree(mem', mem, r) /\ Agree(Built', Built, r)
    <2> SUFFICES ASSUME NEW r \in Resources PROVE Agree(mem', mem, r) /\ Agree(Built', Built, r)
      OBVIOUS
    <2>1. Agree(ApplyAll(Replay(file'), Pipeline), ApplyAll(Replay(file), Pipeline), r)
      BY <1>1, <1>2, AgreeAll
    <2> QED BY <1>2, <2>1, AgreeFacts
  <1>4. InMemory'
    BY <1>3, MemoryKept
  <1>5. Firsts'
    BY DEF Firsts, Whole
  <1> QED BY <1>4, <1>5

\* A swap, or none.
LEMMA HandleCompactSwaps ==
    ASSUME PipelineInv, CallsApart, Firsts, Compacting, HandleCompact
    PROVE  /\ Pipeline' = Pipeline
           /\ \/ UNCHANGED file
              \/ /\ ~failed /\ \A r : Agree(Replay(file'), Replay(file), r)
                 /\ FirstMention(Changes(file')) /\ FirstMention(Changes(file' \o Pipeline))
  <1>1. PICK S, b : Swapping(S, b)
    BY CompactHandled
  <1>2. /\ writing = <<>> /\ queue # <<>> /\ ~Writes(Head(queue)) /\ queue' = Tail(queue)
        /\ UNCHANGED writing
        /\ \/ UNCHANGED file
           \/ ~failed /\ file' = MergeRecorded(Head(queue).records, recording)
    BY DEF HandleCompact, RefusesCompaction, Writes
  <1>3. Pipeline' = Pipeline
    BY <1>2, HeadMoves
  <1>4. CASE UNCHANGED file
    BY <1>3, <1>4
  <1>5. CASE ~failed /\ file' = MergeRecorded(Head(queue).records, recording)
    <2>1. file' = MergeRecorded(SnapshotRecords(S), recording) /\ IsStore(S) /\ Swaps(S, <<>>, b)
      BY <1>1, <1>5, CommandsAre DEF Swapping
    <2>2. Pipeline = Written(b)
      <3>1. Pipeline = Written(<<>>) \o Written(b) /\ IsLog(Written(b))
        BY <1>1, CommandsAre, CutWrites DEF Swapping
      <3> QED BY <3>1, WrittenNone, LogIsLists, NoneAdded
    <2>3. \A r : Agree(Replay(file'), Replay(file), r)
      BY <2>1, SwapMeans
    <2>4. FirstMention(Changes(file')) /\ FirstMention(Changes(file' \o Pipeline))
      BY <1>5, <2>1, <2>2, SwapFirsts
    <2> QED BY <1>3, <1>5, <2>3, <2>4
  <1> QED BY <1>2, <1>4, <1>5

\* The compactor's commands.
LEMMA CommandStays ==
    ASSUME PipelineInv, PipelineInv', CallsApart, Firsts, InMemory, Compacting,
           HandleBegin \/ HandleCompact
    PROVE  Firsts' /\ InMemory'
  <1>1. UNCHANGED <<failed, mem, calls>>
    BY DEF HandleBegin, HandleCompact
  <1>2. CASE HandleBegin
    <2>1. /\ writing = <<>> /\ queue # <<>> /\ ~Writes(Head(queue)) /\ queue' = Tail(queue)
          /\ UNCHANGED <<writing, file>>
      BY <1>2 DEF HandleBegin, Writes
    <2>2. Whole' = Whole
      BY <2>1, HeadMoves DEF Whole
    <2> QED BY <1>1, <2>1, <2>2, SameAgrees, LoggedStays
  <1>3. CASE HandleCompact
    <2>1. CASE UNCHANGED file
      <3>1. Whole' = Whole
        BY <1>3, <2>1, HandleCompactSwaps DEF Whole
      <3> QED BY <1>1, <2>1, <3>1, SameAgrees, LoggedStays
    <2>2. CASE ~UNCHANGED file
      BY <1>1, <1>3, <2>2, HandleCompactSwaps, LogReplaced
    <2> QED BY <2>1, <2>2
  <1> QED BY <1>2, <1>3

\* The compactor's own steps, and the collector's.
LEMMA CompactorStays ==
    ASSUME PipelineInv, PipelineInv', Firsts, InMemory,
           \/ StartCompact \/ ListResources \/ SendCompact
           \/ \E r \in Resources : SnapshotOne(r) \/ Gc(r)
    PROVE  Firsts' /\ InMemory'
  <1>1. UNCHANGED <<file, writing, failed, calls>>
    BY DEF StartCompact, ListResources, SendCompact, SnapshotOne, Gc
  <1>2. \A r \in Resources : Agree(mem', mem, r)
    <2>1. CASE UNCHANGED mem
      BY <2>1, SameAgrees
    <2>2. CASE \E r \in Resources : Gc(r)
      BY <2>2, GcAgrees DEF PipelineInv, StoresOK
    <2> QED BY <2>1, <2>2 DEF StartCompact, ListResources, SendCompact, SnapshotOne
  <1>3. Whole' = Whole
    <2>1. CASE UNCHANGED queue
      BY <1>1, <2>1 DEF Whole, Pipeline
    <2>2. ASSUME NEW d, queue' = Append(queue, d), ~Writes(d), IsLog(d.records) PROVE Whole' = Whole
      <3>1. Whole' = Whole \o <<>>
        BY <1>1, <2>2, LineGrows DEF Payload
      <3> QED BY <3>1, WholeIs, LogIsLists, NoneAdded
    <2>3. CASE StartCompact
      <3>1. queue' = Append(queue, Begins)
        BY <2>3 DEF StartCompact, Begins
      <3> QED BY <2>2, <3>1, CommandsAre, EmptyLine
    <2>4. CASE SendCompact
      <3>1. queue' = Append(queue, Compacts(compactor.snap)) /\ IsStore(compactor.snap)
        BY <2>4 DEF SendCompact, Compacts, PipelineInv, StoresOK
      <3>2. IsLog(Compacts(compactor.snap).records)
        BY <3>1, CommandsAre, SnapshotIs
      <3> QED BY <2>2, <3>1, <3>2, CommandsAre
    <2> QED BY <2>1, <2>3, <2>4 DEF ListResources, SnapshotOne, Gc
  <1> QED BY <1>1, <1>2, <1>3, LoggedStays

\* The log starts with a snapshot.
LEMMA StartFirsts ==
    ASSUME Init
    PROVE  Firsts
  <1> PICK S : S = InitialStore
    OBVIOUS
  <1>1. file = SnapshotRecords(S) /\ Whole = file /\ IsStore(S)
    BY StartMemory, ContentsAssumption DEF Init
  <1>2. OnOne(S)
    BY <1>1, StartAssumption DEF OnOne, IsStore
  <1>3. ShortIn(S)
    <2> SUFFICES ASSUME NEW r \in DOMAIN S, NEW i \in LiveIds PROVE Short(S[r].iv[i])
      BY DEF ShortIn, ShortAt
    <2> PICK l : l = S[r].iv[i]
      OBVIOUS
    <2>1. l # <<>> => Len(l) = 1
      BY StartAssumption DEF LiveIds
    <2>2. IsSeq(l)
      BY <1>1, Lists DEF IsStore, LiveIds
    <2>3. Len(l) = 1 => l = <<l[1]>>
      BY <2>2, ShortLists, SameList, Sequences
    <2> QED BY <2>1, <2>3 DEF Short
  <1> QED BY <1>1, <1>2, <1>3, SnapshotIs DEF Firsts

\* It holds at the start,
LEMMA JournalStarts == Init => JournalInv
  <1> SUFFICES ASSUME Init PROVE JournalInv
    OBVIOUS
  <1>1. PipelineInv /\ IdsKnown /\ Firsts /\ InMemory /\ Compacting
    BY PipelineStarts, StartKnown, StartFirsts, StartMemory, RestartCompacting
  <1>2. CallsApart
    <2>1. Busy = {} /\ compactor.at = "idle" /\ failed = FALSE /\ DOMAIN mem \subseteq spent
      <3>1. mem = InitialStore /\ spent = Skip(InitialStore)
        BY DEF Init, Skip
      <3>2. DOMAIN InitialStore \subseteq Skip(InitialStore)
        BY ContentsAssumption, SnapshotIs
      <3> QED BY <3>1, <3>2 DEF Init, Busy, Nothing, Compactor
    <2> QED BY <2>1 DEF CallsApart
  <1> QED BY <1>1, <1>2 DEF JournalInv

\* after a restart,
LEMMA JournalRestarts ==
    ASSUME PipelineInv, PipelineInv', NEW own, Known(own), NEW log, IsLog(log), Restart(log),
           Range(Changes(log)) \subseteq Logged, FirstMention(Changes(log))
    PROVE  JournalInv'
  <1>1. Known(own)'
    BY RestartKnown
  <1>2. Firsts' /\ InMemory' /\ Compacting'
    BY RestartFirsts, RestartMemory, RestartCompacting
  <1>3. CallsApart'
    <2>1. Busy' = {} /\ compactor'.at = "idle" /\ failed' = FALSE
      BY DEF Restart, Busy, Nothing, Compactor
    <2>2. DOMAIN mem' \subseteq spent'
      BY <1>1 DEF Known, Holds
    <2> QED BY <2>1, <2>2 DEF CallsApart
  <1> QED BY <1>1, <1>2, <1>3 DEF JournalInv, IdsKnown

\* after a caller's step,
LEMMA CallersKeep ==
    ASSUME QuietTopology, ~ReuseIds, JournalInv, PipelineInv',
           \/ \E t \in Tasks : TaskStep(t)
           \/ \E t \in Tasks, q \in Requests : Begin(t, q)
    PROVE  JournalInv'
  <1> PICK own : Known(own)
    BY DEF JournalInv, IdsKnown
  <1> USE DEF JournalInv
  <1>1. Firsts' /\ InMemory'
    BY CallerStays
  <1>2. ASSUME NEW t \in Tasks, Enqueue(t) PROVE CallsApart' /\ IdsKnown' /\ Compacting'
    BY <1>2, EnqueueApart, EnqueueKnown, EnqueueCompacting DEF IdsKnown
  <1>3. ASSUME NEW t \in Tasks, ApplyEarly(t) \/ Return(t)
        PROVE  CallsApart' /\ IdsKnown' /\ Compacting'
    <2>1. UNCHANGED <<file, queue, writing, recording, window, failed, compactor>>
      BY <1>3 DEF ApplyEarly, Return
    <2> QED BY <1>3, <2>1, ApplyEarlyApart, ReturnApart, CallerKnown, CompactingSame DEF IdsKnown
  <1>4. ASSUME NEW t \in Tasks, NEW q \in Requests, Begin(t, q)
        PROVE  CallsApart' /\ IdsKnown' /\ Compacting'
    <2>1. UNCHANGED <<file, queue, writing, recording, window, failed, compactor>>
      BY <1>4 DEF Begin
    <2> QED BY <1>4, <2>1, BeginApart, BeginKnown, CompactingSame
  <1> QED BY <1>1, <1>2, <1>3, <1>4 DEF TaskStep

\* after the writer's,
LEMMA WriterKeeps ==
    ASSUME QuietTopology, JournalInv, PipelineInv', WriterStep
    PROVE  JournalInv'
  <1> PICK own : Known(own)
    BY DEF JournalInv, IdsKnown
  <1> USE DEF JournalInv
  <1>1. HandleBegin => compactor.at # "idle"
    BY BeginsHandled DEF Starting
  <1>2. CASE TakeBatch
    BY <1>2, WriterApart, WriterKnown, TakeBatchStays, TakeBatchCompacting DEF IdsKnown
  <1>3. CASE FlushOk
    BY <1>3, WriterApart, WriterKnown, FlushOkStays, FlushOkCompacting DEF IdsKnown
  <1>4. CASE HandleBegin
    BY <1>1, <1>4, QuietApart, WriterKnown, CommandStays, HandleBeginCompacting DEF IdsKnown
  <1>5. CASE HandleCompact
    BY <1>1, <1>5, QuietApart, WriterKnown, CommandStays, HandleCompactCompacting DEF IdsKnown
  <1> QED BY <1>2, <1>3, <1>4, <1>5 DEF WriterStep

\* after the compactor's and the collector's,
LEMMA CompactorKeeps ==
    ASSUME QuietTopology, JournalInv, PipelineInv',
           StartCompact \/ CompactStep \/ \E r \in Resources : Gc(r)
    PROVE  JournalInv'
  <1> PICK own : Known(own)
    BY DEF JournalInv, IdsKnown
  <1> USE DEF JournalInv
  <1>1. HandleBegin => compactor.at # "idle"
    BY BeginsHandled DEF Starting
  <1>2. CASE StartCompact
    BY <1>1, <1>2, QuietApart, QuietKnown, CompactorStays, StartCompactCompacting DEF IdsKnown
  <1>3. CASE ListResources
    BY <1>1, <1>3, QuietApart, QuietKnown, CompactorStays, ListResourcesCompacting DEF IdsKnown
  <1>4. CASE SendCompact
    BY <1>1, <1>4, QuietApart, QuietKnown, CompactorStays, SendCompactCompacting DEF IdsKnown
  <1>5. ASSUME NEW r \in Resources, SnapshotOne(r) PROVE JournalInv'
    BY <1>1, <1>5, QuietApart, QuietKnown, CompactorStays, SnapshotOneCompacting DEF IdsKnown
  <1>6. ASSUME NEW r \in Resources, Gc(r) PROVE JournalInv'
    <2>1. UNCHANGED <<file, queue, writing, recording, window, failed, compactor>>
      BY <1>6 DEF Gc
    <2> QED BY <1>1, <1>6, <2>1, QuietApart, QuietKnown, CompactorStays, CompactingSame DEF IdsKnown
  <1> QED BY <1>2, <1>3, <1>4, <1>5, <1>6 DEF CompactStep

\* after a fault,
LEMMA FaultsKeep ==
    ASSUME JournalInv, PipelineInv', FaultStep \/ Rebuild
    PROVE  JournalInv'
  <1> PICK own : Known(own)
    BY DEF JournalInv, IdsKnown
  <1> USE DEF JournalInv
  <1>1. ASSUME NEW kept, FlushFail(kept) PROVE JournalInv'
    BY <1>1, WriterApart, WriterKnown, FlushFailStays, FlushFailCompacting DEF IdsKnown
  <1>2. ASSUME NEW kept, Crash(kept) PROVE JournalInv'
    <2>1. kept \in Prefixes(RecordsOf(writing)) /\ Restart(file \o kept)
      BY <1>2 DEF Crash
    <2>2. /\ IsLog(file \o kept) /\ FirstMention(Changes(file \o kept))
          /\ Range(Changes(file \o kept)) \subseteq Logged
      BY <2>1, PartFlushed DEF CallsApart
    <2> QED BY <2>1, <2>2, JournalRestarts
  <1>3. CASE Rebuild
    <2>1. Restart(file) /\ IsLog(file) /\ FirstMention(Changes(file)) /\ Range(Changes(file)) \subseteq Logged
      BY <1>3 DEF Rebuild, PipelineInv, LogsOK, Firsts, Logged
    <2> QED BY <2>1, JournalRestarts
  <1> QED BY <1>1, <1>2, <1>3 DEF FaultStep

\* and when nothing happens.
LEMMA StutterKeeps ==
    ASSUME JournalInv, UNCHANGED vars
    PROVE  JournalInv'
  <1>1. UNCHANGED <<file, queue, writing, recording, window, failed, mem, calls, compactor, spent>>
    BY DEF vars
  <1>2. PipelineInv'
    BY <1>1, PipelineKept DEF JournalInv
  <1>3. Whole' = Whole /\ Busy' = Busy /\ \A t : Locks(t)' = Locks(t)
    BY <1>1 DEF Whole, Pipeline, Busy, Locks
  <1>4. Built' = Built
    BY <1>3 DEF Built
  <1>5. CallsApart'
    BY <1>1, <1>3 DEF JournalInv, CallsApart, Creates, Asked
  <1>6. IdsKnown'
    BY <1>1, <1>3 DEF JournalInv, IdsKnown, Known, Logged, Heard, Checked, Adds, Asked
  <1>7. Firsts' /\ InMemory'
    BY <1>1, <1>3, <1>4 DEF JournalInv, Firsts, InMemory, InStep, Gone, Touching
  <1>8. Compacting'
    BY <1>1, CompactingSame DEF JournalInv
  <1> QED BY <1>2, <1>5, <1>6, <1>7, <1>8 DEF JournalInv

\* So every step keeps it.
LEMMA JournalKept ==
    ASSUME QuietTopology, ~ReuseIds, JournalInv, [Next]_vars
    PROVE  JournalInv'
  <1>1. PipelineInv'
    BY PipelineKept DEF JournalInv
  <1>2. CASE Next
    BY <1>1, <1>2, CallersKeep, WriterKeeps, CompactorKeeps, FaultsKeep DEF Next
  <1>3. CASE UNCHANGED vars
    BY <1>3, StutterKeeps
  <1> QED BY <1>2, <1>3

\* Stores that agree on all resources.
LEMMA SameMeaning ==
    ASSUME NEW s, NEW t, IsStore(s), IsStore(t), \A r : Agree(s, t, r)
    PROVE  Live(s) = Live(t)
  <1>1. DOMAIN s = DOMAIN t
    BY DEF Agree
  <1>2. ASSUME NEW r \in DOMAIN s
        PROVE  [s[r] EXCEPT !.iv = [i \in Ids \ PastIds |-> @[i]]] =
               [t[r] EXCEPT !.iv = [i \in Ids \ PastIds |-> @[i]]]
    <2> PICK x, y, f, g : x = s[r] /\ y = t[r] /\ f = x.iv /\ g = y.iv
      OBVIOUS
    <2>1. x = [shape |-> x.shape, iv |-> x.iv] /\ y = [shape |-> y.shape, iv |-> y.iv]
      BY <1>1 DEF IsStore
    <2>2. x.shape = y.shape /\ \A i \in Ids \ PastIds : f[i] = g[i]
      BY DEF Agree
    <2>3. [i \in Ids \ PastIds |-> f[i]] = [i \in Ids \ PastIds |-> g[i]]
      BY <2>2
    <2>4. [x EXCEPT !.iv = [i \in Ids \ PastIds |-> @[i]]] = [shape |-> x.shape, iv |-> [i \in Ids \ PastIds |-> f[i]]]
      BY <2>1
    <2>5. [y EXCEPT !.iv = [i \in Ids \ PastIds |-> @[i]]] = [shape |-> y.shape, iv |-> [i \in Ids \ PastIds |-> g[i]]]
      BY <2>1
    <2> QED BY <2>2, <2>3, <2>4, <2>5
  <1> QED BY <1>1, <1>2 DEF Live

\* What compact leaves on disk means what it found there.
LEMMA SwapKeepsMeaning ==
    ASSUME JournalInv, JournalInv', HandleCompact
    PROVE  Meaning(file') = Meaning(file)
  <1> USE DEF JournalInv
  <1>1. CASE UNCHANGED file
    BY <1>1
  <1>2. CASE \A r : Agree(Replay(file'), Replay(file), r)
    <2>1. IsStore(Replay(file)) /\ IsStore(Replay(file'))
      BY ReplayIsStore DEF PipelineInv, LogsOK
    <2> QED BY <1>2, <2>1, SameMeaning DEF Meaning
  <1> QED BY <1>1, <1>2, HandleCompactSwaps

-------------------------------------------------------------------------------
(* Time that is taken, and time that is given back.                        *)

\* What r has of the intervals that are replaced has their spans.
Spanned(u, r) ==
    r \in DOMAIN u => \A c \in Replaced : c.id \in LiveIds => Range(u[r].iv[c.id]) \subseteq {c.val}
\* So has a change.
Fits(d) == IsChange(d) /\ \A c \in Replaced :
              Interval(d) /\ d.id = c.id => d.op \in {"add", "remove"} /\ d.val = c.val

\* A change that fits leaves the spans,
LEMMA SpannedOne ==
    ASSUME NEW u, IsStore(u), NEW d, Fits(d), NEW r, Spanned(u, r)
    PROVE  Spanned(Apply(u, d), r) /\ IsStore(Apply(u, d))
  <1> PICK w : w = Apply(u, d)
    OBVIOUS
  <1>1. IsStore(w) /\ IsChange(d)
    BY ApplyKeeps DEF Fits
  <1> SUFFICES ASSUME r \in DOMAIN w, NEW c \in Replaced, c.id \in LiveIds
               PROVE  Range(w[r].iv[c.id]) \subseteq {c.val}
    BY <1>1 DEF Spanned
  <1>2. CASE d.res # r
    <2>1. r \in DOMAIN u /\ w[r] = u[r]
      BY <1>1, <1>2, AppliedElsewhere
    <2> QED BY <2>1 DEF Spanned
  <1>3. CASE d.res = r /\ d.op = "create"
    <2>1. w[r].iv[c.id] = <<>>
      BY <1>1, <1>3, AppliedThere DEF LiveIds
    <2> QED BY <2>1, Elems
  <1>4. CASE d.res = r /\ d.op = "delete"
    BY <1>1, <1>4, AppliedThere
  <1>5. CASE d.res = r /\ d.op \notin {"create", "delete"}
    <2>1. /\ r \in DOMAIN u
          /\ w[r].iv[c.id] = IF Interval(d) /\ c.id = d.id
                             THEN After(d.op, u[r].iv[c.id], d.val) ELSE u[r].iv[c.id]
      BY <1>1, <1>5, AppliedThere DEF LiveIds
    <2>2. Range(u[r].iv[c.id]) \subseteq {c.val} /\ IsSeq(u[r].iv[c.id])
      BY <2>1, Stores, Lists DEF Spanned, IsState, LiveIds
    <2>3. CASE Interval(d) /\ c.id = d.id
      <3>1. d.op \in {"add", "remove"} /\ d.val = c.val
        BY <2>3 DEF Fits
      <3>2. Range(After(d.op, u[r].iv[c.id], d.val)) \subseteq Range(u[r].iv[c.id]) \cup {d.val}
        BY <2>2, <3>1, ValuesAfter
      <3> QED BY <2>1, <2>2, <2>3, <3>1, <3>2
    <2> QED BY <2>1, <2>2, <2>3
  <1> QED BY <1>2, <1>3, <1>4, <1>5

\* and so do many.
LEMMA SpannedRun ==
    ASSUME NEW u, IsStore(u), NEW s, IsSeq(s), \A d \in Range(s) : Fits(d), NEW r, Spanned(u, r)
    PROVE  Spanned(ApplyRecord(u, s), r)
  <1> PICK C : C = Range(s)
    OBVIOUS
  <1>1. s \in Seq(C)
    BY ElemsOf
  <1> DEFINE Good(v) == Spanned(ApplyRecord(u, v), r) /\ IsStore(ApplyRecord(u, v))
             W == {v \in Seq(C) : Good(v)}
  <1>2. <<>> \in W
    <2>1. Good(<<>>)
      BY RunNone
    <2> HIDE DEF Good
    <2> QED BY <2>1
  <1>3. ASSUME NEW v \in Seq(C), v \in W, NEW c \in C PROVE Append(v, c) \in W
    <2>1. IsSeq(v) /\ Append(v, c) \in Seq(C)
      BY DEF IsSeq
    <2>2. ApplyRecord(u, Append(v, c)) = Apply(ApplyRecord(u, v), c)
      BY <2>1, RunOne
    <2>3. Good(v)
      BY <1>3
    <2>4. Good(Append(v, c))
      BY <2>2, <2>3, SpannedOne
    <2> HIDE DEF Good
    <2> QED BY <2>1, <2>4
  <1> HIDE DEF W
  <1>4. s \in W
    BY <1>1, <1>2, <1>3, ListInduction
  <1> QED BY <1>4 DEF W

\* A record that takes only: what it removes from r it replaces.
Untaken(C, r, i) == \A c \in C : c.res = r => /\ c.op \notin {"create", "delete"}
                                              /\ c.id = i => c.op \notin {"update", "remove"}
Takers(rec, r) ==
    \A c \in Range(rec) : c.res = r =>
        /\ Interval(c) /\ c.id \in Ids
        /\ c.op # "add" => /\ c \in Replaced
                           /\ \E d \in Range(rec) : /\ d.op = "add" /\ d.res = r /\ d.val = c.val
                                                    /\ d.id \in LiveIds \/ c.id \notin LiveIds
                                                    /\ Untaken(Range(rec), r, d.id)

\* A value that nothing removes is there in the end, if it was or if it is added.
LEMMA ValueStays ==
    ASSUME NEW u, IsStore(u), NEW r \in DOMAIN u, NEW i \in Ids, NEW x,
           NEW s, IsRecord(s), Untaken(Range(s), r, i)
    PROVE  LET w == ApplyRecord(u, s)
           IN  /\ IsStore(w) /\ r \in DOMAIN w
               /\ \/ x \in Range(u[r].iv[i])
                  \/ \E d \in Range(s) : d.op = "add" /\ d.res = r /\ d.id = i /\ d.val = x
                  => x \in Range(w[r].iv[i])
  <1> PICK C : C = Range(s)
    OBVIOUS
  <1>1. s \in Seq(C) /\ \A c \in C : IsChange(c)
    BY ElemsOf, RecordElems
  <1> DEFINE Comes(v) == \/ x \in Range(u[r].iv[i])
                         \/ \E d \in Range(v) : d.op = "add" /\ d.res = r /\ d.id = i /\ d.val = x
             Good(v) == /\ IsStore(ApplyRecord(u, v)) /\ r \in DOMAIN ApplyRecord(u, v)
                        /\ Comes(v) => x \in Range(ApplyRecord(u, v)[r].iv[i])
             W == {v \in Seq(C) : Good(v)}
  <1>2. <<>> \in W
    <2>1. Good(<<>>)
      BY RunNone, Elems
    <2> HIDE DEF Good
    <2> QED BY <2>1
  <1>3. ASSUME NEW v \in Seq(C), v \in W, NEW c \in C PROVE Append(v, c) \in W
    <2> PICK m, w : m = ApplyRecord(u, v) /\ w = ApplyRecord(u, Append(v, c))
      OBVIOUS
    <2>1. IsSeq(v) /\ Append(v, c) \in Seq(C) /\ Range(Append(v, c)) = Range(v) \cup {c}
      BY ElemsOneMore DEF IsSeq
    <2>2. w = Apply(m, c)
      BY <2>1, RunOne
    <2>3. IsStore(m) /\ r \in DOMAIN m /\ (Comes(v) => x \in Range(m[r].iv[i]))
      BY <1>3
    <2>4. IsStore(w) /\ IsChange(c)
      BY <1>1, <2>2, <2>3, ApplyKeeps
    <2>5. CASE c.res # r
      <3>1. r \in DOMAIN w /\ w[r] = m[r]
        BY <2>2, <2>3, <2>4, <2>5, AppliedElsewhere
      <3>2. Comes(Append(v, c)) => Comes(v)
        BY <2>1, <2>5
      <3> QED BY <2>1, <2>3, <2>4, <3>1, <3>2
    <2>6. CASE c.res = r
      <3>1. c.op \notin {"create", "delete"} /\ (c.id = i => c.op \notin {"update", "remove"})
        BY <2>6 DEF Untaken
      <3>2. /\ r \in DOMAIN w
            /\ w[r].iv[i] = IF Interval(c) /\ i = c.id
                            THEN After(c.op, m[r].iv[i], c.val) ELSE m[r].iv[i]
        BY <2>2, <2>3, <2>4, <2>6, <3>1, AppliedThere
      <3>3. CASE Interval(c) /\ i = c.id
        <4>1. c.op = "add" /\ IsSeq(m[r].iv[i])
          BY <2>3, <3>1, <3>3, Stores, Lists DEF Interval, IsState
        <4>2. Range(w[r].iv[i]) = Range(m[r].iv[i]) \cup {c.val}
          BY <3>2, <3>3, <4>1, ValuesAfter
        <4>3. Comes(Append(v, c)) => Comes(v) \/ c.val = x
          BY <2>1
        <4> QED BY <2>1, <2>3, <2>4, <3>2, <4>2, <4>3
      <3>4. CASE ~ (Interval(c) /\ i = c.id)
        <4>1. Comes(Append(v, c)) => Comes(v)
          BY <2>1, <3>4 DEF Interval
        <4> QED BY <2>1, <2>3, <2>4, <3>2, <3>4, <4>1
      <3> QED BY <3>3, <3>4
    <2> QED BY <2>5, <2>6
  <1> HIDE DEF W
  <1>4. s \in W
    BY <1>1, <1>2, <1>3, ListInduction
  <1> QED BY <1>4 DEF W

\* What a resource shows as taken.
LEMMA SlotsAre ==
    ASSUME NEW u, IsStore(u), NEW r \in DOMAIN u
    PROVE  /\ DOMAIN Live(u) = DOMAIN u
           /\ \A x : x \in Slots(Live(u), r) <=> \E i \in LiveIds : x \in Range(u[r].iv[i])
  <1> PICK y, f : y = u[r] /\ f = u[r].iv
    OBVIOUS
  <1>1. y = [shape |-> y.shape, iv |-> y.iv]
    BY DEF IsStore
  <1>2. Live(u)[r].iv = [i \in LiveIds |-> f[i]]
    <2>1. Live(u)[r] = [y EXCEPT !.iv = [i \in LiveIds |-> @[i]]]
      BY DEF Live, LiveIds
    <2>2. [y EXCEPT !.iv = [i \in LiveIds |-> @[i]]] = [shape |-> y.shape, iv |-> [i \in LiveIds |-> f[i]]]
      BY <1>1
    <2> QED BY <2>1, <2>2
  <1>3. DOMAIN Live(u) = DOMAIN u
    BY DEF Live
  <1> QED BY <1>2, <1>3 DEF Slots

\* Stores that agree show the same.
LEMMA SlotsAgree ==
    ASSUME NEW s, NEW t, IsStore(s), IsStore(t), NEW r, Agree(s, t, r), r \in DOMAIN s
    PROVE  Slots(Live(s), r) = Slots(Live(t), r)
  <1>1. r \in DOMAIN t /\ \A i \in LiveIds : s[r].iv[i] = t[r].iv[i]
    BY DEF Agree, LiveIds
  <1>2. \A x : x \in Slots(Live(s), r) <=> x \in Slots(Live(t), r)
    BY <1>1, SlotsAre
  <1> QED BY <1>2

\* Spans in one are spans in the other.
LEMMA SpannedAgrees ==
    ASSUME NEW s, NEW t, NEW r, Agree(s, t, r), Spanned(s, r)
    PROVE  Spanned(t, r)
  BY DEF Agree, Spanned, LiveIds

\* A record that takes only leaves what was taken.
LEMMA RecordTakes ==
    ASSUME NEW u, IsStore(u), NEW r \in DOMAIN u, Spanned(u, r),
           NEW rec, IsRecord(rec), Takers(rec, r)
    PROVE  LET w == ApplyRecord(u, rec)
           IN  IsStore(w) /\ r \in DOMAIN w /\ Slots(Live(u), r) \subseteq Slots(Live(w), r)
  <1> PICK w : w = ApplyRecord(u, rec)
    OBVIOUS
  <1>1. IsStore(w) /\ r \in DOMAIN w
    <2>1. IsStore(w)
      BY ApplyRecordKeeps
    <2>2. r \in DOMAIN w
      <3> PICK C : C = Range(rec)
        OBVIOUS
      <3>1. rec \in Seq(C) /\ \A c \in C : IsChange(c)
        BY ElemsOf, RecordElems
      <3> DEFINE Good(v) == IsStore(ApplyRecord(u, v)) /\ r \in DOMAIN ApplyRecord(u, v)
                 W == {v \in Seq(C) : Good(v)}
      <3>2. <<>> \in W
        <4>1. Good(<<>>)
          BY RunNone
        <4> HIDE DEF Good
        <4> QED BY <4>1
      <3>3. ASSUME NEW v \in Seq(C), v \in W, NEW c \in C PROVE Append(v, c) \in W
        <4>1. IsSeq(v) /\ Append(v, c) \in Seq(C)
          BY DEF IsSeq
        <4>2. ApplyRecord(u, Append(v, c)) = Apply(ApplyRecord(u, v), c)
          BY <4>1, RunOne
        <4>3. Good(v) /\ IsChange(c)
          BY <3>1, <3>3
        <4>4. c.res = r => c.op \notin {"create", "delete"}
          BY DEF Takers, Interval
        <4>5. Good(Append(v, c))
          BY <4>2, <4>3, <4>4, ApplyKeeps, AppliedElsewhere, AppliedThere
        <4> HIDE DEF Good
        <4> QED BY <4>1, <4>5
      <3> HIDE DEF W
      <3>4. rec \in W
        BY <3>1, <3>2, <3>3, ListInduction
      <3> QED BY <3>4 DEF W
    <2> QED BY <2>1, <2>2
  <1> SUFFICES ASSUME NEW x \in Slots(Live(u), r) PROVE x \in Slots(Live(w), r)
    BY <1>1
  <1>2. PICK i \in LiveIds : x \in Range(u[r].iv[i])
    BY SlotsAre
  <1>3. ASSUME NEW c \in Range(rec), c.res = r, c.id = i, c.op # "add"
        PROVE  x \in Slots(Live(w), r)
    <2>1. c \in Replaced
      BY <1>3 DEF Takers
    <2>2. c.val = x
      BY <1>2, <1>3, <2>1 DEF Spanned
    <2>3. PICK d \in Range(rec) : /\ d.op = "add" /\ d.res = r /\ d.val = x
                                  /\ d.id \in LiveIds /\ Untaken(Range(rec), r, d.id)
      BY <1>3, <2>2 DEF Takers
    <2>4. x \in Range(w[r].iv[d.id])
      BY <2>3, ValueStays DEF LiveIds
    <2> QED BY <1>1, <2>3, <2>4, SlotsAre
  <1>4. CASE \A c \in Range(rec) : ~ (c.res = r /\ c.id = i /\ c.op # "add")
    <2>1. Untaken(Range(rec), r, i)
      BY <1>4 DEF Untaken, Takers, Interval
    <2>2. x \in Range(w[r].iv[i])
      BY <1>2, <2>1, ValueStays DEF LiveIds
    <2> QED BY <1>1, <2>2, SlotsAre
  <1> QED BY <1>3, <1>4

\* and so do many.
LEMMA RecordsTake ==
    ASSUME NEW u, IsStore(u), NEW r \in DOMAIN u, Spanned(u, r),
           NEW t, IsLog(t), \A d \in Range(Changes(t)) : Fits(d),
           \A rec \in Range(t) : Takers(rec, r)
    PROVE  r \in DOMAIN ApplyAll(u, t) /\ Slots(Live(u), r) \subseteq Slots(Live(ApplyAll(u, t)), r)
  <1> PICK C : C = Range(t)
    OBVIOUS
  <1>1. t \in Seq(C) /\ \A rec \in C : IsRecord(rec)
    <2>1. IsSeq(t) /\ \A k \in 1 .. Len(t) : IsRecord(t[k])
      BY Logs
    <2> QED BY <2>1, ElemsOf
  <1>2. ASSUME NEW rec \in C, NEW d \in Range(rec) PROVE Fits(d)
    BY <1>2, LogElems
  <1> DEFINE Good(v) == /\ IsStore(ApplyAll(u, v)) /\ r \in DOMAIN ApplyAll(u, v)
                        /\ Spanned(ApplyAll(u, v), r)
                        /\ Slots(Live(u), r) \subseteq Slots(Live(ApplyAll(u, v)), r)
             W == {v \in Seq(C) : Good(v)}
  <1>3. <<>> \in W
    <2>1. Good(<<>>)
      BY AllNone
    <2> HIDE DEF Good
    <2> QED BY <2>1
  <1>4. ASSUME NEW v \in Seq(C), v \in W, NEW rec \in C PROVE Append(v, rec) \in W
    <2> PICK m, w : m = ApplyAll(u, v) /\ w = ApplyAll(u, Append(v, rec))
      OBVIOUS
    <2>1. IsSeq(v) /\ Append(v, rec) \in Seq(C)
      BY DEF IsSeq
    <2>2. w = ApplyRecord(m, rec)
      BY <2>1, AllOne
    <2>3. IsStore(m) /\ r \in DOMAIN m /\ Spanned(m, r) /\ Slots(Live(u), r) \subseteq Slots(Live(m), r)
      BY <1>4
    <2>4. IsStore(w) /\ r \in DOMAIN w /\ Slots(Live(m), r) \subseteq Slots(Live(w), r)
      BY <1>1, <2>2, <2>3, RecordTakes
    <2>5. Spanned(w, r)
      BY <1>1, <1>2, <2>2, <2>3, Records, SpannedRun
    <2>6. Good(Append(v, rec))
      BY <2>3, <2>4, <2>5
    <2> HIDE DEF Good
    <2> QED BY <2>1, <2>6
  <1> HIDE DEF W
  <1>5. t \in W
    BY <1>1, <1>3, <1>4, ListInduction
  <1> QED BY <1>5 DEF W

\* Requests fit, and those that take only do so record by record.
LEMMA RequestFits ==
    ASSUME NEW q \in Requests
    PROVE  /\ \A c \in ChangesOf(q) : Fits(c)
           /\ Takes(q) => \A rec \in Range(q.records) : \A r : Takers(rec, r)
  <1>1. /\ IsLog(q.records) /\ IsSeq(Changes(q.records)) /\ ChangesOf(q) = Range(Changes(q.records))
        /\ \A c \in ChangesOf(q) : IsChange(c) /\ (Interval(c) => c.id \in Ids)
    BY RequestFacts
  <1>2. ASSUME NEW d \in ChangesOf(q) PROVE Fits(d)
    BY <1>1, <1>2, ReplacedAssumption DEF Fits, Interval
  <1>3. ASSUME Takes(q), NEW rec \in Range(q.records), NEW r PROVE Takers(rec, r)
    <2>1. \A c \in Range(rec) : c \in ChangesOf(q)
      BY <1>1, <1>3, LogElems
    <2>2. \A c \in Range(rec) : c.op = "add" \/ c \in Replaced
      BY <1>3, <2>1 DEF Replaced
    <2>3. \A c \in Range(rec) : Interval(c) /\ c.id \in Ids /\ c.op \in {"add", "remove"}
      BY <1>1, <2>1, <2>2, ReplacedAssumption DEF Interval
    <2>4. ASSUME NEW c \in Range(rec), c.res = r, c.op # "add"
          PROVE  \E d \in Range(rec) : /\ d.op = "add" /\ d.res = r /\ d.val = c.val
                                       /\ d.id \in LiveIds \/ c.id \notin LiveIds
                                       /\ Untaken(Range(rec), r, d.id)
      <3>1. PICK d \in Range(rec) : /\ d.op = "add" /\ d.res = c.res /\ d.val = c.val
                                    /\ d.id \in PastIds => c.id \in PastIds
        <4>1. c \in Range(rec) \cap Replaced
          BY <2>2, <2>4
        <4>2. \A e \in Range(rec) \cap Replaced :
                 \E d \in Range(rec) :
                    /\ d.op = "add" /\ d.res = e.res /\ d.val = e.val
                    /\ d.id \in PastIds => e.id \in PastIds
          BY <1>3, ReplacedAssumption
        <4> QED BY <4>1, <4>2
      <3>2. d.id \in LiveIds \/ c.id \notin LiveIds
        BY <2>3, <3>1 DEF LiveIds
      <3>3. ASSUME NEW e \in Range(rec), e.id = d.id PROVE e.op = "add"
        <4> PICK all : all = Changes(q.records)
          OBVIOUS
        <4>1. d \in Range(all) /\ e \in Range(all) /\ Interval(e)
          BY <1>1, <2>1, <2>3, <3>3
        <4>2. PICK k \in DOMAIN all, n \in DOMAIN all : all[k] = d /\ all[n] = e
          BY <4>1 DEF Range
        <4>3. n = k
          BY <3>1, <3>3, <4>1, <4>2, RequestsAssumption
        <4> QED BY <3>1, <4>2, <4>3
      <3>4. Untaken(Range(rec), r, d.id)
        BY <2>3, <3>3 DEF Untaken, Interval
      <3> QED BY <2>4, <3>1, <3>2, <3>4
    <2> QED BY <2>2, <2>3, <2>4 DEF Takers
  <1> QED BY <1>2, <1>3

\* Each write on its way is of the call that waits for it, and nobody is through
\* with applying ahead of the flush but those who take only.
Commands == Range(queue) \cup Range(writing)
Belongs(x) == x.task \in Busy /\ x.records = calls[x.task].req.records
Belonging ==
    /\ \A x \in Commands : Writes(x) => Belongs(x)
    /\ \A t \in Busy : calls[t].at = "applied" => Takes(calls[t].req)
\* The log has the spans.
Spans == \A r : Spanned(Replay(file), r)

TakingInv == JournalInv /\ Belonging /\ Spans

\* Calls that go on keep what is theirs.
LEMMA BelongingKept ==
    ASSUME PipelineInv', Belonging, Moves,
           \A x \in Commands' : Writes(x) => x \in Commands \/ Belongs(x)
    PROVE  Belonging'
  <1>1. ASSUME NEW x \in Commands', Writes(x) PROVE Belongs(x)'
    <2>1. Belongs(x)
      BY <1>1 DEF Belonging
    <2>2. x.task \in TasksOf(queue') \cup TasksOf(writing')
      <3>1. ASSUME NEW line, IsLine(line), x \in Range(line) PROVE x.task \in TasksOf(line)
        <4>1. DOMAIN line = 1 .. Len(line)
          BY <3>1, Sequences DEF IsLine
        <4>2. PICK k \in 1 .. Len(line) : line[k] = x
          BY <3>1, <4>1 DEF Range
        <4> QED BY <1>1, <4>2 DEF TasksOf
      <3>2. IsLine(queue') /\ IsLine(writing')
        BY DEF PipelineInv, LinesOK
      <3> QED BY <1>1, <3>1, <3>2 DEF Commands
    <2>3. x.task \in Busy'
      BY <2>2 DEF PipelineInv, Matched, InWait, Busy
    <2> QED BY <2>1, <2>3 DEF Belongs, Moves
  <1>2. \A t \in Busy' : calls'[t].at = "applied" => Takes(calls'[t].req)
    BY DEF Belonging, Moves, Early
  <1> QED BY <1>1, <1>2 DEF Belonging

\* A call that begins has nothing on its way.
LEMMA BeginBelongs ==
    ASSUME Belonging, NEW t \in Tasks, NEW q \in Requests, Begin(t, q)
    PROVE  Belonging'
  <1>1. /\ t \notin Busy /\ Busy' = Busy \cup {t}
        /\ calls'[t] = [req |-> q, at |-> "locked", answer |-> "none"]
        /\ \A u \in Busy : calls'[u] = calls[u]
    <2>1. calls' = [u \in Busy \cup {t} |->
                    IF u = t THEN [req |-> q, at |-> "locked", answer |-> "none"]
                    ELSE calls[u]]
      BY DEF Begin
    <2>2. t \notin Busy
      BY DEF Begin
    <2> QED BY <2>1, <2>2 DEF Busy
  <1>2. Commands' = Commands
    BY DEF Begin, Commands
  <1>3. \A x \in Commands' : Writes(x) => Belongs(x)'
    BY <1>1, <1>2 DEF Belonging, Belongs
  <1>4. \A u \in Busy' : calls'[u].at = "applied" => Takes(calls'[u].req)
    BY <1>1 DEF Belonging
  <1> QED BY <1>3, <1>4 DEF Belonging

\* A step of a call.
LEMMA CallerBelongs ==
    ASSUME PipelineInv, PipelineInv', Belonging, NEW t \in Tasks, TaskStep(t)
    PROVE  Belonging'
  <1>1. CASE Enqueue(t)
    <2>1. t \in Busy /\ calls[t].at = "locked" /\ UNCHANGED writing
      BY <1>1 DEF Enqueue
    <2>2. CASE failed
      <3>1. End(t) /\ UNCHANGED queue
        BY <1>1, <2>2 DEF Enqueue
      <3>2. Moves
        BY <3>1, MovesEnd
      <3>3. Commands' = Commands
        BY <2>1, <3>1 DEF Commands
      <3> QED BY <3>2, <3>3, BelongingKept
    <2>3. CASE ~failed
      <3> PICK x : x = [cmd |-> IF Len(calls[t].req.records) = 1 THEN "Append" ELSE "AppendAtomic",
                        records |-> calls[t].req.records, task |-> t]
        OBVIOUS
      <3>1. queue' = Append(queue, x) /\ calls' = [calls EXCEPT ![t].at = "queued"]
        BY <1>1, <2>3 DEF Enqueue
      <3>2. Moves
        BY <2>1, <3>1, MovesOn
      <3>3. Commands' = Commands \cup {x}
        BY <2>1, <3>1, ElemsOneMore DEF Commands, PipelineInv, LinesOK, IsLine
      <3>4. Belongs(x)
        BY <2>1 DEF Belongs
      <3> QED BY <3>2, <3>3, <3>4, BelongingKept
    <2> QED BY <2>2, <2>3
  <1>2. CASE ApplyEarly(t)
    <2>1. /\ t \in Busy /\ Early(calls[t].req) /\ calls' = [calls EXCEPT ![t].at = "applied"]
          /\ UNCHANGED <<queue, writing>>
      BY <1>2 DEF ApplyEarly
    <2>2. Moves
      BY <2>1, MovesOn
    <2>3. Commands' = Commands
      BY <2>1 DEF Commands
    <2> QED BY <2>2, <2>3, BelongingKept
  <1>3. CASE Return(t)
    <2>1. End(t) /\ UNCHANGED <<queue, writing>>
      BY <1>3 DEF Return
    <2>2. Moves
      BY <2>1, MovesEnd
    <2>3. Commands' = Commands
      BY <2>1 DEF Commands
    <2> QED BY <2>2, <2>3, BelongingKept
  <1> QED BY <1>1, <1>2, <1>3 DEF TaskStep

\* A step of the writer.
LEMMA WriterBelongs ==
    ASSUME PipelineInv, PipelineInv', CallsApart, Belonging,
           \/ TakeBatch \/ FlushOk \/ (\E kept : FlushFail(kept)) \/ HandleBegin \/ HandleCompact
    PROVE  Belonging'
  <1>1. CASE TakeBatch
    <2>1. PICK batch : /\ IsSeq(batch) /\ IsSeq(queue') /\ queue = batch \o queue'
                       /\ writing' = <<>> \/ writing' = batch
      BY <1>1, BatchTaken
    <2>2. Range(queue) = Range(batch) \cup Range(queue')
      BY <2>1, ElemsJoined
    <2>3. Commands' \subseteq Commands
      BY <2>1, <2>2, Elems DEF Commands
    <2> QED BY <1>1, <2>3, WriterApart, BelongingKept
  <1>2. CASE FlushOk \/ \E kept : FlushFail(kept)
    <2>1. UNCHANGED queue /\ writing' = <<>>
      BY <1>2 DEF FlushOk, FlushFail
    <2>2. Commands' \subseteq Commands
      BY <2>1, Elems DEF Commands
    <2> QED BY <1>2, <2>2, WriterApart, BelongingKept
  <1>3. CASE HandleBegin \/ HandleCompact
    <2>1. queue # <<>> /\ queue' = Tail(queue) /\ UNCHANGED <<writing, calls>>
      BY <1>3 DEF HandleBegin, HandleCompact
    <2>2. queue = <<Head(queue)>> \o Tail(queue) /\ IsSeq(Tail(queue)) /\ IsSeq(<<Head(queue)>>)
      BY <2>1, TailIs, ShortLists DEF PipelineInv, LinesOK, IsLine
    <2>3. Range(queue) = Range(<<Head(queue)>>) \cup Range(queue')
      BY <2>1, <2>2, ElemsJoined
    <2>4. Commands' \subseteq Commands
      BY <2>1, <2>3 DEF Commands
    <2> QED BY <2>1, <2>4, MovesSame, BelongingKept
  <1> QED BY <1>1, <1>2, <1>3

\* What is on its way is in a command that writes.
LEMMA PipelineFrom ==
    ASSUME PipelineInv, NEW rec \in Range(Pipeline)
    PROVE  \E x \in Commands : Writes(x) /\ rec \in Range(x.records)
  <1>1. IsLine(queue) /\ IsLine(writing) /\ IsSeq(queue) /\ IsSeq(writing) /\ IsLine(Line)
    BY WholeIs DEF PipelineInv, LinesOK, IsLine
  <1> PICK l, t : l = Line /\ t = WrittenTable(l)
    OBVIOUS
  <1>2. /\ IsLists(t) /\ Len(t) = Len(l) /\ \A k \in 1 .. Len(l) : t[k] = Payload(l[k])
        /\ Pipeline = FlattenSeq(t)
    BY <1>1, TableIs DEF Pipeline, Line
  <1>3. PICK k \in 1 .. Len(l) : rec \in Range(t[k])
    BY <1>2, ElemsStrung
  <1>4. rec \in Range(Payload(l[k]))
    BY <1>2, <1>3
  <1>5. Writes(l[k]) /\ rec \in Range(l[k].records)
    BY <1>4, Elems DEF Payload
  <1>6. l[k] \in Commands
    <2>1. Range(l) = Range(writing) \cup Range(queue)
      BY <1>1, ElemsJoined DEF Line
    <2>2. DOMAIN l = 1 .. Len(l)
      BY <1>1, Sequences DEF IsLine
    <2> QED BY <2>1, <2>2 DEF Range, Commands
  <1> QED BY <1>5, <1>6

\* The compactor, the collector and a stutter.
LEMMA QuietBelongs ==
    ASSUME PipelineInv, PipelineInv', Belonging,
           StartCompact \/ CompactStep \/ (\E r \in Resources : Gc(r)) \/ UNCHANGED vars
    PROVE  Belonging' /\ UNCHANGED file
  <1>1. UNCHANGED <<writing, calls, file>>
    BY DEF StartCompact, CompactStep, ListResources, SendCompact, SnapshotOne, Gc, vars
  <1>2. UNCHANGED queue \/ \E x : ~Writes(x) /\ queue' = Append(queue, x)
    <2>1. CASE StartCompact
      <3>1. queue' = Append(queue, Begins)
        BY <2>1 DEF StartCompact, Begins
      <3> QED BY <3>1, CommandsAre
    <2>2. CASE SendCompact
      <3>1. queue' = Append(queue, Compacts(compactor.snap))
        BY <2>2 DEF SendCompact, Compacts
      <3> QED BY <3>1, CommandsAre
    <2>3. CASE ListResources \/ (\E r \in Resources : SnapshotOne(r) \/ Gc(r)) \/ UNCHANGED vars
      BY <2>3 DEF ListResources, SnapshotOne, Gc, vars
    <2> QED BY <2>1, <2>2, <2>3 DEF CompactStep
  <1>3. \A x \in Commands' : Writes(x) => x \in Commands
    <2>1. IsSeq(queue)
      BY DEF PipelineInv, LinesOK, IsLine
    <2>2. CASE UNCHANGED queue
      BY <1>1, <2>2 DEF Commands
    <2>3. ASSUME NEW x, ~Writes(x), queue' = Append(queue, x) PROVE \A y \in Commands' : Writes(y) => y \in Commands
      <3>1. Range(queue') = Range(queue) \cup {x}
        BY <2>1, <2>3, ElemsOneMore
      <3> QED BY <1>1, <2>3, <3>1 DEF Commands
    <2> QED BY <1>2, <2>2, <2>3
  <1> QED BY <1>1, <1>3, MovesSame, BelongingKept

\* After a restart nothing is on its way.
LEMMA RestartBelongs ==
    ASSUME NEW log, Restart(log)
    PROVE  Belonging'
  <1>1. Commands' = {} /\ Busy' = {}
    BY Elems DEF Restart, Commands, Busy, Nothing
  <1> QED BY <1>1 DEF Belonging

\* What is being written fits.
LEMMA WritingFits ==
    ASSUME PipelineInv, Belonging
    PROVE  /\ \A d \in LineChanges(writing) : Fits(d)
           /\ \A d \in Range(Changes(Pipeline)) : Fits(d)
  <1>1. IsLine(queue) /\ IsLine(writing) /\ IsLine(Line) /\ AllWrite(writing)
    BY WholeIs DEF PipelineInv, LinesOK
  <1>2. ASSUME NEW x \in Commands, Writes(x), NEW d \in Range(Changes(x.records)) PROVE Fits(d)
    <2>1. x.records = calls[x.task].req.records /\ x.task \in Busy
      BY <1>2 DEF Belonging, Belongs
    <2>2. calls[x.task].req \in Requests
      BY <2>1, CallFacts
    <2> QED BY <1>2, <2>1, <2>2, RequestFits, RequestFacts
  <1>3. ASSUME NEW d \in LineChanges(writing) PROVE Fits(d)
    <2>1. PICK k \in 1 .. Len(writing) : d \in Range(Changes(writing[k].records))
      BY DEF LineChanges
    <2>2. Writes(writing[k]) /\ writing[k] \in Commands
      <3>1. DOMAIN writing = 1 .. Len(writing)
        BY <1>1, Sequences DEF IsLine
      <3> QED BY <1>1, <3>1 DEF AllWrite, Commands, Range
    <2> QED BY <1>2, <2>1, <2>2
  <1>4. ASSUME NEW d \in Range(Changes(Pipeline)) PROVE Fits(d)
    <2>1. PICK rec \in Range(Pipeline) : d \in Range(rec)
      BY <1>4, WholeIs, LogElems
    <2>2. PICK x \in Commands : Writes(x) /\ rec \in Range(x.records)
      BY <2>1, PipelineFrom
    <2>3. x.records = calls[x.task].req.records /\ calls[x.task].req \in Requests
      BY <2>2, CallFacts DEF Belonging, Belongs
    <2>4. d \in Range(Changes(x.records))
      BY <2>1, <2>2, <2>3, RequestFacts, LogElems
    <2> QED BY <1>2, <2>2, <2>4
  <1> QED BY <1>3, <1>4

\* A beginning of what is being written leaves the log its spans.
LEMMA FlushSpans ==
    ASSUME PipelineInv, Belonging, Spans, NEW kept \in Prefixes(RecordsOf(writing))
    PROVE  \A r : Spanned(Replay(file \o kept), r)
  <1> SUFFICES ASSUME NEW r PROVE Spanned(Replay(file \o kept), r)
    OBVIOUS
  <1>1. IsLog(RecordsOf(writing)) /\ Range(Changes(RecordsOf(writing))) = LineChanges(writing) /\ IsLog(file)
    BY WrittenElems DEF PipelineInv, LinesOK, LogsOK
  <1> PICK rest : IsLog(kept) /\ IsLog(rest) /\ RecordsOf(writing) = kept \o rest
    BY <1>1, KeptPart
  <1>2. Range(Changes(kept)) \subseteq LineChanges(writing)
    <2>1. Range(Changes(kept \o rest)) = Range(Changes(kept)) \cup Range(Changes(rest))
      BY LogsJoined
    <2> QED BY <1>1, <2>1
  <1>3. Replay(file \o kept) = ApplyAll(Replay(file), kept) /\ IsStore(Replay(file))
    BY <1>1, ReplayJoined
  <1>4. ApplyAll(Replay(file), kept) = ApplyRecord(Replay(file), Changes(kept)) /\ IsSeq(Changes(kept))
    BY AllIsRerun
  <1>5. \A d \in Range(Changes(kept)) : Fits(d)
    BY <1>2, WritingFits
  <1>6. Spanned(Replay(file), r)
    BY DEF Spans
  <1>7. Spanned(ApplyRecord(Replay(file), Changes(kept)), r)
    BY <1>3, <1>4, <1>5, <1>6, SpannedRun
  <1> QED BY <1>3, <1>4, <1>7

\* The invariant at the start,
LEMMA TakingStarts == Init => TakingInv
  <1> SUFFICES ASSUME Init PROVE TakingInv
    OBVIOUS
  <1>1. JournalInv
    BY JournalStarts
  <1>2. Belonging
    <2>1. Commands = {} /\ Busy = {}
      BY Elems DEF Init, Commands, Busy, Nothing
    <2> QED BY <2>1 DEF Belonging
  <1>3. ASSUME NEW r PROVE Spanned(Replay(file), r)
    <2>1. Agree(Replay(file), InitialStore, r)
      BY ContentsAssumption, SnapshotIs DEF Init
    <2>2. Spanned(InitialStore, r)
      BY ReplacedAssumption DEF Spanned
    <2> QED BY <2>1, <2>2, AgreeFacts, SpannedAgrees
  <1> QED BY <1>1, <1>2, <1>3 DEF TakingInv, Spans

\* and after every step.
LEMMA TakingKept ==
    ASSUME QuietTopology, ~ReuseIds, TakingInv, [Next]_vars
    PROVE  TakingInv'
  <1>1. JournalInv' /\ JournalInv
    BY JournalKept DEF TakingInv
  <1>2. PipelineInv /\ PipelineInv' /\ CallsApart /\ Belonging /\ Spans
    BY <1>1 DEF JournalInv, TakingInv
  <1>3. ASSUME UNCHANGED file PROVE Spans'
    BY <1>2, <1>3 DEF Spans
  <1>4. ASSUME NEW t \in Tasks, TaskStep(t) \/ \E q \in Requests : Begin(t, q)
        PROVE  Belonging' /\ Spans'
    <2>1. UNCHANGED file
      BY <1>4 DEF TaskStep, Enqueue, ApplyEarly, Return, Begin
    <2> QED BY <1>2, <1>3, <1>4, <2>1, CallerBelongs, BeginBelongs
  <1>5. ASSUME WriterStep PROVE Belonging' /\ Spans'
    <2>1. Belonging'
      BY <1>2, <1>5, WriterBelongs DEF WriterStep
    <2>2. CASE FlushOk
      <3>1. file' = file \o RecordsOf(writing)
        BY <2>2 DEF FlushOk
      <3>2. RecordsOf(writing) \in Prefixes(RecordsOf(writing))
        <4>1. IsSeq(RecordsOf(writing))
          BY <1>2, WrittenElems, Logs DEF PipelineInv, LinesOK
        <4> QED BY <4>1, WholePrefix
      <3> QED BY <1>2, <2>1, <3>1, <3>2, FlushSpans DEF Spans
    <2>3. CASE HandleCompact
      <3>1. UNCHANGED file \/ \A r : Agree(Replay(file'), Replay(file), r)
        BY <1>1, <2>3, HandleCompactSwaps DEF JournalInv
      <3>2. ASSUME \A r : Agree(Replay(file'), Replay(file), r) PROVE Spans'
        <4> SUFFICES ASSUME NEW r PROVE Spanned(Replay(file'), r)
          BY DEF Spans
        <4> QED BY <1>2, <3>2, AgreeFacts, SpannedAgrees DEF Spans
      <3> QED BY <1>3, <2>1, <3>1, <3>2
    <2>4. CASE TakeBatch \/ HandleBegin
      <3>1. UNCHANGED file
        BY <2>4 DEF TakeBatch, HandleBegin
      <3> QED BY <1>3, <2>1, <3>1
    <2> QED BY <1>5, <2>2, <2>3, <2>4 DEF WriterStep
  <1>6. ASSUME NEW kept \in Prefixes(RecordsOf(writing)), FlushFail(kept) \/ Crash(kept)
        PROVE  Belonging' /\ Spans'
    <2>1. file' = file \o kept
      BY <1>6 DEF FlushFail, Crash, Restart
    <2>2. Spans'
      BY <1>2, <2>1, FlushSpans DEF Spans
    <2> QED BY <1>2, <1>6, <2>2, WriterBelongs, RestartBelongs DEF Crash
  <1>7. ASSUME Rebuild PROVE Belonging' /\ Spans'
    BY <1>2, <1>3, <1>7, RestartBelongs DEF Rebuild, Restart
  <1>8. ASSUME StartCompact \/ CompactStep \/ (\E r \in Resources : Gc(r)) \/ UNCHANGED vars
        PROVE  Belonging' /\ Spans'
    BY <1>2, <1>3, <1>8, QuietBelongs
  <1>9. Belonging' /\ Spans'
    BY <1>4, <1>5, <1>6, <1>7, <1>8 DEF Next, FaultStep
  <1> QED BY <1>1, <1>9 DEF TakingInv

\* What the invariant says of time: what the file has taken, memory has.
LEMMA TakenInMemory ==
    ASSUME TakingInv
    PROVE  NoTimeFreedEarly
  <1>1. PipelineInv /\ InMemory /\ Belonging /\ Spans
    BY DEF TakingInv, JournalInv
  <1> SUFFICES ASSUME ~failed, NEW r \in Resources, Settled(r), r \in DOMAIN Meaning(file)
               PROVE  r \in DOMAIN mem /\ Slots(Meaning(file), r) \subseteq Slots(Live(mem), r)
    BY DEF NoTimeFreedEarly
  <1> PICK u : u = Replay(file)
    OBVIOUS
  <1>2. IsStore(u) /\ r \in DOMAIN u /\ Spanned(u, r) /\ Meaning(file) = Live(u) /\ IsStore(mem)
    BY <1>1, ReplayIsStore DEF PipelineInv, LogsOK, StoresOK, Spans, Meaning, Live
  <1>3. Built = ApplyAll(u, Pipeline) /\ IsLog(Pipeline) /\ IsStore(Built)
    BY <1>1, WholeIs
  <1>4. \A d \in Range(Changes(Pipeline)) : Fits(d)
    BY <1>1, WritingFits
  <1>5. ASSUME NEW rec \in Range(Pipeline) PROVE Takers(rec, r)
    <2>1. PICK x \in Commands : Writes(x) /\ rec \in Range(x.records)
      BY <1>1, PipelineFrom
    <2> PICK t, q : t = x.task /\ q = calls[t].req
      OBVIOUS
    <2>2. t \in Busy /\ x.records = q.records /\ q \in Requests
      BY <1>1, <2>1, CallFacts DEF Belonging, Belongs
    <2>3. CASE r \notin Touches(q)
      <3>1. \A c \in Range(rec) : c.res # r
        BY <2>1, <2>2, <2>3, RequestFacts, LogElems DEF Touches
      <3> QED BY <3>1 DEF Takers
    <2>4. CASE r \in Touches(q)
      <3>1. ~Topology(q) /\ r \notin Locks(t)
        BY <2>2, <2>4 DEF Settled, Locked, Reshaping
      <3>2. calls[t].at = "applied"
        BY <2>4, <3>1 DEF Locks
      <3>3. Takes(q)
        BY <1>1, <2>2, <3>2 DEF Belonging
      <3> QED BY <2>1, <2>2, <3>3, RequestFits
    <2> QED BY <2>3, <2>4
  <1>6. r \in DOMAIN Built /\ Slots(Live(u), r) \subseteq Slots(Live(Built), r)
    BY <1>2, <1>3, <1>4, <1>5, RecordsTake
  <1>7. Agree(mem, Built, r)
    BY <1>1, SettledAgrees DEF Settled, Reshaping
  <1>8. r \in DOMAIN mem /\ Slots(Live(mem), r) = Slots(Live(Built), r)
    BY <1>2, <1>3, <1>6, <1>7, AgreeFacts, SlotsAgree
  <1> QED BY <1>2, <1>6, <1>8

-------------------------------------------------------------------------------
(* The theorems.                                                           *)

\* For any number of callers, requests, resources, compactions, failed flushes and
\* crashes: a resource nobody is changing holds in memory exactly what replaying the
\* log and the records on their way would build, as long as creates and deletes
\* keep clear of compactions and no interval's id is used again (persist_early,
\* persist_and_apply and merge_recorded in engine/mutations.rs and engine/mod.rs).
THEOREM MemoryAlwaysMatches ==
    ASSUME QuietTopology, ~ReuseIds
    PROVE  Spec => []MemoryMatchesLog
  <1>1. Init => JournalInv
    BY JournalStarts
  <1>2. JournalInv /\ [Next]_vars => JournalInv'
    BY JournalKept
  <1>3. JournalInv => MemoryMatchesLog
    BY MemoryMatches DEF JournalInv
  <1> QED BY <1>1, <1>2, <1>3, PTL DEF Spec

\* Under the same conditions the swap of a compaction (compact in engine/mod.rs)
\* changes nothing that replaying the file builds: no acknowledged record is
\* erased, none is applied twice.
THEOREM SwapsKeepMeaning ==
    ASSUME QuietTopology, ~ReuseIds
    PROVE  Spec => CompactionKeepsMeaning
  <1>1. Init => JournalInv
    BY JournalStarts
  <1>2. JournalInv /\ [Next]_vars => JournalInv'
    BY JournalKept
  <1>3. JournalInv /\ JournalInv' /\ [Next]_vars => [HandleCompact => Meaning(file') = Meaning(file)]_vars
    BY SwapKeepsMeaning
  <1> QED BY <1>1, <1>2, <1>3, PTL DEF Spec, CompactionKeepsMeaning

\* Under the same conditions: no reader is shown time as free that a crash would
\* take back, because what only takes time (persist_early) replaces what it
\* removes, and everything else keeps its locks until its record is on disk
\* (persist_and_apply, in engine/mutations.rs and engine/mod.rs).
THEOREM NoReaderSeesTimeFreed ==
    ASSUME QuietTopology, ~ReuseIds
    PROVE  Spec => []NoTimeFreedEarly
  <1>1. Init => TakingInv
    BY TakingStarts
  <1>2. TakingInv /\ [Next]_vars => TakingInv'
    BY TakingKept
  <1>3. TakingInv => NoTimeFreedEarly
    BY TakenInMemory
  <1> QED BY <1>1, <1>2, <1>3, PTL DEF Spec
===============================================================================
