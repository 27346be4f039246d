----------------------------- MODULE WalFileProofs ----------------------------
(* Theorems about WalFile, for every value of its constants: the shape of  *)
(* the files, that they never mix, and that what is sure is never lost.    *)
EXTENDS WalFile, SequenceTheorems, WellFoundedInduction, TLAPS

-------------------------------------------------------------------------------
(* What reading a file gives.                                              *)

Cells == [kind : {"zero", "head", "len", "body"}, n : Int]

At(data) == read_header(data).at
Rec(data, k) == IsRecord(data, At(data) + 2 * k - 1)

PrefixOf(s, t) == Len(s) <= Len(t) /\ \A k \in 1 .. Len(s) : s[k] = t[k]

Events(data) == scan(data).events

\* Written by this binary; nothing bad in it; nothing but a record that stops
\* short at its end.
Current(data) == data # <<>> /\ data[1] = Cell("head", FORMAT_VERSION)
Clean(data)   == Current(data) /\ Len(data) = ValidLen(data)
Tidy(data)    == \/ Len(data) = ValidLen(data)
                 \/ Len(data) = ValidLen(data) + 1 /\ data[Len(data)].kind = "len"

\* It has lost the bytes of its last cell, which is not the first.
Trunk(data) == SubSeq(data, 1, Len(data) - 1)
Torn(data)  == Len(data) > 1 /\ data[Len(data)] = Zero /\ Tidy(Trunk(data))
Short(data) == Tidy(data) \/ Torn(data)

\* A predicate that fails somewhere fails somewhere first.
LEMMA FirstFailure ==
    ASSUME NEW S, S \subseteq Nat, S # {}
    PROVE  \E x \in S : \A y \in S : x <= y
  <1> DEFINE R == {ss \in Nat \X Nat : ss[1] < ss[2]}
  <1>1. OpToRel(<, Nat) = R
    BY Zenon DEF OpToRel
  <1>2. IsWellFoundedOn(R, Nat)
    BY <1>1, NatLessThanWellFounded, Zenon
  <1>3. \E x \in S : \A y \in S : ~ (<<y, x>> \in R)
    <2> HIDE DEF R
    <2> QED BY <1>2, WFMin
  <1>4. PICK x \in S : \A y \in S : ~ (<<y, x>> \in R)
    BY <1>3
  <1>5. ASSUME NEW y \in S PROVE x <= y
    <2>1. x \in Nat /\ y \in Nat /\ ~ (<<y, x>> \in R)
      BY <1>4, <1>5
    <2>2. ~ (y < x)
      BY <2>1
    <2> QED BY <2>1, <2>2
  <1> QED BY <1>5

\* Where the records of a file begin.
LEMMA HeaderIs ==
    ASSUME NEW data \in Seq(Cells)
    PROVE  /\ At(data) \in {0, 1} /\ At(data) <= Len(data)
           /\ At(data) = 1 <=> data # <<>> /\ data[1].kind = "head"
           /\ read_header(data).version = IF At(data) = 1 THEN data[1].n ELSE 0
           /\ Current(data) => At(data) = 1 /\ read_header(data).version = FORMAT_VERSION
  <1>1. data # <<>> => Len(data) >= 1
    OBVIOUS
  <1> QED BY <1>1 DEF At, read_header, HasHeader, LEGACY_FORMAT_VERSION, Current, Cell

\* The number of records a reader takes: up to the first that is not whole.
LEMMA WholeUnique ==
    ASSUME NEW data \in Seq(Cells), NEW n \in Nat,
           \A k \in 1 .. n : Rec(data, k), ~Rec(data, n + 1)
    PROVE  /\ Whole(data) = n /\ At(data) + 2 * n <= Len(data)
           /\ ValidLen(data) = At(data) + 2 * n
  <1>0. At(data) \in {0, 1} /\ At(data) <= Len(data) /\ Len(data) \in Nat
    BY HeaderIs
  <1>1. At(data) + 2 * n <= Len(data)
    <2>1. CASE n = 0
      BY <1>0, <2>1
    <2>2. CASE n # 0
      <3>1. n \in 1 .. n
        BY <2>2
      <3>2. IsRecord(data, At(data) + 2 * n - 1)
        BY <3>1 DEF Rec
      <3> QED BY <1>0, <3>2 DEF IsRecord
    <2> QED BY <2>1, <2>2
  <1>2. n \in 0 .. Len(data)
    BY <1>0, <1>1
  <1> DEFINE Q(m) == (\A k \in 1 .. m : Rec(data, k)) /\ ~Rec(data, m + 1)
  <1>3. ASSUME NEW m \in 0 .. Len(data), Q(m) PROVE m = n
    <2>1. m < n => m + 1 \in 1 .. n
      BY <1>0
    <2>2. n < m => n + 1 \in 1 .. m
      BY <1>0
    <2> QED BY <1>0, <1>3, <2>1, <2>2
  <1>4. Whole(data) = CHOOSE m \in 0 .. Len(data) : Q(m)
    <2>1. \A m \in 0 .. Len(data) : At(data) + 2 * m + 1 = At(data) + 2 * (m + 1) - 1
      BY <1>0
    <2>2. \A m \in 0 .. Len(data) :
             Q(m) <=> /\ \A k \in 1 .. m : IsRecord(data, At(data) + 2 * k - 1)
                      /\ ~IsRecord(data, At(data) + 2 * m + 1)
      BY <2>1 DEF Rec
    <2> HIDE DEF Q
    <2> QED BY <2>2 DEF Whole, At
  <1>5. Q(n)
    OBVIOUS
  <1>6. Whole(data) = n
    <2> HIDE DEF Q
    <2> QED BY <1>2, <1>3, <1>4, <1>5
  <1> QED BY <1>1, <1>6 DEF ValidLen, At

\* What Whole counts, and that it is within the file.
LEMMA WholeIs ==
    ASSUME NEW data \in Seq(Cells)
    PROVE  /\ Whole(data) \in Nat /\ At(data) + 2 * Whole(data) <= Len(data)
           /\ ValidLen(data) = At(data) + 2 * Whole(data)
           /\ \A k \in 1 .. Whole(data) : Rec(data, k)
           /\ ~Rec(data, Whole(data) + 1)
  <1>0. At(data) \in {0, 1} /\ At(data) <= Len(data) /\ Len(data) \in Nat
    BY HeaderIs
  <1> DEFINE S == {m \in Nat : ~Rec(data, m + 1)}
  <1>1. ~Rec(data, Len(data) + 1)
    BY <1>0 DEF Rec, IsRecord
  <1>2. PICK n \in S : \A m \in S : n <= m
    <2>1. S \subseteq Nat /\ S # {}
      BY <1>0, <1>1
    <2> HIDE DEF S
    <2> QED BY <2>1, FirstFailure
  <1>3. ASSUME NEW k \in 1 .. n PROVE Rec(data, k)
    <2>1. k - 1 \in Nat /\ (k - 1) + 1 = k /\ k - 1 < n
      BY <1>2
    <2>2. k - 1 \notin S
      <3>1. n \in Nat
        BY <1>2
      <3> HIDE DEF S
      <3> QED BY <1>2, <2>1, <3>1
    <2> QED BY <2>1, <2>2
  <1>4. n \in Nat /\ ~Rec(data, n + 1)
    BY <1>2
  <1>5. Whole(data) = n /\ At(data) + 2 * n <= Len(data) /\ ValidLen(data) = At(data) + 2 * n
    BY <1>3, <1>4, WholeUnique
  <1> QED BY <1>3, <1>4, <1>5

\* The events of a file, one by one.
LEMMA EventsAre ==
    ASSUME NEW data \in Seq(Cells)
    PROVE  /\ Events(data) \in Seq(Int) /\ Len(Events(data)) = Whole(data)
           /\ DOMAIN Events(data) = 1 .. Whole(data)
           /\ \A k \in 1 .. Whole(data) : Events(data)[k] = data[At(data) + 2 * k].n
  <1>1. Events(data) = [k \in 1 .. Whole(data) |-> data[At(data) + 2 * k].n]
    BY DEF Events, scan, At
  <1>2. Whole(data) \in Nat /\ At(data) + 2 * Whole(data) <= Len(data) /\ At(data) \in {0, 1}
    BY WholeIs, HeaderIs
  <1>3. ASSUME NEW k \in 1 .. Whole(data) PROVE data[At(data) + 2 * k].n \in Int
    <2>1. At(data) + 2 * k \in 1 .. Len(data)
      BY <1>2
    <2>2. data[At(data) + 2 * k] \in Cells
      BY <2>1
    <2> QED BY <2>2 DEF Cells
  <1>4. Events(data) \in [1 .. Whole(data) -> Int]
    BY <1>1, <1>3
  <1>5. Events(data) \in Seq(Int) /\ Len(Events(data)) = Whole(data)
    BY <1>2, <1>4, SeqDef
  <1> QED BY <1>1, <1>4, <1>5

\* Reading a part of a file from its beginning gives a part of what the whole
\* of it gives, and a file without holes has none in a part of it.
LEMMA PartReads ==
    ASSUME NEW s \in Seq(Cells), NEW t \in Seq(Cells), PrefixOf(s, t), s # <<>>
    PROVE  /\ At(s) = At(t) /\ read_header(s) = read_header(t)
           /\ Current(s) <=> Current(t)
           /\ PrefixOf(Events(s), Events(t))
           /\ Whole(s) <= Whole(t)
           /\ \A n \in 1 .. Whole(t) : At(t) + 2 * n <= Len(s) => n <= Whole(s)
           /\ Tidy(t) => Tidy(s)
  <1>0. /\ Len(s) \in Nat /\ Len(t) \in Nat /\ Len(s) >= 1 /\ Len(s) <= Len(t)
        /\ \A k \in 1 .. Len(s) : s[k] = t[k]
    BY DEF PrefixOf
  <1>1. s[1] = t[1] /\ t # <<>>
    BY <1>0
  <1>2. read_header(s) = read_header(t)
    BY <1>1 DEF read_header, HasHeader
  <1>3. At(s) = At(t) /\ At(s) \in {0, 1}
    BY <1>2, HeaderIs DEF At
  <1>4. Current(s) <=> Current(t)
    BY <1>1 DEF Current
  <1>5. ASSUME NEW k \in Nat, k >= 1
        PROVE  Rec(s, k) <=> Rec(t, k) /\ At(t) + 2 * k <= Len(s)
    <2>1. CASE At(t) + 2 * k <= Len(s)
      <3>1. At(t) + 2 * k - 1 \in 1 .. Len(s) /\ At(t) + 2 * k \in 1 .. Len(s)
            /\ (At(t) + 2 * k - 1) + 1 = At(t) + 2 * k
        BY <1>0, <1>3, <1>5, <2>1
      <3>2. s[At(t) + 2 * k - 1] = t[At(t) + 2 * k - 1] /\ s[At(t) + 2 * k] = t[At(t) + 2 * k]
        BY <1>0, <3>1
      <3> QED BY <1>0, <1>3, <2>1, <3>1, <3>2 DEF Rec, IsRecord
    <2>2. CASE ~(At(t) + 2 * k <= Len(s))
      BY <1>0, <1>3, <1>5, <2>2 DEF Rec, IsRecord
    <2> QED BY <2>1, <2>2
  <1>6. /\ Whole(s) \in Nat /\ Whole(t) \in Nat
        /\ At(s) + 2 * Whole(s) <= Len(s) /\ At(t) + 2 * Whole(t) <= Len(t)
        /\ ValidLen(s) = At(s) + 2 * Whole(s) /\ ValidLen(t) = At(t) + 2 * Whole(t)
        /\ \A k \in 1 .. Whole(s) : Rec(s, k)
        /\ \A k \in 1 .. Whole(t) : Rec(t, k)
        /\ ~Rec(s, Whole(s) + 1) /\ ~Rec(t, Whole(t) + 1)
    BY WholeIs
  <1>7. Whole(s) <= Whole(t)
    <2>1. CASE Whole(t) + 1 \in 1 .. Whole(s)
      <3>1. Rec(s, Whole(t) + 1) /\ Whole(t) + 1 \in Nat /\ Whole(t) + 1 >= 1
        BY <1>6, <2>1
      <3> QED BY <1>5, <1>6, <3>1
    <2> QED BY <1>6, <2>1
  <1>8. ASSUME NEW n \in 1 .. Whole(t), At(t) + 2 * n <= Len(s) PROVE n <= Whole(s)
    <2>1. CASE Whole(s) + 1 <= n
      <3>1. Whole(s) + 1 \in 1 .. Whole(t) /\ Whole(s) + 1 \in Nat /\ Whole(s) + 1 >= 1
        BY <1>6, <2>1
      <3>2. At(t) + 2 * (Whole(s) + 1) <= Len(s)
        BY <1>0, <1>3, <1>6, <1>8, <2>1
      <3>3. Rec(t, Whole(s) + 1)
        BY <1>6, <3>1
      <3> QED BY <1>5, <1>6, <3>1, <3>2, <3>3
    <2> QED BY <1>6, <2>1
  <1>9. PrefixOf(Events(s), Events(t))
    <2>1. ASSUME NEW k \in 1 .. Whole(s) PROVE s[At(s) + 2 * k].n = t[At(t) + 2 * k].n
      <3>1. At(s) + 2 * k \in 1 .. Len(s)
        BY <1>0, <1>3, <1>6
      <3> QED BY <1>0, <1>3, <3>1
    <2>2. 1 .. Whole(s) \subseteq 1 .. Whole(t)
      BY <1>6, <1>7
    <2> QED BY <1>6, <1>7, <2>1, <2>2, EventsAre DEF PrefixOf
  <1>10. Tidy(t) => Tidy(s)
    <2> SUFFICES ASSUME Tidy(t) PROVE Tidy(s)
      OBVIOUS
    <2>1. CASE Whole(s) = Whole(t)
      <3>1. CASE Len(s) = ValidLen(s)
        BY <3>1 DEF Tidy
      <3>2. CASE Len(s) # ValidLen(s)
        <4>1. Len(s) = ValidLen(s) + 1 /\ Len(t) = ValidLen(t) + 1 /\ Len(s) = Len(t)
              /\ t[Len(t)].kind = "len"
          BY <1>0, <1>3, <1>6, <2>1, <3>2 DEF Tidy
        <4> QED BY <1>0, <4>1 DEF Tidy
      <3> QED BY <3>1, <3>2
    <2>2. CASE Whole(s) < Whole(t)
      <3>1. Whole(s) + 1 \in 1 .. Whole(t)
        BY <1>6, <2>2
      <3>2. ~(At(t) + 2 * (Whole(s) + 1) <= Len(s))
        BY <1>6, <1>8, <3>1
      <3>3. Len(s) = ValidLen(s) \/ Len(s) = ValidLen(s) + 1
        BY <1>0, <1>3, <1>6, <3>2
      <3>4. ASSUME Len(s) = ValidLen(s) + 1 PROVE s[Len(s)].kind = "len"
        <4>1. IsRecord(t, At(t) + 2 * (Whole(s) + 1) - 1)
          BY <1>6, <3>1 DEF Rec
        <4>2. At(t) + 2 * (Whole(s) + 1) - 1 = Len(s) /\ Len(s) \in 1 .. Len(s)
          BY <1>0, <1>3, <1>6, <3>4
        <4>3. t[Len(s)].kind = "len"
          BY <4>1, <4>2 DEF IsRecord
        <4> QED BY <1>0, <4>2, <4>3
      <3> QED BY <3>3, <3>4 DEF Tidy
    <2> QED BY <1>6, <1>7, <2>1, <2>2
  <1> QED BY <1>2, <1>3, <1>4, <1>7, <1>8, <1>9, <1>10

-------------------------------------------------------------------------------
(* What writing, cutting and crashing make of a file.                      *)

\* Records as cells.
LEMMA EncodedIs ==
    ASSUME NEW r \in Seq(Int)
    PROVE  /\ Encoded(r) \in Seq(Cells) /\ Len(Encoded(r)) = 2 * Len(r)
           /\ \A j \in 1 .. Len(r) : /\ Encoded(r)[2 * j - 1] = Cell("len", r[j])
                                     /\ Encoded(r)[2 * j] = Cell("body", r[j])
           /\ \A i \in 1 .. 2 * Len(r) : \E j \in 1 .. Len(r) : i = 2 * j - 1 \/ i = 2 * j
  <1>0. Len(r) \in Nat /\ 2 * Len(r) \in Nat
    OBVIOUS
  <1>1. ASSUME NEW i \in 1 .. 2 * Len(r)
        PROVE  \E j \in 1 .. Len(r) : \/ i = 2 * j - 1 /\ i % 2 = 1 /\ (i + 1) \div 2 = j
                                      \/ i = 2 * j /\ i % 2 = 0 /\ i \div 2 = j
    <2>1. CASE i % 2 = 1
      <3>1. (i + 1) \div 2 \in 1 .. Len(r) /\ i = 2 * ((i + 1) \div 2) - 1
        BY <1>0, <2>1
      <3> QED BY <2>1, <3>1
    <2>2. CASE i % 2 = 0
      <3>1. i \div 2 \in 1 .. Len(r) /\ i = 2 * (i \div 2)
        BY <1>0, <2>2
      <3> QED BY <2>2, <3>1
    <2>3. i % 2 \in {0, 1}
      BY <1>0
    <2> QED BY <2>1, <2>2, <2>3
  <1>2. \A j \in 1 .. Len(r) : /\ Cell("len", r[j]) \in Cells /\ Cell("body", r[j]) \in Cells
    BY DEF Cell, Cells
  <1>3. ASSUME NEW j \in 1 .. Len(r)
        PROVE  /\ 2 * j - 1 \in 1 .. 2 * Len(r) /\ 2 * j \in 1 .. 2 * Len(r)
               /\ (2 * j - 1) % 2 = 1 /\ (2 * j) % 2 = 0
               /\ ((2 * j - 1) + 1) \div 2 = j /\ (2 * j) \div 2 = j
    BY <1>0
  <1>4. \A j \in 1 .. Len(r) : /\ Encoded(r)[2 * j - 1] = Cell("len", r[j])
                               /\ Encoded(r)[2 * j] = Cell("body", r[j])
    BY <1>3 DEF Encoded
  <1>5. Encoded(r) \in [1 .. 2 * Len(r) -> Cells]
    <2>1. \A i \in 1 .. 2 * Len(r) : Encoded(r)[i] \in Cells
      BY <1>1, <1>2, <1>4
    <2> QED BY <2>1 DEF Encoded
  <1>6. Encoded(r) \in Seq(Cells) /\ Len(Encoded(r)) = 2 * Len(r)
    BY <1>0, <1>5, SeqDef
  <1> QED BY <1>1, <1>4, <1>6

\* What ends no later than b records do is no more than b records.
LEMMA Halves ==
    ASSUME NEW a \in Nat, NEW b \in Nat, 1 + 2 * a <= 2 * b + 1
    PROVE  a <= b
  OBVIOUS

\* Records appended to a file that replay reads to its end, all of them or as
\* many cells as a failing write gets down: what was there is read as before,
\* and then every record that is whole.
LEMMA AppendReads ==
    ASSUME NEW data \in Seq(Cells), Clean(data), NEW r \in Seq(Int),
           NEW j \in 0 .. 2 * Len(r), NEW new, new = data \o SubSeq(Encoded(r), 1, j)
    PROVE  /\ new \in Seq(Cells) /\ Current(new) /\ Tidy(new) /\ PrefixOf(data, new)
           /\ Len(new) = Len(data) + j
           /\ PrefixOf(Events(data), Events(new))
           /\ PrefixOf(Events(new), Events(data) \o r)
           /\ j = 2 * Len(r) => Clean(new) /\ Events(new) = Events(data) \o r
  <1> DEFINE e == SubSeq(Encoded(r), 1, j)
  <1>0. Len(data) \in Nat /\ Len(r) \in Nat /\ j \in Nat /\ j <= 2 * Len(r)
    OBVIOUS
  <1>e. /\ Encoded(r) \in Seq(Cells) /\ Len(Encoded(r)) = 2 * Len(r)
        /\ \A i \in 1 .. Len(r) : /\ Encoded(r)[2 * i - 1] = Cell("len", r[i])
                                  /\ Encoded(r)[2 * i] = Cell("body", r[i])
    BY EncodedIs
  <1>1. e \in Seq(Cells) /\ Len(e) = j /\ \A i \in 1 .. j : e[i] = Encoded(r)[i]
    <2> PICK x : x = Encoded(r)
      OBVIOUS
    <2>1. x \in Seq(Cells) /\ Len(x) = 2 * Len(r)
      BY <1>e
    <2>2. SubSeq(x, 1, j) \in Seq(Cells) /\ Len(SubSeq(x, 1, j)) = j
          /\ \A i \in 1 .. j : SubSeq(x, 1, j)[i] = x[i]
      BY <1>0, <2>1
    <2> QED BY <2>2
  <1> HIDE DEF e
  <1>2. /\ new \in Seq(Cells) /\ Len(new) = Len(data) + j
        /\ \A i \in 1 .. Len(data) : new[i] = data[i]
        /\ \A i \in 1 .. j : new[Len(data) + i] = e[i]
    <2>1. new = data \o e
      BY DEF e
    <2> QED BY <1>0, <1>1, <2>1
  <1>3. PrefixOf(data, new) /\ data # <<>>
    BY <1>0, <1>2 DEF PrefixOf, Clean, Current
  <1>4. /\ Current(new) /\ At(new) = 1 /\ At(data) = 1
        /\ PrefixOf(Events(data), Events(new))
    <2>1. /\ Current(new) /\ Current(data)
          /\ PrefixOf(Events(data), Events(new))
      BY <1>2, <1>3, PartReads DEF Clean
    <2> QED BY <1>2, <2>1, HeaderIs
  <1>5. Len(data) = 1 + 2 * Whole(data) /\ Whole(data) \in Nat
        /\ \A k \in 1 .. Whole(data) : Rec(data, k)
    BY <1>4, WholeIs DEF Clean
  <1>6. PICK q \in 0 .. Len(r) : j = 2 * q \/ (j = 2 * q + 1 /\ q < Len(r))
    <2>1. \/ j \div 2 \in 0 .. Len(r) /\ j = 2 * (j \div 2)
          \/ j \div 2 \in 0 .. Len(r) /\ j = 2 * (j \div 2) + 1 /\ j \div 2 < Len(r)
      BY <1>0
    <2> QED BY <2>1
  <1>7. ASSUME NEW i \in 1 .. q
        PROVE  /\ new[Len(data) + 2 * i - 1] = Cell("len", r[i])
               /\ new[Len(data) + 2 * i] = Cell("body", r[i])
    <2>1. 2 * i - 1 \in 1 .. j /\ 2 * i \in 1 .. j /\ i \in 1 .. Len(r)
          /\ Len(data) + (2 * i - 1) = Len(data) + 2 * i - 1
      BY <1>0, <1>6
    <2>2. /\ new[Len(data) + (2 * i - 1)] = Encoded(r)[2 * i - 1]
          /\ new[Len(data) + 2 * i] = Encoded(r)[2 * i]
      BY <1>1, <1>2, <2>1
    <2> QED BY <1>e, <2>1, <2>2
  <1>8. ASSUME NEW k \in 1 .. (Whole(data) + q) PROVE Rec(new, k)
    <2>1. CASE k <= Whole(data)
      <3>1. Rec(data, k) /\ k \in 1 .. Whole(data)
        BY <1>5, <2>1
      <3>2. 2 * k \in 1 .. Len(data) /\ 2 * k + 1 \in 1 .. Len(data)
        BY <1>5, <2>1
      <3>3. new[2 * k] = data[2 * k] /\ new[2 * k + 1] = data[2 * k + 1]
        BY <1>2, <3>2
      <3>4. At(new) + 2 * k - 1 = 2 * k /\ At(data) + 2 * k - 1 = 2 * k
        BY <1>4, <1>5
      <3>5. IsRecord(data, 2 * k)
        BY <3>1, <3>4 DEF Rec
      <3>6. IsRecord(new, 2 * k)
        BY <1>0, <1>2, <3>2, <3>3, <3>5 DEF IsRecord
      <3> QED BY <3>4, <3>6 DEF Rec
    <2>2. CASE k > Whole(data)
      <3> PICK i : i = k - Whole(data)
        OBVIOUS
      <3>1. i \in 1 .. q /\ k = Whole(data) + i
        BY <1>5, <1>6, <2>2
      <3>a. Len(data) \in Nat /\ Whole(data) \in Nat /\ i \in Nat /\ k \in Nat /\ q \in Nat
        BY ONLY <1>0, <1>5, <3>1, q \in 0 .. Len(r)
      <3>2. /\ At(new) + 2 * k - 1 = Len(data) + 2 * i - 1
            /\ (Len(data) + 2 * i - 1) + 1 = Len(data) + 2 * i
            /\ Len(data) + 2 * i <= Len(new)
        <4>1. At(new) + 2 * k - 1 = Len(data) + 2 * i - 1
          <5>1. Len(data) = 1 + 2 * Whole(data) /\ k = Whole(data) + i /\ At(new) = 1
            BY <1>4, <1>5, <3>1
          <5> PICK d, w : d = Len(data) /\ w = Whole(data)
            OBVIOUS
          <5>2. /\ d \in Nat /\ w \in Nat /\ i \in Nat /\ k \in Nat
                /\ d = 1 + 2 * w /\ k = w + i
            BY ONLY <3>a, <5>1, d = Len(data) /\ w = Whole(data)
          <5>3. 1 + 2 * k - 1 = d + 2 * i - 1
            BY ONLY <5>2
          <5> QED BY ONLY <5>1, <5>3, d = Len(data) /\ w = Whole(data)
        <4>2. (Len(data) + 2 * i - 1) + 1 = Len(data) + 2 * i
          BY ONLY <3>a
        <4>3. i <= q /\ 2 * q <= j /\ Len(new) = Len(data) + j
          BY <1>0, <1>2, <1>6, <3>1
        <4>4. Len(data) + 2 * i <= Len(new)
          BY ONLY <1>0, <3>a, <4>3
        <4> QED BY <4>1, <4>2, <4>4
      <3>3. /\ new[Len(data) + 2 * i - 1] = Cell("len", r[i])
            /\ new[Len(data) + 2 * i] = Cell("body", r[i])
        BY <1>7, <3>1
      <3>4. IsRecord(new, Len(data) + 2 * i - 1)
        <4> PICK p, d, n : p = Len(data) + 2 * i - 1 /\ d = Len(data) + 2 * i /\ n = Len(new)
          OBVIOUS
        <4>1. p + 1 = d /\ p + 1 <= n
          BY <3>2
        <4>2. new[p] = Cell("len", r[i]) /\ new[p + 1] = Cell("body", r[i])
          BY <3>3, <4>1
        <4>3. new[p].kind = "len" /\ new[p].n = r[i]
          BY ONLY <4>2 DEF Cell
        <4>4. IsRecord(new, p)
          BY ONLY <4>1, <4>2, <4>3, n = Len(new) DEF IsRecord
        <4> QED BY <4>4
      <3> QED BY <3>2, <3>4 DEF Rec
    <2> QED BY <1>5, <1>6, <2>1, <2>2
  <1>9. ~Rec(new, Whole(data) + q + 1)
    <2>1. At(new) + 2 * (Whole(data) + q + 1) - 1 + 1 > Len(new)
      BY <1>0, <1>2, <1>4, <1>5, <1>6
    <2> QED BY <1>0, <1>2, <1>4, <1>5, <1>6, <2>1 DEF Rec, IsRecord
  <1>10. Whole(new) = Whole(data) + q /\ ValidLen(new) = Len(data) + 2 * q
    <2>1. Whole(data) + q \in Nat
      BY <1>5, <1>6
    <2>2. /\ Whole(new) = Whole(data) + q
          /\ ValidLen(new) = At(new) + 2 * (Whole(data) + q)
      BY <1>2, <1>8, <1>9, <2>1, WholeUnique
    <2> QED BY <1>0, <1>4, <1>5, <1>6, <2>2
  <1>11. Tidy(new)
    <2>1. CASE j = 2 * q
      BY <1>2, <1>10, <2>1 DEF Tidy
    <2>2. CASE j = 2 * q + 1 /\ q < Len(r)
      <3>1. Len(new) = ValidLen(new) + 1 /\ Len(new) = Len(data) + j
        BY <1>0, <1>2, <1>6, <1>10, <2>2
      <3>2. new[Len(new)] = Encoded(r)[j]
        BY <1>1, <1>2, <2>2, <3>1
      <3>3. q + 1 \in 1 .. Len(r) /\ 2 * (q + 1) - 1 = j
        BY <1>0, <1>6, <2>2
      <3>4. Encoded(r)[j] = Cell("len", r[q + 1])
        BY <1>e, <3>3
      <3>5. new[Len(new)].kind = "len"
        BY ONLY <3>2, <3>4 DEF Cell
      <3> QED BY <3>1, <3>5 DEF Tidy
    <2> QED BY <1>6, <2>1, <2>2
  <1>12. /\ Events(data) \in Seq(Int) /\ Len(Events(data)) = Whole(data)
         /\ Events(new) \in Seq(Int) /\ Len(Events(new)) = Whole(data) + q
         /\ \A k \in 1 .. Whole(data) : Events(data)[k] = data[1 + 2 * k].n
         /\ \A k \in 1 .. (Whole(data) + q) : Events(new)[k] = new[1 + 2 * k].n
    BY <1>2, <1>4, <1>10, EventsAre
  <1>13. PrefixOf(Events(new), Events(data) \o r)
    <2> PICK ev, ew : ev = Events(data) /\ ew = Events(new)
      OBVIOUS
    <2>0. ev \in Seq(Int) /\ Len(ev) = Whole(data) /\ Whole(data) \in Nat
      BY <1>5, <1>12
    <2>1. Len(ev \o r) = Whole(data) + Len(r) /\ Len(ew) <= Len(ev \o r)
          /\ Len(ew) = Whole(data) + q
      BY <1>0, <1>6, <1>12, <2>0
    <2>2. ASSUME NEW k \in 1 .. (Whole(data) + q) PROVE ew[k] = (ev \o r)[k]
      <3>1. CASE k <= Whole(data)
        <4>1. k \in 1 .. Whole(data) /\ 1 + 2 * k \in 1 .. Len(data)
          BY <1>5, <3>1
        <4>2. ew[k] = data[1 + 2 * k].n /\ ev[k] = data[1 + 2 * k].n
          BY <1>2, <1>12, <4>1
        <4>3. (ev \o r)[k] = ev[k]
          BY <2>0, <4>1
        <4> QED BY <4>2, <4>3
      <3>2. CASE k > Whole(data)
        <4> PICK i : i = k - Whole(data)
          OBVIOUS
        <4>a. k \in Nat /\ q \in Nat /\ q <= Len(r) /\ k <= Whole(data) + q
          BY <1>0, <1>6, <2>0
        <4>1. /\ i \in 1 .. q /\ i \in 1 .. Len(r) /\ k = Whole(data) + i
          BY ONLY <1>0, <2>0, <3>2, <4>a, i = k - Whole(data)
        <4>b. 1 + 2 * k = Len(data) + 2 * i
          <5>1. Len(data) = 1 + 2 * Whole(data) /\ k = Whole(data) + i /\ i \in Nat
            BY ONLY <1>5, <4>1, <4>a
          <5> PICK d, w : d = Len(data) /\ w = Whole(data)
            OBVIOUS
          <5>2. /\ d \in Nat /\ w \in Nat /\ i \in Nat /\ k \in Nat
                /\ d = 1 + 2 * w /\ k = w + i
            BY ONLY <1>0, <2>0, <4>a, <5>1, d = Len(data) /\ w = Whole(data)
          <5>3. 1 + 2 * k = d + 2 * i
            BY ONLY <5>2
          <5> QED BY ONLY <5>3, d = Len(data)
        <4>2. ew[k] = r[i]
          <5>1. new[Len(data) + 2 * i].n = r[i]
            <6>1. new[Len(data) + 2 * i] = Cell("body", r[i])
              BY <1>7, <4>1
            <6> QED BY ONLY <6>1 DEF Cell
          <5>2. ew[k] = new[1 + 2 * k].n
            BY <1>12, <2>0
          <5> QED BY <4>b, <5>1, <5>2
        <4>3. (ev \o r)[k] = r[i]
          <5>1. \A l \in 1 .. Len(r) : (ev \o r)[Len(ev) + l] = r[l]
            BY ONLY <2>0, r \in Seq(Int)
          <5> QED BY <2>0, <4>1, <5>1
        <4> QED BY <4>2, <4>3
      <3> QED BY <2>0, <3>1, <3>2
    <2>3. PrefixOf(ew, ev \o r)
      BY <2>1, <2>2 DEF PrefixOf
    <2> QED BY <2>3
  <1>14. ASSUME j = 2 * Len(r) PROVE Clean(new) /\ Events(new) = Events(data) \o r
    <2>1. q = Len(r)
      BY <1>0, <1>6, <1>14
    <2>2. Clean(new)
      BY <1>0, <1>2, <1>4, <1>10, <1>14, <2>1 DEF Clean
    <2> PICK ev, ew : ev = Events(data) /\ ew = Events(new)
      OBVIOUS
    <2>3. /\ ev \in Seq(Int) /\ ew \in Seq(Int) /\ Len(ev) = Whole(data)
          /\ Len(ew) = Whole(data) + Len(r) /\ PrefixOf(ew, ev \o r)
      BY <1>12, <1>13, <2>1
    <2>4. ev \o r \in Seq(Int) /\ Len(ev \o r) = Whole(data) + Len(r)
      BY <2>3
    <2>5. ew = ev \o r
      BY <2>3, <2>4, SeqEqual DEF PrefixOf
    <2> QED BY <2>2, <2>5
  <1> QED BY <1>2, <1>3, <1>4, <1>11, <1>13, <1>14

\* A file of this version that has nothing but its header.
LEMMA HeaderReads ==
    /\ write_header \in Seq(Cells) /\ Len(write_header) = 1
    /\ Clean(write_header) /\ Events(write_header) = <<>>
  <1>1. /\ write_header \in Seq(Cells) /\ Len(write_header) = 1 /\ write_header # <<>>
        /\ write_header[1] = Cell("head", FORMAT_VERSION)
    BY WalFileAssumption DEF write_header, Cell, Cells
  <1>2. Current(write_header)
    BY <1>1 DEF Current
  <1>3. At(write_header) = 1
    BY <1>1, <1>2, HeaderIs
  <1>4. Whole(write_header) = 0 /\ ValidLen(write_header) = 1
    <2>1. /\ Whole(write_header) \in Nat /\ 1 + 2 * Whole(write_header) <= 1
          /\ ValidLen(write_header) = 1 + 2 * Whole(write_header)
      BY <1>1, <1>3, WholeIs
    <2>2. Whole(write_header) <= 0
      BY ONLY <2>1, Halves
    <2>3. Whole(write_header) = 0
      BY ONLY <2>1, <2>2
    <2> QED BY <2>1, <2>3
  <1>5. Events(write_header) = <<>>
    <2>1. Events(write_header) \in Seq(Int) /\ Len(Events(write_header)) = 0
      BY <1>1, <1>4, EventsAre
    <2> QED BY <2>1
  <1> QED BY <1>1, <1>2, <1>4, <1>5 DEF Clean

\* write_compact_file: what is staged is read as what was given.
LEMMA StagedReads ==
    ASSUME NEW r \in Seq(Int)
    PROVE  /\ write_header \o Encoded(r) \in Seq(Cells)
           /\ Clean(write_header \o Encoded(r))
           /\ Tidy(write_header \o Encoded(r))
           /\ Events(write_header \o Encoded(r)) = r
  <1> PICK new : new = write_header \o Encoded(r)
    OBVIOUS
  <1>1. Encoded(r) \in Seq(Cells) /\ Len(Encoded(r)) = 2 * Len(r)
    BY EncodedIs
  <1>2. SubSeq(Encoded(r), 1, 2 * Len(r)) = Encoded(r)
    BY <1>1, SubSeqFull
  <1>3. 2 * Len(r) \in 0 .. 2 * Len(r)
    OBVIOUS
  <1>4. /\ new \in Seq(Cells) /\ Tidy(new)
        /\ Clean(new) /\ Events(new) = Events(write_header) \o r
    <2>1. new = write_header \o SubSeq(Encoded(r), 1, 2 * Len(r))
      BY <1>2
    <2> QED BY ONLY <1>3, <2>1, HeaderReads, AppendReads, r \in Seq(Int)
  <1>5. <<>> \o r = r
    OBVIOUS
  <1> QED BY <1>4, <1>5, HeaderReads

\* A length that ends a record, behind a header.
Odd(v) == \E m \in Nat : v = 2 * m + 1

\* Cutting a file of this version back between records: what is in front of
\* the cut is read as before, and a file that only stopped short is clean.
LEMMA CutReads ==
    ASSUME NEW data \in Seq(Cells), Current(data), NEW v, Odd(v),
           NEW kept, kept = CutBack(data, v)
    PROVE  /\ kept \in Seq(Cells) /\ PrefixOf(kept, data) /\ kept # <<>> /\ Current(kept)
           /\ PrefixOf(Events(kept), Events(data))
           /\ Tidy(data) => Tidy(kept)
           /\ v <= ValidLen(data) \/ Clean(data) => Clean(kept)
           /\ Tidy(data) => kept = data \/ Clean(kept)
           /\ \A k \in DOMAIN Events(data) : 2 * k + 1 <= v => k \in DOMAIN Events(kept)
           /\ v >= ValidLen(data) => Events(kept) = Events(data)
  <1> PICK m \in Nat : v = 2 * m + 1
    BY DEF Odd
  <1>0. Len(data) \in Nat /\ v \in Nat /\ v >= 1
    OBVIOUS
  <1>1. CASE Len(data) > v
    <2>1. kept = SubSeq(data, 1, v)
      BY <1>1 DEF CutBack
    <2>2. /\ kept \in Seq(Cells) /\ Len(kept) = v
          /\ \A i \in 1 .. v : kept[i] = data[i]
      BY ONLY <1>0, <1>1, <2>1, data \in Seq(Cells)
    <2>3. PrefixOf(kept, data) /\ kept # <<>>
      BY <1>0, <1>1, <2>2 DEF PrefixOf
    <2>4. /\ At(kept) = At(data) /\ Current(kept) /\ PrefixOf(Events(kept), Events(data))
          /\ Tidy(data) => Tidy(kept)
          /\ Whole(kept) <= Whole(data)
          /\ \A n \in 1 .. Whole(data) : At(data) + 2 * n <= Len(kept) => n <= Whole(kept)
      BY ONLY <2>2, <2>3, PartReads, data \in Seq(Cells), Current(data)
    <2>5. At(data) = 1
      BY HeaderIs
    <2>6. /\ Whole(data) \in Nat /\ ValidLen(data) = 1 + 2 * Whole(data)
          /\ Whole(kept) \in Nat /\ ValidLen(kept) = 1 + 2 * Whole(kept)
          /\ 1 + 2 * Whole(kept) <= Len(kept)
      BY <2>2, <2>4, <2>5, WholeIs
    <2>7. v <= ValidLen(data) => Clean(kept)
      <3> SUFFICES ASSUME v <= ValidLen(data) PROVE Len(kept) = ValidLen(kept)
        BY <2>4 DEF Clean
      <3>1. m <= Whole(data)
        BY ONLY <2>6, v <= ValidLen(data), v = 2 * m + 1, m \in Nat
      <3>2. m = 0 \/ m \in 1 .. Whole(data)
        BY <2>6, <3>1
      <3>3. m <= Whole(kept)
        BY ONLY <2>2, <2>4, <2>5, <2>6, <3>2, v = 2 * m + 1, m \in Nat
      <3>4. Whole(kept) <= m
        BY ONLY <2>2, <2>6, Halves, v = 2 * m + 1, m \in Nat
      <3>5. Whole(kept) = m
        BY ONLY <2>6, <3>3, <3>4, m \in Nat
      <3> QED BY ONLY <2>2, <2>6, <3>5, v = 2 * m + 1, m \in Nat
    <2>8. Clean(data) \/ Tidy(data) => v <= ValidLen(data)
      <3>1. Clean(data) \/ Tidy(data) => Len(data) <= ValidLen(data) + 1
        BY <1>0, <2>6 DEF Clean, Tidy
      <3> QED BY <1>0, <1>1, <2>6, <3>1
    <2>9. \A k \in DOMAIN Events(data) : 2 * k + 1 <= v => k \in DOMAIN Events(kept)
      <3>1. DOMAIN Events(data) = 1 .. Whole(data) /\ DOMAIN Events(kept) = 1 .. Whole(kept)
        BY <2>2, EventsAre
      <3>2. \A k \in 1 .. Whole(data) : 2 * k + 1 <= v => k <= Whole(kept)
        <4> TAKE k \in 1 .. Whole(data)
        <4>1. 2 * k + 1 <= v => At(data) + 2 * k <= Len(kept)
          BY <2>2, <2>5, <2>6
        <4> QED BY <2>4, <4>1
      <3> QED BY <2>6, <3>1, <3>2
    <2>10. v >= ValidLen(data) => Events(kept) = Events(data)
      <3> SUFFICES ASSUME v >= ValidLen(data) PROVE Events(kept) = Events(data)
        OBVIOUS
      <3>1. Whole(data) = 0 \/ Whole(data) \in 1 .. Whole(data)
        BY <2>6
      <3>2. Whole(kept) = Whole(data)
        BY ONLY <1>0, <2>2, <2>4, <2>5, <2>6, <3>1, v >= ValidLen(data)
      <3>3. /\ Events(kept) \in Seq(Int) /\ Events(data) \in Seq(Int)
            /\ Len(Events(kept)) = Len(Events(data))
        BY <2>2, <3>2, EventsAre
      <3> PICK a, b : a = Events(kept) /\ b = Events(data)
        OBVIOUS
      <3>4. a \in Seq(Int) /\ b \in Seq(Int) /\ Len(a) = Len(b) /\ PrefixOf(a, b)
        BY <2>4, <3>3
      <3>5. a = b
        BY ONLY <3>4, SeqEqual DEF PrefixOf
      <3> QED BY <3>5
    <2> QED BY <2>2, <2>3, <2>4, <2>7, <2>8, <2>9, <2>10
  <1>2. CASE ~(Len(data) > v)
    <2>1. kept = data
      BY <1>2 DEF CutBack
    <2>2. PrefixOf(data, data) /\ PrefixOf(Events(data), Events(data)) /\ data # <<>>
      <3>1. Len(Events(data)) \in Nat
        BY EventsAre
      <3> QED BY <1>0, <3>1 DEF PrefixOf, Current
    <2>3. v <= ValidLen(data) => Clean(data)
      <3>1. At(data) + 2 * Whole(data) <= Len(data) /\ ValidLen(data) = At(data) + 2 * Whole(data)
            /\ Whole(data) \in Nat /\ At(data) \in {0, 1}
        BY WholeIs, HeaderIs
      <3> QED BY <1>0, <1>2, <3>1 DEF Clean
    <2> QED BY <2>1, <2>2, <2>3
  <1> QED BY <1>1, <1>2

Files == [data : Seq(Cells), safe : Seq(Cells)]

\* What a crash leaves begins with what was synced.
LEMMA CrashReads ==
    ASSUME NEW file \in Files, PrefixOf(file.safe, file.data), NEW data \in Outcomes(file)
    PROVE  /\ data \in Seq(Cells) /\ PrefixOf(file.safe, data)
           /\ Len(data) <= Len(file.data)
           /\ \A i \in 1 .. Len(data) : data[i] \in {Zero, file.data[i]}
           /\ Zero \notin Range(data) => PrefixOf(data, file.data)
  <1>0. /\ file.data \in Seq(Cells) /\ file.safe \in Seq(Cells)
        /\ Len(file.data) \in Nat /\ Len(file.safe) \in Nat
        /\ Len(file.safe) <= Len(file.data)
    BY DEF Files, PrefixOf
  <1>1. PICK m \in Len(file.safe) .. Len(file.data) :
          \E lost \in SUBSET (Len(file.safe) + 1 .. m) :
             data = [k \in 1 .. m |-> IF k \in lost THEN Zero ELSE file.data[k]]
    BY DEF Outcomes
  <1>2. PICK lost \in SUBSET (Len(file.safe) + 1 .. m) :
             data = [k \in 1 .. m |-> IF k \in lost THEN Zero ELSE file.data[k]]
    BY <1>1
  <1>3. m \in Nat /\ m <= Len(file.data) /\ Len(file.safe) <= m
    BY <1>0
  <1>4. Zero \in Cells /\ \A k \in 1 .. m : file.data[k] \in Cells
    <2>1. 1 .. m \subseteq 1 .. Len(file.data)
      BY <1>0, <1>3
    <2> PICK d : d = file.data
      OBVIOUS
    <2>2. d \in Seq(Cells) /\ 1 .. m \subseteq 1 .. Len(d)
      BY <1>0, <2>1
    <2>3. \A k \in 1 .. m : d[k] \in Cells
      BY ONLY <2>2
    <2>4. Zero \in Cells
      BY DEF Zero, Cell, Cells
    <2> QED BY <2>3, <2>4
  <1>5. data \in [1 .. m -> Cells] /\ \A i \in 1 .. m : data[i] \in {Zero, file.data[i]}
    BY <1>2, <1>4
  <1>6. data \in Seq(Cells) /\ Len(data) = m
    BY <1>3, <1>5, SeqDef
  <1>7. PrefixOf(file.safe, data)
    <2>1. ASSUME NEW k \in 1 .. Len(file.safe) PROVE file.safe[k] = data[k]
      <3>1. k \in 1 .. m /\ k \notin lost
        BY <1>0, <1>2, <1>3
      <3> QED BY <1>2, <3>1 DEF PrefixOf
    <2> QED BY <1>3, <1>6, <2>1 DEF PrefixOf
  <1>8. ASSUME Zero \notin Range(data) PROVE PrefixOf(data, file.data)
    <2>1. \A i \in 1 .. m : data[i] # Zero
      BY <1>5, <1>8 DEF Range
    <2> QED BY <1>3, <1>5, <1>6, <2>1 DEF PrefixOf
  <1> QED BY <1>3, <1>5, <1>6, <1>7, <1>8

\* The front of a file.
LEMMA TrunkIs ==
    ASSUME NEW data \in Seq(Cells), Len(data) > 1
    PROVE  /\ Trunk(data) \in Seq(Cells) /\ Trunk(data) # <<>>
           /\ Len(Trunk(data)) = Len(data) - 1 /\ PrefixOf(Trunk(data), data)
           /\ \A i \in 1 .. Len(data) - 1 : Trunk(data)[i] = data[i]
  <1> PICK f : f = Trunk(data)
    OBVIOUS
  <1>1. /\ f \in Seq(Cells) /\ Len(f) = Len(data) - 1
        /\ \A i \in 1 .. Len(data) - 1 : f[i] = data[i]
    BY ONLY data \in Seq(Cells), Len(data) > 1, f = Trunk(data) DEF Trunk
  <1>2. f # <<>> /\ PrefixOf(f, data)
    BY ONLY <1>1, data \in Seq(Cells), Len(data) > 1 DEF PrefixOf
  <1> QED BY <1>1, <1>2

\* A file that has lost the bytes of its last cell is read as without it, and
\* that cell ends what open takes for a torn tail.
LEMMA TornReads ==
    ASSUME NEW data \in Seq(Cells), Torn(data)
    PROVE  ValidLen(data) < Len(data) /\ AtTail(data, ValidLen(data) + 1)
  <1> PICK f : f = Trunk(data)
    OBVIOUS
  <1>1. /\ f \in Seq(Cells) /\ f # <<>> /\ PrefixOf(f, data) /\ Tidy(f)
        /\ Len(f) = Len(data) - 1 /\ \A i \in 1 .. Len(data) - 1 : f[i] = data[i]
        /\ Len(data) \in Nat /\ Len(data) > 1 /\ data[Len(data)] = Zero
    BY TrunkIs DEF Torn
  <1>2. /\ At(f) = At(data) /\ Whole(f) <= Whole(data)
        /\ \A n \in 1 .. Whole(data) : At(data) + 2 * n <= Len(f) => n <= Whole(f)
    BY ONLY <1>1, data \in Seq(Cells), PartReads
  <1>3. /\ Whole(f) \in Nat /\ ValidLen(f) = At(f) + 2 * Whole(f)
        /\ Whole(data) \in Nat /\ ValidLen(data) = At(data) + 2 * Whole(data)
        /\ At(data) \in {0, 1} /\ At(data) + 2 * Whole(data) <= Len(data)
        /\ At(f) + 2 * Whole(f) <= Len(f)
        /\ \A k \in 1 .. Whole(data) : Rec(data, k)
    BY <1>1, WholeIs, HeaderIs
  <1>4. Whole(data) = Whole(f)
    <2> SUFFICES ASSUME Whole(data) # Whole(f) PROVE FALSE
      OBVIOUS
    <2>1. Whole(data) \in 1 .. Whole(data) /\ ~(Whole(data) <= Whole(f))
      BY ONLY <1>2, <1>3, Whole(data) # Whole(f)
    <2>2. At(data) + 2 * Whole(data) = Len(data)
      BY ONLY <1>1, <1>2, <1>3, <2>1
    <2>3. IsRecord(data, At(data) + 2 * Whole(data) - 1)
      BY <1>3, <2>1 DEF Rec
    <2>4. (At(data) + 2 * Whole(data) - 1) + 1 = Len(data)
      BY ONLY <1>1, <1>3, <2>2
    <2>5. data[Len(data)].kind = "body"
      BY <2>3, <2>4 DEF IsRecord, Cell
    <2> QED BY <1>1, <2>5 DEF Zero, Cell
  <1>5. ValidLen(data) = ValidLen(f) /\ ValidLen(f) \in Nat
    BY ONLY <1>2, <1>3, <1>4
  <1>6. CASE Len(f) = ValidLen(f)
    <2>1. ValidLen(data) + 1 = Len(data) /\ ValidLen(data) + 1 # 1
      BY ONLY <1>1, <1>5, <1>6
    <2> QED BY <1>1, <1>5, <2>1 DEF AtTail
  <1>7. CASE Len(f) = ValidLen(f) + 1 /\ f[Len(f)].kind = "len"
    <2>1. ValidLen(data) + 2 = Len(data) /\ Len(f) = ValidLen(data) + 1
          /\ Len(f) \in 1 .. Len(data) - 1
      BY ONLY <1>1, <1>5, <1>7
    <2>2. data[ValidLen(data) + 1].kind = "len"
      BY <1>1, <1>7, <2>1
    <2>3. (ValidLen(data) + 1) + 1 = Len(data) /\ ValidLen(data) < Len(data)
      BY ONLY <1>1, <1>5, <2>1
    <2> QED BY <2>2, <2>3 DEF AtTail
  <1> QED BY <1>1, <1>6, <1>7 DEF Tidy

\* open refuses no file that only stops short, but a newer binary's.
LEMMA ShortOpens ==
    ASSUME NEW data \in Seq(Cells), Short(data),
           ValidLen(data) < Len(data), ValidLen(data) \in Nat
    PROVE  AtTail(data, ValidLen(data) + 1)
  <1>1. CASE Tidy(data)
    <2>1. Len(data) = ValidLen(data) + 1 /\ data[Len(data)].kind = "len"
      BY <1>1 DEF Tidy
    <2> QED BY ONLY <2>1 DEF AtTail, Zero, Cell
  <1>2. CASE Torn(data)
    BY <1>2, TornReads
  <1> QED BY <1>1, <1>2 DEF Short

\* A part of such a file that has all its bytes has nothing bad in it.
LEMMA ShortPart ==
    ASSUME NEW s \in Seq(Cells), NEW t \in Seq(Cells), PrefixOf(s, t), s # <<>>,
           \A i \in 1 .. Len(s) : s[i] # Zero, Short(t)
    PROVE  Tidy(s)
  <1>1. CASE Tidy(t)
    BY <1>1, PartReads
  <1>2. CASE Torn(t)
    <2> PICK f : f = Trunk(t)
      OBVIOUS
    <2>1. /\ f \in Seq(Cells) /\ Tidy(f) /\ Len(f) = Len(t) - 1
          /\ \A i \in 1 .. Len(t) - 1 : f[i] = t[i]
          /\ Len(t) \in Nat /\ Len(t) > 1 /\ t[Len(t)] = Zero
      BY <1>2, TrunkIs DEF Torn
    <2>2. Len(s) \in Nat /\ Len(s) <= Len(t) /\ \A i \in 1 .. Len(s) : s[i] = t[i]
      BY DEF PrefixOf
    <2>3. Len(s) # Len(t)
      BY <2>1, <2>2
    <2>4. PrefixOf(s, f)
      BY ONLY <2>1, <2>2, <2>3 DEF PrefixOf
    <2> QED BY ONLY <2>1, <2>4, PartReads, s \in Seq(Cells), s # <<>>
  <1> QED BY <1>1, <1>2 DEF Short

\* A crash that leaves no scar leaves a file that only stops short.
LEMMA CrashShort ==
    ASSUME NEW file \in Files, PrefixOf(file.safe, file.data), NEW data \in Outcomes(file),
           Short(file.data), ~Hole(data), ~Blank(data), data # <<>>
    PROVE  Short(data)
  <1>1. /\ data \in Seq(Cells) /\ Len(data) <= Len(file.data) /\ file.data \in Seq(Cells)
        /\ \A i \in 1 .. Len(data) : data[i] \in {Zero, file.data[i]}
        /\ Zero \notin Range(data) => PrefixOf(data, file.data)
    BY CrashReads DEF Files
  <1> PICK t, n : t = file.data /\ n = Len(data)
    OBVIOUS
  <1>2. /\ t \in Seq(Cells) /\ Short(t) /\ data \in Seq(Cells) /\ n = Len(data)
        /\ n \in Nat /\ n >= 1 /\ Len(t) \in Nat /\ n <= Len(t) /\ DOMAIN data = 1 .. n
        /\ \A i \in 1 .. n : data[i] \in {Zero, t[i]}
    BY <1>1
  <1>3. \A i \in 1 .. n : data[i] = Zero => i = n /\ i > 1
    <2> SUFFICES ASSUME NEW i \in 1 .. n, data[i] = Zero
                 PROVE  i = n /\ i > 1
      OBVIOUS
    <2>0. n \in Nat /\ n >= 1 /\ i \in 1 .. n
      BY <1>2
    <2>1. \A j \in 1 .. n : i < j => data[j] = Zero
      BY <1>2 DEF Hole
    <2>2. data[n] = Zero
      <3>1. i = n \/ (i < n /\ n \in 1 .. n)
        BY ONLY <2>0
      <3> QED BY <2>1, <3>1
    <2>3. n # 1 /\ data[n - 1] # Zero
      BY <1>2, <2>2 DEF Blank
    <2>4. ~(i < n)
      <3>1. i < n => n - 1 \in 1 .. n /\ (i = n - 1 \/ i < n - 1)
        BY ONLY <2>0
      <3> QED BY <2>1, <2>3, <3>1
    <2> QED BY ONLY <2>0, <2>3, <2>4
  <1>4. CASE data[n] # Zero
    <2>1. \A i \in 1 .. n : data[i] # Zero
      BY <1>3, <1>4
    <2>2. PrefixOf(data, t)
      BY <1>2, <2>1 DEF PrefixOf
    <2>3. Tidy(data)
      BY ONLY <1>2, <2>1, <2>2, ShortPart, data # <<>>
    <2> QED BY <2>3 DEF Short
  <1>5. CASE data[n] = Zero
    <2>1. n > 1 /\ Len(data) > 1
      <3>1. n \in 1 .. n
        BY ONLY <1>2
      <3>2. n > 1
        BY ONLY <1>3, <1>5, <3>1
      <3> QED BY <1>2, <3>2
    <2> PICK f : f = Trunk(data)
      OBVIOUS
    <2>2. /\ f \in Seq(Cells) /\ f # <<>> /\ Len(f) = n - 1
          /\ \A i \in 1 .. n - 1 : f[i] = data[i]
      BY <1>2, <2>1, TrunkIs
    <2>3. \A i \in 1 .. Len(f) : f[i] # Zero /\ f[i] = t[i]
      <3>1. n \in Nat /\ Len(f) = n - 1
        BY <1>2, <2>2
      <3>2. \A i \in 1 .. Len(f) : i \in 1 .. n - 1 /\ i \in 1 .. n /\ i # n
        BY ONLY <3>1
      <3>3. \A i \in 1 .. Len(f) : data[i] # Zero
        BY ONLY <1>3, <3>2
      <3> QED BY <1>2, <2>2, <3>2, <3>3
    <2>4. PrefixOf(f, t)
      BY ONLY <1>2, <2>2, <2>3 DEF PrefixOf
    <2>5. Tidy(f)
      BY ONLY <1>2, <2>2, <2>3, <2>4, ShortPart
    <2> QED BY <1>2, <1>5, <2>1, <2>5 DEF Torn, Short
  <1> QED BY <1>4, <1>5

-------------------------------------------------------------------------------
(* The shape of the files, at every stage of every handle.                 *)

live  == h["live"]
stale == h["old"]

Data(k) == inodes[k].data
Safe(k) == inodes[k].safe

Busy == {"ready", "written", "staged", "renamed", "synced"}
Stages == Busy \cup {"down", "scan", "refused", "upgrade", "upgrade_staged",
                     "upgrade_renamed", "open", "empty", "headed"}

Handles == [at : Stages, ino : Nat, valid : Nat, known : Seq(Int), batch : Seq(Int),
            crossed : BOOLEAN, stopped : BOOLEAN]

TypeOK == /\ inodes \in Seq(Files)
          /\ path \in 0 .. Len(inodes) /\ named \in 0 .. Len(inodes)
          /\ h \in [Roles -> Handles]
          /\ next \in Nat /\ scars \subseteq {"hole", "blank"}

Serves == ~live.stopped /\ live.at \in Busy

\* What is synced is a part of the file from its beginning, and a file on which
\* no crash left a scar only stops short.
\* A header is synced before anything follows it.
FileOK(k) == /\ PrefixOf(Safe(k), Data(k))
             /\ scars = {} => Short(Data(k))
             /\ \/ Data(k) = <<>> \/ Safe(k) # <<>>
                \/ live.at = "headed" /\ live.ino = k

FilesOK == \A k \in DOMAIN inodes : FileOK(k)

\* The file that has the log's name, once an engine has served from it.
SettledOK == live.stopped \/ Recovering("old") \/ live.at \in Busy =>
                path # 0 /\ Current(Data(path)) /\ Tidy(Data(path))

\* A stopped engine's handle only reopens the file, and a rebuilt engine does
\* not meet it on a file that needs more than that.
StagesOK ==
    /\ stale.at \in {"down", "scan", "open", "ready"}
    /\ live.at # "down"
    /\ live.stopped => live.at \in {"scan", "open", "ready"}
    /\ live.at \in {"refused", "upgrade", "upgrade_staged", "upgrade_renamed",
                    "empty", "headed"} => ~Recovering("old")

PathOK ==
    /\ live.at = "upgrade" => path # 0
    /\ live.at = "refused" => path # 0 /\ scan(Data(path)).refused
    /\ live.at \in {"upgrade_renamed", "renamed", "synced"} => path # 0 /\ Clean(Data(path))
    /\ live.at = "empty"  => live.ino = path /\ path # 0 /\ Data(path) = <<>>
    /\ live.at = "headed" => live.ino = path /\ path # 0 /\ Data(path) = write_header

TmpOK == live.at \in {"upgrade_staged", "staged"} =>
            /\ tmp \in DOMAIN inodes /\ tmp # path
            /\ Clean(Data(tmp)) /\ Safe(tmp) = Data(tmp)

\* What is appended follows whole records only.
ServingOK == Serves => live.ino \in DOMAIN inodes /\ Clean(Data(live.ino))

\* A cut falls between records.
CutsOK ==
    /\ stale.at = "open" => Odd(stale.valid)
    /\ live.at = "open" =>
          \/ live.valid = 0 /\ ~live.stopped /\ ~Recovering("old")
          \/ /\ path # 0 /\ Odd(live.valid) /\ Current(Data(path))
             /\ live.valid <= ValidLen(Data(path)) \/ Clean(Data(path))

Shape == TypeOK /\ FilesOK /\ SettledOK /\ StagesOK /\ PathOK /\ TmpOK /\ ServingOK /\ CutsOK

\* One file is written.
LEMMA FilePut ==
    ASSUME inodes \in Seq(Files), NEW i \in DOMAIN inodes, NEW f \in Files,
           inodes' = [inodes EXCEPT ![i] = f]
    PROVE  /\ inodes' \in Seq(Files) /\ Len(inodes') = Len(inodes)
           /\ DOMAIN inodes' = DOMAIN inodes /\ inodes'[i] = f
           /\ \A k \in DOMAIN inodes : k # i => inodes'[k] = inodes[k]
  BY ExceptSeq

\* A file is made.
LEMMA FileNew ==
    ASSUME inodes \in Seq(Files), NEW f \in Files, inodes' = Append(inodes, f)
    PROVE  /\ inodes' \in Seq(Files) /\ Len(inodes') = Len(inodes) + 1
           /\ DOMAIN inodes' = DOMAIN inodes \cup {Len(inodes) + 1}
           /\ inodes'[Len(inodes) + 1] = f
           /\ \A k \in DOMAIN inodes : k # Len(inodes) + 1 /\ inodes'[k] = inodes[k]
  <1>1. Len(inodes) \in Nat /\ DOMAIN inodes = 1 .. Len(inodes)
    OBVIOUS
  <1>2. /\ inodes' \in Seq(Files) /\ Len(inodes') = Len(inodes) + 1
        /\ inodes'[Len(inodes) + 1] = f
        /\ \A k \in 1 .. Len(inodes) : inodes'[k] = inodes[k]
    OBVIOUS
  <1>3. DOMAIN inodes' = 1 .. (Len(inodes) + 1)
    BY <1>2
  <1>4. 1 .. (Len(inodes) + 1) = 1 .. Len(inodes) \cup {Len(inodes) + 1}
        /\ Len(inodes) + 1 \notin 1 .. Len(inodes)
    BY <1>1
  <1> QED BY <1>1, <1>2, <1>3, <1>4

\* The fields of the two handles.
LEMMA HandleFields ==
    ASSUME TypeOK
    PROVE  /\ "live" \in Roles /\ "old" \in Roles
           /\ \A e \in Roles : /\ h[e] \in Handles /\ h[e].at \in Stages
                               /\ h[e].ino \in Nat /\ h[e].valid \in Nat
                               /\ h[e].known \in Seq(Int) /\ h[e].batch \in Seq(Int)
                               /\ h[e].crossed \in BOOLEAN /\ h[e].stopped \in BOOLEAN
           /\ \A k \in DOMAIN inodes : /\ inodes[k] \in Files
                                       /\ Data(k) \in Seq(Cells) /\ Safe(k) \in Seq(Cells)
           /\ DOMAIN inodes = 1 .. Len(inodes) /\ Len(inodes) \in Nat
           /\ \A i \in {path, named} : i # 0 => i \in DOMAIN inodes
           /\ h = [e \in Roles |-> h[e]]
  <1>1. "live" \in Roles /\ "old" \in Roles
    BY DEF Roles
  <1>2. \A e \in Roles : h[e] \in Handles
    BY DEF TypeOK
  <1>3. DOMAIN inodes = 1 .. Len(inodes) /\ Len(inodes) \in Nat
        /\ \A k \in DOMAIN inodes : inodes[k] \in Files
    BY DEF TypeOK
  <1>4. \A i \in {path, named} : i # 0 => i \in DOMAIN inodes
    BY <1>3 DEF TypeOK
  <1>5. h = [e \in Roles |-> h[e]]
    BY DEF TypeOK
  <1>6. \A e \in Roles : /\ h[e].at \in Stages
                         /\ h[e].ino \in Nat /\ h[e].valid \in Nat
                         /\ h[e].known \in Seq(Int) /\ h[e].batch \in Seq(Int)
                         /\ h[e].crossed \in BOOLEAN /\ h[e].stopped \in BOOLEAN
    BY <1>2 DEF Handles
  <1>7. \A k \in DOMAIN inodes : Data(k) \in Seq(Cells) /\ Safe(k) \in Seq(Cells)
    BY <1>3 DEF Files, Data, Safe
  <1> QED BY <1>1, <1>2, <1>3, <1>4, <1>5, <1>6, <1>7

\* What open finds, in the words of the lemmas above.
LEMMA ScanIs ==
    ASSUME NEW data \in Seq(Cells)
    PROVE  /\ scan(data).events = Events(data) /\ scan(data).events \in Seq(Int)
           /\ scan(data).valid = ValidLen(data) /\ scan(data).valid \in Nat
           /\ scan(data).version = read_header(data).version
           /\ scan(data).refused <=> \/ read_header(data).version > FORMAT_VERSION
                                     \/ /\ ValidLen(data) < Len(data)
                                        /\ ~AtTail(data, ValidLen(data) + 1)
  <1>1. ValidLen(data) = At(data) + 2 * Whole(data) /\ ValidLen(data) \in Nat
    <2>1. At(data) \in {0, 1} /\ Whole(data) \in Nat /\ ValidLen(data) = At(data) + 2 * Whole(data)
      BY WholeIs, HeaderIs
    <2> QED BY ONLY <2>1
  <1>2. scan(data).events = Events(data) /\ Events(data) \in Seq(Int)
    BY EventsAre DEF Events
  <1>3. read_header(data).at + 2 * Whole(data) = ValidLen(data)
    BY DEF ValidLen
  <1> QED BY <1>1, <1>2, <1>3 DEF scan

\* A file an engine has served from is opened again without ado.
LEMMA SettledScan ==
    ASSUME NEW data \in Seq(Cells), Current(data), Tidy(data)
    PROVE  /\ ~scan(data).refused /\ ~Outdated(scan(data))
           /\ Odd(scan(data).valid) /\ scan(data).valid = ValidLen(data)
  <1>1. At(data) = 1 /\ read_header(data).version = FORMAT_VERSION /\ FORMAT_VERSION \in Nat
    BY HeaderIs, WalFileAssumption
  <1>2. ValidLen(data) = 2 * Whole(data) + 1 /\ Whole(data) \in Nat /\ Len(data) \in Nat
    <2>1. Whole(data) \in Nat /\ ValidLen(data) = 1 + 2 * Whole(data)
      BY <1>1, WholeIs
    <2> QED BY <2>1
  <1>3. ASSUME ValidLen(data) < Len(data) PROVE AtTail(data, ValidLen(data) + 1)
    <2>1. ValidLen(data) + 1 = Len(data) /\ data[Len(data)].kind = "len"
      BY <1>2, <1>3 DEF Tidy
    <2> QED BY <2>1 DEF AtTail, Zero, Cell
  <1>4. ~(FORMAT_VERSION > FORMAT_VERSION) /\ ~(FORMAT_VERSION < FORMAT_VERSION)
    BY <1>1
  <1> QED BY <1>1, <1>2, <1>3, <1>4, ScanIs DEF Outdated, Odd

\* A file open neither refuses nor upgrades is of this version, or nothing in
\* it is kept.
LEMMA OpenedScan ==
    ASSUME NEW data \in Seq(Cells), ~scan(data).refused, ~Outdated(scan(data))
    PROVE  ValidLen(data) = 0 \/ (Current(data) /\ Odd(ValidLen(data)))
  <1> SUFFICES ASSUME ValidLen(data) # 0 PROVE Current(data) /\ Odd(ValidLen(data))
    OBVIOUS
  <1>1. /\ FORMAT_VERSION \in Nat \ {0} /\ ValidLen(data) \in Nat
        /\ At(data) \in {0, 1} /\ Whole(data) \in Nat
        /\ ValidLen(data) = At(data) + 2 * Whole(data)
    BY WalFileAssumption, ScanIs, WholeIs, HeaderIs
  <1>2. read_header(data).version \in Int
    <2>1. data # <<>> => data[1].n \in Int
      <3>1. data # <<>> => data[1] \in Cells
        OBVIOUS
      <3> QED BY <3>1 DEF Cells
    <2> QED BY <2>1, HeaderIs
  <1>3. read_header(data).version = FORMAT_VERSION
    BY <1>1, <1>2, ScanIs DEF Outdated
  <1>4. At(data) = 1 /\ data # <<>> /\ data[1].kind = "head" /\ data[1].n = FORMAT_VERSION
    BY <1>1, <1>3, HeaderIs
  <1>5. data[1] = Cell("head", FORMAT_VERSION)
    <2>1. data[1] \in Cells
      BY <1>4
    <2> QED BY <1>4, <2>1 DEF Cells, Cell
  <1>6. ValidLen(data) = 2 * Whole(data) + 1
    BY ONLY <1>1, <1>4
  <1> QED BY <1>1, <1>4, <1>5, <1>6 DEF Current, Odd

\* Wal::open reads the file: it keeps the shape.
LEMMA OpenScanShape == ASSUME Shape, NEW e \in Roles, OpenScan(e) PROVE Shape'
  <1> USE DEF live, stale, Data, Safe
  <1>0. TypeOK /\ FilesOK /\ SettledOK /\ StagesOK /\ PathOK /\ TmpOK /\ ServingOK /\ CutsOK
    BY DEF Shape
  <1>1. /\ inodes' = inodes /\ path' = path /\ named' = named /\ tmp' = tmp
        /\ next' = next /\ scars' = scars /\ h[e].at = "scan"
    BY DEF OpenScan, files
  <1>2. /\ Scanned.valid \in Nat /\ Scanned.events \in Seq(Int)
        /\ path # 0 => Scanned = scan(Data(path)) /\ path \in DOMAIN inodes
                       /\ Data(path) \in Seq(Cells)
        /\ path = 0 => Scanned.valid = 0 /\ ~Scanned.refused /\ ~Outdated(Scanned)
    <2>1. CASE path = 0
      BY <2>1 DEF Scanned, Missing, Outdated
    <2>2. CASE path # 0
      <3>1. path \in DOMAIN inodes /\ Data(path) \in Seq(Cells)
        BY <1>0, <2>2, HandleFields
      <3> QED BY <2>2, <3>1, ScanIs DEF Scanned
    <2> QED BY <2>1, <2>2
  <1>3. /\ h'[e].at = IF Scanned.refused THEN "refused"
                      ELSE IF Outdated(Scanned) THEN "upgrade" ELSE "open"
        /\ h'[e].valid = Scanned.valid
        /\ h'[e].ino = h[e].ino /\ h'[e].stopped = h[e].stopped
        /\ h'[e] \in Handles
        /\ \A d \in Roles : d # e => h'[d] = h[d]
        /\ h' \in [Roles -> Handles]
    <2>1. h \in [Roles -> Handles] /\ h[e] \in Handles
      BY <1>0 DEF TypeOK
    <2>2. (IF h[e].stopped THEN h[e].known ELSE Scanned.events) \in Seq(Int)
      BY <1>2, <2>1 DEF Handles
    <2>3. (IF Scanned.refused THEN "refused" ELSE IF Outdated(Scanned) THEN "upgrade"
           ELSE "open") \in Stages
      BY DEF Stages
    <2>4. h'[e] \in Handles
      BY <1>2, <2>1, <2>2, <2>3 DEF OpenScan, Handles
    <2> QED BY <2>1, <2>4 DEF OpenScan, Handles
  <1>4. TypeOK'
    BY <1>0, <1>1, <1>3 DEF TypeOK
  <1>5. e = "live" \/ e = "old"
    BY DEF Roles
  <1>6. ASSUME path # 0, Current(Data(path)), Tidy(Data(path))
        PROVE  h'[e].at = "open" /\ Odd(h'[e].valid) /\ h'[e].valid = ValidLen(Data(path))
    BY <1>2, <1>3, <1>6, SettledScan
  <1>7. CASE e = "old"
    <2>1. path # 0 /\ Current(Data(path)) /\ Tidy(Data(path))
      BY <1>0, <1>1, <1>7 DEF SettledOK, Recovering
    <2>2. stale'.at = "open" /\ Odd(stale'.valid) /\ live' = live
      BY <1>3, <1>6, <1>7, <2>1 DEF Roles
    <2>3. FilesOK' /\ SettledOK'
      BY <1>0, <1>1, <2>1, <2>2 DEF FilesOK, FileOK, SettledOK
    <2>4. StagesOK' /\ PathOK' /\ TmpOK' /\ ServingOK'
      BY <1>0, <1>1, <1>7, <2>2
         DEF StagesOK, PathOK, TmpOK, ServingOK, Serves, Recovering
    <2>5. CutsOK'
      BY <1>0, <1>1, <1>7, <2>2 DEF CutsOK, Recovering
    <2> QED BY <1>4, <2>3, <2>4, <2>5 DEF Shape
  <1>8. CASE e = "live"
    <2>1. /\ stale' = stale /\ live'.stopped = live.stopped /\ live'.ino = live.ino
          /\ live'.at \in {"refused", "upgrade", "open"}
      BY <1>3, <1>8 DEF Roles
    <2>2. FilesOK'
      BY <1>0, <1>1, <1>8, <2>1 DEF FilesOK, FileOK
    <2>3. Recovering("old")' <=> Recovering("old")
      BY <2>1 DEF Recovering
    <2>4. SettledOK'
      BY <1>0, <1>1, <2>1, <2>3 DEF SettledOK, Busy
    <2>5. live.stopped \/ Recovering("old") => live'.at = "open" /\ Odd(live'.valid)
                                               /\ live'.valid = ValidLen(Data(path))
      BY <1>0, <1>6, <1>8 DEF SettledOK
    <2>6. StagesOK'
      BY <1>0, <2>1, <2>3, <2>5 DEF StagesOK
    <2>7. PathOK' /\ TmpOK' /\ ServingOK'
      BY <1>1, <1>2, <1>3, <1>8, <2>1 DEF PathOK, TmpOK, ServingOK, Serves, Busy
    <2>8. ASSUME live'.at = "open"
          PROVE  \/ live'.valid = 0 /\ ~live.stopped /\ ~Recovering("old")
                 \/ /\ path # 0 /\ Odd(live'.valid) /\ Current(Data(path))
                    /\ live'.valid <= ValidLen(Data(path))
      <3>1. live'.valid \in Nat
        BY <1>2, <1>3, <1>8
      <3>2. CASE live.stopped \/ Recovering("old")
        BY <1>0, <2>5, <3>1, <3>2 DEF SettledOK
      <3>3. CASE path = 0 /\ ~live.stopped /\ ~Recovering("old")
        BY <1>2, <1>3, <1>8, <3>3
      <3>4. CASE path # 0 /\ ~live.stopped /\ ~Recovering("old")
        <4>1. ~Scanned.refused /\ ~Outdated(Scanned)
          BY <1>3, <1>8, <2>8
        <4>2. /\ Scanned = scan(Data(path)) /\ Data(path) \in Seq(Cells)
              /\ live'.valid = ValidLen(Data(path))
          BY <1>2, <1>3, <1>8, <3>4, ScanIs
        <4>3. ValidLen(Data(path)) = 0 \/ (Current(Data(path)) /\ Odd(ValidLen(Data(path))))
          BY <4>1, <4>2, OpenedScan
        <4> QED BY <3>1, <3>4, <4>2, <4>3
      <3> QED BY <3>2, <3>3, <3>4
    <2>9. CutsOK'
      BY <1>0, <1>1, <2>1, <2>3, <2>8 DEF CutsOK
    <2> QED BY <1>4, <2>2, <2>4, <2>6, <2>7, <2>9 DEF Shape
  <1> QED BY <1>5, <1>7, <1>8

\* There is nothing bad in an empty file.
LEMMA EmptyTidy == Tidy(<<>>) /\ ValidLen(<<>>) = 0 /\ Events(<<>>) = <<>>
  <1>1. <<>> \in Seq(Cells) /\ Len(<<>>) = 0
    OBVIOUS
  <1>2. /\ At(<<>>) \in {0, 1} /\ Whole(<<>>) \in Nat
        /\ At(<<>>) + 2 * Whole(<<>>) <= 0
        /\ ValidLen(<<>>) = At(<<>>) + 2 * Whole(<<>>)
    BY <1>1, WholeIs, HeaderIs
  <1>3. ValidLen(<<>>) = 0 /\ Whole(<<>>) = 0
    BY ONLY <1>2
  <1>4. Events(<<>>) \in Seq(Int) /\ Len(Events(<<>>)) = 0
    BY <1>1, <1>3, EventsAre
  <1>5. Events(<<>>) = <<>>
    BY ONLY <1>4
  <1> QED BY <1>1, <1>3, <1>5 DEF Tidy

\* A clean file is of this version, and tidy.
LEMMA CleanIsTidy == ASSUME NEW data, Clean(data) PROVE Current(data) /\ Tidy(data)
  BY DEF Clean, Tidy

\* A stopped engine's handle cuts the file, whatever the serving one is at.
LEMMA OldOpenShape == ASSUME Shape, OpenFile("old") PROVE Shape'
  <1> USE DEF live, stale, Data, Safe
  <1>0. TypeOK /\ FilesOK /\ SettledOK /\ StagesOK /\ PathOK /\ TmpOK /\ ServingOK /\ CutsOK
    BY DEF Shape
  <1>1. stale.at = "open" /\ Recovering("old")
    BY DEF OpenFile, Recovering
  <1>2. path # 0 /\ Current(Data(path)) /\ Tidy(Data(path)) /\ Odd(stale.valid)
    BY <1>0, <1>1 DEF SettledOK, CutsOK
  <1>3. path \in DOMAIN inodes /\ Data(path) \in Seq(Cells) /\ inodes[path] \in Files
    BY <1>0, <1>2, HandleFields
  <1> PICK kept : kept = CutBack(Data(path), stale.valid)
    OBVIOUS
  <1> PICK file : file = IF kept = Data(path) THEN inodes[path]
                         ELSE [data |-> kept, safe |-> kept]
    OBVIOUS
  <1>4. /\ inodes' = [inodes EXCEPT ![path] = file] /\ path' = path /\ named' = named
        /\ tmp' = tmp /\ next' = next /\ scars' = scars
    BY <1>2 DEF OpenFile
  <1>6. /\ kept \in Seq(Cells) /\ kept # <<>> /\ Current(kept) /\ Tidy(kept)
        /\ Clean(Data(path)) => Clean(kept)
        /\ kept = Data(path) \/ Clean(kept)
    <2> PICK d, v : d = Data(path) /\ v = stale.valid
      OBVIOUS
    <2>1. /\ d \in Seq(Cells) /\ Current(d) /\ Tidy(d) /\ Odd(v)
          /\ kept = CutBack(d, v)
      BY <1>2, <1>3
    <2>2. /\ kept \in Seq(Cells) /\ kept # <<>> /\ Current(kept) /\ Tidy(kept)
          /\ Clean(d) => Clean(kept)
          /\ kept = d \/ Clean(kept)
      BY ONLY <2>1, CutReads
    <2> QED BY <2>2
  <1>7. file \in Files /\ file.data = kept
    BY <1>3, <1>6 DEF Files
  <1>8. /\ inodes' \in Seq(Files) /\ Len(inodes') = Len(inodes)
        /\ DOMAIN inodes' = DOMAIN inodes /\ inodes'[path] = file
        /\ \A k \in DOMAIN inodes : k # path => inodes'[k] = inodes[k]
    BY <1>0, <1>3, <1>4, <1>7, FilePut DEF TypeOK
  <1>9. /\ h' \in [Roles -> Handles] /\ stale'.at = "ready"
        /\ live'.at = live.at /\ live'.ino = live.ino /\ live'.valid = live.valid
        /\ live'.stopped = live.stopped
    <2>1. h \in [Roles -> Handles] /\ h["old"] \in Handles /\ h["live"] \in Handles
          /\ "old" \in Roles /\ "live" \in Roles
      BY <1>0 DEF TypeOK, Roles
    <2>2. \E b \in BOOLEAN :
             h' = [h EXCEPT !["old"].ino = path, !["old"].at = "ready", !["live"].crossed = b]
      <3>1. ~NeedsHeader(kept)
        BY <1>6 DEF NeedsHeader
      <3>2. h' = [h EXCEPT !["old"].ino = path,
                           !["old"].at = IF NeedsHeader(kept) THEN "empty" ELSE "ready",
                           !["live"].crossed = @ \/ kept # Data(path)]
        BY <1>2 DEF OpenFile
      <3> QED BY <3>1, <3>2
    <2>3. PICK b \in BOOLEAN :
             h' = [h EXCEPT !["old"].ino = path, !["old"].at = "ready", !["live"].crossed = b]
      BY <2>2
    <2>4. path \in Nat /\ "ready" \in Stages
      BY <1>0, HandleFields DEF TypeOK, Stages, Busy
    <2>5. /\ h'["old"] = [h["old"] EXCEPT !.ino = path, !.at = "ready"]
          /\ h'["live"] = [h["live"] EXCEPT !.crossed = b]
          /\ h' = [e \in Roles |-> h'[e]]
      BY <2>1, <2>3
    <2>6. h'["old"] \in Handles /\ h'["live"] \in Handles
      BY <2>1, <2>4, <2>5 DEF Handles
    <2>7. h' \in [Roles -> Handles]
      BY <2>5, <2>6 DEF Roles
    <2> QED BY <2>1, <2>5, <2>7 DEF Handles
  <1>10. TypeOK'
    BY <1>0, <1>4, <1>8, <1>9 DEF TypeOK
  <1>11. FilesOK'
    <2>1. ASSUME NEW k \in DOMAIN inodes PROVE FileOK(k)'
      <3>1. CASE k # path
        BY <1>0, <1>4, <1>8, <1>9, <3>1 DEF FilesOK, FileOK
      <3>2. CASE k = path /\ kept = Data(path)
        <4>1. inodes'[k] = inodes[k]
          BY <1>8, <3>2
        <4> QED BY <1>0, <1>4, <1>9, <4>1 DEF FilesOK, FileOK
      <3>3. CASE k = path /\ kept # Data(path)
        <4>1. inodes'[k].data = kept /\ inodes'[k].safe = kept
          BY <1>8, <3>3
        <4>2. PrefixOf(kept, kept)
          BY <1>6 DEF PrefixOf
        <4> QED BY <1>6, <4>1, <4>2 DEF FileOK, Short
      <3> QED BY <3>1, <3>2, <3>3
    <2> QED BY <1>8, <2>1 DEF FilesOK
  <1>12. Data(path)' = kept
    BY <1>4, <1>7, <1>8
  <1>13. SettledOK'
    BY <1>2, <1>4, <1>6, <1>12 DEF SettledOK
  <1>14. StagesOK' /\ PathOK'
    BY <1>0, <1>1, <1>2, <1>4, <1>6, <1>9, <1>12 DEF StagesOK, PathOK, Recovering
  <1>15. TmpOK'
    BY <1>0, <1>4, <1>8, <1>9 DEF TmpOK
  <1>16. ServingOK'
    BY <1>0, <1>4, <1>6, <1>7, <1>8, <1>9 DEF ServingOK, Serves
  <1>17. CutsOK'
    BY <1>0, <1>1, <1>2, <1>4, <1>6, <1>9, <1>12 DEF CutsOK
  <1> QED BY <1>10, <1>11, <1>13, <1>14, <1>15, <1>16, <1>17 DEF Shape

\* Wal::open's last step, of the engine that is to serve or has just stopped.
LEMMA LiveOpenShape == ASSUME Shape, OpenFile("live") PROVE Shape'
  <1> USE DEF live, stale, Data, Safe
  <1>0. TypeOK /\ FilesOK /\ SettledOK /\ StagesOK /\ PathOK /\ TmpOK /\ ServingOK /\ CutsOK
    BY DEF Shape
  <1>1. live.at = "open" /\ live.valid \in Nat
    BY <1>0, HandleFields DEF OpenFile
  <1> PICK old : old = IF path = 0 THEN [data |-> <<>>, safe |-> <<>>] ELSE inodes[path]
    OBVIOUS
  <1> PICK kept : kept = CutBack(old.data, live.valid)
    OBVIOUS
  <1> PICK file : file = IF kept = old.data THEN old ELSE [data |-> kept, safe |-> kept]
    OBVIOUS
  <1> PICK ino : ino = IF path = 0 THEN Len(inodes) + 1 ELSE path
    OBVIOUS
  <1>2. /\ inodes' = IF path = 0 THEN Append(inodes, file) ELSE [inodes EXCEPT ![path] = file]
        /\ path' = ino /\ named' = named /\ tmp' = tmp /\ next' = next /\ scars' = scars
    BY DEF OpenFile
  <1>3. /\ old \in Files /\ old.data \in Seq(Cells) /\ old.safe \in Seq(Cells)
        /\ path # 0 => path \in DOMAIN inodes
        /\ PrefixOf(old.safe, old.data)
        /\ old.data # <<>> => old.safe # <<>>
    <2>1. CASE path = 0
      <3>1. old = [data |-> <<>>, safe |-> <<>>] /\ <<>> \in Seq(Cells)
        BY <2>1
      <3>2. old.data = <<>> /\ old.safe = <<>>
        BY ONLY <3>1
      <3>3. old \in Files
        BY ONLY <3>1 DEF Files
      <3>4. PrefixOf(<<>>, <<>>)
        BY DEF PrefixOf
      <3> QED BY ONLY <2>1, <3>1, <3>2, <3>3, <3>4
    <2>2. CASE path # 0
      <3>1. path \in DOMAIN inodes /\ old = inodes[path] /\ old \in Files
        BY <1>0, <2>2, HandleFields
      <3>2. FileOK(path)
        BY <1>0, <3>1 DEF FilesOK
      <3> QED BY <1>1, <3>1, <3>2 DEF FileOK, Files
    <2> QED BY <2>1, <2>2
  \* The cut.
  <1>4. \/ /\ kept = <<>> /\ ~live.stopped /\ ~Recovering("old")
        \/ /\ path # 0 /\ Clean(kept) /\ kept # <<>>
    <2>1. CASE live.valid = 0 /\ ~live.stopped /\ ~Recovering("old")
      <3>1. CASE Len(old.data) > 0
        <4>1. kept = SubSeq(old.data, 1, 0)
          BY <2>1, <3>1 DEF CutBack
        <4>2. SubSeq(old.data, 1, 0) = <<>>
          <5> PICK d : d = old.data
            OBVIOUS
          <5>1. d \in Seq(Cells)
            BY <1>3
          <5>2. SubSeq(d, 1, 0) = <<>>
            BY ONLY <5>1, SubSeqEmpty
          <5> QED BY <5>2
        <4> QED BY <2>1, <4>1, <4>2
      <3>2. CASE ~(Len(old.data) > 0)
        <4>1. old.data = <<>>
          <5> PICK d : d = old.data
            OBVIOUS
          <5>1. d \in Seq(Cells) /\ ~(Len(d) > 0)
            BY <1>3, <3>2
          <5>2. d = <<>>
            BY ONLY <5>1
          <5> QED BY <5>2
        <4> QED BY <2>1, <3>2, <4>1 DEF CutBack
      <3> QED BY <3>1, <3>2
    <2>2. CASE /\ path # 0 /\ Odd(live.valid) /\ Current(Data(path))
               /\ live.valid <= ValidLen(Data(path)) \/ Clean(Data(path))
      <3> PICK d, v : d = Data(path) /\ v = live.valid
        OBVIOUS
      <3>2. /\ d \in Seq(Cells) /\ Current(d) /\ Odd(v)
            /\ kept = CutBack(d, v)
            /\ v <= ValidLen(d) \/ Clean(d)
        BY <1>3, <2>2
      <3>3. Clean(kept) /\ kept # <<>>
        BY ONLY <3>2, CutReads
      <3> QED BY <2>2, <3>3
    <2> QED BY <1>0, <1>1, <2>1, <2>2 DEF CutsOK
  <1>5. kept \in Seq(Cells) /\ file \in Files /\ file.data = kept
    <2>1. kept \in Seq(Cells)
      <3> PICK d, v : d = old.data /\ v = live.valid
        OBVIOUS
      <3>1. d \in Seq(Cells) /\ v \in Nat /\ kept = CutBack(d, v)
        BY <1>1, <1>3
      <3>2. kept \in Seq(Cells)
        BY ONLY <3>1 DEF CutBack
      <3> QED BY <3>2
    <2> QED BY <1>3, <2>1 DEF Files
  <1>6. /\ PrefixOf(file.safe, file.data)
        /\ file.data = <<>> \/ file.safe # <<>>
        /\ scars = {} => Short(file.data)
    <2>1. PrefixOf(kept, kept)
      BY <1>5 DEF PrefixOf
    <2>2. Tidy(kept)
      <3>1. CASE kept = <<>>
        BY <3>1, EmptyTidy
      <3>2. CASE Clean(kept)
        BY <3>2, CleanIsTidy
      <3> QED BY <1>4, <3>1, <3>2
    <2> QED BY <1>3, <1>5, <2>1, <2>2 DEF Short
  <1>7. /\ inodes' \in Seq(Files) /\ ino \in DOMAIN inodes' /\ inodes'[ino] = file
        /\ DOMAIN inodes \subseteq DOMAIN inodes' /\ Len(inodes) <= Len(inodes')
        /\ \A k \in DOMAIN inodes' : k # ino => k \in DOMAIN inodes /\ inodes'[k] = inodes[k]
        /\ ino # 0 /\ DOMAIN inodes' = 1 .. Len(inodes') /\ Len(inodes') \in Nat
        /\ Len(inodes) \in Nat
    <2>0. inodes \in Seq(Files) /\ Len(inodes) \in Nat
      BY <1>0 DEF TypeOK
    <2>1. CASE path = 0
      <3>1. ino = Len(inodes) + 1 /\ inodes' = Append(inodes, file)
        BY <1>2, <2>1
      <3>2. /\ inodes' \in Seq(Files) /\ Len(inodes') = Len(inodes) + 1
            /\ DOMAIN inodes' = DOMAIN inodes \cup {ino} /\ inodes'[ino] = file
            /\ \A k \in DOMAIN inodes : inodes'[k] = inodes[k]
        BY <1>5, <2>0, <3>1, FileNew
      <3> QED BY <2>0, <3>1, <3>2
    <2>2. CASE path # 0
      <3>1. ino = path /\ path \in DOMAIN inodes /\ inodes' = [inodes EXCEPT ![path] = file]
        BY <1>2, <1>3, <2>2
      <3>2. /\ inodes' \in Seq(Files) /\ Len(inodes') = Len(inodes)
            /\ DOMAIN inodes' = DOMAIN inodes /\ inodes'[ino] = file
            /\ \A k \in DOMAIN inodes : k # ino => inodes'[k] = inodes[k]
        BY <1>5, <2>0, <3>1, FilePut
      <3> QED BY <2>0, <2>2, <3>1, <3>2
    <2> QED BY <2>1, <2>2
  <1>8. /\ h' \in [Roles -> Handles] /\ stale' = stale
        /\ live'.at = (IF kept = <<>> THEN "empty" ELSE "ready")
        /\ live'.ino = ino /\ live'.stopped = live.stopped
    <2>1. h \in [Roles -> Handles] /\ h["old"] \in Handles /\ h["live"] \in Handles
          /\ "old" \in Roles /\ "live" \in Roles
      BY <1>0 DEF TypeOK, Roles
    <2> PICK at : at = IF kept = <<>> THEN "empty" ELSE "ready"
      OBVIOUS
    <2>2. \E b \in BOOLEAN :
             h' = [h EXCEPT !["live"].ino = ino, !["live"].at = at, !["live"].crossed = b]
      <3>1. h' = [h EXCEPT !["live"].ino = ino,
                           !["live"].at = IF NeedsHeader(kept) THEN "empty" ELSE "ready",
                           !["live"].crossed = @ \/ kept # old.data]
        BY DEF OpenFile
      <3> QED BY <3>1 DEF NeedsHeader
    <2>3. PICK b \in BOOLEAN :
             h' = [h EXCEPT !["live"].ino = ino, !["live"].at = at, !["live"].crossed = b]
      BY <2>2
    <2>4. ino \in Nat /\ at \in Stages
      BY <1>7 DEF Stages, Busy
    <2>5. /\ h'["live"] = [h["live"] EXCEPT !.ino = ino, !.at = at, !.crossed = b]
          /\ h'["old"] = h["old"]
          /\ h' = [e \in Roles |-> h'[e]]
      BY <2>1, <2>3
    <2>6. h'["old"] \in Handles /\ h'["live"] \in Handles
      BY <2>1, <2>4, <2>5 DEF Handles
    <2>7. h' \in [Roles -> Handles]
      BY <2>5, <2>6 DEF Roles
    <2> QED BY <2>1, <2>5, <2>7 DEF Handles
  <1>9. TypeOK'
    BY <1>0, <1>2, <1>7, <1>8 DEF TypeOK
  <1>10. FilesOK'
    <2>1. ASSUME NEW k \in DOMAIN inodes' PROVE FileOK(k)'
      <3>1. CASE k # ino
        <4>1. k \in DOMAIN inodes /\ inodes'[k] = inodes[k] /\ FileOK(k)
          BY <1>0, <1>7, <3>1 DEF FilesOK
        <4> QED BY <1>1, <1>2, <4>1 DEF FileOK
      <3>2. CASE k = ino
        BY <1>2, <1>6, <1>7, <3>2 DEF FileOK
      <3> QED BY <3>1, <3>2
    <2> QED BY <2>1 DEF FilesOK
  <1>12. Data(path)' = kept /\ path' # 0 /\ (Recovering("old")' <=> Recovering("old"))
    BY <1>2, <1>5, <1>7, <1>8 DEF Recovering
  <1>13. SettledOK'
    BY <1>4, <1>8, <1>12, CleanIsTidy DEF SettledOK, Busy
  <1>14. StagesOK' /\ PathOK' /\ TmpOK'
    BY <1>0, <1>1, <1>2, <1>4, <1>8, <1>12 DEF StagesOK, PathOK, TmpOK
  <1>15. ServingOK'
    BY <1>4, <1>5, <1>7, <1>8 DEF ServingOK, Serves, Busy
  <1>16. CutsOK'
    BY <1>0, <1>8 DEF CutsOK
  <1> QED BY <1>9, <1>10, <1>13, <1>14, <1>15, <1>16 DEF Shape

\* A handle goes on to another stage.
LEMMA LiveAt ==
    ASSUME TypeOK, NEW a \in Stages, h' = [h EXCEPT !["live"].at = a]
    PROVE  /\ h' \in [Roles -> Handles] /\ stale' = stale
           /\ live'.at = a /\ live'.ino = live.ino /\ live'.valid = live.valid
           /\ live'.known = live.known /\ live'.batch = live.batch
           /\ live'.crossed = live.crossed /\ live'.stopped = live.stopped
  <1>1. h \in [Roles -> Handles] /\ h["live"] \in Handles /\ "live" \in Roles
    BY HandleFields DEF TypeOK
  <1>2. h'["live"] = [h["live"] EXCEPT !.at = a] /\ h'["old"] = h["old"]
    BY <1>1 DEF Roles
  <1>3. h'["live"] \in Handles
    BY <1>1, <1>2 DEF Handles
  <1>4. h' \in [Roles -> Handles]
    BY <1>1, <1>3
  <1> QED BY <1>1, <1>2, <1>4 DEF live, stale, Handles

\* The cells of one file change, or what of them is known to be on disk.
LEMMA FileData ==
    ASSUME inodes \in Seq(Files), NEW i \in DOMAIN inodes, NEW d \in Seq(Cells),
           inodes' = [inodes EXCEPT ![i].data = d]
    PROVE  /\ inodes' \in Seq(Files) /\ Len(inodes') = Len(inodes)
           /\ DOMAIN inodes' = DOMAIN inodes
           /\ inodes'[i].data = d /\ inodes'[i].safe = inodes[i].safe
           /\ \A k \in DOMAIN inodes : k # i => inodes'[k] = inodes[k]
  <1> PICK f : f = [inodes[i] EXCEPT !.data = d]
    OBVIOUS
  <1>1. inodes[i] \in Files
    OBVIOUS
  <1>2. f \in Files /\ f.data = d /\ f.safe = inodes[i].safe
    BY ONLY <1>1, d \in Seq(Cells), f = [inodes[i] EXCEPT !.data = d] DEF Files
  <1>3. inodes' = [inodes EXCEPT ![i] = f]
    OBVIOUS
  <1>4. /\ inodes' \in Seq(Files) /\ Len(inodes') = Len(inodes)
        /\ DOMAIN inodes' = DOMAIN inodes /\ inodes'[i] = f
        /\ \A k \in DOMAIN inodes : k # i => inodes'[k] = inodes[k]
    BY ONLY <1>2, <1>3, FilePut, inodes \in Seq(Files), i \in DOMAIN inodes
  <1> QED BY ONLY <1>2, <1>4

\* What of one file is known to be on disk changes.
LEMMA FileSafe ==
    ASSUME inodes \in Seq(Files), NEW i \in DOMAIN inodes, NEW d \in Seq(Cells),
           inodes' = [inodes EXCEPT ![i].safe = d]
    PROVE  /\ inodes' \in Seq(Files) /\ Len(inodes') = Len(inodes)
           /\ DOMAIN inodes' = DOMAIN inodes
           /\ inodes'[i].safe = d /\ inodes'[i].data = inodes[i].data
           /\ \A k \in DOMAIN inodes : k # i => inodes'[k] = inodes[k]
  <1> PICK f : f = [inodes[i] EXCEPT !.safe = d]
    OBVIOUS
  <1>1. inodes[i] \in Files
    OBVIOUS
  <1>2. f \in Files /\ f.safe = d /\ f.data = inodes[i].data
    BY ONLY <1>1, d \in Seq(Cells), f = [inodes[i] EXCEPT !.safe = d] DEF Files
  <1>3. inodes' = [inodes EXCEPT ![i] = f]
    OBVIOUS
  <1>4. /\ inodes' \in Seq(Files) /\ Len(inodes') = Len(inodes)
        /\ DOMAIN inodes' = DOMAIN inodes /\ inodes'[i] = f
        /\ \A k \in DOMAIN inodes : k # i => inodes'[k] = inodes[k]
    BY ONLY <1>2, <1>3, FilePut, inodes \in Seq(Files), i \in DOMAIN inodes
  <1> QED BY ONLY <1>2, <1>4

\* Only the serving engine's handle gives a file a header or a new version.
LEMMA OnlyLive ==
    ASSUME Shape, NEW e \in Roles,
           h[e].at \in {"empty", "headed", "upgrade", "upgrade_staged", "upgrade_renamed"}
    PROVE  e = "live" /\ ~live.stopped /\ ~Recovering("old") /\ TypeOK
  BY DEF Shape, StagesOK, Roles, live, stale

\* An empty file gets its header.
LEMMA WriteHeaderDoes ==
    ASSUME Shape, NEW e \in Roles, WriteHeader(e)
    PROVE  /\ live.at = "empty" /\ live.ino = path /\ path \in DOMAIN inodes
           /\ Data(path) = <<>> /\ Safe(path) = <<>> /\ ~live.stopped /\ ~Recovering("old")
           /\ path' = path /\ named' = named /\ tmp' = tmp /\ next' = next
           /\ scars' = scars /\ sure' = sure /\ acked' = acked
           /\ inodes' \in Seq(Files) /\ Len(inodes') = Len(inodes)
           /\ DOMAIN inodes' = DOMAIN inodes
           /\ inodes'[path].data = write_header /\ inodes'[path].safe = <<>>
           /\ \A k \in DOMAIN inodes : k # path => inodes'[k] = inodes[k]
           /\ h' = [h EXCEPT !["live"].at = "headed"]
  <1>1. e = "live" /\ live.at = "empty" /\ ~live.stopped /\ ~Recovering("old") /\ TypeOK
    BY OnlyLive DEF WriteHeader, live
  <1>2. live.ino = path /\ path # 0 /\ Data(path) = <<>> /\ FilesOK
    BY <1>1 DEF Shape, PathOK
  <1>3. path \in DOMAIN inodes /\ Safe(path) \in Seq(Cells)
    BY <1>1, <1>2, HandleFields
  <1>4. Safe(path) = <<>>
    <2> PICK d : d = Safe(path)
      OBVIOUS
    <2>1. PrefixOf(d, <<>>)
      BY <1>2, <1>3 DEF FilesOK, FileOK
    <2>2. d \in Seq(Cells) /\ Len(d) <= 0
      BY <1>3, <2>1 DEF PrefixOf
    <2>3. d = <<>>
      BY ONLY <2>2
    <2> QED BY <2>3
  <1>5. inodes' = [inodes EXCEPT ![path].data = write_header]
    <2>1. <<>> \o write_header = write_header
      BY HeaderReads
    <2>2. inodes' = [inodes EXCEPT ![path].data = inodes[path].data \o write_header]
      BY <1>1, <1>2, <1>3 DEF WriteHeader, live
    <2> QED BY <1>2, <2>1, <2>2 DEF Data
  <1>6. write_header \in Seq(Cells) /\ inodes \in Seq(Files)
    BY <1>1, HeaderReads DEF TypeOK
  <1>7. /\ inodes' \in Seq(Files) /\ Len(inodes') = Len(inodes)
        /\ DOMAIN inodes' = DOMAIN inodes
        /\ inodes'[path].data = write_header /\ inodes'[path].safe = inodes[path].safe
        /\ \A k \in DOMAIN inodes : k # path => inodes'[k] = inodes[k]
    BY ONLY <1>3, <1>5, <1>6, FileData
  <1>8. h' = [h EXCEPT !["live"].at = "headed"]
    BY <1>1 DEF WriteHeader, Set
  <1> QED BY <1>1, <1>2, <1>3, <1>4, <1>7, <1>8 DEF WriteHeader, Safe

\* A header keeps the shape.
LEMMA WriteHeaderShape == ASSUME Shape, NEW e \in Roles, WriteHeader(e) PROVE Shape'
  <1> USE DEF live, stale, Data, Safe
  <1>0. TypeOK /\ FilesOK /\ SettledOK /\ StagesOK /\ PathOK /\ TmpOK /\ ServingOK /\ CutsOK
    BY DEF Shape
  <1>1. /\ live.at = "empty" /\ live.ino = path /\ path \in DOMAIN inodes
        /\ Data(path) = <<>> /\ Safe(path) = <<>> /\ ~live.stopped /\ ~Recovering("old")
        /\ path' = path /\ named' = named /\ tmp' = tmp /\ next' = next /\ scars' = scars
        /\ inodes' \in Seq(Files) /\ Len(inodes') = Len(inodes)
        /\ DOMAIN inodes' = DOMAIN inodes
        /\ inodes'[path].data = write_header /\ inodes'[path].safe = <<>>
        /\ \A k \in DOMAIN inodes : k # path => inodes'[k] = inodes[k]
        /\ h' = [h EXCEPT !["live"].at = "headed"]
    BY WriteHeaderDoes
  <1>2. /\ h' \in [Roles -> Handles] /\ stale' = stale
        /\ live'.at = "headed" /\ live'.ino = live.ino /\ live'.stopped = live.stopped
    <2>1. "headed" \in Stages
      BY DEF Stages
    <2> QED BY ONLY <1>0, <1>1, <2>1, LiveAt DEF live, stale
  <1>3. TypeOK'
    BY <1>0, <1>1, <1>2 DEF TypeOK
  <1>4. Clean(write_header) /\ Tidy(write_header)
    BY HeaderReads, CleanIsTidy
  <1>5. FilesOK'
    <2>1. ASSUME NEW k \in DOMAIN inodes PROVE FileOK(k)'
      <3>1. CASE k # path
        BY <1>0, <1>1, <3>1 DEF FilesOK, FileOK
      <3>2. CASE k = path
        <4>1. PrefixOf(<<>>, write_header)
          BY HeaderReads DEF PrefixOf
        <4> QED BY <1>1, <1>2, <1>4, <3>2, <4>1 DEF FileOK, Short
      <3> QED BY <3>1, <3>2
    <2> QED BY <1>1, <2>1 DEF FilesOK
  <1>6. SettledOK' /\ StagesOK'
    BY <1>0, <1>1, <1>2 DEF SettledOK, StagesOK, Busy, Recovering
  <1>7. PathOK' /\ TmpOK' /\ ServingOK' /\ CutsOK'
    BY <1>0, <1>1, <1>2 DEF PathOK, TmpOK, ServingOK, Serves, Busy, CutsOK
  <1> QED BY <1>3, <1>5, <1>6, <1>7 DEF Shape

\* The header reaches the disk, and the file can take records.
LEMMA SyncHeaderDoes ==
    ASSUME Shape, NEW e \in Roles, SyncHeader(e)
    PROVE  /\ live.at = "headed" /\ live.ino = path /\ path \in DOMAIN inodes
           /\ Data(path) = write_header /\ ~live.stopped /\ ~Recovering("old")
           /\ path' = path /\ named' = named /\ tmp' = tmp /\ next' = next
           /\ scars' = scars /\ sure' = sure /\ acked' = acked
           /\ inodes' \in Seq(Files) /\ Len(inodes') = Len(inodes)
           /\ DOMAIN inodes' = DOMAIN inodes
           /\ inodes'[path].data = write_header /\ inodes'[path].safe = write_header
           /\ \A k \in DOMAIN inodes : k # path => inodes'[k] = inodes[k]
           /\ h' = [h EXCEPT !["live"].at = "ready"]
  <1>1. e = "live" /\ live.at = "headed" /\ ~live.stopped /\ ~Recovering("old") /\ TypeOK
    BY OnlyLive DEF SyncHeader, live
  <1>2. live.ino = path /\ path # 0 /\ Data(path) = write_header /\ inodes \in Seq(Files)
    BY <1>1 DEF Shape, PathOK, TypeOK
  <1>3. path \in DOMAIN inodes /\ Data(path) \in Seq(Cells)
    BY <1>1, <1>2, HandleFields
  <1>4. inodes' = [inodes EXCEPT ![path].safe = Data(path)]
    BY <1>1, <1>2 DEF SyncHeader, live, Data
  <1>5. /\ inodes' \in Seq(Files) /\ Len(inodes') = Len(inodes)
        /\ DOMAIN inodes' = DOMAIN inodes
        /\ inodes'[path].safe = Data(path) /\ inodes'[path].data = inodes[path].data
        /\ \A k \in DOMAIN inodes : k # path => inodes'[k] = inodes[k]
    BY ONLY <1>2, <1>3, <1>4, FileSafe
  <1>6. h' = [h EXCEPT !["live"].at = "ready"]
    BY <1>1 DEF SyncHeader, Set
  <1> QED BY <1>1, <1>2, <1>3, <1>5, <1>6 DEF SyncHeader, Data

\* A synced header keeps the shape.
LEMMA SyncHeaderShape == ASSUME Shape, NEW e \in Roles, SyncHeader(e) PROVE Shape'
  <1> USE DEF live, stale, Data, Safe
  <1>0. TypeOK /\ FilesOK /\ SettledOK /\ StagesOK /\ PathOK /\ TmpOK /\ ServingOK /\ CutsOK
    BY DEF Shape
  <1>1. /\ live.at = "headed" /\ live.ino = path /\ path \in DOMAIN inodes
        /\ ~live.stopped /\ ~Recovering("old")
        /\ path' = path /\ named' = named /\ tmp' = tmp /\ next' = next /\ scars' = scars
        /\ inodes' \in Seq(Files) /\ Len(inodes') = Len(inodes)
        /\ DOMAIN inodes' = DOMAIN inodes
        /\ inodes'[path].data = write_header /\ inodes'[path].safe = write_header
        /\ \A k \in DOMAIN inodes : k # path => inodes'[k] = inodes[k]
        /\ h' = [h EXCEPT !["live"].at = "ready"]
    BY SyncHeaderDoes
  <1>2. /\ h' \in [Roles -> Handles] /\ stale' = stale
        /\ live'.at = "ready" /\ live'.ino = live.ino /\ live'.stopped = live.stopped
    <2>1. "ready" \in Stages
      BY DEF Stages, Busy
    <2> QED BY ONLY <1>0, <1>1, <2>1, LiveAt DEF live, stale
  <1>3. TypeOK'
    BY <1>0, <1>1, <1>2 DEF TypeOK
  <1>4. /\ Clean(write_header) /\ Tidy(write_header) /\ Current(write_header)
        /\ PrefixOf(write_header, write_header) /\ write_header # <<>>
    <2>1. Clean(write_header) /\ Tidy(write_header) /\ Current(write_header)
      BY HeaderReads, CleanIsTidy
    <2>2. write_header # <<>>
      BY ONLY <2>1 DEF Current
    <2>3. PrefixOf(write_header, write_header)
      BY HeaderReads DEF PrefixOf
    <2> QED BY <2>1, <2>2, <2>3
  <1>5. FilesOK'
    <2>1. ASSUME NEW k \in DOMAIN inodes PROVE FileOK(k)'
      <3>1. CASE k # path
        BY <1>0, <1>1, <3>1 DEF FilesOK, FileOK
      <3>2. CASE k = path
        BY <1>1, <1>4, <3>2 DEF FileOK, Short
      <3> QED BY <3>1, <3>2
    <2> QED BY <1>1, <2>1 DEF FilesOK
  <1>6. path # 0
    BY <1>0, <1>1, HandleFields
  <1>7. SettledOK' /\ StagesOK'
    BY <1>0, <1>1, <1>2, <1>4, <1>6 DEF SettledOK, StagesOK, Recovering
  <1>8. PathOK' /\ TmpOK' /\ ServingOK' /\ CutsOK'
    BY <1>0, <1>1, <1>2, <1>4 DEF PathOK, TmpOK, ServingOK, Serves, Busy, CutsOK
  <1> QED BY <1>3, <1>5, <1>7, <1>8 DEF Shape

\* write_compact_file makes a clean file that says what it was given.
LEMMA StageDoes ==
    ASSUME TypeOK, NEW r \in Seq(Int), NEW a \in Stages, Stage("live", r, a)
    PROVE  /\ inodes' \in Seq(Files) /\ Len(inodes') = Len(inodes) + 1
           /\ tmp' = Len(inodes) + 1 /\ tmp' \notin DOMAIN inodes /\ tmp' # 0
           /\ DOMAIN inodes' = DOMAIN inodes \cup {tmp'}
           /\ \A k \in DOMAIN inodes : inodes'[k] = inodes[k]
           /\ Clean(inodes'[tmp'].data) /\ inodes'[tmp'].safe = inodes'[tmp'].data
           /\ Events(inodes'[tmp'].data) = r
           /\ path' = path /\ named' = named
           /\ h' = [h EXCEPT !["live"].at = a]
  <1> PICK cells : cells = write_header \o Encoded(r)
    OBVIOUS
  <1> PICK f : f = [data |-> cells, safe |-> cells]
    OBVIOUS
  <1>1. cells \in Seq(Cells) /\ Clean(cells) /\ Events(cells) = r
    BY StagedReads
  <1>2. f \in Files /\ f.data = cells /\ f.safe = cells
    BY ONLY <1>1, f = [data |-> cells, safe |-> cells] DEF Files
  <1>3. /\ inodes' = Append(inodes, f) /\ tmp' = Len(inodes) + 1
        /\ path' = path /\ named' = named /\ h' = [h EXCEPT !["live"].at = a]
    BY DEF Stage, Set
  <1>4. inodes \in Seq(Files) /\ Len(inodes) \in Nat
    BY DEF TypeOK
  <1>5. /\ inodes' \in Seq(Files) /\ Len(inodes') = Len(inodes) + 1
        /\ DOMAIN inodes' = DOMAIN inodes \cup {Len(inodes) + 1}
        /\ inodes'[Len(inodes) + 1] = f
        /\ \A k \in DOMAIN inodes : k # Len(inodes) + 1 /\ inodes'[k] = inodes[k]
    BY ONLY <1>2, <1>3, <1>4, FileNew
  <1>6. Len(inodes) + 1 # 0 /\ Len(inodes) + 1 \notin DOMAIN inodes
    BY ONLY <1>4, <1>5
  <1> QED BY ONLY <1>1, <1>2, <1>3, <1>5, <1>6

\* A file that is staged, by an upgrade or by a compaction.
LEMMA StageShape ==
    ASSUME Shape, NEW r \in Seq(Int), NEW a \in {"staged", "upgrade_staged"},
           Stage("live", r, a), next' = next, scars' = scars,
           a = "staged" => Serving, a = "upgrade_staged" => live.at = "upgrade"
    PROVE  Shape'
  <1> USE DEF live, stale, Data, Safe
  <1>0. TypeOK /\ FilesOK /\ SettledOK /\ StagesOK /\ PathOK /\ TmpOK /\ ServingOK /\ CutsOK
    BY DEF Shape
  <1>a. a \in Stages /\ live.at \in {"ready", "upgrade"}
    BY DEF Stages, Busy, Serving
  <1>1. /\ inodes' \in Seq(Files) /\ Len(inodes') = Len(inodes) + 1
        /\ tmp' = Len(inodes) + 1 /\ tmp' \notin DOMAIN inodes /\ tmp' # 0
        /\ DOMAIN inodes' = DOMAIN inodes \cup {tmp'}
        /\ \A k \in DOMAIN inodes : inodes'[k] = inodes[k]
        /\ Clean(inodes'[tmp'].data) /\ inodes'[tmp'].safe = inodes'[tmp'].data
        /\ path' = path /\ named' = named
        /\ h' = [h EXCEPT !["live"].at = a]
    BY ONLY <1>0, <1>a, StageDoes, Stage("live", r, a), r \in Seq(Int)
  <1>2. /\ h' \in [Roles -> Handles] /\ stale' = stale
        /\ live'.at = a /\ live'.ino = live.ino /\ live'.stopped = live.stopped
    BY ONLY <1>0, <1>1, <1>a, LiveAt DEF live, stale
  <1>3. TypeOK'
    BY <1>0, <1>1, <1>2 DEF TypeOK
  <1>4. path # 0 /\ path \in DOMAIN inodes
    BY <1>0, <1>a, HandleFields DEF SettledOK, PathOK, Busy
  <1>5. FilesOK'
    <2>1. ASSUME NEW k \in DOMAIN inodes' PROVE FileOK(k)'
      <3>1. CASE k \in DOMAIN inodes
        BY <1>0, <1>1, <1>a, <3>1 DEF FilesOK, FileOK
      <3>2. CASE k = tmp'
        <4> PICK d : d = inodes'[tmp'].data
          OBVIOUS
        <4>1. Clean(d) /\ Tidy(d) /\ d # <<>>
          BY <1>1, CleanIsTidy DEF Clean, Current
        <4>2. d \in Seq(Cells)
          <5>1. tmp' \in DOMAIN inodes' /\ inodes' \in Seq(Files)
            BY ONLY <1>1
          <5>2. inodes'[tmp'] \in Files
            BY ONLY <5>1
          <5> QED BY <5>2 DEF Files
        <4>3. PrefixOf(d, d)
          BY ONLY <4>2 DEF PrefixOf
        <4> QED BY <1>1, <3>2, <4>1, <4>3 DEF FileOK, Short
      <3> QED BY <1>1, <3>1, <3>2
    <2> QED BY <2>1 DEF FilesOK
  <1>6. Recovering("old")' <=> Recovering("old")
    BY <1>2 DEF Recovering
  <1>7. SettledOK'
    BY <1>0, <1>1, <1>2, <1>4, <1>6, <1>a DEF SettledOK, Busy, Serving
  <1>8. StagesOK'
    BY <1>0, <1>2, <1>6, <1>a DEF StagesOK, Serving
  <1>9. PathOK' /\ TmpOK' /\ CutsOK'
    BY <1>0, <1>1, <1>2, <1>4, <1>6 DEF PathOK, TmpOK, CutsOK
  <1>10. ServingOK'
    BY <1>0, <1>1, <1>2 DEF ServingOK, Serves, Busy, Serving
  <1> QED BY <1>3, <1>5, <1>7, <1>8, <1>9, <1>10 DEF Shape

\* A file is staged in an upgrade.
LEMMA StageUpgradeShape == ASSUME Shape, NEW e \in Roles, StageUpgrade(e) PROVE Shape'
  <1>1. e = "live" /\ live.at = "upgrade" /\ TypeOK
    BY OnlyLive DEF StageUpgrade, live
  <1>2. path # 0
    BY <1>1 DEF Shape, PathOK
  <1>3. path \in DOMAIN inodes /\ Data(path) \in Seq(Cells)
    BY <1>1, <1>2, HandleFields
  <1> PICK r : r = Scanned.events
    OBVIOUS
  <1>4. r \in Seq(Int)
    BY <1>2, <1>3, ScanIs DEF Scanned, Data
  <1>5. Stage("live", r, "upgrade_staged") /\ next' = next /\ scars' = scars
    BY <1>1 DEF StageUpgrade
  <1> QED BY <1>1, <1>4, <1>5, StageShape

\* A file is staged in a compaction.
LEMMA StageCompactShape == ASSUME Shape, StageCompact PROVE Shape'
  <1> PICK r : r = live.known
    OBVIOUS
  <1>1. r \in Seq(Int)
    BY HandleFields DEF Shape, live
  <1>2. Stage("live", r, "staged") /\ next' = next /\ scars' = scars /\ Serving
    BY DEF StageCompact, live
  <1> QED BY <1>1, <1>2, StageShape

\* rename: the staged file takes the log's name.
LEMMA RenameShape ==
    ASSUME Shape, NEW a \in {"renamed", "upgrade_renamed"},
           live.at = IF a = "renamed" THEN "staged" ELSE "upgrade_staged",
           path' = tmp, tmp' = 0, inodes' = inodes, named' = named,
           next' = next, scars' = scars,
           h' \in [Roles -> Handles], stale' = stale,
           live'.at = a, live'.ino = live.ino, live'.stopped = live.stopped
    PROVE  Shape'
  <1> USE DEF live, stale, Data, Safe
  <1>0. TypeOK /\ FilesOK /\ SettledOK /\ StagesOK /\ PathOK /\ TmpOK /\ ServingOK /\ CutsOK
    BY DEF Shape
  <1>1. tmp \in DOMAIN inodes /\ Clean(Data(tmp)) /\ DOMAIN inodes = 1 .. Len(inodes)
        /\ Len(inodes) \in Nat /\ live.at \in {"staged", "upgrade_staged"}
    BY <1>0, HandleFields DEF TmpOK
  <1>2. tmp # 0 /\ tmp \in 0 .. Len(inodes)
    BY <1>1
  <1>3. Current(Data(tmp)) /\ Tidy(Data(tmp))
    BY <1>1, CleanIsTidy
  <1>4. TypeOK'
    BY <1>0, <1>2 DEF TypeOK
  <1>5. FilesOK' /\ SettledOK'
    BY <1>0, <1>1, <1>2, <1>3 DEF FilesOK, FileOK, SettledOK
  <1>6. Recovering("old")' <=> Recovering("old")
    BY DEF Recovering
  <1>7. StagesOK'
    BY <1>0, <1>1, <1>6 DEF StagesOK
  <1>8. PathOK' /\ TmpOK' /\ CutsOK'
    BY <1>0, <1>1, <1>2, <1>6 DEF PathOK, TmpOK, CutsOK
  <1>9. ServingOK'
    BY <1>0 DEF ServingOK, Serves, Busy
  <1> QED BY <1>4, <1>5, <1>7, <1>8, <1>9 DEF Shape

\* The rename of an upgrade.
LEMMA RenameUpgradeShape == ASSUME Shape, NEW e \in Roles, RenameUpgrade(e) PROVE Shape'
  <1>1. e = "live" /\ live.at = "upgrade_staged" /\ TypeOK
    BY OnlyLive DEF RenameUpgrade, live
  <1>2. h' = [h EXCEPT !["live"].at = "upgrade_renamed"] /\ "upgrade_renamed" \in Stages
    BY <1>1 DEF RenameUpgrade, Set, Stages
  <1>3. /\ h' \in [Roles -> Handles] /\ stale' = stale
        /\ live'.at = "upgrade_renamed" /\ live'.ino = live.ino /\ live'.stopped = live.stopped
    BY <1>1, <1>2, LiveAt
  <1>4. /\ path' = tmp /\ tmp' = 0 /\ inodes' = inodes /\ named' = named
        /\ next' = next /\ scars' = scars
    BY DEF RenameUpgrade
  <1> QED BY <1>1, <1>3, <1>4, RenameShape

\* What the rename of a compaction changes.
LEMMA RenameCompactDoes ==
    ASSUME TypeOK, RenameCompact
    PROVE  /\ live.at = "staged" /\ h' \in [Roles -> Handles] /\ stale' = stale
           /\ live'.at = "renamed" /\ live'.ino = live.ino /\ live'.valid = live.valid
           /\ live'.known = live.known /\ live'.batch = live.batch
           /\ live'.crossed = FALSE /\ live'.stopped = live.stopped
           /\ path' = tmp /\ tmp' = 0 /\ inodes' = inodes /\ named' = named
           /\ next' = next /\ scars' = scars /\ sure' = sure /\ acked' = acked
  <1>1. h \in [Roles -> Handles] /\ h["live"] \in Handles /\ "live" \in Roles
    BY HandleFields DEF TypeOK
  <1>2. /\ h'["live"] = [h["live"] EXCEPT !.at = "renamed", !.crossed = FALSE]
        /\ h'["old"] = h["old"]
        /\ h' = [h EXCEPT !["live"] = h'["live"]]
    BY <1>1 DEF RenameCompact, Roles
  <1>3. h'["live"] \in Handles
    BY <1>1, <1>2 DEF Handles, Stages, Busy
  <1>4. h' \in [Roles -> Handles]
    BY <1>1, <1>2, <1>3
  <1> QED BY <1>1, <1>2, <1>4 DEF RenameCompact, live, stale, Handles

\* The rename of a compaction.
LEMMA RenameCompactShape == ASSUME Shape, RenameCompact PROVE Shape'
  <1>1. TypeOK
    BY DEF Shape
  <1> QED BY <1>1, RenameCompactDoes, RenameShape

\* The directory is synced, in an upgrade.
LEMMA SyncUpgradeDoes ==
    ASSUME Shape, NEW e \in Roles, SyncUpgrade(e)
    PROVE  /\ live.at = "upgrade_renamed" /\ path \in DOMAIN inodes /\ path # 0
           /\ Clean(Data(path)) /\ ~live.stopped /\ ~Recovering("old")
           /\ h' \in [Roles -> Handles] /\ stale' = stale
           /\ live'.at = "open" /\ live'.ino = live.ino /\ live'.valid = Len(Data(path))
           /\ live'.known = live.known /\ live'.batch = live.batch
           /\ live'.crossed = live.crossed /\ live'.stopped = live.stopped
           /\ path' = path /\ tmp' = tmp /\ inodes' = inodes /\ named' = path
           /\ next' = next /\ scars' = scars /\ sure' = sure /\ acked' = acked
  <1>1. e = "live" /\ live.at = "upgrade_renamed" /\ TypeOK /\ ~live.stopped /\ ~Recovering("old")
    BY OnlyLive DEF SyncUpgrade, live
  <1>2. path # 0 /\ Clean(Data(path))
    BY <1>1 DEF Shape, PathOK
  <1>3. path \in DOMAIN inodes /\ Data(path) \in Seq(Cells)
    BY <1>1, <1>2, HandleFields
  <1>4. Len(Data(path)) \in Nat
    BY <1>3
  <1>5. h \in [Roles -> Handles] /\ h["live"] \in Handles /\ "live" \in Roles
    BY <1>1, HandleFields DEF TypeOK
  <1>6. /\ h'["live"] = [h["live"] EXCEPT !.at = "open", !.valid = Len(Data(path))]
        /\ h'["old"] = h["old"]
        /\ h' = [h EXCEPT !["live"] = h'["live"]]
    BY <1>1, <1>5 DEF SyncUpgrade, Roles, Data
  <1>7. h'["live"] \in Handles
    BY <1>4, <1>5, <1>6 DEF Handles, Stages
  <1>8. h' \in [Roles -> Handles]
    BY <1>5, <1>6, <1>7
  <1>9. path' = path /\ tmp' = tmp /\ inodes' = inodes /\ named' = path
        /\ next' = next /\ scars' = scars /\ sure' = sure /\ acked' = acked
    BY DEF SyncUpgrade, SyncedName
  <1> QED BY <1>1, <1>2, <1>3, <1>5, <1>6, <1>8, <1>9 DEF live, stale, Handles

\* An upgraded file can be opened.
LEMMA SyncUpgradeShape == ASSUME Shape, NEW e \in Roles, SyncUpgrade(e) PROVE Shape'
  <1> USE DEF live, stale, Data, Safe
  <1>0. TypeOK /\ FilesOK /\ SettledOK /\ StagesOK /\ PathOK /\ TmpOK /\ ServingOK /\ CutsOK
    BY DEF Shape
  <1>1. /\ live.at = "upgrade_renamed" /\ path \in DOMAIN inodes /\ path # 0
        /\ Clean(Data(path)) /\ ~live.stopped /\ ~Recovering("old")
        /\ h' \in [Roles -> Handles] /\ stale' = stale
        /\ live'.at = "open" /\ live'.ino = live.ino /\ live'.valid = Len(Data(path))
        /\ live'.stopped = live.stopped
        /\ path' = path /\ tmp' = tmp /\ inodes' = inodes /\ named' = path
        /\ next' = next /\ scars' = scars
    BY SyncUpgradeDoes
  <1>2. Odd(live'.valid) /\ Current(Data(path))
    <2>1. Data(path) \in Seq(Cells)
      BY <1>0, <1>1, HandleFields
    <2>2. Current(Data(path)) /\ Tidy(Data(path))
      BY <1>1, CleanIsTidy
    <2>3. Odd(ValidLen(Data(path)))
      BY ONLY <2>1, <2>2, SettledScan
    <2> QED BY <1>1, <2>2, <2>3 DEF Clean
  <1>3. TypeOK'
    BY <1>0, <1>1 DEF TypeOK
  <1>4. FilesOK' /\ SettledOK'
    BY <1>0, <1>1 DEF FilesOK, FileOK, SettledOK, Busy, Recovering
  <1>5. StagesOK' /\ PathOK' /\ TmpOK'
    BY <1>0, <1>1 DEF StagesOK, PathOK, TmpOK
  <1>6. ServingOK' /\ CutsOK'
    BY <1>0, <1>1, <1>2 DEF ServingOK, Serves, Busy, CutsOK
  <1> QED BY <1>3, <1>4, <1>5, <1>6 DEF Shape

\* The directory is synced, in a compaction.
LEMMA SyncNameShape == ASSUME Shape, SyncName PROVE Shape'
  <1> USE DEF live, stale, Data, Safe
  <1>0. TypeOK /\ FilesOK /\ SettledOK /\ StagesOK /\ PathOK /\ TmpOK /\ ServingOK /\ CutsOK
    BY DEF Shape
  <1>1. /\ live.at = "renamed" /\ h' = [h EXCEPT !["live"].at = "synced"]
        /\ named' = path /\ inodes' = inodes /\ path' = path /\ tmp' = tmp
        /\ next' = next /\ scars' = scars /\ "synced" \in Stages
    BY DEF SyncName, Set, SyncedName, Stages, Busy
  <1>2. /\ h' \in [Roles -> Handles] /\ stale' = stale
        /\ live'.at = "synced" /\ live'.ino = live.ino /\ live'.stopped = live.stopped
    BY ONLY <1>0, <1>1, LiveAt DEF live, stale
  <1>3. TypeOK' /\ FilesOK' /\ SettledOK'
    BY <1>0, <1>1, <1>2 DEF TypeOK, FilesOK, FileOK, SettledOK, Busy
  <1>4. StagesOK' /\ PathOK' /\ TmpOK'
    BY <1>0, <1>1, <1>2 DEF StagesOK, PathOK, TmpOK
  <1>5. ServingOK' /\ CutsOK'
    BY <1>0, <1>1, <1>2 DEF ServingOK, Serves, Busy, CutsOK, Recovering
  <1> QED BY <1>3, <1>4, <1>5 DEF Shape

\* The engine goes on with the file that now has the log's name.
LEMMA ReopenDoes ==
    ASSUME TypeOK, Reopen
    PROVE  /\ live.at = "synced" /\ h' \in [Roles -> Handles] /\ stale' = stale
           /\ live'.at = "ready" /\ live'.ino = path /\ live'.valid = live.valid
           /\ live'.known = live.known /\ live'.batch = live.batch
           /\ live'.crossed = live.crossed /\ live'.stopped = live.stopped
           /\ path' = path /\ tmp' = tmp /\ inodes' = inodes /\ named' = named
           /\ next' = next /\ scars' = scars /\ acked' = acked
  <1>1. h \in [Roles -> Handles] /\ h["live"] \in Handles /\ "live" \in Roles /\ path \in Nat
    BY HandleFields DEF TypeOK
  <1>2. /\ h'["live"] = [h["live"] EXCEPT !.at = "ready", !.ino = path]
        /\ h'["old"] = h["old"]
        /\ h' = [h EXCEPT !["live"] = h'["live"]]
    BY <1>1 DEF Reopen, Roles
  <1>3. h'["live"] \in Handles
    BY <1>1, <1>2 DEF Handles, Stages, Busy
  <1>4. h' \in [Roles -> Handles]
    BY <1>1, <1>2, <1>3
  <1> QED BY <1>1, <1>2, <1>4 DEF Reopen, files, live, stale, Handles

\* The engine goes on with a clean file.
LEMMA ReopenShape == ASSUME Shape, Reopen PROVE Shape'
  <1> USE DEF live, stale, Data, Safe
  <1>0. TypeOK /\ FilesOK /\ SettledOK /\ StagesOK /\ PathOK /\ TmpOK /\ ServingOK /\ CutsOK
    BY DEF Shape
  <1>1. /\ live.at = "synced" /\ h' \in [Roles -> Handles] /\ stale' = stale
        /\ live'.at = "ready" /\ live'.ino = path /\ live'.stopped = live.stopped
        /\ path' = path /\ tmp' = tmp /\ inodes' = inodes /\ named' = named
        /\ next' = next /\ scars' = scars
    BY <1>0, ReopenDoes
  <1>2. path # 0 /\ Clean(Data(path)) /\ path \in DOMAIN inodes
    BY <1>0, <1>1, HandleFields DEF PathOK
  <1>3. TypeOK' /\ FilesOK' /\ SettledOK'
    BY <1>0, <1>1 DEF TypeOK, FilesOK, FileOK, SettledOK, Busy
  <1>4. StagesOK' /\ PathOK' /\ TmpOK'
    BY <1>0, <1>1 DEF StagesOK, PathOK, TmpOK
  <1>5. ServingOK' /\ CutsOK'
    BY <1>0, <1>1, <1>2 DEF ServingOK, Serves, Busy, CutsOK
  <1> QED BY <1>3, <1>4, <1>5 DEF Shape

\* A swap that fails leaves the engine with the file it has open.
LEMMA CompactFailsShape == ASSUME Shape, CompactFails PROVE Shape'
  <1> USE DEF live, stale, Data, Safe
  <1>0. TypeOK /\ FilesOK /\ SettledOK /\ StagesOK /\ PathOK /\ TmpOK /\ ServingOK /\ CutsOK
    BY DEF Shape
  <1>1. /\ live.at \in {"staged", "renamed", "synced"}
        /\ h' = [h EXCEPT !["live"].at = "ready"] /\ "ready" \in Stages
        /\ named' = named /\ inodes' = inodes /\ path' = path /\ tmp' = tmp
        /\ next' = next /\ scars' = scars
    BY DEF CompactFails, Set, files, Stages, Busy
  <1>2. /\ h' \in [Roles -> Handles] /\ stale' = stale
        /\ live'.at = "ready" /\ live'.ino = live.ino /\ live'.stopped = live.stopped
    BY ONLY <1>0, <1>1, LiveAt DEF live, stale
  <1>3. TypeOK' /\ FilesOK' /\ SettledOK'
    BY <1>0, <1>1, <1>2 DEF TypeOK, FilesOK, FileOK, SettledOK, Busy
  <1>4. StagesOK' /\ PathOK' /\ TmpOK'
    BY <1>0, <1>1, <1>2 DEF StagesOK, PathOK, TmpOK
  <1>5. ServingOK' /\ CutsOK'
    BY <1>0, <1>1, <1>2 DEF ServingOK, Serves, Busy, CutsOK
  <1> QED BY <1>3, <1>4, <1>5 DEF Shape

\* A part of a part is a part.
LEMMA PrefixTrans ==
    ASSUME NEW r \in Seq(Cells), NEW s \in Seq(Cells), NEW t \in Seq(Cells),
           PrefixOf(r, s), PrefixOf(s, t)
    PROVE  PrefixOf(r, t)
  <1>1. Len(r) \in Nat /\ Len(s) \in Nat /\ Len(t) \in Nat /\ Len(r) <= Len(s) /\ Len(s) <= Len(t)
    BY DEF PrefixOf
  <1>2. 1 .. Len(r) \subseteq 1 .. Len(s)
    BY <1>1
  <1> QED BY <1>1, <1>2 DEF PrefixOf

\* The records of a group are numbered on from the last.
LEMMA BatchIs ==
    ASSUME TypeOK, NEW n \in Nat
    PROVE  Batch(n) \in Seq(Int) /\ Len(Batch(n)) = n
  <1>1. \A k \in 1 .. n : next + k - 1 \in Int
    BY DEF TypeOK
  <1>2. Batch(n) \in [1 .. n -> Int]
    BY <1>1 DEF Batch
  <1> QED BY <1>2, SeqDef

\* A group, or what a failing write gets down of it, is appended to the file
\* the engine has open.
LEMMA WriteDoes ==
    ASSUME Shape, NEW r \in Seq(Int), NEW j \in 0 .. 2 * Len(r), Serving,
           inodes' = [inodes EXCEPT ![live.ino].data = @ \o SubSeq(Encoded(r), 1, j)]
    PROVE  /\ live.ino \in DOMAIN inodes /\ Clean(Data(live.ino))
           /\ inodes' \in Seq(Files) /\ Len(inodes') = Len(inodes)
           /\ DOMAIN inodes' = DOMAIN inodes
           /\ inodes'[live.ino].safe = Safe(live.ino)
           /\ \A k \in DOMAIN inodes : k # live.ino => inodes'[k] = inodes[k]
           /\ inodes'[live.ino].data \in Seq(Cells)
           /\ Current(inodes'[live.ino].data) /\ Tidy(inodes'[live.ino].data)
           /\ PrefixOf(Data(live.ino), inodes'[live.ino].data)
           /\ PrefixOf(Events(Data(live.ino)), Events(inodes'[live.ino].data))
           /\ PrefixOf(Events(inodes'[live.ino].data), Events(Data(live.ino)) \o r)
           /\ j = 2 * Len(r) => /\ Clean(inodes'[live.ino].data)
                                /\ Events(inodes'[live.ino].data) = Events(Data(live.ino)) \o r
  <1>1. TypeOK /\ live.ino \in DOMAIN inodes /\ Clean(Data(live.ino))
    BY DEF Shape, ServingOK, Serves, Serving, Busy, live
  <1>2. Data(live.ino) \in Seq(Cells) /\ inodes \in Seq(Files)
    BY <1>1, HandleFields DEF TypeOK
  <1> PICK i : i = live.ino
    OBVIOUS
  <1> PICK d : d = Data(i)
    OBVIOUS
  <1> PICK new : new = d \o SubSeq(Encoded(r), 1, j)
    OBVIOUS
  <1>3. d \in Seq(Cells) /\ Clean(d) /\ i \in DOMAIN inodes
    BY <1>1, <1>2
  <1>4. /\ new \in Seq(Cells) /\ Current(new) /\ Tidy(new) /\ PrefixOf(d, new)
        /\ PrefixOf(Events(d), Events(new))
        /\ PrefixOf(Events(new), Events(d) \o r)
        /\ j = 2 * Len(r) => Clean(new) /\ Events(new) = Events(d) \o r
    BY ONLY <1>3, AppendReads, r \in Seq(Int), j \in 0 .. 2 * Len(r),
            new = d \o SubSeq(Encoded(r), 1, j)
  <1>5. inodes' = [inodes EXCEPT ![i].data = new]
    BY <1>3 DEF Data
  <1>6. /\ inodes' \in Seq(Files) /\ Len(inodes') = Len(inodes)
        /\ DOMAIN inodes' = DOMAIN inodes
        /\ inodes'[i].data = new /\ inodes'[i].safe = inodes[i].safe
        /\ \A k \in DOMAIN inodes : k # i => inodes'[k] = inodes[k]
    BY ONLY <1>2, <1>3, <1>4, <1>5, FileData
  <1> HIDE DEF Data
  <1>7. i = live.ino /\ d = Data(live.ino) /\ inodes'[live.ino].data = new
    BY ONLY <1>6, i = live.ino, d = Data(i)
  <1>8. inodes'[live.ino].safe = Safe(live.ino)
    BY ONLY <1>6, i = live.ino DEF Safe
  <1>9. /\ inodes' \in Seq(Files) /\ Len(inodes') = Len(inodes)
        /\ DOMAIN inodes' = DOMAIN inodes
        /\ \A k \in DOMAIN inodes : k # live.ino => inodes'[k] = inodes[k]
    BY ONLY <1>6, <1>7
  <1> QED BY ONLY <1>1, <1>4, <1>7, <1>8, <1>9

\* A write keeps the shape of the files, whatever the engine does next.
LEMMA WriteShape ==
    ASSUME Shape, NEW r \in Seq(Int), NEW j \in 0 .. 2 * Len(r), Serving,
           inodes' = [inodes EXCEPT ![live.ino].data = @ \o SubSeq(Encoded(r), 1, j)],
           path' = path, named' = named, tmp' = tmp, next' \in Nat, scars' = scars,
           h' \in [Roles -> Handles], stale' = stale, live'.ino = live.ino,
           \/ live'.at = "written" /\ ~live'.stopped /\ j = 2 * Len(r)
           \/ live'.at = "scan" /\ live'.stopped
    PROVE  Shape'
  <1> USE DEF live, stale, Data, Safe
  <1>0. TypeOK /\ FilesOK /\ SettledOK /\ StagesOK /\ PathOK /\ TmpOK /\ ServingOK /\ CutsOK
    BY DEF Shape
  <1>1. live.at = "ready" /\ ~live.stopped
    BY DEF Serving
  <1>2. /\ live.ino \in DOMAIN inodes /\ Clean(Data(live.ino))
        /\ inodes' \in Seq(Files) /\ Len(inodes') = Len(inodes)
        /\ DOMAIN inodes' = DOMAIN inodes
        /\ inodes'[live.ino].safe = Safe(live.ino)
        /\ \A k \in DOMAIN inodes : k # live.ino => inodes'[k] = inodes[k]
        /\ inodes'[live.ino].data \in Seq(Cells)
        /\ Current(inodes'[live.ino].data) /\ Tidy(inodes'[live.ino].data)
        /\ PrefixOf(Data(live.ino), inodes'[live.ino].data)
        /\ j = 2 * Len(r) => Clean(inodes'[live.ino].data)
    BY WriteDoes
  <1>3. TypeOK'
    BY <1>0, <1>2 DEF TypeOK
  <1>4. path # 0 /\ path \in DOMAIN inodes /\ Current(Data(path)) /\ Tidy(Data(path))
    BY <1>0, <1>1, HandleFields DEF SettledOK, Busy
  <1>5. FilesOK'
    <2>1. ASSUME NEW k \in DOMAIN inodes PROVE FileOK(k)'
      <3>0. PrefixOf(Safe(k), Data(k)) /\ (Data(k) = <<>> \/ Safe(k) # <<>>)
            /\ (scars = {} => Short(Data(k)))
        BY <1>0, <1>1, <2>1 DEF FilesOK, FileOK
      <3>1. CASE k # live.ino
        <4>1. inodes'[k] = inodes[k]
          BY <1>2, <3>1
        <4> QED BY <3>0, <4>1 DEF FileOK
      <3>2. CASE k = live.ino
        <4>1. Data(k) \in Seq(Cells) /\ Safe(k) \in Seq(Cells)
          BY <1>0, HandleFields
        <4>2. PrefixOf(Safe(k), inodes'[k].data)
          BY ONLY <1>2, <3>0, <3>2, <4>1, PrefixTrans
        <4>3. Data(k) # <<>>
          BY <1>2, <3>2 DEF Clean, Current
        <4>4. inodes'[k].safe = Safe(k) /\ Tidy(inodes'[k].data)
          BY <1>2, <3>2
        <4> QED BY <3>0, <4>2, <4>3, <4>4 DEF FileOK, Short
      <3> QED BY <3>1, <3>2
    <2> QED BY <1>2, <2>1 DEF FilesOK
  <1>6. Current(inodes'[path].data) /\ Tidy(inodes'[path].data)
    <2>1. CASE path = live.ino
      BY <1>2, <2>1
    <2>2. CASE path # live.ino
      BY <1>2, <1>4, <2>2
    <2> QED BY <2>1, <2>2
  <1>7. SettledOK'
    BY <1>4, <1>6 DEF SettledOK
  <1>8. StagesOK' /\ PathOK' /\ TmpOK'
    BY <1>0 DEF StagesOK, PathOK, TmpOK
  <1>9. ServingOK' /\ CutsOK'
    BY <1>0, <1>2 DEF ServingOK, Serves, Busy, CutsOK
  <1> QED BY <1>3, <1>5, <1>7, <1>8, <1>9 DEF Shape

\* What Writer::stop makes of the handles.
LEMMA StoppedDoes ==
    ASSUME TypeOK, h' = Stopped
    PROVE  /\ h' \in [Roles -> Handles] /\ stale' = stale
           /\ live'.at = "scan" /\ live'.ino = live.ino /\ live'.valid = live.valid
           /\ live'.known = live.known /\ live'.batch = <<>>
           /\ live'.crossed = live.crossed /\ live'.stopped = TRUE
  <1>1. h \in [Roles -> Handles] /\ h["live"] \in Handles /\ "live" \in Roles
    BY HandleFields DEF TypeOK
  <1>2. /\ h'["live"] = [h["live"] EXCEPT !.at = "scan", !.stopped = TRUE, !.batch = <<>>]
        /\ h'["old"] = h["old"]
        /\ h' = [h EXCEPT !["live"] = h'["live"]]
    BY <1>1 DEF Stopped, Roles
  <1>3. h'["live"] \in Handles
    <2>1. <<>> \in Seq(Int) /\ "scan" \in Stages
      BY DEF Stages
    <2> QED BY ONLY <1>1, <1>2, <2>1 DEF Handles
  <1>4. h' \in [Roles -> Handles]
    BY <1>1, <1>2, <1>3
  <1> QED BY <1>1, <1>2, <1>4 DEF live, stale, Handles

\* A group is written.
LEMMA WriteBatchDoes ==
    ASSUME TypeOK, NEW n \in Nat, WriteBatch(n)
    PROVE  /\ Serving /\ h' \in [Roles -> Handles] /\ stale' = stale
           /\ live'.at = "written" /\ live'.ino = live.ino /\ live'.valid = live.valid
           /\ live'.known = live.known /\ live'.batch = Batch(n)
           /\ live'.crossed = FALSE /\ live'.stopped = live.stopped
           /\ inodes' = [inodes EXCEPT ![live.ino].data =
                              @ \o SubSeq(Encoded(Batch(n)), 1, 2 * Len(Batch(n)))]
           /\ path' = path /\ named' = named /\ tmp' = tmp /\ scars' = scars
           /\ acked' = acked /\ sure' = sure /\ next' = next + n
  <1>1. h \in [Roles -> Handles] /\ h["live"] \in Handles /\ "live" \in Roles
    BY HandleFields DEF TypeOK
  <1>2. Batch(n) \in Seq(Int) /\ Len(Batch(n)) = n
    BY BatchIs
  <1>3. SubSeq(Encoded(Batch(n)), 1, 2 * Len(Batch(n))) = Encoded(Batch(n))
    BY ONLY <1>2, EncodedIs, SubSeqFull
  <1> PICK b : b = Batch(n)
    OBVIOUS
  <1>4. /\ h'["live"] = [h["live"] EXCEPT !.at = "written", !.batch = b, !.crossed = FALSE]
        /\ h'["old"] = h["old"]
        /\ h' = [h EXCEPT !["live"] = h'["live"]]
    BY <1>1 DEF WriteBatch, Roles
  <1>5. h'["live"] \in Handles
    <2>1. b \in Seq(Int) /\ "written" \in Stages
      BY <1>2 DEF Stages, Busy
    <2> QED BY ONLY <1>1, <1>4, <2>1 DEF Handles
  <1>6. h' \in [Roles -> Handles]
    BY <1>1, <1>4, <1>5
  <1>7. /\ live'.at = "written" /\ live'.ino = live.ino /\ live'.valid = live.valid
        /\ live'.known = live.known /\ live'.batch = b
        /\ live'.crossed = FALSE /\ live'.stopped = live.stopped /\ stale' = stale
    BY ONLY <1>1, <1>4 DEF Handles, live, stale
  <1>8. /\ Serving /\ path' = path /\ named' = named /\ tmp' = tmp /\ scars' = scars
        /\ acked' = acked /\ sure' = sure /\ next' = next + n
        /\ inodes' = [inodes EXCEPT ![live.ino].data = @ \o Encoded(Batch(n))]
    BY DEF WriteBatch, Write, live
  <1> QED BY ONLY <1>3, <1>6, <1>7, <1>8, b = Batch(n)

\* A written group leaves a clean file.
LEMMA WriteBatchShape == ASSUME Shape, NEW n \in Nat, WriteBatch(n) PROVE Shape'
  <1>1. TypeOK
    BY DEF Shape
  <1>2. /\ Serving /\ h' \in [Roles -> Handles] /\ stale' = stale
        /\ live'.at = "written" /\ live'.ino = live.ino /\ live'.stopped = live.stopped
        /\ inodes' = [inodes EXCEPT ![live.ino].data =
                           @ \o SubSeq(Encoded(Batch(n)), 1, 2 * Len(Batch(n)))]
        /\ path' = path /\ named' = named /\ tmp' = tmp /\ scars' = scars
        /\ next' = next + n
    BY <1>1, WriteBatchDoes
  <1> PICK r : r = Batch(n)
    OBVIOUS
  <1>3. r \in Seq(Int) /\ 2 * Len(r) \in 0 .. 2 * Len(r)
    BY <1>1, BatchIs
  <1>4. next' \in Nat
    BY <1>1, <1>2 DEF TypeOK
  <1>5. ~live'.stopped
    BY <1>2 DEF Serving, live
  <1>6. inodes' = [inodes EXCEPT ![live.ino].data = @ \o SubSeq(Encoded(r), 1, 2 * Len(r))]
    BY <1>2
  <1> QED BY ONLY Shape, <1>2, <1>3, <1>4, <1>5, <1>6, WriteShape

\* A write gets some of the cells down.
LEMMA WriteFailsDoes ==
    ASSUME TypeOK, NEW n \in Nat, NEW k \in Nat, WriteFails(n, k)
    PROVE  /\ Serving /\ h' = Stopped /\ k \in 0 .. 2 * Len(Batch(n))
           /\ inodes' = [inodes EXCEPT ![live.ino].data =
                              @ \o SubSeq(Encoded(Batch(n)), 1, k)]
           /\ path' = path /\ named' = named /\ tmp' = tmp /\ scars' = scars
           /\ acked' = acked /\ sure' = sure /\ next' = next + n
  <1>1. Batch(n) \in Seq(Int)
    BY BatchIs
  <1>2. k < Len(Encoded(Batch(n))) /\ Len(Encoded(Batch(n))) = 2 * Len(Batch(n))
    BY <1>1, EncodedIs DEF WriteFails
  <1>3. k \in 0 .. 2 * Len(Batch(n))
    BY <1>1, <1>2
  <1> QED BY <1>3 DEF WriteFails, Write, live

\* A failed write leaves a tidy file.
LEMMA WriteFailsShape ==
    ASSUME Shape, NEW n \in Nat, NEW k \in Nat, WriteFails(n, k) PROVE Shape'
  <1>1. TypeOK
    BY DEF Shape
  <1>2. /\ Serving /\ h' = Stopped /\ k \in 0 .. 2 * Len(Batch(n))
        /\ inodes' = [inodes EXCEPT ![live.ino].data =
                           @ \o SubSeq(Encoded(Batch(n)), 1, k)]
        /\ path' = path /\ named' = named /\ tmp' = tmp /\ scars' = scars
        /\ next' = next + n
    BY <1>1, WriteFailsDoes
  <1>3. /\ h' \in [Roles -> Handles] /\ stale' = stale
        /\ live'.at = "scan" /\ live'.ino = live.ino /\ live'.stopped
    BY <1>1, <1>2, StoppedDoes
  <1> PICK r : r = Batch(n)
    OBVIOUS
  <1>4. r \in Seq(Int) /\ k \in 0 .. 2 * Len(r) /\ next' \in Nat
    BY <1>1, <1>2, BatchIs DEF TypeOK
  <1>5. inodes' = [inodes EXCEPT ![live.ino].data = @ \o SubSeq(Encoded(r), 1, k)]
    BY <1>2
  <1> QED BY ONLY Shape, <1>2, <1>3, <1>4, <1>5, WriteShape

\* The group reaches the disk.
LEMMA SyncDoes ==
    ASSUME Shape, Sync
    PROVE  /\ live.at = "written" /\ ~live.stopped
           /\ live.ino \in DOMAIN inodes /\ Clean(Data(live.ino))
           /\ inodes' \in Seq(Files) /\ Len(inodes') = Len(inodes)
           /\ DOMAIN inodes' = DOMAIN inodes
           /\ inodes'[live.ino].safe = Data(live.ino)
           /\ inodes'[live.ino].data = Data(live.ino)
           /\ \A k \in DOMAIN inodes : k # live.ino => inodes'[k] = inodes[k]
           /\ h' \in [Roles -> Handles] /\ stale' = stale
           /\ live'.at = "ready" /\ live'.ino = live.ino /\ live'.valid = live.valid
           /\ live'.known = live.known \o live.batch /\ live'.batch = <<>>
           /\ live'.crossed = live.crossed /\ live'.stopped = live.stopped
           /\ path' = path /\ named' = named /\ tmp' = tmp /\ scars' = scars
           /\ next' = next
  <1>1. TypeOK /\ live.at = "written" /\ ~live.stopped
    BY DEF Shape, StagesOK, Sync, live
  <1>2. live.ino \in DOMAIN inodes /\ Clean(Data(live.ino))
    BY <1>1 DEF Shape, ServingOK, Serves, Busy
  <1>3. Data(live.ino) \in Seq(Cells) /\ inodes \in Seq(Files)
    BY <1>1, <1>2, HandleFields DEF TypeOK
  <1>4. inodes' = [inodes EXCEPT ![live.ino].safe = Data(live.ino)]
    BY DEF Sync, live, Data
  <1>5. /\ inodes' \in Seq(Files) /\ Len(inodes') = Len(inodes)
        /\ DOMAIN inodes' = DOMAIN inodes
        /\ inodes'[live.ino].safe = Data(live.ino)
        /\ inodes'[live.ino].data = inodes[live.ino].data
        /\ \A k \in DOMAIN inodes : k # live.ino => inodes'[k] = inodes[k]
    BY ONLY <1>2, <1>3, <1>4, FileSafe
  <1>6. h \in [Roles -> Handles] /\ h["live"] \in Handles /\ "live" \in Roles
    BY <1>1, HandleFields DEF TypeOK
  <1> PICK b : b = live.known \o live.batch
    OBVIOUS
  <1>7. /\ h'["live"] = [h["live"] EXCEPT !.at = "ready", !.batch = <<>>, !.known = b]
        /\ h'["old"] = h["old"]
        /\ h' = [h EXCEPT !["live"] = h'["live"]]
    BY <1>6 DEF Sync, Roles, live
  <1>8. h'["live"] \in Handles
    <2>1. live.known \in Seq(Int) /\ live.batch \in Seq(Int)
      BY <1>1, HandleFields DEF live
    <2>2. b \in Seq(Int) /\ <<>> \in Seq(Int) /\ "ready" \in Stages
      BY <2>1 DEF Stages, Busy
    <2> QED BY ONLY <1>6, <1>7, <2>2 DEF Handles
  <1>9. h' \in [Roles -> Handles]
    BY <1>6, <1>7, <1>8
  <1>10. /\ live'.at = "ready" /\ live'.ino = live.ino /\ live'.valid = live.valid
         /\ live'.known = b /\ live'.batch = <<>>
         /\ live'.crossed = live.crossed /\ live'.stopped = live.stopped /\ stale' = stale
    BY ONLY <1>6, <1>7 DEF Handles, live, stale
  <1>11. path' = path /\ named' = named /\ tmp' = tmp /\ scars' = scars /\ next' = next
    BY DEF Sync
  <1>12. inodes[live.ino].data = Data(live.ino)
    BY DEF Data
  <1> QED BY ONLY <1>1, <1>2, <1>5, <1>9, <1>10, <1>11, <1>12, b = live.known \o live.batch

\* A sync keeps the shape.
LEMMA SyncShape == ASSUME Shape, Sync PROVE Shape'
  <1> USE DEF live, stale, Data, Safe
  <1>0. TypeOK /\ FilesOK /\ SettledOK /\ StagesOK /\ PathOK /\ TmpOK /\ ServingOK /\ CutsOK
    BY DEF Shape
  <1>1. /\ live.at = "written" /\ ~live.stopped
        /\ live.ino \in DOMAIN inodes /\ Clean(Data(live.ino))
        /\ inodes' \in Seq(Files) /\ Len(inodes') = Len(inodes)
        /\ DOMAIN inodes' = DOMAIN inodes
        /\ inodes'[live.ino].safe = Data(live.ino)
        /\ inodes'[live.ino].data = Data(live.ino)
        /\ \A k \in DOMAIN inodes : k # live.ino => inodes'[k] = inodes[k]
        /\ h' \in [Roles -> Handles] /\ stale' = stale
        /\ live'.at = "ready" /\ live'.ino = live.ino /\ live'.stopped = live.stopped
        /\ path' = path /\ named' = named /\ tmp' = tmp /\ scars' = scars
        /\ next' = next
    BY SyncDoes
  <1>2. TypeOK'
    BY <1>0, <1>1 DEF TypeOK
  <1>3. path # 0 /\ path \in DOMAIN inodes /\ Current(Data(path)) /\ Tidy(Data(path))
    BY <1>0, <1>1, HandleFields DEF SettledOK, Busy
  <1>4. \A k \in DOMAIN inodes : inodes'[k].data = inodes[k].data
    BY <1>1
  <1>5. FilesOK'
    <2>1. ASSUME NEW k \in DOMAIN inodes PROVE FileOK(k)'
      <3>0. PrefixOf(Safe(k), Data(k)) /\ (Data(k) = <<>> \/ Safe(k) # <<>>)
            /\ (scars = {} => Short(Data(k)))
        BY <1>0, <1>1, <2>1 DEF FilesOK, FileOK
      <3>1. CASE k # live.ino
        <4>1. inodes'[k] = inodes[k]
          BY <1>1, <3>1
        <4> QED BY <1>1, <3>0, <4>1 DEF FileOK
      <3>2. CASE k = live.ino
        <4> PICK d : d = Data(k)
          OBVIOUS
        <4>1. d \in Seq(Cells)
          BY <1>0, HandleFields
        <4>2. PrefixOf(d, d)
          BY ONLY <4>1 DEF PrefixOf
        <4>3. inodes'[k].safe = d /\ inodes'[k].data = d
          BY <1>1, <3>2
        <4> QED BY <1>1, <3>0, <4>2, <4>3 DEF FileOK
      <3> QED BY <3>1, <3>2
    <2> QED BY <1>1, <2>1 DEF FilesOK
  <1>6. SettledOK' /\ StagesOK'
    BY <1>0, <1>1, <1>3, <1>4 DEF SettledOK, StagesOK
  <1>7. PathOK' /\ TmpOK'
    BY <1>0, <1>1 DEF PathOK, TmpOK
  <1>8. ServingOK' /\ CutsOK'
    BY <1>0, <1>1 DEF ServingOK, Serves, CutsOK
  <1> QED BY <1>2, <1>5, <1>6, <1>7, <1>8 DEF Shape

\* The bytes are in the file, and the engine stops.
LEMMA SyncFailsShape == ASSUME Shape, SyncFails PROVE Shape'
  <1> USE DEF live, stale, Data, Safe
  <1>0. TypeOK /\ FilesOK /\ SettledOK /\ StagesOK /\ PathOK /\ TmpOK /\ ServingOK /\ CutsOK
    BY DEF Shape
  <1>1. /\ live.at = "written" /\ h' = Stopped
        /\ named' = named /\ inodes' = inodes /\ path' = path /\ tmp' = tmp
        /\ next' = next /\ scars' = scars
    BY DEF SyncFails, files
  <1>2. /\ h' \in [Roles -> Handles] /\ stale' = stale
        /\ live'.at = "scan" /\ live'.ino = live.ino /\ live'.stopped
    BY <1>0, <1>1, StoppedDoes
  <1>3. TypeOK' /\ FilesOK' /\ SettledOK'
    BY <1>0, <1>1, <1>2 DEF TypeOK, FilesOK, FileOK, SettledOK, Busy
  <1>4. StagesOK' /\ PathOK' /\ TmpOK'
    BY <1>0, <1>1, <1>2 DEF StagesOK, PathOK, TmpOK
  <1>5. ServingOK' /\ CutsOK'
    BY <1>0, <1>1, <1>2 DEF ServingOK, Serves, CutsOK
  <1> QED BY <1>3, <1>4, <1>5 DEF Shape

\* A handle before its first step.
LEMMA FreshHandles ==
    Handle("scan", FALSE) \in Handles /\ Down \in Handles
  <1>1. <<>> \in Seq(Int) /\ "scan" \in Stages /\ "down" \in Stages
    BY DEF Stages
  <1> QED BY <1>1 DEF Handle, Down, Handles

\* A rebuilt engine opens the log, and the stopped one may not be done with it.
LEMMA RebuildDoes ==
    ASSUME TypeOK, Rebuild
    PROVE  /\ live.stopped /\ h' \in [Roles -> Handles]
           /\ live' = Handle("scan", FALSE)
           /\ stale' = IF Recovering("live") THEN live ELSE stale
           /\ inodes' = inodes /\ path' = path /\ named' = named /\ tmp' = tmp
           /\ next' = next /\ scars' = scars /\ sure' = sure /\ acked' = acked
  <1>1. h["live"] \in Handles /\ h["old"] \in Handles
    BY HandleFields
  <1>2. h' = [e \in Roles |->
                IF e = "live" THEN Handle("scan", FALSE)
                ELSE IF Recovering("live") THEN h["live"] ELSE h["old"]]
    BY DEF Rebuild
  <1>3. h' \in [Roles -> Handles]
    BY <1>1, <1>2, FreshHandles
  <1>4. /\ h'["live"] = Handle("scan", FALSE)
        /\ h'["old"] = IF Recovering("live") THEN h["live"] ELSE h["old"]
    BY <1>2 DEF Roles
  <1> QED BY <1>3, <1>4 DEF Rebuild, files, live, stale

\* A rebuild keeps the shape.
LEMMA RebuildShape == ASSUME Shape, Rebuild PROVE Shape'
  <1> USE DEF live, stale, Data, Safe
  <1>0. TypeOK /\ FilesOK /\ SettledOK /\ StagesOK /\ PathOK /\ TmpOK /\ ServingOK /\ CutsOK
    BY DEF Shape
  <1>1. /\ live.stopped /\ h' \in [Roles -> Handles]
        /\ live' = Handle("scan", FALSE)
        /\ stale' = IF Recovering("live") THEN live ELSE stale
        /\ inodes' = inodes /\ path' = path /\ named' = named /\ tmp' = tmp
        /\ next' = next /\ scars' = scars
    BY <1>0, RebuildDoes
  <1>2. live'.at = "scan" /\ ~live'.stopped
    BY <1>1 DEF Handle
  <1>3. /\ stale'.at \in {"down", "scan", "open", "ready"}
        /\ stale'.at = "open" => Odd(stale'.valid)
    <2>1. CASE Recovering("live")
      <3>1. live.at = "open" => Odd(live.valid)
        BY <1>0, <1>1 DEF CutsOK
      <3> QED BY <1>1, <2>1, <3>1 DEF Recovering
    <2>2. CASE ~Recovering("live")
      BY <1>0, <1>1, <2>2 DEF StagesOK, CutsOK
    <2> QED BY <2>1, <2>2
  <1>4. TypeOK' /\ SettledOK'
    BY <1>0, <1>1 DEF TypeOK, SettledOK
  <1>5. FilesOK'
    BY <1>0, <1>1 DEF FilesOK, FileOK, StagesOK
  <1>6. StagesOK' /\ PathOK' /\ TmpOK'
    BY <1>1, <1>2, <1>3 DEF StagesOK, PathOK, TmpOK
  <1>7. ServingOK' /\ CutsOK'
    BY <1>0, <1>1, <1>2, <1>3 DEF ServingOK, Serves, Busy, CutsOK
  <1> QED BY <1>4, <1>5, <1>6, <1>7 DEF Shape

\* What a start finds on disk: all that is there is known to be there, and a
\* file without a scar only stops short.
Fresh == /\ inodes \in Seq(Files) /\ path = Len(inodes) /\ named = path /\ tmp = 0
         /\ next \in Nat /\ scars \subseteq {"hole", "blank"}
         /\ h = [e \in Roles |-> IF e = "live" THEN Handle("scan", FALSE) ELSE Down]
         /\ \A k \in DOMAIN inodes : /\ Safe(k) = Data(k)
                                     /\ scars = {} => Short(Data(k))

\* A start has the shape.
LEMMA FreshShape == Fresh => Shape
  <1> USE DEF live, stale
  <1> SUFFICES ASSUME Fresh PROVE Shape
    OBVIOUS
  <1>1. h \in [Roles -> Handles]
    BY FreshHandles DEF Fresh
  <1>2. live = Handle("scan", FALSE) /\ stale = Down
    BY DEF Roles, Fresh
  <1>3. live.at = "scan" /\ ~live.stopped /\ stale.at = "down"
    BY <1>2 DEF Handle, Down
  <1>4. TypeOK
    <2>1. inodes \in Seq(Files) /\ path = Len(inodes) /\ named = path
          /\ next \in Nat /\ scars \subseteq {"hole", "blank"}
      BY DEF Fresh
    <2>2. Len(inodes) \in 0 .. Len(inodes)
      BY <2>1
    <2> QED BY <1>1, <2>1, <2>2 DEF TypeOK
  <1>5. FilesOK
    <2>1. ASSUME NEW k \in DOMAIN inodes PROVE FileOK(k)
      <3> PICK d : d = Data(k)
        OBVIOUS
      <3>1. d \in Seq(Cells)
        BY <1>4, HandleFields
      <3>2. PrefixOf(d, d)
        BY ONLY <3>1 DEF PrefixOf
      <3>3. Data(k) = d /\ Safe(k) = d /\ (scars = {} => Short(d))
        BY DEF Fresh
      <3> QED BY <3>2, <3>3 DEF FileOK
    <2> QED BY <2>1 DEF FilesOK
  <1>6. SettledOK /\ StagesOK /\ PathOK /\ TmpOK
    BY <1>3 DEF SettledOK, StagesOK, PathOK, TmpOK, Recovering, Busy
  <1>7. ServingOK /\ CutsOK
    BY <1>3 DEF ServingOK, Serves, Busy, CutsOK
  <1> QED BY <1>4, <1>5, <1>6, <1>7 DEF Shape

\* What a crash can leave: nothing, or one file that begins with what was
\* known to be on disk.
LEMMA CrashDoes ==
    ASSUME Shape, Crash
    PROVE  \E i \in {path, named} : \E disk \in Seq(Files) :
             /\ i = 0 => disk = <<>>
             /\ i # 0 => /\ i \in DOMAIN inodes /\ Len(disk) = 1
                         /\ disk[1].data \in Outcomes(inodes[i])
                         /\ disk[1].data \in Seq(Cells)
             /\ \A k \in DOMAIN disk : disk[k].safe = disk[k].data
             /\ Restart(disk)
  <1>1. TypeOK /\ FilesOK
    BY DEF Shape
  <1>2. PICK i \in {path, named} :
          \/ i = 0 /\ Restart(<<>>)
          \/ i # 0 /\ \E data \in Outcomes(inodes[i]) :
                            Restart(<<[data |-> data, safe |-> data]>>)
    BY DEF Crash
  <1>3. CASE i = 0
    <2>1. <<>> \in Seq(Files) /\ Restart(<<>>) /\ DOMAIN <<>> = {}
      BY <1>2, <1>3
    <2> QED BY <1>3, <2>1
  <1>4. CASE i # 0
    <2>1. PICK data \in Outcomes(inodes[i]) : Restart(<<[data |-> data, safe |-> data]>>)
      BY <1>2, <1>4
    <2>2. i \in DOMAIN inodes /\ inodes[i] \in Files
      BY <1>1, <1>4, HandleFields
    <2>3. PrefixOf(inodes[i].safe, inodes[i].data)
      BY <1>1, <2>2 DEF FilesOK, FileOK, Safe, Data
    <2>4. data \in Seq(Cells)
      BY ONLY <2>2, <2>3, CrashReads, data \in Outcomes(inodes[i])
    <2> PICK f : f = [data |-> data, safe |-> data]
      OBVIOUS
    <2>5. f \in Files /\ f.data = data /\ f.safe = data
      BY ONLY <2>4, f = [data |-> data, safe |-> data] DEF Files
    <2> PICK disk : disk = <<f>>
      OBVIOUS
    <2>6. disk \in Seq(Files) /\ Len(disk) = 1 /\ disk[1] = f /\ DOMAIN disk = {1}
      BY ONLY <2>5, disk = <<f>>
    <2>7. Restart(disk)
      BY <2>1
    <2> QED BY ONLY <1>4, <2>2, <2>4, <2>5, <2>6, <2>7, data \in Outcomes(inodes[i]),
                    i \in {path, named}
  <1> QED BY <1>3, <1>4

\* A crash keeps the shape.
LEMMA CrashShape == ASSUME Shape, Crash PROVE Shape'
  <1>1. TypeOK /\ FilesOK
    BY DEF Shape
  <1>2. PICK i \in {path, named} : \E disk \in Seq(Files) :
             /\ i = 0 => disk = <<>>
             /\ i # 0 => /\ i \in DOMAIN inodes /\ Len(disk) = 1
                         /\ disk[1].data \in Outcomes(inodes[i])
                         /\ disk[1].data \in Seq(Cells)
             /\ \A k \in DOMAIN disk : disk[k].safe = disk[k].data
             /\ Restart(disk)
    BY CrashDoes
  <1>3. PICK disk \in Seq(Files) :
             /\ i = 0 => disk = <<>>
             /\ i # 0 => /\ i \in DOMAIN inodes /\ Len(disk) = 1
                         /\ disk[1].data \in Outcomes(inodes[i])
                         /\ disk[1].data \in Seq(Cells)
             /\ \A k \in DOMAIN disk : disk[k].safe = disk[k].data
             /\ Restart(disk)
    BY <1>2
  <1>4. /\ inodes' = disk /\ path' = Len(disk) /\ named' = Len(disk) /\ tmp' = 0
        /\ h' = [e \in Roles |-> IF e = "live" THEN Handle("scan", FALSE) ELSE Down]
        /\ next' \in Nat /\ scars' \subseteq {"hole", "blank"}
        /\ scars' = {} => scars = {} /\ \A k \in DOMAIN disk : ScarsOf(disk[k].data) = {}
    <2>1. /\ inodes' = disk /\ path' = Len(disk) /\ named' = Len(disk) /\ tmp' = 0
          /\ h' = [e \in Roles |-> IF e = "live" THEN Handle("scan", FALSE) ELSE Down]
          /\ scars' = scars \cup UNION {ScarsOf(disk[k].data) : k \in DOMAIN disk}
          /\ next' = next
      BY <1>3 DEF Restart
    <2>2. next \in Nat /\ scars \subseteq {"hole", "blank"}
      BY <1>1 DEF TypeOK
    <2>3. \A k \in DOMAIN disk : ScarsOf(disk[k].data) \subseteq {"hole", "blank"}
      BY DEF ScarsOf
    <2> QED BY ONLY <2>1, <2>2, <2>3
  <1>5. ASSUME NEW k \in DOMAIN disk, scars' = {} PROVE Short(disk[k].data)
    <2>1. i # 0 /\ k = 1
      BY <1>3
    <2> PICK data : data = disk[1].data
      OBVIOUS
    <2>2. i \in DOMAIN inodes /\ inodes[i] \in Files /\ data \in Outcomes(inodes[i])
      BY <1>1, <1>3, <2>1, HandleFields
    <2>3. PrefixOf(inodes[i].safe, inodes[i].data) /\ Short(inodes[i].data)
      BY <1>1, <1>4, <1>5, <2>2 DEF FilesOK, FileOK, Safe, Data
    <2>4. ~Hole(data) /\ ~Blank(data)
      BY <1>4, <1>5, <2>1 DEF ScarsOf
    <2>5. CASE data # <<>>
      <3>1. Short(data)
        BY ONLY <2>2, <2>3, <2>4, <2>5, CrashShort
      <3> QED BY <2>1, <3>1
    <2>6. CASE data = <<>>
      BY <2>1, <2>6, EmptyTidy DEF Short
    <2> QED BY <2>5, <2>6
  <1>6. Fresh'
    BY ONLY <1>3, <1>4, <1>5, disk \in Seq(Files) DEF Fresh, Data, Safe
  <1> QED BY <1>6, FreshShape, PTL

\* A file to start from is read to its end, whatever version wrote it.
LEMMA StartReads ==
    ASSUME NEW s \in Starts, s.version # NoFile
    PROVE  /\ StartFile(s) \in Seq(Cells) /\ Tidy(StartFile(s))
           /\ Len(Events(StartFile(s))) = s.records
           /\ \A k \in 1 .. s.records : Events(StartFile(s))[k] = k - s.records
           /\ read_header(StartFile(s)).version = s.version
  <1>0. s.records \in Nat /\ s.version \in Int
    BY WalFileAssumption DEF NoFile
  <1> PICK r : r = [k \in 1 .. s.records |-> k - s.records]
    OBVIOUS
  <1> PICK hd : hd = IF s.version = LEGACY_FORMAT_VERSION THEN <<>>
                     ELSE <<Cell("head", s.version)>>
    OBVIOUS
  <1> PICK n : n = s.records
    OBVIOUS
  <1> PICK a : a = IF s.version = 0 THEN 0 ELSE 1
    OBVIOUS
  <1> PICK en : en = Encoded(r)
    OBVIOUS
  <1> PICK data : data = hd \o en
    OBVIOUS
  <1>1. r \in Seq(Int) /\ Len(r) = n /\ n \in Nat /\ \A k \in 1 .. n : r[k] = k - n
    <2>1. n \in Nat /\ r = [k \in 1 .. n |-> k - n]
      BY <1>0
    <2>2. r \in [1 .. n -> Int]
      BY ONLY <2>1
    <2>3. r \in Seq(Int) /\ Len(r) = n
      BY ONLY <2>1, <2>2, SeqDef
    <2> QED BY ONLY <2>1, <2>3
  <1>2. /\ en \in Seq(Cells) /\ Len(en) = 2 * n
        /\ \A j \in 1 .. n : en[2 * j - 1] = Cell("len", r[j]) /\ en[2 * j] = Cell("body", r[j])
    BY ONLY <1>1, EncodedIs, en = Encoded(r)
  <1>3. hd \in Seq(Cells) /\ Len(hd) = a /\ a \in {0, 1}
        /\ (a = 1 => hd[1] = Cell("head", s.version))
    <2>1. Cell("head", s.version) \in Cells
      BY <1>0 DEF Cell, Cells
    <2> QED BY <2>1 DEF LEGACY_FORMAT_VERSION
  <1>4. /\ data \in Seq(Cells) /\ Len(data) = a + 2 * n
        /\ \A i \in 1 .. a : data[i] = hd[i]
        /\ \A i \in 1 .. 2 * n : data[a + i] = en[i]
    <2>1. /\ data \in Seq(Cells) /\ Len(data) = Len(hd) + Len(en)
          /\ \A i \in 1 .. Len(hd) : data[i] = hd[i]
          /\ \A i \in 1 .. Len(en) : data[Len(hd) + i] = en[i]
      <3>1. hd \in Seq(Cells) /\ en \in Seq(Cells)
        BY ONLY <1>2, <1>3
      <3>2. \A i \in 1 .. Len(hd) : data[i] = hd[i]
        BY ONLY <3>1, data = hd \o en
      <3>3. \A i \in 1 .. Len(en) : data[Len(hd) + i] = en[i]
        BY ONLY <3>1, data = hd \o en
      <3>4. data \in Seq(Cells) /\ Len(data) = Len(hd) + Len(en)
        BY ONLY <3>1, data = hd \o en
      <3> QED BY ONLY <3>2, <3>3, <3>4
    <2> QED BY ONLY <1>2, <1>3, <2>1
  <1>5. ASSUME NEW j \in 1 .. n
        PROVE  /\ data[a + 2 * j - 1] = Cell("len", r[j]) /\ data[a + 2 * j] = Cell("body", r[j])
    <2>1. 2 * j - 1 \in 1 .. 2 * n /\ 2 * j \in 1 .. 2 * n /\ a + (2 * j - 1) = a + 2 * j - 1
      BY ONLY <1>1, <1>3, j \in 1 .. n
    <2> QED BY ONLY <1>2, <1>4, <2>1, j \in 1 .. n
  <1>6. At(data) = a /\ read_header(data).version = s.version
    <2>1. CASE a = 1
      <3>1. data # <<>> /\ data[1] = Cell("head", s.version)
        <4>1. 1 \in 1 .. a /\ Len(data) # 0
          BY ONLY <1>1, <1>4, <2>1
        <4> QED BY <1>3, <1>4, <2>1, <4>1
      <3> QED BY ONLY <2>1, <3>1 DEF At, read_header, HasHeader, Cell
    <2>2. CASE a = 0
      <3>1. s.version = 0
        BY <2>2
      <3>2. ~HasHeader(data)
        <4>1. CASE n = 0
          BY ONLY <1>4, <2>2, <4>1 DEF HasHeader
        <4>2. CASE n # 0
          <5>1. 1 \in 1 .. n /\ a + 2 * 1 - 1 = 1
            BY ONLY <1>1, <2>2, <4>2
          <5>2. data[1] = Cell("len", r[1])
            <6>1. data[a + 2 * 1 - 1] = Cell("len", r[1])
              BY <1>5, <5>1, Zenon
            <6> QED BY ONLY <5>1, <6>1, Zenon
          <5> QED BY ONLY <5>2 DEF HasHeader, Cell
        <4> QED BY <4>1, <4>2
      <3> QED BY ONLY <2>2, <3>1, <3>2 DEF At, read_header, LEGACY_FORMAT_VERSION
    <2> QED BY <1>3, <2>1, <2>2
  <1>7. ASSUME NEW k \in 1 .. n PROVE Rec(data, k)
    <2>1. data[a + 2 * k - 1] = Cell("len", r[k]) /\ data[a + 2 * k] = Cell("body", r[k])
      BY <1>5
    <2>2. (a + 2 * k - 1) + 1 = a + 2 * k /\ a + 2 * k <= Len(data)
      BY ONLY <1>1, <1>3, <1>4, k \in 1 .. n
    <2> QED BY ONLY <1>6, <2>1, <2>2 DEF Rec, IsRecord, Cell
  <1>8. ~Rec(data, n + 1)
    <2>1. ~(a + 2 * (n + 1) - 1 + 1 <= Len(data))
      BY ONLY <1>1, <1>3, <1>4
    <2> QED BY ONLY <1>6, <2>1 DEF Rec, IsRecord
  <1>9. Whole(data) = n /\ ValidLen(data) = At(data) + 2 * n
    BY ONLY <1>1, <1>4, <1>7, <1>8, WholeUnique
  <1>10. Tidy(data)
    BY ONLY <1>4, <1>6, <1>9 DEF Tidy
  <1>11. Len(Events(data)) = n /\ \A k \in 1 .. n : Events(data)[k] = data[a + 2 * k].n
    BY ONLY <1>4, <1>6, <1>9, EventsAre
  <1>12. ASSUME NEW k \in 1 .. n PROVE Events(data)[k] = k - n
    <2>1. Events(data)[k] = data[a + 2 * k].n /\ data[a + 2 * k] = Cell("body", r[k])
      BY <1>5, <1>11
    <2> QED BY ONLY <1>1, <2>1, k \in 1 .. n DEF Cell
  <1>13. StartFile(s) = data
    BY DEF StartFile
  <1> QED BY ONLY <1>4, <1>6, <1>10, <1>11, <1>12, <1>13, n = s.records

\* It has nothing but a header and records from before.
LEMMA StartCells ==
    ASSUME NEW s \in Starts
    PROVE  \A i \in DOMAIN StartFile(s) : StartFile(s)[i].n <= 0 \/ StartFile(s)[i].kind = "head"
  <1> PICK n : n = s.records
    OBVIOUS
  <1> PICK r : r = [k \in 1 .. n |-> k - n]
    OBVIOUS
  <1> PICK hd : hd = IF s.version = LEGACY_FORMAT_VERSION THEN <<>>
                     ELSE <<Cell("head", s.version)>>
    OBVIOUS
  <1> PICK en : en = Encoded(r)
    OBVIOUS
  <1>1. n \in Nat /\ s.version \in Int
    BY WalFileAssumption DEF NoFile
  <1>2. r \in Seq(Int) /\ Len(r) = n /\ \A k \in 1 .. n : r[k] \in Int /\ r[k] <= 0
    <2>1. r \in [1 .. n -> Int] /\ \A k \in 1 .. n : r[k] \in Int /\ r[k] <= 0
      BY ONLY <1>1, r = [k \in 1 .. n |-> k - n]
    <2> QED BY ONLY <1>1, <2>1, SeqDef
  <1>3. /\ en \in Seq(Cells) /\ Len(en) = 2 * n
        /\ \A j \in 1 .. n : en[2 * j - 1] = Cell("len", r[j]) /\ en[2 * j] = Cell("body", r[j])
        /\ \A i \in 1 .. 2 * n : \E j \in 1 .. n : i = 2 * j - 1 \/ i = 2 * j
    BY ONLY <1>2, EncodedIs, en = Encoded(r)
  <1>4. \A i \in 1 .. Len(en) : en[i].n <= 0
    <2>1. \A j \in 1 .. n : en[2 * j - 1].n <= 0 /\ en[2 * j].n <= 0
      <3> TAKE j \in 1 .. n
      <3>1. /\ en[2 * j - 1] = Cell("len", r[j]) /\ en[2 * j] = Cell("body", r[j])
            /\ r[j] <= 0
        BY ONLY <1>2, <1>3, j \in 1 .. n
      <3> QED BY ONLY <3>1 DEF Cell
    <2> QED BY ONLY <1>3, <2>1
  <1>5. hd \in Seq(Cells) /\ \A i \in 1 .. Len(hd) : hd[i].kind = "head"
    <2>1. Cell("head", s.version) \in Cells /\ Cell("head", s.version).kind = "head"
      BY <1>1 DEF Cell, Cells
    <2> QED BY <2>1
  <1> PICK data : data = hd \o en
    OBVIOUS
  <1>6. /\ Len(hd) \in Nat /\ Len(en) \in Nat /\ DOMAIN data = 1 .. (Len(hd) + Len(en))
        /\ \A i \in 1 .. Len(hd) : data[i] = hd[i]
        /\ \A i \in 1 .. Len(en) : data[Len(hd) + i] = en[i]
    <2>1. hd \in Seq(Cells) /\ en \in Seq(Cells)
      BY <1>3, <1>5
    <2>2. \A i \in 1 .. Len(hd) : data[i] = hd[i]
      BY ONLY <2>1, data = hd \o en
    <2>3. \A i \in 1 .. Len(en) : data[Len(hd) + i] = en[i]
      BY ONLY <2>1, data = hd \o en
    <2>4. Len(hd) \in Nat /\ Len(en) \in Nat /\ DOMAIN data = 1 .. (Len(hd) + Len(en))
      BY ONLY <2>1, data = hd \o en
    <2> QED BY ONLY <2>2, <2>3, <2>4
  <1>7. ASSUME NEW i \in DOMAIN data PROVE data[i].n <= 0 \/ data[i].kind = "head"
    <2>1. CASE i <= Len(hd)
      <3>1. i \in 1 .. Len(hd)
        BY ONLY <1>6, <2>1, i \in DOMAIN data
      <3> QED BY ONLY <1>5, <1>6, <3>1
    <2>2. CASE ~(i <= Len(hd))
      <3> PICK j : j = i - Len(hd)
        OBVIOUS
      <3>1. j \in 1 .. Len(en) /\ i = Len(hd) + j
        BY ONLY <1>6, <2>2, i \in DOMAIN data, j = i - Len(hd)
      <3> QED BY ONLY <1>4, <1>6, <3>1
    <2> QED BY <2>1, <2>2
  <1>8. StartFile(s) = data
    BY DEF StartFile
  <1> QED BY ONLY <1>7, <1>8

\* The initial states have the shape.
LEMMA ShapeInit == Init => Shape
  <1> SUFFICES ASSUME Init PROVE Shape
    OBVIOUS
  <1>1. PICK s \in Starts :
          /\ inodes = IF s.version = NoFile THEN <<>>
                      ELSE <<[data |-> StartFile(s), safe |-> StartFile(s)]>>
          /\ path = Len(inodes) /\ named = path /\ tmp = 0
          /\ h = [e \in Roles |-> IF e = "live" THEN Handle("scan", FALSE) ELSE Down]
          /\ next = 1 /\ scars = {}
    BY DEF Init
  <1>2. inodes \in Seq(Files) /\ \A k \in DOMAIN inodes : Safe(k) = Data(k) /\ Tidy(Data(k))
    <2>1. CASE s.version = NoFile
      <3>1. inodes = <<>>
        BY <1>1, <2>1
      <3> QED BY ONLY <3>1
    <2>2. CASE s.version # NoFile
      <3> PICK d : d = StartFile(s)
        OBVIOUS
      <3>1. d \in Seq(Cells) /\ Tidy(d)
        BY <2>2, StartReads
      <3> PICK f : f = [data |-> d, safe |-> d]
        OBVIOUS
      <3>2. f \in Files /\ f.data = d /\ f.safe = d
        BY ONLY <3>1, f = [data |-> d, safe |-> d] DEF Files
      <3>3. inodes = <<f>>
        BY <1>1, <2>2
      <3>4. inodes \in Seq(Files) /\ DOMAIN inodes = {1} /\ inodes[1] = f
        BY ONLY <3>2, <3>3
      <3> QED BY ONLY <3>1, <3>2, <3>4 DEF Safe, Data
    <2> QED BY <2>1, <2>2
  <1>3. Fresh
    BY ONLY <1>1, <1>2 DEF Fresh, Short
  <1> QED BY <1>3, FreshShape

\* Every step keeps the shape.
LEMMA ShapeStep == Shape /\ [Next]_vars => Shape'
  <1> SUFFICES ASSUME Shape, [Next]_vars PROVE Shape'
    OBVIOUS
  <1>1. ASSUME NEW e \in Roles, OpenStep(e) PROVE Shape'
    <2>1. CASE OpenFile(e)
      <3>1. e = "live" \/ e = "old"
        BY DEF Roles
      <3> QED BY <2>1, <3>1, OldOpenShape, LiveOpenShape
    <2> QED BY <1>1, <2>1, OpenScanShape, WriteHeaderShape, SyncHeaderShape, StageUpgradeShape,
               RenameUpgradeShape, SyncUpgradeShape DEF OpenStep
  <1>2. ASSUME NEW n \in 1 .. MaxBatch, WriteBatch(n) PROVE Shape'
    BY <1>2, WriteBatchShape
  <1>3. ASSUME NEW n \in 1 .. MaxBatch, NEW k \in 0 .. 2 * MaxBatch, WriteFails(n, k)
        PROVE  Shape'
    BY <1>3, WriteFailsShape
  <1>4. CASE UNCHANGED vars
    <2>1. /\ inodes' = inodes /\ path' = path /\ named' = named /\ tmp' = tmp /\ h' = h
          /\ next' = next /\ scars' = scars
      BY <1>4 DEF vars
    <2>2. TypeOK' /\ FilesOK' /\ SettledOK' /\ StagesOK'
      BY <2>1 DEF Shape, TypeOK, FilesOK, FileOK, SettledOK, StagesOK, Recovering,
                  live, stale, Data, Safe
    <2>3. PathOK' /\ TmpOK' /\ ServingOK' /\ CutsOK'
      BY <2>1 DEF Shape, PathOK, TmpOK, ServingOK, Serves, CutsOK, Recovering,
                  live, stale, Data, Safe
    <2> QED BY <2>2, <2>3 DEF Shape
  <1> QED BY <1>1, <1>2, <1>3, <1>4, SyncShape, SyncFailsShape, StageCompactShape,
             RenameCompactShape, SyncNameShape, ReopenShape, CompactFailsShape,
             RebuildShape, CrashShape DEF Next

\* Every file keeps the shape that the operations of wal.rs give it: the
\* header first and synced before any record, whole records after it, and at
\* most one that stops short, unless a crash lost a cell and kept a later one.
THEOREM FilesKeepShape == Spec => []Shape
  BY ShapeInit, ShapeStep, PTL DEF Spec

\* An engine that serves has a file that replay reads to its end, so that what
\* it appends will be read (Wal::open's cut): for every number of records,
\* faults, crashes and compactions.
THEOREM ReplayReachesAppends == Spec => []AppendsAreRead
  <1>1. Shape => AppendsAreRead
    BY DEF Shape, ServingOK, Serves, Serving, Busy, AppendsAreRead, Clean, Data, live
  <1> QED BY <1>1, FilesKeepShape, PTL

\* open refuses a file only when a newer binary wrote it, when a crash lost a
\* cell of it in front of one that it kept, or when a crash kept the length of
\* a record or more at its end and none of the bytes: never for a record that
\* a crash or a failed write cut short, or whose bytes were lost behind its
\* length.
THEOREM RefusalNeedsScar == Spec => []ShortTailsOpen
  <1>1. ASSUME Shape, NEW e \in Roles, h[e].at = "refused", scars = {} PROVE NewerFile
    <2>1. e = "live"
      BY <1>1 DEF Shape, StagesOK, stale, Roles
    <2>2. TypeOK /\ path # 0 /\ scan(Data(path)).refused
      BY <1>1, <2>1 DEF Shape, PathOK, live
    <2>3. path \in DOMAIN inodes /\ Data(path) \in Seq(Cells)
      BY <2>2, HandleFields
    <2>4. Short(Data(path))
      BY <1>1, <2>3 DEF Shape, FilesOK, FileOK
    <2> PICK d : d = Data(path)
      OBVIOUS
    <2>5. d \in Seq(Cells) /\ Short(d) /\ scan(d).refused
      BY <2>2, <2>3, <2>4
    <2>6. read_header(d).version > FORMAT_VERSION
      <3>1. ValidLen(d) \in Nat
        BY ONLY <2>5, ScanIs
      <3>2. ValidLen(d) < Len(d) => AtTail(d, ValidLen(d) + 1)
        BY ONLY <2>5, <3>1, ShortOpens
      <3> QED BY ONLY <2>5, <3>2, ScanIs
    <2> QED BY <2>2, <2>6 DEF NewerFile, Data
  <1>2. ASSUME Shape PROVE ShortTailsOpen
    <2>1. scars \subseteq {"hole", "blank"}
      BY <1>2 DEF Shape, TypeOK
    <2>2. scars = {} \/ "hole" \in scars \/ "blank" \in scars
      BY <2>1
    <2> QED BY <1>1, <1>2, <2>2 DEF ShortTailsOpen
  <1> QED BY <1>2, FilesKeepShape, PTL

-------------------------------------------------------------------------------
(* Versions.                                                               *)

\* Nothing of this binary is in a file of an older version.
Unmixed(data) ==
    read_header(data).version < FORMAT_VERSION =>
        \A i \in DOMAIN data : data[i].n <= 0 \/ data[i].kind = "head"

\* A file of this version may have any record, and a part of a file has no
\* other version and no other records than the whole.
LEMMA UnmixedFiles ==
    ASSUME NEW data \in Seq(Cells)
    PROVE  /\ Current(data) => Unmixed(data)
           /\ data = <<>> => Unmixed(data)
           /\ \A s \in Seq(Cells) : PrefixOf(s, data) /\ Unmixed(data) => Unmixed(s)
  <1>1. ASSUME Current(data) PROVE Unmixed(data)
    <2>1. read_header(data).version = FORMAT_VERSION /\ FORMAT_VERSION \in Nat
      BY <1>1, HeaderIs, WalFileAssumption
    <2>2. ~(FORMAT_VERSION < FORMAT_VERSION)
      BY <2>1
    <2> QED BY <2>1, <2>2 DEF Unmixed
  <1>2. ASSUME NEW s, s = <<>> PROVE Unmixed(s)
    BY <1>2 DEF Unmixed
  <1>3. ASSUME NEW s \in Seq(Cells), PrefixOf(s, data), Unmixed(data) PROVE Unmixed(s)
    <2>1. CASE s # <<>>
      <3>1. read_header(s) = read_header(data)
        BY ONLY <1>3, <2>1, PartReads, data \in Seq(Cells)
      <3>2. DOMAIN s \subseteq DOMAIN data /\ \A i \in DOMAIN s : s[i] = data[i]
        BY <1>3 DEF PrefixOf
      <3> QED BY ONLY <1>3, <3>1, <3>2 DEF Unmixed
    <2> QED BY <1>2, <2>1
  <1> QED BY <1>1, <1>2, <1>3

\* A crash adds no record, and keeps a header that was synced.
LEMMA UnmixedCrash ==
    ASSUME NEW file \in Files, PrefixOf(file.safe, file.data), Unmixed(file.data),
           \/ file.safe # <<>> \/ file.data = write_header \/ file.data = <<>>,
           NEW data \in Outcomes(file)
    PROVE  Unmixed(data)
  <1>1. /\ data \in Seq(Cells) /\ PrefixOf(file.safe, data)
        /\ Len(data) <= Len(file.data)
        /\ \A i \in 1 .. Len(data) : data[i] \in {Zero, file.data[i]}
    BY ONLY CrashReads, file \in Files, PrefixOf(file.safe, file.data), data \in Outcomes(file)
  <1>2. Zero.n = 0 /\ DOMAIN data = 1 .. Len(data) /\ Len(data) \in Nat
    BY <1>1 DEF Zero, Cell
  <1>3. file.data \in Seq(Cells) /\ file.safe \in Seq(Cells)
    BY DEF Files
  <1> PICK d : d = file.data
    OBVIOUS
  <1>4. /\ d \in Seq(Cells) /\ DOMAIN d = 1 .. Len(d) /\ Len(d) \in Nat /\ Len(data) <= Len(d)
        /\ Unmixed(d) /\ \A i \in 1 .. Len(data) : data[i] \in {Zero, d[i]}
    BY <1>1, <1>3
  <1>5. CASE file.safe # <<>>
    <2>1. read_header(file.safe) = read_header(data) /\ read_header(file.safe) = read_header(d)
      BY ONLY <1>1, <1>3, <1>5, PartReads, PrefixOf(file.safe, file.data), d = file.data
    <2>2. \A i \in DOMAIN data : i \in DOMAIN d
      BY ONLY <1>2, <1>4
    <2> QED BY ONLY <1>2, <1>4, <2>1, <2>2 DEF Unmixed
  <1>6. CASE d = write_header
    <2>1. Len(d) = 1 /\ d[1] = Cell("head", FORMAT_VERSION)
      BY <1>6 DEF write_header
    <2>2. \A i \in DOMAIN data : i = 1
      BY ONLY <1>2, <1>4, <2>1
    <2>3. \A i \in DOMAIN data : data[i].n <= 0 \/ data[i].kind = "head"
      BY ONLY <1>2, <1>4, <2>1, <2>2 DEF Cell
    <2> QED BY <2>3 DEF Unmixed
  <1>7. CASE d = <<>>
    <2>1. Len(data) = 0
      BY ONLY <1>2, <1>4, <1>7
    <2>2. DOMAIN data = {}
      BY ONLY <1>2, <2>1
    <2> QED BY ONLY <2>2 DEF Unmixed
  <1> QED BY <1>5, <1>6, <1>7

MixedOK == \A k \in DOMAIN inodes : Unmixed(Data(k))

\* open's cut leaves the file it was or a part of it.
LEMMA OpenFileMixed ==
    ASSUME Shape, MixedOK, NEW e \in Roles, OpenFile(e) PROVE MixedOK'
  <1> USE DEF Data
  <1>0. TypeOK
    BY DEF Shape
  <1>1. h[e].valid \in Nat /\ inodes \in Seq(Files)
    BY <1>0, HandleFields DEF TypeOK
  <1> PICK v : v = h[e].valid
    OBVIOUS
  <1> PICK old : old = IF path = 0 THEN [data |-> <<>>, safe |-> <<>>] ELSE inodes[path]
    OBVIOUS
  <1> PICK kept : kept = CutBack(old.data, v)
    OBVIOUS
  <1> PICK file : file = IF kept = old.data THEN old ELSE [data |-> kept, safe |-> kept]
    OBVIOUS
  <1>2. inodes' = IF path = 0 THEN Append(inodes, file) ELSE [inodes EXCEPT ![path] = file]
    BY DEF OpenFile
  <1>3. old \in Files /\ old.data \in Seq(Cells) /\ Unmixed(old.data)
        /\ (path # 0 => path \in DOMAIN inodes)
    <2>1. CASE path = 0
      <3>1. old = [data |-> <<>>, safe |-> <<>>] /\ <<>> \in Seq(Cells)
        BY <2>1
      <3>2. old.data = <<>>
        BY ONLY <3>1
      <3>3. old \in Files
        BY ONLY <3>1 DEF Files
      <3>4. Unmixed(<<>>)
        BY <3>1, UnmixedFiles
      <3> QED BY ONLY <2>1, <3>1, <3>2, <3>3, <3>4
    <2>2. CASE path # 0
      <3>1. path \in DOMAIN inodes /\ old = inodes[path] /\ old \in Files
        BY <1>0, <2>2, HandleFields
      <3> QED BY <3>1 DEF Files, MixedOK
    <2> QED BY <2>1, <2>2
  <1>4. kept \in Seq(Cells) /\ Unmixed(kept)
    <2> PICK d : d = old.data
      OBVIOUS
    <2>1. d \in Seq(Cells) /\ v \in Nat /\ kept = CutBack(d, v) /\ Unmixed(d)
      BY <1>1, <1>3
    <2>2. kept \in Seq(Cells) /\ PrefixOf(kept, d)
      <3>1. CASE Len(d) > v
        <4>1. kept = SubSeq(d, 1, v)
          BY ONLY <2>1, <3>1 DEF CutBack
        <4>2. kept \in Seq(Cells) /\ Len(kept) = v /\ \A i \in 1 .. v : kept[i] = d[i]
          BY ONLY <2>1, <3>1, <4>1
        <4> QED BY ONLY <2>1, <3>1, <4>2 DEF PrefixOf
      <3>2. CASE ~(Len(d) > v)
        <4>1. kept = d
          BY ONLY <2>1, <3>2 DEF CutBack
        <4> QED BY ONLY <2>1, <4>1 DEF PrefixOf
      <3> QED BY <3>1, <3>2
    <2> QED BY ONLY <2>1, <2>2, UnmixedFiles
  <1>5. file \in Files /\ file.data = kept
    BY <1>3, <1>4 DEF Files
  <1>6. CASE path = 0
    <2>1. /\ DOMAIN inodes' = DOMAIN inodes \cup {Len(inodes) + 1}
          /\ inodes'[Len(inodes) + 1] = file
          /\ \A k \in DOMAIN inodes : inodes'[k] = inodes[k]
      BY <1>1, <1>2, <1>5, <1>6, FileNew
    <2> QED BY ONLY <1>4, <1>5, <2>1, MixedOK DEF MixedOK, Data
  <1>7. CASE path # 0
    <2>1. /\ DOMAIN inodes' = DOMAIN inodes /\ inodes'[path] = file
          /\ \A k \in DOMAIN inodes : k # path => inodes'[k] = inodes[k]
      BY <1>1, <1>2, <1>3, <1>5, <1>7, FilePut
    <2> QED BY ONLY <1>4, <1>5, <2>1, MixedOK DEF MixedOK, Data
  <1> QED BY <1>6, <1>7

\* A write goes to a file of this version.
LEMMA WriteMixed ==
    ASSUME Shape, MixedOK, NEW r \in Seq(Int), NEW j \in 0 .. 2 * Len(r), Serving,
           inodes' = [inodes EXCEPT ![live.ino].data = @ \o SubSeq(Encoded(r), 1, j)]
    PROVE  MixedOK'
  <1>1. /\ DOMAIN inodes' = DOMAIN inodes
        /\ \A k \in DOMAIN inodes : k # live.ino => inodes'[k] = inodes[k]
        /\ inodes'[live.ino].data \in Seq(Cells) /\ Current(inodes'[live.ino].data)
    BY WriteDoes
  <1>2. Unmixed(inodes'[live.ino].data)
    BY ONLY <1>1, UnmixedFiles
  <1> QED BY ONLY <1>1, <1>2, MixedOK DEF MixedOK, Data

\* A staged file is of this version.
LEMMA StageMixed ==
    ASSUME Shape, MixedOK, NEW r \in Seq(Int), NEW a \in Stages, Stage("live", r, a)
    PROVE  MixedOK'
  <1>1. TypeOK
    BY DEF Shape
  <1>2. /\ inodes' \in Seq(Files) /\ DOMAIN inodes' = DOMAIN inodes \cup {tmp'}
        /\ \A k \in DOMAIN inodes : inodes'[k] = inodes[k]
        /\ Clean(inodes'[tmp'].data)
    BY <1>1, StageDoes
  <1>3. inodes'[tmp'].data \in Seq(Cells)
    <2>1. tmp' \in DOMAIN inodes' /\ inodes' \in Seq(Files)
      BY ONLY <1>2
    <2>2. inodes'[tmp'] \in Files
      BY ONLY <2>1
    <2> QED BY <2>2 DEF Files
  <1>4. Unmixed(inodes'[tmp'].data)
    BY ONLY <1>2, <1>3, UnmixedFiles DEF Clean
  <1> QED BY ONLY <1>2, <1>4, MixedOK DEF MixedOK, Data

\* A crash leaves nothing of this binary in a file of an older version.
LEMMA CrashMixed == ASSUME Shape, MixedOK, Crash PROVE MixedOK'
  <1>1. TypeOK /\ FilesOK /\ PathOK
    BY DEF Shape
  <1>2. PICK i \in {path, named} : \E disk \in Seq(Files) :
             /\ i = 0 => disk = <<>>
             /\ i # 0 => /\ i \in DOMAIN inodes /\ Len(disk) = 1
                         /\ disk[1].data \in Outcomes(inodes[i])
                         /\ disk[1].data \in Seq(Cells)
             /\ \A k \in DOMAIN disk : disk[k].safe = disk[k].data
             /\ Restart(disk)
    BY CrashDoes
  <1>3. PICK disk \in Seq(Files) :
             /\ i = 0 => disk = <<>>
             /\ i # 0 => /\ i \in DOMAIN inodes /\ Len(disk) = 1
                         /\ disk[1].data \in Outcomes(inodes[i])
             /\ Restart(disk)
    BY <1>2
  <1>4. inodes' = disk
    BY <1>3 DEF Restart
  <1>5. ASSUME NEW k \in DOMAIN disk PROVE Unmixed(disk[k].data)
    <2>1. i # 0 /\ k = 1
      BY <1>3
    <2>2. i \in DOMAIN inodes /\ inodes[i] \in Files /\ disk[1].data \in Outcomes(inodes[i])
      BY <1>1, <1>3, <2>1, HandleFields
    <2>3. PrefixOf(inodes[i].safe, inodes[i].data) /\ Unmixed(inodes[i].data)
      BY <1>1, <2>2 DEF FilesOK, FileOK, Safe, Data, MixedOK
    <2>4. \/ inodes[i].safe # <<>> \/ inodes[i].data = write_header \/ inodes[i].data = <<>>
      BY <1>1, <2>2 DEF FilesOK, FileOK, Safe, Data, PathOK
    <2>5. Unmixed(disk[1].data)
      BY ONLY <2>2, <2>3, <2>4, UnmixedCrash
    <2> QED BY <2>1, <2>5
  <1> QED BY <1>4, <1>5 DEF MixedOK, Data

\* Every step leaves the versions apart.
LEMMA MixedStep == Shape /\ MixedOK /\ [Next]_vars => MixedOK'
  <1> SUFFICES ASSUME Shape, MixedOK, [Next]_vars PROVE MixedOK'
    OBVIOUS
  <1>0. TypeOK
    BY DEF Shape
  <1>a. ASSUME inodes' = inodes PROVE MixedOK'
    BY <1>a DEF MixedOK, Data
  <1>b. ASSUME DOMAIN inodes' = DOMAIN inodes, NEW i \in DOMAIN inodes,
               inodes'[i].data = write_header,
               \A k \in DOMAIN inodes : k # i => inodes'[k] = inodes[k]
        PROVE  MixedOK'
    <2>1. Unmixed(write_header)
      BY HeaderReads, UnmixedFiles DEF Clean
    <2> QED BY ONLY <1>b, <2>1, MixedOK DEF MixedOK, Data
  <1>1. ASSUME NEW e \in Roles, OpenStep(e) PROVE MixedOK'
    <2>1. CASE OpenScan(e)
      BY <1>a, <2>1 DEF OpenScan, files
    <2>2. CASE OpenFile(e)
      BY <2>2, OpenFileMixed
    <2>3. CASE WriteHeader(e)
      BY <1>b, <2>3, WriteHeaderDoes
    <2>4. CASE SyncHeader(e)
      BY <1>b, <2>4, SyncHeaderDoes
    <2>5. CASE StageUpgrade(e)
      <3>1. e = "live" /\ live.at = "upgrade"
        BY <2>5, OnlyLive DEF StageUpgrade, live
      <3>2. path # 0
        BY <3>1 DEF Shape, PathOK
      <3>3. path \in DOMAIN inodes /\ Data(path) \in Seq(Cells)
        BY <1>0, <3>2, HandleFields
      <3> PICK r : r = Scanned.events
        OBVIOUS
      <3>4. r \in Seq(Int) /\ "upgrade_staged" \in Stages
        BY <3>2, <3>3, ScanIs DEF Scanned, Data, Stages
      <3>5. Stage("live", r, "upgrade_staged")
        BY <2>5, <3>1 DEF StageUpgrade
      <3> QED BY <3>4, <3>5, StageMixed
    <2>6. CASE RenameUpgrade(e)
      BY <1>a, <2>6 DEF RenameUpgrade
    <2>7. CASE SyncUpgrade(e)
      BY <1>a, <2>7 DEF SyncUpgrade
    <2> QED BY <1>1, <2>1, <2>2, <2>3, <2>4, <2>5, <2>6, <2>7 DEF OpenStep
  <1>2. ASSUME NEW n \in 1 .. MaxBatch, WriteBatch(n) PROVE MixedOK'
    <2> PICK r : r = Batch(n)
      OBVIOUS
    <2>1. /\ Serving
          /\ inodes' = [inodes EXCEPT ![live.ino].data = @ \o SubSeq(Encoded(r), 1, 2 * Len(r))]
      <3>1. n \in Nat
        OBVIOUS
      <3> QED BY ONLY <1>0, <1>2, <3>1, WriteBatchDoes, r = Batch(n)
    <2>2. r \in Seq(Int) /\ 2 * Len(r) \in 0 .. 2 * Len(r)
      BY <1>0, BatchIs
    <2> QED BY ONLY Shape, MixedOK, <2>1, <2>2, WriteMixed
  <1>3. ASSUME NEW n \in 1 .. MaxBatch, NEW k \in 0 .. 2 * MaxBatch, WriteFails(n, k)
        PROVE  MixedOK'
    <2> PICK r : r = Batch(n)
      OBVIOUS
    <2>1. /\ Serving /\ k \in 0 .. 2 * Len(r)
          /\ inodes' = [inodes EXCEPT ![live.ino].data = @ \o SubSeq(Encoded(r), 1, k)]
      <3>1. n \in Nat /\ k \in Nat
        OBVIOUS
      <3> QED BY ONLY <1>0, <1>3, <3>1, WriteFailsDoes, r = Batch(n)
    <2>2. r \in Seq(Int)
      BY <1>0, BatchIs
    <2> QED BY ONLY Shape, MixedOK, <2>1, <2>2, WriteMixed
  <1>4. CASE Sync
    <2>1. /\ DOMAIN inodes' = DOMAIN inodes
          /\ inodes'[live.ino].data = Data(live.ino)
          /\ \A k \in DOMAIN inodes : k # live.ino => inodes'[k] = inodes[k]
      BY <1>4, SyncDoes
    <2> QED BY ONLY <2>1, MixedOK DEF MixedOK, Data
  <1>5. CASE StageCompact
    <2> PICK r : r = live.known
      OBVIOUS
    <2>1. r \in Seq(Int) /\ "staged" \in Stages
      BY <1>0, HandleFields DEF live, Stages, Busy
    <2>2. Stage("live", r, "staged")
      BY <1>5 DEF StageCompact, live
    <2> QED BY <2>1, <2>2, StageMixed
  <1>6. CASE SyncFails \/ RenameCompact \/ SyncName \/ Reopen \/ CompactFails \/ Rebuild
             \/ UNCHANGED vars
    BY <1>6, <1>a DEF SyncFails, RenameCompact, SyncName, Reopen, CompactFails, Rebuild,
                      files, vars
  <1>7. CASE Crash
    BY <1>7, CrashMixed
  <1> QED BY <1>1, <1>2, <1>3, <1>4, <1>5, <1>6, <1>7 DEF Next

\* No file has both an older version and a record of this binary, whatever
\* crashes come between Wal::open's header, its upgrade and the first records.
THEOREM VersionsStayApart == Spec => []NeverMixed
  <1>1. Init => MixedOK
    <2> SUFFICES ASSUME Init PROVE MixedOK
      OBVIOUS
    <2>1. PICK s \in Starts :
            inodes = IF s.version = NoFile THEN <<>>
                     ELSE <<[data |-> StartFile(s), safe |-> StartFile(s)]>>
      BY DEF Init
    <2>2. CASE s.version = NoFile
      <3>1. inodes = <<>>
        BY <2>1, <2>2
      <3> QED BY ONLY <3>1 DEF MixedOK
    <2>3. CASE s.version # NoFile
      <3> PICK d : d = StartFile(s)
        OBVIOUS
      <3>1. DOMAIN inodes = {1} /\ inodes[1].data = d
        BY <2>1, <2>3
      <3>2. Unmixed(d)
        BY <2>3, StartCells DEF Unmixed
      <3> QED BY ONLY <3>1, <3>2 DEF MixedOK, Data
    <2> QED BY <2>2, <2>3
  <1>2. MixedOK => NeverMixed
    BY DEF MixedOK, NeverMixed, Unmixed, Data, Range
  <1> QED BY <1>1, <1>2, MixedStep, FilesKeepShape, PTL DEF Spec

-------------------------------------------------------------------------------
(* What WalFile calls sure is never lost: the invariant.                   *)

\* The sure records are all read from it.
Sure(data) == sure \subseteq Range(Events(data))

\* Each of them is among the records that a cut to length v keeps.
Spares(events, v, records) ==
    \A r \in records : \E k \in DOMAIN events : 2 * k + 1 <= v /\ events[k] = r

\* They are on disk, in each file the log's name may mean after a crash.
DiskOK == \A i \in {path, named} : IF i = 0 THEN sure = {} ELSE Sure(Safe(i))

\* A cut that is under way spares them.
SpareOK ==
    \A e \in Roles : h[e].at = "open" =>
        IF h[e].valid = 0 THEN sure = {}
        ELSE Spares(Events(Data(path)), h[e].valid, sure)

Opens == live.at = "open" /\ ~live.stopped

\* The engine knows them, so that a compaction keeps them.
KnownOK ==
    \/ Serves \/ Opens
    \/ live.at \in {"empty", "headed", "upgrade", "upgrade_staged", "upgrade_renamed"}
    => sure \subseteq Range(live.known)

\* What a file that is about to be the log has in it.
SwapOK ==
    /\ live.at = "upgrade_staged" => Sure(Data(tmp))
    /\ live.at = "staged" => Events(Data(tmp)) = live.known
    /\ live.at \in {"renamed", "synced"} =>
          /\ Safe(path) = Data(path)
          /\ ~live.crossed => Events(Data(path)) = live.known
    /\ live.at = "synced" => named = path

\* A group that is written and not synced.
BatchOK ==
    /\ live.at # "written" => live.batch = <<>>
    /\ live.at = "written" /\ live.ino = path /\ ~live.crossed =>
          Range(live.batch) \subseteq Range(Events(Data(path)))

\* While a stopped engine's handle has the file still to cut, the file has
\* nothing that the serving engine does not know of, and all of it when the
\* engine writes to that file.
LinkOK ==
    Recovering("old") /\ (Serves \/ Opens) =>
        /\ PrefixOf(Events(Data(path)), live.known \o live.batch)
        /\ live.ino = path \/ live.at \in {"open", "renamed", "synced"} =>
              Events(Data(path)) = live.known \o live.batch
        /\ live.at = "open" => live.valid = ValidLen(Data(path))

Lasting == DiskOK /\ SpareOK /\ KnownOK /\ SwapOK /\ BatchOK /\ LinkOK

\* Replay finds every sure record in the file that has the log's name.
SureIsReplayed == sure \subseteq Range(Scanned.events)

-------------------------------------------------------------------------------
(* What is read of a file and of a part of it.                             *)

\* A part has its elements where the whole has them.
LEMMA PartIs ==
    ASSUME NEW a \in Seq(Int), NEW b \in Seq(Int), PrefixOf(a, b)
    PROVE  /\ DOMAIN a = 1 .. Len(a) /\ Len(a) \in Nat
           /\ DOMAIN b = 1 .. Len(b) /\ Len(b) \in Nat /\ Len(a) <= Len(b)
           /\ DOMAIN a \subseteq DOMAIN b /\ \A k \in DOMAIN a : a[k] = b[k]
           /\ Range(a) \subseteq Range(b)
  <1>1. DOMAIN a = 1 .. Len(a) /\ Len(a) \in Nat /\ DOMAIN b = 1 .. Len(b) /\ Len(b) \in Nat
    OBVIOUS
  <1>2. Len(a) <= Len(b) /\ \A k \in 1 .. Len(a) : a[k] = b[k]
    BY DEF PrefixOf
  <1>3. DOMAIN a \subseteq DOMAIN b
    BY ONLY <1>1, <1>2
  <1>4. Range(a) \subseteq Range(b)
    BY ONLY <1>1, <1>2, <1>3 DEF Range
  <1> QED BY ONLY <1>1, <1>2, <1>3, <1>4

\* The records of a part of a file are records of the file.
LEMMA PartRange ==
    ASSUME NEW s \in Seq(Cells), NEW t \in Seq(Cells), PrefixOf(s, t)
    PROVE  Range(Events(s)) \subseteq Range(Events(t))
  <1>1. CASE s = <<>>
    <2>1. Events(s) = <<>>
      BY <1>1, EmptyTidy
    <2> QED BY <2>1 DEF Range
  <1>2. CASE s # <<>>
    <2>1. PrefixOf(Events(s), Events(t))
      BY <1>2, PartReads
    <2>2. Events(s) \in Seq(Int) /\ Events(t) \in Seq(Int)
      BY EventsAre
    <2> PICK a, b : a = Events(s) /\ b = Events(t)
      OBVIOUS
    <2>3. a \in Seq(Int) /\ b \in Seq(Int) /\ PrefixOf(a, b)
      BY <2>1, <2>2
    <2>4. Range(a) \subseteq Range(b)
      BY ONLY <2>3, PartIs
    <2> QED BY <2>4
  <1> QED BY <1>1, <1>2

\* What a cut keeps is read.
LEMMA SparedIsRead ==
    ASSUME NEW ev, NEW v, NEW x, Spares(ev, v, x)
    PROVE  x \subseteq Range(ev)
  BY DEF Spares, Range

\* More records behind them do not endanger the ones a cut keeps.
LEMMA SparedAfter ==
    ASSUME NEW ev \in Seq(Int), NEW ew \in Seq(Int), PrefixOf(ev, ew), NEW v, NEW x,
           Spares(ev, v, x)
    PROVE  Spares(ew, v, x)
  <1>1. DOMAIN ev \subseteq DOMAIN ew /\ \A k \in DOMAIN ev : ev[k] = ew[k]
    BY PartIs
  <1> QED BY ONLY <1>1, Spares(ev, v, x) DEF Spares

\* A cut to the length that was read keeps all that was read.
LEMMA ScannedIsSpared ==
    ASSUME NEW data \in Seq(Cells), Current(data), NEW x, x \subseteq Range(Events(data))
    PROVE  Spares(Events(data), ValidLen(data), x)
  <1>1. At(data) = 1
    BY HeaderIs
  <1>2. Whole(data) \in Nat /\ ValidLen(data) = 1 + 2 * Whole(data)
    BY <1>1, WholeIs
  <1>3. DOMAIN Events(data) = 1 .. Whole(data)
    BY EventsAre
  <1>4. \A k \in 1 .. Whole(data) : 2 * k + 1 <= ValidLen(data)
    BY ONLY <1>2
  <1> QED BY ONLY <1>3, <1>4, x \subseteq Range(Events(data)) DEF Spares, Range

\* A cut keeps what it spares, and spares what another cut would.
LEMMA CutSpares ==
    ASSUME NEW data \in Seq(Cells), Current(data), NEW v, Odd(v),
           NEW kept, kept = CutBack(data, v), NEW x, Spares(Events(data), v, x)
    PROVE  /\ x \subseteq Range(Events(kept))
           /\ \A w \in Nat : Spares(Events(data), w, x) => Spares(Events(kept), w, x)
  <1>1. /\ kept \in Seq(Cells) /\ PrefixOf(Events(kept), Events(data))
        /\ \A k \in DOMAIN Events(data) : 2 * k + 1 <= v => k \in DOMAIN Events(kept)
    BY ONLY CutReads, data \in Seq(Cells), Current(data), Odd(v), kept = CutBack(data, v)
  <1> PICK ev, ek : ev = Events(data) /\ ek = Events(kept)
    OBVIOUS
  <1>2. ev \in Seq(Int) /\ ek \in Seq(Int) /\ PrefixOf(ek, ev)
        /\ \A k \in DOMAIN ev : 2 * k + 1 <= v => k \in DOMAIN ek
    BY <1>1, EventsAre
  <1>3. /\ \A k \in DOMAIN ek : ek[k] = ev[k]
        /\ DOMAIN ev = 1 .. Len(ev) /\ Len(ev) \in Nat
        /\ DOMAIN ek = 1 .. Len(ek) /\ Len(ek) \in Nat /\ v \in Nat
    <2>1. v \in Nat
      BY DEF Odd
    <2> QED BY ONLY <1>2, <2>1, PartIs
  <1>4. x \subseteq Range(ek)
    BY ONLY <1>2, <1>3, Spares(ev, v, x) DEF Spares, Range
  <1>5. ASSUME NEW w \in Nat, Spares(ev, w, x), NEW r \in x
        PROVE  \E k \in DOMAIN ek : 2 * k + 1 <= w /\ ek[k] = r
    <2>1. PICK k \in DOMAIN ev : 2 * k + 1 <= w /\ ev[k] = r
      BY <1>5 DEF Spares
    <2>2. PICK l \in DOMAIN ev : 2 * l + 1 <= v /\ ev[l] = r
      BY DEF Spares
    <2>3. l \in DOMAIN ek /\ ek[l] = r
      BY ONLY <1>2, <1>3, <2>2, l \in DOMAIN ev
    <2>4. CASE l <= k
      <3>1. 2 * l + 1 <= w
        BY ONLY <1>3, <2>1, <2>4, k \in DOMAIN ev, l \in DOMAIN ev, w \in Nat
      <3> QED BY <2>3, <3>1
    <2>5. CASE k < l
      <3>1. k \in DOMAIN ek
        BY ONLY <1>3, <2>3, <2>5, k \in DOMAIN ev
      <3> QED BY <1>3, <2>1, <3>1
    <2> QED BY ONLY <1>3, <2>4, <2>5, k \in DOMAIN ev, l \in DOMAIN ev
  <1> QED BY <1>4, <1>5 DEF Spares

\* The files that the log's name may mean have the sure records.
LEMMA SureFiles ==
    ASSUME Shape, DiskOK, NEW i \in {path, named}
    PROVE  /\ i = 0 => sure = {}
           /\ i # 0 => /\ i \in DOMAIN inodes /\ Sure(Data(i)) /\ Sure(Safe(i))
                       /\ Data(i) \in Seq(Cells) /\ Safe(i) \in Seq(Cells)
  <1>1. CASE i # 0
    <2>1. TypeOK /\ FilesOK
      BY DEF Shape
    <2>2. i \in DOMAIN inodes /\ Data(i) \in Seq(Cells) /\ Safe(i) \in Seq(Cells)
      BY <1>1, <2>1, HandleFields
    <2>3. PrefixOf(Safe(i), Data(i)) /\ Sure(Safe(i))
      BY <1>1, <2>1, <2>2 DEF FilesOK, FileOK, DiskOK
    <2>4. Sure(Data(i))
      BY <2>2, <2>3, PartRange DEF Sure
    <2> QED BY <1>1, <2>2, <2>3, <2>4
  <1>2. CASE i = 0
    BY <1>2 DEF DiskOK
  <1> QED BY <1>1, <1>2

-------------------------------------------------------------------------------
(* Opening.                                                                *)

\* What Wal::open decides.
LEMMA OpenScanDoes ==
    ASSUME Shape, NEW e \in Roles, OpenScan(e)
    PROVE  /\ h[e].at = "scan"
           /\ h'[e].at = IF Scanned.refused THEN "refused"
                         ELSE IF Outdated(Scanned) THEN "upgrade" ELSE "open"
           /\ h'[e].valid = Scanned.valid
           /\ h'[e].known = IF h[e].stopped THEN h[e].known ELSE Scanned.events
           /\ h'[e].batch = h[e].batch /\ h'[e].stopped = h[e].stopped
           /\ \A d \in Roles : d # e => h'[d] = h[d]
           /\ path = 0 => /\ Scanned.valid = 0 /\ Scanned.events = <<>>
                          /\ ~Scanned.refused /\ ~Outdated(Scanned)
           /\ path # 0 => Scanned = scan(Data(path)) /\ Scanned.events = Events(Data(path))
                          /\ Scanned.valid = ValidLen(Data(path))
                          /\ Data(path) \in Seq(Cells) /\ path \in DOMAIN inodes
           /\ inodes' = inodes /\ path' = path /\ named' = named /\ tmp' = tmp /\ sure' = sure
  <1>1. TypeOK /\ h \in [Roles -> Handles] /\ h[e] \in Handles
    BY DEF Shape, TypeOK
  <1>2. ASSUME path # 0
        PROVE  /\ Scanned = scan(Data(path)) /\ Scanned.events = Events(Data(path))
               /\ Scanned.valid = ValidLen(Data(path))
               /\ Data(path) \in Seq(Cells) /\ path \in DOMAIN inodes
    <2>1. path \in DOMAIN inodes /\ Data(path) \in Seq(Cells)
      BY <1>1, <1>2, HandleFields
    <2>2. Scanned = scan(Data(path))
      BY <1>2 DEF Scanned, Data
    <2> QED BY <2>1, <2>2, ScanIs
  <1>3. path = 0 => /\ Scanned.valid = 0 /\ Scanned.events = <<>>
                    /\ ~Scanned.refused /\ ~Outdated(Scanned)
    BY DEF Scanned, Missing, Outdated
  <1>4. /\ h[e].at = "scan"
        /\ h'[e].at = IF Scanned.refused THEN "refused"
                      ELSE IF Outdated(Scanned) THEN "upgrade" ELSE "open"
        /\ h'[e].valid = Scanned.valid
        /\ h'[e].known = IF h[e].stopped THEN h[e].known ELSE Scanned.events
        /\ h'[e].batch = h[e].batch /\ h'[e].stopped = h[e].stopped
        /\ \A d \in Roles : d # e => h'[d] = h[d]
    BY <1>1 DEF OpenScan, Handles
  <1> QED BY <1>2, <1>3, <1>4 DEF OpenScan, files

\* A stopped engine's handle measures the file.
LEMMA OldScanLasts == ASSUME Shape, Lasting, OpenScan("old") PROVE Lasting'
  <1> USE DEF live, stale, Data, Safe
  <1>0. /\ DiskOK /\ SpareOK /\ KnownOK /\ SwapOK /\ BatchOK /\ LinkOK
        /\ "old" \in Roles /\ "live" \in Roles
    BY DEF Lasting, Roles
  <1>1. /\ stale.at = "scan" /\ live' = live
        /\ stale'.at = (IF Scanned.refused THEN "refused"
                        ELSE IF Outdated(Scanned) THEN "upgrade" ELSE "open")
        /\ stale'.valid = Scanned.valid
        /\ path # 0 => Scanned = scan(Data(path)) /\ Scanned.valid = ValidLen(Data(path))
                       /\ Data(path) \in Seq(Cells)
        /\ inodes' = inodes /\ path' = path /\ named' = named /\ tmp' = tmp /\ sure' = sure
    BY ONLY <1>0, Shape, OpenScan("old"), OpenScanDoes DEF live, stale
  <1>2. path # 0 /\ Current(Data(path)) /\ Tidy(Data(path))
    BY <1>1 DEF Shape, SettledOK, Recovering
  <1>3. stale'.at = "open" /\ stale'.valid = ValidLen(Data(path)) /\ stale'.valid # 0
    <2>1. ~scan(Data(path)).refused /\ ~Outdated(scan(Data(path))) /\ Odd(ValidLen(Data(path)))
      BY <1>1, <1>2, SettledScan
    <2>2. ValidLen(Data(path)) # 0
      BY <2>1 DEF Odd
    <2> QED BY <1>1, <1>2, <2>1, <2>2
  <1>4. Sure(Data(path)) /\ Data(path) \in Seq(Cells)
    BY <1>0, <1>2, SureFiles
  <1>5. Spares(Events(Data(path)), ValidLen(Data(path)), sure)
    BY ONLY <1>2, <1>4, ScannedIsSpared DEF Sure
  <1>6. SpareOK'
    <2>1. ASSUME NEW e \in Roles, h'[e].at = "open"
          PROVE  IF h'[e].valid = 0 THEN sure = {} ELSE Spares(Events(Data(path)), h'[e].valid, sure)
      <3>1. CASE e = "old"
        BY <1>3, <1>5, <3>1
      <3>2. CASE e = "live"
        BY <1>0, <1>1, <2>1, <3>2 DEF SpareOK
      <3> QED BY <3>1, <3>2 DEF Roles
    <2> QED BY <1>1, <2>1 DEF SpareOK
  <1>7. DiskOK' /\ KnownOK' /\ SwapOK' /\ BatchOK'
    BY <1>0, <1>1 DEF DiskOK, Sure, KnownOK, SwapOK, BatchOK, Serves, Opens
  <1>8. LinkOK'
    BY <1>0, <1>1 DEF LinkOK, Serves, Opens, Recovering
  <1> QED BY <1>6, <1>7, <1>8 DEF Lasting

\* Replay, and the measure that open takes.
LEMMA LiveScanLasts == ASSUME Shape, Lasting, OpenScan("live") PROVE Lasting'
  <1> USE DEF live, stale, Data, Safe
  <1>0. /\ DiskOK /\ SpareOK /\ KnownOK /\ SwapOK /\ BatchOK /\ LinkOK /\ TypeOK
        /\ "old" \in Roles /\ "live" \in Roles
    BY DEF Lasting, Roles, Shape
  <1>1. /\ live.at = "scan" /\ stale' = stale
        /\ live'.at = (IF Scanned.refused THEN "refused"
                       ELSE IF Outdated(Scanned) THEN "upgrade" ELSE "open")
        /\ live'.valid = Scanned.valid
        /\ live'.known = (IF live.stopped THEN live.known ELSE Scanned.events)
        /\ live'.batch = live.batch /\ live'.stopped = live.stopped
        /\ path = 0 => /\ Scanned.valid = 0 /\ Scanned.events = <<>>
                       /\ ~Scanned.refused /\ ~Outdated(Scanned)
        /\ path # 0 => Scanned = scan(Data(path)) /\ Scanned.events = Events(Data(path))
                       /\ Scanned.valid = ValidLen(Data(path))
                       /\ Data(path) \in Seq(Cells) /\ path \in DOMAIN inodes
        /\ inodes' = inodes /\ path' = path /\ named' = named /\ tmp' = tmp /\ sure' = sure
    BY ONLY <1>0, Shape, OpenScan("live"), OpenScanDoes DEF live, stale
  <1>2. live.stopped \/ Recovering("old") =>
           path # 0 /\ Current(Data(path)) /\ Tidy(Data(path)) /\ live'.at = "open"
    <2> SUFFICES ASSUME live.stopped \/ Recovering("old")
                 PROVE  path # 0 /\ Current(Data(path)) /\ Tidy(Data(path)) /\ live'.at = "open"
      OBVIOUS
    <2>1. path # 0 /\ Current(Data(path)) /\ Tidy(Data(path))
      BY DEF Shape, SettledOK
    <2>2. ~scan(Data(path)).refused /\ ~Outdated(scan(Data(path)))
      BY <1>1, <2>1, SettledScan
    <2> QED BY <1>1, <2>1, <2>2
  <1>3. path = 0 => sure = {}
    BY <1>0, SureFiles
  <1>4. path # 0 => Sure(Data(path))
    BY <1>0, SureFiles
  <1>5. sure \subseteq Range(Scanned.events)
    BY <1>1, <1>3, <1>4 DEF Sure
  <1>6. ASSUME live'.at = "open"
        PROVE  IF live'.valid = 0 THEN sure = {} ELSE Spares(Events(Data(path)), live'.valid, sure)
    <2>1. CASE path = 0
      BY <1>1, <1>3, <2>1
    <2>2. CASE path # 0
      <3> PICK d : d = Data(path)
        OBVIOUS
      <3>1. /\ d \in Seq(Cells) /\ ~scan(d).refused /\ ~Outdated(scan(d))
            /\ live'.valid = ValidLen(d) /\ sure \subseteq Range(Events(d))
        BY <1>1, <1>4, <1>6, <2>2 DEF Sure
      <3>2. CASE ValidLen(d) = 0
        <4>1. Whole(d) \in Nat /\ At(d) \in {0, 1} /\ At(d) + 2 * Whole(d) = 0
          BY ONLY <3>1, <3>2, WholeIs, HeaderIs
        <4>2. Whole(d) = 0
          BY ONLY <4>1
        <4>3. DOMAIN Events(d) = {}
          BY ONLY <3>1, <4>2, EventsAre
        <4>4. sure = {}
          BY ONLY <3>1, <4>3 DEF Range
        <4> QED BY ONLY <3>1, <3>2, <4>4
      <3>3. CASE ValidLen(d) # 0
        <4>1. Current(d)
          BY ONLY <3>1, <3>3, OpenedScan
        <4>2. Spares(Events(d), ValidLen(d), sure)
          BY ONLY <3>1, <4>1, ScannedIsSpared
        <4> QED BY <3>1, <3>3, <4>2
      <3> QED BY <3>2, <3>3
    <2> QED BY <2>1, <2>2
  <1>7. SpareOK'
    <2>1. ASSUME NEW e \in Roles, h'[e].at = "open"
          PROVE  IF h'[e].valid = 0 THEN sure = {} ELSE Spares(Events(Data(path)), h'[e].valid, sure)
      <3>1. CASE e = "live"
        BY <1>6, <2>1, <3>1
      <3>2. CASE e = "old"
        BY <1>0, <1>1, <2>1, <3>2 DEF SpareOK
      <3> QED BY <3>1, <3>2 DEF Roles
    <2> QED BY <1>1, <2>1 DEF SpareOK
  <1>8. DiskOK'
    BY <1>0, <1>1 DEF DiskOK, Sure
  <1>9. KnownOK' /\ SwapOK' /\ BatchOK'
    BY <1>0, <1>1, <1>2, <1>5 DEF KnownOK, SwapOK, BatchOK, Serves, Opens, Busy
  <1>10. LinkOK'
    <2> SUFFICES ASSUME Recovering("old"), ~live.stopped, live'.at = "open"
                 PROVE  /\ PrefixOf(Events(Data(path)), live'.known \o live'.batch)
                        /\ Events(Data(path)) = live'.known \o live'.batch
                        /\ live'.valid = ValidLen(Data(path))
      BY <1>1 DEF LinkOK, Serves, Opens, Busy, Recovering
    <2> PICK ev : ev = Events(Data(path))
      OBVIOUS
    <2>1. path # 0 /\ live'.known = ev /\ live'.batch = <<>> /\ live'.valid = ValidLen(Data(path))
      BY <1>0, <1>1, <1>2 DEF BatchOK
    <2>2. ev \in Seq(Int)
      BY <1>1, <2>1, EventsAre
    <2>3. ev \o <<>> = ev /\ PrefixOf(ev, ev)
      BY ONLY <2>2 DEF PrefixOf
    <2> QED BY ONLY <2>1, <2>3, ev = Events(Data(path))
  <1> QED BY <1>7, <1>8, <1>9, <1>10 DEF Lasting

\* What the last step of Wal::open makes of the file and of the handles, when
\* it keeps these cells.
Opened(e, kept) ==
    /\ path # 0 => kept = CutBack(Data(path), h[e].valid) /\ path' = path
    /\ path' \in DOMAIN inodes' /\ path' # 0
    /\ inodes'[path'].data = kept
    /\ \/ path # 0 /\ kept = Data(path) /\ inodes'[path] = inodes[path]
       \/ inodes'[path'].safe = kept
    /\ \A k \in DOMAIN inodes : k # path' => inodes'[k] = inodes[k]
    /\ named' = named /\ tmp' = tmp /\ sure' = sure
    /\ h[e].at = "open" /\ h'[e].at = IF kept = <<>> THEN "empty" ELSE "ready"
    /\ h'[e].ino = path'
    /\ \A d \in Roles : /\ d # e => h'[d].at = h[d].at /\ h'[d].ino = h[d].ino
                        /\ h'[d].valid = h[d].valid /\ h'[d].known = h[d].known
                        /\ h'[d].batch = h[d].batch /\ h'[d].stopped = h[d].stopped
    /\ ~live'.crossed => ~live.crossed /\ (path # 0 => kept = Data(path))

\* OpenFile does that.
LEMMA OpenFileDoes ==
    ASSUME Shape, NEW e \in Roles, OpenFile(e)
    PROVE  \E kept \in Seq(Cells) : Opened(e, kept)
  <1> USE DEF Data
  <1>0. TypeOK /\ h[e].at = "open"
    BY DEF Shape, OpenFile
  <1>1. h[e].valid \in Nat /\ inodes \in Seq(Files) /\ Len(inodes) \in Nat
        /\ DOMAIN inodes = 1 .. Len(inodes)
    BY <1>0, HandleFields DEF TypeOK
  <1> PICK v : v = h[e].valid
    OBVIOUS
  <1> PICK old : old = IF path = 0 THEN [data |-> <<>>, safe |-> <<>>] ELSE inodes[path]
    OBVIOUS
  <1> PICK kept : kept = CutBack(old.data, v)
    OBVIOUS
  <1> PICK file : file = IF kept = old.data THEN old ELSE [data |-> kept, safe |-> kept]
    OBVIOUS
  <1> PICK ino : ino = IF path = 0 THEN Len(inodes) + 1 ELSE path
    OBVIOUS
  <1>2. /\ inodes' = IF path = 0 THEN Append(inodes, file) ELSE [inodes EXCEPT ![path] = file]
        /\ path' = ino /\ named' = named /\ tmp' = tmp /\ sure' = sure
    BY DEF OpenFile
  <1>3. old \in Files /\ old.data \in Seq(Cells) /\ (path # 0 => path \in DOMAIN inodes)
        /\ (path = 0 => old.data = <<>> /\ old.safe = <<>>)
    <2>1. CASE path = 0
      <3>1. old = [data |-> <<>>, safe |-> <<>>] /\ <<>> \in Seq(Cells)
        BY <2>1
      <3>2. old.data = <<>> /\ old.safe = <<>>
        BY ONLY <3>1
      <3>3. old \in Files
        BY ONLY <3>1 DEF Files
      <3> QED BY ONLY <2>1, <3>1, <3>2, <3>3
    <2>2. CASE path # 0
      <3>1. path \in DOMAIN inodes /\ old = inodes[path] /\ old \in Files
        BY <1>0, <2>2, HandleFields
      <3> QED BY <2>2, <3>1 DEF Files
    <2> QED BY <2>1, <2>2
  <1>4. kept \in Seq(Cells) /\ (path = 0 => kept = old.data)
    <2> PICK d : d = old.data
      OBVIOUS
    <2>1. d \in Seq(Cells) /\ v \in Nat /\ kept = CutBack(d, v) /\ (path = 0 => d = <<>>)
      BY <1>1, <1>3
    <2>2. kept \in Seq(Cells)
      BY ONLY <2>1 DEF CutBack
    <2>3. path = 0 => kept = d
      BY ONLY <2>1 DEF CutBack
    <2> QED BY <2>2, <2>3
  <1>5. file \in Files /\ file.data = kept /\ (kept # old.data => file.safe = kept)
    BY <1>3, <1>4 DEF Files
  <1>6. /\ path' \in DOMAIN inodes' /\ path' # 0 /\ inodes'[path'] = file
        /\ \A k \in DOMAIN inodes : k # path' => inodes'[k] = inodes[k]
    <2>1. CASE path = 0
      <3>1. path' = Len(inodes) + 1 /\ inodes' = Append(inodes, file)
        BY <1>2, <2>1
      <3>2. /\ DOMAIN inodes' = DOMAIN inodes \cup {Len(inodes) + 1}
            /\ inodes'[Len(inodes) + 1] = file
            /\ \A k \in DOMAIN inodes : inodes'[k] = inodes[k]
        BY ONLY <1>1, <1>5, <3>1, FileNew
      <3>3. Len(inodes) + 1 # 0
        BY ONLY <1>1
      <3> QED BY ONLY <3>1, <3>2, <3>3
    <2>2. CASE path # 0
      <3>1. path' = path /\ inodes' = [inodes EXCEPT ![path] = file] /\ path \in DOMAIN inodes
        BY <1>2, <1>3, <2>2
      <3>2. /\ DOMAIN inodes' = DOMAIN inodes /\ inodes'[path] = file
            /\ \A k \in DOMAIN inodes : k # path => inodes'[k] = inodes[k]
        BY ONLY <1>1, <1>5, <3>1, FilePut
      <3> QED BY ONLY <2>2, <3>1, <3>2
    <2> QED BY <2>1, <2>2
  <1>7. /\ path # 0 => kept = CutBack(Data(path), h[e].valid) /\ path' = path
        /\ \/ path # 0 /\ kept = Data(path) /\ inodes'[path] = inodes[path]
           \/ inodes'[path'].safe = kept
    <2>1. CASE path = 0
      BY <1>3, <1>4, <1>6, <2>1
    <2>2. CASE path # 0
      <3>1. path' = path /\ old = inodes[path]
        BY <1>2, <2>2
      <3>2. CASE kept = old.data
        BY <1>6, <2>2, <3>1, <3>2
      <3>3. CASE kept # old.data
        BY <1>5, <1>6, <2>2, <3>1, <3>3
      <3> QED BY <3>2, <3>3
    <2> QED BY <2>1, <2>2
  <1>8. /\ h'[e].at = IF kept = <<>> THEN "empty" ELSE "ready"
        /\ h'[e].ino = path'
        /\ \A d \in Roles : /\ d # e => h'[d].at = h[d].at /\ h'[d].ino = h[d].ino
                            /\ h'[d].valid = h[d].valid /\ h'[d].known = h[d].known
                            /\ h'[d].batch = h[d].batch /\ h'[d].stopped = h[d].stopped
        /\ ~live'.crossed => ~live.crossed /\ kept = old.data
    <2>1. h \in [Roles -> Handles] /\ h["old"] \in Handles /\ h["live"] \in Handles
          /\ "old" \in Roles /\ "live" \in Roles
      BY <1>0 DEF TypeOK, Roles
    <2> PICK at : at = IF kept = <<>> THEN "empty" ELSE "ready"
      OBVIOUS
    <2> PICK c : c = (h["live"].crossed \/ kept # old.data)
      OBVIOUS
    <2>2. h' = [h EXCEPT ![e].ino = ino, ![e].at = at, !["live"].crossed = c]
      <3>1. h' = [h EXCEPT ![e].ino = ino,
                           ![e].at = IF NeedsHeader(kept) THEN "empty" ELSE "ready",
                           !["live"].crossed = @ \/ kept # old.data]
        BY DEF OpenFile
      <3>2. CASE e = "live"
        BY <2>1, <3>1, <3>2 DEF NeedsHeader
      <3>3. CASE e = "old"
        BY <2>1, <3>1, <3>3 DEF NeedsHeader
      <3> QED BY <3>2, <3>3 DEF Roles
    <2>3. CASE e = "live"
      <3>1. h'["live"] = [h["live"] EXCEPT !.ino = ino, !.at = at, !.crossed = c]
            /\ h'["old"] = h["old"]
        BY ONLY <2>1, <2>2, <2>3
      <3>2. /\ h'["live"].at = at /\ h'["live"].ino = ino /\ h'["live"].crossed = c
            /\ h'["live"].valid = h["live"].valid /\ h'["live"].known = h["live"].known
            /\ h'["live"].batch = h["live"].batch /\ h'["live"].stopped = h["live"].stopped
        BY ONLY <2>1, <3>1 DEF Handles
      <3> QED BY <1>2, <2>3, <3>1, <3>2 DEF Roles, live
    <2>4. CASE e = "old"
      <3>1. h'["old"] = [h["old"] EXCEPT !.ino = ino, !.at = at]
            /\ h'["live"] = [h["live"] EXCEPT !.crossed = c]
        BY ONLY <2>1, <2>2, <2>4
      <3>2. /\ h'["old"].at = at /\ h'["old"].ino = ino
            /\ h'["old"].valid = h["old"].valid /\ h'["old"].known = h["old"].known
            /\ h'["old"].batch = h["old"].batch /\ h'["old"].stopped = h["old"].stopped
            /\ h'["live"].at = h["live"].at /\ h'["live"].ino = h["live"].ino
            /\ h'["live"].crossed = c
            /\ h'["live"].valid = h["live"].valid /\ h'["live"].known = h["live"].known
            /\ h'["live"].batch = h["live"].batch /\ h'["live"].stopped = h["live"].stopped
        BY ONLY <2>1, <3>1 DEF Handles
      <3> QED BY <1>2, <2>4, <3>1, <3>2 DEF Roles, live
    <2> QED BY <2>3, <2>4 DEF Roles
  <1>9. path # 0 => old.data = Data(path)
    OBVIOUS
  <1>10. inodes'[path'].data = kept
    BY <1>5, <1>6
  <1> QED BY ONLY <1>0, <1>2, <1>4, <1>6, <1>7, <1>8, <1>9, <1>10 DEF Opened, Data

\* A stopped engine's cut, under whatever the serving one is doing.
LEMMA OldOpenLasts == ASSUME Shape, Lasting, OpenFile("old") PROVE Lasting'
  <1> USE DEF live, stale, Data, Safe
  <1>0. /\ DiskOK /\ SpareOK /\ KnownOK /\ SwapOK /\ BatchOK /\ LinkOK /\ TypeOK /\ TmpOK
        /\ "old" \in Roles /\ "live" \in Roles
    BY DEF Lasting, Roles, Shape
  <1>1. PICK kept \in Seq(Cells) :
          /\ path # 0 => kept = CutBack(Data(path), stale.valid) /\ path' = path
          /\ path' \in DOMAIN inodes' /\ path' # 0
          /\ inodes'[path'].data = kept
          /\ \/ path # 0 /\ kept = Data(path) /\ inodes'[path] = inodes[path]
             \/ inodes'[path'].safe = kept
          /\ \A k \in DOMAIN inodes : k # path' => inodes'[k] = inodes[k]
          /\ named' = named /\ tmp' = tmp /\ sure' = sure
          /\ stale.at = "open" /\ stale'.at = (IF kept = <<>> THEN "empty" ELSE "ready")
          /\ live'.at = live.at /\ live'.ino = live.ino
          /\ live'.valid = live.valid /\ live'.known = live.known
          /\ live'.batch = live.batch /\ live'.stopped = live.stopped
          /\ ~live'.crossed => ~live.crossed /\ (path # 0 => kept = Data(path))
    <2>1. PICK kept \in Seq(Cells) : Opened("old", kept)
      BY ONLY <1>0, Shape, OpenFile("old"), OpenFileDoes
    <2>2. "live" # "old"
      OBVIOUS
    <2> QED BY <1>0, <2>1, <2>2 DEF Opened
  <1>2. path # 0 /\ Current(Data(path)) /\ Odd(stale.valid) /\ stale.valid # 0 /\ path' = path
    <2>1. path # 0 /\ Current(Data(path)) /\ Odd(stale.valid)
      BY <1>1 DEF Shape, SettledOK, CutsOK, Recovering
    <2> QED BY <1>1, <2>1 DEF Odd
  <1>3. Data(path) \in Seq(Cells) /\ path \in DOMAIN inodes
    BY <1>0, <1>2, HandleFields
  <1>4. Spares(Events(Data(path)), stale.valid, sure)
    BY <1>0, <1>1, <1>2 DEF SpareOK
  <1>5. /\ sure \subseteq Range(Events(kept))
        /\ \A w \in Nat : Spares(Events(Data(path)), w, sure) => Spares(Events(kept), w, sure)
    <2> PICK d, v : d = Data(path) /\ v = stale.valid
      OBVIOUS
    <2>1. /\ d \in Seq(Cells) /\ Current(d) /\ Odd(v) /\ kept = CutBack(d, v)
          /\ Spares(Events(d), v, sure)
      BY <1>1, <1>2, <1>3, <1>4
    <2>2. /\ sure \subseteq Range(Events(kept))
          /\ \A w \in Nat : Spares(Events(d), w, sure) => Spares(Events(kept), w, sure)
      BY ONLY <2>1, CutSpares
    <2> QED BY <2>2
  <1>6. inodes'[path] = inodes[path] \/ inodes'[path].safe = kept
    BY <1>1, <1>2
  <1>7. DiskOK'
    <2>1. ASSUME NEW i \in {path, named}, i # 0 PROVE sure \subseteq Range(Events(inodes'[i].safe))
      <3>1. sure \subseteq Range(Events(inodes[i].safe)) /\ i \in DOMAIN inodes
        BY <1>0, <2>1, SureFiles DEF Sure
      <3>2. CASE i # path
        BY <1>1, <1>2, <3>1, <3>2
      <3>3. CASE i = path
        BY <1>5, <1>6, <3>1, <3>3
      <3> QED BY <3>2, <3>3
    <2>2. ASSUME NEW i \in {path, named}, i = 0 PROVE sure = {}
      BY <1>0, <2>2, SureFiles
    <2> QED BY <1>1, <1>2, <2>1, <2>2 DEF DiskOK, Sure
  <1>8. SpareOK'
    <2>1. stale'.at # "open"
      BY <1>1
    <2>2. ASSUME live'.at = "open"
          PROVE  IF live'.valid = 0 THEN sure = {} ELSE Spares(Events(kept), live'.valid, sure)
      <3>1. live.valid \in Nat
        BY <1>0, HandleFields
      <3> QED BY <1>0, <1>1, <1>5, <2>2, <3>1 DEF SpareOK
    <2>3. inodes'[path'].data = kept /\ sure' = sure
      BY <1>1
    <2> QED BY <2>1, <2>2, <2>3 DEF SpareOK, Roles
  <1>9. KnownOK'
    BY <1>0, <1>1 DEF KnownOK, Serves, Opens
  <1>10. SwapOK'
    <2>1. live.at \in {"upgrade_staged", "staged"} => inodes'[tmp] = inodes[tmp]
      BY <1>0, <1>1, <1>2 DEF TmpOK
    <2>2. live.at \in {"renamed", "synced"} => inodes'[path].safe = inodes'[path].data
      BY <1>0, <1>1, <1>2, <1>6 DEF SwapOK
    <2>3. live.at = "upgrade_staged" => sure \subseteq Range(Events(inodes'[tmp].data))
      BY <1>0, <2>1 DEF SwapOK, Sure
    <2> QED BY <1>0, <1>1, <1>2, <2>1, <2>2, <2>3 DEF SwapOK, Sure
  <1>11. BatchOK'
    BY <1>0, <1>1, <1>2 DEF BatchOK
  <1>12. LinkOK'
    BY <1>1 DEF LinkOK, Recovering
  <1> QED BY <1>7, <1>8, <1>9, <1>10, <1>11, <1>12 DEF Lasting

\* The cut of an engine that is to serve, or has just stopped.
LEMMA LiveOpenLasts == ASSUME Shape, Lasting, OpenFile("live") PROVE Lasting'
  <1> USE DEF live, stale, Data, Safe
  <1>0. /\ DiskOK /\ SpareOK /\ KnownOK /\ SwapOK /\ BatchOK /\ LinkOK /\ TypeOK
        /\ "old" \in Roles /\ "live" \in Roles
    BY DEF Lasting, Roles, Shape
  <1>1. PICK kept \in Seq(Cells) :
          /\ path # 0 => kept = CutBack(Data(path), live.valid) /\ path' = path
          /\ path' \in DOMAIN inodes' /\ path' # 0
          /\ inodes'[path'].data = kept
          /\ \/ path # 0 /\ kept = Data(path) /\ inodes'[path] = inodes[path]
             \/ inodes'[path'].safe = kept
          /\ \A k \in DOMAIN inodes : k # path' => inodes'[k] = inodes[k]
          /\ named' = named /\ tmp' = tmp /\ sure' = sure
          /\ live.at = "open" /\ live'.at = (IF kept = <<>> THEN "empty" ELSE "ready")
          /\ live'.ino = path'
          /\ stale'.at = stale.at /\ stale'.valid = stale.valid
          /\ live'.valid = live.valid /\ live'.known = live.known
          /\ live'.batch = live.batch /\ live'.stopped = live.stopped
    <2>1. PICK kept \in Seq(Cells) : Opened("live", kept)
      BY ONLY <1>0, Shape, OpenFile("live"), OpenFileDoes
    <2>2. "live" # "old"
      OBVIOUS
    <2> QED BY <1>0, <2>1, <2>2 DEF Opened
  <1>2. BatchOK' /\ SwapOK' /\ live.batch = <<>>
    BY <1>0, <1>1 DEF BatchOK, SwapOK
  <1>3. (Recovering("old")' <=> Recovering("old")) /\ (stale'.at = "open" => Recovering("old"))
    BY <1>1 DEF Recovering
  <1>4. CASE sure = {} /\ ~live.stopped /\ ~Recovering("old")
    <2>1. sure' = {}
      BY <1>1, <1>4
    <2>2. stale'.at # "open" /\ live'.at # "open"
      BY <1>1, <1>3, <1>4
    <2>3. DiskOK' /\ KnownOK'
      BY <2>1 DEF DiskOK, KnownOK, Sure
    <2>4. SpareOK' /\ LinkOK'
      BY <1>3, <1>4, <2>2 DEF SpareOK, LinkOK, Roles
    <2> QED BY <1>2, <2>3, <2>4 DEF Lasting
  <1>5. CASE path # 0 /\ Odd(live.valid) /\ Current(Data(path))
    <2>1. Data(path) \in Seq(Cells) /\ path \in DOMAIN inodes /\ path' = path /\ live.valid # 0
      BY <1>0, <1>1, <1>5, HandleFields DEF Odd
    <2>2. Spares(Events(Data(path)), live.valid, sure)
      BY <1>0, <1>1, <2>1 DEF SpareOK
    <2>3. /\ sure \subseteq Range(Events(kept)) /\ kept # <<>>
          /\ \A w \in Nat : Spares(Events(Data(path)), w, sure) => Spares(Events(kept), w, sure)
          /\ live.valid = ValidLen(Data(path)) => Events(kept) = Events(Data(path))
      <3> PICK d, v : d = Data(path) /\ v = live.valid
        OBVIOUS
      <3>1. /\ d \in Seq(Cells) /\ Current(d) /\ Odd(v) /\ kept = CutBack(d, v)
            /\ Spares(Events(d), v, sure) /\ v \in Nat
        BY <1>0, <1>1, <1>5, <2>1, <2>2, HandleFields
      <3>2. /\ sure \subseteq Range(Events(kept))
            /\ \A w \in Nat : Spares(Events(d), w, sure) => Spares(Events(kept), w, sure)
        BY ONLY <3>1, CutSpares
      <3>3. kept # <<>> /\ (v >= ValidLen(d) => Events(kept) = Events(d))
        BY ONLY <3>1, CutReads
      <3>4. v = ValidLen(d) => v >= ValidLen(d)
        BY ONLY <3>1
      <3> QED BY ONLY <3>2, <3>3, <3>4, d = Data(path), v = live.valid
    <2>4. inodes'[path] = inodes[path] \/ inodes'[path].safe = kept
      BY <1>1, <2>1
    <2>5. DiskOK'
      <3>1. ASSUME NEW i \in {path, named}, i # 0
            PROVE  sure \subseteq Range(Events(inodes'[i].safe))
        <4>1. sure \subseteq Range(Events(inodes[i].safe)) /\ i \in DOMAIN inodes
          BY <1>0, <3>1, SureFiles DEF Sure
        <4>2. CASE i # path
          BY <1>1, <2>1, <4>1, <4>2
        <4>3. CASE i = path
          BY <2>3, <2>4, <4>1, <4>3
        <4> QED BY <4>2, <4>3
      <3>2. ASSUME NEW i \in {path, named}, i = 0 PROVE sure = {}
        BY <1>0, <3>2, SureFiles
      <3> QED BY <1>1, <2>1, <3>1, <3>2 DEF DiskOK, Sure
    <2>6. SpareOK'
      <3>1. live'.at # "open" /\ inodes'[path'].data = kept /\ sure' = sure
        BY <1>1
      <3>2. ASSUME stale'.at = "open"
            PROVE  IF stale'.valid = 0 THEN sure = {} ELSE Spares(Events(kept), stale'.valid, sure)
        <4>1. stale.valid \in Nat
          BY <1>0, HandleFields
        <4> QED BY <1>0, <1>1, <2>3, <3>2, <4>1 DEF SpareOK
      <3> QED BY <3>1, <3>2 DEF SpareOK, Roles
    <2>7. KnownOK'
      BY <1>0, <1>1, <2>3 DEF KnownOK, Serves, Opens, Busy
    <2>8. LinkOK'
      <3> SUFFICES ASSUME Recovering("old"), ~live.stopped
                   PROVE  /\ PrefixOf(Events(kept), live.known \o live.batch)
                          /\ Events(kept) = live.known \o live.batch
        BY <1>1, <1>3 DEF LinkOK, Serves, Opens, Busy
      <3> PICK ev : ev = Events(kept)
        OBVIOUS
      <3>1. ev = live.known \o live.batch
        BY <1>0, <1>1, <2>3 DEF LinkOK, Opens
      <3>2. ev \in Seq(Int)
        BY EventsAre
      <3>3. PrefixOf(ev, ev)
        BY ONLY <3>2 DEF PrefixOf
      <3> QED BY ONLY <3>1, <3>3, ev = Events(kept)
    <2> QED BY <1>2, <2>5, <2>6, <2>7, <2>8 DEF Lasting
  <1>6. \/ sure = {} /\ ~live.stopped /\ ~Recovering("old")
        \/ path # 0 /\ Odd(live.valid) /\ Current(Data(path))
    <2>1. CASE live.valid = 0 /\ ~live.stopped /\ ~Recovering("old")
      BY <1>0, <1>1, <2>1 DEF SpareOK
    <2> QED BY <1>1, <2>1 DEF Shape, CutsOK
  <1> QED BY <1>4, <1>5, <1>6

\* What a step does to the disk alone, while no handle has a cut to make.
LEMMA DiskLasts ==
    ASSUME Shape, DiskOK, path' = path, named' \in {path, named}, sure' = sure,
           \A k \in DOMAIN inodes : \/ inodes'[k].safe = Safe(k)
                                    \/ inodes'[k].safe = Data(k)
    PROVE  DiskOK'
  <1> USE DEF Data, Safe
  <1>1. ASSUME NEW i \in {path, named}, i # 0
        PROVE  sure \subseteq Range(Events(inodes'[i].safe))
    <2>1. i \in DOMAIN inodes /\ Sure(Data(i)) /\ Sure(Safe(i))
      BY <1>1, SureFiles
    <2>2. CASE inodes'[i].safe = Safe(i)
      BY <2>1, <2>2 DEF Sure
    <2>3. CASE inodes'[i].safe = Data(i)
      BY <2>1, <2>3 DEF Sure
    <2> QED BY <2>1, <2>2, <2>3
  <1>2. ASSUME NEW i \in {path, named}, i = 0 PROVE sure = {}
    BY <1>2, SureFiles
  <1> QED BY <1>1, <1>2 DEF DiskOK, Sure

\* A new file gets its header.
LEMMA WriteHeaderLasts == ASSUME Shape, Lasting, NEW e \in Roles, WriteHeader(e) PROVE Lasting'
  <1> USE DEF live, stale, Data, Safe
  <1>0. DiskOK /\ KnownOK /\ BatchOK /\ TypeOK /\ "headed" \in Stages
    BY DEF Lasting, Shape, Stages
  <1>1. /\ live.at = "empty" /\ ~Recovering("old") /\ Safe(path) = <<>>
        /\ path' = path /\ named' = named /\ sure' = sure
        /\ inodes'[path].safe = <<>>
        /\ \A k \in DOMAIN inodes : k # path => inodes'[k] = inodes[k]
        /\ h' = [h EXCEPT !["live"].at = "headed"]
    BY ONLY Shape, e \in Roles, WriteHeader(e), WriteHeaderDoes DEF Safe
  <1>2. /\ stale' = stale /\ live'.at = "headed"
        /\ live'.known = live.known /\ live'.batch = live.batch
    BY ONLY <1>0, <1>1, LiveAt
  <1>3. DiskOK'
    <2>1. \A k \in DOMAIN inodes : inodes'[k].safe = inodes[k].safe
      BY <1>1
    <2> QED BY <1>0, <1>1, <2>1, DiskLasts
  <1>4. SpareOK' /\ LinkOK'
    BY <1>1, <1>2 DEF SpareOK, LinkOK, Recovering, Roles
  <1>5. KnownOK' /\ SwapOK' /\ BatchOK'
    BY <1>0, <1>1, <1>2 DEF KnownOK, SwapOK, BatchOK
  <1> QED BY <1>3, <1>4, <1>5 DEF Lasting

\* The header is synced.
LEMMA SyncHeaderLasts == ASSUME Shape, Lasting, NEW e \in Roles, SyncHeader(e) PROVE Lasting'
  <1> USE DEF live, stale, Data, Safe
  <1>0. DiskOK /\ KnownOK /\ BatchOK /\ TypeOK /\ "ready" \in Stages
    BY DEF Lasting, Shape, Stages, Busy
  <1>1. /\ live.at = "headed" /\ ~Recovering("old") /\ Data(path) = write_header
        /\ path' = path /\ named' = named /\ sure' = sure
        /\ inodes'[path].safe = write_header
        /\ \A k \in DOMAIN inodes : k # path => inodes'[k] = inodes[k]
        /\ h' = [h EXCEPT !["live"].at = "ready"]
    BY ONLY Shape, e \in Roles, SyncHeader(e), SyncHeaderDoes DEF Data
  <1>2. /\ stale' = stale /\ live'.at = "ready"
        /\ live'.known = live.known /\ live'.batch = live.batch
    BY ONLY <1>0, <1>1, LiveAt
  <1>3. DiskOK'
    <2>1. \A k \in DOMAIN inodes : inodes'[k].safe = inodes[k].safe \/ inodes'[k].safe = inodes[k].data
      BY <1>1
    <2> QED BY <1>0, <1>1, <2>1, DiskLasts
  <1>4. SpareOK' /\ LinkOK'
    BY <1>1, <1>2 DEF SpareOK, LinkOK, Recovering, Roles
  <1>5. KnownOK' /\ SwapOK' /\ BatchOK'
    BY <1>0, <1>1, <1>2 DEF KnownOK, SwapOK, BatchOK
  <1> QED BY <1>3, <1>4, <1>5 DEF Lasting

\* An older file is written anew, with what replay finds in it.
LEMMA StageUpgradeLasts == ASSUME Shape, Lasting, NEW e \in Roles, StageUpgrade(e) PROVE Lasting'
  <1> USE DEF live, stale, Data, Safe
  <1>0. DiskOK /\ KnownOK /\ BatchOK /\ TypeOK /\ "upgrade_staged" \in Stages
    BY DEF Lasting, Shape, Stages
  <1>1. e = "live" /\ live.at = "upgrade" /\ ~Recovering("old")
    BY OnlyLive DEF StageUpgrade
  <1>2. path # 0 /\ Data(path) \in Seq(Cells) /\ Sure(Data(path))
    BY <1>0, <1>1, SureFiles DEF Shape, PathOK
  <1> PICK r : r = Scanned.events
    OBVIOUS
  <1>3. r = Events(Data(path)) /\ r \in Seq(Int)
    BY <1>2, ScanIs DEF Scanned
  <1>4. Stage("live", r, "upgrade_staged") /\ sure' = sure
    BY <1>1 DEF StageUpgrade
  <1>5. /\ \A k \in DOMAIN inodes : inodes'[k] = inodes[k]
        /\ Events(inodes'[tmp'].data) = r
        /\ path' = path /\ named' = named
        /\ h' = [h EXCEPT !["live"].at = "upgrade_staged"]
    BY ONLY <1>0, <1>3, <1>4, StageDoes
  <1>6. /\ stale' = stale /\ live'.at = "upgrade_staged"
        /\ live'.known = live.known /\ live'.batch = live.batch
    BY ONLY <1>0, <1>5, LiveAt
  <1>7. DiskOK'
    <2>1. \A k \in DOMAIN inodes : inodes'[k].safe = inodes[k].safe
      BY <1>5
    <2> QED BY <1>0, <1>4, <1>5, <2>1, DiskLasts
  <1>8. SpareOK' /\ LinkOK'
    BY <1>1, <1>6 DEF SpareOK, LinkOK, Recovering, Roles
  <1>9. KnownOK' /\ SwapOK' /\ BatchOK'
    BY <1>0, <1>1, <1>2, <1>3, <1>4, <1>5, <1>6 DEF KnownOK, SwapOK, BatchOK, Sure
  <1> QED BY <1>7, <1>8, <1>9 DEF Lasting

\* The new file takes the log's name.
LEMMA RenameUpgradeLasts == ASSUME Shape, Lasting, NEW e \in Roles, RenameUpgrade(e) PROVE Lasting'
  <1> USE DEF live, stale, Data, Safe
  <1>0. DiskOK /\ KnownOK /\ BatchOK /\ SwapOK /\ TypeOK /\ TmpOK /\ "upgrade_renamed" \in Stages
    BY DEF Lasting, Shape, Stages
  <1>1. e = "live" /\ live.at = "upgrade_staged" /\ ~Recovering("old")
    BY OnlyLive DEF RenameUpgrade
  <1>2. /\ path' = tmp /\ named' = named /\ inodes' = inodes /\ sure' = sure
        /\ h' = [h EXCEPT !["live"].at = "upgrade_renamed"]
    BY <1>1 DEF RenameUpgrade, Set
  <1>3. /\ stale' = stale /\ live'.at = "upgrade_renamed"
        /\ live'.known = live.known /\ live'.batch = live.batch
    BY ONLY <1>0, <1>2, LiveAt
  <1>4. Sure(Safe(tmp))
    BY <1>0, <1>1 DEF SwapOK, TmpOK
  <1>5. DiskOK'
    <2>1. tmp # 0
      BY <1>0, <1>1, HandleFields DEF TmpOK
    <2> QED BY <1>0, <1>2, <1>4, <2>1 DEF DiskOK, Sure
  <1>6. SpareOK' /\ LinkOK'
    BY <1>1, <1>3 DEF SpareOK, LinkOK, Recovering, Roles
  <1>7. KnownOK' /\ SwapOK' /\ BatchOK'
    BY <1>0, <1>1, <1>2, <1>3 DEF KnownOK, SwapOK, BatchOK
  <1> QED BY <1>5, <1>6, <1>7 DEF Lasting

\* The name is durable, and the new file is the one to open.
LEMMA SyncUpgradeLasts == ASSUME Shape, Lasting, NEW e \in Roles, SyncUpgrade(e) PROVE Lasting'
  <1> USE DEF live, stale, Data, Safe
  <1>0. DiskOK /\ KnownOK /\ BatchOK /\ TypeOK
    BY DEF Lasting, Shape
  <1>1. /\ live.at = "upgrade_renamed" /\ path \in DOMAIN inodes /\ path # 0
        /\ Clean(Data(path)) /\ ~live.stopped /\ ~Recovering("old")
        /\ stale' = stale /\ live'.at = "open" /\ live'.valid = Len(Data(path))
        /\ live'.known = live.known /\ live'.batch = live.batch
        /\ path' = path /\ inodes' = inodes /\ named' = path /\ sure' = sure
    BY ONLY Shape, e \in Roles, SyncUpgrade(e), SyncUpgradeDoes
  <1>2. DiskOK'
    BY <1>0, <1>1, DiskLasts
  <1>3. Data(path) \in Seq(Cells) /\ Sure(Data(path))
    BY <1>0, <1>1, SureFiles
  <1>4. Current(Data(path)) /\ live'.valid = ValidLen(Data(path)) /\ live'.valid # 0
    <2>1. Current(Data(path)) /\ Len(Data(path)) = ValidLen(Data(path)) /\ Data(path) # <<>>
      BY <1>1 DEF Clean, Current
    <2> PICK d : d = Data(path)
      OBVIOUS
    <2>2. Len(d) # 0
      BY ONLY <1>3, <2>1, d = Data(path)
    <2> QED BY <1>1, <2>1, <2>2
  <1>5. Spares(Events(Data(path)), live'.valid, sure)
    <2>1. Spares(Events(Data(path)), ValidLen(Data(path)), sure)
      BY ONLY <1>3, <1>4, ScannedIsSpared DEF Sure
    <2> QED BY <1>4, <2>1
  <1>6. SpareOK'
    <2>1. stale'.at # "open"
      BY <1>1 DEF Recovering
    <2> QED BY <1>1, <1>4, <1>5, <2>1 DEF SpareOK, Roles
  <1>7. LinkOK'
    BY <1>1 DEF LinkOK, Recovering
  <1>8. KnownOK' /\ SwapOK' /\ BatchOK'
    BY <1>0, <1>1 DEF KnownOK, SwapOK, BatchOK
  <1> QED BY <1>2, <1>6, <1>7, <1>8 DEF Lasting

-------------------------------------------------------------------------------
(* Groups of records.                                                      *)

\* Two lists of records, one after the other.
LEMMA Joined ==
    ASSUME NEW a \in Seq(Int), NEW b \in Seq(Int)
    PROVE  /\ a \o b \in Seq(Int) /\ a \o <<>> = a
           /\ PrefixOf(a, a) /\ PrefixOf(a, a \o b)
           /\ Range(a) \subseteq Range(a \o b) /\ Range(b) \subseteq Range(a \o b)
  <1> PICK c : c = a \o b
    OBVIOUS
  <1>1. /\ c \in Seq(Int) /\ Len(c) = Len(a) + Len(b) /\ Len(a) \in Nat /\ Len(b) \in Nat
        /\ DOMAIN a = 1 .. Len(a) /\ DOMAIN b = 1 .. Len(b) /\ DOMAIN c = 1 .. Len(c)
        /\ \A k \in 1 .. Len(a) : c[k] = a[k]
        /\ \A k \in 1 .. Len(b) : c[Len(a) + k] = b[k]
    OBVIOUS
  <1>2. a \o <<>> = a
    OBVIOUS
  <1>3. PrefixOf(a, a) /\ PrefixOf(a, c)
    BY ONLY <1>1 DEF PrefixOf
  <1>4. Range(a) \subseteq Range(c)
    BY ONLY <1>1, <1>3, a \in Seq(Int), PartIs
  <1>5. Range(b) \subseteq Range(c)
    <2>1. \A k \in 1 .. Len(b) : Len(a) + k \in 1 .. Len(c)
      BY ONLY <1>1
    <2> QED BY ONLY <1>1, <2>1 DEF Range
  <1> QED BY <1>1, <1>2, <1>3, <1>4, <1>5

\* A beginning of a beginning.
LEMMA PrefixOfPrefix ==
    ASSUME NEW a \in Seq(Int), NEW b \in Seq(Int), NEW c \in Seq(Int),
           PrefixOf(a, b), PrefixOf(b, c)
    PROVE  PrefixOf(a, c)
  <1>1. Len(a) \in Nat /\ Len(b) \in Nat /\ Len(c) \in Nat /\ Len(a) <= Len(b) /\ Len(b) <= Len(c)
    BY DEF PrefixOf
  <1>2. 1 .. Len(a) \subseteq 1 .. Len(b)
    BY <1>1
  <1> QED BY <1>1, <1>2 DEF PrefixOf

\* Cells written behind the records endanger nothing that is sure.
LEMMA WriteSpares ==
    ASSUME Shape, Lasting, NEW r \in Seq(Int), NEW j \in 0 .. 2 * Len(r), Serving,
           inodes' = [inodes EXCEPT ![live.ino].data = @ \o SubSeq(Encoded(r), 1, j)],
           path' = path, named' = named, sure' = sure, stale' = stale, live'.at # "open"
    PROVE  DiskOK' /\ SpareOK'
  <1> USE DEF live, stale, Data, Safe
  <1>0. DiskOK /\ SpareOK /\ TypeOK
    BY DEF Lasting, Shape
  <1> PICK f \in DOMAIN inodes : f = live.ino
    BY DEF Shape, ServingOK, Serving, Serves, Busy
  <1>1. /\ inodes'[f].safe = inodes[f].safe
        /\ \A k \in DOMAIN inodes : k # f => inodes'[k] = inodes[k]
        /\ inodes'[f].data \in Seq(Cells)
        /\ PrefixOf(Events(inodes[f].data), Events(inodes'[f].data))
    <2>1. /\ inodes'[live.ino].safe = Safe(live.ino)
          /\ \A k \in DOMAIN inodes : k # live.ino => inodes'[k] = inodes[k]
          /\ inodes'[live.ino].data \in Seq(Cells)
          /\ PrefixOf(Events(Data(live.ino)), Events(inodes'[live.ino].data))
      BY ONLY Shape, r \in Seq(Int), j \in 0 .. 2 * Len(r), Serving, WriteDoes,
              inodes' = [inodes EXCEPT ![live.ino].data = @ \o SubSeq(Encoded(r), 1, j)]
    <2> QED BY ONLY <2>1, f = live.ino DEF Safe, Data
  <1>2. DiskOK'
    <2>1. \A k \in DOMAIN inodes : inodes'[k].safe = inodes[k].safe
      BY ONLY <1>1
    <2> QED BY ONLY <1>0, <2>1, Shape, DiskLasts, path' = path, named' = named, sure' = sure DEF Safe
  <1>3. path \in DOMAIN inodes
    BY ONLY <1>0, Shape, Serving, HandleFields DEF Shape, SettledOK, Serving, Busy, live
  <1>4. ASSUME NEW v, Spares(Events(inodes[path].data), v, sure)
        PROVE  Spares(Events(inodes'[path].data), v, sure)
    <2>1. CASE path = f
      <3>1. Events(inodes[f].data) \in Seq(Int) /\ Events(inodes'[f].data) \in Seq(Int)
        BY ONLY <1>0, <1>1, f \in DOMAIN inodes, HandleFields, EventsAre DEF Data
      <3> QED BY ONLY <1>1, <1>4, <2>1, <3>1, SparedAfter
    <2>2. CASE path # f
      BY ONLY <1>1, <1>3, <1>4, <2>2
    <2> QED BY ONLY <2>1, <2>2
  <1>5. SpareOK'
    BY ONLY <1>0, <1>4, path' = path, sure' = sure, stale' = stale, live'.at # "open"
       DEF SpareOK, Roles, live, stale, Data
  <1> QED BY ONLY <1>2, <1>5

\* A group is in the file.
LEMMA WriteBatchLasts == ASSUME Shape, Lasting, NEW n \in Nat, WriteBatch(n) PROVE Lasting'
  <1> USE DEF live, stale, Data, Safe
  <1>0. KnownOK /\ BatchOK /\ LinkOK /\ TypeOK
    BY DEF Lasting, Shape
  <1> PICK r : r = Batch(n)
    OBVIOUS
  <1>1. r \in Seq(Int) /\ 2 * Len(r) \in 0 .. 2 * Len(r)
    BY ONLY <1>0, r = Batch(n), n \in Nat, BatchIs
  <1>2. /\ Serving /\ stale' = stale
        /\ live'.at = "written" /\ live'.ino = live.ino
        /\ live'.known = live.known /\ live'.batch = r
        /\ live'.stopped = live.stopped
        /\ inodes' = [inodes EXCEPT ![live.ino].data = @ \o SubSeq(Encoded(r), 1, 2 * Len(r))]
        /\ path' = path /\ named' = named /\ sure' = sure
    BY ONLY <1>0, r = Batch(n), n \in Nat, WriteBatch(n), WriteBatchDoes
  <1>3. DiskOK' /\ SpareOK'
    <2>1. live'.at # "open"
      BY <1>2
    <2> QED BY ONLY <1>1, <1>2, <2>1, Shape, Lasting, WriteSpares
  <1>4. /\ live.ino \in DOMAIN inodes
        /\ \A k \in DOMAIN inodes : k # live.ino => inodes'[k] = inodes[k]
        /\ Events(inodes'[live.ino].data) = Events(Data(live.ino)) \o r
    BY ONLY <1>1, <1>2, Shape, WriteDoes
  <1>5. live.at = "ready" /\ ~live.stopped /\ live.batch = <<>>
    BY <1>0, <1>2 DEF Serving, BatchOK
  <1>6. KnownOK' /\ SwapOK'
    BY <1>0, <1>2, <1>5 DEF KnownOK, SwapOK, Serves, Opens, Busy
  <1>7. path \in DOMAIN inodes
    BY <1>0, <1>5, HandleFields DEF Shape, SettledOK, Busy
  <1> PICK ev, known : ev = Events(Data(path)) /\ known = live.known
    OBVIOUS
  <1>8. ev \in Seq(Int) /\ known \in Seq(Int)
    BY <1>0, <1>7, HandleFields, EventsAre
  <1>9. /\ live.ino = path  => Events(inodes'[path].data) = ev \o r
        /\ live.ino # path => Events(inodes'[path].data) = ev
    BY <1>4, <1>7
  <1>10. BatchOK'
    <2>1. Range(r) \subseteq Range(ev \o r)
      BY ONLY <1>1, <1>8, Joined
    <2> QED BY <1>2, <1>9, <2>1 DEF BatchOK
  <1>11. LinkOK'
    <2> SUFFICES ASSUME Recovering("old")
                 PROVE  /\ PrefixOf(Events(inodes'[path].data), known \o r)
                        /\ live.ino = path => Events(inodes'[path].data) = known \o r
      BY <1>2 DEF LinkOK, Recovering
    <2>1. PrefixOf(ev, known \o <<>>) /\ (live.ino = path => ev = known \o <<>>)
      BY <1>0, <1>5 DEF LinkOK, Serves, Busy
    <2>2. known \o <<>> = known /\ PrefixOf(known, known \o r) /\ known \o r \in Seq(Int)
          /\ PrefixOf(known \o r, known \o r)
      BY ONLY <1>1, <1>8, Joined
    <2>3. CASE live.ino = path
      BY ONLY <1>9, <2>1, <2>2, <2>3
    <2>4. CASE live.ino # path
      BY ONLY <1>8, <1>9, <2>1, <2>2, <2>4, PrefixOfPrefix
    <2> QED BY <2>3, <2>4
  <1> QED BY <1>3, <1>6, <1>10, <1>11 DEF Lasting

\* A write fails with a part of the group in the file.
LEMMA WriteFailsLasts ==
    ASSUME Shape, Lasting, NEW n \in Nat, NEW k \in Nat, WriteFails(n, k) PROVE Lasting'
  <1>0. TypeOK
    BY DEF Shape
  <1> PICK r : r = Batch(n)
    OBVIOUS
  <1>1. r \in Seq(Int)
    BY ONLY <1>0, r = Batch(n), n \in Nat, BatchIs
  <1>2. /\ Serving /\ h' = Stopped /\ k \in 0 .. 2 * Len(r)
        /\ inodes' = [inodes EXCEPT ![live.ino].data = @ \o SubSeq(Encoded(r), 1, k)]
        /\ path' = path /\ named' = named /\ sure' = sure
    BY ONLY <1>0, r = Batch(n), n \in Nat, k \in Nat, WriteFails(n, k), WriteFailsDoes
  <1>3. stale' = stale /\ live'.at = "scan" /\ live'.batch = <<>> /\ live'.stopped
    BY ONLY <1>0, <1>2, StoppedDoes
  <1>4. DiskOK' /\ SpareOK'
    <2>1. live'.at # "open"
      BY <1>3
    <2> QED BY ONLY <1>1, <1>2, <1>3, <2>1, Shape, Lasting, WriteSpares
  <1>5. KnownOK' /\ SwapOK' /\ BatchOK' /\ LinkOK'
    BY <1>3 DEF KnownOK, SwapOK, BatchOK, LinkOK, Serves, Opens
  <1> QED BY <1>4, <1>5 DEF Lasting

\* A flush succeeds.
LEMMA SyncLasts == ASSUME Shape, Lasting, Sync PROVE Lasting'
  <1> USE DEF live, stale, Data, Safe
  <1>0. DiskOK /\ SpareOK /\ KnownOK /\ BatchOK /\ LinkOK /\ TypeOK
    BY DEF Lasting, Shape
  <1>1. /\ live.at = "written" /\ ~live.stopped /\ live.ino \in DOMAIN inodes
        /\ DOMAIN inodes' = DOMAIN inodes
        /\ inodes'[live.ino].safe = Data(live.ino)
        /\ inodes'[live.ino].data = Data(live.ino)
        /\ \A k \in DOMAIN inodes : k # live.ino => inodes'[k] = inodes[k]
        /\ stale' = stale
        /\ live'.at = "ready" /\ live'.ino = live.ino
        /\ live'.known = live.known \o live.batch /\ live'.batch = <<>>
        /\ live'.stopped = live.stopped
        /\ path' = path /\ named' = named
    BY ONLY Shape, Sync, SyncDoes
  <1>2. /\ Secure  => sure' = sure \cup Range(live.batch)
        /\ ~Secure => sure' = sure
    BY DEF Sync
  <1>3. path # 0 /\ path \in DOMAIN inodes
    BY <1>0, <1>1, HandleFields DEF Shape, SettledOK, Busy
  <1>4. \A k \in DOMAIN inodes : inodes'[k].data = inodes[k].data
    BY <1>1
  <1> PICK ev, known, batch : ev = Events(Data(path)) /\ known = live.known /\ batch = live.batch
    OBVIOUS
  <1>5. /\ ev \in Seq(Int) /\ known \in Seq(Int) /\ batch \in Seq(Int)
        /\ Range(known) \subseteq Range(known \o batch)
        /\ Range(batch) \subseteq Range(known \o batch)
        /\ (known \o batch) \o <<>> = known \o batch
    <2>1. ev \in Seq(Int) /\ known \in Seq(Int) /\ batch \in Seq(Int)
      BY <1>0, <1>3, HandleFields, EventsAre
    <2>2. known \o batch \in Seq(Int)
      BY ONLY <2>1, Joined
    <2> QED BY ONLY <2>1, <2>2, Joined
  <1>6. DiskOK'
    <2>1. CASE ~Secure
      <3>1. \A k \in DOMAIN inodes : inodes'[k].safe = inodes[k].safe \/ inodes'[k].safe = inodes[k].data
        BY <1>1
      <3> QED BY <1>0, <1>1, <1>2, <2>1, <3>1, DiskLasts
    <2>2. CASE Secure
      <3>1. live.ino = path /\ named = path /\ ~live.crossed
        BY <2>2 DEF Secure
      <3>2. Sure(Data(path))
        BY <1>0, <1>3, SureFiles
      <3>3. sure' \subseteq Range(ev)
        BY <1>0, <1>1, <1>2, <2>2, <3>1, <3>2 DEF BatchOK, Sure
      <3>4. Events(inodes'[path].safe) = ev
        BY <1>1, <3>1
      <3> QED BY <1>1, <1>3, <3>1, <3>3, <3>4 DEF DiskOK, Sure
    <2> QED BY <2>1, <2>2
  <1>7. SpareOK'
    <2>1. stale.at = "open" => sure' = sure
      BY <1>2 DEF Secure
    <2> QED BY <1>0, <1>1, <1>3, <1>4, <2>1 DEF SpareOK, Roles
  <1>8. KnownOK'
    <2>1. sure \subseteq Range(known)
      BY <1>0, <1>1 DEF KnownOK, Serves, Busy
    <2>2. sure' \subseteq Range(known \o batch)
      BY <1>2, <1>5, <2>1
    <2> QED BY <1>1, <2>2 DEF KnownOK
  <1>9. SwapOK' /\ BatchOK'
    BY <1>1 DEF SwapOK, BatchOK
  <1>10. LinkOK'
    <2> SUFFICES ASSUME Recovering("old")
                 PROVE  /\ PrefixOf(ev, (known \o batch) \o <<>>)
                        /\ live.ino = path => ev = (known \o batch) \o <<>>
      BY <1>1, <1>3, <1>4 DEF LinkOK, Recovering
    <2>1. PrefixOf(ev, known \o batch) /\ (live.ino = path => ev = known \o batch)
      BY <1>0, <1>1 DEF LinkOK, Serves, Busy
    <2> QED BY ONLY <1>5, <2>1
  <1> QED BY <1>6, <1>7, <1>8, <1>9, <1>10 DEF Lasting

\* A flush fails.
LEMMA SyncFailsLasts == ASSUME Shape, Lasting, SyncFails PROVE Lasting'
  <1> USE DEF live, stale, Data, Safe
  <1>0. DiskOK /\ SpareOK /\ TypeOK
    BY DEF Lasting, Shape
  <1>1. h' = Stopped /\ inodes' = inodes /\ path' = path /\ named' = named /\ sure' = sure
    BY DEF SyncFails, files
  <1>2. stale' = stale /\ live'.at = "scan" /\ live'.batch = <<>> /\ live'.stopped
    BY ONLY <1>0, <1>1, StoppedDoes
  <1>3. DiskOK' /\ SpareOK'
    BY <1>0, <1>1, <1>2 DEF DiskOK, Sure, SpareOK, Roles
  <1>4. KnownOK' /\ SwapOK' /\ BatchOK' /\ LinkOK'
    BY <1>2 DEF KnownOK, SwapOK, BatchOK, LinkOK, Serves, Opens
  <1> QED BY <1>3, <1>4 DEF Lasting

-------------------------------------------------------------------------------
(* Compaction.                                                             *)

\* What the engine knows goes to a temp file.
LEMMA StageCompactLasts == ASSUME Shape, Lasting, StageCompact PROVE Lasting'
  <1> USE DEF live, stale, Data, Safe
  <1>0. DiskOK /\ SpareOK /\ KnownOK /\ BatchOK /\ LinkOK /\ TypeOK /\ "staged" \in Stages
    BY DEF Lasting, Shape, Stages, Busy
  <1> PICK r : r = live.known
    OBVIOUS
  <1>1. r \in Seq(Int)
    BY <1>0, HandleFields
  <1>2. Serving /\ Stage("live", r, "staged") /\ sure' = sure
    BY DEF StageCompact
  <1>3. live.at = "ready" /\ ~live.stopped
    BY <1>2 DEF Serving
  <1>4. /\ \A k \in DOMAIN inodes : inodes'[k] = inodes[k]
        /\ Events(inodes'[tmp'].data) = r
        /\ path' = path /\ named' = named
        /\ h' = [h EXCEPT !["live"].at = "staged"]
    BY ONLY <1>0, <1>1, <1>2, StageDoes
  <1>5. /\ stale' = stale /\ live'.at = "staged" /\ live'.ino = live.ino
        /\ live'.known = live.known /\ live'.batch = live.batch
        /\ live'.stopped = live.stopped
    BY ONLY <1>0, <1>4, LiveAt
  <1>6. inodes'[path] = inodes[path]
    BY <1>0, <1>3, <1>4, HandleFields DEF Shape, SettledOK, Busy
  <1>7. DiskOK'
    <2>1. \A k \in DOMAIN inodes : inodes'[k].safe = inodes[k].safe
      BY <1>4
    <2> QED BY <1>0, <1>2, <1>4, <2>1, DiskLasts
  <1>8. SpareOK'
    BY <1>0, <1>2, <1>4, <1>5, <1>6 DEF SpareOK, Roles
  <1>9. KnownOK' /\ SwapOK' /\ BatchOK'
    BY <1>0, <1>2, <1>3, <1>4, <1>5 DEF KnownOK, SwapOK, BatchOK, Serves, Busy
  <1>10. LinkOK'
    BY <1>0, <1>3, <1>4, <1>5, <1>6 DEF LinkOK, Recovering, Serves, Busy
  <1> QED BY <1>7, <1>8, <1>9, <1>10 DEF Lasting

\* The temp file takes the log's name, under a stopped engine's handle that
\* has measured the file before it.
LEMMA RenameCompactLasts == ASSUME Shape, Lasting, RenameCompact PROVE Lasting'
  <1> USE DEF live, stale, Data, Safe
  <1>0. DiskOK /\ SpareOK /\ KnownOK /\ SwapOK /\ BatchOK /\ LinkOK /\ TypeOK /\ TmpOK
    BY DEF Lasting, Shape
  <1>1. /\ live.at = "staged" /\ stale' = stale
        /\ live'.at = "renamed" /\ live'.ino = live.ino
        /\ live'.known = live.known /\ live'.batch = live.batch
        /\ live'.crossed = FALSE /\ live'.stopped = live.stopped
        /\ path' = tmp /\ inodes' = inodes /\ named' = named /\ sure' = sure
    BY ONLY <1>0, RenameCompact, RenameCompactDoes
  <1>2. ~live.stopped /\ live.batch = <<>> /\ path \in DOMAIN inodes
    BY <1>0, <1>1, HandleFields DEF Shape, StagesOK, SettledOK, Busy, BatchOK
  <1> PICK ev, known : ev = Events(Data(path)) /\ known = live.known
    OBVIOUS
  <1>3. /\ Events(Data(tmp)) = known /\ Safe(tmp) = Data(tmp) /\ tmp \in DOMAIN inodes /\ tmp # 0
        /\ sure \subseteq Range(known)
    BY <1>0, <1>1, <1>2, HandleFields DEF SwapOK, TmpOK, KnownOK, Serves, Busy
  <1>4. ev \in Seq(Int) /\ known \in Seq(Int) /\ known \o <<>> = known /\ PrefixOf(known, known)
    <2>1. ev \in Seq(Int) /\ known \in Seq(Int)
      BY <1>0, <1>2, HandleFields, EventsAre
    <2> QED BY ONLY <2>1, Joined
  <1>5. DiskOK'
    BY <1>0, <1>1, <1>3 DEF DiskOK, Sure
  <1>6. SpareOK'
    <2>1. ASSUME NEW v, Recovering("old"), Spares(ev, v, sure) PROVE Spares(known, v, sure)
      <3>1. PrefixOf(ev, known)
        BY <1>0, <1>1, <1>2, <1>4, <2>1 DEF LinkOK, Serves, Busy
      <3> QED BY ONLY <1>4, <2>1, <3>1, SparedAfter
    <2> QED BY <1>0, <1>1, <1>3, <2>1 DEF SpareOK, Roles, Recovering
  <1>7. KnownOK' /\ SwapOK' /\ BatchOK'
    BY <1>0, <1>1, <1>2, <1>3 DEF KnownOK, SwapOK, BatchOK
  <1>8. LinkOK'
    BY <1>1, <1>2, <1>3, <1>4 DEF LinkOK
  <1> QED BY <1>5, <1>6, <1>7, <1>8 DEF Lasting

\* The new name is durable.
LEMMA SyncNameLasts == ASSUME Shape, Lasting, SyncName PROVE Lasting'
  <1> USE DEF live, stale, Data, Safe
  <1>0. /\ DiskOK /\ SpareOK /\ KnownOK /\ SwapOK /\ BatchOK /\ LinkOK /\ TypeOK
        /\ "synced" \in Stages
    BY DEF Lasting, Shape, Stages, Busy
  <1>1. /\ live.at = "renamed" /\ named' = path /\ inodes' = inodes /\ path' = path
        /\ sure' = sure /\ h' = [h EXCEPT !["live"].at = "synced"]
    BY DEF SyncName, SyncedName, Set
  <1>2. /\ stale' = stale /\ live'.at = "synced" /\ live'.ino = live.ino
        /\ live'.known = live.known /\ live'.batch = live.batch
        /\ live'.crossed = live.crossed /\ live'.stopped = live.stopped
    BY ONLY <1>0, <1>1, LiveAt
  <1>3. DiskOK'
    BY <1>0, <1>1, DiskLasts
  <1>4. SpareOK' /\ LinkOK'
    BY <1>0, <1>1, <1>2 DEF SpareOK, Roles, LinkOK, Recovering, Serves, Opens, Busy
  <1>5. KnownOK' /\ SwapOK' /\ BatchOK'
    BY <1>0, <1>1, <1>2 DEF KnownOK, SwapOK, BatchOK, Serves, Opens, Busy
  <1> QED BY <1>3, <1>4, <1>5 DEF Lasting

\* The engine opens the new file, and what it has told its writers is in it.
LEMMA ReopenLasts == ASSUME Shape, Lasting, Reopen PROVE Lasting'
  <1> USE DEF live, stale, Data, Safe
  <1>0. DiskOK /\ SpareOK /\ KnownOK /\ SwapOK /\ BatchOK /\ LinkOK /\ TypeOK
    BY DEF Lasting, Shape
  <1>1. /\ live.at = "synced" /\ stale' = stale
        /\ live'.at = "ready" /\ live'.ino = path
        /\ live'.known = live.known /\ live'.batch = live.batch
        /\ live'.crossed = live.crossed /\ live'.stopped = live.stopped
        /\ path' = path /\ inodes' = inodes /\ named' = named
    BY ONLY <1>0, Reopen, ReopenDoes
  <1>2. ~live.stopped /\ path # 0
    BY <1>1 DEF Shape, StagesOK, PathOK
  <1>3. Safe(path) = Data(path) /\ (~live.crossed => Events(Data(path)) = live.known)
        /\ named = path /\ sure \subseteq Range(live.known)
    BY <1>0, <1>1, <1>2 DEF SwapOK, KnownOK, Serves, Busy
  <1>4. \/ sure' = sure
        \/ /\ stale.at # "open" /\ ~live.crossed
           /\ sure' = sure \cup (acked \cap Range(live.known))
    BY DEF Reopen
  <1>5. DiskOK'
    <2>1. CASE sure' = sure
      BY <1>0, <1>1, <2>1 DEF DiskOK, Sure
    <2>2. CASE ~live.crossed /\ sure' = sure \cup (acked \cap Range(live.known))
      BY <1>1, <1>2, <1>3, <2>2 DEF DiskOK, Sure
    <2> QED BY <1>4, <2>1, <2>2
  <1>6. SpareOK'
    BY <1>0, <1>1, <1>4 DEF SpareOK, Roles
  <1>7. KnownOK' /\ SwapOK' /\ BatchOK'
    BY <1>0, <1>1, <1>3, <1>4 DEF KnownOK, SwapOK, BatchOK
  <1>8. LinkOK'
    BY <1>0, <1>1, <1>2 DEF LinkOK, Recovering, Serves, Busy
  <1> QED BY <1>5, <1>6, <1>7, <1>8 DEF Lasting

\* A step of the swap fails.
LEMMA CompactFailsLasts == ASSUME Shape, Lasting, CompactFails PROVE Lasting'
  <1> USE DEF live, stale, Data, Safe
  <1>0. /\ DiskOK /\ SpareOK /\ KnownOK /\ BatchOK /\ LinkOK /\ TypeOK /\ "ready" \in Stages
    BY DEF Lasting, Shape, Stages, Busy
  <1>1. /\ live.at \in {"staged", "renamed", "synced"} /\ h' = [h EXCEPT !["live"].at = "ready"]
        /\ inodes' = inodes /\ path' = path /\ named' = named /\ sure' = sure
    BY DEF CompactFails, files, Set
  <1>2. /\ stale' = stale /\ live'.at = "ready" /\ live'.ino = live.ino
        /\ live'.known = live.known /\ live'.batch = live.batch
        /\ live'.stopped = live.stopped
    BY ONLY <1>0, <1>1, LiveAt
  <1>3. ~live.stopped
    BY <1>1 DEF Shape, StagesOK
  <1>4. DiskOK' /\ SpareOK'
    BY <1>0, <1>1, <1>2 DEF DiskOK, Sure, SpareOK, Roles
  <1>5. KnownOK' /\ SwapOK' /\ BatchOK'
    BY <1>0, <1>1, <1>2, <1>3 DEF KnownOK, SwapOK, BatchOK, Serves, Busy
  <1>6. LinkOK'
    BY <1>0, <1>1, <1>2, <1>3 DEF LinkOK, Recovering, Serves, Busy
  <1> QED BY <1>4, <1>5, <1>6 DEF Lasting

-------------------------------------------------------------------------------
(* Rebuilds, crashes and starts.                                           *)

\* A tenant is rebuilt beside a handle that may still have its cut to make.
LEMMA RebuildLasts == ASSUME Shape, Lasting, Rebuild PROVE Lasting'
  <1> USE DEF live, stale, Data, Safe
  <1>0. DiskOK /\ SpareOK /\ TypeOK
    BY DEF Lasting, Shape
  <1>1. /\ live' = Handle("scan", FALSE)
        /\ stale' = IF Recovering("live") THEN live ELSE stale
        /\ inodes' = inodes /\ path' = path /\ named' = named /\ sure' = sure
    BY ONLY <1>0, Rebuild, RebuildDoes
  <1>2. live'.at = "scan" /\ live'.batch = <<>>
    BY <1>1 DEF Handle
  <1>3. stale'.at = "open" => \E e \in Roles : h[e].at = "open" /\ stale'.valid = h[e].valid
    BY <1>1 DEF Recovering, Roles
  <1>4. DiskOK' /\ SpareOK'
    BY <1>0, <1>1, <1>2, <1>3 DEF DiskOK, Sure, SpareOK, Roles
  <1>5. KnownOK' /\ SwapOK' /\ BatchOK' /\ LinkOK'
    BY <1>2 DEF KnownOK, SwapOK, BatchOK, LinkOK, Serves, Opens, Busy
  <1> QED BY <1>4, <1>5 DEF Lasting

\* A start, with the sure records on disk.
Started == live = Handle("scan", FALSE) /\ stale = Down /\ DiskOK

\* A start asks for no more.
LEMMA StartLasts == Started => Lasting
  <1> USE DEF live, stale
  <1> SUFFICES ASSUME Started PROVE Lasting
    OBVIOUS
  <1>1. DiskOK /\ live.at = "scan" /\ live.batch = <<>> /\ stale.at = "down"
    BY DEF Handle, Down, Started
  <1>2. SpareOK /\ KnownOK /\ SwapOK /\ BatchOK /\ LinkOK
    BY <1>1 DEF SpareOK, Roles, KnownOK, SwapOK, BatchOK, LinkOK, Recovering, Serves, Opens, Busy
  <1> QED BY <1>1, <1>2 DEF Lasting

\* A crash keeps what is on disk.
LEMMA CrashLasts == ASSUME Shape, Lasting, Crash PROVE Lasting'
  <1> USE DEF live, stale, Data, Safe
  <1>0. DiskOK /\ TypeOK /\ FilesOK
    BY DEF Lasting, Shape
  <1>1. PICK i \in {path, named}, disk \in Seq(Files) :
          /\ i = 0 => disk = <<>>
          /\ i # 0 => /\ i \in DOMAIN inodes /\ Len(disk) = 1
                      /\ disk[1].data \in Outcomes(inodes[i])
                      /\ disk[1].data \in Seq(Cells)
          /\ \A k \in DOMAIN disk : disk[k].safe = disk[k].data
          /\ Restart(disk)
    BY ONLY Shape, Crash, CrashDoes
  <1>2. /\ inodes' = disk /\ path' = Len(disk) /\ named' = Len(disk) /\ sure' = sure
        /\ h' = [e \in Roles |-> IF e = "live" THEN Handle("scan", FALSE) ELSE Down]
    BY <1>1 DEF Restart
  <1>3. live' = Handle("scan", FALSE) /\ stale' = Down
    BY <1>2 DEF Roles
  <1>4. CASE i = 0
    <2>1. sure = {} /\ Len(disk) = 0
      BY <1>0, <1>1, <1>4, SureFiles
    <2>2. DiskOK'
      BY <1>2, <2>1 DEF DiskOK
    <2>3. Started'
      BY <1>3, <2>2 DEF Started
    <2> QED BY <2>3, StartLasts, PTL
  <1>5. CASE i # 0
    <2>1. /\ i \in DOMAIN inodes /\ Sure(Safe(i)) /\ Safe(i) \in Seq(Cells)
          /\ inodes[i] \in Files /\ PrefixOf(inodes[i].safe, inodes[i].data)
      BY <1>0, <1>5, SureFiles, HandleFields DEF FilesOK, FileOK
    <2> PICK data : data = disk[1].data
      OBVIOUS
    <2>2. data \in Outcomes(inodes[i]) /\ Len(disk) = 1 /\ 1 \in DOMAIN disk /\ disk[1].safe = data
      BY <1>1, <1>5
    <2>3. data \in Seq(Cells) /\ PrefixOf(inodes[i].safe, data)
      BY ONLY <2>1, <2>2, CrashReads
    <2>4. sure \subseteq Range(Events(data))
      BY <2>1, <2>3, PartRange DEF Sure
    <2>5. DiskOK'
      BY <1>2, <2>2, <2>4 DEF DiskOK, Sure
    <2>6. Started'
      BY <1>3, <2>5 DEF Started
    <2> QED BY <2>6, StartLasts, PTL
  <1> QED BY <1>4, <1>5

\* The file to start from holds the records that are sure.
LEMMA LastingInit == Init => Lasting
  <1> SUFFICES ASSUME Init PROVE Lasting
    OBVIOUS
  <1>1. PICK s \in Starts :
          /\ inodes = IF s.version = NoFile THEN <<>>
                      ELSE <<[data |-> StartFile(s), safe |-> StartFile(s)]>>
          /\ path = Len(inodes) /\ named = path
          /\ h = [e \in Roles |-> IF e = "live" THEN Handle("scan", FALSE) ELSE Down]
          /\ acked = 1 - s.records .. 0 /\ sure = acked
    BY DEF Init
  <1>2. live = Handle("scan", FALSE) /\ stale = Down
    BY <1>1 DEF live, stale, Roles
  <1>3. s.records \in Nat /\ (s.version = NoFile => s.records = 0) /\ sure = 1 - s.records .. 0
    BY <1>1, WalFileAssumption
  <1>4. CASE s.version = NoFile
    <2>1. sure = {} /\ Len(inodes) = 0
      BY <1>1, <1>3, <1>4
    <2> QED BY <1>1, <1>2, <2>1, StartLasts DEF Started, DiskOK
  <1>5. CASE s.version # NoFile
    <2> PICK data, n : data = StartFile(s) /\ n = s.records
      OBVIOUS
    <2>1. /\ data \in Seq(Cells) /\ Len(Events(data)) = n
          /\ \A k \in 1 .. n : Events(data)[k] = k - n
      BY <1>5, StartReads
    <2>2. Events(data) \in Seq(Int) /\ n \in Nat /\ sure = 1 - n .. 0
      BY <1>3, <2>1, EventsAre
    <2>3. ASSUME NEW x \in 1 - n .. 0
          PROVE  x \in Range(Events(data))
      <3>1. x + n \in 1 .. n /\ (x + n) - n = x
        BY ONLY <2>2, x \in 1 - n .. 0
      <3>2. x + n \in DOMAIN Events(data)
        BY ONLY <2>1, <2>2, <3>1
      <3> QED BY ONLY <2>1, <3>1, <3>2 DEF Range
    <2>4. Len(inodes) = 1 /\ inodes[1] = [data |-> data, safe |-> data]
      BY <1>1, <1>5
    <2>5. inodes[1].safe = data
      BY <2>4
    <2>6. DiskOK
      BY <1>1, <2>2, <2>3, <2>4, <2>5 DEF DiskOK, Sure, Safe
    <2> QED BY <1>2, <2>6, StartLasts DEF Started
  <1> QED BY <1>4, <1>5

\* Every step keeps it.
LEMMA LastingStep == Shape /\ Lasting /\ [Next]_vars => Lasting'
  <1> SUFFICES ASSUME Shape, Lasting, [Next]_vars PROVE Lasting'
    OBVIOUS
  <1>1. CASE UNCHANGED vars
    BY <1>1 DEF vars, Lasting, DiskOK, Sure, SpareOK, KnownOK, SwapOK, BatchOK, LinkOK,
                Serves, Opens, Recovering, live, stale, Data, Safe
  <1>2. ASSUME NEW e \in Roles, OpenStep(e) PROVE Lasting'
    <2>1. CASE OpenScan(e)
      BY ONLY <2>1, Shape, Lasting, e \in Roles, OldScanLasts, LiveScanLasts DEF Roles
    <2>2. CASE OpenFile(e)
      BY ONLY <2>2, Shape, Lasting, e \in Roles, OldOpenLasts, LiveOpenLasts DEF Roles
    <2>3. CASE WriteHeader(e)
      BY ONLY <2>3, Shape, Lasting, e \in Roles, WriteHeaderLasts
    <2>4. CASE SyncHeader(e)
      BY ONLY <2>4, Shape, Lasting, e \in Roles, SyncHeaderLasts
    <2>5. CASE StageUpgrade(e)
      BY ONLY <2>5, Shape, Lasting, e \in Roles, StageUpgradeLasts
    <2>6. CASE RenameUpgrade(e)
      BY ONLY <2>6, Shape, Lasting, e \in Roles, RenameUpgradeLasts
    <2>7. CASE SyncUpgrade(e)
      BY ONLY <2>7, Shape, Lasting, e \in Roles, SyncUpgradeLasts
    <2> QED BY <1>2, <2>1, <2>2, <2>3, <2>4, <2>5, <2>6, <2>7 DEF OpenStep
  <1>3. ASSUME NEW n \in 1 .. MaxBatch, WriteBatch(n) PROVE Lasting'
    <2>1. n \in Nat
      BY WalFileAssumption
    <2> QED BY ONLY <1>3, <2>1, Shape, Lasting, WriteBatchLasts
  <1>4. ASSUME NEW n \in 1 .. MaxBatch, NEW k \in 0 .. 2 * MaxBatch, WriteFails(n, k)
        PROVE  Lasting'
    <2>1. n \in Nat /\ k \in Nat
      BY WalFileAssumption
    <2> QED BY ONLY <1>4, <2>1, Shape, Lasting, WriteFailsLasts
  <1>5. CASE Sync
    BY ONLY <1>5, Shape, Lasting, SyncLasts
  <1>6. CASE SyncFails
    BY ONLY <1>6, Shape, Lasting, SyncFailsLasts
  <1>7. CASE StageCompact
    BY ONLY <1>7, Shape, Lasting, StageCompactLasts
  <1>8. CASE RenameCompact
    BY ONLY <1>8, Shape, Lasting, RenameCompactLasts
  <1>9. CASE SyncName
    BY ONLY <1>9, Shape, Lasting, SyncNameLasts
  <1>10. CASE Reopen
    BY ONLY <1>10, Shape, Lasting, ReopenLasts
  <1>11. CASE CompactFails
    BY ONLY <1>11, Shape, Lasting, CompactFailsLasts
  <1>12. CASE Rebuild
    BY ONLY <1>12, Shape, Lasting, RebuildLasts
  <1>13. CASE Crash
    BY ONLY <1>13, Shape, Lasting, CrashLasts
  <1> QED BY <1>1, <1>2, <1>3, <1>4, <1>5, <1>6, <1>7, <1>8, <1>9, <1>10, <1>11, <1>12,
             <1>13 DEF Next

\* The promise of wal.rs, for every file to start from and any number of
\* faults, crashes, compactions and records: a record that was acknowledged
\* while nothing endangered it is read by every later replay, after torn
\* tails and their repair, upgrades and swaps, and whatever a stopped
\* engine's handle still cuts.
THEOREM SureIsNeverLost == Spec => []SureIsReplayed
  <1>1. Shape /\ Lasting => SureIsReplayed
    <2> SUFFICES ASSUME Shape, Lasting PROVE SureIsReplayed
      OBVIOUS
    <2>1. CASE path = 0
      BY <2>1, SureFiles DEF Lasting, SureIsReplayed
    <2>2. CASE path # 0
      <3>1. Sure(Data(path)) /\ Scanned.events = Events(Data(path))
        BY <2>2, SureFiles DEF Lasting, Scanned, Events, Data
      <3> QED BY <3>1 DEF Sure, SureIsReplayed
    <2> QED BY <2>1, <2>2
  <1> QED BY <1>1, FilesKeepShape, LastingInit, LastingStep, PTL DEF Spec
===============================================================================
