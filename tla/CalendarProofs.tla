---------------------------- MODULE CalendarProofs ----------------------------
(* Theorems about Calendar, for every value of its constants. *)
EXTENDS Calendar, FiniteSetTheorems, TLAPS

-------------------------------------------------------------------------------
(* Type correctness.                                                       *)

IvOK == /\ DOMAIN iv \subseteq Ids
        /\ \A i \in DOMAIN iv : iv[i] \in Intervals /\ iv[i].start < iv[i].end
AllocOK == /\ DOMAIN alloc \subseteq Clients
           /\ \A c \in DOMAIN alloc :
                 /\ alloc[c].members \in Batches
                 /\ alloc[c].kind \in {"Hold", "Booking"}
                 /\ alloc[c].expires_at \in Nat
RulingOK == /\ DOMAIN ruling \subseteq Clients
            /\ \A c \in DOMAIN ruling : ruling[c].rule \in RuleRequests

\* Putting well-formed intervals in keeps the store well-formed.
LEMMA AddedOK ==
    ASSUME IvOK, NEW new, DOMAIN new \subseteq Ids,
           \A i \in DOMAIN new : new[i] \in Intervals /\ new[i].start < new[i].end,
           iv' = Added(new)
    PROVE  IvOK'
  BY DEF IvOK, Added

\* Taking intervals out keeps the store well-formed.
LEMMA DroppedOK ==
    ASSUME IvOK, NEW S, iv' = Dropped(S)
    PROVE  IvOK'
  BY DEF IvOK, Dropped

\* A commit keeps the store well-formed: each booking takes its hold's span.
LEMMA CommittedOK ==
    ASSUME IvOK, NEW H \in SUBSET Holds, NEW commits \in [H -> Ids],
           iv' = Committed(commits)
    PROVE  IvOK'
  <1>1. DOMAIN iv' \subseteq Ids
    BY DEF IvOK, Committed, Holds
  <1>2. ASSUME NEW i \in DOMAIN iv'
        PROVE  iv'[i] \in Intervals /\ iv'[i].start < iv'[i].end
    <2>1. CASE i \in DOMAIN iv
      BY <2>1 DEF IvOK, Committed
    <2>2. CASE i \notin DOMAIN iv
      <3>1. \E h \in DOMAIN commits : commits[h] = i
        BY <2>2, <1>2 DEF Committed
      <3>2. PICK h \in DOMAIN commits :
              /\ commits[h] = i
              /\ h = CHOOSE k \in DOMAIN commits : commits[k] = i
        BY <3>1
      <3>3. iv'[i] = Interval(iv[h], "Booking", 0)
        BY <1>2, <2>2, <3>2 DEF Committed
      <3>4. iv[h] \in Intervals /\ iv[h].start < iv[h].end
        BY <3>2 DEF IvOK, Holds
      <3> QED BY <3>3, <3>4 DEF Interval, Intervals, Kinds
    <2> QED BY <2>1, <2>2
  <1> QED BY <1>1, <1>2 DEF IvOK

\* TypeOK is inductive: one step per action of Next.
LEMMA TypeStep == TypeOK /\ [Next]_vars => TypeOK'
  <1> SUFFICES ASSUME TypeOK, [Next]_vars PROVE TypeOK'
    OBVIOUS
  <1> USE LimitsAssumption
  <1>0. IvOK /\ AllocOK /\ RulingOK
    BY DEF TypeOK, IvOK, AllocOK, RulingOK
  <1>1. ASSUME NEW c \in Clients, NEW b \in Batches, NEW kind \in {"Hold", "Booking"},
               NEW e \in Nat, BeginAllocate(c, b, kind, e)
        PROVE  TypeOK'
    <2>1. AllocOK'
      BY <1>0, <1>1 DEF AllocOK, BeginAllocate, SetCall, Call
    <2> QED BY <1>1, <2>1 DEF TypeOK, AllocOK, BeginAllocate
  <1>2. ASSUME NEW c \in Clients, ReadAncestor(c) PROVE TypeOK'
    <2>1. AllocOK'
      BY <1>0, <1>2 DEF AllocOK, ReadAncestor, SetCall, Call
    <2> QED BY <1>2, <2>1 DEF TypeOK, AllocOK, ReadAncestor
  <1>3. ASSUME NEW c \in Clients, Admit(c) PROVE TypeOK'
    <2> DEFINE m == alloc[c].members
               new == [i \in DOMAIN m |->
                         Interval(m[i], alloc[c].kind, alloc[c].expires_at)]
    <2>1. /\ c \in DOMAIN alloc /\ iv' = Added(new) /\ Finish(c)
          /\ UNCHANGED <<shape, now, ruling, due>>
      BY <1>3 DEF Admit, Collected
    <2>2. /\ m \in Batches /\ alloc[c].kind \in {"Hold", "Booking"}
          /\ alloc[c].expires_at \in Nat
      BY <1>0, <2>1 DEF AllocOK
    <2>3. /\ DOMAIN m \subseteq Ids
          /\ \A i \in DOMAIN m : m[i] \in Members /\ m[i].start < m[i].end
      BY <2>2, BatchesAssumption
    <2>4. \A i \in DOMAIN new : new[i] \in Intervals /\ new[i].start < new[i].end
      BY <2>2, <2>3 DEF Intervals, Interval, Members, Kinds
    <2>5. IvOK'
      <3> HIDE DEF new
      <3>1. DOMAIN new \subseteq Ids
        BY <2>3 DEF new
      <3> QED BY <1>0, <2>1, <2>4, <3>1, AddedOK
    <2>6. AllocOK'
      BY <1>0, <2>1 DEF AllocOK, Finish
    <2> QED BY <2>1, <2>5, <2>6 DEF TypeOK, IvOK, AllocOK
  <1>4. ASSUME NEW c \in Clients, Refuse(c) PROVE TypeOK'
    <2>1. AllocOK'
      BY <1>0, <1>4 DEF AllocOK, Refuse, Finish
    <2> QED BY <1>4, <2>1 DEF TypeOK, AllocOK, Refuse
  <1>5. ASSUME NEW c \in Clients, NEW q \in RuleRequests, NEW op, BeginRule(c, q, op)
        PROVE  TypeOK'
    <2>1. RulingOK'
      BY <1>0, <1>5 DEF RulingOK, BeginRule, SetRuling, Ruling
    <2> QED BY <1>5, <2>1 DEF TypeOK, RulingOK, BeginRule
  <1>6. ASSUME NEW c \in Clients, ReadAboveParent(c) PROVE TypeOK'
    <2>1. RulingOK'
      BY <1>0, <1>6 DEF RulingOK, ReadAboveParent, SetRuling, Ruling
    <2> QED BY <1>6, <2>1 DEF TypeOK, RulingOK, ReadAboveParent
  <1>7. ASSUME NEW c \in Clients, CheckParentCoverage(c) PROVE TypeOK'
    <2>1. RulingOK'
      BY <1>0, <1>7 DEF RulingOK, CheckParentCoverage, SetRuling, Ruling, FinishRule
    <2> QED BY <1>7, <2>1 DEF TypeOK, RulingOK, CheckParentCoverage
  <1>8. ASSUME NEW c \in Clients, WriteRule(c) PROVE TypeOK'
    <2> DEFINE q == ruling[c].rule
               new == [i \in {q.id} |-> Interval(q, q.kind, 0)]
    <2>1. /\ c \in DOMAIN ruling
          /\ iv' = Added(new) \/ iv' = iv
          /\ FinishRule(c) /\ UNCHANGED <<shape, now, alloc, due>>
      BY <1>8 DEF WriteRule
    <2>2. q \in [id : Ids, res : Resources, start : Nat, end : Nat,
                 kind : {"NonBlocking", "Blocking"}] /\ q.start < q.end
      BY <1>0, <2>1, RulesAssumption DEF RulingOK
    <2>3. \A i \in DOMAIN new : new[i] \in Intervals /\ new[i].start < new[i].end
      BY <2>2 DEF Intervals, Interval, Kinds
    <2>4. IvOK'
      <3> HIDE DEF new
      <3>1. DOMAIN new \subseteq Ids
        BY <2>2 DEF new
      <3>2. CASE iv' = Added(new)
        BY <1>0, <2>3, <3>1, <3>2, AddedOK
      <3>3. CASE iv' = iv
        BY <1>0, <3>3 DEF IvOK
      <3> QED BY <2>1, <3>2, <3>3
    <2>5. RulingOK'
      BY <1>0, <2>1 DEF RulingOK, FinishRule
    <2> QED BY <2>1, <2>4, <2>5 DEF TypeOK, IvOK, RulingOK
  <1>9. ASSUME NEW S, iv' = Dropped(S), UNCHANGED <<shape, now, alloc, ruling>>,
               due' \subseteq Ids
        PROVE  TypeOK'
    <2>1. IvOK'
      BY <1>0, <1>9, DroppedOK
    <2> QED BY <1>9, <2>1 DEF TypeOK, IvOK
  <1>10. ASSUME NEW H \in SUBSET Holds, NEW commits \in [H -> Ids], CommitHolds(commits)
         PROVE  TypeOK'
    <2>1. IvOK'
      BY <1>0, <1>10, CommittedOK DEF CommitHolds
    <2> QED BY <1>10, <2>1 DEF TypeOK, IvOK, CommitHolds
  <1>11. CASE AllocateStep
    <2>1. PICK c \in Clients :
             \/ \E b \in Batches : BeginAllocate(c, b, "Booking", 0)
             \/ \E b \in Batches, e \in HoldExpiries :
                   BeginAllocate(c, b, "Hold", HoldExpiry(e))
             \/ ReadAncestor(c) \/ Admit(c) \/ Refuse(c)
      BY <1>11 DEF AllocateStep
    <2>2. \A e \in HoldExpiries : HoldExpiry(e) \in Nat
      BY DEF HoldExpiry, TypeOK
    <2> QED BY <2>1, <2>2, <1>1, <1>2, <1>3, <1>4
  <1>12. CASE RuleStep
    BY <1>12, <1>5, <1>6, <1>7, <1>8 DEF RuleStep
  <1>13. CASE RemoveStep
    <2>1. PICK id \in Ids : /\ iv' = Dropped({id})
                            /\ UNCHANGED <<shape, now, alloc, ruling, due>>
      BY <1>13 DEF RemoveStep, RemoveRule, ReleaseHold, CancelBooking, Remove
    <2> QED BY <2>1, <1>9 DEF TypeOK
  <1>14. CASE CommitStep
    BY <1>14, <1>10 DEF CommitStep
  <1>15. CASE BackgroundStep
    <2>1. ASSUME NEW unlocked, CollectExpiredHolds(unlocked) PROVE TypeOK'
      BY <2>1 DEF TypeOK, CollectExpiredHolds
    <2>2. ASSUME NEW id \in Ids, ExpireHold(id) PROVE TypeOK'
      <3>1. CASE iv' = Dropped({id})
        BY <2>2, <3>1, <1>9 DEF ExpireHold, TypeOK
      <3>2. CASE iv' = iv
        BY <2>2, <3>2 DEF ExpireHold, TypeOK
      <3> QED BY <2>2, <3>1, <3>2 DEF ExpireHold
    <2>3. ASSUME NEW r \in Resources, Gc(r) PROVE TypeOK'
      BY <2>3, <1>9 DEF Gc, TypeOK
    <2> QED BY <1>15, <2>1, <2>2, <2>3 DEF BackgroundStep
  <1>16. CASE ReshapeStep
    BY <1>16, ShapesAssumption DEF ReshapeStep, UpdateResource, TypeOK
  <1>17. CASE Tick
    BY <1>17 DEF Tick, TypeOK
  <1>18. CASE UNCHANGED vars
    BY <1>18 DEF TypeOK, vars
  <1> QED BY <1>11, <1>12, <1>13, <1>14, <1>15, <1>16, <1>17, <1>18 DEF Next

\* Whatever callers, reaper and garbage collector do, every id in use names a
\* well-formed interval of one resource and every call in flight carries a
\* request that passed validation.
THEOREM TypeCorrect == Spec => []TypeOK
  <1>1. Init => TypeOK
    BY ShapesAssumption, LimitsAssumption DEF Init, TypeOK
  <1> QED BY <1>1, TypeStep, PTL DEF Spec

-------------------------------------------------------------------------------
(* Capacity.                                                               *)

\* The allocations that take a unit of r at t: Load(r, t) counts them.
Occ(r, t) == {i \in On(r) : Occupies(iv[i], t, shape[r].buffer_after, now)}

\* The load is a number: the occupants are finitely many.
LEMMA LoadIsOcc ==
    ASSUME TypeOK, NEW r \in Resources, NEW t
    PROVE  /\ Load(r, t) = Cardinality(Occ(r, t))
           /\ Occ(r, t) \subseteq Ids /\ IsFiniteSet(Occ(r, t))
           /\ Load(r, t) \in Nat
  <1>1. Occ(r, t) \in SUBSET Ids
    BY DEF TypeOK, Occ, On
  <1>2. IsFiniteSet(Occ(r, t))
    BY <1>1, IdsAssumption, FS_Subset
  <1>3. Load(r, t) = Cardinality(Occ(r, t))
    BY DEF Load, LoadAt, Occ
  <1> QED BY <1>1, <1>2, <1>3, FS_CardinalityType

\* A step that adds nobody at (r, t) keeps (r, t) within capacity.
LEMMA FewerIsWithin ==
    ASSUME TypeOK, TypeOK', NEW r \in Resources, NEW t,
           shape'[r] = shape[r], Occ(r, t)' \subseteq Occ(r, t),
           WithinCapacity(r, t)
    PROVE  WithinCapacity(r, t)'
  <1>1. Cardinality(Occ(r, t)') <= Cardinality(Occ(r, t))
    BY LoadIsOcc, FS_Subset
  <1>2. /\ Load(r, t) = Cardinality(Occ(r, t))
        /\ Load(r, t)' = Cardinality(Occ(r, t)')
        /\ Load(r, t) \in Nat /\ Load(r, t)' \in Nat
    <2>1. Load(r, t)' = Cardinality(Occ(r, t)')
      BY DEF Load, LoadAt, Occ
    <2>2. Occ(r, t)' \in SUBSET Ids
      BY DEF TypeOK, Occ, On
    <2>3. IsFiniteSet(Occ(r, t)')
      BY <2>2, IdsAssumption, FS_Subset
    <2> QED BY <2>1, <2>3, LoadIsOcc, FS_CardinalityType
  <1>3. shape[r].capacity \in Nat
    BY DEF TypeOK, AllShapes
  <1> QED BY <1>1, <1>2, <1>3 DEF WithinCapacity

\* Taking intervals out (release, cancel, expiry, GC) adds no occupant.
LEMMA DroppedAddsNobody ==
    ASSUME NEW r, NEW t, NEW S, iv' = Dropped(S), shape'[r] = shape[r], now' = now
    PROVE  Occ(r, t)' \subseteq Occ(r, t)
  BY DEF Occ, On, Dropped, Occupies, Active

\* Time passing adds no occupant: holds only lapse.
LEMMA TickAddsNobody ==
    ASSUME TypeOK, NEW r, NEW t, Tick
    PROVE  Occ(r, t)' \subseteq Occ(r, t)
  <1>1. \A i \in DOMAIN iv : iv[i].expires_at \in Nat
    BY DEF TypeOK, Intervals
  <1> QED BY <1>1 DEF Tick, TypeOK, Occ, On, Occupies, Active

\* Writing a rule adds no occupant, even over an interval of the same id.
LEMMA RuleAddsNobody ==
    ASSUME TypeOK, NEW r, NEW t, NEW c, WriteRule(c)
    PROVE  Occ(r, t)' \subseteq Occ(r, t)
  <1> DEFINE q == ruling[c].rule
             new == [i \in {q.id} |-> Interval(q, q.kind, 0)]
  <1>1. /\ c \in DOMAIN ruling
        /\ iv' = Added(new) \/ iv' = iv
        /\ shape' = shape /\ now' = now
    BY DEF WriteRule
  <1>2. q.kind \in {"NonBlocking", "Blocking"}
    BY <1>1, RulesAssumption DEF TypeOK
  <1>3. CASE iv' = iv
    BY <1>1, <1>3 DEF Occ, On
  <1>4. CASE iv' = Added(new)
    <2>1. SUFFICES ASSUME NEW i \in Occ(r, t)' PROVE i \in Occ(r, t)
      OBVIOUS
    <2>2. i # q.id
      <3>1. ASSUME i = q.id PROVE iv'[i].kind = q.kind
        BY <1>4, <3>1 DEF Added, Interval
      <3> QED BY <3>1, <1>2, <2>1 DEF Occ, Occupies, Active, IsBooking, IsHold
    <2>3. i \in DOMAIN iv /\ iv'[i] = iv[i]
      BY <1>4, <2>1, <2>2 DEF Added, Occ, On
    <2> QED BY <1>1, <2>1, <2>3 DEF Occ, On
  <1> QED BY <1>1, <1>3, <1>4

\* An admitted batch leaves every instant of every resource within capacity.
LEMMA AdmitKeepsCapacity ==
    ASSUME TypeOK, TypeOK', NEW c, Admit(c), NEW r \in Resources, NEW t \in Instants,
           WithinCapacity(r, t)
    PROVE  WithinCapacity(r, t)'
  <1> DEFINE m == alloc[c].members
             buf == shape[r].buffer_after
             cap == shape[r].capacity
             New == {j \in MembersOn(m, r) : InSpan(Buffered(m[j], buf), t)}
  <1>1. /\ c \in DOMAIN alloc /\ Admissible(m, alloc[c].ctx)
        /\ shape' = shape /\ now' = now
    BY DEF Admit, Collected
  <1>2. /\ m \in Batches /\ DOMAIN m \subseteq Ids
        /\ \A j \in DOMAIN m : m[j] \in Members /\ m[j].start < m[j].end
    BY <1>1, BatchesAssumption DEF TypeOK
  <1>3. cap \in Nat /\ cap > 0 /\ buf \in Nat /\ t \in Nat
    BY InstantsAssumption DEF TypeOK, AllShapes
  <1>4. Occ(r, t)' \subseteq Occ(r, t) \cup New
    <2>1. SUFFICES ASSUME NEW i \in Occ(r, t)' PROVE i \in Occ(r, t) \cup New
      OBVIOUS
    <2>2. iv' = Added([k \in DOMAIN m |->
                          Interval(m[k], alloc[c].kind, alloc[c].expires_at)])
      BY DEF Admit
    <2>3. CASE i \in DOMAIN m
      <3>1. iv'[i] = Interval(m[i], alloc[c].kind, alloc[c].expires_at)
        BY <2>2, <2>3 DEF Added
      <3>2. m[i].res = r /\ m[i].start <= t /\ t < m[i].end + buf
        BY <1>1, <2>1, <3>1 DEF Interval, Occ, On, Occupies
      <3> QED BY <2>3, <3>2 DEF MembersOn, InSpan, Buffered, Span
    <2>4. CASE i \notin DOMAIN m
      <3>1. i \in DOMAIN iv /\ iv'[i] = iv[i]
        BY <2>1, <2>2, <2>4 DEF Added, Occ, On
      <3> QED BY <1>1, <2>1, <3>1 DEF Occ, On
    <2> QED BY <2>1, <2>3, <2>4
  <1>5. CASE New = {}
    BY <1>1, <1>4, <1>5, FewerIsWithin
  <1>6. CASE New # {}
    <2>1. PICK j \in MembersOn(m, r) : InSpan(Buffered(m[j], buf), t)
      BY <1>6
    <2>2. /\ j \in DOMAIN m /\ m[j].res = r
          /\ m[j].start <= t /\ t < m[j].end + buf
      BY <2>1 DEF MembersOn, InSpan, Buffered, Span
    <2>3. Load(r, t) < cap
      <3>1. HasRoom(iv, On(r), m[j], cap, buf, now)
        BY <1>1, <2>2 DEF Admissible
      <3>2. t \in m[j].start .. (m[j].end + buf - 1)
        BY <1>2, <1>3, <2>2 DEF Members
      <3> QED BY <3>1, <3>2 DEF HasRoom, Load
    <2>4. /\ IsFiniteSet(MembersOn(m, r)) /\ IsFiniteSet(New)
          /\ New \subseteq MembersOn(m, r) /\ Cardinality(New) \in Nat
          /\ Cardinality(New) <= Cardinality(MembersOn(m, r))
      <3>1. MembersOn(m, r) \in SUBSET Ids /\ New \in SUBSET MembersOn(m, r)
        BY <1>2 DEF MembersOn
      <3> QED BY <3>1, IdsAssumption, FS_Subset, FS_CardinalityType
    <2>5. Cardinality(New) + Load(r, t) <= cap
      <3>1. CASE ~(Cardinality(MembersOn(m, r)) > 1)
        <4>1. Cardinality(MembersOn(m, r)) \in Nat
          BY <2>4, FS_CardinalityType
        <4> QED BY <1>3, <2>3, <2>4, <3>1, <4>1, LoadIsOcc
      <3>2. CASE Cardinality(MembersOn(m, r)) > 1
        <4>1. BatchFits(m, r)
          BY <1>1, <2>2 DEF Admissible, ResourcesOf
        <4>2. BatchLoadAt(m, MembersOn(m, r), t, buf) = Cardinality(New)
          BY DEF BatchLoadAt
        <4>3. CASE cap <= 1
          BY <1>3, <2>3, <2>4, <3>2, <4>1, <4>2, <4>3, LoadIsOcc DEF BatchFits
        <4>4. CASE ~(cap <= 1)
          <5>1. {i \in NearBatch(m, r) : Occupies(iv[i], t, buf, now)} = Occ(r, t)
            <6>1. ASSUME NEW i \in Occ(r, t) PROVE i \in NearBatch(m, r)
              <7>1. /\ i \in On(r) /\ iv[i] \in Intervals
                    /\ iv[i].start <= t /\ t < iv[i].end + buf
                BY <6>1 DEF Occ, On, Occupies, TypeOK
              <7>2. iv[i].start < m[j].end + buf /\ iv[i].end > m[j].start - buf
                BY <1>2, <1>3, <2>2, <7>1 DEF Members, Intervals
              <7> QED BY <2>1, <7>1, <7>2 DEF NearBatch
            <6> QED BY <6>1 DEF Occ, NearBatch
          <5>2. LoadAt(iv, NearBatch(m, r), t, buf, now) = Load(r, t)
            BY <5>1, LoadIsOcc DEF LoadAt
          <5> QED BY <3>2, <4>1, <4>2, <4>4, <5>2 DEF BatchFits
        <4> QED BY <4>3, <4>4
      <3> QED BY <3>1, <3>2
    <2>6. Cardinality(Occ(r, t)') <= Cardinality(Occ(r, t)) + Cardinality(New)
      <3>1. IsFiniteSet(Occ(r, t)) /\ IsFiniteSet(New)
        BY <2>4, LoadIsOcc
      <3> DEFINE U == Occ(r, t) \cup New
      <3>2. /\ IsFiniteSet(U)
            /\ Cardinality(U) = Cardinality(Occ(r, t)) + Cardinality(New)
                                  - Cardinality(Occ(r, t) \cap New)
        BY <3>1, FS_Union
      <3>3. Cardinality(Occ(r, t) \cap New) \in Nat
        BY <3>1, FS_Intersection, FS_CardinalityType
      <3>4. Cardinality(Occ(r, t)') <= Cardinality(U) /\ Cardinality(Occ(r, t)') \in Nat
        BY <1>4, <3>2, FS_Subset, FS_CardinalityType
      <3>5. Cardinality(Occ(r, t)) \in Nat /\ Cardinality(New) \in Nat /\ Cardinality(U) \in Nat
        BY <3>1, <3>2, FS_CardinalityType
      <3> HIDE DEF U, New
      <3> QED BY <3>2, <3>3, <3>4, <3>5
    <2>7. Load(r, t)' = Cardinality(Occ(r, t)')
      BY DEF Load, LoadAt, Occ
    <2>8. Load(r, t) = Cardinality(Occ(r, t)) /\ Load(r, t) \in Nat
      BY LoadIsOcc
    <2>9. Cardinality(Occ(r, t)') \in Nat
      <3>1. Occ(r, t)' \in SUBSET Ids
        BY DEF TypeOK, Occ, On
      <3> QED BY <3>1, IdsAssumption, FS_Subset, FS_CardinalityType
    <2> HIDE DEF New
    <2> QED BY <1>1, <1>3, <2>4, <2>5, <2>6, <2>7, <2>8, <2>9 DEF WithinCapacity
  <1> QED BY <1>5, <1>6

\* A commit leaves an instant within capacity unless it revives two lapsed
\* holds there.  Each occupant afterwards is matched with an occupant before,
\* or with the one lapsed hold, whose own check found a unit left for it.
LEMMA CommitKeepsCapacity ==
    ASSUME TypeOK, TypeOK', NEW H \in SUBSET Holds, NEW commits \in [H -> Ids],
           CommitHolds(commits), NEW r \in Resources, NEW t \in Instants,
           ~RevivesTwo(r, t), WithinCapacity(r, t)
    PROVE  WithinCapacity(r, t)'
  <1> DEFINE buf == shape[r].buffer_after
             cap == shape[r].capacity
             C == {h \in H : iv[h].res = r /\ InSpan(Buffered(iv[h], buf), t)}
             HoldOf(i) == CHOOSE h \in DOMAIN commits : commits[h] = i
             f == [i \in Occ(r, t)' |-> IF i \in DOMAIN iv THEN i ELSE HoldOf(i)]
  <1>1. /\ DOMAIN commits = H /\ H \subseteq DOMAIN iv
        /\ \A h \in H : IsHold(iv[h].kind) /\ commits[h] \notin DOMAIN iv
        /\ \A h, k \in H : commits[h] = commits[k] => h = k
        /\ \A h \in H : HasRoom(iv, On(iv[h].res) \ {h}, iv[h],
                                shape[iv[h].res].capacity,
                                shape[iv[h].res].buffer_after, now)
        /\ iv' = Committed(commits) /\ shape' = shape /\ now' = now
    BY DEF CommitHolds, Committable, Holds
  <1>2. cap \in Nat /\ cap > 0 /\ buf \in Nat /\ t \in Nat /\ now \in Nat
    BY InstantsAssumption DEF TypeOK, AllShapes
  <1>3. DOMAIN iv' = (DOMAIN iv \ H) \cup {commits[h] : h \in H}
    BY <1>1 DEF Committed
  <1>4. ASSUME NEW i \in DOMAIN iv', i \in DOMAIN iv
        PROVE  i \notin H /\ iv'[i] = iv[i]
    BY <1>1, <1>3, <1>4 DEF Committed
  <1>5. ASSUME NEW i \in DOMAIN iv', i \notin DOMAIN iv
        PROVE  /\ HoldOf(i) \in H /\ commits[HoldOf(i)] = i
               /\ iv'[i] = Interval(iv[HoldOf(i)], "Booking", 0)
    <2>1. \E h \in DOMAIN commits : commits[h] = i
      BY <1>1, <1>3, <1>5
    <2>2. HoldOf(i) \in DOMAIN commits /\ commits[HoldOf(i)] = i
      BY <2>1
    <2>3. iv'[i] = Interval(iv[HoldOf(i)], "Booking", 0)
      BY <1>1, <1>3, <1>5 DEF Committed
    <2> QED BY <1>1, <2>2, <2>3
  <1>6. f \in Injection(Occ(r, t)', Occ(r, t) \cup C)
    <2>1. ASSUME NEW i \in Occ(r, t)' PROVE f[i] \in Occ(r, t) \cup C
      <3>1. i \in DOMAIN iv'
        BY <2>1 DEF Occ, On
      <3>2. CASE i \in DOMAIN iv
        <4>1. iv'[i] = iv[i]
          BY <1>4, <3>1, <3>2
        <4>2. i \in Occ(r, t)
          BY <1>1, <2>1, <3>2, <4>1 DEF Occ, On
        <4> QED BY <3>2, <4>2
      <3>3. CASE i \notin DOMAIN iv
        <4>1. /\ HoldOf(i) \in H
              /\ iv'[i] = Interval(iv[HoldOf(i)], "Booking", 0)
          BY <1>5, <3>1, <3>3
        <4>2. /\ iv'[i].res = iv[HoldOf(i)].res
              /\ iv'[i].start = iv[HoldOf(i)].start
              /\ iv'[i].end = iv[HoldOf(i)].end
          BY <4>1 DEF Interval
        <4>3. iv'[i].res = r /\ iv'[i].start <= t /\ t < iv'[i].end + buf
          BY <1>1, <2>1 DEF Occ, On, Occupies
        <4>4. HoldOf(i) \in C
          BY <4>1, <4>2, <4>3 DEF InSpan, Buffered, Span
        <4> HIDE DEF C, HoldOf
        <4> QED BY <3>3, <4>4
      <3> QED BY <3>2, <3>3
    <2>2. ASSUME NEW i \in Occ(r, t)', NEW j \in Occ(r, t)', f[i] = f[j]
          PROVE  i = j
      <3>1. i \in DOMAIN iv' /\ j \in DOMAIN iv'
        BY <2>2 DEF Occ, On
      <3>2. \A k \in Occ(r, t)' : f[k] = IF k \in DOMAIN iv THEN k ELSE HoldOf(k)
        OBVIOUS
      <3>3. \A k \in DOMAIN iv' : k \in DOMAIN iv => k \notin H
        BY <1>4
      <3>4. \A k \in DOMAIN iv' : k \notin DOMAIN iv =>
                HoldOf(k) \in H /\ commits[HoldOf(k)] = k
        BY <1>5
      <3> HIDE DEF f, HoldOf
      <3> QED BY <2>2, <3>1, <3>2, <3>3, <3>4
    <2>3. f \in [Occ(r, t)' -> Occ(r, t) \cup C]
      BY <2>1
    <2> HIDE DEF f
    <2>4. DOMAIN f = Occ(r, t)'
      BY <2>3
    <2> QED BY <2>2, <2>3, <2>4 DEF Injection, IsInjective
  <1> HIDE DEF f
  <1>7. IsFiniteSet(Occ(r, t)) /\ IsFiniteSet(Occ(r, t) \cup C)
    <2>1. Occ(r, t) \cup C \in SUBSET Ids
      BY <1>1 DEF TypeOK, Occ, On
    <2> HIDE DEF C
    <2> QED BY <2>1, LoadIsOcc, IdsAssumption, FS_Subset
  <1>8. Cardinality(Occ(r, t)') <= Cardinality(Occ(r, t) \cup C)
    BY <1>6, <1>7, FS_Injection
  <1>9. ASSUME NEW h \in C, h \notin Occ(r, t)
        PROVE  Expired(iv[h]) /\ h \notin DOMAIN iv' /\ Load(r, t) < cap
    <2>1. /\ h \in On(r) /\ h \in H /\ iv[h].res = r
          /\ iv[h].start <= t /\ t < iv[h].end + buf
      BY <1>1, <1>9 DEF On, InSpan, Buffered, Span
    <2>2. iv[h] \in Intervals
      BY <2>1 DEF On, TypeOK
    <2>3. Expired(iv[h])
      BY <1>1, <1>2, <1>9, <2>1, <2>2 DEF Expired, Occ, Occupies, Active, Intervals
    <2>4. h \notin DOMAIN iv'
      BY <1>1, <1>3, <2>1
    <2>5. t \in iv[h].start .. (iv[h].end + buf - 1)
      BY <1>2, <2>1, <2>2 DEF Intervals
    <2>6. LoadAt(iv, On(r) \ {h}, t, buf, now) < cap
      BY <1>1, <2>1, <2>5 DEF HasRoom
    <2>7. {i \in On(r) \ {h} : Occupies(iv[i], t, buf, now)} = Occ(r, t)
      BY <1>9 DEF Occ
    <2>8. LoadAt(iv, On(r) \ {h}, t, buf, now) = Load(r, t)
      BY <2>7, LoadIsOcc DEF LoadAt
    <2> QED BY <2>3, <2>4, <2>6, <2>8
  <1>10. ASSUME NEW h \in C, NEW k \in C, h \notin Occ(r, t), k \notin Occ(r, t)
         PROVE  h = k
    <2>1. Expired(iv[h]) /\ Expired(iv[k]) /\ h \notin DOMAIN iv' /\ k \notin DOMAIN iv'
      BY <1>9, <1>10
    <2>2. h \in On(r) /\ k \in On(r)
      BY <1>1, <1>10 DEF On
    <2>3. commits[h] \in DOMAIN iv' \ DOMAIN iv /\ IsBooking(iv'[commits[h]].kind)
      <3>1. commits[h] \in DOMAIN iv' \ DOMAIN iv
        BY <1>1, <1>3, <1>10
      <3> QED BY <1>5, <3>1 DEF Interval, IsBooking
    <2> QED BY <1>10, <2>1, <2>2, <2>3 DEF RevivesTwo
  <1>11. /\ Load(r, t) = Cardinality(Occ(r, t)) /\ Load(r, t) \in Nat
         /\ Load(r, t)' = Cardinality(Occ(r, t)') /\ Load(r, t)' \in Nat
    <2>1. Load(r, t)' = Cardinality(Occ(r, t)')
      BY DEF Load, LoadAt, Occ
    <2>2. IsFiniteSet(Occ(r, t)')
      BY <1>6, <1>7, FS_Injection
    <2> QED BY <2>1, <2>2, LoadIsOcc, FS_CardinalityType
  <1>12. shape' = shape
    BY <1>1
  <1>13. CASE C \subseteq Occ(r, t)
    <2>1. Occ(r, t) \cup C = Occ(r, t)
      BY <1>13
    <2>2. Load(r, t)' <= Load(r, t)
      BY <1>8, <1>11, <2>1
    <2> HIDE DEF C
    <2> QED BY <1>2, <1>11, <1>12, <2>2 DEF WithinCapacity
  <1>14. CASE ~(C \subseteq Occ(r, t))
    <2>1. PICK h \in C : h \notin Occ(r, t)
      BY <1>14
    <2>2. Occ(r, t) \cup C = Occ(r, t) \cup {h}
      <3> HIDE DEF C
      <3> QED BY <1>10, <2>1
    <2>3. Cardinality(Occ(r, t) \cup {h}) = Cardinality(Occ(r, t)) + 1
      BY <1>7, <2>1, FS_AddElement
    <2>4. Load(r, t) < cap
      BY <1>9, <2>1
    <2>5. Load(r, t)' <= Load(r, t) + 1
      BY <1>8, <1>11, <2>2, <2>3
    <2> HIDE DEF C
    <2> QED BY <1>2, <1>11, <1>12, <2>4, <2>5 DEF WithinCapacity
  <1> QED BY <1>13, <1>14

\* Every step keeps an instant within capacity, but for a new shape and a
\* commit that revives two lapsed holds: one case per action.
LEMMA StepWithinCapacity ==
    ASSUME TypeOK, TypeOK', [Next]_vars, NEW r \in Resources, NEW t \in Instants,
           shape'[r] = shape[r], ~RevivesTwo(r, t), WithinCapacity(r, t)
    PROVE  WithinCapacity(r, t)'
  <1>1. ASSUME iv' = iv, now' = now PROVE WithinCapacity(r, t)'
    BY <1>1 DEF WithinCapacity, Load, On
  <1>2. ASSUME NEW S, iv' = Dropped(S), now' = now PROVE WithinCapacity(r, t)'
    BY <1>2, DroppedAddsNobody, FewerIsWithin
  <1>3. CASE AllocateStep
    <2>1. CASE \E c \in Clients : Admit(c)
      BY <2>1, AdmitKeepsCapacity
    <2>2. CASE ~\E c \in Clients : Admit(c)
      BY <1>1, <1>3, <2>2 DEF AllocateStep, BeginAllocate, ReadAncestor, Refuse
    <2> QED BY <2>1, <2>2
  <1>4. CASE RuleStep
    <2>1. CASE \E c \in Clients : WriteRule(c)
      BY <2>1, RuleAddsNobody, FewerIsWithin
    <2>2. CASE ~\E c \in Clients : WriteRule(c)
      BY <1>1, <1>4, <2>2 DEF RuleStep, BeginRule, ReadAboveParent, CheckParentCoverage
    <2> QED BY <2>1, <2>2
  <1>5. CASE RemoveStep
    BY <1>2, <1>5 DEF RemoveStep, RemoveRule, ReleaseHold, CancelBooking, Remove
  <1>6. CASE CommitStep
    BY <1>6, CommitKeepsCapacity DEF CommitStep
  <1>7. CASE BackgroundStep
    <2>1. ASSUME NEW unlocked, CollectExpiredHolds(unlocked) PROVE WithinCapacity(r, t)'
      BY <1>1, <2>1 DEF CollectExpiredHolds
    <2>2. ASSUME NEW id \in Ids, ExpireHold(id) PROVE WithinCapacity(r, t)'
      BY <1>1, <1>2, <2>2 DEF ExpireHold
    <2>3. ASSUME NEW s \in Resources, Gc(s) PROVE WithinCapacity(r, t)'
      BY <1>2, <2>3 DEF Gc
    <2> QED BY <1>7, <2>1, <2>2, <2>3 DEF BackgroundStep
  <1>8. CASE ReshapeStep
    BY <1>1, <1>8 DEF ReshapeStep, UpdateResource
  <1>9. CASE Tick
    BY <1>9, TickAddsNobody, FewerIsWithin
  <1>10. CASE UNCHANGED vars
    BY <1>1, <1>10 DEF vars
  <1> QED BY <1>3, <1>4, <1>5, <1>6, <1>7, <1>8, <1>9, <1>10 DEF Next

\* INV-01 step by step, for any number of callers, resources, units, buffers
\* and batch sizes: a step takes an instant past capacity only by reshaping the
\* resource or by committing two lapsed holds of that instant together.
THEOREM CapacityKept == Spec => StepKeepsCapacity
  <1>1. TypeOK /\ TypeOK' /\ [Next]_vars =>
          [\A r \in Resources, t \in Instants :
              /\ shape'[r] = shape[r] /\ ~RevivesTwo(r, t)
              /\ WithinCapacity(r, t)
              => WithinCapacity(r, t)']_vars
    BY StepWithinCapacity
  <1> QED BY <1>1, TypeCorrect, PTL DEF Spec, StepKeepsCapacity

\* A step that only adds ids, or only takes ids out, revives nothing: so only
\* commits have to be restrained for SteadySpec.
LEMMA SteadyStep ==
    ASSUME SteadyNext
    PROVE  /\ Next /\ shape' = shape
           /\ \A r \in Resources, t \in Instants : ~RevivesTwo(r, t)
  <1>1. Next
    BY DEF SteadyNext, SteadyCommit, Next
  <1> SUFFICES /\ shape' = shape
               /\ \A r \in Resources, t \in Instants : ~RevivesTwo(r, t)
    BY <1>1
  <1>2. ASSUME DOMAIN iv \subseteq DOMAIN iv' \/ DOMAIN iv' \subseteq DOMAIN iv
        PROVE  \A r \in Resources, t \in Instants : ~RevivesTwo(r, t)
    BY <1>2 DEF RevivesTwo, On
  <1>3. \A f : iv' = Added(f) => DOMAIN iv \subseteq DOMAIN iv'
    BY DEF Added
  <1>4. \A S : iv' = Dropped(S) => DOMAIN iv' \subseteq DOMAIN iv
    BY DEF Dropped
  <1>5. CASE AllocateStep
    <2>1. shape' = shape
      BY <1>5 DEF AllocateStep, BeginAllocate, ReadAncestor, Admit, Refuse
    <2>2. DOMAIN iv \subseteq DOMAIN iv'
      <3>1. ASSUME NEW c \in Clients, Admit(c) PROVE DOMAIN iv \subseteq DOMAIN iv'
        BY <1>3, <3>1 DEF Admit
      <3> QED BY <1>5, <3>1 DEF AllocateStep, BeginAllocate, ReadAncestor, Refuse
    <2> QED BY <1>2, <2>1, <2>2
  <1>6. CASE RuleStep
    <2>1. shape' = shape
      BY <1>6 DEF RuleStep, BeginRule, ReadAboveParent, CheckParentCoverage, WriteRule
    <2>2. DOMAIN iv \subseteq DOMAIN iv'
      <3>1. ASSUME NEW c \in Clients, WriteRule(c) PROVE DOMAIN iv \subseteq DOMAIN iv'
        BY <1>3, <3>1 DEF WriteRule
      <3> QED BY <1>6, <3>1 DEF RuleStep, BeginRule, ReadAboveParent, CheckParentCoverage
    <2> QED BY <1>2, <2>1, <2>2
  <1>7. CASE RemoveStep
    BY <1>2, <1>4, <1>7 DEF RemoveStep, RemoveRule, ReleaseHold, CancelBooking, Remove
  <1>8. CASE SteadyCommit
    BY <1>8 DEF SteadyCommit, CommitStep, CommitHolds
  <1>9. CASE BackgroundStep
    <2>1. shape' = shape
      BY <1>9 DEF BackgroundStep, CollectExpiredHolds, ExpireHold, Gc
    <2>2. DOMAIN iv' \subseteq DOMAIN iv
      BY <1>4, <1>9 DEF BackgroundStep, CollectExpiredHolds, ExpireHold, Gc
    <2> QED BY <1>2, <2>1, <2>2
  <1>10. CASE Tick
    BY <1>2, <1>10 DEF Tick
  <1> QED BY <1>5, <1>6, <1>7, <1>8, <1>9, <1>10 DEF SteadyNext

\* INV-01 as an invariant: while shapes are left alone and no commit revives
\* two lapsed holds of one instant, no instant is ever double-booked.
THEOREM NoDoubleBooking == SteadySpec => []NeverDoubleBook
  <1> DEFINE Inv == TypeOK /\ NeverDoubleBook
  <1>1. Init => Inv
    <2>1. Init => TypeOK
      BY ShapesAssumption, LimitsAssumption DEF Init, TypeOK
    <2>2. ASSUME Init, NEW r \in Resources, NEW t PROVE WithinCapacity(r, t)
      <3>1. Occ(r, t) = {}
        BY <2>2 DEF Init, Occ, On
      <3>2. Load(r, t) = 0
        BY <3>1, FS_EmptySet DEF Load, LoadAt, Occ
      <3> QED BY <2>2, <3>2, ShapesAssumption DEF Init, WithinCapacity, AllShapes
    <2> QED BY <2>1, <2>2 DEF NeverDoubleBook
  <1>2. Inv /\ [SteadyNext]_vars => Inv'
    <2> SUFFICES ASSUME Inv, [SteadyNext]_vars PROVE Inv'
      OBVIOUS
    <2>1. TypeOK'
      BY TypeStep, SteadyStep
    <2>2. CASE SteadyNext
      BY <2>1, <2>2, SteadyStep, StepWithinCapacity DEF NeverDoubleBook
    <2>3. CASE UNCHANGED vars
      BY <2>1, <2>3 DEF vars, NeverDoubleBook, WithinCapacity, Load, On
    <2> QED BY <2>2, <2>3
  <1> QED BY <1>1, <1>2, PTL DEF SteadySpec

-------------------------------------------------------------------------------
(* Hold expiry and garbage collection.                                     *)

\* The expiry is fixed before the call waits for its guard, so the holds on
\* their way in have to be capped as well: HoldExpiryCapped alone is not
\* inductive.
InFlightCapped ==
    \A c \in DOMAIN alloc : alloc[c].kind = "Hold" => alloc[c].expires_at <= now + MaxTtl

\* Both caps survive every step: the clock only raises them.
LEMMA CappedStep ==
    TypeOK /\ HoldExpiryCapped /\ InFlightCapped /\ [Next]_vars
        => HoldExpiryCapped' /\ InFlightCapped'
  <1> SUFFICES ASSUME TypeOK, HoldExpiryCapped, InFlightCapped, [Next]_vars
               PROVE  HoldExpiryCapped' /\ InFlightCapped'
    OBVIOUS
  <1> USE LimitsAssumption
  <1>1. ASSUME iv' = iv, now' = now PROVE HoldExpiryCapped'
    BY <1>1 DEF HoldExpiryCapped
  <1>2. ASSUME alloc' = alloc, now' = now PROVE InFlightCapped'
    BY <1>2 DEF InFlightCapped
  <1>3. ASSUME NEW S, iv' = Dropped(S), now' = now PROVE HoldExpiryCapped'
    BY <1>3 DEF HoldExpiryCapped, Dropped
  <1>4. ASSUME NEW c, NEW b, NEW kind, NEW e, BeginAllocate(c, b, kind, e),
               kind = "Hold" => e <= now + MaxTtl
        PROVE  HoldExpiryCapped' /\ InFlightCapped'
    <2>1. InFlightCapped'
      BY <1>4 DEF BeginAllocate, SetCall, Call, InFlightCapped
    <2> QED BY <1>1, <1>4, <2>1 DEF BeginAllocate
  <1>5. ASSUME NEW c, ReadAncestor(c) PROVE HoldExpiryCapped' /\ InFlightCapped'
    <2>1. InFlightCapped'
      BY <1>5 DEF ReadAncestor, SetCall, Call, InFlightCapped
    <2> QED BY <1>1, <1>5, <2>1 DEF ReadAncestor
  <1>6. ASSUME NEW c, Admit(c) PROVE HoldExpiryCapped' /\ InFlightCapped'
    <2> DEFINE m == alloc[c].members
    <2>1. /\ c \in DOMAIN alloc /\ now' = now /\ Finish(c)
          /\ iv' = Added([i \in DOMAIN m |->
                            Interval(m[i], alloc[c].kind, alloc[c].expires_at)])
      BY <1>6 DEF Admit, Collected
    <2>2. InFlightCapped'
      BY <2>1 DEF Finish, InFlightCapped
    <2>3. ASSUME NEW i \in DOMAIN iv', IsHold(iv'[i].kind)
          PROVE  iv'[i].expires_at <= now' + MaxTtl
      <3>1. CASE i \in DOMAIN m
        <4>1. iv'[i] = Interval(m[i], alloc[c].kind, alloc[c].expires_at)
          BY <2>1, <3>1 DEF Added
        <4>2. iv'[i].kind = alloc[c].kind /\ iv'[i].expires_at = alloc[c].expires_at
          BY <4>1 DEF Interval
        <4> QED BY <2>1, <2>3, <4>2 DEF InFlightCapped, IsHold
      <3>2. CASE i \notin DOMAIN m
        BY <2>1, <2>3, <3>2 DEF Added, HoldExpiryCapped
      <3> QED BY <3>1, <3>2
    <2> QED BY <2>2, <2>3 DEF HoldExpiryCapped
  <1>7. ASSUME NEW c, Refuse(c) PROVE HoldExpiryCapped' /\ InFlightCapped'
    <2>1. InFlightCapped'
      BY <1>7 DEF Refuse, Finish, InFlightCapped
    <2> QED BY <1>1, <1>7, <2>1 DEF Refuse
  <1>8. ASSUME NEW c, WriteRule(c) PROVE HoldExpiryCapped' /\ InFlightCapped'
    <2> DEFINE q == ruling[c].rule
    <2>1. /\ c \in DOMAIN ruling /\ now' = now /\ alloc' = alloc
          /\ iv' = Added([i \in {q.id} |-> Interval(q, q.kind, 0)]) \/ iv' = iv
      BY <1>8 DEF WriteRule
    <2>2. CASE iv' = iv
      BY <1>1, <1>2, <2>1, <2>2
    <2>3. CASE iv' = Added([i \in {q.id} |-> Interval(q, q.kind, 0)])
      <3>1. ASSUME NEW i \in DOMAIN iv', IsHold(iv'[i].kind)
            PROVE  iv'[i].expires_at <= now' + MaxTtl
        <4>1. CASE i = q.id
          <5>1. iv'[i].expires_at = 0
            BY <2>3, <4>1 DEF Added, Interval
          <5> QED BY <2>1, <5>1 DEF TypeOK
        <4>2. CASE i # q.id
          BY <2>1, <2>3, <3>1, <4>2 DEF Added, HoldExpiryCapped
        <4> QED BY <4>1, <4>2
      <3> QED BY <1>2, <2>1, <3>1 DEF HoldExpiryCapped
    <2> QED BY <2>1, <2>2, <2>3
  <1>9. ASSUME NEW commits, CommitHolds(commits) PROVE HoldExpiryCapped' /\ InFlightCapped'
    <2>1. iv' = Committed(commits) /\ now' = now /\ alloc' = alloc
      BY <1>9 DEF CommitHolds
    <2>2. ASSUME NEW i \in DOMAIN iv', IsHold(iv'[i].kind)
          PROVE  iv'[i].expires_at <= now' + MaxTtl
      <3>1. CASE i \in DOMAIN iv
        BY <2>1, <2>2, <3>1 DEF Committed, HoldExpiryCapped
      <3>2. CASE i \notin DOMAIN iv
        <4>1. iv'[i].kind = "Booking"
          BY <2>1, <3>2 DEF Committed, Interval
        <4> QED BY <2>2, <4>1 DEF IsHold
      <3> QED BY <3>1, <3>2
    <2> QED BY <1>2, <2>1, <2>2 DEF HoldExpiryCapped
  <1>10. CASE AllocateStep
    <2>1. \A e \in HoldExpiries : HoldExpiry(e) <= now + MaxTtl
      BY DEF HoldExpiry, TypeOK
    <2> QED BY <1>10, <2>1, <1>4, <1>5, <1>6, <1>7 DEF AllocateStep
  <1>11. CASE RuleStep
    <2>1. CASE \E c \in Clients : WriteRule(c)
      BY <1>8, <2>1
    <2>2. CASE ~\E c \in Clients : WriteRule(c)
      BY <1>1, <1>2, <1>11, <2>2
         DEF RuleStep, BeginRule, ReadAboveParent, CheckParentCoverage
    <2> QED BY <2>1, <2>2
  <1>12. CASE RemoveStep
    BY <1>2, <1>3, <1>12 DEF RemoveStep, RemoveRule, ReleaseHold, CancelBooking, Remove
  <1>13. CASE CommitStep
    BY <1>9, <1>13 DEF CommitStep
  <1>14. CASE BackgroundStep
    BY <1>1, <1>2, <1>3, <1>14
       DEF BackgroundStep, CollectExpiredHolds, ExpireHold, Gc
  <1>15. CASE ReshapeStep
    BY <1>1, <1>2, <1>15 DEF ReshapeStep, UpdateResource
  <1>16. CASE Tick
    BY <1>16 DEF Tick, TypeOK, Intervals, HoldExpiryCapped, InFlightCapped
  <1>17. CASE UNCHANGED vars
    BY <1>1, <1>2, <1>17 DEF vars
  <1> QED BY <1>10, <1>11, <1>12, <1>13, <1>14, <1>15, <1>16, <1>17 DEF Next

\* AVAIL-08 for every ceiling, request and interleaving: no hold outlives the
\* server's clock by more than the ceiling.
THEOREM HoldsCapped == Spec => []HoldExpiryCapped
  <1>1. Init => HoldExpiryCapped /\ InFlightCapped
    BY DEF Init, HoldExpiryCapped, InFlightCapped
  <1> QED BY <1>1, CappedStep, TypeCorrect, PTL DEF Spec

\* What gc_past_intervals drops was over, turnaround included, before the
\* retention period began.
LEMMA GcKeepsOccupants ==
    ASSUME TypeOK, NEW r \in Resources, Gc(r), NEW t \in Instants, t + Retention >= now
    PROVE  Load(r, t)' = Load(r, t)
  <1>1. t \in Nat /\ Retention \in Nat /\ now \in Nat /\ shape[r].buffer_after \in Nat
    BY InstantsAssumption, LimitsAssumption DEF TypeOK, AllShapes
  <1>2. /\ iv' = Dropped({i \in On(r) : Dominated(iv[i])})
        /\ shape' = shape /\ now' = now
    BY DEF Gc
  <1>3. ASSUME NEW i \in On(r), Dominated(iv[i])
        PROVE  ~Occupies(iv[i], t, shape[r].buffer_after, now)
    <2>1. iv[i].res = r /\ iv[i].end \in Nat
      BY <1>3 DEF On, TypeOK, Intervals
    <2>2. iv[i].end + shape[r].buffer_after < now - Retention
      BY <1>3, <2>1 DEF Dominated
    <2> QED BY <1>1, <2>1, <2>2 DEF Occupies
  <1>4. Occ(r, t)' = Occ(r, t)
    BY <1>2, <1>3 DEF Occ, On, Dropped
  <1>5. Load(r, t)' = Cardinality(Occ(r, t)') /\ Load(r, t) = Cardinality(Occ(r, t))
    BY DEF Load, LoadAt, Occ
  <1> QED BY <1>4, <1>5

\* INV-02 under garbage collection, for every retention and buffer: no instant
\* of the retention period or the future is freed by it.
THEOREM GcSafe == Spec => GcFreesOnlyThePast
  <1>1. TypeOK /\ [Next]_vars =>
          [\A r \in Resources : Gc(r) =>
              \A t \in Instants : t + Retention >= now => Load(r, t)' = Load(r, t)]_vars
    BY GcKeepsOccupants
  <1> QED BY <1>1, TypeCorrect, PTL DEF Spec, GcFreesOnlyThePast

-------------------------------------------------------------------------------
(* The length of a list, and the rules an admission obeys.                 *)

\* The list of a resource is finite, so that its length is a number.
LEMMA ListIsFinite ==
    ASSUME TypeOK, NEW r
    PROVE  IsFiniteSet(On(r)) /\ Cardinality(On(r)) \in Nat
  <1>1. On(r) \in SUBSET Ids
    BY DEF TypeOK, On
  <1> QED BY <1>1, IdsAssumption, FS_Subset, FS_CardinalityType

\* A list that gains at most the ids of N is longer by at most their number.
LEMMA GrowsByAtMost ==
    ASSUME TypeOK, TypeOK', NEW r, NEW N, IsFiniteSet(N), On(r)' \subseteq On(r) \cup N
    PROVE  Cardinality(On(r)') <= Cardinality(On(r)) + Cardinality(N)
  <1>1. /\ IsFiniteSet(On(r)) /\ IsFiniteSet(On(r) \cup N)
        /\ Cardinality(On(r)') <= Cardinality(On(r) \cup N)
    BY ListIsFinite, FS_Union, FS_Subset
  <1>2. Cardinality(On(r) \cup N)
          = Cardinality(On(r)) + Cardinality(N) - Cardinality(On(r) \cap N)
    BY <1>1, FS_Union
  <1>3. /\ Cardinality(On(r)) \in Nat /\ Cardinality(N) \in Nat
        /\ Cardinality(On(r) \cap N) \in Nat /\ Cardinality(On(r) \cup N) \in Nat
    BY <1>1, FS_Intersection, FS_CardinalityType
  <1>4. Cardinality(On(r)') \in Nat
    BY <1>1, FS_Subset, FS_CardinalityType
  <1> QED BY <1>1, <1>2, <1>3, <1>4

\* A commit makes no list longer: every booking stands where its hold stood.
LEMMA CommitKeepsLength ==
    ASSUME TypeOK, NEW H \in SUBSET Holds, NEW commits \in [H -> Ids],
           CommitHolds(commits), NEW r
    PROVE  Cardinality(On(r)') <= Cardinality(On(r))
  <1> DEFINE HoldOf(i) == CHOOSE h \in DOMAIN commits : commits[h] = i
             f == [i \in On(r)' |-> IF i \in DOMAIN iv THEN i ELSE HoldOf(i)]
  <1>1. /\ DOMAIN commits = H /\ H \subseteq DOMAIN iv
        /\ iv' = Committed(commits)
        /\ DOMAIN iv' = (DOMAIN iv \ H) \cup {commits[h] : h \in H}
    BY DEF CommitHolds, Committed, Holds
  <1>2. ASSUME NEW i \in DOMAIN iv', i \in DOMAIN iv
        PROVE  i \notin H /\ iv'[i] = iv[i]
    <2>1. \A h \in H : commits[h] \notin DOMAIN iv
      BY <1>1 DEF CommitHolds, Committable
    <2> QED BY <1>1, <1>2, <2>1 DEF Committed
  <1>3. ASSUME NEW i \in DOMAIN iv', i \notin DOMAIN iv
        PROVE  /\ HoldOf(i) \in H /\ commits[HoldOf(i)] = i
               /\ iv'[i].res = iv[HoldOf(i)].res
    <2>1. \E h \in DOMAIN commits : commits[h] = i
      BY <1>1, <1>3
    <2>2. HoldOf(i) \in DOMAIN commits /\ commits[HoldOf(i)] = i
      BY <2>1
    <2>3. iv'[i] = Interval(iv[HoldOf(i)], "Booking", 0)
      BY <1>1, <1>3 DEF Committed
    <2> QED BY <1>1, <2>2, <2>3 DEF Interval
  <1>4. ASSUME NEW i \in On(r)'
        PROVE  /\ i \in DOMAIN iv => i \in On(r) /\ i \notin H
               /\ i \notin DOMAIN iv => /\ HoldOf(i) \in On(r) /\ HoldOf(i) \in H
                                        /\ commits[HoldOf(i)] = i
    <2>1. i \in DOMAIN iv' /\ iv'[i].res = r
      BY <1>4 DEF On
    <2> HIDE DEF HoldOf
    <2> QED BY <1>1, <1>2, <1>3, <2>1 DEF On
  <1>5. f \in Injection(On(r)', On(r))
    <2>1. \A i \in On(r)' : f[i] = IF i \in DOMAIN iv THEN i ELSE HoldOf(i)
      OBVIOUS
    <2>2. f \in [On(r)' -> On(r)]
      <3> HIDE DEF HoldOf
      <3> QED BY <1>4
    <2> HIDE DEF f, HoldOf
    <2>3. \A i, j \in On(r)' : f[i] = f[j] => i = j
      BY <1>4, <2>1
    <2>4. DOMAIN f = On(r)'
      BY <2>2
    <2> QED BY <2>2, <2>3, <2>4 DEF Injection, IsInjective
  <1> HIDE DEF f
  <1> QED BY <1>5, ListIsFinite, FS_Injection

\* The bound on the lists is inductive: only an admission and a new rule make a
\* list longer, and both have found room on it.
LEMMA BoundedStep == TypeOK /\ TypeOK' /\ IntervalsBounded /\ [Next]_vars => IntervalsBounded'
  <1> SUFFICES ASSUME TypeOK, TypeOK', IntervalsBounded, [Next]_vars, NEW r \in Resources
               PROVE  Cardinality(On(r)') < MaxIntervals + MaxBatch
    BY DEF IntervalsBounded
  <1>0. /\ Cardinality(On(r)) \in Nat /\ Cardinality(On(r)) < MaxIntervals + MaxBatch
        /\ MaxIntervals \in Nat \ {0} /\ MaxBatch \in Nat \ {0}
        /\ Cardinality(On(r)') \in Nat
    <2>1. On(r)' \in SUBSET Ids
      BY DEF TypeOK, On
    <2> QED BY <2>1, IdsAssumption, FS_Subset, FS_CardinalityType, ListIsFinite,
               LimitsAssumption DEF IntervalsBounded
  <1> DEFINE Short == Cardinality(On(r)') < MaxIntervals + MaxBatch
  <1> SUFFICES Short
    OBVIOUS
  <1>1. ASSUME Cardinality(On(r)') <= Cardinality(On(r)) PROVE Short
    BY <1>0, <1>1
  <1>2. ASSUME NEW N, IsFiniteSet(N), Cardinality(N) <= MaxBatch, RoomOnList(r),
               On(r)' \subseteq On(r) \cup N
        PROVE  Short
    <2>1. Cardinality(On(r)') <= Cardinality(On(r)) + Cardinality(N)
      BY <1>2, GrowsByAtMost
    <2> QED BY <1>0, <1>2, <2>1, FS_CardinalityType DEF RoomOnList
  <1>3. ASSUME iv' = iv PROVE Short
    BY <1>0, <1>3 DEF On
  <1>4. ASSUME NEW S, iv' = Dropped(S) PROVE Short
    <2>1. On(r)' \in SUBSET On(r)
      BY <1>4 DEF On, Dropped
    <2> QED BY <1>1, <2>1, ListIsFinite, FS_Subset
  <1>5. ASSUME NEW c \in Clients, Admit(c) PROVE Short
    <2> DEFINE m == alloc[c].members
               N == MembersOn(m, r)
    <2>1. /\ c \in DOMAIN alloc /\ Admissible(m, alloc[c].ctx)
          /\ iv' = Added([i \in DOMAIN m |->
                            Interval(m[i], alloc[c].kind, alloc[c].expires_at)])
      BY <1>5 DEF Admit, Collected
    <2>2. DOMAIN m \in SUBSET Ids /\ Cardinality(DOMAIN m) <= MaxBatch
      BY <2>1, BatchesAssumption DEF TypeOK
    <2>3. On(r)' \subseteq On(r) \cup N
      BY <2>1 DEF On, Added, Interval, MembersOn
    <2>4. IsFiniteSet(N) /\ Cardinality(N) <= MaxBatch
      <3>1. IsFiniteSet(DOMAIN m) /\ N \in SUBSET DOMAIN m
        BY <2>2, IdsAssumption, FS_Subset DEF MembersOn
      <3>2. IsFiniteSet(N) /\ Cardinality(N) <= Cardinality(DOMAIN m)
        BY <3>1, FS_Subset
      <3> HIDE DEF N
      <3> QED BY <1>0, <2>2, <3>1, <3>2, FS_CardinalityType
    <2>5. CASE N = {}
      <3>1. On(r)' \in SUBSET On(r)
        BY <2>3, <2>5
      <3> QED BY <1>1, <3>1, ListIsFinite, FS_Subset
    <2>6. CASE N # {}
      <3>1. RoomOnList(r)
        BY <2>1, <2>6 DEF MembersOn, Admissible, ResourcesOf
      <3> HIDE DEF N
      <3> QED BY <1>2, <2>3, <2>4, <3>1
    <2> QED BY <2>5, <2>6
  <1>6. ASSUME NEW c \in Clients, WriteRule(c) PROVE Short
    <2> DEFINE q == ruling[c].rule
    <2>1. \/ iv' = iv
          \/ /\ RuleApplies(q, ruling[c].op)
             /\ iv' = Added([i \in {q.id} |-> Interval(q, q.kind, 0)])
      BY <1>6 DEF WriteRule
    <2>2. ASSUME RuleApplies(q, ruling[c].op),
                 iv' = Added([i \in {q.id} |-> Interval(q, q.kind, 0)])
          PROVE  Short
      <3>1. On(r)' \subseteq On(r) \cup (IF q.res = r THEN {q.id} ELSE {})
        BY <2>2 DEF On, Added, Interval
      <3>2. CASE q.res = r /\ q.id \notin DOMAIN iv
        <4>1. RoomOnList(r)
          BY <2>2, <3>2 DEF RuleApplies
        <4>2. IsFiniteSet({q.id}) /\ Cardinality({q.id}) <= MaxBatch
          <5>1. IsFiniteSet({q.id}) /\ Cardinality({q.id}) = 1
            BY FS_Singleton
          <5> QED BY <1>0, <5>1
        <4>3. On(r)' \subseteq On(r) \cup {q.id}
          BY <3>1
        <4> HIDE DEF q, Short
        <4> QED BY <1>2, <4>1, <4>2, <4>3
      <3>3. CASE ~(q.res = r /\ q.id \notin DOMAIN iv)
        <4>1. On(r)' \in SUBSET On(r)
          BY <2>2, <3>1, <3>3 DEF On, RuleApplies
        <4> QED BY <1>1, <4>1, ListIsFinite, FS_Subset
      <3> QED BY <3>2, <3>3
    <2> QED BY <1>3, <2>1, <2>2
  <1>7. ASSUME NEW H \in SUBSET Holds, NEW commits \in [H -> Ids], CommitHolds(commits)
        PROVE  Short
    BY <1>1, <1>7, CommitKeepsLength
  <1> HIDE DEF Short
  <1>8. CASE AllocateStep
    BY <1>3, <1>5, <1>8 DEF AllocateStep, BeginAllocate, ReadAncestor, Refuse
  <1>9. CASE RuleStep
    BY <1>3, <1>6, <1>9 DEF RuleStep, BeginRule, ReadAboveParent, CheckParentCoverage
  <1>10. CASE RemoveStep
    BY <1>4, <1>10 DEF RemoveStep, RemoveRule, ReleaseHold, CancelBooking, Remove
  <1>11. CASE CommitStep
    BY <1>7, <1>11 DEF CommitStep
  <1>12. CASE BackgroundStep
    BY <1>3, <1>4, <1>12 DEF BackgroundStep, CollectExpiredHolds, ExpireHold, Gc
  <1>13. CASE ReshapeStep \/ Tick \/ UNCHANGED vars
    BY <1>3, <1>13 DEF ReshapeStep, UpdateResource, Tick, vars
  <1> QED BY <1>8, <1>9, <1>10, <1>11, <1>12, <1>13 DEF Next

\* MAX_INTERVALS_PER_RESOURCE for every limit, batch size and number of callers:
\* the list of a resource passes the limit by less than one batch, however
\* many calls waited for its guard together.
THEOREM ListsBounded == Spec => []IntervalsBounded
  <1>1. Init => IntervalsBounded
    <2> SUFFICES ASSUME Init, NEW r \in Resources
                 PROVE  Cardinality(On(r)) < MaxIntervals + MaxBatch
      BY DEF IntervalsBounded
    <2>1. On(r) = {}
      BY DEF Init, On
    <2> QED BY <2>1, FS_EmptySet, LimitsAssumption
  <1> QED BY <1>1, BoundedStep, TypeCorrect, PTL DEF Spec

\* What an admission adds lies in the open hours of its resource as its rules
\* stand in that very step, whatever was collected above it beforehand.
LEMMA AdmitObeysOwnRules ==
    ASSUME TypeOK, NEW c, Admit(c), NEW i, i \in DOMAIN iv' \ DOMAIN iv
    PROVE  OwnRulesAdmit(i)
  <1> DEFINE m == alloc[c].members
             ctx == alloc[c].ctx
  <1>1. /\ Admissible(m, ctx)
        /\ iv' = Added([k \in DOMAIN m |->
                          Interval(m[k], alloc[c].kind, alloc[c].expires_at)])
    BY DEF Admit
  <1>2. i \in DOMAIN m /\ iv'[i] = Interval(m[i], alloc[c].kind, alloc[c].expires_at)
    BY <1>1 DEF Added
  <1>3. iv'[i].res = m[i].res /\ iv'[i].start = m[i].start /\ iv'[i].end = m[i].end
    BY <1>2 DEF Interval
  <1>4. RulesAdmit(m[i], ctx[m[i].res])
    BY <1>1, <1>2 DEF Admissible
  <1> HIDE DEF m, ctx
  <1> QED BY <1>3, <1>4 DEF OwnRulesAdmit, RulesAdmit, Closed, BaseOpen

\* AVAIL-16 for every hierarchy, schedule and interleaving: no hold or booking
\* is admitted over a closure of its own resource or outside its own schedule,
\* even one written while the call was collecting its ancestors' rules.
THEOREM OwnRulesObeyed == Spec => AdmittedByOwnRules
  <1>1. TypeOK /\ [Next]_vars =>
          [\A i \in Ids : NewlyAdmitted(i) => OwnRulesAdmit(i)]_vars
    <2> SUFFICES ASSUME TypeOK, Next, NEW i \in Ids, NewlyAdmitted(i)
                 PROVE  OwnRulesAdmit(i)
      OBVIOUS
    <2>1. ASSUME iv' = iv PROVE FALSE
      BY <2>1 DEF NewlyAdmitted
    <2>2. ASSUME NEW S, iv' = Dropped(S) PROVE FALSE
      BY <2>2 DEF NewlyAdmitted, Dropped
    <2>3. CASE AllocateStep
      BY <2>1, <2>3, AdmitObeysOwnRules
         DEF AllocateStep, BeginAllocate, ReadAncestor, Refuse, NewlyAdmitted
    <2>4. ASSUME NEW c \in Clients, WriteRule(c) PROVE FALSE
      <3> DEFINE q == ruling[c].rule
      <3>1. /\ c \in DOMAIN ruling
            /\ iv' = Added([k \in {q.id} |-> Interval(q, q.kind, 0)]) \/ iv' = iv
        BY <2>4 DEF WriteRule
      <3>2. q.kind \in {"NonBlocking", "Blocking"}
        BY <3>1, RulesAssumption DEF TypeOK
      <3>3. CASE iv' = Added([k \in {q.id} |-> Interval(q, q.kind, 0)])
        <4>1. iv'[i].kind = q.kind
          BY <3>3 DEF NewlyAdmitted, Added, Interval
        <4> QED BY <3>2, <4>1 DEF NewlyAdmitted, IsRule
      <3> QED BY <2>1, <3>1, <3>3
    <2>5. CASE RuleStep
      BY <2>1, <2>4, <2>5 DEF RuleStep, BeginRule, ReadAboveParent, CheckParentCoverage
    <2>6. CASE RemoveStep
      BY <2>2, <2>6 DEF RemoveStep, RemoveRule, ReleaseHold, CancelBooking, Remove
    <2>7. CASE CommitStep
      <3>1. PICK H \in SUBSET Holds :
               H # {} /\ \E commits \in [H -> Ids] : CommitHolds(commits)
        BY <2>7 DEF CommitStep
      <3>2. PICK commits \in [H -> Ids] : CommitHolds(commits)
        BY <3>1
      <3>3. PICK h \in H : TRUE
        BY <3>1
      <3>4. h \in DOMAIN iv /\ h \notin DOMAIN iv'
        BY <3>2, <3>3 DEF CommitHolds, Committable, Committed, Holds
      <3> QED BY <3>4 DEF NewlyAdmitted
    <2>8. CASE BackgroundStep
      BY <2>1, <2>2, <2>8 DEF BackgroundStep, CollectExpiredHolds, ExpireHold, Gc
    <2>9. CASE ReshapeStep \/ Tick
      BY <2>1, <2>9 DEF ReshapeStep, UpdateResource, Tick
    <2> QED BY <2>3, <2>5, <2>6, <2>7, <2>8, <2>9 DEF Next
  <1> QED BY <1>1, TypeCorrect, PTL DEF Spec, AdmittedByOwnRules
===============================================================================
