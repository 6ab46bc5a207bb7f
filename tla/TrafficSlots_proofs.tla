-------------------------- MODULE TrafficSlots_proofs -------------------------
(***************************************************************************)
(* Proofs about TrafficSlots, for every set of aircraft, every number of   *)
(* entries and every limit that is not below it: SlotsInv is inductive,    *)
(* and from its count no aircraft is refused while an entry is free.       *)
(***************************************************************************)
EXTENDS TrafficSlots, TLAPS, FiniteSetTheorems

USE NullAssumption, NamesAssumption, LimitAssumption

-------------------------------------------------------------------------------
(* Lemmas about the entries.                                               *)

\* The entries are finitely many, and those in use fewer unless all are.
LEMMA OccupiedCardinality ==
  /\ IsFiniteSet(Occupied)
  /\ Cardinality(Occupied) \in 0..NumNames
  /\ Free # {} => Cardinality(Occupied) < NumNames
<1>1. IsFiniteSet(Index) /\ Cardinality(Index) = NumNames
  BY FS_Interval DEF Index
<1>2. Occupied \in SUBSET Index
  BY DEF Occupied
<1>3. /\ IsFiniteSet(Occupied)
      /\ Cardinality(Occupied) <= NumNames
      /\ NumNames = Cardinality(Occupied) => Index = Occupied
  BY <1>1, <1>2, FS_Subset
<1>4. Cardinality(Occupied) \in Nat
  BY <1>3, FS_CardinalityType
<1> QED
  BY <1>3, <1>4 DEF Free

\* An aircraft that is listed has exactly one entry, which is its first.
LEMMA ListedHasOne ==
  ASSUME OneEntryEach, NEW a \in Listed
  PROVE  \E i \in Occupied : SlotsOf(a) = {i} /\ \A j \in Index : First(SlotsOf(a), j) <=> j = i
<1>1. PICK i \in Index : APL_ZUUU_name[i] = a
  BY DEF Listed, SlotsOf
<1>2. a # null
  BY DEF Listed
<1>3. i \in Occupied
  BY <1>1, <1>2 DEF Occupied
<1>4. SlotsOf(a) = {i}
  BY <1>1, <1>2 DEF SlotsOf, OneEntryEach, Occupied
<1>5. i <= i
  BY DEF Index
<1> QED
  BY <1>3, <1>4, <1>5 DEF First

-------------------------------------------------------------------------------
(* The invariant.                                                          *)

LEMMA InitSlots == Init => SlotsInv
<1> SUFFICES ASSUME Init PROVE SlotsInv
  OBVIOUS
<1>1. TypeOK
  BY DEF Init, TypeOK, Places
<1>2. Occupied = {}
  BY DEF Init, Occupied
<1>3. Counted
  BY <1>2, FS_EmptySet DEF Init, Counted
<1>4. OneEntryEach
  BY <1>2 DEF OneEntryEach
<1>5. ListedInside
  BY DEF Init, ListedInside, Listed, SlotsOf
<1> QED
  BY <1>1, <1>3, <1>4, <1>5 DEF SlotsInv

\* Steps that leave the entries alone keep the invariant if they keep the types
\* and move no listed aircraft outside.
LEMMA SameEntries ==
  ASSUME SlotsInv, UNCHANGED <<APL_ZUUU_name, num_APL>>, TypeOK',
         \A a \in Listed : place'[a] # "outside"
  PROVE  SlotsInv'
<1>1. Occupied' = Occupied /\ Listed' = Listed
  BY DEF Occupied, Listed, SlotsOf
<1> QED
  BY <1>1 DEF SlotsInv, Counted, OneEntryEach, ListedInside

\* An aircraft takes a free entry.
LEMMA EnterSlots ==
  ASSUME SlotsInv, NEW a \in Aircraft, a \notin Listed,
         place' = [place EXCEPT ![a] = "inside"], oriented' \subseteq Aircraft,
         Enter(a)
  PROVE  SlotsInv'
<1>1. CASE /\ num_APL >= Limit \/ Free = {}
           /\ UNCHANGED <<APL_ZUUU_name, num_APL, plane>>
  <2>1. TypeOK'
    BY <1>1 DEF SlotsInv, TypeOK, Places
  <2>2. \A b \in Listed : place'[b] # "outside"
    BY DEF SlotsInv, TypeOK, ListedInside, Listed
  <2> QED
    BY <1>1, <2>1, <2>2, SameEntries
<1>2. CASE \E i \in Index :
             /\ num_APL < Limit
             /\ First(Free, i)
             /\ APL_ZUUU_name' = [APL_ZUUU_name EXCEPT ![i] = a]
             /\ num_APL' = num_APL + 1
             /\ XPlaneUpdate(a, i)
  <2>1. PICK i \in Index :
          /\ i \in Free
          /\ APL_ZUUU_name' = [APL_ZUUU_name EXCEPT ![i] = a]
          /\ num_APL' = num_APL + 1
          /\ XPlaneUpdate(a, i)
    BY <1>2 DEF First
  <2>2. Occupied' = Occupied \union {i} /\ i \notin Occupied
    BY <2>1 DEF Occupied, Free, SlotsInv, TypeOK
  <2>3. Cardinality(Occupied') = Cardinality(Occupied) + 1
    BY <2>2, OccupiedCardinality, FS_AddElement
  <2>4. Counted'
    BY <2>1, <2>3 DEF SlotsInv, Counted
  <2>5. Cardinality(Occupied) \in 0..NumNames /\ Cardinality(Occupied) < NumNames
    BY <2>1, OccupiedCardinality
  <2>6. num_APL' \in 0..NumNames
    BY <2>1, <2>5 DEF SlotsInv, Counted
  <2>7. APL_ZUUU_name' \in [Index -> Aircraft \union {null}]
    BY <2>1 DEF SlotsInv, TypeOK
  <2>8. plane' \in [Index -> Aircraft \union {null}]
    BY <2>1 DEF SlotsInv, TypeOK, XPlaneUpdate
  <2>9. TypeOK'
    BY <2>6, <2>7, <2>8 DEF SlotsInv, TypeOK, Places
  <2>10. OneEntryEach'
    <3> SUFFICES ASSUME NEW j \in Occupied', NEW k \in Occupied',
                        APL_ZUUU_name'[j] = APL_ZUUU_name'[k]
                 PROVE  j = k
      BY DEF OneEntryEach
    <3>1. \A m \in Occupied : APL_ZUUU_name[m] # a
      BY DEF Occupied, Listed, SlotsOf
    <3>2. \A m \in Occupied : APL_ZUUU_name'[m] = APL_ZUUU_name[m]
      BY <2>1, <2>2 DEF SlotsInv, TypeOK, Occupied
    <3>3. APL_ZUUU_name'[i] = a
      BY <2>1 DEF SlotsInv, TypeOK
    <3> QED
      BY <2>2, <3>1, <3>2, <3>3 DEF SlotsInv, OneEntryEach
  <2>11. ListedInside'
    <3> SUFFICES ASSUME NEW b \in Listed' PROVE place'[b] # "outside"
      BY DEF ListedInside
    <3>1. b = a \/ b \in Listed
      BY <2>1 DEF Listed, SlotsOf, SlotsInv, TypeOK
    <3> QED
      BY <3>1 DEF SlotsInv, TypeOK, ListedInside, Listed
  <2> QED
    BY <2>4, <2>9, <2>10, <2>11 DEF SlotsInv
<1> QED
  BY <1>1, <1>2 DEF Enter

\* An aircraft gives its entry back.
LEMMA OutsideSlots ==
  ASSUME SlotsInv, NEW a \in Aircraft,
         place' = [place EXCEPT ![a] = "outside"], oriented' \subseteq Aircraft,
         Outside(a)
  PROVE  SlotsInv'
<1>1. CASE a \notin Listed
  <2>1. \A i \in Index : ~First(SlotsOf(a), i)
    BY <1>1 DEF Listed, First
  <2>2. APL_ZUUU_name' = APL_ZUUU_name
    BY <2>1 DEF Outside, SlotsInv, TypeOK
  <2>3. TypeOK'
    BY <1>1, <2>2 DEF SlotsInv, TypeOK, Places, Outside
  <2>4. \A b \in Listed : place'[b] # "outside"
    BY <1>1 DEF SlotsInv, TypeOK, ListedInside, Listed
  <2> QED
    BY <1>1, <2>2, <2>3, <2>4, SameEntries DEF Outside
<1>2. CASE a \in Listed
  <2>1. PICK i \in Occupied : /\ SlotsOf(a) = {i}
                              /\ \A j \in Index : First(SlotsOf(a), j) <=> j = i
    BY <1>2, ListedHasOne DEF SlotsInv
  <2>2. /\ i \in Index
        /\ APL_ZUUU_name' = [APL_ZUUU_name EXCEPT ![i] = null]
        /\ num_APL' = num_APL - 1
    BY <1>2, <2>1 DEF Outside, Occupied, SlotsInv, TypeOK
  <2>3. Occupied' = Occupied \ {i}
    BY <2>2 DEF Occupied, SlotsInv, TypeOK
  <2>4. Cardinality(Occupied') = Cardinality(Occupied) - 1
    BY <2>1, <2>3, OccupiedCardinality, FS_RemoveElement
  <2>5. IsFiniteSet(Occupied')
    BY <2>3, OccupiedCardinality, FS_RemoveElement
  <2>6. Cardinality(Occupied') \in Nat /\ Cardinality(Occupied) \in 0..NumNames
    BY <2>5, OccupiedCardinality, FS_CardinalityType
  <2>7. Counted'
    BY <2>2, <2>4 DEF SlotsInv, Counted
  <2>8. TypeOK'
    <3>1. num_APL' \in 0..NumNames
      BY <2>2, <2>4, <2>6 DEF SlotsInv, Counted
    <3>2. APL_ZUUU_name' \in [Index -> Aircraft \union {null}]
      BY <2>2 DEF SlotsInv, TypeOK
    <3> QED
      BY <3>1, <3>2 DEF SlotsInv, TypeOK, Places, Outside
  <2>9. OneEntryEach'
    BY <2>2, <2>3 DEF SlotsInv, TypeOK, OneEntryEach, Occupied
  <2>10. ListedInside'
    <3> SUFFICES ASSUME NEW b \in Listed' PROVE place'[b] # "outside"
      BY DEF ListedInside
    <3>1. PICK j \in Index : APL_ZUUU_name'[j] = b /\ b \in Aircraft
      BY DEF Listed, SlotsOf
    <3>2. j # i /\ APL_ZUUU_name[j] = b
      BY <2>2, <3>1 DEF SlotsInv, TypeOK
    <3>3. b # a
      BY <2>1, <3>2 DEF SlotsOf
    <3>4. b \in Listed
      BY <3>1, <3>2 DEF Listed, SlotsOf
    <3> QED
      BY <3>3, <3>4 DEF SlotsInv, TypeOK, ListedInside, Listed
  <2> QED
    BY <2>7, <2>8, <2>9, <2>10 DEF SlotsInv
<1> QED
  BY <1>1, <1>2

LEMMA NextSlots == SlotsInv /\ [Next]_vars => SlotsInv'
<1> SUFFICES ASSUME SlotsInv, [Next]_vars PROVE SlotsInv'
  OBVIOUS
<1> USE DEF SlotsInv
<1>1. ASSUME NEW a \in Aircraft, Discover(a) PROVE SlotsInv'
  <2>1. TypeOK'
    BY <1>1 DEF Discover, TypeOK, Places
  <2>2. \A b \in Listed : place'[b] # "outside"
    BY <1>1 DEF Discover, TypeOK, ListedInside, Listed
  <2> QED
    BY <1>1, <2>1, <2>2, SameEntries DEF Discover
<1>2. ASSUME NEW a \in Aircraft, Remove(a) PROVE SlotsInv'
  <2>1. TypeOK'
    BY <1>2 DEF Remove, TypeOK, Places
  <2>2. \A b \in Listed : place'[b] # "outside"
    BY <1>2 DEF Remove, TypeOK, ListedInside, Listed
  <2> QED
    BY <1>2, <2>1, <2>2, SameEntries DEF Remove
<1>3. ASSUME NEW a \in Aircraft, NEW o \in {{}, {a}}, UpdateUnlocated(a, o) PROVE SlotsInv'
  <2>1. TypeOK'
    BY <1>3 DEF UpdateUnlocated, TypeOK
  <2>2. \A b \in Listed : place'[b] # "outside"
    BY <1>3 DEF UpdateUnlocated, ListedInside
  <2> QED
    BY <1>3, <2>1, <2>2, SameEntries DEF UpdateUnlocated
<1>4. ASSUME NEW a \in Aircraft, NEW o \in {{}, {a}}, UpdateInside(a, o) PROVE SlotsInv'
  <2>1. /\ place' = [place EXCEPT ![a] = "inside"]
        /\ oriented' \subseteq Aircraft
        /\ Inside(a)
    BY <1>4 DEF UpdateInside, TypeOK
  <2>2. CASE a \notin Listed /\ Enter(a)
    BY <2>1, <2>2, EnterSlots
  <2>3. CASE /\ a \in Listed
             /\ \E i \in Index : First(SlotsOf(a), i) /\ XPlaneUpdate(a, i)
             /\ UNCHANGED <<APL_ZUUU_name, num_APL>>
    <3>1. TypeOK'
      BY <2>1, <2>3 DEF TypeOK, Places, XPlaneUpdate
    <3>2. \A b \in Listed : place'[b] # "outside"
      BY <2>1 DEF TypeOK, ListedInside, Listed
    <3> QED
      BY <2>3, <3>1, <3>2, SameEntries
  <2> QED
    BY <2>1, <2>2, <2>3 DEF Inside
<1>5. ASSUME NEW a \in Aircraft, NEW o \in {{}, {a}}, UpdateOutside(a, o) PROVE SlotsInv'
  <2>1. /\ place' = [place EXCEPT ![a] = "outside"]
        /\ oriented' \subseteq Aircraft
        /\ Outside(a)
    BY <1>5 DEF UpdateOutside, TypeOK
  <2> QED
    BY <2>1, OutsideSlots
<1>6. CASE UNCHANGED vars
  <2>1. TypeOK' /\ \A b \in Listed : place'[b] # "outside"
    BY <1>6 DEF vars, hlaVars, TypeOK, ListedInside
  <2> QED
    BY <1>6, <2>1, SameEntries DEF vars
<1> QED
  BY <1>1, <1>2, <1>3, <1>4, <1>5, <1>6 DEF Next, attributesUpdated

\* The entries are typed, counted and held once each, by aircraft that are not
\* known to be outside, after any sequence of reports, removals and returns.
THEOREM SlotsInvariant == Spec => []SlotsInv
<1> QED
  BY InitSlots, NextSlots, PTL DEF Spec

\* num_APL is the number of the entries in use.
THEOREM CountedHolds == Spec => []Counted
<1>1. SlotsInv => Counted
  BY DEF SlotsInv
<1> QED
  BY <1>1, SlotsInvariant, PTL

\* num_APL never runs beyond the number of names, nor below zero, and each entry
\* is free or names an aircraft.
THEOREM SlotsTypeCorrect == Spec => []TypeOK
<1>1. SlotsInv => TypeOK
  BY DEF SlotsInv
<1> QED
  BY <1>1, SlotsInvariant, PTL

\* An aircraft that is known to be outside keeps no entry, whether it was removed
\* and returned or left while the entries were taken.
THEOREM ListedInsideHolds == Spec => []ListedInside
<1>1. SlotsInv => ListedInside
  BY DEF SlotsInv
<1> QED
  BY <1>1, SlotsInvariant, PTL

\* No aircraft has two entries, and so moves two X-Plane aircraft.
THEOREM OneEntryEachHolds == Spec => []OneEntryEach
<1>1. SlotsInv => OneEntryEach
  BY DEF SlotsInv
<1> QED
  BY <1>1, SlotsInvariant, PTL

\* The comparison of num_APL with the limit never refuses an aircraft for which
\* there is an entry: this needs the count, and that the limit is not below it.
THEOREM RefusedOnlyIfFullHolds == Spec => RefusedOnlyIfFull
<1> DEFINE Fair(a) == place'[a] = "inside" /\ place[a] # "inside" =>
                        (\E i \in Index : APL_ZUUU_name'[i] = a) \/ Free = {}
<1>1. SlotsInv /\ [Next]_vars => [\A a \in Aircraft : Fair(a)]_vars
  <2> SUFFICES ASSUME SlotsInv, Next, NEW a \in Aircraft,
                      place'[a] = "inside", place[a] # "inside", Free # {}
               PROVE  \E i \in Index : APL_ZUUU_name'[i] = a
    OBVIOUS
  <2>1. PICK o \in {{}, {a}} : UpdateInside(a, o)
    BY DEF Next, attributesUpdated, Discover, Remove, UpdateUnlocated, UpdateInside,
           UpdateOutside, SlotsInv, TypeOK
  <2>2. CASE a \in Listed
    BY <2>1, <2>2 DEF UpdateInside, Inside, Listed, SlotsOf
  <2>3. CASE a \notin Listed
    <3>1. Enter(a)
      BY <2>1, <2>3 DEF UpdateInside, Inside
    <3>2. Cardinality(Occupied) < NumNames
      BY OccupiedCardinality
    <3>3. num_APL < Limit /\ num_APL \in Nat
      BY <3>2 DEF SlotsInv, Counted, TypeOK
    <3> QED
      BY <3>1, <3>3 DEF Enter, SlotsInv, TypeOK
  <2> QED
    BY <2>2, <2>3
<1> QED
  BY <1>1, SlotsInvariant, PTL DEF Spec, RefusedOnlyIfFull
===============================================================================
