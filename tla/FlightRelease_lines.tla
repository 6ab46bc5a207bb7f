-------------------------- MODULE FlightRelease_lines -------------------------
(***************************************************************************)
(* Proofs about the order in which flights depart, for every set of        *)
(* aerodromes and hubs, every pattern and every value of the bounds:       *)
(* LineInv is inductive together with IInv, and with it FilingOrder,       *)
(* HubCycle and BoardShowsReleases hold.                                   *)
(***************************************************************************)
EXTENDS FlightRelease_refinement

\* What is appended to the waiting flights is appended to the line.
LEMMA JoinsAtEnd ==
  ASSUME NEW a, NEW more \in Seq(Flight),
         Departed(a) \in Seq(Flight), Waiting(a) \in Seq(Flight)
  PROVE  (Departed(a) \o Waiting(a)) \o more = Departed(a) \o (Waiting(a) \o more)
BY ConcatAssociative, SMT

USE HubAssumption, PatternAssumption

-------------------------------------------------------------------------------
(* The line of an aerodrome, in a state and across a step.                 *)

LEMMA FunctionIsSeq ==
  ASSUME NEW S, NEW n \in Nat, NEW f \in [1..n -> S]
  PROVE  f \in Seq(S) /\ Len(f) = n
OBVIOUS

\* The last of one sequence becomes the first of the next.
LEMMA ConcatMiddle ==
  ASSUME NEW S, NEW s \in Seq(S), NEW e \in S, NEW t \in Seq(S)
  PROVE  Append(s, e) \o t = s \o (<<e>> \o t)
<1> DEFINE one == <<e>>
<1>1. one \in Seq(S) /\ Append(s, e) = s \o one
  BY AppendIsConcat
<1> HIDE DEF one
<1>2. (s \o one) \o t = s \o (one \o t)
  BY <1>1, ConcatAssociative
<1> QED
  BY <1>1, <1>2 DEF one

LEMMA ConcatLookup ==
  ASSUME NEW S, NEW s \in Seq(S), NEW t \in Seq(S), NEW m, NEW n, NEW u,
         m = Len(s), n = Len(t), u = s \o t
  PROVE  /\ Len(u) = m + n
         /\ \A k \in 1..m + n : u[k] = IF k <= m THEN s[k] ELSE t[k - m]
BY ConcatProperties

LEMMA DepartedType ==
  ASSUME TypeOK, NEW a \in Aerodrome
  PROVE  /\ Departed(a) \in Seq(Flight) /\ Len(Departed(a)) = Len(ReleasedFLP[a])
         /\ \A k \in 1..Len(ReleasedFLP[a]) : Departed(a)[k] = ReleasedFLP[a][k].flp
<1>1. ReleasedFLP[a] \in Seq(Release) /\ Len(ReleasedFLP[a]) \in Nat
  BY LenProperties DEF TypeOK
<1>2. \A k \in 1..Len(ReleasedFLP[a]) : ReleasedFLP[a][k].flp \in Flight
  <2> SUFFICES ASSUME NEW k \in 1..Len(ReleasedFLP[a]) PROVE ReleasedFLP[a][k].flp \in Flight
    OBVIOUS
  <2>1. ReleasedFLP[a][k] \in Release
    BY <1>1, ElementOfSeq
  <2> QED
    BY <2>1 DEF Release
<1>3. /\ Departed(a) \in [1..Len(ReleasedFLP[a]) -> Flight]
      /\ \A k \in 1..Len(ReleasedFLP[a]) : Departed(a)[k] = ReleasedFLP[a][k].flp
  BY <1>2 DEF Departed
<1> QED
  BY <1>1, <1>3, FunctionIsSeq

LEMMA LineType ==
  ASSUME TypeOK, NEW a \in Aerodrome
  PROVE  /\ Line(a) \in Seq(Flight) /\ Len(Line(a)) \in Nat
         /\ Len(Line(a)) = Len(ReleasedFLP[a]) + Len(Waiting(a))
<1>1. /\ Departed(a) \in Seq(Flight) /\ Len(Departed(a)) = Len(ReleasedFLP[a])
      /\ Waiting(a) \in Seq(Flight)
  BY DepartedType, WaitingType
<1> DEFINE d == Departed(a)
           w == Waiting(a)
<1>2. Line(a) = d \o w
  BY DEF Line
<1> HIDE DEF d, w
<1>3. d \in Seq(Flight) /\ w \in Seq(Flight)
  BY <1>1 DEF d, w
<1>4. d \o w \in Seq(Flight) /\ Len(d \o w) = Len(d) + Len(w)
  BY <1>3, ConcatProperties
<1>5. Len(d \o w) \in Nat
  BY <1>4, LenProperties
<1> QED
  BY <1>1, <1>2, <1>4, <1>5 DEF d, w

\* Flights that join the queue join the line, at its end.
LEMMA LineGrows ==
  ASSUME TypeOK, NEW a \in Aerodrome, NEW more \in Seq(Flight),
         ReleasedFLP'[a] = ReleasedFLP[a], Waiting(a)' = Waiting(a) \o more
  PROVE  Line(a)' = Line(a) \o more
<1>1. Departed(a)' = Departed(a)
  BY DEF Departed
<1>2. Departed(a) \in Seq(Flight) /\ Waiting(a) \in Seq(Flight)
  BY DepartedType, WaitingType
<1>3. (Departed(a) \o Waiting(a)) \o more = Departed(a) \o (Waiting(a) \o more)
  BY <1>2, JoinsAtEnd, Zenon
<1>4. Line(a)' = Departed(a)' \o Waiting(a)'
  BY DEF Line
<1> QED
  BY <1>1, <1>3, <1>4 DEF Line

LEMMA LineSame ==
  ASSUME NEW a \in Aerodrome, ReleasedFLP'[a] = ReleasedFLP[a], Waiting(a)' = Waiting(a)
  PROVE  Line(a)' = Line(a)
BY DEF Line, Departed

\* The release of the flight in hand moves it within the line.
LEMMA LineSend ==
  ASSUME IInv, IInv', SendFlightPlan, NEW a \in Aerodrome
  PROVE  Line(a)' = Line(a)
<1>1. /\ temp_FLP \in Flight /\ temp_FLP.dep = ad /\ ad \in Aerodrome /\ TypeOK /\ TypeOK'
  BY SendType DEF SendFlightPlan, IInv, ReleaseInv
<1>2. UNCHANGED FLPque /\ temp_FLP' = NoFlight /\ temp_FLP # NoFlight
  BY <1>1, NoFlightAssumption DEF SendFlightPlan, Flight
<1>3. Waiting(a)' = FLPque[a] /\ FLPque[a] \in Seq(Flight)
  BY <1>1, <1>2, ConcatEmptySeq DEF Waiting, InHand, TypeOK
<1>4. CASE a = ad
  <2>1. Waiting(a) = <<temp_FLP>> \o FLPque[a]
    BY <1>1, <1>2, <1>4 DEF Waiting, InHand
  <2>2. Departed(a)' = Append(Departed(a), temp_FLP)
    <3> DEFINE s == Append(Departed(a), temp_FLP)
               t == Departed(a)'
               n == Len(ReleasedFLP[a])
    <3>1. /\ s \in Seq(Flight) /\ Len(s) = n + 1 /\ n \in Nat
          /\ s[n + 1] = temp_FLP
          /\ \A k \in 1..n : s[k] = ReleasedFLP[a][k].flp
      <4>1. /\ Departed(a) \in Seq(Flight) /\ Len(Departed(a)) = n
            /\ \A k \in 1..n : Departed(a)[k] = ReleasedFLP[a][k].flp
        BY <1>1, DepartedType
      <4>2. n \in Nat
        BY <4>1, LenProperties
      <4> HIDE DEF n
      <4> QED
        BY <1>1, <4>1, <4>2, AppendProperties
    <3>2. /\ t \in Seq(Flight) /\ Len(t) = Len(ReleasedFLP'[a])
          /\ \A k \in 1..Len(ReleasedFLP'[a]) : t[k] = ReleasedFLP'[a][k].flp
      <4>1. ReleasedFLP'[a] \in Seq(Release) /\ Len(ReleasedFLP'[a]) \in Nat
        BY <1>1, LenProperties DEF TypeOK
      <4>2. \A k \in 1..Len(ReleasedFLP'[a]) : ReleasedFLP'[a][k].flp \in Flight
        <5> SUFFICES ASSUME NEW k \in 1..Len(ReleasedFLP'[a])
                     PROVE  ReleasedFLP'[a][k].flp \in Flight
          OBVIOUS
        <5>1. ReleasedFLP'[a][k] \in Release
          BY <4>1, ElementOfSeq
        <5> QED
          BY <5>1 DEF Release
      <4>3. t = [k \in 1..Len(ReleasedFLP'[a]) |-> ReleasedFLP'[a][k].flp]
        BY DEF Departed
      <4>4. t \in [1..Len(ReleasedFLP'[a]) -> Flight]
        BY <4>2, <4>3
      <4>5. \A k \in 1..Len(ReleasedFLP'[a]) : t[k] = ReleasedFLP'[a][k].flp
        BY <4>3
      <4> HIDE DEF t
      <4> QED
        BY <4>1, <4>4, <4>5, FunctionIsSeq
    <3>3. /\ Len(ReleasedFLP'[a]) = n + 1
          /\ ReleasedFLP'[a][n + 1] = NewRelease
          /\ \A k \in 1..n : ReleasedFLP'[a][k] = ReleasedFLP[a][k]
      BY <1>4, SendRelease DEF LastOf
    <3>4. NewRelease.flp = temp_FLP
      BY DEF NewRelease
    <3> HIDE DEF s, t, NewRelease
    <3>5. Len(s) = Len(t) /\ \A k \in 1..Len(s) : s[k] = t[k]
      BY <3>1, <3>2, <3>3, <3>4
    <3>6. s = t
      BY <3>1, <3>2, <3>5, SeqEqual
    <3> QED
      BY <3>6 DEF s, t
  <2>3. Departed(a) \in Seq(Flight)
    BY <1>1, DepartedType
  <2>4. \A s, t \in Seq(Flight), e \in Flight : Append(s, e) \o t = s \o (<<e>> \o t)
    BY ConcatMiddle
  <2>5. Append(Departed(a), temp_FLP) \o FLPque[a] = Departed(a) \o (<<temp_FLP>> \o FLPque[a])
    BY <1>1, <1>3, <2>3, <2>4, Zenon
  <2> QED
    BY <1>3, <2>1, <2>2, <2>5, Zenon DEF Line
<1>5. CASE a # ad
  <2>1. Waiting(a) = FLPque[a]
    BY <1>1, <1>3, <1>5, ConcatEmptySeq DEF Waiting, InHand
  <2>2. ReleasedFLP'[a] = ReleasedFLP[a]
    BY <1>5, SendRelease
  <2> QED
    BY <1>3, <2>1, <2>2, LineSame
<1> QED
  BY <1>4, <1>5

\* What a step can do to the line of a.
Joins(a, flp) == a \notin Hub /\ flp.dep = a /\ Line(a)' = Line(a) \o <<flp>>

BatchJoins(a) == a \in Hub /\ Waiting(a) = <<>> /\ Line(a)' = Line(a) \o Batch(a)

LEMMA LineVisit ==
  ASSUME IInv, IInv', VisitFirst \/ VisitNext, NEW a \in Aerodrome
  PROVE  Line(a)' = Line(a) \/ BatchJoins(a)
<1>1. temp_FLP = NoFlight /\ UNCHANGED ReleasedFLP /\ TypeOK
  BY DEF VisitFirst, VisitNext, IInv, ReleaseInv
<1>2. PICK que \in {FLPque[ad], Refilled(ad)} :
        \A b \in Aerodrome : Waiting(b)' = IF b = ad THEN que ELSE FLPque[b]
  BY WaitingAfterVisit
<1>3. ad \in Aerodrome
  BY WaitingAfterVisit
<1>4. Waiting(a) = FLPque[a] /\ FLPque[a] \in Seq(Flight)
  BY <1>1, WaitingInQueue DEF TypeOK
<1>5. CASE Waiting(a)' = FLPque[a]
  BY <1>1, <1>4, <1>5, LineSame
<1>6. CASE Waiting(a)' # FLPque[a]
  <2>1. a \in Hub /\ FLPque[a] = <<>> /\ Waiting(a)' = Batch(a)
    BY <1>2, <1>6 DEF Refilled
  <2>2. Batch(a) \in Seq(Flight)
    BY <1>1, <2>1, BatchProperties
  <2>3. Waiting(a)' = Waiting(a) \o Batch(a)
    BY <1>4, <2>1, <2>2, ConcatEmptySeq
  <2> QED
    BY <1>1, <1>4, <2>1, <2>2, <2>3, LineGrows DEF BatchJoins
<1> QED
  BY <1>5, <1>6

LEMMA LineFill ==
  ASSUME IInv, BatchInv, Fill, NEW a \in Aerodrome
  PROVE  IF a \in Hub THEN BatchJoins(a) ELSE Line(a)' = Line(a)
<1>1. UNCHANGED <<ReleasedFLP, temp_FLP>> /\ temp_FLP = NoFlight /\ TypeOK /\ pc = "fill"
  BY DEF Fill, IInv, ReleaseInv
<1>2. FLPque[a] \in Seq(Flight)
  BY <1>1 DEF TypeOK
<1>3. CASE a \in Hub
  <2>1. FLPque[a] = <<>> /\ FLPque'[a] = FLPque[a] \o Batch(a)
    BY <1>1, <1>3 DEF Fill, BatchInv
  <2>2. Batch(a) \in Seq(Flight)
    BY <1>1, <1>3, BatchProperties
  <2>3. FLPque'[a] = Batch(a)
    BY <2>1, <2>2, ConcatEmptySeq
  <2>4. Waiting(a) = <<>> /\ Waiting(a)' = Batch(a)
    BY <1>1, <1>2, <2>1, <2>2, <2>3, ConcatEmptySeq DEF Waiting, InHand
  <2>5. Waiting(a)' = Waiting(a) \o Batch(a)
    BY <2>2, <2>4, ConcatEmptySeq
  <2> QED
    BY <1>1, <1>3, <2>2, <2>4, <2>5, LineGrows DEF BatchJoins
<1>4. CASE a \notin Hub
  <2>1. FLPque'[a] = FLPque[a]
    BY <1>4 DEF Fill
  <2>2. Waiting(a)' = Waiting(a)
    BY <1>1, <2>1 DEF Waiting, InHand
  <2> QED
    BY <1>1, <1>4, <2>2, LineSame
<1> QED
  BY <1>3, <1>4

LEMMA LineOffer ==
  ASSUME IInv, Offer, NEW a \in Aerodrome
  PROVE  /\ offered + 1 \in 1..Len(FLP_list) /\ FLP_list[offered + 1] \in Flight
         /\ IF FLP_list[offered + 1].dep = a THEN Joins(a, FLP_list[offered + 1])
                                             ELSE Line(a)' = Line(a)
<1> DEFINE flp == FLP_list[offered + 1]
<1>1. /\ UNCHANGED <<ReleasedFLP, temp_FLP>> /\ temp_FLP = NoFlight /\ TypeOK
      /\ offered + 1 \in 1..Len(FLP_list)
  <2>1. edt = "offering" /\ UNCHANGED <<ReleasedFLP, temp_FLP, pc>>
    BY DEF Offer, simVars
  <2>2. TypeOK /\ offered < Len(FLP_list) /\ enabled
    BY <2>1 DEF IInv, PanelInv
  <2>3. pc \in BeforeStart
    BY <2>2 DEF IInv, PanelInv
  <2>4. temp_FLP = NoFlight
    BY <2>3 DEF IInv, ReleaseInv, BeforeStart
  <2>5. offered + 1 \in 1..Len(FLP_list)
    BY <2>2 DEF TypeOK
  <2> QED
    BY <2>1, <2>2, <2>4, <2>5
<1>2. flp \in Flight /\ flp.dep \notin Hub
  BY <1>1, ElementOfSeq DEF IInv, QueueInv, TypeOK
<1>3. FLPque' = [FLPque EXCEPT ![flp.dep] = Append(FLPque[flp.dep], flp)]
  BY DEF Offer
<1> HIDE DEF flp
<1>4. FLPque[a] \in Seq(Flight) /\ <<flp>> \in Seq(Flight)
  BY <1>1, <1>2 DEF TypeOK
<1>5. Waiting(a) = FLPque[a]
  BY <1>1, WaitingInQueue
<1>6. CASE flp.dep = a
  <2>1. FLPque'[a] = FLPque[a] \o <<flp>>
    BY <1>1, <1>2, <1>3, <1>4, <1>6, AppendIsConcat DEF TypeOK
  <2>2. FLPque[a] \o <<flp>> \in Seq(Flight)
    BY <1>4, ConcatProperties
  <2>3. Waiting(a)' = Waiting(a) \o <<flp>>
    BY <1>1, <1>5, <2>1, <2>2, ConcatEmptySeq DEF Waiting, InHand
  <2> QED
    BY <1>1, <1>2, <1>4, <1>6, <2>3, LineGrows DEF Joins, flp
<1>7. CASE flp.dep # a
  <2>1. FLPque'[a] = FLPque[a]
    BY <1>1, <1>3, <1>7 DEF TypeOK
  <2>2. Waiting(a)' = Waiting(a)
    BY <1>1, <2>1 DEF Waiting, InHand
  <2> QED
    BY <1>1, <1>2, <1>7, <2>2, LineSame DEF flp
<1> QED
  BY <1>6, <1>7 DEF flp

\* Any step: the line of an aerodrome stays, or receives a generated flight or a
\* batch at its end.
LEMMA LineStep ==
  ASSUME IInv, IInv', BatchInv, Next, NEW a \in Aerodrome
  PROVE  \/ Line(a)' = Line(a)
         \/ Offer /\ Joins(a, FLP_list[offered + 1])
         \/ (Fill \/ VisitFirst \/ VisitNext) /\ BatchJoins(a)
<1>1. CASE UNCHANGED <<FLPque, temp_FLP, ReleasedFLP>>
  BY <1>1, LineSame DEF Waiting, InHand
<1>2. CASE Offer
  BY <1>2, LineOffer
<1>3. CASE Fill
  BY <1>3, LineFill
<1>4. CASE VisitFirst \/ VisitNext
  BY <1>4, LineVisit
<1>5. CASE SendFlightPlan
  BY <1>5, LineSend
<1>6. CASE HlaThread \/ Generate \/ SetInterval \/ Execute
  <2>1. UNCHANGED <<FLPque, temp_FLP, ReleasedFLP>>
    BY <1>6 DEF HlaThread, MasterReflect, CopyState, CopyTime, Generate, SetInterval, Execute,
       adVars, simVars
  <2> QED
    BY <1>1, <2>1
<1>7. CASE Load \/ Start \/ BeginPass \/ SendFails \/ UpdateDisplay
  <2>1. UNCHANGED <<FLPque, temp_FLP, ReleasedFLP>>
    BY <1>7 DEF Load, Start, BeginPass, SendFails, UpdateDisplay, adVars
  <2> QED
    BY <1>1, <2>1
<1> QED
  BY <1>2, <1>3, <1>4, <1>5, <1>6, <1>7 DEF Next, EventThread, SimulationThread, Frame

-------------------------------------------------------------------------------
(* The hubs.                                                               *)

LEMMA BatchRemainder ==
  ASSUME NEW w \in Nat \ {0}, NEW n \in Nat, NEW k \in 1..w
  PROVE  (n * w + k - 1) % w = k - 1 /\ n * w \in Nat /\ (n + 1) * w = n * w + w /\ n <= n * w
<1>1. k - 1 \in 0..w - 1 /\ n * w \in Nat
  OBVIOUS
<1>2. \A j \in 0..w - 1 : (n * w + j) % w = j
  OBVIOUS
<1>3. n * w + k - 1 = n * w + (k - 1)
  BY <1>1
<1> QED
  BY <1>1, <1>2, <1>3

\* A batch at the end of a line of whole batches continues the cycle.
LEMMA CycleStep ==
  ASSUME IInv, IInv', BatchInv, HubCycle, NEW h \in Hub, BatchJoins(h)
  PROVE  /\ \E n \in 0..Len(Line(h)') : Len(Line(h)') = n * Len(Pattern[h])
         /\ \A k \in 1..Len(Line(h)') :
              Line(h)'[k] = [dep |-> h, no |-> k,
                             type |-> Pattern[h][((k - 1) % Len(Pattern[h])) + 1]]
<1> DEFINE w   == Len(Pattern[h])
           len == Len(Line(h))
           new == Line(h)'
<1>1. h \in Aerodrome /\ TypeOK /\ TypeOK' /\ Waiting(h) = <<>> /\ new = Line(h) \o Batch(h)
  BY DEF BatchJoins, IInv
<1>2. w \in Nat \ {0}
  <2>1. Pattern[h] \in Seq(Category) /\ Pattern[h] # <<>>
    OBVIOUS
  <2> QED
    BY <2>1, EmptySeq
<1>3. /\ Batch(h) \in Seq(Flight) /\ Len(Batch(h)) = w
      /\ \A k \in 1..w :
           Batch(h)[k] = [dep |-> h, no |-> Len(ReleasedFLP[h]) + k, type |-> Pattern[h][k]]
  <2>1. Batch(h) \in Seq(Flight)
    BY <1>1, BatchProperties
  <2>2. DOMAIN Batch(h) = 1..w
    BY DEF Batch
  <2>3. Len(Batch(h)) = w
    BY <1>2, <2>1, <2>2, LenProperties
  <2> QED
    BY <2>1, <2>3 DEF Batch
<1>4. Line(h) \in Seq(Flight) /\ len \in Nat /\ len = Len(ReleasedFLP[h])
  <2>1. Len(<<>>) = 0 /\ Len(ReleasedFLP[h]) \in Nat
    BY <1>1, LenProperties, EmptySeq DEF TypeOK
  <2> QED
    BY <1>1, <2>1, LineType
<1>5. /\ Len(new) = len + w
      /\ \A k \in 1..len + w : new[k] = IF k <= len THEN Line(h)[k] ELSE Batch(h)[k - len]
  <2> HIDE DEF w, len, new
  <2>1. len = Len(Line(h)) /\ w = Len(Batch(h))
    BY <1>3 DEF len
  <2> QED
    BY <1>1, <1>3, <1>4, <2>1, ConcatLookup
<1>6. PICK n \in 0..len : len = n * w
  BY DEF BatchInv
<1> HIDE DEF w, len, new
<1>7. n \in Nat
  BY <1>4, <1>6
<1>8. n + 1 \in 0..Len(new) /\ Len(new) = (n + 1) * w
  <2>1. 1 \in 1..w
    BY <1>2
  <2>2. (n + 1) * w = n * w + w
    BY <1>2, <1>7, <2>1, BatchRemainder
  <2> QED
    BY <1>2, <1>4, <1>5, <1>6, <1>7, <2>2
<1>9. ASSUME NEW k \in 1..Len(new)
      PROVE  new[k] = [dep |-> h, no |-> k, type |-> Pattern[h][((k - 1) % w) + 1]]
  <2>1. CASE k <= len
    <3>1. k \in 1..len
      BY <1>2, <1>4, <1>5, <2>1
    <3>2. Line(h)[k] = [dep |-> h, no |-> k, type |-> Pattern[h][((k - 1) % w) + 1]]
      BY <3>1 DEF HubCycle, len, w
    <3> QED
      BY <1>5, <2>1, <3>2
  <2>2. CASE ~(k <= len)
    <3> DEFINE j == k - len
    <3>1. j \in 1..w /\ len + j = k /\ k - 1 = len + j - 1
      BY <1>2, <1>4, <1>5, <2>2
    <3>2. (n * w + j - 1) % w = j - 1
      BY <1>2, <1>7, <3>1, BatchRemainder
    <3>3. (k - 1) % w = j - 1
      BY <1>6, <3>1, <3>2
    <3>4. new[k] = Batch(h)[j]
      BY <1>5, <2>2
    <3>5. Batch(h)[j] = [dep |-> h, no |-> k, type |-> Pattern[h][j]]
      BY <1>3, <1>4, <3>1
    <3>6. (j - 1) + 1 = j
      BY <3>1
    <3> QED
      BY <3>3, <3>4, <3>5, <3>6
  <2> QED
    BY <2>1, <2>2
<1> QED
  BY <1>8, <1>9 DEF w, new

LEMMA HubStep ==
  ASSUME IInv, IInv', BatchInv, HubCycle, Next
  PROVE  BatchInv' /\ HubCycle'
<1>1. ASSUME NEW h \in Hub
      PROVE  /\ \E n \in 0..Len(Line(h)') : Len(Line(h)') = n * Len(Pattern[h])
             /\ \A k \in 1..Len(Line(h)') :
                  Line(h)'[k] = [dep |-> h, no |-> k,
                                 type |-> Pattern[h][((k - 1) % Len(Pattern[h])) + 1]]
  <2>1. Line(h)' = Line(h) \/ BatchJoins(h)
    BY LineStep DEF Joins
  <2>2. CASE Line(h)' = Line(h)
    BY <2>2 DEF BatchInv, HubCycle
  <2> QED
    BY <2>1, <2>2, CycleStep
<1>2. ASSUME NEW h \in Hub, pc' \in {"load", "fill"} PROVE FLPque'[h] = <<>>
  <2>1. pc \in {"load", "fill"} /\ ~Fill /\ ~VisitFirst /\ ~VisitNext
    BY <1>2, VisitNextCases DEF Next, HlaThread, MasterReflect, CopyState, CopyTime, EventThread, Generate,
       Offer, SetInterval, Execute, SimulationThread, Load, Fill, Start, Frame, BeginPass,
       VisitFirst, SendFlightPlan, SendFails, UpdateDisplay, NextAerodrome, Poll, simVars
  <2>2. CASE Offer
    <3>1. FLP_list[offered + 1].dep # h
      BY <2>2, LineOffer DEF Joins
    <3> QED
      BY <2>1, <2>2, <3>1 DEF Offer, BatchInv, IInv, TypeOK
  <2>3. CASE UNCHANGED FLPque
    BY <2>1, <2>3 DEF BatchInv
  <2> QED
    BY <2>1, <2>2, <2>3 DEF Next, HlaThread, MasterReflect, CopyState, CopyTime, EventThread,
       Generate, SetInterval, Execute, SimulationThread, Load, Start, Frame, BeginPass,
       SendFlightPlan, SendFails, UpdateDisplay, adVars
<1> QED
  BY <1>1, <1>2 DEF BatchInv, HubCycle
-------------------------------------------------------------------------------
(* The aerodromes whose flights are generated.                             *)

LEMMA PlanNumbers ==
  ASSUME NEW p \in Plans
  PROVE  \A n \in 1..Len(p) : p[n].no = n
<1>0. PICK m \in 0..MaxPlan :
        \E q \in [1..m -> [dep : Aerodrome \ Hub, type : APLType]] : p = Numbered(q)
  BY DEF Plans
<1>1. PICK q \in [1..m -> [dep : Aerodrome \ Hub, type : APLType]] : p = Numbered(q)
  BY <1>0
<1>2. m \in Nat /\ DOMAIN p = 1..m /\ \A n \in 1..m : p[n].no = n
  BY <1>1, BoundAssumption DEF Numbered
<1>3. p \in Seq(Flight)
  BY PlansProperties
<1>4. Len(p) = m
  BY <1>2, <1>3, LenProperties
<1> QED
  BY <1>2, <1>4

LEMMA PlanInvStep == IInv /\ PlanInv /\ Next => PlanInv'
<1> SUFFICES ASSUME IInv, PlanInv, Next PROVE PlanInv'
  OBVIOUS
<1>1. CASE Generate
  <2>1. FLP_list' \in Plans /\ offered' = 0
    BY <1>1 DEF Generate
  <2> QED
    BY <2>1, PlanNumbers DEF PlanInv
<1>2. CASE Offer
  <2>1. UNCHANGED FLP_list /\ edt = "offering" /\ (edt' = "idle" => ~enabled' \/ edt' = edt)
    BY <1>2 DEF Offer
  <2> QED
    BY <2>1 DEF PlanInv
<1>3. CASE UNCHANGED <<FLP_list, offered, enabled, edt>>
  BY <1>3 DEF PlanInv
<1> QED
  BY <1>1, <1>2, <1>3 DEF Next, HlaThread, MasterReflect, CopyState, CopyTime, EventThread,
     SetInterval, Execute, SimulationThread, Load, Fill, Start, Frame, BeginPass, VisitFirst,
     VisitNext, SendFlightPlan, SendFails, UpdateDisplay, panelVars

LEMMA NothingFiled ==
  ASSUME NEW a, NEW line, Len(line) = 0, NEW plan
  PROVE  InOrder(a, line, plan, 0)
BY DEF InOrder

\* The next flight of the plan joins the line of its aerodrome, or none.
LEMMA OrderGrows ==
  ASSUME NEW a, NEW line \in Seq(Flight), NEW plan, NEW n \in Nat,
         plan[n + 1] \in Flight, plan[n + 1].no = n + 1, InOrder(a, line, plan, n)
  PROVE  IF plan[n + 1].dep = a THEN InOrder(a, Append(line, plan[n + 1]), plan, n + 1)
                                ELSE InOrder(a, line, plan, n + 1)
<1> DEFINE flp == plan[n + 1]
           len == Len(line)
<1>1. len \in Nat
  BY LenProperties
<1>2. flp \in Flight /\ flp.no = n + 1
  OBVIOUS
<1>3. \A m \in 1..n + 1 : m \in 1..n \/ m = n + 1
  OBVIOUS
<1>4. ASSUME flp.dep # a PROVE InOrder(a, line, plan, n + 1)
  BY <1>3, <1>4 DEF InOrder
<1>5. ASSUME flp.dep = a PROVE InOrder(a, Append(line, flp), plan, n + 1)
  <2> DEFINE new == Append(line, flp)
  <2>1. /\ Len(new) = len + 1 /\ new[len + 1] = flp
        /\ \A k \in 1..len : new[k] = line[k]
    BY <1>2, AppendProperties
  <2> HIDE DEF new, len, flp
  <2>2. \A k \in 1..len + 1 : k \in 1..len \/ k = len + 1
    BY <1>1
  <2>3. \A k \in 1..len :
          /\ line[k].no \in 1..n /\ line[k] = plan[line[k].no] /\ line[k].dep = a
          /\ \A j \in 1..k - 1 : line[j].no < line[k].no
    BY DEF InOrder, len
  <2>4. ASSUME NEW k \in 1..len + 1
        PROVE  /\ new[k].no \in 1..n + 1
               /\ new[k] = plan[new[k].no] /\ new[k].dep = a
               /\ \A j \in 1..k - 1 : new[j].no < new[k].no
    <3>1. CASE k \in 1..len
      <4>1. new[k] = line[k] /\ \A j \in 1..k - 1 : j \in 1..len /\ new[j] = line[j]
        BY <1>1, <2>1, <3>1
      <4>2. /\ line[k].no \in 1..n + 1 /\ line[k] = plan[line[k].no] /\ line[k].dep = a
            /\ \A j \in 1..k - 1 : line[j].no < line[k].no
        BY <2>3, <3>1
      <4> QED
        BY <4>1, <4>2
    <3>2. CASE k = len + 1
      <4>1. new[k] = flp /\ \A j \in 1..k - 1 : j \in 1..len /\ new[j] = line[j]
        BY <1>1, <2>1, <3>2
      <4>2. \A j \in 1..k - 1 : new[j].no < n + 1
        BY <2>3, <4>1
      <4>3. flp = plan[flp.no]
        BY <1>2 DEF flp
      <4> QED
        BY <1>2, <1>5, <4>1, <4>2, <4>3
    <3> QED
      BY <2>2, <3>1, <3>2
  <2>5. ASSUME NEW m \in 1..n + 1, plan[m].dep = a
        PROVE  \E k \in 1..len + 1 : new[k] = plan[m]
    <3>1. CASE m \in 1..n
      <4>1. PICK k \in 1..len : line[k] = plan[m]
        BY <2>5, <3>1 DEF InOrder, len
      <4> QED
        BY <1>1, <2>1, <4>1
    <3>2. CASE m = n + 1
      BY <1>1, <2>1, <3>2 DEF flp
    <3> QED
      BY <1>3, <3>1, <3>2
  <2> QED
    BY <2>1, <2>4, <2>5 DEF InOrder, new
<1> QED
  BY <1>4, <1>5

\* A plan is made anew only while nothing is queued; every turn of the loop of
\* Generate puts the next flight at the end of one line.
LEMMA FilingStep ==
  ASSUME IInv, IInv', PlanInv, BatchInv, FilingOrder, Next
  PROVE  FilingOrder'
<1> SUFFICES ASSUME NEW a \in Aerodrome \ Hub
             PROVE  InOrder(a, Line(a)', FLP_list', offered')
  BY DEF FilingOrder
<1>1. InOrder(a, Line(a), FLP_list, offered)
  BY DEF FilingOrder
<1>2. /\ TypeOK /\ Line(a) \in Seq(Flight) /\ Len(Line(a)) \in Nat
      /\ FLP_list \in Seq(Flight) /\ offered \in Nat
  <2>1. TypeOK
    BY DEF IInv
  <2>2. FLP_list \in Seq(Flight) /\ offered \in Nat
    BY <2>1 DEF TypeOK
  <2> QED
    BY <2>1, <2>2, LineType
<1>3. CASE Generate
  <2>1. Line(a)' = Line(a)
    BY <1>3, LineSame DEF Generate, adVars, simVars, Waiting, InHand
  <2>2. offered = 0 /\ offered' = 0
    BY <1>3 DEF Generate, PlanInv
  <2>3. Len(Line(a)) = 0
    <3> DEFINE line == Line(a)
    <3>1. Len(line) \in Nat
      BY <1>2
    <3>2. \A k \in 1..Len(line) : line[k].no \in 1..0
      BY <1>1, <2>2 DEF InOrder
    <3> HIDE DEF line
    <3>3. Len(line) = 0
      BY <3>1, <3>2
    <3> QED
      BY <3>3 DEF line
  <2> QED
    BY <2>1, <2>2, <2>3, NothingFiled
<1>4. CASE Offer
  <2> DEFINE flp == FLP_list[offered + 1]
  <2>1. /\ flp \in Flight /\ flp.no = offered + 1
        /\ IF flp.dep = a THEN Line(a)' = Line(a) \o <<flp>> ELSE Line(a)' = Line(a)
    BY <1>4, LineOffer DEF Joins, PlanInv
  <2>2. FLP_list' = FLP_list /\ offered' = offered + 1
    BY <1>4 DEF Offer
  <2>3. Line(a) \o <<flp>> = Append(Line(a), flp)
    BY <1>2, <2>1, AppendIsConcat
  <2>4. IF flp.dep = a THEN InOrder(a, Append(Line(a), flp), FLP_list, offered + 1)
                       ELSE InOrder(a, Line(a), FLP_list, offered + 1)
    BY <1>1, <1>2, <2>1, OrderGrows
  <2> QED
    BY <2>1, <2>2, <2>3, <2>4, Zenon
<1>5. CASE UNCHANGED <<FLP_list, offered>> /\ ~Offer
  <2>1. Line(a)' = Line(a)
    BY <1>5, LineStep DEF BatchJoins
  <2> QED
    BY <1>1, <1>5, <2>1
<1> QED
  BY <1>3, <1>4, <1>5 DEF Next, HlaThread, MasterReflect, CopyState, CopyTime, EventThread,
     SetInterval, Execute, SimulationThread, Load, Fill, Start, Frame, BeginPass, VisitFirst,
     VisitNext, SendFlightPlan, SendFails, UpdateDisplay, panelVars
-------------------------------------------------------------------------------
(* The tables of the hubs.                                                 *)

\* A row of an updated table shows a release, a waiting flight or what it showed.
LEMMA UpdatedRow ==
  ASSUME NEW table \in [1..Rows -> Row], NEW rel \in Seq(Release), NEW que \in Seq(Flight),
         NEW r \in 1..Rows
  PROVE  LET n   == Least(ReleasedRows, Len(rel))
             row == UpdatedTable(table, rel, que)[r]
         IN  /\ r <= n => row = ReleasedRow(rel[Len(rel) - n + r].flp)
             /\ ~(r <= n) => ~row.released \/ row = table[r]
<1> DEFINE n   == Least(ReleasedRows, Len(rel))
           row == UpdatedTable(table, rel, que)[r]
<1>1. row = IF r <= n THEN ReleasedRow(rel[Len(rel) - n + r].flp)
            ELSE IF n > 0 /\ r - n <= Len(que) THEN WaitingRow(que[r - n]) ELSE table[r]
  BY Zenon DEF UpdatedTable
<1>2. \A flp : ~WaitingRow(flp).released
  BY Zenon DEF WaitingRow
<1> HIDE DEF n, row
<1>3. /\ r <= n => row = ReleasedRow(rel[Len(rel) - n + r].flp)
      /\ ~(r <= n) => ~row.released \/ row = table[r]
  BY <1>1, <1>2, Zenon
<1> QED
  BY <1>3 DEF n, row

\* The releases of a hub in the table, counted from the top.
LEMMA ShownRelease ==
  ASSUME TypeOK, NEW h \in Hub, NEW r \in 1..Rows, r <= LastReleases(h)
  PROVE  Departed(h)[Len(ReleasedFLP[h]) - LastReleases(h) + r] =
           ReleasedFLP[h][Len(ReleasedFLP[h]) - LastReleases(h) + r].flp
<1>1. ReleasedFLP[h] \in Seq(Release) /\ Len(ReleasedFLP[h]) \in Nat
  BY LenProperties DEF TypeOK
<1>2. Len(ReleasedFLP[h]) - LastReleases(h) + r \in 1..Len(ReleasedFLP[h])
  <2> DEFINE len == Len(ReleasedFLP[h])
  <2>1. LastReleases(h) \in 0..len
    <3> HIDE DEF len
    <3>1. LastReleases(h) = IF 3 <= len THEN 3 ELSE len
      BY DEF LastReleases, Least, ReleasedRows, len
    <3>2. len \in Nat
      BY <1>1 DEF len
    <3> QED
      BY <3>1, <3>2
  <2>2. len \in Nat /\ r \in Nat \ {0}
    BY <1>1 DEF Rows
  <2> HIDE DEF len
  <2> QED
    BY <2>1, <2>2 DEF len
<1> QED
  BY <1>2, DepartedType

LEMMA BoardStep ==
  ASSUME IInv, IInv', BoardInv, Next
  PROVE  BoardInv'
<1>0. TypeOK
  BY DEF IInv
<1>1. CASE UNCHANGED <<tableValues, ReleasedFLP>> /\ ~UpdateDisplay
  <2>1. CASE pc' \in {"frame", "visit"} => pc \in {"frame", "visit"}
    BY <1>1, <2>1 DEF BoardInv, LastReleases, Departed
  <2>2. CASE Start
    <3>1. \A h \in Hub : Len(ReleasedFLP[h]) = 0
      <4>1. \A h \in Hub : ReleasedFLP[h] = <<>>
        BY <2>2 DEF Start, IInv, ReleaseInv, BeforeStart
      <4> QED
        BY <4>1, EmptySeq
    <3>2. \A h \in Hub : LastReleases(h)' = 0 /\ LastReleases(h) = 0
      BY <1>1, <3>1 DEF LastReleases, Least, ReleasedRows
    <3> QED
      BY <1>1, <3>2 DEF BoardInv
  <2> QED
    BY <1>1, <2>1, <2>2 DEF Next, HlaThread, MasterReflect, CopyState, CopyTime,
       EventThread, Generate, Offer, SetInterval, Execute, SimulationThread, Load, Fill, Frame,
       BeginPass, VisitFirst, VisitNext, SendFlightPlan, SendFails, simVars
<1>2. CASE Fill
  <2>1. pc' = "wait" /\ UNCHANGED ReleasedFLP
    BY <1>2 DEF Fill
  <2>2. ASSUME NEW h \in Hub, NEW r \in 1..Rows, tableValues'[h][r].released
        PROVE  tableValues[h][r].released
    BY <1>2, <2>2 DEF Fill, InitialTable, WaitingRow
  <2> QED
    BY <2>1, <2>2 DEF BoardInv, LastReleases
<1>3. CASE SendFlightPlan
  <2>1. pc' = "display" /\ UNCHANGED tableValues
    BY <1>3 DEF SendFlightPlan
  <2>2. ASSUME NEW h \in Hub PROVE LastReleases(h) <= LastReleases(h)'
    <3>1. Len(ReleasedFLP[h]) \in Nat
      BY <1>0, LenProperties DEF TypeOK
    <3>2. Len(ReleasedFLP'[h]) \in {Len(ReleasedFLP[h]), Len(ReleasedFLP[h]) + 1}
      BY <1>3, SendRelease
    <3> QED
      BY <3>1, <3>2 DEF LastReleases, Least, ReleasedRows
  <2>3. \A h \in Hub : LastReleases(h) \in Nat /\ LastReleases(h)' \in Nat
    BY LenProperties DEF LastReleases, Least, ReleasedRows, IInv, TypeOK
  <2> QED
    BY <2>1, <2>2, <2>3 DEF BoardInv, Rows
<1>4. CASE UpdateDisplay
  <2>1. UNCHANGED ReleasedFLP
    BY <1>4 DEF UpdateDisplay, adVars
  <2>2. ASSUME NEW h \in Hub, NEW r \in 1..Rows
        PROVE  /\ tableValues'[h][r].released => r <= LastReleases(h)
               /\ r <= LastReleases(h) =>
                    tableValues'[h][r] =
                      ReleasedRow(Departed(h)[Len(ReleasedFLP[h]) - LastReleases(h) + r])
    <3> DEFINE row == tableValues'[h][r]
    <3>1. row = UpdatedTable(tableValues[h], ReleasedFLP[h], FLPque[h])[r]
      BY <1>4 DEF UpdateDisplay
    <3>2. /\ tableValues[h] \in [1..Rows -> Row]
          /\ ReleasedFLP[h] \in Seq(Release) /\ FLPque[h] \in Seq(Flight)
      BY <1>0 DEF TypeOK
    <3>3. /\ r <= LastReleases(h) =>
               row = ReleasedRow(ReleasedFLP[h][Len(ReleasedFLP[h]) - LastReleases(h) + r].flp)
          /\ ~(r <= LastReleases(h)) => ~row.released \/ row = tableValues[h][r]
      BY <3>1, <3>2, UpdatedRow DEF LastReleases
    <3>4. tableValues[h][r].released => r <= LastReleases(h)
      BY DEF BoardInv
    <3> HIDE DEF row
    <3>5. row.released => r <= LastReleases(h)
      BY <3>3, <3>4, Zenon
    <3>6. ASSUME r <= LastReleases(h)
          PROVE  row = ReleasedRow(Departed(h)[Len(ReleasedFLP[h]) - LastReleases(h) + r])
      BY <1>0, <3>3, <3>6, ShownRelease, Zenon
    <3> QED
      BY <3>5, <3>6, Zenon DEF row
  <2> QED
    BY <2>1, <2>2 DEF BoardInv, LastReleases, Departed
<1> QED
  BY <1>1, <1>2, <1>3, <1>4 DEF Next, HlaThread, MasterReflect, CopyState, CopyTime,
     EventThread, Generate, Offer, SetInterval, Execute, SimulationThread, Load, Start, Frame,
     BeginPass, VisitFirst, VisitNext, SendFails, adVars
-------------------------------------------------------------------------------
(* The theorems.                                                           *)

LEMMA InitLineInv == Init => LineInv
<1> SUFFICES ASSUME Init PROVE LineInv
  OBVIOUS
<1>1. TypeOK
  BY InitTypeOK
<1>2. ASSUME NEW a \in Aerodrome PROVE Len(Line(a)) = 0 /\ Len(ReleasedFLP[a]) = 0
  <2>1. ReleasedFLP[a] = <<>> /\ FLPque[a] = <<>> /\ temp_FLP = NoFlight
    BY DEF Init
  <2>2. Waiting(a) = <<>> /\ Len(<<>>) = 0
    BY <1>1, <2>1, WaitingInQueue, EmptySeq
  <2> QED
    BY <1>1, <2>1, <2>2, LineType
<1>3. PlanInv
  BY DEF Init, PlanInv
<1>4. BatchInv /\ HubCycle
  <2>1. ASSUME NEW h \in Hub PROVE 0 \in 0..Len(Line(h)) /\ Len(Line(h)) = 0 * Len(Pattern[h])
    <3>1. Pattern[h] \in Seq(Category)
      OBVIOUS
    <3>2. Len(Pattern[h]) \in Nat
      BY <3>1, LenProperties
    <3> QED
      BY <1>2, <3>2
  <2> QED
    BY <1>2, <2>1 DEF Init, BatchInv, HubCycle
<1>5. FilingOrder
  BY <1>2, NothingFiled DEF Init, FilingOrder
<1>6. BoardInv
  <2>1. ASSUME NEW h \in Hub, NEW r \in 1..Rows
        PROVE  ~tableValues[h][r].released /\ pc = "load"
    BY DEF Init, EmptyRow
  <2> QED
    BY <2>1 DEF BoardInv
<1> QED
  BY <1>3, <1>4, <1>5, <1>6 DEF LineInv

LEMMA NextLineInv == IInv /\ IInv' /\ LineInv /\ [Next]_vars => LineInv'
<1> SUFFICES ASSUME IInv, IInv', LineInv, [Next]_vars PROVE LineInv'
  OBVIOUS
<1>1. CASE Next
  BY <1>1, PlanInvStep, HubStep, FilingStep, BoardStep DEF LineInv
<1>2. CASE UNCHANGED vars
  <2>1. UNCHANGED <<FLP_list, offered, enabled, edt, pc, temp_FLP, FLPque, ReleasedFLP, tableValues>>
    BY <1>2 DEF vars, panelVars, adVars, simVars
  <2>2. \A a \in Aerodrome : Line(a)' = Line(a)
    BY <2>1, LineSame DEF Waiting, InHand
  <2>3. PlanInv' /\ BatchInv' /\ HubCycle'
    BY <2>1, <2>2 DEF LineInv, PlanInv, BatchInv, HubCycle
  <2>4. BoardInv'
    BY <2>1 DEF LineInv, BoardInv, LastReleases, Departed
  <2>5. FilingOrder'
    BY <2>1, <2>2 DEF LineInv, FilingOrder
  <2> QED
    BY <2>3, <2>4, <2>5 DEF LineInv
<1> QED
  BY <1>1, <1>2

\* The lines of the aerodromes and the tables of the hubs, in every state.
THEOREM LineInvariant == Spec => []LineInv
<1> QED
  BY InitLineInv, NextLineInv, InductiveInvariant, PTL DEF Spec

\* Every flight of the plan that was queued departs in the order of the plan:
\* none is overtaken, repeated or dropped, for any set of aerodromes, any plan and
\* any interleaving of the event thread with the simulation thread.
THEOREM FilingOrderHolds == Spec => []FilingOrder
<1>1. LineInv => FilingOrder
  BY DEF LineInv
<1> QED
  BY <1>1, LineInvariant, PTL

\* A hub releases its pattern over and over, with consecutive numbers, for every
\* pattern and however often the queue runs empty.
THEOREM HubCycleHolds == Spec => []HubCycle
<1>1. LineInv => HubCycle
  BY DEF LineInv
<1> QED
  BY <1>1, LineInvariant, PTL

\* Between two visits the tables of the hubs mark exactly the last releases as
\* released, the newest one lowest.
THEOREM BoardShowsReleasesHolds == Spec => []BoardShowsReleases
<1>1. IInv /\ LineInv => BoardShowsReleases
  <2> SUFFICES ASSUME IInv, LineInv, pc \in {"frame", "visit"},
                      NEW h \in Hub, NEW r \in 1..Rows
               PROVE  tableValues[h][r].released <=>
                        /\ r <= LastReleases(h)
                        /\ tableValues[h][r].flp =
                             Departed(h)[Len(ReleasedFLP[h]) - LastReleases(h) + r]
    BY Zenon DEF BoardShowsReleases, LastReleases
  <2>1. /\ tableValues[h][r].released => r <= LastReleases(h)
        /\ r <= LastReleases(h) =>
             tableValues[h][r] =
               ReleasedRow(Departed(h)[Len(ReleasedFLP[h]) - LastReleases(h) + r])
    BY DEF LineInv, BoardInv
  <2>2. \A flp : ReleasedRow(flp).released /\ ReleasedRow(flp).flp = flp
    BY DEF ReleasedRow
  <2> QED
    BY <2>1, <2>2, Zenon
<1> QED
  BY <1>1, InductiveInvariant, LineInvariant, PTL
===============================================================================
