-------------------------- MODULE FlightRelease_proofs ------------------------
(***************************************************************************)
(* Proofs about FlightRelease, for every set of aerodromes and hubs, every *)
(* pattern and every value of the bounds: its type invariant, the          *)
(* inductive invariant IInv and, from it, Separation and QueueOwnership.   *)
(***************************************************************************)
EXTENDS FlightRelease, TLAPS, FiniteSetTheorems, SequenceTheorems

USE AerodromeAssumption, HubAssumption, CategoryAssumption, PatternAssumption,
    IntervalAssumption, BoundAssumption, NoFlightAssumption

-------------------------------------------------------------------------------
(* Lemmas about the operators.                                             *)

\* A generated plan is a sequence of flights, none of which departs from a hub.
LEMMA PlansProperties ==
  ASSUME NEW p \in Plans
  PROVE  p \in Seq(Flight) /\ \A k \in 1..Len(p) : p[k].dep \notin Hub
<1> DEFINE Pair == [dep : Aerodrome \ Hub, type : APLType]
<1>0. PICK n \in 0..MaxPlan : \E q \in [1..n -> Pair] : p = Numbered(q)
  BY DEF Plans
<1>1. PICK q \in [1..n -> Pair] : p = Numbered(q)
  BY <1>0
<1>2. n \in Nat
  BY <1>1
<1>3. \A k \in 1..n : p[k] \in Flight /\ p[k].dep \notin Hub
  BY <1>1 DEF Numbered, Flight, Flights
<1>4. p = [k \in 1..n |-> p[k]]
  BY <1>1 DEF Numbered
<1>5. p \in [1..n -> Flight]
  BY <1>3, <1>4
<1>6. p \in Seq(Flight) /\ Len(p) = n
  BY <1>2, <1>5
<1> QED
  BY <1>3, <1>6

\* A batch is a non-empty sequence of flights of its hub.
LEMMA BatchProperties ==
  ASSUME TypeOK, NEW h \in Hub
  PROVE  /\ Batch(h) \in Seq(Flight) \ {<<>>}
         /\ \A k \in 1..Len(Batch(h)) : Batch(h)[k].dep = h
<1>1. Pattern[h] \in Seq(Category) /\ Pattern[h] # <<>>
  OBVIOUS
<1>2. Len(Pattern[h]) \in Nat \ {0}
  BY <1>1
<1>3. Len(ReleasedFLP[h]) \in Nat
  BY DEF TypeOK
<1>4. \A k \in 1..Len(Pattern[h]) : Batch(h)[k] \in Flight /\ Batch(h)[k].dep = h
  BY <1>1, <1>2, <1>3 DEF Batch, Flight, Flights
<1>5. Batch(h) \in [1..Len(Pattern[h]) -> Flight]
  BY <1>4 DEF Batch
<1>6. Batch(h) \in Seq(Flight) /\ Len(Batch(h)) = Len(Pattern[h])
  BY <1>2, <1>5
<1> QED
  BY <1>2, <1>4, <1>6

\* A separation of the table is a whole number of minutes.
LEMMA WakeIsNat ==
  ASSUME NEW b \in Category, NEW f \in Category
  PROVE  WTC_ref[b][f] * Minute \in Nat
<1>1. WTC_ref[b][f] \in {2, 3, 4, 5}
  BY DEF WTC_ref
<1> QED
  BY <1>1

-------------------------------------------------------------------------------
(* Types.                                                                  *)

\* The rows that updateDisplayData leaves are rows again.
LEMMA TableTypes ==
  ASSUME NEW table \in [1..Rows -> Row], NEW que \in Seq(Flight), NEW rel \in Seq(Release)
  PROVE  /\ InitialTable(table, que) \in [1..Rows -> Row]
         /\ UpdatedTable(table, rel, que) \in [1..Rows -> Row]
<1>1. \A flp \in Flight : WaitingRow(flp) \in Row /\ ReleasedRow(flp) \in Row
  BY DEF WaitingRow, ReleasedRow, Row
<1>2. InitialTable(table, que) \in [1..Rows -> Row]
  BY <1>1 DEF InitialTable, Rows
<1>3. UpdatedTable(table, rel, que) \in [1..Rows -> Row]
  <2> DEFINE n == Least(ReleasedRows, Len(rel))
  <2>1. n \in 0..Len(rel) /\ n <= 3
    BY DEF Least, ReleasedRows
  <2> HIDE DEF n
  <2>2. \A r \in 1..Rows : r <= n => rel[Len(rel) - n + r].flp \in Flight
    <3> SUFFICES ASSUME NEW r \in 1..Rows, r <= n
                 PROVE  rel[Len(rel) - n + r].flp \in Flight
      OBVIOUS
    <3>1. Len(rel) - n + r \in 1..Len(rel)
      BY <2>1 DEF Rows
    <3>2. rel[Len(rel) - n + r] \in Release
      BY <3>1, ElementOfSeq
    <3> QED
      BY <3>2 DEF Release
  <2>3. \A r \in 1..Rows : n < r /\ r - n <= Len(que) => que[r - n] \in Flight
    BY <2>1 DEF Rows
  <2>4. UpdatedTable(table, rel, que) =
          [r \in 1..Rows |->
             IF r <= n THEN ReleasedRow(rel[Len(rel) - n + r].flp)
             ELSE IF n > 0 /\ r - n <= Len(que) THEN WaitingRow(que[r - n])
             ELSE table[r]]
    BY DEF UpdatedTable, n
  <2> QED
    BY <1>1, <2>1, <2>2, <2>3, <2>4 DEF Rows
<1> QED
  BY <1>2, <1>3

LEMMA InitTypeOK == Init => TypeOK
<1> SUFFICES ASSUME Init PROVE TypeOK
  OBVIOUS
<1>1. tableValues \in [Hub -> [1..Rows -> Row]]
  BY DEF Init, Row, EmptyRow
<1>2. time_interval \in [Aerodrome -> Int]
  BY DEF Init
<1>3. FLPque \in [Aerodrome -> Seq(Flight)] /\ ReleasedFLP \in [Aerodrome -> Seq(Release)]
  BY DEF Init
<1>4. ref_time \in [Aerodrome -> Int]
  BY DEF Init
<1>5. FLP_list \in Seq(Flight) /\ offered \in 0..Len(FLP_list) /\ AD_set \in Seq(Aerodrome)
  BY DEF Init
<1>6. ind_resume \in BOOLEAN /\ ind_start \in BOOLEAN /\ enabled \in BOOLEAN
  BY Zenon DEF Init
<1> QED
  BY <1>1, <1>2, <1>3, <1>4, <1>5, <1>6 DEF Init, TypeOK, InPass

LEMMA HlaTypeOK == TypeOK /\ HlaThread => TypeOK'
<1> SUFFICES ASSUME TypeOK, HlaThread PROVE TypeOK'
  OBVIOUS
<1> USE DEF TypeOK, masterVars, refVars, panelVars, adVars, simVars
<1>1. CASE MasterReflect
  BY <1>1 DEF MasterReflect
<1>2. CASE CopyState
  BY <1>2 DEF CopyState
<1>3. CASE CopyTime
  BY <1>3 DEF CopyTime
<1> QED
  BY <1>1, <1>2, <1>3 DEF HlaThread

LEMMA EventTypeOK == TypeOK /\ PanelInv /\ EventThread => TypeOK'
<1> SUFFICES ASSUME TypeOK, PanelInv, EventThread PROVE TypeOK'
  OBVIOUS
<1> USE DEF TypeOK, hlaVars, masterVars, refVars, panelVars, adVars, simVars
<1>1. CASE Generate
  <2>1. FLP_list' \in Seq(Flight) /\ 0 \in 0..Len(FLP_list')
    BY <1>1, PlansProperties DEF Generate
  <2> QED
    BY <1>1, <2>1 DEF Generate
<1>2. CASE Offer
  <2>1. offered + 1 \in 1..Len(FLP_list)
    <3>1. edt = "offering"
      BY <1>2 DEF Offer
    <3>2. offered < Len(FLP_list)
      BY <3>1 DEF PanelInv
    <3> QED
      BY <3>2
  <2>2. FLP_list[offered + 1] \in Flight
    BY <2>1
  <2>3. FLPque' \in [Aerodrome -> Seq(Flight)]
    <3> DEFINE flp == FLP_list[offered + 1]
    <3>1. flp.dep \in Aerodrome /\ FLPque[flp.dep] \in Seq(Flight)
      BY <2>2 DEF Flight, Flights
    <3>2. Append(FLPque[flp.dep], flp) \in Seq(Flight)
      BY <2>2, <3>1
    <3> HIDE DEF flp
    <3>3. FLPque' = [FLPque EXCEPT ![flp.dep] = Append(FLPque[flp.dep], flp)]
      BY <1>2 DEF Offer, flp
    <3> QED
      BY <3>1, <3>2, <3>3
  <2>4. offered' \in 0..Len(FLP_list) /\ FLP_list' = FLP_list
    BY <1>2, <2>1 DEF Offer
  <2> QED
    BY <1>2, <2>3, <2>4 DEF Offer
<1>3. CASE SetInterval
  BY <1>3 DEF SetInterval
<1>4. CASE Execute
  BY <1>4 DEF Execute
<1> QED
  BY <1>1, <1>2, <1>3, <1>4 DEF EventThread

\* During a pass ad is an aerodrome.
LEMMA AdType ==
  ASSUME TypeOK, PanelInv, pc \in InPass
  PROVE  /\ i \in 1..Len(AD_set) /\ ad \in Aerodrome
         /\ FLPque[ad] \in Seq(Flight) /\ ReleasedFLP[ad] \in Seq(Release)
         /\ ref_time[ad] \in Int /\ time_interval[ad] \in Int
<1>1. i \in 1..Len(AD_set)
  BY DEF PanelInv
<1>2. ad \in Aerodrome
  BY <1>1 DEF ad, TypeOK
<1> QED
  BY <1>1, <1>2 DEF TypeOK

\* Polling leaves a flight in hand and the rest of the queue.
LEMMA PollType ==
  ASSUME TypeOK, ad \in Aerodrome, NEW que \in Seq(Flight), que # <<>>,
         NEW interval \in Int, Poll(que, interval)
  PROVE  /\ FLPque' \in [Aerodrome -> Seq(Flight)]
         /\ temp_FLP' \in Flight /\ gap' \in Int /\ pc' = "release" /\ i' = i
<1>1. Head(que) \in Flight /\ Tail(que) \in Seq(Flight)
  OBVIOUS
<1> QED
  BY <1>1 DEF Poll, TypeOK

\* The queue that a later visit finds: a hub's is never empty.
Refilled(a) == IF a \in Hub /\ FLPque[a] = <<>> THEN Batch(a) ELSE FLPque[a]

\* The interval that a later visit to ad compares with, for the flight flp.
Wait(flp, jitter) ==
  Longest(WTC_ref[flp.type][LastOf(ReleasedFLP[ad]).flp.type] * Minute + jitter,
          time_interval[ad])

LEMMA RefilledType ==
  ASSUME TypeOK, NEW a \in Aerodrome
  PROVE  Refilled(a) \in Seq(Flight)
BY BatchProperties DEF Refilled, TypeOK

LEMMA WaitProperties ==
  ASSUME TypeOK, PanelInv, pc \in InPass, ReleasedFLP[ad] # <<>>,
         NEW flp \in Flight, NEW jitter \in 0..MaxJitter
  PROVE  /\ Wait(flp, jitter) \in Int
         /\ Wait(flp, jitter) >= WTC_ref[flp.type][LastOf(ReleasedFLP[ad]).flp.type] * Minute
<1> DEFINE prev == LastOf(ReleasedFLP[ad])
           wake == WTC_ref[flp.type][prev.flp.type] * Minute
<1>1. prev \in Release
  BY AdType, ElementOfSeq DEF LastOf
<1>2. flp.type \in Category /\ prev.flp.type \in Category
  BY <1>1 DEF Release, Flight, Flights
<1>3. wake \in Nat
  BY <1>2, WakeIsNat
<1>4. time_interval[ad] \in Int
  BY AdType
<1>5. Wait(flp, jitter) = Longest(wake + jitter, time_interval[ad])
  BY DEF Wait
<1> HIDE DEF wake
<1>6. Wait(flp, jitter) \in Int /\ Wait(flp, jitter) >= wake
  BY <1>3, <1>4, <1>5 DEF Longest
<1> QED
  BY <1>6 DEF wake

\* The two outcomes of a later visit in terms of the operators above.
LEMMA VisitNextCases ==
  ASSUME VisitNext
  PROVE  \/ NextAerodrome /\ UNCHANGED <<FLPque, temp_FLP, gap>>
         \/ /\ Refilled(ad) # <<>>
            /\ \E jitter \in 0..MaxJitter :
                 /\ Due(Wait(Head(Refilled(ad)), jitter))
                 /\ Poll(Refilled(ad), Wait(Head(Refilled(ad)), jitter))
         \/ /\ FLPque' = [FLPque EXCEPT ![ad] = Refilled(ad)]
            /\ pc' = "display"
            /\ UNCHANGED <<i, temp_FLP, gap>>
BY DEF VisitNext, Refilled, Wait

\* A visit leaves every variable with its type, whichever branch it takes.
LEMMA VisitTypeOK == TypeOK /\ PanelInv /\ (VisitFirst \/ VisitNext) => TypeOK'
<1> SUFFICES ASSUME TypeOK, PanelInv, VisitFirst \/ VisitNext PROVE TypeOK'
  OBVIOUS
<1>1. pc \in InPass
  BY DEF VisitFirst, VisitNext, InPass
<1>2. i \in 1..Len(AD_set) /\ ad \in Aerodrome /\ time_interval[ad] \in Int
  BY <1>1, AdType
<1>3. UNCHANGED <<hlaVars, panelVars, AD_set, ReleasedFLP, ref_time, time_interval, tableValues>>
  BY DEF VisitFirst, VisitNext
<1> DEFINE Typed == /\ FLPque' \in [Aerodrome -> Seq(Flight)]
                    /\ temp_FLP' \in Flight \union {NoFlight} /\ gap' \in Int
                    /\ pc' \in {"frame"} \union InPass /\ i' \in Nat \ {0}
<1>4. Typed
  <2>1. CASE VisitFirst
    <3>1. CASE FLPque[ad] # <<>> /\ Poll(FLPque[ad], time_interval[ad])
      BY <3>1, <1>1, <1>2, AdType, PollType DEF InPass
    <3>2. CASE pc' = "display" /\ UNCHANGED <<FLPque, i, temp_FLP, gap>>
      BY <3>2 DEF TypeOK, InPass
    <3> QED
      BY <2>1, <3>1, <3>2 DEF VisitFirst
  <2>2. CASE VisitNext
    <3>1. CASE NextAerodrome /\ UNCHANGED <<FLPque, temp_FLP, gap>>
      <4>1. i' = i + 1 /\ pc' \in {"frame", "visit"}
        BY <3>1 DEF NextAerodrome
      <4>2. i' \in Nat \ {0}
        BY <4>1 DEF TypeOK
      <4> QED
        BY <3>1, <4>1, <4>2 DEF TypeOK, InPass
    <3>2. ASSUME Refilled(ad) # <<>>, NEW jitter \in 0..MaxJitter,
                 Poll(Refilled(ad), Wait(Head(Refilled(ad)), jitter))
          PROVE  Typed
      <4>1. Refilled(ad) \in Seq(Flight)
        BY <1>2, RefilledType
      <4>2. Head(Refilled(ad)) \in Flight
        BY <3>2, <4>1
      <4>3. ReleasedFLP[ad] # <<>>
        BY <2>2 DEF VisitNext
      <4>4. Wait(Head(Refilled(ad)), jitter) \in Int
        BY <1>1, <4>2, <4>3, WaitProperties
      <4> QED
        BY <1>2, <3>2, <4>1, <4>4, PollType DEF InPass
    <3>3. CASE /\ FLPque' = [FLPque EXCEPT ![ad] = Refilled(ad)]
               /\ pc' = "display"
               /\ UNCHANGED <<i, temp_FLP, gap>>
      BY <1>2, <3>3, RefilledType DEF TypeOK, InPass
    <3> HIDE DEF Typed
    <3> QED
      BY <2>2, <3>1, <3>2, <3>3, VisitNextCases
  <2> QED
    BY <2>1, <2>2
<1> QED
  BY <1>3, <1>4 DEF TypeOK, hlaVars, masterVars, refVars, panelVars

\* The record that SendFlightPlan adds.
NewRelease ==
  [flp |-> temp_FLP, time |-> master_time,
   time_interval |-> IF ReleasedFLP[ad] = <<>> THEN time_interval[ad] ELSE gap]

LEMMA SendType ==
  ASSUME TypeOK, PanelInv, ReleaseInv, SendFlightPlan
  PROVE  /\ ad \in Aerodrome /\ NewRelease \in Release
         /\ ReleasedFLP' = [ReleasedFLP EXCEPT ![ad] = Append(ReleasedFLP[ad], NewRelease)]
<1>1. pc \in InPass /\ temp_FLP \in Flight
  BY DEF SendFlightPlan, ReleaseInv, InPass
<1>2. ad \in Aerodrome /\ time_interval[ad] \in Int
  BY <1>1, AdType
<1>3. NewRelease \in Release
  BY <1>1, <1>2 DEF NewRelease, Release, TypeOK
<1> QED
  BY <1>2, <1>3 DEF SendFlightPlan, NewRelease

LEMMA SimulationTypeOK == TypeOK /\ PanelInv /\ ReleaseInv /\ SimulationThread => TypeOK'
<1> SUFFICES ASSUME TypeOK, PanelInv, ReleaseInv, SimulationThread PROVE TypeOK'
  OBVIOUS
<1> USE DEF hlaVars, masterVars, refVars, panelVars, adVars
<1>1. CASE Load
  <2>1. Cardinality(Aerodrome) \in Nat
    BY FS_CardinalityType
  <2>2. AD_set' \in Seq(Aerodrome)
    BY <1>1, <2>1 DEF Load
  <2> QED
    BY <1>1, <2>2 DEF Load, TypeOK
<1>2. CASE Fill
  <2>1. FLPque' \in [Aerodrome -> Seq(Flight)]
    BY <1>2, BatchProperties DEF Fill, TypeOK
  <2>2. tableValues' \in [Hub -> [1..Rows -> Row]]
    BY <1>2, <2>1, TableTypes, EmptySeq DEF Fill, TypeOK
  <2> QED
    BY <1>2, <2>1, <2>2 DEF Fill, TypeOK
<1>3. CASE Start
  BY <1>3 DEF Start, TypeOK
<1>4. CASE BeginPass
  BY <1>4 DEF BeginPass, TypeOK, InPass
<1>5. CASE VisitFirst \/ VisitNext
  BY <1>5, VisitTypeOK
<1>6. CASE SendFlightPlan
  <2>1. pc \in InPass /\ temp_FLP \in Flight /\ ad \in Aerodrome
    BY <1>6, AdType DEF SendFlightPlan, ReleaseInv, InPass
  <2>2. ReleasedFLP' \in [Aerodrome -> Seq(Release)]
    <3>1. ReleasedFLP[ad] \in Seq(Release) /\ NewRelease \in Release
      BY <1>6, <2>1, SendType DEF TypeOK
    <3>2. Append(ReleasedFLP[ad], NewRelease) \in Seq(Release)
      BY <3>1
    <3> QED
      BY <1>6, <2>1, <3>2, SendType DEF TypeOK
  <2>3. ref_time' \in [Aerodrome -> Int]
    BY <1>6 DEF SendFlightPlan, TypeOK
  <2> QED
    BY <1>6, <2>2, <2>3 DEF SendFlightPlan, TypeOK, InPass
<1>7. CASE SendFails
  BY <1>7 DEF SendFails, TypeOK
<1>8. CASE UpdateDisplay
  <2>1. tableValues' \in [Hub -> [1..Rows -> Row]]
    BY <1>8, TableTypes DEF UpdateDisplay, TypeOK
  <2>2. i' = i + 1 /\ pc' \in {"frame", "visit"}
    BY <1>8 DEF UpdateDisplay, NextAerodrome
  <2> QED
    BY <1>8, <2>1, <2>2 DEF UpdateDisplay, TypeOK, InPass
<1> QED
  BY <1>1, <1>2, <1>3, <1>4, <1>5, <1>6, <1>7, <1>8 DEF SimulationThread, Frame

-------------------------------------------------------------------------------
(* The parts of the inductive invariant.                                   *)

\* The next aerodrome is again one of AD_set.
LEMMA NextAerodromeInRange ==
  ASSUME TypeOK, PanelInv, pc \in InPass, NextAerodrome
  PROVE  pc' = "frame" \/ (pc' = "visit" /\ i' \in 1..Len(AD_set))
<1>1. i \in 1..Len(AD_set) /\ Len(AD_set) \in Nat
  BY AdType DEF TypeOK
<1>2. CASE i < Len(AD_set)
  BY <1>1, <1>2 DEF NextAerodrome
<1>3. CASE ~(i < Len(AD_set))
  BY <1>3 DEF NextAerodrome
<1> QED
  BY <1>2, <1>3

\* Generate is disabled before Execute is accepted, and Execute comes before
\* the first pass, so no plan is being queued during a pass.
LEMMA PanelInvStep == TypeOK /\ PanelInv /\ Next => PanelInv'
<1> SUFFICES ASSUME TypeOK, PanelInv, Next PROVE PanelInv'
  OBVIOUS
<1> USE DEF hlaVars, masterVars, refVars, panelVars, adVars, simVars, PanelInv,
            InPass, BeforeStart
<1>1. CASE MasterReflect
  BY <1>1 DEF MasterReflect
<1>2. CASE CopyState
  BY <1>2 DEF CopyState
<1>3. CASE CopyTime
  BY <1>3 DEF CopyTime
<1>4. CASE Generate
  <2>1. Len(FLP_list') \in Nat /\ (FLP_list' # <<>> => Len(FLP_list') > 0)
    BY <1>4, PlansProperties DEF Generate
  <2> QED
    BY <1>4, <2>1 DEF Generate
<1>5. CASE Offer
  <2>1. offered < Len(FLP_list) /\ offered + 1 # Len(FLP_list) => offered + 1 < Len(FLP_list)
    BY DEF TypeOK
  <2> QED
    BY <1>5, <2>1 DEF Offer
<1>6. CASE SetInterval
  BY <1>6 DEF SetInterval
<1>7. CASE Execute
  BY <1>7 DEF Execute
<1>8. CASE Load
  <2>1. Cardinality(Aerodrome) \in Nat \ {0}
    BY FS_CardinalityType, FS_EmptySet
  <2>2. AD_set' # <<>>
    BY <1>8, <2>1 DEF Load
  <2> QED
    BY <1>8, <2>2 DEF Load
<1>9. CASE Fill
  BY <1>9 DEF Fill
<1>10. CASE Start
  BY <1>10 DEF Start
<1>11. CASE BeginPass
  <2>1. 1 \in 1..Len(AD_set)
    BY <1>11 DEF BeginPass, TypeOK
  <2> QED
    BY <1>11, <2>1 DEF BeginPass
<1>12. CASE VisitFirst
  BY <1>12 DEF VisitFirst, Poll
<1>13. CASE VisitNext
  <2>1. NextAerodrome => pc' = "frame" \/ (pc' = "visit" /\ i' \in 1..Len(AD_set))
    BY <1>13, NextAerodromeInRange DEF VisitNext
  <2>2. pc = "visit" /\ UNCHANGED <<hlaVars, panelVars, AD_set>>
    BY <1>13 DEF VisitNext
  <2>3. (pc' \in {"release", "display"} /\ i' = i) \/ NextAerodrome
    BY <1>13, VisitNextCases DEF Poll
  <2> QED
    BY <2>1, <2>2, <2>3
<1>14. CASE SendFlightPlan
  BY <1>14 DEF SendFlightPlan
<1>15. CASE SendFails
  BY <1>15 DEF SendFails
<1>16. CASE UpdateDisplay
  <2>1. pc' = "frame" \/ (pc' = "visit" /\ i' \in 1..Len(AD_set))
    <3>1. NextAerodrome /\ pc = "display"
      BY <1>16 DEF UpdateDisplay
    <3> QED
      BY <3>1, NextAerodromeInRange
  <2> QED
    BY <1>16, <2>1 DEF UpdateDisplay
<1> QED
  BY <1>1, <1>2, <1>3, <1>4, <1>5, <1>6, <1>7, <1>8, <1>9, <1>10, <1>11, <1>12,
     <1>13, <1>14, <1>15, <1>16
     DEF Next, HlaThread, EventThread, SimulationThread, Frame

\* Every flight of the sequence departs from a.
DepartsFrom(a, que) == \A k \in 1..Len(que) : que[k].dep = a

LEMMA DepartsFromProperties ==
  ASSUME NEW a, NEW que \in Seq(Flight), DepartsFrom(a, que)
  PROVE  /\ \A flp \in Flight : flp.dep = a => DepartsFrom(a, Append(que, flp))
         /\ \A rest \in Seq(Flight) : DepartsFrom(a, rest) => DepartsFrom(a, que \o rest)
         /\ que # <<>> => Head(que).dep = a /\ DepartsFrom(a, Tail(que))
BY DEF DepartsFrom

\* A visit takes at most the head of the queue, a refill adds flights of the hub.
LEMMA VisitQueue ==
  ASSUME TypeOK, PanelInv, \A a \in Aerodrome : DepartsFrom(a, FLPque[a]),
         VisitFirst \/ VisitNext
  PROVE  /\ \A a \in Aerodrome : DepartsFrom(a, FLPque'[a])
         /\ pc' = "release" => temp_FLP' \in Flight /\ temp_FLP'.dep = ad
         /\ pc' # "release" => temp_FLP' = temp_FLP
<1>1. pc \in InPass
  BY DEF VisitFirst, VisitNext, InPass
<1>2. ad \in Aerodrome /\ FLPque[ad] \in Seq(Flight) /\ Refilled(ad) \in Seq(Flight)
  BY <1>1, AdType, RefilledType
<1>3. DepartsFrom(ad, FLPque[ad]) /\ DepartsFrom(ad, Refilled(ad))
  BY <1>2, BatchProperties DEF Refilled, DepartsFrom
<1> DEFINE Kept == /\ \A a \in Aerodrome : DepartsFrom(a, FLPque'[a])
                   /\ pc' = "release" => temp_FLP' \in Flight /\ temp_FLP'.dep = ad
                   /\ pc' # "release" => temp_FLP' = temp_FLP
<1>4. ASSUME NEW que \in Seq(Flight), DepartsFrom(ad, que), que # <<>>,
             NEW interval, Poll(que, interval)
      PROVE  Kept
  <2>1. Head(que) \in Flight /\ Head(que).dep = ad /\ DepartsFrom(ad, Tail(que))
    BY <1>4, DepartsFromProperties
  <2>2. \A a \in Aerodrome : FLPque'[a] = IF a = ad THEN Tail(que) ELSE FLPque[a]
    BY <1>2, <1>4 DEF Poll, TypeOK
  <2> QED
    BY <1>4, <2>1, <2>2 DEF Poll
<1>5. ASSUME NEW que \in Seq(Flight), DepartsFrom(ad, que), pc' # "release",
             FLPque' = [FLPque EXCEPT ![ad] = que], UNCHANGED temp_FLP
      PROVE  Kept
  <2>1. \A a \in Aerodrome : FLPque'[a] = IF a = ad THEN que ELSE FLPque[a]
    BY <1>2, <1>5 DEF TypeOK
  <2> QED
    BY <1>5, <2>1
<1>6. CASE pc' # "release" /\ UNCHANGED <<FLPque, temp_FLP>>
  BY <1>6
<1> HIDE DEF Kept
<1>7. CASE VisitFirst
  <2>1. \/ FLPque[ad] # <<>> /\ Poll(FLPque[ad], time_interval[ad])
        \/ pc' # "release" /\ UNCHANGED <<FLPque, temp_FLP>>
    BY <1>7 DEF VisitFirst
  <2> QED
    BY <1>2, <1>3, <1>4, <1>6, <2>1 DEF Kept
<1>8. CASE VisitNext
  <2>1. \/ Refilled(ad) # <<>> /\ \E interval : Poll(Refilled(ad), interval)
        \/ pc' # "release" /\ UNCHANGED <<FLPque, temp_FLP>>
        \/ /\ pc' # "release" /\ UNCHANGED temp_FLP
           /\ FLPque' = [FLPque EXCEPT ![ad] = Refilled(ad)]
    BY <1>8, VisitNextCases DEF NextAerodrome
  <2> QED
    BY <1>2, <1>3, <1>4, <1>5, <1>6, <2>1 DEF Kept
<1> QED
  BY <1>7, <1>8 DEF Kept

\* The Master's clock does not go back and its copies are taken from it;
\* flights are only queued at their departure aerodrome.
LEMMA QueueInvStep == TypeOK /\ PanelInv /\ QueueInv /\ Next => QueueInv'
<1> SUFFICES ASSUME TypeOK, PanelInv, QueueInv, Next PROVE QueueInv'
  OBVIOUS
<1> USE DEF hlaVars, masterVars, refVars, panelVars, adVars, simVars
<1> DEFINE Clocks == ref_start_time <= master_time /\ ref_end_time <= master_time
           Queues == \A a \in Aerodrome : DepartsFrom(a, FLPque[a])
           Plan   == \A k \in 1..Len(FLP_list) : FLP_list[k].dep \notin Hub
<1>a. Clocks /\ Queues /\ Plan
  BY DEF QueueInv, DepartsFrom
<1>b. Clocks' /\ Queues' /\ Plan' => QueueInv'
  BY DEF QueueInv, DepartsFrom
<1>c. UNCHANGED <<hlaVars, FLPque, FLP_list>> => QueueInv'
  BY DEF QueueInv
<1> HIDE DEF Clocks, Queues, Plan
<1>1. CASE HlaThread
  <2>1. UNCHANGED <<FLPque, FLP_list>>
    BY <1>1 DEF HlaThread, MasterReflect, CopyState, CopyTime
  <2>2. Clocks'
    <3>1. CASE MasterReflect
      <4>1. PICK d \in 0..MaxStep : master_time' = master_time + d
        BY <3>1 DEF MasterReflect
      <4>2. d \in Nat
        BY <4>1
      <4> QED
        BY <1>a, <3>1, <4>1, <4>2 DEF MasterReflect, Clocks, TypeOK
    <3>2. CASE CopyState
      BY <1>a, <3>2 DEF CopyState, Clocks
    <3>3. CASE CopyTime
      BY <1>a, <3>3 DEF CopyTime, Clocks, TypeOK
    <3> QED
      BY <1>1, <3>1, <3>2, <3>3 DEF HlaThread
  <2> QED
    BY <1>a, <1>b, <2>1, <2>2 DEF Queues, Plan
<1>2. CASE Generate
  <2>1. UNCHANGED <<hlaVars, FLPque>>
    BY <1>2 DEF Generate
  <2>2. Plan'
    BY <1>2, PlansProperties DEF Generate, Plan
  <2> QED
    BY <1>a, <1>b, <2>1, <2>2 DEF Clocks, Queues
<1>3. CASE Offer
  <2> DEFINE flp == FLP_list[offered + 1]
  <2>1. UNCHANGED <<hlaVars, FLP_list>>
    BY <1>3 DEF Offer
  <2>2. offered + 1 \in 1..Len(FLP_list)
    BY <1>3 DEF Offer, PanelInv, TypeOK
  <2>3. flp \in Flight /\ flp.dep \in Aerodrome
    <3>1. flp \in Flight
      BY <2>2, ElementOfSeq DEF TypeOK
    <3> QED
      BY <3>1 DEF Flight, Flights
  <2>4. DepartsFrom(flp.dep, Append(FLPque[flp.dep], flp))
    <3>1. DepartsFrom(flp.dep, FLPque[flp.dep])
      BY <1>a, <2>3 DEF Queues
    <3>2. FLPque[flp.dep] \in Seq(Flight)
      BY <2>3 DEF TypeOK
    <3> HIDE DEF flp
    <3> QED
      BY <2>3, <3>1, <3>2, DepartsFromProperties
  <2>5. FLPque' = [FLPque EXCEPT ![flp.dep] = Append(FLPque[flp.dep], flp)]
    BY <1>3 DEF Offer
  <2> HIDE DEF flp
  <2>6. Queues'
    BY <1>a, <2>3, <2>4, <2>5 DEF Queues, TypeOK
  <2> QED
    BY <1>a, <1>b, <2>1, <2>6 DEF Clocks, Plan
<1>4. CASE SetInterval \/ Execute
  BY <1>4, <1>c DEF SetInterval, Execute
<1>5. CASE Fill
  <2>1. UNCHANGED <<hlaVars, FLP_list>>
    BY <1>5 DEF Fill
  <2>2. ASSUME NEW a \in Aerodrome PROVE DepartsFrom(a, FLPque'[a])
    <3>1. CASE a \in Hub
      <4>1. Batch(a) \in Seq(Flight) /\ DepartsFrom(a, Batch(a))
        BY <3>1, BatchProperties DEF DepartsFrom
      <4>2. FLPque'[a] = FLPque[a] \o Batch(a)
        BY <1>5, <3>1 DEF Fill
      <4>3. FLPque[a] \in Seq(Flight) /\ DepartsFrom(a, FLPque[a])
        BY <1>a DEF Queues, TypeOK
      <4>4. DepartsFrom(a, FLPque[a] \o Batch(a))
        BY <4>1, <4>3, DepartsFromProperties
      <4> QED
        BY <4>2, <4>4
    <3>2. CASE a \notin Hub
      BY <1>a, <1>5, <3>2 DEF Fill, Queues
    <3> QED
      BY <3>1, <3>2
  <2> QED
    BY <1>a, <1>b, <2>1, <2>2 DEF Clocks, Queues, Plan
<1>6. CASE VisitFirst \/ VisitNext
  <2>1. UNCHANGED <<hlaVars, FLP_list>>
    BY <1>6 DEF VisitFirst, VisitNext
  <2>2. Queues'
    BY <1>a, <1>6, VisitQueue DEF Queues
  <2> QED
    BY <1>a, <1>b, <2>1, <2>2 DEF Clocks, Plan
<1>7. CASE Load \/ Start \/ BeginPass \/ SendFlightPlan \/ SendFails \/ UpdateDisplay
  BY <1>7, <1>c DEF Load, Start, BeginPass, SendFlightPlan, SendFails, UpdateDisplay
<1> QED
  BY <1>1, <1>2, <1>3, <1>4, <1>5, <1>6, <1>7
     DEF Next, EventThread, SimulationThread, Frame

\* What a visit has established when it polls a flight.
LEMMA VisitPoll ==
  ASSUME IInv, VisitFirst \/ VisitNext, pc' = "release"
  PROVE  /\ i' = i /\ ad \in Aerodrome
         /\ temp_FLP' \in Flight /\ temp_FLP'.dep = ad
         /\ master_time - ref_time[ad] >= gap'
         /\ ReleasedFLP[ad] # <<>> =>
              gap' >= WTC_ref[temp_FLP'.type][LastOf(ReleasedFLP[ad]).flp.type] * Minute
<1> USE DEF IInv
<1>1. pc \in InPass
  BY DEF VisitFirst, VisitNext, InPass
<1>2. ad \in Aerodrome /\ ref_time[ad] \in Int /\ time_interval[ad] \in Int
  BY <1>1, AdType
<1>3. \A a \in Aerodrome : DepartsFrom(a, FLPque[a])
  BY DEF QueueInv, DepartsFrom
<1>4. temp_FLP' \in Flight /\ temp_FLP'.dep = ad
  BY <1>3, VisitQueue
<1>5. ASSUME NEW interval \in Int, Due(interval)
      PROVE  master_time - ref_time[ad] >= interval
  BY <1>2, <1>5 DEF Due, QueueInv, TypeOK
<1>6. CASE VisitFirst
  BY <1>2, <1>4, <1>5, <1>6 DEF VisitFirst, Poll
<1>7. CASE VisitNext
  <2>1. PICK jitter \in 0..MaxJitter :
          /\ Refilled(ad) # <<>>
          /\ Due(Wait(Head(Refilled(ad)), jitter))
          /\ Poll(Refilled(ad), Wait(Head(Refilled(ad)), jitter))
    BY <1>7, VisitNextCases DEF NextAerodrome
  <2>2. Head(Refilled(ad)) \in Flight
    BY <1>2, <2>1, RefilledType
  <2>3. ReleasedFLP[ad] # <<>>
    BY <1>7 DEF VisitNext
  <2>4. /\ temp_FLP' = Head(Refilled(ad)) /\ i' = i
        /\ gap' = Wait(Head(Refilled(ad)), jitter)
    BY <2>1 DEF Poll
  <2>5. gap' \in Int /\
        gap' >= WTC_ref[temp_FLP'.type][LastOf(ReleasedFLP[ad]).flp.type] * Minute
    BY <1>1, <2>2, <2>3, <2>4, WaitProperties
  <2> QED
    BY <1>2, <1>4, <1>5, <2>1, <2>4, <2>5
<1> QED
  BY <1>6, <1>7

\* Sending appends one record to the releases of ad and nothing else.
LEMMA SendRelease ==
  ASSUME IInv, SendFlightPlan
  PROVE  \A a \in Aerodrome :
           IF a = ad THEN /\ Len(ReleasedFLP'[a]) = Len(ReleasedFLP[a]) + 1
                          /\ LastOf(ReleasedFLP'[a]) = NewRelease
                          /\ \A k \in 1..Len(ReleasedFLP[a]) :
                               ReleasedFLP'[a][k] = ReleasedFLP[a][k]
                     ELSE ReleasedFLP'[a] = ReleasedFLP[a]
<1>1. /\ ad \in Aerodrome /\ NewRelease \in Release
      /\ ReleasedFLP' = [ReleasedFLP EXCEPT ![ad] = Append(ReleasedFLP[ad], NewRelease)]
  BY SendType DEF IInv
<1>2. ReleasedFLP \in [Aerodrome -> Seq(Release)]
  BY DEF IInv, TypeOK
<1> QED
  BY <1>1, <1>2 DEF LastOf

\* ref_time follows the last release, and the flight in hand may go.
LEMMA ReleaseInvStep == IInv /\ Next => ReleaseInv'
<1> SUFFICES ASSUME IInv, Next PROVE ReleaseInv'
  OBVIOUS
<1> USE DEF IInv, hlaVars, masterVars, refVars, panelVars, adVars, simVars
<1>1. CASE MasterReflect
  <2>1. master_time' \in Int /\ master_time' >= master_time
    BY <1>1 DEF MasterReflect, TypeOK
  <2>2. pc = "release" => master_time' - ref_time[ad] >= gap
    <3> SUFFICES ASSUME pc = "release" PROVE master_time' - ref_time[ad] >= gap
      OBVIOUS
    <3>1. ref_time[ad] \in Int /\ master_time - ref_time[ad] >= gap
      BY AdType DEF InPass, ReleaseInv
    <3>2. master_time \in Int /\ gap \in Int
      BY DEF TypeOK
    <3> QED
      BY <2>1, <3>1, <3>2
  <2> QED
    BY <1>1, <2>2 DEF MasterReflect, ReleaseInv, ad
<1>2. CASE CopyState \/ CopyTime
  BY <1>2 DEF CopyState, CopyTime, ReleaseInv, ad
<1>3. CASE EventThread
  BY <1>3 DEF EventThread, Generate, Offer, SetInterval, Execute, ReleaseInv, ad
<1>4. CASE Load \/ Fill
  BY <1>4 DEF Load, Fill, ReleaseInv, BeforeStart
<1>5. CASE Start
  BY <1>5 DEF Start, ReleaseInv, BeforeStart
<1>6. CASE BeginPass
  BY <1>6 DEF BeginPass, ReleaseInv, BeforeStart
<1>7. CASE VisitFirst \/ VisitNext
  <2>1. /\ pc = "visit" /\ pc' \in {"frame", "visit", "release", "display"}
        /\ UNCHANGED <<hlaVars, AD_set, ReleasedFLP, ref_time>>
    BY <1>7, VisitNextCases DEF VisitFirst, VisitNext, Poll, NextAerodrome
  <2>2. CASE pc' = "release"
    <3>1. /\ ad' = ad /\ temp_FLP' \in Flight /\ temp_FLP'.dep = ad
          /\ master_time' - ref_time'[ad] >= gap'
          /\ ReleasedFLP'[ad] # <<>> =>
               gap' >= WTC_ref[temp_FLP'.type][LastOf(ReleasedFLP'[ad]).flp.type] * Minute
      BY <1>7, <2>1, <2>2, VisitPoll DEF ad
    <3> QED
      BY <2>1, <2>2, <3>1 DEF ReleaseInv, BeforeStart
  <2>3. CASE pc' # "release"
    <3>1. temp_FLP' = temp_FLP
      BY <1>7, <2>3, VisitQueue DEF QueueInv, DepartsFrom
    <3> QED
      BY <2>1, <2>3, <3>1 DEF ReleaseInv, BeforeStart
  <2> QED
    BY <2>2, <2>3
<1>8. CASE SendFlightPlan
  <2>1. pc = "release" /\ pc' = "display" /\ temp_FLP' = NoFlight
    BY <1>8 DEF SendFlightPlan
  <2>2. ASSUME NEW a \in Aerodrome, ReleasedFLP'[a] # <<>>
        PROVE  ref_time'[a] = LastOf(ReleasedFLP'[a]).time
    <3>1. ref_time'[a] = IF a = ad THEN master_time ELSE ref_time[a]
      BY <1>8 DEF SendFlightPlan, TypeOK
    <3>2. CASE a = ad
      BY <1>8, <3>1, <3>2, SendRelease DEF NewRelease
    <3>3. CASE a # ad
      BY <1>8, <2>1, <2>2, <3>1, <3>3, SendRelease DEF ReleaseInv
    <3> QED
      BY <3>2, <3>3
  <2> QED
    BY <2>1, <2>2 DEF ReleaseInv, BeforeStart
<1>9. CASE SendFails
  BY <1>9 DEF SendFails, ReleaseInv, BeforeStart
<1>10. CASE UpdateDisplay
  BY <1>10 DEF UpdateDisplay, NextAerodrome, ReleaseInv, BeforeStart
<1> QED
  BY <1>1, <1>2, <1>3, <1>4, <1>5, <1>6, <1>7, <1>8, <1>9, <1>10
     DEF Next, HlaThread, SimulationThread, Frame

\* The record that is added is separated from the one before it.
LEMMA NewReleaseSeparated ==
  ASSUME IInv, SendFlightPlan, ReleasedFLP[ad] # <<>>
  PROVE  /\ NewRelease.time - LastOf(ReleasedFLP[ad]).time >= NewRelease.time_interval
         /\ NewRelease.time_interval >=
              WTC_ref[NewRelease.flp.type][LastOf(ReleasedFLP[ad]).flp.type] * Minute
<1>1. pc = "release" /\ ad \in Aerodrome
  BY SendType DEF SendFlightPlan, IInv
<1> QED
  BY <1>1 DEF IInv, ReleaseInv, NewRelease

LEMMA SeparationStep == IInv /\ Next => Separation'
<1> SUFFICES ASSUME IInv, Next PROVE Separation'
  OBVIOUS
<1>1. CASE SendFlightPlan
  <2> SUFFICES ASSUME NEW a \in Aerodrome, NEW k \in 2..Len(ReleasedFLP'[a])
               PROVE  LET prev == ReleasedFLP'[a][k - 1]
                          this == ReleasedFLP'[a][k]
                      IN  /\ this.time - prev.time >= this.time_interval
                          /\ this.time_interval
                               >= WTC_ref[this.flp.type][prev.flp.type] * Minute
    BY DEF Separation
  <2>1. Len(ReleasedFLP[a]) \in Nat
    BY DEF IInv, TypeOK
  <2>2. CASE a # ad \/ k <= Len(ReleasedFLP[a])
    <3>1. /\ k \in 2..Len(ReleasedFLP[a])
          /\ ReleasedFLP'[a][k] = ReleasedFLP[a][k]
          /\ ReleasedFLP'[a][k - 1] = ReleasedFLP[a][k - 1]
      BY <1>1, <2>1, <2>2, SendRelease
    <3> QED
      BY <3>1 DEF IInv, Separation
  <2>3. CASE a = ad /\ k = Len(ReleasedFLP[a]) + 1
    <3>1. /\ ReleasedFLP'[a][k] = NewRelease
          /\ ReleasedFLP'[a][k - 1] = LastOf(ReleasedFLP[a])
          /\ ReleasedFLP[ad] # <<>>
      <4>1. ReleasedFLP'[a] = Append(ReleasedFLP[a], NewRelease)
        BY <1>1, <2>3, SendType DEF IInv, TypeOK
      <4>2. ReleasedFLP[a] \in Seq(Release) /\ NewRelease \in Release
        BY <1>1, SendType DEF IInv, TypeOK
      <4>3. k - 1 = Len(ReleasedFLP[a]) /\ k - 1 >= 1
        BY <2>1, <2>3
      <4>4. /\ Append(ReleasedFLP[a], NewRelease)[k] = NewRelease
            /\ Append(ReleasedFLP[a], NewRelease)[k - 1] = ReleasedFLP[a][k - 1]
        BY <2>1, <2>3, <4>2, <4>3, AppendProperties
      <4>5. ReleasedFLP[a] # <<>>
        BY <4>3
      <4> QED
        BY <2>3, <4>1, <4>3, <4>4, <4>5 DEF LastOf
    <3> QED
      BY <1>1, <2>3, <3>1, NewReleaseSeparated
  <2>4. a = ad => Len(ReleasedFLP'[a]) = Len(ReleasedFLP[a]) + 1
    BY <1>1, SendRelease
  <2>5. (a # ad \/ k <= Len(ReleasedFLP[a])) \/ (a = ad /\ k = Len(ReleasedFLP[a]) + 1)
    BY <2>1, <2>4
  <2> QED
    BY <2>2, <2>3, <2>5, Zenon
<1>2. CASE ~SendFlightPlan
  <2>1. UNCHANGED ReleasedFLP
    BY <1>2 DEF Next, HlaThread, MasterReflect, CopyState, CopyTime, EventThread,
       Generate, Offer, SetInterval, Execute, SimulationThread, Load, Fill, Start, Frame,
       BeginPass, VisitFirst, VisitNext, SendFails, UpdateDisplay, adVars
  <2> QED
    BY <2>1 DEF IInv, Separation
<1> QED
  BY <1>1, <1>2

-------------------------------------------------------------------------------
(* The theorems.                                                           *)

LEMMA InitIInv == Init => IInv
<1> SUFFICES ASSUME Init PROVE IInv
  OBVIOUS
<1>1. TypeOK
  BY InitTypeOK
<1>2. PanelInv /\ QueueInv /\ ReleaseInv /\ Separation
  BY DEF Init, PanelInv, QueueInv, ReleaseInv, Separation, BeforeStart, InPass
<1> QED
  BY <1>1, <1>2 DEF IInv

LEMMA NextIInv == IInv /\ [Next]_vars => IInv'
<1> SUFFICES ASSUME IInv, [Next]_vars PROVE IInv'
  OBVIOUS
<1>1. CASE Next
  <2>1. TypeOK'
    BY <1>1, HlaTypeOK, EventTypeOK, SimulationTypeOK DEF Next, IInv
  <2> QED
    BY <1>1, <2>1, PanelInvStep, QueueInvStep, ReleaseInvStep, SeparationStep DEF IInv
<1>2. CASE UNCHANGED vars
  <2> USE <1>2 DEF vars, hlaVars, masterVars, refVars, panelVars, adVars, simVars
  <2>1. TypeOK'
    BY DEF IInv, TypeOK
  <2>2. PanelInv'
    BY DEF IInv, PanelInv
  <2>3. QueueInv'
    BY DEF IInv, QueueInv
  <2>4. ReleaseInv'
    BY DEF IInv, ReleaseInv, ad
  <2>5. Separation'
    BY DEF IInv, Separation
  <2> QED
    BY <2>1, <2>2, <2>3, <2>4, <2>5 DEF IInv
<1> QED
  BY <1>1, <1>2

\* The inductive invariant holds in every state of the federate.
THEOREM InductiveInvariant == Spec => []IInv
<1> QED
  BY InitIInv, NextIInv, PTL DEF Spec

\* Every variable of the federate keeps its type.
THEOREM TypeCorrect == Spec => []TypeOK
<1>1. IInv => TypeOK
  BY DEF IInv
<1> QED
  BY <1>1, InductiveInvariant, PTL

\* Consecutive releases of an aerodrome keep the recorded interval and the
\* wake-turbulence minimum, for any interleaving of the three threads, any edit
\* of the intervals and any advance of the Master's clock.
THEOREM SeparationHolds == Spec => []Separation
<1>1. IInv => Separation
  BY DEF IInv
<1> QED
  BY <1>1, InductiveInvariant, PTL

\* The event thread and the simulation thread never use a queue together.
THEOREM QueueOwnershipHolds == Spec => []QueueOwnership
<1>1. IInv => QueueOwnership
  BY DEF IInv, PanelInv, QueueInv, QueueOwnership, BeforeStart
<1> QED
  BY <1>1, InductiveInvariant, PTL
===============================================================================
