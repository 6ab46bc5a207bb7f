------------------------ MODULE FlightRelease_refinement ----------------------
(***************************************************************************)
(* Proof that the terminal-area federate implements ReleaseSequence: every *)
(* step of its three threads releases the flight that has waited longest,  *)
(* files flights behind those already waiting, or changes neither.         *)
(***************************************************************************)
EXTENDS FlightRelease_proofs

-------------------------------------------------------------------------------
(* The flights that wait, in a state and across a step.                    *)

LEMMA WaitingType ==
  ASSUME TypeOK, NEW a \in Aerodrome
  PROVE  InHand(a) \in Seq(Flight) /\ Waiting(a) \in Seq(Flight)
<1>1. InHand(a) \in Seq(Flight)
  BY DEF InHand, TypeOK
<1> QED
  BY <1>1, ConcatProperties DEF Waiting, TypeOK

\* Nothing in hand: the flights that wait are those in the queue.
LEMMA WaitingInQueue ==
  ASSUME TypeOK, temp_FLP = NoFlight, NEW a \in Aerodrome
  PROVE  Waiting(a) = FLPque[a]
BY ConcatEmptySeq DEF Waiting, InHand, TypeOK

\* A flight in hand of a: it waits before those in the queue.
LEMMA WaitingInHand ==
  ASSUME TypeOK, NEW a \in Aerodrome, temp_FLP \in Flight, temp_FLP.dep = a
  PROVE  /\ Waiting(a) # <<>> /\ Head(Waiting(a)) = temp_FLP
         /\ Tail(Waiting(a)) = FLPque[a]
<1>1. temp_FLP # NoFlight
  BY NoFlightAssumption DEF Flight
<1>2. Waiting(a) = <<temp_FLP>> \o FLPque[a]
  BY <1>1 DEF Waiting, InHand
<1>3. FLPque[a] \in Seq(Flight)
  BY DEF TypeOK
<1>4. /\ Waiting(a) \in Seq(Flight) /\ Len(Waiting(a)) = 1 + Len(FLPque[a])
      /\ Waiting(a)[1] = temp_FLP
      /\ \A k \in 1..Len(FLPque[a]) : Waiting(a)[k + 1] = FLPque[a][k]
  BY <1>2, <1>3
<1>5. Waiting(a) # <<>> /\ Head(Waiting(a)) = temp_FLP
  BY <1>3, <1>4
<1>6. /\ Tail(Waiting(a)) \in Seq(Flight)
      /\ Len(Tail(Waiting(a))) = Len(FLPque[a])
      /\ \A k \in 1..Len(FLPque[a]) : Tail(Waiting(a))[k] = FLPque[a][k]
  BY <1>3, <1>4, <1>5, HeadTailProperties
<1>7. Tail(Waiting(a)) = FLPque[a]
  BY <1>3, <1>6, SeqEqual
<1> QED
  BY <1>5, <1>7

\* Taking the head in hand leaves the flights that wait as they are.
LEMMA HeadInHand ==
  ASSUME NEW que \in Seq(Flight), que # <<>>
  PROVE  <<Head(que)>> \o Tail(que) = que
<1>1. Head(que) \in Flight /\ Tail(que) \in Seq(Flight) /\ Len(Tail(que)) = Len(que) - 1
  BY HeadTailProperties
<1>2. <<Head(que)>> \in Seq(Flight) /\ Len(<<Head(que)>>) = 1
  BY <1>1
<1> DEFINE s == <<Head(que)>> \o Tail(que)
<1>3. s \in Seq(Flight) /\ Len(s) = Len(que)
  BY <1>1, <1>2, ConcatProperties
<1>4. \A k \in 1..Len(que) : s[k] = que[k]
  BY <1>1, <1>2, ConcatProperties, HeadTailProperties
<1> HIDE DEF s
<1>5. s = que
  BY <1>3, <1>4, SeqEqual
<1> QED
  BY <1>5 DEF s

-------------------------------------------------------------------------------
(* The steps.                                                              *)

LEMMA StutterStep ==
  ASSUME UNCHANGED <<FLPque, temp_FLP, ReleasedFLP>>
  PROVE  UNCHANGED RS!vars
BY DEF RS!vars, Waiting, InHand

\* Filing in terms of the concrete queues.
LEMMA FileStep ==
  ASSUME TypeOK, TypeOK', UNCHANGED ReleasedFLP,
         \A a \in Aerodrome : \E more \in Seq(Flight) : Waiting(a)' = Waiting(a) \o more
  PROVE  RS!Next
<1>1. ASSUME NEW a \in Aerodrome
      PROVE  /\ Len(Waiting(a)') >= Len(Waiting(a))
             /\ \A k \in 1..Len(Waiting(a)) : Waiting(a)'[k] = Waiting(a)[k]
  <2>1. PICK more \in Seq(Flight) : Waiting(a)' = Waiting(a) \o more
    OBVIOUS
  <2>2. Waiting(a) \in Seq(Flight)
    BY WaitingType
  <2> QED
    BY <2>1, <2>2, ConcatProperties
<1>2. RS!File
  BY <1>1 DEF RS!File
<1> QED
  BY <1>2 DEF RS!Next

\* After a visit, the flights that wait are what the visit found, with a batch
\* behind them if the queue of a hub was empty.
LEMMA WaitingAfterVisit ==
  ASSUME IInv, IInv', VisitFirst \/ VisitNext
  PROVE  /\ ad \in Aerodrome
         /\ \E que \in {FLPque[ad], Refilled(ad)} :
              \A a \in Aerodrome : Waiting(a)' = IF a = ad THEN que ELSE FLPque[a]
<1> USE DEF IInv
<1>1. pc \in InPass
  BY DEF VisitFirst, VisitNext, InPass
<1>2. ad \in Aerodrome /\ FLPque[ad] \in Seq(Flight) /\ Refilled(ad) \in Seq(Flight)
  BY <1>1, AdType, RefilledType
<1>3. temp_FLP = NoFlight
  BY DEF VisitFirst, VisitNext, ReleaseInv
<1> DEFINE Result(que) == \A a \in Aerodrome : Waiting(a)' = IF a = ad THEN que ELSE FLPque[a]
<1>4. ASSUME NEW que \in Seq(Flight), que # <<>>, NEW interval, Poll(que, interval)
      PROVE  Result(que)
  <2>1. /\ FLPque' = [FLPque EXCEPT ![ad] = Tail(que)]
        /\ temp_FLP' = Head(que) /\ pc' = "release"
    BY <1>4 DEF Poll
  <2>2. temp_FLP' \in Flight /\ temp_FLP'.dep = ad /\ temp_FLP' # NoFlight
    BY <2>1, VisitPoll, NoFlightAssumption DEF Flight
  <2>3. ASSUME NEW a \in Aerodrome
        PROVE  Waiting(a)' = IF a = ad THEN que ELSE FLPque[a]
    <3>1. CASE a = ad
      BY <1>2, <1>4, <2>1, <2>2, <3>1, HeadInHand DEF Waiting, InHand, TypeOK
    <3>2. CASE a # ad
      <4>1. InHand(a)' = <<>> /\ FLPque'[a] = FLPque[a] /\ FLPque[a] \in Seq(Flight)
        BY <2>1, <2>2, <3>2 DEF InHand, TypeOK
      <4> QED
        BY <3>2, <4>1, ConcatEmptySeq DEF Waiting
    <3> QED
      BY <3>1, <3>2
  <2> QED
    BY <2>3
<1>5. ASSUME temp_FLP' = NoFlight, NEW que \in Seq(Flight),
             \A a \in Aerodrome : FLPque'[a] = IF a = ad THEN que ELSE FLPque[a]
      PROVE  Result(que)
  <2>1. \A a \in Aerodrome : Waiting(a)' = FLPque'[a]
    BY <1>5, ConcatEmptySeq DEF Waiting, InHand, TypeOK
  <2> QED
    BY <1>5, <2>1
<1> HIDE DEF Result
<1>6. CASE VisitFirst
  <2>1. CASE FLPque[ad] # <<>> /\ Poll(FLPque[ad], time_interval[ad])
    BY <1>2, <1>4, <2>1 DEF Result
  <2>2. CASE UNCHANGED <<FLPque, temp_FLP>>
    <3>1. Result(FLPque[ad])
      BY <1>2, <1>3, <1>5, <2>2
    <3> QED
      BY <1>2, <3>1 DEF Result
  <2> QED
    BY <1>6, <2>1, <2>2 DEF VisitFirst
<1>7. CASE VisitNext
  <2>1. CASE UNCHANGED <<FLPque, temp_FLP>>
    <3>1. Result(FLPque[ad])
      BY <1>2, <1>3, <1>5, <2>1
    <3> QED
      BY <1>2, <3>1 DEF Result
  <2>2. CASE Refilled(ad) # <<>> /\ \E interval : Poll(Refilled(ad), interval)
    BY <1>2, <1>4, <2>2 DEF Result
  <2>3. CASE FLPque' = [FLPque EXCEPT ![ad] = Refilled(ad)] /\ UNCHANGED temp_FLP
    <3>1. \A a \in Aerodrome : FLPque'[a] = IF a = ad THEN Refilled(ad) ELSE FLPque[a]
      BY <1>2, <2>3 DEF TypeOK
    <3>2. Result(Refilled(ad))
      BY <1>2, <1>3, <1>5, <2>3, <3>1
    <3> QED
      BY <1>2, <3>2 DEF Result
  <2> QED
    BY <1>7, <2>1, <2>2, <2>3, VisitNextCases
<1> QED
  BY <1>6, <1>7

LEMMA VisitStep ==
  ASSUME IInv, IInv', VisitFirst \/ VisitNext
  PROVE  RS!Next
<1>1. temp_FLP = NoFlight /\ UNCHANGED ReleasedFLP /\ TypeOK /\ TypeOK'
  BY DEF VisitFirst, VisitNext, IInv, ReleaseInv
<1>2. PICK que \in {FLPque[ad], Refilled(ad)} :
        \A a \in Aerodrome : Waiting(a)' = IF a = ad THEN que ELSE FLPque[a]
  BY WaitingAfterVisit
<1>3. ad \in Aerodrome
  BY WaitingAfterVisit
<1>4. ASSUME NEW a \in Aerodrome
      PROVE  \E more \in Seq(Flight) : Waiting(a)' = Waiting(a) \o more
  <2>1. Waiting(a) = FLPque[a] /\ FLPque[a] \in Seq(Flight)
    BY <1>1, WaitingInQueue DEF TypeOK
  <2>2. CASE Waiting(a)' = FLPque[a]
    BY <2>1, <2>2, ConcatEmptySeq, EmptySeq
  <2>3. CASE Waiting(a)' # FLPque[a]
    <3>1. a \in Hub /\ FLPque[a] = <<>> /\ Waiting(a)' = Batch(a)
      BY <1>2, <2>3 DEF Refilled
    <3>2. Batch(a) \in Seq(Flight)
      BY <1>1, <3>1, BatchProperties
    <3> QED
      BY <2>1, <3>1, <3>2, ConcatEmptySeq
  <2> QED
    BY <2>2, <2>3
<1> QED
  BY <1>1, <1>4, FileStep

LEMMA SendStep ==
  ASSUME IInv, IInv', SendFlightPlan
  PROVE  RS!Next
<1>1. /\ pc = "release" /\ temp_FLP \in Flight /\ temp_FLP.dep = ad
      /\ ad \in Aerodrome /\ TypeOK /\ TypeOK'
  BY SendType DEF SendFlightPlan, IInv, ReleaseInv
<1> PICK a \in Aerodrome : a = ad
  BY <1>1
<1>2. UNCHANGED FLPque /\ temp_FLP' = NoFlight
  BY DEF SendFlightPlan
<1>3. \A b \in Aerodrome : Waiting(b)' = FLPque[b]
  BY <1>1, <1>2, ConcatEmptySeq DEF Waiting, InHand, TypeOK
<1>4. /\ Waiting(a) # <<>> /\ Head(Waiting(a)) = temp_FLP
      /\ Waiting(a)' = Tail(Waiting(a))
  BY <1>1, <1>3, WaitingInHand
<1>5. \A b \in Aerodrome \ {a} : Waiting(b)' = Waiting(b)
  <2> SUFFICES ASSUME NEW b \in Aerodrome \ {a} PROVE Waiting(b)' = Waiting(b)
    OBVIOUS
  <2>1. InHand(b) = <<>> /\ FLPque[b] \in Seq(Flight)
    BY <1>1 DEF InHand, TypeOK
  <2> QED
    BY <1>3, <2>1, ConcatEmptySeq DEF Waiting
<1>6. /\ Len(ReleasedFLP'[a]) = Len(ReleasedFLP[a]) + 1
      /\ \A k \in 1..Len(ReleasedFLP[a]) : ReleasedFLP'[a][k] = ReleasedFLP[a][k]
      /\ ReleasedFLP'[a][Len(ReleasedFLP[a]) + 1] = NewRelease
      /\ \A b \in Aerodrome \ {a} : ReleasedFLP'[b] = ReleasedFLP[b]
  BY <1>1, SendRelease DEF LastOf
<1>7. NewRelease.flp = temp_FLP
  BY DEF NewRelease
<1>8. ReleasedFLP[a] # <<>> =>
        LET prev == ReleasedFLP[a][Len(ReleasedFLP[a])]
        IN  /\ NewRelease.time - prev.time >= NewRelease.time_interval
            /\ NewRelease.time_interval
                 >= WTC_ref[NewRelease.flp.type][prev.flp.type] * Minute
  BY NewReleaseSeparated DEF LastOf
<1> HIDE DEF NewRelease
<1>9. RS!Release(a)
  BY <1>4, <1>5, <1>6, <1>7, <1>8
     DEF RS!Release, RS!OthersUnchanged, RS!Separated, RS!WTC_ref, WTC_ref, RS!Category,
         Category
<1> QED
  BY <1>9 DEF RS!Next

LEMMA OtherStep ==
  ASSUME IInv, IInv', Next
  PROVE  RS!Next \/ UNCHANGED RS!vars
<1> USE DEF IInv, adVars, simVars
<1>1. CASE HlaThread
  BY <1>1, StutterStep DEF HlaThread, MasterReflect, CopyState, CopyTime
<1>2. CASE Generate \/ SetInterval \/ Execute
  BY <1>2, StutterStep DEF Generate, SetInterval, Execute
<1>3. CASE Offer
  <2> DEFINE flp == FLP_list[offered + 1]
  <2>1. UNCHANGED <<ReleasedFLP, temp_FLP>> /\ temp_FLP = NoFlight
    BY <1>3 DEF Offer, PanelInv, ReleaseInv, BeforeStart
  <2>2. flp \in Flight /\ FLPque' = [FLPque EXCEPT ![flp.dep] = Append(FLPque[flp.dep], flp)]
    BY <1>3, ElementOfSeq DEF Offer, PanelInv, TypeOK
  <2> HIDE DEF flp
  <2>3. \A a \in Aerodrome : \E more \in Seq(Flight) : FLPque'[a] = FLPque[a] \o more
    <3> SUFFICES ASSUME NEW a \in Aerodrome
                 PROVE  \E more \in Seq(Flight) : FLPque'[a] = FLPque[a] \o more
      OBVIOUS
    <3>1. FLPque[a] \in Seq(Flight) /\ <<flp>> \in Seq(Flight) /\ <<>> \in Seq(Flight)
      BY <2>2 DEF TypeOK
    <3>2. FLPque'[a] = Append(FLPque[a], flp) \/ FLPque'[a] = FLPque[a]
      BY <2>2 DEF TypeOK
    <3> QED
      BY <2>2, <3>1, <3>2, AppendIsConcat, ConcatEmptySeq
  <2>4. \A a \in Aerodrome : Waiting(a) = FLPque[a] /\ Waiting(a)' = FLPque'[a]
    BY <2>1, ConcatEmptySeq DEF Waiting, InHand, TypeOK
  <2> QED
    BY <2>1, <2>3, <2>4, FileStep
<1>4. CASE Load \/ Start \/ BeginPass \/ SendFails \/ UpdateDisplay
  BY <1>4, StutterStep DEF Load, Start, BeginPass, SendFails, UpdateDisplay
<1>5. CASE Fill
  <2>1. UNCHANGED <<ReleasedFLP, temp_FLP>> /\ temp_FLP = NoFlight
    BY <1>5 DEF Fill, ReleaseInv
  <2>2. \A a \in Aerodrome : \E more \in Seq(Flight) : FLPque'[a] = FLPque[a] \o more
    <3> SUFFICES ASSUME NEW a \in Aerodrome
                 PROVE  \E more \in Seq(Flight) : FLPque'[a] = FLPque[a] \o more
      OBVIOUS
    <3>1. CASE a \in Hub
      BY <1>5, <3>1, BatchProperties DEF Fill
    <3>2. CASE a \notin Hub
      <4>1. FLPque'[a] = FLPque[a] /\ FLPque[a] \in Seq(Flight) /\ <<>> \in Seq(Flight)
        BY <1>5, <3>2 DEF Fill, TypeOK
      <4> QED
        BY <4>1, ConcatEmptySeq
    <3> QED
      BY <3>1, <3>2
  <2>3. \A a \in Aerodrome : Waiting(a) = FLPque[a] /\ Waiting(a)' = FLPque'[a]
    BY <2>1, ConcatEmptySeq DEF Waiting, InHand, TypeOK
  <2> QED
    BY <2>1, <2>2, <2>3, FileStep
<1>6. CASE VisitFirst \/ VisitNext \/ SendFlightPlan
  BY <1>6, VisitStep, SendStep
<1> QED
  BY <1>1, <1>2, <1>3, <1>4, <1>5, <1>6 DEF Next, EventThread, SimulationThread, Frame

-------------------------------------------------------------------------------

\* The federate implements ReleaseSequence: for every aerodrome, flights leave
\* in the order of filing, once each, separated from the release before.
THEOREM ImplementsReleaseSequence == Spec => ReleaseSequence
<1>1. Init => RS!Init
  <2> SUFFICES ASSUME Init PROVE RS!Init
    OBVIOUS
  <2>1. \A a \in Aerodrome : Waiting(a) = <<>>
    BY DEF Init, Waiting, InHand
  <2> QED
    BY <2>1 DEF Init, RS!Init
<1>2. IInv /\ IInv' /\ [Next]_vars => [RS!Next]_(RS!vars)
  <2> SUFFICES ASSUME IInv, IInv', [Next]_vars PROVE RS!Next \/ UNCHANGED RS!vars
    OBVIOUS
  <2>1. CASE UNCHANGED vars
    BY <2>1, StutterStep DEF vars, adVars, simVars
  <2> QED
    BY <2>1, OtherStep
<1> QED
  BY <1>1, <1>2, InductiveInvariant, PTL DEF Spec, ReleaseSequence, RS!Spec
===============================================================================
