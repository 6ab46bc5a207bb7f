-------------------------- MODULE AircraftFeed_proofs -------------------------
(***************************************************************************)
(* Proofs about AircraftFeed, for every set of flights, of display types   *)
(* and of commands and for every value of the bounds: FeedInv is           *)
(* inductive, and with it every invariant of the module holds.             *)
(***************************************************************************)
EXTENDS AircraftFeed, TLAPS, SequenceTheorems

USE TargetAssumption, FeedBoundAssumption

-------------------------------------------------------------------------------
(* Lemmas about the list.                                                  *)

\* The list without one entry: the others keep their order.
LEMMA RemoveAtProperties ==
  ASSUME NEW S, NEW s \in Seq(S), NEW i \in DOMAIN s
  PROVE  /\ RemoveAt(s, i) \in Seq(S)
         /\ Len(RemoveAt(s, i)) = Len(s) - 1
         /\ \A k \in 1..Len(s) - 1 : RemoveAt(s, i)[k] = IF k < i THEN s[k] ELSE s[k + 1]
<1> DEFINE before == SubSeq(s, 1, i - 1)
           after  == SubSeq(s, i + 1, Len(s))
<1>1. Len(s) \in Nat /\ i \in 1..Len(s)
  BY LenProperties
<1>2. \A k \in 1..i - 1 : s[k] \in S
  BY <1>1, ElementOfSeq
<1>3. \A k \in i + 1..Len(s) : s[k] \in S
  BY <1>1, ElementOfSeq
<1>4. /\ before \in Seq(S) /\ Len(before) = i - 1
      /\ \A k \in 1..i - 1 : before[k] = s[k]
  BY <1>1, <1>2, SubSeqProperties
<1>5. /\ after \in Seq(S) /\ Len(after) = Len(s) - i
      /\ \A k \in 1..Len(s) - i : after[k] = s[i + k]
  BY <1>1, <1>3, SubSeqProperties
<1> HIDE DEF before, after
<1>6. /\ before \o after \in Seq(S)
      /\ Len(before \o after) = Len(before) + Len(after)
      /\ \A k \in 1..Len(before) + Len(after) :
           (before \o after)[k] = IF k <= Len(before) THEN before[k] ELSE after[k - Len(before)]
  BY <1>4, <1>5, ConcatProperties
<1>7. Len(before) + Len(after) = Len(s) - 1
  BY <1>1, <1>4, <1>5
<1>8. ASSUME NEW k \in 1..Len(s) - 1
      PROVE  (before \o after)[k] = IF k < i THEN s[k] ELSE s[k + 1]
  <2>1. (before \o after)[k] = IF k <= i - 1 THEN before[k] ELSE after[k - (i - 1)]
    BY <1>4, <1>6, <1>7
  <2>2. CASE k <= i - 1
    BY <1>1, <1>4, <2>1, <2>2
  <2>3. CASE ~(k <= i - 1)
    <3>1. k - (i - 1) \in 1..Len(s) - i /\ i + (k - (i - 1)) = k + 1 /\ ~(k < i)
      BY <1>1, <2>3
    <3>2. after[k - (i - 1)] = s[i + (k - (i - 1))]
      BY <1>5, <3>1, Zenon
    <3>3. (before \o after)[k] = s[k + 1]
      BY <2>1, <2>3, <3>1, <3>2, Zenon
    <3> QED
      BY <3>1, <3>3, Zenon
  <2> QED
    BY <2>2, <2>3
<1> QED
  BY <1>6, <1>7, <1>8 DEF RemoveAt, before, after

\* An entry of the list, and the numbers in it.
LEMMA EntryType ==
  ASSUME TypeOK, NEW i \in DOMAIN APL_list
  PROVE  /\ i \in 1..Len(APL_list) /\ APL_list[i] \in Entry
         /\ APL_list[i].APLNo \in Flight /\ APL_list[i].target_type \in TargetTypes
         /\ APL_list[i].target_ip \in 1..MaxAdds /\ APL_list[i].target_port \in 1..MaxAdds
         /\ APL_list[i].TargetPointID \in Command \union {NoCommand}
         /\ APL_list[i].cmdType \in Command \union {NoCommand}
         /\ APL_list[i].TargetPointID.no \in Nat /\ APL_list[i].cmdType.no \in Nat
<1>1. i \in 1..Len(APL_list) /\ APL_list[i] \in Entry
  BY ElementOfSeq, LenProperties DEF TypeOK
<1>2. \A c \in Command \union {NoCommand} : c.no \in Nat
  BY DEF Command, NoCommand
<1> QED
  BY <1>1, <1>2 DEF Entry

\* The entry that the simulation thread gets, where that does not throw.
LEMMA GetType ==
  ASSUME TypeOK, Listed
  PROVE  /\ ind \in DOMAIN APL_list /\ Get = APL_list[ind]
         /\ Get.APLNo \in Flight /\ Get.target_type \in TargetTypes
         /\ Get.target_ip \in 1..MaxAdds /\ Get.target_port \in 1..MaxAdds
         /\ Get.TargetPointID \in Command \union {NoCommand}
         /\ Get.cmdType \in Command \union {NoCommand}
         /\ Get.TargetPointID.no \in Nat /\ Get.cmdType.no \in Nat
<1>1. ind \in DOMAIN APL_list
  BY LenProperties DEF TypeOK, Listed
<1> QED
  BY <1>1, EntryType DEF Get

\* The numbers that the threads count with.
LEMMA CountTypes ==
  ASSUME TypeOK
  PROVE  /\ adds \in Nat /\ adds \in 0..MaxAdds
         /\ ind \in Nat /\ ind \in 1..MaxAdds + 1
         /\ cb.i \in Nat /\ cb.i \in 1..MaxAdds + 1
BY TargetAssumption, FeedBoundAssumption DEF TypeOK

\* A datagram under construction.
Datagram ==
  [flt : Flight \union {"none"}, about : Flight \union {"none"},
   ip : 0..MaxAdds, port : 0..MaxAdds,
   text : {"none", "600", "601", "602", "603", "PFD"},
   point : Command \union {NoCommand}, cmdType : Command \union {NoCommand},
   moved : BOOLEAN]

LEMMA DatagramType == TypeOK => out \in Datagram
BY DEF TypeOK, Datagram

\* The list gets no shorter, and its entries keep their flight and type, and
\* get no older address or point.
Grows ==
  /\ Len(APL_list) <= Len(APL_list')
  /\ \A i \in DOMAIN APL_list :
       /\ APL_list'[i].APLNo = APL_list[i].APLNo
       /\ APL_list'[i].target_type = APL_list[i].target_type
       /\ APL_list'[i].target_ip >= APL_list[i].target_ip
       /\ APL_list'[i].TargetPointID.no >= APL_list[i].TargetPointID.no

\* What the simulation thread has read stays true while the list grows.
LEMMA DatagramKept ==
  ASSUME FeedInv, TypeOK', Grows, UNCHANGED <<simVars, disturbed>>
  PROVE  DatagramInv' /\ PointNotOlder' /\ PortNotNewer' /\ (Listed => Listed')
<1> USE DEF FeedInv, simVars
<1>1. Len(APL_list) \in Nat /\ Len(APL_list') \in Nat /\ ind \in Nat
  BY LenProperties DEF TypeOK
<1>2. Listed => Listed'
  BY <1>1 DEF Listed, Grows
<1>3. PointNotOlder' /\ PortNotNewer'
  BY DEF PointNotOlder, PortNotNewer, Complete
<1>4. ASSUME ~out.moved, pc \in {"ip", "nodata", "wait", "reroute", "point"}
      PROVE  /\ Get'.APLNo = Get.APLNo
             /\ Get'.target_ip \in Nat /\ Get'.target_ip >= Get.target_ip
             /\ Get'.TargetPointID.no \in Nat
             /\ Get'.TargetPointID.no >= Get.TargetPointID.no
  <2>1. Listed
    BY <1>4 DEF IndexInv, Making
  <2>2. ind \in DOMAIN APL_list /\ ind \in DOMAIN APL_list'
    <3>1. ind \in DOMAIN APL_list
      BY <2>1, GetType
    <3>2. APL_list' \in Seq(Entry) /\ DOMAIN APL_list' = 1..Len(APL_list')
      BY LenProperties DEF TypeOK
    <3>3. ind \in 1..Len(APL_list')
      BY <1>1, <1>2, <2>1, CountTypes DEF Listed
    <3> QED
      BY <3>1, <3>2, <3>3
  <2>3. APL_list'[ind].target_ip \in Nat /\ APL_list'[ind].TargetPointID.no \in Nat
    <3>1. APL_list' \in Seq(Entry)
      BY DEF TypeOK
    <3>2. APL_list'[ind] \in Entry
      BY <2>2, <3>1, ElementOfSeq
    <3> QED
      BY <3>2 DEF Entry, Command, NoCommand
  <2> QED
    BY <2>2, <2>3 DEF Get, Grows
<1>5. ~out.moved /\ pc = "ip" => out.port <= Get'.target_ip
  <2> SUFFICES ASSUME ~out.moved, pc = "ip" PROVE out.port <= Get'.target_ip
    OBVIOUS
  <2>1. out.port \in Nat /\ out.port <= Get.target_ip /\ Get.target_ip \in Nat
    BY GetType, DatagramType DEF DatagramInv, IndexInv, Making, Datagram
  <2> QED
    BY <1>4, <2>1
<1>6. ~out.moved /\ pc = "point" /\ out.cmdType.no > disturbed
        => Get'.TargetPointID.no >= out.cmdType.no
  <2> SUFFICES ASSUME ~out.moved, pc = "point", out.cmdType.no > disturbed
               PROVE  Get'.TargetPointID.no >= out.cmdType.no
    OBVIOUS
  <2>1. /\ out.cmdType.no \in Nat /\ Get.TargetPointID.no >= out.cmdType.no
        /\ Get.TargetPointID.no \in Nat
    BY GetType DEF DatagramInv, IndexInv, Making, Command
  <2> QED
    BY <1>4, <2>1
<1>7. DatagramInv'
  BY <1>4, <1>5, <1>6 DEF DatagramInv
<1> QED
  BY <1>2, <1>3, <1>7

-------------------------------------------------------------------------------
(* The simulation thread.                                                  *)

\* What is said of the list and of the callback alone.
ListInv ==
  AddressInv /\ CommandInv /\ PassedInv /\ UniqueTargets /\ CommandForFlight /\ LatestEverywhere

LEMMA ListKept ==
  ASSUME ListInv, UNCHANGED <<APL_list, edtVars, hlaVars, disturbed>>
  PROVE  ListInv'
BY DEF ListInv, AddressInv, CommandInv, PassedInv, UniqueTargets, CommandForFlight,
       LatestEverywhere, Shows, Distributed, edtVars, hlaVars

\* A step of the making of a datagram.
LEMMA SameEntry ==
  ASSUME FeedInv, pc \in Making \union {"check"},
         UNCHANGED <<APL_list, edtVars, hlaVars, disturbed, ind>>,
         (pc \in Making /\ out'.moved = out.moved) \/ Listed,
         pc' \in Making, todo' \subseteq Flight, tempAPL' \in Flight \union {"none"},
         out' \in Datagram, DatagramInv', PointNotOlder', PortNotNewer'
  PROVE  FeedInv'
<1> USE DEF FeedInv
<1>1. TypeOK'
  BY DEF TypeOK, Making, Reads, Datagram, edtVars, hlaVars
<1>2. IndexInv'
  BY DEF IndexInv, Making, Listed, edtVars, hlaVars
<1>3. ListInv'
  BY ListKept DEF ListInv
<1> QED
  BY <1>1, <1>2, <1>3 DEF ListInv

\* A step from one aircraft, entry or pass to the next, and the end of the thread.
LEMMA OtherEntry ==
  ASSUME FeedInv, UNCHANGED <<APL_list, edtVars, hlaVars, disturbed>>,
         pc' \in {"entry", "sleep", "check", "dead"},
         \/ ind' = 1 /\ pc' # "check"
         \/ pc \in Making \union {"check"} /\ ind' = ind + 1 /\ pc' # "check"
         \/ pc = "sleep" /\ ind' = ind /\ pc' # "check"
         \/ pc \in Making /\ ind' = ind
         \/ Listed /\ ind' = ind,
         todo' \subseteq Flight, tempAPL' \in Flight \union {"none"}, out' \in Datagram
  PROVE  FeedInv'
<1> USE DEF FeedInv
<1>1. ind' \in 1..adds + 1 /\ adds \in 0..MaxAdds /\ (pc' = "check" => ind' <= adds)
  <2>1. adds \in 0..MaxAdds /\ ind \in 1..MaxAdds + 1
    BY DEF TypeOK
  <2>2. ind <= adds + 1 /\ (pc \in Making \union {"check"} => ind <= adds)
    BY DEF IndexInv, Making
  <2>3. Listed => ind <= adds
    BY LenProperties DEF Listed, IndexInv, TypeOK
  <2> QED
    BY <2>1, <2>2, <2>3, FeedBoundAssumption
<1>2. TypeOK'
  <2>1. ind' \in 1..MaxAdds + 1
    BY <1>1
  <2>2. pc' \in {"entry", "sleep", "send", "dead"} \union Reads
    BY DEF Reads, Making
  <2> QED
    BY <2>1, <2>2 DEF TypeOK, Datagram, edtVars, hlaVars
<1>3. IndexInv'
  BY <1>1 DEF IndexInv, Making, Listed, edtVars, hlaVars
<1>4. ListInv'
  BY ListKept DEF ListInv
<1>5. DatagramInv' /\ PointNotOlder' /\ PortNotNewer'
  BY DEF DatagramInv, PointNotOlder, PortNotNewer, Complete
<1> QED
  BY <1>2, <1>3, <1>4, <1>5 DEF ListInv

LEMMA NoTextType == NoText \in Datagram
BY DEF NoText, Datagram

\* The ways out of the loop over the aircraft, and from one aircraft to the next.
LEMMA LeaveEntry ==
  ASSUME FeedInv, pc \in Making \union {"check"},
         UNCHANGED <<APL_list, edtVars, hlaVars, disturbed>>,
         (NextAircraft /\ pc \in Making) \/ NextEntry \/ Throws
  PROVE  FeedInv'
<1>1. out' \in Datagram /\ todo' \subseteq Flight /\ tempAPL' \in Flight \union {"none"}
  BY NoTextType DEF NextAircraft, NextEntry, Throws, FeedInv, TypeOK
<1> QED
  BY <1>1, OtherEntry DEF NextAircraft, NextEntry, Throws

LEMMA TakeEntryFeed == ASSUME FeedInv, TakeEntry PROVE FeedInv'
<1>1. pc = "entry" /\ UNCHANGED <<APL_list, edtVars, hlaVars, disturbed, tempAPL, out>>
  BY DEF TakeEntry, Sim
<1>2. out \in Datagram /\ tempAPL \in Flight \union {"none"}
  BY DatagramType DEF FeedInv, TypeOK
<1>3. todo' \subseteq Flight
  BY DEF TakeEntry
<1>4. \/ Listed /\ pc' = "check" /\ ind' = ind
      \/ pc' = "sleep" /\ ind' = 1
  BY DEF TakeEntry
<1> QED
  BY <1>1, <1>2, <1>3, <1>4, OtherEntry

LEMMA WakeUpFeed == ASSUME FeedInv, WakeUp PROVE FeedInv'
<1>1. out \in Datagram /\ todo \subseteq Flight /\ tempAPL \in Flight \union {"none"}
  BY DatagramType DEF FeedInv, TypeOK
<1> QED
  BY <1>1, OtherEntry DEF WakeUp, Sim

LEMMA CheckFeed == ASSUME FeedInv, Check PROVE FeedInv'
<1>1. pc = "check" /\ UNCHANGED <<APL_list, edtVars, hlaVars, disturbed>>
  BY DEF Check, Sim
<1>2. CASE NextEntry
  BY <1>1, <1>2, LeaveEntry
<1>3. CASE /\ Listed /\ tempAPL' \in todo /\ todo' = todo \ {tempAPL'}
           /\ pc' = "type" /\ ind' = ind /\ out' = NoText
  <2>1. todo' \subseteq Flight /\ tempAPL' \in Flight
    BY <1>3 DEF FeedInv, TypeOK
  <2>2. DatagramInv' /\ PointNotOlder' /\ PortNotNewer'
    BY <1>1, <1>3 DEF DatagramInv, PointNotOlder, PortNotNewer, Complete, NoText
  <2> QED
    BY <1>1, <1>3, <2>1, <2>2, SameEntry, NoTextType DEF Making
<1> QED
  BY <1>2, <1>3 DEF Check

\* The steps between the choice of an aircraft and the text.
LEMMA AddressFeed ==
  ASSUME FeedInv, TypeOfTarget \/ Near \/ Port \/ Ip \/ OwnOrTraffic
  PROVE  FeedInv'
<1> USE DEF FeedInv
<1>1. /\ UNCHANGED <<APL_list, edtVars, hlaVars, disturbed>> /\ Listed
      /\ pc \in {"type", "near", "port", "ip", "own"} /\ pc \in Making
  BY DEF TypeOfTarget, Near, Port, Ip, OwnOrTraffic, Sim, Making
<1>2. out \in Datagram /\ todo \subseteq Flight /\ tempAPL \in Flight \union {"none"}
  BY DatagramType DEF TypeOK
<1>3. /\ Get.target_ip \in Nat /\ Get.target_port \in Nat
      /\ Get.target_ip \in 0..MaxAdds /\ Get.target_port \in 0..MaxAdds /\ Get.APLNo \in Flight
      /\ Get.target_port <= Get.target_ip
      /\ ind' = ind => Get' = Get
  BY <1>1, GetType DEF AddressInv, Get
<1> DEFINE Kept == /\ UNCHANGED <<ind, todo, tempAPL>> /\ pc' \in Making
                   /\ out' \in Datagram /\ out'.moved = out.moved
                   /\ DatagramInv' /\ PointNotOlder' /\ PortNotNewer'
<1>4. ASSUME TypeOfTarget PROVE Kept
  <2>1. out' \in Datagram /\ out'.moved = out.moved /\ UNCHANGED <<ind, todo, tempAPL>>
    BY <1>2, <1>4 DEF TypeOfTarget, Datagram
  <2>2. pc' \in {"near", "port"} /\ (pc' = "near" => out'.text = "none")
        /\ out'.text \in {"none", "PFD"}
    BY <1>2, <1>4 DEF TypeOfTarget, Sim, DatagramInv, Datagram
  <2> QED
    BY <2>1, <2>2 DEF DatagramInv, PointNotOlder, PortNotNewer, Complete, Making
<1>5. ASSUME Near PROVE Kept \/ NextAircraft \/ Throws
  <2>1. CASE pc' = "port" /\ UNCHANGED <<ind, todo, tempAPL, out>>
    BY <1>2, <1>5, <2>1
       DEF Near, Sim, DatagramInv, PointNotOlder, PortNotNewer, Complete, Making
  <2> QED
    BY <1>5, <2>1 DEF Near
<1>6. ASSUME Port PROVE Kept
  <2>1. /\ out' = [out EXCEPT !.port = Get.target_port] /\ pc' = "ip"
        /\ out.text \in {"none", "PFD"} /\ UNCHANGED <<ind, todo, tempAPL>>
    BY <1>6 DEF Port, Sim, DatagramInv
  <2>2. /\ out' \in Datagram /\ out'.port = Get.target_port /\ out'.text = out.text
        /\ out'.moved = out.moved
    BY <1>2, <1>3, <2>1 DEF Datagram
  <2> QED
    BY <1>3, <2>1, <2>2 DEF DatagramInv, PointNotOlder, PortNotNewer, Complete, Making
<1>7. ASSUME Ip PROVE Kept
  <2>1. /\ out' = [out EXCEPT !.ip = Get.target_ip]
        /\ pc' = IF out.text = "PFD" THEN "pfd" ELSE "own"
        /\ out.text \in {"none", "PFD"} /\ (~out.moved => out.port <= Get.target_ip)
        /\ UNCHANGED <<ind, todo, tempAPL>>
    BY <1>7 DEF Ip, Sim, DatagramInv
  <2>2. /\ out' \in Datagram /\ out'.port = out.port /\ out'.text = out.text
        /\ out'.ip = Get.target_ip /\ out'.moved = out.moved
    BY <1>2, <1>3, <2>1 DEF Datagram
  <2> QED
    BY <2>1, <2>2 DEF DatagramInv, PointNotOlder, PortNotNewer, Complete, Making
<1>8. ASSUME OwnOrTraffic PROVE Kept
  <2> DEFINE own == Get.APLNo = tempAPL
  <2>1. /\ out' = [out EXCEPT !.flt = Get.APLNo, !.about = tempAPL,
                              !.text = IF own THEN @ ELSE "603"]
        /\ pc' = IF own THEN "nodata" ELSE "send"
        /\ out.text = "none" /\ (~out.moved => out.port <= out.ip)
        /\ UNCHANGED <<ind, todo, tempAPL>>
    BY <1>8 DEF OwnOrTraffic, Sim, DatagramInv
  <2>2. /\ out' \in Datagram /\ out'.port = out.port /\ out'.ip = out.ip
        /\ out'.flt = Get.APLNo /\ out'.about = tempAPL /\ out'.moved = out.moved
        /\ out'.text = IF own THEN "none" ELSE "603"
    BY <1>2, <1>3, <2>1 DEF Datagram
  <2> QED
    BY <1>3, <2>1, <2>2 DEF DatagramInv, PointNotOlder, PortNotNewer, Complete, Making
<1>9. Kept \/ NextAircraft \/ Throws
  BY <1>4, <1>5, <1>6, <1>7, <1>8
<1>10. CASE Kept
  BY <1>1, <1>2, <1>10, SameEntry
<1> QED
  BY <1>1, <1>9, <1>10, LeaveEntry

\* The steps that make the text about the flight itself.
LEMMA TextFeed ==
  ASSUME FeedInv, IsNoData \/ IsWait \/ IsReroute \/ Point
  PROVE  FeedInv'
<1> USE DEF FeedInv
<1>1. /\ UNCHANGED <<APL_list, edtVars, hlaVars, disturbed, ind, todo, tempAPL>> /\ Listed
      /\ pc \in {"nodata", "wait", "reroute", "point"} /\ pc \in Making
      /\ pc' \in {"wait", "reroute", "point", "send"} /\ pc' \in Making
  BY DEF IsNoData, IsWait, IsReroute, Point, Compare, Sim, Making
<1>2. out \in Datagram /\ todo \subseteq Flight /\ tempAPL \in Flight \union {"none"}
  BY DatagramType DEF TypeOK
<1>3. /\ Get' = Get /\ Get.cmdType \in Command \union {NoCommand}
      /\ Get.TargetPointID \in Command \union {NoCommand}
      /\ Get.TargetPointID.no \in Nat /\ Get.cmdType.no \in Nat /\ disturbed \in Nat
  BY <1>1, GetType DEF Get, TypeOK
<1>4. /\ out.flt = out.about
      /\ ~out.moved => out.port <= out.ip /\ Get.APLNo = out.flt
  BY <1>1 DEF DatagramInv
<1> DEFINE Kept == /\ out' \in Datagram /\ out'.moved = out.moved
                   /\ DatagramInv' /\ PointNotOlder' /\ PortNotNewer'
<1>5. ASSUME NEW text \in {"600", "601", "602"}, out' = [out EXCEPT !.text = text, !.cmdType = Get.cmdType]
      PROVE  /\ out' \in Datagram /\ out'.port = out.port /\ out'.ip = out.ip
             /\ out'.flt = out.flt /\ out'.about = out.about /\ out'.moved = out.moved
             /\ out'.text = text /\ out'.cmdType = Get.cmdType
  BY <1>2, <1>3, <1>5 DEF Datagram
<1>6. ASSUME IsNoData PROVE Kept
  <2>1. CASE pc' = "send" /\ out' = [out EXCEPT !.text = "600", !.cmdType = Get.cmdType]
    BY <1>1, <1>4, <1>5, <2>1 DEF DatagramInv, PointNotOlder, PortNotNewer, Complete
  <2>2. CASE pc' = "wait" /\ UNCHANGED out
    BY <1>1, <1>2, <1>3, <1>4, <1>6, <2>2
       DEF IsNoData, Compare, Sim, DatagramInv, PointNotOlder, PortNotNewer, Complete
  <2> QED
    BY <1>6, <2>1, <2>2 DEF IsNoData, Compare
<1>7. ASSUME NEW text \in {"601", "602"}, Get.cmdType.type # "NODATA", pc' = "point",
             out' = [out EXCEPT !.text = text, !.cmdType = Get.cmdType]
      PROVE  Kept
  <2>1. Get.cmdType \in Command
    BY <1>3, <1>7 DEF NoCommand
  <2>2. Get.cmdType.no > disturbed => Get.TargetPointID.no >= Get.cmdType.no
    BY <1>1, GetType DEF CommandInv
  <2>3. /\ out' \in Datagram /\ out'.port = out.port /\ out'.ip = out.ip
        /\ out'.flt = out.flt /\ out'.about = out.about /\ out'.moved = out.moved
        /\ out'.text = text /\ out'.cmdType = Get.cmdType
    BY <1>5, <1>7
  <2> QED
    BY <1>1, <1>3, <1>4, <1>7, <2>1, <2>2, <2>3
       DEF DatagramInv, PointNotOlder, PortNotNewer, Complete
<1>8. ASSUME IsWait PROVE Kept
  <2>1. CASE /\ pc' = "point" /\ Get.cmdType.type = "WAIT"
             /\ out' = [out EXCEPT !.text = "601", !.cmdType = Get.cmdType]
    BY <1>7, <2>1
  <2>2. CASE pc' = "reroute" /\ UNCHANGED out
    BY <1>1, <1>2, <1>3, <1>4, <1>8, <2>2
       DEF IsWait, Compare, Sim, DatagramInv, PointNotOlder, PortNotNewer, Complete
  <2> QED
    BY <1>8, <2>1, <2>2 DEF IsWait, Compare
<1>9. ASSUME IsReroute PROVE Kept
  <2>1. CASE /\ pc' = "point" /\ Get.cmdType.type = "REROUTE"
             /\ out' = [out EXCEPT !.text = "602", !.cmdType = Get.cmdType]
    BY <1>7, <2>1
  <2>2. CASE pc' = "send" /\ UNCHANGED out
    BY <1>1, <1>2, <1>3, <1>4, <1>9, <2>2
       DEF IsReroute, Compare, Sim, DatagramInv, PointNotOlder, PortNotNewer, Complete
  <2> QED
    BY <1>9, <2>1, <2>2 DEF IsReroute, Compare
<1>10. ASSUME Point PROVE Kept
  <2>1. pc = "point" /\ pc' = "send" /\ out' = [out EXCEPT !.point = Get.TargetPointID]
    BY <1>10 DEF Point, Sim
  <2>2. /\ out' \in Datagram /\ out'.port = out.port /\ out'.ip = out.ip
        /\ out'.flt = out.flt /\ out'.about = out.about /\ out'.moved = out.moved
        /\ out'.point = Get.TargetPointID /\ out'.cmdType = out.cmdType
    BY <1>2, <1>3, <2>1 DEF Datagram
  <2>3. ~out.moved /\ out.cmdType.no > disturbed =>
          /\ Get.TargetPointID.no >= out.cmdType.no
          /\ Get.TargetPointID.flt = out.flt
    <3> SUFFICES ASSUME ~out.moved, out.cmdType.no > disturbed
                 PROVE  /\ Get.TargetPointID.no >= out.cmdType.no
                        /\ Get.TargetPointID.flt = out.flt
      OBVIOUS
    <3>1. Get.TargetPointID.no >= out.cmdType.no /\ out.cmdType.no \in Nat
      BY <2>1 DEF DatagramInv, Command
    <3>2. Get.TargetPointID.no > disturbed
      BY <1>3, <3>1
    <3>3. Get.TargetPointID.flt = Get.APLNo
      BY <1>1, <3>2, GetType DEF CommandForFlight
    <3> QED
      BY <1>4, <3>1, <3>3
  <2> QED
    BY <1>1, <1>4, <2>1, <2>2, <2>3 DEF DatagramInv, PointNotOlder, PortNotNewer, Complete
<1>11. Kept
  BY <1>6, <1>8, <1>9, <1>10
<1> QED
  BY <1>1, <1>2, <1>11, SameEntry

\* The steps that send the datagram, and the exception.
LEMMA SendFeed ==
  ASSUME FeedInv, SendPFD \/ SendAPL \/ LogSend \/ IndexBeyondList
  PROVE  FeedInv'
<1>1. UNCHANGED <<APL_list, edtVars, hlaVars, disturbed>> /\ pc \in Making \union {"check"}
  BY DEF SendPFD, SendAPL, LogSend, IndexBeyondList, Sim, Making, Reads
<1>2. CASE (NextAircraft /\ pc \in Making) \/ NextEntry \/ Throws
  BY <1>1, <1>2, LeaveEntry
<1>3. CASE pc = "send" /\ pc' = "log" /\ UNCHANGED <<ind, todo, tempAPL, out>>
  <2>1. out \in Datagram /\ todo \subseteq Flight /\ tempAPL \in Flight \union {"none"}
    BY DatagramType DEF FeedInv, TypeOK
  <2>2. DatagramInv' /\ PointNotOlder' /\ PortNotNewer'
    BY <1>1, <1>3 DEF FeedInv, DatagramInv, PointNotOlder, PortNotNewer, Complete
  <2> QED
    BY <1>1, <1>3, <2>1, <2>2, SameEntry DEF Making
<1> QED
  BY <1>2, <1>3 DEF SendPFD, SendAPL, LogSend, IndexBeyondList, Sim, Making

LEMMA SimulationFeed == ASSUME FeedInv, SimulationThread PROVE FeedInv'
BY TakeEntryFeed, WakeUpFeed, CheckFeed, AddressFeed, TextFeed, SendFeed
   DEF SimulationThread, APLexec

-------------------------------------------------------------------------------
(* The callback thread.                                                    *)

\* A step that leaves the list and the simulation thread alone.
LEMMA CallbackOnly ==
  ASSUME FeedInv, TypeOK', CommandInv', PassedInv', LatestEverywhere',
         UNCHANGED <<APL_list, edtVars, simVars, disturbed>>, commands <= commands',
         cb'.i <= adds + 1,
         disturbed < commands' =>
           /\ cb'.at = "test" => cb'.i <= Len(APL_list) + 1
           /\ cb'.at \in {"point", "cmd"} =>
                cb'.i \in DOMAIN APL_list /\ APL_list[cb'.i].APLNo = cb'.cmd.flt
  PROVE  FeedInv'
<1> USE DEF FeedInv, edtVars, simVars
<1>1. IndexInv'
  <2>1. disturbed <= commands'
    BY DEF IndexInv, TypeOK
  <2> QED
    BY <2>1 DEF IndexInv, Listed
<1>2. AddressInv' /\ UniqueTargets' /\ CommandForFlight'
  BY DEF AddressInv, UniqueTargets, CommandForFlight
<1>3. DatagramInv' /\ PointNotOlder' /\ PortNotNewer'
  BY DEF DatagramInv, PointNotOlder, PortNotNewer, Complete, Get
<1> QED
  BY <1>1, <1>2, <1>3

LEMMA AircraftChangesFeed == ASSUME FeedInv, AircraftChanges PROVE FeedInv'
<1> USE DEF FeedInv, edtVars, simVars
<1>1. UNCHANGED <<APL_list, edtVars, cb, commands, latest, simVars, disturbed>>
  BY DEF AircraftChanges
<1>2. apl' \in [Flight -> {"absent", "silent", "located"}]
  <2>1. PICK f \in Flight : \E state \in Changed[apl[f]] : apl' = [apl EXCEPT ![f] = state]
    BY DEF AircraftChanges
  <2>2. Changed[apl[f]] \subseteq {"absent", "silent", "located"}
    <3>1. apl[f] \in {"absent", "silent", "located"}
      BY DEF TypeOK
    <3> QED
      BY <3>1 DEF Changed
  <2> QED
    BY <2>1, <2>2 DEF TypeOK
<1>3. changes' \in 0..MaxChanges
  BY DEF AircraftChanges, TypeOK
<1>4. TypeOK'
  BY <1>1, <1>2, <1>3 DEF TypeOK
<1>5. ListInv'
  BY <1>1 DEF ListInv, AddressInv, CommandInv, PassedInv, UniqueTargets, CommandForFlight,
              LatestEverywhere, Shows, Distributed
<1>6. commands <= commands'
  BY <1>1 DEF TypeOK
<1> QED
  BY <1>1, <1>4, <1>5, <1>6, CallbackOnly DEF IndexInv, ListInv

\* The numbers of commands.
LEMMA NumberTypes ==
  ASSUME TypeOK
  PROVE  /\ commands \in Nat /\ disturbed \in Nat
         /\ \A f \in Flight : latest[f] \in Command \union {NoCommand} /\ latest[f].no \in Nat
         /\ \A c \in Command \union {NoCommand} : c.no \in Nat
<1>1. \A c \in Command \union {NoCommand} : c.no \in Nat
  BY DEF Command, NoCommand
<1> QED
  BY <1>1 DEF TypeOK

LEMMA ReceiveCommandFeed == ASSUME FeedInv, ReceiveCommand PROVE FeedInv'
<1> USE DEF FeedInv, edtVars, simVars
<1>1. PICK c \in Command :
        /\ c.no = commands' /\ cb' = [at |-> "test", i |-> 1, cmd |-> c]
        /\ latest' = [latest EXCEPT ![c.flt] = c]
  BY DEF ReceiveCommand
<1>2. /\ cb.at = "idle" /\ commands' = commands + 1 /\ commands < MaxCommands
      /\ UNCHANGED <<APL_list, edtVars, changes, apl, simVars, disturbed>>
  BY DEF ReceiveCommand
<1>3. commands \in Nat /\ c.flt \in Flight
  BY NumberTypes DEF Command
<1>4. TypeOK'
  <2>1. /\ latest' \in [Flight -> Command \union {NoCommand}]
        /\ cb' \in [at : {"idle", "test", "point", "cmd"}, i : 1..MaxAdds + 1,
                   cmd : Command \union {NoCommand}]
        /\ commands' \in 0..MaxCommands
    BY <1>1, <1>2, <1>3 DEF TypeOK
  <2> QED
    BY <1>2, <2>1 DEF TypeOK
<1>5. \A f \in Flight : latest'[f] = IF f = c.flt THEN c ELSE latest[f]
  BY <1>1 DEF TypeOK
<1>6. CommandInv'
  <2>1. ASSUME NEW i \in DOMAIN APL_list
        PROVE  APL_list[i].TargetPointID.no <= commands' /\ APL_list[i].cmdType.no <= commands'
    <3>1. /\ APL_list[i].TargetPointID.no <= commands /\ APL_list[i].cmdType.no <= commands
      BY DEF CommandInv
    <3> QED
      BY <1>2, <1>3, <3>1, EntryType
  <2>2. ASSUME NEW f \in Flight PROVE latest'[f].no <= commands'
    <3>1. latest[f].no <= commands /\ latest[f].no \in Nat
      BY NumberTypes DEF CommandInv
    <3> QED
      BY <1>1, <1>2, <1>3, <1>5, <3>1
  <2>3. cb'.cmd = c /\ cb'.at = "test" /\ latest'[c.flt] = c
    BY <1>1, <1>3, <1>5
  <2> QED
    BY <1>1, <1>2, <2>1, <2>2, <2>3 DEF CommandInv
<1>7. PassedInv'
  BY <1>1, <1>2, EntryType DEF PassedInv
<1>8. LatestEverywhere'
  <2> SUFFICES ASSUME NEW i \in DOMAIN APL_list, latest'[APL_list[i].APLNo].no > disturbed,
                      ~Distributed(APL_list[i].APLNo)'
               PROVE  Shows(APL_list[i], latest'[APL_list[i].APLNo])
    BY <1>2 DEF LatestEverywhere, Shows
  <2>1. APL_list[i].APLNo # c.flt
    BY <1>1, <1>2 DEF Distributed
  <2>2. latest'[APL_list[i].APLNo] = latest[APL_list[i].APLNo]
    BY <1>5, <2>1, EntryType
  <2> QED
    BY <1>2, <2>2 DEF LatestEverywhere, Distributed
<1>9. Len(APL_list) \in Nat /\ cb'.i = 1 /\ cb'.at = "test" /\ cb'.i <= adds + 1
  BY <1>1, LenProperties, CountTypes DEF TypeOK
<1> QED
  BY <1>1, <1>2, <1>3, <1>4, <1>6, <1>7, <1>8, <1>9, CallbackOnly

LEMMA TestEntryFeed == ASSUME FeedInv, TestEntry PROVE FeedInv'
<1> USE DEF FeedInv, edtVars, simVars
<1>1. /\ cb.at = "test"
      /\ UNCHANGED <<APL_list, edtVars, commands, changes, apl, latest, simVars, disturbed>>
  BY DEF TestEntry
<1>2. Len(APL_list) \in Nat /\ cb.i \in Nat \ {0} /\ Len(APL_list) <= adds /\ adds \in 0..MaxAdds
  BY LenProperties DEF TypeOK, IndexInv
<1>3. cb.cmd \in Command /\ cb.cmd.no = commands /\ latest[cb.cmd.flt] = cb.cmd
  BY <1>1 DEF CommandInv
<1>4. commands <= commands'
  BY <1>1, NumberTypes
<1>5. CASE cb.i > Len(APL_list)
  <2>1. cb' = NoSend
    BY <1>5 DEF TestEntry
  <2>2. TypeOK'
    BY <1>1, <2>1 DEF TypeOK, NoSend
  <2>3. CommandInv' /\ PassedInv'
    BY <1>1, <2>1 DEF CommandInv, PassedInv, Distributed, NoSend
  <2>4. LatestEverywhere'
    <3> SUFFICES ASSUME NEW i \in DOMAIN APL_list, latest[APL_list[i].APLNo].no > disturbed
                 PROVE  Shows(APL_list[i], latest[APL_list[i].APLNo])
      BY <1>1 DEF LatestEverywhere, Shows
    <3>1. CASE Distributed(APL_list[i].APLNo)
      <4>1. i < cb.i
        BY <1>2, <1>5, EntryType
      <4>2. APL_list[i].TargetPointID = cb.cmd /\ APL_list[i].cmdType = cb.cmd
        BY <3>1, <4>1 DEF PassedInv
      <4> QED
        BY <1>3, <3>1, <4>2 DEF Shows, Distributed
    <3>2. CASE ~Distributed(APL_list[i].APLNo)
      BY <3>2 DEF LatestEverywhere
    <3> QED
      BY <3>1, <3>2
  <2> QED
    BY <1>1, <1>4, <2>1, <2>2, <2>3, <2>4, CallbackOnly DEF NoSend, TypeOK
<1>6. CASE ~(cb.i > Len(APL_list)) /\ APL_list[cb.i].APLNo = cb.cmd.flt
  <2>1. /\ cb' = [cb EXCEPT !.at = "point"] /\ cb'.at = "point" /\ cb'.i = cb.i
        /\ cb'.cmd = cb.cmd
    BY <1>6 DEF TestEntry, TypeOK
  <2>2. TypeOK'
    <3>1. cb' \in [at : {"idle", "test", "point", "cmd"}, i : 1..MaxAdds + 1,
                   cmd : Command \union {NoCommand}]
      BY <2>1 DEF TypeOK
    <3> QED
      BY <1>1, <3>1 DEF TypeOK
  <2>3. CommandInv'
    BY <1>1, <1>3, <2>1 DEF CommandInv
  <2>4. \A f : Distributed(f)' <=> Distributed(f)
    BY <1>1, <2>1 DEF Distributed
  <2>5. PassedInv' /\ LatestEverywhere'
    BY <1>1, <2>1, <2>4 DEF PassedInv, LatestEverywhere, Shows
  <2>6. cb.i \in DOMAIN APL_list
    BY <1>2, <1>6, LenProperties DEF TypeOK
  <2> QED
    BY <1>1, <1>4, <1>6, <2>1, <2>2, <2>3, <2>5, <2>6, CallbackOnly DEF IndexInv
<1>7. CASE ~(cb.i > Len(APL_list)) /\ APL_list[cb.i].APLNo # cb.cmd.flt
  <2>1. /\ cb' = [cb EXCEPT !.i = cb.i + 1] /\ cb'.at = "test" /\ cb'.i = cb.i + 1
        /\ cb'.cmd = cb.cmd
    BY <1>1, <1>7 DEF TestEntry, TypeOK
  <2>2. TypeOK'
    <3>1. cb' \in [at : {"idle", "test", "point", "cmd"}, i : 1..MaxAdds + 1,
                   cmd : Command \union {NoCommand}]
      <4>1. cb.i + 1 \in 1..MaxAdds + 1
        BY <1>2, <1>7
      <4> QED
        BY <2>1, <4>1 DEF TypeOK
    <3> QED
      BY <1>1, <3>1 DEF TypeOK
  <2>3. CommandInv'
    BY <1>1, <1>3, <2>1 DEF CommandInv
  <2>4. \A f : Distributed(f)' <=> Distributed(f)
    BY <1>1, <2>1 DEF Distributed
  <2>5. LatestEverywhere'
    BY <1>1, <2>4 DEF LatestEverywhere, Shows
  <2>6. PassedInv'
    <3> SUFFICES ASSUME NEW i \in DOMAIN APL_list, latest[APL_list[i].APLNo].no > disturbed,
                        Distributed(APL_list[i].APLNo), i < cb.i + 1
                 PROVE  APL_list[i].TargetPointID = cb.cmd /\ APL_list[i].cmdType = cb.cmd
      BY <1>1, <2>1, <2>4 DEF PassedInv
    <3>1. i # cb.i
      BY <1>7 DEF Distributed
    <3>2. i < cb.i
      BY <1>2, <3>1, EntryType
    <3> QED
      BY <3>2 DEF PassedInv
  <2> QED
    BY <1>1, <1>2, <1>4, <1>7, <2>1, <2>2, <2>3, <2>5, <2>6, CallbackOnly
<1> QED
  BY <1>5, <1>6, <1>7

\* The two writes of the callback, of the field called name.
LEMMA NotedEntry ==
  ASSUME TypeOK, CommandInv, cb.at # "idle", NEW i \in DOMAIN APL_list,
         NEW name \in {"TargetPointID", "cmdType"},
         APL_list' = [APL_list EXCEPT ![i] = Noted(i, name)]
  PROVE  /\ APL_list' \in Seq(Entry) /\ Len(APL_list') = Len(APL_list)
         /\ DOMAIN APL_list' = DOMAIN APL_list
         /\ \A k \in DOMAIN APL_list :
              /\ APL_list'[k].APLNo = APL_list[k].APLNo
              /\ APL_list'[k].target_type = APL_list[k].target_type
              /\ APL_list'[k].target_ip = APL_list[k].target_ip
              /\ APL_list'[k].target_port = APL_list[k].target_port
              /\ APL_list'[k].since = APL_list[k].since
              /\ APL_list'[k].TargetPointID =
                   IF k = i /\ name = "TargetPointID" THEN cb.cmd ELSE APL_list[k].TargetPointID
              /\ APL_list'[k].cmdType =
                   IF k = i /\ name = "cmdType" THEN cb.cmd ELSE APL_list[k].cmdType
<1>1. APL_list[i] \in Entry /\ cb.cmd \in Command
  BY EntryType DEF CommandInv
<1>2. /\ Noted(i, name) \in Entry
      /\ Noted(i, name).APLNo = APL_list[i].APLNo
      /\ Noted(i, name).target_type = APL_list[i].target_type
      /\ Noted(i, name).target_ip = APL_list[i].target_ip
      /\ Noted(i, name).target_port = APL_list[i].target_port
      /\ Noted(i, name).since = APL_list[i].since
      /\ Noted(i, name).TargetPointID =
           IF name = "TargetPointID" THEN cb.cmd ELSE APL_list[i].TargetPointID
      /\ Noted(i, name).cmdType = IF name = "cmdType" THEN cb.cmd ELSE APL_list[i].cmdType
  <2>1. CASE name = "TargetPointID"
    BY <1>1, <2>1 DEF Noted, Entry
  <2>2. CASE name = "cmdType"
    BY <1>1, <2>2 DEF Noted, Entry
  <2> QED
    BY <2>1, <2>2
<1> HIDE DEF Noted
<1>3. APL_list \in Seq(Entry)
  BY DEF TypeOK
<1>4. /\ APL_list' \in Seq(Entry) /\ Len(APL_list') = Len(APL_list)
      /\ \A k \in 1..Len(APL_list) :
           APL_list'[k] = IF k = i THEN Noted(i, name) ELSE APL_list[k]
  BY <1>2, <1>3, ExceptSeq, LenProperties
<1>5. DOMAIN APL_list = 1..Len(APL_list) /\ DOMAIN APL_list' = 1..Len(APL_list')
  BY <1>3, <1>4, LenProperties
<1> QED
  BY <1>2, <1>4, <1>5

LEMMA WriteFeed == ASSUME FeedInv, WritePoint \/ WriteCmdType PROVE FeedInv'
<1> USE DEF FeedInv, edtVars, simVars
<1>1. /\ cb.at \in {"point", "cmd"}
      /\ UNCHANGED <<edtVars, commands, changes, apl, latest, simVars, disturbed>>
  BY DEF WritePoint, WriteCmdType, WriteField
<1>2. /\ APL_list \in Seq(Entry) /\ Len(APL_list) \in Nat
      /\ DOMAIN APL_list = 1..Len(APL_list)
      /\ cb.i \in Nat \ {0} /\ Len(APL_list) <= adds /\ adds \in 0..MaxAdds
  BY LenProperties DEF TypeOK, IndexInv
<1>3. /\ cb.cmd \in Command /\ cb.cmd.no = commands /\ latest[cb.cmd.flt] = cb.cmd
      /\ commands \in Nat /\ disturbed \in Nat
  BY <1>1, NumberTypes DEF CommandInv
<1>4. CASE cb.i > Len(APL_list) /\ cb' = NoSend /\ UNCHANGED APL_list
  <2>1. ~(disturbed < commands)
    BY <1>1, <1>2, <1>4 DEF IndexInv, TypeOK
  <2>2. TypeOK'
    BY <1>1, <1>4 DEF TypeOK, NoSend
  <2>3. CommandInv'
    BY <1>1, <1>4 DEF CommandInv, NoSend
  <2>4. \A k \in DOMAIN APL_list : ~(latest[APL_list[k].APLNo].no > disturbed)
    <3> TAKE k \in DOMAIN APL_list
    <3>1. latest[APL_list[k].APLNo].no <= commands /\ latest[APL_list[k].APLNo].no \in Nat
      BY EntryType, NumberTypes DEF CommandInv
    <3> QED
      BY <1>3, <2>1, <3>1
  <2>5. PassedInv' /\ LatestEverywhere'
    BY <1>1, <1>4, <2>4 DEF PassedInv, LatestEverywhere
  <2>6. commands <= commands'
    BY <1>1, <1>3
  <2> QED
    BY <1>1, <1>4, <2>1, <2>2, <2>3, <2>5, <2>6, CallbackOnly DEF NoSend, TypeOK
<1>5. ASSUME ~(cb.i > Len(APL_list)),
             NEW name \in {"TargetPointID", "cmdType"},
             APL_list' = [APL_list EXCEPT ![cb.i] = Noted(cb.i, name)],
             cb' = IF name = "TargetPointID" THEN [cb EXCEPT !.at = "cmd"]
                   ELSE [cb EXCEPT !.at = "test", !.i = cb.i + 1],
             cb.at = IF name = "TargetPointID" THEN "point" ELSE "cmd"
      PROVE  FeedInv'
  <2>1. cb.i \in DOMAIN APL_list
    BY <1>2, <1>5
  <2>2. /\ APL_list' \in Seq(Entry) /\ Len(APL_list') = Len(APL_list)
        /\ DOMAIN APL_list' = DOMAIN APL_list
        /\ \A k \in DOMAIN APL_list :
             /\ APL_list'[k].APLNo = APL_list[k].APLNo
             /\ APL_list'[k].target_type = APL_list[k].target_type
             /\ APL_list'[k].target_ip = APL_list[k].target_ip
             /\ APL_list'[k].target_port = APL_list[k].target_port
             /\ APL_list'[k].since = APL_list[k].since
             /\ APL_list'[k].TargetPointID =
                  IF k = cb.i /\ name = "TargetPointID" THEN cb.cmd
                  ELSE APL_list[k].TargetPointID
             /\ APL_list'[k].cmdType =
                  IF k = cb.i /\ name = "cmdType" THEN cb.cmd ELSE APL_list[k].cmdType
    BY <1>1, <1>5, <2>1, NotedEntry
  <2>3. /\ cb'.at = IF name = "TargetPointID" THEN "cmd" ELSE "test"
        /\ cb'.i = IF name = "TargetPointID" THEN cb.i ELSE cb.i + 1
        /\ cb'.cmd = cb.cmd
    BY <1>5 DEF TypeOK
  <2>4. TypeOK'
    <3>1. cb' \in [at : {"idle", "test", "point", "cmd"}, i : 1..MaxAdds + 1,
                   cmd : Command \union {NoCommand}]
      <4>1. cb.i + 1 \in 1..MaxAdds + 1
        BY <1>2, <1>5
      <4> QED
        BY <1>5, <4>1 DEF TypeOK
    <3> QED
      BY <1>1, <2>2, <3>1 DEF TypeOK
  <2>5. IndexInv'
    BY <1>1, <1>2, <1>5, <2>1, <2>2, <2>3 DEF IndexInv, Listed
  <2>6. AddressInv' /\ UniqueTargets'
    BY <1>1, <2>2, EntryType DEF AddressInv, UniqueTargets, IndexInv
  <2>7. Grows
    <3>1. \A k \in DOMAIN APL_list : APL_list'[k].TargetPointID.no >= APL_list[k].TargetPointID.no
      <4> SUFFICES ASSUME NEW k \in DOMAIN APL_list
                   PROVE  APL_list'[k].TargetPointID.no >= APL_list[k].TargetPointID.no
        OBVIOUS
      <4>1. APL_list[k].TargetPointID.no \in Int /\ APL_list[k].TargetPointID.no <= commands
        BY EntryType DEF CommandInv
      <4>2. cb.cmd.no = commands /\ commands \in Int
        BY <1>3 DEF TypeOK
      <4>3. APL_list'[k].TargetPointID \in {cb.cmd, APL_list[k].TargetPointID}
        BY <2>2
      <4> QED
        BY <4>1, <4>2, <4>3
    <3>2. \A k \in DOMAIN APL_list : APL_list'[k].target_ip >= APL_list[k].target_ip
      BY <2>2, EntryType
    <3> QED
      BY <1>2, <2>2, <3>1, <3>2 DEF Grows
  <2>8. DatagramInv' /\ PointNotOlder' /\ PortNotNewer'
    BY <1>1, <2>4, <2>7, DatagramKept
  <2>9. disturbed < commands => APL_list[cb.i].APLNo = cb.cmd.flt
    BY <1>1 DEF IndexInv
  <2>10. \A k \in DOMAIN APL_list :
           APL_list[k].TargetPointID.no \in Nat /\ APL_list[k].cmdType.no \in Nat
           /\ APL_list[k].APLNo \in Flight /\ latest[APL_list[k].APLNo].no \in Nat
           /\ latest[APL_list[k].APLNo].no <= commands
    BY EntryType, NumberTypes DEF CommandInv
  <2>11. CommandForFlight'
    <3> SUFFICES ASSUME NEW k \in DOMAIN APL_list,
                        NEW c \in {APL_list'[k].TargetPointID, APL_list'[k].cmdType},
                        c.no > disturbed
                 PROVE  c.flt = APL_list[k].APLNo
      BY <1>1, <2>2 DEF CommandForFlight
    <3>1. \/ c = cb.cmd /\ k = cb.i
          \/ c \in {APL_list[k].TargetPointID, APL_list[k].cmdType}
      BY <2>2
    <3>2. CASE c = cb.cmd /\ k = cb.i
      BY <1>3, <2>9, <3>2
    <3> QED
      BY <3>1, <3>2 DEF CommandForFlight
  <2>12. \A f : Distributed(f)' <=> Distributed(f)
    BY <1>1, <2>3 DEF Distributed
  <2>13. CommandInv'
    <3>1. ASSUME NEW k \in DOMAIN APL_list
          PROVE  /\ APL_list'[k].TargetPointID.no <= commands /\ APL_list'[k].cmdType.no <= commands
                 /\ APL_list'[k].cmdType.no > disturbed =>
                      APL_list'[k].TargetPointID.no >= APL_list'[k].cmdType.no
      <4>1. /\ APL_list[k].TargetPointID.no <= commands /\ APL_list[k].cmdType.no <= commands
            /\ APL_list[k].cmdType.no > disturbed =>
                 APL_list[k].TargetPointID.no >= APL_list[k].cmdType.no
        BY DEF CommandInv
      <4>2. name = "cmdType" /\ k = cb.i /\ disturbed < commands =>
              APL_list[k].TargetPointID = cb.cmd
        BY <1>5 DEF CommandInv
      <4> QED
        BY <1>3, <2>2, <2>10, <4>1, <4>2, NumberTypes
    <3>2. cb'.at = "cmd" => APL_list'[cb'.i].TargetPointID = cb.cmd
      BY <2>1, <2>2, <2>3
    <3> QED
      BY <1>1, <1>3, <2>2, <2>3, <3>1, <3>2 DEF CommandInv
  <2>14. PassedInv'
    <3> SUFFICES ASSUME NEW k \in DOMAIN APL_list, latest[APL_list[k].APLNo].no > disturbed,
                        Distributed(APL_list[k].APLNo), k < cb'.i
                 PROVE  APL_list'[k].TargetPointID = cb.cmd /\ APL_list'[k].cmdType = cb.cmd
      BY <1>1, <2>2, <2>3, <2>12 DEF PassedInv
    <3>1. k < cb.i \/ (k = cb.i /\ name = "cmdType")
      BY <1>2, <2>3, EntryType
    <3>2. CASE k < cb.i
      <4>1. APL_list[k].TargetPointID = cb.cmd /\ APL_list[k].cmdType = cb.cmd
        BY <3>2 DEF PassedInv
      <4> QED
        BY <2>2, <4>1
    <3>3. CASE k = cb.i /\ name = "cmdType"
      <4>1. disturbed < commands
        BY <2>10, NumberTypes
      <4>2. APL_list[k].TargetPointID = cb.cmd
        BY <1>5, <3>3, <4>1 DEF CommandInv
      <4> QED
        BY <2>2, <3>3, <4>2
    <3> QED
      BY <3>1, <3>2, <3>3
  <2>15. LatestEverywhere'
    <3> SUFFICES ASSUME NEW k \in DOMAIN APL_list, latest[APL_list[k].APLNo].no > disturbed,
                        ~Distributed(APL_list[k].APLNo)
                 PROVE  Shows(APL_list'[k], latest[APL_list[k].APLNo])
      BY <1>1, <2>2, <2>12 DEF LatestEverywhere, Shows
    <3>1. disturbed < commands
      BY <2>10, NumberTypes
    <3>2. k # cb.i
      BY <1>1, <2>9, <3>1 DEF Distributed
    <3>3. Shows(APL_list[k], latest[APL_list[k].APLNo])
      BY DEF LatestEverywhere
    <3> QED
      BY <2>2, <3>2, <3>3 DEF Shows
  <2> QED
    BY <2>4, <2>5, <2>6, <2>8, <2>11, <2>13, <2>14, <2>15
<1>6. CASE WritePoint
  <2>1. \/ cb.i > Len(APL_list) /\ cb' = NoSend /\ UNCHANGED APL_list
        \/ /\ ~(cb.i > Len(APL_list)) /\ cb' = [cb EXCEPT !.at = "cmd"]
           /\ APL_list' = [APL_list EXCEPT ![cb.i] = Noted(cb.i, "TargetPointID")]
    BY <1>6 DEF WritePoint, WriteField
  <2>2. cb.at = "point"
    BY <1>6 DEF WritePoint, WriteField
  <2> QED
    BY <1>4, <1>5, <2>1, <2>2
<1>7. CASE WriteCmdType
  <2>1. \/ cb.i > Len(APL_list) /\ cb' = NoSend /\ UNCHANGED APL_list
        \/ /\ ~(cb.i > Len(APL_list)) /\ cb' = [cb EXCEPT !.at = "test", !.i = cb.i + 1]
           /\ APL_list' = [APL_list EXCEPT ![cb.i] = Noted(cb.i, "cmdType")]
    BY <1>7 DEF WriteCmdType, WriteField
  <2>2. cb.at = "cmd"
    BY <1>7 DEF WriteCmdType, WriteField
  <2> QED
    BY <1>4, <1>5, <2>1, <2>2
<1> QED
  BY <1>6, <1>7

LEMMA HlaFeed == ASSUME FeedInv, HlaThread PROVE FeedInv'
BY AircraftChangesFeed, ReceiveCommandFeed, TestEntryFeed, WriteFeed DEF HlaThread, Callback

-------------------------------------------------------------------------------
(* The event thread.                                                       *)

LEMMA AppendFeed ==
  ASSUME FeedInv, edt.at = "idle", adds < MaxAdds, adds' = adds + 1,
         NEW f \in Flight, NEW t \in TargetTypes, isInArray(f, t) = {},
         APL_list' = Append(APL_list, NewTarget(f, t, adds')),
         UNCHANGED <<edt, removals, hlaVars, simVars, disturbed>>
  PROVE  FeedInv'
<1> USE DEF FeedInv, hlaVars, simVars
<1> DEFINE e == NewTarget(f, t, adds')
           n == Len(APL_list) + 1
<1>1. adds \in Nat /\ adds' \in 1..MaxAdds /\ commands \in 0..MaxCommands
      /\ disturbed \in Nat
  BY DEF TypeOK
<1>2. /\ e \in Entry /\ e.APLNo = f /\ e.target_type = t /\ e.target_ip = adds'
      /\ e.target_port = adds' /\ e.TargetPointID = NoCommand /\ e.cmdType = NoCommand
      /\ e.since = commands
  BY <1>1 DEF NewTarget, Entry
<1> HIDE DEF e
<1>3. APL_list \in Seq(Entry) /\ Len(APL_list) \in Nat /\ DOMAIN APL_list = 1..Len(APL_list)
  BY LenProperties DEF TypeOK
<1>4. APL_list' = Append(APL_list, e)
  BY DEF e
<1>5. /\ APL_list' \in Seq(Entry) /\ Len(APL_list') = n /\ APL_list'[n] = e
      /\ \A k \in DOMAIN APL_list : APL_list'[k] = APL_list[k]
  BY <1>2, <1>3, <1>4, AppendProperties
<1>6. DOMAIN APL_list' = DOMAIN APL_list \union {n} /\ n \notin DOMAIN APL_list
  BY <1>3, <1>5, LenProperties
<1>7. TypeOK'
  BY <1>1, <1>5 DEF TypeOK
<1>8. IndexInv'
  <2>1. adds' = adds + 1 /\ Len(APL_list) <= adds
    BY DEF IndexInv
  <2>2. cb.i \in Nat /\ ind \in Nat
    BY DEF TypeOK
  <2> QED
    BY <1>1, <1>3, <1>5, <1>6, <2>1, <2>2 DEF IndexInv, Listed
<1>9. AddressInv'
  <2>1. \A k \in DOMAIN APL_list : APL_list[k].target_port <= APL_list[k].target_ip
          /\ APL_list[k].target_ip <= adds /\ APL_list[k].target_ip \in Nat
    BY EntryType DEF AddressInv
  <2> QED
    BY <1>1, <1>2, <1>5, <1>6, <2>1 DEF AddressInv
<1>10. UniqueTargets'
  <2>1. \A k \in DOMAIN APL_list : ~(APL_list[k].APLNo = f /\ APL_list[k].target_type = t)
    BY DEF isInArray
  <2> QED
    BY <1>2, <1>5, <1>6, <2>1 DEF UniqueTargets
<1>11. NoCommand.no = 0 /\ cb' = cb /\ commands' = commands /\ disturbed' = disturbed
       /\ latest' = latest
  BY DEF NoCommand
<1>12. CommandForFlight'
  BY <1>1, <1>2, <1>5, <1>6, <1>11 DEF CommandForFlight
<1>13. \A g : Distributed(g)' <=> Distributed(g)
  BY DEF Distributed
<1>14. CommandInv'
  <2>1. ASSUME NEW k \in DOMAIN APL_list'
        PROVE  /\ APL_list'[k].TargetPointID.no <= commands
               /\ APL_list'[k].cmdType.no <= commands
               /\ APL_list'[k].cmdType.no > disturbed =>
                    APL_list'[k].TargetPointID.no >= APL_list'[k].cmdType.no
    <3>1. CASE k = n
      <4>1. /\ APL_list'[k].TargetPointID = NoCommand /\ APL_list'[k].cmdType = NoCommand
            /\ commands \in Nat
        BY <1>1, <1>2, <1>5, <3>1
      <4> HIDE DEF FeedInv, hlaVars, simVars
      <4> QED
        BY <1>1, <1>11, <4>1
    <3>2. CASE k \in DOMAIN APL_list
      BY <1>5, <3>2 DEF CommandInv
    <3> QED
      BY <1>6, <3>1, <3>2
  <2>2. cb.at = "cmd" /\ disturbed < commands => APL_list'[cb.i].TargetPointID = cb.cmd
    BY <1>5 DEF CommandInv, IndexInv
  <2>3. /\ cb.at # "idle" =>
             cb.cmd \in Command /\ cb.cmd.no = commands /\ latest[cb.cmd.flt] = cb.cmd
        /\ \A g \in Flight : latest[g].no <= commands
    BY DEF CommandInv
  <2> HIDE DEF FeedInv, hlaVars, simVars
  <2> QED
    BY <1>11, <2>1, <2>2, <2>3 DEF CommandInv
<1>15. latest[f].no <= commands /\ latest[f].no \in Nat
  BY NumberTypes DEF CommandInv
<1>16. PassedInv'
  <2> SUFFICES ASSUME NEW k \in DOMAIN APL_list', latest[APL_list'[k].APLNo].no > disturbed,
                      Distributed(APL_list'[k].APLNo), k < cb.i
               PROVE  APL_list'[k].TargetPointID = cb.cmd /\ APL_list'[k].cmdType = cb.cmd
    BY <1>11, <1>13 DEF PassedInv
  <2>1. CASE k = n
    <3>1. disturbed < commands
      BY <1>1, <1>2, <1>5, <1>15, <2>1
    <3>2. cb.i <= n
      BY <1>3, <3>1 DEF IndexInv, Distributed, TypeOK
    <3> QED
      BY <1>3, <2>1, <3>2, CountTypes
  <2>2. CASE k \in DOMAIN APL_list
    BY <1>5, <2>2 DEF PassedInv
  <2> QED
    BY <1>6, <2>1, <2>2
<1>17. LatestEverywhere'
  <2> SUFFICES ASSUME NEW k \in DOMAIN APL_list', latest[APL_list'[k].APLNo].no > disturbed,
                      ~Distributed(APL_list'[k].APLNo)
               PROVE  Shows(APL_list'[k], latest[APL_list'[k].APLNo])
    BY <1>11, <1>13 DEF LatestEverywhere, Shows
  <2>1. CASE k = n
    BY <1>1, <1>2, <1>5, <1>15, <2>1 DEF Shows
  <2>2. CASE k \in DOMAIN APL_list
    BY <1>5, <2>2 DEF LatestEverywhere
  <2> QED
    BY <1>6, <2>1, <2>2
<1>18. Grows
  BY <1>3, <1>5, EntryType DEF Grows
<1>19. DatagramInv' /\ PointNotOlder' /\ PortNotNewer'
  BY <1>7, <1>18, DatagramKept
<1> QED
  BY <1>7, <1>8, <1>9, <1>10, <1>12, <1>14, <1>16, <1>17, <1>19

LEMMA RedirectTypes ==
  ASSUME TypeOK, UNCHANGED <<removals, hlaVars, simVars, disturbed>>,
         APL_list' \in Seq(Entry), adds' \in 0..MaxAdds,
         edt' \in [at : {"idle", "port"}, i : 1..MaxAdds + 1]
  PROVE  TypeOK'
BY DEF TypeOK, hlaVars, simVars

\* The address of entry i is written: its ip, or then its port.
LEMMA RedirectFeed ==
  ASSUME FeedInv, NEW i \in DOMAIN APL_list, NEW name \in {"ip", "port"},
         UNCHANGED <<removals, hlaVars, simVars, disturbed>>,
         adds' \in 1..MaxAdds, adds' = IF name = "ip" THEN adds + 1 ELSE adds,
         APL_list' = IF name = "ip" THEN [APL_list EXCEPT ![i].target_ip = adds']
                     ELSE [APL_list EXCEPT ![i].target_port = adds'],
         edt' = IF name = "ip" THEN [at |-> "port", i |-> i] ELSE [at |-> "idle", i |-> 1],
         name = "port" => edt.at = "port" /\ edt.i = i
  PROVE  FeedInv'
<1> USE DEF FeedInv, hlaVars, simVars
<1> DEFINE e == IF name = "ip" THEN [APL_list[i] EXCEPT !.target_ip = adds']
                ELSE [APL_list[i] EXCEPT !.target_port = adds']
<1>1. APL_list \in Seq(Entry) /\ Len(APL_list) \in Nat /\ DOMAIN APL_list = 1..Len(APL_list)
  BY LenProperties DEF TypeOK
<1>2. adds \in Nat /\ adds <= adds' /\ adds' \in Nat
  BY CountTypes
<1>3. /\ e \in Entry /\ e.APLNo = APL_list[i].APLNo /\ e.target_type = APL_list[i].target_type
      /\ e.target_ip = IF name = "ip" THEN adds' ELSE APL_list[i].target_ip
      /\ e.target_port = IF name = "ip" THEN APL_list[i].target_port ELSE adds'
      /\ e.TargetPointID = APL_list[i].TargetPointID /\ e.cmdType = APL_list[i].cmdType
      /\ e.since = APL_list[i].since
  <2>1. APL_list[i] \in Entry
    BY EntryType
  <2> QED
    BY <2>1 DEF Entry
<1>4. APL_list' = [APL_list EXCEPT ![i] = e]
  <2>1. CASE name = "ip"
    BY <2>1
  <2>2. CASE name = "port"
    BY <2>2
  <2> QED
    BY <2>1, <2>2
<1> HIDE DEF e
<1>5. /\ APL_list' \in Seq(Entry) /\ Len(APL_list') = Len(APL_list)
      /\ DOMAIN APL_list' = DOMAIN APL_list
      /\ \A k \in DOMAIN APL_list : APL_list'[k] = IF k = i THEN e ELSE APL_list[k]
  <2> DEFINE new == [APL_list EXCEPT ![i] = e]
  <2>1. /\ new \in Seq(Entry) /\ Len(new) = Len(APL_list)
        /\ \A k \in 1..Len(APL_list) : new[k] = IF k = i THEN e ELSE APL_list[k]
    BY <1>1, <1>3, ExceptSeq
  <2>2. DOMAIN new = DOMAIN APL_list
    OBVIOUS
  <2>3. APL_list' = new
    BY <1>4
  <2> HIDE DEF new
  <2> QED
    BY <1>1, <2>1, <2>2, <2>3
<1>6. TypeOK'
  <2>1. i \in 1..MaxAdds + 1
    BY <1>1, CountTypes DEF IndexInv
  <2>2. edt' \in [at : {"idle", "port"}, i : 1..MaxAdds + 1]
    BY <2>1
  <2>3. APL_list' \in Seq(Entry) /\ adds' \in 0..MaxAdds
    BY <1>2, <1>5
  <2> HIDE DEF e, FeedInv, hlaVars, simVars
  <2>4. TypeOK /\ UNCHANGED <<removals, hlaVars, simVars, disturbed>>
    BY DEF FeedInv
  <2> QED
    BY <2>2, <2>3, <2>4, RedirectTypes
<1>7. IndexInv'
  <2>1. /\ Len(APL_list) <= adds' /\ cb.i <= adds' + 1 /\ ind <= adds' + 1
        /\ pc \notin {"entry", "sleep", "dead"} => ind <= adds'
    <3>1. cb.i \in Nat /\ ind \in Nat
      BY CountTypes
    <3> QED
      BY <1>1, <1>2, <3>1 DEF IndexInv
  <2>2. edt'.at = "port" => edt'.i \in DOMAIN APL_list
    BY DEF IndexInv
  <2>3. \A k \in DOMAIN APL_list : APL_list'[k].APLNo = APL_list[k].APLNo
    BY <1>3, <1>5
  <2> QED
    BY <1>5, <2>1, <2>2, <2>3 DEF IndexInv, Listed
<1>8. AddressInv'
  <2>1. \A k \in DOMAIN APL_list :
          /\ APL_list[k].target_port <= APL_list[k].target_ip /\ APL_list[k].target_ip <= adds
          /\ APL_list[k].target_ip \in Nat /\ APL_list[k].target_port \in Nat
    BY EntryType DEF AddressInv
  <2>2. name = "port" => APL_list[i].target_ip = adds
    BY DEF AddressInv
  <2>3. e.target_port <= e.target_ip /\ e.target_ip <= adds'
    BY <1>2, <1>3, <2>1, <2>2
  <2>4. ASSUME NEW k \in DOMAIN APL_list
        PROVE  APL_list'[k].target_port <= APL_list'[k].target_ip /\ APL_list'[k].target_ip <= adds'
    <3>1. CASE k = i
      BY <1>5, <2>3, <3>1
    <3>2. CASE k # i
      <4>1. APL_list'[k] = APL_list[k]
        BY <1>5, <3>2
      <4>2. APL_list[k].target_port <= APL_list[k].target_ip /\ APL_list[k].target_ip <= adds'
        BY <1>2, <2>1
      <4> QED
        BY <4>1, <4>2, Zenon
    <3> QED
      BY <3>1, <3>2
  <2>5. edt'.at = "port" => APL_list'[edt'.i].target_ip = adds'
    BY <1>3, <1>5
  <2> QED
    BY <1>5, <2>4, <2>5 DEF AddressInv
<1>9. UniqueTargets' /\ CommandForFlight'
  <2>1. \A k \in DOMAIN APL_list :
          /\ APL_list'[k].APLNo = APL_list[k].APLNo
          /\ APL_list'[k].target_type = APL_list[k].target_type
          /\ APL_list'[k].TargetPointID = APL_list[k].TargetPointID
          /\ APL_list'[k].cmdType = APL_list[k].cmdType
    BY <1>3, <1>5
  <2>2. UniqueTargets'
    BY <1>5, <2>1 DEF UniqueTargets
  <2>3. CommandForFlight'
    BY <1>5, <2>1 DEF CommandForFlight
  <2> QED
    BY <2>2, <2>3
<1>10. CommandInv' /\ PassedInv' /\ LatestEverywhere'
  <2>1. \A k \in DOMAIN APL_list :
          /\ APL_list'[k].APLNo = APL_list[k].APLNo
          /\ APL_list'[k].TargetPointID = APL_list[k].TargetPointID
          /\ APL_list'[k].cmdType = APL_list[k].cmdType
          /\ APL_list'[k].since = APL_list[k].since
    BY <1>3, <1>5
  <2>2. \A k \in DOMAIN APL_list : \A c : Shows(APL_list'[k], c) <=> Shows(APL_list[k], c)
    BY <2>1 DEF Shows
  <2>3. UNCHANGED <<cb, commands, latest, disturbed>> /\ \A f : Distributed(f)' <=> Distributed(f)
    BY DEF hlaVars, Distributed
  <2> HIDE DEF hlaVars
  <2>4. CommandInv'
    <3>1. cb.at = "cmd" /\ disturbed < commands => cb.i \in DOMAIN APL_list
      BY DEF IndexInv
    <3> QED
      BY <1>5, <2>1, <2>3, <3>1 DEF CommandInv
  <2>5. PassedInv'
    BY <1>5, <2>1, <2>3 DEF PassedInv
  <2>6. LatestEverywhere'
    <3> SUFFICES ASSUME NEW k \in DOMAIN APL_list, latest[APL_list[k].APLNo].no > disturbed,
                        ~Distributed(APL_list[k].APLNo)
                 PROVE  Shows(APL_list'[k], latest[APL_list[k].APLNo])
      BY <1>5, <2>1, <2>3 DEF LatestEverywhere, Shows
    <3> QED
      BY <2>2 DEF LatestEverywhere
  <2> QED
    BY <2>4, <2>5, <2>6
<1>11. Grows
  <2>1. \A k \in DOMAIN APL_list :
          /\ APL_list[k].target_ip \in Nat /\ APL_list[k].target_ip <= adds
          /\ APL_list[k].TargetPointID.no \in Nat
    BY EntryType DEF AddressInv
  <2>2. \A k \in DOMAIN APL_list :
          /\ APL_list'[k].APLNo = APL_list[k].APLNo
          /\ APL_list'[k].target_type = APL_list[k].target_type
          /\ APL_list'[k].TargetPointID = APL_list[k].TargetPointID
          /\ APL_list'[k].target_ip \in {APL_list[k].target_ip, adds'}
    BY <1>3, <1>5
  <2>3. \A k \in DOMAIN APL_list : APL_list'[k].target_ip >= APL_list[k].target_ip
    BY <1>2, <2>1, <2>2
  <2>4. Len(APL_list) <= Len(APL_list')
    BY <1>1, <1>5
  <2>5. \A k \in DOMAIN APL_list : APL_list'[k].TargetPointID.no >= APL_list[k].TargetPointID.no
    BY <2>1, <2>2
  <2> QED
    BY <2>2, <2>3, <2>4, <2>5, Zenon DEF Grows
<1>12. DatagramInv' /\ PointNotOlder' /\ PortNotNewer'
  BY <1>6, <1>11, DatagramKept
<1> QED
  BY <1>6, <1>7, <1>8, <1>9, <1>10, <1>12

LEMMA AddFeed == ASSUME FeedInv, Add \/ SetPort PROVE FeedInv'
<1>1. CASE Add
  <2>1. PICK f \in Flight, t \in TargetTypes :
          \/ /\ isInArray(f, t) = {}
             /\ APL_list' = Append(APL_list, NewTarget(f, t, adds'))
             /\ UNCHANGED edt
          \/ \E i \in isInArray(f, t) :
               /\ APL_list' = [APL_list EXCEPT ![i].target_ip = adds']
               /\ edt' = [at |-> "port", i |-> i]
    BY <1>1 DEF Add, NewTarget
  <2>2. /\ edt.at = "idle" /\ adds < MaxAdds /\ adds' = adds + 1
        /\ UNCHANGED <<removals, hlaVars, simVars, disturbed>>
    BY <1>1 DEF Add
  <2>3. adds' \in 1..MaxAdds
    BY <2>2 DEF FeedInv, TypeOK
  <2>4. ASSUME NEW i \in isInArray(f, t),
               APL_list' = [APL_list EXCEPT ![i].target_ip = adds'],
               edt' = [at |-> "port", i |-> i]
        PROVE  FeedInv'
    <3>1. i \in DOMAIN APL_list
      BY DEF isInArray
    <3> QED
      BY <2>2, <2>3, <2>4, <3>1, RedirectFeed
  <2> QED
    BY <2>1, <2>2, <2>4, AppendFeed
<1>2. CASE SetPort
  <2>1. /\ edt.at = "port" /\ APL_list' = [APL_list EXCEPT ![edt.i].target_port = adds]
        /\ edt' = [at |-> "idle", i |-> 1]
        /\ UNCHANGED <<adds, removals, hlaVars, simVars, disturbed>>
    BY <1>2 DEF SetPort
  <2>2. edt.i \in DOMAIN APL_list
    BY <2>1 DEF FeedInv, IndexInv
  <2>3. adds \in 1..MaxAdds
    <3>1. Len(APL_list) >= 1 /\ Len(APL_list) \in Nat /\ Len(APL_list) <= adds
      BY <2>2, LenProperties DEF FeedInv, TypeOK, IndexInv
    <3> QED
      BY <3>1 DEF FeedInv, TypeOK
  <2> QED
    BY <2>1, <2>2, <2>3, RedirectFeed
<1> QED
  BY <1>1, <1>2

\* Delete and Clear keep some of the entries, in their order.
LEMMA ShortenFeed ==
  ASSUME FeedInv, NEW list \in Seq(Entry), Len(list) <= Len(APL_list), Shorten(list),
         NEW old, \A k \in DOMAIN list : old[k] \in DOMAIN APL_list /\ list[k] = APL_list[old[k]],
         \A j, k \in DOMAIN list : old[j] = old[k] => j = k
  PROVE  FeedInv'
<1> USE DEF FeedInv, hlaVars, simVars
<1>1. /\ edt.at = "idle" /\ removals < MaxRemovals /\ APL_list' = list
      /\ removals' = removals + 1
      /\ disturbed' = (IF cb.at = "idle" THEN disturbed ELSE commands)
      /\ out' = [out EXCEPT !.moved = @ \/ pc \in Making]
      /\ UNCHANGED <<edt, adds, hlaVars, pc, ind, todo, tempAPL>>
  BY DEF Shorten
<1>2. Len(list) \in Nat /\ Len(APL_list) \in Nat /\ DOMAIN list = 1..Len(list)
  BY LenProperties DEF TypeOK
<1>3. /\ disturbed \in Nat /\ commands \in 0..MaxCommands /\ disturbed <= commands
      /\ disturbed' \in 0..MaxCommands /\ disturbed <= disturbed' /\ disturbed' <= commands
      /\ cb.at # "idle" => disturbed' = commands
  <2>1. /\ disturbed \in 0..MaxCommands /\ commands \in 0..MaxCommands
        /\ disturbed <= commands
    BY DEF TypeOK, IndexInv
  <2>2. disturbed' = (IF cb.at = "idle" THEN disturbed ELSE commands)
    BY <1>1
  <2> HIDE DEF FeedInv, hlaVars, simVars
  <2> QED
    BY <2>1, <2>2
<1>4. /\ out' \in Datagram /\ out'.moved = (out.moved \/ pc \in Making)
      /\ out'.text = out.text /\ out'.flt = out.flt /\ out'.about = out.about
      /\ out'.cmdType = out.cmdType /\ out'.point = out.point
  <2>1. out \in Datagram /\ (out.moved \/ pc \in Making) \in BOOLEAN
    BY DatagramType, Zenon DEF Datagram
  <2> QED
    BY <1>1, <2>1 DEF Datagram
<1>5. TypeOK'
  <2>1. removals' \in 0..MaxRemovals
    <3>1. removals < MaxRemovals /\ removals' = removals + 1 /\ removals \in Nat
      BY <1>1 DEF TypeOK
    <3> HIDE DEF FeedInv, hlaVars, simVars
    <3> QED
      BY <3>1
  <2>2. UNCHANGED <<edt, adds, cb, commands, changes, apl, latest, pc, ind, todo, tempAPL>>
        /\ APL_list' \in Seq(Entry)
    BY <1>1
  <2> HIDE DEF hlaVars, simVars
  <2> QED
    BY <1>3, <1>4, <2>1, <2>2 DEF TypeOK, Datagram
<1>6. IndexInv'
  <2>1. Len(list) <= adds
    <3>1. Len(APL_list) <= adds /\ adds \in Nat
      BY CountTypes DEF IndexInv
    <3> HIDE DEF FeedInv, hlaVars, simVars
    <3> QED
      BY <1>2, <3>1
  <2>2. disturbed' < commands => cb.at = "idle"
    BY <1>3
  <2>3. edt.at = "idle" /\ UNCHANGED <<edt, adds, cb, commands, pc, ind>> /\ APL_list' = list
    BY <1>1
  <2>4. pc' \in Making /\ ~out'.moved => Listed'
    BY <1>4, <2>3, Zenon
  <2>5. disturbed' < commands' => cb'.at = "idle"
    BY <2>2, <2>3
  <2> HIDE DEF hlaVars, simVars
  <2> QED
    BY <1>3, <2>1, <2>3, <2>4, <2>5 DEF IndexInv
<1>7. AddressInv'
  BY <1>1 DEF AddressInv
<1>8. UniqueTargets'
  <2>1. ASSUME NEW j \in DOMAIN list, NEW k \in DOMAIN list,
               list[j].APLNo = list[k].APLNo, list[j].target_type = list[k].target_type
        PROVE  j = k
    <3>1. /\ old[j] \in DOMAIN APL_list /\ old[k] \in DOMAIN APL_list
          /\ list[j] = APL_list[old[j]] /\ list[k] = APL_list[old[k]]
      BY <2>1
    <3>2. old[j] = old[k]
      BY <2>1, <3>1, Zenon DEF UniqueTargets
    <3> QED
      BY <2>1, <3>2
  <2> QED
    BY <1>1, <2>1 DEF UniqueTargets
<1>9. \A k \in DOMAIN list :
        /\ list[k].TargetPointID.no \in Nat /\ list[k].cmdType.no \in Nat
        /\ list[k].APLNo \in Flight
        /\ latest[list[k].APLNo].no \in Nat /\ latest[list[k].APLNo].no <= commands
  BY EntryType, NumberTypes DEF CommandInv
<1>10. CommandForFlight'
  <2> SUFFICES ASSUME NEW k \in DOMAIN list,
                      NEW c \in {list[k].TargetPointID, list[k].cmdType}, c.no > disturbed'
               PROVE  c.flt = list[k].APLNo
    BY <1>1 DEF CommandForFlight
  <2>1. c.no > disturbed
    BY <1>3, <1>9
  <2> QED
    BY <2>1 DEF CommandForFlight
<1>11. CommandInv'
  <2>1. ASSUME NEW k \in DOMAIN list
        PROVE  /\ list[k].TargetPointID.no <= commands /\ list[k].cmdType.no <= commands
               /\ list[k].cmdType.no > disturbed' => list[k].TargetPointID.no >= list[k].cmdType.no
    <3>1. list[k].cmdType.no > disturbed' => list[k].cmdType.no > disturbed
      BY <1>3, <1>9
    <3> QED
      BY <3>1 DEF CommandInv
  <2> QED
    BY <1>1, <1>3, <2>1 DEF CommandInv
<1>12. ASSUME NEW k \in DOMAIN list, latest[list[k].APLNo].no > disturbed'
       PROVE  cb.at = "idle" /\ disturbed' = disturbed
  BY <1>1, <1>3, <1>9, <1>12
<1>13. PassedInv'
  BY <1>1, <1>12 DEF PassedInv, Distributed
<1>14. LatestEverywhere'
  <2> SUFFICES ASSUME NEW k \in DOMAIN list, latest[list[k].APLNo].no > disturbed'
               PROVE  Shows(list[k], latest[list[k].APLNo])
    BY <1>1 DEF LatestEverywhere, Shows
  <2> QED
    BY <1>12 DEF LatestEverywhere, Distributed
<1>15. DatagramInv' /\ PointNotOlder' /\ PortNotNewer'
  <2>1. pc \in Making => out'.moved
    BY <1>4
  <2>2. DatagramInv'
    BY <1>1, <1>4, <2>1 DEF DatagramInv, Making
  <2> QED
    BY <1>1, <2>1, <2>2 DEF PointNotOlder, PortNotNewer, Complete, Making
<1> QED
  BY <1>5, <1>6, <1>7, <1>8, <1>10, <1>11, <1>13, <1>14, <1>15

LEMMA EventFeed == ASSUME FeedInv, EventThread PROVE FeedInv'
<1>1. CASE Delete
  <2>1. PICK i \in DOMAIN APL_list : Shorten(RemoveAt(APL_list, i))
    BY <1>1 DEF Delete
  <2> DEFINE list == RemoveAt(APL_list, i)
             old == [k \in DOMAIN list |-> IF k < i THEN k ELSE k + 1]
  <2>2. APL_list \in Seq(Entry) /\ Len(APL_list) \in Nat /\ DOMAIN APL_list = 1..Len(APL_list)
    BY LenProperties DEF FeedInv, TypeOK
  <2>3. /\ list \in Seq(Entry) /\ Len(list) = Len(APL_list) - 1
        /\ \A k \in 1..Len(APL_list) - 1 :
             list[k] = IF k < i THEN APL_list[k] ELSE APL_list[k + 1]
    BY <2>2, RemoveAtProperties
  <2> HIDE DEF list
  <2>4. DOMAIN list = 1..Len(APL_list) - 1
    BY <2>3, LenProperties
  <2>5. \A k \in DOMAIN list : old[k] \in DOMAIN APL_list /\ list[k] = APL_list[old[k]]
    BY <2>2, <2>3, <2>4
  <2>6. \A j, k \in DOMAIN list : old[j] = old[k] => j = k
    BY <2>2, <2>4
  <2>7. Shorten(list) /\ Len(list) <= Len(APL_list)
    BY <2>1, <2>2, <2>3 DEF list
  <2> HIDE DEF old
  <2> QED
    BY <2>3, <2>5, <2>6, <2>7, ShortenFeed
<1>2. CASE Clear
  <2> DEFINE list == <<>>
             old  == [k \in {} |-> k]
  <2>1. list \in Seq(Entry) /\ Len(list) = 0 /\ DOMAIN list = {}
    BY EmptySeq
  <2>2. Len(list) <= Len(APL_list)
    BY <2>1, LenProperties DEF FeedInv, TypeOK
  <2>3. Shorten(list)
    BY <1>2 DEF Clear
  <2> HIDE DEF list, old
  <2>4. /\ \A k \in DOMAIN list : old[k] \in DOMAIN APL_list /\ list[k] = APL_list[old[k]]
        /\ \A j, k \in DOMAIN list : old[j] = old[k] => j = k
    BY <2>1
  <2> QED
    BY <2>1, <2>2, <2>3, <2>4, ShortenFeed
<1> QED
  BY <1>1, <1>2, AddFeed DEF EventThread

-------------------------------------------------------------------------------
(* The theorems.                                                           *)

LEMMA InitFeed == Init => FeedInv
<1> SUFFICES ASSUME Init PROVE FeedInv
  OBVIOUS
<1>1. Len(APL_list) = 0 /\ DOMAIN APL_list = {} /\ APL_list \in Seq(Entry)
  BY EmptySeq DEF Init
<1>2. TypeOK
  <2>1. cb \in [at : {"idle", "test", "point", "cmd"}, i : 1..MaxAdds + 1,
                cmd : Command \union {NoCommand}]
    BY DEF Init, NoSend
  <2>2. out \in Datagram
    BY NoTextType DEF Init
  <2>3. edt \in [at : {"idle", "port"}, i : 1..MaxAdds + 1]
    BY DEF Init
  <2>4. apl \in [Flight -> {"absent", "silent", "located"}]
    BY DEF Init
  <2>5. ind \in 1..MaxAdds + 1 /\ pc = "entry" /\ disturbed \in 0..MaxCommands
        /\ todo \subseteq Flight /\ tempAPL \in Flight \union {"none"}
        /\ adds \in 0..MaxAdds /\ removals \in 0..MaxRemovals
        /\ commands \in 0..MaxCommands /\ changes \in 0..MaxChanges
    <3> USE DEF Init
    <3>1. 1 \in 1..MaxAdds + 1 /\ 0 \in 0..MaxAdds /\ 0 \in 0..MaxRemovals
          /\ 0 \in 0..MaxCommands /\ 0 \in 0..MaxChanges
      OBVIOUS
    <3> QED
      BY <3>1, Zenon
  <2>6. latest \in [Flight -> Command \union {NoCommand}]
    BY DEF Init
  <2> QED
    BY <1>1, <2>1, <2>2, <2>3, <2>4, <2>5, <2>6 DEF TypeOK, Datagram
<1>3. IndexInv /\ AddressInv /\ CommandInv /\ PassedInv /\ DatagramInv
  BY <1>1 DEF Init, IndexInv, AddressInv, CommandInv, PassedInv, DatagramInv, NoSend, NoCommand, Making
<1>4. UniqueTargets /\ CommandForFlight /\ LatestEverywhere /\ PointNotOlder /\ PortNotNewer
  BY <1>1 DEF Init, UniqueTargets, CommandForFlight, LatestEverywhere, PointNotOlder,
              PortNotNewer, Complete
<1> QED
  BY <1>2, <1>3, <1>4 DEF FeedInv

LEMMA NextFeed == FeedInv /\ [Next]_vars => FeedInv'
<1> SUFFICES ASSUME FeedInv, [Next]_vars PROVE FeedInv'
  OBVIOUS
<1>1. CASE Next
  BY <1>1, EventFeed, HlaFeed, SimulationFeed DEF Next
<1>2. CASE UNCHANGED vars
  BY <1>2 DEF vars, edtVars, hlaVars, simVars, FeedInv, TypeOK, IndexInv, AddressInv, CommandInv,
     PassedInv, DatagramInv, UniqueTargets, CommandForFlight, LatestEverywhere, Shows,
     Distributed, PointNotOlder, PortNotNewer, Complete, Listed, Get
<1> QED
  BY <1>1, <1>2

\* Where every thread is, what it holds of the list and what it has read of an
\* entry fit together, for any interleaving of the three threads.
THEOREM FeedInvariant == Spec => []FeedInv
<1> QED
  BY InitFeed, NextFeed, PTL DEF Spec

\* Every variable of the federate keeps its type; no index runs beyond what the
\* list can have grown to.
THEOREM FeedTypeCorrect == Spec => []TypeOK
<1>1. FeedInv => TypeOK
  BY DEF FeedInv
<1> QED
  BY <1>1, FeedInvariant, PTL

\* Whatever is added, redirected, deleted and cleared, a flight is listed once
\* for a type of display.
THEOREM UniqueTargetsHolds == Spec => []UniqueTargets
<1>1. FeedInv => UniqueTargets
  BY DEF FeedInv
<1> QED
  BY <1>1, FeedInvariant, PTL

\* A command is with the flight that it names; only a command that was going
\* through the list when an entry was removed, or an older one, can be elsewhere.
THEOREM CommandForFlightHolds == Spec => []CommandForFlight
<1>1. FeedInv => CommandForFlight
  BY DEF FeedInv
<1> QED
  BY <1>1, FeedInvariant, PTL

\* The last command for a flight is what every target of the flight shows that
\* was listed when the command came, until the next command for the flight.
THEOREM LatestEverywhereHolds == Spec => []LatestEverywhere
<1>1. FeedInv => LatestEverywhere
  BY DEF FeedInv
<1> QED
  BY <1>1, FeedInvariant, PTL

\* A wait or a reroute goes to a display of the flight it names, with a point
\* that is never older than the command.
THEOREM PointNotOlderHolds == Spec => []PointNotOlder
<1>1. FeedInv => PointNotOlder
  BY DEF FeedInv
<1> QED
  BY <1>1, FeedInvariant, PTL

\* No datagram goes to the new port of an old ip.
THEOREM PortNotNewerHolds == Spec => []PortNotNewer
<1>1. FeedInv => PortNotNewer
  BY DEF FeedInv
<1> QED
  BY <1>1, FeedInvariant, PTL
===============================================================================
