----------------------------- MODULE TrafficSlots -----------------------------
(***************************************************************************)
(* The receiving federate (RecvAPL.java) shows the aircraft near an        *)
(* airport in X-Plane.  An aircraft that reports from the zone takes the   *)
(* first free entry of APL_ZUUU_name, keeps it until it reports from       *)
(* outside, and the index of its entry is the X-Plane aircraft it moves.   *)
(*                                                                         *)
(* Everything happens in attributesUpdated, on the callback thread of the  *)
(* HLA library; the main thread spins.  There is no listener for aircraft  *)
(* that are removed: one that is removed inside the zone keeps its entry.  *)
(***************************************************************************)
EXTENDS Integers, FiniteSets

CONSTANTS
  Aircraft,   \* the names of the aircraft of the federation
  null,       \* no aircraft
  NumNames,   \* the length of APL_ZUUU_name: 19
  Limit       \* the number that num_APL is compared with: 20

ASSUME NullAssumption  == null \notin Aircraft
ASSUME NamesAssumption == NumNames \in Nat \ {0}
ASSUME LimitAssumption == Limit \in Nat /\ NumNames <= Limit

VARIABLES
  place,          \* of each aircraft, what the federate has last been told
  oriented,       \* aircraft that have ever sent their orientation
  APL_ZUUU_name,
  num_APL,
  plane           \* whose position each X-Plane aircraft has last received

hlaVars == <<place, oriented>>
vars    == <<hlaVars, APL_ZUUU_name, num_APL, plane>>

Index  == 0..NumNames - 1
Places == {"absent", "unlocated", "outside", "inside"}

Init ==
  /\ place = [a \in Aircraft |-> "absent"]
  /\ oriented = {}
  /\ APL_ZUUU_name = [i \in Index |-> null]
  /\ num_APL = 0
  /\ plane = [i \in Index |-> null]

Occupied == {i \in Index : APL_ZUUU_name[i] # null}
Free     == Index \ Occupied
SlotsOf(a) == {i \in Index : APL_ZUUU_name[i] = a}
Listed   == {a \in Aircraft : SlotsOf(a) # {}}

-------------------------------------------------------------------------------
(* The federation.                                                         *)

Discover(a) ==
  /\ place[a] = "absent"
  /\ place' = [place EXCEPT ![a] = "unlocated"]
  /\ UNCHANGED <<oriented, APL_ZUUU_name, num_APL, plane>>

\* No listener is told.  An aircraft that returns is a new object.
Remove(a) ==
  /\ place[a] # "absent"
  /\ place' = [place EXCEPT ![a] = "absent"]
  /\ oriented' = oriented \ {a}
  /\ UNCHANGED <<APL_ZUUU_name, num_APL, plane>>

-------------------------------------------------------------------------------
(* The callback attributesUpdated.                                         *)

\* XPlaneUpdate: the position of a goes to the X-Plane aircraft at index i.  An
\* orientation that was never sent throws, and a datagram may be lost.
XPlaneUpdate(a, i) ==
  \/ a \in oriented' /\ plane' = [plane EXCEPT ![i] = a]
  \/ UNCHANGED plane

\* indexOf: the first index of a set of them.
First(S, i) == i \in S /\ \A j \in S : i <= j

\* a is in the zone and not listed: it enters if there is room.
Enter(a) ==
  \/ \E i \in Index :
       /\ num_APL < Limit
       /\ First(Free, i)
       /\ APL_ZUUU_name' = [APL_ZUUU_name EXCEPT ![i] = a]
       /\ num_APL' = num_APL + 1
       /\ XPlaneUpdate(a, i)
  \/ /\ num_APL >= Limit \/ Free = {}
     /\ UNCHANGED <<APL_ZUUU_name, num_APL, plane>>

\* Mutant of Inside: whether a is listed is not looked up.
InsideEntersAgain(a) == Enter(a)

\* Mutant of Inside: the position is sent only when a enters.
InsideEntersOnly(a) ==
  \/ a \notin Listed /\ Enter(a)
  \/ a \in Listed /\ UNCHANGED <<APL_ZUUU_name, num_APL, plane>>

Inside(a) ==
  \/ a \notin Listed /\ Enter(a)
  \/ /\ a \in Listed
     /\ \E i \in Index : First(SlotsOf(a), i) /\ XPlaneUpdate(a, i)
     /\ UNCHANGED <<APL_ZUUU_name, num_APL>>

\* Mutant of Outside: an aircraft that leaves is not subtracted.
OutsideUncounted(a) ==
  /\ APL_ZUUU_name' = [i \in Index |->
       IF First(SlotsOf(a), i) THEN null ELSE APL_ZUUU_name[i]]
  /\ UNCHANGED <<num_APL, plane>>

\* Mutant of Outside: it subtracts without looking whether a is listed.
OutsideSubtracts(a) ==
  /\ APL_ZUUU_name' = [i \in Index |->
       IF First(SlotsOf(a), i) THEN null ELSE APL_ZUUU_name[i]]
  /\ num_APL' = num_APL - 1
  /\ UNCHANGED plane

\* Mutant of Outside: the entry is not freed.
OutsideKeepsName(a) ==
  /\ num_APL' = IF a \in Listed THEN num_APL - 1 ELSE num_APL
  /\ UNCHANGED <<APL_ZUUU_name, plane>>

\* a is not in the zone: it leaves if it is listed.
Outside(a) ==
  /\ APL_ZUUU_name' = [i \in Index |->
       IF First(SlotsOf(a), i) THEN null ELSE APL_ZUUU_name[i]]
  /\ num_APL' = IF a \in Listed THEN num_APL - 1 ELSE num_APL
  /\ UNCHANGED plane

\* An update without a location: of another attribute, before the first one.
UpdateUnlocated(a, orients) ==
  /\ place[a] = "unlocated"
  /\ oriented' = oriented \union orients
  /\ UNCHANGED <<place, APL_ZUUU_name, num_APL, plane>>

\* An update from the zone or from outside, with or without an orientation.
UpdateInside(a, orients) ==
  /\ place[a] # "absent"
  /\ place' = [place EXCEPT ![a] = "inside"]
  /\ oriented' = oriented \union orients
  /\ Inside(a)

UpdateOutside(a, orients) ==
  /\ place[a] # "absent"
  /\ place' = [place EXCEPT ![a] = "outside"]
  /\ oriented' = oriented \union orients
  /\ Outside(a)

attributesUpdated(a) ==
  \E orients \in {{}, {a}} :
    UpdateUnlocated(a, orients) \/ UpdateInside(a, orients) \/ UpdateOutside(a, orients)

Next == \E a \in Aircraft : Discover(a) \/ Remove(a) \/ attributesUpdated(a)

Spec == Init /\ [][Next]_vars

\* An aircraft goes on reporting while it is in the zone, and not every one of
\* the positions sent to X-Plane is lost.
Delivered(a) ==
  /\ UpdateInside(a, {})
  /\ \E i \in Index : APL_ZUUU_name'[i] = a /\ plane'[i] = a
FairSpec ==
  Spec /\ \A a \in Aircraft :
            /\ WF_vars(place[a] = "inside" /\ UpdateInside(a, {}))
            /\ SF_vars(place[a] = "inside" /\ Delivered(a))

-------------------------------------------------------------------------------
(* Correctness.                                                            *)

TypeOK ==
  /\ place \in [Aircraft -> Places]
  /\ oriented \subseteq Aircraft
  /\ APL_ZUUU_name \in [Index -> Aircraft \union {null}]
  /\ num_APL \in 0..NumNames
  /\ plane \in [Index -> Aircraft \union {null}]

\* num_APL counts the entries in use, and no aircraft has two of them, however
\* aircraft come, go, are removed and return.  The limit 20 therefore never
\* refuses an aircraft for which the 19 names have room.
Counted == num_APL = Cardinality(Occupied)
OneEntryEach ==
  \A i, j \in Occupied : APL_ZUUU_name[i] = APL_ZUUU_name[j] => i = j

\* An entry is never kept by an aircraft that is known to be outside.
ListedInside ==
  \A a \in Listed : place[a] # "outside"

SlotsInv == TypeOK /\ Counted /\ OneEntryEach /\ ListedInside

\* An aircraft that reports from the zone is listed after its report unless all
\* entries were taken.
RefusedOnlyIfFull ==
  [][\A a \in Aircraft : place'[a] = "inside" /\ place[a] # "inside" =>
       (\E i \in Index : APL_ZUUU_name'[i] = a) \/ Free = {}]_vars

\* An aircraft that stays in the zone with an orientation, and does not find
\* the entries taken for ever, ends up being the one that its X-Plane aircraft
\* shows: whatever was lost, refused or left behind by earlier occupants.
Stays(a) == place[a] = "inside" /\ a \in oriented
Shown(a) == \E i \in Index : APL_ZUUU_name[i] = a /\ plane[i] = a
EventuallyShown ==
  \A a \in Aircraft :
    <>[](Stays(a) /\ (a \in Listed \/ Free # {})) => <>[]Shown(a)
===============================================================================
