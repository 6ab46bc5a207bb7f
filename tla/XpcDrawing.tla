----------------------------- MODULE XpcDrawing -------------------------------
(***************************************************************************)
(* What the plugin draws on the screen of X-Plane: Drawing.cpp.  A screen  *)
(* is a record of the static variables of that file and of the callbacks   *)
(* that X-Plane holds; every operation is an operator on screens.          *)
(*                                                                         *)
(* A text is a sequence of words and line breaks.  routeEnabled is never   *)
(* set in the code: it is the constant FALSE here.  numWaypoints is the    *)
(* length of waypoints, unless RemoveWaypoints took more from it than it   *)
(* was: overrun says that it wrapped round below zero.                     *)
(***************************************************************************)
EXTENDS Integers, Sequences, SequencesExt

CONSTANT WAYPOINT_MAX       \* 128 in the code
ASSUME WaypointAssumption == WAYPOINT_MAX \in Nat

MSG_LINE_MAX == 64
LineBreak == {"\n", "\r"}
routeEnabled == FALSE

NoScreen == [msgEnabled |-> FALSE, drawMessage |-> FALSE, text |-> <<>>, msgX |-> -1, msgY |-> -1,
             drawRoute |-> FALSE, waypoints |-> <<>>, overrun |-> FALSE]

-------------------------------------------------------------------------------
(* Messages *)

ClearMessage(s) == [s EXCEPT !.drawMessage = FALSE, !.msgEnabled = FALSE]

SetMessage(s, x, y, text) ==
  IF text = <<>> THEN ClearMessage(s)
  ELSE [s EXCEPT !.text = text,
                 !.msgX = IF x < 0 THEN 10 ELSE x,
                 !.msgY = IF y < 0 THEN 600 ELSE y,
                 !.drawMessage = @ \/ ~s.msgEnabled,
                 !.msgEnabled = TRUE]

\* newLines: where the lines after the first begin.
NewLines(text) ==
  LET breaks == SetToSortSeq({i \in DOMAIN text : text[i] \in LineBreak}, LAMBDA a, b : a < b)
  IN  SubSeq(breaks, 1, Min({Len(breaks), MSG_LINE_MAX}))

\* MessageDrawCallback: the lines on the screen, each with its height.
Message(s) ==
  LET breaks == NewLines(s.text)
      from(k) == IF k = 0 THEN 1 ELSE breaks[k] + 1
      to(k) == IF k = Len(breaks) THEN Len(s.text) ELSE breaks[k + 1] - 1
  IN  IF ~s.drawMessage THEN {}
      ELSE {[x |-> s.msgX, y |-> s.msgY - 16 * k, line |-> SubSeq(s.text, from(k), to(k))] :
              k \in 0..Len(breaks)}

-------------------------------------------------------------------------------
(* Waypoints *)

ClearWaypoints(s) ==
  [s EXCEPT !.waypoints = <<>>, !.overrun = FALSE,
            !.drawRoute = IF routeEnabled THEN FALSE ELSE @]

\* Mutant of AddWaypoints: the room is compared with the points alone.
AddWaypoints_NoCap(s, points) ==
  [s EXCEPT !.waypoints = @ \o points, !.drawRoute = TRUE]

AddWaypoints(s, points) ==
  LET room == WAYPOINT_MAX - Len(s.waypoints)
      taken == IF Len(points) > room THEN room ELSE Len(points)
  IN  [s EXCEPT !.waypoints = @ \o SubSeq(points, 1, taken),
                !.drawRoute = IF routeEnabled THEN @ ELSE TRUE]

\* Mutant of SamePoint: the altitude is not compared.
SamePoint_NoAltitude(p, q) == \A k \in 1..2 : p[k] = q[k]

SamePoint(p, q) == \A k \in 1..3 : p[k] = q[k]

\* delPoints: for every point the first waypoint equal to it, if any.
Found(s, points) ==
  {i \in DOMAIN points : \E j \in DOMAIN s.waypoints : SamePoint(points[i], s.waypoints[j])}
FirstIndex(s, p) ==
  CHOOSE j \in DOMAIN s.waypoints :
    /\ SamePoint(p, s.waypoints[j])
    /\ \A k \in 1..(j - 1) : ~SamePoint(p, s.waypoints[k])

\* The elements of a set of numbers, in ascending order.
Ascending(S) == {q \in [1..Cardinality(S) -> S] : \A j, k \in DOMAIN q : j < k => q[j] < q[k]}

(***************************************************************************)
(* The screens that RemoveWaypoints may leave.  A waypoint that two points *)
(* name is counted for both.  The copying loop compares the index with the *)
(* sorted list of indices.  At one that is listed twice it stays: nothing  *)
(* behind it is passed over.  Otherwise, after the last one, it compares   *)
(* with elements of that array that were never written: any later          *)
(* waypoints may be passed over as well (lost).  What was not overwritten  *)
(* is still in the array behind the copy.                                  *)
(***************************************************************************)
RemoveWaypoints(s, points) ==
  LET n == Len(s.waypoints)
      found == Found(s, points)
      count == Cardinality(found)
      index(i) == FirstIndex(s, points[i])
      repeated == {index(i) : i \in {k \in found : \E l \in found : l # k /\ index(l) = index(k)}}
      passed == {j \in {index(i) : i \in found} : \A r \in repeated : j <= r}
      later == {j \in 1..n : repeated = {} /\ \A k \in passed : k < j}
      copied == UNION {Ascending((1..n) \ (passed \cup lost)) : lost \in SUBSET later}
  IN  CASE n = count -> {ClearWaypoints(s)}
        [] n < count -> {[s EXCEPT !.waypoints = <<>>, !.overrun = TRUE]}
        [] n > count ->
             {[s EXCEPT !.waypoints = [j \in 1..(n - count) |->
                 s.waypoints[IF j \in DOMAIN kept THEN kept[j] ELSE j]]] : kept \in copied}

\* RouteDrawCallback: a post, a marker and a corner of the route per waypoint.
Route(s) == IF s.drawRoute THEN {s.waypoints[i] : i \in DOMAIN s.waypoints} ELSE {}

Waypoint == Int \X Int \X Int

ScreenOK(s) ==
  /\ s.msgEnabled \in BOOLEAN /\ s.drawMessage \in BOOLEAN /\ s.drawRoute \in BOOLEAN
  /\ s.overrun \in BOOLEAN
  /\ s.msgX \in Int /\ s.msgY \in Int
  /\ s.waypoints \in Seq(Waypoint)
  /\ Len(s.waypoints) <= WAYPOINT_MAX

-------------------------------------------------------------------------------
\* Once the route's callback is registered every waypoint is drawn; the message
\* is drawn exactly as long as it is enabled.
ScreenAgrees(s) ==
  /\ s.drawMessage = s.msgEnabled
  /\ s.waypoints # <<>> \/ s.overrun => s.drawRoute
===============================================================================
