--------------------------- MODULE XpcPlugin_proofs ----------------------------
(***************************************************************************)
(* Proofs about XpcPlugin, for every set of client addresses and of        *)
(* messages, every number of operations per frame and every bound.         *)
(***************************************************************************)
EXTENDS XpcPlugin, TLAPS, FiniteSetTheorems, SequenceTheorems

-------------------------------------------------------------------------------
(* The life cycle.  No handler takes part in it: the invariant is about the *)
(* main thread and the timer alone.                                        *)

Cycle ==
  /\ phase \in {"unloaded", "disabled", "enabled", "closing", "joining"}
  /\ ops \in Idle..(OPS_PER_CYCLE + 1)
  /\ timer \in {"none", "test", "sleep", "callback"}
  /\ phase # "enabled" => sock = "none" /\ ops = Idle
  /\ phase = "enabled" => handlerSock = IF ops = OPS_PER_CYCLE + 1 THEN "deleted" ELSE "current"
  /\ phase = "enabled" => sock = IF ops = OPS_PER_CYCLE + 1 THEN "none" ELSE "open"
  /\ phase = "unloaded" => log = FALSE
  /\ phase # "unloaded" => log = TRUE
  /\ timer # "none" => phase \in {"enabled", "closing", "joining"}

LEMMA CycleInit == Init => Cycle
<1> SUFFICES ASSUME Init PROVE Cycle
  OBVIOUS
<1> QED
  BY OpsAssumption DEF Init, Cycle, Idle

LEMMA CycleStep == Cycle /\ [Next]_vars => Cycle'
<1> SUFFICES ASSUME Cycle, [Next]_vars PROVE Cycle'
  OBVIOUS
<1> USE OpsAssumption DEF Cycle, Idle
<1>1. CASE XPluginStart
  BY <1>1 DEF XPluginStart, Initialize
<1>2. CASE XPluginEnable
  BY <1>2 DEF XPluginEnable, NewSocket, SetSocket
<1>3. CASE Disable
  BY <1>3 DEF Disable
<1>4. CASE XPluginStop
  BY <1>4 DEF XPluginStop, LogClose
<1>5. CASE BeginFrame
  BY <1>5 DEF BeginFrame, lifeVars
<1>6. CASE Handle
  <2>1. ops \in 0..(OPS_PER_CYCLE - 1) /\ ops' = ops + 1 /\ UNCHANGED lifeVars
    BY <1>6 DEF Handle
  <2>2. /\ ops # Idle /\ ops # OPS_PER_CYCLE + 1
        /\ ops' # Idle /\ ops' # OPS_PER_CYCLE + 1
        /\ ops' \in Idle..(OPS_PER_CYCLE + 1)
    BY <2>1
  <2>3. phase = "enabled"
    BY <2>2
  <2>4. sock = "open" /\ handlerSock = "current"
    BY <2>2, <2>3
  <2>5. UNCHANGED <<phase, log, sock, handlerSock, timer>>
    BY <2>1 DEF lifeVars
  <2> QED
    BY <2>2, <2>3, <2>4, <2>5
<1>7. CASE EndFrame
  <2>1. ops \in 0..(OPS_PER_CYCLE - 1) /\ ops' = Idle /\ UNCHANGED lifeVars
    BY <1>7 DEF EndFrame
  <2>2. ops # Idle /\ ops # OPS_PER_CYCLE + 1 /\ Idle # OPS_PER_CYCLE + 1
    BY <2>1
  <2>3. phase = "enabled" /\ sock = "open" /\ handlerSock = "current"
    BY <2>2
  <2>4. UNCHANGED <<phase, log, sock, handlerSock, timer>>
    BY <2>1 DEF lifeVars
  <2>5. ops' = Idle /\ ops' # OPS_PER_CYCLE + 1 /\ ops' \in Idle..(OPS_PER_CYCLE + 1)
    BY <2>1, <2>2
  <2> QED
    BY <2>3, <2>4, <2>5
<1>8. CASE Overloaded
  BY <1>8 DEF Overloaded
<1>9. CASE Recreate
  BY <1>9 DEF Recreate, NewSocket, SetSocket
<1>10. CASE StopTimer
  BY <1>10 DEF StopTimer
<1>11. CASE Join
  BY <1>11 DEF Join
<1>12. CASE TimerThread
  BY <1>12 DEF TimerThread, Test, Awake, SendBeacon
<1>15. CASE Fault
  BY <1>15 DEF Fault
<1>13. ASSUME NEW src \in Client, NEW m \in Request, Arrive(src, m)
       PROVE  Cycle'
  BY <1>13 DEF Arrive, lifeVars
<1>14. CASE UNCHANGED vars
  BY <1>14 DEF vars, lifeVars
<1> QED
  BY <1>1, <1>2, <1>3, <1>4, <1>5, <1>6, <1>7, <1>8, <1>9, <1>10, <1>11, <1>12, <1>13, <1>14, <1>15
  DEF Next, MainThread

THEOREM CycleInvariant == Spec => []Cycle
BY CycleInit, CycleStep, PTL DEF Spec

\* Whenever a message may be handled, the plugin's socket is open and the
\* handlers point to it (XPCPlugin.cpp 114-163, 213-240).
THEOREM SocketUseHolds == Spec => []SocketUse
<1>1. Cycle => SocketUse
  BY OpsAssumption DEF Cycle, SocketUse, Idle
<1> QED
  BY <1>1, CycleInvariant, PTL

\* Neither thread writes to a closed log, and the timer thread does not outlive
\* the library (XPCPlugin.cpp 131-149, Timer.cpp 8-26).
THEOREM LogWrittenWhileOpenHolds == Spec => []LogWrittenWhileOpen
<1>1. Cycle => LogWrittenWhileOpen
  BY DEF Cycle, LogWrittenWhileOpen
<1> QED
  BY <1>1, CycleInvariant, PTL

-------------------------------------------------------------------------------
(* The screen.                                                             *)

\* A screen as the operations of Drawing.cpp leave it.
Sound(s) ==
  /\ DOMAIN s = {"msgEnabled", "drawMessage", "text", "msgX", "msgY", "drawRoute", "waypoints", "overrun"}
  /\ s.msgEnabled \in BOOLEAN
  /\ s.drawRoute \in BOOLEAN
  /\ s.overrun \in BOOLEAN
  /\ s.drawMessage = s.msgEnabled
  /\ s.waypoints # <<>> \/ s.overrun = TRUE => s.drawRoute = TRUE
  /\ s.msgX \in Int /\ s.msgY \in Int
  /\ s.waypoints \in Seq(Waypoint)
  /\ Len(s.waypoints) <= WAYPOINT_MAX

LEMMA NoScreenSound ==
  /\ Sound(NoScreen)
  /\ NoScreen.drawMessage = FALSE /\ NoScreen.waypoints = <<>> /\ NoScreen.overrun = FALSE
BY WaypointAssumption DEF Sound, NoScreen

LEMMA ClearMessageSound ==
  ASSUME NEW s, Sound(s)
  PROVE  /\ Sound(ClearMessage(s))
         /\ ClearMessage(s).drawMessage = FALSE
         /\ ClearMessage(s).waypoints = s.waypoints
         /\ ClearMessage(s).overrun = s.overrun
BY DEF Sound, ClearMessage

LEMMA ClearWaypointsSound ==
  ASSUME NEW s, Sound(s)
  PROVE  /\ Sound(ClearWaypoints(s))
         /\ ClearWaypoints(s).waypoints = <<>>
         /\ ClearWaypoints(s).overrun = FALSE
         /\ ClearWaypoints(s).drawMessage = s.drawMessage
BY WaypointAssumption DEF Sound, ClearWaypoints, routeEnabled

LEMMA SetMessageSound ==
  ASSUME NEW s, Sound(s), NEW x \in Int, NEW y \in Int, NEW text
  PROVE  Sound(SetMessage(s, x, y, text)) /\ SetMessage(s, x, y, text).overrun = s.overrun
<1>1. CASE text = <<>>
  BY <1>1, ClearMessageSound DEF SetMessage
<1>2. CASE text # <<>>
  <2> DEFINE t == SetMessage(s, x, y, text)
  <2>1. /\ DOMAIN t = DOMAIN s
        /\ t.msgEnabled = TRUE
        /\ t.drawMessage = (s.drawMessage \/ ~s.msgEnabled)
        /\ t.drawRoute = s.drawRoute
        /\ t.waypoints = s.waypoints
        /\ t.overrun = s.overrun
        /\ t.msgX \in Int /\ t.msgY \in Int
    BY <1>2 DEF SetMessage, Sound
  <2>2. t.drawMessage = TRUE
    BY <2>1 DEF Sound
  <2> QED
    BY <2>1, <2>2 DEF Sound
<1> QED
  BY <1>1, <1>2

\* A sequence of any length taken from the front of another one.
LEMMA FrontOfSeq ==
  ASSUME NEW S, NEW q \in Seq(S), NEW n \in Int, n <= Len(q)
  PROVE  /\ SubSeq(q, 1, n) \in Seq(S)
         /\ Len(SubSeq(q, 1, n)) = IF 1 <= n THEN n ELSE 0
<1>1. \A i \in 1..n : q[i] \in S
  BY ElementOfSeq
<1> QED
  BY <1>1, SubSeqProperties

LEMMA FunctionIsSeq ==
  ASSUME NEW S, NEW n \in Int, NEW f \in [1..n -> S]
  PROVE  f \in Seq(S) /\ Len(f) = IF n >= 0 THEN n ELSE 0
<1>1. CASE n >= 0
  BY <1>1
<1>2. CASE ~(n >= 0)
  <2>1. 1..n = 1..0
    BY <1>2
  <2>2. f \in [1..0 -> S]
    BY <2>1
  <2> HIDE <2>1
  <2> QED
    BY <1>2, <2>2
<1> QED
  BY <1>1, <1>2

LEMMA AddWaypointsSound ==
  ASSUME NEW s, Sound(s), NEW points \in Seq(Waypoint)
  PROVE  Sound(AddWaypoints(s, points)) /\ AddWaypoints(s, points).overrun = s.overrun
<1> DEFINE room == WAYPOINT_MAX - Len(s.waypoints)
           taken == IF Len(points) > room THEN room ELSE Len(points)
           new == SubSeq(points, 1, taken)
           all == s.waypoints \o new
           t == AddWaypoints(s, points)
<1>1. Len(s.waypoints) \in Nat /\ Len(points) \in Nat
  BY LenProperties DEF Sound
<1>2. taken \in Nat /\ taken <= Len(points) /\ Len(s.waypoints) + taken <= WAYPOINT_MAX
  BY <1>1, WaypointAssumption DEF Sound
<1>3. new \in Seq(Waypoint) /\ Len(new) = taken
  BY <1>2, FrontOfSeq
<1>4. all \in Seq(Waypoint) /\ Len(all) = Len(s.waypoints) + taken
  BY <1>3, ConcatProperties DEF Sound
<1>5. /\ DOMAIN t = DOMAIN s
      /\ t.msgEnabled = s.msgEnabled
      /\ t.drawMessage = s.drawMessage
      /\ t.msgX = s.msgX /\ t.msgY = s.msgY
      /\ t.drawRoute = TRUE
      /\ t.overrun = s.overrun
      /\ t.waypoints = all
  BY DEF AddWaypoints, Sound, routeEnabled
<1> HIDE DEF t, all, taken
<1>6. t.waypoints \in Seq(Waypoint) /\ Len(t.waypoints) <= WAYPOINT_MAX
  BY <1>2, <1>4, <1>5
<1>7. Sound(t) /\ t.overrun = s.overrun
  BY <1>5, <1>6 DEF Sound
<1> QED
  BY <1>7 DEF t

\* The points that RemoveWaypoints finds can be counted, and there are none
\* among no waypoints.
LEMMA FoundCounted ==
  ASSUME NEW s, Sound(s), NEW S, NEW points \in Seq(S)
  PROVE  /\ Cardinality(Found(s, points)) \in Nat
         /\ s.waypoints = <<>> => Cardinality(Found(s, points)) = 0
<1>1. Found(s, points) \subseteq 1..Len(points)
  BY LenProperties DEF Found
<1>2. IsFiniteSet(1..Len(points))
  BY FS_Interval, LenProperties
<1>3. IsFiniteSet(Found(s, points))
  BY <1>1, <1>2, FS_Subset
<1>4. s.waypoints = <<>> => Found(s, points) = {}
  BY DEF Found
<1> QED
  BY <1>3, <1>4, FS_CardinalityType, FS_EmptySet

\* Points that differ are found at different waypoints, so that no more are
\* found than there are waypoints.
LEMMA FewFound ==
  ASSUME NEW s, Sound(s), NEW points \in Seq(Waypoint), IsInjective(points)
  PROVE  Cardinality(Found(s, points)) <= Len(s.waypoints)
<1> DEFINE n == Len(s.waypoints)
           found == Found(s, points)
           at(i) == CHOOSE j \in 1..n : SamePoint(points[i], s.waypoints[j])
           f == [i \in found |-> at(i)]
<1>1. n \in Nat /\ DOMAIN s.waypoints = 1..n
  BY LenProperties DEF Sound
<1>2. ASSUME NEW i \in found
      PROVE  at(i) \in 1..n /\ SamePoint(points[i], s.waypoints[at(i)]) /\ i \in DOMAIN points
  BY <1>1 DEF Found
<1>3. ASSUME NEW i \in DOMAIN points, NEW k \in DOMAIN points, NEW j,
             SamePoint(points[i], s.waypoints[j]), SamePoint(points[k], s.waypoints[j])
      PROVE  points[i] = points[k]
  <2>1. points[i] \in Waypoint /\ points[k] \in Waypoint
    BY ElementOfSeq, LenProperties
  <2>2. points[i][1] = points[k][1] /\ points[i][2] = points[k][2] /\ points[i][3] = points[k][3]
    BY <1>3 DEF SamePoint
  <2>3. ASSUME NEW p \in Waypoint PROVE p = <<p[1], p[2], p[3]>>
    BY DEF Waypoint
  <2> QED
    BY <2>1, <2>2, <2>3
<1>4. ASSUME NEW i \in found, NEW k \in found, at(i) = at(k)
      PROVE  i = k
  <2>1. points[i] = points[k]
    BY <1>2, <1>3, <1>4
  <2> QED
    BY <1>2, <2>1 DEF IsInjective
<1> HIDE DEF at, found
<1>5. f \in Injection(found, 1..n)
  <2>1. f \in [found -> 1..n]
    BY <1>2
  <2>2. IsInjective(f)
    BY <1>4 DEF IsInjective
  <2> QED
    BY <2>1, <2>2 DEF Injection
<1>6. IsFiniteSet(1..n) /\ Cardinality(1..n) = n
  BY <1>1, FS_Interval
<1> HIDE DEF f
<1>7. Cardinality(found) <= Cardinality(1..n)
  BY <1>5, <1>6, FS_Injection
<1> QED
  BY <1>6, <1>7 DEF found

\* Whatever the copying loop leaves are waypoints, and no more than before.
LEMMA RemoveWaypointsSound ==
  ASSUME NEW s, Sound(s), NEW points \in Seq(Waypoint), NEW t \in RemoveWaypoints(s, points)
  PROVE  /\ Sound(t)
         /\ t.overrun = TRUE => s.overrun = TRUE \/ ~IsInjective(points)
<1> DEFINE n == Len(s.waypoints)
           count == Cardinality(Found(s, points))
           Left(kept) == [j \in 1..(n - count) |->
                            s.waypoints[IF j \in DOMAIN kept THEN kept[j] ELSE j]]
<1>1. n \in Nat /\ count \in Nat
  BY FoundCounted, LenProperties DEF Sound
<1>2. n # count => s.drawRoute = TRUE
  <2>1. s.waypoints = <<>> => n = 0 /\ count = 0
    BY FoundCounted, EmptySeq
  <2> QED
    BY <2>1 DEF Sound
<1>3. CASE n = count
  <2>1. t = ClearWaypoints(s)
    BY <1>3 DEF RemoveWaypoints
  <2> QED
    BY <2>1, ClearWaypointsSound
<1>4. CASE n < count
  <2>1. t = [s EXCEPT !.waypoints = <<>>, !.overrun = TRUE]
    BY <1>1, <1>4 DEF RemoveWaypoints
  <2>2. ~IsInjective(points)
    BY <1>1, <1>4, FewFound
  <2>3. Len(<<>>) = 0 /\ <<>> \in Seq(Waypoint) /\ 0 <= WAYPOINT_MAX
    BY EmptySeq, WaypointAssumption
  <2>4. Sound(t)
    BY <1>1, <1>2, <1>4, <2>1, <2>3 DEF Sound
  <2> QED
    BY <2>2, <2>4
<1>5. CASE n > count
  <2>1. PICK K \in SUBSET (1..n) : \E kept \in Ascending(K) : t = [s EXCEPT !.waypoints = Left(kept)]
    <3> DEFINE found == Found(s, points)
               index(i) == FirstIndex(s, points[i])
               repeated == {index(i) : i \in {k \in found : \E l \in found : l # k /\ index(l) = index(k)}}
               passed == {j \in {index(i) : i \in found} : \A r \in repeated : j <= r}
               later == {j \in 1..n : repeated = {} /\ \A k \in passed : k < j}
    <3>1. n # count /\ ~(n < count)
      BY <1>1, <1>5
    <3>2. PICK kept \in UNION {Ascending((1..n) \ (passed \cup lost)) : lost \in SUBSET later} :
            t = [s EXCEPT !.waypoints = Left(kept)]
      BY <1>5, <3>1 DEF RemoveWaypoints
    <3> HIDE DEF passed, later, Left
    <3>3. PICK lost \in SUBSET later : kept \in Ascending((1..n) \ (passed \cup lost))
      OBVIOUS
    <3> QED
      BY <3>2, <3>3
  <2>2. PICK kept \in Ascending(K) : t = [s EXCEPT !.waypoints = Left(kept)]
    BY <2>1
  <2>3. \A j \in DOMAIN kept : kept[j] \in 1..n
    BY DEF Ascending
  <2>4. Left(kept) \in [1..(n - count) -> Waypoint]
    <3> SUFFICES ASSUME NEW j \in 1..(n - count)
                 PROVE  s.waypoints[IF j \in DOMAIN kept THEN kept[j] ELSE j] \in Waypoint
      OBVIOUS
    <3>1. (IF j \in DOMAIN kept THEN kept[j] ELSE j) \in 1..n
      BY <1>1, <2>3
    <3> QED
      BY <3>1, ElementOfSeq DEF Sound
  <2> HIDE DEF Left
  <2>5. Left(kept) \in Seq(Waypoint) /\ Len(Left(kept)) = n - count
    <3>1. n - count \in Int /\ n - count >= 0
      BY <1>1, <1>5
    <3>2. Left(kept) \in Seq(Waypoint)
          /\ Len(Left(kept)) = IF n - count >= 0 THEN n - count ELSE 0
      BY <2>4, <3>1, FunctionIsSeq, Zenon
    <3> QED
      BY <3>1, <3>2
  <2>6. n - count <= WAYPOINT_MAX
    BY <1>1, WaypointAssumption DEF Sound
  <2>7. /\ DOMAIN t = DOMAIN s
        /\ t.msgEnabled = s.msgEnabled
        /\ t.drawMessage = s.drawMessage
        /\ t.msgX = s.msgX /\ t.msgY = s.msgY
        /\ t.drawRoute = s.drawRoute
        /\ t.overrun = s.overrun
        /\ t.waypoints = Left(kept)
    BY <2>2 DEF Sound
  <2>8. t.waypoints \in Seq(Waypoint) /\ Len(t.waypoints) <= WAYPOINT_MAX
    BY <2>5, <2>6, <2>7
  <2>9. s.drawRoute = TRUE
    BY <1>1, <1>2, <1>5
  <2> QED
    BY <2>7, <2>8, <2>9 DEF Sound
<1> HIDE DEF n, count, Left
<1>6. n = count \/ n < count \/ n > count
  BY <1>1
<1> QED
  BY <1>3, <1>4, <1>5, <1>6, Zenon

-------------------------------------------------------------------------------
(* The screen follows the life cycle.                                      *)

ScreenInv ==
  /\ Sound(screen)
  /\ phase # "enabled" =>
       screen.drawMessage = FALSE /\ screen.waypoints = <<>> /\ screen.overrun = FALSE

\* All packets that wait were sent by clients.
Sent == inbox \in Seq(Packet)

LEMMA SentStep == Sent /\ [Next]_vars => Sent'
<1> SUFFICES ASSUME Sent, [Next]_vars PROVE Sent'
  OBVIOUS
<1> USE DEF Sent
<1>1. CASE XPluginStart \/ XPluginEnable \/ XPluginStop \/ StopTimer \/ Join \/ TimerThread
           \/ BeginFrame \/ Recreate
  BY <1>1 DEF XPluginStart, XPluginEnable, XPluginStop, StopTimer, Join, TimerThread, Test, Awake,
              SendBeacon, BeginFrame, Recreate, NewSocket
<1>2. CASE Disable \/ Overloaded \/ Fault
  <2>1. inbox' = <<>>
    BY <1>2 DEF Disable, Overloaded, Fault
  <2> QED
    BY <2>1, EmptySeq
<1>3. CASE Handle
  BY <1>3, HeadTailProperties DEF Handle, Readable
<1>4. CASE EndFrame
  BY <1>4, HeadTailProperties DEF EndFrame
<1>5. ASSUME NEW src \in Client, NEW m \in Request, Arrive(src, m)
      PROVE  Sent'
  <2>1. [src |-> src, msg |-> m] \in Packet
    BY DEF Packet
  <2> QED
    BY <1>5, <2>1 DEF Arrive
<1>6. CASE UNCHANGED vars
  BY <1>6 DEF vars
<1> QED
  BY <1>1, <1>2, <1>3, <1>4, <1>5, <1>6 DEF Next, MainThread

\* What is handled is the request of a client.
LEMMA HeadIsPacket ==
  ASSUME Sent, inbox # <<>>
  PROVE  Head(inbox).src \in Client /\ Head(inbox).msg \in Request
<1>1. Head(inbox) \in Packet
  BY HeadTailProperties DEF Sent
<1> QED
  BY <1>1 DEF Packet

\* A message is handled in a frame of the enabled plugin.
LEMMA HandleInFrame ==
  ASSUME Cycle, Handle
  PROVE  /\ phase = "enabled" /\ UNCHANGED lifeVars
         /\ inbox # <<>>
         /\ HandleMessage(Head(inbox).msg, Head(inbox).src)
<1>1. ops \in 0..(OPS_PER_CYCLE - 1)
  BY DEF Handle
<1>2. ops # Idle
  BY <1>1 DEF Idle
<1>3. phase = "enabled"
  BY <1>2 DEF Cycle
<1> QED
  BY <1>3 DEF Handle, Readable

LEMMA HandleScreen ==
  ASSUME NEW m \in Request, NEW src, HandleMessage(m, src), Sound(screen)
  PROVE  /\ Sound(screen')
         /\ screen'.overrun = TRUE =>
              screen.overrun = TRUE \/ (m.head = "WYPT" /\ m.op = 2 /\ ~IsInjective(m.points))
<1> DEFINE c == Loaded(src)
<1>1. CASE HandleText(m, src, c)
  <2>1. screen' \in {screen, ClearMessage(screen), SetMessage(screen, m.x, m.y, m.text)}
    BY <1>1 DEF HandleText
  <2>2. m.x \in Int /\ m.y \in Int
    BY <1>1, RequestAssumption DEF HandleText
  <2>3. CASE screen' = SetMessage(screen, m.x, m.y, m.text)
    BY <2>2, <2>3, SetMessageSound
  <2>4. CASE screen' = ClearMessage(screen)
    BY <2>4, ClearMessageSound
  <2> QED
    BY <2>1, <2>3, <2>4
<1>2. CASE HandleWypt(m, src, c)
  <2>1. m.points \in Seq(Waypoint)
    BY <1>2, RequestAssumption DEF HandleWypt
  <2>2. \/ screen' = AddWaypoints(screen, m.points)
        \/ screen' \in RemoveWaypoints(screen, m.points) /\ m.op = 2 /\ m.head = "WYPT"
        \/ screen' = ClearWaypoints(screen)
        \/ screen' = screen
    BY <1>2 DEF HandleWypt
  <2> QED
    BY <2>1, <2>2, AddWaypointsSound, RemoveWaypointsSound, ClearWaypointsSound
<1>3. HandleConn(m, src, c) => UNCHANGED screen
  BY DEF HandleConn
<1>4. HandleCtrl(m, src, c) => UNCHANGED screen
  BY DEF HandleCtrl
<1>5. HandleData(m, src, c) => UNCHANGED screen
  BY DEF HandleData
<1>6. HandleDref(m, src, c) => UNCHANGED screen
  BY DEF HandleDref
<1>7. HandleGetD(m, src, c) => UNCHANGED screen
  BY DEF HandleGetD
<1>8. HandlePosi(m, src, c) => UNCHANGED screen
  BY DEF HandlePosi
<1>9. HandlePosT(m, src, c) => UNCHANGED screen
  BY DEF HandlePosT
<1>10. HandleSimu(m, src, c) => UNCHANGED screen
  BY DEF HandleSimu
<1>11. HandleView(m, src, c) => UNCHANGED screen
  BY DEF HandleView
<1>12. HandleGetC(m, src, c) => UNCHANGED screen
  BY DEF HandleGetC
<1>13. HandleGetP(m, src, c) => UNCHANGED screen
  BY DEF HandleGetP
<1>14. HandleComm(m, src, c) => UNCHANGED screen
  BY DEF HandleComm
<1>15. HandleGetT(m, src, c) => UNCHANGED screen
  BY DEF HandleGetT
<1>16. HandleXPlaneData(m, src, c) => UNCHANGED screen
  BY DEF HandleXPlaneData
<1>17. HandleUnknown(m, src, c) => UNCHANGED screen
  BY DEF HandleUnknown
<1>18. CASE UNCHANGED screen
  BY <1>18
<1> QED
  BY <1>1, <1>2, <1>3, <1>4, <1>5, <1>6, <1>7, <1>8, <1>9, <1>10, <1>11, <1>12, <1>13, <1>14, <1>15, <1>16, <1>17, <1>18 DEF HandleMessage

LEMMA ScreenStep == ScreenInv /\ Cycle /\ Sent /\ [Next]_vars => ScreenInv'
<1> SUFFICES ASSUME ScreenInv, Cycle, Sent, [Next]_vars PROVE ScreenInv'
  OBVIOUS
<1>1. CASE XPluginStart \/ Fault
  <2>1. screen' = NoScreen
    BY <1>1 DEF XPluginStart, Fault
  <2> QED
    BY <2>1, NoScreenSound DEF ScreenInv
<1>2. CASE XPluginEnable
  BY <1>2 DEF XPluginEnable, ScreenInv, stateOfHandlers
<1>3. CASE Disable
  <2>1. Sound(ClearMessage(screen)) /\ ClearMessage(screen).drawMessage = FALSE
    BY ClearMessageSound DEF ScreenInv
  <2> QED
    BY <1>3, <2>1, ClearWaypointsSound DEF Disable, ScreenInv
<1>4. CASE XPluginStop
  BY <1>4 DEF XPluginStop, ScreenInv, stateOfHandlers
<1>5. CASE Handle
  <2>1. phase = "enabled" /\ phase' = phase
    BY <1>5, HandleInFrame DEF lifeVars
  <2>2. Sound(screen')
    BY <1>5, HandleInFrame, HeadIsPacket, HandleScreen DEF ScreenInv
  <2> QED
    BY <2>1, <2>2 DEF ScreenInv
<1>6. CASE BeginFrame \/ EndFrame \/ Overloaded \/ Recreate \/ TimerThread
  BY <1>6 DEF BeginFrame, EndFrame, Overloaded, Recreate, TimerThread, Test, Awake, SendBeacon,
              lifeVars, stateOfHandlers, ScreenInv
<1>7. CASE StopTimer \/ Join
  BY <1>7 DEF StopTimer, Join, ScreenInv, stateOfHandlers
<1>8. ASSUME NEW src \in Client, NEW m \in Request, Arrive(src, m)
      PROVE  ScreenInv'
  BY <1>8 DEF Arrive, lifeVars, stateOfHandlers, ScreenInv
<1>9. CASE UNCHANGED vars
  BY <1>9 DEF vars, handlerVars, lifeVars, ScreenInv
<1> QED
  BY <1>1, <1>2, <1>3, <1>4, <1>5, <1>6, <1>7, <1>8, <1>9 DEF Next, MainThread

LEMMA ScreenInit == Init => ScreenInv /\ Sent
BY NoScreenSound, EmptySeq DEF Init, HandlersInit, ScreenInv, Sent, NoScreen

THEOREM ScreenInvariant == Spec => [](Cycle /\ Sent /\ ScreenInv)
<1>1. Init => Cycle /\ Sent /\ ScreenInv
  BY CycleInit, ScreenInit
<1>2. Cycle /\ Sent /\ ScreenInv /\ [Next]_vars => (Cycle /\ Sent /\ ScreenInv)'
  BY CycleStep, SentStep, ScreenStep
<1> QED
  BY <1>1, <1>2, PTL DEF Spec

\* Outside of its enabled phase the plugin draws nothing, and while enabled it
\* draws every waypoint and exactly the enabled message (XPCPlugin.cpp 131-149,
\* Drawing.cpp 155-265).
THEOREM ScreenFollowsHolds == Spec => []ScreenFollows
<1>1. ScreenInv => ScreenFollows
  <2> SUFFICES ASSUME ScreenInv PROVE ScreenFollows
    OBVIOUS
  <2>1. ScreenAgrees(screen)
    BY DEF ScreenInv, Sound, ScreenAgrees
  <2>2. ASSUME phase # "enabled" PROVE Message(screen) = {} /\ Route(screen) = {} /\ ~screen.overrun
    BY <2>2 DEF ScreenInv, Message, Route
  <2> QED
    BY <2>1, <2>2 DEF ScreenFollows
<1> QED
  BY <1>1, ScreenInvariant, PTL

\* However many points clients add and remove, listed or not, the number of
\* waypoints stays in 0..WAYPOINT_MAX until one request to remove names a point
\* twice (Drawing.cpp 244-310).
THEOREM OverrunByRepetitionHolds == Spec => OverrunByRepetition
<1> DEFINE A == ~screen.overrun /\ screen'.overrun =>
                  LET m == Head(inbox).msg
                  IN  m.head = "WYPT" /\ m.op = 2 /\ ~IsInjective(m.points)
<1>1. ASSUME Cycle, Sent, ScreenInv, [Next]_vars
      PROVE  [A]_vars
  <2>1. CASE Handle
    <3> DEFINE m == Head(inbox).msg
    <3>1. /\ m \in Request
          /\ HandleMessage(m, Head(inbox).src)
      BY <1>1, <2>1, HandleInFrame, HeadIsPacket
    <3>2. /\ Sound(screen')
          /\ screen'.overrun = TRUE =>
               screen.overrun = TRUE \/ (m.head = "WYPT" /\ m.op = 2 /\ ~IsInjective(m.points))
      BY <1>1, <3>1, HandleScreen DEF ScreenInv
    <3> HIDE DEF m
    <3>3. ASSUME ~screen.overrun, screen'.overrun
          PROVE  m.head = "WYPT" /\ m.op = 2 /\ ~IsInjective(m.points)
      <4>1. screen'.overrun = TRUE
        BY <3>2, <3>3 DEF Sound
      <4>2. screen.overrun # TRUE
        BY <3>3
      <4> QED
        BY <3>2, <4>1, <4>2, Zenon
    <3> QED
      BY <3>3, Zenon DEF m
  <2>2. CASE XPluginStart \/ Fault
    <3>1. screen' = NoScreen
      BY <2>2 DEF XPluginStart, Fault
    <3> QED
      BY <3>1 DEF NoScreen
  <2>3. CASE Disable
    <3>1. screen'.overrun = FALSE
      BY <1>1, <2>3, ClearMessageSound, ClearWaypointsSound DEF Disable, ScreenInv
    <3> QED
      BY <3>1
  <2>4. CASE UNCHANGED screen
    BY <2>4
  <2> QED
    BY <1>1, <2>1, <2>2, <2>3, <2>4 DEF Next, MainThread, TimerThread, XPluginEnable, XPluginStop,
       BeginFrame, EndFrame, Overloaded, Recreate, StopTimer, Join, Test, Awake, SendBeacon, Arrive,
       stateOfHandlers
<1>2. Cycle /\ Sent /\ ScreenInv /\ [Next]_vars => [A]_vars
  BY <1>1
<1> QED
  BY <1>2, ScreenInvariant, PTL DEF Spec, OverrunByRepetition

-------------------------------------------------------------------------------
(* Connections.  A record under a key is intact and bears the address of   *)
(* the key; so what is sent to the address of the record that a request is *)
(* handled with goes to the source of the request.  These lemmas hold for  *)
(* any message and any source.                                             *)

Intact(c) == DOMAIN c = {"id", "addr", "getdRequest"}
Keyed == \A k \in DOMAIN connections : Intact(connections[k]) /\ connections[k].addr = k

\* The keys are addresses of clients' hosts.
Addressed == \A k \in DOMAIN connections : k \in Address

IsAddress(src) == src = [host |-> src.host, port |-> src.port]
Elsewhere(m, src) == [src EXCEPT !.port = m.port]

LEMMA ClientAddress ==
  ASSUME NEW src \in Client
  PROVE  IsAddress(src) /\ src \in Address /\ \A n \in Int : [src EXCEPT !.port = n] \in Address
<1>1. src = [host |-> src.host, port |-> src.port] /\ src.port \in Int
  BY ClientAssumption
<1> QED
  BY <1>1 DEF Address, IsAddress

LEMMA LoadedKeyed ==
  ASSUME Keyed, NEW src
  PROVE  Intact(Loaded(src)) /\ Loaded(src).addr = src
BY DEF Keyed, Loaded, Connection, Intact

LEMMA StoredKeyed ==
  ASSUME Keyed, NEW src, NEW c, Intact(c), c.addr = src, connections' = Stored(src, c)
  PROVE  Keyed' /\ DOMAIN connections' = DOMAIN connections \cup {src}
BY DEF Keyed, Stored

LEMMA MovedKeyed ==
  ASSUME Keyed, NEW src, NEW moved, Intact(moved), connections' = Moved(src, moved)
  PROVE  Keyed' /\ DOMAIN connections' \subseteq DOMAIN connections \cup {moved.addr}
BY DEF Keyed, Moved

Confirmation(d, m, src) ==
  d.msg.head = "CONF" /\ m.head = "CONN" /\ d.dst = Elsewhere(m, src)

Reply(d, m, src) ==
  /\ d.msg.head \in {"RESP", "CTRL", "POSI", "TERR"} /\ d.dst = src
  /\ m.head = "GETP" => d.msg.head = "POSI"
  /\ m.head = "GETC" => d.msg.head = "CTRL"

Forwarded(d) == d.dst = XPlaneAddr /\ d.msg.head \notin {"CONF", "RESP", "CTRL", "POSI", "TERR"}

\* What the handler of m sends: a confirmation, or an answer, or what it
\* forwards to X-Plane.
Proper(m, src) ==
  \/ \E d : out' = <<d>> /\ (Confirmation(d, m, src) \/ Reply(d, m, src))
  \/ \A i \in DOMAIN out' : Forwarded(out'[i])

\* The only new keys are the source and where it moves to.
Enters(m, src) ==
  \A k \in DOMAIN connections' :
    k \in DOMAIN connections \/ k = src \/ (m.head = "CONN" /\ k = Elsewhere(m, src))

LEMMA OneReply ==
  ASSUME NEW m, NEW src, NEW msg, out' = <<Datagram(src, msg)>>,
         msg.head \in {"RESP", "CTRL", "POSI", "TERR"},
         m.head = "GETP" => msg.head = "POSI",
         m.head = "GETC" => msg.head = "CTRL"
  PROVE  Proper(m, src)
<1> DEFINE d == Datagram(src, msg)
<1>1. d.msg = msg /\ d.dst = src
  BY DEF Datagram
<1>2. Reply(d, m, src)
  BY <1>1 DEF Reply
<1>3. out' = <<d>>
  OBVIOUS
<1> HIDE DEF d
<1> QED
  BY <1>2, <1>3 DEF Proper

LEMMA OneConfirmation ==
  ASSUME NEW m, NEW src, NEW msg, out' = <<Datagram(Elsewhere(m, src), msg)>>,
         msg.head = "CONF", m.head = "CONN"
  PROVE  Proper(m, src)
<1> DEFINE d == Datagram(Elsewhere(m, src), msg)
<1>1. d.msg = msg /\ d.dst = Elsewhere(m, src)
  BY DEF Datagram
<1>2. Confirmation(d, m, src)
  BY <1>1 DEF Confirmation
<1>3. out' = <<d>>
  OBVIOUS
<1> HIDE DEF d
<1> QED
  BY <1>2, <1>3 DEF Proper

LEMMA NoDatagram ==
  ASSUME NEW m, NEW src, out' = <<>>
  PROVE  Proper(m, src)
BY DEF Proper

LEMMA TerrainAnswered ==
  ASSUME NEW pos, NEW ac, NEW m, NEW src, NEW c, c.addr = src, Intact(c), Keyed,
         m.head \notin {"GETP", "GETC"}, SendTerr(pos, ac, src, c)
  PROVE  Keyed' /\ Proper(m, src) /\ Enters(m, src)
<1>1. ASSUME NEW d, Answers(src, c, d)
      PROVE  Keyed' /\ Enters(m, src) /\ out' = d
  BY <1>1, StoredKeyed DEF Answers, Enters
<1>2. CASE Answers(src, c, <<>>)
  BY <1>1, <1>2, NoDatagram
<1>3. ASSUME NEW msg, msg.head = "TERR", Answers(src, c, <<Datagram(c.addr, msg)>>)
      PROVE  Keyed' /\ Proper(m, src) /\ Enters(m, src)
  BY <1>1, <1>3, OneReply
<1> QED
  BY <1>2, <1>3 DEF SendTerr

LEMMA HandleAnswers ==
  ASSUME Keyed, NEW m, NEW src, IsAddress(src), HandleMessage(m, src)
  PROVE  Keyed' /\ Proper(m, src) /\ Enters(m, src)
<1> DEFINE c == Loaded(src)
<1>1. Intact(c) /\ c.addr = src
  BY LoadedKeyed
<1> HIDE DEF c
<1>2. ASSUME NEW d, Answers(src, c, d)
      PROVE  Keyed' /\ Enters(m, src) /\ out' = d
  BY <1>1, <1>2, StoredKeyed DEF Answers, Enters
<1>3. CASE HandleConn(m, src, c)
  <2> DEFINE moved == [c EXCEPT !.addr.port = m.port]
  <2>1. Intact(moved) /\ moved.addr = Elsewhere(m, src)
    BY <1>1 DEF Intact, Elsewhere
  <2>2. /\ connections' = Moved(src, moved)
        /\ out' = <<Datagram(moved.addr, [head |-> "CONF", id |-> c.id])>>
        /\ m.head = "CONN"
    BY <1>3 DEF HandleConn
  <2> HIDE DEF moved
  <2>3. Keyed' /\ Enters(m, src)
    BY <2>1, <2>2, MovedKeyed DEF Enters
  <2> QED
    BY <2>1, <2>2, <2>3, OneConfirmation
<1>4. CASE HandleGetD(m, src, c)
  <2> DEFINE asked == IF m.drefs = <<>> THEN c ELSE [c EXCEPT !.getdRequest = m.drefs]
  <2>1. Intact(asked) /\ asked.addr = src
    BY <1>1 DEF Intact
  <2>2. PICK values : /\ connections' = Stored(src, asked)
                      /\ out' \in {<<>>, <<Datagram(src, [head |-> "RESP", values |-> values])>>}
                      /\ m.head = "GETD"
    BY <1>1, <1>4 DEF HandleGetD, Answers
  <2> HIDE DEF asked
  <2>3. Keyed' /\ Enters(m, src)
    BY <2>1, <2>2, StoredKeyed DEF Enters
  <2> QED
    BY <2>2, <2>3, OneReply, NoDatagram
<1>5. CASE HandleCtrl(m, src, c)
  BY <1>5, <1>2, NoDatagram DEF HandleCtrl
<1>6. CASE HandleDref(m, src, c)
  BY <1>6, <1>2, NoDatagram DEF HandleDref
<1>7. CASE HandlePosi(m, src, c)
  BY <1>7, <1>2, NoDatagram DEF HandlePosi
<1>8. CASE HandleSimu(m, src, c)
  BY <1>8, <1>2, NoDatagram DEF HandleSimu
<1>9. CASE HandleText(m, src, c)
  BY <1>9, <1>2, NoDatagram DEF HandleText
<1>10. CASE HandleWypt(m, src, c)
  BY <1>10, <1>2, NoDatagram DEF HandleWypt
<1>11. CASE HandleView(m, src, c)
  BY <1>11, <1>2, NoDatagram DEF HandleView
<1>12. CASE HandleComm(m, src, c)
  BY <1>12, <1>2, NoDatagram DEF HandleComm
<1>13. CASE HandleUnknown(m, src, c)
  BY <1>13, <1>2, NoDatagram DEF HandleUnknown
<1>14. CASE HandleGetC(m, src, c)
  <2>1. PICK msg : Answers(src, c, IF m.size # 6 THEN <<>> ELSE <<Datagram(c.addr, msg)>>)
                   /\ msg.head = "CTRL" /\ m.head = "GETC"
    BY <1>14 DEF HandleGetC
  <2>2. out' = <<>> \/ out' = <<Datagram(src, msg)>>
    BY <1>1, <2>1 DEF Answers
  <2> QED
    BY <1>2, <2>1, <2>2, NoDatagram, OneReply
<1>15. CASE HandleGetP(m, src, c)
  <2> DEFINE values == Position(sim, m.aircraft) \o Orientation(sim, m.aircraft)
                       \o <<GetFloatArray(sim, "GearDeploy", 10, m.aircraft)[1]>>
             msg == [head |-> "POSI", gear |-> GetInt(sim, "GearHandle", m.aircraft) \div One,
                     values |-> values]
  <2>1. /\ Answers(src, c, IF m.size # 6 THEN <<>> ELSE <<Datagram(c.addr, msg)>>)
        /\ msg.head = "POSI" /\ m.head = "GETP"
    BY <1>15, Zenon DEF HandleGetP
  <2> HIDE DEF msg
  <2>2. out' = <<>> \/ out' = <<Datagram(src, msg)>>
    BY <1>1, <2>1 DEF Answers
  <2> QED
    BY <1>2, <2>1, <2>2, NoDatagram, OneReply
<1>16. CASE HandlePosT(m, src, c)
  <2>1. Answers(src, c, <<>>) \/ \E pos : SendTerr(pos, m.aircraft, src, c)
    BY <1>16 DEF HandlePosT
  <2>2. m.head = "POST"
    BY <1>16 DEF HandlePosT
  <2> QED
    BY <1>1, <1>2, <2>1, <2>2, NoDatagram, TerrainAnswered
<1>17. CASE HandleGetT(m, src, c)
  <2>1. Answers(src, c, <<>>) \/ \E pos : SendTerr(pos, m.aircraft, src, c)
    BY <1>17 DEF HandleGetT
  <2>2. m.head = "GETT"
    BY <1>17 DEF HandleGetT
  <2> QED
    BY <1>1, <1>2, <2>1, <2>2, NoDatagram, TerrainAnswered
<1>18. CASE HandleXPlaneData(m, src, c)
  <2>1. Answers(src, c, <<Datagram(XPlaneAddr, m)>>) /\ m.head \in XPlaneHeads
    BY <1>18 DEF HandleXPlaneData
  <2>2. m.head \notin {"CONF", "RESP", "CTRL", "POSI", "TERR"}
    BY <2>1 DEF XPlaneHeads
  <2>3. out' = <<Datagram(XPlaneAddr, m)>>
    BY <1>2, <2>1
  <2> QED
    BY <1>2, <2>1, <2>2, <2>3 DEF Proper, Forwarded, Datagram
<1>19. CASE HandleData(m, src, c)
  <2>1. PICK n : Answers(src, c, [i \in 1..n |-> Datagram(XPlaneAddr, m)]) /\ m.head = "DATA"
    BY <1>19 DEF HandleData
  <2>2. out' = [i \in 1..n |-> Datagram(XPlaneAddr, m)]
    BY <2>1 DEF Answers
  <2> QED
    BY <1>2, <2>1, <2>2 DEF Proper, Forwarded, Datagram
<1> QED
  BY <1>3, <1>4, <1>5, <1>6, <1>7, <1>8, <1>9, <1>10, <1>11, <1>12, <1>13, <1>14, <1>15, <1>16, <1>17, <1>18, <1>19
  DEF HandleMessage, c

\* The same for the request of a client: it moves to an address only.
LEMMA ClientAnswered ==
  ASSUME Keyed, Addressed, NEW m \in Request, NEW src \in Client, HandleMessage(m, src)
  PROVE  Keyed' /\ Addressed' /\ Proper(m, src)
<1>1. IsAddress(src) /\ src \in Address
  BY ClientAddress
<1>2. Keyed' /\ Proper(m, src) /\ Enters(m, src)
  BY <1>1, HandleAnswers
<1>3. m.head = "CONN" => Elsewhere(m, src) \in Address
  BY ClientAddress, RequestAssumption DEF Elsewhere
<1> QED
  BY <1>1, <1>2, <1>3 DEF Enters, Addressed

LEMMA ConnectionsStep == Keyed /\ Addressed /\ Sent /\ Cycle /\ [Next]_vars => (Keyed /\ Addressed)'
<1> SUFFICES ASSUME Keyed, Addressed, Sent, Cycle, [Next]_vars PROVE (Keyed /\ Addressed)'
  OBVIOUS
<1>1. CASE Handle
  BY <1>1, HandleInFrame, HeadIsPacket, ClientAnswered
<1>2. CASE XPluginStart \/ Fault
  BY <1>2 DEF XPluginStart, Fault, Keyed, Addressed
<1>3. CASE UNCHANGED connections
  BY <1>3 DEF Keyed, Addressed
<1> QED
  BY <1>1, <1>2, <1>3 DEF Next, MainThread, TimerThread, XPluginEnable, Disable, XPluginStop, BeginFrame,
     EndFrame, Overloaded, Recreate, StopTimer, Join, Test, Awake, SendBeacon, Arrive, vars,
     handlerVars, stateOfHandlers

LEMMA ConnectionsInvariant == Spec => [](Keyed /\ Addressed /\ Sent /\ Cycle)
<1>1. Init => Keyed /\ Addressed
  BY DEF Init, HandlersInit, Keyed, Addressed
<1>2. Init => Keyed /\ Addressed /\ Sent /\ Cycle
  BY <1>1, CycleInit, ScreenInit
<1>3. Keyed /\ Addressed /\ Sent /\ Cycle /\ [Next]_vars => (Keyed /\ Addressed /\ Sent /\ Cycle)'
  BY ConnectionsStep, SentStep, CycleStep
<1> QED
  BY <1>2, <1>3, PTL DEF Spec

\* A client is known, after any number of moves, under the address at which it
\* is answered (MessageHandlers.cpp 107-131, 182-202).
THEOREM ConnKeyedHolds == Spec => []ConnKeyed
<1>1. Keyed => ConnKeyed
  BY DEF Keyed, ConnKeyed
<1> QED
  BY <1>1, ConnectionsInvariant, PTL

\* The bounds of the network, and the pointers that Cycle leaves open.
Buffers ==
  /\ Len(inbox) \in 0..MaxInbox /\ sent \in 0..MaxSends
  /\ handlerSock \in {"null", "current", "deleted"}
  /\ running \in BOOLEAN

LEMMA BuffersInit == Init => Buffers
<1> SUFFICES ASSUME Init PROVE Buffers
  OBVIOUS
<1>1. inbox = <<>> /\ sent = 0 /\ handlerSock = "null" /\ running = FALSE
  BY DEF Init
<1>2. Len(inbox) = 0
  BY <1>1
<1>3. 0 \in 0..MaxInbox /\ 0 \in 0..MaxSends
  BY BoundAssumption
<1>4. running \in BOOLEAN
  BY <1>1
<1>5. handlerSock \in {"null", "current", "deleted"}
  BY <1>1
<1> QED
  BY <1>1, <1>2, <1>3, <1>4, <1>5, Zenon DEF Buffers

LEMMA BuffersStep == Buffers /\ Sent /\ [Next]_vars => Buffers'
<1> SUFFICES ASSUME Buffers, Sent, [Next]_vars PROVE Buffers'
  OBVIOUS
<1> USE DEF Buffers
<1>1. ASSUME inbox' = <<>>, UNCHANGED <<sent, running>>, handlerSock' = "deleted"
      PROVE  Buffers'
  <2>1. Len(inbox') = 0
    BY <1>1
  <2> QED
    BY <1>1, <2>1, BoundAssumption
<1>2. ASSUME inbox # <<>>, inbox' = Tail(inbox), UNCHANGED <<sent, lifeVars>>
      PROVE  Buffers'
  <2>1. Len(inbox') = Len(inbox) - 1 /\ Len(inbox) \in Nat /\ Len(inbox) # 0
    BY <1>2, HeadTailProperties, LenProperties, EmptySeq DEF Sent
  <2> QED
    BY <1>2, <2>1, BoundAssumption DEF lifeVars
<1>3. ASSUME NEW src \in Client, NEW m \in Request, Arrive(src, m)
      PROVE  Buffers'
  <2>1. [src |-> src, msg |-> m] \in Packet /\ Len(inbox) < MaxInbox
    BY <1>3 DEF Packet, Arrive
  <2>2. Len(inbox') = Len(inbox) + 1
    BY <1>3, <2>1, AppendProperties DEF Arrive, Sent
  <2>3. sent' \in 0..MaxSends
    BY <1>3, BoundAssumption DEF Arrive
  <2> QED
    BY <1>3, <2>1, <2>2, <2>3, BoundAssumption DEF Arrive, lifeVars
<1>4. CASE XPluginStart \/ XPluginEnable \/ XPluginStop \/ StopTimer \/ Join
  BY <1>4 DEF XPluginStart, XPluginEnable, XPluginStop, StopTimer, Join, SetSocket
<1>5. CASE BeginFrame \/ Recreate \/ TimerThread
  BY <1>5 DEF BeginFrame, Recreate, TimerThread, Test, Awake, SendBeacon, SetSocket, lifeVars
<1>6. CASE Disable \/ Overloaded
  BY <1>1, <1>6 DEF Disable, Overloaded
<1>7. CASE Handle
  BY <1>2, <1>7 DEF Handle, Readable
<1>8. CASE EndFrame
  BY <1>2, <1>8 DEF EndFrame, lifeVars
<1>9. CASE Fault
  <2>1. /\ inbox' = <<>> /\ sent' = sent
        /\ handlerSock' \in {"null", "current", "deleted"} /\ running' \in BOOLEAN
    BY <1>9 DEF Fault
  <2>2. Len(inbox') = 0
    BY <2>1
  <2> QED
    BY <2>1, <2>2, BoundAssumption
<1>10. CASE UNCHANGED vars
  BY <1>10 DEF vars, lifeVars
<1> QED
  BY <1>3, <1>4, <1>5, <1>6, <1>7, <1>8, <1>9, <1>10 DEF Next, MainThread

\* Every variable of the plugin keeps its type, whatever clients send: the keys
\* are addresses of clients' hosts, the screen shows at most WAYPOINT_MAX
\* waypoints at integer places (MessageHandlers.cpp 101-160, Drawing.cpp 155-310).
THEOREM PluginTypeCorrect == Spec => []TypeOK
<1>1. Addressed /\ Sent /\ Cycle /\ ScreenInv /\ Buffers => TypeOK
  <2> SUFFICES ASSUME Addressed, Sent, Cycle, ScreenInv, Buffers PROVE TypeOK
    OBVIOUS
  <2>1. log \in BOOLEAN /\ sock \in {"none", "open"} /\ ops \in Idle..(OPS_PER_CYCLE + 1)
    BY DEF Cycle
  <2>2. phase \in {"unloaded", "disabled", "enabled", "closing", "joining"}
        /\ timer \in {"none", "test", "sleep", "callback"}
    BY DEF Cycle
  <2>3. ScreenOK(screen)
    BY DEF ScreenInv, Sound, ScreenOK
  <2>4. \A k \in DOMAIN connections : k \in Address
    BY DEF Addressed
  <2>5. inbox \in Seq(Packet) /\ Len(inbox) <= MaxInbox
    BY BoundAssumption DEF Sent, Buffers
  <2> QED
    BY <2>1, <2>2, <2>3, <2>4, <2>5 DEF Buffers, TypeOK
<1>2. Init => Buffers /\ Sent
  BY BuffersInit, ScreenInit
<1>3. Buffers /\ Sent /\ [Next]_vars => (Buffers /\ Sent)'
  BY BuffersStep, SentStep
<1>4. Spec => [](Buffers /\ Sent)
  BY <1>2, <1>3, PTL DEF Spec
<1> QED
  BY <1>1, <1>4, ConnectionsInvariant, ScreenInvariant, PTL

\* An answer goes to the source of the request that was handled, whatever other
\* clients do; a confirmation to the same host (MessageHandlers.cpp 182-202).
THEOREM RepliesToRequesterHolds == Spec => RepliesToRequester
<1> DEFINE A == \A i \in DOMAIN out' :
                 out'[i].msg.head \in {"CONF", "RESP", "CTRL", "POSI", "TERR"} =>
                   /\ inbox # <<>>
                   /\ LET src == Head(inbox).src
                      IN  /\ out'[i].dst.host = src.host
                          /\ out'[i].msg.head # "CONF" => out'[i].dst = src
<1>1. ASSUME Keyed, Addressed, Sent, Cycle, [Next]_vars
      PROVE  [A]_vars
  <2>1. CASE Handle
    <3> DEFINE m == Head(inbox).msg
               src == Head(inbox).src
    <3>1. inbox # <<>> /\ IsAddress(src) /\ Proper(m, src)
      BY <1>1, <2>1, HandleInFrame, HeadIsPacket, ClientAnswered, ClientAddress
    <3> HIDE DEF m
    <3>2. Elsewhere(m, src).host = src.host
      BY <3>1 DEF Elsewhere, IsAddress
    <3>3. ASSUME NEW d, out' = <<d>>, Confirmation(d, m, src) \/ Reply(d, m, src) PROVE A
      BY <3>1, <3>2, <3>3 DEF Confirmation, Reply
    <3>4. ASSUME \A i \in DOMAIN out' : Forwarded(out'[i]) PROVE A
      BY <3>4 DEF Forwarded
    <3> QED
      BY <3>1, <3>3, <3>4 DEF Proper
  <2>2. CASE SendBeacon
    <3>1. out' \in {<<>>, <<Datagram(multicast_address, Beacon)>>}
      BY <2>2 DEF SendBeacon
    <3> QED
      BY <3>1 DEF Datagram, Beacon
  <2>3. CASE out' = <<>>
    BY <2>3
  <2> QED
    BY <1>1, <2>1, <2>2, <2>3 DEF Next, MainThread, TimerThread, XPluginStart, XPluginEnable, Disable,
       XPluginStop, BeginFrame, EndFrame, Overloaded, Recreate, Fault, StopTimer, Join, Test, Awake, Arrive
<1>2. Keyed /\ Addressed /\ Sent /\ Cycle /\ [Next]_vars => [A]_vars
  BY <1>1
<1> QED
  BY <1>2, ConnectionsInvariant, PTL DEF Spec, RepliesToRequester
===============================================================================
