------------------------- MODULE XpcMessageHandlers ---------------------------
(***************************************************************************)
(* The messages of the XPlaneConnect plugin and what it does with them:    *)
(* MessageHandlers.cpp, CameraCallbacks.cpp.  One action per handler;      *)
(* HandleMessage is the whole of HandleMessage.                            *)
(*                                                                         *)
(* A message is a record of its fields, `head' first; `size' is kept where *)
(* a handler tests it.  An address is a record [host, port]; the key of a  *)
(* connection, the text "ip:port", is such a record too.                   *)
(***************************************************************************)
EXTENDS XpcDataManager, XpcDrawing

CONSTANT IdRange            \* 256 in the code: ids are unsigned chars
ASSUME IdAssumption == IdRange \in Nat \ {0}

VARIABLES
  sim,              \* the datarefs of X-Plane
  screen,           \* what is drawn
  camera,           \* who controls the camera, and with which parameters
  Terrain_probe,    \* whether the terrain probe exists
  connections,      \* key -> [id, addr, getdRequest]
  out               \* the datagrams sent by the last step

handlerVars == <<sim, screen, camera, Terrain_probe, connections, out>>

XPlaneAddr == [host |-> "loopback", port |-> 49000]
XPlaneHeads == {"DSEL", "USEL", "DCOC", "UCOC", "MOUS", "CHAR", "MENU", "SOUN", "FAIL", "RECO",
                "PAPT", "VEHN", "VEH1", "VEHA", "GSET", "OBJN", "OBJL", "ISET", "BOAT"}

Connection(id, addr, request) == [id |-> id, addr |-> addr, getdRequest |-> request]

HandlersInit ==
  /\ sim = InitialStore
  /\ screen = NoScreen
  /\ camera = [mode |-> "free"]
  /\ Terrain_probe = FALSE
  /\ connections = <<>>
  /\ out = <<>>

Datagram(to, msg) == [dst |-> to, msg |-> msg]

-------------------------------------------------------------------------------
(* Connections *)

\* Mutant of Loaded: a new connection starts as a copy of an old one.
Loaded_CopiesOld(src) ==
  IF src \in DOMAIN connections THEN connections[src]
  ELSE IF DOMAIN connections # {} THEN connections[CHOOSE k \in DOMAIN connections : TRUE]
  ELSE Connection(0, src, <<>>)

\* The record a message is handled with: the one of its source, or a new one
\* whose id is the size of the map.
Loaded(src) ==
  IF src \in DOMAIN connections THEN connections[src]
  ELSE Connection(Cardinality(DOMAIN connections) % IdRange, src, <<>>)

Stored(src, c) ==
  [k \in DOMAIN connections \cup {src} |-> IF k = src THEN c ELSE connections[k]]

Answers(src, c, datagrams) ==
  /\ connections' = Stored(src, c)
  /\ out' = datagrams

\* Mutant of Moved: the record keeps its old key.
Moved_KeepsKey(src, moved) == Stored(src, moved)

\* The map after the erasure of the old key and the insertion under the new one.
Moved(src, moved) ==
  [k \in (DOMAIN connections \ {src}) \cup {moved.addr} |->
     IF k = moved.addr THEN moved ELSE connections[k]]

HandleConn(m, src, c) ==
  LET moved == [c EXCEPT !.addr.port = m.port]
  IN  /\ m.head = "CONN"
      /\ connections' = Moved(src, moved)
      /\ out' = <<Datagram(moved.addr, [head |-> "CONF", id |-> c.id])>>
      /\ UNCHANGED <<sim, screen, camera, Terrain_probe>>

\* An empty request means the last one again; the answer then announces no
\* values at all, since it is the empty request that is counted.
HandleGetD(m, src, c) ==
  LET repeated == m.drefs = <<>>
      asked == IF repeated THEN c ELSE [c EXCEPT !.getdRequest = m.drefs]
      values == [i \in DOMAIN m.drefs |-> Get(sim, m.drefs[i], 255)]
      silent == repeated /\ c.getdRequest = <<>>
  IN  /\ m.head = "GETD"
      /\ Answers(src, asked,
                 IF silent THEN <<>> ELSE <<Datagram(c.addr, [head |-> "RESP", values |-> values])>>)
      /\ UNCHANGED <<sim, screen, camera, Terrain_probe>>

-------------------------------------------------------------------------------
(* Writing data *)

Unless(s, skip, t) == IF skip THEN s ELSE t

Controls(s, m) ==
  LET ac == IF m.size >= 27 THEN m.aircraft ELSE 0
      spdbrk == IF m.size >= 31 THEN m.spdbrk ELSE GetDefaultValue
      eight == [i \in 1..8 |-> m.throttle]
      s1 == Unless(s, IsDefault(m.pitch), SetFloat(s, "YokePitch", m.pitch, ac))
      s2 == Unless(s1, IsDefault(m.roll), SetFloat(s1, "YokeRoll", m.roll, ac))
      s3 == Unless(s2, IsDefault(m.yaw), SetFloat(s2, "YokeHeading", m.yaw, ac))
      t1 == SetFloatArray(s3, "ThrottleSet", eight, ac)
      t2 == SetFloatArray(t1, "ThrottleActual", eight, ac)
      t3 == Unless(t2, ac # 0, Set(t2, <<0, "ThrottleOverride">>, <<m.throttle>>))
      s4 == Unless(s3, IsDefault(m.throttle), t3)
      s5 == Unless(s4, m.gear = -One, SetGear(s4, m.gear, FALSE, ac))
      s6 == Unless(s5, IsDefault(m.flaps), SetFloat(s5, "FlapSetting", m.flaps, ac))
  IN  Unless(s6, IsDefault(spdbrk), SetFloat(s6, "SpeedBrakeSet", spdbrk, ac))

HandleCtrl(m, src, c) ==
  /\ m.head = "CTRL"
  /\ sim' = Unless(sim, m.size \notin {26, 27, 31}, Controls(sim, m))
  /\ Answers(src, c, <<>>)
  /\ UNCHANGED <<screen, camera, Terrain_probe>>

\* Sine and cosine, exact at quarter turns; elsewhere only the sign is kept.
Sin(a) == LET r == a % 36000
          IN  IF r \in {0, 18000} THEN 0 ELSE IF r < 18000 THEN 1 ELSE -1
Cos(a) == Sin(a + 9000)

Velocity(s, v, alpha, hpath) ==
  LET climb == GetFloat(s, "Pitch", 0) - alpha
      s1 == SetFloat(s, "LocalVX", v * Cos(climb) * Sin(hpath), 0)
      s2 == SetFloat(s1, "LocalVY", v * Sin(climb), 0)
  IN  SetFloat(s2, "LocalVZ", -v * Cos(climb) * Cos(hpath), 0)

\* One row of a DATA message.  `acc' holds the store, savedAlpha, savedHPath
\* and how often the whole message was forwarded to X-Plane.
DataRow(acc, row) ==
  LET v == row.values
      s == acc.s
      \* the angle that was NOT saved is read; the default stands for a saved one
      alpha == IF IsDefault(acc.alpha) THEN acc.alpha ELSE GetFloat(s, "AngleOfAttack", 0)
      hpath == IF IsDefault(acc.hpath) THEN acc.hpath ELSE GetFloat(s, "HPath", 0)
      Speed(t, j) == Unless(t, IsDefault(v[j]), Velocity(t, v[j], alpha, hpath))
      Column(t, j) ==
        IF row.dref = 14 /\ j = 1 THEN SetGear(t, v[1], TRUE, 0)
        ELSE IF XPRows[row.dref][j] = None THEN t
        ELSE SetFloatArray(t, XPRows[row.dref][j], v, 0)
      forwards == Cardinality({j \in 1..8 : XPRows[row.dref][j] = None})
  IN  CASE row.dref >= 134 -> acc
        [] row.dref = 3 ->
             IF alpha = NaN \/ hpath = NaN THEN acc
             ELSE [acc EXCEPT !.s = Speed(Speed(Speed(s, 1), 3), 4)]
        [] row.dref = 17 -> [acc EXCEPT !.s = SetOrientation(s, SubSeq(v, 1, 3), 0)]
        [] row.dref = 18 ->
             IF v[1] = NaN \/ v[3] = NaN THEN acc
             ELSE [acc EXCEPT !.alpha = IF IsDefault(v[1]) THEN @ ELSE v[1],
                              !.hpath = IF IsDefault(v[3]) THEN v[3] ELSE @]
        [] row.dref = 20 -> [acc EXCEPT !.s = SetPosition(s, SubSeq(v, 2, 4), 0)]
        [] row.dref = 25 ->
             IF v[1] = NaN THEN acc
             ELSE [acc EXCEPT !.s = SetFloatArray(s, "ThrottleSet", [j \in 1..8 |-> v[1]], 0)]
        [] OTHER -> [acc EXCEPT !.s = FoldLeft(Column, s, <<1, 2, 3, 4, 5, 6, 7, 8>>),
                                !.forwarded = @ + forwards]

HandleData(m, src, c) ==
  LET start == [s |-> sim, alpha |-> GetDefaultValue, hpath |-> GetDefaultValue, forwarded |-> 0]
      end == IF Len(m.rows) > 134 THEN start ELSE FoldLeft(DataRow, start, m.rows)
  IN  /\ m.head = "DATA"
      /\ sim' = end.s
      /\ Answers(src, c, [i \in 1..end.forwarded |-> Datagram(XPlaneAddr, m)])
      /\ UNCHANGED <<screen, camera, Terrain_probe>>

\* m.entries are the names and values up to the first that overruns the message.
HandleDref(m, src, c) ==
  /\ m.head = "DREF"
  /\ sim' = FoldLeft(LAMBDA s, e : Set(s, e.name, e.values), sim, m.entries)
  /\ Answers(src, c, <<>>)
  /\ UNCHANGED <<screen, camera, Terrain_probe>>

\* The store after a POSI or POST.  PauseAI holds integers, which the interface
\* for floats reads as an empty array: the AI of the aircraft is never set.
Posed(s, m) ==
  IF m.size \notin {34, 46} THEN s
  ELSE LET s1 == SetPosition(s, m.pos, m.aircraft)
           s2 == SetOrientation(s1, m.orient, m.aircraft)
       IN  Unless(s2, m.gear = NaN \/ m.gear < 0, SetGear(s2, m.gear, TRUE, m.aircraft))

HandlePosi(m, src, c) ==
  /\ m.head = "POSI"
  /\ sim' = Posed(sim, m)
  /\ Answers(src, c, <<>>)
  /\ UNCHANGED <<screen, camera, Terrain_probe>>

Paused(s, v) ==
  LET now == GetIntArray(s, "Pause", 20, 0)
      value == CASE v = 2          -> [i \in 1..20 |-> IF now[i] = 0 THEN One ELSE 0]
                 [] v \in 100..119 -> [now EXCEPT ![v - 99] = One]
                 [] v \in 200..219 -> [now EXCEPT ![v - 199] = 0]
                 [] OTHER          -> [i \in 1..20 |-> v * One]
      invalid == v < 0 \/ (v > 2 /\ v < 100) \/ (v > 119 /\ v < 200) \/ v > 219
  IN  Unless(s, invalid, SetIntArray(s, "Pause", value, 0))

HandleSimu(m, src, c) ==
  /\ m.head = "SIMU"
  /\ sim' = Paused(sim, m.v)
  /\ Answers(src, c, <<>>)
  /\ UNCHANGED <<screen, camera, Terrain_probe>>

HandleComm(m, src, c) ==
  /\ m.head = "COMM"
  /\ sim' = FoldLeft(Execute, sim, m.comms)
  /\ Answers(src, c, <<>>)
  /\ UNCHANGED <<screen, camera, Terrain_probe>>

-------------------------------------------------------------------------------
(* Reading data *)

HandleGetC(m, src, c) ==
  LET ac == m.aircraft
      gear == IF ac = 0 THEN GetInt(sim, "GearHandle", 0)
              ELSE IF GetFloatArray(sim, "GearDeploy", 10, ac)[1] > 50 THEN One ELSE 0
      values == <<GetFloat(sim, "Elevator", ac), GetFloat(sim, "Aileron", ac),
                  GetFloat(sim, "Rudder", ac), GetFloatArray(sim, "ThrottleSet", 8, ac)[1],
                  gear, GetFloat(sim, "FlapSetting", ac), GetFloat(sim, "SpeedBrakeSet", ac)>>
  IN  /\ m.head = "GETC"
      /\ Answers(src, c,
           IF m.size # 6 THEN <<>>
           ELSE <<Datagram(c.addr, [head |-> "CTRL", aircraft |-> ac, values |-> values])>>)
      /\ UNCHANGED <<sim, screen, camera, Terrain_probe>>

HandleGetP(m, src, c) ==
  LET ac == m.aircraft
      values == Position(sim, ac) \o Orientation(sim, ac)
                \o <<GetFloatArray(sim, "GearDeploy", 10, ac)[1]>>
  IN  /\ m.head = "GETP"
      /\ Answers(src, c,
           IF m.size # 6 THEN <<>>
           ELSE <<Datagram(c.addr, [head |-> "POSI", gear |-> GetInt(sim, "GearHandle", ac) \div One,
                                    values |-> values])>>)
      /\ UNCHANGED <<sim, screen, camera, Terrain_probe>>

\* External: the height of the ground.
Ground(p) == 500

(***************************************************************************)
(* SendTerr: the terrain is probed below the position, and again from the  *)
(* height found.  X-Plane may fail either probe: after the first failure   *)
(* there is no answer and the probe is destroyed, after the second the     *)
(* answer says so.                                                         *)
(***************************************************************************)
SendTerr(pos, ac, src, c) ==
  \/ /\ Terrain_probe' = FALSE
     /\ Answers(src, c, <<>>)
  \/ \E rc \in {0, 1} :
       LET local == WorldToLocal(<<pos[1], pos[2], Ground(pos)>>)
           place == IF rc = 0 THEN LocalToWorld(local) ELSE <<-99800, -99800, -99800>>
       IN  /\ Terrain_probe' = TRUE
           /\ Answers(src, c, <<Datagram(c.addr, [head |-> "TERR", aircraft |-> ac,
                                                  values |-> place \o <<rc>>])>>)

BelowAircraft(s, ac) == <<Position(s, ac)[1], Position(s, ac)[2], 0>>

HandlePosT(m, src, c) ==
  /\ m.head = "POST"
  /\ sim' = Posed(sim, m)
  /\ SendTerr(BelowAircraft(Posed(sim, m), m.aircraft), m.aircraft, src, c)
  /\ UNCHANGED <<screen, camera>>

HandleGetT(m, src, c) ==
  /\ m.head = "GETT"
  /\ IF m.size # 30
     THEN Answers(src, c, <<>>) /\ UNCHANGED Terrain_probe
     ELSE SendTerr(IF \E i \in 1..3 : m.pos[i] = -99800 THEN BelowAircraft(sim, m.aircraft) ELSE m.pos,
                   m.aircraft, src, c)
  /\ UNCHANGED <<sim, screen, camera>>

-------------------------------------------------------------------------------
(* Drawing and views *)

HandleText(m, src, c) ==
  /\ m.head = "TEXT"
  /\ screen' = CASE m.size < 14    -> screen
                 [] m.text = <<>>  -> ClearMessage(screen)
                 [] OTHER          -> SetMessage(screen, m.x, m.y, m.text)
  /\ Answers(src, c, <<>>)
  /\ UNCHANGED <<sim, camera, Terrain_probe>>

HandleWypt(m, src, c) ==
  /\ m.head = "WYPT"
  /\ screen' \in CASE m.op = 1 -> {AddWaypoints(screen, m.points)}
                   [] m.op = 2 -> RemoveWaypoints(screen, m.points)
                   [] m.op = 3 -> {ClearWaypoints(screen)}
                   [] OTHER    -> {screen}
  /\ Answers(src, c, <<>>)
  /\ UNCHANGED <<sim, camera, Terrain_probe>>

XPC_VIEW_FORWARDS == 73
XPC_VIEW_RUNWAY == 79
XPC_VIEW_CHASE == 80

\* External: the value of sim/graphics/view/view_type after the key stroke of a
\* view, 73 to 85.
ViewType(view) ==
  <<1000, 1001, 1006, 1007, 1010, 1014, 1015, 1017, 1018, 1019, 1020, 1023, 1024>>
  [view - XPC_VIEW_FORWARDS + 1]

\* The key stroke changes the view, which ends the control of the camera.
HandleView(m, src, c) ==
  LET advanced == m.size = 49
      mode == CASE advanced /\ m.view = XPC_VIEW_RUNWAY -> "runway"
                [] advanced /\ m.view = XPC_VIEW_CHASE  -> "chase"
                [] OTHER                                -> "free"
  IN  /\ m.head = "VIEW"
      /\ IF m.size \in {9, 49}
         THEN /\ sim' = Put(sim, <<0, "ViewType">>, "int", <<ViewType(m.view) * One>>)
              /\ camera' = IF mode = "free" THEN [mode |-> mode]
                           ELSE [mode |-> mode, loc |-> m.loc, direction |-> m.direction, zoom |-> m.zoom]
         ELSE UNCHANGED <<sim, camera>>
      /\ Answers(src, c, <<>>)
      /\ UNCHANGED <<screen, Terrain_probe>>

Minus(p, q) == [i \in 1..3 |-> p[i] - q[i]]
Plus(p, q) == [i \in 1..3 |-> p[i] + q[i]]

\* CamCallback_RunwayCam: where the camera is, and its direction: the vector to
\* the aircraft, or the three angles of the message.
RunwayCam(s, campos) ==
  LET place == WorldToLocal(campos.loc)
  IN  [place |-> place, zoom |-> campos.zoom,
       aim |-> IF campos.direction[1] < -18000
               THEN [to |-> Minus(Local(s, 0), place), roll |-> 0]
               ELSE [angles |-> campos.direction]]

\* CamCallback_ChaseCam: the offset is turned with the aircraft.
ChaseCam(s, campos) ==
  LET o == Orientation(s, 0)
      the == o[1]  phi == o[2]  psi == o[3]
      back == campos.loc[1]  right == campos.loc[2]  up == campos.loc[3]
      x == right * Cos(phi) + up * Sin(phi)
      y_phi == up * Cos(phi) - right * Sin(phi)
      y == y_phi * Cos(the) - back * Sin(the)
      z == back * Cos(the) + y_phi * Sin(the)
      turned == <<x * Cos(psi) - z * Sin(psi), y, z * Cos(psi) + x * Sin(psi)>>
      attitude == <<phi, the, psi>>
  IN  [place |-> Plus(Local(s, 0), turned), zoom |-> campos.zoom,
       aim |-> [angles |-> [i \in 1..3 |-> IF campos.direction[i] < -18000 THEN 0
                                           ELSE attitude[i] + campos.direction[i]]]]

-------------------------------------------------------------------------------
(* The rest *)

HandleXPlaneData(m, src, c) ==
  /\ m.head \in XPlaneHeads
  /\ Answers(src, c, <<Datagram(XPlaneAddr, m)>>)
  /\ UNCHANGED <<sim, screen, camera, Terrain_probe>>

Handled == {"CONN", "CTRL", "DATA", "DREF", "GETD", "POSI", "POST", "SIMU", "TEXT", "WYPT", "VIEW",
            "GETC", "GETP", "COMM", "GETT"} \cup XPlaneHeads

HandleUnknown(m, src, c) ==
  /\ m.head \notin Handled
  /\ Answers(src, c, <<>>)
  /\ UNCHANGED <<sim, screen, camera, Terrain_probe>>

HandleMessage(m, src) ==
  LET c == Loaded(src)
  IN  \/ HandleConn(m, src, c)  \/ HandleCtrl(m, src, c)  \/ HandleData(m, src, c)
      \/ HandleDref(m, src, c)  \/ HandleGetD(m, src, c)  \/ HandlePosi(m, src, c)
      \/ HandlePosT(m, src, c)  \/ HandleSimu(m, src, c)  \/ HandleText(m, src, c)
      \/ HandleWypt(m, src, c)  \/ HandleView(m, src, c)  \/ HandleGetC(m, src, c)
      \/ HandleGetP(m, src, c)  \/ HandleComm(m, src, c)  \/ HandleGetT(m, src, c)
      \/ HandleXPlaneData(m, src, c)  \/ HandleUnknown(m, src, c)
===============================================================================
