--------------------------- MODULE XpcDataManager -----------------------------
(***************************************************************************)
(* The plugin's access to the datarefs of X-Plane: DataManager.cpp.  A     *)
(* store of datarefs is a function from data to sequences of numbers (a    *)
(* scalar is a sequence of length one); every operation of the class is an *)
(* operator on stores.                                                     *)
(*                                                                         *)
(* Numbers are hundredths, so that 0.15 is 15 and a ratio stays an integer.*)
(* A datum is a pair <<aircraft, name>>; 0 is the player's aircraft.       *)
(***************************************************************************)
EXTENDS Integers, Sequences, SequencesExt

CONSTANT Plane      \* the other aircraft of the instance

PLANE_COUNT == 20
ASSUME PlaneAssumption == Plane \subseteq 1..(PLANE_COUNT - 1)

One == 100                  \* the number 1
NaN == 99999900             \* not a number: equal to no value that is sent
GetDefaultValue == -99800
IsDefault(v) == -99910 < v /\ v < -99790

None == "None"

-------------------------------------------------------------------------------
(* The data of X-Plane and their types.                                    *)

Doubles == {"Latitude", "Longitude", "Elevation", "LocalX", "LocalY", "LocalZ"}
Ints == {"GearHandle", "ViewType"}
FloatArrays == {"GearDeploy", "ThrottleSet", "ThrottleActual", "Quaternion",
                "ThrottleOverride", "PanelBrightness"}
IntArrays == {"Pause", "PauseAI", "PropType"}
ByteArrays == {"TailNumber"}

Kind(name) ==
  CASE name \in Doubles     -> "double"
    [] name \in Ints        -> "int"
    [] name \in FloatArrays -> "floats"
    [] name \in IntArrays   -> "ints"
    [] name \in ByteArrays  -> "bytes"
    [] OTHER                -> "float"

Size(name) ==
  CASE name \in {"Pause", "PauseAI"}                -> 20
    [] name \in {"Quaternion", "PanelBrightness"}   -> 4
    [] name \in {"ThrottleSet", "ThrottleActual",
                 "ThrottleOverride", "PropType"}    -> 8
    [] name = "GearDeploy"                          -> 10
    [] name = "TailNumber"                          -> 40
    [] OTHER                                        -> 1

\* Data that clients name although the plugin has no DREF for them.
NamedOnly == {"ViewType", "Altitude", "PropType", "PanelBrightness", "TailNumber",
              "ThrottleOverride"}

-------------------------------------------------------------------------------
(* The tables of Initialize.                                               *)

MPLat == <<"MP1Lat", "MP2Lat", "MP3Lat", "MP4Lat", "MP5Lat", "MP6Lat", "MP7Lat">>
MPLon == <<"MP1Lon", "MP2Lon", "MP3Lon", "MP4Lon", "MP5Lon", "MP6Lon", "MP7Lon">>
MPAlt == <<"MP1Alt", "MP2Alt", "MP3Alt", "MP4Alt", "MP5Alt", "MP6Alt", "MP7Alt">>

\* The enumeration DREF, in its order.
DREF == {
  None, "Pause", "PauseAI", "TotalRuntime", "TotalFlighttime", "TimerElapsedtime",
  "IndicatedAirspeed", "TrueAirspeed", "GroundSpeed",
  "MachNumber", "GForceNormal", "GForceAxial", "GForceSide",
  "BarometerSealevelInHg", "TemperaturSealevelC", "WindSpeedKts",
  "YokePitch", "YokeRoll", "YokeHeading", "Elevator", "Aileron", "Rudder",
  "FlapSetting", "FlapActual",
  "GearDeploy", "GearHandle", "BrakeParking", "BrakeLeft", "BrakeRight",
  "M", "L", "N", "QRad", "PRad", "RRad", "Q", "P", "R",
  "Pitch", "Roll", "HeadingTrue", "HeadingMag", "Quaternion",
  "AngleOfAttack", "Sideslip", "HPath", "VPath", "MagneticVariation",
  "Latitude", "Longitude", "Elevation", "AGL",
  "LocalX", "LocalY", "LocalZ", "LocalVX", "LocalVY", "LocalVZ",
  "ThrottleSet", "ThrottleActual",
  "FlapActual2", "Spoiler", "SpeedBrakeSet", "SpeedBrakeActual", "Sweep", "Slats"}
  \cup {MPLat[i] : i \in 1..7} \cup {MPLon[i] : i \in 1..7} \cup {MPAlt[i] : i \in 1..7}

\* The yoke of the cockpit follows the joystick: one datum under both names.
OwnAlias == [Elevator |-> "YokePitch", Aileron |-> "YokeRoll", Rudder |-> "YokeHeading"]

\* drefs: where the player's DREFs are found.
drefs ==
  LET MP(d, names, field) == <<CHOOSE i \in 1..7 : names[i] = d, field>>
  IN [d \in DREF \ {"FlapActual2", "Spoiler", "Sweep", "Slats"} |->
        CASE d \in {MPLat[i] : i \in 1..7} -> MP(d, MPLat, "Latitude")
          [] d \in {MPLon[i] : i \in 1..7} -> MP(d, MPLon, "Longitude")
          [] d \in {MPAlt[i] : i \in 1..7} -> MP(d, MPAlt, "Elevation")
          [] d \in DOMAIN OwnAlias         -> <<0, OwnAlias[d]>>
          [] OTHER                         -> <<0, d>>]

\* mdrefs: the fewer DREFs of the other aircraft, two of which are a second
\* name of another one.
mdrefs ==
  [p \in 1..(PLANE_COUNT - 1) |->
     [d \in {"LocalX", "LocalY", "LocalZ", "Latitude", "Longitude", "Elevation",
             "Pitch", "Roll", "HeadingTrue", "GearDeploy", "FlapActual",
             "FlapSetting", "FlapActual2", "Spoiler", "SpeedBrakeSet", "Slats",
             "Sweep", "ThrottleActual", "ThrottleSet", "YokePitch", "YokeRoll",
             "YokeHeading"} |->
        CASE d = "FlapSetting" -> <<p, "FlapActual">>
          [] d = "ThrottleSet" -> <<p, "ThrottleActual">>
          [] OTHER             -> <<p, d>>]]

\* aircraft == 0 ? drefs[dref] : mdrefs[aircraft][dref].  A DREF that the table
\* lacks gives a null reference, which is no datum.
Datum(dref, ac) ==
  LET table == IF ac = 0 THEN drefs ELSE mdrefs[ac]
  IN  IF dref \in DOMAIN table THEN table[dref] ELSE <<ac, None>>

\* External: the world position of an aircraft is kept by X-Plane as what its
\* local position is; it is read only (DrefTests.h:183).
World == <<"Latitude", "Longitude", "Elevation">>

Store == {x \in {drefs[d] : d \in {e \in DOMAIN drefs : drefs[e][1] = 0}}
                \cup {<<0, n>> : n \in NamedOnly}
                \cup UNION {{mdrefs[p][d] : d \in DOMAIN mdrefs[p]} : p \in Plane} :
            x[2] \notin Range(World)}

\* XPData: the DREF of each column of an X-Plane data row, None where there is
\* none.
XPRows ==
  LET N == None
      Row(r) ==
        CASE r = 1  -> <<N, "TotalRuntime", "TotalFlighttime", "TimerElapsedtime", N, N, N, N>>
          [] r = 3  -> <<"IndicatedAirspeed", N, "TrueAirspeed", N, "GroundSpeed", N, N, N>>
          [] r = 4  -> <<"MachNumber", N, N, N, "GForceNormal", "GForceAxial", "GForceSide", N>>
          [] r = 5  -> <<"BarometerSealevelInHg", "TemperaturSealevelC", N, "WindSpeedKts", N, N, N, N>>
          [] r = 8  -> <<"YokePitch", "YokeRoll", "YokeHeading", N, N, N, N, N>>
          [] r = 11 -> <<"Elevator", "Aileron", "Rudder", N, N, N, N, N>>
          [] r = 13 -> <<N, N, N, "FlapSetting", "FlapActual", N, N, N>>
          [] r = 14 -> <<"GearDeploy", "BrakeParking", "BrakeLeft", "BrakeRight", N, N, N, "GearHandle">>
          [] r = 15 -> <<"M", "L", "N", N, N, N, N, N>>
          [] r = 16 -> <<"QRad", "PRad", "RRad", "Q", "P", "R", N, N>>
          [] r = 17 -> <<"Pitch", "Roll", "HeadingTrue", "HeadingMag", "Quaternion", N, N, N>>
          [] r = 18 -> <<"AngleOfAttack", "Sideslip", "HPath", "VPath", "Sideslip", N, N, N>>
          [] r = 19 -> <<"HeadingMag", "MagneticVariation", N, N, N, N, N, N>>
          [] r = 20 -> <<"Latitude", "Longitude", "Elevation", "AGL", N, N, N, N>>
          [] r = 21 -> <<"LocalX", "LocalY", "LocalZ", "LocalVX", "LocalVY", "LocalVZ", N, N>>
          [] r = 22 -> <<"Latitude">> \o MPLat
          [] r = 23 -> <<"Longitude">> \o MPLon
          [] r = 24 -> <<"AGL">> \o MPAlt
          [] r = 25 -> <<"ThrottleSet", N, N, N, N, N, N, N>>
          [] r = 26 -> <<"ThrottleActual", N, N, N, N, N, N, N>>
          [] OTHER  -> [j \in 1..8 |-> N]
  IN  [r \in 0..133 |-> Row(r)]

-------------------------------------------------------------------------------
(* Reading and writing.  X-Plane ignores a write to a null reference, to a *)
(* read-only datum or through an interface the datum does not have, and    *)
(* reads zero.                                                             *)

\* External: near its origin the local frame has x to the east, y up, z south.
WorldToLocal(p) == <<p[2], p[3], -p[1]>>
LocalToWorld(l) == <<-l[3], l[1], l[2]>>

Local(s, ac) == <<s[<<ac, "LocalX">>][1], s[<<ac, "LocalY">>][1], s[<<ac, "LocalZ">>][1]>>

Known(s, x) == x \in DOMAIN s \/ (x[2] \in Range(World) /\ <<x[1], "LocalX">> \in DOMAIN s)
Read(s, x) ==
  IF x \in DOMAIN s THEN s[x]
  ELSE <<LocalToWorld(Local(s, x[1]))[CHOOSE i \in 1..3 : World[i] = x[2]]>>

Put(s, x, kind, values) ==
  IF x \in DOMAIN s /\ Kind(x[2]) = kind
  THEN [s EXCEPT ![x] = [i \in DOMAIN @ |-> IF i \in DOMAIN values THEN values[i] ELSE @[i]]]
  ELSE s

Scalar(s, x, kind) == IF Known(s, x) /\ Kind(x[2]) = kind THEN Read(s, x)[1] ELSE 0

\* XPLMGetDatavf and XPLMGetDatavi: as many elements as fit.
Vector(s, x, kind, size) ==
  IF x \in DOMAIN s /\ Kind(x[2]) = kind THEN SubSeq(s[x], 1, Min({Len(s[x]), size})) ELSE <<>>

GetDouble(s, dref, ac) == Scalar(s, Datum(dref, ac), "double")
GetFloat(s, dref, ac) == Scalar(s, Datum(dref, ac), "float")
GetInt(s, dref, ac) == Scalar(s, Datum(dref, ac), "int")
GetFloatArray(s, dref, size, ac) == Vector(s, Datum(dref, ac), "floats", size)
GetIntArray(s, dref, size, ac) == Vector(s, Datum(dref, ac), "ints", size)

SetDouble(s, dref, v, ac) == Put(s, Datum(dref, ac), "double", <<v>>)
SetFloat(s, dref, v, ac) == Put(s, Datum(dref, ac), "float", <<v>>)
SetInt(s, dref, v, ac) == Put(s, Datum(dref, ac), "int", <<v>>)
SetFloatArray(s, dref, values, ac) == Put(s, Datum(dref, ac), "floats", values)
SetIntArray(s, dref, values, ac) == Put(s, Datum(dref, ac), "ints", values)

\* The cast of a float to an int or a char drops the fraction.
Cast(v) == IF v >= 0 THEN (v \div One) * One ELSE -(((-v) \div One) * One)

\* Get by name: an unknown name has no values, an array is cut to the room in
\* the buffer and, if it is not of floats, to the temporary array of the code.
Get(s, x, size) ==
  IF ~Known(s, x) THEN <<>>
  ELSE LET room == CASE Kind(x[2]) = "ints"  -> 200
                     [] Kind(x[2]) = "bytes" -> 1024
                     [] OTHER                -> size
           values == Read(s, x)
       IN  SubSeq(values, 1, Min({Len(values), room, size}))

\* Set by name.
Set(s, x, values) ==
  IF x \notin DOMAIN s \/ values[1] = NaN THEN s
  ELSE LET whole == Kind(x[2]) \in {"int", "ints", "bytes"}
       IN  Put(s, x, Kind(x[2]), [i \in DOMAIN values |-> IF whole THEN Cast(values[i]) ELSE values[i]])

SetGear(s, gear, immediate, ac) ==
  LET skipped == (-950 < gear /\ gear < -850) \/ IsDefault(gear)
      invalid == gear = NaN \/ gear < 0 \/ gear > One
      gearArray == [i \in 1..10 |-> gear]
  IN  IF skipped \/ invalid THEN s
      ELSE IF ac # 0 THEN SetFloatArray(s, "GearDeploy", gearArray, ac)
      ELSE LET handle == SetInt(s, "GearHandle", Cast(gear), 0)
           IN  IF immediate THEN SetFloatArray(handle, "GearDeploy", gearArray, 0) ELSE handle

\* Three values, each the current one of its DREF where the default was sent.
Merged(values, current) ==
  [i \in 1..3 |-> IF IsDefault(values[i]) THEN current[i] ELSE values[i]]

Position(s, ac) == <<GetDouble(s, "Latitude", ac), GetDouble(s, "Longitude", ac),
                     GetDouble(s, "Elevation", ac)>>
Orientation(s, ac) == <<GetFloat(s, "Pitch", ac), GetFloat(s, "Roll", ac),
                        GetFloat(s, "HeadingTrue", ac)>>
Skip(values) ==
  \/ \E i \in 1..3 : values[i] = NaN
  \/ \A i \in 1..3 : IsDefault(values[i])

\* The quaternion stands for the three angles it is computed from.
Quaternion(o) == o \o <<0>>

\* Mutant of SetOrientation: the quaternion is left as it was.
SetOrientation_AnglesOnly(s, orient, ac) ==
  IF Skip(orient) THEN s
  ELSE LET o == Merged(orient, Orientation(s, ac))
           s1 == SetFloat(s, "Pitch", o[1], ac)
           s2 == SetFloat(s1, "Roll", o[2], ac)
       IN  SetFloat(s2, "HeadingTrue", o[3], ac)

SetOrientation(s, orient, ac) ==
  IF Skip(orient) THEN s
  ELSE LET o == Merged(orient, Orientation(s, ac))
           s1 == SetFloat(s, "Pitch", o[1], ac)
           s2 == SetFloat(s1, "Roll", o[2], ac)
           s3 == SetFloat(s2, "HeadingTrue", o[3], ac)
       IN  IF ac = 0 THEN SetFloatArray(s3, "Quaternion", Quaternion(o), 0) ELSE s3

SetPosition(s, pos, ac) ==
  IF Skip(pos) THEN s
  ELSE LET p == Merged(pos, Position(s, ac))
           l == WorldToLocal(p)
           s1 == SetDouble(s, "LocalX", l[1], ac)
           s2 == SetDouble(s1, "LocalY", l[2], ac)
           s3 == SetDouble(s2, "LocalZ", l[3], ac)
           s4 == SetDouble(s3, "Latitude", p[1], ac)
           s5 == SetDouble(s4, "Longitude", p[2], ac)
           s6 == SetDouble(s5, "Elevation", p[3], ac)
       IN  SetOrientation(s6, Orientation(s, ac), ac)

\* Execute: an unknown command does nothing.  External: the command the model
\* knows moves the gear handle.
Execute(s, comm) ==
  IF comm = "landing_gear_toggle" THEN SetInt(s, "GearHandle", One - GetInt(s, "GearHandle", 0), 0)
  ELSE s

\* A store as X-Plane has it when the plugin starts: gear down, all else zero,
\* a tail number.
InitialStore ==
  [x \in Store |->
     [i \in 1..Size(x[2]) |->
        IF x[2] \in {"GearHandle", "GearDeploy"} \/ (x[2] = "TailNumber" /\ i = 1) THEN One ELSE 0]]

(***************************************************************************)
(* The attitude of the player's aircraft is in X-Plane twice: the angles,  *)
(* which GETP answers with, and the quaternion, by which it flies.         *)
(***************************************************************************)
QuaternionAgrees(s) == s[<<0, "Quaternion">>] = Quaternion(Orientation(s, 0))
===============================================================================
