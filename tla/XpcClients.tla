------------------------------ MODULE XpcClients -------------------------------
(***************************************************************************)
(* The programs of the repository that use the C client library: the test  *)
(* suite (TestScripts/C Tests), the monitor, the recorder and the example  *)
(* script.  A program is a sequence of tests, a test a sequence of library *)
(* calls; a program without tests is one test.                             *)
(*                                                                         *)
(* A call whose result is negative, or whose answer is not as expected,    *)
(* fails; what then happens is its field `fail':                           *)
(*   "go"    the result is ignored                                         *)
(*   "note"  the rest is done, the failure is looked at by Check, or at    *)
(*           the end of the test                                           *)
(*   "stop"  the test returns at once, its socket still open               *)
(***************************************************************************)
EXTENDS XplaneConnect

Open(port) == [op |-> "open", port |-> port]
Close == [op |-> "close"]
Check == [op |-> "check"]
Do(call, fail) == [op |-> "send", call |-> call, fail |-> fail]
Ask(call, reader, expect, fail) ==
  [op |-> "ask", call |-> call, reader |-> reader, expect |-> expect, fail |-> fail]

\* Readers of answers, and what is expected of the values.
DREFs(sizes) == [head |-> "RESP", sizes |-> sizes]
Reader(head) == [head |-> head]
Nothing == [how |-> "nothing"]
Firsts(values) == [how |-> "firsts", values |-> values]
Arrays(values) == [how |-> "arrays", values |-> values]
Flat(values) == [how |-> "flat", values |-> values]
Keep == [how |-> "keep"]        \* the values are kept for a later call
Log == [how |-> "log"]          \* the values are written out
KEPT == 77777701                \* stands for a kept value

Repeat(n, v) == [i \in 1..n |-> v]
Own(names) == [i \in DOMAIN names |-> <<0, names[i]>>]
Other(p, names) == [i \in DOMAIN names |-> <<p, names[i]>>]
getDREFs(names, sizes, expect, fail) == Ask(sendDREFRequest(names), DREFs(sizes), expect, fail)

\* The request for the terrain and its answer; sendPOST waits for one too.
getTERR(posi, ac, expect, fail) == Ask(sendTERRRequest(posi, ac), Reader("TERR"), expect, fail)

\* Mutant of openUDP: all sockets have one port.
openUDP_OnePort == Open(49063)

openUDP == Open(0)

Lat == 3752
Lon == -12207

-------------------------------------------------------------------------------
(* UDPTests.h *)

testOpen == <<openUDP, Close>>
testClose == <<Open(49063), Close, Open(49063), Close>>

testCONN ==
  <<openUDP,
    Ask(setCONN(49055), [head |-> "CONF", port |-> 49055], Nothing, "go"),
    getDREFs(Own(<<"GearHandle">>), <<1>>, Nothing, "note"),
    Close>>

-------------------------------------------------------------------------------
(* DrefTests.h *)

SixNames == Own(<<"GearHandle", "Altitude", "PropType", "PanelBrightness", "TailNumber", "Elevation">>)
SixSizes == <<1, 1, 8, 4, 40, 1>>

doGETDTest(names, sizes, expected) ==
  <<openUDP, getDREFs(names, sizes, Arrays(expected), "note"), Close>>

doDREFTest(names, values, expected, sizes) ==
  <<openUDP,
    Do(sendDREFs([i \in DOMAIN names |-> Entry(names[i], values[i])]), "note"),
    getDREFs(names, sizes, Arrays(expected), "note"),
    Close>>

testGETD_Basic == doGETDTest(SixNames, SixSizes, [i \in 1..6 |-> Repeat(SixSizes[i], NaN)])

\* sim/test/test_float is the datum of the columns without a DREF.
testGETD_TestFloat == doGETDTest(Own(<<None>>), <<1>>, <<<<0>>>>)

testGETD_Types == <<openUDP, getDREFs(SixNames, SixSizes, [how |-> "types"], "note"), Close>>

testDREF ==
  LET tail == <<7800, 5500, 5200, 5600, 5300, 8900>>
      values == <<<<One>>, <<400000>>, Repeat(8, 0), Repeat(4, 25), tail \o Repeat(34, 0), <<500000>>>>
      expected == [values EXCEPT ![5] = tail \o Repeat(34, NaN), ![6] = <<NaN>>]
  IN  doDREFTest(SixNames, values, expected, SixSizes)

-------------------------------------------------------------------------------
(* SimuTests.h *)

doSIMUTest(value, expected) ==
  <<openUDP,
    Do(pauseSim(value), "note"),
    getDREFs(Own(<<"Pause">>), <<20>>, Arrays(<<Repeat(20, expected)>>), "note"),
    Close,
    Check>>

testSIMU_Basic == doSIMUTest(0, 0) \o doSIMUTest(1, One) \o doSIMUTest(0, 0)
testSIMU_Toggle == doSIMUTest(0, 0) \o doSIMUTest(2, One) \o doSIMUTest(2, 0)

-------------------------------------------------------------------------------
(* CtrlTests.h *)

doCTRLTest(names, values, ac, expected, fail) ==
  <<Do(sendCTRL(values, Len(values), ac), fail),
    getDREFs(names, Repeat(7, 16), Firsts(expected), fail)>>

doGETCTest(values, ac) ==
  <<openUDP,
    Do(sendCTRL(values, 7, ac), "note"),
    Ask(getCTRL(ac), Reader("CTRL"), Flat(values), "note"),
    Close>>

basicCTRLTest(names, ac) ==
  <<openUDP, Do(pauseSim(1), "go")>>
  \o doCTRLTest(names, <<0, 0, 0>>, ac, <<0, 0, 0, NaN, NaN, NaN, NaN>>, "stop")
  \o doCTRLTest(names, <<20, 10, 10, 80, One, 50>>, ac, <<20, 10, 10, 80, One, 50, NaN>>, "stop")
  \o doCTRLTest(names, <<15, 15, 15, 90, Default, Default>>, ac,
                <<15, 15, 15, 90, One, 50, NaN>>, "note")
  \o <<Do(pauseSim(0), "go"), Close>>

PlayerControls == Own(<<"YokePitch", "YokeRoll", "YokeHeading", "ThrottleSet", "GearHandle",
                        "FlapSetting", "SpeedBrakeSet">>)

testCTRL_Player == basicCTRLTest(PlayerControls, 0)

testCTRL_NonPlayer ==
  basicCTRLTest(Other(1, <<"YokePitch", "YokeRoll", "YokeHeading", "ThrottleActual", "GearDeploy",
                           "FlapActual", "SpeedBrakeSet">>), 1)

testCTRL_Speedbrakes ==
  LET step(v, fail) == doCTRLTest(PlayerControls, Repeat(6, Default) \o <<v>>, 0,
                                  Repeat(6, NaN) \o <<v>>, fail)
  IN  <<openUDP, Do(pauseSim(1), "go")>>
      \o step(-50, "stop") \o step(150, "stop") \o step(0, "note")
      \o <<Do(pauseSim(0), "go"), Close>>

testGETC == doGETCTest(<<0, 0, 0, 80, One, 50, -150>>, 0)
testGETC_NonPlayer == doGETCTest(<<0, 0, 0, 80, One, 50, -150>>, 2)

-------------------------------------------------------------------------------
(* PosiTests.h *)

\* Mutant of doPOSITest: the simulation stays paused.
doPOSITest_StaysPaused(names, values, ac, expected) ==
  <<openUDP,
    Do(pauseSim(1), "go"),
    Do(sendPOSI(values, 7, ac), "note"),
    getDREFs(names, Repeat(7, 10), Firsts(expected), "note"),
    Close,
    Check>>

doPOSITest(names, values, ac, expected) ==
  <<openUDP,
    Do(pauseSim(1), "go"),
    Do(sendPOSI(values, 7, ac), "note"),
    getDREFs(names, Repeat(7, 10), Firsts(expected), "note"),
    Do(pauseSim(0), "go"),
    Close,
    Check>>

doGETPTest(values, ac) ==
  <<openUDP,
    Do(sendPOSI(values, 7, ac), "note"),
    Ask(getPOSI(ac), Reader("POSI"), Flat(values), "note"),
    Close>>

\* The second half expects the position that was read in between.
basicPOSITest(names, ac) ==
  doPOSITest(names, <<Lat, Lon, 250000, 0, 0, 0, One>>, ac, <<Lat, Lon, 250000, 0, 0, 0, One>>)
  \o <<openUDP,
       Do(pauseSim(1), "go"),
       getDREFs(SubSeq(names, 1, 3), <<1, 1, 1>>, Keep, "go"),
       Close>>
  \o doPOSITest(names, <<Default, Default, Default, 500, -500, 1000, 0>>, ac,
                <<KEPT, KEPT, KEPT, 500, -500, 1000, 0>>)

Six == <<"Latitude", "Longitude", "Elevation", "Pitch", "Roll", "HeadingTrue">>
testPOSI_Player == basicPOSITest(Own(Append(Six, "GearHandle")), 0)
testPOSI_NonPlayer == basicPOSITest(Other(1, Append(Six, "GearDeploy")), 1)
testGetPOSI_Player == doGETPTest(<<Lat, Lon, 250000, 0, 0, 0, One>>, 0)
testGetPOSI_NonPlayer == doGETPTest(<<Lat + 10, Lon, 150000, 0, 0, 0, One>>, 3)

-------------------------------------------------------------------------------
(* DataTests.h, TextTests.h, WyptTests.h, ViewTests.h *)

\* The values after the first two of the row are never written.
testDATA ==
  <<openUDP,
    Do(sendDATA(<<[dref |-> 14, values |-> <<One, 0>> \o Repeat(6, Junk)]>>), "go"),
    getDREFs(Own(<<"GearDeploy">>), <<40>>, [how |-> "gear"], "note"),
    Close>>

testTEXT ==
  <<openUDP,
    Do(sendTEXT(<<"This is a test", "\n", "new line", "\r", "\n", "two breaks">>, 100, 700), "go"),
    Do(sendTEXT(<<"Another test">>, 100, 700), "go"),
    Do(sendTEXT(<<>>, -1, -1), "go"),
    Close>>

testWYPT ==
  LET points == [i \in 1..15 |-> <<Lat - i, Lon + i, 250000>>]
  IN  <<openUDP,
        Do(sendWYPT(WYPT_OP.XPC_WYPT_CLR, <<>>), "go"),
        Do(sendWYPT(WYPT_OP.XPC_WYPT_ADD, points), "go"),
        Close>>

XPC_VDREF_FORWARDS == 100000
XPC_VDREF_CHASE == 101700

doViewTest(viewCommand, viewResult) ==
  <<openUDP,
    Do(sendVIEW(viewCommand), "note"),
    getDREFs(Own(<<"ViewType">>), <<1>>, Firsts(<<viewResult>>), "note"),
    Close,
    Check>>

testView == doViewTest(73, XPC_VDREF_FORWARDS) \o doViewTest(80, XPC_VDREF_CHASE)

-------------------------------------------------------------------------------
(* The programs *)

\* main.c of the tests.
Suite ==
  <<testOpen, testClose, testGETD_Basic, testGETD_Types, testGETD_TestFloat, testDREF,
    testSIMU_Basic, testSIMU_Toggle, testCTRL_Player, testCTRL_NonPlayer, testCTRL_Speedbrakes,
    testGETC, testGETC_NonPlayer, testPOSI_Player, testPOSI_NonPlayer, testGetPOSI_Player,
    testGetPOSI_NonPlayer, testDATA, testTEXT, testWYPT, testView, testCONN>>

Times(n, steps) == [i \in 1..(n * Len(steps)) |-> steps[1 + ((i - 1) % Len(steps))]]

\* Mutant of Monitor: it goes on after an error.
Monitor_GoesOn(n) ==
  <<<<openUDP>> \o Times(n, <<Ask(getPOSI(0), Reader("POSI"), Log, "go"),
                              Ask(getCTRL(0), Reader("CTRL"), Log, "go")>>)>>

\* monitorExample: n lines until a key is pressed, or until the first error.
Monitor(n) ==
  <<<<openUDP>> \o Times(n, <<Ask(getPOSI(0), Reader("POSI"), Log, "stop"),
                              Ask(getCTRL(0), Reader("CTRL"), Log, "stop")>>)>>

\* playback.c: a failed sample is left out.
record(count) == <<<<openUDP>> \o Times(count, <<Ask(getPOSI(0), Reader("POSI"), Log, "go")>>) \o <<Close>>>>

playback(lines) ==
  <<<<openUDP>> \o [i \in DOMAIN lines |-> Do(sendPOSI(lines[i], 7, 0), "go")] \o <<Close>>>>

\* The program around them: a menu, chosen from again and again.
playbackExample(choices) == FlattenSeq(choices)

\* xpcExample: it ends without closing its socket.
xpcExample ==
  LET N == Default
  IN  <<<<openUDP,
          getDREFs(Own(<<None>>), <<1>>, Nothing, "stop"),
          Do(sendPOSI(<<Lat, Lon, 250000, 0, 0, 0, One>>, 7, 0), "go"),
          Do(sendPOSI(<<Lat + 1, Lon, 250000, 0, 2000, 0, One>>, 7, 1), "go"),
          Do(sendDATA(<<[dref |-> 18, values |-> <<0, N, 0, N, N, N, N, N>>],
                        [dref |-> 3, values |-> Repeat(4, 13000) \o Repeat(4, N)],
                        [dref |-> 16, values |-> Repeat(3, 0) \o Repeat(5, N)]>>), "go"),
          Do(sendCTRL(<<0, 0, 0, 80, 0>>, 5, 0), "go"),
          Do(pauseSim(1), "go"),
          Do(pauseSim(0), "go"),
          Do(sendDREF(<<0, "GearHandle">>, <<0>>), "go"),
          getDREFs(Own(<<"GearHandle", "Pause">>), <<20, 20>>, Nothing, "go")>>>>
===============================================================================
