---------------------------- MODULE MCXpcSession -------------------------------
(***************************************************************************)
(* The scenarios: the test suite alone; the monitor and the recorder while *)
(* another program moves the aircraft; the example with a camera client;   *)
(* a client that calls what no program of the repository calls; two        *)
(* programs that want the named ports of UDPTests.h at the same time.      *)
(***************************************************************************)
EXTENDS XpcSession

MCPlane == {1, 2, 3}

Moves(n) == [i \in 1..n |-> <<Lat + i, Lon, 250000, 0, 9000 * i, 0, One>>]

Advanced(view) == Accepted([head |-> "VIEW", size |-> 49, view |-> view, loc |-> <<300, 200, 100>>,
                            direction |-> <<-99800, 0, 0>>, zoom |-> One])

cameraClient == <<<<openUDP, Do(Advanced(XPC_VIEW_RUNWAY), "go"), Do(Advanced(XPC_VIEW_CHASE), "go"),
                    Close>>>>

\* getTERR, sendPOST, sendCOMM, a removed waypoint, an X-Plane message, an
\* unknown one, more DATA rows.
tour ==
  <<<<openUDP,
      Do(sendWYPT(WYPT_OP.XPC_WYPT_ADD, <<<<1, 1, 1>>, <<2, 2, 2>>, <<3, 3, 3>>>>), "go"),
      Do(sendWYPT(WYPT_OP.XPC_WYPT_DEL, <<<<2, 2, 2>>>>), "go"),
      Do(sendDATA(<<[dref |-> 20, values |-> <<0, Lat, Lon, 5000, 0, 0, 0, 0>>],
                    [dref |-> 17, values |-> <<100, 200, 300, 0, 0, 0, 0, 0>>],
                    [dref |-> 25, values |-> Repeat(8, 50)]>>), "go"),
      Do(sendCOMM("landing_gear_toggle"), "go"),
      Do(sendPOSI(<<Lat, Default, Default, Default, 1000>>, 5, 0), "go"),
      Do(pauseSim(101), "go"),
      Do(pauseSim(205), "go"),
      Do(sendTEXT(<<"x">>, 0, -5), "go"),
      Do(Accepted([head |-> "DSEL"]), "go"),
      Do(Accepted([head |-> "ABCD"]), "go"),
      getTERR(<<Default, Default, Default>>, 1, Nothing, "go"),
      Ask(sendPOST(<<Lat, Lon, 100000, 0, 0, 0, One>>, 7, 0), Reader("TERR"), Nothing, "go"),
      Close>>>>

holder == <<testClose, <<Open(49055), Close>>>>

Scenarios == [
  suite    |-> [suite |-> Suite],
  moving   |-> [monitor |-> Monitor(2), mover |-> playback(Moves(2))],
  recorded |-> [recorder |-> playbackExample(<<record(2), playback(Moves(1))>>), mover |-> playback(Moves(2))],
  example  |-> [example |-> xpcExample, camera |-> cameraClient],
  others   |-> [tour |-> tour],
  ports    |-> [moved |-> <<testClose, testCONN>>, holder |-> holder]]

MCScenario == Scenarios

\* Two faults where programs are short or run side by side.
MCMaxFaults == [suite |-> 1, moving |-> 2, recorded |-> 2, example |-> 1, others |-> 2,
                ports |-> 0]
===============================================================================
