------------------------------ MODULE XpcSession -------------------------------
(***************************************************************************)
(* Client programs and the enabled plugin, over UDP.  The programs run     *)
(* concurrently with each other and with the frames of X-Plane.  A request *)
(* or an answer may be lost, and an answer may come after the client has   *)
(* given up waiting: select waits 50 ms, a frame may take longer.  X-Plane *)
(* stays up: no program gives a waypoint twice to be removed (Fault).      *)
(***************************************************************************)
EXTENDS XpcPlugin, XpcClients

CONSTANTS
  Scenario,         \* scenario -> program name -> program
  MaxFaults         \* bound: scenario -> losses and late answers

ASSUME FaultAssumption == MaxFaults \in [DOMAIN Scenario -> Nat]

\* Programs name ports that the system does not give to sockets of its own
\* accord, and send no ping, a message that only the plugin's model knows.
FirstFree == 50000
Named == 1..(FirstFree - 1)
Sendable(m) ==
  /\ "head" \in DOMAIN m /\ ~Free(m)
  /\ m.head = "CONN" => "port" \in DOMAIN m /\ m.port \in Named
Callable(step) ==
  /\ step.op = "open" => step.port \in Named \cup {0}
  /\ step.op = "send" => step.call.ret < 0 \/ Sendable(step.call.msg)
  /\ step.op = "ask" => /\ Sendable(step.call.msg)
                        /\ step.reader.head = "CONF" => step.reader.port \in Named
ASSUME ProgramAssumption ==
  \A s \in DOMAIN Scenario : \A p \in DOMAIN Scenario[s] :
    LET tests == Scenario[s][p]
    IN  /\ Len(tests) \in Nat
        /\ \A t \in 1..Len(tests) : /\ Len(tests[t]) \in Nat \ {0}
                                    /\ \A i \in 1..Len(tests[t]) : Callable(tests[t][i])

\* The program called monitor is the one of monitorExample.
ASSUME MonitorAssumption ==
  \A s \in DOMAIN Scenario : "monitor" \in DOMAIN Scenario[s] =>
    Scenario[s]["monitor"] = Monitor(Len(Scenario[s]["monitor"][1]) \div 2)

VARIABLES
  scenario,         \* the programs of this behaviour
  proc,             \* program name -> where it is
  mailbox,          \* open port -> the answers that wait there
  nextPort,         \* the port that the system gives next
  tally,            \* how many tests passed and failed
  faults            \* losses and late answers so far

pluginVars == vars
clientVars == <<scenario, proc, mailbox, nextPort, tally, faults>>
sessionVars == <<pluginVars, clientVars>>

Here == "localhost"
Program == DOMAIN proc
Tests(p) == Scenario[scenario][p]
Running(p) == proc[p].test <= Len(Tests(p))
Test_(p) == Tests(p)[proc[p].test]
Step(p) == Test_(p)[proc[p].step]

Fresh == [test |-> 1, step |-> 1, port |-> 0, ok |-> TRUE, kept |-> <<>>, state |-> "run",
          asked |-> 0, log |-> <<>>]

SessionInit ==
  /\ HandlersInit
  /\ phase = "enabled" /\ log = TRUE /\ sock = "open" /\ handlerSock = "current"
  /\ inbox = <<>> /\ ops = Idle /\ timer = "test" /\ running = TRUE /\ sent = 0
  /\ scenario \in DOMAIN Scenario
  /\ proc = [p \in DOMAIN Scenario[scenario] |-> Fresh]
  /\ mailbox = <<>>
  /\ nextPort = FirstFree
  /\ tally = [passed |-> 0, failed |-> 0]
  /\ faults = 0

-------------------------------------------------------------------------------
(* Control of a program *)

\* The program goes on from its present step with the record `now', or returns.
\* At the end of a test runTest counts it.
Continue(p, now, return) ==
  IF return \/ now.step = Len(Test_(p))
  THEN /\ proc' = [proc EXCEPT ![p] = [Fresh EXCEPT !.test = now.test + 1, !.log = now.log]]
       /\ tally' = IF now.ok THEN [tally EXCEPT !.passed = @ + 1]
                   ELSE [tally EXCEPT !.failed = @ + 1]
  ELSE /\ proc' = [proc EXCEPT ![p] = [now EXCEPT !.step = @ + 1, !.state = "run"]]
       /\ UNCHANGED tally

\* A call with result `good' is done.
Done(p, now, good, fail) ==
  Continue(p, [now EXCEPT !.ok = @ /\ (good \/ fail = "go")], ~good /\ fail = "stop")

At(p, op) == Running(p) /\ proc[p].state = "run" /\ Step(p).op = op

\* aopenUDP: port 0 is a port that is not in use.  The system does not give out
\* again a port to which an answer is still under way.  A port in use: see Exit.
OpenUDP(p) ==
  /\ At(p, "open")
  /\ LET port == IF Step(p).port = 0 THEN nextPort ELSE Step(p).port
     IN  /\ port \notin DOMAIN mailbox
         /\ mailbox' = [q \in DOMAIN mailbox \cup {port} |-> IF q = port THEN <<>> ELSE mailbox[q]]
         /\ nextPort' = IF Step(p).port = 0 THEN nextPort + 1 ELSE nextPort
         /\ Continue(p, [proc[p] EXCEPT !.port = port], FALSE)
  /\ UNCHANGED <<pluginVars, scenario, faults>>

Without(port) == [q \in DOMAIN mailbox \ {port} |-> mailbox[q]]

CloseUDP(p) ==
  /\ At(p, "close")
  /\ mailbox' = Without(proc[p].port)
  /\ Continue(p, proc[p], FALSE)
  /\ UNCHANGED <<pluginVars, scenario, nextPort, faults>>

CheckResult(p) ==
  /\ At(p, "check")
  /\ Continue(p, proc[p], ~proc[p].ok)
  /\ UNCHANGED <<pluginVars, scenario, mailbox, nextPort, faults>>

-------------------------------------------------------------------------------
(* Requests.  Every request bears a number, which the programs do not see. *)

Numbered(m) == [x \in DOMAIN m \cup {"n"} |-> IF x = "n" THEN sent + 1 ELSE m[x]]

sendUDP(p, m) ==
  \/ /\ Arrive([host |-> Here, port |-> proc[p].port], Numbered(m))
     /\ UNCHANGED faults
  \/ /\ faults < MaxFaults[scenario]            \* lost
     /\ faults' = faults + 1
     /\ sent' = sent + 1
     /\ UNCHANGED <<handlerVars, lifeVars, inbox, ops>>

Send(p) ==
  /\ At(p, "send")
  /\ IF Step(p).call.ret < 0 THEN UNCHANGED <<pluginVars, faults>> ELSE sendUDP(p, Step(p).call.msg)
  /\ Done(p, proc[p], Step(p).call.ret = 0, Step(p).fail)
  /\ UNCHANGED <<scenario, mailbox, nextPort>>

Request_(p) ==
  /\ At(p, "ask")
  /\ sendUDP(p, Step(p).call.msg)
  /\ proc' = [proc EXCEPT ![p].state = IF Step(p).reader.head = "CONF" THEN "switch" ELSE "wait",
                          ![p].asked = sent + 1]
  /\ UNCHANGED <<scenario, mailbox, nextPort, tally>>

\* setCONN closes its socket and opens the new one only after the request is
\* sent: an answer that is faster finds no socket.
Switch(p) ==
  /\ Running(p) /\ proc[p].state = "switch"
  /\ LET port == Step(p).reader.port
     IN  /\ port \notin DOMAIN Without(proc[p].port)
         /\ mailbox' = [q \in DOMAIN Without(proc[p].port) \cup {port} |->
                          IF q = port THEN <<>> ELSE mailbox[q]]
         /\ proc' = [proc EXCEPT ![p].port = port, ![p].state = "wait"]
  /\ UNCHANGED <<pluginVars, scenario, nextPort, tally, faults>>

\* aopenUDP, called by a program or by setCONN, when another program has the port:
\* bind fails, and the program ends with exit(EXIT_FAILURE).
Exit(p) ==
  /\ \/ At(p, "open") /\ Step(p).port \in DOMAIN mailbox
     \/ Running(p) /\ proc[p].state = "switch"
        /\ Step(p).reader.port \in DOMAIN Without(proc[p].port)
  /\ proc' = [proc EXCEPT ![p] = [Fresh EXCEPT !.test = Len(Tests(p)) + 1, !.log = proc[p].log]]
  /\ mailbox' = Without(proc[p].port)
  /\ UNCHANGED <<pluginVars, scenario, nextPort, tally, faults>>

-------------------------------------------------------------------------------
(* Answers *)

Result(reader, reply) ==
  CASE reader.head = "RESP" -> getDREFResponse(reply, Len(reader.sizes), reader.sizes)
    [] reader.head = "POSI" -> getPOSIResponse(reply)
    [] reader.head = "CTRL" -> getCTRLResponse(reply)
    [] reader.head = "TERR" -> getTERRResponse(reply)
    [] reader.head = "CONF" -> setCONNResponse(reply)

\* data[i][0] of each array; an empty answer leaves it unwritten.
FirstOf(values) == [i \in DOMAIN values |-> IF values[i] = <<>> THEN Junk ELSE values[i][1]]

Expected(values, kept) == [i \in DOMAIN values |-> IF values[i] = KEPT THEN kept[i] ELSE values[i]]

Whole(v) == \A i \in DOMAIN v : v[i] % One = 0

Verdict(expect, values, kept) ==
  CASE expect.how = "firsts" -> compareArray(Expected(expect.values, kept), FirstOf(values))
    [] expect.how = "arrays" -> compareArrays(expect.values, values)
    [] expect.how = "flat"   -> \A i \in DOMAIN expect.values : expect.values[i] = values[i]
    [] expect.how = "gear"   -> Len(values[1]) = 10 /\ values[1][1] = values[1][2]
    [] expect.how = "types"  ->
         /\ \A i \in 1..6 : Len(values[i]) = SixSizes[i]
         /\ Whole(values[1]) /\ Whole(values[3]) /\ Whole(values[5])
         /\ values[5][1] \in One..(127 * One)
    [] OTHER                 -> TRUE

\* The answers that wait at the program's socket, none if it is closed.
Waiting(p) == IF proc[p].port \in DOMAIN mailbox THEN mailbox[proc[p].port] ELSE <<>>

Receive(p) ==
  /\ Running(p) /\ proc[p].state = "wait"
  /\ Waiting(p) # <<>>
  /\ LET answer == Head(Waiting(p))
         result == Result(Step(p).reader, answer.reply)
         expect == Step(p).expect
         entry == [n |-> answer.n, asked |-> proc[p].asked, head |-> answer.reply.head]
         read == IF result.ret < 0 THEN proc[p]
                 ELSE CASE expect.how = "keep" -> [proc[p] EXCEPT !.kept = FirstOf(result.values)]
                        [] expect.how = "log"  -> [proc[p] EXCEPT !.log = Append(@, entry)]
                        [] OTHER               -> proc[p]
     IN  Done(p, read,
              result.ret = 0 /\ Verdict(expect, result.values, proc[p].kept), Step(p).fail)
  /\ mailbox' = [mailbox EXCEPT ![proc[p].port] = Tail(@)]
  /\ UNCHANGED <<pluginVars, scenario, nextPort, faults>>

\* Mutant of Overdue: readUDP blocks until something comes.
Overdue_Never(p) == FALSE

\* select gives up: the request was lost, or its answer, or there is none.
Overdue(p) == \A i \in DOMAIN inbox : inbox[i].msg.n # proc[p].asked

\* readUDP returns without an answer, because none will come or because it is
\* late.  What should have been kept is then whatever was in memory.
Timeout(p) ==
  /\ Running(p) /\ proc[p].state = "wait"
  /\ Waiting(p) = <<>>
  /\ \/ Overdue(p) /\ UNCHANGED faults
     \/ /\ \E i \in DOMAIN inbox : inbox[i].msg.n = proc[p].asked
        /\ faults < MaxFaults[scenario]
        /\ faults' = faults + 1
  /\ \E memory \in (IF Step(p).expect.how = "keep" THEN {Junk, NaN} ELSE {Junk}) :
       Done(p, [proc[p] EXCEPT !.kept = IF Step(p).expect.how = "keep" THEN Repeat(3, memory) ELSE @],
            FALSE, Step(p).fail)
  /\ UNCHANGED <<pluginVars, scenario, mailbox, nextPort>>

-------------------------------------------------------------------------------
(* Frames *)

\* The places in out of what goes to port q of the clients' host, and in which
\* order it comes there.
To(q) == {i \in DOMAIN out' : out'[i].dst = [host |-> Here, port |-> q]}
Order(q) == CHOOSE order \in Ascending(To(q)) : TRUE

Answered(q) ==
  [i \in 1..Cardinality(To(q)) |-> [n |-> Head(inbox).msg.n, reply |-> out'[Order(q)[i]].msg]]

Delivered == [q \in DOMAIN mailbox |-> mailbox[q] \o Answered(q)]

HandleRequest ==
  /\ Handle
  /\ \/ mailbox' = Delivered /\ UNCHANGED faults
     \/ /\ faults < MaxFaults[scenario] /\ (\E q \in DOMAIN mailbox : To(q) # {})      \* the answer is lost
        /\ faults' = faults + 1
        /\ UNCHANGED mailbox
  /\ UNCHANGED <<scenario, proc, nextPort, tally>>

\* The requests in the socket that is dropped are lost.
DropRequests ==
  /\ Overloaded
  /\ faults' = faults + Len(inbox)
  /\ UNCHANGED <<scenario, proc, mailbox, nextPort, tally>>

Frame ==
  \/ HandleRequest
  \/ DropRequests
  \/ (BeginFrame \/ EndFrame \/ Recreate) /\ UNCHANGED clientVars

Client_(p) ==
  \/ OpenUDP(p) \/ CloseUDP(p) \/ CheckResult(p) \/ Send(p) \/ Request_(p) \/ Switch(p)
  \/ Receive(p) \/ Timeout(p) \/ Exit(p)

Clients == \E p \in Program : Client_(p)

SessionNext == Frame \/ Clients

\* A program that can go on: its request finds room, its answer is there or will
\* not come any more.
Ready(p) ==
  /\ Running(p)
  /\ CASE proc[p].state = "switch" -> TRUE
       [] proc[p].state = "wait" -> Waiting(p) # <<>> \/ Overdue(p)
       [] OTHER -> Step(p).op \in {"send", "ask"} => Len(inbox) < MaxInbox

(***************************************************************************)
(* Fairness: X-Plane goes on drawing frames (a step of a frame is always   *)
(* possible), and the programs are scheduled.  Every step of a program     *)
(* changes proc and no step of a frame does; so the formulas are weak      *)
(* fairness of Frame and of Clients, with Ready for what ENABLED says.     *)
(***************************************************************************)
SessionSpec ==
  /\ SessionInit /\ [][SessionNext]_sessionVars
  /\ []<><<UNCHANGED proc>>_sessionVars
  /\ ([]<>(\A p \in Program : ~Ready(p)) \/ []<><<TRUE>>_proc)

\* Bound of the runs: no more faults than that, dropped requests counted.
FaultBound == faults <= MaxFaults[scenario]

-------------------------------------------------------------------------------
(* Properties *)

AllDone == \A p \in Program : ~Running(p)

\* A lost or late datagram spoils one test and not the tests after it: at most
\* one test fails for each.  Without faults the whole suite passes, and the
\* example programs end well (main.c 26-80, Test.c 8-22).
FaultsStayLocal == tally.failed <= faults

\* What the recorder writes and the monitor prints are positions and controls
\* in the order in which they were asked for, none twice; every line of the
\* monitor answers its own requests, since it ends at the first error
\* (playback.c 66-76, monitorExample 72-89).
AnswersInOrder ==
  \A p \in Program :
    LET l == proc[p].log
    IN  /\ \A i, j \in DOMAIN l : i < j => l[i].n < l[j].n
        /\ p = "monitor" =>
             \A i \in DOMAIN l : /\ l[i].n = l[i].asked
                                 /\ l[i].head = IF i % 2 = 1 THEN "POSI" ELSE "CTRL"

\* Whatever the programs sent, X-Plane flies the attitude that clients read, and
\* the camera of an advanced view is where its parameters say, seen from the
\* position that clients read (DataManager.cpp 707-748, CameraCallbacks.cpp).
SceneryAgrees ==
  /\ QuaternionAgrees(sim)
  /\ LET here == WorldToLocal(Position(sim, 0))
     IN  /\ camera.mode = "chase" /\ Orientation(sim, 0) = <<0, 0, 0>> =>
              ChaseCam(sim, camera).place
                = Plus(here, <<camera.loc[2], camera.loc[3], camera.loc[1]>>)
         /\ camera.mode = "runway" /\ camera.direction[1] < -18000 =>
              Plus(RunwayCam(sim, camera).place, RunwayCam(sim, camera).aim.to) = here

\* A suite leaves open no more sockets than tests that failed in their middle;
\* after a suite without faults, in which all tests close what they opened, the
\* simulation runs and nothing is written on the screen (CtrlTests.h 71-81).
CleanAfterTests ==
  scenario = "suite" /\ AllDone /\ inbox = <<>> =>
    /\ Cardinality(DOMAIN mailbox) <= tally.failed
    /\ faults = 0 => /\ tally.failed = 0
                     /\ \A i \in 1..20 : sim[<<0, "Pause">>][i] = 0
                     /\ Message(screen) = {}

\* No program waits for ever, whatever is lost.
ProgramsEnd == <>AllDone
===============================================================================
