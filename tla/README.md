# Verification of the pitch_test federates

The repository holds a small HLA federation written in Java (Pitch pRTI, with
generated federate code in jar files) and the NASA XPlaneConnect software that
connects it to X-Plane. This directory holds TLA+ models of its components, the
TLC configurations that check them and TLAPS proofs about them.

Paths below are relative to `src/src/` of the repository.

## 1. The system

| Component | Source | State | Operations | Status |
|---|---|---|---|---|
| Terminal area: release of flights | `TerminalArea/main.java`, `TerminalManageDisplay.java`, `ADStruct`, `FLPStruct`, `RWYStruct` | per aerodrome the queue `FLPque`, the list `ReleasedFLP`, `ref_time`, `time_interval`; copies of the Master's state and clock; the hubs' tables | buttons Generate, Set, Execute; the listener `simulationTimeUpdated`; the loop `simulate` | modelled |
| Data management: feed of the displays | `DataManage/main.java`, `Display.java`, `APL_struct.java` | `Display.APL_list` | buttons Add, Delete, Clear; the listener `aTCCmdMsgFlight`; the loop `simulate` with `APLexec` | modelled |
| Traffic slots of the receiving federate | `RecvAPL.java` | `APL_ZUUU_name`, `num_APL`; the X-Plane aircraft | the listener `attributesUpdated`, `XPlaneUpdate` | modelled |
| Delay line of the imitated leader | `Imitator1d3.java`, `TestFim.java` | the ring `leader*[waitingTime]`, `indexW`, `stillWaiting` | the listener `attributesUpdated`; the loop `simulate` | modelled |
| XPlaneConnect plugin: life cycle, socket, timer | `XPlaneConnect-master/xpcPlugin/XPCPlugin.cpp`, `Timer.cpp`, `UDPSocket.cpp`, `Log.cpp` | the socket and who points to it, the log, the timer thread and its flag | start, enable, frame, disable, stop; beacon | modelled |
| XPlaneConnect plugin: handlers and connections | `MessageHandlers.cpp`, `Message.cpp` | the map of connections with their ids and stored requests, the terrain probe | CONN, GETD, DREF, POSI, TEXT, WYPT, VIEW, ... | modelled |
| XPlaneConnect plugin: drawing | `Drawing.cpp` | the message, the waypoints, the registered callbacks | TEXT, WYPT, disable, drawing | modelled |
| XPlaneConnect plugin: datarefs | `DataManager.cpp` | X-Plane's own | get and set by number and by name; gear, position, orientation | partly: what a handler calls |
| XPlaneConnect plugin: camera | `CameraCallbacks.cpp` | who controls the camera | VIEW | partly: rotations at quarter turns |
| XPlaneConnect client in C, its tests and examples | `C/src/xplaneConnect.c`, `TestScripts/C Tests/*`, `C/monitorExample`, `C/playbackExample`, `C/xpcExample` | a UDP socket and what is in its buffer; results of tests | request and reply with a timeout; the programs | partly: `readDATA` is left out |
| XPlaneConnect Java client | `XPlaneConnect.java` | as the C client | request and reply with a timeout | not modelled: the C client stands for the protocol |
| ISS display | `Xplane_Connect/src/ISS_Display/*` | positions written by two receiving threads | receive, show | not modelled: see section 6 |
| Discovery of the plugin | `XPlaneConnectDiscovery.java`, `BeaconParser.java` | none across beacons | parse and call back | not modelled |
| UAV publisher, demonstrations | `SendAPL.java`, `MoveTest.java`, `test.java`, `DataManage/inter_test.java` | none shared | straight-line scripts | not modelled |
| Other XPlaneConnect clients | Python, MATLAB | - | - | not modelled: bundled, not used by the federates |
| HLA run-time infrastructure | jar files, `ATOS_V1.5.xml` | the objects of the federation | delivers updates to a callback thread | external: modelled by how the federates use it |

### How the components interact

Every federate has the same shape: a **simulation thread** that loops with a
pause, a **callback thread** of the HLA library that runs the listeners one
after another, and, in two federates, the **Swing event thread**. They share
Java fields and collections without a lock. A Master federate (another program)
publishes the state and the clock of the simulation, controllers send commands,
aircraft are objects that appear, report and vanish. Towards the displays and
X-Plane everything leaves as UDP datagrams, which may be lost.

So the hard behaviours are the interleavings inside a federate: a value that is
read twice while another thread changes it, a list that gets shorter between two
accesses by index, a record written field by field, a condition tested with a
copy of the clock that is older than the clock used next; exceptions that end a
thread in the middle of a handler; and, towards other programs, aircraft that
vanish without notice and datagrams that are lost.

The plugin runs on the main thread of X-Plane, at most 20 messages in every
frame, and has a second thread that sends a beacon each second through the same
socket. Its clients are separate programs: each sends a datagram, and waits at
most 50 ms where there is an answer. An answer carries no request number: what
comes late is read by the next call.

### What makes each component correct

- *Release of flights*: consecutive releases of an aerodrome keep the wake-turbulence
  minimum and the interval; flights leave in the order in which they were filed,
  once each; hubs repeat their pattern; no flight starves; Execute starts.
- *Feed of the displays*: a target is listed once; a command reaches all
  displays of its flight and no others; a datagram does not pair a command with
  an older point, or an old ip with a new port; targets do not starve each other.
- *Traffic slots*: counter and entries agree, an aircraft has one entry, nobody
  is refused while there is room, who stays in the zone is in the end shown.
- *Delay line*: what is published is one state of the leader, of a fixed age.
- *Plugin*: an answer goes to the client that asked; the handlers' socket is live
  whenever they may use it; the screen is clear while the plugin is disabled; a
  frame and `XPluginDisable` end; no thread outlives the library or its log.
- *Clients*: a lost or late datagram spoils one test or one line, not what comes
  after it; no program waits for ever; what is recorded is in order.
- *Scenery*: the two representations of the attitude in X-Plane agree, the camera
  is where the message says.

## 2. The modules

| Module | What it is |
|---|---|
| `WakeTurbulence` | The table `WTC_ref` of separations in minutes and the type of a flight. |
| `ReleaseSequence` | Abstract: what the departures of every aerodrome promise. |
| `FlightRelease` | The terminal-area federate, three threads. |
| `MCFlightRelease` | Instances for TLC, with a short pattern and the pattern of ZSSS. |
| `FlightRelease_proofs` | The inductive invariant, types, separation, ownership of the queues. |
| `FlightRelease_lines` | The order of every aerodrome's flights, the hubs' pattern, the board. |
| `FlightRelease_refinement` | `FlightRelease` implements `ReleaseSequence`. |
| `AircraftFeed`, `MCAircraftFeed` | The data-management federate, three threads. |
| `AircraftFeed_proofs` | Its inductive invariant; targets, commands, points and ports. |
| `TrafficSlots`, `MCTrafficSlots`, `TrafficSlots_proofs` | The receiving federate. |
| `DelayLine`, `MCDelayLine`, `DelayLine_proofs` | The imitator, two threads, field by field. |
| `XpcDataManager` | The datarefs of X-Plane and the plugin's access to them, as operators on stores. |
| `XpcDrawing` | Message and waypoints, as operators on screens. |
| `XpcMessageHandlers` | The handlers, one action each, on top of the two. |
| `XpcPlugin`, `MCXpcPlugin` | The plugin: life cycle, frames, timer thread, network. |
| `XpcPlugin_proofs` | Life cycle, screen, connections, answers, types. |
| `XplaneConnect` | The C library: from arguments to messages, from datagrams to results. |
| `XpcClients` | The test suite and the examples as sequences of calls of the library. |
| `XpcSession`, `MCXpcSession` | The programs against the plugin, over an unreliable network. |
| `XpcSession_proofs` | The order of answers, and the plugin's invariants, for all programs. |

Each module has its mutants next to the definitions they replace, under a comment
that begins with "Mutant of". They are plausible bugs (a dropped test, an
off-by-one, a missing reset), they are not part of the specification, and every
property of a passing run is violated by at least one of them.

### Conventions

- Threads interleave with sequential consistency. A step is a stretch of one
  thread up to its next access to state that another thread writes. Two reads
  are merged into one step where the writers are independent of each other and
  the merged reads are of different variables, so that some order of the writes
  gives the same result: `ref_end_time` and the fields of the aerodrome in
  `main.java:428-430`, `stillWaiting` and `indexW` in `Imitator1d3.java:169-173`.
- Java objects and texts are reduced to what the properties tell apart. A flight
  plan is its departure, number and weight category; a command is its number,
  flight and type; a state of the leader is the number of its update.
- An uncaught exception ends the thread (`pc = "dead"`) or the callback; in the
  event thread it ends the handler only, as Swing does.
- A variable marked "history" is not in the program: it lets a property speak of
  the past and no guard reads it.

### FlightRelease and the code

| Model | Code |
|---|---|
| `MasterReflect`, `CopyState`, `CopyTime` | the HLA library stores the Master's attributes, then the listener `simulationTimeUpdated` copies state and clock, in two steps because the other threads read in between |
| `Generate`, `Offer` | the action of the button: the plan is made by `generateFLPInfo`, then queued flight by flight; with `AD_set` still null the loop throws at its first flight |
| `SetInterval`, `Execute` | the buttons Set and Execute |
| `Load`, `Fill`, `Start` | `simulate` up to its main loop: aerodromes, first batches, waiting for the start |
| `BeginPass`, `VisitFirst`, `VisitNext`, `SendFlightPlan`, `UpdateDisplay` | one frame: the head of the frame, the test and the removal from the queue, the release stamped with the Master's own clock, the tables of the hubs |
| `SendFails` | the exception between removal and record |

Notes. The Master's clock is assumed not to go back. The iteration order of the
`HashSet` is arbitrary but fixed (`AD_set` is a permutation). Modal dialogs keep
the handlers of the event thread from overlapping. `generateFLPInfo` is a
do-while, so that a number below 1 may give no flight or one; all lengths up to
the bound are taken. A state other than FROZEN and RUNNING behaves as FROZEN.

### AircraftFeed and the code

Every call of `APL_list.get(i)` is a step of its own, since the entry at the
index may be another one by then, or none. `Check` to `LogSend` are the calls in
`APLexec` in their order, `Compare` the three comparisons of `cmdType`;
`TestEntry`, `WritePoint`, `WriteCmdType` the loop of `aTCCmdMsgFlight`;
`Add` and `SetPort`, `Delete`, `Clear` the buttons. An entry is appended when it
is complete. Addresses are numbered by the use of Add that typed them, commands
in the order of their arrival, so that older and newer can be told apart. An
aircraft is absent, silent (discovered, no attribute yet) or located; whether
another aircraft is near is left open (`Near`). Exceptions of `get`, of
attributes that were never sent, of an aircraft that vanished and of a null text
end the simulation thread. An address that does not parse is not typed.

Four history variables and fields are read by no guard: `latest`, the last command
received for each flight; `since`, how many commands had come when a target was
added; `disturbed`, the last command that was going through the list when an entry
was removed; `out.moved`, an entry was removed while the datagram was made. A
removal in the middle of the callback can misplace that command, by the design of
the code, and a removal in the middle of `APLexec` can mix two entries in that
datagram. What the properties say is that nothing else goes wrong, and that the
next command and the next datagram are right again.

### TrafficSlots and the code

Everything happens in one callback, which is one step. `Discover` and `Remove`
are the library's; the federate has no listener for removals, so `Remove`
changes none of its fields. `plane` is what X-Plane shows, updated when
`XPlaneUpdate` has an orientation and its datagram arrives. The model has no bound.

### DelayLine and the code

One step per field, in both threads, and one step each for `indexW++`,
`stillWaiting = false` and `indexW = 0`. A ground reference state that was never
received throws in the middle of an entry. The leader's motion is abstracted to the
number of its update.

### XpcDataManager, XpcDrawing, XpcMessageHandlers, XpcPlugin and the code

A datum is a pair of aircraft and name, a store maps data to sequences of
hundredths; X-Plane's side (which data there are, of which type, that reading
what is not there gives zero and writing it does nothing, that the world position
follows the local one) is external and marked so. `drefs`, `mdrefs` and `XPRows`
are the tables of `Initialize`. All other operators have the names of the methods,
and the order of the calls inside a handler is kept, also where it matters only
to a reader: `SetPosition` reads the orientation before and sets it after.

`XpcDrawing` keeps `msgEnabled`, which the operations set, apart from
`drawMessage`, which says whether X-Plane calls back. `RemoveWaypoints` compares,
after the last index found, with array elements that were never written: the
model removes any set of later waypoints. What stays is written with the
increasing enumeration of the indices that stay (`Ascending`), so that it can be
reasoned about. A point that is given twice is found twice: the copy stops
removing at the index that is listed twice, the count that is taken from
`numWaypoints` includes it, and what lies behind the copy in the array is still
there. Where the count is larger than the number of waypoints, that number, which
is unsigned, wraps round (`overrun`); the same stands for more points found than
the array of indices has room for.

`XpcMessageHandlers` has one action for each handler, with the record `Loaded`
for its source. `out` is what the step sent. Fields that a handler does not
check are not varied.

| `XpcPlugin` | Code |
|---|---|
| `XPluginStart`, `XPluginEnable`, `XPluginStop` | the calls of X-Plane; start stands for a freshly loaded library, so its statics have their initial values |
| `Disable`, `StopTimer`, `Join` | `XPluginDisable` up to the timer, then the two statements of `Timer::stop` |
| `BeginFrame`, `Handle`, `EndFrame` | the callback, a step for each message; a datagram without a head ends the frame |
| `Overloaded`, `Recreate` | `delete sock`, then `new UDPSocket` with `SetSocket` |
| `Test`, `Awake`, `SendBeacon` | the loop of the timer thread |
| `Fault` | after `overrun`, drawing the route or the next request to add or remove leaves the arrays: X-Plane ends and is started again with its initial data |
| `Arrive` | a datagram reaches the socket, if it is open and has room |

The library's socket and the pointer of the handlers are two variables, because
they are two in the code. A beacon sent through a deleted socket is sent or
fails, as the build has it. That socket or file could not be opened is only
logged by the code, and not modelled.

### XplaneConnect, XpcClients, XpcSession and the code

A library function that sends is an operator from its arguments to a message or a
negative result, one that reads an operator from a datagram to values or a
negative result; answers are told apart by their length, as in the code, so that
an answer to another request is accepted and gives `Junk`. `XpcClients` writes a
test as the sequence of its calls, each with what its failure leads to. In
`XpcSession` a program opens and closes its sockets, sends, and waits;
`Receive` is the arrival of the first datagram of its buffer, `Timeout` that
`select` gives up. A request and an answer may be lost, an answer may be late:
then the client has gone on, and the answer lies in its buffer at the next call.
`setCONN` opens its new socket in a step of its own (`Switch`). A port that another
program has open cannot be bound, and the program ends (`Exit`,
`xplaneConnect.c:114-118`). The plugin is enabled during a session, and X-Plane stays
up: no program gives a waypoint twice to be removed, so that there is no `Fault`. The
system does not give out a port again in a session.
`Waiting` is what lies in the buffer of a program's socket, `Delivered` what an
answer of the plugin adds to the buffers: `sendto` reaches whoever has the port open.

Two assumptions say what a program may be. `ProgramAssumption`: ports that it names
(`setCONN`, `aopenUDP`) are below `FirstFree`, where the system takes the ports for
sockets bound to 0, and it sends whole messages with a head. The numbers are the
model's; what they say is that no program names a port that the system has given to
another one. The programs of the repository name 49055 (`testCONN`) and 49063
(`testClose`). Should a system have given out such a port, the program that names it
ends in the same way, but the confirmation that `setCONN` asked for comes to a program
that may be waiting for another answer; the assumption leaves that out. Every function of the library writes a
head of its own. `MonitorAssumption`: what is called `monitor` is the program of
`monitorExample`, with any number of lines.

## 3. The runs

All bounds are CONSTANTS whose names begin with `Max`.

| Run | Instance | Shows |
|---|---|---|
| `release_hub` | one hub, pattern of two, clock up to 9 in steps of 0 to 2, intervals -1 and 3 | `Separation`, the cycle of the hub, its table, both inductive invariants (`IInv`, `LineInv`) and the implementation of `ReleaseSequence`. Four releases and a refill fit in, with intervals below and between the minima (2 and 5 clock units), a negative one as the panel accepts it, with edits of the interval and a copy of the clock that lags. |
| `release_plan` | a hub and an aerodrome, plans of up to two flights | `QueueOwnership`, `FilingOrder`, and under fairness `OverdueIsReleased` and `ExecuteStarts`. Generate before the aerodromes are loaded, twice, and a send that throws are included. |
| `board_waiting` | the real pattern of ZSSS | violated: rows keep a released flight as waiting. |
| `first_interval` | one aerodrome, two intervals | violated: the first release is announced with an interval that has not passed. |
| `feed` | two flights, both kinds of targets, two commands, one removal, four changes of aircraft | `UniqueTargets`, `CommandForFlight`, `LatestEverywhere`, `PointNotOlder`, `PortNotNewer` and the inductive invariant `FeedInv` behind them. The command is a REROUTE, which takes all three comparisons (the WAIT of `feed_live` and the change from one to the other in `feed_own_text` are the other cases). Two entries are the fewest in which an entry moves while another is served, and two commands the fewest in which one is replaced while it is read. |
| `feed_live` | the same with one command and three changes | `SteadilyServed` under fairness. |
| `feed_own_text` | one target, WAIT and REROUTE | violated: a null text. |
| `slots` | three aircraft for two entries, limit 3, no bound | all properties of `TrafficSlots`; the instance keeps the limit one above the number of entries, as 20 is above 19. |
| `delay` | a ring of six, four fields, 15 updates (more than two turns) | `DelayIsExact`, `WholeTurnsNewer` and the inductive invariant. Two turns are what an overlapped reading needs to see an entry written again. |
| `delay_ten` | the constants of the code | violated: the age is 8 updates, not 10. |
| `xpc_plugin` | three addresses on two hosts, nine messages, two operations in a frame, a buffer of one, two counted messages besides any number of empty commands | nine properties of the plugin through any number of life cycles. Two operations are the fewest with which a frame can end early, go on and overflow; with two counted messages a client moves by CONN onto another one's address before it asks, and a request to remove comes after two waypoints were added to an array for two. One request gives a waypoint three times: the number of waypoints wraps round, and X-Plane ends (`Fault`) in any phase of the timer. Another one gives three that differ in altitude only, of which one is listed. |
| `xpc_session` | six scenarios: the whole C test suite; the monitor, and the recorder with playback, while another program moves the aircraft; the example beside a camera client; a client that calls what the others do not; two programs that open the ports of `UDPTests.h` at the same time, so that either may find one in use | `FaultsStayLocal`, `AnswersInOrder`, `SceneryAgrees`, `CleanAfterTests`, and `ProgramsEnd` under fairness. Three operations in a frame and a buffer of three make two programs overload it. One fault in the suite and the example, two elsewhere, none where programs compete for ports (`MaxFaults`): one for a late answer, and one more for what it meets. |

The `feed` runs do not check for deadlock: the simulation thread may die, and
the other threads wait for input.

### Disagreements with comments and messages

- `TerminalArea/main.java:246` says that the table shows three released flights
  and two that are not. When a queue holds fewer than two flights, the rows below
  it are not cleared, and after the fifth release of ZSSS the table shows
  released flights as waiting, until the refill is shown (`board_waiting`).
- The message at `TerminalArea/main.java:394` announces the first release with
  the interval as it is when it is printed, which the event thread may have
  raised since the test at `:366` (`first_interval`).
- `DataManage/main.java:91` says that the text is one of 600, 601 and 602. If a
  command changes from REROUTE to WAIT between the comparisons, it is none of
  them; the null text ends the thread (`feed_own_text`). The other values of the
  enumeration have the same effect without any race.
- `Imitator1d3.java:172` says that the state of 10 seconds ago is imitated. The
  entry after `indexW` is 8 updates old; the oldest is the one at `indexW`.
  Reading one entry later is what leaves room for a callback that overlaps
  (`delay_ten`, and the mutant `WrittenNext` of `DelayIsExact`).

- The comment at `xpcPlugin/MessageHandlers.cpp:114` says that the size of the map
  is a unique id as long as elements are never removed. `HandleConn` removes one
  (`:193`) when the new address is that of another connection, and the id is a
  byte: ids repeat. Nothing in the repository depends on an id.
- `MessageHandlers.cpp:509` says "Use last request": the loop that fills the answer
  goes up to the count of the empty request, so that there are no values in it.
- `C/src/xplaneConnect.h:115` offers 200 to 219 for `pauseSim`. The parameter is a
  char; where that is signed these arrive as negative numbers, and the function
  refuses them (`xplaneConnect.c:278`). The scenario `others` does so.
- `HandleData` reads the angle that was not saved (`MessageHandlers.cpp:333`), sets
  nothing in the rows of scalar data, since it writes them through the interface
  for arrays, and forwards the whole message once for every column without a DREF.
- `HandlePosi` and `HandlePosT` read and set the AI of an aircraft through the
  interface for floats although the datum holds integers: it is never changed.
- `xpcPlugin/Drawing.h:51` says that the given waypoints are removed. A waypoint that
  is given twice is counted twice (`Drawing.cpp:305`): of two waypoints both go
  although one was given, and of a single one the number becomes minus one, as an
  unsigned number (`Fault` of `XpcPlugin`). `RemoveWaypoints` may also remove more than
  it was asked to when no point is repeated (see above).
- `record` in `playback.c` says "Recording Complete" without closing its file.
- `sendPOSI` and `sendCTRL` let aircraft 20 pass, of twenty numbered from 0.

### Fairness

`FairSpec` of `FlightRelease` and `AircraftFeed` is weak fairness of the
simulation thread, of the handlers once entered, and in `FlightRelease` of the
arrival of updates. The loops never block on another thread: they sleep, or spin,
and the library delivers callbacks on a thread of its own. Nobody has to press a
button, no command has to come, and nothing has to fail. `FairSpec` of
`TrafficSlots` says that an aircraft in the zone goes on reporting (weak) and
that not all positions sent to X-Plane are lost (strong, for a step that is
possible again and again): UDP on a local network loses some datagrams, not all.

`FairSpec` of `XpcPlugin` is weak fairness of the main thread inside a frame or a
call, and of the timer thread: both are scheduled, the sleep ends. X-Plane need
not enable or disable the plugin, and nobody has to send. `SessionSpec` says that
X-Plane goes on drawing frames and that the programs are scheduled. It is written
with `Ready` in the place of ENABLED, which is the same here and much cheaper to
evaluate: a step of a program always changes `proc`, a step of a frame never.

## 4. The proofs

For every value of the constants, from the named assumptions in the modules.

**FlightRelease.** `Separation` is not inductive: the condition is tested by one
step with `ref_end_time`, a stale copy of the clock, and the release is stamped
by a later step with the Master's clock. `IInv` adds
- `PanelInv`: a plan is being queued only while Generate is enabled, Execute needs
  it disabled, and passes begin after Execute; hence `QueueOwnership`;
- `QueueInv`: the copies of the clock are not ahead of the Master; flights wait
  in the queue of their own departure; a plan has no flight from a hub;
- `ReleaseInv`: `ref_time` is the stamp of the last release, and between the
  removal of a flight and its release the Master's clock is at least `gap` after it,
  where `gap` covers the minimum of the pair.

`InductiveInvariant` proves `Spec => []IInv`, with a lemma for each action, and
`TypeCorrect`, `SeparationHolds`, `QueueOwnershipHolds` follow.
`ImplementsReleaseSequence` proves the refinement: the flight in hand of the
simulation thread still counts as waiting, so that `Poll` is a stutter,
`SendFlightPlan` is `Release`, and `Offer`, `Fill` and a refill are `File`.

The *line* of an aerodrome is what it released, then the flight in hand, then its
queue. No step of the simulation thread changes a line except by a whole batch at
its end, and `Offer` appends one flight of the plan. `FilingOrder` is therefore
stated on lines: the line of an aerodrome that is no hub holds exactly its flights
among the first `offered` ones of the plan, in their order (`InOrder`). It is not
inductive, because a plan may be made anew after `Generate` threw: `PlanInv` says
that nothing of such a plan was queued. `HubCycle` needs that a line consists of
whole batches whenever a batch is added (`BatchInv`), and `BoardShowsReleases` that
marked rows are the last releases between two of them (`BoardInv`). `LineInv`
collects these; `LineInvariant` proves it inductive together with `IInv`, and
`FilingOrderHolds`, `HubCycleHolds`, `BoardShowsReleasesHolds` follow.

**AircraftFeed.** None of the properties is inductive, since each spans reads and
writes of two threads with steps between them. `FeedInv` says, for every `pc`:
- `IndexInv`: the index of the simulation thread is inside of the list unless an
  entry was removed since the datagram was begun, and that of the callback is at an
  entry of the flight unless one was removed since the command came;
- `AddressInv`: the port of an entry is never newer than its ip;
- `CommandInv`: the command that is distributed is the newest and the latest of its
  flight, and the point of an entry is never older than its type;
- `PassedInv`: the entries of the flight that the callback has passed show its
  command. Together with the end of the loop, beyond the last entry, this is what
  makes `LatestEverywhere` true when the callback returns;
- `DatagramInv`: the port that was read is not newer than the ip that is read next,
  and the command that was read not newer than the point that is read next.

The callback writes the point first and the type second, the simulation thread reads
the type first and the point second; for port and ip it is the same with ip first.
These opposite orders make the comparisons inductive, and a mutant that changes
one of them violates the property. `FeedInvariant` proves it for every set of flights,
types and commands and for every bound, and the five properties and
`FeedTypeCorrect` follow.

**TrafficSlots.** `SlotsInv` (types, `num_APL` is the number of entries in use, one
entry for each aircraft, none for one known to be outside) is inductive;
`SlotsTypeCorrect`, `CountedHolds`, `OneEntryEachHolds`, `ListedInsideHolds` follow.
`RefusedOnlyIfFullHolds` derives from the count, and from the limit not being
below the number of entries, that the comparison with the limit never refuses an
aircraft for which there is an entry.

**DelayLine.** `RingInv` says what every entry of the ring holds at every step of
the callback as a function of its distance from `indexW`, and `FrameInv` that
the one callback that overlaps a frame, while it writes, is at the entry before
the one that the frame reads. `DelayIsExactHolds` follows: for every length of the
ring from 2 and every number of fields, what is published is one state,
`waitingTime - 2` updates old, unless two callbacks overlap the reading. When more
overlap, nothing relates the fields to each other, but each of them is still
the delayed state or whole turns newer: `TurnsInv` says so of the entry that a
frame reads and of the fields already read, with the number of turns as a
witness, and that waiting is over only when the ring is full, so that no
field stems from before the first update. `WholeTurnsNewerHolds` follows. The
length of the ring is a constant of the model, and the arithmetic is linear for a given
witness; the remainder in the property is derived at the end.

**XpcPlugin.** For every set of clients, messages, limits and bounds. `Cycle` says
what socket, pointer, log and timer are in each phase of the main thread; it is
inductive by itself, because no handler touches them, and gives `SocketUse` and
`LogWrittenWhileOpen`. `Sound` says what the operations of `XpcDrawing` keep of a
screen, and nothing is assumed of the points in a request. A lemma
for each of them gives `ScreenInv`, hence `ScreenFollows`. For `RemoveWaypoints` it
counts: different points are found at different indices (`FewFound`), so that no more
of them are found than there are waypoints. This is where repetition comes in, and
`OverrunByRepetition` follows: the number of waypoints stays within 0 and
`WAYPOINT_MAX` until a request to remove repeats a point, and `Fault` leads back to an
initial screen. `Keyed` says that a record is under its own address, which is that
of a client's host; every handler keeps it and sends only properly addressed
answers (`HandleAnswers`, one case per handler), which gives `ConnKeyed` and, with
`Sent` (all that waits was sent by a client), the action property
`RepliesToRequester`. With the bounds of the buffer (`Buffers`) these are all of
`TypeOK` (`PluginTypeCorrect`). The lemmas about handlers are stated for any message
and any source, not for the constants `Client` and `Request`: `Proper` says of
a message what they need (a CONN names a port), so that they serve the next part too.

**XpcSession.** For all programs that the two assumptions allow, any number of them,
and every bound on faults. `AnswersInOrder` speaks of what programs have written out,
and each step depends on what is on its way, so that it is not inductive.
`OrderInv` follows a request through the plugin:
- `Queue`: requests wait in the plugin's buffer in the order of their numbers, and
  come from ports that are given out;
- `Boxes`: what waits at a socket answers earlier requests than those that wait in the
  plugin, in their order. A request is answered once at most, and at one port
  (`AnsweredOnce`);
- `Kept`: what a program has written out is in order, precedes what waits at its
  present socket and all that waits in the plugin.

So a log stays in order whatever is lost, late, or read by a call that asked for
something else, also for a program that moves to another port or forgets its
socket. This is the first part of the property. The second is about the monitor
and needs more, since a late answer would be printed as the next one's.
`MonitorInv` says that the number of lines follows its place in the program
(`Lines`), and that of its port only the last request, or its answer, is under way
(`Exchange`): it does not time out without ending; its port was
given by the system, so that no other program has it open, sends from it or has
the plugin confirm a connection to it. Here the error path of the code is what
carries the proof: in a monitor that went on after an error (the mutant
`Monitor_GoesOn`) `Exchange` is false at the first late answer.
`SessionInvariant` proves `IInv`, the two together; `AnswersInOrderHolds` follows.
`PluginAmongPrograms` proves `SocketUse` and `ConnKeyed` again, of the plugin among
these programs: its specification there is another one, with requests of any content.

**Model-checked only.** Liveness (`OverdueIsReleased`, `ExecuteStarts`,
`SteadilyServed`, `EventuallyShown`, `FrameEnds`, `DisableTerminates`,
`ProgramsEnd`), which is out of the prover's reach. `FaultsStayLocal`,
`SceneryAgrees` and `CleanAfterTests` are about the particular programs of the
repository, hundreds of calls in sequence, and about what folds compute over their
data; they fail for other programs (one that writes the dataref of the quaternion
breaks `SceneryAgrees`), so that no theorem about all programs states them. For these
programs and numbers of faults the run is exhaustive.

## 5. Plan

In this order; the first nine are done.

1. `WakeTurbulence`, `ReleaseSequence`, `FlightRelease`, proofs and refinement.
2. `AircraftFeed`.
3. `TrafficSlots` and proofs.
4. `DelayLine` and proofs.
5. `XpcDataManager`, `XpcDrawing`, `XpcMessageHandlers`, `XpcPlugin` and proofs.
6. `XplaneConnect`, `XpcClients`, `XpcSession`.
7. Proofs: all of `AircraftFeed`; `HubCycle`, `FilingOrder`, `BoardShowsReleases`;
   `WholeTurnsNewer`; types of the plugin.
8. The order of answers for arbitrary programs of `XpcSession`.
9. `RemoveWaypoints` for repeated points; programs that find their port in use.
10. readDATA; the ISS display.

## 6. Not modelled, and why

Random content of flight plans, files, HLA settings, coordinates and geometry:
no control depends on them beyond the cases that the models leave open. Cells of
a table row are one value: the timer of the event thread repairs a torn row after
50 ms. The Java memory model is taken as sequentially consistent: the loops call
into the library, which synchronises, in every frame. The ISS display copies, field by field, positions
that two threads write field by field; a pose may mix two reports until the next
one, also right after the longitude (which it tests, and which is written first)
of the very first report, and nothing in the code depends on it. The Java,
Python and MATLAB clients send the requests of the C client. Byte layouts, the
contents of the log and OpenGL are left out of the plugin, and a socket that
cannot be opened or bound is only logged there. The generated federate code
is in jar files and is represented by its visible behaviour. The components
marked "not modelled" in the table have no state across steps, or none of their
own.
