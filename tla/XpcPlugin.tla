------------------------------ MODULE XpcPlugin -------------------------------
(***************************************************************************)
(* The XPlaneConnect plugin inside X-Plane: XPCPlugin.cpp with Timer.cpp,  *)
(* UDPSocket.cpp, Message.cpp and Log.cpp.                                 *)
(*                                                                         *)
(* X-Plane calls the plugin from its main thread: start, enable, a callback*)
(* in every frame, disable, stop.  A second thread, the timer, sends the   *)
(* beacon by which clients discover the plugin.  The two threads share the *)
(* handlers' socket pointer and the log.                                   *)
(***************************************************************************)
EXTENDS XpcMessageHandlers

CONSTANTS
  Client,           \* the addresses that messages come from
  Request,          \* the messages that are sent
  OPS_PER_CYCLE,    \* 20 in the code
  MaxInbox,         \* bound: how much the kernel buffers for a socket
  MaxSends          \* bound: how many messages are sent (ping is not counted)

ASSUME ClientAssumption == \A a \in Client : a = [host |-> a.host, port |-> a.port] /\ a.port \in Int
ASSUME RequestAssumption ==
  \A m \in Request : /\ m.head = "CONN" => m.port \in Int
                     /\ m.head = "WYPT" => m.points \in Seq(Waypoint)
                     /\ m.head = "TEXT" => m.x \in Int /\ m.y \in Int
ASSUME OpsAssumption == OPS_PER_CYCLE \in Nat \ {0}
ASSUME BoundAssumption == MaxInbox \in Nat \ {0} /\ MaxSends \in Nat

VARIABLES
  phase,            \* where the main thread is in the life of the plugin
  log,              \* whether the log file is open
  sock,             \* the plugin's socket: "none" or "open"
  handlerSock,      \* the handlers' pointer: "null", "current", "deleted"
  inbox,            \* the packets in the kernel's buffer
  ops,              \* requests handled in this frame, Idle between frames
  timer,            \* the timer thread: "none", "test", "sleep", "callback"
  running,          \* the atomic flag of the timer
  sent              \* how many messages were sent

lifeVars == <<phase, log, sock, handlerSock, timer, running>>
vars == <<handlerVars, lifeVars, inbox, ops, sent>>
stateOfHandlers == <<sim, screen, camera, Terrain_probe, connections>>

Idle == -1
multicast_address == [host |-> "239.255.1.1", port |-> 49710]
Beacon == [head |-> "BECN", port |-> 49009]

\* Log::Initialize and Log::Close.  Nothing is written to a file that could not
\* be opened; Close leaves the pointer to the file as it is.
Initialize == log' = TRUE
LogClose == log' = FALSE

\* new UDPSocket(RECVPORT), and MessageHandlers::SetSocket.
NewSocket == sock' = "open"
SetSocket == handlerSock' = "current"

\* The counted bound leaves one message free, which changes no data.
Free(m) == m.head = "PING"
Packet == [src : Client, msg : Request]

Init ==
  /\ HandlersInit
  /\ phase = "unloaded"
  /\ log = FALSE
  /\ sock = "none"
  /\ handlerSock = "null"
  /\ inbox = <<>>
  /\ ops = Idle
  /\ timer = "none"
  /\ running = FALSE
  /\ sent = 0

-------------------------------------------------------------------------------
(* The life cycle: calls of X-Plane's main thread, between frames.         *)

\* XPluginStart of a freshly loaded library: its statics have their initial
\* values, X-Plane's data are as they were.
XPluginStart ==
  /\ phase = "unloaded"
  /\ phase' = "disabled"
  /\ Initialize
  /\ handlerSock' = "null"
  /\ screen' = NoScreen
  /\ camera' = [mode |-> "free"]
  /\ Terrain_probe' = FALSE
  /\ connections' = <<>>
  /\ out' = <<>>
  /\ UNCHANGED <<sim, sock, timer, running, inbox, ops, sent>>

\* The thread is started last; its flag is set before it exists.
XPluginEnable ==
  /\ phase = "disabled"
  /\ phase' = "enabled"
  /\ NewSocket
  /\ SetSocket
  /\ running' = TRUE
  /\ timer' = "test"
  /\ out' = <<>>
  /\ UNCHANGED <<stateOfHandlers, log, inbox, ops, sent>>

\* Mutant of Disable: the message stays on the screen.
Disable_KeepsMessage ==
  /\ phase = "enabled" /\ ops = Idle
  /\ phase' = "closing"
  /\ sock' = "none"
  /\ handlerSock' = "deleted"
  /\ inbox' = <<>>
  /\ screen' = ClearWaypoints(screen)
  /\ out' = <<>>
  /\ UNCHANGED <<sim, camera, Terrain_probe, connections, log, timer, running, ops, sent>>

\* XPluginDisable up to the timer: the callback is unregistered, the socket
\* deleted (not the handlers' pointer to it), the screen cleared.
Disable ==
  /\ phase = "enabled" /\ ops = Idle
  /\ phase' = "closing"
  /\ sock' = "none"
  /\ handlerSock' = "deleted"
  /\ inbox' = <<>>
  /\ screen' = ClearWaypoints(ClearMessage(screen))
  /\ out' = <<>>
  /\ UNCHANGED <<sim, camera, Terrain_probe, connections, log, timer, running, ops, sent>>

\* Mutant of StopTimer: the flag stays set.
StopTimer_NoClear ==
  /\ phase = "closing"
  /\ phase' = "joining"
  /\ out' = <<>>
  /\ UNCHANGED <<stateOfHandlers, running, log, sock, handlerSock, timer, inbox, ops, sent>>

\* timer->stop(): the flag is cleared, then the thread is joined.
StopTimer ==
  /\ phase = "closing"
  /\ phase' = "joining"
  /\ running' = FALSE
  /\ out' = <<>>
  /\ UNCHANGED <<stateOfHandlers, log, sock, handlerSock, timer, inbox, ops, sent>>

\* Mutant of Join: the thread is left to itself.
Join_Detaches ==
  /\ phase = "joining"
  /\ phase' = "disabled"
  /\ out' = <<>>
  /\ UNCHANGED <<stateOfHandlers, log, sock, handlerSock, timer, running, inbox, ops, sent>>

Join ==
  /\ phase = "joining" /\ timer = "none"
  /\ phase' = "disabled"
  /\ out' = <<>>
  /\ UNCHANGED <<stateOfHandlers, log, sock, handlerSock, timer, running, inbox, ops, sent>>

\* The library is unloaded afterwards, and its draw callbacks with it.
XPluginStop ==
  /\ phase = "disabled"
  /\ phase' = "unloaded"
  /\ LogClose
  /\ out' = <<>>
  /\ UNCHANGED <<stateOfHandlers, sock, handlerSock, timer, running, inbox, ops, sent>>

-------------------------------------------------------------------------------
(* XPCFlightLoopCallback, one step per message.                            *)

BeginFrame ==
  /\ phase = "enabled" /\ ops = Idle
  /\ ops' = 0
  /\ out' = <<>>
  /\ UNCHANGED <<stateOfHandlers, lifeVars, inbox, sent>>

\* UDPSocket::Read polls: there is a packet, and it has a head.
Readable == inbox # <<>> /\ Head(inbox).msg.head # ""

\* AddWaypoints and RemoveWaypoints with numWaypoints below zero leave their
\* arrays.
Overruns(m) == screen.overrun /\ m.head = "WYPT" /\ m.op \in {1, 2}

\* Mutant of Handle: the operations of a frame are not counted.
Handle_NotCounted ==
  /\ ops \in 0..(OPS_PER_CYCLE - 1) /\ Readable /\ ~Overruns(Head(inbox).msg)
  /\ HandleMessage(Head(inbox).msg, Head(inbox).src)
  /\ inbox' = Tail(inbox)
  /\ UNCHANGED <<ops, lifeVars, sent>>

\* A message is read and handled.
Handle ==
  /\ ops \in 0..(OPS_PER_CYCLE - 1) /\ Readable /\ ~Overruns(Head(inbox).msg)
  /\ HandleMessage(Head(inbox).msg, Head(inbox).src)
  /\ inbox' = Tail(inbox)
  /\ ops' = ops + 1
  /\ UNCHANGED <<lifeVars, sent>>

\* Nothing is read, or a datagram too short to have a head: that one ends the
\* frame too, whatever waits behind it.
EndFrame ==
  /\ ops \in 0..(OPS_PER_CYCLE - 1)
  /\ ~Readable
  /\ inbox' = IF inbox = <<>> THEN inbox ELSE Tail(inbox)
  /\ ops' = Idle
  /\ out' = <<>>
  /\ UNCHANGED <<stateOfHandlers, lifeVars, sent>>

\* The most that a frame handles: the socket is dropped with all it holds.
Overloaded ==
  /\ ops = OPS_PER_CYCLE
  /\ ops' = OPS_PER_CYCLE + 1
  /\ sock' = "none"
  /\ handlerSock' = "deleted"
  /\ inbox' = <<>>
  /\ out' = <<>>
  /\ UNCHANGED <<stateOfHandlers, phase, log, timer, running, sent>>

\* Mutant of Recreate: the handlers are not told of the new socket.
Recreate_NotSet ==
  /\ ops = OPS_PER_CYCLE + 1
  /\ ops' = Idle
  /\ NewSocket
  /\ out' = <<>>
  /\ UNCHANGED <<stateOfHandlers, phase, log, handlerSock, timer, running, inbox, sent>>

Recreate ==
  /\ ops = OPS_PER_CYCLE + 1
  /\ ops' = Idle
  /\ NewSocket
  /\ SetSocket
  /\ out' = <<>>
  /\ UNCHANGED <<stateOfHandlers, phase, log, timer, running, inbox, sent>>

\* With numWaypoints below zero the route is drawn, or the next waypoints are
\* read, far beyond the arrays: X-Plane ends, and is started again.
Fault ==
  /\ phase = "enabled" /\ screen.overrun
  /\ \/ ops = Idle
     \/ ops \in 0..(OPS_PER_CYCLE - 1) /\ Readable /\ Overruns(Head(inbox).msg)
  /\ phase' = "unloaded" /\ log' = FALSE
  /\ sock' = "none" /\ handlerSock' = "null" /\ inbox' = <<>> /\ ops' = Idle
  /\ timer' = "none" /\ running' = FALSE
  /\ sim' = InitialStore /\ screen' = NoScreen /\ camera' = [mode |-> "free"]
  /\ Terrain_probe' = FALSE /\ connections' = <<>> /\ out' = <<>>
  /\ UNCHANGED sent

-------------------------------------------------------------------------------
(* The timer thread: while (running.test_and_set()) { sleep; callback }    *)

Test ==
  /\ timer = "test"
  /\ timer' = IF running THEN "sleep" ELSE "none"
  /\ running' = TRUE
  /\ out' = <<>>
  /\ UNCHANGED <<stateOfHandlers, phase, log, sock, handlerSock, inbox, ops, sent>>

Awake ==
  /\ timer = "sleep"
  /\ timer' = "callback"
  /\ out' = <<>>
  /\ UNCHANGED <<stateOfHandlers, phase, log, sock, handlerSock, running, inbox, ops, sent>>

\* Through a deleted socket the beacon may be sent or fail.
SendBeacon ==
  /\ timer = "callback"
  /\ timer' = "test"
  /\ out' \in {<<Datagram(multicast_address, Beacon)>>}
              \cup (IF handlerSock = "deleted" THEN {<<>>} ELSE {})
  /\ UNCHANGED <<stateOfHandlers, phase, log, sock, handlerSock, running, inbox, ops, sent>>

-------------------------------------------------------------------------------
(* The network.  A packet for which there is no socket, or no room, is lost.*)

Arrive(src, m) ==
  /\ sock = "open" /\ Len(inbox) < MaxInbox
  /\ sent < MaxSends \/ Free(m)
  /\ inbox' = Append(inbox, [src |-> src, msg |-> m])
  /\ sent' = IF Free(m) THEN sent ELSE sent + 1
  /\ out' = <<>>
  /\ UNCHANGED <<stateOfHandlers, lifeVars, ops>>

-------------------------------------------------------------------------------
MainThread ==
  BeginFrame \/ Handle \/ EndFrame \/ Overloaded \/ Recreate \/ Fault \/ StopTimer \/ Join
TimerThread == Test \/ Awake \/ SendBeacon

Next ==
  \/ XPluginStart \/ XPluginEnable \/ Disable \/ XPluginStop
  \/ MainThread \/ TimerThread
  \/ \E src \in Client, m \in Request : Arrive(src, m)

Spec == Init /\ [][Next]_vars

\* Both threads are scheduled; X-Plane need not start or stop a plugin.
FairSpec == Spec /\ WF_vars(MainThread) /\ WF_vars(TimerThread)

-------------------------------------------------------------------------------
(* Properties *)

Address == [host : {a.host : a \in Client}, port : Int]

\* Type invariant.
TypeOK ==
  /\ phase \in {"unloaded", "disabled", "enabled", "closing", "joining"}
  /\ log \in BOOLEAN /\ running \in BOOLEAN
  /\ sock \in {"none", "open"}
  /\ handlerSock \in {"null", "current", "deleted"}
  /\ inbox \in Seq(Packet) /\ Len(inbox) <= MaxInbox
  /\ ops \in Idle..(OPS_PER_CYCLE + 1)
  /\ timer \in {"none", "test", "sleep", "callback"}
  /\ sent \in 0..MaxSends
  /\ \A k \in DOMAIN connections : k \in Address
  /\ ScreenOK(screen)

\* The record under a key has the address of that key: a client that moved to
\* another port (CONN) is found, and answered, at the new one only
\* (MessageHandlers.cpp 110-126, 193-195).
ConnKeyed == \A k \in DOMAIN connections : connections[k].addr = k

\* Whatever other clients sent and wherever they moved, an answer goes to the
\* source of the request that is handled; only the confirmation of CONN goes
\* to another port, of the same host.
RepliesToRequester ==
  [][\A i \in DOMAIN out' :
       out'[i].msg.head \in {"CONF", "RESP", "CTRL", "POSI", "TERR"} =>
         /\ inbox # <<>>
         /\ LET src == Head(inbox).src
            IN  /\ out'[i].dst.host = src.host
                /\ out'[i].msg.head # "CONF" => out'[i].dst = src]_vars

\* The handlers answer through the socket that is open: whenever a message may
\* be handled both pointers are live; the stale pointer remains only while the
\* plugin is not enabled or is recreating its socket (XPCPlugin.cpp 231-239).
SocketUse ==
  /\ phase = "enabled" /\ ops # OPS_PER_CYCLE + 1 =>
       sock = "open" /\ handlerSock = "current"
  /\ phase # "enabled" => sock = "none" /\ ops = Idle

\* Nobody writes to a closed log, and no thread of the library is left when
\* X-Plane unloads it: Disable waits for the timer (Timer.cpp 21-26).
LogWrittenWhileOpen ==
  /\ timer # "none" => log /\ phase \in {"enabled", "closing", "joining"}
  /\ ops # Idle => log

\* Disabling the plugin clears the screen: no message and no waypoint is drawn
\* until it is enabled again; while it is enabled all that clients set is drawn.
ScreenFollows ==
  /\ ScreenAgrees(screen)
  /\ phase # "enabled" => Message(screen) = {} /\ Route(screen) = {} /\ ~screen.overrun

\* The number of waypoints goes below zero only when one request to remove names
\* a point twice; no points that differ, listed or not, and no points that are
\* added take it out of 0..WAYPOINT_MAX (Drawing.cpp 244-310).
OverrunByRepetition ==
  [][~screen.overrun /\ screen'.overrun =>
       LET m == Head(inbox).msg
       IN  m.head = "WYPT" /\ m.op = 2 /\ ~IsInjective(m.points)]_vars

\* A frame ends however many requests keep arriving: X-Plane is not blocked.
FrameEnds == (ops = 0) ~> (ops = Idle)

\* Disabling returns, although the timer may be asleep or in its callback.
DisableTerminates == (phase = "closing") ~> (phase = "disabled")
===============================================================================
