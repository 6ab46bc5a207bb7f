----------------------------- MODULE AircraftFeed -----------------------------
(***************************************************************************)
(* The data-management federate (DataManage/main.java and Display.java)    *)
(* sends what it knows of a flight and of the traffic around it to the     *)
(* displays that its panel lists.  Three threads share APL_list without a  *)
(* lock, and each of them calls APL_list.get(i) anew for every field:      *)
(*                                                                         *)
(*   - the Swing event thread adds, redirects, deletes and clears targets; *)
(*   - the HLA callback thread notes the commands of the air-traffic       *)
(*     controllers and keeps the objects of the aircraft;                  *)
(*   - the simulation thread goes through the targets every 300 ms.        *)
(*                                                                         *)
(* A step is one access to the list, with what follows up to the next one. *)
(***************************************************************************)
EXTENDS Naturals, Sequences, FiniteSets, SequencesExt

CONSTANTS
  Flight,       \* flight numbers typed into the panel, names of aircraft
  TargetTypes,  \* of the displays: "CDTI" and "PFD"
  CmdTypes,     \* commands that the controllers send, of ATCCmdTypeFlightEnum
  MaxAdds,      \* bound: uses of the button Add
  MaxCommands,  \* bound: commands
  MaxRemovals,  \* bound: uses of the buttons Delete and Clear
  MaxChanges    \* bound: discoveries and removals of aircraft

ASSUME TargetAssumption  == TargetTypes \subseteq {"CDTI", "PFD"}
ASSUME FeedBoundAssumption ==
  /\ MaxAdds \in Nat /\ MaxCommands \in Nat /\ MaxRemovals \in Nat /\ MaxChanges \in Nat

VARIABLES
  APL_list,   \* Display.APL_list
  edt,        \* the event thread: idle, or about to set the port of an entry
  adds, removals,
  cb,         \* the callback thread: idle, or noting a command
  commands, changes,
  apl,        \* the aircraft objects known to the federate
  pc, ind, todo, tempAPL, out,   \* the simulation thread and its locals
  latest,     \* history: the last command received for each flight
  disturbed   \* history: the last command during which an entry was removed

edtVars == <<edt, adds, removals>>
hlaVars == <<cb, commands, changes, apl, latest>>
simVars == <<pc, ind, todo, tempAPL, out>>
vars    == <<APL_list, edtVars, hlaVars, simVars, disturbed>>

\* An interaction ATCCmdMsg_Flight: its type, the flight it names and a number
\* that stands for its point.  No command is number 0.
NoCommand == [no |-> 0, flt |-> "none", type |-> "NODATA"]
Command   == [no : 1..MaxCommands, flt : Flight, type : CmdTypes]

\* The address typed with the n-th use of Add is ip n and port n; since is a
\* history field, how many commands had been received when the target was added.
Entry == [APLNo : Flight, target_type : TargetTypes,
          target_ip : 1..MaxAdds, target_port : 1..MaxAdds,
          TargetPointID : Command \union {NoCommand},
          cmdType : Command \union {NoCommand}, since : 0..MaxCommands]

\* A target that the panel does not list yet.
NewTarget(f, t, n) ==
  [APLNo |-> f, target_type |-> t, target_ip |-> n, target_port |-> n,
   TargetPointID |-> NoCommand, cmdType |-> NoCommand, since |-> commands]

\* A datagram under construction: for the target of flt, about an aircraft; moved
\* is a history field, an entry was removed since the datagram was begun.
NoText  == [flt |-> "none", about |-> "none", ip |-> 0, port |-> 0, text |-> "none",
            point |-> NoCommand, cmdType |-> NoCommand, moved |-> FALSE]

NoSend == [at |-> "idle", i |-> 1, cmd |-> NoCommand]

Init ==
  /\ APL_list = <<>>
  /\ edt = [at |-> "idle", i |-> 1] /\ adds = 0 /\ removals = 0
  /\ cb = NoSend /\ commands = 0 /\ changes = 0
  /\ apl = [f \in Flight |-> "absent"]
  /\ pc = "entry" /\ ind = 1 /\ todo = {} /\ tempAPL = "none"
  /\ out = NoText
  /\ latest = [f \in Flight |-> NoCommand] /\ disturbed = 0

-------------------------------------------------------------------------------
(* The event thread.                                                       *)

\* Mutant of isInArray: strings are compared with ==, so that none is found.
isInArrayByReference(f, t) == {}

isInArray(f, t) ==
  {i \in DOMAIN APL_list : APL_list[i].APLNo = f /\ APL_list[i].target_type = t}

\* Mutant of Add: redirecting sets the port twice and the ip never.
AddRedirectsPort ==
  /\ edt.at = "idle" /\ adds < MaxAdds
  /\ adds' = adds + 1
  /\ \E f \in Flight, t \in TargetTypes :
       \/ /\ isInArray(f, t) = {}
          /\ APL_list' = Append(APL_list, NewTarget(f, t, adds'))
          /\ UNCHANGED edt
       \/ \E i \in isInArray(f, t) :
            /\ APL_list' = [APL_list EXCEPT ![i].target_port = adds']
            /\ edt' = [at |-> "port", i |-> i]
  /\ UNCHANGED <<removals, hlaVars, simVars, disturbed>>

\* Mutant of SetPort: the text field is cleared before its port is read.
SetPortCleared ==
  /\ edt.at = "port"
  /\ APL_list' = [APL_list EXCEPT ![edt.i].target_port = 0]
  /\ edt' = [at |-> "idle", i |-> 1]
  /\ UNCHANGED <<adds, removals, hlaVars, simVars, disturbed>>

\* Add: a target that is listed gets the address, its ip before its port;
\* otherwise a new one is appended.
Add ==
  /\ edt.at = "idle" /\ adds < MaxAdds
  /\ adds' = adds + 1
  /\ \E f \in Flight, t \in TargetTypes :
       \/ /\ isInArray(f, t) = {}
          /\ APL_list' = Append(APL_list, NewTarget(f, t, adds'))
          /\ UNCHANGED edt
       \/ \E i \in isInArray(f, t) :
            /\ APL_list' = [APL_list EXCEPT ![i].target_ip = adds']
            /\ edt' = [at |-> "port", i |-> i]
  /\ UNCHANGED <<removals, hlaVars, simVars, disturbed>>

SetPort ==
  /\ edt.at = "port"
  /\ APL_list' = [APL_list EXCEPT ![edt.i].target_port = adds]
  /\ edt' = [at |-> "idle", i |-> 1]
  /\ UNCHANGED <<adds, removals, hlaVars, simVars, disturbed>>

\* The steps of the simulation thread at which a datagram is under construction.
Making == {"type", "near", "port", "ip", "pfd", "own", "nodata", "wait", "reroute",
           "point", "send", "log"}

\* The list gets shorter; entries move while the other threads hold an index.
Shorten(list) ==
  /\ edt.at = "idle" /\ removals < MaxRemovals
  /\ APL_list' = list
  /\ removals' = removals + 1
  /\ disturbed' = IF cb.at = "idle" THEN disturbed ELSE commands
  /\ out' = [out EXCEPT !.moved = @ \/ pc \in Making]
  /\ UNCHANGED <<edt, adds, hlaVars, pc, ind, todo, tempAPL>>

\* Delete removes the selected entry (and throws if none is selected).
Delete == \E i \in DOMAIN APL_list : Shorten(RemoveAt(APL_list, i))

Clear == Shorten(<<>>)

EventThread == Add \/ SetPort \/ Delete \/ Clear

-------------------------------------------------------------------------------
(* The HLA callback thread.                                                *)

\* An aircraft is discovered, sends its attributes, or is removed.
Changed == [absent |-> {"silent"}, silent |-> {"located", "absent"}, located |-> {"absent"}]

AircraftChanges ==
  /\ cb.at = "idle" /\ changes < MaxChanges
  /\ changes' = changes + 1
  /\ \E f \in Flight : \E state \in Changed[apl[f]] : apl' = [apl EXCEPT ![f] = state]
  /\ UNCHANGED <<APL_list, edtVars, cb, commands, latest, simVars, disturbed>>

\* aTCCmdMsgFlight is called.
ReceiveCommand ==
  /\ cb.at = "idle" /\ commands < MaxCommands
  /\ commands' = commands + 1
  /\ \E c \in Command :
       /\ c.no = commands'
       /\ cb' = [at |-> "test", i |-> 1, cmd |-> c]
       /\ latest' = [latest EXCEPT ![c.flt] = c]
  /\ UNCHANGED <<APL_list, edtVars, changes, apl, simVars, disturbed>>

\* Mutant of TestEntry: the flight is not compared.
TestEntryOfAnyFlight ==
  /\ cb.at = "test"
  /\ cb' = IF cb.i > Len(APL_list) THEN NoSend ELSE [cb EXCEPT !.at = "point"]
  /\ UNCHANGED <<APL_list, edtVars, commands, changes, apl, latest, simVars, disturbed>>

\* The loop over the list: the flight of the entry is compared...
TestEntry ==
  /\ cb.at = "test"
  /\ cb' = IF cb.i > Len(APL_list) THEN NoSend
           ELSE IF APL_list[cb.i].APLNo = cb.cmd.flt THEN [cb EXCEPT !.at = "point"]
           ELSE [cb EXCEPT !.i = @ + 1]
  /\ UNCHANGED <<APL_list, edtVars, commands, changes, apl, latest, simVars, disturbed>>

\* ... and its fields are written one after the other, each to the entry that
\* is at the index now.  An index beyond the list throws and ends the callback.
WriteField(at, field, next) ==
  /\ cb.at = at
  /\ IF cb.i > Len(APL_list)
       THEN cb' = NoSend /\ UNCHANGED APL_list
       ELSE cb' = next /\ APL_list' = [APL_list EXCEPT ![cb.i] = field]
  /\ UNCHANGED <<edtVars, commands, changes, apl, latest, simVars, disturbed>>

\* Mutant of Noted: the type is written before the point.
NotedTypeFirst(i, name) ==
  [APL_list[i] EXCEPT ![IF name = "cmdType" THEN "TargetPointID" ELSE "cmdType"] = cb.cmd]

Noted(i, name) == [APL_list[i] EXCEPT ![name] = cb.cmd]

WritePoint == WriteField("point", Noted(cb.i, "TargetPointID"), [cb EXCEPT !.at = "cmd"])

\* Mutant of WriteCmdType: the loop ends with the first target of the flight.
WriteCmdTypeOnce == WriteField("cmd", Noted(cb.i, "cmdType"), NoSend)

WriteCmdType ==
  WriteField("cmd", Noted(cb.i, "cmdType"), [cb EXCEPT !.at = "test", !.i = @ + 1])

Callback == TestEntry \/ WritePoint \/ WriteCmdType

HlaThread == AircraftChanges \/ ReceiveCommand \/ Callback

-------------------------------------------------------------------------------
(* The simulation thread: simulate and APLexec.                            *)

Sim(at) == pc = at /\ UNCHANGED <<APL_list, edtVars, hlaVars, disturbed>>

\* APL_list.get(APL_ind), where it does not throw.
Listed == ind <= Len(APL_list)
Get    == APL_list[ind]

\* Steps that call APL_list.get(APL_ind).
Reads == (Making \union {"check"}) \ {"send"}

\* The locals of the loop over the aircraft are gone, those of the loop over the
\* list too, or those of the thread.
NextAircraft == pc' = "check" /\ tempAPL' = "none" /\ out' = NoText /\ UNCHANGED <<ind, todo>>
NextEntry    == pc' = "entry" /\ tempAPL' = "none" /\ out' = NoText /\ todo' = {} /\ ind' = ind + 1
Throws       == pc' = "dead"  /\ tempAPL' = "none" /\ out' = NoText /\ todo' = {} /\ ind' = 1

\* The loop of simulate, and the copy of the list of aircraft in APLexec.
TakeEntry ==
  /\ Sim("entry")
  /\ IF Listed
       THEN /\ todo' = {f \in Flight : apl[f] # "absent"}
            /\ pc' = "check" /\ ind' = ind
       ELSE /\ pc' = "sleep" /\ ind' = 1 /\ todo' = {}
  /\ UNCHANGED <<tempAPL, out>>

WakeUp ==
  /\ Sim("sleep")
  /\ pc' = "entry"
  /\ UNCHANGED <<ind, todo, tempAPL, out>>

\* Mutant of Check: an entry without an aircraft ends the pass.
CheckEndsPass ==
  /\ Sim("check")
  /\ \/ todo = {} /\ NextEntry
     \/ /\ todo # {} /\ Listed /\ apl[Get.APLNo] = "absent"
        /\ ind' = 1 /\ pc' = "sleep" /\ tempAPL' = "none" /\ todo' = {} /\ out' = NoText
     \/ /\ todo # {} /\ Listed /\ apl[Get.APLNo] # "absent"
        /\ tempAPL' \in todo /\ todo' = todo \ {tempAPL'}
        /\ pc' = "type" /\ ind' = ind /\ out' = NoText

\* The loop over the aircraft, which ends early while the flight has none.  A new
\* datagram is begun with an index that is in the list.
Check ==
  /\ Sim("check")
  /\ \/ todo = {} /\ NextEntry
     \/ todo # {} /\ Listed /\ apl[Get.APLNo] = "absent" /\ NextEntry
     \/ /\ todo # {} /\ Listed /\ apl[Get.APLNo] # "absent"
        /\ tempAPL' \in todo /\ todo' = todo \ {tempAPL'}
        /\ pc' = "type" /\ ind' = ind /\ out' = NoText

TypeOfTarget ==
  /\ Sim("type") /\ Listed
  /\ IF Get.target_type = "PFD"
       THEN pc' = "port" /\ out' = [out EXCEPT !.text = "PFD"]
       ELSE pc' = "near" /\ UNCHANGED out
  /\ UNCHANGED <<ind, todo, tempAPL>>

\* Positions can be read: the aircraft is there and has sent its attributes.  An
\* aircraft that was removed meanwhile keeps those it had, if any.
Known(f) == apl[f] = "located"

\* isTraffciAPL: the own aircraft is looked up again, and positions that were
\* never sent throw.
Near ==
  /\ Sim("near") /\ Listed
  /\ \/ /\ Known(Get.APLNo) /\ apl[tempAPL] # "silent"
        /\ pc' = "port" /\ UNCHANGED <<ind, todo, tempAPL, out>>
     \/ /\ Known(Get.APLNo) /\ apl[tempAPL] # "silent" /\ Get.APLNo # tempAPL
        /\ NextAircraft
     \/ ~(Known(Get.APLNo) /\ Known(tempAPL)) /\ Throws

Port ==
  /\ Sim("port") /\ Listed
  /\ out' = [out EXCEPT !.port = Get.target_port]
  /\ pc' = "ip"
  /\ UNCHANGED <<ind, todo, tempAPL>>

Ip ==
  /\ Sim("ip") /\ Listed
  /\ out' = [out EXCEPT !.ip = Get.target_ip]
  /\ pc' = IF out.text = "PFD" THEN "pfd" ELSE "own"
  /\ UNCHANGED <<ind, todo, tempAPL>>

\* The flight data for a PFD: one datagram, then the next entry.
SendPFD ==
  /\ Sim("pfd") /\ Listed
  /\ IF Known(Get.APLNo) THEN NextEntry ELSE Throws

\* The text of a CDTI: 603 for traffic...
OwnOrTraffic ==
  /\ Sim("own") /\ Listed
  /\ LET own == Get.APLNo = tempAPL
     IN  /\ out' = [out EXCEPT !.flt = Get.APLNo, !.about = tempAPL,
                               !.text = IF own THEN @ ELSE "603"]
         /\ pc' = IF own THEN "nodata" ELSE "send"
  /\ UNCHANGED <<ind, todo, tempAPL>>

\* ... 600, 601 or 602 for the flight itself, by three looks at cmdType.
Compare(at, type, text, ifSo, ifNot) ==
  /\ Sim(at) /\ Listed
  /\ IF Get.cmdType.type = type
       THEN pc' = ifSo /\ out' = [out EXCEPT !.text = text, !.cmdType = Get.cmdType]
       ELSE pc' = ifNot /\ UNCHANGED out
  /\ UNCHANGED <<ind, todo, tempAPL>>

IsNoData  == Compare("nodata", "NODATA", "600", "send", "wait")
IsWait    == Compare("wait", "WAIT", "601", "point", "reroute")
IsReroute == Compare("reroute", "REROUTE", "602", "point", "send")

Point ==
  /\ Sim("point") /\ Listed
  /\ out' = [out EXCEPT !.point = Get.TargetPointID]
  /\ pc' = "send"
  /\ UNCHANGED <<ind, todo, tempAPL>>

\* sendAPL: text.getBytes() throws if there is no text.
SendAPL ==
  /\ Sim("send")
  /\ IF out.text = "none"
       THEN Throws
       ELSE pc' = "log" /\ UNCHANGED <<ind, todo, tempAPL, out>>

LogSend == Sim("log") /\ Listed /\ NextAircraft

\* The list has become shorter than the index: the exception ends the thread.
IndexBeyondList ==
  /\ pc \in Reads /\ Sim(pc)
  /\ ~Listed /\ ~(pc = "check" /\ todo = {})
  /\ Throws

APLexec ==
  \/ Check \/ TypeOfTarget \/ Near \/ Port \/ Ip \/ SendPFD \/ OwnOrTraffic
  \/ IsNoData \/ IsWait \/ IsReroute \/ Point \/ SendAPL \/ LogSend \/ IndexBeyondList

SimulationThread == TakeEntry \/ WakeUp \/ APLexec

Next == EventThread \/ HlaThread \/ SimulationThread

Spec == Init /\ [][Next]_vars

\* The simulation loops, and the other threads finish the handlers they are in.
FairSpec ==
  Spec /\ WF_vars(SimulationThread) /\ WF_vars(Callback) /\ WF_vars(SetPort)

-------------------------------------------------------------------------------
(* Correctness.                                                            *)

TypeOK ==
  /\ APL_list \in Seq(Entry)
  /\ edt \in [at : {"idle", "port"}, i : 1..MaxAdds + 1]
  /\ adds \in 0..MaxAdds /\ removals \in 0..MaxRemovals
  /\ cb \in [at : {"idle", "test", "point", "cmd"}, i : 1..MaxAdds + 1,
             cmd : Command \union {NoCommand}]
  /\ commands \in 0..MaxCommands /\ changes \in 0..MaxChanges
  /\ apl \in [Flight -> {"absent", "silent", "located"}]
  /\ pc \in {"entry", "sleep", "send", "dead"} \union Reads
  /\ ind \in 1..MaxAdds + 1
  /\ todo \subseteq Flight /\ tempAPL \in Flight \union {"none"}
  /\ out \in [flt : Flight \union {"none"}, about : Flight \union {"none"},
              ip : 0..MaxAdds, port : 0..MaxAdds,
              text : {"none", "600", "601", "602", "603", "PFD"},
              point : Command \union {NoCommand}, cmdType : Command \union {NoCommand},
              moved : BOOLEAN]
  /\ latest \in [Flight -> Command \union {NoCommand}]
  /\ disturbed \in 0..MaxCommands

\* A display is listed once for a flight and type: redirecting it never leaves
\* the old address behind.
UniqueTargets ==
  \A i, j \in DOMAIN APL_list :
    /\ APL_list[i].APLNo = APL_list[j].APLNo
    /\ APL_list[i].target_type = APL_list[j].target_type
    => i = j

\* A command is only with the flight that it names, however the targets are
\* listed, redirected and removed; an entry that is removed while a command goes
\* through the list can disturb that command, and none after it.
CommandForFlight ==
  \A i \in DOMAIN APL_list :
    \A c \in {APL_list[i].TargetPointID, APL_list[i].cmdType} :
      c.no > disturbed => c.flt = APL_list[i].APLNo

\* The entry shows the command with its point, or was added after it.
Shows(e, c) ==
  /\ e.TargetPointID = e.cmdType
  /\ e.cmdType = c \/ (e.cmdType = NoCommand /\ e.since >= c.no)

Distributed(f) == cb.at # "idle" /\ cb.cmd.flt = f

\* The last command that was received for a flight is what every target of that
\* flight shows, from the return of the callback to the next command for it,
\* however many other flights get commands; targets added later show none.
LatestEverywhere ==
  \A i \in DOMAIN APL_list :
    LET e == APL_list[i]
        c == latest[e.APLNo]
    IN  c.no > disturbed /\ ~Distributed(e.APLNo) => Shows(e, c)

\* The datagram is complete: it is about to be sent, or has just been.
Complete == pc \in {"send", "log", "pfd"}

\* A 601 or 602 about a flight goes to a display of that flight, carries a
\* point that was sent for it, and the point is never older than the command.
PointNotOlder ==
  (~out.moved /\ Complete /\ out.text \in {"601", "602"}) =>
    /\ out.flt = out.about
    /\ out.cmdType.no > disturbed =>
         out.point.flt = out.flt /\ out.point.no >= out.cmdType.no

\* While a target is redirected, a datagram may go to the new ip with the old
\* port, but never to the new port of the old ip.
PortNotNewer == (~out.moved /\ Complete) => out.port <= out.ip

\* "Decide between 600/601/602" (the comment in APLexec): the text about the
\* flight itself is one of the three.
OwnTextDecided == pc = "send" => out.text # "none"

\* A CDTI that stays listed for an aircraft that keeps its position is sent that
\* position again and again, whatever is done to the other targets.
Served(f) == pc = "log" /\ out.flt = f /\ out.about = f
Steady(f) ==
  /\ pc # "dead" /\ apl[f] = "located"
  /\ \E i \in DOMAIN APL_list : APL_list[i].APLNo = f /\ APL_list[i].target_type = "CDTI"
SteadilyServed == \A f \in Flight : <>[]Steady(f) => []<>Served(f)

-------------------------------------------------------------------------------
(* The inductive invariant behind the properties above.                    *)

\* An index that a thread holds is one of the list as long as nothing has been
\* removed since the thread began to use it.
IndexInv ==
  /\ Len(APL_list) <= adds
  /\ edt.at = "port" => edt.i \in DOMAIN APL_list
  /\ cb.i <= adds + 1 /\ ind <= adds + 1
  /\ pc \notin {"entry", "sleep", "dead"} => ind <= adds
  /\ pc \in Making /\ ~out.moved => Listed
  /\ disturbed <= commands
  /\ disturbed < commands =>
       /\ cb.at = "test" => cb.i <= Len(APL_list) + 1
       /\ cb.at \in {"point", "cmd"} =>
            cb.i \in DOMAIN APL_list /\ APL_list[cb.i].APLNo = cb.cmd.flt

\* The port of an entry is never newer than its ip.
AddressInv ==
  /\ \A i \in DOMAIN APL_list :
       APL_list[i].target_port <= APL_list[i].target_ip /\ APL_list[i].target_ip <= adds
  /\ edt.at = "port" => APL_list[edt.i].target_ip = adds

\* The command that is distributed is the newest, and a point is never older
\* than the type it is with.
CommandInv ==
  /\ cb.at # "idle" =>
       cb.cmd \in Command /\ cb.cmd.no = commands /\ latest[cb.cmd.flt] = cb.cmd
  /\ \A f \in Flight : latest[f].no <= commands
  /\ \A i \in DOMAIN APL_list :
       /\ APL_list[i].TargetPointID.no <= commands /\ APL_list[i].cmdType.no <= commands
       /\ APL_list[i].cmdType.no > disturbed =>
            APL_list[i].TargetPointID.no >= APL_list[i].cmdType.no
  /\ cb.at = "cmd" /\ disturbed < commands => APL_list[cb.i].TargetPointID = cb.cmd

\* While a command is distributed, the entries that the callback has passed show
\* it.
PassedInv ==
  \A i \in DOMAIN APL_list :
    LET e == APL_list[i]
    IN  latest[e.APLNo].no > disturbed /\ Distributed(e.APLNo) /\ i < cb.i
          => e.TargetPointID = cb.cmd /\ e.cmdType = cb.cmd

\* What the datagram holds at each step of its making, and what of the entry it
\* was read from still holds.
DatagramInv ==
  /\ pc \in {"type", "near"} => out.text = "none"
  /\ pc \in {"port", "ip"} => out.text \in {"none", "PFD"}
  /\ pc = "pfd" => out.text = "PFD"
  /\ pc = "own" => out.text = "none"
  /\ pc \in {"nodata", "wait", "reroute"} => out.text = "none"
  /\ pc \in {"nodata", "wait", "reroute", "point"} => out.flt = out.about
  /\ pc = "point" => out.cmdType \in Command
  /\ ~out.moved =>
       /\ pc = "ip" => out.port <= Get.target_ip
       /\ pc \in {"own", "nodata", "wait", "reroute", "point"} => out.port <= out.ip
       /\ pc \in {"nodata", "wait", "reroute", "point"} => Get.APLNo = out.flt
       /\ pc = "point" /\ out.cmdType.no > disturbed =>
            Get.TargetPointID.no >= out.cmdType.no

FeedInv ==
  /\ TypeOK /\ IndexInv /\ AddressInv /\ CommandInv /\ PassedInv /\ DatagramInv
  /\ UniqueTargets /\ CommandForFlight /\ LatestEverywhere
  /\ PointNotOlder /\ PortNotNewer
===============================================================================
