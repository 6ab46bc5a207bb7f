----------------------------- MODULE FlightRelease ----------------------------
(***************************************************************************)
(* The terminal-area federate (TerminalArea/main.java and                  *)
(* TerminalManageDisplay.java): three threads share the aerodromes.        *)
(*                                                                         *)
(*   - the simulation thread (main.simulate) loads the aerodromes, fills   *)
(*     the hubs' queues, waits for the start and then visits every         *)
(*     aerodrome once per frame to release the flight that is due;         *)
(*   - the Swing event thread serves the buttons Generate, Set and         *)
(*     Execute;                                                            *)
(*   - the HLA callback thread copies the state and the clock of the       *)
(*     Master federate into sim_state, ref_start_time and ref_end_time.    *)
(*                                                                         *)
(* A step is a maximal stretch of one thread between two accesses to state *)
(* that another thread writes, in the order of the code.                   *)
(***************************************************************************)
EXTENDS WakeTurbulence, Sequences, FiniteSets, Functions

CONSTANTS
  Aerodrome,  \* identifiers in ADinfo.csv
  Hub,        \* ZSSS, ZGGG and ZBAA: filled and refilled by the simulation
  APLType,    \* weight categories of generated flights
  Pattern,    \* [Hub -> categories of one batch]: the arrays ZSSS, ZGGG, ZBAA
  Minute,     \* clock units in a minute (60 in the code)
  MaxJitter,  \* upper end of getRandomNumberInRange(0,20), in clock units
  Intervals,  \* release intervals: drawn by getADInfo, typed into the panel
  MaxPlan,    \* bound: flights in a generated plan
  MaxTime,    \* bound: the Master's clock
  MaxStep,    \* bound: advance of the clock between two updates
  NoFlight    \* "no flight plan in hand" and "empty row of the table"

ASSUME AerodromeAssumption == IsFiniteSet(Aerodrome) /\ Aerodrome # {}
ASSUME HubAssumption      == Hub \subseteq Aerodrome
ASSUME PatternAssumption  == Pattern \in [Hub -> Seq(Category) \ {<<>>}]
ASSUME CategoryAssumption == APLType \subseteq Category
ASSUME IntervalAssumption == Intervals \subseteq Int
ASSUME BoundAssumption    == /\ Minute \in Nat /\ MaxJitter \in Nat
                             /\ MaxPlan \in Nat /\ MaxTime \in Nat /\ MaxStep \in Nat
ASSUME NoFlightAssumption == NoFlight \notin Flights(Aerodrome)

VARIABLES
  master_time, master_state,      \* attributes of the object "Master"
  cb,                             \* where the HLA callback thread is
  sim_state, ind_resume, ref_start_time, ref_end_time,
  edt,                            \* where the event thread is
  ind_start, enabled,             \* Execute pressed; Generate still enabled
  FLP_list, offered,              \* the plan; its flights already queued
  AD_set,                         \* aerodromes in iteration order; <<>> is null
  FLPque, ReleasedFLP, ref_time, time_interval,   \* fields of ADStruct
  tableValues,                    \* the hubs' tables shown by the event thread
  pc, i, temp_FLP, gap            \* the simulation thread and its locals

masterVars  == <<master_time, master_state>>
refVars     == <<ind_resume, ref_start_time, ref_end_time>>
hlaVars     == <<masterVars, cb, sim_state, refVars>>
panelVars   == <<edt, ind_start, enabled, FLP_list, offered>>
adVars      == <<FLPque, ReleasedFLP, ref_time, time_interval>>
simVars     == <<pc, i, temp_FLP, gap>>
vars        == <<hlaVars, panelVars, AD_set, adVars, tableValues, simVars>>

Flight  == Flights(Aerodrome)
Release == [flp : Flight, time : Int, time_interval : Int]

\* updateDisplayData: five rows, of which up to three show released flights.
Rows         == 5
ReleasedRows == 3
Row          == [flp : Flight \union {NoFlight}, released : BOOLEAN]
EmptyRow     == [flp |-> NoFlight, released |-> FALSE]

\* The aerodrome that the simulation thread is visiting.
ad == AD_set[i]

LastOf(s) == s[Len(s)]
Least(m, n)   == IF m <= n THEN m ELSE n
Longest(m, n) == IF m >= n THEN m ELSE n

Init ==
  /\ master_time = 0 /\ master_state \in {"FROZEN", "RUNNING"}
  /\ cb = "idle"
  /\ sim_state = "FROZEN"
  /\ ind_resume = TRUE /\ ref_start_time = 0 /\ ref_end_time = 0
  /\ edt = "idle" /\ ind_start = FALSE /\ enabled = TRUE
  /\ FLP_list = <<>> /\ offered = 0
  /\ AD_set = <<>>
  /\ FLPque = [a \in Aerodrome |-> <<>>]
  /\ ReleasedFLP = [a \in Aerodrome |-> <<>>]
  /\ ref_time = [a \in Aerodrome |-> 0]
  /\ time_interval \in [Aerodrome -> Intervals]
  /\ tableValues = [h \in Hub |-> [r \in 1..Rows |-> EmptyRow]]
  /\ pc = "load" /\ i = 1 /\ temp_FLP = NoFlight /\ gap = 0

-------------------------------------------------------------------------------
(* The Master federate and the HLA callback thread.                        *)

\* An update of the object "Master" arrives and its new attribute values
\* become visible, before the listener has run.
MasterReflect ==
  /\ cb = "idle"
  /\ \E d \in 0..MaxStep :
       /\ master_time + d <= MaxTime
       /\ master_time' = master_time + d
  /\ master_state' \in {"FROZEN", "RUNNING"}
  /\ cb' = "state"
  /\ UNCHANGED <<sim_state, refVars, panelVars, AD_set, adVars, tableValues, simVars>>

\* simulationTimeUpdated, first half: the state of the simulation.
CopyState ==
  /\ cb = "state"
  /\ sim_state' = master_state
  /\ cb' = "time"
  /\ UNCHANGED <<masterVars, refVars, panelVars, AD_set, adVars, tableValues, simVars>>

\* Mutant of CopyTime: the start is never acknowledged.
CopyTimeKeepsResume ==
  /\ cb = "time"
  /\ IF ind_resume /\ ind_start
       THEN ref_start_time' = master_time /\ UNCHANGED <<ref_end_time, ind_resume>>
       ELSE ref_end_time' = master_time /\ UNCHANGED <<ref_start_time, ind_resume>>
  /\ cb' = "idle"
  /\ UNCHANGED <<masterVars, sim_state, panelVars, AD_set, adVars, tableValues, simVars>>

\* simulationTimeUpdated, second half: the first update after Execute is the
\* start of the release, every later one moves the clock.
CopyTime ==
  /\ cb = "time"
  /\ IF ind_resume /\ ind_start
       THEN /\ ref_start_time' = master_time
            /\ ind_resume' = FALSE
            /\ UNCHANGED ref_end_time
       ELSE /\ ref_end_time' = IF ind_resume THEN ref_end_time ELSE master_time
            /\ UNCHANGED <<ref_start_time, ind_resume>>
  /\ cb' = "idle"
  /\ UNCHANGED <<masterVars, sim_state, panelVars, AD_set, adVars, tableValues, simVars>>

HlaThread == MasterReflect \/ CopyState \/ CopyTime

-------------------------------------------------------------------------------
(* The Swing event thread.                                                 *)

\* generateFLPInfo: none of the flights departs from a hub.  MaxPlan bounds the
\* number typed into the panel.
Numbered(p) == [k \in DOMAIN p |-> [dep |-> p[k].dep, no |-> k, type |-> p[k].type]]
Plans ==
  {Numbered(p) : p \in UNION {[1..n -> [dep : Aerodrome \ Hub, type : APLType]] :
                                n \in 0..MaxPlan}}

\* Generate, up to the loop that queues the flights.  While AD_set is null the
\* loop throws at its first flight: nothing is queued, the button stays enabled
\* and the plan may be made anew.
Generate ==
  /\ edt = "idle" /\ enabled
  /\ FLP_list' \in Plans
  /\ offered' = 0
  /\ edt' = IF FLP_list' # <<>> /\ AD_set # <<>> THEN "offering" ELSE "idle"
  /\ enabled' = (FLP_list' # <<>>)
  /\ UNCHANGED <<hlaVars, ind_start, AD_set, adVars, tableValues, simVars>>

\* Mutant of Offer: the button stays enabled after the last flight.
OfferKeepsEnabled ==
  /\ edt = "offering"
  /\ offered' = offered + 1
  /\ LET flp == FLP_list[offered + 1]
     IN  FLPque' = [FLPque EXCEPT ![flp.dep] = Append(@, flp)]
  /\ edt' = IF offered + 1 = Len(FLP_list) THEN "idle" ELSE edt
  /\ UNCHANGED <<hlaVars, ind_start, enabled, FLP_list, AD_set, ReleasedFLP, ref_time,
                 time_interval, tableValues, simVars>>

\* One turn of the loop: the flight joins the queue of its aerodrome.  After
\* the last one the button is disabled.
Offer ==
  /\ edt = "offering"
  /\ offered' = offered + 1
  /\ LET flp == FLP_list[offered + 1]
     IN  FLPque' = [FLPque EXCEPT ![flp.dep] = Append(@, flp)]
  /\ IF offered + 1 = Len(FLP_list)
       THEN edt' = "idle" /\ enabled' = FALSE
       ELSE UNCHANGED <<edt, enabled>>
  /\ UNCHANGED <<hlaVars, ind_start, FLP_list, AD_set, ReleasedFLP, ref_time,
                 time_interval, tableValues, simVars>>

\* Set: the release interval of the selected aerodrome.
SetInterval ==
  /\ edt = "idle" /\ AD_set # <<>>
  /\ \E a \in Aerodrome, n \in Intervals : time_interval' = [time_interval EXCEPT ![a] = n]
  /\ UNCHANGED <<hlaVars, panelVars, AD_set, FLPque, ReleasedFLP, ref_time,
                 tableValues, simVars>>

\* Mutant of Execute: accepted at any time.
ExecuteAnyTime ==
  /\ edt = "idle"
  /\ ind_start' = TRUE
  /\ UNCHANGED <<hlaVars, edt, enabled, FLP_list, offered, AD_set, adVars,
                 tableValues, simVars>>

\* Execute: accepted once the plan has been generated.
Execute ==
  /\ edt = "idle" /\ ~enabled
  /\ ind_start' = TRUE
  /\ UNCHANGED <<hlaVars, edt, enabled, FLP_list, offered, AD_set, adVars,
                 tableValues, simVars>>

EventThread == Generate \/ Offer \/ SetInterval \/ Execute

-------------------------------------------------------------------------------
(* The simulation thread: main.simulate.                                   *)

\* connect, getADInfo and createADEntity.  The iteration order of the HashSet
\* is arbitrary but the same in every pass.
Load ==
  /\ pc = "load"
  /\ AD_set' \in {s \in [1..Cardinality(Aerodrome) -> Aerodrome] : IsInjective(s)}
  /\ pc' = "fill"
  /\ UNCHANGED <<hlaVars, panelVars, adVars, tableValues, i, temp_FLP, gap>>

\* Mutant of Batch: the loop starts at the second category.
BatchFromSecond(h) ==
  [k \in 1..(Len(Pattern[h]) - 1) |->
     [dep |-> h, no |-> Len(ReleasedFLP[h]) + k, type |-> Pattern[h][k + 1]]]

\* A batch of flights made by getSpecialFLP for hub h.
Batch(h) ==
  [k \in 1..Len(Pattern[h]) |->
     [dep |-> h, no |-> Len(ReleasedFLP[h]) + k, type |-> Pattern[h][k]]]

WaitingRow(flp)  == [flp |-> flp, released |-> FALSE]
ReleasedRow(flp) == [flp |-> flp, released |-> TRUE]

\* updateDisplayData, init_state: the head of the queue.
InitialTable(table, que) ==
  [r \in 1..Rows |-> IF r <= Len(que) THEN WaitingRow(que[r]) ELSE table[r]]

\* Mutant of UpdatedTable: the first three releases instead of the last three.
UpdatedTableFirst(table, rel, que) ==
  LET n == Least(ReleasedRows, Len(rel))
  IN  [r \in 1..Rows |->
         IF r <= n THEN ReleasedRow(rel[r].flp)
         ELSE IF n > 0 /\ r - n <= Len(que) THEN WaitingRow(que[r - n])
         ELSE table[r]]

\* updateDisplayData while the plan is carried out: the last three releases,
\* below them the head of the queue.  Rows beyond the queue keep their content.
UpdatedTable(table, rel, que) ==
  LET n == Least(ReleasedRows, Len(rel))
  IN  [r \in 1..Rows |->
         IF r <= n THEN ReleasedRow(rel[Len(rel) - n + r].flp)
         ELSE IF n > 0 /\ r - n <= Len(que) THEN WaitingRow(que[r - n])
         ELSE table[r]]

Fill ==
  /\ pc = "fill"
  /\ FLPque' = [a \in Aerodrome |-> IF a \in Hub THEN FLPque[a] \o Batch(a) ELSE FLPque[a]]
  /\ tableValues' = [h \in Hub |-> InitialTable(tableValues[h], FLPque'[h])]
  /\ pc' = "wait"
  /\ UNCHANGED <<hlaVars, panelVars, AD_set, ReleasedFLP, ref_time, time_interval,
                 i, temp_FLP, gap>>

\* The start: every aerodrome counts its first interval from ref_start_time.
Start ==
  /\ pc = "wait"
  /\ ind_start /\ ~ind_resume
  /\ ref_time' = [a \in Aerodrome |-> ref_start_time]
  /\ pc' = "frame"
  /\ UNCHANGED <<hlaVars, panelVars, AD_set, FLPque, ReleasedFLP, time_interval,
                 tableValues, i, temp_FLP, gap>>

\* The head of a frame: sim_state is read once, for the whole pass.
BeginPass ==
  /\ pc = "frame"
  /\ sim_state = "RUNNING"
  /\ i' = 1
  /\ pc' = "visit"
  /\ UNCHANGED <<hlaVars, panelVars, AD_set, adVars, tableValues, temp_FLP, gap>>

\* Mutant of NextAerodrome: break where the code says continue.
NextAerodromeBreaks ==
  /\ i' = i + 1
  /\ pc' = "frame"

\* The end of an iteration: the next aerodrome, or the next frame.
NextAerodrome ==
  /\ i' = i + 1
  /\ pc' = IF i < Len(AD_set) THEN "visit" ELSE "frame"

Due(interval) == ref_end_time - ref_time[ad] >= interval

\* Mutant of Poll: peek without poll.
PollKeepsHead(que, interval) ==
  /\ FLPque' = [FLPque EXCEPT ![ad] = que]
  /\ temp_FLP' = Head(que)
  /\ gap' = interval
  /\ pc' = "release"
  /\ i' = i

\* The head of the queue is taken out, to be released by the next step.
Poll(que, interval) ==
  /\ FLPque' = [FLPque EXCEPT ![ad] = Tail(que)]
  /\ temp_FLP' = Head(que)
  /\ gap' = interval
  /\ pc' = "release"
  /\ i' = i

\* The first release of an aerodrome: no wake turbulence to wait for.
VisitFirst ==
  /\ pc = "visit" /\ ReleasedFLP[ad] = <<>>
  /\ IF Due(time_interval[ad]) /\ FLPque[ad] # <<>>
       THEN Poll(FLPque[ad], time_interval[ad])
       ELSE pc' = "display" /\ UNCHANGED <<FLPque, i, temp_FLP, gap>>
  /\ UNCHANGED <<hlaVars, panelVars, AD_set, ReleasedFLP, ref_time, time_interval,
                 tableValues>>

\* A later release: a hub's empty queue is filled again, an aerodrome without
\* a flight is skipped, and the flight at the head waits for the longer of its
\* wake-turbulence minimum (with a jitter drawn at every visit) and the interval.
VisitNext ==
  /\ pc = "visit" /\ ReleasedFLP[ad] # <<>>
  /\ LET que == IF ad \in Hub /\ FLPque[ad] = <<>> THEN Batch(ad) ELSE FLPque[ad]
     IN  \/ /\ que = <<>>
            /\ NextAerodrome
            /\ UNCHANGED <<FLPque, temp_FLP, gap>>
         \/ /\ que # <<>>
            /\ \E jitter \in 0..MaxJitter :
                 LET wake == WTC_ref[Head(que).type][LastOf(ReleasedFLP[ad]).flp.type]
                               * Minute + jitter
                     interval == Longest(wake, time_interval[ad])
                 IN  IF Due(interval)
                       THEN Poll(que, interval)
                       ELSE /\ FLPque' = [FLPque EXCEPT ![ad] = que]
                            /\ pc' = "display"
                            /\ UNCHANGED <<i, temp_FLP, gap>>
  /\ UNCHANGED <<hlaVars, panelVars, AD_set, ReleasedFLP, ref_time, time_interval,
                 tableValues>>

\* Mutant of SendFlightPlan: the next interval is counted from the clock of the
\* last callback, not from the time stamped on the flight.
SendFlightPlanStale ==
  /\ pc = "release"
  /\ LET first == ReleasedFLP[ad] = <<>>
         r == [flp |-> temp_FLP, time |-> master_time,
               time_interval |-> IF first THEN time_interval[ad] ELSE gap]
     IN  ReleasedFLP' = [ReleasedFLP EXCEPT ![ad] = Append(@, r)]
  /\ ref_time' = [ref_time EXCEPT ![ad] = ref_end_time]
  /\ temp_FLP' = NoFlight /\ gap' = 0
  /\ pc' = "display"
  /\ UNCHANGED <<hlaVars, panelVars, AD_set, FLPque, time_interval, tableValues, i>>

\* The release itself, at the time the Master shows now.  The first release
\* records the interval that is set now, a later one the interval it waited for.
SendFlightPlan ==
  /\ pc = "release"
  /\ LET first == ReleasedFLP[ad] = <<>>
         r == [flp |-> temp_FLP, time |-> master_time,
               time_interval |-> IF first THEN time_interval[ad] ELSE gap]
     IN  ReleasedFLP' = [ReleasedFLP EXCEPT ![ad] = Append(@, r)]
  /\ ref_time' = [ref_time EXCEPT ![ad] = master_time]
  /\ temp_FLP' = NoFlight /\ gap' = 0
  /\ pc' = "display"
  /\ UNCHANGED <<hlaVars, panelVars, AD_set, FLPque, time_interval, tableValues, i>>

\* The Master has left the federation, or sendInteraction throws: the exception
\* ends the simulation thread between the removal from the queue and the record.
SendFails ==
  /\ pc = "release"
  /\ ref_time' \in {ref_time, [ref_time EXCEPT ![ad] = master_time]}
  /\ pc' = "dead"
  /\ UNCHANGED <<hlaVars, panelVars, AD_set, FLPque, ReleasedFLP, time_interval,
                 tableValues, i, temp_FLP, gap>>

\* updateDisplayData for the three hubs, then the next aerodrome.
UpdateDisplay ==
  /\ pc = "display"
  /\ tableValues' = [h \in Hub |-> UpdatedTable(tableValues[h], ReleasedFLP[h], FLPque[h])]
  /\ NextAerodrome
  /\ UNCHANGED <<hlaVars, panelVars, AD_set, adVars, temp_FLP, gap>>

Frame == BeginPass \/ VisitFirst \/ VisitNext \/ SendFlightPlan \/ UpdateDisplay

SimulationThread == Load \/ Fill \/ Start \/ Frame \/ SendFails

Next == HlaThread \/ EventThread \/ SimulationThread

Spec == Init /\ [][Next]_vars

\* The threads run: the simulation loops without blocking, the event thread
\* finishes the handler it is in, and updates of the Master keep arriving and
\* are handed to the listener.  Nobody has to press a button, and nothing
\* has to fail.
FairSpec ==
  /\ Spec
  /\ WF_vars(Load \/ Fill \/ Start \/ Frame)
  /\ WF_vars(Offer)
  /\ WF_vars(HlaThread)

-------------------------------------------------------------------------------
(* Correctness.                                                            *)

InPass == {"visit", "release", "display"}

\* Every variable keeps its type.
TypeOK ==
  /\ master_time \in Int /\ master_state \in {"FROZEN", "RUNNING"}
  /\ cb \in {"idle", "state", "time"}
  /\ sim_state \in {"FROZEN", "RUNNING"}
  /\ ind_resume \in BOOLEAN /\ ref_start_time \in Int /\ ref_end_time \in Int
  /\ edt \in {"idle", "offering"}
  /\ ind_start \in BOOLEAN /\ enabled \in BOOLEAN
  /\ FLP_list \in Seq(Flight) /\ offered \in 0..Len(FLP_list)
  /\ AD_set \in Seq(Aerodrome)
  /\ FLPque \in [Aerodrome -> Seq(Flight)]
  /\ ReleasedFLP \in [Aerodrome -> Seq(Release)]
  /\ ref_time \in [Aerodrome -> Int]
  /\ time_interval \in [Aerodrome -> Int]
  /\ tableValues \in [Hub -> [1..Rows -> Row]]
  /\ pc \in {"load", "fill", "wait", "frame", "dead"} \union InPass
  /\ i \in Nat \ {0}
  /\ temp_FLP \in Flight \union {NoFlight}
  /\ gap \in Int

\* The flight taken out of the queue of a and not yet recorded as released.
InHand(a) == IF temp_FLP # NoFlight /\ temp_FLP.dep = a THEN <<temp_FLP>> ELSE <<>>
Departed(a) == [k \in 1..Len(ReleasedFLP[a]) |-> ReleasedFLP[a][k].flp]
Waiting(a) == InHand(a) \o FLPque[a]

\* All flights that joined the queue of a, in the order in which they depart.
Line(a) == Departed(a) \o Waiting(a)

\* Two consecutive releases of an aerodrome are at least the interval recorded
\* for the second one apart, and that interval covers the wake-turbulence
\* minimum of the pair, although the condition is tested with the clock of the
\* last callback and the release is stamped with the Master's own clock.
Separation ==
  \A a \in Aerodrome : \A k \in 2..Len(ReleasedFLP[a]) :
    LET prev == ReleasedFLP[a][k - 1]
        this == ReleasedFLP[a][k]
    IN  /\ this.time - prev.time >= this.time_interval
        /\ this.time_interval >= WTC_ref[this.flp.type][prev.flp.type] * Minute

\* A LinkedList is not safe for two threads: while the event thread is queueing
\* the generated flights, the simulation thread is not in a pass, and the
\* flights go to queues that the simulation thread does not fill.
QueueOwnership ==
  edt = "offering" =>
    /\ pc \in {"load", "fill", "wait"}
    /\ \A k \in 1..Len(FLP_list) : FLP_list[k].dep \notin Hub

\* The flights of a departing line are those of the first n of a plan that
\* depart from a, in the order of the plan.
InOrder(a, line, plan, n) ==
  /\ \A k \in 1..Len(line) :
       /\ line[k].no \in 1..n
       /\ line[k] = plan[line[k].no] /\ line[k].dep = a
       /\ \A j \in 1..k - 1 : line[j].no < line[k].no
  /\ \A m \in 1..n : plan[m].dep = a => \E k \in 1..Len(line) : line[k] = plan[m]

\* Every generated flight that was queued is, in the order of the plan, either
\* released or still waiting: none is overtaken or repeated, and none is dropped,
\* also when Generate had to be pressed again or the simulation thread has died.
FilingOrder == \A a \in Aerodrome \ Hub : InOrder(a, Line(a), FLP_list, offered)

\* A hub releases the categories of its pattern over and over, and a refill
\* continues the numbering: no batch is cut short, mixed or filled in twice.
HubCycle ==
  \A h \in Hub : \A k \in 1..Len(Line(h)) :
    Line(h)[k] = [dep |-> h, no |-> k,
                  type |-> Pattern[h][((k - 1) % Len(Pattern[h])) + 1]]

\* Between two visits the table of a hub shows its last releases, the newest
\* one lowest, and no row marked as released shows any other flight.
BoardShowsReleases ==
  pc \in {"frame", "visit"} =>
    \A h \in Hub :
      LET n == Least(ReleasedRows, Len(ReleasedFLP[h]))
      IN  \A r \in 1..Rows :
            tableValues[h][r].released <=>
              /\ r <= n
              /\ tableValues[h][r].flp = Departed(h)[Len(ReleasedFLP[h]) - n + r]

\* "3 released, 2 not released" (the comment on updateDisplayData): a flight
\* shown as waiting has not been released.
BoardShowsWaiting ==
  pc \in {"frame", "visit"} =>
    \A h \in Hub : \A r \in 1..Rows :
      (tableValues[h][r].flp # NoFlight /\ ~tableValues[h][r].released) =>
        \A k \in 1..Len(ReleasedFLP[h]) : Departed(h)[k] # tableValues[h][r].flp

\* The message printed with the first release, "released by the release
\* interval of N seconds": N seconds have passed since the start.
FirstIntervalKept ==
  \A a \in Aerodrome : ReleasedFLP[a] # <<>> =>
    ReleasedFLP[a][1].time - ref_start_time >= ReleasedFLP[a][1].time_interval

\* The departures of every aerodrome are a behaviour of ReleaseSequence: the
\* flight in hand of the simulation thread still counts as waiting.
RS == INSTANCE ReleaseSequence WITH
        waiting  <- [a \in Aerodrome |-> Waiting(a)],
        released <- ReleasedFLP
ReleaseSequence == RS!Spec

\* A flight at the head of a queue whose wait is over by any draw of the jitter.
Overdue(a) ==
  /\ pc \in {"frame"} \union InPass /\ sim_state = "RUNNING"
  /\ FLPque[a] # <<>>
  /\ ref_end_time - ref_time[a] >=
       IF ReleasedFLP[a] = <<>> THEN time_interval[a]
       ELSE Longest(WTC_ref[Head(FLPque[a]).type][LastOf(ReleasedFLP[a]).flp.type]
                      * Minute + MaxJitter, time_interval[a])

\* While the simulation runs no aerodrome starves: a flight that is overdue is
\* released, unless the simulation is frozen, the thread dies or its interval
\* is raised first.
OverdueIsReleased == \A a \in Aerodrome : Overdue(a) ~> ~Overdue(a)

\* Once Execute is pressed the simulation thread leaves its waiting loop,
\* whichever of ind_start and the Master's update comes first.
ExecuteStarts == ind_start ~> pc \notin {"load", "fill", "wait"}

-------------------------------------------------------------------------------
(* The inductive invariant behind Separation, QueueOwnership and the           *)
(* implementation of ReleaseSequence.                                          *)

BeforeStart == {"load", "fill", "wait"}

\* What the event thread guarantees: a plan is being queued only while Generate
\* is enabled, and passes begin only after Execute, which needs it disabled.
PanelInv ==
  /\ edt = "offering" => enabled /\ offered < Len(FLP_list)
  /\ ind_start => ~enabled
  /\ pc \notin BeforeStart => ind_start
  /\ pc # "load" => AD_set # <<>>
  /\ pc \in InPass => i \in 1..Len(AD_set)

\* The copies of the clock lag behind the Master, and a flight waits in the
\* queue of its own departure aerodrome.
QueueInv ==
  /\ ref_start_time <= master_time /\ ref_end_time <= master_time
  /\ \A a \in Aerodrome : \A k \in 1..Len(FLPque[a]) : FLPque[a][k].dep = a
  /\ \A k \in 1..Len(FLP_list) : FLP_list[k].dep \notin Hub

\* ref_time is the time of the last release, and what the test of VisitFirst or
\* VisitNext established still holds when the flight in hand is released.
ReleaseInv ==
  /\ pc \in BeforeStart => \A a \in Aerodrome : ReleasedFLP[a] = <<>>
  /\ pc # "dead" =>
       \A a \in Aerodrome : ReleasedFLP[a] # <<>> => ref_time[a] = LastOf(ReleasedFLP[a]).time
  /\ pc \notin {"release", "dead"} => temp_FLP = NoFlight
  /\ pc = "release" =>
       /\ temp_FLP \in Flight /\ temp_FLP.dep = ad
       /\ master_time - ref_time[ad] >= gap
       /\ ReleasedFLP[ad] # <<>> =>
            gap >= WTC_ref[temp_FLP.type][LastOf(ReleasedFLP[ad]).flp.type] * Minute

IInv == TypeOK /\ PanelInv /\ QueueInv /\ ReleaseInv /\ Separation

-------------------------------------------------------------------------------
(* The invariant that is inductive together with IInv, behind FilingOrder,     *)
(* HubCycle and BoardShowsReleases.                                            *)

\* The flights of a plan are numbered, and a plan that can be made anew has not
\* been queued.
PlanInv ==
  /\ \A n \in 1..Len(FLP_list) : FLP_list[n].no = n
  /\ enabled /\ edt = "idle" => offered = 0

\* A hub starts empty and receives whole batches.
BatchInv ==
  \A h \in Hub :
    /\ pc \in {"load", "fill"} => FLPque[h] = <<>>
    /\ \E n \in 0..Len(Line(h)) : Len(Line(h)) = n * Len(Pattern[h])

\* Only the rows of the last releases are marked as released, and they are up to
\* date whenever no release is under way.
LastReleases(h) == Least(ReleasedRows, Len(ReleasedFLP[h]))

BoardInv ==
  \A h \in Hub : \A r \in 1..Rows :
    /\ tableValues[h][r].released => r <= LastReleases(h)
    /\ pc \in {"frame", "visit"} /\ r <= LastReleases(h) =>
         tableValues[h][r] =
           ReleasedRow(Departed(h)[Len(ReleasedFLP[h]) - LastReleases(h) + r])

LineInv == PlanInv /\ BatchInv /\ BoardInv /\ FilingOrder /\ HubCycle
===============================================================================
