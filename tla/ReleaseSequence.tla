---------------------------- MODULE ReleaseSequence ---------------------------
(***************************************************************************)
(* What the terminal-area federate promises about the departures of every  *)
(* aerodrome: flight plans are released one at a time, in the order in     *)
(* which they were filed, each is released once, none is dropped, and      *)
(* every release after the first is separated from the release before it   *)
(* by the interval recorded with it, which covers the wake-turbulence      *)
(* minimum of the two weight categories.                                   *)
(***************************************************************************)
EXTENDS WakeTurbulence, Sequences

CONSTANTS
  Aerodrome,  \* the aerodromes
  Minute      \* clock units in a minute of the wake-turbulence table

VARIABLES
  waiting,    \* [Aerodrome -> sequence of flights filed and not released]
  released    \* [Aerodrome -> sequence of [flp, time, time_interval]]

vars == <<waiting, released>>

Init ==
  /\ waiting  = [a \in Aerodrome |-> <<>>]
  /\ released = [a \in Aerodrome |-> <<>>]

OthersUnchanged(f, a) == \A b \in Aerodrome \ {a} : f'[b] = f[b]

\* Flights are filed behind those already waiting, at any of the aerodromes.
File ==
  /\ \A a \in Aerodrome :
       /\ Len(waiting'[a]) >= Len(waiting[a])
       /\ \A k \in 1..Len(waiting[a]) : waiting'[a][k] = waiting[a][k]
  /\ UNCHANGED released

Separated(prev, r) ==
  /\ r.time - prev.time >= r.time_interval
  /\ r.time_interval >= WTC_ref[r.flp.type][prev.flp.type] * Minute

\* The flight that has waited longest is released.
Release(a) ==
  /\ waiting[a] # <<>>
  /\ waiting'[a] = Tail(waiting[a])
  /\ Len(released'[a]) = Len(released[a]) + 1
  /\ \A k \in 1..Len(released[a]) : released'[a][k] = released[a][k]
  /\ LET r == released'[a][Len(released[a]) + 1]
     IN  /\ r.flp = Head(waiting[a])
         /\ released[a] # <<>> => Separated(released[a][Len(released[a])], r)
  /\ OthersUnchanged(waiting, a)
  /\ OthersUnchanged(released, a)

Next == File \/ \E a \in Aerodrome : Release(a)

Spec == Init /\ [][Next]_vars
===============================================================================
