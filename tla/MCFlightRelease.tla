---------------------------- MODULE MCFlightRelease ---------------------------
(***************************************************************************)
(* One hub and one other aerodrome.  A minute is one unit of the clock, so *)
(* that the wake-turbulence minima (2 to 5) stay distinct and on both      *)
(* sides of the intervals.                                                 *)
(***************************************************************************)
EXTENDS FlightRelease

CONSTANTS ZSSS, ZUUU

MCPattern == [h \in Hub |-> <<"M", "S">>]

\* What may be typed into the panel: a negative interval, and one between the
\* wake-turbulence minima.
TypedIntervals == {-1, 3}

\* The pattern of ZSSS in the code.
ZSSSPattern == [h \in Hub |-> <<"S", "L", "S", "L", "S">>]
===============================================================================
