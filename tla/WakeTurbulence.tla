---------------------------- MODULE WakeTurbulence ----------------------------
(***************************************************************************)
(* The wake-turbulence table of the terminal-area federate.  The four      *)
(* weight categories are the ones TerminalManageDisplay keeps the aircraft *)
(* types under (APL_ref): S(uper), H(eavy), M(edium) and L(ight).          *)
(***************************************************************************)
EXTENDS Integers

Category == {"S", "H", "M", "L"}

\* TerminalManageDisplay.WTC_ref: minutes that a flight of category "back"
\* waits behind a departed flight of category "front" (the key "back-front" is
\* WTC_ref[back][front]).
WTC_ref ==
  [back \in Category |-> [front \in Category |->
     CASE back = "L" /\ front = "S" -> 5
       [] back = "L" /\ front = "H" -> 4
       [] back = "M" /\ front = "S" -> 4
       [] back = "L" /\ front = "M" -> 3
       [] back = "M" /\ front = "H" -> 3
       [] back = "H" /\ front = "S" -> 3
       [] OTHER                     -> 2]]

\* A flight plan, reduced to what the release depends on: the departure
\* aerodrome, its number in the plan (FltNo) and the weight category.
Flights(aerodromes) == [dep : aerodromes, no : Nat \ {0}, type : Category]
===============================================================================
