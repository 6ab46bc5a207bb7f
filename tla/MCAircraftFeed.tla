----------------------------- MODULE MCAircraftFeed ---------------------------
(***************************************************************************)
(* Two flights and three entries at most, so that an entry can move while  *)
(* another one is served.                                                  *)
(***************************************************************************)
EXTENDS AircraftFeed

CONSTANTS CA101, MU202

Symmetry == Permutations(Flight)
===============================================================================
