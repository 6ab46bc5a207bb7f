----------------------------- MODULE MCTrafficSlots ---------------------------
(***************************************************************************)
(* Three aircraft for two entries.  The code has 19 entries and the limit  *)
(* 20; the instance keeps the limit one above the number of entries.       *)
(***************************************************************************)
EXTENDS TrafficSlots

CONSTANTS A1, A2, A3
===============================================================================
