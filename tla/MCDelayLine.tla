------------------------------ MODULE MCDelayLine -----------------------------
(***************************************************************************)
(* The constants of the code are waitingTime = 10, NumFields = 7 and       *)
(* Ground = 4.  A shorter ring and fewer fields keep the invariant of the  *)
(* whole ring cheap to evaluate.                                           *)
(***************************************************************************)
EXTENDS DelayLine
===============================================================================
