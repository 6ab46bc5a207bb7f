---------------------------- MODULE MCXpcPlugin --------------------------------
(* Two hosts, one of which uses two ports; points that differ in altitude. *)
EXTENDS XpcPlugin

MCPlane == {}
A1 == [host |-> "a", port |-> 1]
A2 == [host |-> "a", port |-> 2]
B1 == [host |-> "b", port |-> 1]
MCClient == {A1, A2, B1}

P == <<100, 200, 300>>
Q == <<100, 200, 600>>
R == <<100, 200, 900>>
S == <<100, 200, 950>>

MCRequest == {
  [head |-> "CONN", port |-> 2],
  [head |-> "GETD", drefs |-> <<<<0, "GearHandle">>>>],
  [head |-> "GETD", drefs |-> <<>>],
  [head |-> "TEXT", size |-> 15, x |-> -1, y |-> -1, text |-> <<"hello">>],
  [head |-> "WYPT", op |-> 1, points |-> <<P, Q>>],
  [head |-> "WYPT", op |-> 2, points |-> <<P, P, P>>],
  [head |-> "WYPT", op |-> 2, points |-> <<P, R, S>>],
  [head |-> "PING"],
  [head |-> ""]}
===============================================================================
