---------------------------- MODULE XplaneConnect ------------------------------
(***************************************************************************)
(* The C client library: xplaneConnect.c.  A function that sends a command *)
(* is an operator from its arguments to [ret, msg]: the message if the     *)
(* arguments are accepted, the negative result if not.  A function that    *)
(* reads an answer is an operator from the datagram (or Silence, when none *)
(* came in time) to [ret, values].  The sockets are in XpcSession.         *)
(***************************************************************************)
EXTENDS XpcDataManager

Default == GetDefaultValue
Junk == 77777700            \* a value of memory that was never written
Silence == [head |-> "none"]

Rejected(code) == [ret |-> code]
Accepted(m) == [ret |-> 0, msg |-> m]

\* The value with index i of `size' given ones.
OrDefault(values, size, i) == IF i <= size THEN values[i] ELSE Default

\* A byte read through a plain char.
Signed(b) == IF b % 256 < 128 THEN b % 256 ELSE (b % 256) - 256

-------------------------------------------------------------------------------
(* Answers.  recv keeps what fits into the buffer of the caller: answers   *)
(* are told apart by their length only.                                    *)

Length(reply) ==
  CASE reply.head = "none" -> 0
    [] reply.head = "CONF" -> 6
    [] reply.head = "CTRL" -> 31
    [] reply.head = "POSI" -> 46
    [] reply.head = "TERR" -> 62
    [] reply.head = "RESP" -> FoldLeft(LAMBDA n, v : n + 1 + 4 * Len(v), 6, reply.values)

readUDP(reply, len) == Min({Length(reply), len})

\* What a fixed-length reader makes of an answer: a datagram of another kind
\* that is long enough is taken as well.
Fixed(reply, head, len) ==
  IF readUDP(reply, len) # len THEN [ret |-> -3]
  ELSE [ret |-> 0, values |-> IF reply.head = head THEN reply.values
                              ELSE [i \in 1..11 |-> Junk]]

\* Byte 5 of an answer, which a reader of values takes as their number.  That
\* of a CTRL is the last byte of a float, zero for the numbers used here.
Count(reply) ==
  Signed(CASE reply.head = "RESP" -> Len(reply.values)
           [] reply.head = "CONF" -> reply.id
           [] reply.head = "POSI" -> reply.gear
           [] reply.head = "TERR" -> reply.aircraft
           [] OTHER               -> 0)

getDREFResponse(reply, count, sizes) ==
  IF readUDP(reply, 65536) < 6 THEN [ret |-> -2]
  ELSE IF Count(reply) # count THEN [ret |-> -3]
  ELSE [ret |-> 0,
        values |-> IF reply.head # "RESP" THEN [i \in 1..count |-> <<Junk>>]
                   ELSE [i \in 1..count |->
                           SubSeq(reply.values[i], 1, Min({Len(reply.values[i]), sizes[i]}))]]

\* 34 bytes are taken for an answer with the position in floats.
getPOSIResponse(reply) ==
  IF readUDP(reply, 46) = 34 THEN [ret |-> 0, values |-> [i \in 1..7 |-> Junk]]
  ELSE Fixed(reply, "POSI", 46)
getTERRResponse(reply) == Fixed(reply, "TERR", 62)
getCTRLResponse(reply) == Fixed(reply, "CTRL", 31)

\* The rest of setCONN, after the socket was switched.
setCONNResponse(reply) ==
  IF reply = Silence THEN [ret |-> -2]
  ELSE IF reply.head = "CONF" THEN [ret |-> 0, values |-> <<>>] ELSE [ret |-> -3]

-------------------------------------------------------------------------------
(* Requests *)

setCONN(port) == Accepted([head |-> "CONN", port |-> port])

\* The parameter is a char: 200 to 219 arrive as negative numbers.
pauseSim(pause) ==
  LET p == Signed(pause)
  IN  IF p < 0 \/ (p > 2 /\ p < 100) \/ (p > 119 /\ p < 200) \/ p > 219 THEN Rejected(-2)
      ELSE Accepted([head |-> "SIMU", v |-> p])

sendDATA(rows) ==
  IF Len(rows) > 134 THEN Rejected(-1) ELSE Accepted([head |-> "DATA", rows |-> rows])

Entry(name, values) == [name |-> name, values |-> values]

sendDREFs(entries) ==
  IF \E i \in DOMAIN entries : Len(entries[i].values) > 255 THEN Rejected(-2)
  ELSE Accepted([head |-> "DREF", entries |-> entries])

sendDREF(name, values) == sendDREFs(<<Entry(name, values)>>)

sendDREFRequest(drefs_) == Accepted([head |-> "GETD", drefs |-> drefs_])

getPOSI(ac) == Accepted([head |-> "GETP", size |-> 6, aircraft |-> ac])
getCTRL(ac) == Accepted([head |-> "GETC", size |-> 6, aircraft |-> ac])
sendTERRRequest(posi, ac) ==
  Accepted([head |-> "GETT", size |-> 30, aircraft |-> ac, pos |-> posi])

\* PLANE_COUNT aircraft have the numbers 0 to 19: the test lets one more pass.
Refusal(size, ac) ==
  CASE ac < 0 \/ ac > 20     -> -1
    [] size < 1 \/ size > 7  -> -2
    [] OTHER                 -> 0

Pose(head, values, size, ac) ==
  LET val(i) == OrDefault(values, size, i)
  IN  IF Refusal(size, ac) < 0 THEN Rejected(Refusal(size, ac))
      ELSE Accepted([head |-> head, size |-> 46, aircraft |-> ac,
                     pos |-> <<val(1), val(2), val(3)>>,
                     orient |-> <<val(4), val(5), val(6)>>, gear |-> val(7)])

sendPOSI(values, size, ac) == Pose("POSI", values, size, ac)
sendPOST(values, size, ac) == Pose("POST", values, size, ac)

\* The gear is a byte, -1 for the default.
sendCTRL(values, size, ac) ==
  LET val(i) == OrDefault(values, size, i)
  IN  IF Refusal(size, ac) < 0 THEN Rejected(Refusal(size, ac))
      ELSE Accepted([head |-> "CTRL", size |-> 31, aircraft |-> ac,
                     pitch |-> val(1), roll |-> val(2), yaw |-> val(3), throttle |-> val(4),
                     gear |-> IF val(5) = Default THEN -One ELSE Cast(val(5)),
                     flaps |-> val(6), spdbrk |-> IF size = 7 THEN values[7] ELSE Default])

sendTEXT(text, x, y) ==
  IF y < -1 THEN Rejected(-1)
  ELSE Accepted([head |-> "TEXT", size |-> 14 + Len(text), x |-> x, y |-> y, text |-> text])

WYPT_OP == [XPC_WYPT_ADD |-> 1, XPC_WYPT_DEL |-> 2, XPC_WYPT_CLR |-> 3]

sendWYPT(op, points) ==
  IF op < WYPT_OP.XPC_WYPT_ADD \/ op > WYPT_OP.XPC_WYPT_CLR THEN Rejected(-1)
  ELSE IF Len(points) > 255 THEN Rejected(-2)
  ELSE Accepted([head |-> "WYPT", op |-> op, points |-> points])

VIEW_TYPE == 73..85

sendVIEW(view) ==
  IF view \notin VIEW_TYPE THEN Rejected(-1)
  ELSE Accepted([head |-> "VIEW", size |-> 9, view |-> view])

sendCOMM(comm) == Accepted([head |-> "COMM", comms |-> <<comm>>])

-------------------------------------------------------------------------------
(* The comparisons of the test suite (Test.c).  An expected NaN is not     *)
(* looked at.  Those of floats and of doubles are the same.                *)

Same(expected, actual) == expected = actual \/ expected = NaN

compareArrays(expected, actual) ==
  \A i \in DOMAIN expected :
    /\ Len(expected[i]) = Len(actual[i])
    /\ \A j \in DOMAIN expected[i] : Same(expected[i][j], actual[i][j])

compareArray(expected, actual) == \A i \in DOMAIN expected : Same(expected[i], actual[i])
===============================================================================
