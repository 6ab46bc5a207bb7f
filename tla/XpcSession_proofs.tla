--------------------------- MODULE XpcSession_proofs ---------------------------
(***************************************************************************)
(* Proofs about XpcSession, for all programs that the assumptions of that  *)
(* module allow: the answers that a program writes out are in the order of *)
(* its requests, and those of the monitor answer its own.                  *)
(***************************************************************************)
EXTENDS XpcSession, XpcPlugin_proofs

-------------------------------------------------------------------------------
(* The inductive invariant.  Its parts take the values they speak of as    *)
(* parameters: so a lemma relates the values before and after a step.      *)

Elements(q) == {q[i] : i \in DOMAIN q}
IsSequence(q) == q \in Seq(Elements(q))

\* The requests in the plugin's buffer, numbered in the order in which they
\* were sent, from ports that are given out.
Queue(requests, number, free) ==
  /\ IsSequence(requests)
  /\ \A i \in DOMAIN requests :
       /\ requests[i].msg.n \in 1..number
       /\ IsAddress(requests[i].src)
       /\ requests[i].src.host = Here /\ requests[i].src.port \in 0..(free - 1)
       /\ requests[i].msg.head = "CONN" => requests[i].msg.port \in Named
       /\ \A j \in DOMAIN requests : i < j => requests[i].msg.n < requests[j].msg.n

\* What answers earlier requests than those in the buffer, in their order.
Behind(l, requests, number) ==
  /\ IsSequence(l)
  /\ \A i \in DOMAIN l :
       /\ l[i].n \in 1..number
       /\ \A j \in DOMAIN l : i < j => l[i].n < l[j].n
       /\ \A j \in DOMAIN requests : l[i].n < requests[j].msg.n

Precedes(l, box) == \A i \in DOMAIN l : \A j \in DOMAIN box : l[i].n < box[j].n

\* A program is at a step of one of its tests, or at its end.
Placed(now, tests, free) ==
  /\ DOMAIN now = {"test", "step", "port", "ok", "kept", "state", "asked", "log"}
  /\ now.test \in Nat \ {0} /\ now.step \in Nat \ {0}
  /\ now.port \in 0..(free - 1)
  /\ now.test <= Len(tests) => now.step <= Len(tests[now.test])
  /\ now.state \in {"run", "wait", "switch"}
  /\ now.state # "run" => now.test <= Len(tests) /\ tests[now.test][now.step].op = "ask"
  /\ now.state = "switch" => tests[now.test][now.step].reader.head = "CONF"

\* What a program has written out precedes what waits at its socket.
Kept(now, boxes, requests, number) ==
  /\ Behind(now.log, requests, number)
  /\ now.port \in DOMAIN boxes => Precedes(now.log, boxes[now.port])

Boxes(boxes, requests, number) ==
  /\ 0 \notin DOMAIN boxes
  /\ \A q \in DOMAIN boxes : Behind(boxes[q], requests, number)

OrderInv ==
  /\ Keyed
  /\ sent \in Nat /\ nextPort \in Nat /\ nextPort >= FirstFree
  /\ scenario \in DOMAIN Scenario /\ Program = DOMAIN Scenario[scenario]
  /\ Queue(inbox, sent, nextPort)
  /\ Boxes(mailbox, inbox, sent)
  /\ \A p \in Program : Placed(proc[p], Tests(p), nextPort) /\ Kept(proc[p], mailbox, inbox, sent)

M == "monitor"
Asks(k) == IF k % 2 = 0 THEN "GETP" ELSE "GETC"
Tells(k) == IF k % 2 = 0 THEN "POSI" ELSE "CTRL"

\* The lines of the monitor: two steps of the program write the two halves.
Answering(l) ==
  \A i \in DOMAIN l : l[i].n = l[i].asked /\ l[i].head = IF i % 2 = 1 THEN "POSI" ELSE "CTRL"
Lines(now) ==
  /\ Answering(now.log)
  /\ now.test = 1 => Len(now.log) = IF now.step = 1 THEN 0 ELSE now.step - 2

\* Of the monitor's requests and answers only the last one is anywhere.
Exchange(now, box, requests) ==
  LET quiet == \A i \in DOMAIN requests : requests[i].src.port # now.port
  IN  \/ now.state = "run" /\ box = <<>> /\ quiet
      \/ /\ now.state = "wait" /\ box = <<>>
         /\ \A i \in DOMAIN requests : requests[i].src.port = now.port =>
              requests[i].msg.n = now.asked /\ requests[i].msg.head = Asks(now.step)
      \/ /\ now.state = "wait" /\ quiet
         /\ DOMAIN box = {1} /\ box[1].n = now.asked /\ box[1].reply.head = Tells(now.step)

\* The monitor's socket is its own.
Own_(now, procs, boxes, requests) ==
  /\ now.port >= FirstFree /\ now.port \in DOMAIN boxes
  /\ \A p \in DOMAIN procs : p # M => procs[p].port # now.port
  /\ Exchange(now, boxes[now.port], requests)

MonitorInv ==
  M \in Program =>
    /\ Lines(proc[M])
    /\ proc[M].test = 1 /\ proc[M].step # 1 => Own_(proc[M], proc, mailbox, inbox)

IInv == OrderInv /\ MonitorInv

-------------------------------------------------------------------------------
(* Sequences *)

LEMMA EmptySequence == IsSequence(<<>>) /\ DOMAIN <<>> = {}
BY EmptySeq DEF IsSequence

LEMMA TailSequence ==
  ASSUME NEW q, IsSequence(q), q # <<>>
  PROVE  /\ IsSequence(Tail(q))
         /\ 1 \in DOMAIN q /\ Head(q) = q[1]
         /\ \A i \in DOMAIN Tail(q) : i \in Nat \ {0} /\ i + 1 \in DOMAIN q /\ Tail(q)[i] = q[i + 1]
<1> DEFINE S == Elements(q)
           t == Tail(q)
<1>1. q \in Seq(S) /\ Len(q) \in Nat /\ DOMAIN q = 1..Len(q)
  BY LenProperties DEF IsSequence
<1>2. /\ t \in Seq(S) /\ Head(q) = q[1] /\ Len(t) = Len(q) - 1 /\ Len(q) # 0
      /\ \A i \in 1..Len(t) : t[i] = q[i + 1]
  <2> HIDE DEF S
  <2>1. Len(q) # 0
    BY <1>1, EmptySeq
  <2> QED
    BY <1>1, <2>1, HeadTailProperties
<1>3. DOMAIN t = 1..Len(t) /\ Len(t) \in Nat
  BY <1>2, LenProperties
<1> HIDE DEF t
<1>4. t \in Seq(Elements(t))
  <2>1. \A i \in 1..Len(t) : t[i] \in Elements(t)
    BY <1>3 DEF Elements
  <2>2. t = [i \in 1..Len(t) |-> t[i]]
    BY <1>2, <1>3, LenProperties
  <2> QED
    BY <1>3, <2>1, <2>2, IsASeq
<1> QED
  BY <1>1, <1>2, <1>3, <1>4 DEF IsSequence, t

LEMMA AppendSequence ==
  ASSUME NEW q, IsSequence(q), NEW x
  PROVE  /\ IsSequence(Append(q, x))
         /\ Len(q) \in Nat /\ DOMAIN q = 1..Len(q) /\ DOMAIN Append(q, x) = 1..(Len(q) + 1)
         /\ \A i \in DOMAIN q : Append(q, x)[i] = q[i]
         /\ Append(q, x)[Len(q) + 1] = x
         /\ Len(Append(q, x)) = Len(q) + 1
<1> DEFINE S == Elements(q) \cup {x}
           t == Append(q, x)
<1>1. q \in Seq(Elements(q)) /\ Len(q) \in Nat /\ DOMAIN q = 1..Len(q)
  BY LenProperties DEF IsSequence
<1>2. q \in Seq(S)
  <2>1. Elements(q) \subseteq S
    OBVIOUS
  <2> HIDE DEF S
  <2> QED
    BY <1>1, <2>1, SeqMonotonic
<1>3. /\ t \in Seq(S) /\ Len(t) = Len(q) + 1
      /\ \A i \in 1..Len(q) : t[i] = q[i]
      /\ t[Len(q) + 1] = x
  <2>1. x \in S
    OBVIOUS
  <2> HIDE DEF S
  <2> QED
    BY <1>2, <2>1, AppendProperties
<1>4. DOMAIN t = 1..Len(t) /\ Len(t) \in Nat
  BY <1>3, LenProperties
<1> HIDE DEF t
<1>5. t \in Seq(Elements(t))
  <2>1. \A i \in 1..Len(t) : t[i] \in Elements(t)
    BY <1>4 DEF Elements
  <2>2. t = [i \in 1..Len(t) |-> t[i]]
    BY <1>3, <1>4, LenProperties
  <2> QED
    BY <1>4, <2>1, <2>2, IsASeq
<1> QED
  BY <1>1, <1>3, <1>4, <1>5 DEF IsSequence, t

-------------------------------------------------------------------------------
(* The buffer of the plugin *)

LEMMA QueueEmpty ==
  ASSUME NEW number, NEW free
  PROVE  Queue(<<>>, number, free) /\ \A l : \A r : Behind(l, r, number) => Behind(l, <<>>, number)
BY EmptySequence DEF Queue, Behind

LEMMA QueueTail ==
  ASSUME NEW requests, NEW number, NEW free, Queue(requests, number, free), requests # <<>>
  PROVE  /\ Queue(Tail(requests), number, free)
         /\ \A l : Behind(l, requests, number) => Behind(l, Tail(requests), number)
<1> DEFINE r == Tail(requests)
<1>1. /\ IsSequence(r)
      /\ \A i \in DOMAIN r : i \in Nat \ {0} /\ i + 1 \in DOMAIN requests /\ r[i] = requests[i + 1]
  BY TailSequence DEF Queue
<1> HIDE DEF r
<1>2. Queue(r, number, free)
  BY <1>1 DEF Queue
<1>3. ASSUME NEW l, Behind(l, requests, number) PROVE Behind(l, r, number)
  BY <1>1, <1>3 DEF Behind
<1> QED
  BY <1>2, <1>3 DEF r

\* A number is given to a request, which may be lost.
LEMMA QueueSkips ==
  ASSUME NEW requests, NEW number \in Nat, NEW free, Queue(requests, number, free)
  PROVE  /\ Queue(requests, number + 1, free)
         /\ \A l : Behind(l, requests, number) => Behind(l, requests, number + 1)
BY DEF Queue, Behind

LEMMA QueueGrows ==
  ASSUME NEW requests, NEW number \in Nat, NEW free, Queue(requests, number, free),
         NEW x, x.msg.n = number + 1, IsAddress(x.src),
         x.src.host = Here, x.src.port \in 0..(free - 1),
         x.msg.head = "CONN" => x.msg.port \in Named
  PROVE  /\ Queue(Append(requests, x), number + 1, free)
         /\ \A l : Behind(l, requests, number) => Behind(l, Append(requests, x), number + 1)
<1> DEFINE r == Append(requests, x)
           n == Len(requests)
<1>1. /\ IsSequence(r)
      /\ n \in Nat /\ DOMAIN requests = 1..n /\ DOMAIN r = 1..(n + 1)
      /\ \A i \in DOMAIN requests : r[i] = requests[i]
      /\ r[n + 1] = x
  BY AppendSequence DEF Queue
<1> HIDE DEF r, n
<1>2. \A i \in DOMAIN r : (i \in DOMAIN requests /\ r[i] = requests[i]) \/ (i = n + 1 /\ r[i] = x)
  BY <1>1
<1>3. Queue(r, number + 1, free)
  <2> SUFFICES ASSUME NEW i \in DOMAIN r
               PROVE  /\ r[i].msg.n \in 1..(number + 1)
                      /\ IsAddress(r[i].src)
                      /\ r[i].src.host = Here /\ r[i].src.port \in 0..(free - 1)
                      /\ r[i].msg.head = "CONN" => r[i].msg.port \in Named
                      /\ \A j \in DOMAIN r : i < j => r[i].msg.n < r[j].msg.n
    BY <1>1 DEF Queue
  <2>1. CASE i \in DOMAIN requests
    <3>1. r[i] = requests[i] /\ r[i].msg.n \in 1..number
      BY <1>1, <2>1 DEF Queue
    <3>2. ASSUME NEW j \in DOMAIN r, i < j PROVE r[i].msg.n < r[j].msg.n
      <4>1. CASE j \in DOMAIN requests
        BY <1>1, <2>1, <3>2, <4>1 DEF Queue
      <4>2. CASE r[j] = x
        BY <3>1, <4>2
      <4> QED
        BY <1>2, <4>1, <4>2
    <3> QED
      BY <2>1, <3>1, <3>2 DEF Queue
  <2>2. CASE i = n + 1 /\ r[i] = x
    BY <1>1, <2>2
  <2> QED
    BY <1>2, <2>1, <2>2
<1>4. ASSUME NEW l, Behind(l, requests, number) PROVE Behind(l, r, number + 1)
  <2> SUFFICES ASSUME NEW i \in DOMAIN l
               PROVE  /\ l[i].n \in 1..(number + 1)
                      /\ \A j \in DOMAIN l : i < j => l[i].n < l[j].n
                      /\ \A j \in DOMAIN r : l[i].n < r[j].msg.n
    BY <1>4 DEF Behind
  <2>1. l[i].n \in 1..number
    BY <1>4 DEF Behind
  <2>2. ASSUME NEW j \in DOMAIN r PROVE l[i].n < r[j].msg.n
    BY <1>2, <1>4, <2>1, <2>2 DEF Behind
  <2> QED
    BY <1>4, <2>1, <2>2 DEF Behind
<1> QED
  BY <1>3, <1>4 DEF r

LEMMA QueueFree ==
  ASSUME NEW requests, NEW number, NEW free \in Nat, NEW more \in Nat, free <= more,
         Queue(requests, number, free)
  PROVE  Queue(requests, number, more)
BY DEF Queue

LEMMA BehindNothing == ASSUME NEW requests, NEW number PROVE Behind(<<>>, requests, number)
BY EmptySequence DEF Behind

LEMMA BehindTail ==
  ASSUME NEW l, NEW requests, NEW number, Behind(l, requests, number), l # <<>>
  PROVE  Behind(Tail(l), requests, number)
<1> DEFINE t == Tail(l)
<1>1. /\ IsSequence(t)
      /\ \A i \in DOMAIN t : i \in Nat \ {0} /\ i + 1 \in DOMAIN l /\ t[i] = l[i + 1]
  BY TailSequence DEF Behind
<1> HIDE DEF t
<1>2. Behind(t, requests, number)
  BY <1>1 DEF Behind
<1> QED
  BY <1>2 DEF t

LEMMA BehindGains ==
  ASSUME NEW l, NEW requests, NEW number, Behind(l, requests, number),
         NEW e, e.n \in 1..number,
         \A i \in DOMAIN l : l[i].n < e.n,
         \A j \in DOMAIN requests : e.n < requests[j].msg.n
  PROVE  Behind(Append(l, e), requests, number)
<1> DEFINE t == Append(l, e)
           n == Len(l)
<1>1. /\ IsSequence(t)
      /\ n \in Nat /\ DOMAIN l = 1..n /\ DOMAIN t = 1..(n + 1)
      /\ \A i \in DOMAIN l : t[i] = l[i]
      /\ t[n + 1] = e
  BY AppendSequence DEF Behind
<1> HIDE DEF t, n
<1>2. \A i \in DOMAIN t : (i \in DOMAIN l /\ t[i] = l[i]) \/ (i = n + 1 /\ t[i] = e)
  BY <1>1
<1>3. ASSUME NEW i \in DOMAIN t
      PROVE  /\ t[i].n \in 1..number
             /\ \A j \in DOMAIN t : i < j => t[i].n < t[j].n
             /\ \A j \in DOMAIN requests : t[i].n < requests[j].msg.n
  <2>1. CASE i \in DOMAIN l
    BY <1>1, <1>2, <2>1 DEF Behind
  <2>2. CASE i = n + 1 /\ t[i] = e
    BY <1>1, <2>2
  <2> QED
    BY <1>2, <2>1, <2>2
<1> QED
  BY <1>1, <1>3 DEF Behind, t
-------------------------------------------------------------------------------
(* The control of a program *)

LEMMA FirstFreePositive == FirstFree \in Nat \ {0}
BY SMT DEF FirstFree

LEMMA NamedBelow ==
  ASSUME NEW n \in Named, NEW free \in Nat, free >= FirstFree
  PROVE  n \in 0..(free - 1) /\ n # 0 /\ n < FirstFree
BY FirstFreePositive DEF Named

LEMMA StepCallable ==
  ASSUME scenario \in DOMAIN Scenario, NEW p \in DOMAIN Scenario[scenario],
         NEW free, Placed(proc[p], Tests(p), free), Running(p)
  PROVE  /\ Callable(Step(p))
         /\ proc[p].step \in 1..Len(Test_(p))
<1> DEFINE tests == Scenario[scenario][p]
           t == proc[p].test
           i == proc[p].step
<1>1. tests = Tests(p) /\ tests[t] = Test_(p) /\ tests[t][i] = Step(p)
  BY DEF Tests, Test_, Step
<1>2. Len(tests) \in Nat /\ t \in 1..Len(tests)
  BY <1>1, ProgramAssumption DEF Placed, Running
<1>3. /\ Len(tests[t]) \in Nat \ {0}
      /\ \A k \in 1..Len(tests[t]) : Callable(tests[t][k])
  BY <1>2, ProgramAssumption
<1>4. i \in 1..Len(tests[t])
  BY <1>1, <1>2, <1>3 DEF Placed
<1>5. Callable(Step(p)) /\ i \in 1..Len(Test_(p))
  BY <1>1, <1>3, <1>4
<1> QED
  BY <1>5

\* Where a call that is done leaves the program.
Ended(now) == [Fresh EXCEPT !.test = now.test + 1, !.log = now.log]
Further(now) == [now EXCEPT !.step = @ + 1, !.state = "run"]

Leaves(p, now, new) ==
  /\ proc' = [proc EXCEPT ![p] = new]
  /\ new = Ended(now) \/ (new = Further(now) /\ now.step # Len(Test_(p)))

LEMMA ContinueLeaves ==
  ASSUME NEW p, NEW now, NEW return, Continue(p, now, return)
  PROVE  \E new : Leaves(p, now, new) /\ (return => new = Ended(now))
BY DEF Continue, Leaves, Ended, Further

\* The record in a program's hands, before it goes on.
InHand(p, now, free) ==
  /\ DOMAIN now = DOMAIN proc[p]
  /\ now.test = proc[p].test /\ now.step = proc[p].step
  /\ now.port \in 0..(free - 1)

LEMMA LeavesPlaced ==
  ASSUME scenario \in DOMAIN Scenario, NEW p \in DOMAIN Scenario[scenario],
         Placed(proc[p], Tests(p), nextPort), Running(p),
         NEW free \in Nat \ {0},
         NEW now, InHand(p, now, free), NEW new, Leaves(p, now, new)
  PROVE  /\ Placed(new, Tests(p), free)
         /\ new.log = now.log
         /\ new.port = now.port \/ new.port = 0
<1>1. proc[p].step \in 1..Len(Test_(p))
  BY StepCallable
<1>2. Len(Test_(p)) \in Nat /\ Len(Tests(p)) \in Nat
      /\ \A t \in 1..Len(Tests(p)) : Len(Tests(p)[t]) \in Nat \ {0}
  <2>1. proc[p].test \in 1..Len(Tests(p)) /\ Len(Tests(p)) \in Nat
    BY ProgramAssumption DEF Placed, Running, Tests
  <2> QED
    BY <2>1, ProgramAssumption DEF Tests, Test_
<1>3. CASE new = Ended(now)
  <2>1. /\ DOMAIN new = {"test", "step", "port", "ok", "kept", "state", "asked", "log"}
        /\ new.test = proc[p].test + 1 /\ new.step = 1 /\ new.port = 0 /\ new.state = "run"
        /\ new.log = now.log
    BY <1>3 DEF Ended, Fresh, InHand
  <2>2. new.test <= Len(Tests(p)) => new.step <= Len(Tests(p)[new.test])
    <3> SUFFICES ASSUME new.test <= Len(Tests(p)) PROVE 1 <= Len(Tests(p)[new.test])
      BY <2>1
    <3>1. new.test \in 1..Len(Tests(p))
      BY <1>2, <2>1 DEF Placed
    <3> QED
      BY <1>2, <3>1
  <2> QED
    BY <2>1, <2>2 DEF Placed
<1>4. CASE new = Further(now) /\ now.step # Len(Test_(p))
  <2>1. /\ DOMAIN new = {"test", "step", "port", "ok", "kept", "state", "asked", "log"}
        /\ new.test = proc[p].test /\ new.step = proc[p].step + 1 /\ new.port = now.port
        /\ new.state = "run" /\ new.log = now.log
    BY <1>4 DEF Further, InHand, Placed
  <2>2. new.step <= Len(Tests(p)[new.test])
    BY <1>1, <1>2, <1>4, <2>1 DEF InHand, Test_
  <2> QED
    BY <2>1, <2>2 DEF Placed, InHand
<1> QED
  BY <1>3, <1>4 DEF Leaves

\* A call of the client changes its result only in fields of its own.
LEMMA DoneLeaves ==
  ASSUME NEW p, NEW now, NEW good, NEW fail, Done(p, now, good, fail),
         NEW free, InHand(p, now, free)
  PROVE  \E hand : /\ InHand(p, hand, free) /\ hand.log = now.log /\ hand.port = now.port
                   /\ \E new : /\ Leaves(p, hand, new)
                               /\ ~good /\ fail = "stop" => new = Ended(hand)
<1> DEFINE hand == [now EXCEPT !.ok = @ /\ (good \/ fail = "go")]
<1>1. InHand(p, hand, free) /\ hand.log = now.log /\ hand.port = now.port
  BY DEF InHand
<1>2. Continue(p, hand, ~good /\ fail = "stop")
  BY DEF Done
<1> HIDE DEF hand
<1>3. \E new : Leaves(p, hand, new) /\ (~good /\ fail = "stop" => new = Ended(hand))
  BY <1>2 DEF Continue, Leaves, Ended, Further
<1> QED
  BY <1>1, <1>3

\* A call that fails, of a program that stops at a failure.
LEMMA DoneEnds ==
  ASSUME NEW p, NEW now, NEW good, ~good, Done(p, now, good, "stop"),
         NEW free, InHand(p, now, free)
  PROVE  \E hand : InHand(p, hand, free) /\ hand.log = now.log /\ Leaves(p, hand, Ended(hand))
<1>1. PICK hand : /\ InHand(p, hand, free) /\ hand.log = now.log
                  /\ \E new : Leaves(p, hand, new) /\ (~good /\ "stop" = "stop" => new = Ended(hand))
  BY DoneLeaves
<1>2. Leaves(p, hand, Ended(hand))
  BY <1>1
<1> QED
  BY <1>1, <1>2

LEMMA PlacedMore ==
  ASSUME NEW now, NEW tests, NEW free \in Nat, NEW more \in Nat, free <= more, Placed(now, tests, free)
  PROVE  Placed(now, tests, more)
BY DEF Placed

\* A step of a program that reads no answer.
LEMMA ClientKeeps ==
  ASSUME OrderInv, NEW p \in Program, NEW new,
         UNCHANGED <<scenario, connections>>,
         proc' = [proc EXCEPT ![p] = new],
         nextPort' \in Nat, nextPort <= nextPort', sent' \in Nat,
         Placed(new, Tests(p), nextPort'),
         new.log = proc[p].log,
         new.port = proc[p].port \/ new.port \notin DOMAIN mailbox' \/ mailbox'[new.port] = <<>>,
         Queue(inbox', sent', nextPort'),
         \A l : Behind(l, inbox, sent) => Behind(l, inbox', sent'),
         0 \notin DOMAIN mailbox',
         \A q \in DOMAIN mailbox' :
           mailbox'[q] = <<>> \/ (q \in DOMAIN mailbox /\ mailbox'[q] = mailbox[q])
  PROVE  OrderInv'
<1>1. Keyed'
  BY DEF OrderInv, Keyed
<1>2. DOMAIN proc' = DOMAIN proc /\ proc'[p] = new /\ \A r \in Program : r # p => proc'[r] = proc[r]
  BY DEF Program
<1>3. nextPort' >= FirstFree
  BY FirstFreePositive DEF OrderInv
<1>4. Boxes(mailbox', inbox', sent')
  BY BehindNothing DEF OrderInv, Boxes
<1>5. \A l : Precedes(l, <<>>)
  BY EmptySequence DEF Precedes
<1>6. ASSUME NEW r \in Program PROVE Kept(proc'[r], mailbox', inbox', sent')
  <2>1. proc'[r].log = proc[r].log /\ Behind(proc[r].log, inbox', sent')
    BY <1>2 DEF OrderInv, Kept
  <2>2. ASSUME proc'[r].port \in DOMAIN mailbox'
        PROVE  Precedes(proc[r].log, mailbox'[proc'[r].port])
    <3>1. CASE mailbox'[proc'[r].port] = <<>>
      BY <1>5, <3>1
    <3>2. CASE mailbox'[proc'[r].port] # <<>>
      <4>1. proc'[r].port = proc[r].port
        BY <1>2, <2>2, <3>2
      <4>2. proc[r].port \in DOMAIN mailbox /\ mailbox'[proc[r].port] = mailbox[proc[r].port]
        BY <2>2, <3>2, <4>1
      <4> QED
        BY <4>1, <4>2 DEF OrderInv, Kept
    <3> QED
      BY <3>1, <3>2
  <2> QED
    BY <2>1, <2>2 DEF Kept
<1>7. ASSUME NEW r \in Program PROVE Placed(proc'[r], Scenario[scenario][r], nextPort')
  <2>1. CASE r = p
    BY <1>2, <2>1 DEF Tests
  <2>2. CASE r # p
    BY <1>2, <2>2, PlacedMore DEF OrderInv, Tests
  <2> QED
    BY <2>1, <2>2
<1> QED
  BY <1>1, <1>2, <1>3, <1>4, <1>6, <1>7 DEF OrderInv, Program, Tests

\* A step of the plugin.
LEMMA FrameKeeps ==
  ASSUME OrderInv, Keyed', UNCHANGED <<scenario, proc, nextPort, sent>>,
         Queue(inbox', sent, nextPort),
         \A l : Behind(l, inbox, sent) => Behind(l, inbox', sent),
         DOMAIN mailbox' = DOMAIN mailbox,
         \A q \in DOMAIN mailbox :
           /\ Behind(mailbox'[q], inbox', sent)
           /\ \A l : Behind(l, inbox, sent) /\ Precedes(l, mailbox[q]) => Precedes(l, mailbox'[q])
  PROVE  OrderInv'
<1>1. Boxes(mailbox', inbox', sent)
  BY DEF OrderInv, Boxes
<1>2. ASSUME NEW p \in Program
      PROVE  Placed(proc[p], Scenario[scenario][p], nextPort) /\ Kept(proc[p], mailbox', inbox', sent)
  BY DEF OrderInv, Kept, Tests
<1> QED
  BY <1>1, <1>2 DEF OrderInv, Program, Tests
-------------------------------------------------------------------------------
(* Requests and answers on their way *)

\* The packet of a request.
Packet_(p, m) == [src |-> [host |-> Here, port |-> proc[p].port], msg |-> Numbered(m)]

LEMMA SendKeeps ==
  ASSUME OrderInv, NEW p \in Program, NEW m, Sendable(m), sendUDP(p, m)
  PROVE  /\ UNCHANGED connections
         /\ sent' = sent + 1 /\ sent' \in Nat
         /\ inbox' = inbox \/ inbox' = Append(inbox, Packet_(p, m))
         /\ Queue(inbox', sent', nextPort)
         /\ \A l : Behind(l, inbox, sent) => Behind(l, inbox', sent')
         /\ Packet_(p, m).src.port = proc[p].port
         /\ Packet_(p, m).msg.n = sent + 1 /\ Packet_(p, m).msg.head = m.head
<1> DEFINE x == Packet_(p, m)
<1>1. /\ x.msg.n = sent + 1
      /\ IsAddress(x.src) /\ x.src.host = Here /\ x.src.port = proc[p].port
      /\ x.msg.head = m.head /\ ~Free(x.msg)
      /\ x.msg.head = "CONN" => x.msg.port \in Named
  BY DEF Packet_, Numbered, Sendable, IsAddress, Free
<1>2. proc[p].port \in 0..(nextPort - 1) /\ sent \in Nat /\ Queue(inbox, sent, nextPort)
  BY DEF OrderInv, Placed
<1>3. CASE Arrive(x.src, x.msg)
  <2>1. sent' = sent + 1 /\ inbox' = Append(inbox, x) /\ UNCHANGED connections
    BY <1>1, <1>3 DEF Arrive, Packet_, stateOfHandlers
  <2>2. x.src.port \in 0..(nextPort - 1)
    BY <1>1, <1>2
  <2> HIDE DEF x
  <2>3. /\ Queue(Append(inbox, x), sent + 1, nextPort)
        /\ \A l : Behind(l, inbox, sent) => Behind(l, Append(inbox, x), sent + 1)
    BY <1>1, <1>2, <2>2, QueueGrows
  <2> QED
    BY <1>1, <1>2, <2>1, <2>3 DEF x
<1>4. CASE sent' = sent + 1 /\ UNCHANGED <<handlerVars, inbox>>
  BY <1>1, <1>2, <1>4, QueueSkips DEF handlerVars
<1> QED
  BY <1>3, <1>4 DEF sendUDP, Packet_

\* What the handler of the request sends to a port of the clients' host.
LEMMA AnsweredOnce ==
  ASSUME NEW m, NEW src, Proper(m, src), NEW q
  PROVE  \/ To(q) = {} /\ Answered(q) = <<>>
         \/ \E d : /\ Confirmation(d, m, src) \/ Reply(d, m, src)
                   /\ d.dst = [host |-> Here, port |-> q]
                   /\ Answered(q) = <<[n |-> Head(inbox).msg.n, reply |-> d.msg]>>
<1>1. ASSUME To(q) = {} PROVE Answered(q) = <<>>
  <2>1. Cardinality(To(q)) = 0
    BY <1>1, FS_EmptySet
  <2> QED
    BY <2>1 DEF Answered
<1>2. ASSUME \A i \in DOMAIN out' : Forwarded(out'[i]) PROVE To(q) = {}
  <2>1. XPlaneAddr # [host |-> Here, port |-> q]
    BY DEF XPlaneAddr, Here
  <2> QED
    BY <1>2, <2>1 DEF To, Forwarded
<1>3. ASSUME NEW d, out' = <<d>>, d.dst # [host |-> Here, port |-> q] PROVE To(q) = {}
  BY <1>3 DEF To
<1>4. ASSUME NEW d, out' = <<d>>, d.dst = [host |-> Here, port |-> q]
      PROVE  Answered(q) = <<[n |-> Head(inbox).msg.n, reply |-> d.msg]>>
  <2>1. To(q) = {1}
    BY <1>4 DEF To
  <2>2. Cardinality(To(q)) = 1
    BY <2>1, FS_Singleton
  <2>3. Order(q)[1] = 1
    <3> DEFINE f == [i \in 1..1 |-> 1]
    <3>1. f \in Ascending({1})
      <4>1. Cardinality({1}) = 1
        BY FS_Singleton
      <4>2. f \in [1..Cardinality({1}) -> {1}]
        BY <4>1
      <4>3. \A j, k \in DOMAIN f : j < k => f[j] < f[k]
        OBVIOUS
      <4> HIDE DEF f
      <4> QED
        BY <4>2, <4>3 DEF Ascending
    <3> HIDE DEF f
    <3>2. Order(q) \in Ascending({1})
      BY <2>1, <3>1 DEF Order
    <3>3. Order(q) \in [1..1 -> {1}]
      BY <2>1, <2>2, <3>2 DEF Ascending
    <3> QED
      BY <3>3
  <2>4. out'[Order(q)[1]] = d
    BY <1>4, <2>3
  <2> QED
    BY <2>2, <2>4 DEF Answered
<1>5. CASE \A i \in DOMAIN out' : Forwarded(out'[i])
  BY <1>1, <1>2, <1>5
<1>6. CASE \E d : out' = <<d>> /\ (Confirmation(d, m, src) \/ Reply(d, m, src))
  <2>1. PICK d : out' = <<d>> /\ (Confirmation(d, m, src) \/ Reply(d, m, src))
    BY <1>6
  <2> QED
    BY <1>1, <1>3, <1>4, <2>1
<1> QED
  BY <1>5, <1>6 DEF Proper

\* The first request, and what is left of the buffer behind it.
LEMMA HeadOfQueue ==
  ASSUME NEW requests, NEW number, NEW free, Queue(requests, number, free), requests # <<>>
  PROVE  /\ 1 \in DOMAIN requests /\ Head(requests) = requests[1]
         /\ IsAddress(Head(requests).src)
         /\ Head(requests).msg.n \in 1..number
         /\ \A i \in DOMAIN Tail(requests) : Head(requests).msg.n < Tail(requests)[i].msg.n
<1>1. /\ 1 \in DOMAIN requests /\ Head(requests) = requests[1]
      /\ \A i \in DOMAIN Tail(requests) :
           i \in Nat \ {0} /\ i + 1 \in DOMAIN requests /\ Tail(requests)[i] = requests[i + 1]
  BY TailSequence DEF Queue
<1>2. \A i \in DOMAIN Tail(requests) : requests[1].msg.n < requests[i + 1].msg.n
  BY <1>1 DEF Queue
<1> QED
  BY <1>1, <1>2 DEF Queue

LEMMA HandleFacts ==
  ASSUME OrderInv, Handle
  PROVE  /\ inbox # <<>> /\ inbox' = Tail(inbox) /\ UNCHANGED sent
         /\ Keyed' /\ Proper(Head(inbox).msg, Head(inbox).src)
<1>1. inbox # <<>> /\ inbox' = Tail(inbox) /\ UNCHANGED sent
      /\ HandleMessage(Head(inbox).msg, Head(inbox).src)
  BY DEF Handle, Readable
<1>2. IsAddress(Head(inbox).src)
  BY <1>1, HeadOfQueue DEF OrderInv
<1> QED
  BY <1>1, <1>2, HandleAnswers DEF OrderInv

\* What waits at a port after the request is handled and its answer delivered.
LEMMA DeliveredOnce ==
  ASSUME OrderInv, Handle, NEW q \in DOMAIN mailbox
  PROVE  \/ Delivered[q] = mailbox[q]
         \/ \E d : /\ Confirmation(d, Head(inbox).msg, Head(inbox).src)
                      \/ Reply(d, Head(inbox).msg, Head(inbox).src)
                   /\ d.dst = [host |-> Here, port |-> q]
                   /\ Delivered[q] = Append(mailbox[q], [n |-> Head(inbox).msg.n, reply |-> d.msg])
<1> DEFINE m == Head(inbox).msg
           src == Head(inbox).src
           box == mailbox[q]
<1>1. Proper(m, src)
  BY HandleFacts
<1>2. box \in Seq(Elements(box))
  BY DEF OrderInv, Boxes, Behind, IsSequence
<1>3. Delivered[q] = box \o Answered(q)
  BY DEF Delivered
<1> HIDE DEF m, src, box
<1>4. CASE Answered(q) = <<>>
  BY <1>2, <1>3, <1>4, ConcatEmptySeq DEF box
<1>5. CASE \E d : /\ Confirmation(d, m, src) \/ Reply(d, m, src)
                  /\ d.dst = [host |-> Here, port |-> q]
                  /\ Answered(q) = <<[n |-> Head(inbox).msg.n, reply |-> d.msg]>>
  <2>1. PICK d : /\ Confirmation(d, m, src) \/ Reply(d, m, src)
                 /\ d.dst = [host |-> Here, port |-> q]
                 /\ Answered(q) = <<[n |-> Head(inbox).msg.n, reply |-> d.msg]>>
    BY <1>5
  <2> DEFINE e == [n |-> Head(inbox).msg.n, reply |-> d.msg]
             S == Elements(box) \cup {e}
  <2>2. box \in Seq(S) /\ e \in S
    <3>1. Elements(box) \subseteq S /\ e \in S
      OBVIOUS
    <3> HIDE DEF S
    <3> QED
      BY <1>2, <3>1, SeqMonotonic
  <2>3. Delivered[q] = box \o <<e>>
    BY <1>3, <2>1
  <2>4. Append(box, e) = box \o <<e>>
    <3> HIDE DEF S, e
    <3> QED
      BY <2>2, AppendIsConcat
  <2> QED
    BY <2>1, <2>3, <2>4 DEF m, src, box
<1>6. \/ Answered(q) = <<>>
      \/ \E d : /\ Confirmation(d, m, src) \/ Reply(d, m, src)
                /\ d.dst = [host |-> Here, port |-> q]
                /\ Answered(q) = <<[n |-> Head(inbox).msg.n, reply |-> d.msg]>>
  BY <1>1, AnsweredOnce
<1> QED
  BY <1>4, <1>5, <1>6
-------------------------------------------------------------------------------
(* The order is kept by every step *)

LEMMA FrameOrder == ASSUME OrderInv, Frame PROVE OrderInv'
<1>1. ASSUME inbox # <<>>
      PROVE  /\ Queue(Tail(inbox), sent, nextPort)
             /\ \A l : Behind(l, inbox, sent) => Behind(l, Tail(inbox), sent)
  BY <1>1, QueueTail DEF OrderInv
<1>2. CASE HandleRequest
  <2>1. /\ inbox # <<>> /\ inbox' = Tail(inbox) /\ UNCHANGED sent /\ Keyed'
        /\ Handle /\ UNCHANGED <<scenario, proc, nextPort>>
        /\ mailbox' = Delivered \/ UNCHANGED mailbox
    BY <1>2, HandleFacts DEF HandleRequest
  <2>2. CASE UNCHANGED mailbox
    BY <1>1, <2>1, <2>2, FrameKeeps DEF OrderInv, Boxes
  <2>3. CASE mailbox' = Delivered
    <3>1. DOMAIN mailbox' = DOMAIN mailbox
      BY <2>3 DEF Delivered
    <3>2. ASSUME NEW q \in DOMAIN mailbox
          PROVE  /\ Behind(mailbox'[q], Tail(inbox), sent)
                 /\ \A l : Behind(l, inbox, sent) /\ Precedes(l, mailbox[q]) => Precedes(l, mailbox'[q])
      <4>1. Behind(mailbox[q], inbox, sent)
        BY DEF OrderInv, Boxes
      <4>2. Behind(mailbox[q], Tail(inbox), sent)
        BY <1>1, <2>1, <4>1
      <4>3. CASE mailbox'[q] = mailbox[q]
        BY <4>2, <4>3
      <4>4. ASSUME NEW e, e.n = Head(inbox).msg.n, mailbox'[q] = Append(mailbox[q], e)
            PROVE  /\ Behind(mailbox'[q], Tail(inbox), sent)
                   /\ \A l : Behind(l, inbox, sent) /\ Precedes(l, mailbox[q]) => Precedes(l, mailbox'[q])
        <5>1. /\ e.n \in 1..sent /\ e.n = inbox[1].msg.n /\ 1 \in DOMAIN inbox
              /\ \A j \in DOMAIN Tail(inbox) : e.n < Tail(inbox)[j].msg.n
          BY <2>1, <4>4, HeadOfQueue DEF OrderInv
        <5>2. \A l : Behind(l, inbox, sent) => \A i \in DOMAIN l : l[i].n < e.n
          BY <5>1 DEF Behind
        <5>3. Behind(mailbox'[q], Tail(inbox), sent)
          BY <4>1, <4>2, <4>4, <5>1, <5>2, BehindGains
        <5>4. \A j \in DOMAIN mailbox'[q] :
                mailbox'[q][j] = e \/ (j \in DOMAIN mailbox[q] /\ mailbox'[q][j] = mailbox[q][j])
          <6>1. IsSequence(mailbox[q])
            BY <4>1 DEF Behind
          <6> DEFINE box == mailbox[q]
                     n == Len(box)
          <6>2. /\ n \in Nat /\ DOMAIN box = 1..n
                /\ DOMAIN Append(box, e) = 1..(n + 1)
                /\ \A j \in DOMAIN box : Append(box, e)[j] = box[j]
                /\ Append(box, e)[n + 1] = e
            BY <6>1, AppendSequence
          <6> HIDE DEF n
          <6> QED
            BY <4>4, <6>2
        <5>5. ASSUME NEW l, Behind(l, inbox, sent), Precedes(l, mailbox[q])
              PROVE  Precedes(l, mailbox'[q])
          BY <5>2, <5>4, <5>5 DEF Precedes
        <5> QED
          BY <5>3, <5>5
      <4>5. \/ mailbox'[q] = mailbox[q]
            \/ \E e : e.n = Head(inbox).msg.n /\ mailbox'[q] = Append(mailbox[q], e)
        <5>1. mailbox'[q] = Delivered[q]
          BY <2>3
        <5>2. \/ Delivered[q] = mailbox[q]
              \/ \E d : Delivered[q] = Append(mailbox[q], [n |-> Head(inbox).msg.n, reply |-> d.msg])
          BY <2>1, DeliveredOnce
        <5>3. ASSUME NEW d, Delivered[q] = Append(mailbox[q], [n |-> Head(inbox).msg.n, reply |-> d.msg])
              PROVE  \E e : e.n = Head(inbox).msg.n /\ mailbox'[q] = Append(mailbox[q], e)
          <6> DEFINE e == [n |-> Head(inbox).msg.n, reply |-> d.msg]
          <6>1. e.n = Head(inbox).msg.n
            OBVIOUS
          <6>2. mailbox'[q] = Append(mailbox[q], e)
            BY <5>1, <5>3
          <6> HIDE DEF e
          <6> QED
            BY <6>1, <6>2
        <5> QED
          BY <5>1, <5>2, <5>3
      <4> QED
        BY <4>3, <4>4, <4>5
    <3> QED
      BY <1>1, <2>1, <3>1, <3>2, FrameKeeps
  <2> QED
    BY <2>1, <2>2, <2>3
<1>3. ASSUME UNCHANGED <<scenario, proc, nextPort, mailbox, sent, connections>>,
             inbox' = inbox \/ inbox' = <<>> \/ (inbox # <<>> /\ inbox' = Tail(inbox))
      PROVE  OrderInv'
  <2>1. Keyed'
    BY <1>3 DEF OrderInv, Keyed
  <2>2. /\ Queue(inbox', sent, nextPort)
        /\ \A l : Behind(l, inbox, sent) => Behind(l, inbox', sent)
    BY <1>1, <1>3, QueueEmpty DEF OrderInv
  <2> QED
    BY <1>3, <2>1, <2>2, FrameKeeps DEF OrderInv, Boxes
<1>4. CASE DropRequests
  BY <1>3, <1>4 DEF DropRequests, Overloaded, stateOfHandlers
<1>5. CASE (BeginFrame \/ EndFrame \/ Recreate) /\ UNCHANGED clientVars
  BY <1>3, <1>5 DEF BeginFrame, EndFrame, Recreate, stateOfHandlers, clientVars
<1> QED
  BY <1>2, <1>4, <1>5 DEF Frame

\* What a program that is at a step may count on.
LEMMA AtStep ==
  ASSUME OrderInv, NEW p \in Program, Running(p)
  PROVE  /\ scenario \in DOMAIN Scenario /\ p \in DOMAIN Scenario[scenario]
         /\ Placed(proc[p], Tests(p), nextPort)
         /\ Callable(Step(p))
         /\ nextPort \in Nat \ {0}
         /\ InHand(p, proc[p], nextPort)
<1>1. /\ scenario \in DOMAIN Scenario /\ p \in DOMAIN Scenario[scenario]
      /\ Placed(proc[p], Tests(p), nextPort)
      /\ nextPort \in Nat \ {0}
  BY FirstFreePositive DEF OrderInv
<1> QED
  BY <1>1, StepCallable DEF InHand, Placed

LEMMA OpenFacts ==
  ASSUME OrderInv, NEW p \in Program, OpenUDP(p)
  PROVE  \E port, now, new :
           /\ port = IF Step(p).port = 0 THEN nextPort ELSE Step(p).port
           /\ port \notin DOMAIN mailbox /\ port # 0
           /\ DOMAIN mailbox' = DOMAIN mailbox \cup {port} /\ mailbox'[port] = <<>>
           /\ \A q \in DOMAIN mailbox : mailbox'[q] = mailbox[q]
           /\ nextPort' = IF Step(p).port = 0 THEN nextPort + 1 ELSE nextPort
           /\ InHand(p, now, nextPort') /\ now.port = port /\ now.log = proc[p].log
           /\ now.asked = proc[p].asked
           /\ Leaves(p, now, new)
           /\ UNCHANGED <<scenario, pluginVars>>
<1> DEFINE port == IF Step(p).port = 0 THEN nextPort ELSE Step(p).port
           now == [proc[p] EXCEPT !.port = port]
<1>1. Running(p) /\ Step(p).op = "open"
  BY DEF OpenUDP, At
<1>2. Step(p).port \in Named \cup {0} /\ nextPort \in Nat /\ nextPort >= FirstFree
  BY <1>1, AtStep DEF Callable, OrderInv
<1>3. /\ port \notin DOMAIN mailbox
      /\ mailbox' = [q \in DOMAIN mailbox \cup {port} |-> IF q = port THEN <<>> ELSE mailbox[q]]
      /\ nextPort' = IF Step(p).port = 0 THEN nextPort + 1 ELSE nextPort
      /\ Continue(p, now, FALSE)
      /\ UNCHANGED <<scenario, pluginVars>>
  BY DEF OpenUDP
<1>4. port \in 0..(nextPort' - 1) /\ port # 0
  <2>1. CASE Step(p).port = 0
    <3>1. port = nextPort /\ nextPort' = nextPort + 1
      BY <1>3, <2>1
    <3> QED
      BY <1>2, <3>1, FirstFreePositive
  <2>2. CASE Step(p).port # 0
    <3>1. port = Step(p).port /\ nextPort' = nextPort
      BY <1>3, <2>2
    <3> QED
      BY <1>2, <2>2, <3>1, NamedBelow
  <2> QED
    BY <2>1, <2>2
<1>5. InHand(p, now, nextPort') /\ now.port = port /\ now.log = proc[p].log /\ now.asked = proc[p].asked
  BY <1>1, <1>4, AtStep DEF InHand, Placed
<1> HIDE DEF port, now
<1>6. \E new : Leaves(p, now, new)
  BY <1>3, ContinueLeaves
<1>7. port = IF Step(p).port = 0 THEN nextPort ELSE Step(p).port
  BY DEF port
<1> QED
  BY <1>3, <1>4, <1>5, <1>6, <1>7

LEMMA OpenOrder == ASSUME OrderInv, NEW p \in Program, OpenUDP(p) PROVE OrderInv'
<1>1. PICK port, now, new :
        /\ port \notin DOMAIN mailbox /\ port # 0
        /\ DOMAIN mailbox' = DOMAIN mailbox \cup {port} /\ mailbox'[port] = <<>>
        /\ \A q \in DOMAIN mailbox : mailbox'[q] = mailbox[q]
        /\ nextPort' = nextPort + 1 \/ nextPort' = nextPort
        /\ InHand(p, now, nextPort') /\ now.port = port /\ now.log = proc[p].log
        /\ Leaves(p, now, new)
        /\ UNCHANGED <<scenario, pluginVars>>
  BY OpenFacts
<1>2. Running(p)
  BY DEF OpenUDP, At
<1>3. nextPort' \in Nat \ {0} /\ nextPort <= nextPort' /\ nextPort \in Nat
  BY <1>1, <1>2, AtStep
<1>4. Placed(new, Tests(p), nextPort') /\ new.log = now.log /\ (new.port = now.port \/ new.port = 0)
  BY <1>1, <1>2, <1>3, AtStep, LeavesPlaced
<1>5. UNCHANGED <<connections, inbox, sent>> /\ proc' = [proc EXCEPT ![p] = new]
  BY <1>1 DEF pluginVars, vars, handlerVars, Leaves
<1>6. Queue(inbox', sent', nextPort') /\ sent' \in Nat
  BY <1>3, <1>5, QueueFree DEF OrderInv
<1>7. 0 \notin DOMAIN mailbox'
  BY <1>1 DEF OrderInv, Boxes
<1>8. new.port \notin DOMAIN mailbox' \/ mailbox'[new.port] = <<>>
  BY <1>1, <1>4, <1>7
<1> QED
  BY <1>1, <1>3, <1>4, <1>5, <1>6, <1>7, <1>8, ClientKeeps

\* A call that only moves the control of the program.
LEMMA LeavingKeeps ==
  ASSUME OrderInv, NEW p \in Program, Running(p),
         NEW now, InHand(p, now, nextPort), NEW new, Leaves(p, now, new),
         now.log = proc[p].log, now.port = proc[p].port,
         UNCHANGED <<scenario, nextPort, connections>>, sent' \in Nat,
         Queue(inbox', sent', nextPort),
         \A l : Behind(l, inbox, sent) => Behind(l, inbox', sent'),
         \A q \in DOMAIN mailbox' : q \in DOMAIN mailbox /\ mailbox'[q] = mailbox[q]
  PROVE  OrderInv'
<1>1. nextPort \in Nat \ {0}
  BY AtStep
<1>2. Placed(new, Tests(p), nextPort) /\ new.log = now.log /\ (new.port = now.port \/ new.port = 0)
  BY <1>1, AtStep, LeavesPlaced
<1>3. proc' = [proc EXCEPT ![p] = new]
  BY DEF Leaves
<1>4. 0 \notin DOMAIN mailbox'
  BY DEF OrderInv, Boxes
<1>5. nextPort' \in Nat /\ nextPort <= nextPort' /\ nextPort' = nextPort
  BY <1>1
<1>6. new.port = proc[p].port \/ new.port \notin DOMAIN mailbox'
  BY <1>2, <1>4
<1>7. /\ Placed(new, Tests(p), nextPort') /\ Queue(inbox', sent', nextPort')
      /\ new.log = proc[p].log
  BY <1>2, <1>5
<1> QED
  BY <1>3, <1>4, <1>5, <1>6, <1>7, ClientKeeps

LEMMA CloseOrder == ASSUME OrderInv, NEW p \in Program, CloseUDP(p) PROVE OrderInv'
<1>1. PICK new : Leaves(p, proc[p], new)
  BY ContinueLeaves DEF CloseUDP
<1>2. /\ Running(p) /\ UNCHANGED <<scenario, nextPort, connections, inbox, sent>>
      /\ \A q \in DOMAIN mailbox' : q \in DOMAIN mailbox /\ mailbox'[q] = mailbox[q]
  BY DEF CloseUDP, At, Without, pluginVars, vars, handlerVars
<1> QED
  BY <1>1, <1>2, AtStep, LeavingKeeps DEF OrderInv

LEMMA CheckOrder == ASSUME OrderInv, NEW p \in Program, CheckResult(p) PROVE OrderInv'
<1>1. PICK new : Leaves(p, proc[p], new)
  BY ContinueLeaves DEF CheckResult
<1>2. Running(p) /\ UNCHANGED <<scenario, nextPort, connections, inbox, sent, mailbox>>
  BY DEF CheckResult, At, pluginVars, vars, handlerVars
<1> QED
  BY <1>1, <1>2, AtStep, LeavingKeeps DEF OrderInv

LEMMA SendOrder == ASSUME OrderInv, NEW p \in Program, Send(p) PROVE OrderInv'
<1>1. Running(p) /\ Step(p).op = "send" /\ UNCHANGED <<scenario, mailbox, nextPort>>
  BY DEF Send, At
<1>2. InHand(p, proc[p], nextPort) /\ Callable(Step(p))
  BY <1>1, AtStep
<1>3. PICK now, new : /\ InHand(p, now, nextPort) /\ Leaves(p, now, new)
                      /\ now.log = proc[p].log /\ now.port = proc[p].port
  BY <1>2, DoneLeaves DEF Send
<1>4. /\ UNCHANGED connections /\ sent' \in Nat
      /\ Queue(inbox', sent', nextPort)
      /\ \A l : Behind(l, inbox, sent) => Behind(l, inbox', sent')
  <2>1. CASE Step(p).call.ret < 0
    BY <2>1 DEF Send, pluginVars, vars, handlerVars, OrderInv
  <2>2. CASE ~(Step(p).call.ret < 0)
    <3>1. Sendable(Step(p).call.msg) /\ sendUDP(p, Step(p).call.msg)
      BY <1>1, <1>2, <2>2 DEF Send, Callable
    <3> QED
      BY <3>1, SendKeeps
  <2> QED
    BY <2>1, <2>2
<1> QED
  BY <1>1, <1>3, <1>4, LeavingKeeps

LEMMA RequestOrder == ASSUME OrderInv, NEW p \in Program, Request_(p) PROVE OrderInv'
<1>1. Running(p) /\ Step(p).op = "ask" /\ UNCHANGED <<scenario, mailbox, nextPort>>
  BY DEF Request_, At
<1>2. Sendable(Step(p).call.msg) /\ Placed(proc[p], Tests(p), nextPort) /\ nextPort \in Nat
  BY <1>1, AtStep DEF Callable
<1>3. /\ UNCHANGED connections /\ sent' \in Nat
      /\ Queue(inbox', sent', nextPort)
      /\ \A l : Behind(l, inbox, sent) => Behind(l, inbox', sent')
  BY <1>2, SendKeeps DEF Request_
<1> DEFINE new == [proc[p] EXCEPT !.state = IF Step(p).reader.head = "CONF" THEN "switch" ELSE "wait",
                                  !.asked = sent + 1]
<1>4. proc' = [proc EXCEPT ![p] = new]
  BY DEF Request_, Program
<1>5. Placed(new, Tests(p), nextPort)
  <2>1. /\ DOMAIN new = {"test", "step", "port", "ok", "kept", "state", "asked", "log"}
        /\ new.test = proc[p].test /\ new.step = proc[p].step /\ new.port = proc[p].port
        /\ new.state \in {"wait", "switch"}
        /\ new.state = "switch" => Step(p).reader.head = "CONF"
    BY <1>2 DEF Placed
  <2> HIDE DEF new
  <2> QED
    BY <1>1, <1>2, <2>1 DEF Placed, Step, Test_, Running
<1>6. new.log = proc[p].log /\ new.port = proc[p].port
  BY <1>2 DEF Placed
<1> HIDE DEF new
<1>7. /\ UNCHANGED <<scenario, connections, mailbox>>
      /\ nextPort' \in Nat /\ nextPort <= nextPort' /\ 0 \notin DOMAIN mailbox'
      /\ Placed(new, Tests(p), nextPort') /\ Queue(inbox', sent', nextPort')
  BY <1>1, <1>2, <1>3, <1>5 DEF OrderInv, Boxes
<1> QED
  BY <1>3, <1>4, <1>6, <1>7, ClientKeeps

LEMMA SwitchFacts ==
  ASSUME OrderInv, NEW p \in Program, Switch(p)
  PROVE  /\ Running(p) /\ Step(p).op = "ask" /\ Step(p).reader.head = "CONF"
         /\ Step(p).reader.port \in Named
         /\ nextPort \in Nat /\ nextPort >= FirstFree
<1>1. Running(p) /\ proc[p].state = "switch"
  BY DEF Switch
<1>2. Placed(proc[p], Tests(p), nextPort) /\ Callable(Step(p))
  BY <1>1, AtStep
<1>3. Step(p).op = "ask" /\ Step(p).reader.head = "CONF"
  BY <1>1, <1>2 DEF Placed, Step, Test_
<1> QED
  BY <1>1, <1>2, <1>3 DEF Callable, OrderInv

LEMMA SwitchOrder == ASSUME OrderInv, NEW p \in Program, Switch(p) PROVE OrderInv'
<1> DEFINE port == Step(p).reader.port
           new == [proc[p] EXCEPT !.port = port, !.state = "wait"]
<1>1. Running(p) /\ Step(p).op = "ask" /\ port \in Named /\ nextPort \in Nat /\ nextPort >= FirstFree
  BY SwitchFacts
<1>2. port \in 0..(nextPort - 1) /\ port # 0
  <2> HIDE DEF port
  <2> QED
    BY <1>1, NamedBelow
<1>3. Placed(proc[p], Tests(p), nextPort)
  BY <1>1, AtStep
<1>4. /\ proc' = [proc EXCEPT ![p] = new]
      /\ mailbox' = [q \in DOMAIN Without(proc[p].port) \cup {port} |->
                       IF q = port THEN <<>> ELSE mailbox[q]]
      /\ UNCHANGED <<scenario, nextPort, connections, inbox, sent>>
  BY DEF Switch, Program, pluginVars, vars, handlerVars
<1>5. /\ mailbox'[port] = <<>> /\ 0 \notin DOMAIN mailbox'
      /\ \A q \in DOMAIN mailbox' :
           mailbox'[q] = <<>> \/ (q \in DOMAIN mailbox /\ mailbox'[q] = mailbox[q])
  BY <1>2, <1>4 DEF Without, OrderInv, Boxes
<1>6. Placed(new, Tests(p), nextPort) /\ new.log = proc[p].log /\ new.port = port
  <2>1. /\ DOMAIN new = {"test", "step", "port", "ok", "kept", "state", "asked", "log"}
        /\ new.test = proc[p].test /\ new.step = proc[p].step /\ new.port = port
        /\ new.state = "wait" /\ new.log = proc[p].log
    BY <1>3 DEF Placed
  <2> HIDE DEF new, port
  <2> QED
    BY <1>1, <1>2, <1>3, <2>1 DEF Placed, Step, Test_, Running
<1> HIDE DEF new, port
<1>7. /\ UNCHANGED <<scenario, connections>> /\ sent' \in Nat
      /\ nextPort' \in Nat /\ nextPort <= nextPort'
      /\ Placed(new, Tests(p), nextPort') /\ Queue(inbox', sent', nextPort')
      /\ \A l : Behind(l, inbox, sent) => Behind(l, inbox', sent')
  BY <1>1, <1>4, <1>6 DEF OrderInv
<1> QED
  BY <1>4, <1>5, <1>6, <1>7, ClientKeeps

LEMMA ExitFacts ==
  ASSUME OrderInv, NEW p \in Program, Exit(p)
  PROVE  \E new :
           /\ proc' = [proc EXCEPT ![p] = new]
           /\ new.port = 0 /\ new.log = proc[p].log
           /\ Placed(new, Tests(p), nextPort)
           /\ Running(p) /\ UNCHANGED <<scenario, nextPort, pluginVars>>
           /\ mailbox' = Without(proc[p].port)
<1> DEFINE new == [Fresh EXCEPT !.test = Len(Tests(p)) + 1, !.log = proc[p].log]
<1>1. Running(p) /\ UNCHANGED <<scenario, nextPort, pluginVars>> /\ mailbox' = Without(proc[p].port)
  BY DEF Exit, At
<1>2. proc' = [proc EXCEPT ![p] = new]
  BY DEF Exit
<1>3. Len(Tests(p)) \in Nat /\ nextPort \in Nat \ {0}
  BY <1>1, AtStep, ProgramAssumption DEF Tests
<1>4. /\ DOMAIN new = {"test", "step", "port", "ok", "kept", "state", "asked", "log"}
      /\ new.test = Len(Tests(p)) + 1 /\ new.step = 1 /\ new.port = 0 /\ new.state = "run"
      /\ new.log = proc[p].log
  BY DEF Fresh
<1> HIDE DEF new
<1>5. Placed(new, Tests(p), nextPort)
  BY <1>3, <1>4 DEF Placed
<1> QED
  BY <1>1, <1>2, <1>4, <1>5

LEMMA ExitOrder == ASSUME OrderInv, NEW p \in Program, Exit(p) PROVE OrderInv'
<1>1. PICK new :
        /\ proc' = [proc EXCEPT ![p] = new]
        /\ new.port = 0 /\ new.log = proc[p].log
        /\ Placed(new, Tests(p), nextPort)
        /\ UNCHANGED <<scenario, nextPort, pluginVars>>
        /\ mailbox' = Without(proc[p].port)
  BY ExitFacts
<1>2. UNCHANGED <<connections, inbox, sent>>
  BY <1>1 DEF pluginVars, vars, handlerVars
<1>3. /\ 0 \notin DOMAIN mailbox'
      /\ \A q \in DOMAIN mailbox' : q \in DOMAIN mailbox /\ mailbox'[q] = mailbox[q]
  BY <1>1 DEF Without, OrderInv, Boxes
<1>4. /\ sent' \in Nat /\ nextPort' \in Nat /\ nextPort <= nextPort'
      /\ Placed(new, Tests(p), nextPort') /\ Queue(inbox', sent', nextPort')
      /\ \A l : Behind(l, inbox, sent) => Behind(l, inbox', sent')
  BY <1>1, <1>2 DEF OrderInv
<1> QED
  BY <1>1, <1>2, <1>3, <1>4, ClientKeeps

LEMMA TimeoutOrder == ASSUME OrderInv, NEW p \in Program, Timeout(p) PROVE OrderInv'
<1>1. Running(p) /\ UNCHANGED <<scenario, mailbox, nextPort, connections, inbox, sent>>
  BY DEF Timeout, pluginVars, vars, handlerVars
<1>2. InHand(p, proc[p], nextPort)
  BY <1>1, AtStep
<1>3. PICK kept : Done(p, [proc[p] EXCEPT !.kept = kept], FALSE, Step(p).fail)
  BY DEF Timeout
<1> DEFINE held == [proc[p] EXCEPT !.kept = kept]
<1>4. InHand(p, held, nextPort) /\ held.log = proc[p].log /\ held.port = proc[p].port
  BY <1>2 DEF InHand
<1>5. Done(p, held, FALSE, Step(p).fail)
  BY <1>3
<1> HIDE DEF held
<1>6. PICK now : /\ InHand(p, now, nextPort) /\ now.log = held.log /\ now.port = held.port
                 /\ \E new : Leaves(p, now, new)
  BY <1>4, <1>5, DoneLeaves
<1>7. PICK new : Leaves(p, now, new)
  BY <1>6
<1> QED
  BY <1>1, <1>4, <1>6, <1>7, LeavingKeeps DEF OrderInv
\* The line that is written for an answer.
Entry_(p, answer) == [n |-> answer.n, asked |-> proc[p].asked, head |-> answer.reply.head]

\* What a program holds after it has read an answer.
ReadBy(p, answer, result) ==
  IF result.ret < 0 THEN proc[p]
  ELSE CASE Step(p).expect.how = "keep" -> [proc[p] EXCEPT !.kept = FirstOf(result.values)]
         [] Step(p).expect.how = "log"  -> [proc[p] EXCEPT !.log = Append(@, Entry_(p, answer))]
         [] OTHER                       -> proc[p]

LEMMA ReadInHand ==
  ASSUME NEW p, NEW answer, NEW result, NEW free, InHand(p, proc[p], free),
         DOMAIN proc[p] = {"test", "step", "port", "ok", "kept", "state", "asked", "log"}
  PROVE  LET read == ReadBy(p, answer, result)
         IN  /\ InHand(p, read, free) /\ read.port = proc[p].port
             /\ read.log = proc[p].log \/ read.log = Append(proc[p].log, Entry_(p, answer))
<1> DEFINE read == ReadBy(p, answer, result)
           logged == [proc[p] EXCEPT !.log = Append(@, Entry_(p, answer))]
           kept == [proc[p] EXCEPT !.kept = FirstOf(result.values)]
<1>1. read = proc[p] \/ read = logged \/ read = kept
  BY DEF ReadBy
<1>2. /\ InHand(p, logged, free) /\ logged.port = proc[p].port
      /\ logged.log = Append(proc[p].log, Entry_(p, answer))
  BY DEF InHand
<1>3. InHand(p, kept, free) /\ kept.port = proc[p].port /\ kept.log = proc[p].log
  BY DEF InHand
<1> HIDE DEF read, logged, kept
<1>4. /\ InHand(p, read, free) /\ read.port = proc[p].port
      /\ read.log = proc[p].log \/ read.log = Append(proc[p].log, Entry_(p, answer))
  BY <1>1, <1>2, <1>3
<1> QED
  BY <1>4 DEF read

LEMMA ReceiveFacts ==
  ASSUME OrderInv, NEW p \in Program, Receive(p)
  PROVE  LET port == proc[p].port
             answer == Head(mailbox[port])
             result == Result(Step(p).reader, answer.reply)
             read == ReadBy(p, answer, result)
         IN  /\ Running(p) /\ proc[p].state = "wait"
             /\ port \in DOMAIN mailbox /\ mailbox[port] # <<>>
             /\ mailbox' = [mailbox EXCEPT ![port] = Tail(@)]
             /\ UNCHANGED <<scenario, nextPort, connections, inbox, sent>>
             /\ Done(p, read, result.ret = 0 /\ Verdict(Step(p).expect, result.values, proc[p].kept),
                     Step(p).fail)
<1>1. /\ Running(p) /\ proc[p].state = "wait"
      /\ Waiting(p) # <<>>
      /\ mailbox' = [mailbox EXCEPT ![proc[p].port] = Tail(@)]
      /\ UNCHANGED <<scenario, nextPort, pluginVars>>
  BY DEF Receive
<1>2. proc[p].port \in DOMAIN mailbox /\ Waiting(p) = mailbox[proc[p].port]
  BY <1>1 DEF Waiting
<1>3. UNCHANGED <<connections, inbox, sent>>
  BY <1>1 DEF pluginVars, vars, handlerVars
<1> DEFINE answer == Head(Waiting(p))
           result == Result(Step(p).reader, answer.reply)
           read == ReadBy(p, answer, result)
<1>4. Done(p, read, result.ret = 0 /\ Verdict(Step(p).expect, result.values, proc[p].kept), Step(p).fail)
  BY Zenon DEF Receive, ReadBy, Entry_
<1> QED
  BY <1>1, <1>2, <1>3, <1>4

LEMMA ReceiveOrder == ASSUME OrderInv, NEW p \in Program, Receive(p) PROVE OrderInv'
<1> DEFINE port == proc[p].port
           box == mailbox[port]
           answer == Head(box)
           result == Result(Step(p).reader, answer.reply)
           read == ReadBy(p, answer, result)
           good == result.ret = 0 /\ Verdict(Step(p).expect, result.values, proc[p].kept)
           e == Entry_(p, answer)
<1>1. /\ Running(p)
      /\ port \in DOMAIN mailbox /\ box # <<>>
      /\ mailbox' = [mailbox EXCEPT ![port] = Tail(@)]
      /\ UNCHANGED <<scenario, nextPort, connections, inbox, sent>>
      /\ Done(p, read, good, Step(p).fail)
  BY ReceiveFacts
<1>2. /\ scenario \in DOMAIN Scenario /\ p \in DOMAIN Scenario[scenario]
      /\ Placed(proc[p], Tests(p), nextPort) /\ nextPort \in Nat \ {0}
      /\ InHand(p, proc[p], nextPort)
  BY <1>1, AtStep
<1>3. /\ InHand(p, read, nextPort) /\ read.port = port
      /\ read.log = proc[p].log \/ read.log = Append(proc[p].log, e)
  BY <1>2, ReadInHand DEF Placed
<1>4. e.n = Head(box).n
  BY DEF Entry_
<1> HIDE DEF result, read, good, e
<1>5. PICK now : /\ InHand(p, now, nextPort) /\ now.log = read.log /\ now.port = read.port
                 /\ \E new : Leaves(p, now, new)
  BY <1>1, <1>3, DoneLeaves
<1>6. PICK new : Leaves(p, now, new)
  BY <1>5
<1>7. /\ Placed(new, Tests(p), nextPort) /\ new.log = read.log
      /\ new.port = port \/ new.port = 0
  BY <1>1, <1>2, <1>3, <1>5, <1>6, LeavesPlaced
<1>8. /\ Behind(box, inbox, sent) /\ Behind(Tail(box), inbox, sent)
      /\ 1 \in DOMAIN box /\ Head(box) = box[1]
      /\ \A i \in DOMAIN Tail(box) : i \in Nat \ {0} /\ i + 1 \in DOMAIN box /\ Tail(box)[i] = box[i + 1]
  <2>1. Behind(box, inbox, sent)
    BY <1>1 DEF OrderInv, Boxes
  <2> QED
    BY <1>1, <2>1, BehindTail, TailSequence DEF Behind
<1>9. /\ e.n = box[1].n /\ e.n \in 1..sent
      /\ \A j \in DOMAIN inbox : e.n < inbox[j].msg.n
      /\ \A i \in DOMAIN Tail(box) : e.n < Tail(box)[i].n
  <2>1. e.n = box[1].n
    BY <1>4, <1>8
  <2>2. \A i \in DOMAIN Tail(box) : box[1].n < box[i + 1].n
    <3>1. \A i, j \in DOMAIN box : i < j => box[i].n < box[j].n
      BY <1>8 DEF Behind
    <3>2. \A i \in DOMAIN Tail(box) : 1 < i + 1 /\ i + 1 \in DOMAIN box
      BY <1>8
    <3> QED
      BY <1>8, <3>1, <3>2
  <2> QED
    BY <1>8, <2>1, <2>2 DEF Behind
<1>10. Boxes(mailbox', inbox, sent)
  BY <1>1, <1>8 DEF OrderInv, Boxes
<1>11. \A q \in DOMAIN mailbox : \A l : Precedes(l, mailbox[q]) => Precedes(l, mailbox'[q])
  <2>1. \A l : Precedes(l, box) => Precedes(l, Tail(box))
    BY <1>8 DEF Precedes
  <2> QED
    BY <1>1, <2>1
<1>12. ASSUME NEW r \in Program, r # p PROVE Kept(proc[r], mailbox', inbox, sent)
  BY <1>1, <1>11 DEF OrderInv, Kept
<1>13. Behind(proc[p].log, inbox, sent) /\ Precedes(proc[p].log, box)
  BY <1>1 DEF OrderInv, Kept
<1>14. Behind(new.log, inbox, sent) /\ Precedes(new.log, Tail(box))
  <2>1. CASE new.log = proc[p].log
    BY <1>8, <1>13, <2>1 DEF Precedes
  <2>2. CASE new.log = Append(proc[p].log, e)
    <3> DEFINE old == proc[p].log
               n == Len(old)
    <3>1. \A i \in DOMAIN old : old[i].n < e.n
      BY <1>8, <1>9, <1>13 DEF Precedes
    <3>2. Behind(new.log, inbox, sent)
      BY <1>9, <1>13, <2>2, <3>1, BehindGains
    <3>3. /\ n \in Nat /\ DOMAIN old = 1..n
          /\ DOMAIN Append(old, e) = 1..(n + 1)
          /\ \A j \in DOMAIN old : Append(old, e)[j] = old[j]
          /\ Append(old, e)[n + 1] = e
      <4>1. IsSequence(old)
        BY <1>13 DEF Behind
      <4> HIDE DEF old
      <4> QED
        BY <4>1, AppendSequence
    <3> HIDE DEF n, old
    <3>4. \A j \in DOMAIN new.log : new.log[j] = e \/ (j \in DOMAIN old /\ new.log[j] = old[j])
      BY <2>2, <3>3 DEF old
    <3>5. Precedes(old, Tail(box))
      BY <1>8, <1>13 DEF Precedes, old
    <3>6. Precedes(new.log, Tail(box))
      BY <1>9, <3>4, <3>5 DEF Precedes
    <3> QED
      BY <3>2, <3>6
  <2> QED
    BY <1>3, <1>7, <2>1, <2>2
<1>15. mailbox'[port] = Tail(box) /\ DOMAIN mailbox' = DOMAIN mailbox /\ 0 \notin DOMAIN mailbox
  BY <1>1 DEF OrderInv, Boxes
<1> HIDE DEF box, port
<1>16. Kept(new, mailbox', inbox, sent)
  BY <1>7, <1>14, <1>15 DEF Kept
<1>17. DOMAIN proc' = DOMAIN proc /\ proc'[p] = new /\ \A r \in Program : r # p => proc'[r] = proc[r]
  BY <1>6 DEF Leaves, Program
<1>18. Keyed'
  BY <1>1 DEF OrderInv, Keyed
<1>19. ASSUME NEW r \in Program
       PROVE  /\ Placed(proc'[r], Scenario[scenario][r], nextPort)
              /\ Kept(proc'[r], mailbox', inbox, sent)
  <2>1. CASE r = p
    BY <1>7, <1>16, <1>17, <2>1 DEF Tests
  <2>2. CASE r # p
    BY <1>12, <1>17, <2>2 DEF OrderInv, Tests
  <2> QED
    BY <2>1, <2>2
<1> QED
  BY <1>1, <1>10, <1>17, <1>18, <1>19 DEF OrderInv, Program, Tests

LEMMA OrderStep == ASSUME OrderInv, [SessionNext]_sessionVars PROVE OrderInv'
<1>1. CASE Frame
  BY <1>1, FrameOrder
<1>2. ASSUME NEW p \in Program, Client_(p) PROVE OrderInv'
  BY <1>2, OpenOrder, CloseOrder, CheckOrder, SendOrder, RequestOrder, SwitchOrder, ReceiveOrder,
     TimeoutOrder, ExitOrder DEF Client_
<1>3. CASE UNCHANGED sessionVars
  <2>1. UNCHANGED <<scenario, proc, nextPort, mailbox, sent, inbox, connections>>
    BY <1>3 DEF sessionVars, clientVars, pluginVars, vars, handlerVars
  <2>2. Keyed'
    BY <2>1 DEF OrderInv, Keyed
  <2> QED
    BY <2>1, <2>2, FrameKeeps DEF OrderInv, Boxes
<1> QED
  BY <1>1, <1>2, <1>3 DEF SessionNext, Clients

LEMMA OrderInit == SessionInit => OrderInv
<1> SUFFICES ASSUME SessionInit PROVE OrderInv
  OBVIOUS
<1>1. /\ connections = <<>> /\ inbox = <<>> /\ sent = 0 /\ mailbox = <<>> /\ nextPort = FirstFree
      /\ scenario \in DOMAIN Scenario
      /\ proc = [p \in DOMAIN Scenario[scenario] |-> Fresh]
  BY DEF SessionInit, HandlersInit
<1>2. Keyed
  BY <1>1 DEF Keyed
<1>3. Queue(inbox, sent, nextPort) /\ Boxes(mailbox, inbox, sent)
  BY <1>1, QueueEmpty, EmptySequence DEF Boxes
<1>4. Program = DOMAIN Scenario[scenario] /\ \A p \in Program : proc[p] = Fresh
  BY <1>1 DEF Program
<1>5. ASSUME NEW p \in Program PROVE Placed(Fresh, Tests(p), nextPort)
  <2>1. p \in DOMAIN Scenario[scenario] /\ Tests(p) = Scenario[scenario][p]
    BY <1>4 DEF Tests
  <2>2. Len(Tests(p)) \in Nat /\ \A t \in 1..Len(Tests(p)) : Len(Tests(p)[t]) \in Nat \ {0}
    BY <1>1, <2>1, ProgramAssumption
  <2>3. 1 <= Len(Tests(p)) => 1 <= Len(Tests(p)[1])
    BY <2>2
  <2> QED
    BY <1>1, <2>3, FirstFreePositive DEF Placed, Fresh
<1>6. Kept(Fresh, mailbox, inbox, sent)
  BY <1>1, BehindNothing, EmptySequence DEF Kept, Fresh
<1> QED
  BY <1>1, <1>2, <1>3, <1>4, <1>5, <1>6, FirstFreePositive DEF OrderInv
-------------------------------------------------------------------------------
(* The monitor: its program, and what the steps of others leave to it *)

\* Two calls take turns.
Turn(k, x, y) == IF k % 2 = 1 THEN x ELSE y

LEMMA PairTimes ==
  ASSUME NEW n \in Nat, NEW x, NEW y
  PROVE  /\ Times(n, <<x, y>>) \in Seq({x, y})
         /\ Len(Times(n, <<x, y>>)) = n * 2
         /\ \A k \in 1..(n * 2) : Times(n, <<x, y>>)[k] = Turn(k, x, y)
<1> DEFINE t == Times(n, <<x, y>>)
<1>1. t = [k \in 1..(n * 2) |-> <<x, y>>[1 + ((k - 1) % 2)]]
  <2>1. Len(<<x, y>>) = 2
    OBVIOUS
  <2> QED
    BY <2>1 DEF Times
<1>2. \A k \in 1..(n * 2) : <<x, y>>[1 + ((k - 1) % 2)] = IF k % 2 = 1 THEN x ELSE y
  <2> SUFFICES ASSUME NEW k \in 1..(n * 2)
               PROVE  <<x, y>>[1 + ((k - 1) % 2)] = IF k % 2 = 1 THEN x ELSE y
    OBVIOUS
  <2>1. k \in Int
    OBVIOUS
  <2>2. CASE k % 2 = 1
    <3>1. 1 + ((k - 1) % 2) = 1
      BY <2>1, <2>2
    <3> QED
      BY <2>2, <3>1
  <2>3. CASE k % 2 # 1
    <3>1. 1 + ((k - 1) % 2) = 2
      BY <2>1, <2>3
    <3> QED
      BY <2>3, <3>1
  <2> QED
    BY <2>2, <2>3
<1>3. t = [k \in 1..(n * 2) |-> IF k % 2 = 1 THEN x ELSE y]
  BY <1>1, <1>2
<1> HIDE DEF t
<1>4. n * 2 \in Nat
  OBVIOUS
<1> DEFINE N == n * 2
           S == {x, y}
<1>5. t \in [1..N -> S]
  BY <1>3
<1>6. N \in Nat
  BY <1>4
<1>7. t \in Seq(S) /\ Len(t) = N
  <2> HIDE DEF N, S
  <2> QED
    BY <1>5, <1>6
<1> QED
  BY <1>3, <1>7 DEF t, Turn

\* What the monitor does at each step.
Reads(k) ==
  IF k % 2 = 0 THEN Ask(getPOSI(0), Reader("POSI"), Log, "stop")
  ELSE Ask(getCTRL(0), Reader("CTRL"), Log, "stop")

LEMMA MonitorProgram ==
  ASSUME NEW s \in DOMAIN Scenario, M \in DOMAIN Scenario[s]
  PROVE  /\ Len(Scenario[s][M]) = 1
         /\ Scenario[s][M][1][1] = Open(0)
         /\ \A k \in 2..Len(Scenario[s][M][1]) : Scenario[s][M][1][k] = Reads(k)
<1> DEFINE program == Scenario[s][M]
           steps == program[1]
           n == Len(steps) \div 2
           a == Ask(getPOSI(0), Reader("POSI"), Log, "stop")
           b == Ask(getCTRL(0), Reader("CTRL"), Log, "stop")
           t == Times(n, <<a, b>>)
<1>1. program = <<<<openUDP>> \o t>>
  BY MonitorAssumption DEF Monitor, M
<1> HIDE DEF t, n
<1>2. Len(program) = 1 /\ steps = <<openUDP>> \o t
  BY <1>1
<1>3. Len(steps) \in Nat \ {0}
  BY <1>2, ProgramAssumption
<1>4. n \in Nat
  <2> HIDE DEF steps
  <2> QED
    BY <1>3 DEF n
<1>5. /\ t \in Seq({a, b})
      /\ Len(t) = n * 2
      /\ \A k \in 1..(n * 2) : t[k] = Turn(k, a, b)
  <2> HIDE DEF a, b
  <2>1. /\ Times(n, <<a, b>>) \in Seq({a, b})
        /\ Len(Times(n, <<a, b>>)) = n * 2
        /\ \A k \in 1..(n * 2) : Times(n, <<a, b>>)[k] = Turn(k, a, b)
    BY <1>4, PairTimes
  <2>2. t = Times(n, <<a, b>>)
    BY DEF t
  <2> QED
    BY <2>1, <2>2, Zenon
<1> HIDE DEF a, b
<1> DEFINE first == openUDP
           S == {first, a, b}
<1> HIDE DEF first
<1>6. /\ <<first>> \in Seq(S) /\ Len(<<first>>) = 1 /\ <<first>>[1] = first
      /\ t \in Seq(S) /\ steps = <<first>> \o t
  <2>1. {a, b} \subseteq S /\ first \in S
    OBVIOUS
  <2>2. t \in Seq(S)
    <3> HIDE DEF S
    <3> QED
      BY <1>5, <2>1, SeqMonotonic
  <2> QED
    BY <1>2, <2>1, <2>2 DEF first
<1> HIDE DEF S, steps
<1> DEFINE u == <<first>>
<1> HIDE DEF u
<1>7. /\ Len(steps) = 1 + n * 2
      /\ \A k \in 1..(1 + n * 2) : steps[k] = IF k <= 1 THEN u[k] ELSE t[k - 1]
  <2>1. u \in Seq(S) /\ Len(u) = 1 /\ t \in Seq(S) /\ steps = u \o t
    BY <1>6 DEF u
  <2>2. /\ Len(u \o t) = Len(u) + Len(t)
        /\ \A k \in 1..(Len(u) + Len(t)) : (u \o t)[k] = IF k <= Len(u) THEN u[k] ELSE t[k - Len(u)]
    BY <2>1, ConcatProperties
  <2> QED
    BY <1>5, <2>1, <2>2
<1>8. steps[1] = Open(0)
  <2>1. 1 \in 1..(1 + n * 2)
    BY <1>4
  <2>2. steps[1] = u[1]
    BY <1>7, <2>1
  <2> QED
    BY <2>2, <1>6 DEF u, first, openUDP
<1>9. ASSUME NEW k \in 2..Len(steps) PROVE steps[k] = Reads(k)
  <2>1. k - 1 \in 1..(n * 2) /\ k \in 1..(1 + n * 2) /\ ~(k <= 1) /\ k \in Nat
    BY <1>4, <1>7, <1>9
  <2>2. steps[k] = t[k - 1]
    BY <1>7, <2>1
  <2>3. steps[k] = Turn(k - 1, a, b)
    BY <1>5, <2>1, <2>2
  <2>4. (k - 1) % 2 = 1 <=> k % 2 = 0
    BY <2>1
  <2> QED
    BY <2>3, <2>4 DEF Reads, Turn, a, b
<1> QED
  BY <1>2, <1>8, <1>9 DEF steps

LEMMA AtMonitor ==
  ASSUME OrderInv, M \in Program, Running(M)
  PROVE  /\ proc[M].test = 1 /\ proc[M].step \in Nat \ {0}
         /\ proc[M].step = 1 => Step(M).op = "open" /\ Step(M).port = 0
         /\ proc[M].step # 1 => /\ Step(M).op = "ask"
                                /\ Step(M).call.msg.head = Asks(proc[M].step)
                                /\ Step(M).reader.head # "CONF"
                                /\ Step(M).expect.how = "log" /\ Step(M).fail = "stop"
<1> DEFINE steps == Scenario[scenario][M][1]
           k == proc[M].step
<1>1. /\ scenario \in DOMAIN Scenario /\ M \in DOMAIN Scenario[scenario]
      /\ Placed(proc[M], Tests(M), nextPort)
  BY AtStep
<1>2. /\ Len(Tests(M)) = 1 /\ steps[1] = Open(0)
      /\ \A j \in 2..Len(steps) : steps[j] = Reads(j)
  BY <1>1, MonitorProgram DEF Tests
<1>3. proc[M].test = 1 /\ k \in Nat \ {0}
  BY <1>1, <1>2 DEF Placed, Running
<1>4. Test_(M) = steps /\ Step(M) = steps[k]
  BY <1>3 DEF Step, Test_, Tests
<1>5. k \in 1..Len(steps)
  BY <1>1, <1>4, StepCallable
<1> HIDE DEF steps, k
<1>6. CASE k = 1
  <2>1. Step(M) = Open(0)
    BY <1>2, <1>4, <1>6
  <2> QED
    BY <1>3, <1>6, <2>1 DEF Open, k
<1>7. CASE k # 1
  <2>1. Step(M) = Reads(k)
    <3>1. Len(steps) \in Nat
      BY <1>1, <1>2, <1>3, ProgramAssumption DEF steps, Tests
    <3>2. k \in 2..Len(steps)
      BY <1>3, <1>5, <1>7, <3>1
    <3> QED
      BY <1>2, <1>4, <3>2
  <2>2. /\ Step(M).op = "ask" /\ Step(M).reader.head # "CONF"
        /\ Step(M).expect.how = "log" /\ Step(M).fail = "stop"
    BY <2>1 DEF Reads, Ask, Reader, Log
  <2>3. Step(M).call.msg.head = Asks(k)
    BY <2>1 DEF Reads, Ask, getPOSI, getCTRL, Accepted, Asks
  <2> QED
    BY <1>3, <1>7, <2>2, <2>3 DEF k
<1> QED
  BY <1>6, <1>7
\* The monitor has its socket.
Connected == M \in Program /\ proc[M].test = 1 /\ proc[M].step # 1

LEMMA MonitorRests ==
  ASSUME MonitorInv, Program' = Program, M \in Program => proc'[M] = proc[M],
         Connected => Own_(proc[M], proc', mailbox', inbox')
  PROVE  MonitorInv'
BY DEF MonitorInv, Connected

LEMMA ExchangeGrows ==
  ASSUME NEW now, NEW box, NEW requests, IsSequence(requests), Exchange(now, box, requests),
         NEW x, x.src.port # now.port
  PROVE  Exchange(now, box, Append(requests, x))
<1> DEFINE r == Append(requests, x)
           n == Len(requests)
<1>1. /\ n \in Nat /\ DOMAIN requests = 1..n /\ DOMAIN r = 1..(n + 1)
      /\ \A i \in DOMAIN requests : r[i] = requests[i]
      /\ r[n + 1] = x
  BY AppendSequence
<1> HIDE DEF r, n
<1>2. \A i \in DOMAIN r : r[i] = x \/ (i \in DOMAIN requests /\ r[i] = requests[i])
  BY <1>1
<1>3. Exchange(now, box, r)
  BY <1>2 DEF Exchange
<1> QED
  BY <1>3 DEF r

LEMMA ExchangeShrinks ==
  ASSUME NEW now, NEW box, NEW requests, Exchange(now, box, requests),
         NEW fewer, \A i \in DOMAIN fewer : \E j \in DOMAIN requests : fewer[i] = requests[j]
  PROVE  Exchange(now, box, fewer)
BY DEF Exchange

\* A step of another program.
LEMMA OtherKeeps ==
  ASSUME OrderInv, MonitorInv, NEW p \in Program, p # M, NEW new, proc' = [proc EXCEPT ![p] = new],
         Connected =>
           /\ new.port # proc[M].port
           /\ proc[M].port \in DOMAIN mailbox' /\ mailbox'[proc[M].port] = mailbox[proc[M].port]
           /\ inbox' = inbox \/ \E x : inbox' = Append(inbox, x) /\ x.src.port = proc[p].port
  PROVE  MonitorInv'
<1>1. /\ DOMAIN proc' = DOMAIN proc /\ Program' = Program
      /\ proc'[p] = new /\ \A r \in Program : r # p => proc'[r] = proc[r]
  BY DEF Program
<1>2. ASSUME Connected PROVE Own_(proc[M], proc', mailbox', inbox')
  <2> DEFINE now == proc[M]
             box == mailbox[now.port]
  <2>1. Own_(now, proc, mailbox, inbox)
    BY <1>2 DEF Connected, MonitorInv
  <2>2. Exchange(now, box, inbox) /\ proc[p].port # now.port /\ IsSequence(inbox)
    BY <2>1 DEF Own_, OrderInv, Queue, Program
  <2> HIDE DEF now
  <2>3. Exchange(now, box, inbox')
    <3>1. CASE inbox' = inbox
      BY <2>2, <3>1
    <3>2. CASE \E x : inbox' = Append(inbox, x) /\ x.src.port = proc[p].port
      BY <2>2, <3>2, ExchangeGrows
    <3> QED
      BY <1>2, <3>1, <3>2
  <2>4. new.port # now.port /\ now.port \in DOMAIN mailbox' /\ mailbox'[now.port] = box
    BY <1>2 DEF now
  <2>5. \A r \in DOMAIN proc' : r # M => proc'[r].port # now.port
    BY <1>1, <2>1, <2>4 DEF Own_, Program
  <2>6. now.port >= FirstFree
    BY <2>1 DEF Own_
  <2>7. Own_(now, proc', mailbox', inbox')
    BY <2>3, <2>4, <2>5, <2>6 DEF Own_
  <2> QED
    BY <2>7 DEF now
<1> QED
  BY <1>1, <1>2, MonitorRests

\* What the monitor's port is not.
LEMMA MonitorPort ==
  ASSUME OrderInv, MonitorInv, Connected
  PROVE  /\ proc[M].port >= FirstFree /\ proc[M].port \in Nat /\ proc[M].port # 0
         /\ proc[M].port \notin Named
         /\ proc[M].port \in DOMAIN mailbox
         /\ \A p \in Program : p # M => proc[p].port # proc[M].port
<1>1. Own_(proc[M], proc, mailbox, inbox)
  BY DEF Connected, MonitorInv
<1>2. proc[M].port \in 0..(nextPort - 1) /\ nextPort \in Nat
  BY DEF Connected, OrderInv, Placed
<1>3. proc[M].port >= FirstFree /\ proc[M].port \in Nat
  BY <1>1, <1>2 DEF Own_
<1>4. proc[M].port \notin Named /\ proc[M].port # 0
  BY <1>3, FirstFreePositive DEF Named
<1> QED
  BY <1>1, <1>3, <1>4 DEF Own_, Program

LEMMA OtherLeaves ==
  ASSUME OrderInv, MonitorInv, NEW p \in Program, p # M, Running(p),
         NEW now, InHand(p, now, nextPort), NEW new, Leaves(p, now, new), now.port = proc[p].port,
         Connected =>
           /\ proc[M].port \in DOMAIN mailbox' /\ mailbox'[proc[M].port] = mailbox[proc[M].port]
           /\ inbox' = inbox \/ \E x : inbox' = Append(inbox, x) /\ x.src.port = proc[p].port
  PROVE  MonitorInv'
<1>1. new.port = proc[p].port \/ new.port = 0
  BY AtStep, LeavesPlaced
<1>2. proc' = [proc EXCEPT ![p] = new]
  BY DEF Leaves
<1>3. Connected => new.port # proc[M].port
  BY <1>1, MonitorPort
<1> QED
  BY <1>2, <1>3, OtherKeeps
LEMMA OtherClient ==
  ASSUME OrderInv, MonitorInv, NEW p \in Program, p # M, Client_(p)
  PROVE  MonitorInv'
<1>1. CASE OpenUDP(p)
  <2>1. PICK port, now, new :
          /\ port \notin DOMAIN mailbox
          /\ DOMAIN mailbox' = DOMAIN mailbox \cup {port}
          /\ \A q \in DOMAIN mailbox : mailbox'[q] = mailbox[q]
          /\ nextPort' = nextPort + 1 \/ nextPort' = nextPort
          /\ InHand(p, now, nextPort') /\ now.port = port
          /\ Leaves(p, now, new)
          /\ UNCHANGED pluginVars
    BY <1>1, OpenFacts
  <2>2. Running(p)
    BY <1>1 DEF OpenUDP, At
  <2>3. nextPort' \in Nat \ {0}
    BY <2>1, <2>2, AtStep
  <2>4. new.port = port \/ new.port = 0
    BY <2>1, <2>2, <2>3, AtStep, LeavesPlaced
  <2>5. proc' = [proc EXCEPT ![p] = new] /\ inbox' = inbox
    BY <2>1 DEF Leaves, pluginVars, vars
  <2>6. Connected =>
          /\ new.port # proc[M].port
          /\ proc[M].port \in DOMAIN mailbox' /\ mailbox'[proc[M].port] = mailbox[proc[M].port]
    BY <2>1, <2>4, MonitorPort
  <2> QED
    BY <2>5, <2>6, OtherKeeps
<1>2. CASE CloseUDP(p)
  <2>1. PICK new : Leaves(p, proc[p], new)
    BY <1>2, ContinueLeaves DEF CloseUDP
  <2>2. Running(p) /\ inbox' = inbox /\ mailbox' = Without(proc[p].port)
    BY <1>2 DEF CloseUDP, At, pluginVars, vars
  <2>3. Connected =>
          proc[M].port \in DOMAIN mailbox' /\ mailbox'[proc[M].port] = mailbox[proc[M].port]
    BY <2>2, MonitorPort DEF Without
  <2> QED
    BY <2>1, <2>2, <2>3, AtStep, OtherLeaves
<1>3. CASE CheckResult(p)
  <2>1. PICK new : Leaves(p, proc[p], new)
    BY <1>3, ContinueLeaves DEF CheckResult
  <2>2. Running(p) /\ inbox' = inbox /\ mailbox' = mailbox
    BY <1>3 DEF CheckResult, At, pluginVars, vars
  <2> QED
    BY <2>1, <2>2, AtStep, OtherLeaves, MonitorPort
<1>4. CASE Send(p)
  <2>1. Running(p) /\ Step(p).op = "send" /\ mailbox' = mailbox
    BY <1>4 DEF Send, At
  <2>2. InHand(p, proc[p], nextPort) /\ Callable(Step(p))
    BY <2>1, AtStep
  <2>3. PICK now, new : InHand(p, now, nextPort) /\ Leaves(p, now, new) /\ now.port = proc[p].port
    BY <1>4, <2>2, DoneLeaves DEF Send
  <2>4. inbox' = inbox \/ \E x : inbox' = Append(inbox, x) /\ x.src.port = proc[p].port
    <3>1. CASE Step(p).call.ret < 0
      BY <1>4, <3>1 DEF Send, pluginVars, vars
    <3>2. CASE ~(Step(p).call.ret < 0)
      <4>1. Sendable(Step(p).call.msg) /\ sendUDP(p, Step(p).call.msg)
        BY <1>4, <2>1, <2>2, <3>2 DEF Send, Callable
      <4> QED
        BY <4>1, SendKeeps
    <3> QED
      BY <3>1, <3>2
  <2> QED
    BY <2>1, <2>3, <2>4, OtherLeaves, MonitorPort
<1>5. CASE Request_(p)
  <2>1. Running(p) /\ Step(p).op = "ask" /\ mailbox' = mailbox
    BY <1>5 DEF Request_, At
  <2>2. Sendable(Step(p).call.msg) /\ Placed(proc[p], Tests(p), nextPort)
    BY <2>1, AtStep DEF Callable
  <2>3. inbox' = inbox \/ \E x : inbox' = Append(inbox, x) /\ x.src.port = proc[p].port
    BY <1>5, <2>2, SendKeeps DEF Request_
  <2>4. PICK state : proc' = [proc EXCEPT ![p] = [@ EXCEPT !.state = state, !.asked = sent + 1]]
    BY <1>5 DEF Request_
  <2> DEFINE new == [proc[p] EXCEPT !.state = state, !.asked = sent + 1]
  <2>5. new.port = proc[p].port
    BY <2>2 DEF Placed
  <2>6. proc' = [proc EXCEPT ![p] = new]
    BY <2>4
  <2> HIDE DEF new
  <2> QED
    BY <2>1, <2>3, <2>5, <2>6, OtherKeeps, MonitorPort
<1>6. CASE Switch(p)
  <2> DEFINE port == Step(p).reader.port
             new == [proc[p] EXCEPT !.port = port, !.state = "wait"]
  <2>1. Running(p) /\ port \in Named
    BY <1>6, SwitchFacts
  <2>2. /\ proc' = [proc EXCEPT ![p] = new]
        /\ mailbox' = [q \in DOMAIN Without(proc[p].port) \cup {port} |->
                         IF q = port THEN <<>> ELSE mailbox[q]]
        /\ inbox' = inbox
    BY <1>6 DEF Switch, Program, pluginVars, vars
  <2>3. new.port = port
    BY <2>1, AtStep DEF Placed
  <2> HIDE DEF new, port
  <2>4. Connected =>
          /\ new.port # proc[M].port
          /\ proc[M].port \in DOMAIN mailbox' /\ mailbox'[proc[M].port] = mailbox[proc[M].port]
    BY <2>1, <2>2, <2>3, MonitorPort DEF Without
  <2> QED
    BY <2>2, <2>4, OtherKeeps
<1>7. CASE Receive(p)
  <2> DEFINE port == proc[p].port
             answer == Head(mailbox[port])
             result == Result(Step(p).reader, answer.reply)
             read == ReadBy(p, answer, result)
             good == result.ret = 0 /\ Verdict(Step(p).expect, result.values, proc[p].kept)
  <2>1. /\ Running(p)
        /\ port \in DOMAIN mailbox
        /\ mailbox' = [mailbox EXCEPT ![port] = Tail(@)]
        /\ inbox' = inbox
        /\ Done(p, read, good, Step(p).fail)
    BY <1>7, ReceiveFacts
  <2>2. InHand(p, proc[p], nextPort) /\ Placed(proc[p], Tests(p), nextPort)
    BY <2>1, AtStep
  <2>3. InHand(p, read, nextPort) /\ read.port = port
    BY <2>2, ReadInHand DEF Placed
  <2> HIDE DEF result, read, good
  <2>4. \E now : /\ InHand(p, now, nextPort) /\ now.port = read.port
                 /\ \E new : Leaves(p, now, new)
    BY <2>1, <2>3, DoneLeaves
  <2>5. Connected =>
          proc[M].port \in DOMAIN mailbox' /\ mailbox'[proc[M].port] = mailbox[proc[M].port]
    BY <2>1, MonitorPort
  <2> QED
    BY <2>1, <2>3, <2>4, <2>5, OtherLeaves
<1>8. CASE Timeout(p)
  <2>1. Running(p) /\ mailbox' = mailbox /\ inbox' = inbox
    BY <1>8 DEF Timeout, pluginVars, vars
  <2>2. InHand(p, proc[p], nextPort)
    BY <2>1, AtStep
  <2>3. PICK kept : Done(p, [proc[p] EXCEPT !.kept = kept], FALSE, Step(p).fail)
    BY <1>8 DEF Timeout
  <2> DEFINE held == [proc[p] EXCEPT !.kept = kept]
  <2>4. InHand(p, held, nextPort) /\ held.port = proc[p].port
    BY <2>2 DEF InHand
  <2>5. Done(p, held, FALSE, Step(p).fail)
    BY <2>3
  <2> HIDE DEF held
  <2>6. PICK now : /\ InHand(p, now, nextPort) /\ now.port = held.port
                   /\ \E new : Leaves(p, now, new)
    BY <2>4, <2>5, DoneLeaves
  <2>7. PICK new : Leaves(p, now, new)
    BY <2>6
  <2> QED
    BY <2>1, <2>4, <2>6, <2>7, OtherLeaves, MonitorPort
<1>9. CASE Exit(p)
  <2>1. PICK new : /\ proc' = [proc EXCEPT ![p] = new] /\ new.port = 0
                   /\ UNCHANGED pluginVars /\ mailbox' = Without(proc[p].port)
    BY <1>9, ExitFacts
  <2>2. inbox' = inbox
    BY <2>1 DEF pluginVars, vars
  <2>3. Connected =>
          /\ new.port # proc[M].port
          /\ proc[M].port \in DOMAIN mailbox' /\ mailbox'[proc[M].port] = mailbox[proc[M].port]
    BY <2>1, MonitorPort DEF Without
  <2> QED
    BY <2>1, <2>2, <2>3, OtherKeeps
<1> QED
  BY <1>1, <1>2, <1>3, <1>4, <1>5, <1>6, <1>7, <1>8, <1>9 DEF Client_

\* A step of the plugin: the only answer that comes to the monitor is the one
\* to its request, which is then nowhere any more.
LEMMA FrameExchange ==
  ASSUME OrderInv, MonitorInv, Connected, Frame
  PROVE  LET now == proc[M]
         IN  /\ UNCHANGED proc
             /\ now.port \in DOMAIN mailbox' /\ Exchange(now, mailbox'[now.port], inbox')
<1> DEFINE now == proc[M]
           q == now.port
           box == mailbox[q]
<1>1. Exchange(now, box, inbox) /\ q \in DOMAIN mailbox /\ q \notin Named
  BY MonitorPort DEF MonitorInv, Connected, Own_
<1>2. IsSequence(inbox)
  BY DEF OrderInv, Queue
<1>3. inbox # <<>> =>
        /\ 1 \in DOMAIN inbox /\ Head(inbox) = inbox[1] /\ IsAddress(Head(inbox).src)
        /\ inbox[1].msg.head = "CONN" => inbox[1].msg.port \in Named
        /\ \A i \in DOMAIN Tail(inbox) :
             /\ \E j \in DOMAIN inbox : Tail(inbox)[i] = inbox[j]
             /\ inbox[1].msg.n < Tail(inbox)[i].msg.n
        /\ inbox[1].msg.n \in Nat
  <2> SUFFICES ASSUME inbox # <<>>
               PROVE  /\ 1 \in DOMAIN inbox /\ Head(inbox) = inbox[1] /\ IsAddress(Head(inbox).src)
                      /\ inbox[1].msg.head = "CONN" => inbox[1].msg.port \in Named
                      /\ \A i \in DOMAIN Tail(inbox) :
                           /\ \E j \in DOMAIN inbox : Tail(inbox)[i] = inbox[j]
                           /\ inbox[1].msg.n < Tail(inbox)[i].msg.n
                      /\ inbox[1].msg.n \in Nat
    OBVIOUS
  <2>1. Queue(inbox, sent, nextPort) /\ sent \in Nat
    BY DEF OrderInv
  <2>2. /\ 1 \in DOMAIN inbox /\ Head(inbox) = inbox[1] /\ IsAddress(Head(inbox).src)
        /\ Head(inbox).msg.n \in 1..sent
        /\ \A i \in DOMAIN Tail(inbox) : Head(inbox).msg.n < Tail(inbox)[i].msg.n
    BY <2>1, HeadOfQueue
  <2>3. \A i \in DOMAIN Tail(inbox) : \E j \in DOMAIN inbox : Tail(inbox)[i] = inbox[j]
    BY <1>2, TailSequence
  <2> QED
    BY <2>1, <2>2, <2>3 DEF Queue
<1>4. ASSUME inbox' = inbox \/ inbox' = <<>> \/ (inbox # <<>> /\ inbox' = Tail(inbox))
      PROVE  Exchange(now, box, inbox')
  <2>1. \A i \in DOMAIN inbox' : \E j \in DOMAIN inbox : inbox'[i] = inbox[j]
    BY <1>3, <1>4, EmptySequence
  <2> HIDE DEF now, box
  <2> QED
    BY <1>1, <2>1, ExchangeShrinks
<1>5. CASE HandleRequest
  <2>1. /\ inbox # <<>> /\ inbox' = Tail(inbox) /\ Handle /\ UNCHANGED proc
        /\ mailbox' = Delivered \/ mailbox' = mailbox
    BY <1>5, HandleFacts DEF HandleRequest
  <2>2. CASE mailbox' = mailbox
    BY <1>1, <1>4, <2>1, <2>2
  <2>3. CASE mailbox' = Delivered
    <3> DEFINE m == Head(inbox).msg
               src == Head(inbox).src
    <3>1. q \in DOMAIN mailbox' /\ mailbox'[q] = Delivered[q]
      BY <1>1, <2>3 DEF Delivered
    <3>2. ASSUME NEW d, Confirmation(d, m, src), d.dst = [host |-> Here, port |-> q]
          PROVE  FALSE
      <4>1. m.head = "CONN" /\ d.dst = Elsewhere(m, src) /\ m.port \in Named
        BY <1>3, <2>1, <3>2 DEF Confirmation
      <4>2. d.dst.port = m.port
        BY <1>3, <2>1, <4>1 DEF Elsewhere, IsAddress
      <4> QED
        BY <1>1, <3>2, <4>1, <4>2
    <3>3. ASSUME NEW d, Reply(d, m, src), d.dst = [host |-> Here, port |-> q],
                 Delivered[q] = Append(box, [n |-> m.n, reply |-> d.msg])
          PROVE  Exchange(now, mailbox'[q], inbox')
      <4>1. 1 \in DOMAIN inbox /\ inbox[1].src.port = q /\ m = inbox[1].msg
        BY <1>3, <2>1, <3>3 DEF Reply
      <4>2. /\ now.state = "wait" /\ box = <<>>
            /\ m.n = now.asked /\ m.head = Asks(now.step)
            /\ \A i \in DOMAIN inbox : inbox[i].src.port = q => inbox[i].msg.n = now.asked
        BY <1>1, <4>1 DEF Exchange
      <4>3. \A i \in DOMAIN inbox' : inbox'[i].src.port # q
        BY <1>3, <2>1, <4>1, <4>2
      <4>4. d.msg.head = Tells(now.step)
        BY <3>3, <4>2 DEF Reply, Asks, Tells
      <4> DEFINE e == [n |-> m.n, reply |-> d.msg]
      <4>5. mailbox'[q] = Append(<<>>, e) /\ e.n = now.asked /\ e.reply.head = Tells(now.step)
        BY <3>1, <3>3, <4>2, <4>4
      <4> HIDE DEF e
      <4>6. DOMAIN mailbox'[q] = {1} /\ mailbox'[q][1] = e
        BY <4>5
      <4> HIDE DEF now
      <4> QED
        BY <4>2, <4>3, <4>5, <4>6 DEF Exchange
    <3>4. \/ Delivered[q] = box
          \/ \E d : /\ Confirmation(d, m, src) \/ Reply(d, m, src)
                    /\ d.dst = [host |-> Here, port |-> q]
                    /\ Delivered[q] = Append(box, [n |-> m.n, reply |-> d.msg])
      BY <1>1, <2>1, DeliveredOnce
    <3>5. CASE Delivered[q] = box
      BY <1>4, <2>1, <3>1, <3>5
    <3> HIDE DEF m, src, box
    <3> QED
      BY <2>1, <3>1, <3>2, <3>3, <3>4, <3>5
  <2> QED
    BY <2>1, <2>2, <2>3
<1>6. ASSUME UNCHANGED <<proc, mailbox>>,
             inbox' = inbox \/ inbox' = <<>> \/ (inbox # <<>> /\ inbox' = Tail(inbox))
      PROVE  UNCHANGED proc /\ q \in DOMAIN mailbox' /\ Exchange(now, mailbox'[q], inbox')
  BY <1>1, <1>4, <1>6
<1>7. CASE DropRequests
  BY <1>6, <1>7 DEF DropRequests, Overloaded
<1>8. CASE (BeginFrame \/ EndFrame \/ Recreate) /\ UNCHANGED clientVars
  BY <1>6, <1>8 DEF BeginFrame, EndFrame, Recreate, clientVars
<1> QED
  BY <1>5, <1>7, <1>8 DEF Frame

LEMMA FrameMonitor == ASSUME OrderInv, MonitorInv, Frame PROVE MonitorInv'
<1>1. UNCHANGED proc
  BY DEF Frame, HandleRequest, DropRequests, clientVars
<1>2. ASSUME Connected PROVE Own_(proc[M], proc', mailbox', inbox')
  <2>1. Own_(proc[M], proc, mailbox, inbox)
    BY <1>2 DEF Connected, MonitorInv
  <2>2. proc[M].port \in DOMAIN mailbox' /\ Exchange(proc[M], mailbox'[proc[M].port], inbox')
    BY <1>2, FrameExchange
  <2> QED
    BY <1>1, <2>1, <2>2 DEF Own_
<1> QED
  BY <1>1, <1>2, MonitorRests DEF Program
-------------------------------------------------------------------------------
(* The steps of the monitor itself *)

LEMMA LinesGrow ==
  ASSUME NEW l, IsSequence(l), Answering(l), NEW e, e.n = e.asked,
         NEW k \in Nat, k # 0, k # 1, Len(l) = k - 2, e.head = Tells(k)
  PROVE  Answering(Append(l, e)) /\ Len(Append(l, e)) = k - 1
<1> DEFINE t == Append(l, e)
           n == Len(l)
<1>1. /\ n \in Nat /\ DOMAIN l = 1..n /\ DOMAIN t = 1..(n + 1) /\ Len(t) = n + 1
      /\ \A i \in DOMAIN l : t[i] = l[i]
      /\ t[n + 1] = e
  BY AppendSequence
<1>2. n + 1 = k - 1
  BY <1>1
<1>3. e.head = IF (n + 1) % 2 = 1 THEN "POSI" ELSE "CTRL"
  <2>1. (k - 1) % 2 = 1 <=> k % 2 = 0
    OBVIOUS
  <2> HIDE DEF n
  <2> QED
    BY <1>2, <2>1 DEF Tells
<1> HIDE DEF t, n
<1>4. \A i \in DOMAIN t : i = n + 1 \/ (i \in DOMAIN l /\ t[i] = l[i])
  BY <1>1
<1>5. Answering(t)
  BY <1>1, <1>3, <1>4 DEF Answering
<1> QED
  BY <1>1, <1>2, <1>5 DEF t

\* The monitor is at its end, or at another step.
LEMMA MonitorGoesOn ==
  ASSUME OrderInv, MonitorInv, M \in Program, NEW new, proc' = [proc EXCEPT ![M] = new],
         Lines(new),
         new.test = 1 /\ new.step # 1 => Own_(new, proc, mailbox', inbox')
  PROVE  MonitorInv'
<1>1. /\ DOMAIN proc' = DOMAIN proc /\ Program' = Program /\ proc'[M] = new
      /\ \A r \in DOMAIN proc : r # M => proc'[r] = proc[r]
  BY DEF Program
<1>2. ASSUME Own_(new, proc, mailbox', inbox') PROVE Own_(new, proc', mailbox', inbox')
  BY <1>1, <1>2 DEF Own_
<1> QED
  BY <1>1, <1>2 DEF MonitorInv

LEMMA MonitorEnds ==
  ASSUME OrderInv, MonitorInv, M \in Program, Running(M),
         NEW now, InHand(M, now, nextPort), Answering(now.log), Leaves(M, now, Ended(now))
  PROVE  MonitorInv'
<1>1. proc[M].test = 1
  BY AtMonitor
<1> DEFINE new == Ended(now)
<1>2. new.test = 2 /\ new.log = now.log
  BY <1>1 DEF Ended, Fresh, InHand
<1>3. proc' = [proc EXCEPT ![M] = new]
  BY DEF Leaves
<1> HIDE DEF new
<1>4. Lines(new)
  BY <1>2 DEF Lines
<1>5. ~(new.test = 1)
  BY <1>2
<1> QED
  BY <1>3, <1>4, <1>5, MonitorGoesOn

LEMMA MonitorOpens == ASSUME OrderInv, MonitorInv, M \in Program, OpenUDP(M) PROVE MonitorInv'
<1>1. Running(M) /\ Step(M).op = "open"
  BY DEF OpenUDP, At
<1>2. proc[M].test = 1 /\ proc[M].step = 1 /\ Step(M).port = 0
  BY <1>1, AtMonitor
<1>3. PICK port, now, new :
        /\ port = IF Step(M).port = 0 THEN nextPort ELSE Step(M).port
        /\ DOMAIN mailbox' = DOMAIN mailbox \cup {port} /\ mailbox'[port] = <<>>
        /\ nextPort' = IF Step(M).port = 0 THEN nextPort + 1 ELSE nextPort
        /\ InHand(M, now, nextPort') /\ now.port = port /\ now.log = proc[M].log
        /\ Leaves(M, now, new)
        /\ UNCHANGED pluginVars
  BY OpenFacts
<1>4. port = nextPort /\ inbox' = inbox /\ nextPort \in Nat /\ nextPort >= FirstFree
  BY <1>2, <1>3 DEF pluginVars, vars, OrderInv
<1>5. Answering(now.log) /\ Len(now.log) = 0
  BY <1>2, <1>3 DEF MonitorInv, Lines
<1>6. proc' = [proc EXCEPT ![M] = new]
  BY <1>3 DEF Leaves
<1>7. CASE new = Ended(now)
  <2>1. new.test = 2 /\ new.log = now.log
    BY <1>2, <1>3, <1>7 DEF Ended, Fresh, InHand
  <2>2. Lines(new)
    BY <1>5, <2>1 DEF Lines
  <2>3. ~(new.test = 1)
    BY <2>1
  <2> QED
    BY <1>6, <2>2, <2>3, MonitorGoesOn
<1>8. CASE new = Further(now)
  <2>1. new.test = 1 /\ new.step = 2 /\ new.log = now.log /\ new.port = nextPort /\ new.state = "run"
    <3>1. DOMAIN proc[M] = {"test", "step", "port", "ok", "kept", "state", "asked", "log"}
      BY DEF OrderInv, Placed
    <3>2. /\ now.test = 1 /\ now.step = 1
          /\ {"test", "step", "port", "state", "log"} \subseteq DOMAIN now
      BY <1>2, <1>3, <3>1 DEF InHand
    <3> QED
      BY <1>3, <1>4, <1>8, <3>2 DEF Further
  <2>2. Lines(new)
    BY <1>5, <2>1 DEF Lines
  <2>3. \A p \in DOMAIN proc : proc[p].port # nextPort
    BY <1>4 DEF OrderInv, Placed, Program
  <2>4. \A i \in DOMAIN inbox : inbox[i].src.port # nextPort
    BY <1>4 DEF OrderInv, Queue
  <2>5. Exchange(new, mailbox'[new.port], inbox')
    BY <1>3, <1>4, <2>1, <2>4 DEF Exchange
  <2>6. Own_(new, proc, mailbox', inbox')
    BY <1>3, <1>4, <2>1, <2>3, <2>5 DEF Own_
  <2> QED
    BY <1>6, <2>2, <2>6, MonitorGoesOn
<1> QED
  BY <1>3, <1>7, <1>8 DEF Leaves

LEMMA MonitorAsks == ASSUME OrderInv, MonitorInv, M \in Program, Request_(M) PROVE MonitorInv'
<1>1. /\ Running(M) /\ proc[M].state = "run" /\ Step(M).op = "ask"
      /\ mailbox' = mailbox /\ sendUDP(M, Step(M).call.msg)
  BY DEF Request_, At
<1>2. /\ proc[M].test = 1 /\ proc[M].step \in Nat \ {0} /\ proc[M].step # 1
      /\ Step(M).call.msg.head = Asks(proc[M].step) /\ Step(M).reader.head # "CONF"
  BY <1>1, AtMonitor
<1>3. Sendable(Step(M).call.msg) /\ Placed(proc[M], Tests(M), nextPort)
  BY <1>1, AtStep DEF Callable
<1> DEFINE new == [proc[M] EXCEPT !.state = "wait", !.asked = sent + 1]
           x == Packet_(M, Step(M).call.msg)
           q == proc[M].port
           box == mailbox[q]
<1>4. proc' = [proc EXCEPT ![M] = new]
  BY <1>2 DEF Request_, Program
<1>5. /\ new.state = "wait" /\ new.asked = sent + 1 /\ new.port = q
      /\ new.test = 1 /\ new.step = proc[M].step /\ new.log = proc[M].log
  BY <1>2, <1>3 DEF Placed
<1>6. /\ inbox' = inbox \/ inbox' = Append(inbox, x)
      /\ x.msg.n = sent + 1 /\ x.msg.head = Asks(new.step)
  BY <1>1, <1>2, <1>3, <1>5, SendKeeps
<1> HIDE DEF new, x
<1>7. Own_(proc[M], proc, mailbox, inbox)
  BY <1>2 DEF MonitorInv
<1>8. box = <<>> /\ \A i \in DOMAIN inbox : inbox[i].src.port # q
  BY <1>1, <1>7 DEF Own_, Exchange
<1>9. \A i \in DOMAIN inbox' : inbox'[i] = x \/ (i \in DOMAIN inbox /\ inbox'[i] = inbox[i])
  <2>1. CASE inbox' = inbox
    BY <2>1
  <2>2. CASE inbox' = Append(inbox, x)
    <3> DEFINE n == Len(inbox)
    <3>1. /\ n \in Nat /\ DOMAIN inbox = 1..n /\ DOMAIN Append(inbox, x) = 1..(n + 1)
          /\ \A i \in DOMAIN inbox : Append(inbox, x)[i] = inbox[i]
          /\ Append(inbox, x)[n + 1] = x
      BY AppendSequence DEF OrderInv, Queue
    <3> HIDE DEF n
    <3> QED
      BY <2>2, <3>1
  <2> QED
    BY <1>6, <2>1, <2>2
<1>10. Exchange(new, box, inbox')
  BY <1>5, <1>6, <1>8, <1>9 DEF Exchange
<1>11. Own_(new, proc, mailbox', inbox')
  BY <1>1, <1>5, <1>7, <1>10 DEF Own_
<1>12. Lines(new)
  BY <1>2, <1>5 DEF MonitorInv, Lines
<1> QED
  BY <1>4, <1>11, <1>12, MonitorGoesOn

LEMMA MonitorGivesUp == ASSUME OrderInv, MonitorInv, M \in Program, Timeout(M) PROVE MonitorInv'
<1>1. Running(M) /\ proc[M].state = "wait"
  BY DEF Timeout
<1>2. /\ InHand(M, proc[M], nextPort) /\ Placed(proc[M], Tests(M), nextPort)
      /\ proc[M].test = 1
  BY <1>1, AtStep, AtMonitor
<1>3. Step(M).fail = "stop"
  <2>1. Step(M).op = "ask"
    BY <1>1, <1>2 DEF Placed, Step, Test_, Running
  <2>2. Step(M).op # "open"
    BY <2>1
  <2> QED
    BY <1>1, <2>2, AtMonitor
<1>4. PICK kept : Done(M, [proc[M] EXCEPT !.kept = kept], FALSE, Step(M).fail)
  BY DEF Timeout
<1> DEFINE held == [proc[M] EXCEPT !.kept = kept]
<1>5. InHand(M, held, nextPort) /\ held.log = proc[M].log
  BY <1>2 DEF InHand
<1>6. Done(M, held, FALSE, "stop")
  BY <1>3, <1>4
<1> HIDE DEF held
<1>7. PICK now : /\ InHand(M, now, nextPort) /\ now.log = held.log
                 /\ Leaves(M, now, Ended(now))
  BY <1>5, <1>6, DoneEnds
<1>8. Answering(now.log)
  BY <1>5, <1>7 DEF MonitorInv, Lines
<1> QED
  BY <1>1, <1>7, <1>8, MonitorEnds
LEMMA MonitorReads == ASSUME OrderInv, MonitorInv, M \in Program, Receive(M) PROVE MonitorInv'
<1> DEFINE port == proc[M].port
           box == mailbox[port]
           answer == Head(box)
           result == Result(Step(M).reader, answer.reply)
           read == ReadBy(M, answer, result)
           good == result.ret = 0 /\ Verdict(Step(M).expect, result.values, proc[M].kept)
           e == Entry_(M, answer)
           k == proc[M].step
           l == proc[M].log
<1>1. /\ Running(M) /\ proc[M].state = "wait"
      /\ port \in DOMAIN mailbox /\ box # <<>>
      /\ mailbox' = [mailbox EXCEPT ![port] = Tail(@)]
      /\ inbox' = inbox
      /\ Done(M, read, good, Step(M).fail)
  BY ReceiveFacts
<1>2. /\ InHand(M, proc[M], nextPort) /\ Placed(proc[M], Tests(M), nextPort)
      /\ nextPort \in Nat \ {0}
      /\ proc[M].test = 1 /\ k \in Nat \ {0}
  BY <1>1, AtStep, AtMonitor
<1>3. Step(M).op = "ask"
  BY <1>1, <1>2 DEF Placed, Step, Test_, Running
<1>4. k # 1 /\ Step(M).fail = "stop" /\ Step(M).expect.how = "log"
  <2>1. Step(M).op # "open"
    BY <1>3
  <2>2. k # 1
    BY <1>1, <2>1, AtMonitor
  <2> QED
    BY <1>1, <2>2, AtMonitor
<1>5. Own_(proc[M], proc, mailbox, inbox) /\ Lines(proc[M])
  BY <1>2, <1>4 DEF MonitorInv
<1>6. /\ \A i \in DOMAIN inbox : inbox[i].src.port # port
      /\ DOMAIN box = {1} /\ box[1].n = proc[M].asked /\ box[1].reply.head = Tells(k)
  BY <1>1, <1>5 DEF Own_, Exchange
<1>7. IsSequence(box)
  BY <1>1 DEF OrderInv, Boxes, Behind
<1>8. answer = box[1] /\ Tail(box) = <<>>
  <2>1. /\ answer = box[1] /\ IsSequence(Tail(box))
        /\ \A i \in DOMAIN Tail(box) : i \in Nat \ {0} /\ i + 1 \in DOMAIN box
    BY <1>1, <1>7, TailSequence
  <2>2. DOMAIN Tail(box) = {}
    BY <1>6, <2>1
  <2> DEFINE t == Tail(box)
  <2>3. t \in Seq(Elements(t)) /\ DOMAIN t = {}
    BY <2>1, <2>2 DEF IsSequence
  <2> HIDE DEF t
  <2>4. Len(t) = 0
    <3>1. Len(t) \in Nat /\ DOMAIN t = 1..Len(t)
      BY <2>3, LenProperties
    <3>2. Len(t) # 0 => 1 \in DOMAIN t
      BY <3>1
    <3> QED
      BY <2>3, <3>2
  <2>5. t = <<>>
    BY <2>3, <2>4, EmptySeq
  <2> QED
    BY <2>1, <2>5 DEF t
<1>9. e.n = proc[M].asked /\ e.n = e.asked /\ e.head = Tells(k)
  BY <1>6, <1>8 DEF Entry_
<1>10. Answering(l) /\ Len(l) = k - 2 /\ IsSequence(l)
  BY <1>2, <1>4, <1>5 DEF Lines, OrderInv, Kept, Behind
<1>11. CASE result.ret < 0
  <2>1. read = proc[M] /\ ~good
    BY <1>11 DEF ReadBy
  <2> HIDE DEF read, good, result
  <2>2. Done(M, proc[M], good, "stop")
    BY <1>1, <1>4, <2>1
  <2>3. PICK hand : InHand(M, hand, nextPort) /\ hand.log = l /\ Leaves(M, hand, Ended(hand))
    BY <1>2, <2>1, <2>2, DoneEnds
  <2> QED
    BY <1>1, <1>10, <2>3, MonitorEnds
<1>12. CASE ~(result.ret < 0)
  <2>1. read = [proc[M] EXCEPT !.log = Append(@, e)]
    BY <1>4, <1>12 DEF ReadBy
  <2>2. InHand(M, read, nextPort) /\ read.port = port /\ read.log = Append(l, e)
    BY <1>2, <2>1 DEF InHand, Placed
  <2> HIDE DEF read, good, result, e
  <2>3. PICK now : /\ InHand(M, now, nextPort) /\ now.log = read.log /\ now.port = read.port
                   /\ \E new : Leaves(M, now, new)
    BY <1>1, <2>2, DoneLeaves
  <2>4. PICK new : Leaves(M, now, new)
    BY <2>3
  <2>5. Answering(now.log) /\ Len(now.log) = k - 1
    BY <1>2, <1>4, <1>9, <1>10, <2>2, <2>3, LinesGrow
  <2>6. CASE new = Ended(now)
    BY <1>1, <2>3, <2>4, <2>5, <2>6, MonitorEnds
  <2>7. CASE new = Further(now)
    <3>1. /\ new.test = 1 /\ new.step = k + 1 /\ new.log = now.log /\ new.port = port
          /\ new.state = "run"
      BY <1>2, <2>2, <2>3, <2>7 DEF Further, InHand, Placed
    <3>2. Lines(new)
      BY <1>2, <2>5, <3>1 DEF Lines
    <3>3. mailbox'[port] = <<>> /\ port \in DOMAIN mailbox'
      BY <1>1, <1>8
    <3> HIDE DEF port, box
    <3>4. Exchange(new, mailbox'[port], inbox')
      BY <1>1, <1>6, <3>1, <3>3 DEF Exchange
    <3>5. Own_(new, proc, mailbox', inbox')
      BY <1>5, <3>1, <3>3, <3>4 DEF Own_, port
    <3>6. proc' = [proc EXCEPT ![M] = new]
      BY <2>4 DEF Leaves
    <3> QED
      BY <3>2, <3>5, <3>6, MonitorGoesOn
  <2> QED
    BY <2>4, <2>6, <2>7 DEF Leaves
<1> QED
  BY <1>11, <1>12

LEMMA MonitorClient == ASSUME OrderInv, MonitorInv, M \in Program, Client_(M) PROVE MonitorInv'
<1>1. Running(M) => Step(M).op \in {"open", "ask"}
  BY AtMonitor
<1>2. ~CloseUDP(M) /\ ~CheckResult(M) /\ ~Send(M)
  BY <1>1 DEF CloseUDP, CheckResult, Send, At
<1>3. ~Switch(M)
  <2>1. SUFFICES ASSUME Switch(M) PROVE FALSE
    OBVIOUS
  <2>2. Running(M) /\ Step(M).op = "ask" /\ Step(M).reader.head = "CONF"
    BY <2>1, SwitchFacts
  <2>3. proc[M].step # 1
    BY <2>2, AtMonitor
  <2> QED
    BY <2>2, <2>3, AtMonitor
<1>4. ~Exit(M)
  <2>1. SUFFICES ASSUME Exit(M) PROVE FALSE
    OBVIOUS
  <2>2. CASE At(M, "open") /\ Step(M).port \in DOMAIN mailbox
    BY <2>2, AtMonitor DEF At, OrderInv, Boxes
  <2>3. CASE Running(M) /\ proc[M].state = "switch"
    <3>1. Step(M).op = "ask" /\ Step(M).reader.head = "CONF"
      BY <2>3, AtStep DEF Placed, Step, Test_
    <3>2. proc[M].step # 1
      BY <2>3, <3>1, AtMonitor
    <3> QED
      BY <2>3, <3>1, <3>2, AtMonitor
  <2> QED
    BY <2>1, <2>2, <2>3 DEF Exit
<1> QED
  BY <1>2, <1>3, <1>4, MonitorOpens, MonitorAsks, MonitorReads, MonitorGivesUp DEF Client_

LEMMA MonitorStep == ASSUME OrderInv, MonitorInv, [SessionNext]_sessionVars PROVE MonitorInv'
<1>1. CASE Frame
  BY <1>1, FrameMonitor
<1>2. ASSUME NEW p \in Program, Client_(p) PROVE MonitorInv'
  BY <1>2, MonitorClient, OtherClient
<1>3. CASE UNCHANGED sessionVars
  BY <1>3 DEF sessionVars, clientVars, pluginVars, vars, MonitorInv, Program
<1> QED
  BY <1>1, <1>2, <1>3 DEF SessionNext, Clients

LEMMA MonitorInit == SessionInit => MonitorInv
<1> SUFFICES ASSUME SessionInit, M \in Program PROVE Lines(proc[M]) /\ proc[M].step = 1
  BY DEF MonitorInv
<1>1. proc[M] = Fresh
  BY DEF SessionInit, Program
<1>2. Len(<<>>) = 0 /\ DOMAIN <<>> = {}
  BY EmptySequence
<1> QED
  BY <1>1, <1>2 DEF Lines, Answering, Fresh

\* The inductive invariant of every session.  Requests come to the plugin in the
\* order of their numbers and from ports that are given out; what waits at a
\* socket answers earlier ones, in their order, and follows what its program has
\* written out; of the monitor's port only the last request or its answer is
\* under way (xplaneConnect.c 158-233, UDPSocket.cpp 90-154, monitorExample 72-89).
THEOREM SessionInvariant == SessionSpec => []IInv
<1>1. SessionInit => IInv
  BY OrderInit, MonitorInit DEF IInv
<1>2. IInv /\ [SessionNext]_sessionVars => IInv'
  BY OrderStep, MonitorStep DEF IInv
<1> QED
  BY <1>1, <1>2, PTL DEF SessionSpec

\* What a program writes out answers its requests in their order, none twice;
\* every line of the monitor answers the monitor's own request, of its own kind,
\* whatever other programs send and move to, whatever is lost or late, and
\* however many lines there are (playback.c 66-76, monitorExample 72-89).
THEOREM AnswersInOrderHolds == SessionSpec => []AnswersInOrder
<1>1. IInv => AnswersInOrder
  BY DEF IInv, OrderInv, Kept, Behind, MonitorInv, Lines, Answering, AnswersInOrder, M
<1> QED
  BY <1>1, SessionInvariant, PTL
-------------------------------------------------------------------------------
(* The plugin's own invariants, among the programs *)

LEMMA SessionCycle == Cycle /\ [SessionNext]_sessionVars => Cycle'
<1> SUFFICES ASSUME Cycle, [SessionNext]_sessionVars PROVE Cycle'
  OBVIOUS
<1>1. CASE Frame
  <2>1. Handle \/ Overloaded \/ BeginFrame \/ EndFrame \/ Recreate
    BY <1>1 DEF Frame, HandleRequest, DropRequests
  <2> QED
    BY <2>1, CycleStep DEF Next, MainThread
<1>2. CASE UNCHANGED <<phase, log, sock, handlerSock, timer, ops>>
  BY <1>2 DEF Cycle, Idle
<1>3. ASSUME NEW p, NEW m, sendUDP(p, m)
      PROVE  UNCHANGED <<phase, log, sock, handlerSock, timer, ops>>
  BY <1>3 DEF sendUDP, Arrive, lifeVars
<1>4. ASSUME NEW p \in Program, Client_(p)
      PROVE  UNCHANGED <<phase, log, sock, handlerSock, timer, ops>>
  BY <1>3, <1>4 DEF Client_, OpenUDP, CloseUDP, CheckResult, Send, Request_, Switch, Receive, Timeout, Exit,
                    pluginVars, vars, lifeVars
<1>5. CASE UNCHANGED sessionVars
  BY <1>2, <1>5 DEF sessionVars, pluginVars, vars, lifeVars
<1> QED
  BY <1>1, <1>2, <1>4, <1>5 DEF SessionNext, Clients

\* Whatever programs send, lose and move to, and however often a frame drops its
\* socket, requests are handled with an open socket that the handlers point to,
\* and a program is known under the port at which it is answered
\* (XPCPlugin.cpp 213-240, MessageHandlers.cpp 107-131).
THEOREM PluginAmongPrograms == SessionSpec => [](SocketUse /\ ConnKeyed)
<1>1. SessionInit => Cycle
  BY OpsAssumption DEF SessionInit, Cycle, Idle
<1>2. SessionSpec => []Cycle
  BY <1>1, SessionCycle, PTL DEF SessionSpec
<1>3. Cycle => SocketUse
  BY OpsAssumption DEF Cycle, SocketUse, Idle
<1>4. IInv => ConnKeyed
  BY DEF IInv, OrderInv, Keyed, ConnKeyed
<1> QED
  BY <1>2, <1>3, <1>4, SessionInvariant, PTL
===============================================================================
