------------------------------- MODULE DelayLine ------------------------------
(***************************************************************************)
(* The imitator (Imitator1d3.java) flies what its leader (TestFim.java)    *)
(* flew some time ago.  The callback thread of the HLA library writes each *)
(* update of the leader into a ring of waitingTime entries, one array for  *)
(* every field, and then advances indexW; the simulation thread reads the  *)
(* entry after indexW once a second, field by field, and publishes it.     *)
(* Neither thread holds a lock.                                            *)
(*                                                                         *)
(* A state of the leader is the number of its update.  Number 0 is what    *)
(* the arrays hold when they are created.                                  *)
(***************************************************************************)
EXTENDS Integers

CONSTANTS
  waitingTime,   \* the length of the ring: 10
  NumFields,     \* the fields of a state: 7
  Ground,        \* the first field of its ground reference state: 4
  MaxUpdates     \* bound: updates of the leader

ASSUME WaitingAssumption == waitingTime \in Nat /\ waitingTime >= 2
ASSUME FieldAssumption   == NumFields \in Nat \ {0} /\ Ground \in 1..NumFields
ASSUME UpdateAssumption  == MaxUpdates \in Nat

VARIABLES
  sent,           \* the number of the leader's last update
  grounded,       \* the leader's ground reference state is known
  leader,         \* the arrays leaderAlt, leaderLat, ..., by entry and field
  indexW, stillWaiting,
  cb,             \* the callback: idle, or its next step
  latest,         \* history: the last update that indexW counts
  pc, field,      \* the simulation thread: its frame and the field to read
  indexWPlusOne,
  my,             \* myAlt, myLat, ...
  base,           \* history: latest when this frame read indexW
  overlap         \* history: callbacks during the reading of this frame

cbVars    == <<sent, grounded, leader, indexW, stillWaiting, cb, latest>>
frameVars == <<pc, field, indexWPlusOne, my, base>>
vars      == <<cbVars, frameVars, overlap>>

Entries == 0..waitingTime - 1
Fields  == 1..NumFields
Numbers == 0..MaxUpdates

Init ==
  /\ sent = 0 /\ grounded = FALSE
  /\ leader = [e \in Entries |-> [f \in Fields |-> 0]]
  /\ indexW = 0 /\ stillWaiting = TRUE
  /\ cb = [at |-> "idle", field |-> 1] /\ latest = 0
  /\ pc = "frame" /\ field = 1 /\ indexWPlusOne = 0
  /\ my = [f \in Fields |-> 0]
  /\ base = 0 /\ overlap = 0

-------------------------------------------------------------------------------
(* The callback thread: attributesUpdated for the leader.                  *)

\* The leader's next update arrives.  Its first one carries the ground
\* reference state; an imitator that joins later may have to wait for it.
Update ==
  /\ cb.at = "idle" /\ sent < MaxUpdates
  /\ sent' = sent + 1
  /\ grounded' \in {grounded, TRUE}
  /\ cb' = [at |-> "write", field |-> 1]
  /\ overlap' = overlap + 1
  /\ UNCHANGED <<leader, indexW, stillWaiting, latest, frameVars>>

\* One field of the entry.  A ground reference state that was never sent
\* throws, and the entry is written again by the next update.
WriteField ==
  /\ cb.at = "write"
  /\ IF cb.field = Ground /\ ~grounded
       THEN cb' = [at |-> "idle", field |-> 1] /\ UNCHANGED leader
       ELSE /\ leader' = [leader EXCEPT ![indexW][cb.field] = sent]
            /\ cb' = IF cb.field = NumFields
                       THEN [at |-> "advance", field |-> 1]
                       ELSE [cb EXCEPT !.field = @ + 1]
  /\ UNCHANGED <<sent, grounded, indexW, stillWaiting, latest, frameVars, overlap>>

\* Mutant of Advance: the last entry is not used.
AdvanceShort ==
  /\ cb.at = "advance"
  /\ indexW' = indexW + 1
  /\ latest' = sent
  /\ cb' = [cb EXCEPT !.at = IF indexW' = waitingTime - 1 THEN "wake" ELSE "idle"]
  /\ UNCHANGED <<sent, grounded, leader, stillWaiting, frameVars, overlap>>

\* Mutant of Advance: indexW runs on.
AdvanceWithoutEnd ==
  /\ cb.at = "advance"
  /\ indexW' = indexW + 1
  /\ latest' = sent
  /\ cb' = [cb EXCEPT !.at = IF indexW' = waitingTime + 1 THEN "wake" ELSE "idle"]
  /\ UNCHANGED <<sent, grounded, leader, stillWaiting, frameVars, overlap>>

\* indexW++.
Advance ==
  /\ cb.at = "advance"
  /\ indexW' = indexW + 1
  /\ latest' = sent
  /\ cb' = [cb EXCEPT !.at = IF indexW' = waitingTime THEN "wake" ELSE "idle"]
  /\ UNCHANGED <<sent, grounded, leader, stillWaiting, frameVars, overlap>>

\* At the end of the ring: waiting is over...
StopWaiting ==
  /\ cb.at = "wake"
  /\ stillWaiting' = FALSE
  /\ cb' = [cb EXCEPT !.at = "loop"]
  /\ UNCHANGED <<sent, grounded, leader, indexW, latest, frameVars, overlap>>

\* ... and indexW starts again.
Loop ==
  /\ cb.at = "loop"
  /\ indexW' = 0
  /\ cb' = [cb EXCEPT !.at = "idle"]
  /\ UNCHANGED <<sent, grounded, leader, stillWaiting, latest, frameVars, overlap>>

attributesUpdated == Update \/ WriteField \/ Advance \/ StopWaiting \/ Loop

-------------------------------------------------------------------------------
(* The simulation thread.                                                  *)

\* Mutant of NextEntry: the entry that is written next.
WrittenNext == indexW % waitingTime

NextEntry == (indexW + 1) % waitingTime

\* A frame does nothing while the ring is filled for the first time.
WaitingFrame == pc = "frame" /\ stillWaiting /\ UNCHANGED vars

\* A frame in which waiting is over starts.  stillWaiting never becomes TRUE
\* again, so that its test and the read of indexW are one step.
BeginFrame ==
  /\ pc = "frame" /\ ~stillWaiting
  /\ pc' = "read" /\ field' = 1
  /\ indexWPlusOne' = NextEntry
  /\ base' = latest
  /\ overlap' = IF cb.at = "idle" THEN 0 ELSE 1
  /\ UNCHANGED <<cbVars, my>>

ReadField ==
  /\ pc = "read"
  /\ my' = [my EXCEPT ![field] = leader[indexWPlusOne][field]]
  /\ IF field = NumFields THEN pc' = "publish" /\ field' = 1
                          ELSE pc' = pc /\ field' = field + 1
  /\ UNCHANGED <<cbVars, indexWPlusOne, base, overlap>>

\* The update of the imitator is sent.
Publish ==
  /\ pc = "publish"
  /\ pc' = "frame"
  /\ UNCHANGED <<cbVars, field, indexWPlusOne, my, base, overlap>>

simulate == WaitingFrame \/ BeginFrame \/ ReadField \/ Publish

Next == attributesUpdated \/ simulate

Spec == Init /\ [][Next]_vars

-------------------------------------------------------------------------------
(* Correctness.                                                            *)

TypeOK ==
  /\ sent \in Numbers /\ grounded \in BOOLEAN
  /\ leader \in [Entries -> [Fields -> Numbers]]
  /\ indexW \in 0..waitingTime /\ stillWaiting \in BOOLEAN
  /\ cb \in [at : {"idle", "write", "advance", "wake", "loop"}, field : Fields]
  /\ latest \in Numbers
  /\ pc \in {"frame", "read", "publish"} /\ field \in Fields
  /\ indexWPlusOne \in Entries
  /\ my \in [Fields -> Numbers]
  /\ base \in Numbers /\ overlap \in 0..sent + 1

\* The state that the entry after indexW holds when a frame reads indexW.
Delayed == base - (waitingTime - 2)

\* While no more than one callback runs during the reading of a frame, the
\* fields that are published are those of one state of the leader, and it is
\* always the same number of updates old.  Reading the entry after indexW, and
\* not the one at indexW, is what leaves room for that callback.
DelayIsExact ==
  (pc = "publish" /\ overlap <= 1) => \A f \in Fields : my[f] = Delayed

\* However many callbacks run meanwhile, no field is one that was never sent,
\* and a field that is not of the delayed state is whole turns of the ring newer.
WholeTurnsNewer ==
  pc = "publish" => \A f \in Fields :
    /\ my[f] >= 1
    /\ my[f] >= Delayed
    /\ (my[f] - Delayed) % waitingTime = 0

\* The inductive invariant behind DelayIsExact: what each entry of the ring holds
\* at every step of the callback, ...
Written(f) == cb.at = "advance" \/ (cb.at = "write" /\ f < cb.field)

RingInv ==
  /\ indexW = waitingTime <=> cb.at \in {"wake", "loop"}
  /\ cb.at = "loop" => ~stillWaiting
  /\ latest # 0 => grounded /\ sent = IF cb.at \in {"write", "advance"} THEN latest + 1 ELSE latest
  /\ cb.at = "advance" \/ (cb.at = "write" /\ Ground < cb.field) => grounded
  /\ indexW # 0 \/ ~stillWaiting => latest # 0
  /\ cb.at # "idle" => sent # 0
  /\ \A e \in Entries, f \in Fields :
       /\ e < indexW => leader[e][f] = latest + 1 + e - indexW
       /\ e = indexW /\ Written(f) => leader[e][f] = sent
       /\ ~stillWaiting /\ (e > indexW \/ (e = indexW /\ ~Written(f))) =>
            leader[e][f] = latest + 1 + e - indexW - waitingTime

\* ... and that the one overlapping callback, while it writes, is not at the
\* entry that the frame reads.
FrameInv ==
  pc # "frame" =>
    /\ ~stillWaiting
    /\ overlap = 0 => cb.at = "idle"
    /\ overlap = 0 \/ (overlap = 1 /\ cb.at = "write") => indexWPlusOne = NextEntry
    /\ overlap <= 1 => \A f \in Fields :
         /\ leader[indexWPlusOne][f] = Delayed
         /\ pc = "publish" \/ f < field => my[f] = Delayed

ExactInv == TypeOK /\ RingInv /\ FrameInv

\* The inductive invariant behind WholeTurnsNewer: waiting is over only when the
\* ring is full, and however often the entry that a frame reads is overwritten,
\* every field of it is whole turns newer than the delayed state.
Turns(n) == \E q \in Numbers : n = Delayed + q * waitingTime

TurnsInv ==
  /\ indexW <= latest /\ (~stillWaiting => waitingTime <= latest)
  /\ pc # "frame" =>
       /\ ~stillWaiting /\ waitingTime <= base
       /\ \A f \in Fields :
            /\ Turns(leader[indexWPlusOne][f])
            /\ pc = "publish" \/ f < field => Turns(my[f])

DelayInv == ExactInv /\ TurnsInv

\* "Imitate the leader's state of 10<waitingTime> seconds ago" (the comment in
\* simulate): the leader sends one update a second, and the last one is less
\* than a second old.
TenSecondsAgo ==
  (pc = "publish" /\ overlap = 0) =>
    \A f \in Fields : base - my[f] \in {waitingTime - 1, waitingTime}
===============================================================================
