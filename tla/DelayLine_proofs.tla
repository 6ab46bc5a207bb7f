--------------------------- MODULE DelayLine_proofs ---------------------------
(***************************************************************************)
(* Proofs about DelayLine, for every length of the ring, every number of   *)
(* fields and every number of updates: DelayInv is inductive, and so what  *)
(* is published is exactly one state, always equally old, or mixes it with *)
(* states that are whole turns of the ring newer.                          *)
(***************************************************************************)
EXTENDS DelayLine, TLAPS

USE WaitingAssumption, FieldAssumption, UpdateAssumption

-------------------------------------------------------------------------------
(* Lemmas about the ring.                                                  *)

LEMMA RemainderBelow ==
  ASSUME NEW w \in Nat \ {0}, NEW n \in 0..w - 1
  PROVE  n % w = n /\ (n + w) % w = n
OBVIOUS

\* The entry after indexW, also while indexW is beyond the ring.
LEMMA NextEntryCases ==
  ASSUME indexW \in 0..waitingTime
  PROVE  /\ indexW + 1 < waitingTime => NextEntry = indexW + 1
         /\ indexW + 1 = waitingTime => NextEntry = 0
         /\ indexW = waitingTime => NextEntry = 1
         /\ NextEntry \in Entries
<1>1. CASE indexW + 1 < waitingTime
  BY <1>1, RemainderBelow DEF NextEntry, Entries
<1>2. CASE indexW + 1 = waitingTime
  BY <1>2, RemainderBelow DEF NextEntry, Entries
<1>3. CASE indexW = waitingTime
  BY <1>3, RemainderBelow DEF NextEntry, Entries
<1> QED
  BY <1>1, <1>2, <1>3

\* A frame that begins finds the delayed state, whole, after indexW.
LEMMA NextIsDelayed ==
  ASSUME TypeOK, RingInv, ~stillWaiting
  PROVE  \A f \in Fields : leader[NextEntry][f] = latest - (waitingTime - 2)
<1> SUFFICES ASSUME NEW f \in Fields
             PROVE  leader[NextEntry][f] = latest - (waitingTime - 2)
  OBVIOUS
<1>1. indexW \in 0..waitingTime /\ latest \in Nat
  BY DEF TypeOK, Numbers
<1>2. /\ NextEntry \in Entries
      /\ NextEntry < indexW => leader[NextEntry][f] = latest + 1 + NextEntry - indexW
      /\ NextEntry > indexW =>
           leader[NextEntry][f] = latest + 1 + NextEntry - indexW - waitingTime
  BY <1>1, NextEntryCases DEF RingInv
<1>3. CASE indexW + 1 < waitingTime
  BY <1>1, <1>2, <1>3, NextEntryCases
<1>4. CASE indexW + 1 = waitingTime
  BY <1>1, <1>2, <1>4, NextEntryCases
<1>5. CASE indexW = waitingTime
  BY <1>1, <1>2, <1>5, NextEntryCases
<1> QED
  BY <1>1, <1>3, <1>4, <1>5

\* The entry after indexW is not the one that a callback writes.
LEMMA NextIsNotWritten ==
  ASSUME TypeOK PROVE NextEntry # indexW
<1>1. indexW \in 0..waitingTime
  BY DEF TypeOK
<1> QED
  BY <1>1, NextEntryCases

-------------------------------------------------------------------------------
(* The invariant.                                                          *)

LEMMA InitExact == Init => ExactInv
<1> SUFFICES ASSUME Init PROVE ExactInv
  OBVIOUS
<1>1. TypeOK
  <2>1. 0 \in Numbers /\ 0 \in Entries /\ 1 \in Fields
    BY DEF Numbers, Entries, Fields
  <2>2. leader \in [Entries -> [Fields -> Numbers]] /\ my \in [Fields -> Numbers]
    BY <2>1 DEF Init
  <2>3. cb \in [at : {"idle", "write", "advance", "wake", "loop"}, field : Fields]
    BY <2>1 DEF Init
  <2>4. stillWaiting \in BOOLEAN /\ grounded \in BOOLEAN
    BY DEF Init
  <2>5. overlap \in 0..sent + 1 /\ indexW \in 0..waitingTime
    BY DEF Init
  <2> QED
    BY <2>1, <2>2, <2>3, <2>4, <2>5 DEF Init, TypeOK
<1>2. RingInv
  BY DEF Init, RingInv, Written, Entries, Fields
<1>3. FrameInv
  BY DEF Init, FrameInv
<1> QED
  BY <1>1, <1>2, <1>3 DEF ExactInv

LEMMA UpdateExact == ASSUME ExactInv, Update PROVE ExactInv'
<1> USE DEF ExactInv
<1>1. /\ cb.at = "idle" /\ sent < MaxUpdates /\ sent' = sent + 1
      /\ grounded' \in {grounded, TRUE} /\ overlap' = overlap + 1
      /\ cb' = [at |-> "write", field |-> 1] /\ cb'.at = "write" /\ cb'.field = 1
      /\ UNCHANGED <<leader, indexW, stillWaiting, latest, frameVars>>
  BY DEF Update
<1>2. grounded' \in BOOLEAN /\ (grounded => grounded')
  <2>1. grounded' = grounded \/ grounded' = TRUE
    BY <1>1
  <2>2. grounded \in BOOLEAN
    BY DEF TypeOK
  <2>3. CASE grounded' = grounded
    BY <2>2, <2>3, Zenon
  <2>4. CASE grounded' = TRUE
    BY <2>4, Zenon
  <2> QED
    BY <2>1, <2>3, <2>4, Zenon
<1>3. sent \in Nat /\ sent' \in Numbers /\ overlap' \in 0..sent' + 1
  BY <1>1 DEF TypeOK, Numbers
<1>4. cb' \in [at : {"idle", "write", "advance", "wake", "loop"}, field : Fields]
  BY <1>1 DEF Fields
<1>5. TypeOK'
  BY <1>1, <1>2, <1>3, <1>4 DEF TypeOK, frameVars
<1>6. RingInv'
  <2>1. \A f \in Fields : ~Written(f) /\ ~Written(f)'
    BY <1>1 DEF Written, Fields
  <2>2. latest # 0 => grounded /\ sent = latest
    BY <1>1 DEF RingInv
  <2>3. ~(Ground < 1)
    OBVIOUS
  <2> QED
    BY <1>1, <1>2, <1>3, <2>1, <2>2, <2>3 DEF RingInv
<1>7. FrameInv'
  BY <1>1 DEF TypeOK, FrameInv, NextEntry, Delayed, frameVars
<1> QED
  BY <1>5, <1>6, <1>7

LEMMA WriteFieldExact == ASSUME ExactInv, WriteField PROVE ExactInv'
<1> USE DEF ExactInv
<1>1. CASE cb.field = Ground /\ ~grounded
  <2>1. /\ cb' = [at |-> "idle", field |-> 1]
        /\ UNCHANGED <<sent, grounded, leader, indexW, stillWaiting, latest, frameVars, overlap>>
        /\ cb.at = "write" /\ ~grounded
    BY <1>1 DEF WriteField
  <2>2. TypeOK'
    BY <2>1 DEF TypeOK, Fields, frameVars
  <2>3. latest = 0 /\ indexW = 0 /\ stillWaiting
    BY <2>1 DEF RingInv
  <2>4. RingInv'
    <3>1. \A e \in Entries : ~(e < indexW)
      BY <2>3 DEF Entries
    <3>2. cb'.at = "idle" /\ \A f \in Fields : ~Written(f)'
      BY <2>1 DEF Written
    <3> QED
      BY <2>1, <2>3, <3>1, <3>2 DEF RingInv
  <2>5. FrameInv'
    BY <2>1, <2>3 DEF FrameInv, frameVars
  <2> QED
    BY <2>2, <2>4, <2>5
<1>2. CASE ~(cb.field = Ground /\ ~grounded)
  <2>1. /\ leader' = [leader EXCEPT ![indexW][cb.field] = sent]
        /\ cb' = IF cb.field = NumFields
                   THEN [at |-> "advance", field |-> 1]
                   ELSE [cb EXCEPT !.field = @ + 1]
        /\ UNCHANGED <<sent, grounded, indexW, stillWaiting, latest, frameVars, overlap>>
        /\ cb.at = "write"
    BY <1>2 DEF WriteField
  <2>2. indexW \in Entries /\ cb.field \in Fields
    BY <2>1 DEF RingInv, TypeOK, Entries
  <2>3. TypeOK'
    BY <2>1, <2>2 DEF TypeOK, Fields, frameVars
  <2>4. \A e \in Entries, f \in Fields :
          leader'[e][f] = IF e = indexW /\ f = cb.field THEN sent ELSE leader[e][f]
    BY <2>1, <2>2 DEF TypeOK
  <2>5. \A f \in Fields : Written(f)' <=> Written(f) \/ f = cb.field
    BY <2>1, <2>2 DEF Written, Fields, TypeOK
  <2>6. RingInv'
    <3>1. cb'.at \in {"write", "advance"}
      BY <2>1 DEF TypeOK
    <3>2. /\ indexW' = waitingTime <=> cb'.at \in {"wake", "loop"}
          /\ cb'.at = "loop" => ~stillWaiting'
          /\ latest' # 0 => grounded' /\ sent' = latest' + 1
          /\ indexW' # 0 \/ ~stillWaiting' => latest' # 0
          /\ cb'.at # "idle" => sent' # 0
      BY <2>1, <3>1 DEF RingInv
    <3>3. cb'.at = "advance" \/ (cb'.at = "write" /\ Ground < cb'.field) => grounded'
      BY <1>2, <2>1, <2>2 DEF RingInv, TypeOK, Fields
    <3>4. ASSUME NEW e \in Entries, NEW f \in Fields
          PROVE  /\ e < indexW' => leader'[e][f] = latest' + 1 + e - indexW'
                 /\ e = indexW' /\ Written(f)' => leader'[e][f] = sent'
                 /\ ~stillWaiting' /\ (e > indexW' \/ (e = indexW' /\ ~Written(f)')) =>
                      leader'[e][f] = latest' + 1 + e - indexW' - waitingTime
      <4>1. /\ e < indexW => leader[e][f] = latest + 1 + e - indexW
            /\ e = indexW /\ Written(f) => leader[e][f] = sent
            /\ ~stillWaiting /\ (e > indexW \/ (e = indexW /\ ~Written(f))) =>
                 leader[e][f] = latest + 1 + e - indexW - waitingTime
        BY DEF RingInv
      <4>2. /\ leader'[e][f] = IF e = indexW /\ f = cb.field THEN sent ELSE leader[e][f]
            /\ Written(f)' <=> Written(f) \/ f = cb.field
            /\ indexW' = indexW /\ latest' = latest /\ sent' = sent
            /\ stillWaiting' = stillWaiting
        BY <2>1, <2>4, <2>5
      <4> QED
        BY <2>2, <4>1, <4>2 DEF Entries
    <3> QED
      BY <3>1, <3>2, <3>3, <3>4 DEF RingInv
  <2>7. FrameInv'
    <3> SUFFICES ASSUME pc # "frame", overlap <= 1
                 PROVE  /\ ~stillWaiting
                        /\ overlap = 1
                        /\ indexWPlusOne = NextEntry
                        /\ \A f \in Fields :
                             /\ leader'[indexWPlusOne][f] = Delayed
                             /\ pc = "publish" \/ f < field => my[f] = Delayed
      BY <2>1 DEF FrameInv, Delayed, NextEntry, TypeOK, frameVars
    <3>1. ~stillWaiting /\ overlap = 1 /\ indexWPlusOne = NextEntry
      BY <2>1 DEF FrameInv, TypeOK
    <3>2. indexWPlusOne # indexW /\ indexWPlusOne \in Entries
      BY <3>1, NextIsNotWritten DEF TypeOK
    <3>3. \A f \in Fields : leader'[indexWPlusOne][f] = leader[indexWPlusOne][f]
      BY <2>4, <3>2
    <3> QED
      BY <3>1, <3>3 DEF FrameInv
  <2> QED
    BY <2>3, <2>6, <2>7
<1> QED
  BY <1>1, <1>2

LEMMA AdvanceExact == ASSUME ExactInv, Advance PROVE ExactInv'
<1> USE DEF ExactInv
<1>1. /\ cb.at = "advance" /\ indexW' = indexW + 1 /\ latest' = sent
      /\ cb' = [cb EXCEPT !.at = IF indexW' = waitingTime THEN "wake" ELSE "idle"]
      /\ UNCHANGED <<sent, grounded, leader, stillWaiting, frameVars, overlap>>
  BY DEF Advance
<1>2. indexW \in 0..waitingTime - 1 /\ sent # 0 /\ grounded /\ sent \in Nat /\ latest \in Nat
  BY <1>1 DEF RingInv, TypeOK, Numbers
<1>3. TypeOK'
  BY <1>1, <1>2 DEF TypeOK, frameVars
<1>4. RingInv'
  <2>1. cb'.at = IF indexW + 1 = waitingTime THEN "wake" ELSE "idle"
    BY <1>1 DEF TypeOK
  <2>2. \A f \in Fields : Written(f) /\ ~Written(f)'
    BY <1>1, <2>1 DEF Written
  <2>3. indexW # 0 \/ ~stillWaiting => sent = latest + 1
    BY <1>1 DEF RingInv
  <2>4. ASSUME NEW e \in Entries, NEW f \in Fields
        PROVE  /\ e < indexW' => leader'[e][f] = latest' + 1 + e - indexW'
               /\ ~stillWaiting' /\ (e > indexW' \/ e = indexW') =>
                    leader'[e][f] = latest' + 1 + e - indexW' - waitingTime
    <3>1. /\ e < indexW => leader[e][f] = latest + 1 + e - indexW
          /\ e = indexW => leader[e][f] = sent
          /\ ~stillWaiting /\ e > indexW =>
               leader[e][f] = latest + 1 + e - indexW - waitingTime
      BY <2>2 DEF RingInv
    <3> QED
      BY <1>1, <1>2, <2>3, <3>1 DEF Entries
  <2> QED
    BY <1>1, <1>2, <2>1, <2>2, <2>4 DEF RingInv
<1>5. FrameInv'
  BY <1>1 DEF FrameInv, Delayed, TypeOK, frameVars
<1> QED
  BY <1>3, <1>4, <1>5

LEMMA StopWaitingExact == ASSUME ExactInv, StopWaiting PROVE ExactInv'
<1> USE DEF ExactInv
<1>1. /\ cb.at = "wake" /\ ~stillWaiting'
      /\ cb' = [cb EXCEPT !.at = "loop"] /\ cb'.at = "loop"
      /\ UNCHANGED <<sent, grounded, leader, indexW, latest, frameVars, overlap>>
  BY DEF StopWaiting, TypeOK
<1>2. TypeOK'
  BY <1>1 DEF TypeOK, frameVars, StopWaiting
<1>3. RingInv'
  <2>1. indexW = waitingTime /\ latest # 0
    BY <1>1 DEF RingInv
  <2>2. \A e \in Entries : e < indexW /\ ~(e > indexW) /\ e # indexW
    BY <2>1 DEF Entries
  <2> QED
    BY <1>1, <2>1, <2>2 DEF RingInv
<1>4. FrameInv'
  BY <1>1 DEF FrameInv, Delayed, NextEntry, TypeOK, frameVars
<1> QED
  BY <1>2, <1>3, <1>4

LEMMA LoopExact == ASSUME ExactInv, Loop PROVE ExactInv'
<1> USE DEF ExactInv
<1>1. /\ cb.at = "loop" /\ indexW' = 0
      /\ cb' = [cb EXCEPT !.at = "idle"] /\ cb'.at = "idle"
      /\ UNCHANGED <<sent, grounded, leader, stillWaiting, latest, frameVars, overlap>>
  BY DEF Loop, TypeOK
<1>2. indexW = waitingTime /\ ~stillWaiting /\ latest # 0 /\ latest \in Nat
  BY <1>1 DEF RingInv, TypeOK, Numbers
<1>3. TypeOK'
  BY <1>1 DEF TypeOK, frameVars
<1>4. RingInv'
  <2>1. \A f \in Fields : ~Written(f)'
    BY <1>1 DEF Written
  <2>2. ASSUME NEW e \in Entries, NEW f \in Fields
        PROVE  leader'[e][f] = latest' + 1 + e - indexW' - waitingTime /\ ~(e < indexW')
    <3>1. e < indexW => leader[e][f] = latest + 1 + e - indexW
      BY DEF RingInv
    <3> QED
      BY <1>1, <1>2, <3>1 DEF Entries
  <2> QED
    BY <1>1, <1>2, <2>1, <2>2 DEF RingInv
<1>5. FrameInv'
  BY <1>1 DEF FrameInv, Delayed, TypeOK, frameVars
<1> QED
  BY <1>3, <1>4, <1>5

LEMMA BeginFrameExact == ASSUME ExactInv, BeginFrame PROVE ExactInv'
<1> USE DEF ExactInv
<1>1. /\ ~stillWaiting /\ pc' = "read" /\ field' = 1
      /\ indexWPlusOne' = NextEntry /\ base' = latest
      /\ overlap' = IF cb.at = "idle" THEN 0 ELSE 1
      /\ UNCHANGED <<cbVars, my>>
  BY DEF BeginFrame
<1>2. NextEntry \in Entries
  BY NextEntryCases DEF TypeOK
<1>3. TypeOK'
  <2>1. 1 \in Fields
    BY DEF Fields
  <2>2. overlap' \in 0..sent + 1
    BY <1>1 DEF TypeOK, Numbers
  <2>3. indexWPlusOne' \in Entries /\ field' \in Fields /\ pc' = "read"
    BY <1>1, <1>2, <2>1
  <2>4. base' \in Numbers
    BY <1>1 DEF TypeOK
  <2> QED
    BY <1>1, <2>2, <2>3, <2>4 DEF TypeOK, cbVars
<1>4. RingInv'
  BY <1>1 DEF RingInv, Written, cbVars
<1>5. FrameInv'
  <2>1. \A f \in Fields : leader[NextEntry][f] = latest - (waitingTime - 2)
    BY <1>1, NextIsDelayed
  <2> QED
    BY <1>1, <2>1 DEF FrameInv, Delayed, NextEntry, cbVars, Fields
<1> QED
  BY <1>3, <1>4, <1>5

LEMMA ReadFieldExact == ASSUME ExactInv, ReadField PROVE ExactInv'
<1> USE DEF ExactInv
<1>1. /\ pc = "read" /\ my' = [my EXCEPT ![field] = leader[indexWPlusOne][field]]
      /\ IF field = NumFields THEN pc' = "publish" /\ field' = 1
                              ELSE pc' = pc /\ field' = field + 1
      /\ UNCHANGED <<cbVars, indexWPlusOne, base, overlap>>
  BY DEF ReadField
<1>2. field \in Fields
  BY DEF TypeOK
<1>3. TypeOK'
  BY <1>1, <1>2 DEF TypeOK, cbVars, Fields
<1>4. RingInv'
  BY <1>1 DEF RingInv, Written, cbVars
<1>5. FrameInv'
  <2>1. \A f \in Fields : my'[f] = IF f = field THEN leader[indexWPlusOne][f] ELSE my[f]
    BY <1>1, <1>2 DEF TypeOK
  <2>2. \A f \in Fields : pc' = "publish" \/ f < field' => f < field \/ f = field
    BY <1>1, <1>2 DEF Fields
  <2> QED
    BY <1>1, <2>1, <2>2 DEF FrameInv, Delayed, NextEntry, cbVars
<1> QED
  BY <1>3, <1>4, <1>5

LEMMA NextExact == ExactInv /\ [Next]_vars => ExactInv'
<1> SUFFICES ASSUME ExactInv, [Next]_vars PROVE ExactInv'
  OBVIOUS
<1>1. CASE attributesUpdated
  BY <1>1, UpdateExact, WriteFieldExact, AdvanceExact, StopWaitingExact, LoopExact
  DEF attributesUpdated
<1>2. CASE BeginFrame \/ ReadField
  BY <1>2, BeginFrameExact, ReadFieldExact
<1>3. CASE Publish
  BY <1>3 DEF Publish, ExactInv, TypeOK, RingInv, FrameInv, Written, cbVars
<1>4. CASE UNCHANGED vars
  BY <1>4 DEF vars, cbVars, frameVars, ExactInv, TypeOK, RingInv, FrameInv, Written,
              Delayed, NextEntry
<1> QED
  BY <1>1, <1>2, <1>3, <1>4 DEF Next, simulate, WaitingFrame

-------------------------------------------------------------------------------
(* Whole turns of the ring.                                                *)

LEMMA TurnsRemainder == ASSUME NEW w \in Nat \ {0}, NEW q \in Nat PROVE (q * w) % w = 0
OBVIOUS

LEMMA TurnsBound ==
  ASSUME NEW w \in Nat \ {0}, NEW q \in Nat PROVE q <= q * w /\ (q + 1) * w = q * w + w
OBVIOUS

\* A field that is overwritten one turn later.
LEMMA OneTurn ==
  ASSUME NEW n \in Numbers, NEW m \in Numbers, m = n + waitingTime,
         Delayed \in Nat, Turns(n)
  PROVE  Turns(m)
<1>1. PICK q \in Numbers : n = Delayed + q * waitingTime
  BY DEF Turns
<1>2. q \in Nat /\ q + 1 \in Nat /\ n \in Nat /\ m \in Nat /\ m <= MaxUpdates
  BY DEF Numbers
<1>3. (q + 1) * waitingTime = q * waitingTime + waitingTime /\ q * waitingTime \in Nat
  BY <1>2, TurnsBound
<1>4. m = Delayed + (q + 1) * waitingTime
  BY <1>1, <1>2, <1>3
<1>5. q + 1 <= (q + 1) * waitingTime
  BY <1>2, TurnsBound
<1>6. q + 1 \in Numbers
  BY <1>2, <1>3, <1>4, <1>5 DEF Numbers
<1> QED
  BY <1>4, <1>6 DEF Turns

\* Nothing changes for a frame while its entry is left alone.
LEMMA SameTurns ==
  ASSUME TurnsInv, UNCHANGED <<leader, stillWaiting, frameVars>>,
         indexW' <= latest', latest <= latest', latest \in Nat, latest' \in Nat
  PROVE  TurnsInv'
BY DEF TurnsInv, Turns, Delayed, frameVars

LEMMA WriteFieldTurns == ASSUME DelayInv, WriteField PROVE TurnsInv'
<1> USE DEF DelayInv, ExactInv
<1>1. CASE UNCHANGED leader
  BY <1>1, SameTurns DEF WriteField, TurnsInv, TypeOK, Numbers
<1>2. CASE leader' = [leader EXCEPT ![indexW][cb.field] = sent]
  <2>1. /\ cb.at = "write"
        /\ UNCHANGED <<sent, grounded, indexW, stillWaiting, latest, frameVars, overlap>>
    BY DEF WriteField
  <2>2. indexW \in Entries /\ cb.field \in Fields /\ ~Written(cb.field)
    BY <2>1 DEF RingInv, TypeOK, Entries, Written, Fields
  <2>3. \A e \in Entries, f \in Fields :
          leader'[e][f] = IF e = indexW /\ f = cb.field THEN sent ELSE leader[e][f]
    BY <1>2, <2>2 DEF TypeOK
  <2>4. UNCHANGED <<base, my, pc, field, indexWPlusOne>> /\ (\A n : Turns(n)' <=> Turns(n))
    BY <2>1 DEF frameVars, Turns, Delayed
  <2>5. ASSUME pc # "frame", NEW f \in Fields PROVE Turns(leader'[indexWPlusOne][f])
    <3>1. Turns(leader[indexWPlusOne][f]) /\ indexWPlusOne \in Entries
      BY <2>5 DEF TurnsInv, TypeOK
    <3>2. CASE indexWPlusOne = indexW /\ f = cb.field
      <4>1. ~stillWaiting /\ waitingTime <= base /\ latest # 0
        BY <2>5 DEF TurnsInv, RingInv
      <4>2. leader[indexW][f] = latest + 1 - waitingTime /\ sent = latest + 1
        <5>1. indexW \in Nat /\ latest \in Nat
          BY DEF TypeOK, Numbers
        <5>2. leader[indexW][f] = latest + 1 + indexW - indexW - waitingTime
          BY <2>2, <3>2, <4>1 DEF RingInv
        <5> QED
          BY <2>1, <4>1, <5>1, <5>2 DEF RingInv
      <4>3. leader[indexW][f] \in Numbers /\ sent \in Numbers /\ latest \in Nat
        BY <2>2 DEF TypeOK, Numbers
      <4>4. Delayed \in Nat
        BY <4>1 DEF Delayed, TypeOK, Numbers
      <4>5. Turns(sent)
        BY <3>1, <3>2, <4>2, <4>3, <4>4, OneTurn
      <4> QED
        BY <2>3, <3>1, <3>2, <4>5
    <3>3. CASE ~(indexWPlusOne = indexW /\ f = cb.field)
      BY <2>3, <3>1, <3>3
    <3> QED
      BY <3>2, <3>3
  <2> QED
    BY <2>1, <2>4, <2>5 DEF TurnsInv
<1> QED
  BY <1>1, <1>2 DEF WriteField

LEMMA AdvanceTurns == ASSUME DelayInv, Advance PROVE TurnsInv'
<1> USE DEF DelayInv, ExactInv
<1>1. indexW' = indexW + 1 /\ latest' = sent /\ UNCHANGED <<leader, stillWaiting, frameVars>>
  BY DEF Advance
<1>2. sent \in Nat /\ latest \in Nat /\ indexW \in Nat /\ sent # 0 /\ indexW <= latest
  BY DEF Advance, RingInv, TypeOK, Numbers, TurnsInv
<1>3. latest # 0 => sent = latest + 1
  BY DEF Advance, RingInv
<1> QED
  BY <1>1, <1>2, <1>3, SameTurns

LEMMA StopWaitingTurns == ASSUME DelayInv, StopWaiting PROVE TurnsInv'
<1> USE DEF DelayInv, ExactInv
<1>1. /\ cb.at = "wake" /\ ~stillWaiting'
      /\ UNCHANGED <<leader, indexW, latest, frameVars>>
  BY DEF StopWaiting
<1>2. indexW = waitingTime
  BY <1>1 DEF RingInv
<1> QED
  BY <1>1, <1>2 DEF TurnsInv, Turns, Delayed, frameVars

LEMMA BeginFrameTurns == ASSUME DelayInv, BeginFrame PROVE TurnsInv'
<1> USE DEF DelayInv, ExactInv
<1>1. /\ ~stillWaiting /\ pc' = "read" /\ field' = 1
      /\ indexWPlusOne' = NextEntry /\ base' = latest
      /\ UNCHANGED <<cbVars, my>>
  BY DEF BeginFrame
<1>2. latest \in Nat /\ 0 \in Numbers
  BY DEF TypeOK, Numbers
<1>3. \A f \in Fields : leader[NextEntry][f] = latest - (waitingTime - 2) + 0 * waitingTime
  BY <1>1, <1>2, NextIsDelayed
<1>4. \A f \in Fields : Turns(leader[indexWPlusOne][f])'
  <2>1. Delayed' = latest - (waitingTime - 2)
    BY <1>1 DEF Delayed
  <2>2. leader' = leader
    BY <1>1 DEF cbVars
  <2> QED
    BY <1>1, <1>2, <1>3, <2>1, <2>2 DEF Turns
<1>5. \A f \in Fields : ~(f < 1)
  BY DEF Fields
<1> QED
  BY <1>1, <1>4, <1>5 DEF TurnsInv, cbVars

LEMMA ReadFieldTurns == ASSUME DelayInv, ReadField PROVE TurnsInv'
<1> USE DEF DelayInv, ExactInv
<1>1. /\ pc = "read" /\ my' = [my EXCEPT ![field] = leader[indexWPlusOne][field]]
      /\ IF field = NumFields THEN pc' = "publish" /\ field' = 1
                              ELSE pc' = pc /\ field' = field + 1
      /\ UNCHANGED <<cbVars, indexWPlusOne, base>>
  BY DEF ReadField
<1>2. \A f \in Fields : my'[f] = IF f = field THEN leader[indexWPlusOne][f] ELSE my[f]
  BY <1>1 DEF TypeOK
<1>3. \A f \in Fields : pc' = "publish" \/ f < field' => f < field \/ f = field
  BY <1>1 DEF Fields, TypeOK
<1>4. \A n : Turns(n)' <=> Turns(n)
  BY <1>1 DEF Turns, Delayed
<1> QED
  BY <1>1, <1>2, <1>3, <1>4 DEF TurnsInv, cbVars

LEMMA NextTurns == DelayInv /\ [Next]_vars => TurnsInv'
<1> SUFFICES ASSUME DelayInv, [Next]_vars PROVE TurnsInv'
  OBVIOUS
<1>1. latest \in Nat /\ indexW \in Nat /\ TurnsInv
  BY DEF DelayInv, ExactInv, TypeOK, Numbers
<1>2. CASE Update
  BY <1>1, <1>2, SameTurns DEF Update, TurnsInv
<1>3. CASE Loop
  BY <1>1, <1>3, SameTurns DEF Loop
<1>4. CASE Publish
  BY <1>1, <1>4 DEF Publish, TurnsInv, cbVars
<1>5. CASE UNCHANGED vars
  BY <1>1, <1>5, SameTurns DEF vars, cbVars, TurnsInv
<1> QED
  BY <1>2, <1>3, <1>4, <1>5, WriteFieldTurns, AdvanceTurns, StopWaitingTurns, BeginFrameTurns,
     ReadFieldTurns
  DEF Next, attributesUpdated, simulate, WaitingFrame

-------------------------------------------------------------------------------
(* The theorems.                                                           *)

\* At every step of the callback each entry of the ring holds the state that its
\* distance from indexW says, the entry that a frame reads is left alone by one
\* callback, and is whole turns newer after several.
THEOREM DelayInvariant == Spec => []DelayInv
<1>1. Init => DelayInv
  BY InitExact DEF DelayInv, Init, TurnsInv
<1>2. DelayInv /\ [Next]_vars => DelayInv'
  BY NextExact, NextTurns DEF DelayInv
<1> QED
  BY <1>1, <1>2, PTL DEF Spec

\* The indices of both threads stay within the ring and the fields.
THEOREM DelayTypeCorrect == Spec => []TypeOK
<1>1. DelayInv => TypeOK
  BY DEF DelayInv, ExactInv
<1> QED
  BY <1>1, DelayInvariant, PTL

\* What is published is one state of the leader, waitingTime - 2 updates older
\* than the last one, unless two callbacks run during the reading.
THEOREM DelayIsExactHolds == Spec => []DelayIsExact
<1>1. DelayInv => DelayIsExact
  BY DEF DelayInv, ExactInv, FrameInv, DelayIsExact
<1> QED
  BY <1>1, DelayInvariant, PTL

\* However many callbacks run during the reading, each field is of the delayed
\* state or of one that is whole turns of the ring newer; none was never sent.
THEOREM WholeTurnsNewerHolds == Spec => []WholeTurnsNewer
<1>1. DelayInv => WholeTurnsNewer
  <2> SUFFICES ASSUME DelayInv, pc = "publish", NEW f \in Fields
               PROVE  my[f] >= 1 /\ my[f] >= Delayed /\ (my[f] - Delayed) % waitingTime = 0
    BY DEF WholeTurnsNewer
  <2>1. PICK q \in Numbers : my[f] = Delayed + q * waitingTime
    BY DEF DelayInv, TurnsInv, Turns
  <2>2. q \in Nat /\ waitingTime \in Nat \ {0} /\ q * waitingTime \in Nat
    <3>1. q \in Nat
      BY DEF Numbers
    <3> QED
      BY <3>1, TurnsBound
  <2>3. Delayed \in Nat /\ Delayed >= 2
    BY DEF DelayInv, ExactInv, TurnsInv, TypeOK, Numbers, Delayed
  <2>4. my[f] - Delayed = q * waitingTime /\ my[f] >= Delayed /\ my[f] >= 1
    BY <2>1, <2>2, <2>3
  <2> QED
    BY <2>2, <2>4, TurnsRemainder
<1> QED
  BY <1>1, DelayInvariant, PTL
===============================================================================
