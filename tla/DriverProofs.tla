---------------------------- MODULE DriverProofs ----------------------------
(***************************************************************************)
(* Proofs about the drivers of the chips.  RxRing: the driver and the      *)
(* Ethernet chip stay in step, and no frame that waits is written over as  *)
(* long as the read pointer is in the ring, for rings of every size and    *)
(* frames of every even size.  TwoWire: the bus of the expander is free    *)
(* between two uses of it, and what the calls report is what was done, for *)
(* all inputs and outputs.  SensorTable: a scan of a bus finds every       *)
(* device of it, and a sensor has one entry at most, whoever looks it up.  *)
(* Readings: the pages tell what was measured, of every sensor.            *)
(***************************************************************************)
EXTENDS RxRing, TwoWire, Readings, SequenceTheorems,
        FiniteSetTheorems, WellFoundedInduction, NaturalsInduction, TLAPS

(* A place in the ring is even; a sum of two is one, once it has wrapped. *)
Place == {a \in 0 .. RXSTOP_INIT : a % 2 = 0}

LEMMA NextPlace ==
  ASSUME NEW a \in Place, NEW n \in FrameSizes
  PROVE  (a + n) % Ring \in Place
<1>1. /\ a \in Nat /\ a <= RXSTOP_INIT /\ a % 2 = 0
      /\ n \in Nat /\ n <= RXSTOP_INIT /\ n % 2 = 0
      /\ RXSTOP_INIT \in Nat /\ RXSTOP_INIT % 2 = 1 /\ Ring = RXSTOP_INIT + 1
  BY RxAssumption DEF Place, Ring
<1>2. CASE a + n < Ring
  <2>1. (a + n) % Ring = a + n
    BY <1>1, <1>2
  <2>2. QED
    BY <1>1, <1>2, <2>1 DEF Place
<1>3. CASE a + n >= Ring
  <2>1. (a + n) % Ring = a + n - Ring
    BY <1>1, <1>3
  <2>2. QED
    BY <1>1, <1>3, <2>1 DEF Place
<1>4. QED
  BY <1>1, <1>2, <1>3

(* What is written to the read pointer after a frame is odd. *)
LEMMA FreedOdd ==
  ASSUME NEW next \in Place
  PROVE  Freed(next) % 2 = 1
<1>1. /\ next \in Nat /\ next <= RXSTOP_INIT /\ next % 2 = 0
      /\ RXSTOP_INIT \in Nat /\ RXSTOP_INIT % 2 = 1
      /\ Memory \in Nat /\ Memory % 2 = 0 /\ Memory > RXSTOP_INIT + 1
  BY RxAssumption DEF Place
<1>2. CASE next = 0
  <2>1. (-1) % Memory = Memory - 1
    BY <1>1
  <2>2. Freed(next) = Memory - 1
    BY <1>1, <1>2, <2>1 DEF Freed
  <2>3. QED
    BY <1>1, <2>2
<1>3. CASE next # 0
  <2>1. (next - 1) % Memory = next - 1
    BY <1>1, <1>3
  <2>2. Freed(next) = next - 1
    BY <1>1, <1>3, <2>1 DEF Freed
  <2>3. QED
    BY <1>1, <1>3, <2>2
<1>4. QED
  BY <1>2, <1>3

(* The frames that wait are linked one to the next, the last to where the     *)
(* chip writes.                                                              *)
Frame == [start : Place, next : Place]

RingInv ==
  /\ waiting \in Seq(Frame)
  /\ ERXWRPT \in Place
  /\ waiting # << >> => waiting[Len(waiting)].next = ERXWRPT
  /\ FramesInOrder

LEMMA RingInitially == RxInit => RingInv
<1>1. 0 \in Place
  BY RxAssumption DEF Place
<1>2. QED
  BY <1>1 DEF RxInit, RingInv, FramesInOrder

LEMMA ArriveStep ==
  ASSUME RingInv, NEW n \in FrameSizes, Arrive(n)
  PROVE  RingInv'
<1> DEFINE f == [start |-> ERXWRPT, next |-> (ERXWRPT + n) % Ring]
<1>1. /\ waiting' = Append(waiting, f) /\ ERXWRPT' = f.next
      /\ UNCHANGED <<gNextPacketPtr, ERXRDPT>>
  BY DEF Arrive
<1>2. f \in Frame
  BY NextPlace DEF RingInv, Frame
<1>3. waiting \in Seq(Frame) /\ Len(waiting) \in Nat
  BY DEF RingInv
<1>4. waiting' \in Seq(Frame) /\ Len(waiting') = Len(waiting) + 1
      /\ waiting'[Len(waiting) + 1] = f
      /\ \A k \in 1 .. Len(waiting) : waiting'[k] = waiting[k]
  BY <1>1, <1>2, <1>3
<1>5. gNextPacketPtr = Head(waiting').start
  <2>1. CASE waiting = << >>
    BY <1>1, <1>4, <2>1 DEF RingInv, FramesInOrder
  <2>2. CASE waiting # << >>
    BY <1>3, <1>4, <2>2 DEF RingInv, FramesInOrder
  <2>3. QED
    BY <2>1, <2>2
<1>6. ASSUME NEW k \in 1 .. Len(waiting') - 1
      PROVE  waiting'[k].next = waiting'[k + 1].start
  <2>1. CASE k < Len(waiting)
    BY <1>3, <1>4, <2>1 DEF RingInv, FramesInOrder
  <2>2. CASE k = Len(waiting)
    BY <1>3, <1>4, <2>2 DEF RingInv
  <2>3. QED
    BY <1>3, <1>4, <2>1, <2>2
<1>7. QED
  BY <1>1, <1>2, <1>3, <1>4, <1>5, <1>6 DEF RingInv, FramesInOrder, Frame

LEMMA ReceiveStep ==
  ASSUME RingInv, NEW valid \in BOOLEAN, enc28j60PacketReceive(valid)
  PROVE  RingInv'
<1>1. /\ waiting # << >> /\ waiting' = Tail(waiting) /\ UNCHANGED ERXWRPT
      /\ gNextPacketPtr' = Head(waiting).next /\ ERXRDPT' = Freed(Head(waiting).next)
  BY DEF enc28j60PacketReceive
<1>2. waiting \in Seq(Frame) /\ Len(waiting) \in Nat \ {0} /\ Head(waiting) = waiting[1]
  BY <1>1 DEF RingInv
<1>3. /\ waiting' \in Seq(Frame) /\ Len(waiting') = Len(waiting) - 1
      /\ \A k \in 1 .. Len(waiting) - 1 : waiting'[k] = waiting[k + 1]
  BY <1>1, <1>2
<1>4. ERXRDPT' % 2 = 1
  <2>1. waiting[1] \in Frame
    BY <1>2
  <2>2. waiting[1].next \in Place
    BY <2>1 DEF Frame
  <2>3. QED
    BY <1>1, <1>2, <2>2, FreedOdd
<1>5. CASE Len(waiting) = 1
  <2>1. waiting' = << >> /\ Len(waiting') = 0
    BY <1>3, <1>5
  <2>2. gNextPacketPtr' = ERXWRPT'
    BY <1>1, <1>2, <1>5 DEF RingInv
  <2>3. waiting' \in Seq(Frame) /\ ERXWRPT' \in Place
    BY <1>1, <1>3 DEF RingInv
  <2>4. QED
    BY <1>4, <2>1, <2>2, <2>3 DEF RingInv, FramesInOrder
<1>6. CASE Len(waiting) > 1
  <2>1. waiting' # << >> /\ Head(waiting') = waiting[2]
    BY <1>2, <1>3, <1>6
  <2>2. gNextPacketPtr' = Head(waiting').start
    BY <1>1, <1>2, <1>6, <2>1 DEF RingInv, FramesInOrder
  <2>3. waiting'[Len(waiting')] = waiting[Len(waiting)]
    BY <1>2, <1>3, <1>6
  <2>4. ASSUME NEW k \in 1 .. Len(waiting') - 1
        PROVE  waiting'[k].next = waiting'[k + 1].start
    <3>1. k + 1 \in 1 .. Len(waiting) - 1
      BY <1>2, <1>3, <2>4
    <3>2. waiting[k + 1].next = waiting[k + 1 + 1].start
      BY <3>1 DEF RingInv, FramesInOrder
    <3>3. waiting'[k] = waiting[k + 1] /\ waiting'[k + 1] = waiting[k + 1 + 1]
      BY <1>2, <1>3, <2>4, <3>1
    <3> QED
      BY <3>2, <3>3
  <2>5. QED
    BY <1>1, <1>2, <1>3, <1>4, <2>1, <2>2, <2>3, <2>4 DEF RingInv, FramesInOrder
<1>7. Len(waiting) = 1 \/ Len(waiting) > 1
  <2>1. Len(waiting) \in Nat /\ Len(waiting) # 0
    BY <1>2
  <2>2. QED
    BY <2>1
<1>8. QED
  BY <1>5, <1>6, <1>7

LEMMA RingStep ==
  ASSUME RingInv, [RxNext]_rxVars
  PROVE  RingInv'
<1>1. CASE enc28j60Init
  <2>1. RxInit'
    BY <1>1 DEF enc28j60Init, RxInit
  <2>2. 0 \in Place
    BY RxAssumption DEF Place
  <2>3. QED
    BY <2>1, <2>2 DEF RxInit, RingInv, FramesInOrder
<1>2. CASE UNCHANGED rxVars
  BY <1>2 DEF rxVars, RingInv, FramesInOrder
<1>3. QED
  BY <1>1, <1>2, ArriveStep, ReceiveStep DEF RxNext

(* Frames come out one by one in the order they came, whatever wraps, and the *)
(* read pointer is odd once a frame was read (enc28j60PacketReceive and the   *)
(* point 13 of the chip's errata that it quotes).                            *)
THEOREM FramesStayInOrder == RxSpec => []FramesInOrder
<1>1. RingInv => FramesInOrder
  BY DEF RingInv
<1>2. QED
  BY <1>1, RingInitially, RingStep, PTL DEF RxSpec

(* How far an address is from the driver's pointer, the way the ring turns; the *)
(* bytes a frame takes; where it ends, seen from the pointer.               *)
Dist(g, a) == IF a >= g THEN a - g ELSE a - g + Ring
SizeOf(f) == IF f.next > f.start THEN f.next - f.start ELSE f.next - f.start + Ring
End(g, f) == Dist(g, f.start) + SizeOf(f)
(* The bytes from the pointer to the end of the last frame that waits; how many *)
(* there can be, with the read pointer where the driver has put it.         *)
Occupied == IF waiting = << >> THEN 0 ELSE End(gNextPacketPtr, waiting[Len(waiting)])
Limit == IF gNextPacketPtr > 0 THEN Ring - 2 ELSE IF ERXRDPT = 0 THEN Ring - 1 ELSE Ring

(* As long as nothing was written over: the frames lie one after the other, the *)
(* last one ends where the chip writes, and they leave the driver's byte free. *)
InOrder ==
  /\ \A k \in DOMAIN waiting :
       SizeOf(waiting[k]) >= 2 /\ End(gNextPacketPtr, waiting[k]) <= Occupied
  /\ \A j, k \in DOMAIN waiting : j < k => End(gNextPacketPtr, waiting[j]) <= Dist(gNextPacketPtr, waiting[k].start)
  /\ ERXWRPT = IF gNextPacketPtr + Occupied < Ring THEN gNextPacketPtr + Occupied
               ELSE gNextPacketPtr + Occupied - Ring
  /\ Occupied <= Limit

(* The inductive invariant.  The read pointer is one behind the driver's; when *)
(* that is at 0, it is outside of the ring, or was never moved.             *)
KeptInv ==
  /\ RingInv /\ FramesKept
  /\ overwritten \in BOOLEAN
  /\ ERXRDPT \in IF gNextPacketPtr > 0 THEN {gNextPacketPtr - 1} ELSE {0, Memory - 1}
  /\ ~overwritten => InOrder

(* The numbers the constants allow. *)
LEMMA RingSizes ==
  /\ Ring \in Nat /\ Ring = RXSTOP_INIT + 1 /\ Ring % 2 = 0 /\ Ring >= 2
  /\ Memory \in Nat /\ Memory > Ring /\ RXSTOP_INIT \in Nat
  /\ \A a \in Place : a \in Nat /\ a < Ring /\ a % 2 = 0
  /\ \A n \in FrameSizes : n \in Nat /\ n >= 2 /\ n < Ring /\ n % 2 = 0
<1>1. RXSTOP_INIT \in Nat /\ RXSTOP_INIT % 2 = 1 /\ Memory \in Nat /\ Memory > RXSTOP_INIT + 1
  BY RxAssumption
<1>2. \A n \in FrameSizes : n \in 2 .. RXSTOP_INIT /\ n % 2 = 0
  BY RxAssumption
<1>3. Ring = RXSTOP_INIT + 1
  BY DEF Ring
<1>4. RXSTOP_INIT >= 1
  BY <1>1
<1>5. \A a \in Place : a \in Nat /\ a < Ring /\ a % 2 = 0
  BY <1>1, <1>3 DEF Place
<1> QED
  BY <1>1, <1>2, <1>3, <1>4, <1>5

(* The bytes of a frame are those between where it starts and where it ends. *)
LEMMA UsedIs ==
  ASSUME NEW g \in Place, NEW f \in Frame, NEW x \in Used(f)
  PROVE  /\ x \in Nat /\ x < Ring
         /\ End(g, f) <= Ring => Dist(g, f.start) <= Dist(g, x) /\ Dist(g, x) < End(g, f)
<1>1. /\ Ring \in Nat /\ Ring = RXSTOP_INIT + 1 /\ RXSTOP_INIT \in Nat
      /\ g \in Nat /\ g < Ring
      /\ f.start \in Nat /\ f.start < Ring /\ f.next \in Nat /\ f.next < Ring
  BY RingSizes DEF Frame
<1>2. CASE f.next > f.start
  BY <1>1, <1>2 DEF Used, SizeOf, End, Dist
<1>3. CASE ~(f.next > f.start)
  <2>1. x \in f.start .. RXSTOP_INIT \/ x \in 0 .. f.next - 1
    BY <1>3 DEF Used
  <2>2. SizeOf(f) = f.next - f.start + Ring
    BY <1>3 DEF SizeOf
  <2> QED
    BY <1>1, <1>3, <2>1, <2>2 DEF End, Dist
<1> QED
  BY <1>2, <1>3

(* What the invariant says of the types of the frames and pointers. *)
LEMMA FramesAreFrames ==
  ASSUME KeptInv
  PROVE  /\ gNextPacketPtr \in Place /\ ERXWRPT \in Place
         /\ waiting \in Seq(Frame) /\ Len(waiting) \in Nat /\ DOMAIN waiting = 1 .. Len(waiting)
         /\ \A k \in 1 .. Len(waiting) : waiting[k] \in Frame
         /\ waiting # << >> => waiting[1].start = gNextPacketPtr
<1>1. waiting \in Seq(Frame) /\ ERXWRPT \in Place /\ FramesInOrder
  BY DEF KeptInv, RingInv
<1>2. /\ Len(waiting) \in Nat /\ DOMAIN waiting = 1 .. Len(waiting)
      /\ \A k \in 1 .. Len(waiting) : waiting[k] \in Frame
  BY <1>1
<1>3. waiting # << >> => Head(waiting) = waiting[1] /\ waiting[1] \in Frame
  BY <1>1
<1>4. gNextPacketPtr \in Place /\ (waiting # << >> => waiting[1].start = gNextPacketPtr)
  <2>1. CASE waiting = << >>
    BY <1>1, <2>1 DEF FramesInOrder
  <2>2. CASE waiting # << >>
    BY <1>1, <1>3, <2>2 DEF FramesInOrder, Frame
  <2> QED
    BY <2>1, <2>2
<1> QED
  BY <1>1, <1>2, <1>4

(* Frames that are kept take no more than the ring. *)
LEMMA OccupiedIs ==
  ASSUME KeptInv, ~overwritten
  PROVE  Occupied \in Nat /\ Occupied <= Ring
<1>1. Limit \in Nat /\ Limit <= Ring
  BY RingSizes DEF Limit
<1>2. Occupied <= Limit
  BY DEF KeptInv, InOrder
<1>3. CASE waiting = << >>
  BY <1>3, RingSizes DEF Occupied
<1>4. CASE waiting # << >>
  <2> DEFINE f == waiting[Len(waiting)]
  <2>1. f \in Frame
    BY <1>4, FramesAreFrames
  <2> HIDE DEF f
  <2>2. /\ f.start \in Nat /\ f.next \in Nat /\ f.start < Ring /\ f.next < Ring
        /\ gNextPacketPtr \in Nat /\ gNextPacketPtr < Ring
    <3>1. f.start \in Place /\ f.next \in Place /\ gNextPacketPtr \in Place
      BY <2>1, FramesAreFrames DEF Frame
    <3> QED
      BY <3>1, RingSizes
  <2>3. Ring \in Nat
    BY RingSizes
  <2>4. Dist(gNextPacketPtr, f.start) \in Nat /\ SizeOf(f) \in Nat
    BY <2>2, <2>3 DEF Dist, SizeOf
  <2>5. Occupied = Dist(gNextPacketPtr, f.start) + SizeOf(f)
    BY <1>4 DEF Occupied, End, f
  <2> QED
    BY <1>1, <1>2, <2>3, <2>4, <2>5
<1> QED
  BY <1>3, <1>4

(* A frame that goes into the space the chip sees as free leaves the limit  *)
(* observed, when the read pointer is in the ring.                          *)
LEMMA RoomIsFree ==
  ASSUME KeptInv, ~overwritten, NEW n \in FrameSizes, n <= FreeSpace,
         ~(gNextPacketPtr = 0 /\ ERXRDPT = Memory - 1)
  PROVE  Occupied + n <= Limit
<1>1. /\ Occupied \in Nat /\ Occupied <= Limit
      /\ gNextPacketPtr \in Place /\ ERXWRPT \in Place
      /\ ERXWRPT = IF gNextPacketPtr + Occupied < Ring THEN gNextPacketPtr + Occupied
                   ELSE gNextPacketPtr + Occupied - Ring
      /\ ERXRDPT \in IF gNextPacketPtr > 0 THEN {gNextPacketPtr - 1} ELSE {0, Memory - 1}
  BY OccupiedIs, FramesAreFrames DEF KeptInv, InOrder
<1>2. /\ gNextPacketPtr \in Nat /\ gNextPacketPtr < Ring /\ gNextPacketPtr % 2 = 0
      /\ ERXWRPT \in Nat /\ ERXWRPT < Ring /\ ERXWRPT % 2 = 0
      /\ Ring \in Nat /\ Ring % 2 = 0 /\ RXSTOP_INIT = Ring - 1
      /\ n \in Nat /\ n % 2 = 0 /\ n < Ring /\ n >= 2
  BY <1>1, RingSizes
<1>3. CASE gNextPacketPtr = 0
  <2>1. ERXRDPT = 0 /\ Limit = Ring - 1
    BY <1>1, <1>3 DEF Limit
  <2>2. ERXWRPT = Occupied
    BY <1>1, <1>2, <1>3, <2>1
  <2> QED
    BY <1>1, <1>2, <2>1, <2>2 DEF FreeSpace
<1>4. CASE gNextPacketPtr > 0
  <2>1. ERXRDPT = gNextPacketPtr - 1 /\ Limit = Ring - 2
    BY <1>1, <1>4 DEF Limit
  <2>2. CASE gNextPacketPtr + Occupied < Ring
    <3>1. ERXWRPT = gNextPacketPtr + Occupied
      BY <1>1, <2>2
    <3>2. ERXWRPT > ERXRDPT /\ ERXRDPT \in Nat
      BY <1>1, <1>2, <1>4, <2>1, <3>1
    <3>3. n <= RXSTOP_INIT - (ERXWRPT - ERXRDPT)
      BY <1>2, <3>2 DEF FreeSpace
    <3> QED
      BY <1>1, <1>2, <2>1, <3>1, <3>3
  <2>3. CASE gNextPacketPtr + Occupied >= Ring
    <3>1. ERXWRPT = gNextPacketPtr + Occupied - Ring
      BY <1>1, <1>2, <2>3
    <3>2. ERXWRPT < ERXRDPT /\ ERXRDPT \in Nat
      BY <1>1, <1>2, <1>4, <2>1, <3>1
    <3>3. n <= ERXRDPT - ERXWRPT
      BY <1>2, <3>2 DEF FreeSpace
    <3>4. (ERXWRPT + n) % 2 = 0 /\ (gNextPacketPtr - 1) % 2 = 1
      BY <1>2, <1>4
    <3>5. ERXWRPT + n <= gNextPacketPtr - 2
      BY <1>2, <1>4, <2>1, <3>3, <3>4
    <3> QED
      BY <1>1, <1>2, <2>1, <3>1, <3>5
  <2> QED
    BY <1>1, <1>2, <2>2, <2>3
<1> QED
  BY <1>2, <1>3, <1>4

(* With the pointers at 0, a frame that is longer than what is left of the ring *)
(* writes over the first one that waits.                                    *)
LEMMA TooLongShows ==
  ASSUME KeptInv, ~overwritten, NEW n \in FrameSizes, gNextPacketPtr = 0, Occupied + n > Ring,
         NEW f \in Frame, f.start = ERXWRPT, f.next = (ERXWRPT + n) % Ring
  PROVE  \E k \in DOMAIN waiting : Used(waiting[k]) \cap Used(f) # {}
<1>1. /\ Occupied \in Nat /\ Occupied <= Ring /\ Ring \in Nat /\ n \in Nat /\ n < Ring /\ n >= 2
      /\ ERXWRPT = IF Occupied < Ring THEN Occupied ELSE 0
      /\ RXSTOP_INIT = Ring - 1 /\ ERXWRPT \in Nat /\ ERXWRPT < Ring
  <2>1. ERXWRPT = IF gNextPacketPtr + Occupied < Ring THEN gNextPacketPtr + Occupied
                  ELSE gNextPacketPtr + Occupied - Ring
    BY DEF KeptInv, InOrder
  <2>2. Occupied \in Nat /\ Occupied <= Ring /\ ERXWRPT \in Nat /\ ERXWRPT < Ring
    BY OccupiedIs, FramesAreFrames, RingSizes
  <2> QED
    BY <2>1, <2>2, RingSizes
<1>2. waiting # << >>
  <2> SUFFICES ASSUME waiting = << >> PROVE FALSE
    OBVIOUS
  <2>1. Occupied = 0
    BY DEF Occupied
  <2> QED
    BY <1>1, <2>1
<1>3. /\ 1 \in DOMAIN waiting /\ waiting[1] \in Frame /\ waiting[1].start = 0
  BY <1>2, FramesAreFrames
<1>4. 0 \in Used(waiting[1])
  <2>1. waiting[1].next \in Nat
    BY <1>3, RingSizes DEF Frame
  <2> QED
    BY <1>1, <1>3, <2>1 DEF Used
<1>5. 0 \in Used(f)
  <2>1. CASE ERXWRPT = 0
    BY <1>1, <2>1, RingSizes DEF Used, Frame
  <2>2. CASE ERXWRPT # 0
    <3>1. ERXWRPT = Occupied /\ Occupied < Ring
      BY <1>1, <2>2
    <3>2. (ERXWRPT + n) % Ring = ERXWRPT + n - Ring
      BY <1>1, <3>1
    <3>3. f.next = Occupied + n - Ring /\ f.start = Occupied
      BY <3>1, <3>2
    <3> QED
      BY <1>1, <3>1, <3>3 DEF Used
  <2> QED
    BY <2>1, <2>2
<1> QED
  BY <1>3, <1>4, <1>5

(* Distances and sizes are numbers. *)
LEMMA DistAndSize ==
  ASSUME NEW g \in Place, NEW f \in Frame
  PROVE  /\ Dist(g, f.start) \in Nat /\ SizeOf(f) \in Nat /\ End(g, f) \in Nat
         /\ Dist(g, f.start) < Ring
         /\ End(g, f) = Dist(g, f.start) + SizeOf(f)
<1>1. /\ f.start \in Nat /\ f.next \in Nat /\ f.start < Ring /\ f.next < Ring
      /\ g \in Nat /\ g < Ring
  <2>1. f.start \in Place /\ f.next \in Place
    BY DEF Frame
  <2> QED
    BY <2>1, RingSizes
<1>2. Ring \in Nat
  BY RingSizes
<1> QED
  BY <1>1, <1>2 DEF Dist, SizeOf, End

NewFrame(n) == [start |-> ERXWRPT, next |-> (ERXWRPT + n) % Ring]

(* A frame that finds room lies directly after those that wait. *)
LEMMA ArrivingFrame ==
  ASSUME KeptInv, ~overwritten, NEW n \in FrameSizes, Occupied + n <= Limit
  PROVE  /\ NewFrame(n) \in Frame
         /\ Dist(gNextPacketPtr, ERXWRPT) = Occupied
         /\ SizeOf(NewFrame(n)) = n
         /\ End(gNextPacketPtr, NewFrame(n)) = Occupied + n
         /\ Occupied + n <= Ring
<1> DEFINE f == NewFrame(n)
           g == gNextPacketPtr
<1>1. g \in Place /\ ERXWRPT \in Place
  BY FramesAreFrames
<1>2. f \in Frame /\ f.start = ERXWRPT /\ f.next = (ERXWRPT + n) % Ring
  BY <1>1, NextPlace DEF Frame, NewFrame
<1>3. /\ Occupied \in Nat /\ Limit \in Nat /\ Limit <= Ring
      /\ ERXWRPT = IF g + Occupied < Ring THEN g + Occupied ELSE g + Occupied - Ring
  BY OccupiedIs, RingSizes DEF KeptInv, InOrder, Limit
<1>4. /\ Ring \in Nat /\ n \in Nat /\ n >= 2 /\ n < Ring /\ g \in Nat /\ g < Ring
      /\ ERXWRPT \in Nat /\ ERXWRPT < Ring
  BY <1>1, RingSizes
<1>5. /\ ERXWRPT + n < Ring => f.next = ERXWRPT + n
      /\ ERXWRPT + n >= Ring => f.next = ERXWRPT + n - Ring
  BY <1>2, <1>4
<1> HIDE DEF f, g
<1>6. Occupied < Ring /\ Occupied + n <= Ring
  BY <1>3, <1>4
<1>7. Dist(g, ERXWRPT) = Occupied
  BY <1>3, <1>4, <1>6 DEF Dist
<1>8. SizeOf(f) = n
  <2>1. CASE ERXWRPT + n < Ring
    BY <1>2, <1>4, <1>5, <2>1 DEF SizeOf
  <2>2. CASE ERXWRPT + n >= Ring
    BY <1>2, <1>4, <1>5, <2>2 DEF SizeOf
  <2> QED
    BY <1>4, <2>1, <2>2
<1>9. End(g, f) = Occupied + n
  BY <1>2, <1>7, <1>8 DEF End
<1> QED
  BY <1>2, <1>6, <1>7, <1>8, <1>9 DEF f, g

(* Then the frames lie in order with it, *)
LEMMA ArrivalInOrder ==
  ASSUME KeptInv, ~overwritten, NEW n \in FrameSizes, Arrive(n), Occupied + n <= Limit
  PROVE  InOrder'
<1> DEFINE f == NewFrame(n)
           g == gNextPacketPtr
<1>1. /\ waiting' = Append(waiting, f) /\ ERXWRPT' = f.next
      /\ gNextPacketPtr' = g /\ ERXRDPT' = ERXRDPT
  BY DEF Arrive, NewFrame
<1>2. /\ waiting \in Seq(Frame) /\ Len(waiting) \in Nat /\ DOMAIN waiting = 1 .. Len(waiting)
      /\ \A k \in 1 .. Len(waiting) : waiting[k] \in Frame
      /\ g \in Place
  BY FramesAreFrames
<1>3. /\ f \in Frame /\ f.start = ERXWRPT /\ f.next = (ERXWRPT + n) % Ring
      /\ Dist(g, f.start) = Occupied /\ SizeOf(f) = n /\ End(g, f) = Occupied + n
      /\ Occupied + n <= Ring
  BY ArrivingFrame DEF NewFrame
<1>4. /\ Occupied \in Nat
      /\ ERXWRPT = IF g + Occupied < Ring THEN g + Occupied ELSE g + Occupied - Ring
  BY OccupiedIs DEF KeptInv, InOrder
<1>5. /\ Ring \in Nat /\ n \in Nat /\ n >= 2 /\ n < Ring /\ g \in Nat /\ g < Ring
      /\ ERXWRPT \in Nat /\ ERXWRPT < Ring
  BY <1>2, FramesAreFrames, RingSizes
<1> HIDE DEF f, g
<1>6. /\ Len(waiting') = Len(waiting) + 1 /\ DOMAIN waiting' = 1 .. Len(waiting) + 1
      /\ \A k \in 1 .. Len(waiting) : waiting'[k] = waiting[k]
      /\ waiting'[Len(waiting) + 1] = f /\ waiting' # << >>
  BY <1>1, <1>2, <1>3
<1>7. Occupied' = Occupied + n
  BY <1>1, <1>3, <1>6 DEF Occupied
<1>8. ASSUME NEW k \in 1 .. Len(waiting)
      PROVE  /\ SizeOf(waiting[k]) >= 2 /\ End(g, waiting[k]) <= Occupied
             /\ End(g, waiting[k]) \in Nat
  <2>1. g \in Place /\ waiting[k] \in Frame
    BY <1>2
  <2>2. End(g, waiting[k]) \in Nat
    BY <2>1, DistAndSize
  <2> QED
    BY <1>2, <2>2 DEF KeptInv, InOrder, g
<1>9. ASSUME NEW k \in DOMAIN waiting'
      PROVE  SizeOf(waiting'[k]) >= 2 /\ End(g, waiting'[k]) <= Occupied + n
  <2>1. k \in 1 .. Len(waiting) \/ k = Len(waiting) + 1
    BY <1>2, <1>6
  <2>2. CASE k \in 1 .. Len(waiting)
    BY <1>4, <1>5, <1>6, <1>8, <2>2
  <2>3. CASE k = Len(waiting) + 1
    BY <1>3, <1>4, <1>5, <1>6, <2>3
  <2> QED
    BY <2>1, <2>2, <2>3
<1>10. ASSUME NEW j \in DOMAIN waiting', NEW k \in DOMAIN waiting', j < k
       PROVE  End(g, waiting'[j]) <= Dist(g, waiting'[k].start)
  <2>1. j \in 1 .. Len(waiting) /\ (k \in 1 .. Len(waiting) \/ k = Len(waiting) + 1)
    BY <1>2, <1>6, <1>10
  <2>2. CASE k \in 1 .. Len(waiting)
    BY <1>2, <1>6, <1>10, <2>1, <2>2 DEF KeptInv, InOrder, g
  <2>3. CASE k = Len(waiting) + 1
    BY <1>3, <1>6, <1>8, <2>1, <2>3
  <2> QED
    BY <2>1, <2>2, <2>3
<1>11. ERXWRPT' = IF g + (Occupied + n) < Ring THEN g + (Occupied + n) ELSE g + (Occupied + n) - Ring
  <2>1. CASE ERXWRPT + n < Ring
    <3>1. ERXWRPT' = ERXWRPT + n
      BY <1>1, <1>3, <1>5, <2>1
    <3> QED
      BY <1>3, <1>4, <1>5, <2>1, <3>1
  <2>2. CASE ERXWRPT + n >= Ring
    <3>1. ERXWRPT' = ERXWRPT + n - Ring
      BY <1>1, <1>3, <1>5, <2>2
    <3> QED
      BY <1>3, <1>4, <1>5, <2>2, <3>1
  <2> QED
    BY <1>5, <2>1, <2>2
<1>12. Limit' = Limit
  BY <1>1 DEF Limit, g
<1> QED
  BY <1>1, <1>7, <1>9, <1>10, <1>11, <1>12 DEF InOrder

(* and it covers none of them. *)
LEMMA RoomIsOwn ==
  ASSUME KeptInv, ~overwritten, NEW n \in FrameSizes, Arrive(n), Occupied + n <= Limit
  PROVE  ~overwritten'
<1> DEFINE f == NewFrame(n)
           g == gNextPacketPtr
<1>1. overwritten' = \E k \in DOMAIN waiting : Used(waiting[k]) \cap Used(f) # {}
  BY DEF Arrive, NewFrame
<1>2. /\ DOMAIN waiting = 1 .. Len(waiting)
      /\ \A k \in 1 .. Len(waiting) : waiting[k] \in Frame
      /\ g \in Place
  BY FramesAreFrames
<1>3. /\ f \in Frame /\ Dist(g, f.start) = Occupied /\ End(g, f) = Occupied + n
      /\ Occupied + n <= Ring
  BY ArrivingFrame DEF NewFrame
<1>4. Occupied \in Nat /\ n \in Nat /\ Ring \in Nat /\ g \in Nat
  BY <1>2, OccupiedIs, RingSizes
<1> HIDE DEF f, g
<1>5. ASSUME NEW k \in DOMAIN waiting, NEW x \in Used(waiting[k]), x \in Used(f)
      PROVE  FALSE
  <2>1. g \in Place /\ waiting[k] \in Frame
    BY <1>2
  <2>2. End(g, waiting[k]) <= Occupied
    BY DEF KeptInv, InOrder, g
  <2>3. End(g, waiting[k]) \in Nat
    BY <2>1, DistAndSize
  <2>4. End(g, waiting[k]) <= Ring
    BY <1>3, <1>4, <2>2, <2>3
  <2>5. x \in Nat /\ Dist(g, x) < End(g, waiting[k])
    BY <2>1, <2>4, UsedIs
  <2>6. Occupied <= Dist(g, x)
    BY <1>3, <1>5, <2>1, UsedIs
  <2>7. Dist(g, x) \in Int
    BY <1>4, <2>5 DEF Dist
  <2> QED
    BY <1>4, <2>2, <2>3, <2>5, <2>6, <2>7
<1> QED
  BY <1>1, <1>5 DEF f

(* Whatever arrives keeps the invariant: either it finds room, or the read  *)
(* pointer is outside of the ring.                                          *)
LEMMA ArrivalKept ==
  ASSUME KeptInv, NEW n \in FrameSizes, Arrive(n)
  PROVE  KeptInv'
<1> DEFINE f == [start |-> ERXWRPT, next |-> (ERXWRPT + n) % Ring]
<1>1. /\ ~overwritten /\ n <= FreeSpace /\ UNCHANGED <<gNextPacketPtr, ERXRDPT>>
      /\ overwritten' = \E k \in DOMAIN waiting : Used(waiting[k]) \cap Used(f) # {}
      /\ overwritten' \in BOOLEAN
  BY DEF Arrive
<1>2. RingInv'
  BY ArriveStep DEF KeptInv
<1>3. ERXRDPT' \in IF gNextPacketPtr' > 0 THEN {gNextPacketPtr' - 1} ELSE {0, Memory - 1}
  BY <1>1 DEF KeptInv
<1>4. CASE gNextPacketPtr = 0 /\ ERXRDPT = Memory - 1
  <2>1. FramesKept'
    BY <1>1, <1>4 DEF FramesKept
  <2>2. ASSUME ~overwritten'
        PROVE  InOrder'
    <3>1. f \in Frame /\ f.start = ERXWRPT /\ f.next = (ERXWRPT + n) % Ring
      BY FramesAreFrames, NextPlace DEF Frame
    <3>2. ~(Occupied + n > Ring)
      BY <1>1, <1>4, <2>2, <3>1, TooLongShows
    <3>3. Limit = Ring
      BY <1>4, RingSizes DEF Limit
    <3>4. Occupied + n <= Limit
      BY <1>1, <3>2, <3>3, OccupiedIs, RingSizes
    <3> QED
      BY <1>1, <3>4, ArrivalInOrder
  <2> QED
    BY <1>1, <1>2, <1>3, <2>1, <2>2 DEF KeptInv
<1>5. CASE ~(gNextPacketPtr = 0 /\ ERXRDPT = Memory - 1)
  <2>1. Occupied + n <= Limit
    BY <1>1, <1>5, RoomIsFree
  <2>2. ~overwritten'
    BY <1>1, <2>1, RoomIsOwn
  <2>3. InOrder'
    BY <1>1, <2>1, ArrivalInOrder
  <2> QED
    BY <1>1, <1>2, <1>3, <2>2, <2>3 DEF KeptInv, FramesKept
<1> QED
  BY <1>4, <1>5

(* The driver takes a frame: every later one is nearer by the bytes of that. *)
LEMMA ReceptionKept ==
  ASSUME KeptInv, NEW valid \in BOOLEAN, enc28j60PacketReceive(valid)
  PROVE  KeptInv'
<1> DEFINE g == gNextPacketPtr
           h == waiting[1].next
<1>1. /\ ~overwritten /\ waiting # << >> /\ waiting' = Tail(waiting)
      /\ UNCHANGED <<ERXWRPT, overwritten>>
      /\ gNextPacketPtr' = Head(waiting).next /\ ERXRDPT' = Freed(Head(waiting).next)
  BY DEF enc28j60PacketReceive
<1>2. /\ waiting \in Seq(Frame) /\ Len(waiting) \in Nat /\ DOMAIN waiting = 1 .. Len(waiting)
      /\ \A k \in 1 .. Len(waiting) : waiting[k] \in Frame
      /\ g \in Place /\ ERXWRPT \in Place
      /\ waiting[1].start = g
  BY <1>1, FramesAreFrames
<1>3. /\ Len(waiting) >= 1 /\ Head(waiting) = waiting[1]
      /\ Len(waiting') = Len(waiting) - 1 /\ DOMAIN waiting' = 1 .. Len(waiting) - 1
      /\ \A k \in 1 .. Len(waiting) - 1 : waiting'[k] = waiting[k + 1]
      /\ (waiting' = << >> <=> Len(waiting) = 1)
  <2>1. waiting \in Seq(Frame) /\ waiting # << >>
    BY <1>1, <1>2
  <2>2. /\ Len(waiting) >= 1 /\ Head(waiting) = waiting[1] /\ Len(waiting) \in Nat
        /\ Tail(waiting) \in Seq(Frame) /\ Len(Tail(waiting)) = Len(waiting) - 1
        /\ \A k \in 1 .. Len(waiting) - 1 : Tail(waiting)[k] = waiting[k + 1]
    BY <2>1
  <2>3. Tail(waiting) = << >> <=> Len(Tail(waiting)) = 0
    BY <2>2, EmptySeq
  <2>4. Tail(waiting) = << >> <=> Len(waiting) = 1
    BY <2>2, <2>3
  <2>5. DOMAIN Tail(waiting) = 1 .. Len(waiting) - 1
    BY <2>2
  <2> QED
    BY <1>1, <2>2, <2>4, <2>5
<1>4. RingInv'
  BY ReceiveStep DEF KeptInv
<1>5. h \in Place /\ gNextPacketPtr' = h /\ ERXRDPT' = Freed(h)
  BY <1>1, <1>2, <1>3 DEF Frame
<1>6. /\ Ring \in Nat /\ g \in Nat /\ g < Ring /\ h \in Nat /\ h < Ring
      /\ Memory \in Nat /\ Memory > Ring /\ RXSTOP_INIT = Ring - 1
  BY <1>2, <1>5, RingSizes
<1>7. /\ h > 0 => ERXRDPT' = h - 1
      /\ h = 0 => ERXRDPT' = Memory - 1
  <2>1. ~(h - 1 > RXSTOP_INIT)
    BY <1>6
  <2>2. h > 0 => (h - 1) % Memory = h - 1
    BY <1>6
  <2>3. (-1) % Memory = Memory - 1
    BY <1>6
  <2> HIDE DEF h
  <2>4. h = 0 => (h - 1) % Memory = Memory - 1
    BY <2>3
  <2> QED
    BY <1>5, <2>1, <2>2, <2>4 DEF Freed
<1> DEFINE size == SizeOf(waiting[1])
<1>8. size >= 2 /\ size \in Nat /\ End(g, waiting[1]) = size /\ Dist(g, g) = 0
  <2>1. waiting[1] \in Frame
    BY <1>2, <1>3
  <2>2. SizeOf(waiting[1]) \in Nat /\ SizeOf(waiting[1]) >= 2
    <3>1. \A k \in DOMAIN waiting : SizeOf(waiting[k]) >= 2
      BY <1>1 DEF KeptInv, InOrder
    <3>2. 1 \in DOMAIN waiting /\ gNextPacketPtr \in Place
      BY <1>2, <1>3
    <3>3. SizeOf(waiting[1]) \in Nat
      BY <2>1, <3>2, DistAndSize
    <3> QED
      BY <3>1, <3>2, <3>3
  <2>3. Dist(g, g) = 0
    BY <1>6 DEF Dist
  <2> QED
    BY <1>2, <2>2, <2>3 DEF End
<1>9. h = IF g + size < Ring THEN g + size ELSE g + size - Ring
  BY <1>2, <1>6 DEF SizeOf
<1> HIDE DEF g, h, size
<1>10. ASSUME NEW k \in 2 .. Len(waiting)
       PROVE  /\ Dist(h, waiting[k].start) = Dist(g, waiting[k].start) - size
              /\ End(h, waiting[k]) = End(g, waiting[k]) - size
  <2>1. waiting[k] \in Frame /\ k \in DOMAIN waiting /\ 1 \in DOMAIN waiting /\ 1 < k
    BY <1>2, <1>3
  <2>2. waiting[k].start \in Nat /\ waiting[k].start < Ring
    BY <2>1, RingSizes DEF Frame
  <2>3. size <= Dist(g, waiting[k].start)
    BY <1>1, <1>8, <2>1 DEF KeptInv, InOrder, g
  <2>4. Dist(h, waiting[k].start) = Dist(g, waiting[k].start) - size
    <3> DEFINE s == waiting[k].start
    <3>1. s \in Nat /\ s < Ring /\ size <= Dist(g, s)
      BY <2>2, <2>3
    <3> HIDE DEF s
    <3>2. Dist(h, s) = Dist(g, s) - size
      <4>1. CASE s >= g
        BY <1>6, <1>8, <1>9, <3>1, <4>1 DEF Dist
      <4>2. CASE s < g
        BY <1>6, <1>8, <1>9, <3>1, <4>2 DEF Dist
      <4> QED
        BY <1>6, <3>1, <4>1, <4>2
    <3> QED
      BY <3>2 DEF s
  <2>5. SizeOf(waiting[k]) \in Nat /\ Dist(g, waiting[k].start) \in Nat
    BY <1>2, <2>1, DistAndSize
  <2> QED
    BY <1>8, <2>4, <2>5 DEF End
<1>11. Occupied \in Nat /\ Occupied <= Limit
  BY <1>1, OccupiedIs DEF KeptInv, InOrder
<1>12. Occupied' = Occupied - size
  <2>1. Occupied = End(g, waiting[Len(waiting)])
    BY <1>1 DEF Occupied, g
  <2>2. CASE Len(waiting) = 1
    BY <1>3, <1>8, <2>1, <2>2 DEF Occupied
  <2>3. CASE Len(waiting) # 1
    <3>1. Len(waiting) \in 2 .. Len(waiting) /\ Len(waiting) - 1 \in 1 .. Len(waiting) - 1
      BY <1>2, <1>3, <2>3
    <3>2. waiting'[Len(waiting')] = waiting[Len(waiting)]
      BY <1>2, <1>3, <3>1
    <3>3. Occupied' = End(h, waiting[Len(waiting)])
      BY <1>3, <1>5, <2>3, <3>2 DEF Occupied
    <3> QED
      BY <1>10, <2>1, <3>1, <3>3
  <2> QED
    BY <2>2, <2>3
<1>13. ASSUME NEW k \in DOMAIN waiting'
       PROVE  SizeOf(waiting'[k]) >= 2 /\ End(h, waiting'[k]) <= Occupied - size
  <2>1. /\ k \in 1 .. Len(waiting) - 1 /\ k + 1 \in 2 .. Len(waiting) /\ k + 1 \in DOMAIN waiting
        /\ waiting'[k] = waiting[k + 1] /\ waiting[k + 1] \in Frame
    BY <1>2, <1>3
  <2>2. SizeOf(waiting[k + 1]) >= 2 /\ End(g, waiting[k + 1]) <= Occupied
    BY <1>1, <2>1 DEF KeptInv, InOrder, g
  <2>3. End(g, waiting[k + 1]) \in Nat
    BY <1>2, <2>1, DistAndSize
  <2>4. End(h, waiting[k + 1]) = End(g, waiting[k + 1]) - size
    BY <1>10, <2>1
  <2> QED
    BY <1>8, <1>11, <2>1, <2>2, <2>3, <2>4
<1>14. ASSUME NEW j \in DOMAIN waiting', NEW k \in DOMAIN waiting', j < k
       PROVE  End(h, waiting'[j]) <= Dist(h, waiting'[k].start)
  <2>1. /\ j + 1 \in 2 .. Len(waiting) /\ j + 1 \in DOMAIN waiting
        /\ k + 1 \in 2 .. Len(waiting) /\ k + 1 \in DOMAIN waiting /\ j + 1 < k + 1
        /\ waiting'[j] = waiting[j + 1] /\ waiting'[k] = waiting[k + 1]
        /\ waiting[j + 1] \in Frame /\ waiting[k + 1] \in Frame
    BY <1>2, <1>3, <1>14
  <2>2. End(g, waiting[j + 1]) <= Dist(g, waiting[k + 1].start)
    BY <1>1, <2>1 DEF KeptInv, InOrder, g
  <2>3. End(g, waiting[j + 1]) \in Nat /\ Dist(g, waiting[k + 1].start) \in Nat
    BY <1>2, <2>1, DistAndSize
  <2>4. /\ End(h, waiting[j + 1]) = End(g, waiting[j + 1]) - size
        /\ Dist(h, waiting[k + 1].start) = Dist(g, waiting[k + 1].start) - size
    BY <1>10, <2>1
  <2> QED
    BY <1>8, <2>1, <2>2, <2>3, <2>4
<1>15. size <= Occupied
  <2>1. 1 \in DOMAIN waiting
    BY <1>2, <1>3
  <2> QED
    BY <1>1, <1>8, <2>1 DEF KeptInv, InOrder, g
<1>16. ERXWRPT = IF h + (Occupied - size) < Ring THEN h + (Occupied - size)
                 ELSE h + (Occupied - size) - Ring
  <2>1. ERXWRPT = IF g + Occupied < Ring THEN g + Occupied ELSE g + Occupied - Ring
    BY <1>1 DEF KeptInv, InOrder, g
  <2>2. Occupied <= Ring
    BY <1>1, OccupiedIs
  <2> QED
    BY <1>6, <1>8, <1>9, <1>11, <1>15, <2>1, <2>2
<1>17. Occupied - size <= Limit'
  <2>1. Limit' = IF h > 0 THEN Ring - 2 ELSE IF ERXRDPT' = 0 THEN Ring - 1 ELSE Ring
    BY <1>5 DEF Limit
  <2>2. Occupied <= Ring
    BY <1>1, OccupiedIs
  <2> QED
    BY <1>6, <1>8, <1>11, <2>1, <2>2
<1>18. InOrder'
  BY <1>1, <1>5, <1>12, <1>13, <1>14, <1>16, <1>17 DEF InOrder
<1>19. ERXRDPT' \in IF gNextPacketPtr' > 0 THEN {gNextPacketPtr' - 1} ELSE {0, Memory - 1}
  BY <1>5, <1>6, <1>7
<1> QED
  BY <1>1, <1>4, <1>18, <1>19 DEF KeptInv, FramesKept

(* No frame that waits is written over, unless the read pointer was set     *)
(* outside of the ring (enc28j60PacketReceive, when a frame ends with the last *)
(* byte), for rings and even frames of every size.                          *)
THEOREM WaitingFramesKept == RxSpec => []FramesKept
<1>1. RxInit => KeptInv
  <2> SUFFICES ASSUME RxInit PROVE KeptInv
    OBVIOUS
  <2>1. RingInv
    BY RingInitially
  <2>2. Occupied = 0 /\ Limit = Ring - 1 /\ DOMAIN waiting = {}
    BY DEF RxInit, Occupied, Limit
  <2>3. InOrder
    <3>1. Ring \in Nat /\ Ring >= 2
      BY RingSizes
    <3>2. gNextPacketPtr = 0 /\ ERXWRPT = 0
      BY DEF RxInit
    <3>3. ERXWRPT = IF gNextPacketPtr + Occupied < Ring THEN gNextPacketPtr + Occupied
                    ELSE gNextPacketPtr + Occupied - Ring
      BY <2>2, <3>1, <3>2
    <3>4. Occupied <= Limit
      BY <2>2, <3>1
    <3>5. \A k : k \notin DOMAIN waiting
      BY <2>2
    <3> QED
      BY <3>3, <3>4, <3>5, Zenon DEF InOrder
  <2>4. ERXRDPT \in IF gNextPacketPtr > 0 THEN {gNextPacketPtr - 1} ELSE {0, Memory - 1}
    BY DEF RxInit
  <2> QED
    BY <2>1, <2>3, <2>4 DEF RxInit, KeptInv, FramesKept
<1>2. KeptInv /\ [RxNext]_rxVars => KeptInv'
  <2> SUFFICES ASSUME KeptInv, [RxNext]_rxVars PROVE KeptInv'
    OBVIOUS
  <2>1. CASE enc28j60Init
    <3>1. /\ gNextPacketPtr' = 0 /\ ERXRDPT' = 0 /\ ERXWRPT' = 0 /\ waiting' = << >>
          /\ overwritten' = FALSE
      BY <2>1 DEF enc28j60Init
    <3>2. RingInv'
      BY RingStep DEF KeptInv
    <3>3. Occupied' = 0 /\ Limit' = Ring - 1 /\ DOMAIN waiting' = {}
      BY <3>1 DEF Occupied, Limit
    <3>4. InOrder'
      <4>1. Ring \in Nat /\ Ring >= 2
        BY RingSizes
      <4>2. ERXWRPT' = IF gNextPacketPtr' + Occupied' < Ring THEN gNextPacketPtr' + Occupied'
                       ELSE gNextPacketPtr' + Occupied' - Ring
        BY <3>1, <3>3, <4>1
      <4>3. Occupied' <= Limit'
        BY <3>3, <4>1
      <4>4. \A k : k \notin DOMAIN waiting'
        BY <3>3
      <4> QED
        BY <4>2, <4>3, <4>4, Zenon DEF InOrder
    <3>5. ERXRDPT' \in IF gNextPacketPtr' > 0 THEN {gNextPacketPtr' - 1} ELSE {0, Memory - 1}
      BY <3>1
    <3> QED
      BY <3>1, <3>2, <3>4, <3>5 DEF KeptInv, FramesKept
  <2>2. CASE UNCHANGED rxVars
    <3>1. RingInv'
      BY RingStep DEF KeptInv
    <3>2. InOrder => InOrder'
      BY <2>2 DEF rxVars, InOrder, Occupied, Limit
    <3> QED
      BY <2>2, <3>1, <3>2 DEF rxVars, KeptInv, FramesKept
  <2> QED
    BY <2>1, <2>2, ArrivalKept, ReceptionKept DEF RxNext
<1>3. KeptInv => FramesKept
  BY DEF KeptInv
<1> QED
  BY <1>1, <1>2, <1>3, PTL DEF RxSpec

-----------------------------------------------------------------------------
(* Before its start a call finds the bus as the call before it left it: free *)
(* as long as no wait was ended by the counter.  What is waited for belongs  *)
(* to an operation.                                                          *)
Free ==
  /\ op = "idle" => step = "none"
  /\ step \in {"none", "start"} /\ ~timedOut => ~held

(* A call that returns leaves the next one before its start, or nothing. *)
LEMMA ReturnRests ==
  ASSUME NEW code, Returns(code), op # "idle"
  PROVE  step' \in {"none", "start"} /\ (op' = "idle" => step' = "none")
<1>1. CASE op = "inputs" /\ Tail(transfers) # << >>
  BY <1>1 DEF Returns, Begins
<1>2. CASE op # "inputs" /\ Tail(transfers) # << >> /\ code = 0
  BY <1>2 DEF Returns, Begins
<1>3. CASE op = "inputs" /\ Tail(transfers) = << >>
  BY <1>3 DEF Returns, Begins
<1>4. CASE op # "inputs" /\ ~(Tail(transfers) # << >> /\ code = 0)
  BY <1>4 DEF Returns
<1>5. QED
  BY <1>1, <1>2, <1>3, <1>4

(* Every step keeps the bus free: a refusal waits for a stop, and only an    *)
(* ended wait returns without one.                                           *)
LEMMA FreeStep ==
  ASSUME Free, [WireNext]_wireVars
  PROVE  Free'
<1> USE DEF Free
<1>1. CASE StartSent
  <2>1. CASE held
    <3>1. timedOut' /\ op # "idle"
      BY <1>1, <2>1 DEF StartSent
    <3>2. QED
      BY <1>1, <2>1, <3>1, ReturnRests DEF StartSent
  <2>2. CASE ~held
    BY <1>1, <2>2 DEF StartSent, Waits
  <2>3. QED
    BY <2>1, <2>2
<1>2. ASSUME NEW answers \in BOOLEAN, SlaSent(answers)
      PROVE  Free'
  BY <1>2 DEF SlaSent, Waits, Refused
<1>3. ASSUME NEW answers \in BOOLEAN, ByteWritten(answers)
      PROVE  Free'
  BY <1>3 DEF ByteWritten, NextByte, Waits, Refused
<1>4. CASE ByteRead
  BY <1>4 DEF ByteRead, NextByte, Waits
<1>5. CASE StopSent
  BY <1>5, ReturnRests DEF StopSent
<1>6. CASE TimeOut
  <2>1. timedOut' /\ op # "idle"
    BY <1>6 DEF TimeOut
  <2>2. \E code : Returns(code)
    BY <1>6 DEF TimeOut
  <2>3. QED
    BY <2>1, <2>2, ReturnRests
<1>7. CASE UseExpander
  BY <1>7 DEF UseExpander, Begins, told
<1>8. CASE WireRestart
  BY <1>8 DEF WireRestart, Begins
<1>9. CASE SwitchOutputs \/ Jam \/ Level
  BY <1>9 DEF SwitchOutputs, Jam, Level, line, told
<1>10. CASE PowerFails
  BY <1>10 DEF PowerFails, line
<1>11. CASE UNCHANGED wireVars
  BY <1>11 DEF wireVars, line, told
<1>12. QED
  BY <1>1, <1>2, <1>3, <1>4, <1>5, <1>6, <1>7, <1>8, <1>9, <1>10, <1>11 DEF WireNext

(* Between two uses of the expander (twiWrite and twiRead of MCP23008.c, one *)
(* after the other) the bus is free unless a wait was ended by the counter.  *)
THEOREM BusIsReleased == WireSpec => []BusReleased
<1>1. WireInit => Free
  BY DEF WireInit, Free
<1>2. Free => BusReleased
  BY DEF Free, BusReleased
<1>3. QED
  BY <1>1, <1>2, FreeStep, PTL DEF WireSpec

(* The calls an operation makes: each in its turn, with what is left to do. *)
Calls ==
  \/ op = "init" /\ transfers \in {Setup, <<<<IPOL, 15>>>>}
  \/ op = "inputs" /\ transfers \in {<<<<GP>>, << >>>>, <<<< >>>>}
  \/ op = "outputs" /\ \E w \in Outputs : transfers = <<<<GP, w>>>>
  \/ op = "idle" /\ step = "none" /\ transfers = << >>

(* How far a transfer is: the chip has the number of the register before the *)
(* byte for it, and what a transfer that went well said when the stop is sent. *)
Progress ==
  /\ step \in {"start", "sla"} => count = Length(transfers[1])
  /\ step = "data" =>
       /\ count \in 1 .. Length(transfers[1])
       /\ Len(transfers[1]) = 2 /\ count = 1 => pointer = transfers[1][1]
  /\ step = "stop" /\ rc = 0 =>
       /\ Len(transfers[1]) = 2 =>
            chip[IF transfers[1][1] = GP THEN OLAT ELSE transfers[1][1]] = transfers[1][2]
       /\ Len(transfers[1]) = 1 => pointer = GP

(* What the code may rely on: the registers, a set up expander, and the number *)
(* of the register a read is for.                                           *)
Known ==
  /\ chip \in [0 .. OLAT -> 0 .. 255] /\ chip[OLAT] \in Outputs \cup {0}
  /\ pins \in Inputs /\ wanted \in Outputs
  /\ ready => chip[IPOL] = 15
  /\ ready /\ addressed /\ step # "stop" => pointer = GP
  /\ addressed => op = "inputs" /\ transfers = <<<< >>>>

(* A read that has come to its stop without an error has the inputs in the   *)
(* low bits of its byte.                                                     *)
ByteIs ==
  step = "stop" /\ rc = 0 /\ transfers = <<<< >>>> => ioBuffer % 16 = sampled

(* The inductive invariant. *)
ResultsInv == Calls /\ Progress /\ Known /\ ByteIs /\ ResultsTrue

(* The two writes of IOexpInit. *)
LEMMA SetupIs == Setup = <<<<IODIR, 15>>, <<IPOL, 15>>>> /\ Tail(Setup) = <<<<IPOL, 15>>>>
  BY DEF Setup

(* What follows a call that returns, whichever it is. *)
LEMMA ReturnIs ==
  ASSUME Calls, op # "idle", wanted \in Outputs, NEW code, Returns(code)
  PROVE  /\ Calls' /\ step' \in {"start", "none"}
         /\ step' = "start" => count' = Length(transfers'[1])
         /\ addressed' => /\ op = "inputs" /\ transfers = <<<<GP>>, << >>>> /\ code = 0
                          /\ op' = "inputs" /\ transfers' = <<<< >>>>
         /\ ready' /\ ~ready => op = "init" /\ transfers = <<<<IPOL, 15>>>> /\ code = 0
         /\ op # "outputs" => shown' = shown
         /\ op = "outputs" =>
              op' # "outputs" /\ shown' = IF code = 0 THEN {transfers[1][2]} ELSE Unknown
<1> DEFINE more == Tail(transfers)
           reads == op = "inputs" /\ more # << >>
<1>1. /\ addressed' = (reads /\ code = 0)
      /\ ready' = (ready \/ (op = "init" /\ more = << >> /\ code = 0))
      /\ shown' = IF op # "outputs" THEN shown
                  ELSE IF code = 0 THEN {transfers[1][2]} ELSE Unknown
  BY DEF Returns
<1>2. CASE op = "init" /\ transfers = Setup
  <2>1. /\ more = <<<<IPOL, 15>>>> /\ more # << >> /\ Head(more) = more[1]
    BY <1>2, SetupIs
  <2>2. CASE code = 0
    <3>1. op' = "init" /\ transfers' = more /\ step' = "start" /\ count' = Length(more[1])
      BY <1>2, <2>1, <2>2 DEF Returns, Begins
    <3> QED
      BY <1>1, <1>2, <2>1, <3>1 DEF Calls
  <2>3. CASE code # 0
    <3>1. op' = "idle" /\ transfers' = << >> /\ step' = "none"
      BY <1>2, <2>3 DEF Returns
    <3> QED
      BY <1>1, <1>2, <2>1, <3>1 DEF Calls
  <2> QED
    BY <2>2, <2>3
<1>3. CASE op = "init" /\ transfers = <<<<IPOL, 15>>>>
  <2>1. more = << >>
    BY <1>3
  <2>2. op' = "idle" /\ transfers' = << >> /\ step' = "none"
    BY <1>3, <2>1 DEF Returns
  <2> QED
    BY <1>1, <1>3, <2>1, <2>2 DEF Calls
<1>4. CASE op = "inputs" /\ transfers = <<<<GP>>, << >>>>
  <2>1. more = <<<< >>>> /\ more # << >> /\ Head(more) = more[1]
    BY <1>4
  <2>2. op' = "inputs" /\ transfers' = more /\ step' = "start" /\ count' = Length(more[1])
    BY <1>4, <2>1 DEF Returns, Begins
  <2> QED
    BY <1>1, <1>4, <2>1, <2>2 DEF Calls
<1>5. CASE op = "inputs" /\ transfers = <<<< >>>>
  <2>1. more = << >>
    BY <1>5
  <2> DEFINE next == <<<<GP, wanted>>>>
  <2>2. next[1] = Head(next)
    OBVIOUS
  <2>3. op' = "outputs" /\ transfers' = next /\ step' = "start" /\ count' = Length(Head(next))
    BY <1>5, <2>1 DEF Returns, Begins
  <2>4. Calls'
    BY <2>3 DEF Calls
  <2>5. count' = Length(transfers'[1])
    BY <2>2, <2>3
  <2> QED
    BY <1>1, <1>5, <2>1, <2>3, <2>4, <2>5
<1>6. CASE op = "outputs" /\ \E w \in Outputs : transfers = <<<<GP, w>>>>
  <2>1. more = << >>
    BY <1>6
  <2>2. op' = "idle" /\ transfers' = << >> /\ step' = "none"
    BY <1>6, <2>1 DEF Returns
  <2> QED
    BY <1>1, <1>6, <2>1, <2>2 DEF Calls
<1> QED
  BY <1>2, <1>3, <1>4, <1>5, <1>6 DEF Calls

(* The transfers there are. *)
LEMMA TransferIs ==
  ASSUME Calls, op # "idle"
  PROVE  \/ op = "init" /\ transfers[1] \in {<<IODIR, 15>>, <<IPOL, 15>>}
         \/ op = "inputs" /\ transfers[1] = <<GP>> /\ transfers # <<<< >>>>
         \/ op = "inputs" /\ transfers[1] = << >> /\ transfers = <<<< >>>>
         \/ op = "outputs" /\ \E w \in Outputs : transfers[1] = <<GP, w>>
<1>1. CASE op = "init" /\ transfers = Setup
  BY <1>1, SetupIs
<1>2. CASE op = "init" /\ transfers = <<<<IPOL, 15>>>>
  BY <1>2
<1>3. CASE op = "inputs" /\ transfers = <<<<GP>>, << >>>>
  BY <1>3
<1>4. CASE op = "inputs" /\ transfers = <<<< >>>>
  BY <1>4
<1>5. CASE op = "outputs" /\ \E w \in Outputs : transfers = <<<<GP, w>>>>
  BY <1>5
<1> QED
  BY <1>1, <1>2, <1>3, <1>4, <1>5 DEF Calls

(* A return reports success only of what the chip has taken. *)
LEMMA ReturnKeepsResults ==
  ASSUME ResultsInv, op # "idle", NEW code, Returns(code),
         code = 0 => step = "stop" /\ rc = 0,
         UNCHANGED <<chip, pointer, pins, wanted>>
  PROVE  ResultsInv'
<1>1. /\ Calls' /\ step' \in {"start", "none"}
      /\ step' = "start" => count' = Length(transfers'[1])
      /\ addressed' => /\ op = "inputs" /\ transfers = <<<<GP>>, << >>>> /\ code = 0
                       /\ op' = "inputs" /\ transfers' = <<<< >>>>
      /\ ready' /\ ~ready => op = "init" /\ transfers = <<<<IPOL, 15>>>> /\ code = 0
      /\ op # "outputs" => shown' = shown
      /\ op = "outputs" =>
           op' # "outputs" /\ shown' = IF code = 0 THEN {transfers[1][2]} ELSE Unknown
  BY ReturnIs DEF ResultsInv, Known
<1>2. Progress'
  BY <1>1 DEF Progress
<1>3. addressed' => pointer = GP
  <2> SUFFICES ASSUME addressed' PROVE pointer = GP
    OBVIOUS
  <2>1. transfers = <<<<GP>>, << >>>> /\ step = "stop" /\ rc = 0
    BY <1>1
  <2>2. Len(transfers[1]) = 1
    BY <2>1
  <2> QED
    BY <2>1, <2>2 DEF ResultsInv, Progress
<1>4. ready' => chip[IPOL] = 15
  <2>1. CASE ready
    BY <2>1 DEF ResultsInv, Known
  <2>2. CASE ~ready /\ ready'
    <3>1. transfers = <<<<IPOL, 15>>>> /\ step = "stop" /\ rc = 0
      BY <1>1, <2>2
    <3>2. transfers[1] = <<IPOL, 15>>
      BY <3>1
    <3>3. Len(transfers[1]) = 2 /\ transfers[1][1] = IPOL /\ transfers[1][2] = 15
      BY <3>2
    <3> QED
      BY <3>1, <3>3 DEF ResultsInv, Progress, IPOL, GP
  <2> QED
    BY <2>1, <2>2
<1>5. op' # "outputs" => shown' \subseteq {chip[OLAT]}
  <2>1. CASE op # "outputs"
    BY <1>1, <2>1 DEF ResultsInv, ResultsTrue
  <2>2. CASE op = "outputs" /\ code # 0
    BY <1>1, <2>2 DEF Unknown
  <2>3. CASE op = "outputs" /\ code = 0
    <3>1. PICK w \in Outputs : transfers[1] = <<GP, w>>
      BY <2>3, TransferIs DEF ResultsInv
    <3>2. Len(transfers[1]) = 2 /\ transfers[1][1] = GP
      BY <3>1
    <3>3. chip[OLAT] = transfers[1][2]
      BY <2>3, <3>2 DEF ResultsInv, Progress
    <3> QED
      BY <1>1, <2>3, <3>3
  <2> QED
    BY <2>1, <2>2, <2>3
<1>6. Known'
  BY <1>1, <1>3, <1>4 DEF ResultsInv, Known
<1>8. ByteIs'
  BY <1>1 DEF Returns, ByteIs
<1>9. sensed' = measured'
  <2>1. CASE op = "inputs" /\ Tail(transfers) = << >>
    <3>1. transfers = <<<< >>>>
      <4>1. transfers \in {<<<<GP>>, << >>>>, <<<< >>>>}
        BY <2>1 DEF ResultsInv, Calls
      <4>2. ASSUME transfers = <<<<GP>>, << >>>> PROVE FALSE
        <5>1. Len(transfers) = 2 /\ Len(Tail(transfers)) = 0
          BY <2>1, <4>2
        <5>2. Len(Tail(transfers)) = Len(transfers) - 1
          BY <4>2, <5>1
        <5> QED
          BY <5>1, <5>2
      <4> QED
        BY <4>1, <4>2
    <3>2. TakeInputs(IOexpReadInput(code))
      BY <2>1 DEF Returns
    <3>3. CASE code # 0
      BY <3>2, <3>3 DEF TakeInputs, IOexpReadInput, ResultsInv, ResultsTrue
    <3>4. CASE code = 0
      <4>1. ioBuffer % 16 = sampled
        BY <3>1, <3>4 DEF ResultsInv, ByteIs
      <4> QED
        BY <3>2, <3>4, <4>1 DEF TakeInputs, IOexpReadInput, ResultsInv, ResultsTrue
    <3> QED
      BY <3>3, <3>4
  <2>2. CASE ~(op = "inputs" /\ Tail(transfers) = << >>)
    BY <2>2 DEF Returns, ResultsInv, ResultsTrue
  <2> QED
    BY <2>1, <2>2
<1>7. ResultsTrue'
  BY <1>5, <1>9 DEF ResultsTrue
<1> QED
  BY <1>1, <1>2, <1>6, <1>7, <1>8 DEF ResultsInv

(* A byte the chip takes, or refuses. *)
LEMMA ByteKeepsResults ==
  ASSUME ResultsInv, NEW answers \in BOOLEAN, ByteWritten(answers)
  PROVE  ResultsInv'
<1>1. /\ step = "data" /\ transfers[1] # << >>
      /\ UNCHANGED <<pins, sensed, wanted, measured, op, transfers, addressed, ready, shown>>
      /\ UNCHANGED <<ioBuffer, sampled>>
  BY DEF ByteWritten, Writing, NextByte, Refused, Waits, BufferStays
<1>2. Calls'
  BY <1>1 DEF ResultsInv, Calls
<1>3. ~addressed
  BY <1>1 DEF ResultsInv, Known
<1>6. ByteIs'
  BY <1>1 DEF ResultsInv, ByteIs
<1>4. CASE ~answers
  <2>1. step' = "stop" /\ rc' = 8 /\ UNCHANGED <<chip, pointer>>
    BY <1>4 DEF ByteWritten, Refused, Waits, expander
  <2>2. Progress'
    BY <1>1, <1>3, <2>1 DEF Progress
  <2>3. Known'
    BY <1>1, <1>3, <2>1 DEF ResultsInv, Known
  <2>4. ResultsTrue'
    BY <1>1, <1>3, <2>1 DEF ResultsInv, ResultsTrue
  <2> QED
    BY <1>2, <1>6, <2>2, <2>3, <2>4 DEF ResultsInv
<1>5. CASE answers
  <2> DEFINE t == transfers[1]
             r == IF pointer = GP THEN OLAT ELSE pointer
  <2>1. /\ count \in 1 .. Length(t) /\ Length(t) = Len(t)
        /\ Len(t) = 2 /\ count = 1 => pointer = t[1]
    BY <1>1 DEF ResultsInv, Progress, Length
  <2>2. /\ IF count = Len(t) THEN pointer' = t[Len(t) - count + 1] /\ UNCHANGED chip
           ELSE chip' = [chip EXCEPT ![r] = t[Len(t) - count + 1]]
        /\ count' = count - 1 /\ step' = (IF count = 1 THEN "stop" ELSE "data") /\ rc' = 0
    BY <1>5 DEF ByteWritten, ChipTakes, NextByte, Waits, LastByte
  <2>4. CASE op = "inputs" /\ t = <<GP>>
    <3>1. Len(t) = 1 /\ t[1] = GP /\ count = 1
      BY <2>1, <2>4
    <3>2. step' = "stop" /\ pointer' = GP /\ UNCHANGED chip
      BY <2>2, <3>1
    <3>3. Progress'
      BY <1>1, <1>3, <3>1, <3>2 DEF Progress
    <3>4. Known'
      BY <1>1, <1>3, <3>1, <3>2 DEF ResultsInv, Known
    <3>5. ResultsTrue'
      BY <1>1, <1>3, <3>1, <3>2 DEF ResultsInv, ResultsTrue
    <3> QED
      BY <1>2, <1>6, <3>3, <3>4, <3>5 DEF ResultsInv
  <2>5. ASSUME NEW a \in {IODIR, IPOL, GP}, NEW v \in 0 .. 255, t = <<a, v>>,
               a = GP => op = "outputs" /\ v \in Outputs, a = IPOL => v = 15
        PROVE  ResultsInv'
    <3>1. Len(t) = 2 /\ t[1] = a /\ t[2] = v
      BY <2>5
    <3>2. CASE count = 2
      <4>1. step' = "data" /\ pointer' = a /\ UNCHANGED chip /\ count' = 1
        BY <2>2, <3>1, <3>2
      <4>2. Progress'
        BY <1>1, <1>3, <2>1, <3>1, <4>1 DEF Progress
      <4>3. Known'
        BY <1>1, <1>3, <2>1, <3>1, <4>1 DEF ResultsInv, Known
      <4>4. ResultsTrue'
        BY <1>1, <1>3, <2>1, <3>1, <4>1 DEF ResultsInv, ResultsTrue
      <4> QED
        BY <1>2, <1>6, <4>2, <4>3, <4>4 DEF ResultsInv
    <3>3. CASE count = 1
      <4>1. pointer = a /\ step' = "stop" /\ chip' = [chip EXCEPT ![r] = v]
        BY <2>1, <2>2, <3>1, <3>3
      <4>2. chip \in [0 .. OLAT -> 0 .. 255]
        BY DEF ResultsInv, Known
      <4>3. /\ r \in 0 .. OLAT /\ r = (IF a = GP THEN OLAT ELSE a)
            /\ (r = OLAT <=> a = GP) /\ (r = IPOL <=> a = IPOL)
        BY <4>1 DEF IODIR, IPOL, GP, OLAT
      <4>4. /\ chip' \in [0 .. OLAT -> 0 .. 255] /\ chip'[r] = v
            /\ \A q \in 0 .. OLAT : q # r => chip'[q] = chip[q]
        BY <4>1, <4>2, <4>3
      <4>5. OLAT \in 0 .. OLAT /\ IPOL \in 0 .. OLAT
        BY DEF OLAT, IPOL
      <4>6. /\ a = GP => chip'[OLAT] = v
            /\ a # GP => chip'[OLAT] = chip[OLAT]
            /\ a = IPOL => chip'[IPOL] = v
            /\ a # IPOL => chip'[IPOL] = chip[IPOL]
        BY <4>3, <4>4, <4>5
      <4>7. chip'[OLAT] \in Outputs \cup {0}
        BY <2>5, <4>6 DEF ResultsInv, Known
      <4>8. ready => chip'[IPOL] = 15
        BY <2>5, <4>6 DEF ResultsInv, Known
      <4>9. Progress'
        BY <1>1, <3>1, <4>1, <4>3, <4>4 DEF Progress
      <4>10. Known'
        BY <1>1, <1>3, <4>4, <4>7, <4>8 DEF ResultsInv, Known
      <4>11. ResultsTrue'
        BY <1>1, <2>5, <4>6 DEF ResultsInv, ResultsTrue
      <4> QED
        BY <1>2, <1>6, <4>9, <4>10, <4>11 DEF ResultsInv
    <3> QED
      BY <2>1, <3>1, <3>2, <3>3
  <2>6. op # "idle"
    BY <1>1 DEF ResultsInv, Calls
  <2>7. CASE op = "init" /\ t \in {<<IODIR, 15>>, <<IPOL, 15>>}
    <3>1. 15 \in 0 .. 255 /\ IODIR # GP /\ IPOL # GP
      BY DEF IODIR, IPOL, GP
    <3> QED
      BY <2>5, <2>7, <3>1
  <2>8. CASE op = "outputs" /\ \E w \in Outputs : t = <<GP, w>>
    <3>1. PICK w \in Outputs : t = <<GP, w>>
      BY <2>8
    <3>2. w \in 0 .. 255 /\ GP # IPOL
      BY TwoWireAssumption DEF GP, IPOL
    <3> QED
      BY <2>5, <2>8, <3>1, <3>2
  <2> QED
    BY <1>1, <2>4, <2>6, <2>7, <2>8, TransferIs DEF ResultsInv
<1> QED
  BY <1>4, <1>5

(* A byte that is read: the low bits of the port are the inputs. *)
LEMMA ReadKeepsResults ==
  ASSUME ResultsInv, ByteRead
  PROVE  ResultsInv'
<1>1. /\ step = "data" /\ transfers[1] = << >>
      /\ ioBuffer' = IF pointer = GP THEN Port ELSE chip[pointer]
      /\ sampled' = IF addressed /\ ready THEN 15 - pins ELSE ioBuffer' % 16
      /\ UNCHANGED <<chip, pins, wanted, op, transfers, addressed, ready, shown, sensed, measured>>
      /\ count' = count - 1 /\ step' = IF count = 1 THEN "stop" ELSE "data"
  BY DEF ByteRead, Writing, NextByte, LastByte, Waits
<1>2. Calls'
  BY <1>1 DEF ResultsInv, Calls
<1>3. Len(transfers[1]) = 0 /\ count = 1 /\ step' = "stop"
  BY <1>1 DEF ResultsInv, Progress, Length
<1>4. Progress'
  BY <1>1, <1>3 DEF Progress
<1>5. Known'
  BY <1>1, <1>3 DEF ResultsInv, Known
<1>6. ioBuffer' % 16 = sampled'
  <2> DEFINE high == IF chip[IODIR] = AllInputs THEN 0 ELSE chip[OLAT]
             low == IF chip[IPOL] = 0 THEN pins ELSE 15 - pins
  <2>1. pins \in 0 .. 15 /\ low \in 0 .. 15
    BY TwoWireAssumption DEF ResultsInv, Known
  <2>2. \E n \in 0 .. 15 : high = 16 * n
    <3>1. chip[OLAT] \in Outputs \cup {0}
      BY DEF ResultsInv, Known
    <3> QED
      BY <3>1, TwoWireAssumption
  <2>3. Port = high + low
    BY DEF Port
  <2>4. addressed /\ ready => pointer = GP /\ low = 15 - pins
    BY <1>1 DEF ResultsInv, Known
  <2> HIDE DEF high, low
  <2>5. Port % 16 = low
    BY <2>1, <2>2, <2>3
  <2> QED
    BY <1>1, <2>4, <2>5
<1>7. ByteIs'
  BY <1>6 DEF ByteIs
<1>8. ResultsTrue'
  BY <1>1 DEF ResultsInv, ResultsTrue
<1> QED
  BY <1>2, <1>4, <1>5, <1>7, <1>8 DEF ResultsInv

(* Every step of twi.c, MCP23008.c, the bus and the chip. *)
LEMMA StepKeepsResults ==
  ASSUME ResultsInv, [WireNext]_wireVars
  PROVE  ResultsInv'
<1>1. CASE StartSent
  <2>1. op # "idle" /\ UNCHANGED <<chip, pointer, pins, wanted>>
    BY <1>1 DEF StartSent, expander, ResultsInv, Calls
  <2>2. CASE held
    BY <1>1, <2>1, <2>2, ReturnKeepsResults DEF StartSent
  <2>3. CASE ~held
    <3>1. step = "start" /\ step' = "sla" /\ UNCHANGED <<op, transfers, addressed, ready, shown, count>>
          /\ UNCHANGED <<sensed, measured, ioBuffer, sampled>>
      BY <1>1, <2>3 DEF StartSent, Waits, BufferStays
    <3>2. Calls' /\ Progress' /\ ByteIs'
      BY <2>1, <3>1 DEF ResultsInv, Calls, Progress, ByteIs
    <3>3. Known'
      BY <2>1, <3>1 DEF ResultsInv, Known
    <3> QED
      BY <2>1, <3>1, <3>2, <3>3 DEF ResultsInv, ResultsTrue
  <2> QED
    BY <2>2, <2>3
<1>2. ASSUME NEW answers \in BOOLEAN, SlaSent(answers)
      PROVE  ResultsInv'
  <2>1. /\ step = "sla" /\ UNCHANGED <<op, transfers, addressed, ready, shown, count>>
        /\ UNCHANGED <<chip, pointer, pins, sensed, wanted, measured, ioBuffer, sampled>>
        /\ step' = "data" \/ (step' = "stop" /\ rc' \in {5, 6})
    BY <1>2 DEF SlaSent, Refused, Waits, BufferStays, expander
  <2>2. Calls'
    BY <2>1 DEF ResultsInv, Calls
  <2>3. Progress'
    <3>1. CASE step' = "stop"
      BY <2>1, <3>1 DEF Progress
    <3>2. CASE step' = "data"
      <4>1. count = Length(transfers[1])
        BY <2>1 DEF ResultsInv, Progress
      <4>2. count \in 1 .. Length(transfers[1]) /\ ~(Len(transfers[1]) = 2 /\ count = 1)
        <5>1. op # "idle"
          BY <2>1 DEF ResultsInv, Calls
        <5> QED
          BY <4>1, <5>1, TransferIs DEF ResultsInv, Length
      <4> QED
        BY <2>1, <3>2, <4>2 DEF Progress
    <3> QED
      BY <2>1, <3>1, <3>2
  <2>4. Known'
    BY <2>1 DEF ResultsInv, Known
  <2>5. ByteIs'
    BY <2>1 DEF ResultsInv, ByteIs
  <2> QED
    BY <2>1, <2>2, <2>3, <2>4, <2>5 DEF ResultsInv, ResultsTrue
<1>3. CASE StopSent
  <2>1. /\ op # "idle" /\ UNCHANGED <<chip, pointer, pins, wanted>>
        /\ Returns(rc) /\ step = "stop"
    BY <1>3 DEF StopSent, expander, ResultsInv, Calls
  <2> QED
    BY <2>1, ReturnKeepsResults
<1>4. CASE TimeOut
  <2>1. /\ op # "idle" /\ UNCHANGED <<chip, pointer, pins, wanted>>
    BY <1>4 DEF TimeOut, expander, ResultsInv, Calls
  <2> DEFINE code == CASE step = "start" -> 2
                       [] step = "sla" -> 4
                       [] step = "data" -> IF Writing THEN 7 ELSE 9
                       [] OTHER -> IF rc = 0 THEN 1 ELSE rc
  <2>2. code # 0 /\ Returns(code)
    BY <1>4 DEF TimeOut
  <2> HIDE DEF code
  <2> QED
    BY <2>1, <2>2, ReturnKeepsResults
<1>5. CASE UseExpander
  <2> DEFINE list == <<<<GP>>, << >>>>
  <2>1. /\ op = "idle" /\ op' = "inputs" /\ transfers' = list /\ step' = "start"
        /\ count' = Length(Head(list)) /\ UNCHANGED <<chip, pointer, pins, sensed, wanted>>
        /\ UNCHANGED <<ready, addressed, shown, measured, ioBuffer, sampled>>
    BY <1>5 DEF UseExpander, Begins, expander, told
  <2>2. Head(list) = list[1]
    OBVIOUS
  <2>3. Calls' /\ Progress'
    BY <2>1, <2>2 DEF Calls, Progress
  <2>4. ~addressed
    BY <2>1 DEF ResultsInv, Known
  <2> QED
    BY <2>1, <2>3, <2>4 DEF ResultsInv, Known, ByteIs, ResultsTrue
<1>6. CASE WireRestart
  <2>1. /\ op' = "init" /\ transfers' = Setup /\ step' = "start"
        /\ count' = Length(Head(Setup)) /\ UNCHANGED <<chip, pointer, pins, wanted>>
        /\ ~ready' /\ ~addressed' /\ shown' = Unknown /\ measured' = 0 /\ sensed' = 0
        /\ sampled' = NoReading
    BY <1>6 DEF WireRestart, Begins, expander
  <2>2. Head(Setup) = Setup[1]
    BY SetupIs
  <2>3. Calls' /\ Progress'
    BY <2>1, <2>2 DEF Calls, Progress
  <2> QED
    BY <2>1, <2>3 DEF ResultsInv, Known, ByteIs, ResultsTrue, Unknown
<1>7. CASE PowerFails
  <2>1. /\ step \in {"none", "start"} /\ chip' = Unpowered /\ pointer' = 0
        /\ ~ready' /\ shown' = Unknown
        /\ UNCHANGED <<op, transfers, step, count, rc, pins, sensed, wanted, addressed, measured>>
        /\ UNCHANGED <<ioBuffer, sampled>>
    BY <1>7 DEF PowerFails, line
  <2>2. /\ Unpowered \in [0 .. OLAT -> 0 .. 255] /\ Unpowered[OLAT] = 0
    BY DEF Unpowered, OLAT, IODIR, AllInputs
  <2>3. Calls' /\ Progress'
    BY <2>1 DEF ResultsInv, Calls, Progress
  <2> QED
    BY <2>1, <2>2, <2>3 DEF ResultsInv, Known, ByteIs, ResultsTrue, Unknown
<1>8. CASE SwitchOutputs
  <2>1. /\ wanted' \in Outputs
        /\ UNCHANGED <<op, transfers, step, count, rc, ioBuffer, chip, pointer, sensed>>
        /\ UNCHANGED <<ready, addressed, shown, sampled, measured, pins>>
    BY <1>8 DEF SwitchOutputs, line, expander, told
  <2>2. Calls' /\ ByteIs' /\ ResultsTrue'
    BY <2>1 DEF ResultsInv, Calls, ByteIs, ResultsTrue
  <2>3. Progress'
    BY <2>1 DEF ResultsInv, Progress
  <2>4. Known'
    BY <2>1 DEF ResultsInv, Known
  <2> QED
    BY <2>2, <2>3, <2>4 DEF ResultsInv
<1>9. CASE Level
  <2>1. /\ pins' \in Inputs
        /\ UNCHANGED <<op, transfers, step, count, rc, ioBuffer, chip, pointer, sensed>>
        /\ UNCHANGED <<ready, addressed, shown, sampled, measured, wanted>>
    BY <1>9 DEF Level, line, expander, told
  <2>2. Calls' /\ ByteIs' /\ ResultsTrue'
    BY <2>1 DEF ResultsInv, Calls, ByteIs, ResultsTrue
  <2>3. Progress'
    BY <2>1 DEF ResultsInv, Progress
  <2>4. Known'
    BY <2>1 DEF ResultsInv, Known
  <2> QED
    BY <2>2, <2>3, <2>4 DEF ResultsInv
<1>10. CASE Jam \/ UNCHANGED wireVars
  <2>1. /\ UNCHANGED <<op, transfers, step, count, rc, ioBuffer, chip, pointer, sensed>>
        /\ UNCHANGED <<ready, addressed, shown, sampled, measured, pins, wanted>>
    BY <1>10 DEF Jam, wireVars, line, expander, told
  <2>2. Calls' /\ ByteIs' /\ ResultsTrue'
    BY <2>1 DEF ResultsInv, Calls, ByteIs, ResultsTrue
  <2>3. Progress'
    BY <2>1 DEF ResultsInv, Progress
  <2>4. Known'
    BY <2>1 DEF ResultsInv, Known
  <2> QED
    BY <2>2, <2>3, <2>4 DEF ResultsInv
<1> QED
  BY <1>1, <1>2, <1>3, <1>4, <1>5, <1>6, <1>7, <1>8, <1>9, <1>10,
     ByteKeepsResults, ReadKeepsResults DEF WireNext

(* What twi.c reports of the outputs is what the expander has, and what is kept *)
(* of its inputs is what they were (twiWrite, twiRead and IOexpReadInput), for *)
(* all inputs and outputs and however the bus and its power fail.           *)
THEOREM ReportsAreTrue == WireSpec => []ResultsTrue
<1>1. WireInit => ResultsInv
  <2> SUFFICES ASSUME WireInit PROVE ResultsInv
    OBVIOUS
  <2>1. Calls
    BY DEF WireInit, Calls
  <2>2. Progress
    <3>1. Length(transfers[1]) = 2
      BY SetupIs DEF WireInit, Length
    <3> QED
      BY <3>1 DEF WireInit, Progress
  <2>3. Known
    BY DEF WireInit, Known, Unpowered, OLAT, IODIR, AllInputs
  <2>4. ResultsTrue
    BY DEF WireInit, ResultsTrue, Unknown
  <2>5. ByteIs
    BY DEF WireInit, ByteIs
  <2> QED
    BY <2>1, <2>2, <2>3, <2>4, <2>5 DEF ResultsInv
<1>2. ResultsInv => ResultsTrue
  BY DEF ResultsInv
<1> QED
  BY <1>1, <1>2, StepKeepsResults, PTL DEF WireSpec

-----------------------------------------------------------------------------
(* The sensor table.  Induction over the rounds of its loops is done with a  *)
(* least counterexample.                                                     *)
LEMMA LeastNumber ==
  ASSUME NEW T, T \subseteq Nat, T # {}
  PROVE  \E m \in T : \A k \in T : m <= k
<1>1. PICK m \in T : \A y \in T : <<y, m>> \notin OpToRel(<, Nat)
  BY NatLessThanWellFounded, WFMin, Zenon
<1>2. ASSUME NEW k \in T PROVE ~(k < m)
  BY <1>1, <1>2, Zenon DEF OpToRel
<1>3. ASSUME NEW k \in T PROVE m <= k
  BY <1>2, <1>3
<1>4. QED
  BY <1>3

(* The loops of the module, by the name of what their body does.  x holds    *)
(* what is the same in every round.                                          *)
Body(loop, x, t, n) ==
  CASE loop = "bit" -> AddressBit(t, n - 1, x.diff, x.id)
    [] loop = "pass" -> NextPass(x.devices, t)
    [] loop = "sensor" -> ReadSensor(t, x.scan[n], x.bad)
    [] loop = "bus" -> ReadBus(t, n, x.bad)
    [] loop = "alarm" -> CheckAlarm(t, n, x.behind)
    [] loop = "list" -> ListAlarm(t, n)

Rounds(f, loop, x, start, N) ==
  f = [n \in 0 .. N |-> IF n = 0 THEN start ELSE Body(loop, x, f[n - 1], n)]

(* There is such a list, for any number of rounds. *)
LEMMA RoundsExist ==
  ASSUME NEW loop, NEW x, NEW start, NEW N \in Nat
  PROVE  \E f : Rounds(f, loop, x, start, N)
<1> DEFINE T == {m \in Nat : ~ \E f : Rounds(f, loop, x, start, m)}
<1>1. SUFFICES ASSUME T # {} PROVE FALSE
  OBVIOUS
<1>2. PICK m \in T : \A k \in T : m <= k
  BY <1>1, LeastNumber, Zenon
<1>3. CASE m = 0
  <2> DEFINE f == [k \in 0 .. 0 |-> start]
  <2>1. Rounds(f, loop, x, start, 0)
    BY DEF Rounds
  <2> QED
    BY <1>2, <1>3, <2>1
<1>4. CASE m # 0
  <2>1. m \in Nat /\ m - 1 \in Nat /\ m - 1 \notin T
    BY <1>2, <1>4
  <2>2. PICK f : Rounds(f, loop, x, start, m - 1)
    BY <2>1
  <2> DEFINE g == [k \in 0 .. m |-> IF k <= m - 1 THEN f[k] ELSE Body(loop, x, f[m - 1], m)]
  <2>3. \A k \in 0 .. m : g[k] = IF k = 0 THEN start ELSE Body(loop, x, g[k - 1], k)
    <3> SUFFICES ASSUME NEW k \in 0 .. m
                 PROVE  g[k] = IF k = 0 THEN start ELSE Body(loop, x, g[k - 1], k)
      OBVIOUS
    <3>1. \A j \in 0 .. m - 1 : f[j] = IF j = 0 THEN start ELSE Body(loop, x, f[j - 1], j)
      BY <2>1, <2>2 DEF Rounds
    <3>2. CASE k = m
      BY <1>4, <2>1, <3>2
    <3>3. CASE k = 0
      BY <2>1, <3>1, <3>3
    <3>4. CASE k # 0 /\ k # m
      <4>1. k \in 0 .. m - 1 /\ k - 1 \in 0 .. m - 1 /\ k \in 0 .. m /\ k - 1 \in 0 .. m
        BY <2>1, <3>4
      <4>2. g[k] = f[k] /\ g[k - 1] = f[k - 1]
        BY <4>1
      <4> QED
        BY <3>1, <3>4, <4>1, <4>2
    <3> QED
      BY <3>2, <3>3, <3>4
  <2>4. Rounds(g, loop, x, start, m)
    BY <2>3 DEF Rounds
  <2> QED
    BY <1>2, <2>4
<1> QED
  BY <1>3, <1>4

-----------------------------------------------------------------------------
(* The search of a bus.  Numbers and their bits first. *)
Doubles(f, n) == f = [m \in 0 .. n |-> IF m = 0 THEN 1 ELSE 2 * f[m - 1]]

LEMMA DoublesExist ==
  ASSUME NEW n \in Nat
  PROVE  \E f : Doubles(f, n)
<1> DEFINE T == {m \in Nat : ~ \E f : Doubles(f, m)}
<1>1. SUFFICES ASSUME T # {} PROVE FALSE
  OBVIOUS
<1>2. PICK m \in T : \A k \in T : m <= k
  BY <1>1, LeastNumber, Zenon
<1>3. CASE m = 0
  <2> DEFINE f == [k \in 0 .. 0 |-> 1]
  <2>1. Doubles(f, 0)
    BY DEF Doubles
  <2> QED
    BY <1>2, <1>3, <2>1
<1>4. CASE m # 0
  <2>1. m \in Nat /\ m - 1 \in Nat /\ m - 1 \notin T
    BY <1>2, <1>4
  <2>2. PICK f : Doubles(f, m - 1)
    BY <2>1
  <2> DEFINE g == [k \in 0 .. m |-> IF k <= m - 1 THEN f[k] ELSE 2 * f[m - 1]]
  <2>3. \A k \in 0 .. m : g[k] = IF k = 0 THEN 1 ELSE 2 * g[k - 1]
    <3> SUFFICES ASSUME NEW k \in 0 .. m PROVE g[k] = IF k = 0 THEN 1 ELSE 2 * g[k - 1]
      OBVIOUS
    <3>1. \A j \in 0 .. m - 1 : f[j] = IF j = 0 THEN 1 ELSE 2 * f[j - 1]
      BY <2>1, <2>2 DEF Doubles
    <3>2. CASE k = m
      BY <1>4, <2>1, <3>2
    <3>3. CASE k = 0
      BY <2>1, <3>1, <3>3
    <3>4. CASE k # 0 /\ k # m
      <4>1. k \in 0 .. m - 1 /\ k - 1 \in 0 .. m - 1 /\ k \in 0 .. m /\ k - 1 \in 0 .. m
        BY <2>1, <3>4
      <4>2. g[k] = f[k] /\ g[k - 1] = f[k - 1]
        BY <4>1
      <4> QED
        BY <3>1, <3>4, <4>1, <4>2
    <3> QED
      BY <3>2, <3>3, <3>4
  <2>4. Doubles(g, m)
    BY <2>3 DEF Doubles
  <2> QED
    BY <1>2, <2>4
<1> QED
  BY <1>3, <1>4

LEMMA PowerDoubles == Doubles(Power, OW_SEARCH_FIRST)
<1> DEFINE F == CHOOSE f : Doubles(f, OW_SEARCH_FIRST)
<1>1. Doubles(F, OW_SEARCH_FIRST)
  <2>1. OW_SEARCH_FIRST \in Nat
    BY DEF OW_SEARCH_FIRST
  <2> QED
    BY <2>1, DoublesExist, Zenon
<1>2. Power = F
  BY Zenon DEF Power, Doubles
<1> QED
  BY <1>1, <1>2, Zenon

(* The numbers of the bits that have a weight, and the weight of the next. *)
BitNo == 0 .. OW_SEARCH_FIRST - 1

LEMMA PowerIs ==
  ASSUME NEW n \in BitNo
  PROVE  /\ Power[0] = 1
         /\ Power[n] \in Nat \ {0} /\ Power[n + 1] = 2 * Power[n]
<1> DEFINE T == {m \in 0 .. 255 : Power[m] \notin Nat \ {0}}
<1>1. \A m \in 0 .. 255 : Power[m] = IF m = 0 THEN 1 ELSE 2 * Power[m - 1]
  BY PowerDoubles DEF Doubles, OW_SEARCH_FIRST
<1>2. T = {}
  <2> SUFFICES ASSUME T # {} PROVE FALSE
    OBVIOUS
  <2>1. PICK m \in T : \A j \in T : m <= j
    <3>1. T \subseteq Nat
      OBVIOUS
    <3> HIDE DEF T
    <3> QED
      BY <3>1, LeastNumber
  <2>2. m # 0
    BY <1>1, <2>1
  <2>3. m \in 0 .. 255 /\ m - 1 \in 0 .. 255 /\ m - 1 \notin T /\ m \in T
    BY <2>1, <2>2
  <2>4. Power[m - 1] \in Nat \ {0} /\ Power[m] = 2 * Power[m - 1]
    BY <1>1, <2>2, <2>3
  <2> QED
    BY <2>3, <2>4
<1>3. n \in 0 .. 255 /\ n + 1 \in 0 .. 255 /\ n + 1 # 0 /\ (n + 1) - 1 = n
  BY DEF BitNo, OW_SEARCH_FIRST
<1> QED
  BY <1>1, <1>2, <1>3

(* Division with remainder. *)
LEMMA DivMod ==
  ASSUME NEW a \in Nat, NEW d \in Nat \ {0}
  PROVE  a \div d \in Nat /\ a % d \in Nat /\ a % d < d /\ a = d * (a \div d) + (a % d)
<1>1. a \div d \in Int /\ a % d \in Int
  OBVIOUS
<1>2. a \div d >= 0
  OBVIOUS
<1>3. 0 <= a % d /\ a % d < d
  OBVIOUS
<1>4. a = d * (a \div d) + (a % d)
  OBVIOUS
<1> QED
  BY <1>1, <1>2, <1>3, <1>4

(* A number of two digits is less than one whose higher digit is more. *)
LEMMA LessDigit ==
  ASSUME NEW a \in Nat, NEW d \in Nat \ {0}, a < d, NEW e \in Nat, NEW m \in Nat, e < m
  PROVE  a + d * e \in Nat /\ a + d * e < d * m
<1>1. d * e + d <= d * m
  <2>1. d * (e + 1) <= d * m
    BY SMT
  <2> QED
    BY <2>1
<1> QED
  BY <1>1

(* There is one quotient and one remainder. *)
LEMMA DivModIs ==
  ASSUME NEW d \in Nat \ {0}, NEW q \in Nat, NEW r \in Nat, r < d
  PROVE  (d * q + r) \div d = q /\ (d * q + r) % d = r
<1> DEFINE a == d * q + r
           p == a \div d
           s == a % d
<1>1. a \in Nat /\ p \in Nat /\ s \in Nat /\ s < d /\ d * q + r = d * p + s
  BY DivMod
<1> HIDE DEF p, s
<1>2. ~(p < q)
  <2> SUFFICES ASSUME p < q PROVE FALSE
    OBVIOUS
  <2>1. s + d * p < d * q
    BY <1>1, LessDigit
  <2> QED
    BY <1>1, <2>1
<1>3. ~(q < p)
  <2> SUFFICES ASSUME q < p PROVE FALSE
    OBVIOUS
  <2>1. r + d * q < d * p
    BY <1>1, LessDigit
  <2> QED
    BY <1>1, <2>1
<1>4. p = q
  BY <1>1, <1>2, <1>3
<1>5. s = r
  BY <1>1, <1>4
<1> QED
  BY <1>4, <1>5 DEF p, s

(* A bit, and the number up to it. *)
LEMMA BitIs ==
  ASSUME NEW c \in Nat, NEW k \in BitNo
  PROVE  /\ Bit(c, k) \in {0, 1}
         /\ c % Power[k + 1] = (c % Power[k]) + Bit(c, k) * Power[k]
<1> DEFINE p == Power[k]
           q == c \div p
           r == c % p
           h == q \div 2
           b == q % 2
<1>1. p \in Nat \ {0} /\ Power[k + 1] = 2 * p
  BY PowerIs
<1> HIDE DEF p
<1>2. q \in Nat /\ r \in Nat /\ r < p /\ c = p * q + r
  BY <1>1, DivMod
<1> HIDE DEF q, r
<1>3. h \in Nat /\ b \in {0, 1} /\ q = 2 * h + b
  BY <1>2
<1> HIDE DEF h, b
<1>4. p * q = (2 * p) * h + p * b
  <2>1. p * (2 * h + b) = p * (2 * h) + p * b
    BY <1>1, <1>3
  <2>2. p * (2 * h) = (2 * p) * h
    BY <1>1, <1>3
  <2> QED
    BY <1>3, <2>1, <2>2
<1>5. r + p * b \in Nat /\ r + p * b < 2 * p /\ p * b = b * p /\ 2 * p \in Nat \ {0}
  BY <1>1, <1>2, <1>3
<1>6. c = (2 * p) * h + (r + p * b)
  <2>1. (2 * p) * h \in Nat /\ p * b \in Nat
    BY <1>1, <1>3
  <2> QED
    BY <1>2, <1>4, <2>1
<1>7. c % (2 * p) = r + p * b
  BY <1>3, <1>5, <1>6, DivModIs
<1>8. Bit(c, k) = b
  BY Zenon DEF Bit, b, q, p
<1> QED
  BY <1>1, <1>3, <1>5, <1>7, <1>8 DEF r, p

(* Codes that agree in their lowest bits. *)
Agree(c, d, k) == \A j \in 0 .. k - 1 : Bit(c, j) = Bit(d, j)

LEMMA AgreeIs ==
  ASSUME NEW c, NEW d, NEW k \in Nat
  PROVE  /\ Agree(c, c, k) /\ Agree(c, d, 0)
         /\ Agree(c, d, k) => Agree(d, c, k)
         /\ \A e : Agree(c, d, k) /\ Agree(d, e, k) => Agree(c, e, k)
         /\ \A j \in 0 .. k : Agree(c, d, k) => Agree(c, d, j)
         /\ Agree(c, d, k + 1) <=> Agree(c, d, k) /\ Bit(c, k) = Bit(d, k)
<1>1. 0 .. 0 - 1 = {} /\ 0 .. (k + 1) - 1 = (0 .. k - 1) \cup {k}
  OBVIOUS
<1>2. \A j \in 0 .. k : 0 .. j - 1 \subseteq 0 .. k - 1
  OBVIOUS
<1>3. Agree(c, c, k) /\ Agree(c, d, 0)
  BY <1>1 DEF Agree
<1>4. Agree(c, d, k) => Agree(d, c, k)
  BY DEF Agree
<1>5. \A e : Agree(c, d, k) /\ Agree(d, e, k) => Agree(c, e, k)
  BY DEF Agree
<1>6. \A j \in 0 .. k : Agree(c, d, k) => Agree(c, d, j)
  BY <1>2 DEF Agree
<1>7. Agree(c, d, k + 1) <=> Agree(c, d, k) /\ Bit(c, k) = Bit(d, k)
  BY <1>1 DEF Agree
<1> QED
  BY <1>3, <1>4, <1>5, <1>6, <1>7

LEMMA SameRest ==
  ASSUME NEW c \in Nat, NEW d \in Nat, NEW n \in BitNo, Agree(c, d, n)
  PROVE  c % Power[n] = d % Power[n]
<1> DEFINE Good(k) == c % Power[k] = d % Power[k]
           T == {k \in 0 .. n : ~Good(k)}
<1>0. n \in Nat
  BY DEF BitNo
<1>1. Good(0)
  <2>1. Power[0] = 1
    BY PowerIs, Zenon
  <2>2. c % 1 = 0 /\ d % 1 = 0
    OBVIOUS
  <2> QED
    BY <2>1, <2>2
<1>2. ASSUME NEW k \in 0 .. n - 1, Good(k) PROVE Good(k + 1)
  <2>1. k \in BitNo /\ Bit(c, k) = Bit(d, k)
    BY DEF Agree, BitNo, OW_SEARCH_FIRST
  <2>2. /\ c % Power[k + 1] = (c % Power[k]) + Bit(c, k) * Power[k]
        /\ d % Power[k + 1] = (d % Power[k]) + Bit(d, k) * Power[k]
    BY <2>1, BitIs
  <2> QED
    BY <1>2, <2>1, <2>2, Zenon
<1> HIDE DEF Good
<1>3. T = {}
  <2> SUFFICES ASSUME T # {} PROVE FALSE
    OBVIOUS
  <2>1. PICK m \in T : \A k \in T : m <= k
    <3>1. T \subseteq Nat
      OBVIOUS
    <3> HIDE DEF T
    <3> QED
      BY <3>1, LeastNumber
  <2>2. m # 0 /\ m \in 0 .. n /\ ~Good(m)
    BY <1>1, <2>1
  <2>3. m - 1 \in 0 .. n - 1 /\ m - 1 \in 0 .. n /\ m - 1 \notin T /\ (m - 1) + 1 = m
    BY <1>0, <2>1, <2>2
  <2>4. Good(m - 1)
    BY <2>3
  <2> QED
    BY <1>2, <2>2, <2>3, <2>4
<1> QED
  BY <1>0, <1>3 DEF Good

LEMMA RomsAre ==
  /\ RomBits \in Nat /\ RomBits < 255 /\ Roms \subseteq Nat /\ 0 \notin Roms
  /\ RomBits \in BitNo /\ 0 .. RomBits - 1 \subseteq BitNo
<1>1. RomBits \in Nat /\ RomBits < 255
  BY RomAssumption DEF OW_SEARCH_FIRST
<1>2. RomBits \in BitNo /\ 0 .. RomBits - 1 \subseteq BitNo
  BY <1>1 DEF BitNo, OW_SEARCH_FIRST
<1>3. Power[RomBits] \in Nat
  BY <1>2, PowerIs
<1>4. Roms \subseteq 1 .. Power[RomBits] - 1
  BY RomAssumption, Zenon
<1> QED
  BY <1>1, <1>2, <1>3, <1>4

(* Two codes differ in a bit, and in a first one. *)
LEMMA FirstDifference ==
  ASSUME NEW c \in Roms, NEW d \in Roms, c # d
  PROVE  \E j \in 0 .. RomBits - 1 : Agree(c, d, j) /\ Bit(c, j) # Bit(d, j)
<1>1. RomBits \in Nat /\ c \in Nat /\ d \in Nat /\ c < Power[RomBits] /\ d < Power[RomBits]
  <2>1. RomBits \in Nat /\ RomBits \in BitNo
    BY RomsAre
  <2>2. Power[RomBits] \in Nat
    BY <2>1, PowerIs
  <2>3. c \in 1 .. Power[RomBits] - 1 /\ d \in 1 .. Power[RomBits] - 1
    BY RomAssumption, Zenon
  <2> QED
    BY <2>1, <2>2, <2>3
<1> DEFINE T == {j \in 0 .. RomBits - 1 : Bit(c, j) # Bit(d, j)}
<1>2. T # {}
  <2> SUFFICES ASSUME T = {} PROVE FALSE
    OBVIOUS
  <2>1. Agree(c, d, RomBits)
    BY DEF Agree
  <2>2. c % Power[RomBits] = d % Power[RomBits]
    BY <1>1, <2>1, RomsAre, SameRest
  <2> DEFINE p == Power[RomBits]
  <2>3. p \in Nat \ {0}
    BY RomsAre, PowerIs
  <2>4. c < p /\ d < p
    BY <1>1
  <2> HIDE DEF p
  <2>5. c % p = c /\ d % p = d
    <3>1. (p * 0 + c) % p = c /\ (p * 0 + d) % p = d
      BY <1>1, <2>3, <2>4, DivModIs
    <3>2. p * 0 + c = c /\ p * 0 + d = d
      BY <1>1, <2>3
    <3> QED
      BY <3>1, <3>2, Zenon
  <2> QED
    BY <2>2, <2>5 DEF p
<1>3. PICK j \in T : \A k \in T : j <= k
  <2>1. T \subseteq Nat
    OBVIOUS
  <2> HIDE DEF T
  <2> QED
    BY <1>2, <2>1, LeastNumber
<1>4. Agree(c, d, j)
  <2> SUFFICES ASSUME NEW i \in 0 .. j - 1 PROVE Bit(c, i) = Bit(d, i)
    BY DEF Agree
  <2>1. i \in 0 .. RomBits - 1 /\ i \notin T
    BY <1>1, <1>3
  <2> QED
    BY <2>1
<1> QED
  BY <1>3, <1>4
-----------------------------------------------------------------------------
(* One bit of a pass.  A device with a one where another one that agrees with *)
(* it so far has a zero is one at a fork; the last such fork is where the     *)
(* next pass turns.                                                          *)
ForkAt(D, x, j) == Bit(x, j) = 1 /\ \E e \in D : Agree(x, e, j) /\ Bit(e, j) = 0

LastFork(D, x, k, diff) ==
  \/ diff = 0 /\ \A j \in 0 .. k - 1 : ~ForkAt(D, x, j)
  \/ \E j \in 0 .. k - 1 :
       /\ diff = RomBits - j /\ ForkAt(D, x, j)
       /\ \A i \in j + 1 .. k - 1 : ~ForkAt(D, x, i)

(* What a pass knows after k bits. *)
Reached(D, s, k) ==
  /\ s.addressed # {} /\ s.addressed \subseteq D
  /\ \A x \in s.addressed :
       /\ s.addressed = {d \in D : Agree(x, d, k)}
       /\ s.id = x % Power[k]
       /\ LastFork(D, x, k, s.diff)

(* At a fork the rule decides. *)
Decided(D, x, k, diff, id) ==
  \A d \in D : Agree(x, d, k) /\ Bit(d, k) # Bit(x, k) =>
                 (Bit(x, k) = 1 <=> TakesOne(diff, RomBits - k, Bit(id, k)))

LEMMA LowestBit ==
  ASSUME NEW S, S # {}, S \subseteq {0, 1}
  PROVE  ow_read_bit(S) = IF 0 \in S THEN 0 ELSE 1
<1>1. PICK z \in S : \A y \in S : z <= y
  <2>1. S \subseteq Nat
    OBVIOUS
  <2> QED
    BY <2>1, LeastNumber, Zenon
<1>2. Min(S) \in S /\ \A y \in S : Min(S) <= y
  <2>1. \E x \in S : \A y \in S : x <= y
    BY <1>1
  <2> QED
    BY <2>1, Zenon DEF Min
<1>3. ow_read_bit(S) = Min(S)
  BY DEF ow_read_bit
<1> DEFINE m == Min(S)
<1> HIDE DEF m
<1>4. (m = 0 \/ m = 1) /\ m \in S /\ \A y \in S : m <= y
  BY <1>2 DEF m
<1>5. m = IF 0 \in S THEN 0 ELSE 1
  BY <1>4
<1> QED
  BY <1>3, <1>5, Zenon DEF m

LEMMA BitAddressed ==
  ASSUME NEW D \in SUBSET Roms, NEW s, NEW k \in 0 .. RomBits - 1, Reached(D, s, k),
         NEW diff, NEW id
  PROVE  LET r == AddressBit(s, k, diff, id)
         IN  /\ Reached(D, r, k + 1)
             /\ r.addressed \subseteq s.addressed
             /\ \A x \in r.addressed : Decided(D, x, k, diff, id)
<1> DEFINE r == AddressBit(s, k, diff, id)
           A == s.addressed
           i == RomBits - k
           first == ow_read_bit({Bit(d, k) : d \in A})
           complement == ow_read_bit({1 - Bit(d, k) : d \in A})
           fork == first = 0 /\ complement = 0
           one == TakesOne(diff, i, Bit(id, k))
           b == IF fork /\ one THEN 1 ELSE first
           B == {d \in A : Bit(d, k) = b}
<1>1. k \in Nat /\ k \in BitNo /\ RomBits \in Nat /\ D \subseteq Nat
  BY RomsAre
<1>2. A # {} /\ A \subseteq D /\ \A d \in D : Bit(d, k) \in {0, 1}
  BY <1>1, BitIs DEF Reached
<1>3. first = IF \E d \in A : Bit(d, k) = 0 THEN 0 ELSE 1
  <2> DEFINE S == {Bit(d, k) : d \in A}
  <2>1. S # {} /\ S \subseteq {0, 1} /\ (0 \in S <=> \E d \in A : Bit(d, k) = 0)
    BY <1>2
  <2> HIDE DEF S
  <2>2. ow_read_bit(S) = IF 0 \in S THEN 0 ELSE 1
    BY <2>1, LowestBit
  <2> QED
    BY <2>1, <2>2 DEF S
<1>4. complement = IF \E d \in A : Bit(d, k) = 1 THEN 0 ELSE 1
  <2> DEFINE S == {1 - Bit(d, k) : d \in A}
  <2>1. S # {} /\ S \subseteq {0, 1} /\ (0 \in S <=> \E d \in A : Bit(d, k) = 1)
    BY <1>2
  <2> HIDE DEF S
  <2>2. ow_read_bit(S) = IF 0 \in S THEN 0 ELSE 1
    BY <2>1, LowestBit
  <2> QED
    BY <2>1, <2>2 DEF S
<1>5. r = [addressed |-> B, id |-> s.id + b * Power[k],
           diff |-> IF fork /\ b = 1 THEN i ELSE s.diff]
  BY Zenon DEF AddressBit
<1>6. one \in BOOLEAN
  BY DEF TakesOne
<1> HIDE DEF first, complement, one, A, r
<1>7. /\ fork <=> (\E d \in A : Bit(d, k) = 0) /\ (\E d \in A : Bit(d, k) = 1)
      /\ fork => (b = 1 <=> one)
      /\ b \in {0, 1}
  BY <1>3, <1>4, <1>6
<1>8. B # {} /\ (~fork => \A d \in A : Bit(d, k) = b)
  BY <1>2, <1>3, <1>4, <1>7
<1>9. r.addressed = B /\ r.id = s.id + b * Power[k] /\ r.diff = IF fork /\ b = 1 THEN i ELSE s.diff
  BY <1>5
<1>10. \A x \in A : /\ A = {d \in D : Agree(x, d, k)}
                    /\ s.id = x % Power[k]
                    /\ LastFork(D, x, k, s.diff)
  BY Zenon DEF Reached, A
<1> HIDE DEF fork, b
<1>11. ASSUME NEW x \in B
       PROVE  /\ B = {d \in D : Agree(x, d, k + 1)}
              /\ r.id = x % Power[k + 1]
              /\ LastFork(D, x, k + 1, r.diff)
              /\ Decided(D, x, k, diff, id)
  <2>1. x \in A /\ x \in D /\ x \in Nat /\ Bit(x, k) = b
    BY <1>1, <1>2
  <2>2. \A d \in D : d \in A <=> Agree(x, d, k)
    BY <1>10, <2>1
  <2>3. \A d \in D : Agree(x, d, k + 1) <=> Agree(x, d, k) /\ Bit(x, k) = Bit(d, k)
    BY <1>1, AgreeIs
  <2>4. B = {d \in D : Agree(x, d, k + 1)}
    BY <1>2, <2>1, <2>2, <2>3
  <2>5. r.id = x % Power[k + 1]
    <3>1. x % Power[k + 1] = (x % Power[k]) + Bit(x, k) * Power[k]
      BY <1>1, <2>1, BitIs
    <3>2. s.id = x % Power[k]
      BY <1>10, <2>1
    <3> QED
      BY <1>9, <2>1, <3>1, <3>2, Zenon
  <2>6. ForkAt(D, x, k) <=> fork /\ b = 1
    <3>1. ForkAt(D, x, k) <=> b = 1 /\ \E e \in A : Bit(e, k) = 0
      BY <1>2, <2>1, <2>2 DEF ForkAt
    <3> QED
      BY <1>7, <2>1, <3>1
  <2>7. LastFork(D, x, k + 1, r.diff)
    <3>1. 0 .. (k + 1) - 1 = (0 .. k - 1) \cup {k}
      BY <1>1
    <3>2. CASE ForkAt(D, x, k)
      <4>1. r.diff = RomBits - k
        BY <1>9, <2>6, <3>2
      <4>2. k \in 0 .. (k + 1) - 1 /\ k + 1 .. (k + 1) - 1 = {}
        BY <1>1
      <4> QED
        BY <3>2, <4>1, <4>2 DEF LastFork
    <3>3. CASE ~ForkAt(D, x, k)
      <4>1. r.diff = s.diff
        BY <1>9, <2>6, <3>3
      <4>2. LastFork(D, x, k, s.diff)
        BY <1>10, <2>1
      <4>3. CASE s.diff = 0 /\ \A j \in 0 .. k - 1 : ~ForkAt(D, x, j)
        <5>1. \A j \in 0 .. (k + 1) - 1 : ~ForkAt(D, x, j)
          BY <3>1, <3>3, <4>3
        <5> QED
          BY <4>1, <4>3, <5>1 DEF LastFork
      <4>4. ASSUME NEW j \in 0 .. k - 1, s.diff = RomBits - j, ForkAt(D, x, j),
                   \A n \in j + 1 .. k - 1 : ~ForkAt(D, x, n)
            PROVE  LastFork(D, x, k + 1, r.diff)
        <5>1. j + 1 .. (k + 1) - 1 = (j + 1 .. k - 1) \cup {k} /\ j \in 0 .. (k + 1) - 1
          BY <1>1
        <5>2. \A n \in j + 1 .. (k + 1) - 1 : ~ForkAt(D, x, n)
          BY <3>3, <4>4, <5>1
        <5> QED
          BY <4>1, <4>4, <5>1, <5>2 DEF LastFork
      <4> QED
        BY <4>2, <4>3, <4>4 DEF LastFork
    <3> QED
      BY <3>2, <3>3
  <2>8. Decided(D, x, k, diff, id)
    <3> SUFFICES ASSUME NEW d \in D, Agree(x, d, k), Bit(d, k) # Bit(x, k)
                 PROVE  Bit(x, k) = 1 <=> one
      BY DEF Decided, one
    <3>1. d \in A /\ x \in A /\ Bit(x, k) \in {0, 1} /\ Bit(d, k) \in {0, 1}
      BY <1>2, <2>1, <2>2
    <3>2. fork
      BY <1>7, <3>1
    <3> QED
      BY <1>7, <2>1, <3>2
  <2> QED
    BY <2>4, <2>5, <2>7, <2>8
<1>12. B \subseteq A
  OBVIOUS
<1> HIDE DEF B
<1>13. Reached(D, r, k + 1)
  BY <1>2, <1>8, <1>9, <1>11, <1>12 DEF Reached
<1> QED
  BY <1>9, <1>11, <1>12, <1>13 DEF r, A

-----------------------------------------------------------------------------
(* A whole pass. *)
RoundsOf(at, D, diff, id) ==
  at = [k \in 0 .. RomBits |-> IF k = 0 THEN [addressed |-> D, id |-> 0, diff |-> 0]
                               ELSE AddressBit(at[k - 1], k - 1, diff, id)]

LEMMA PassIs ==
  ASSUME NEW D, NEW diff, NEW id
  PROVE  \E at : RoundsOf(at, D, diff, id) /\ ow_rom_search(D, diff, id) = at[RomBits]
<1> DEFINE x == [diff |-> diff, id |-> id]
           start == [addressed |-> D, id |-> 0, diff |-> 0]
           F == CHOOSE at : at = [k \in 0 .. RomBits |->
                  IF k = 0 THEN start ELSE AddressBit(at[k - 1], k - 1, diff, id)]
<1>1. PICK f : Rounds(f, "bit", x, start, RomBits)
  BY RomsAre, RoundsExist
<1> HIDE DEF start
<1>2. \A n \in 0 .. RomBits : f[n] = IF n = 0 THEN start ELSE AddressBit(f[n - 1], n - 1, diff, id)
  BY <1>1 DEF Rounds, Body
<1>3. f = [n \in 0 .. RomBits |-> f[n]]
  BY <1>1 DEF Rounds
<1>4. f = [n \in 0 .. RomBits |-> IF n = 0 THEN start ELSE AddressBit(f[n - 1], n - 1, diff, id)]
  BY <1>2, <1>3
<1>5. F = [n \in 0 .. RomBits |-> IF n = 0 THEN start ELSE AddressBit(F[n - 1], n - 1, diff, id)]
  BY <1>4, Zenon
<1>6. ow_rom_search(D, diff, id) = F[RomBits]
  BY Zenon DEF ow_rom_search, start
<1> HIDE DEF F
<1> QED
  BY <1>5, <1>6, Zenon DEF RoundsOf, start

(* The rounds keep what one bit keeps, and what is addressed at the end was   *)
(* addressed all the time.                                                   *)
LEMMA PassKeeps ==
  ASSUME NEW D \in SUBSET Roms, D # {}, NEW diff, NEW id, NEW at, RoundsOf(at, D, diff, id)
  PROVE  /\ \A k \in 0 .. RomBits : Reached(D, at[k], k)
         /\ \A k \in 0 .. RomBits - 1 :
              /\ at[k + 1].addressed \subseteq at[k].addressed
              /\ \A x \in at[k + 1].addressed : Decided(D, x, k, diff, id)
<1>1. RomBits \in Nat
  BY RomsAre
<1>2. at[0] = [addressed |-> D, id |-> 0, diff |-> 0]
  BY <1>1 DEF RoundsOf
<1>3. ASSUME NEW k \in 0 .. RomBits - 1 PROVE at[k + 1] = AddressBit(at[k], k, diff, id)
  <2>1. k + 1 \in 0 .. RomBits /\ k + 1 # 0 /\ (k + 1) - 1 = k
    BY <1>1
  <2> QED
    BY <2>1 DEF RoundsOf
<1>4. Reached(D, at[0], 0)
  <2>1. at[0].addressed = D /\ at[0].id = 0 /\ at[0].diff = 0
    BY <1>2
  <2>2. ASSUME NEW x \in D
        PROVE  D = {d \in D : Agree(x, d, 0)} /\ 0 = x % Power[0] /\ LastFork(D, x, 0, 0)
    <3>1. x \in Nat
      BY RomsAre
    <3>2. Power[0] = 1 /\ 0 = x % 1
      BY <3>1, RomsAre, PowerIs
    <3>3. \A d : Agree(x, d, 0)
      BY DEF Agree
    <3>4. LastFork(D, x, 0, 0)
      BY DEF LastFork
    <3> QED
      BY <3>2, <3>3, <3>4
  <2> QED
    BY <2>1, <2>2 DEF Reached
<1> DEFINE T == {k \in 0 .. RomBits : ~Reached(D, at[k], k)}
<1>5. ASSUME NEW k \in 0 .. RomBits - 1, Reached(D, at[k], k)
      PROVE  /\ Reached(D, at[k + 1], k + 1)
             /\ at[k + 1].addressed \subseteq at[k].addressed
             /\ \A x \in at[k + 1].addressed : Decided(D, x, k, diff, id)
  <2> DEFINE s == at[k]
  <2>1. Reached(D, s, k)
    BY <1>5
  <2> HIDE DEF s
  <2>2. LET r == AddressBit(s, k, diff, id)
        IN  /\ Reached(D, r, k + 1)
            /\ r.addressed \subseteq s.addressed
            /\ \A x \in r.addressed : Decided(D, x, k, diff, id)
    BY <2>1, BitAddressed
  <2>3. at[k + 1] = AddressBit(s, k, diff, id)
    BY <1>3 DEF s
  <2> QED
    BY <2>2, <2>3 DEF s
<1>6. T = {}
  <2> SUFFICES ASSUME T # {} PROVE FALSE
    OBVIOUS
  <2>1. PICK m \in T : \A k \in T : m <= k
    <3>1. T \subseteq Nat
      OBVIOUS
    <3> HIDE DEF T
    <3> QED
      BY <3>1, LeastNumber
  <2>2. m # 0 /\ m \in 0 .. RomBits /\ ~Reached(D, at[m], m)
    BY <1>4, <2>1
  <2>3. m - 1 \in 0 .. RomBits - 1 /\ m - 1 \in 0 .. RomBits /\ m - 1 \notin T /\ (m - 1) + 1 = m
    BY <1>1, <2>1, <2>2
  <2>4. Reached(D, at[m - 1], m - 1)
    BY <2>3
  <2> QED
    BY <1>5, <2>2, <2>3, <2>4
<1>7. \A k \in 0 .. RomBits : Reached(D, at[k], k)
  BY <1>6
<1>8. \A k \in 0 .. RomBits - 1 : k \in 0 .. RomBits
  BY <1>1
<1> QED
  BY <1>5, <1>7, <1>8

(* What is addressed after all bits is one device, and its code is found. *)
Decisions(D, x, diff, id) == \A k \in 0 .. RomBits - 1 : Decided(D, x, k, diff, id)

LEMMA PassFindsOne ==
  ASSUME NEW D \in SUBSET Roms, D # {}, NEW diff, NEW id
  PROVE  LET r == ow_rom_search(D, diff, id)
         IN  r.id \in D /\ LastFork(D, r.id, RomBits, r.diff) /\ Decisions(D, r.id, diff, id)
<1>1. PICK at : RoundsOf(at, D, diff, id) /\ ow_rom_search(D, diff, id) = at[RomBits]
  BY PassIs
<1>2. /\ \A k \in 0 .. RomBits : Reached(D, at[k], k)
      /\ \A k \in 0 .. RomBits - 1 :
           /\ at[k + 1].addressed \subseteq at[k].addressed
           /\ \A x \in at[k + 1].addressed : Decided(D, x, k, diff, id)
  BY <1>1, PassKeeps
<1> DEFINE r == at[RomBits]
<1>3. RomBits \in Nat /\ RomBits \in 0 .. RomBits
  BY RomsAre
<1>4. Reached(D, r, RomBits)
  BY <1>2, <1>3
<1>5. PICK x : x \in r.addressed
  BY <1>4 DEF Reached
<1>6. x \in D /\ r.id = x % Power[RomBits] /\ LastFork(D, x, RomBits, r.diff)
  BY <1>4, <1>5 DEF Reached
<1>7. r.id = x
  <2>1. x \in Nat /\ Power[RomBits] \in Nat \ {0}
    BY <1>3, <1>6, RomsAre, PowerIs
  <2>2. x \in 1 .. Power[RomBits] - 1
    BY <1>6, RomAssumption, Zenon
  <2> DEFINE p == Power[RomBits]
  <2>3. p \in Nat \ {0} /\ x < p
    BY <2>1, <2>2
  <2> HIDE DEF p
  <2>4. (p * 0 + x) % p = x /\ p * 0 + x = x
    BY <2>1, <2>3, DivModIs
  <2> QED
    BY <1>6, <2>4 DEF p
<1>8. \A k \in 0 .. RomBits : x \in at[k].addressed
  <2> DEFINE T == {n \in 0 .. RomBits : x \notin at[RomBits - n].addressed}
  <2>1. T = {}
    <3> SUFFICES ASSUME T # {} PROVE FALSE
      OBVIOUS
    <3>1. PICK m \in T : \A n \in T : m <= n
      <4>1. T \subseteq Nat
        OBVIOUS
      <4> HIDE DEF T
      <4> QED
        BY <4>1, LeastNumber
    <3>2. m # 0
      <4>1. RomBits - 0 = RomBits
        BY <1>3
      <4> QED
        BY <1>5, <3>1, <4>1
    <3>3. /\ m - 1 \in 0 .. RomBits /\ m - 1 \notin T
          /\ RomBits - m \in 0 .. RomBits - 1 /\ (RomBits - m) + 1 = RomBits - (m - 1)
      BY <1>3, <3>1, <3>2
    <3>4. x \in at[RomBits - (m - 1)].addressed
      BY <3>3
    <3>5. x \in at[RomBits - m].addressed
      BY <1>2, <3>3, <3>4
    <3> QED
      BY <3>1, <3>5
  <2> SUFFICES ASSUME NEW k \in 0 .. RomBits PROVE x \in at[k].addressed
    OBVIOUS
  <2>2. RomBits - k \in 0 .. RomBits /\ RomBits - (RomBits - k) = k
    BY <1>3
  <2> QED
    BY <2>1, <2>2
<1>9. Decisions(D, x, diff, id)
  <2> SUFFICES ASSUME NEW k \in 0 .. RomBits - 1 PROVE Decided(D, x, k, diff, id)
    BY DEF Decisions
  <2>1. k + 1 \in 0 .. RomBits
    BY <1>3
  <2> QED
    BY <1>2, <1>8, <2>1
<1> QED
  BY <1>1, <1>6, <1>7, <1>9

-----------------------------------------------------------------------------
(* Where a pass ends.  The devices of a bus are in an order: the one with the *)
(* one at the first difference is first.                                     *)
Earlier(c, d) == \E j \in 0 .. RomBits - 1 : Agree(c, d, j) /\ Bit(c, j) = 1 /\ Bit(d, j) = 0

LEMMA OneOrOther ==
  ASSUME NEW c \in Roms, NEW d \in Roms
  PROVE  /\ c # d => Earlier(c, d) \/ Earlier(d, c)
         /\ ~(Earlier(c, d) /\ Earlier(d, c))
<1>0. c \in Nat /\ d \in Nat /\ \A j \in 0 .. RomBits - 1 : j \in BitNo
  BY RomsAre
<1>1. \A j \in 0 .. RomBits - 1 : Bit(c, j) \in {0, 1} /\ Bit(d, j) \in {0, 1}
  BY <1>0, BitIs
<1>2. ASSUME c # d PROVE Earlier(c, d) \/ Earlier(d, c)
  <2>1. PICK j \in 0 .. RomBits - 1 : Agree(c, d, j) /\ Bit(c, j) # Bit(d, j)
    BY <1>2, FirstDifference
  <2>2. Agree(d, c, j)
    BY <2>1 DEF Agree
  <2>3. (Bit(c, j) = 1 /\ Bit(d, j) = 0) \/ (Bit(d, j) = 1 /\ Bit(c, j) = 0)
    BY <1>1, <2>1
  <2> QED
    BY <2>1, <2>2, <2>3 DEF Earlier
<1>3. ASSUME Earlier(c, d), Earlier(d, c) PROVE FALSE
  <2>1. PICK j \in 0 .. RomBits - 1 : Agree(c, d, j) /\ Bit(c, j) = 1 /\ Bit(d, j) = 0
    BY <1>3 DEF Earlier
  <2>2. PICK k \in 0 .. RomBits - 1 : Agree(d, c, k) /\ Bit(d, k) = 1 /\ Bit(c, k) = 0
    BY <1>3 DEF Earlier
  <2>3. j < k \/ j = k \/ k < j
    OBVIOUS
  <2>4. CASE j < k
    <3>1. j \in 0 .. k - 1
      BY <2>4
    <3> QED
      BY <2>1, <2>2, <3>1 DEF Agree
  <2>5. CASE k < j
    <3>1. k \in 0 .. j - 1
      BY <2>5
    <3> QED
      BY <2>1, <2>2, <3>1 DEF Agree
  <2> QED
    BY <2>1, <2>2, <2>3, <2>4, <2>5
<1> QED
  BY <1>2, <1>3

LEMMA EarlierStill ==
  ASSUME NEW c, NEW d, NEW e, Earlier(c, d), Earlier(d, e)
  PROVE  Earlier(c, e)
<1>1. PICK j \in 0 .. RomBits - 1 : Agree(c, d, j) /\ Bit(c, j) = 1 /\ Bit(d, j) = 0
  BY DEF Earlier
<1>2. PICK k \in 0 .. RomBits - 1 : Agree(d, e, k) /\ Bit(d, k) = 1 /\ Bit(e, k) = 0
  BY DEF Earlier
<1>3. j < k \/ k < j
  BY <1>1, <1>2
<1>4. CASE j < k
  <2>1. j \in 0 .. k - 1 /\ \A i \in 0 .. j - 1 : i \in 0 .. k - 1
    BY <1>4
  <2>2. Agree(c, e, j) /\ Bit(e, j) = 0
    BY <1>1, <1>2, <2>1 DEF Agree
  <2> QED
    BY <1>1, <2>2 DEF Earlier
<1>5. CASE k < j
  <2>1. k \in 0 .. j - 1 /\ \A i \in 0 .. k - 1 : i \in 0 .. j - 1
    BY <1>5
  <2>2. Agree(c, e, k) /\ Bit(c, k) = 1
    BY <1>1, <1>2, <2>1 DEF Agree
  <2> QED
    BY <1>2, <2>2 DEF Earlier
<1> QED
  BY <1>3, <1>4, <1>5

(* The first pass takes the one at every fork. *)
LEMMA FirstPass ==
  ASSUME NEW D \in SUBSET Roms, D # {}
  PROVE  LET r == ow_rom_search(D, OW_SEARCH_FIRST, 0)
         IN  /\ r.id \in D /\ LastFork(D, r.id, RomBits, r.diff)
             /\ \A e \in D : ~Earlier(e, r.id)
<1> DEFINE r == ow_rom_search(D, OW_SEARCH_FIRST, 0)
           x == r.id
<1>1. x \in D /\ LastFork(D, x, RomBits, r.diff) /\ Decisions(D, x, OW_SEARCH_FIRST, 0)
  BY PassFindsOne
<1> HIDE DEF r
<1>2. ASSUME NEW e \in D, NEW j \in 0 .. RomBits - 1,
             Agree(e, x, j), Bit(e, j) = 1, Bit(x, j) = 0
      PROVE  FALSE
  <2>1. Agree(x, e, j) /\ Bit(e, j) # Bit(x, j)
    BY <1>2 DEF Agree
  <2>2. Bit(x, j) = 1 <=> TakesOne(OW_SEARCH_FIRST, RomBits - j, Bit(0, j))
    BY <1>1, <2>1 DEF Decisions, Decided
  <2>3. OW_SEARCH_FIRST > RomBits - j
    BY RomsAre DEF OW_SEARCH_FIRST
  <2> QED
    BY <1>2, <2>2, <2>3 DEF TakesOne
<1>3. \A e \in D : ~Earlier(e, x)
  BY <1>2 DEF Earlier
<1> QED
  BY <1>1, <1>3 DEF r

(* A later pass follows the device before up to the last fork where that one  *)
(* took the one, takes the zero there, and the one at every fork behind: it   *)
(* ends at the next device in the order.                                     *)
LEMMA LaterPass ==
  ASSUME NEW D \in SUBSET Roms, NEW o \in D, NEW diff, LastFork(D, o, RomBits, diff), diff # 0
  PROVE  LET r == ow_rom_search(D, diff, o)
         IN  /\ r.id \in D /\ LastFork(D, r.id, RomBits, r.diff)
             /\ Earlier(o, r.id)
             /\ \A e \in D : ~(Earlier(o, e) /\ Earlier(e, r.id))
<1> DEFINE r == ow_rom_search(D, diff, o)
           x == r.id
<1>1. x \in D /\ LastFork(D, x, RomBits, r.diff) /\ Decisions(D, x, diff, o)
  BY PassFindsOne
<1> HIDE DEF r
<1>2. PICK t \in 0 .. RomBits - 1 :
        /\ diff = RomBits - t /\ ForkAt(D, o, t)
        /\ \A i \in t + 1 .. RomBits - 1 : ~ForkAt(D, o, i)
  BY DEF LastFork
<1>3. RomBits \in Nat /\ \A j \in 0 .. RomBits - 1 : j \in Nat
  BY RomsAre
<1>4. \A d \in D, j \in 0 .. RomBits - 1 : Bit(d, j) \in {0, 1}
  BY <1>3, RomsAre, BitIs
<1>5. ASSUME NEW e \in D, NEW j \in 0 .. RomBits - 1, Agree(x, e, j), Bit(e, j) # Bit(x, j)
      PROVE  Bit(x, j) = 1 <=> (diff > RomBits - j \/ (Bit(o, j) = 1 /\ diff # RomBits - j))
  BY <1>1, <1>5 DEF Decisions, Decided, TakesOne
(* Up to the turn. *)
<1>6. Agree(o, x, t)
  <2> DEFINE T == {j \in 0 .. t - 1 : Bit(o, j) # Bit(x, j)}
  <2>1. T = {}
    <3> SUFFICES ASSUME T # {} PROVE FALSE
      OBVIOUS
    <3>1. PICK m \in T : \A j \in T : m <= j
      <4>1. T \subseteq Nat
        OBVIOUS
      <4> HIDE DEF T
      <4> QED
        BY <4>1, LeastNumber
    <3>2. m \in 0 .. RomBits - 1 /\ m < t /\ \A i \in 0 .. m - 1 : i \in 0 .. t - 1 /\ i \notin T
      <4>1. m \in 0 .. t - 1 /\ t \in 0 .. RomBits - 1 /\ RomBits \in Nat
        BY <1>2, <1>3, <3>1
      <4>2. m \in 0 .. RomBits - 1 /\ m < t
        BY <4>1
      <4>3. ASSUME NEW i \in 0 .. m - 1 PROVE i \in 0 .. t - 1 /\ i \notin T
        <5>1. i \in 0 .. t - 1 /\ ~(m <= i)
          BY <4>1
        <5> QED
          BY <3>1, <5>1
      <4> QED
        BY <4>2, <4>3
    <3>3. Agree(x, o, m) /\ Bit(o, m) # Bit(x, m)
      BY <3>1, <3>2 DEF Agree
    <3>4. ~(diff > RomBits - m) /\ diff # RomBits - m
      BY <1>2, <1>3, <3>2
    <3>5. Bit(x, m) = 1 <=> Bit(o, m) = 1
      BY <1>5, <3>2, <3>3, <3>4
    <3>6. Bit(x, m) \in {0, 1} /\ Bit(o, m) \in {0, 1}
      BY <1>1, <1>4, <3>2
    <3> QED
      BY <3>3, <3>5, <3>6
  <2> QED
    BY <2>1 DEF Agree
(* At the turn. *)
<1>7. PICK z \in D : Agree(o, z, t) /\ Bit(z, t) = 0 /\ Bit(o, t) = 1
  BY <1>2 DEF ForkAt
<1>8. Bit(x, t) = 0
  <2> SUFFICES ASSUME Bit(x, t) # 0 PROVE FALSE
    OBVIOUS
  <2>1. Bit(x, t) = 1
    BY <1>1, <1>4
  <2>2. Agree(x, z, t)
    BY <1>6, <1>7 DEF Agree
  <2>3. diff > RomBits - t \/ (Bit(o, t) = 1 /\ diff # RomBits - t)
    BY <1>5, <1>7, <2>1, <2>2
  <2> QED
    BY <1>2, <1>3, <2>3
<1>9. Earlier(o, x)
  BY <1>6, <1>7, <1>8 DEF Earlier
(* Behind it. *)
<1>10. ASSUME NEW e \in D, Earlier(o, e), Earlier(e, x) PROVE FALSE
  <2>1. PICK m \in 0 .. RomBits - 1 : Agree(o, e, m) /\ Bit(o, m) = 1 /\ Bit(e, m) = 0
    BY <1>10 DEF Earlier
  <2>2. PICK k \in 0 .. RomBits - 1 : Agree(e, x, k) /\ Bit(e, k) = 1 /\ Bit(x, k) = 0
    BY <1>10 DEF Earlier
  <2>3. m <= t
    <3>1. ForkAt(D, o, m)
      BY <2>1 DEF ForkAt
    <3>2. m \notin t + 1 .. RomBits - 1
      BY <1>2, <3>1
    <3> QED
      BY <1>2, <3>2
  <2>4. k > t
    <3>1. CASE k < m
      <4>1. k \in 0 .. m - 1 /\ k \in 0 .. t - 1
        BY <2>3, <3>1
      <4> QED
        BY <1>6, <2>1, <2>2, <4>1 DEF Agree
    <3>2. CASE k = m
      BY <2>1, <2>2, <3>2
    <3>3. CASE m < k /\ m < t
      <4>1. m \in 0 .. k - 1 /\ m \in 0 .. t - 1
        BY <3>3
      <4> QED
        BY <1>6, <2>1, <2>2, <4>1 DEF Agree
    <3> QED
      BY <2>3, <3>1, <3>2, <3>3
  <2>5. diff > RomBits - k
    BY <1>2, <1>3, <2>4
  <2>6. Agree(x, e, k) /\ Bit(e, k) # Bit(x, k)
    BY <2>2 DEF Agree
  <2>7. Bit(x, k) = 1
    BY <1>5, <2>5, <2>6
  <2> QED
    BY <2>2, <2>7
<1> QED
  BY <1>1, <1>9, <1>10 DEF r

-----------------------------------------------------------------------------
(* The passes.  What the scan has are the devices up to the last one found;   *)
(* when no fork is left they are all there are.                              *)
Scanned(D, s, n) ==
  /\ s.id \in D /\ s.scan \in Seq(D)
  /\ ToSet(s.scan) = {e \in D : e = s.id \/ Earlier(e, s.id)}
  /\ Cardinality(ToSet(s.scan)) = Len(s.scan)
  /\ LastFork(D, s.id, RomBits, s.diff)
  /\ Len(s.scan) <= n /\ (s.diff # 0 => Len(s.scan) = n)

LEMMA RomsFinite ==
  ASSUME NEW D \in SUBSET Roms
  PROVE  IsFiniteSet(D) /\ Cardinality(D) \in Nat
<1>1. Power[RomBits] \in Nat
  BY RomsAre, PowerIs
<1>2. IsFiniteSet(1 .. Power[RomBits] - 1)
  BY <1>1, FS_Interval
<1>3. D \subseteq 1 .. Power[RomBits] - 1
  BY RomAssumption, Zenon
<1>4. IsFiniteSet(D)
  BY <1>2, <1>3, FS_Subset
<1> QED
  BY <1>4, FS_CardinalityType

(* One device more on a list. *)
LEMMA OneMore ==
  ASSUME NEW D \in SUBSET Roms, NEW q \in Seq(D), NEW d \in D,
         d \notin ToSet(q), Cardinality(ToSet(q)) = Len(q)
  PROVE  /\ Append(q, d) \in Seq(D) /\ Len(Append(q, d)) = Len(q) + 1
         /\ ToSet(Append(q, d)) = ToSet(q) \cup {d}
         /\ Cardinality(ToSet(Append(q, d))) = Len(Append(q, d))
<1> DEFINE p == Append(q, d)
<1>1. /\ p \in Seq(D) /\ Len(p) = Len(q) + 1 /\ Len(q) \in Nat
      /\ p[Len(q) + 1] = d /\ \A i \in 1 .. Len(q) : p[i] = q[i]
  OBVIOUS
<1> HIDE DEF p
<1>2. ToSet(p) = {p[i] : i \in 1 .. Len(q) + 1} /\ ToSet(q) = {q[i] : i \in 1 .. Len(q)}
  BY <1>1 DEF ToSet
<1>3. ToSet(p) = ToSet(q) \cup {d}
  <2>1. ASSUME NEW y \in ToSet(p) PROVE y \in ToSet(q) \cup {d}
    <3>1. PICK i \in 1 .. Len(q) + 1 : y = p[i]
      BY <1>2
    <3>2. i = Len(q) + 1 \/ i \in 1 .. Len(q)
      BY <1>1
    <3> QED
      BY <1>1, <1>2, <3>1, <3>2
  <2>2. ASSUME NEW y \in ToSet(q) PROVE y \in ToSet(p)
    <3>1. PICK i \in 1 .. Len(q) : y = q[i]
      BY <1>2
    <3>2. i \in 1 .. Len(q) + 1
      BY <1>1
    <3> QED
      BY <1>1, <1>2, <3>1, <3>2
  <2>3. d \in ToSet(p)
    <3>1. Len(q) + 1 \in 1 .. Len(q) + 1
      BY <1>1
    <3> QED
      BY <1>1, <1>2, <3>1
  <2> QED
    BY <2>1, <2>2, <2>3
<1>4. ToSet(q) \subseteq D
  <2>1. \A i \in 1 .. Len(q) : q[i] \in D
    OBVIOUS
  <2> QED
    BY <1>2, <2>1
<1>5. IsFiniteSet(ToSet(q))
  BY <1>4, RomsFinite
<1>6. Cardinality(ToSet(q) \cup {d}) = Cardinality(ToSet(q)) + 1
  BY <1>5, FS_AddElement
<1> QED
  BY <1>1, <1>3, <1>6 DEF p

(* The first pass, and every later one. *)
LEMMA ScanBegins ==
  ASSUME NEW D \in SUBSET Roms, D # {}
  PROVE  Scanned(D, NextPass(D, [diff |-> OW_SEARCH_FIRST, id |-> 0, scan |-> << >>]), 1)
<1> DEFINE r == ow_rom_search(D, OW_SEARCH_FIRST, 0)
           s == NextPass(D, [diff |-> OW_SEARCH_FIRST, id |-> 0, scan |-> << >>])
           p == Append(<< >>, r.id)
<1>1. s = [diff |-> r.diff, id |-> r.id, scan |-> p]
  BY DEF NextPass, OW_SEARCH_FIRST
<1>2. r.id \in D /\ LastFork(D, r.id, RomBits, r.diff) /\ \A e \in D : ~Earlier(e, r.id)
  BY FirstPass
<1>3. << >> \in Seq(D) /\ ToSet(<< >>) = {} /\ Len(<< >>) = 0 /\ Cardinality({}) = 0
  BY FS_EmptySet DEF ToSet
<1> HIDE DEF r, s
<1>4. p \in Seq(D) /\ Len(p) = 1 /\ ToSet(p) = {r.id} /\ Cardinality(ToSet(p)) = Len(p)
  <2> DEFINE q == << >>
             d == r.id
  <2>1. q \in Seq(D) /\ d \in D /\ d \notin ToSet(q) /\ Cardinality(ToSet(q)) = Len(q)
    BY <1>2, <1>3
  <2>2. ToSet(q) = {} /\ Len(q) = 0
    BY <1>3
  <2> HIDE DEF q, d
  <2>3. /\ Append(q, d) \in Seq(D) /\ Len(Append(q, d)) = Len(q) + 1
        /\ ToSet(Append(q, d)) = ToSet(q) \cup {d}
        /\ Cardinality(ToSet(Append(q, d))) = Len(Append(q, d))
    BY <2>1, OneMore
  <2>4. ToSet(q) \cup {d} = {d} /\ Len(q) + 1 = 1
    BY <2>2
  <2> QED
    BY <2>3, <2>4, Zenon DEF q, d
<1> HIDE DEF p
<1>5. s.id = r.id /\ s.diff = r.diff /\ s.scan = p
  BY <1>1
<1>6. /\ s.id \in D /\ LastFork(D, s.id, RomBits, s.diff) /\ \A e \in D : ~Earlier(e, s.id)
      /\ s.scan \in Seq(D) /\ Len(s.scan) = 1 /\ ToSet(s.scan) = {s.id}
      /\ Cardinality(ToSet(s.scan)) = Len(s.scan)
  BY <1>2, <1>4, <1>5, Zenon
<1>7. Scanned(D, s, 1)
  <2> DEFINE d == s.id
             p1 == s.scan
  <2>1. d \in D /\ (\A e \in D : ~Earlier(e, d)) /\ ToSet(p1) = {d} /\ Len(p1) = 1
    BY <1>6
  <2> HIDE DEF d, p1
  <2>2. ToSet(p1) = {e \in D : e = d \/ Earlier(e, d)} /\ Len(p1) <= 1
    BY <2>1
  <2> QED
    BY <1>6, <2>2, Zenon DEF Scanned, d, p1
<1> QED
  BY <1>7 DEF s

LEMMA ScanGoesOn ==
  ASSUME NEW D \in SUBSET Roms, NEW s, NEW n \in Nat, Scanned(D, s, n)
  PROVE  Scanned(D, NextPass(D, s), n + 1)
<1>1. /\ s.id \in D /\ s.scan \in Seq(D) /\ Len(s.scan) \in Nat
      /\ ToSet(s.scan) = {e \in D : e = s.id \/ Earlier(e, s.id)}
      /\ Cardinality(ToSet(s.scan)) = Len(s.scan)
      /\ LastFork(D, s.id, RomBits, s.diff)
      /\ Len(s.scan) <= n /\ (s.diff # 0 => Len(s.scan) = n)
  BY DEF Scanned
<1>2. CASE s.diff = 0
  <2>1. NextPass(D, s) = s
    BY <1>2 DEF NextPass
  <2>2. Len(s.scan) <= n + 1
    BY <1>1
  <2>3. Scanned(D, s, n + 1)
    BY <1>1, <1>2, <2>2 DEF Scanned
  <2> QED
    BY <2>1, <2>3
<1>3. CASE s.diff # 0
  <2> DEFINE r == ow_rom_search(D, s.diff, s.id)
             p == Append(s.scan, r.id)
             u == NextPass(D, s)
  <2>1. u = [diff |-> r.diff, id |-> r.id, scan |-> p]
    BY <1>3 DEF NextPass
  <2>2. /\ r.id \in D /\ LastFork(D, r.id, RomBits, r.diff)
        /\ Earlier(s.id, r.id)
        /\ \A e \in D : ~(Earlier(s.id, e) /\ Earlier(e, r.id))
    BY <1>1, <1>3, LaterPass
  <2> HIDE DEF r, u
  <2>3. u.id = r.id /\ u.diff = r.diff /\ u.scan = p
    BY <2>1
  <2>4. D \subseteq Roms /\ s.id \in Roms /\ r.id \in Roms
    BY <1>1, <2>2
  <2>5. r.id \notin ToSet(s.scan)
    BY <1>1, <2>2, <2>4, OneOrOther
  <2>6. /\ p \in Seq(D) /\ Len(p) = Len(s.scan) + 1
        /\ ToSet(p) = ToSet(s.scan) \cup {r.id} /\ Cardinality(ToSet(p)) = Len(p)
    <3> DEFINE q == s.scan
               d == r.id
    <3>1. q \in Seq(D) /\ d \in D /\ d \notin ToSet(q) /\ Cardinality(ToSet(q)) = Len(q)
      BY <1>1, <2>2, <2>5
    <3> HIDE DEF q, d
    <3>2. /\ Append(q, d) \in Seq(D) /\ Len(Append(q, d)) = Len(q) + 1
          /\ ToSet(Append(q, d)) = ToSet(q) \cup {d}
          /\ Cardinality(ToSet(Append(q, d))) = Len(Append(q, d))
      BY <3>1, OneMore
    <3> QED
      BY <3>2 DEF q, d
  <2>7. ToSet(p) = {e \in D : e = r.id \/ Earlier(e, r.id)}
    <3>1. ASSUME NEW e \in ToSet(s.scan) PROVE e \in D /\ Earlier(e, r.id)
      <4>1. e \in D /\ (e = s.id \/ Earlier(e, s.id))
        BY <1>1
      <4> QED
        BY <2>2, <4>1, EarlierStill
    <3>2. ASSUME NEW e \in D, Earlier(e, r.id) PROVE e \in ToSet(s.scan)
      <4>1. ~Earlier(s.id, e)
        BY <2>2, <3>2
      <4>2. e = s.id \/ Earlier(e, s.id)
        BY <2>4, <4>1, OneOrOther
      <4> QED
        BY <1>1, <4>2
    <3> QED
      BY <2>2, <2>6, <3>1, <3>2
  <2> HIDE DEF p
  <2>8. Len(p) = n + 1
    BY <1>1, <1>3, <2>6
  <2>9. Scanned(D, u, n + 1)
    BY <2>2, <2>3, <2>6, <2>7, <2>8 DEF Scanned
  <2> QED
    BY <2>9 DEF u
<1> QED
  BY <1>2, <1>3

(* A search finds every device once, or as many as there is room for. *)
LEMMA SearchFindsAll ==
  ASSUME NEW D \in SUBSET Roms, NEW max \in Nat \ {0}
  PROVE  LET scan == search_sensors(D, max)
         IN  /\ scan \in Seq(D) /\ ToSet(scan) \subseteq D
             /\ Cardinality(ToSet(scan)) = Len(scan)
             /\ Len(scan) = Min({max, Cardinality(D)})
<1>1. IsFiniteSet(D) /\ Cardinality(D) \in Nat
  BY RomsFinite
<1>2. \A c \in Nat : Min({max, c}) = IF max <= c THEN max ELSE c
  BY DEF Min
<1>3. CASE D = {}
  <2>1. search_sensors(D, max) = << >>
    BY <1>3 DEF search_sensors, ow_reset
  <2>2. << >> \in Seq(D) /\ ToSet(<< >>) = {} /\ Len(<< >>) = 0 /\ Cardinality({}) = 0
    BY FS_EmptySet DEF ToSet
  <2>3. Min({max, 0}) = 0
    BY <1>2
  <2> QED
    BY <1>3, <2>1, <2>2, <2>3
<1>4. CASE D # {}
  <2> DEFINE x == [devices |-> D]
             start == [diff |-> OW_SEARCH_FIRST, id |-> 0, scan |-> << >>]
             after == CHOOSE f : f = [n \in 0 .. max |->
                        IF n = 0 THEN start ELSE NextPass(D, f[n - 1])]
  <2>1. search_sensors(D, max) = after[max].scan
    BY <1>4, Zenon DEF search_sensors, ow_reset
  <2>2. after = [n \in 0 .. max |-> IF n = 0 THEN start ELSE NextPass(D, after[n - 1])]
    <3>1. PICK f : Rounds(f, "pass", x, start, max)
      BY RoundsExist
    <3> HIDE DEF start
    <3>2. \A n \in 0 .. max : f[n] = IF n = 0 THEN start ELSE NextPass(D, f[n - 1])
      BY <3>1 DEF Rounds, Body
    <3>3. f = [n \in 0 .. max |-> f[n]]
      BY <3>1 DEF Rounds
    <3>4. f = [n \in 0 .. max |-> IF n = 0 THEN start ELSE NextPass(D, f[n - 1])]
      BY <3>2, <3>3
    <3> QED
      BY <3>4, Zenon
  <2> HIDE DEF after
  <2>3. \A n \in 0 .. max : after[n] = IF n = 0 THEN start ELSE NextPass(D, after[n - 1])
    BY <2>2
  <2>4. Scanned(D, after[1], 1)
    <3>1. 0 \in 0 .. max /\ 1 \in 0 .. max /\ 1 - 1 = 0 /\ 1 # 0
      OBVIOUS
    <3>2. after[1] = NextPass(D, start)
      BY <2>3, <3>1
    <3> QED
      BY <1>4, <3>2, ScanBegins
  <2> DEFINE T == {n \in 1 .. max : ~Scanned(D, after[n], n)}
  <2>5. T = {}
    <3> SUFFICES ASSUME T # {} PROVE FALSE
      OBVIOUS
    <3>1. PICK m \in T : \A k \in T : m <= k
      <4>1. T \subseteq Nat
        OBVIOUS
      <4> HIDE DEF T
      <4> QED
        BY <4>1, LeastNumber
    <3>2. m # 1 /\ m \in 1 .. max /\ ~Scanned(D, after[m], m)
      BY <2>4, <3>1
    <3>3. m - 1 \in 1 .. max /\ m - 1 \notin T /\ (m - 1) + 1 = m /\ m \in 0 .. max /\ m # 0 /\ m - 1 \in Nat
      BY <3>1, <3>2
    <3>4. Scanned(D, after[m - 1], m - 1)
      BY <3>3
    <3>5. after[m] = NextPass(D, after[m - 1])
      BY <2>3, <3>3
    <3>6. Scanned(D, after[m], (m - 1) + 1)
      BY <3>3, <3>4, <3>5, ScanGoesOn
    <3> QED
      BY <3>2, <3>3, <3>6
  <2> DEFINE s == after[max]
  <2>6. Scanned(D, s, max)
    BY <2>5
  <2> HIDE DEF s
  <2>7. /\ s.id \in D /\ s.scan \in Seq(D) /\ Len(s.scan) \in Nat
        /\ ToSet(s.scan) = {e \in D : e = s.id \/ Earlier(e, s.id)}
        /\ Cardinality(ToSet(s.scan)) = Len(s.scan)
        /\ LastFork(D, s.id, RomBits, s.diff)
        /\ Len(s.scan) <= max /\ (s.diff # 0 => Len(s.scan) = max)
    BY <2>6 DEF Scanned
  <2>8. ToSet(s.scan) \subseteq D /\ Cardinality(ToSet(s.scan)) <= Cardinality(D)
    BY <1>1, <2>7, FS_Subset
  <2>9. ASSUME s.diff = 0 PROVE ToSet(s.scan) = D
    <3>1. \A j \in 0 .. RomBits - 1 : ~ForkAt(D, s.id, j)
      <4>1. \A j \in 0 .. RomBits - 1 : RomBits - j # 0
        BY RomsAre
      <4> QED
        BY <2>7, <2>9, <4>1 DEF LastFork
    <3>2. ASSUME NEW e \in D, e # s.id, ~Earlier(e, s.id) PROVE FALSE
      <4>1. Earlier(s.id, e)
        BY <2>7, <3>2, OneOrOther
      <4>2. PICK j \in 0 .. RomBits - 1 : Agree(s.id, e, j) /\ Bit(s.id, j) = 1 /\ Bit(e, j) = 0
        BY <4>1 DEF Earlier
      <4> QED
        BY <3>1, <4>2 DEF ForkAt
    <3> QED
      BY <2>7, <3>2
  <2>10. Len(s.scan) = Min({max, Cardinality(D)})
    <3>1. CASE s.diff = 0
      <4>1. Len(s.scan) = Cardinality(D)
        BY <2>7, <2>9, <3>1, Zenon
      <4>2. Len(s.scan) <= max
        BY <2>7
      <4> QED
        BY <1>1, <1>2, <4>1, <4>2
    <3>2. CASE s.diff # 0
      BY <1>1, <1>2, <2>7, <2>8, <3>2
    <3> QED
      BY <3>1, <3>2
  <2>11. search_sensors(D, max) = s.scan
    BY <2>1 DEF s
  <2> QED
    BY <2>7, <2>8, <2>10, <2>11
<1> QED
  BY <1>3, <1>4

(* Whatever devices are on the buses, of codes of any number of bits, and     *)
(* however many the table has room for: a scan has each of them once, or is   *)
(* full.                                                                      *)
THEOREM ScansAreComplete == SensorSpec => []ScanFindsAll
<1>1. ScanFindsAll
  <2> SUFFICES ASSUME NEW c \in ChannelNo
               PROVE  LET scan == search_sensors(Devices(c), Slots)
                      IN  /\ ToSet(scan) \subseteq Devices(c)
                          /\ Cardinality(ToSet(scan)) = Len(scan)
                          /\ Len(scan) = Min({Slots, Cardinality(Devices(c))})
    BY DEF ScanFindsAll
  <2>1. Devices(c) \in SUBSET Roms /\ Slots \in Nat \ {0}
    BY SizesAssumption DEF Devices
  <2> QED
    BY <2>1, SearchFindsAll
<1> QED
  BY <1>1, PTL

-----------------------------------------------------------------------------
(* The table as the loops pass it on: every place has an entry, and no two of *)
(* the table's have the same code.                                            *)
Code == Roms \cup {None}

IsEntry(e) ==
  e = [rom |-> e.rom, sign |-> e.sign, cel |-> e.cel, frac |-> e.frac] /\ e.rom \in Code

OneEach(slots, next) ==
  /\ slots = [k \in 0 .. Slots |-> slots[k]]
  /\ \A k \in 0 .. Slots : IsEntry(slots[k])
  /\ next \in 0 .. Slots + 1
  /\ \A j, k \in Table : slots[j].rom # None /\ slots[j].rom = slots[k].rom => j = k

(* What an entry says, when its sensor's last scratchpads are known. *)
Reading(d, p) ==
  LET v == DS18X20_meas_to_cel(Family[d], p)
  IN  [rom |-> d, sign |-> v.sign, cel |-> v.cel, frac |-> v.frac]

Unread(d) == [rom |-> d, sign |-> "none", cel |-> 0, frac |-> 0]

Matches(e, last) ==
  /\ e.rom \in Roms
  /\ \/ last[e.rom] = {} /\ e = Unread(e.rom)
     \/ \E p \in last[e.rom] :
          IsSensor(e.rom) /\ p \in Scratchpads(e.rom) /\ e = Reading(e.rom, p)

(* As long as the table has not started over: the entries in use are those in *)
(* front of the next, of codes that were looked up, and each matches.         *)
Faithful(slots, next, seen, last) ==
  /\ next \in 0 .. Slots
  /\ \A k \in 0 .. next - 1 : slots[k].rom \in seen /\ Matches(slots[k], last)
  /\ \A k \in next .. Slots : slots[k] = NoEntry
  /\ \A d \in Roms : last[d] # {} => \E k \in 0 .. next - 1 : slots[k].rom = d

Sound(slots, next, seen, last) ==
  /\ OneEach(slots, next)
  /\ seen \subseteq Code
  /\ Cardinality(seen) <= Slots => Faithful(slots, next, seen, last)

Carried == {"table", "next", "looked", "pos"}

LEMMA TableIs ==
  /\ Slots \in Nat /\ Slots >= 1 /\ 0 \in 0 .. Slots
  /\ Table \subseteq 0 .. Slots /\ \A k \in 0 .. Slots : k \in Table <=> k < Slots
  /\ None \notin Roms /\ None \in Code /\ Roms \subseteq Code
<1>1. Slots \in Nat /\ Slots >= 1
  BY SizesAssumption
<1>2. Table \subseteq 0 .. Slots /\ \A k \in 0 .. Slots : k \in Table <=> k < Slots
  BY <1>1 DEF Table
<1> QED
  BY <1>1, <1>2, RomsAre DEF None, Code

LEMMA CodesFinite ==
  ASSUME NEW S, S \subseteq Code
  PROVE  IsFiniteSet(S) /\ Cardinality(S) \in Nat
<1>1. IsFiniteSet(Roms)
  BY RomsFinite
<1>2. IsFiniteSet(Code)
  BY <1>1, FS_AddElement DEF Code
<1>3. IsFiniteSet(S)
  BY <1>2, FS_Subset
<1> QED
  BY <1>3, FS_CardinalityType

(* To write an entry where the code already is keeps the codes apart. *)
LEMMA EntryStored ==
  ASSUME NEW slots, NEW next, OneEach(slots, next), NEW k \in 0 .. Slots,
         NEW e, IsEntry(e), e.rom = slots[k].rom
  PROVE  OneEach([slots EXCEPT ![k] = e], next)
<1> DEFINE s == [slots EXCEPT ![k] = e]
<1>1. slots = [j \in 0 .. Slots |-> slots[j]]
  BY DEF OneEach
<1>2. s = [j \in 0 .. Slots |-> s[j]] /\ s[k] = e /\ \A j \in 0 .. Slots : j # k => s[j] = slots[j]
  BY <1>1
<1>3. Table \subseteq 0 .. Slots
  BY TableIs
<1> HIDE DEF s
<1>4. \A j \in 0 .. Slots : s[j].rom = slots[j].rom
  BY <1>2
<1>5. \A j \in 0 .. Slots : IsEntry(s[j])
  BY <1>2 DEF OneEach
<1>6. \A i, j \in Table : s[i].rom # None /\ s[i].rom = s[j].rom => i = j
  BY <1>3, <1>4 DEF OneEach
<1>7. next \in 0 .. Slots + 1
  BY DEF OneEach
<1>8. OneEach(s, next)
  BY <1>2, <1>5, <1>6, <1>7 DEF OneEach
<1> QED
  BY <1>8 DEF s

(* It keeps them faithful, when it is what has been read. *)
LEMMA ReadingStored ==
  ASSUME NEW slots, NEW next, OneEach(slots, next), NEW seen, NEW last,
         last = [d \in Roms |-> last[d]], Faithful(slots, next, seen, last),
         NEW d \in Roms, IsSensor(d), NEW p \in Scratchpads(d),
         NEW k \in 0 .. Slots, slots[k].rom = d
  PROVE  Faithful([slots EXCEPT ![k] = Reading(d, p)], next, seen, [last EXCEPT ![d] = {p}])
<1> DEFINE e == Reading(d, p)
           s == [slots EXCEPT ![k] = e]
           l == [last EXCEPT ![d] = {p}]
<1>0. \A c \in Roms : last[c] # {} => \E j \in 0 .. next - 1 : slots[j].rom = c
  BY DEF Faithful
<1>1. slots = [j \in 0 .. Slots |-> slots[j]] /\ next \in 0 .. Slots
  BY DEF OneEach, Faithful
<1>2. s[k] = e /\ \A j \in 0 .. Slots : j # k => s[j] = slots[j]
  BY <1>1
<1>3. l[d] = {p} /\ \A c \in Roms : c # d => l[c] = last[c]
  OBVIOUS
<1>4. e.rom = d
  BY DEF Reading
<1>5. NoEntry.rom = None
  BY DEF NoEntry
<1>6. k \in 0 .. next - 1
  <2>1. k \in next .. Slots => slots[k] = NoEntry
    BY DEF Faithful
  <2> QED
    BY <1>1, <1>5, <2>1, TableIs
<1>7. k \in Table /\ 0 .. next - 1 \subseteq Table /\ next .. Slots \subseteq 0 .. Slots
  BY <1>1, <1>6, TableIs
<1> HIDE DEF s, l
<1>8. Matches(s[k], l)
  BY <1>2, <1>3, <1>4 DEF Matches
<1> HIDE DEF e
<1>9. ASSUME NEW j \in 0 .. next - 1 PROVE s[j].rom \in seen /\ Matches(s[j], l)
  <2>1. slots[j].rom \in seen /\ Matches(slots[j], last)
    BY DEF Faithful
  <2>2. CASE j = k
    BY <1>2, <1>4, <1>8, <2>1, <2>2
  <2>3. CASE j # k
    <3>1. s[j] = slots[j]
      BY <1>2, <1>7, <2>3, TableIs
    <3>2. slots[j].rom \in Roms
      BY <2>1 DEF Matches
    <3>3. slots[j].rom # d
      <4>1. slots[j].rom = d => j = k
        BY <1>7, TableIs DEF OneEach
      <4> QED
        BY <2>3, <4>1
    <3>4. l[slots[j].rom] = last[slots[j].rom]
      BY <1>3, <3>2, <3>3
    <3>5. Matches(slots[j], l)
      BY <2>1, <3>4 DEF Matches
    <3> QED
      BY <2>1, <3>1, <3>5
  <2> QED
    BY <2>2, <2>3
<1>10. \A j \in next .. Slots : s[j] = NoEntry
  <2> SUFFICES ASSUME NEW j \in next .. Slots PROVE s[j] = NoEntry
    OBVIOUS
  <2>1. j \in 0 .. Slots /\ j # k
    BY <1>1, <1>6
  <2> QED
    BY <1>2, <2>1 DEF Faithful
<1>11. ASSUME NEW c \in Roms, l[c] # {} PROVE \E j \in 0 .. next - 1 : s[j].rom = c
  <2>1. CASE c = d
    BY <1>2, <1>4, <1>6, <2>1
  <2>2. CASE c # d
    <3>0. last[c] # {}
      BY <1>3, <1>11, <2>2
    <3>1. PICK j \in 0 .. next - 1 : slots[j].rom = c
      BY <1>0, <3>0
    <3>2. j # k /\ j \in 0 .. Slots
      BY <1>1, <2>2, <3>1, TableIs
    <3> QED
      BY <1>2, <3>1, <3>2
  <2> QED
    BY <2>1, <2>2
<1>12. Faithful(s, next, seen, l)
  BY <1>1, <1>9, <1>10, <1>11 DEF Faithful
<1> QED
  BY <1>12 DEF s, l, e

(* A new code goes where none of the table's entries has it. *)
LEMMA EntryMade ==
  ASSUME NEW slots, NEW next, OneEach(slots, next), NEW rom \in Code,
         EntriesOf(slots, rom) = {}
  PROVE  LET new == Wrapped(next)
             s == [slots EXCEPT ![new].rom = rom]
         IN  OneEach(s, new + 1) /\ new \in 0 .. Slots /\ s[new].rom = rom
<1> DEFINE new == Wrapped(next)
           old == slots[new]
           e == [old EXCEPT !.rom = rom]
           s == [slots EXCEPT ![new] = e]
<1>1. slots = [j \in 0 .. Slots |-> slots[j]] /\ next \in 0 .. Slots + 1
  BY DEF OneEach
<1>2. new \in 0 .. Slots /\ new + 1 \in 0 .. Slots + 1
  BY <1>1, SizesAssumption DEF Wrapped
<1>3. IsEntry(old)
  BY <1>2 DEF OneEach
<1> HIDE DEF new, old
<1>4. IsEntry(e) /\ e.rom = rom
  BY <1>3 DEF IsEntry
<1> HIDE DEF e
<1>5. s = [j \in 0 .. Slots |-> s[j]] /\ s[new] = e /\ \A j \in 0 .. Slots : j # new => s[j] = slots[j]
  BY <1>1, <1>2
<1>6. [slots EXCEPT ![new].rom = rom] = s
  BY DEF e, old
<1> HIDE DEF s
<1>7. Table \subseteq 0 .. Slots
  BY TableIs
<1>8. \A j \in 0 .. Slots : IsEntry(s[j])
  BY <1>4, <1>5 DEF OneEach
<1>9. \A j \in Table : slots[j].rom # rom
  BY DEF EntriesOf
<1>10. ASSUME NEW i \in Table, NEW j \in Table, s[i].rom # None, s[i].rom = s[j].rom
       PROVE  i = j
  <2>1. i # new /\ j # new => s[i] = slots[i] /\ s[j] = slots[j]
    BY <1>5, <1>7
  <2>2. i = new /\ j # new => s[i].rom = rom /\ s[j] = slots[j]
    BY <1>4, <1>5, <1>7
  <2>3. i # new /\ j = new => s[j].rom = rom /\ s[i] = slots[i]
    BY <1>4, <1>5, <1>7
  <2> QED
    BY <1>9, <1>10, <2>1, <2>2, <2>3 DEF OneEach
<1>11. OneEach(s, new + 1)
  BY <1>2, <1>5, <1>8, <1>10 DEF OneEach
<1> QED
  BY <1>2, <1>4, <1>5, <1>6, <1>11 DEF new

(* A full table has so many codes that one more was looked up than it holds. *)
LEMMA FullTable ==
  ASSUME NEW slots, NEW seen, NEW last, OneEach(slots, Slots),
         Faithful(slots, Slots, seen, last), seen \subseteq Code,
         NEW rom \in Code, EntriesOf(slots, rom) = {}
  PROVE  ~(Cardinality(seen \cup {rom}) <= Slots)
<1> DEFINE more == seen \cup {rom}
           f == [k \in 0 .. Slots |-> IF k < Slots THEN slots[k].rom ELSE rom]
<1>1. more \subseteq Code
  OBVIOUS
<1>2. IsFiniteSet(more) /\ Cardinality(more) \in Nat
  BY <1>1, CodesFinite
<1>3. \A k \in 0 .. Slots : k < Slots => /\ k \in Table /\ slots[k].rom \in seen
                                         /\ slots[k].rom # None /\ slots[k].rom # rom
  <2> SUFFICES ASSUME NEW k \in 0 .. Slots, k < Slots
               PROVE  /\ k \in Table /\ slots[k].rom \in seen
                      /\ slots[k].rom # None /\ slots[k].rom # rom
    OBVIOUS
  <2>1. k \in Table /\ k \in 0 .. Slots - 1
    BY TableIs
  <2>2. slots[k].rom \in seen /\ slots[k].rom \in Roms
    BY <2>1 DEF Faithful, Matches
  <2>3. slots[k].rom # rom
    BY <2>1 DEF EntriesOf
  <2> QED
    BY <2>1, <2>2, <2>3, TableIs
<1>4. \A k \in 0 .. Slots : f[k] = IF k < Slots THEN slots[k].rom ELSE rom
  OBVIOUS
<1>5. f \in [0 .. Slots -> more]
  BY <1>3
<1> HIDE DEF f
<1>6. ASSUME NEW j \in 0 .. Slots, NEW k \in 0 .. Slots, f[j] = f[k] PROVE j = k
  <2>1. CASE j < Slots /\ k < Slots
    <3>1. f[j] = slots[j].rom /\ f[k] = slots[k].rom
      BY <1>4, <2>1
    <3> QED
      BY <1>3, <1>6, <2>1, <3>1 DEF OneEach
  <2>2. CASE j < Slots /\ ~(k < Slots)
    BY <1>3, <1>4, <1>6, <2>2
  <2>3. CASE ~(j < Slots) /\ k < Slots
    BY <1>3, <1>4, <1>6, <2>3
  <2>4. CASE ~(j < Slots) /\ ~(k < Slots)
    BY <2>4, TableIs
  <2> QED
    BY <2>1, <2>2, <2>3, <2>4
<1>7. f \in Injection(0 .. Slots, more)
  BY <1>5, <1>6 DEF Injection, IsInjective
<1>8. Cardinality(0 .. Slots) = Slots + 1
  BY TableIs, FS_Interval
<1> HIDE DEF more
<1>9. Slots + 1 <= Cardinality(more)
  <2>1. Cardinality(0 .. Slots) <= Cardinality(more)
    BY <1>2, <1>7, FS_Injection
  <2> QED
    BY <1>8, <2>1
<1> QED
  BY <1>2, <1>9, TableIs DEF more

LEMMA EntryFits ==
  ASSUME NEW slots, NEW next, NEW seen, NEW last, OneEach(slots, next),
         Faithful(slots, next, seen, last), seen \subseteq Code,
         NEW rom \in Code, EntriesOf(slots, rom) = {}, Cardinality(seen \cup {rom}) <= Slots
  PROVE  /\ Wrapped(next) = next
         /\ Faithful([slots EXCEPT ![next].rom = rom], next + 1, seen \cup {rom}, last)
<1> DEFINE e == Unread(rom)
           s == [slots EXCEPT ![next] = e]
<1>1. slots = [j \in 0 .. Slots |-> slots[j]] /\ next \in 0 .. Slots /\ Slots \in Nat
  BY TableIs DEF OneEach, Faithful
<1>2. next < Slots
  <2>1. next # Slots
    BY FullTable
  <2> QED
    BY <1>1, <2>1
<1>3. next \in Table /\ slots[next] = NoEntry /\ NoEntry.rom = None
  <2>1. next \in next .. Slots
    BY <1>1
  <2> QED
    BY <1>1, <1>2, <2>1, TableIs DEF Faithful, NoEntry
<1>4. rom # None /\ rom \in Roms
  BY <1>3 DEF EntriesOf, Code
<1>5. [slots EXCEPT ![next].rom = rom] = s
  <2> DEFINE old == slots[next]
  <2>1. [old EXCEPT !.rom = rom] = e
    BY <1>3 DEF NoEntry, Unread
  <2> HIDE DEF old, e
  <2>2. [slots EXCEPT ![next] = [old EXCEPT !.rom = rom]] = [slots EXCEPT ![next].rom = rom]
    BY DEF old
  <2> QED
    BY <2>1, <2>2, Zenon
<1>6. s[next] = e /\ \A j \in 0 .. Slots : j # next => s[j] = slots[j]
  BY <1>1
<1> HIDE DEF s
<1>7. \A j \in 0 .. next - 1 : slots[j].rom # rom
  <2>1. 0 .. next - 1 \subseteq Table
    BY <1>1, TableIs
  <2> QED
    BY <2>1 DEF EntriesOf
<1>8. last[rom] = {}
  BY <1>4, <1>7 DEF Faithful
<1>9. ASSUME NEW j \in 0 .. next
      PROVE  s[j].rom \in seen \cup {rom} /\ Matches(s[j], last)
  <2>1. CASE j = next
    BY <1>4, <1>6, <1>8, <2>1 DEF Matches, Unread
  <2>2. CASE j # next
    <3>1. j \in 0 .. next - 1 /\ j \in 0 .. Slots
      BY <1>1, <2>2
    <3>2. s[j] = slots[j]
      BY <1>6, <2>2, <3>1
    <3>3. slots[j].rom \in seen /\ Matches(slots[j], last)
      BY <3>1 DEF Faithful
    <3> QED
      BY <3>2, <3>3, Zenon
  <2> QED
    BY <2>1, <2>2
<1>10. \A j \in next + 1 .. Slots : s[j] = NoEntry
  <2> SUFFICES ASSUME NEW j \in next + 1 .. Slots PROVE s[j] = NoEntry
    OBVIOUS
  <2>1. j \in next .. Slots /\ j \in 0 .. Slots /\ j # next
    BY <1>1
  <2> QED
    BY <1>6, <2>1 DEF Faithful
<1>11. ASSUME NEW c \in Roms, last[c] # {} PROVE \E j \in 0 .. next : s[j].rom = c
  <2>1. PICK j \in 0 .. next - 1 : slots[j].rom = c
    BY <1>11 DEF Faithful
  <2>2. j \in 0 .. next /\ j \in 0 .. Slots /\ j # next
    BY <1>1
  <2> QED
    BY <1>6, <2>1, <2>2
<1>12. next + 1 \in 0 .. Slots /\ (next + 1) - 1 = next
  BY <1>1, <1>2
<1>13. Faithful(s, next + 1, seen \cup {rom}, last)
  BY <1>9, <1>10, <1>11, <1>12 DEF Faithful
<1>14. Wrapped(next) = next
  BY <1>1, <1>2 DEF Wrapped
<1> QED
  BY <1>5, <1>13, <1>14

(* findSensor returns a place that has the code; the last readings are those *)
(* of before.                                                                *)
LEMMA SensorFound ==
  ASSUME NEW t, NEW last, Sound(t.table, t.next, t.looked, last), Carried \subseteq DOMAIN t,
         NEW rom \in Code
  PROVE  LET f == findSensor(t, rom)
         IN  /\ Sound(f.table, f.next, f.looked, last) /\ DOMAIN f = DOMAIN t
             /\ f.pos \in 0 .. Slots /\ f.table[f.pos].rom = rom
             /\ f.read = t.read /\ f.looked = t.looked \cup {rom}
<1> DEFINE found == EntriesOf(t.table, rom)
           new == Wrapped(t.next)
           seen == t.looked \cup {rom}
           s == [t EXCEPT !.looked = @ \cup {rom}]
           f == findSensor(t, rom)
<1>1. /\ DOMAIN s = DOMAIN t /\ s.table = t.table /\ s.next = t.next
      /\ s.looked = seen /\ s.read = t.read
  BY DEF Carried
<1>2. OneEach(t.table, t.next) /\ t.looked \subseteq Code /\ seen \subseteq Code
  BY DEF Sound
<1>3. ASSUME Cardinality(seen) <= Slots PROVE Faithful(t.table, t.next, t.looked, last)
  <2>1. IsFiniteSet(seen) /\ Cardinality(seen) \in Nat /\ Cardinality(t.looked) \in Nat
    BY <1>2, CodesFinite
  <2>2. Cardinality(t.looked) <= Cardinality(seen)
    BY <2>1, FS_Subset
  <2>3. Cardinality(t.looked) <= Slots
    BY <1>3, <2>1, <2>2, TableIs
  <2> QED
    BY <2>3 DEF Sound
<1>4. CASE found # {}
  <2>1. f = [s EXCEPT !.pos = Min(found)]
    BY <1>4 DEF findSensor
  <2>2. Min(found) \in found
    <3>1. found \subseteq Nat
      BY SizesAssumption DEF EntriesOf, Table
    <3>2. \E m \in found : \A k \in found : m <= k
      BY <1>4, <3>1, LeastNumber
    <3> HIDE DEF found
    <3> QED
      BY <3>2 DEF Min
  <2>3. Min(found) \in 0 .. Slots /\ t.table[Min(found)].rom = rom
    BY <2>2, SizesAssumption DEF EntriesOf, Table
  <2>4. Sound(t.table, t.next, seen, last)
    <3>1. ASSUME Faithful(t.table, t.next, t.looked, last)
          PROVE  Faithful(t.table, t.next, seen, last)
      BY <3>1 DEF Faithful
    <3> QED
      BY <1>2, <1>3, <3>1 DEF Sound
  <2> HIDE DEF found, s, f, seen
  <2>5. /\ DOMAIN f = DOMAIN t /\ f.table = t.table /\ f.next = t.next
        /\ f.pos = Min(found) /\ f.looked = seen /\ f.read = t.read
    BY <1>1, <2>1 DEF Carried
  <2>6. /\ Sound(f.table, f.next, f.looked, last) /\ DOMAIN f = DOMAIN t
        /\ f.pos \in 0 .. Slots /\ f.table[f.pos].rom = rom
        /\ f.read = t.read /\ f.looked = seen
    BY <2>3, <2>4, <2>5
  <2> QED
    BY <2>6 DEF f, seen
<1>5. CASE found = {}
  <2>1. f = [s EXCEPT !.table[new].rom = rom, !.next = new + 1, !.pos = new]
    BY <1>5 DEF findSensor
  <2> DEFINE slots == [t.table EXCEPT ![new].rom = rom]
  <2>2. OneEach(slots, new + 1) /\ new \in 0 .. Slots /\ slots[new].rom = rom
    BY <1>2, <1>5, EntryMade
  <2>3. ASSUME Cardinality(seen) <= Slots PROVE Faithful(slots, new + 1, seen, last)
    BY <1>2, <1>3, <1>5, <2>3, EntryFits
  <2>4. Sound(slots, new + 1, seen, last)
    BY <1>2, <2>2, <2>3 DEF Sound
  <2> HIDE DEF found, s, new, f, seen
  <2>5. /\ DOMAIN f = DOMAIN t /\ f.table = slots
        /\ f.next = new + 1 /\ f.pos = new /\ f.looked = seen /\ f.read = t.read
    BY <1>1, <2>1 DEF Carried
  <2>6. /\ Sound(f.table, f.next, f.looked, last) /\ DOMAIN f = DOMAIN t
        /\ f.pos \in 0 .. Slots /\ f.table[f.pos].rom = rom
        /\ f.read = t.read /\ f.looked = seen
    BY <2>2, <2>4, <2>5
  <2> QED
    BY <2>6 DEF f, seen
<1> QED
  BY <1>4, <1>5

(* What the loops pass on is sound for the readings of the rounds so far. *)
Latest(t) ==
  [d \in Roms |-> IF "read" \in DOMAIN t /\ d \in t.read THEN {pad[d]} ELSE lastRead[d]]

Kept(t, fields) == Sound(t.table, t.next, t.looked, Latest(t)) /\ DOMAIN t = fields

(* What a device can have measured, and what the page can have set. *)
Measures ==
  /\ pad = [d \in Roms |-> pad[d]]
  /\ \A d \in Roms : pad[d] \in Scratchpads(d)

Wired == Measures /\ \A a \in Alarm : alarm[a].rom \in Code

Updating == Carried \cup {"read", "lost"}
Checking == Carried \cup {"relay"}

LEMMA LookupKeeps ==
  ASSUME NEW t, NEW fields, Kept(t, fields), Carried \subseteq fields, NEW rom \in Code
  PROVE  LET f == findSensor(t, rom)
         IN  /\ Kept(f, fields) /\ Latest(f) = Latest(t)
             /\ f.pos \in 0 .. Slots /\ f.table[f.pos].rom = rom
             /\ f.read = t.read
<1> DEFINE f == findSensor(t, rom)
<1>1. Sound(t.table, t.next, t.looked, Latest(t)) /\ DOMAIN t = fields
  BY DEF Kept
<1>2. /\ Sound(f.table, f.next, f.looked, Latest(t)) /\ DOMAIN f = DOMAIN t
      /\ f.pos \in 0 .. Slots /\ f.table[f.pos].rom = rom
      /\ f.read = t.read
  BY <1>1, SensorFound
<1> HIDE DEF f
<1>3. Latest(f) = Latest(t)
  BY <1>2 DEF Latest
<1>4. Kept(f, fields)
  BY <1>1, <1>2, <1>3 DEF Kept
<1> QED
  BY <1>2, <1>3, <1>4 DEF f

LEMMA ReadKeeps ==
  ASSUME Wired, NEW t, Kept(t, Updating), NEW d \in Roms, NEW bad
  PROVE  Kept(ReadSensor(t, d, bad), Updating)
<1> DEFINE f == findSensor(t, d)
           e == Reading(d, pad[d])
           r == ReadSensor(t, d, bad)
<1>1. CASE r = t
  BY <1>1
<1>2. CASE IsSensor(d) /\ r = [f EXCEPT !.table[f.pos] = e, !.read = @ \cup {d},
                                        !.lost = coapclient /\ e # f.table[f.pos]]
  <2>1. Kept(f, Updating) /\ f.pos \in 0 .. Slots /\ f.table[f.pos].rom = d
    BY LookupKeeps, TableIs DEF Updating
  <2>2. IsEntry(e) /\ e.rom = d
    BY TableIs DEF IsEntry, Reading
  <2>3. pad[d] \in Scratchpads(d)
    BY DEF Wired, Measures
  <2> HIDE DEF f, r
  <2> DEFINE l == [Latest(f) EXCEPT ![d] = {pad[d]}]
             slots == [f.table EXCEPT ![f.pos] = e]
  <2>4. /\ OneEach(f.table, f.next) /\ f.looked \subseteq Code /\ DOMAIN f = Updating
        /\ Cardinality(f.looked) <= Slots => Faithful(f.table, f.next, f.looked, Latest(f))
    BY <2>1 DEF Kept, Sound
  <2>5. OneEach(slots, f.next)
    BY <2>1, <2>2, <2>4, EntryStored
  <2>6. ASSUME Cardinality(f.looked) <= Slots PROVE Faithful(slots, f.next, f.looked, l)
    <3>1. Latest(f) = [c \in Roms |-> Latest(f)[c]]
      BY DEF Latest
    <3> QED
      BY <1>2, <2>1, <2>3, <2>4, <2>6, <3>1, ReadingStored
  <2>7. Sound(slots, f.next, f.looked, l)
    BY <2>4, <2>5, <2>6 DEF Sound
  <2> HIDE DEF e, slots
  <2>8. /\ r.table = slots /\ r.next = f.next /\ r.looked = f.looked
        /\ r.read = f.read \cup {d} /\ DOMAIN r = Updating
    BY <1>2, <2>4 DEF Updating, Carried, slots
  <2>9. Latest(r) = l
    <3>1. "read" \in Updating
      BY DEF Updating
    <3> QED
      BY <2>4, <2>8, <3>1 DEF Latest
  <2>10. Kept(r, Updating)
    BY <2>7, <2>8, <2>9 DEF Kept
  <2> QED
    BY <2>10 DEF r
<1>3. \/ r = t
      \/ IsSensor(d) /\ r = [f EXCEPT !.table[f.pos] = e, !.read = @ \cup {d},
                                      !.lost = coapclient /\ e # f.table[f.pos]]
  BY DEF ReadSensor, KeepsOld, Reading
<1> QED
  BY <1>1, <1>2, <1>3

LEMMA CheckKeeps ==
  ASSUME Wired, NEW t, Kept(t, Checking), NEW a \in Alarm, NEW behind
  PROVE  Kept(CheckAlarm(t, a, behind), Checking)
<1> DEFINE f == findSensor(t, alarm[a].rom)
           r == CheckAlarm(t, a, behind)
           pin == Alarms[a].pin
<1>1. Kept(f, Checking)
  BY LookupKeeps DEF Wired, Checking
<1>2. \/ r = t \/ r = f
      \/ r = [f EXCEPT !.relay[pin] = Alarms[a].state]
      \/ r = [f EXCEPT !.relay[pin] = 1 - Alarms[a].state]
  BY DEF CheckAlarm
<1> HIDE DEF f, r, pin
<1>3. ASSUME r = t \/ r = f PROVE Kept(r, Checking)
  BY <1>1, <1>3, Zenon
<1>4. ASSUME r # t /\ r # f PROVE Kept(r, Checking)
  <2>1. DOMAIN f = Checking
    BY <1>1 DEF Kept
  <2>2. /\ r.table = f.table /\ r.next = f.next /\ r.looked = f.looked
        /\ DOMAIN r = Checking /\ "read" \notin Checking
    BY <1>2, <1>4, <2>1 DEF Checking, Carried
  <2>3. Latest(r) = Latest(f)
    BY <2>1, <2>2 DEF Latest
  <2> QED
    BY <1>1, <2>2, <2>3 DEF Kept
<1> QED
  BY <1>3, <1>4 DEF r

LEMMA ListKeeps ==
  ASSUME Wired, NEW t, Kept(t, Carried), NEW a \in Alarm
  PROVE  Kept(ListAlarm(t, a), Carried)
<1>1. alarm[a].rom \in Code
  BY DEF Wired
<1>2. Kept(findSensor(t, alarm[a].rom), Carried)
  BY <1>1, LookupKeeps
<1> QED
  BY <1>2, Zenon DEF ListAlarm

LEMMA RoundsKeep ==
  ASSUME NEW loop, NEW x, NEW start, NEW N \in Nat, NEW f, Rounds(f, loop, x, start, N),
         NEW fields, Kept(start, fields),
         \A t : \A n \in 1 .. N : Kept(t, fields) => Kept(Body(loop, x, t, n), fields)
  PROVE  Kept(f[N], fields)
<1> DEFINE T == {n \in 0 .. N : ~ Kept(f[n], fields)}
<1>1. \A n \in 0 .. N : f[n] = IF n = 0 THEN start ELSE Body(loop, x, f[n - 1], n)
  BY DEF Rounds
<1>2. ASSUME T # {} PROVE FALSE
  <2>1. PICK m \in T : \A k \in T : m <= k
    <3>1. T \subseteq Nat
      OBVIOUS
    <3> HIDE DEF T
    <3> QED
      BY <1>2, <3>1, LeastNumber
  <2>2. CASE m = 0
    BY <1>1, <2>1, <2>2
  <2>3. CASE m # 0
    <3>1. m \in 0 .. N /\ m \in 1 .. N /\ m - 1 \in 0 .. N /\ m - 1 \notin T
      BY <2>1, <2>3
    <3>2. Kept(f[m - 1], fields)
      BY <3>1
    <3>3. Kept(Body(loop, x, f[m - 1], m), fields)
      BY <3>1, <3>2
    <3> QED
      BY <1>1, <2>1, <2>3, <3>1, <3>3
  <2> QED
    BY <2>2, <2>3
<1>3. N \in 0 .. N
  OBVIOUS
<1> QED
  BY <1>2, <1>3

(* One bus, and all of them. *)
LEMMA BusKeeps ==
  ASSUME Wired, NEW t, Kept(t, Updating), NEW c, NEW bad
  PROVE  Kept(ReadBus(t, c, bad), Updating)
<1> DEFINE scan == search_sensors(Devices(c), Slots)
           N == Len(scan)
           x == [scan |-> scan, bad |-> bad]
           start == [t EXCEPT !.lost = FALSE]
           after == CHOOSE f : f = [n \in 0 .. N |->
                      IF n = 0 THEN start ELSE ReadSensor(f[n - 1], scan[n], bad)]
<1>0. N \in Nat /\ \A n \in 1 .. N : scan[n] \in Roms
  <2>1. Devices(c) \in SUBSET Roms
    BY DEF Devices
  <2>2. scan \in Seq(Devices(c))
    BY <2>1, SizesAssumption, SearchFindsAll
  <2> HIDE DEF scan
  <2> QED
    BY <2>1, <2>2
<1>1. ReadBus(t, c, bad) = after[N]
  BY DEF ReadBus
<1> HIDE DEF scan, N
<1>2. Kept(start, Updating)
  <2>1. DOMAIN t = Updating
    BY DEF Kept
  <2>2. /\ start.table = t.table /\ start.next = t.next /\ start.looked = t.looked
        /\ start.read = t.read /\ DOMAIN start = Updating
    BY <2>1 DEF Updating, Carried
  <2>3. Latest(start) = Latest(t)
    BY <2>1, <2>2 DEF Latest
  <2> QED
    BY <2>2, <2>3 DEF Kept
<1> HIDE DEF start
<1>3. PICK f : Rounds(f, "sensor", x, start, N)
  BY <1>0, RoundsExist
<1>4. \A s, n : Body("sensor", x, s, n) = ReadSensor(s, scan[n], bad)
  BY DEF Body
<1>5. \A s : \A n \in 1 .. N : Kept(s, Updating) => Kept(Body("sensor", x, s, n), Updating)
  <2> SUFFICES ASSUME NEW s, NEW n \in 1 .. N, Kept(s, Updating)
               PROVE  Kept(ReadSensor(s, scan[n], bad), Updating)
    BY <1>4
  <2> QED
    BY <1>0, ReadKeeps
<1> HIDE DEF x
<1>6. after = [n \in 0 .. N |-> IF n = 0 THEN start ELSE ReadSensor(after[n - 1], scan[n], bad)]
  <2>1. \A n \in 0 .. N : f[n] = IF n = 0 THEN start ELSE ReadSensor(f[n - 1], scan[n], bad)
    BY <1>3, <1>4 DEF Rounds
  <2>2. f = [n \in 0 .. N |-> f[n]]
    BY <1>3 DEF Rounds
  <2>3. f = [n \in 0 .. N |-> IF n = 0 THEN start ELSE ReadSensor(f[n - 1], scan[n], bad)]
    BY <2>1, <2>2
  <2> QED
    BY <2>3, Zenon
<1> HIDE DEF after
<1>7. Rounds(after, "sensor", x, start, N)
  <2>1. \A n \in 0 .. N : after[n] = IF n = 0 THEN start ELSE Body("sensor", x, after[n - 1], n)
    BY <1>4, <1>6
  <2>2. after = [n \in 0 .. N |-> after[n]]
    BY <1>6
  <2> QED
    BY <2>1, <2>2 DEF Rounds
<1>8. Kept(after[N], Updating)
  BY <1>0, <1>2, <1>5, <1>7, RoundsKeep
<1> QED
  BY <1>1, <1>8

(* The three callers that store the table. *)
SensorsStored ==
  /\ Wired /\ lastRead = [d \in Roms |-> lastRead[d]]
  /\ Sound(table, nextSensorPos, looked, lastRead)

LEMMA UpdateKeeps ==
  ASSUME SensorsStored, NEW bad, updateOWSensors(bad)
  PROVE  SensorsStored'
<1> DEFINE x == [bad |-> bad]
           start == [table |-> table, next |-> nextSensorPos, looked |-> looked,
                     pos |-> 0, read |-> {}, lost |-> FALSE]
           after == CHOOSE f : f = [c \in 0 .. Channels |->
                      IF c = 0 THEN start ELSE ReadBus(f[c - 1], c, bad)]
<1>0. Channels \in Nat
  BY SizesAssumption
<1>1. /\ Store(after[Channels]) /\ UNCHANGED <<wires, set>>
      /\ lastRead' = [d \in Roms |-> IF d \in after[Channels].read THEN {pad[d]} ELSE lastRead[d]]
  BY DEF updateOWSensors
<1>2. Kept(start, Updating)
  <2>1. Latest(start) = lastRead
    BY DEF Latest, SensorsStored
  <2>2. DOMAIN start = Updating
    BY DEF Updating, Carried
  <2> QED
    BY <2>1, <2>2 DEF Kept, SensorsStored
<1> HIDE DEF start
<1>3. PICK f : Rounds(f, "bus", x, start, Channels)
  BY <1>0, RoundsExist
<1>4. \A s, n : Body("bus", x, s, n) = ReadBus(s, n, bad)
  BY DEF Body
<1>5. \A s : \A n \in 1 .. Channels : Kept(s, Updating) => Kept(Body("bus", x, s, n), Updating)
  <2> SUFFICES ASSUME NEW s, NEW n, Kept(s, Updating)
               PROVE  Kept(ReadBus(s, n, bad), Updating)
    BY <1>4
  <2> QED
    BY BusKeeps DEF SensorsStored
<1> HIDE DEF x
<1>6. after = [c \in 0 .. Channels |-> IF c = 0 THEN start ELSE ReadBus(after[c - 1], c, bad)]
  <2>1. \A c \in 0 .. Channels : f[c] = IF c = 0 THEN start ELSE ReadBus(f[c - 1], c, bad)
    BY <1>3, <1>4 DEF Rounds
  <2>2. f = [c \in 0 .. Channels |-> f[c]]
    BY <1>3 DEF Rounds
  <2>3. f = [c \in 0 .. Channels |-> IF c = 0 THEN start ELSE ReadBus(f[c - 1], c, bad)]
    BY <2>1, <2>2
  <2> QED
    BY <2>3, Zenon
<1> HIDE DEF after
<1>7. Rounds(after, "bus", x, start, Channels)
  <2>1. \A c \in 0 .. Channels :
          after[c] = IF c = 0 THEN start ELSE Body("bus", x, after[c - 1], c)
    BY <1>4, <1>6
  <2>2. after = [c \in 0 .. Channels |-> after[c]]
    BY <1>6
  <2> QED
    BY <2>1, <2>2 DEF Rounds
<1>8. Kept(after[Channels], Updating)
  BY <1>0, <1>2, <1>5, <1>7, RoundsKeep
<1> DEFINE end == after[Channels]
<1>9. lastRead' = Latest(end)
  <2>1. "read" \in DOMAIN end
    BY <1>8 DEF Kept, Updating
  <2> QED
    BY <1>1, <2>1 DEF Latest
<1>10. Sound(table', nextSensorPos', looked', lastRead')
  BY <1>1, <1>8, <1>9 DEF Store, Kept
<1>11. Wired'
  BY <1>1 DEF SensorsStored, Wired, Measures, wires, set
<1>12. (lastRead = [d \in Roms |-> lastRead[d]])'
  BY <1>9 DEF Latest
<1> QED
  BY <1>10, <1>11, <1>12 DEF SensorsStored

LEMMA AlarmsKeep ==
  ASSUME SensorsStored, NEW behind, timedAlarmCheck(behind)
  PROVE  SensorsStored'
<1> DEFINE x == [behind |-> behind]
           N == Len(Alarms)
           start == [table |-> table, next |-> nextSensorPos, looked |-> looked,
                     pos |-> 0, relay |-> relay]
           after == CHOOSE f : f = [a \in 0 .. N |->
                      IF a = 0 THEN start ELSE CheckAlarm(f[a - 1], a, behind)]
<1>0. N \in Nat
  BY SizesAssumption
<1>1. Store(after[N]) /\ UNCHANGED <<wires, set, lastRead>>
  BY DEF timedAlarmCheck
<1> HIDE DEF N
<1>2. Kept(start, Checking)
  <2>1. DOMAIN start = Checking
    BY DEF Checking, Carried
  <2>2. Latest(start) = lastRead
    BY <2>1 DEF Checking, Latest, Carried, SensorsStored
  <2> QED
    BY <2>1, <2>2 DEF Kept, SensorsStored
<1> HIDE DEF start
<1>3. PICK f : Rounds(f, "alarm", x, start, N)
  BY <1>0, RoundsExist
<1>4. \A s, n : Body("alarm", x, s, n) = CheckAlarm(s, n, behind)
  BY DEF Body
<1>5. \A s : \A n \in 1 .. N : Kept(s, Checking) => Kept(Body("alarm", x, s, n), Checking)
  <2> SUFFICES ASSUME NEW s, NEW n \in 1 .. N, Kept(s, Checking)
               PROVE  Kept(CheckAlarm(s, n, behind), Checking)
    BY <1>4
  <2>1. n \in Alarm
    BY DEF Alarm, N
  <2> QED
    BY <2>1, CheckKeeps DEF SensorsStored
<1> HIDE DEF x
<1>6. after = [a \in 0 .. N |-> IF a = 0 THEN start ELSE CheckAlarm(after[a - 1], a, behind)]
  <2>1. \A a \in 0 .. N : f[a] = IF a = 0 THEN start ELSE CheckAlarm(f[a - 1], a, behind)
    BY <1>3, <1>4 DEF Rounds
  <2>2. f = [a \in 0 .. N |-> f[a]]
    BY <1>3 DEF Rounds
  <2>3. f = [a \in 0 .. N |-> IF a = 0 THEN start ELSE CheckAlarm(f[a - 1], a, behind)]
    BY <2>1, <2>2
  <2> QED
    BY <2>3, Zenon
<1> HIDE DEF after
<1>7. Rounds(after, "alarm", x, start, N)
  <2>1. \A a \in 0 .. N : after[a] = IF a = 0 THEN start ELSE Body("alarm", x, after[a - 1], a)
    BY <1>4, <1>6
  <2>2. after = [a \in 0 .. N |-> after[a]]
    BY <1>6
  <2> QED
    BY <2>1, <2>2 DEF Rounds
<1>8. Kept(after[N], Checking)
  BY <1>0, <1>2, <1>5, <1>7, RoundsKeep
<1> DEFINE end == after[N]
<1>9. Latest(end) = lastRead
  <2>1. "read" \notin DOMAIN end
    BY <1>8 DEF Kept, Checking, Carried
  <2> QED
    BY <2>1 DEF Latest, SensorsStored
<1>10. Sound(table', nextSensorPos', looked', lastRead')
  BY <1>1, <1>8, <1>9 DEF Store, Kept
<1>11. Wired'
  BY <1>1 DEF SensorsStored, Wired, Measures, wires, set
<1>12. (lastRead = [d \in Roms |-> lastRead[d]])'
  BY <1>1 DEF SensorsStored
<1> QED
  BY <1>10, <1>11, <1>12 DEF SensorsStored

LEMMA ListingKeeps ==
  ASSUME SensorsStored, print_alarmlist
  PROVE  SensorsStored'
<1> DEFINE x == [none |-> None]
           N == Len(Alarms)
           start == [table |-> table, next |-> nextSensorPos, looked |-> looked, pos |-> 0]
           after == CHOOSE f : f = [a \in 0 .. N |->
                      IF a = 0 THEN start ELSE ListAlarm(f[a - 1], a)]
<1>0. N \in Nat
  BY SizesAssumption
<1>1. Store(after[N]) /\ UNCHANGED <<wires, set, lastRead>>
  BY DEF print_alarmlist
<1> HIDE DEF N
<1>2. Kept(start, Carried)
  <2>1. DOMAIN start = Carried
    BY DEF Carried
  <2>2. Latest(start) = lastRead
    BY <2>1 DEF Latest, Carried, SensorsStored
  <2> QED
    BY <2>1, <2>2 DEF Kept, SensorsStored
<1> HIDE DEF start
<1>3. PICK f : Rounds(f, "list", x, start, N)
  BY <1>0, RoundsExist
<1>4. \A s, n : Body("list", x, s, n) = ListAlarm(s, n)
  BY DEF Body
<1>5. \A s : \A n \in 1 .. N : Kept(s, Carried) => Kept(Body("list", x, s, n), Carried)
  <2> SUFFICES ASSUME NEW s, NEW n \in 1 .. N, Kept(s, Carried)
               PROVE  Kept(ListAlarm(s, n), Carried)
    BY <1>4
  <2>1. n \in Alarm
    BY DEF Alarm, N
  <2> QED
    BY <2>1, ListKeeps DEF SensorsStored
<1> HIDE DEF x
<1>6. after = [a \in 0 .. N |-> IF a = 0 THEN start ELSE ListAlarm(after[a - 1], a)]
  <2>1. \A a \in 0 .. N : f[a] = IF a = 0 THEN start ELSE ListAlarm(f[a - 1], a)
    BY <1>3, <1>4 DEF Rounds
  <2>2. f = [a \in 0 .. N |-> f[a]]
    BY <1>3 DEF Rounds
  <2>3. f = [a \in 0 .. N |-> IF a = 0 THEN start ELSE ListAlarm(f[a - 1], a)]
    BY <2>1, <2>2
  <2> QED
    BY <2>3, Zenon
<1> HIDE DEF after
<1>7. Rounds(after, "list", x, start, N)
  <2>1. \A a \in 0 .. N : after[a] = IF a = 0 THEN start ELSE Body("list", x, after[a - 1], a)
    BY <1>4, <1>6
  <2>2. after = [a \in 0 .. N |-> after[a]]
    BY <1>6
  <2> QED
    BY <2>1, <2>2 DEF Rounds
<1>8. Kept(after[N], Carried)
  BY <1>0, <1>2, <1>5, <1>7, RoundsKeep
<1> DEFINE end == after[N]
<1>9. Latest(end) = lastRead
  <2>1. "read" \notin DOMAIN end
    BY <1>8 DEF Kept, Carried
  <2> QED
    BY <2>1 DEF Latest, SensorsStored
<1>10. Sound(table', nextSensorPos', looked', lastRead')
  BY <1>1, <1>8, <1>9 DEF Store, Kept
<1>11. Wired'
  BY <1>1 DEF SensorsStored, Wired, Measures, wires, set
<1>12. (lastRead = [d \in Roms |-> lastRead[d]])'
  BY <1>1 DEF SensorsStored
<1> QED
  BY <1>10, <1>11, <1>12 DEF SensorsStored

(* The table of a start, or a restart. *)
LEMMA EmptyTable ==
  Sound([k \in 0 .. Slots |-> NoEntry], 0, {}, [d \in Roms |-> {}])
<1> DEFINE s == [k \in 0 .. Slots |-> NoEntry]
           l == [d \in Roms |-> {}]
<1>1. s = [k \in 0 .. Slots |-> s[k]] /\ Table \subseteq 0 .. Slots
  BY TableIs
<1>2. \A k \in 0 .. Slots : s[k] = NoEntry
  OBVIOUS
<1>3. IsEntry(NoEntry) /\ NoEntry.rom = None
  BY TableIs DEF IsEntry, NoEntry
<1>4. 0 \in 0 .. Slots + 1 /\ 0 \in 0 .. Slots /\ 0 .. 0 - 1 = {}
  BY TableIs
<1>5. \A d \in Roms : l[d] = {}
  OBVIOUS
<1> HIDE DEF s, l
<1>6. OneEach(s, 0)
  BY <1>1, <1>2, <1>3, <1>4 DEF OneEach
<1>7. Faithful(s, 0, {}, l)
  BY <1>2, <1>4, <1>5 DEF Faithful
<1>8. Sound(s, 0, {}, l)
  BY <1>6, <1>7 DEF Sound
<1> QED
  BY <1>8 DEF s, l

LEMMA SensorStart ==
  ASSUME SensorInit
  PROVE  SensorsStored
<1>1. pad = [d \in Roms |-> PowerOn] /\ lastRead = [d \in Roms |-> {}]
  BY DEF SensorInit
<1>2. Measures
  BY <1>1, PowerOnAssumption DEF Measures
<1>3. \A a \in Alarm : alarm[a].rom \in Code
  BY TableIs DEF SensorInit
<1>4. Sound(table, nextSensorPos, looked, lastRead)
  BY EmptyTable DEF SensorInit
<1> QED
  BY <1>1, <1>2, <1>3, <1>4 DEF SensorsStored, Wired

LEMMA SensorStep ==
  ASSUME SensorsStored, [SensorNext]_sensorVars
  PROVE  SensorsStored'
<1> USE DEF SensorsStored
<1>1. ASSUME UNCHANGED <<entries, lastRead>>, Wired' PROVE SensorsStored'
  BY <1>1 DEF entries
<1>2. ASSUME UNCHANGED <<pad, alarm>> PROVE Wired'
  BY <1>2 DEF Wired, Measures
<1>3. ASSUME NEW bad, updateOWSensors(bad) PROVE SensorsStored'
  BY <1>3, UpdateKeeps
<1>4. ASSUME NEW behind, timedAlarmCheck(behind) PROVE SensorsStored'
  BY <1>4, AlarmsKeep
<1>5. CASE print_alarmlist
  BY <1>5, ListingKeeps
<1>6. CASE SensorRestart
  <2>1. Sound(table', nextSensorPos', looked', lastRead') /\ lastRead' = [d \in Roms |-> {}]
    BY <1>6, EmptyTable DEF SensorRestart
  <2>2. Wired'
    BY <1>2, <1>6 DEF SensorRestart, wires, set
  <2> QED
    BY <2>1, <2>2
<1>7. CASE UNCHANGED sensorVars
  BY <1>1, <1>2, <1>7 DEF sensorVars, wires, set
<1>8. ASSUME NEW d \in Roms, Unplug(d) PROVE SensorsStored'
  <2>1. Measures'
    BY <1>8, PowerOnAssumption DEF Unplug, Wired, Measures
  <2>2. UNCHANGED <<entries, lastRead, alarm>>
    BY <1>8 DEF Unplug, set
  <2> QED
    BY <1>1, <2>1, <2>2 DEF Wired
<1>9. ASSUME NEW d \in Roms, NEW c \in ChannelNo, Plug(d, c) PROVE SensorsStored'
  BY <1>1, <1>2, <1>9 DEF Plug, set
<1>10. CASE StartConversion
  <2>1. PICK temps \in [Plugged -> Pads] :
          /\ \A d \in Plugged : temps[d] \in Scratchpads(d)
          /\ pad' = [d \in Roms |-> IF d \in Plugged THEN temps[d] ELSE pad[d]]
    BY <1>10 DEF StartConversion, DS18X20_start_meas
  <2>2. \A d \in Roms : pad'[d] \in Scratchpads(d)
    BY <2>1 DEF Wired, Measures
  <2>3. Measures'
    BY <2>1, <2>2 DEF Measures
  <2>4. UNCHANGED <<entries, lastRead, alarm>>
    BY <1>10 DEF StartConversion, set
  <2> QED
    BY <1>1, <2>3, <2>4 DEF Wired
<1>11. CASE SaveCoap
  BY <1>1, <1>2, <1>11 DEF SaveCoap, wires
<1>12. ASSUME NEW a \in Alarm, NEW k \in Table, NEW on \in BOOLEAN, SaveAlarm(a, k, on)
       PROVE  SensorsStored'
  <2>1. k \in 0 .. Slots
    BY TableIs
  <2>2. table[k].rom \in Code
    BY <2>1 DEF Sound, OneEach, IsEntry
  <2>3. \A b \in Alarm : alarm'[b].rom \in Code
    <3> DEFINE new == [on |-> on, rom |-> table[k].rom]
    <3>1. alarm' = [alarm EXCEPT ![a] = new]
      BY <1>12 DEF SaveAlarm
    <3>2. new.rom \in Code
      BY <2>2
    <3> HIDE DEF new
    <3> SUFFICES ASSUME NEW b \in Alarm PROVE alarm'[b].rom \in Code
      OBVIOUS
    <3>3. alarm'[b] = new \/ alarm'[b] = alarm[b]
      BY <3>1
    <3> QED
      BY <3>2, <3>3 DEF Wired
  <2>4. UNCHANGED <<entries, lastRead, pad>>
    BY <1>12 DEF SaveAlarm, wires
  <2> QED
    BY <1>1, <2>3, <2>4 DEF Wired, Measures
<1> QED
  BY <1>3, <1>4, <1>5, <1>6, <1>7, <1>8, <1>9, <1>10, <1>11, <1>12 DEF SensorNext

(* No order of readings, alarms, pages and restarts gives a sensor two        *)
(* entries, in tables of any size, with any number of buses and alarms,       *)
(* however often the table starts over.                                       *)
THEOREM EntriesAreOne == SensorSpec => []OneEntryEach
<1>1. SensorInit => SensorsStored
  BY SensorStart
<1>2. SensorsStored /\ [SensorNext]_sensorVars => SensorsStored'
  BY SensorStep
<1>3. SensorsStored => OneEntryEach
  BY DEF SensorsStored, Sound, OneEach, OneEntryEach
<1> QED
  BY <1>1, <1>2, <1>3, PTL DEF SensorSpec

-----------------------------------------------------------------------------
(* What is told of a reading is what its scratchpad means.  (Bounds are       *)
(* inequalities here: the prover lists a range of numbers member by member.)  *)
Unit(p) == Power[3 - p.conf]

LEMMA UnitIs ==
  ASSUME NEW p \in Pads
  PROVE  Unit(p) \in {1, 2, 4, 8}
<1>1. 0 \in BitNo /\ 1 \in BitNo /\ 2 \in BitNo
  BY DEF BitNo, OW_SEARCH_FIRST
<1>2. Power[0] = 1 /\ Power[0 + 1] = 2 * Power[0]
  BY <1>1, PowerIs
<1>3. Power[1 + 1] = 2 * Power[1]
  BY <1>1, PowerIs
<1>4. Power[2 + 1] = 2 * Power[2]
  BY <1>1, PowerIs
<1>5. Power[0] = 1 /\ Power[1] = 2 /\ Power[2] = 4 /\ Power[3] = 8
  BY <1>2, <1>3, <1>4
<1>6. 3 - p.conf \in {0, 1, 2, 3}
  BY PadAssumption
<1> QED
  BY <1>5, <1>6 DEF Unit

(* Sixteenths as degrees and the rest. *)
LEMMA DegreesAndRest ==
  ASSUME NEW a \in Int, 0 <= a, a < 4096
  PROVE  10000 * ((a \div 16) % 256) + 625 * (a % 16) = 625 * a
<1> DEFINE q == a \div 16
           r == a % 16
<1>1. q \in Int /\ 0 <= q /\ q < 256 /\ r \in Int /\ a = 16 * q + r
  BY SMT
<1>2. q % 256 = q
  BY <1>1, SMT
<1> HIDE DEF q, r
<1>3. 10000 * q + 625 * r = 625 * a
  BY <1>1, SMT
<1> QED
  BY <1>2, <1>3, SMT DEF q, r

Tells(e) ==
  LET size == 10000 * e.cel + 625 * e.frac IN IF e.sign = "-" THEN -size ELSE size

LEMMA ReadingIs ==
  ASSUME NEW d \in Roms, NEW p, NEW raw \in Int, raw = Raw(Family[d], p),
         NEW a \in Int, a = (IF raw >= 32768 THEN 65536 - raw ELSE raw),
         NEW b \in Int, 0 <= b, b < 4096, b = Defined(Family[d], a, p.conf)
  PROVE  /\ Reading(d, p).sign = (IF raw >= 32768 THEN "-" ELSE "+")
         /\ Tells(Reading(d, p)) = IF raw >= 32768 THEN -(625 * b) ELSE 625 * b
<1> DEFINE e == Reading(d, p)
<1>1. Sign(raw) = IF raw >= 32768 THEN "-" ELSE "+"
  BY SMT DEF Sign
<1>2. a = IF Sign(raw) = "-" THEN 65536 - raw ELSE raw
  BY <1>1, SMT
<1>3. DS18X20_meas_to_cel(Family[d], p) = [sign |-> Sign(raw), cel |-> (b \div 16) % 256, frac |-> b % 16]
  BY <1>2, SMT DEF DS18X20_meas_to_cel
<1>4. e.sign = Sign(raw) /\ e.cel = (b \div 16) % 256 /\ e.frac = b % 16
  BY <1>3, SMT DEF Reading
<1>5. 10000 * e.cel + 625 * e.frac = 625 * b
  BY <1>4, DegreesAndRest, SMT
<1> QED
  BY <1>1, <1>4, <1>5, SMT DEF Tells

LEMMA ReadingIsTrue ==
  ASSUME NEW d \in Roms, IsSensor(d), NEW p \in Scratchpads(d)
  PROVE  /\ Reading(d, p).sign # "none"
         /\ Tells(Reading(d, p)) = 625 * Sixteenths(Family[d], p)
<1> DEFINE m == Signed(p.meas)
<1>1. p \in Pads
  BY Zenon DEF Scratchpads
<1>2. /\ p.meas \in Int /\ 0 <= p.meas /\ p.meas < 65536
      /\ p.remain \in Int /\ 0 <= p.remain /\ p.remain < 256
  BY <1>1, PadAssumption, SMT
<1>3. m \in Int /\ p.meas = (IF m < 0 THEN m + 65536 ELSE m) /\ m < 32768
  BY <1>2, SMT DEF Signed
<1>4. CASE Family[d] = DS18S20_ID
  <2>1. -256 <= m /\ m < 256
    BY <1>4, SMT DEF Scratchpads
  <2> HIDE DEF m
  <2> DEFINE h == m \div 2
             v == h * 16 - 4 + 16 - p.remain
             raw == Raw(Family[d], p)
             a == IF raw >= 32768 THEN 65536 - raw ELSE raw
  <2>2. Sixteenths(Family[d], p) = v
    BY <1>4, Zenon DEF Sixteenths, m
  <2>3. h \in Int /\ -128 <= h /\ h <= 127
    BY <1>3, <2>1, SMT
  <2>4. p.meas - (p.meas % 2) = IF m < 0 THEN 2 * h + 65536 ELSE 2 * h
    BY <1>2, <1>3, <2>1, SMT
  <2>5. m < 0 <=> h < 0
    BY <1>3, <2>1, SMT
  <2> HIDE DEF h
  <2>6. v \in Int /\ -2400 <= v /\ v < 2100 /\ (h < 0 => v < 0)
    BY <1>2, <2>3, SMT
  <2>7. raw = ((p.meas - (p.meas % 2)) * 8 + (16 - p.remain) - 4) % 65536
    BY <1>4, SMT DEF Raw
  <2>8. (p.meas - (p.meas % 2)) * 8 + (16 - p.remain) - 4 = IF m < 0 THEN v + 524288 ELSE v
    BY <1>2, <2>3, <2>4, SMT
  <2> HIDE DEF v, raw
  <2>9. raw = IF v < 0 THEN v + 65536 ELSE v
    BY <2>5, <2>6, <2>7, <2>8, SMT
  <2>10. /\ raw \in Int /\ a \in Int /\ 0 <= a /\ a < 4096 /\ (raw >= 32768 <=> v < 0)
         /\ a = IF v < 0 THEN -v ELSE v
    BY <2>6, <2>9, SMT
  <2>11. Defined(Family[d], a, p.conf) = a
    BY <1>4, SMT DEF Defined, DS18S20_ID, DS18B20_ID
  <2>12. a = IF raw >= 32768 THEN 65536 - raw ELSE raw
    OBVIOUS
  <2> HIDE DEF a
  <2>13. /\ Reading(d, p).sign = (IF raw >= 32768 THEN "-" ELSE "+")
         /\ Tells(Reading(d, p)) = IF raw >= 32768 THEN -(625 * a) ELSE 625 * a
    <3>1. raw = Raw(Family[d], p)
      BY Zenon DEF raw
    <3> QED
      BY <3>1, <2>10, <2>11, <2>12, ReadingIs, SMT
  <2> QED
    BY <2>2, <2>6, <2>10, <2>13, SMT
<1>5. CASE Family[d] # DS18S20_ID
  <2>1. Family[d] = DS18B20_ID
    BY <1>5 DEF IsSensor
  <2>2. -2048 <= m /\ m < 2048
    BY <1>5, SMT DEF Scratchpads
  <2> HIDE DEF m
  <2> DEFINE raw == p.meas
             a == IF m < 0 THEN -m ELSE m
             u == Unit(p)
             b == a - (a % u)
  <2>3. raw = Raw(Family[d], p)
    BY <1>5, SMT DEF Raw
  <2>4. /\ a \in Int /\ 0 <= a /\ a <= 2048 /\ (raw >= 32768 <=> m < 0)
        /\ a = (IF raw >= 32768 THEN 65536 - raw ELSE raw)
    BY <1>2, <1>3, <2>2, SMT
  <2>5. u \in {1, 2, 4, 8}
    BY <1>1, UnitIs, Zenon
  <2>6. b = Defined(Family[d], a, p.conf)
    BY <2>1, SMT DEF Defined, Unit
  <2>7. Sixteenths(Family[d], p) = Cut(m, u)
    BY <1>5, Zenon DEF Sixteenths, Unit, m
  <2> HIDE DEF u
  <2>8. Cut(m, u) = IF m < 0 THEN -(a \div u) * u ELSE (a \div u) * u
    BY <1>3, SMT DEF Cut
  <2> HIDE DEF a
  <2>9. b \in Int /\ 0 <= b /\ b < 4096 /\ b = (a \div u) * u /\ a \div u \in Int
    <3>1. CASE u = 1
      BY <2>4, <3>1, SMT
    <3>2. CASE u = 2
      BY <2>4, <3>2, SMT
    <3>3. CASE u = 4
      BY <2>4, <3>3, SMT
    <3>4. CASE u = 8
      BY <2>4, <3>4, SMT
    <3> QED
      BY <2>5, <3>1, <3>2, <3>3, <3>4, Zenon
  <2> HIDE DEF b, raw
  <2>10. /\ Reading(d, p).sign = (IF raw >= 32768 THEN "-" ELSE "+")
         /\ Tells(Reading(d, p)) = IF raw >= 32768 THEN -(625 * b) ELSE 625 * b
    <3>1. raw \in Int
      BY <1>2, SMT DEF raw
    <3> QED
      BY <3>1, <2>3, <2>4, <2>6, <2>9, ReadingIs, SMT
  <2>11. Sixteenths(Family[d], p) = IF m < 0 THEN -b ELSE b
    <3> DEFINE q == a \div u
    <3>1. q \in Int /\ b = q * u /\ Cut(m, u) = IF m < 0 THEN -q * u ELSE q * u
      BY <2>8, <2>9, Zenon
    <3>2. u \in Int
      BY <2>5, SMT
    <3> HIDE DEF q
    <3>3. -q * u = -b
      BY <3>1, <3>2, <2>5, SMT
    <3> QED
      BY <3>1, <3>3, <2>7, Zenon
  <2> QED
    BY <2>4, <2>9, <2>10, <2>11, SMT
<1> QED
  BY <1>4, <1>5, Zenon

(* Every line about a sensor tells its last reading, or nothing. *)
LEMMA LineIsTrue ==
  ASSUME SensorsStored, Cardinality(looked) <= Slots, NEW k \in Table, table[k].rom # None
  PROVE  LET e == EntryLine(k)
         IN  \/ lastRead[e.rom] = {} /\ e.tells \subseteq {0}
             \/ \E p \in lastRead[e.rom] : e.tells = {DS18X20_FRACCONV * Sixteenths(Family[e.rom], p)}
<1> DEFINE r == table[k]
           e == EntryLine(k)
<1>1. Faithful(table, nextSensorPos, looked, lastRead)
  BY DEF SensorsStored, Sound
<1>2. k < nextSensorPos
  <2>1. nextSensorPos \in 0 .. Slots /\ k \in 0 .. Slots
    BY <1>1, TableIs DEF Faithful
  <2>2. k \in nextSensorPos .. Slots => r = NoEntry
    BY <1>1 DEF Faithful
  <2> QED
    BY <2>1, <2>2, TableIs DEF NoEntry
<1>3. k \in 0 .. nextSensorPos - 1
  BY <1>1, <1>2, TableIs DEF Faithful, Table
<1>4. Matches(r, lastRead)
  BY <1>1, <1>3 DEF Faithful
<1>5. e.rom = r.rom
  BY DEF EntryLine
<1>6. e.tells = IF r.sign = "none" THEN {} ELSE {Tells(r)}
  BY SMT DEF EntryLine, Tells, DS18X20_FRACCONV
<1> HIDE DEF e
<1>7. CASE lastRead[r.rom] = {} /\ r = Unread(r.rom)
  <2>1. r.sign = "none"
    BY <1>7 DEF Unread
  <2> QED
    BY <1>5, <1>6, <1>7, <2>1 DEF e
<1>8. ASSUME NEW p \in lastRead[r.rom], IsSensor(r.rom), p \in Scratchpads(r.rom), r = Reading(r.rom, p)
      PROVE  e.tells = {DS18X20_FRACCONV * Sixteenths(Family[r.rom], p)}
  <2>1. r.rom \in Roms
    BY <1>4 DEF Matches
  <2>2. /\ Reading(r.rom, p).sign # "none"
        /\ Tells(Reading(r.rom, p)) = DS18X20_FRACCONV * Sixteenths(Family[r.rom], p)
    <3> HIDE DEF r
    <3> QED
      BY <1>8, <2>1, ReadingIsTrue, SMT DEF DS18X20_FRACCONV
  <2> QED
    BY <1>6, <1>8, <2>2, Zenon
<1> QED
  BY <1>4, <1>5, <1>7, <1>8 DEF Matches, e

-----------------------------------------------------------------------------
(* The sensors on the pins.  An answer is five bytes, of which the last is    *)
(* the sum of the others, until a bit of it arrives wrong.                    *)
LEMMA SummedIs ==
  ASSUME NEW a \in Int, NEW b \in Int, NEW c \in Int, NEW d \in Int
  PROVE  LET s == Summed(<<a, b, c, d>>)
         IN  /\ s \in Seq(Int) /\ Len(s) = 5
             /\ s[1] = a /\ s[2] = b /\ s[3] = c /\ s[4] = d
             /\ s[5] = (a + b + c + d) % 256
<1> DEFINE q == <<a, b, c, d>>
           sum == (a + b + c + d) % 256
<1>1. sum \in Int
  BY SMT
<1>2. Summed(q) = Append(q, sum)
  BY DEF Summed
<1> HIDE DEF sum
<1>3. Append(q, sum) \in Seq(Int)
  <2>1. q \in Seq(Int)
    OBVIOUS
  <2> QED
    BY <1>1, <2>1, AppendProperties
<1>4. LET s == Append(q, sum)
      IN  Len(s) = 5 /\ s[5] = sum /\ s[1] = a /\ s[2] = b /\ s[3] = c /\ s[4] = d
  BY <1>1
<1> HIDE DEF q
<1>5. LET s == Summed(q)
      IN  s \in Seq(Int) /\ Len(s) = 5 /\ s[5] = sum /\ s[1] = a /\ s[2] = b /\ s[3] = c /\ s[4] = d
  BY <1>2, <1>3, <1>4, Zenon
<1>6. sum = (a + b + c + d) % 256
  BY DEF sum
<1> HIDE DEF sum
<1> QED
  BY <1>5, <1>6, Zenon DEF q

SmallWeight(w) == w \in Int /\ 0 < w /\ w < 256
Rest(x) == x % 256

LEMMA BitWeights ==
  ASSUME NEW k \in 0 .. 7
  PROVE  SmallWeight(Power[k])
<1>1. \A j \in 0 .. 7 : j \in BitNo
  BY DEF BitNo, OW_SEARCH_FIRST
<1>2. Power[0] = 1 /\ \A j \in 0 .. 7 : Power[j + 1] = 2 * Power[j]
  BY <1>1, PowerIs
<1>3. Power[1] = 2 /\ Power[2] = 4 /\ Power[3] = 8
  <2>1. Power[0 + 1] = 2 /\ Power[1 + 1] = 2 * Power[1] /\ Power[2 + 1] = 2 * Power[2]
    BY <1>2
  <2> QED
    BY <2>1
<1>4. Power[4] = 16 /\ Power[5] = 32
  <2>1. Power[3 + 1] = 2 * Power[3] /\ Power[4 + 1] = 2 * Power[4]
    BY <1>2
  <2> QED
    BY <1>3, <2>1
<1>5. Power[6] = 64 /\ Power[7] = 128
  <2>1. Power[5 + 1] = 2 * Power[5] /\ Power[6 + 1] = 2 * Power[6]
    BY <1>2
  <2> QED
    BY <1>4, <2>1
<1> QED
  BY <1>2, <1>3, <1>4, <1>5, SMT DEF SmallWeight

(* A number that is off by such a weight has another rest. *)
LEMMA OtherRest ==
  ASSUME NEW S \in Int, NEW w, SmallWeight(w), NEW F, F = S - w \/ F = S + w
  PROVE  Rest(F) # Rest(S)
<1>1. w \in Int /\ 0 < w /\ w < 256
  BY DEF SmallWeight
<1>2. ASSUME NEW x \in Int PROVE Rest(x + w) # Rest(x)
  <2> DEFINE q == x \div 256
             r == x % 256
  <2>1. x = 256 * q + r /\ q \in Int /\ r \in Int /\ 0 <= r /\ r < 256
    BY SMT
  <2>2. Rest(x) = r
    BY DEF Rest
  <2> HIDE DEF q, r
  <2>3. CASE r + w < 256
    <3>1. (x + w) % 256 = r + w
      BY <1>1, <2>1, <2>3, SMT
    <3> QED
      BY <1>1, <2>1, <2>2, <3>1, SMT DEF Rest
  <2>4. CASE r + w >= 256
    <3>1. (x + w) % 256 = r + w - 256
      BY <1>1, <2>1, <2>4, SMT
    <3> QED
      BY <1>1, <2>1, <2>2, <3>1, SMT DEF Rest
  <2> QED
    BY <1>1, <2>1, <2>3, <2>4, SMT
<1>3. CASE F = S + w
  BY <1>2, <1>3, Zenon
<1>4. CASE F = S - w
  <2>1. F \in Int /\ F + w = S
    BY <1>1, <1>4
  <2> QED
    BY <1>2, <2>1, Zenon
<1> QED
  BY <1>3, <1>4

(* One wrong bit, in the sum or in front of it, is always noticed. *)
LEMMA FlippedIsSeen ==
  ASSUME NEW s \in Seq(Int), Len(s) = 5, s[5] = (s[1] + s[2] + s[3] + s[4]) % 256, NEW n \in Noise
  PROVE  ~SumIsRight(Flipped(s, n[1], n[2]))
<1>1. n[1] \in 1 .. 5 /\ n[2] \in 0 .. 7
  BY ReadingsAssumption
<1> DEFINE j == n[1]
           w == Power[n[2]]
           f == Flipped(s, n[1], n[2])
           v == IF Bit(s[j], n[2]) = 1 THEN s[j] - w ELSE s[j] + w
           a == s[1]
           b == s[2]
           c == s[3]
           d == s[4]
           S == a + b + c + d
<1>2. SmallWeight(w) /\ w \in Int /\ 0 < w
  BY <1>1, BitWeights, ZenonT(60) DEF SmallWeight
<1>3. f = [s EXCEPT ![j] = v]
  BY DEF Flipped
<1>4. s \in [1 .. 5 -> Int]
  BY LenProperties
<1>5. s = [i \in 1 .. 5 |-> s[i]] /\ a \in Int /\ b \in Int /\ c \in Int /\ d \in Int /\ s[5] \in Int
  BY <1>4
<1>6. v = s[j] - w \/ v = s[j] + w
  OBVIOUS
<1>7. s[5] = Rest(S)
  BY DEF Rest
<1> HIDE DEF v, w, f
<1>8. \A i \in 1 .. 5 : f[i] = IF i = j THEN v ELSE s[i]
  BY <1>1, <1>3, <1>5
<1>9. SUFFICES Rest(f[1] + f[2] + f[3] + f[4]) # f[5]
  BY Zenon DEF SumIsRight, Rest, f
<1>10. CASE j = 5
  <2>1. f[1] = a /\ f[2] = b /\ f[3] = c /\ f[4] = d /\ f[5] = v
    BY <1>8, <1>10
  <2>2. v # s[5]
    BY <1>2, <1>5, <1>6, <1>10
  <2> QED
    BY <1>7, <2>1, <2>2, Zenon
<1>11. CASE j \in 1 .. 4
  <2>1. f[5] = s[5] /\ \A i \in {1, 2, 3, 4} : f[i] = IF i = j THEN v ELSE s[i]
    BY <1>8, <1>11
  <2> DEFINE F == f[1] + f[2] + f[3] + f[4]
  <2>2. S \in Int
    BY <1>5
  <2>3. F = S - w \/ F = S + w
    <3>1. CASE j = 1
      <4>1. f[1] = v /\ f[2] = b /\ f[3] = c /\ f[4] = d /\ (v = a - w \/ v = a + w)
        BY <1>6, <2>1, <3>1
      <4> HIDE DEF a, b, c, d
      <4> QED
        BY <1>2, <1>5, <4>1
    <3>2. CASE j = 2
      <4>1. f[1] = a /\ f[2] = v /\ f[3] = c /\ f[4] = d /\ (v = b - w \/ v = b + w)
        BY <1>6, <2>1, <3>2
      <4> HIDE DEF a, b, c, d
      <4> QED
        BY <1>2, <1>5, <4>1
    <3>3. CASE j = 3
      <4>1. f[1] = a /\ f[2] = b /\ f[3] = v /\ f[4] = d /\ (v = c - w \/ v = c + w)
        BY <1>6, <2>1, <3>3
      <4> HIDE DEF a, b, c, d
      <4> QED
        BY <1>2, <1>5, <4>1
    <3>4. CASE j = 4
      <4>1. f[1] = a /\ f[2] = b /\ f[3] = c /\ f[4] = v /\ (v = d - w \/ v = d + w)
        BY <1>6, <2>1, <3>4
      <4> HIDE DEF a, b, c, d
      <4> QED
        BY <1>2, <1>5, <4>1
    <3> QED
      BY <1>11, <3>1, <3>2, <3>3, <3>4
  <2> HIDE DEF F, S
  <2>4. Rest(F) # Rest(S)
    BY <1>2, <2>2, <2>3, OtherRest, Zenon
  <2>5. Rest(F) # f[5]
    BY <1>7, <2>1, <2>4, Zenon DEF S
  <2> QED
    BY <2>5 DEF F
<1> QED
  BY <1>1, <1>10, <1>11

(* The values of a pin whose sensor has measured a, in the form they are kept. *)
Shown(type, a) ==
  IF type = TYPE_DHT22
  THEN [humidity |-> a.humidity,
        temperature |-> IF a.temperature < 0 THEN -a.temperature - 32768 ELSE a.temperature]
  ELSE [humidity |-> a.humidity \div 10, temperature |-> Size(a.temperature) \div 10]

LEMMA AirIs ==
  ASSUME NEW a \in Air
  PROVE  /\ a.temperature \in Int /\ -400 <= a.temperature /\ a.temperature <= 1250
         /\ a.humidity \in Int /\ 0 <= a.humidity /\ a.humidity <= 1000
         /\ Size(a.temperature) \in Int /\ 0 <= Size(a.temperature) /\ Size(a.temperature) <= 1250
<1>1. a.temperature \in Int /\ -400 <= a.temperature /\ a.temperature <= 1250
  BY ReadingsAssumption, SMT
<1>2. a.humidity \in Int /\ 0 <= a.humidity /\ a.humidity <= 1000
  BY ReadingsAssumption, SMT
<1>3. Size(a.temperature) = IF a.temperature < 0 THEN -a.temperature ELSE a.temperature
  BY DEF Size
<1>4. Size(a.temperature) \in Int /\ 0 <= Size(a.temperature) /\ Size(a.temperature) <= 1250
  BY <1>1, <1>3, SMT
<1> QED
  BY <1>1, <1>2, <1>4, SMT

(* An answer that arrives as it was sent gives what was measured... *)
LEMMA AnswerIs ==
  ASSUME NEW dht22 \in BOOLEAN, NEW a \in Air
  PROVE  LET s == Transmits(dht22, a)
         IN  /\ s \in Seq(Int) /\ Len(s) = 5 /\ s[5] = (s[1] + s[2] + s[3] + s[4]) % 256
             /\ SumIsRight(s)
             /\ dht_getdata(s, dht22) = {Shown(IF dht22 THEN TYPE_DHT22 ELSE TYPE_DHT11, a)}
<1> DEFINE h == a.humidity
           t == a.temperature
           z == Size(t)
           s == Transmits(dht22, a)
<1>1. /\ t \in Int /\ h \in Int /\ 0 <= h /\ h <= 1000 /\ z \in Int /\ 0 <= z /\ z <= 1250
      /\ z = IF t < 0 THEN -t ELSE t
  BY AirIs, SMT DEF Size
<1>2. ASSUME NEW b1 \in Int, NEW b2 \in Int, NEW b3 \in Int, NEW b4 \in Int,
             s = Summed(<<b1, b2, b3, b4>>)
      PROVE  /\ s \in Seq(Int) /\ Len(s) = 5 /\ s[5] = (s[1] + s[2] + s[3] + s[4]) % 256
             /\ s[1] = b1 /\ s[2] = b2 /\ s[3] = b3 /\ s[4] = b4
             /\ SumIsRight(s)
  <2>1. /\ s \in Seq(Int) /\ Len(s) = 5
        /\ s[1] = b1 /\ s[2] = b2 /\ s[3] = b3 /\ s[4] = b4
        /\ s[5] = (b1 + b2 + b3 + b4) % 256
    BY <1>2, SummedIs, SMT
  <2> HIDE DEF s
  <2>2. s # << >>
    <3>1. Len(s) = 5 /\ Len(<< >>) = 0
      BY <2>1
    <3> QED
      BY <3>1
  <2>3. s[5] = (s[1] + s[2] + s[3] + s[4]) % 256
    BY <2>1
  <2>4. s # NoAnswer
    BY <2>2 DEF NoAnswer
  <2>5. SumIsRight(s)
    BY <2>3, <2>4, SMT DEF SumIsRight
  <2> QED
    BY <2>1, <2>3, <2>5, SMT
<1>3. CASE dht22 = TRUE
  <2> DEFINE b1 == h \div 256
             b2 == h % 256
             b3 == z \div 256 + (IF t < 0 THEN 128 ELSE 0)
             b4 == z % 256
  <2>1. b1 \in Int /\ b2 \in Int /\ b3 \in Int /\ b4 \in Int
    BY <1>1, SMT
  <2>2. 256 * b1 + b2 = h /\ 256 * b3 + b4 = z + (IF t < 0 THEN 32768 ELSE 0)
    BY <1>1, SMT
  <2>3. s = Summed(<<b1, b2, b3, b4>>)
    BY <1>3, Zenon DEF Transmits
  <2> HIDE DEF s, b1, b2, b3, b4
  <2>4. /\ s \in Seq(Int) /\ Len(s) = 5 /\ s[5] = (s[1] + s[2] + s[3] + s[4]) % 256
        /\ s[1] = b1 /\ s[2] = b2 /\ s[3] = b3 /\ s[4] = b4
        /\ SumIsRight(s)
    BY <1>2, <2>1, <2>3
  <2>5. dht_getdata(s, dht22) =
          {[humidity |-> Signed(256 * s[1] + s[2]), temperature |-> Signed(256 * s[3] + s[4])]}
    BY <1>3, <2>4, Zenon DEF dht_getdata
  <2>6. Signed(256 * s[1] + s[2]) = h
    BY <1>1, <2>2, <2>4, SMT DEF Signed
  <2>7. Signed(256 * s[3] + s[4]) = IF t < 0 THEN -t - 32768 ELSE t
    <3>1. 256 * s[3] + s[4] = z + (IF t < 0 THEN 32768 ELSE 0)
      BY <2>2, <2>4, SMT
    <3> QED
      BY <1>1, <3>1, SMT DEF Signed
  <2>8. dht_getdata(s, dht22) = {Shown(TYPE_DHT22, a)}
    BY <2>5, <2>6, <2>7, SMT DEF Shown
  <2> QED
    BY <1>3, <2>4, <2>8, Zenon DEF s
<1>4. CASE dht22 = FALSE
  <2> DEFINE b1 == h \div 10
             b3 == z \div 10
  <2>1. b1 \in Int /\ b3 \in Int /\ 0 \in Int
    BY <1>1, SMT
  <2>2. s = Summed(<<b1, 0, b3, 0>>)
    BY <1>4, Zenon DEF Transmits
  <2> HIDE DEF s, b1, b3
  <2>3. /\ s \in Seq(Int) /\ Len(s) = 5 /\ s[5] = (s[1] + s[2] + s[3] + s[4]) % 256
        /\ s[1] = b1 /\ s[3] = b3
        /\ SumIsRight(s)
    BY <1>2, <2>1, <2>2, ZenonT(60)
  <2>4. dht_getdata(s, dht22) = {[humidity |-> b1, temperature |-> b3]}
    BY <1>4, <2>3, Zenon DEF dht_getdata
  <2>5. TYPE_DHT11 # TYPE_DHT22
    BY DEF TYPE_DHT11, TYPE_DHT22
  <2>6. Shown(TYPE_DHT11, a) = [humidity |-> b1, temperature |-> b3]
    BY <2>5, SMT DEF Shown, b1, b3
  <2>7. dht_getdata(s, dht22) = {Shown(TYPE_DHT11, a)}
    BY <2>4, <2>6, Zenon
  <2> QED
    BY <1>4, <2>3, <2>7, Zenon DEF s
<1> QED
  BY <1>3, <1>4, Zenon

(* ...and one that does not gives nothing. *)
LEMMA OtherAnswer ==
  ASSUME NEW dht22 \in BOOLEAN, NEW a \in Air, NEW bits \in Arrives(Transmits(dht22, a)),
         bits # Transmits(dht22, a)
  PROVE  dht_getdata(bits, dht22) = {}
<1> DEFINE s == Transmits(dht22, a)
<1>1. CASE bits = NoAnswer
  BY <1>1 DEF dht_getdata, SumIsRight
<1>2. CASE bits # NoAnswer
  <2>1. PICK n \in Noise : bits = Flipped(s, n[1], n[2])
    BY <1>2 DEF Arrives
  <2>2. s \in Seq(Int) /\ Len(s) = 5 /\ s[5] = (s[1] + s[2] + s[3] + s[4]) % 256
    BY AnswerIs, SMT
  <2> HIDE DEF s
  <2>3. ~SumIsRight(bits)
    BY <2>1, <2>2, FlippedIsSeen, Zenon
  <2> QED
    BY <2>3, Zenon DEF dht_getdata
<1> QED
  BY <1>1, <1>2

-----------------------------------------------------------------------------
(* Whatever was measured well last is what is kept of a pin. *)
Shows(type, values, air) ==
  \A a \in air : /\ type \in {TYPE_DHT11, TYPE_DHT22}
                 /\ a \in Measurable(type)
                 /\ values = Shown(type, a)

PinsInv ==
  /\ simpleTypes \in PinTypes
  /\ \A i \in DhtPin : Shows(simpleTypes[i], dht[i], lastAir[i])

LEMMA OutcomeShows ==
  ASSUME PinsInv, NEW i \in DhtPin, NEW o \in Outcomes(i)
  PROVE  Shows(simpleTypes[i], o.values, o.air)
<1>1. Shows(simpleTypes[i], dht[i], lastAir[i])
  BY DEF PinsInv
<1>2. CASE ~HasDht(i)
  <2>1. o = [values |-> dht[i], air |-> lastAir[i]]
    BY <1>2 DEF Outcomes
  <2> QED
    BY <1>1, <2>1
<1>3. CASE HasDht(i)
  <2> DEFINE dht22 == simpleTypes[i] = TYPE_DHT22
  <2>1. PICK a \in Measurable(simpleTypes[i]) :
          \E bits \in Arrives(Transmits(dht22, a)) : o \in Read(i, a, bits)
    BY <1>3, SMT DEF Outcomes
  <2>2. PICK bits \in Arrives(Transmits(dht22, a)) : o \in Read(i, a, bits)
    BY <2>1
  <2>3. dht22 \in BOOLEAN /\ a \in Air
    BY <2>1 DEF Measurable
  <2>4. simpleTypes[i] = IF dht22 THEN TYPE_DHT22 ELSE TYPE_DHT11
    BY <1>3 DEF HasDht
  <2>5. simpleTypes[i] \in {TYPE_DHT11, TYPE_DHT22}
    BY <1>3 DEF HasDht
  <2> DEFINE got == dht_getdata(bits, dht22)
             air == IF bits = Transmits(dht22, a) THEN {a} ELSE lastAir[i]
  <2>6. PICK v \in (IF got = {} THEN {dht[i]} ELSE got) : o = [values |-> v, air |-> air]
    BY <2>2, Zenon DEF Read
  <2>7. CASE bits = Transmits(dht22, a)
    <3>1. got = {Shown(simpleTypes[i], a)}
      BY <2>3, <2>4, <2>7, AnswerIs, Zenon
    <3> HIDE DEF got
    <3>2. o.values = Shown(simpleTypes[i], a) /\ o.air = {a}
      BY <2>6, <2>7, <3>1
    <3> QED
      BY <2>5, <3>2 DEF Shows
  <2>8. CASE bits # Transmits(dht22, a)
    <3>1. got = {}
      BY <2>2, <2>3, <2>8, OtherAnswer, Zenon
    <3> HIDE DEF got
    <3>2. o.values = dht[i] /\ o.air = lastAir[i]
      BY <2>6, <2>8, <3>1
    <3> QED
      BY <1>1, <3>2
  <2> QED
    BY <2>7, <2>8
<1> QED
  BY <1>2, <1>3

LEMMA PinsStart == PinsInit => PinsInv
<1> SUFFICES ASSUME PinsInit PROVE PinsInv
  OBVIOUS
<1>1. simpleTypes \in PinTypes /\ \A i \in DhtPin : lastAir[i] = {}
  BY DEF PinsInit
<1> QED
  BY <1>1 DEF PinsInv, Shows

LEMMA PinsStep ==
  ASSUME PinsInv, [PinsNext]_pinVars
  PROVE  PinsInv'
<1>1. CASE getDHTData
  <2>1. PICK after \in [DhtPin -> UNION {Outcomes(i) : i \in DhtPin}] :
          /\ \A i \in DhtPin : after[i] \in Outcomes(i)
          /\ dht' = [i \in DhtPin |-> after[i].values]
          /\ lastAir' = [i \in DhtPin |-> after[i].air]
    BY <1>1 DEF getDHTData
  <2>2. simpleTypes' = simpleTypes
    BY <1>1 DEF getDHTData
  <2>3. \A i \in DhtPin : Shows(simpleTypes[i], after[i].values, after[i].air)
    BY <2>1, OutcomeShows
  <2>4. \A i \in DhtPin : dht'[i] = after[i].values /\ lastAir'[i] = after[i].air
    BY <2>1
  <2>5. \A i \in DhtPin : Shows(simpleTypes'[i], dht'[i], lastAir'[i])
    BY <2>2, <2>3, <2>4
  <2> QED
    BY <2>2, <2>5 DEF PinsInv
<1>2. CASE PinsRestart
  <2>1. simpleTypes' \in PinTypes /\ \A i \in DhtPin : lastAir'[i] = {}
    BY <1>2 DEF PinsRestart
  <2> QED
    BY <2>1 DEF PinsInv, Shows
<1>3. CASE UNCHANGED pinVars
  BY <1>3 DEF pinVars, PinsInv
<1> QED
  BY <1>1, <1>2, <1>3 DEF PinsNext

(* A line about a pin gives back what its values stand for. *)
LEMMA PinIsTrue ==
  ASSUME PinsInv, NEW i \in DhtPin, HasDht(i), NEW a \in lastAir[i]
  PROVE  LET d == DhtLine(i)
         IN  /\ d.pin = i /\ d.humidity = Told(Meant(i, a.humidity))
             /\ OtherSign(i, a) \/ d.temperature = Told(Meant(i, a.temperature))
<1> DEFINE type == simpleTypes[i]
           t == a.temperature
           h == a.humidity
           z == Size(t)
           v == dht[i]
<1>1. a \in Measurable(type) /\ v = Shown(type, a)
  BY DEF PinsInv, Shows
<1>2. a \in Air
  BY <1>1 DEF Measurable
<1>3. t \in Int /\ -400 <= t /\ t <= 1250 /\ h \in Int /\ z = IF t < 0 THEN -t ELSE t
  BY <1>2, AirIs, SMT DEF Size
<1>4. DhtLine(i).pin = i /\ DhtLine(i).humidity = Humidity(i) /\ DhtLine(i).temperature = Temperature(i)
  BY DEF DhtLine
<1>5. TYPE_DHT11 # TYPE_DHT22
  BY DEF TYPE_DHT11, TYPE_DHT22
<1>6. CASE type = TYPE_DHT22
  <2>1. v.humidity = h /\ v.temperature = IF t < 0 THEN -t - 32768 ELSE t
    BY <1>1, <1>6, SMT DEF Shown
  <2>2. Humidity(i) = Told(Meant(i, h))
    BY <1>5, <1>6, <2>1, SMT DEF Humidity, Meant
  <2>3. Meant(i, t) = t
    BY <1>5, <1>6, Zenon DEF Meant
  <2>4. ASSUME ~OtherSign(i, a) PROVE Temperature(i) = Told(t)
    <3>1. t = 0 \/ (t < 0 <=> dht[0].temperature < 0)
      BY <1>6, <2>4 DEF OtherSign
    <3>2. CASE dht[0].temperature < 0
      <4>1. Temperature(i) = Told(-Magnitude(v.temperature))
        BY <1>5, <1>6, <3>2 DEF Temperature, Below
      <4>2. -Magnitude(v.temperature) = t
        BY <1>3, <2>1, <3>1, <3>2, SMT DEF Magnitude
      <4> QED
        BY <4>1, <4>2
    <3>3. CASE ~(dht[0].temperature < 0)
      <4>1. Temperature(i) = Unsigned(v.temperature)
        BY <1>5, <1>6, <3>3 DEF Temperature, Below
      <4>2. v.temperature = t /\ ~(t < 0)
        BY <1>3, <2>1, <3>1, <3>3, SMT
      <4>3. Unsigned(t) = Told(t)
        <5>1. (t < 0) = FALSE
          BY <4>2
        <5> QED
          BY <5>1, Zenon DEF Unsigned, Told
      <4> QED
        BY <4>1, <4>2, <4>3, Zenon
    <3> QED
      BY <3>2, <3>3
  <2> QED
    BY <1>4, <2>2, <2>3, <2>4
<1>7. CASE type = TYPE_DHT11
  <2>1. v.humidity = h \div 10 /\ v.temperature = z \div 10
    BY <1>1, <1>5, <1>7, SMT DEF Shown
  <2>2. ~(t < 0)
    BY <1>1, <1>3, <1>7, SMT DEF Measurable
  <2>3. z = t
    BY <1>3, <2>2, SMT
  <2>4. Humidity(i) = Told(Meant(i, h))
    BY <1>7, <2>1, SMT DEF Humidity, Meant
  <2>5. Temperature(i) = Told(Meant(i, t))
    <3> HIDE DEF z
    <3> QED
      BY <1>7, <2>1, <2>3, SMT DEF Temperature, Meant
  <2> QED
    BY <1>4, <2>4, <2>5
<1> QED
  BY <1>6, <1>7 DEF HasDht

-----------------------------------------------------------------------------
(* Every report is a page of lines about entries that are in use and pins     *)
(* that have a sensor; the full ones have a line for each.                    *)
IsPage(page) ==
  \E slots \in SUBSET Table, some \in SUBSET DhtPin : \E places : page = Page(slots, places, some)

LEMMA ReportsArePages ==
  ASSUME NEW page \in Reports
  PROVE  IsPage(page)
<1>1. ASSUME NEW slots \in SUBSET Table, NEW places, NEW some \in SUBSET DhtPin, page = Page(slots, places, some)
      PROVE  IsPage(page)
  BY <1>1, Zenon DEF IsPage
<1>2. {} \in SUBSET Table /\ Table \in SUBSET Table /\ {} \in SUBSET DhtPin /\ DhtPin \in SUBSET DhtPin
  OBVIOUS
<1>3. CASE page = Blank
  BY <1>1, <1>2, <1>3, Zenon DEF Blank
<1>4. ASSUME NEW places, page = Page(Table, places, DhtPin)
      PROVE  IsPage(page)
  BY <1>1, <1>2, <1>4, Zenon
<1>5. ASSUME NEW slots \in SUBSET Table, NEW places, page = coap_prepare(slots, places)
      PROVE  IsPage(page)
  BY <1>1, <1>2, <1>3, <1>5, Zenon DEF coap_prepare
<1>6. CASE page = print_export_htm \/ page = print_export_json
  BY <1>4, <1>6, Zenon DEF print_export_htm, print_export_json
<1>7. ASSUME NEW empty, page = print_webpage(empty)
      PROVE  IsPage(page)
  BY <1>3, <1>4, <1>7, Zenon DEF print_webpage
<1>8. ASSUME NEW type, page = fill_custom_client_data(type)
      PROVE  IsPage(page)
  BY <1>3, <1>4, <1>8, Zenon DEF fill_custom_client_data
<1>9. CASE page = print_sensorlist
  BY <1>1, <1>2, <1>9, Zenon DEF print_sensorlist
<1>10. CASE page = coap_send_digital \/ page = coap_send_analog
  BY <1>2, <1>5, <1>10, Zenon DEF coap_send_digital, coap_send_analog
<1>11. ASSUME NEW k \in Table, page = coap_send_OW(k)
       PROVE  IsPage(page)
  <2>1. {k} \in SUBSET Table
    OBVIOUS
  <2> QED
    BY <1>5, <1>11, <2>1, Zenon DEF coap_send_OW
<1> QED
  BY <1>6, <1>7, <1>8, <1>9, <1>10, <1>11, Zenon DEF Reports, FullPages

LEMMA FullPagesAre ==
  /\ \A page \in FullPages : \E places : page = Page(Table, places, DhtPin)
  /\ print_sensorlist = Page(Table, {}, {})
<1>1. \A page \in FullPages : \E places : page = Page(Table, places, DhtPin)
  <2>1. ~FALSE /\ ~(1 # 1)
    OBVIOUS
  <2>2. print_webpage(FALSE) = Page(Table, (0 .. 3) \cup DigitalPlaces, DhtPin)
    BY DEF print_webpage
  <2>3. fill_custom_client_data(1) = Page(Table, AnalogPlaces \cup DigitalPlaces, DhtPin)
    BY <2>1 DEF fill_custom_client_data
  <2> QED
    BY <2>2, <2>3, Zenon DEF FullPages, print_export_htm, print_export_json
<1> QED
  BY <1>1 DEF print_sensorlist

LEMMA LinesOfPage ==
  ASSUME NEW slots, NEW places, NEW some
  PROVE  LET page == Page(slots, places, some)
         IN  /\ page.entries = {EntryLine(k) : k \in {j \in slots : table[j].rom # None}}
             /\ page.dhts = {DhtLine(i) : i \in {j \in some : HasDht(j)}}
BY DEF Page

(* No order of readings, failures, lookups, settings and restarts makes a     *)
(* page, an upload or a message tell of a sensor what another one measured,   *)
(* or a number that it did not mean, and the full ones leave no sensor out:   *)
(* for any number of sensors, entries, buses and pins.                        *)
THEOREM ReadingsAreTold == SensorSpec /\ PinsSpec => []ReadingsTold
<1>1. SensorInit => SensorsStored
  BY SensorStart
<1>2. SensorsStored /\ [SensorNext]_sensorVars => SensorsStored'
  BY SensorStep
<1>3. PinsInit => PinsInv
  BY PinsStart
<1>4. PinsInv /\ [PinsNext]_pinVars => PinsInv'
  BY PinsStep
<1>5. SensorsStored /\ PinsInv => ReadingsTold
  <2> SUFFICES ASSUME SensorsStored, PinsInv PROVE ReadingsTold
    OBVIOUS
  <2>1. ASSUME NEW page \in Reports PROVE EntriesTrue(page) /\ DhtTrue(page)
    <3>1. PICK slots \in SUBSET Table, some \in SUBSET DhtPin :
            \E places : page = Page(slots, places, some)
      BY <2>1, ReportsArePages DEF IsPage
    <3>2. /\ page.entries = {EntryLine(k) : k \in {j \in slots : table[j].rom # None}}
          /\ page.dhts = {DhtLine(i) : i \in {j \in some : HasDht(j)}}
      BY <3>1, LinesOfPage
    <3>3. EntriesTrue(page)
      <4> SUFFICES ASSUME Cardinality(looked) <= Slots, NEW e \in page.entries
                   PROVE  \/ lastRead[e.rom] = {} /\ e.tells \subseteq {0}
                          \/ \E p \in lastRead[e.rom] :
                               e.tells = {DS18X20_FRACCONV * Sixteenths(Family[e.rom], p)}
        BY Zenon DEF EntriesTrue
      <4>1. PICK k \in Table : table[k].rom # None /\ e = EntryLine(k)
        BY <3>2
      <4> QED
        BY <4>1, LineIsTrue, Zenon
    <3>4. DhtTrue(page)
      <4> SUFFICES ASSUME NEW d \in page.dhts, NEW a \in lastAir[d.pin]
                   PROVE  /\ d.humidity = Told(Meant(d.pin, a.humidity))
                          /\ OtherSign(d.pin, a) \/ d.temperature = Told(Meant(d.pin, a.temperature))
        BY Zenon DEF DhtTrue
      <4>1. PICK i \in DhtPin : HasDht(i) /\ d = DhtLine(i)
        BY <3>2
      <4>2. d.pin = i
        BY <4>1 DEF DhtLine
      <4> QED
        BY <4>1, <4>2, PinIsTrue, SMT
    <3> QED
      BY <3>3, <3>4
  <2>2. ASSUME NEW page \in FullPages \cup {print_sensorlist}
        PROVE  {e.rom : e \in page.entries} = {table[k].rom : k \in Table} \ {None}
    <3>1. PICK places, some : page = Page(Table, places, some)
      BY FullPagesAre
    <3>2. page.entries = {EntryLine(k) : k \in {j \in Table : table[j].rom # None}}
      BY <3>1, LinesOfPage
    <3>3. \A k \in Table : EntryLine(k).rom = table[k].rom
      BY DEF EntryLine
    <3> QED
      BY <3>2, <3>3
  <2>3. ASSUME NEW page \in FullPages PROVE {d.pin : d \in page.dhts} = {i \in DhtPin : HasDht(i)}
    <3>1. PICK places : page = Page(Table, places, DhtPin)
      BY FullPagesAre
    <3>2. page.dhts = {DhtLine(i) : i \in {j \in DhtPin : HasDht(j)}}
      BY <3>1, LinesOfPage
    <3>3. \A i \in DhtPin : DhtLine(i).pin = i
      BY DEF DhtLine
    <3> QED
      BY <3>2, <3>3
  <2> QED
    BY <2>1, <2>2, <2>3, Zenon DEF ReadingsTold
<1> QED
  BY <1>1, <1>2, <1>3, <1>4, <1>5, PTL DEF SensorSpec, PinsSpec
=============================================================================
