------------------------------- MODULE RxRing -------------------------------
(***************************************************************************)
(* The receive buffer of the Ethernet chip: the chip stores frames in a    *)
(* ring and links each to the next; enc28j60PacketReceive of S3/enc28j60.c *)
(* follows the links and gives the memory it has read back by moving the   *)
(* chip's read pointer ERXRDPT, the one location the chip does not write.  *)
(*                                                                         *)
(* The read pointer must be odd (point 13 of the chip's errata), hence the byte   *)
(* before the next frame.  The address has 13 bits; gNextPacketPtr is an   *)
(* int16_t.  A frame is its place: how many bytes it takes with its header *)
(* of six, rounded up to an even number by the chip.                       *)
(***************************************************************************)
EXTENDS Integers, Sequences, FiniteSets

CONSTANTS
  RXSTOP_INIT,   \* last byte of the ring, which starts at 0
  Memory,        \* locations an address can name (8192)
  FrameSizes,
  MaxFrames      \* frames the chip counts (EPKTCNT)

ASSUME RxAssumption ==
  /\ RXSTOP_INIT \in Nat /\ RXSTOP_INIT % 2 = 1
  /\ Memory \in Nat /\ Memory % 2 = 0 /\ Memory > RXSTOP_INIT + 1
  /\ \A n \in FrameSizes : n \in 2 .. RXSTOP_INIT /\ n % 2 = 0

VARIABLES
  gNextPacketPtr,
  ERXRDPT, ERXWRPT,  \* the chip's pointers
  waiting,           \* the frames in the ring, oldest first: [start, next]
  plen,              \* what PacketReceive returned last, 0: no packet
  overwritten        \* history: the chip wrote over a frame that waits

rxVars == <<gNextPacketPtr, ERXRDPT, ERXWRPT, waiting, plen, overwritten>>

Ring == RXSTOP_INIT + 1

RxInit ==
  /\ gNextPacketPtr = 0 /\ ERXRDPT = 0 /\ ERXWRPT = 0
  /\ waiting = << >> /\ plen = 0 /\ overwritten = FALSE

(* Also after every restart. *)
enc28j60Init ==
  /\ gNextPacketPtr' = 0 /\ ERXRDPT' = 0 /\ ERXWRPT' = 0
  /\ waiting' = << >> /\ plen' = 0 /\ overwritten' = FALSE

(* The chip: it goes on from the write pointer up to the byte before the     *)
(* read pointer, or round and round when it does not meet that.              *)
Used(f) == IF f.next > f.start THEN f.start .. f.next - 1
           ELSE (f.start .. RXSTOP_INIT) \cup (0 .. f.next - 1)

FreeSpace ==
  IF ERXWRPT = ERXRDPT THEN RXSTOP_INIT
  ELSE IF ERXWRPT > ERXRDPT THEN RXSTOP_INIT - (ERXWRPT - ERXRDPT)
  ELSE ERXRDPT - ERXWRPT

Arrive(n) ==
  LET f == [start |-> ERXWRPT, next |-> (ERXWRPT + n) % Ring] IN
  /\ ~overwritten
  /\ n <= FreeSpace /\ Len(waiting) < MaxFrames
  /\ waiting' = Append(waiting, f)
  /\ ERXWRPT' = f.next
  /\ overwritten' = \E k \in DOMAIN waiting : Used(waiting[k]) \cap Used(f) # {}
  /\ UNCHANGED <<gNextPacketPtr, ERXRDPT, plen>>

(* Up to which byte the memory is given back (for the mutation runs: the     *)
(* next frame's link and length as well).  The comparison is signed, the     *)
(* register takes the low bits.                                              *)
FreesHeader(next) == (next + 3) % Ring

Freed(next) == IF next - 1 > RXSTOP_INIT THEN RXSTOP_INIT ELSE (next - 1) % Memory

(* The frame at gNextPacketPtr is read, its link first; one of a bad CRC      *)
(* gives no packet and is passed over all the same (for the mutation runs:   *)
(* is taken off the count only).                                             *)
StopsAtBad(valid) ==
  /\ ~overwritten /\ waiting # << >>
  /\ waiting' = Tail(waiting)
  /\ gNextPacketPtr' = IF valid THEN Head(waiting).next ELSE gNextPacketPtr
  /\ ERXRDPT' = IF valid THEN Freed(Head(waiting).next) ELSE ERXRDPT
  /\ UNCHANGED <<ERXWRPT, plen, overwritten>>

enc28j60PacketReceive(valid) ==
  /\ ~overwritten
  /\ waiting # << >>
  /\ LET f == Head(waiting) IN
     /\ gNextPacketPtr' = f.next
     /\ plen' = IF valid THEN Cardinality(Used(f)) ELSE 0
     /\ ERXRDPT' = Freed(f.next)
  /\ waiting' = Tail(waiting)
  /\ UNCHANGED <<ERXWRPT, overwritten>>

RxNext ==
  \/ \E n \in FrameSizes : Arrive(n)
  \/ \E valid \in BOOLEAN : enc28j60PacketReceive(valid)
  \/ enc28j60Init

RxSpec == RxInit /\ [][RxNext]_rxVars

-----------------------------------------------------------------------------
(* The driver and the chip never lose one another: frames come out one by    *)
(* one in the order they came, and the driver's pointer is at the oldest one *)
(* that waits, or where the next will be; the read pointer is odd on every   *)
(* wrap ("never write an even address") once a frame has been read.          *)
FramesInOrder ==
  /\ ERXRDPT = 0 \/ ERXRDPT % 2 = 1
  /\ gNextPacketPtr = IF waiting = << >> THEN ERXWRPT ELSE Head(waiting).start
  /\ \A k \in 1 .. Len(waiting) - 1 : waiting[k].next = waiting[k + 1].start

(* A frame that waits is not written over, unless the frame before it ended  *)
(* with the last byte of the ring: the code then writes -1 to the read       *)
(* pointer, a location outside of the ring, and nothing stops the chip.      *)
FramesKept == overwritten => gNextPacketPtr = 0 /\ ERXRDPT = Memory - 1
=============================================================================
