------------------------------ MODULE Packets ------------------------------
(***************************************************************************)
(* The checksums of what S3 sends (ip_arp_udp_tcp.c).  The device answers   *)
(* a ping in the packet it came in and corrects its checksum by what has   *)
(* changed; it makes headers, segments and datagrams of its own and sums   *)
(* them up.  A receiver sums up everything, the checksum included, and      *)
(* drops what does not come to zero in ones' complement.                   *)
(*                                                                         *)
(* A packet is its bytes that the checksum is over, with the checksum in    *)
(* the place the code puts it.  The addresses of the pseudo header are left *)
(* out: they are words added by both sides.  Bytes are of base Octet.        *)
(***************************************************************************)
EXTENDS Integers, Sequences

CONSTANTS
  Octet,     \* values of a byte (256)
  Echo,      \* ICMP_TYPE_ECHOREQUEST_V (8)
  Udp, Tcp,  \* their protocol numbers (17, 6)
  MaxData    \* bound: bytes of data

Word == Octet * Octet
Octets == 0 .. Octet - 1
Data == UNION {[1 .. n -> Octets] : n \in 0 .. MaxData}

ASSUME PacketsAssumption ==
  /\ Octet \in Nat /\ Octet > 1 /\ Echo \in 1 .. Octet - 1
  /\ MaxData \in Nat
  /\ Udp \in Nat /\ Tcp \in Nat

VARIABLES
  packet   \* the packet under way: [from, type, bytes], or the like with no bytes

Quiet == [from |-> "nobody", type |-> "ip", bytes |-> << >>]

packetVars == <<packet>>

PacketsInit == packet = Quiet

-----------------------------------------------------------------------------
(* 16 bit words, the last one padded with zero. *)
Words(bytes) ==
  [k \in 1 .. (Len(bytes) + 1) \div 2 |->
     bytes[2 * k - 1] * Octet + (IF 2 * k > Len(bytes) THEN 0 ELSE bytes[2 * k])]

Total(numbers) ==
  LET sum[n \in 0 .. Len(numbers)] == IF n = 0 THEN 0 ELSE sum[n - 1] + numbers[n]
  IN  sum[Len(numbers)]

(* What the pseudo header adds: a protocol number and the length without     *)
(* that of the addresses.                                                    *)
Pseudo(type, bytes) ==
  CASE type = "udp" -> Udp + Len(bytes)
    [] type = "tcp" -> Tcp + Len(bytes)
    [] OTHER -> 0

(* The carry is added until there is none (for the mutation runs: once).     *)
AddedOnce(sum) == ((sum % Word) + (sum \div Word)) % Word

EndAround(sum) ==
  LET added[n \in 0 .. sum] == IF n < Word THEN n ELSE added[(n % Word) + (n \div Word)]
  IN  added[sum]

checksum(type, bytes) ==
  (Word - 1) - EndAround(Pseudo(type, bytes) + Total(Words(bytes)))

(* What the receiver does, of which ones' complement is the definition. *)
Verifies(type, bytes) ==
  (Pseudo(type, bytes) + Total(Words(bytes))) % (Word - 1) = 0

(* A packet whose first two bytes are the checksum: the place does not       *)
(* matter to a sum of words.                                                 *)
Filled(type, data) ==
  LET ck == checksum(type, <<0, 0>> \o data) IN <<ck \div Octet, ck % Octet>> \o data

-----------------------------------------------------------------------------
(* A host pings the device with a packet that verifies. *)
Ping(hi, lo, data) ==
  LET bytes == <<Echo, 0, hi, lo>> \o data IN
  /\ packet = Quiet
  /\ Verifies("icmp", bytes)
  /\ packet' = [from |-> "host", type |-> "icmp", bytes |-> bytes]

(* The type is set to that of a reply, 0, and the checksum corrected.        *)
Corrected(hi, lo) ==
  <<(hi + Echo) % Octet, IF hi > Octet - 1 - Echo THEN (lo + 1) % Octet ELSE lo>>

make_echo_reply_from_request ==
  /\ packet.from = "host"
  /\ packet' = [packet EXCEPT
       !.from = "device",
       !.bytes = <<0, 0>> \o Corrected(packet.bytes[3], packet.bytes[4])
                 \o SubSeq(packet.bytes, 5, Len(packet.bytes))]

(* Headers, segments and datagrams of the device's own. *)
SendPacket(type, data) ==
  /\ packet = Quiet
  /\ packet' = [from |-> "device", type |-> type, bytes |-> Filled(type, data)]

(* Arrived, or lost. *)
Taken == packet # Quiet /\ packet' = Quiet

PacketsNext ==
  \/ \E hi, lo \in Octets, data \in Data : Ping(hi, lo, data)
  \/ make_echo_reply_from_request
  \/ \E type \in {"ip", "udp", "tcp"}, data \in Data : SendPacket(type, data)
  \/ Taken

PacketsSpec == PacketsInit /\ [][PacketsNext]_packetVars

-----------------------------------------------------------------------------
(* What the device sends is taken by who gets it, for every data of every    *)
(* length: a packet it has summed up, and a reply to a ping, unless the low  *)
(* byte of the ping's checksum is at its end when the high one carries.      *)
IsReply == packet.from = "device" /\ packet.type = "icmp"

CarryLost == IsReply /\ packet.bytes[3] < Echo /\ packet.bytes[4] = 0

SentIsTaken ==
  packet.from = "device" /\ ~CarryLost => Verifies(packet.type, packet.bytes)
=============================================================================
