----------------------------- MODULE CommsProofs -----------------------------
(***************************************************************************)
(* The packet layer keeps its promises for all sizes of packets and of the *)
(* buffer, whatever the line does to their bytes.                          *)
(*                                                                         *)
(* The k-th packet acknowledged is Kept(k), read already or still in the   *)
(* buffer; the indices are those counts modulo the slots in use.  A frame  *)
(* is followed by the last byte of its checksum, which no other frame has: *)
(* these bytes say what of the host's packets is still under way.          *)
(***************************************************************************)
EXTENDS Comms, SequenceTheorems, Numbers

(* The bytes of the host's frames: the last one of every checksum, and     *)
(* what stands before it or comes from elsewhere.                          *)
HostPackets ==
  {DataPacket(n) : n \in 1 .. MaxSent} \cup {SingleByte(RetByte), SingleByte(AckByte)}
LastOf(pkt) == Crc(pkt, CrcBytes - 1)
InnerBytes  ==
  {Plain(v) : v \in 1 .. MaxSent \cup {1, RetByte, AckByte, PadByte, GarbledByte}}
    \cup {Crc(pkt, j) : pkt \in HostPackets, j \in 0 .. CrcBytes - 2}
WireBytes   == InnerBytes \cup {LastOf(pkt) : pkt \in HostPackets}

(* What may stand in temp_packet, in whatever framing.                     *)
HeldBytes   == WireBytes \cup {Plain(0)}
HeldPackets == [length : HeldBytes, data : [1 .. Payload -> HeldBytes]]

(* The indices count packets modulo the slots in use, and never is every   *)
(* slot taken.                                                             *)
Indices ==
  /\ buffer_write_idx = acked % UsedSlots
  /\ buffer_read_idx = Len(delivered) % UsedSlots
  /\ Len(delivered) <= acked /\ acked - Len(delivered) < UsedSlots

(* What the receiver holds are bytes of the line, or what it started with. *)
Held ==
  /\ rx \in Seq(WireBytes)
  /\ temp_packet.length \in HeldBytes /\ temp_packet.data \in [1 .. Payload -> HeldBytes]
  /\ buffer \in [0 .. BufferSize - 1 -> HeldPackets]
  /\ delivered \in Seq(HeldPackets)

(* A counter is at zero outside its own field.                             *)
CommsInv ==
  /\ TypeOK
  /\ state # "Await_Paylod" => payloads_bytes_count = 0
  /\ state # "Await_CRC" => crc_bytes_count = 0
  /\ DOMAIN temp_packet = {"length", "data", "crc"}
  /\ Indices /\ Held
-----------------------------------------------------------------------------
(* Slots.                                                                  *)

(* The mask leads around in the first slots.                               *)
LEMMA Slots == UsedSlots \in 1 .. BufferSize /\ RunsAround(UsedSlots)
BY SlotsCycle, Zenon DEF UsedSlots

(* From the slot of a packet to the slot of the next.                      *)
LEMMA SlotOf ==
  ASSUME NEW n \in Nat
  PROVE  /\ n % UsedSlots \in 0 .. UsedSlots - 1
         /\ n % UsedSlots \in 0 .. BufferSize - 1
         /\ NextSlot(n % UsedSlots) = (n + 1) % UsedSlots
<1> DEFINE K == UsedSlots
           s == n % K
<1>1. K \in Nat \ {0} /\ K <= BufferSize /\ BufferSize \in Nat
      /\ \A i \in 0 .. K - 1 : NextSlot(i) = (i + 1) % K
  BY Slots, CommsAssumption DEF RunsAround
<1> HIDE DEF K
<1>2. s \in 0 .. K - 1 /\ s \in 0 .. BufferSize - 1
  BY <1>1
<1>3. ((n % K) + 1) % K = (n + 1) % K
  <2>1. \A x, y \in Int : ((x % K) + y) % K = (x + y) % K
    BY <1>1, ModPlus
  <2> QED
    BY <2>1
<1> QED
  BY <1>1, <1>2, <1>3 DEF K

(* Packets that fit into the slots together are in different ones.         *)
LEMMA SlotsApart ==
  ASSUME NEW m \in Nat, NEW n \in Nat, m <= n, n - m < UsedSlots
  PROVE  /\ ((n % UsedSlots) - (m % UsedSlots)) % UsedSlots = n - m
         /\ n % UsedSlots = m % UsedSlots => n = m
<1> DEFINE K == UsedSlots
<1>1. K \in Nat \ {0} /\ n - m \in 0 .. K - 1
  BY Slots, CommsAssumption
<1> HIDE DEF K
<1>2. ((n % K) - (m % K)) % K = ((n % K) - m) % K
  <2>1. n % K \in Int /\ m \in Int
    BY <1>1
  <2>2. \A x, y \in Int : (x - (y % K)) % K = (x - y) % K
    BY <1>1, ModMinus
  <2> QED
    BY <2>1, <2>2
<1>3. ((n % K) - m) % K = (n - m) % K
  <2>1. (n % K) - m = (n % K) + (-m) /\ n + (-m) = n - m /\ -m \in Int
    BY <1>1
  <2>2. \A x, y \in Int : ((x % K) + y) % K = (x + y) % K
    BY <1>1, ModPlus
  <2> QED
    BY <2>1, <2>2
<1>4. ASSUME NEW d \in 0 .. K - 1
      PROVE  d % K = d
  <2>1. d \in Int /\ 0 \in Int /\ d = K * 0 + d
    BY <1>1
  <2> QED
    BY <1>1, <2>1, ModUnique
<1>5. ((n % K) - (m % K)) % K = n - m
  BY <1>1, <1>2, <1>3, <1>4
<1>6. n % K = m % K => n = m
  <2>1. n % K \in Int /\ 0 \in 0 .. K - 1
    BY <1>1
  <2>2. n % K = m % K => (n % K) - (m % K) = 0
    BY <2>1
  <2> QED
    BY <1>1, <1>4, <1>5, <2>1, <2>2
<1> QED
  BY <1>5, <1>6 DEF K

(* As many packets later as there are slots it is the same slot again.     *)
LEMMA SlotAgain ==
  ASSUME NEW m \in Nat, NEW n \in Nat, n = m + UsedSlots
  PROVE  n % UsedSlots = m % UsedSlots
<1>1. UsedSlots \in Nat \ {0}
  BY Slots, CommsAssumption
<1> DEFINE K == UsedSlots
<1> HIDE DEF K
<1>2. \A x, q \in Int : (x + K * q) % K = x % K
  BY <1>1, ModTurns DEF K
<1>3. K \in Int /\ K * 1 = K /\ n = m + K
  BY <1>1 DEF K
<1>4. (m + K * 1) % K = m % K
  BY <1>2
<1> QED
  BY <1>3, <1>4 DEF K
-----------------------------------------------------------------------------
(* Packets and frames.                                                     *)

(* Bytes are told apart.                                                   *)
LEMMA Tokens ==
  /\ \A u, v : Plain(u) = Plain(v) => u = v
  /\ \A p, q, j, k : Crc(p, j) = Crc(q, k) => p = q /\ j = k
  /\ \A v, p, j : Plain(v) # Crc(p, j)
BY DEF Plain, Crc

(* Of the packets that may stand in temp_packet, none ends in the last     *)
(* checksum byte of a packet of the host but that packet itself, and none  *)
(* in a byte from elsewhere in one.                                        *)
LEMMA NoCollisions ==
  ASSUME NEW held
  PROVE  /\ LastOf(held) \notin InnerBytes
         /\ \A pkt : LastOf(held) = LastOf(pkt) => held = pkt
<1>1. CrcBytes \in Nat \ {0}
  BY CommsAssumption
<1>2. \A j \in 0 .. CrcBytes - 2 : j # CrcBytes - 1
  BY <1>1
<1> QED
  BY <1>2, Tokens DEF LastOf, InnerBytes

FrameLength == 1 + Payload + CrcBytes

(* A packet of a single byte, written out.                                 *)
LEMMA SingleBytes ==
  ASSUME NEW b
  PROVE  /\ SingleByte(b) =
              [length |-> Plain(1),
               data |-> [i \in 1 .. Payload |-> Plain(IF i = 1 THEN b ELSE PadByte)]]
         /\ DataPacket(b) = SingleByte(b)
         /\ SingleByte(b).data[1] = Plain(b)
<1>1. Payload \in Nat \ {0}
  BY CommsAssumption
<1>2. Len(<<b>>) = 1 /\ <<b>>[1] = b
  OBVIOUS
<1>3. Data(<<b>>) = [i \in 1 .. Payload |-> Plain(IF i = 1 THEN b ELSE PadByte)]
  BY <1>1, <1>2 DEF Data
<1>4. Data(<<b>>)[1] = Plain(b)
  BY <1>1, <1>3
<1> QED
  BY <1>2, <1>3, <1>4 DEF SingleByte, DataPacket, Pkt

(* What the host puts into a packet.                                       *)
LEMMA HostPacketType ==
  ASSUME NEW p \in HostPackets
  PROVE  /\ p \in HeldPackets
         /\ p = [length |-> p.length, data |-> p.data]
         /\ p.length \in InnerBytes /\ p.data \in [1 .. Payload -> InnerBytes]
<1>1. PICK b \in 1 .. MaxSent \cup {RetByte, AckByte} : p = SingleByte(b)
  <2>1. CASE \E n \in 1 .. MaxSent : p = DataPacket(n)
    BY <2>1, SingleBytes
  <2>2. CASE p \in {SingleByte(RetByte), SingleByte(AckByte)}
    BY <2>2
  <2> QED
    BY <2>1, <2>2 DEF HostPackets
<1>2. Plain(b) \in InnerBytes /\ Plain(PadByte) \in InnerBytes /\ Plain(1) \in InnerBytes
  BY DEF InnerBytes
<1>3. p = [length |-> Plain(1),
           data |-> [i \in 1 .. Payload |-> Plain(IF i = 1 THEN b ELSE PadByte)]]
  BY <1>1, SingleBytes
<1>4. p.length \in InnerBytes /\ p.data \in [1 .. Payload -> InnerBytes]
  BY <1>2, <1>3
<1>5. InnerBytes \subseteq HeldBytes
  BY DEF WireBytes, HeldBytes
<1>6. p \in [length : HeldBytes, data : [1 .. Payload -> HeldBytes]]
  BY <1>3, <1>4, <1>5
<1> QED
  BY <1>3, <1>4, <1>6 DEF HeldPackets

(* The bytes of a frame, one by one.                                       *)
LEMMA FrameBytes ==
  ASSUME NEW p \in HostPackets
  PROVE  /\ Frame(p) \in Seq(WireBytes) /\ Len(Frame(p)) = FrameLength
         /\ Frame(p)[1] = p.length
         /\ \A i \in 1 .. Payload : Frame(p)[1 + i] = p.data[i]
         /\ \A j \in 0 .. CrcBytes - 1 : Frame(p)[1 + Payload + j + 1] = Crc(p, j)
<1> DEFINE crc == [j \in 1 .. CrcBytes |-> Crc(p, j - 1)]
           head == <<p.length>>
           front == head \o p.data
<1>1. /\ Payload \in Nat \ {0} /\ CrcBytes \in Nat \ {0}
      /\ p.length \in WireBytes /\ p.data \in [1 .. Payload -> WireBytes]
  BY HostPacketType, CommsAssumption DEF WireBytes
<1>2. head \in Seq(WireBytes) /\ Len(head) = 1 /\ head[1] = p.length
  BY <1>1
<1>3. p.data \in Seq(WireBytes) /\ Len(p.data) = Payload
  BY <1>1
<1>4. crc \in Seq(WireBytes) /\ Len(crc) = CrcBytes
  <2>1. ASSUME NEW j \in 1 .. CrcBytes
        PROVE  Crc(p, j - 1) \in WireBytes
    <3>1. CASE j = CrcBytes
      BY <3>1 DEF WireBytes, LastOf
    <3>2. CASE j # CrcBytes
      <4>1. j - 1 \in 0 .. CrcBytes - 2
        BY <1>1, <3>2
      <4> QED
        BY <4>1 DEF WireBytes, InnerBytes
    <3> QED
      BY <3>1, <3>2
  <2>2. crc \in [1 .. CrcBytes -> WireBytes]
    BY <2>1
  <2> HIDE DEF crc
  <2> QED
    BY <1>1, <2>2
<1>5. \A j \in 0 .. CrcBytes - 1 : crc[j + 1] = Crc(p, j)
  <2> SUFFICES ASSUME NEW j \in 0 .. CrcBytes - 1 PROVE crc[j + 1] = Crc(p, j)
    OBVIOUS
  <2>1. j + 1 \in 1 .. CrcBytes /\ (j + 1) - 1 = j
    BY <1>1
  <2> QED
    BY <2>1
<1>6. Frame(p) = front \o crc
  BY DEF Frame
<1> HIDE DEF crc, head
<1>7. /\ front \in Seq(WireBytes) /\ Len(front) = 1 + Payload
      /\ \A i \in 1 .. 1 + Payload : front[i] = IF i <= 1 THEN head[i] ELSE p.data[i - 1]
  <2>1. /\ front \in Seq(WireBytes) /\ Len(front) = Len(head) + Len(p.data)
        /\ \A i \in 1 .. Len(head) + Len(p.data) :
             front[i] = IF i <= Len(head) THEN head[i] ELSE p.data[i - Len(head)]
    BY <1>2, <1>3, ConcatProperties
  <2> HIDE DEF front
  <2> QED
    BY <1>2, <1>3, <2>1
<1> HIDE DEF front
<1>8. /\ front \o crc \in Seq(WireBytes) /\ Len(front \o crc) = 1 + Payload + CrcBytes
      /\ \A i \in 1 .. 1 + Payload + CrcBytes :
           (front \o crc)[i] = IF i <= 1 + Payload THEN front[i] ELSE crc[i - (1 + Payload)]
  <2>1. /\ front \o crc \in Seq(WireBytes) /\ Len(front \o crc) = Len(front) + Len(crc)
        /\ \A i \in 1 .. Len(front) + Len(crc) :
             (front \o crc)[i] = IF i <= Len(front) THEN front[i] ELSE crc[i - Len(front)]
    BY <1>4, <1>7, ConcatProperties
  <2> QED
    BY <1>4, <1>7, <2>1
<1>9. (front \o crc)[1] = p.length
  BY <1>1, <1>2, <1>7, <1>8
<1>10. ASSUME NEW i \in 1 .. Payload
       PROVE  (front \o crc)[1 + i] = p.data[i]
  <2>1. /\ 1 + i \in 1 .. 1 + Payload + CrcBytes /\ 1 + i \in 1 .. 1 + Payload
        /\ ~(1 + i <= 1) /\ 1 + i <= 1 + Payload /\ 1 + i - 1 = i
    BY <1>1
  <2> QED
    BY <1>7, <1>8, <2>1
<1>11. ASSUME NEW j \in 0 .. CrcBytes - 1
       PROVE  (front \o crc)[1 + Payload + j + 1] = Crc(p, j)
  <2>1. /\ 1 + Payload + j + 1 \in 1 .. 1 + Payload + CrcBytes
        /\ ~(1 + Payload + j + 1 <= 1 + Payload)
        /\ 1 + Payload + j + 1 - (1 + Payload) = j + 1
    BY <1>1
  <2>2. ASSUME NEW k, k = 1 + Payload + j + 1
        PROVE  (front \o crc)[k] = Crc(p, j)
    <3>1. /\ k \in 1 .. 1 + Payload + CrcBytes /\ ~(k <= 1 + Payload)
          /\ k - (1 + Payload) = j + 1
      BY <1>1, <2>2
    <3> QED
      BY <1>5, <1>8, <3>1
  <2> QED
    BY <2>2
<1> QED
  BY <1>6, <1>8, <1>9, <1>10, <1>11 DEF FrameLength

(* Only the last byte of a frame is the last one of a checksum.            *)
LEMMA FrameEnds ==
  ASSUME NEW p \in HostPackets
  PROVE  /\ \A i \in 1 .. FrameLength - 1 : Frame(p)[i] \in InnerBytes
         /\ Frame(p)[FrameLength] = LastOf(p)
<1>1. Payload \in Nat \ {0} /\ CrcBytes \in Nat \ {0}
  BY CommsAssumption
<1>2. /\ Frame(p)[1] = p.length
      /\ \A i \in 1 .. Payload : Frame(p)[1 + i] = p.data[i]
      /\ \A j \in 0 .. CrcBytes - 1 : Frame(p)[1 + Payload + j + 1] = Crc(p, j)
  BY FrameBytes
<1>3. p.length \in InnerBytes /\ \A i \in 1 .. Payload : p.data[i] \in InnerBytes
  BY HostPacketType
<1>4. \A j \in 0 .. CrcBytes - 2 : Crc(p, j) \in InnerBytes
  BY DEF InnerBytes
<1>5. ASSUME NEW i \in 1 .. FrameLength - 1
      PROVE  Frame(p)[i] \in InnerBytes
  <2>1. CASE i = 1
    BY <1>2, <1>3, <2>1
  <2>2. CASE i \in 2 .. 1 + Payload
    <3>1. i - 1 \in 1 .. Payload /\ 1 + (i - 1) = i
      BY <1>1, <2>2
    <3> QED
      BY <1>2, <1>3, <3>1
  <2>3. CASE i > 1 + Payload
    <3> DEFINE j == i - 2 - Payload
    <3>1. j \in 0 .. CrcBytes - 2 /\ j \in 0 .. CrcBytes - 1 /\ 1 + Payload + j + 1 = i
      BY <1>1, <2>3 DEF FrameLength
    <3> HIDE DEF j
    <3> QED
      BY <1>2, <1>4, <3>1
  <2> QED
    BY <1>1, <2>1, <2>2, <2>3
<1>6. Frame(p)[FrameLength] = LastOf(p)
  <2>1. CrcBytes - 1 \in 0 .. CrcBytes - 1 /\ 1 + Payload + (CrcBytes - 1) + 1 = FrameLength
    BY <1>1 DEF FrameLength
  <2> QED
    BY <1>2, <2>1 DEF LastOf
<1> QED
  BY <1>5, <1>6

(* Whatever the line does to a frame: what arrives are bytes of the line,  *)
(* and at most its last byte is the last one of a checksum, its own.       *)
LEMMA Transmitted ==
  ASSUME NEW p \in HostPackets, faults \in Nat, Transmit(Frame(p))
  PROVE  \E s \in Seq(WireBytes) :
           /\ rx' = rx \o s
           /\ \A i \in 1 .. Len(s) : s[i] \in InnerBytes \/ (i = Len(s) /\ s[i] = LastOf(p))
           /\ (faults' = faults /\ s = Frame(p)) \/ faults' > 0
<1> DEFINE f == Frame(p)
           Good(s) == /\ s \in Seq(WireBytes)
                      /\ \A i \in 1 .. Len(s) :
                           s[i] \in InnerBytes \/ (i = Len(s) /\ s[i] = LastOf(p))
<1>1. /\ f \in Seq(WireBytes) /\ Len(f) = FrameLength /\ FrameLength \in Nat
      /\ \A i \in 1 .. FrameLength - 1 : f[i] \in InnerBytes
      /\ f[FrameLength] = LastOf(p)
  BY FrameBytes, FrameEnds, CommsAssumption DEF FrameLength
<1>2. DOMAIN f = 1 .. FrameLength /\ Plain(GarbledByte) \in InnerBytes /\ InnerBytes \subseteq WireBytes
  BY <1>1 DEF InnerBytes, WireBytes
<1> HIDE DEF f
<1>3. Good(f)
  BY <1>1
<1>4. ASSUME NEW i \in DOMAIN f
      PROVE  Good(RemoveAt(f, i))
  <2> DEFINE a == SubSeq(f, 1, i - 1)
             b == SubSeq(f, i + 1, Len(f))
  <2>1. i \in 1 .. FrameLength /\ \A k \in 1 .. FrameLength : f[k] \in WireBytes
    BY <1>1, <1>2
  <2>2. /\ a \in Seq(WireBytes) /\ Len(a) = i - 1
        /\ \A k \in 1 .. i - 1 : a[k] = f[k]
    <3>1. i - 1 \in Int /\ \A k \in 1 .. i - 1 : f[k] \in WireBytes
      BY <1>1, <2>1
    <3>2. /\ a \in Seq(WireBytes) /\ Len(a) = IF 1 <= i - 1 THEN i - 1 - 1 + 1 ELSE 0
          /\ \A k \in 1 .. i - 1 - 1 + 1 : a[k] = f[1 + k - 1]
      BY <3>1, SubSeqProperties
    <3> QED
      BY <2>1, <3>2, <1>1
  <2>3. /\ b \in Seq(WireBytes) /\ Len(b) = FrameLength - i
        /\ \A k \in 1 .. FrameLength - i : b[k] = f[i + k]
    <3>1. i + 1 \in Int /\ Len(f) \in Int /\ \A k \in i + 1 .. Len(f) : f[k] \in WireBytes
      BY <1>1, <2>1
    <3> DEFINE from == i + 1  to == Len(f)
    <3> HIDE DEF from, to
    <3>5. from \in Int /\ to \in Int /\ \A k \in from .. to : f[k] \in WireBytes
      BY <3>1 DEF from, to
    <3>6. /\ SubSeq(f, from, to) \in Seq(WireBytes)
          /\ Len(SubSeq(f, from, to)) = IF from <= to THEN to - from + 1 ELSE 0
          /\ \A k \in 1 .. to - from + 1 : SubSeq(f, from, to)[k] = f[from + k - 1]
      BY <3>5, SubSeqProperties
    <3>2. /\ b \in Seq(WireBytes)
          /\ Len(b) = IF i + 1 <= Len(f) THEN Len(f) - (i + 1) + 1 ELSE 0
          /\ \A k \in 1 .. Len(f) - (i + 1) + 1 : b[k] = f[i + 1 + k - 1]
      BY <3>6, Zenon DEF from, to
    <3>3. Len(b) = FrameLength - i /\ Len(f) - (i + 1) + 1 = FrameLength - i
      BY <1>1, <2>1, <3>2
    <3>4. ASSUME NEW k \in 1 .. FrameLength - i PROVE b[k] = f[i + k]
      <4>1. i + 1 + k - 1 = i + k
        BY <1>1, <2>1
      <4> QED
        BY <3>2, <3>3, <4>1
    <3> QED
      BY <3>2, <3>3, <3>4
  <2>4. RemoveAt(f, i) = a \o b
    BY DEF RemoveAt
  <2> HIDE DEF a, b
  <2>5. /\ a \o b \in Seq(WireBytes) /\ Len(a \o b) = FrameLength - 1
        /\ \A k \in 1 .. FrameLength - 1 :
             (a \o b)[k] = IF k <= i - 1 THEN a[k] ELSE b[k - (i - 1)]
    <3>1. /\ a \o b \in Seq(WireBytes) /\ Len(a \o b) = Len(a) + Len(b)
          /\ \A k \in 1 .. Len(a) + Len(b) :
               (a \o b)[k] = IF k <= Len(a) THEN a[k] ELSE b[k - Len(a)]
      BY <2>2, <2>3, ConcatProperties
    <3>2. Len(a) + Len(b) = FrameLength - 1
      BY <1>1, <2>1, <2>2, <2>3
    <3> QED
      BY <2>2, <3>1, <3>2
  <2>6. ASSUME NEW k \in 1 .. FrameLength - 1
        PROVE  (a \o b)[k] \in InnerBytes \/ (k = FrameLength - 1 /\ (a \o b)[k] = LastOf(p))
    <3>1. CASE k <= i - 1
      <4>1. (a \o b)[k] = f[k]
        BY <1>1, <2>1, <2>2, <2>5, <3>1
      <4> QED
        BY <1>1, <4>1
    <3>2. CASE ~(k <= i - 1)
      <4>1. k - (i - 1) \in 1 .. FrameLength - i /\ i + (k - (i - 1)) = k + 1
        BY <1>1, <2>1, <3>2
      <4>2. (a \o b)[k] = f[k + 1]
        BY <2>3, <2>5, <3>2, <4>1
      <4>3. k + 1 \in 1 .. FrameLength - 1 \/ (k + 1 = FrameLength /\ k = FrameLength - 1)
        BY <1>1
      <4> QED
        BY <1>1, <4>2, <4>3
    <3> QED
      BY <3>1, <3>2
  <2> QED
    BY <2>4, <2>5, <2>6
<1>5. ASSUME NEW i \in DOMAIN f
      PROVE  Good(ReplaceAt(f, i, Plain(GarbledByte)))
  <2> DEFINE s == ReplaceAt(f, i, Plain(GarbledByte))
  <2>1. s = [f EXCEPT ![i] = Plain(GarbledByte)]
    BY DEF ReplaceAt
  <2> HIDE DEF s
  <2>2. /\ s \in Seq(WireBytes) /\ Len(s) = Len(f)
        /\ \A k \in 1 .. Len(f) : s[k] = IF k = i THEN Plain(GarbledByte) ELSE f[k]
    BY <1>1, <1>2, <2>1, ExceptSeq
  <2>3. \A k \in 1 .. FrameLength : k \in 1 .. FrameLength - 1 \/ k = FrameLength
    BY <1>1
  <2>4. Good(s)
    BY <1>1, <1>2, <2>2, <2>3
  <2> QED
    BY <2>4 DEF s
<1> HIDE DEF Good
<1>6. CASE rx' = rx \o f /\ UNCHANGED faults
  <2>1. f \in Seq(WireBytes)
    BY <1>1
  <2> QED
    BY <1>3, <1>6, <2>1 DEF Good, f
<1>7. CASE /\ faults < MaxFaults /\ faults' = faults + 1
           /\ \E i \in DOMAIN f : rx' \in {rx \o RemoveAt(f, i),
                                           rx \o ReplaceAt(f, i, Plain(GarbledByte))}
  <2>1. PICK s : Good(s) /\ rx' = rx \o s
    BY <1>4, <1>5, <1>7
  <2>2. s \in Seq(WireBytes)
    BY <2>1 DEF Good
  <2>3. faults' > 0
    BY <1>7
  <2>4. \A i \in 1 .. Len(s) : s[i] \in InnerBytes \/ (i = Len(s) /\ s[i] = LastOf(p))
    BY <2>1 DEF Good
  <2> QED
    BY <2>1, <2>2, <2>3, <2>4
<1> QED
  BY <1>6, <1>7 DEF Transmit, f
-----------------------------------------------------------------------------
(* Types and indices.                                                      *)

(* The byte taken, and what is left.                                       *)
LEMMA Taken ==
  ASSUME Held, Take
  PROVE  /\ Len(rx) \in Nat \ {0} /\ Head(rx) = rx[1] /\ Head(rx) \in WireBytes
         /\ rx' \in Seq(WireBytes) /\ Len(rx') = Len(rx) - 1
         /\ \A i \in 1 .. Len(rx) - 1 : rx'[i] = rx[i + 1]
<1>1. rx \in Seq(WireBytes) /\ rx # <<>> /\ rx' = Tail(rx)
  BY DEF Held, Take
<1>2. Len(rx) \in Nat \ {0} /\ Head(rx) = rx[1]
  BY <1>1, EmptySeq
<1> QED
  BY <1>1, <1>2, HeadTailProperties

(* A packet for the caller whose checksum fits.                            *)
Proper(pkt, crc) ==
  crc = Checksum(pkt) /\ ~IsCntrl(pkt, RetByte) /\ ~IsCntrl(pkt, AckByte)

(* Such a packet is stored in the next slot, if that is not the last one.  *)
Stores(pkt) ==
  /\ buffer' = [buffer EXCEPT ![acked % UsedSlots] = pkt]
  /\ buffer_write_idx' = (acked + 1) % UsedSlots /\ buffer_read_idx' = buffer_read_idx
  /\ acked' = acked + 1 /\ pc' = pc
  /\ acked + 1 - Len(delivered) < UsedSlots

(* With the last slot it is the breakpoint.                                *)
Stops ==
  /\ UNCHANGED <<queue, acked>> /\ pc' = "breakpoint"
  /\ acked + 1 - Len(delivered) = UsedSlots

(* All that a complete frame can lead to.                                  *)
LEMMA Handled ==
  ASSUME CommsInv, NEW pkt, NEW crc, HandleFrame(pkt, crc)
  PROVE  \/ Proper(pkt, crc) /\ (Stores(pkt) \/ Stops)
         \/ ~Proper(pkt, crc) /\ UNCHANGED <<queue, pc, acked>>
<1>1. CASE Accept(pkt)
  <2> DEFINE K == UsedSlots
             n == Len(delivered)
  <2>1. /\ acked \in Nat /\ n \in Nat /\ n <= acked /\ acked - n < K /\ K \in Nat \ {0}
        /\ buffer_write_idx = acked % K /\ buffer_read_idx = n % K
    BY Slots, CommsAssumption DEF CommsInv, TypeOK, Indices, Held
  <2>2. NextSlot(buffer_write_idx) = (acked + 1) % K
    BY <2>1, SlotOf
  <2> HIDE DEF K, n
  <2>3. CASE NextSlot(buffer_write_idx) # buffer_read_idx
    <3>1. acked + 1 - n # K
      <4>1. ASSUME acked + 1 - n = K
            PROVE  (acked + 1) % K = n % K
        <5>1. acked + 1 \in Nat /\ acked + 1 = n + K
          BY <2>1, <4>1
        <5> QED
          BY <2>1, <5>1, SlotAgain DEF K
      <4> QED
        BY <2>1, <2>2, <2>3, <4>1
    <3>2. acked + 1 - n < K
      BY <2>1, <3>1
    <3>3. Stores(pkt)
      BY <1>1, <2>1, <2>2, <2>3, <3>2 DEF Accept, Stores, K, n
    <3> QED
      BY <1>1, <3>3, <2>3 DEF HandleFrame, Proper, Accept, queue
  <2>4. CASE NextSlot(buffer_write_idx) = buffer_read_idx
    <3>1. acked + 1 - n = K
      <4>1. ASSUME acked + 1 - n < K
            PROVE  FALSE
        <5> DEFINE m == acked + 1
        <5>1. m \in Nat /\ n <= m /\ m - n < K /\ m # n
          BY <2>1, <4>1
        <5>2. m % K = n % K
          BY <2>1, <2>2, <2>4
        <5> HIDE DEF m
        <5> QED
          BY <2>1, <5>1, <5>2, SlotsApart DEF K
      <4> QED
        BY <2>1, <4>1
    <3>2. Stops
      BY <1>1, <2>4, <3>1 DEF Accept, Stops, K, n
    <3> QED
      BY <3>2, <1>1, <2>4 DEF HandleFrame, Proper, Accept, queue
  <2> QED
    BY <2>3, <2>4
<1> QED
  BY <1>1 DEF HandleFrame, Proper

(* What the host and the line do leaves the receiver as it is.             *)
LEMMA HostInv ==
  ASSUME CommsInv, HostSendsData \/ HostSendsControl
  PROVE  CommsInv'
<1>1. faults' \in 0 .. MaxFaults /\ rx' \in Seq(WireBytes)
  <2>1. PICK p \in HostPackets : Transmit(Frame(p))
    <3>1. CASE HostSendsData
      <4>1. sent' \in 1 .. MaxSent /\ Transmit(Frame(DataPacket(sent')))
        BY <3>1, CommsAssumption DEF HostSendsData, CommsInv, TypeOK
      <4> QED
        BY <4>1 DEF HostPackets
    <3>2. CASE HostSendsControl
      BY <3>2 DEF HostSendsControl, HostPackets
    <3> QED
      BY <3>1, <3>2
  <2>2. faults \in 0 .. MaxFaults /\ MaxFaults \in Nat
    BY CommsAssumption DEF CommsInv, TypeOK
  <2>3. faults' \in 0 .. MaxFaults
    BY <2>1, <2>2 DEF Transmit
  <2>4. faults \in Nat
    BY <2>2
  <2>5. PICK s \in Seq(WireBytes) : rx' = rx \o s
    BY <2>1, <2>4, Transmitted, Zenon
  <2> QED
    BY <2>3, <2>5, ConcatProperties DEF CommsInv, Held
<1>2. CASE HostSendsData
  <2>1. sent' \in 0 .. MaxSent
    BY <1>2, CommsAssumption DEF HostSendsData, CommsInv, TypeOK
  <2>2. hasty' \in BOOLEAN
    BY <1>2 DEF HostSendsData
  <2> QED
    BY <1>1, <1>2, <2>1, <2>2
    DEF HostSendsData, CommsInv, TypeOK, Indices, Held, framing, queue
<1>3. CASE HostSendsControl
  BY <1>1, <1>3 DEF HostSendsControl, CommsInv, TypeOK, Indices, Held, framing, queue, host
<1> QED
  BY <1>2, <1>3

(* A byte of the length or of the payload.                                 *)
LEMMA FieldsInv ==
  ASSUME CommsInv, AwaitLength \/ AwaitPayload
  PROVE  CommsInv'
<1>1. Take /\ Held
  BY DEF AwaitLength, AwaitPayload, CommsInv
<1>2. Head(rx) \in HeldBytes /\ rx' \in Seq(WireBytes)
  BY <1>1, Taken DEF HeldBytes
<1>3. CASE AwaitLength
  <2>1. /\ DOMAIN temp_packet' = DOMAIN temp_packet /\ temp_packet'.data = temp_packet.data
        /\ temp_packet'.length = Head(rx)
    BY <1>3 DEF AwaitLength, CommsInv
  <2>2. TypeOK'
    BY <1>3, <2>1 DEF AwaitLength, Take, CommsInv, TypeOK, queue, host
  <2>3. Indices' /\ Held'
    BY <1>2, <1>3, <2>1 DEF AwaitLength, CommsInv, Indices, Held, queue
  <2> QED
    BY <1>3, <2>1, <2>2, <2>3 DEF AwaitLength, CommsInv
<1>4. CASE AwaitPayload
  <2>1. /\ DOMAIN temp_packet' = DOMAIN temp_packet
        /\ temp_packet'.data = [temp_packet.data EXCEPT ![payloads_bytes_count + 1] = Head(rx)]
        /\ temp_packet'.length = temp_packet.length
    BY <1>4 DEF AwaitPayload, CommsInv
  <2>2. temp_packet'.data \in [1 .. Payload -> HeldBytes]
    BY <1>2, <2>1 DEF CommsInv, Held
  <2>3. payloads_bytes_count' \in 0 .. Payload - 1
    <3>1. Payload \in Nat \ {0} /\ payloads_bytes_count \in 0 .. Payload - 1
      BY CommsAssumption DEF CommsInv, TypeOK
    <3>2. \/ payloads_bytes_count' = 0
          \/ /\ payloads_bytes_count + 1 < Payload
             /\ payloads_bytes_count' = payloads_bytes_count + 1
      BY <1>4 DEF AwaitPayload
    <3> QED
      BY <3>1, <3>2
  <2>4. TypeOK'
    BY <1>4, <2>2, <2>3 DEF AwaitPayload, Take, CommsInv, TypeOK, queue, host
  <2>5. Indices' /\ Held'
    BY <1>2, <1>4, <2>1, <2>2 DEF AwaitPayload, CommsInv, Indices, Held, queue
  <2> QED
    BY <1>4, <2>1, <2>4, <2>5 DEF AwaitPayload, CommsInv
<1> QED
  BY <1>3, <1>4

(* A byte of the checksum, and what a complete frame leads to.             *)
LEMMA ChecksumByte ==
  ASSUME CommsInv, AwaitCRC
  PROVE  LET crc == temp_packet.crc \cup {<<crc_bytes_count, Head(rx)>>}
             pkt == [length |-> temp_packet.length, data |-> temp_packet.data]
         IN /\ Take /\ pkt \in HeldPackets
            /\ UNCHANGED <<payloads_bytes_count, host, delivered, faults>>
            /\ temp_packet'.data = temp_packet.data
            /\ temp_packet'.length = temp_packet.length
            /\ DOMAIN temp_packet' = DOMAIN temp_packet
            /\ \/ /\ crc_bytes_count + 1 < CrcBytes
                  /\ temp_packet'.crc = crc /\ crc_bytes_count' = crc_bytes_count + 1
                  /\ UNCHANGED <<state, queue, pc, acked>>
               \/ /\ crc_bytes_count = CrcBytes - 1
                  /\ temp_packet'.crc = {}
                  /\ crc_bytes_count' = 0 /\ state' = "Await_Length"
                  /\ \/ Proper(pkt, crc) /\ (Stores(pkt) \/ Stops)
                     \/ ~Proper(pkt, crc) /\ UNCHANGED <<queue, pc, acked>>
<1> DEFINE crc == temp_packet.crc \cup {<<crc_bytes_count, Head(rx)>>}
           pkt == [length |-> temp_packet.length, data |-> temp_packet.data]
<1>1. pkt \in HeldPackets
  BY DEF CommsInv, Held, HeldPackets, HeldBytes
<1>2. DOMAIN temp_packet = {"length", "data", "crc"}
      /\ crc_bytes_count \in 0 .. CrcBytes - 1 /\ CrcBytes \in Nat
  BY CommsAssumption DEF CommsInv, TypeOK
<1> HIDE DEF pkt, crc
<1>3. Take /\ UNCHANGED <<payloads_bytes_count, host, delivered, faults>>
  BY DEF AwaitCRC
<1>4. \/ /\ crc_bytes_count + 1 < CrcBytes
         /\ temp_packet' = [temp_packet EXCEPT !.crc = crc]
         /\ crc_bytes_count' = crc_bytes_count + 1
         /\ UNCHANGED <<state, prev_packet, queue, pc, line, acked>>
      \/ /\ crc_bytes_count + 1 >= CrcBytes
         /\ HandleFrame(pkt, crc)
         /\ temp_packet' = [temp_packet EXCEPT !.crc = {}]
         /\ crc_bytes_count' = 0 /\ state' = "Await_Length"
  BY DEF AwaitCRC, pkt, crc
<1>5. CASE /\ crc_bytes_count + 1 < CrcBytes
           /\ temp_packet' = [temp_packet EXCEPT !.crc = crc]
           /\ crc_bytes_count' = crc_bytes_count + 1
           /\ UNCHANGED <<state, prev_packet, queue, pc, line, acked>>
  BY <1>1, <1>2, <1>3, <1>5 DEF pkt, crc
<1>6. CASE /\ crc_bytes_count + 1 >= CrcBytes
           /\ HandleFrame(pkt, crc)
           /\ temp_packet' = [temp_packet EXCEPT !.crc = {}]
           /\ crc_bytes_count' = 0 /\ state' = "Await_Length"
  <2>1. \/ Proper(pkt, crc) /\ (Stores(pkt) \/ Stops)
        \/ ~Proper(pkt, crc) /\ UNCHANGED <<queue, pc, acked>>
    BY <1>6, Handled
  <2>2. /\ temp_packet'.data = temp_packet.data /\ temp_packet'.length = temp_packet.length
        /\ DOMAIN temp_packet' = DOMAIN temp_packet /\ temp_packet'.crc = {}
        /\ crc_bytes_count = CrcBytes - 1
    BY <1>2, <1>6
  <2> QED
    BY <1>1, <1>3, <1>6, <2>1, <2>2 DEF pkt, crc
<1> QED
  BY <1>4, <1>5, <1>6

(* So the receiver is well typed after it.                                 *)
LEMMA ChecksumInv ==
  ASSUME CommsInv, AwaitCRC
  PROVE  CommsInv'
<1> DEFINE crc == temp_packet.crc \cup {<<crc_bytes_count, Head(rx)>>}
           pkt == [length |-> temp_packet.length, data |-> temp_packet.data]
<1>1. /\ Take /\ pkt \in HeldPackets
      /\ UNCHANGED <<payloads_bytes_count, host, delivered, faults>>
      /\ temp_packet'.data = temp_packet.data
      /\ temp_packet'.length = temp_packet.length
      /\ DOMAIN temp_packet' = DOMAIN temp_packet
      /\ \/ /\ crc_bytes_count + 1 < CrcBytes
            /\ crc_bytes_count' = crc_bytes_count + 1
            /\ UNCHANGED <<state, queue, pc, acked>>
         \/ /\ crc_bytes_count' = 0 /\ state' = "Await_Length"
            /\ (Stores(pkt) \/ Stops \/ UNCHANGED <<queue, pc, acked>>)
  BY ChecksumByte
<1> HIDE DEF pkt
<1>2. rx' \in Seq(WireBytes)
  BY <1>1, Taken DEF CommsInv
<1>3. /\ pc = "update" /\ state = "Await_CRC" /\ payloads_bytes_count = 0
      /\ acked \in Nat /\ CrcBytes \in Nat \ {0} /\ Len(delivered) \in Nat
  BY <1>1, CommsAssumption DEF AwaitCRC, Take, CommsInv, TypeOK, Held
<1>4. /\ acked' \in Nat /\ Indices' /\ pc' \in {"update", "caller", "breakpoint"}
      /\ buffer' \in [0 .. BufferSize - 1 -> HeldPackets]
      /\ buffer_read_idx' \in DOMAIN buffer' /\ buffer_write_idx' \in DOMAIN buffer'
  <2>1. CASE Stores(pkt)
    <3>1. Indices' /\ acked' \in Nat
      BY <1>1, <1>3, <2>1 DEF Stores, CommsInv, Indices
    <3>2. acked + 1 \in Nat
      BY <1>3
    <3>3. (acked + 1) % UsedSlots \in 0 .. BufferSize - 1
      BY <3>2, SlotOf
    <3> QED
      BY <1>1, <1>3, <2>1, <3>1, <3>3 DEF Stores, CommsInv, TypeOK, Held
  <2>2. CASE UNCHANGED <<queue, acked>> /\ pc' \in {"update", "breakpoint"}
    BY <1>1, <1>3, <2>2 DEF CommsInv, TypeOK, Indices, Held, queue
  <2> QED
    BY <1>1, <1>3, <2>1, <2>2 DEF Stops
<1>5. /\ crc_bytes_count' \in 0 .. CrcBytes - 1
      /\ state' \in {"Await_CRC", "Await_Length"}
      /\ state' # "Await_CRC" => crc_bytes_count' = 0
  BY <1>1, <1>3 DEF CommsInv, TypeOK
<1>6. TypeOK'
  BY <1>1, <1>3, <1>4, <1>5 DEF CommsInv, TypeOK, host
<1>7. Held'
  BY <1>1, <1>2, <1>4 DEF CommsInv, Held
<1> QED
  BY <1>1, <1>3, <1>4, <1>5, <1>6, <1>7 DEF CommsInv

(* The packet read is the one whose turn it is.                            *)
LEMMA ReadShape ==
  ASSUME CommsInv, PacketAvailable, Read
  PROVE  LET n == Len(delivered)
         IN /\ n \in Nat /\ n < acked /\ n % UsedSlots \in 0 .. BufferSize - 1
            /\ delivered' = Append(delivered, buffer[n % UsedSlots])
            /\ buffer[n % UsedSlots] \in HeldPackets
            /\ delivered' \in Seq(HeldPackets) /\ Len(delivered') = n + 1
            /\ buffer_read_idx' = (n + 1) % UsedSlots
            /\ UNCHANGED <<buffer, buffer_write_idx>>
<1> DEFINE n == Len(delivered)
<1>1. /\ n \in Nat /\ n <= acked /\ acked \in Nat /\ delivered \in Seq(HeldPackets)
      /\ buffer_read_idx = n % UsedSlots /\ buffer_write_idx = acked % UsedSlots
  BY DEF CommsInv, TypeOK, Indices, Held
<1> HIDE DEF n
<1>2. n # acked
  BY <1>1 DEF PacketAvailable
<1>3. /\ n % UsedSlots \in 0 .. BufferSize - 1
      /\ NextSlot(n % UsedSlots) = (n + 1) % UsedSlots
  BY <1>1, SlotOf
<1>4. buffer[n % UsedSlots] \in HeldPackets
  BY <1>3 DEF CommsInv, Held
<1>5. /\ delivered' = Append(delivered, buffer[n % UsedSlots])
      /\ buffer_read_idx' = NextSlot(n % UsedSlots)
      /\ UNCHANGED <<buffer, buffer_write_idx>>
  BY <1>1 DEF Read
<1>6. delivered' \in Seq(HeldPackets) /\ Len(delivered') = n + 1
  BY <1>1, <1>4, <1>5, AppendProperties DEF n
<1> QED
  BY <1>1, <1>2, <1>3, <1>4, <1>5, <1>6 DEF n

(* The return of comms_update, and the rest of the caller's loop.          *)
LEMMA CallerInv ==
  ASSUME CommsInv, UpdateReturns \/ Caller
  PROVE  CommsInv'
<1>1. CASE UpdateReturns
  BY <1>1 DEF UpdateReturns, CommsInv, TypeOK, Indices, Held, framing, queue, host
<1>2. CASE Caller /\ PacketAvailable /\ Read
  <2> DEFINE n == Len(delivered)
  <2>1. /\ n \in Nat /\ n < acked
        /\ delivered' \in Seq(HeldPackets) /\ Len(delivered') = n + 1
        /\ buffer_read_idx' = (n + 1) % UsedSlots
        /\ UNCHANGED <<buffer, buffer_write_idx>>
    BY <1>2, ReadShape
  <2> HIDE DEF n
  <2>2. n + 1 \in Nat
    BY <2>1
  <2>3. (n + 1) % UsedSlots \in 0 .. BufferSize - 1
    BY <2>2, SlotOf
  <2>4. UNCHANGED <<framing, rx, host, acked, faults>> /\ pc' = "update"
    BY <1>2 DEF Caller
  <2>5. Indices'
    <3>1. acked \in Nat /\ UsedSlots \in Nat /\ acked - n < UsedSlots
          /\ buffer_write_idx = acked % UsedSlots
      BY Slots, CommsAssumption DEF CommsInv, TypeOK, Indices, n
    <3>2. n + 1 <= acked /\ acked - (n + 1) < UsedSlots
      BY <2>1, <3>1
    <3> QED
      BY <2>1, <2>4, <3>1, <3>2 DEF Indices
  <2> QED
    BY <2>1, <2>3, <2>4, <2>5 DEF CommsInv, TypeOK, Held, framing, host
<1>3. CASE Caller /\ UNCHANGED <<queue, delivered>>
  BY <1>3 DEF Caller, CommsInv, TypeOK, Indices, Held, framing, queue, host
<1> QED
  BY <1>1, <1>2, <1>3 DEF Caller

(* At the start everything is empty.                                       *)
LEMMA InitInv == Init => CommsInv
<1> SUFFICES ASSUME Init PROVE CommsInv
  OBVIOUS
<1>1. Payload \in Nat \ {0} /\ CrcBytes \in Nat \ {0} /\ BufferSize \in Nat \ {0}
      /\ MaxSent \in Nat /\ MaxFaults \in Nat /\ Plain(0) \in HeldBytes
  BY CommsAssumption DEF HeldBytes
<1>2. 0 % UsedSlots = 0 /\ UsedSlots \in Nat \ {0}
  <2>1. UsedSlots \in Nat \ {0}
    BY Slots, CommsAssumption
  <2>2. 0 \in Int /\ 0 \in 0 .. UsedSlots - 1 /\ 0 = UsedSlots * 0 + 0
    BY <2>1
  <2> QED
    BY <2>1, <2>2, ModUnique
<1>3. NoPacket.data \in [1 .. Payload -> HeldBytes] /\ NoPacket \in HeldPackets
  BY <1>1 DEF NoPacket, HeldPackets, HeldBytes
<1>4. /\ DOMAIN temp_packet = {"length", "data", "crc"}
      /\ temp_packet.data = NoPacket.data /\ temp_packet.length = Plain(0)
  BY DEF Init
<1>5. buffer = [i \in 0 .. BufferSize - 1 |-> NoPacket]
      /\ acked = 0 /\ delivered = <<>> /\ rx = <<>>
      /\ buffer_read_idx = 0 /\ buffer_write_idx = 0
  BY DEF Init
<1>6. Indices
  BY <1>2, <1>5 DEF Indices
<1>7. Held
  <2>1. rx \in Seq(WireBytes) /\ delivered \in Seq(HeldPackets)
    BY <1>5, EmptySeq
  <2>2. buffer \in [0 .. BufferSize - 1 -> HeldPackets]
    BY <1>3, <1>5
  <2> QED
    BY <1>1, <1>3, <1>4, <2>1, <2>2 DEF Held
<1>8. TypeOK
  <2>1. DOMAIN buffer = 0 .. BufferSize - 1 /\ 0 \in 0 .. BufferSize - 1
    BY <1>1, <1>5
  <2>2. DOMAIN temp_packet.data = 1 .. Payload
    BY <1>3, <1>4
  <2> QED
    BY <1>1, <1>5, <2>1, <2>2 DEF Init, TypeOK
<1> QED
  BY <1>4, <1>6, <1>7, <1>8 DEF Init, CommsInv

(* The invariant is inductive.                                             *)
LEMMA StepInv == CommsInv /\ [Next]_vars => CommsInv'
<1> SUFFICES ASSUME CommsInv, [Next]_vars PROVE CommsInv'
  OBVIOUS
<1>1. CASE Next
  BY <1>1, HostInv, FieldsInv, ChecksumInv, CallerInv DEF Next, TakeByte
<1>2. CASE UNCHANGED vars
  BY <1>2 DEF vars, framing, queue, host, CommsInv, TypeOK, Indices, Held
<1> QED
  BY <1>1, <1>2

(* Every reachable state satisfies it.                                     *)
THEOREM CommsInvariant == Spec => []CommsInv
BY InitInv, StepInv, PTL DEF Spec

(* Every reachable state is well typed: whatever bytes arrive, counters    *)
(* stay in their fields and indices in the buffer.                         *)
THEOREM CommsTypeCorrect == Spec => []TypeOK
<1>1. CommsInv => TypeOK
  BY DEF CommsInv
<1> QED
  BY <1>1, CommsInvariant, PTL

(* What has been acknowledged has been read or is in the buffer, however   *)
(* fast packets come in and whatever the line does to them.                *)
THEOREM AcknowledgedAreKept == Spec => []AckedAreKept
<1>1. CommsInv => AckedAreKept
  <2> SUFFICES ASSUME CommsInv PROVE AckedAreKept
    OBVIOUS
  <2>1. /\ acked \in Nat /\ Len(delivered) \in Nat
        /\ Len(delivered) <= acked /\ acked - Len(delivered) < UsedSlots
        /\ buffer_write_idx = acked % UsedSlots
        /\ buffer_read_idx = Len(delivered) % UsedSlots
    BY DEF CommsInv, TypeOK, Indices, Held
  <2>2. Stored = acked - Len(delivered)
    BY <2>1, SlotsApart DEF Stored
  <2> QED
    BY <2>1, <2>2 DEF AckedAreKept
<1> QED
  BY <1>1, CommsInvariant, PTL
-----------------------------------------------------------------------------
(* What is read.                                                           *)

(* The last byte of the checksum of the n-th data packet.                  *)
Token(n) == LastOf(DataPacket(n))

(* The k-th packet acknowledged, from 0, and the number it carries.        *)
Kept(k) == IF k < Len(delivered) THEN delivered[k + 1] ELSE buffer[k % UsedSlots]
Number(k) == Kept(k).data[1][2]

(* What has been acknowledged are packets of the host, in its order.       *)
KeptInOrder ==
  /\ \A k \in 0 .. acked - 1 :
       Number(k) \in k + 1 .. sent /\ Kept(k) = DataPacket(Number(k))
  /\ \A j, k \in 0 .. acked - 1 : j < k => Number(j) < Number(k)

(* What is under way was sent, after all that has been acknowledged, and   *)
(* arrives in its order.                                                   *)
UnderWay ==
  \A i \in 1 .. Len(rx), n \in 1 .. MaxSent : rx[i] = Token(n) =>
    /\ n \in acked + 1 .. sent
    /\ \A k \in 0 .. acked - 1 : Number(k) < n
    /\ \A j \in 1 .. i - 1, m \in 1 .. MaxSent : rx[j] = Token(m) => m < n

(* A host that waits for every packet to be read has no other than its     *)
(* last one under way or in the buffer.                                    *)
OneByOne ==
  UsedSlots > 1 /\ ~hasty =>
    /\ pc # "breakpoint"
    /\ \A i \in 1 .. Len(rx), n \in 1 .. MaxSent : rx[i] = Token(n) => n = sent
    /\ \A k \in Len(delivered) .. acked - 1 : Number(k) = sent

DeliveryInv == KeptInOrder /\ UnderWay /\ OneByOne

(* Data packets are told apart, also from control packets.                 *)
LEMMA DataApart ==
  ASSUME NEW n \in 1 .. MaxSent
  PROVE  /\ DataPacket(n) \in HostPackets /\ DataPacket(n).data[1] = Plain(n) /\ Plain(n)[2] = n
         /\ \A m \in 1 .. MaxSent : DataPacket(m) = DataPacket(n) => m = n
         /\ DataIsNoControl =>
              DataPacket(n) # SingleByte(RetByte) /\ DataPacket(n) # SingleByte(AckByte)
<1>1. \A b : DataPacket(b).data[1] = Plain(b) /\ DataPacket(b) = SingleByte(b)
  BY SingleBytes
<1>2. DataPacket(n) \in HostPackets
  BY DEF HostPackets
<1>3. DataIsNoControl => n # RetByte /\ n # AckByte
  BY DEF DataIsNoControl
<1>4. \A b : Plain(b)[2] = b
  BY DEF Plain
<1> QED
  BY <1>1, <1>2, <1>3, <1>4

(* Their last checksum bytes are nowhere else.                             *)
LEMMA TokenApart ==
  ASSUME NEW n \in 1 .. MaxSent
  PROVE  /\ Token(n) \notin InnerBytes
         /\ \A p \in HostPackets : LastOf(p) = Token(n) => p = DataPacket(n)
BY NoCollisions DEF Token

(* A proper frame ends in the byte of the data packet it carries.          *)
LEMMA ProperEnds ==
  ASSUME CommsInv, DataIsNoControl, Take, NEW pkt \in HeldPackets, NEW crc,
         <<CrcBytes - 1, Head(rx)>> \in crc, Proper(pkt, crc)
  PROVE  \E n \in 1 .. MaxSent : pkt = DataPacket(n) /\ rx[1] = Token(n)
<1>1. Head(rx) = rx[1] /\ Head(rx) \in WireBytes
  BY Taken DEF CommsInv
<1>2. rx[1] = LastOf(pkt)
  BY <1>1 DEF Proper, Checksum, LastOf
<1>3. rx[1] \notin InnerBytes
  BY <1>2, NoCollisions
<1>4. PICK p \in HostPackets : rx[1] = LastOf(p)
  BY <1>1, <1>3 DEF WireBytes
<1>5. pkt = p
  BY <1>2, <1>4, NoCollisions
<1>6. pkt # SingleByte(RetByte) /\ pkt # SingleByte(AckByte)
  BY DEF Proper, IsCntrl
<1>7. PICK n \in 1 .. MaxSent : pkt = DataPacket(n)
  BY <1>5, <1>6 DEF HostPackets
<1> QED
  BY <1>2, <1>7 DEF Token

(* No more has been acknowledged than was sent.                            *)
LEMMA AckedWereSent ==
  ASSUME CommsInv, DeliveryInv
  PROVE  /\ acked \in Nat /\ sent \in Nat /\ Len(delivered) \in Nat
         /\ Len(delivered) <= acked /\ acked <= sent
<1>1. acked \in Nat /\ sent \in Nat /\ Len(delivered) \in Nat /\ Len(delivered) <= acked
  BY CommsAssumption DEF CommsInv, TypeOK, Indices, Held
<1>2. acked # 0 => acked <= sent
  <2> SUFFICES ASSUME acked # 0 PROVE acked <= sent
    OBVIOUS
  <2>1. acked - 1 \in 0 .. acked - 1
    BY <1>1
  <2>2. Number(acked - 1) \in (acked - 1) + 1 .. sent
    BY <2>1 DEF DeliveryInv, KeptInOrder
  <2> QED
    BY <1>1, <2>2
<1> QED
  BY <1>1, <1>2

(* Reading moves a packet from the buffer to what has been read.           *)
LEMMA KeptRead ==
  ASSUME CommsInv, PacketAvailable, Read, acked' = acked
  PROVE  \A k \in 0 .. acked - 1 : Kept(k)' = Kept(k)
<1> DEFINE n == Len(delivered)
           b == buffer[n % UsedSlots]
<1>1. /\ n \in Nat /\ n < acked /\ acked \in Nat
      /\ delivered' = Append(delivered, b) /\ b \in HeldPackets
      /\ Len(delivered') = n + 1 /\ buffer' = buffer
  BY ReadShape DEF CommsInv, TypeOK
<1>2. /\ \A j \in 1 .. n : delivered'[j] = delivered[j]
      /\ delivered'[n + 1] = b
  BY <1>1, AppendProperties DEF CommsInv, Held
<1> SUFFICES ASSUME NEW k \in 0 .. acked - 1 PROVE Kept(k)' = Kept(k)
  OBVIOUS
<1>3. CASE k < n
  <2>1. k + 1 \in 1 .. n /\ k < n + 1
    BY <1>1, <1>3
  <2> QED
    BY <1>1, <1>2, <1>3, <2>1 DEF Kept
<1>4. CASE k = n
  BY <1>1, <1>2, <1>4 DEF Kept
<1>5. CASE k > n
  <2>1. ~(k < n) /\ ~(k < n + 1)
    BY <1>1, <1>5
  <2> QED
    BY <1>1, <2>1 DEF Kept
<1> QED
  BY <1>1, <1>3, <1>4, <1>5

(* Storing leaves the packets that have not been read in place.            *)
LEMMA KeptStore ==
  ASSUME CommsInv, NEW pkt, Stores(pkt), delivered' = delivered
  PROVE  \A k \in 0 .. acked : Kept(k)' = IF k = acked THEN pkt ELSE Kept(k)
<1> DEFINE n == Len(delivered)
           K == UsedSlots
<1>1. /\ n \in Nat /\ n <= acked /\ acked \in Nat /\ acked - n < K /\ K \in Nat
      /\ DOMAIN buffer = 0 .. BufferSize - 1
      /\ buffer' = [buffer EXCEPT ![acked % K] = pkt]
  BY Slots, CommsAssumption DEF CommsInv, TypeOK, Indices, Held, Stores
<1>2. acked % K \in 0 .. BufferSize - 1
  BY <1>1, SlotOf
<1> HIDE DEF K
<1>3. ASSUME NEW k, k = acked
      PROVE  Kept(k)' = pkt
  BY <1>1, <1>2, <1>3 DEF Kept, K
<1>4. ASSUME NEW k \in 0 .. acked - 1
      PROVE  Kept(k)' = Kept(k)
  <2>1. CASE k < n
    BY <2>1 DEF Kept
  <2>2. CASE ~(k < n)
    <3>1. k \in Nat /\ k <= acked /\ acked - k < K /\ acked # k
      BY <1>1, <2>2
    <3>2. acked % K # k % K /\ k % K \in 0 .. BufferSize - 1
      BY <1>1, <3>1, SlotsApart, SlotOf DEF K
    <3> QED
      BY <1>1, <2>2, <3>2 DEF Kept, K
  <2> QED
    BY <2>1, <2>2
<1>5. \A k \in 0 .. acked : k = acked \/ (k \in 0 .. acked - 1 /\ k # acked)
  BY <1>1
<1> QED
  BY <1>3, <1>4, <1>5

(* A step that neither acknowledges nor sends and takes at most a byte.    *)
LEMMA DeliveryKept ==
  ASSUME CommsInv, DeliveryInv, UNCHANGED <<acked, sent, hasty>>,
         \A k \in 0 .. acked - 1 : Kept(k)' = Kept(k),
         rx' = rx \/ Take, delivered' = delivered \/ Len(delivered') = Len(delivered) + 1,
         UsedSlots > 1 /\ ~hasty => pc' # "breakpoint"
  PROVE  DeliveryInv'
<1>1. /\ acked \in Nat /\ sent \in Nat /\ Len(delivered) \in Nat
      /\ \A k \in 0 .. acked - 1 : Number(k)' = Number(k)
  BY AckedWereSent DEF Number
<1>2. KeptInOrder'
  BY <1>1 DEF DeliveryInv, KeptInOrder
<1>3. PICK d \in 0 .. 1 : /\ Len(rx') = Len(rx) - d /\ Len(rx) \in Nat
                          /\ \A i \in 1 .. Len(rx') : rx'[i] = rx[i + d]
  <2>1. CASE rx' = rx
    <3>1. Len(rx) \in Nat
      BY DEF CommsInv, Held
    <3>2. Len(rx') = Len(rx) - 0 /\ \A i \in 1 .. Len(rx') : rx'[i] = rx[i + 0]
      BY <2>1, <3>1
    <3> QED
      BY <3>1, <3>2
  <2>2. CASE Take
    <3>1. /\ Len(rx') = Len(rx) - 1 /\ Len(rx) \in Nat
          /\ \A i \in 1 .. Len(rx) - 1 : rx'[i] = rx[i + 1]
      BY <2>2, Taken DEF CommsInv
    <3> QED
      BY <3>1
  <2> QED
    BY <2>1, <2>2
<1>4. \A i \in 1 .. Len(rx') : i + d \in 1 .. Len(rx) /\ \A j \in 1 .. i - 1 : j + d \in 1 .. (i + d) - 1
  BY <1>3
<1>5. UnderWay'
  <2> SUFFICES ASSUME NEW i \in 1 .. Len(rx'), NEW n \in 1 .. MaxSent, rx'[i] = Token(n)
               PROVE  /\ n \in acked' + 1 .. sent'
                      /\ \A k \in 0 .. acked' - 1 : Number(k)' < n
                      /\ \A j \in 1 .. i - 1, m \in 1 .. MaxSent : rx'[j] = Token(m) => m < n
    BY DEF UnderWay, Token, LastOf
  <2>1. rx[i + d] = Token(n)
    BY <1>3
  <2>2. /\ n \in acked + 1 .. sent
        /\ \A k \in 0 .. acked - 1 : Number(k) < n
        /\ \A j \in 1 .. (i + d) - 1, m \in 1 .. MaxSent : rx[j] = Token(m) => m < n
    BY <1>4, <2>1 DEF DeliveryInv, UnderWay
  <2>3. ASSUME NEW j \in 1 .. i - 1, NEW m \in 1 .. MaxSent, rx'[j] = Token(m)
        PROVE  m < n
    <3>1. j \in 1 .. Len(rx') /\ j + d \in 1 .. (i + d) - 1
      BY <1>3, <1>4
    <3>2. rx[j + d] = Token(m)
      BY <1>3, <2>3, <3>1
    <3> QED
      BY <2>2, <3>1, <3>2
  <2> QED
    BY <1>1, <2>2, <2>3
<1>6. OneByOne'
  <2> SUFFICES ASSUME UsedSlots > 1, ~hasty
               PROVE  /\ pc' # "breakpoint"
                      /\ \A i \in 1 .. Len(rx'), n \in 1 .. MaxSent : rx'[i] = Token(n) => n = sent
                      /\ \A k \in Len(delivered') .. acked - 1 : Number(k)' = sent
    BY DEF OneByOne, Token, LastOf
  <2>1. /\ \A i \in 1 .. Len(rx), n \in 1 .. MaxSent : rx[i] = Token(n) => n = sent
        /\ \A k \in Len(delivered) .. acked - 1 : Number(k) = sent
    BY DEF DeliveryInv, OneByOne
  <2>2. \A i \in 1 .. Len(rx'), n \in 1 .. MaxSent : rx'[i] = Token(n) => n = sent
    BY <1>3, <1>4, <2>1
  <2>3. \A k \in Len(delivered') .. acked - 1 :
          k \in Len(delivered) .. acked - 1 /\ k \in 0 .. acked - 1
    BY <1>1
  <2> QED
    BY <1>1, <2>1, <2>2, <2>3
<1> QED
  BY <1>2, <1>5, <1>6 DEF DeliveryInv

(* A packet that is stored is the next one of those under way.             *)
LEMMA DeliveryStored ==
  ASSUME CommsInv, DeliveryInv, DataIsNoControl, Take, UNCHANGED <<sent, hasty, delivered>>,
         NEW n \in 1 .. MaxSent, rx[1] = Token(n), Stores(DataPacket(n))
  PROVE  DeliveryInv'
<1>1. /\ acked \in Nat /\ sent \in Nat /\ Len(delivered) \in Nat /\ acked' = acked + 1
      /\ Len(delivered) <= acked /\ pc' = pc
  BY AckedWereSent DEF Stores
<1>2. /\ Len(rx) \in Nat \ {0} /\ Len(rx') = Len(rx) - 1
      /\ \A i \in 1 .. Len(rx) - 1 : rx'[i] = rx[i + 1]
  BY Taken DEF CommsInv
<1>3. /\ n \in acked + 1 .. sent
      /\ \A k \in 0 .. acked - 1 : Number(k) < n
  <2>1. 1 \in 1 .. Len(rx)
    BY <1>2
  <2> QED
    BY <2>1 DEF DeliveryInv, UnderWay
<1>4. \A k \in 0 .. acked : Kept(k)' = IF k = acked THEN DataPacket(n) ELSE Kept(k)
  BY KeptStore
<1>5. \A k \in 0 .. acked : Number(k)' = IF k = acked THEN n ELSE Number(k)
  BY <1>4, DataApart DEF Number
<1>6. KeptInOrder'
  <2>1. ASSUME NEW k \in 0 .. acked
        PROVE  Number(k)' \in k + 1 .. sent /\ Kept(k)' = DataPacket(Number(k)')
    <3>1. CASE k = acked
      BY <1>1, <1>3, <1>4, <1>5, <3>1
    <3>2. CASE k # acked
      <4>1. k \in 0 .. acked - 1
        BY <1>1, <3>2
      <4> QED
        BY <1>4, <1>5, <3>2, <4>1 DEF DeliveryInv, KeptInOrder
    <3> QED
      BY <3>1, <3>2
  <2>2. ASSUME NEW j \in 0 .. acked, NEW k \in 0 .. acked, j < k
        PROVE  Number(j)' < Number(k)'
    <3>1. j \in 0 .. acked - 1 /\ j # acked
      BY <1>1, <2>2
    <3>2. CASE k = acked
      BY <1>3, <1>5, <3>1, <3>2
    <3>3. CASE k # acked
      <4>1. k \in 0 .. acked - 1
        BY <1>1, <3>3
      <4> QED
        BY <1>5, <2>2, <3>1, <3>3, <4>1 DEF DeliveryInv, KeptInOrder
    <3> QED
      BY <3>2, <3>3
  <2>3. acked' - 1 = acked
    BY <1>1
  <2>4. /\ \A k \in 0 .. acked' - 1 :
             Number(k)' \in k + 1 .. sent' /\ Kept(k)' = DataPacket(Number(k)')
        /\ \A j, k \in 0 .. acked' - 1 : j < k => Number(j)' < Number(k)'
    BY <2>1, <2>2, <2>3
  <2> QED
    BY <2>4 DEF KeptInOrder, DataPacket, Pkt, Data
<1>7. ASSUME NEW i \in 1 .. Len(rx'), NEW m \in 1 .. MaxSent, rx'[i] = Token(m)
      PROVE  /\ rx[i + 1] = Token(m) /\ i + 1 \in 1 .. Len(rx) /\ n < m
             /\ m \in acked + 1 .. sent
             /\ \A k \in 0 .. acked - 1 : Number(k) < m
             /\ \A j \in 1 .. i, l \in 1 .. MaxSent : rx[j] = Token(l) => l < m
  <2>1. rx[i + 1] = Token(m) /\ i + 1 \in 1 .. Len(rx) /\ (i + 1) - 1 = i /\ 1 \in 1 .. i
    BY <1>2, <1>7
  <2>2. /\ m \in acked + 1 .. sent
        /\ \A k \in 0 .. acked - 1 : Number(k) < m
        /\ \A j \in 1 .. (i + 1) - 1, l \in 1 .. MaxSent : rx[j] = Token(l) => l < m
    BY <2>1 DEF DeliveryInv, UnderWay
  <2> QED
    BY <2>1, <2>2
<1>8. UnderWay'
  <2> SUFFICES ASSUME NEW i \in 1 .. Len(rx'), NEW m \in 1 .. MaxSent, rx'[i] = Token(m)
               PROVE  /\ m \in acked' + 1 .. sent'
                      /\ \A k \in 0 .. acked' - 1 : Number(k)' < m
                      /\ \A j \in 1 .. i - 1, l \in 1 .. MaxSent : rx'[j] = Token(l) => l < m
    BY DEF UnderWay, Token, LastOf
  <2>1. m \in acked' + 1 .. sent'
    BY <1>1, <1>3, <1>7
  <2>2. ASSUME NEW k \in 0 .. acked' - 1
        PROVE  Number(k)' < m
    <3>1. acked' - 1 = acked
      BY <1>1
    <3>2. k \in 0 .. acked /\ (k = acked \/ (k \in 0 .. acked - 1 /\ k # acked))
      BY <1>1, <3>1
    <3> QED
      BY <1>5, <1>7, <3>2
  <2>3. ASSUME NEW j \in 1 .. i - 1, NEW l \in 1 .. MaxSent, rx'[j] = Token(l)
        PROVE  l < m
    <3>1. j \in 1 .. Len(rx) - 1 /\ j + 1 \in 1 .. i
      BY <1>2
    <3>2. rx[j + 1] = Token(l)
      BY <1>2, <2>3, <3>1
    <3> QED
      BY <1>7, <3>1, <3>2
  <2> QED
    BY <2>1, <2>2, <2>3
<1>9. OneByOne'
  <2> SUFFICES ASSUME UsedSlots > 1, ~hasty
               PROVE  /\ pc' # "breakpoint"
                      /\ \A i \in 1 .. Len(rx'), m \in 1 .. MaxSent : rx'[i] = Token(m) => m = sent
                      /\ \A k \in Len(delivered) .. acked' - 1 : Number(k)' = sent
    BY DEF OneByOne, Token, LastOf
  <2>1. /\ pc # "breakpoint"
        /\ \A i \in 1 .. Len(rx), m \in 1 .. MaxSent : rx[i] = Token(m) => m = sent
        /\ \A k \in Len(delivered) .. acked - 1 : Number(k) = sent
    BY DEF DeliveryInv, OneByOne
  <2>2. n = sent
    <3>1. 1 \in 1 .. Len(rx)
      BY <1>2
    <3> QED
      BY <2>1, <3>1
  <2>3. \A i \in 1 .. Len(rx'), m \in 1 .. MaxSent : rx'[i] = Token(m) => m = sent
    BY <1>1, <1>7, <2>2
  <2>4. Len(delivered) = acked
    <3>1. ASSUME Len(delivered) # acked PROVE FALSE
      <4>1. acked - 1 \in Len(delivered) .. acked - 1 /\ acked - 1 \in 0 .. acked - 1
        BY <1>1, <3>1
      <4>2. Number(acked - 1) = sent /\ Number(acked - 1) < n
        BY <1>3, <2>1, <4>1
      <4> QED
        BY <1>1, <2>2, <4>2
    <3> QED
      BY <3>1
  <2>5. ASSUME NEW k \in Len(delivered) .. acked' - 1
        PROVE  Number(k)' = sent
    <3>1. k = acked /\ k \in 0 .. acked
      BY <1>1, <2>4
    <3> QED
      BY <1>5, <2>2, <3>1
  <2> QED
    BY <1>1, <2>1, <2>3, <2>5
<1> QED
  BY <1>6, <1>8, <1>9 DEF DeliveryInv

(* A host that waits does not stop the receiver.                           *)
LEMMA WaitingDoesNotStop ==
  ASSUME CommsInv, DeliveryInv, UsedSlots > 1, ~hasty, Take,
         NEW n \in 1 .. MaxSent, rx[1] = Token(n)
  PROVE  acked + 1 - Len(delivered) # UsedSlots
<1>1. 1 \in 1 .. Len(rx)
  BY Taken DEF CommsInv
<1>2. n = sent /\ \A k \in 0 .. acked - 1 : Number(k) < n
  BY <1>1 DEF DeliveryInv, UnderWay, OneByOne
<1>3. /\ acked \in Nat /\ sent \in Nat /\ Len(delivered) \in Nat /\ UsedSlots \in Nat
  BY AckedWereSent, Slots, CommsAssumption
<1>4. ASSUME acked + 1 - Len(delivered) = UsedSlots PROVE FALSE
  <2>1. acked - 1 \in Len(delivered) .. acked - 1 /\ acked - 1 \in 0 .. acked - 1
    BY <1>3, <1>4
  <2>2. Number(acked - 1) = sent
    BY <2>1 DEF DeliveryInv, OneByOne
  <2> QED
    BY <1>2, <1>3, <2>1, <2>2
<1> QED
  BY <1>4
(* What a transmission adds to the bytes under way: the last byte of a     *)
(* data packet only at the end of that packet.                             *)
LEMMA Arrivals ==
  ASSUME CommsInv, DataIsNoControl, NEW p \in HostPackets, Transmit(Frame(p))
  PROVE  /\ Len(rx) \in Nat /\ Len(rx') \in Nat /\ Len(rx) <= Len(rx')
         /\ \A i \in 1 .. Len(rx) : rx'[i] = rx[i]
         /\ \A i \in Len(rx) + 1 .. Len(rx'), n \in 1 .. MaxSent :
              rx'[i] = Token(n) => i = Len(rx') /\ p = DataPacket(n)
<1>1. rx \in Seq(WireBytes) /\ Len(rx) \in Nat /\ faults \in Nat
  BY CommsAssumption DEF CommsInv, Held, TypeOK
<1>2. PICK s \in Seq(WireBytes) :
        /\ rx' = rx \o s
        /\ \A i \in 1 .. Len(s) : s[i] \in InnerBytes \/ (i = Len(s) /\ s[i] = LastOf(p))
  BY <1>1, Transmitted
<1>3. /\ Len(rx') = Len(rx) + Len(s) /\ Len(s) \in Nat
      /\ \A i \in 1 .. Len(rx) + Len(s) :
           rx'[i] = IF i <= Len(rx) THEN rx[i] ELSE s[i - Len(rx)]
  BY <1>1, <1>2, ConcatProperties
<1>4. ASSUME NEW i \in Len(rx) + 1 .. Len(rx'), NEW n \in 1 .. MaxSent, rx'[i] = Token(n)
      PROVE  i = Len(rx') /\ p = DataPacket(n)
  <2>1. i - Len(rx) \in 1 .. Len(s) /\ rx'[i] = s[i - Len(rx)]
    BY <1>1, <1>3
  <2>2. i - Len(rx) = Len(s) /\ Token(n) = LastOf(p)
    BY <1>2, <1>4, <2>1, TokenApart
  <2>3. p = DataPacket(n)
    BY <2>2, TokenApart
  <2> QED
    BY <1>1, <1>3, <2>2, <2>3
<1> QED
  BY <1>1, <1>3, <1>4

(* The host sends the next data packet.                                    *)
LEMMA DeliverySent ==
  ASSUME CommsInv, DeliveryInv, DataIsNoControl, HostSendsData
  PROVE  DeliveryInv'
<1>1. /\ acked \in Nat /\ sent \in Nat /\ Len(delivered) \in Nat
      /\ Len(delivered) <= acked /\ acked <= sent /\ MaxSent \in Nat
  BY AckedWereSent, CommsAssumption
<1>2. /\ sent' = sent + 1 /\ sent' \in 1 .. MaxSent
      /\ Transmit(Frame(DataPacket(sent'))) /\ hasty' = (hasty \/ ~HostUpToDate)
      /\ UNCHANGED <<queue, pc, acked, delivered>>
  BY <1>1 DEF HostSendsData
<1>3. \A k : Kept(k)' = Kept(k) /\ Number(k)' = Number(k)
  BY <1>2 DEF Kept, Number, queue
<1>4. DataPacket(sent') \in HostPackets
  BY <1>2, DataApart
<1>5. /\ Len(rx) \in Nat /\ Len(rx') \in Nat /\ Len(rx) <= Len(rx')
      /\ \A i \in 1 .. Len(rx) : rx'[i] = rx[i]
      /\ \A i \in Len(rx) + 1 .. Len(rx'), n \in 1 .. MaxSent :
           rx'[i] = Token(n) => i = Len(rx') /\ DataPacket(sent') = DataPacket(n)
  BY <1>2, <1>4, Arrivals
<1>6. ASSUME NEW i \in 1 .. Len(rx'), NEW n \in 1 .. MaxSent, rx'[i] = Token(n)
      PROVE  \/ i \in 1 .. Len(rx) /\ rx[i] = Token(n)
             \/ i = Len(rx') /\ n = sent + 1
  <2>1. CASE i \in 1 .. Len(rx)
    BY <1>5, <1>6, <2>1
  <2>2. CASE i \in Len(rx) + 1 .. Len(rx')
    BY <1>2, <1>5, <1>6, <2>2, DataApart
  <2> QED
    BY <1>5, <2>1, <2>2
<1>7. KeptInOrder'
  <2>1. \A k \in 0 .. acked - 1 :
          Number(k) \in k + 1 .. sent + 1 /\ Kept(k) = DataPacket(Number(k))
    BY <1>1 DEF DeliveryInv, KeptInOrder
  <2>2. \A j, k \in 0 .. acked - 1 : j < k => Number(j) < Number(k)
    BY DEF DeliveryInv, KeptInOrder
  <2>3. /\ \A k \in 0 .. acked' - 1 :
             Number(k)' \in k + 1 .. sent' /\ Kept(k)' = DataPacket(Number(k)')
        /\ \A j, k \in 0 .. acked' - 1 : j < k => Number(j)' < Number(k)'
    BY <1>2, <1>3, <2>1, <2>2
  <2> QED
    BY <2>3 DEF KeptInOrder, DataPacket, Pkt, Data
<1>8. UnderWay'
  <2> SUFFICES ASSUME NEW i \in 1 .. Len(rx'), NEW n \in 1 .. MaxSent, rx'[i] = Token(n)
               PROVE  /\ n \in acked + 1 .. sent + 1
                      /\ \A k \in 0 .. acked - 1 : Number(k) < n
                      /\ \A j \in 1 .. i - 1, m \in 1 .. MaxSent : rx'[j] = Token(m) => m < n
    BY <1>2, <1>3 DEF UnderWay, Token, LastOf
  <2>1. CASE i \in 1 .. Len(rx) /\ rx[i] = Token(n)
    <3>1. /\ n \in acked + 1 .. sent
          /\ \A k \in 0 .. acked - 1 : Number(k) < n
          /\ \A j \in 1 .. i - 1, m \in 1 .. MaxSent : rx[j] = Token(m) => m < n
      BY <2>1 DEF DeliveryInv, UnderWay
    <3>2. \A j \in 1 .. i - 1 : rx'[j] = rx[j]
      BY <1>5, <2>1
    <3>3. n \in acked + 1 .. sent + 1
      BY <1>1, <3>1
    <3> QED
      BY <3>1, <3>2, <3>3
  <2>2. CASE i = Len(rx') /\ n = sent + 1
    <3>1. \A k \in 0 .. acked - 1 : Number(k) \in k + 1 .. sent
      BY DEF DeliveryInv, KeptInOrder
    <3>2. \A k \in 0 .. acked - 1 : Number(k) < n
      BY <1>1, <2>2, <3>1
    <3>3. ASSUME NEW j \in 1 .. i - 1, NEW m \in 1 .. MaxSent, rx'[j] = Token(m)
          PROVE  m < n
      <4>1. j \in 1 .. Len(rx') /\ j # Len(rx')
        BY <1>5, <2>2
      <4>2. j \in 1 .. Len(rx) /\ rx[j] = Token(m)
        BY <1>6, <3>3, <4>1
      <4>3. m \in acked + 1 .. sent
        BY <4>2 DEF DeliveryInv, UnderWay
      <4> QED
        BY <1>1, <2>2, <4>3
    <3> QED
      BY <1>1, <2>2, <3>2, <3>3
  <2> QED
    BY <1>6, <2>1, <2>2
<1>9. OneByOne'
  <2> SUFFICES ASSUME UsedSlots > 1, ~hasty, HostUpToDate
               PROVE  /\ pc # "breakpoint"
                      /\ \A i \in 1 .. Len(rx'), n \in 1 .. MaxSent : rx'[i] = Token(n) => n = sent + 1
                      /\ \A k \in Len(delivered) .. acked - 1 : Number(k) = sent + 1
    BY <1>2, <1>3 DEF OneByOne, Token, LastOf
  <2>1. pc # "breakpoint"
    BY DEF DeliveryInv, OneByOne
  <2>2. acked = Len(delivered) /\ (acked = sent \/ rx = <<>>)
    <3>1. CASE Unread = 0
      BY <1>1, <3>1 DEF Unread
    <3>2. CASE rx = <<>> /\ ~PacketAvailable
      <4>1. /\ acked % UsedSlots = Len(delivered) % UsedSlots
            /\ acked - Len(delivered) < UsedSlots
        BY <3>2 DEF PacketAvailable, CommsInv, Indices
      <4>2. acked = Len(delivered)
        BY <1>1, <4>1, SlotsApart
      <4> QED
        BY <3>2, <4>2
    <3> QED
      BY <3>1, <3>2 DEF HostUpToDate
  <2>3. ASSUME NEW i \in 1 .. Len(rx), NEW n \in 1 .. MaxSent, rx[i] = Token(n)
        PROVE  FALSE
    <3>1. n \in acked + 1 .. sent
      BY <2>3 DEF DeliveryInv, UnderWay
    <3>2. acked # sent
      BY <1>1, <3>1
    <3>3. Len(rx) = 0
      BY <2>2, <3>2
    <3> QED
      BY <3>3
  <2>4. \A i \in 1 .. Len(rx'), n \in 1 .. MaxSent : rx'[i] = Token(n) => n = sent + 1
    BY <1>6, <2>3
  <2>5. \A k \in Len(delivered) .. acked - 1 : FALSE
    BY <1>1, <2>2
  <2> QED
    BY <2>1, <2>4, <2>5
<1> QED
  BY <1>7, <1>8, <1>9 DEF DeliveryInv

(* The host sends a control packet.                                        *)
LEMMA DeliveryControl ==
  ASSUME CommsInv, DeliveryInv, DataIsNoControl, HostSendsControl
  PROVE  DeliveryInv'
<1>1. /\ rx = <<>> /\ UNCHANGED <<queue, pc, acked, delivered, sent, hasty>>
  BY DEF HostSendsControl, host
<1>2. PICK byte \in {RetByte, AckByte} : Transmit(Frame(SingleByte(byte)))
  BY DEF HostSendsControl
<1>3. SingleByte(byte) \in HostPackets
  BY DEF HostPackets
<1>4. ASSUME NEW i \in 1 .. Len(rx'), NEW n \in 1 .. MaxSent, rx'[i] = Token(n)
      PROVE  FALSE
  <2>1. Len(rx) = 0
    BY <1>1
  <2>2. i \in Len(rx) + 1 .. Len(rx')
    BY <2>1
  <2>3. SingleByte(byte) = DataPacket(n)
    BY <1>2, <1>3, <1>4, <2>2, Arrivals
  <2> QED
    BY <2>3, DataApart DEF DataIsNoControl
<1>5. \A k : Kept(k)' = Kept(k) /\ Number(k)' = Number(k)
  BY <1>1 DEF Kept, Number, queue
<1>6. KeptInOrder'
  BY <1>1, <1>5 DEF DeliveryInv, KeptInOrder, DataPacket, Pkt, Data
<1>7. UnderWay'
  BY <1>4 DEF UnderWay, Token, LastOf
<1>8. OneByOne'
  BY <1>1, <1>4, <1>5 DEF OneByOne, DeliveryInv, Token, LastOf
<1> QED
  BY <1>6, <1>7, <1>8 DEF DeliveryInv

(* A byte of the checksum, and with the last one the packet.               *)
LEMMA DeliveryChecksum ==
  ASSUME CommsInv, DeliveryInv, DataIsNoControl, AwaitCRC
  PROVE  DeliveryInv'
<1> DEFINE crc == temp_packet.crc \cup {<<crc_bytes_count, Head(rx)>>}
           pkt == [length |-> temp_packet.length, data |-> temp_packet.data]
<1>1. /\ Take /\ pkt \in HeldPackets /\ UNCHANGED <<sent, hasty, delivered>>
      /\ \/ UNCHANGED <<queue, pc, acked>>
         \/ /\ crc_bytes_count = CrcBytes - 1 /\ Proper(pkt, crc)
            /\ Stores(pkt) \/ Stops
  BY ChecksumByte DEF host
<1>2. CASE UNCHANGED <<queue, pc, acked>>
  <2>1. \A k : Kept(k)' = Kept(k)
    BY <1>1, <1>2 DEF Kept, queue
  <2>2. UsedSlots > 1 /\ ~hasty => pc' # "breakpoint"
    BY <1>2 DEF DeliveryInv, OneByOne
  <2> QED
    BY <1>1, <1>2, <2>1, <2>2, DeliveryKept
<1>3. CASE /\ crc_bytes_count = CrcBytes - 1 /\ Proper(pkt, crc)
           /\ Stores(pkt) \/ Stops
  <2>1. <<CrcBytes - 1, Head(rx)>> \in crc
    BY <1>3
  <2> HIDE DEF crc, pkt
  <2>2. PICK n \in 1 .. MaxSent : pkt = DataPacket(n) /\ rx[1] = Token(n)
    BY <1>1, <1>3, <2>1, ProperEnds
  <2>3. CASE Stores(pkt)
    BY <1>1, <2>2, <2>3, DeliveryStored
  <2>4. CASE Stops
    <3>1. \A k : Kept(k)' = Kept(k)
      BY <1>1, <2>4 DEF Kept, queue, Stops
    <3>2. ~(UsedSlots > 1 /\ ~hasty)
      BY <1>1, <2>2, <2>4, WaitingDoesNotStop DEF Stops
    <3> QED
      BY <1>1, <2>4, <3>1, <3>2, DeliveryKept DEF Stops
  <2> QED
    BY <1>3, <2>3, <2>4
<1> QED
  BY <1>1, <1>2, <1>3

(* The other steps neither send nor acknowledge.                           *)
LEMMA DeliveryOther ==
  ASSUME CommsInv, DeliveryInv,
         AwaitLength \/ AwaitPayload \/ UpdateReturns \/ Caller \/ UNCHANGED vars
  PROVE  DeliveryInv'
<1>1. UNCHANGED <<acked, sent, hasty>>
  BY DEF AwaitLength, AwaitPayload, UpdateReturns, Caller, vars, host
<1>2. rx' = rx \/ Take
  BY DEF AwaitLength, AwaitPayload, UpdateReturns, Caller, vars
<1>3. UsedSlots > 1 /\ ~hasty => pc' # "breakpoint"
  BY DEF AwaitLength, AwaitPayload, UpdateReturns, Caller, vars, DeliveryInv, OneByOne
<1>4. CASE UNCHANGED <<queue, delivered>>
  <2>1. \A k : Kept(k)' = Kept(k)
    BY <1>4 DEF Kept, queue
  <2> QED
    BY <1>1, <1>2, <1>3, <1>4, <2>1, DeliveryKept
<1>5. CASE PacketAvailable /\ Read
  <2>1. \A k \in 0 .. acked - 1 : Kept(k)' = Kept(k)
    BY <1>1, <1>5, KeptRead
  <2>2. Len(delivered') = Len(delivered) + 1
    BY <1>5, ReadShape
  <2> QED
    BY <1>1, <1>2, <1>3, <2>1, <2>2, DeliveryKept
<1> QED
  BY <1>4, <1>5 DEF AwaitLength, AwaitPayload, UpdateReturns, Caller, vars, queue

(* So every step keeps the order of the packets.                           *)
LEMMA DeliveryStep ==
  ASSUME DataIsNoControl
  PROVE  CommsInv /\ DeliveryInv /\ [Next]_vars => DeliveryInv'
BY DeliverySent, DeliveryControl, DeliveryChecksum, DeliveryOther DEF Next, TakeByte

(* At the start nothing is under way.                                      *)
LEMMA DeliveryInit == Init => DeliveryInv
<1> SUFFICES ASSUME Init PROVE DeliveryInv
  OBVIOUS
<1>1. /\ acked = 0 /\ delivered = <<>> /\ rx = <<>> /\ Len(rx) = 0 /\ Len(delivered) = 0
      /\ pc = "update"
  BY DEF Init
<1>2. \A k \in 0 .. acked - 1 : FALSE
  BY <1>1
<1>3. \A i \in 1 .. Len(rx) : FALSE
  BY <1>1
<1>4. \A k \in Len(delivered) .. acked - 1 : FALSE
  BY <1>1
<1> QED
  BY <1>1, <1>2, <1>3, <1>4 DEF DeliveryInv, KeptInOrder, UnderWay, OneByOne

(* No packet is invented, damaged, overtaken or read twice, whichever      *)
(* bytes the line hits.                                                    *)
THEOREM ReadInOrder ==
  ASSUME DataIsNoControl
  PROVE  Spec => []DeliveredInOrder
<1>1. CommsInv /\ DeliveryInv => DeliveredInOrder
  <2> SUFFICES ASSUME CommsInv, DeliveryInv PROVE DeliveredInOrder
    OBVIOUS
  <2> DEFINE number == [i \in DOMAIN delivered |-> Number(i - 1)]
  <2>1. /\ acked \in Nat /\ sent \in Nat /\ Len(delivered) \in Nat
        /\ Len(delivered) <= acked /\ DOMAIN delivered = 1 .. Len(delivered)
    BY AckedWereSent DEF CommsInv, Held
  <2>2. ASSUME NEW i \in DOMAIN delivered
        PROVE  /\ i - 1 \in 0 .. acked - 1 /\ Kept(i - 1) = delivered[i]
               /\ Number(i - 1) \in 1 .. sent /\ delivered[i] = DataPacket(Number(i - 1))
    <3>1. i - 1 \in 0 .. acked - 1 /\ i - 1 < Len(delivered) /\ (i - 1) + 1 = i /\ i \in Nat
      BY <2>1
    <3>2. Kept(i - 1) = delivered[i]
      BY <3>1 DEF Kept
    <3>3. Number(i - 1) \in (i - 1) + 1 .. sent /\ Kept(i - 1) = DataPacket(Number(i - 1))
      BY <3>1 DEF DeliveryInv, KeptInOrder
    <3> QED
      BY <2>1, <3>1, <3>2, <3>3
  <2>3. number \in [DOMAIN delivered -> 1 .. sent]
    BY <2>2
  <2>4. \A i \in DOMAIN delivered : delivered[i] = DataPacket(number[i])
    BY <2>2
  <2>5. ASSUME NEW i \in DOMAIN delivered, NEW j \in DOMAIN delivered, i < j
        PROVE  number[i] < number[j]
    <3>1. i - 1 \in 0 .. acked - 1 /\ j - 1 \in 0 .. acked - 1 /\ i - 1 < j - 1
      BY <2>1, <2>2, <2>5
    <3> QED
      BY <3>1 DEF DeliveryInv, KeptInOrder
  <2> HIDE DEF number
  <2> QED
    BY <2>3, <2>4, <2>5 DEF DeliveredInOrder
<1> QED
  BY <1>1, CommsInvariant, DeliveryInit, DeliveryStep, PTL DEF Spec

(* A host that sends one packet at a time never stops the bootloader, when *)
(* the buffer has a slot to use and one to leave free.                     *)
THEOREM WaitingHostDoesNotStop ==
  ASSUME DataIsNoControl, UsedSlots > 1
  PROVE  Spec => []NoBreakpoint
<1>1. DeliveryInv => NoBreakpoint
  BY DEF DeliveryInv, OneByOne, NoBreakpoint
<1> QED
  BY <1>1, CommsInvariant, DeliveryInit, DeliveryStep, PTL DEF Spec
-----------------------------------------------------------------------------
(* A line that hits no byte.                                               *)

(* Bytes of the frame under way that the receiver has taken.               *)
Position ==
  IF state = "Await_Length" THEN 0
  ELSE IF state = "Await_Paylod" THEN 1 + payloads_bytes_count
  ELSE 1 + Payload + crc_bytes_count

(* They are those of the packet p.                                         *)
Received(p) ==
  /\ Position >= 1 => temp_packet.length = p.length
  /\ \A j \in 1 .. Payload : j < Position => temp_packet.data[j] = p.data[j]
  /\ temp_packet.crc = {<<j, Crc(p, j)>> : j \in 0 .. crc_bytes_count - 1}

(* The bytes under way are those of whole frames but for what has been   *)
(* taken of the first: byte i is byte at[i] of the frame of own[i].        *)
Frames(own, at) ==
  /\ own \in [1 .. Len(rx) -> HostPackets] /\ at \in [1 .. Len(rx) -> 1 .. FrameLength]
  /\ \A i \in 1 .. Len(rx) : rx[i] = Frame(own[i])[at[i]]
  /\ \A i \in 1 .. Len(rx) - 1 :
       \/ at[i + 1] = at[i] + 1 /\ own[i + 1] = own[i]
       \/ at[i] = FrameLength /\ at[i + 1] = 1
  /\ Len(rx) > 0 => at[1] = Position + 1 /\ at[Len(rx)] = FrameLength /\ Received(own[1])
  /\ Len(rx) = 0 => Position = 0 /\ temp_packet.crc = {}

(* Every packet sent and not acknowledged is under way.                    *)
Arriving == \A n \in acked + 1 .. sent : \E i \in 1 .. Len(rx) : rx[i] = Token(n)

CleanInv == faults = 0 /\ pc # "breakpoint" => (\E own, at : Frames(own, at)) /\ Arriving

(* The sizes, and what the position says of the counters.                  *)
LEMMA Positions ==
  ASSUME CommsInv
  PROVE  /\ Payload \in Nat \ {0} /\ CrcBytes \in Nat \ {0}
         /\ FrameLength = 1 + Payload + CrcBytes /\ FrameLength \in Nat
         /\ payloads_bytes_count \in 0 .. Payload - 1 /\ crc_bytes_count \in 0 .. CrcBytes - 1
         /\ Position \in 0 .. FrameLength - 1 /\ Len(rx) \in Nat
BY CommsAssumption DEF CommsInv, TypeOK, Held, FrameLength, Position

(* The byte at the head of the ring.                                       *)
LEMMA FirstByte ==
  ASSUME CommsInv, Take, NEW own, NEW at, Frames(own, at)
  PROVE  /\ own[1] \in HostPackets /\ at[1] = Position + 1 /\ Received(own[1])
         /\ Head(rx) = rx[1] /\ rx[1] = Frame(own[1])[Position + 1]
<1>1. Len(rx) \in Nat \ {0} /\ Head(rx) = rx[1]
  BY Taken DEF CommsInv
<1>2. 1 \in 1 .. Len(rx) /\ Len(rx) > 0
  BY <1>1
<1> QED
  BY <1>1, <1>2 DEF Frames

(* Taking a byte that is not the last of its frame, or one that is.        *)
LEMMA FramesTaken ==
  ASSUME CommsInv, Take, NEW own, NEW at, Frames(own, at),
         \/ Position < FrameLength - 1 /\ Position' = Position + 1 /\ Received(own[1])'
         \/ /\ Position = FrameLength - 1
            /\ Position' = 0 /\ temp_packet'.crc = {} /\ crc_bytes_count' = 0
  PROVE  \E o, a : Frames(o, a)'
<1>1. PICK L : L = Len(rx)
  OBVIOUS
<1>2. /\ L \in Nat \ {0} /\ Len(rx') = L - 1
      /\ \A i \in 1 .. L - 1 : rx'[i] = rx[i + 1]
  BY <1>1, Taken DEF CommsInv
<1>3. FrameLength \in Nat /\ Position \in 0 .. FrameLength - 1
  BY Positions
<1>4. /\ own \in [1 .. L -> HostPackets] /\ at \in [1 .. L -> 1 .. FrameLength]
      /\ \A i \in 1 .. L : rx[i] = Frame(own[i])[at[i]]
      /\ \A i \in 1 .. L - 1 :
           \/ at[i + 1] = at[i] + 1 /\ own[i + 1] = own[i]
           \/ at[i] = FrameLength /\ at[i + 1] = 1
      /\ at[1] = Position + 1 /\ at[L] = FrameLength
  BY <1>1, <1>2 DEF Frames
<1>5. PICK o, a : /\ o = [i \in 1 .. L - 1 |-> own[i + 1]]
                  /\ a = [i \in 1 .. L - 1 |-> at[i + 1]]
  OBVIOUS
<1>6. \A i \in 1 .. L - 1 : i + 1 \in 1 .. L /\ i \in 1 .. L
  BY <1>2
<1>7. /\ o \in [1 .. L - 1 -> HostPackets] /\ a \in [1 .. L - 1 -> 1 .. FrameLength]
      /\ \A i \in 1 .. L - 1 : o[i] = own[i + 1] /\ a[i] = at[i + 1]
  BY <1>4, <1>5, <1>6
<1>8. \A i \in 1 .. L - 1 : rx'[i] = Frame(o[i])[a[i]]
  BY <1>2, <1>4, <1>6, <1>7
<1>9. ASSUME NEW i \in 1 .. L - 2
      PROVE  \/ a[i + 1] = a[i] + 1 /\ o[i + 1] = o[i]
             \/ a[i] = FrameLength /\ a[i + 1] = 1
  <2>1. i + 1 \in 1 .. L - 1 /\ i \in 1 .. L - 1
    BY <1>2
  <2> QED
    BY <1>4, <1>7, <2>1
<1>10. L - 1 > 0 => a[1] = Position' + 1 /\ a[L - 1] = FrameLength /\ Received(o[1])'
  <2> SUFFICES ASSUME L - 1 > 0
               PROVE  a[1] = Position' + 1 /\ a[L - 1] = FrameLength /\ Received(o[1])'
    OBVIOUS
  <2>1. 1 \in 1 .. L - 1 /\ L - 1 \in 1 .. L - 1 /\ (L - 1) + 1 = L /\ 1 + 1 = 2
    BY <1>2
  <2>2. a[1] = at[2] /\ o[1] = own[2] /\ a[L - 1] = FrameLength
    BY <1>4, <1>7, <2>1
  <2>3. \/ at[2] = at[1] + 1 /\ own[2] = own[1]
        \/ at[1] = FrameLength /\ at[2] = 1
    BY <1>4, <2>1
  <2>4. at[2] \in 1 .. FrameLength
    BY <1>7, <2>1, <2>2
  <2>5. CASE Position < FrameLength - 1 /\ Position' = Position + 1 /\ Received(own[1])'
    <3>1. at[2] = at[1] + 1 /\ own[2] = own[1]
      BY <1>3, <1>4, <2>3, <2>5
    <3>2. o[1] = own[1]
      BY <2>2, <3>1
    <3>3. Received(o[1])'
      BY <2>5, <3>2
    <3> QED
      BY <1>3, <1>4, <2>2, <2>5, <3>1, <3>3
  <2>6. CASE /\ Position = FrameLength - 1
             /\ Position' = 0 /\ temp_packet'.crc = {} /\ crc_bytes_count' = 0
    <3>1. at[2] = 1
      BY <1>3, <1>4, <2>3, <2>4, <2>6
    <3>2. Received(o[1])'
      <4>1. \A j \in 1 .. Payload : ~(j < Position')
        BY <2>6, CommsAssumption
      <4>2. ~(Position' >= 1)
        BY <2>6
      <4>3. {<<j, Crc(o[1], j)>> : j \in 0 .. crc_bytes_count' - 1} = {}
        BY <2>6
      <4> QED
        BY <2>6, <4>1, <4>2, <4>3 DEF Received
    <3> QED
      BY <2>2, <2>6, <3>1, <3>2
  <2> QED
    BY <2>5, <2>6
<1>11. L - 1 = 0 => Position' = 0 /\ temp_packet'.crc = {}
  <2> SUFFICES ASSUME L - 1 = 0 PROVE Position' = 0 /\ temp_packet'.crc = {}
    OBVIOUS
  <2>1. L = 1
    BY <1>2
  <2>2. Position = FrameLength - 1
    BY <1>3, <1>4, <2>1
  <2>3. ~(Position < FrameLength - 1)
    BY <1>2, <2>2
  <2> QED
    BY <2>3, Zenon
<1>12. L - 1 - 1 = L - 2
  BY <1>2
<1>13. Frames(o, a)'
  BY <1>2, <1>7, <1>8, <1>9, <1>10, <1>11, <1>12 DEF Frames, Frame, FrameLength, HostPackets,
     DataPacket, SingleByte, Pkt, Data
<1> QED
  BY <1>13

(* A whole frame arrives behind the others.                                *)
LEMMA FramesSent ==
  ASSUME CommsInv, NEW p \in HostPackets, NEW own, NEW at, Frames(own, at),
         rx' = rx \o Frame(p), UNCHANGED framing
  PROVE  \E o, a : Frames(o, a)'
<1>1. PICK L, M : L = Len(rx) /\ M = L + FrameLength
  OBVIOUS
<1>2. /\ FrameLength \in Nat \ {0} /\ L \in Nat /\ M \in Nat \ {0} /\ L < M /\ M - L = FrameLength
      /\ Position' = Position /\ crc_bytes_count \in Nat
  <2>1. /\ FrameLength \in Nat \ {0} /\ Len(rx) \in Nat /\ crc_bytes_count \in Nat
    BY Positions
  <2>2. Position' = Position
    BY DEF Position, framing
  <2> QED
    BY <1>1, <2>1, <2>2
<1>3. Frame(p) \in Seq(WireBytes) /\ Len(Frame(p)) = FrameLength
  BY FrameBytes
<1>4. /\ Len(rx') = M
      /\ \A i \in 1 .. M :
           rx'[i] = IF i <= L THEN rx[i] ELSE Frame(p)[i - L]
  BY <1>1, <1>3, ConcatProperties DEF CommsInv, Held
<1>5. /\ own \in [1 .. L -> HostPackets] /\ at \in [1 .. L -> 1 .. FrameLength]
      /\ \A i \in 1 .. L : rx[i] = Frame(own[i])[at[i]]
      /\ \A i \in 1 .. L - 1 :
           \/ at[i + 1] = at[i] + 1 /\ own[i + 1] = own[i]
           \/ at[i] = FrameLength /\ at[i + 1] = 1
      /\ L > 0 => at[1] = Position + 1 /\ at[L] = FrameLength /\ Received(own[1])
      /\ L = 0 => Position = 0 /\ temp_packet.crc = {}
  BY <1>1 DEF Frames
<1>6. PICK o, a : /\ o = [i \in 1 .. M |-> IF i <= L THEN own[i] ELSE p]
                  /\ a = [i \in 1 .. M |-> IF i <= L THEN at[i] ELSE i - L]
  OBVIOUS
<1>7. /\ \A i \in 1 .. L : o[i] = own[i] /\ a[i] = at[i] /\ i \in 1 .. M
      /\ \A i \in L + 1 .. M :
           o[i] = p /\ a[i] = i - L /\ i - L \in 1 .. FrameLength /\ ~(i <= L)
      /\ \A i \in 1 .. M : i \in 1 .. L \/ i \in L + 1 .. M
  BY <1>2, <1>6
<1>8. o \in [1 .. M -> HostPackets] /\ a \in [1 .. M -> 1 .. FrameLength]
  BY <1>2, <1>5, <1>6, <1>7
<1>9. \A i \in 1 .. M : rx'[i] = Frame(o[i])[a[i]]
  <2> SUFFICES ASSUME NEW i \in 1 .. M PROVE rx'[i] = Frame(o[i])[a[i]]
    OBVIOUS
  <2>1. CASE i \in 1 .. L
    BY <1>2, <1>4, <1>5, <1>7, <2>1
  <2>2. CASE i \in L + 1 .. M
    BY <1>4, <1>7, <2>2
  <2> QED
    BY <1>7, <2>1, <2>2
<1>10. ASSUME NEW i \in 1 .. M - 1
       PROVE  \/ a[i + 1] = a[i] + 1 /\ o[i + 1] = o[i]
              \/ a[i] = FrameLength /\ a[i + 1] = 1
  <2>1. CASE i < L
    <3>1. i \in 1 .. L - 1 /\ i \in 1 .. L /\ i + 1 \in 1 .. L
      BY <1>2, <2>1
    <3> QED
      BY <1>5, <1>7, <3>1
  <2>2. CASE i = L
    <3>1. L \in 1 .. L /\ L + 1 \in L + 1 .. M /\ L + 1 - L = 1 /\ L > 0
      BY <1>2, <2>2
    <3> QED
      BY <1>5, <1>7, <2>2, <3>1
  <2>3. CASE i > L
    <3>1. /\ i \in L + 1 .. M /\ i + 1 \in L + 1 .. M
          /\ (i + 1) - L = (i - L) + 1
      BY <1>2, <2>3
    <3>2. a[i + 1] = (i + 1) - L /\ o[i + 1] = p /\ a[i] = i - L /\ o[i] = p
      BY <1>7, <3>1
    <3> QED
      BY <3>1, <3>2
  <2> QED
    BY <1>2, <2>1, <2>2, <2>3
<1>11. a[1] = Position + 1 /\ Received(o[1])'
  <2>1. CASE L > 0
    <3>1. 1 \in 1 .. L
      BY <1>2, <2>1
    <3>2. a[1] = Position + 1 /\ o[1] = own[1] /\ Received(own[1])
      BY <1>5, <1>7, <2>1, <3>1
    <3> QED
      BY <1>2, <3>2 DEF Received, framing
  <2>2. CASE L = 0
    <3>1. 1 \in L + 1 .. M /\ 1 - L = 1
      BY <1>2, <2>2
    <3>2. a[1] = Position + 1 /\ Position = 0 /\ temp_packet.crc = {}
      BY <1>5, <1>7, <2>2, <3>1
    <3>3. crc_bytes_count = 0 /\ \A j \in 1 .. Payload : ~(j < Position)
      <4>1. state = "Await_Length"
        BY <3>2, Positions DEF Position, CommsInv, TypeOK
      <4> QED
        BY <3>2, <4>1, CommsAssumption DEF CommsInv
    <3>4. {<<j, Crc(o[1], j)>> : j \in 0 .. crc_bytes_count - 1} = {} /\ ~(Position >= 1)
      BY <3>2, <3>3
    <3> QED
      BY <1>2, <3>2, <3>3, <3>4 DEF Received, framing
  <2> QED
    BY <1>2, <2>1, <2>2
<1>12. a[M] = FrameLength
  <2>1. M \in L + 1 .. M /\ M - L = FrameLength
    BY <1>2
  <2> QED
    BY <1>7, <2>1
<1>13. Len(rx') > 0 /\ Len(rx') # 0 /\ Len(rx') = M
  BY <1>2, <1>4
<1>14. Frames(o, a)'
  BY <1>2, <1>4, <1>8, <1>9, <1>10, <1>11, <1>12, <1>13 DEF Frames, Frame, FrameLength,
     HostPackets, DataPacket, SingleByte, Pkt, Data
<1> QED
  BY <1>14
(* A byte that is taken is not missed: it is no last byte of a data        *)
(* packet, or it is that of the packet acknowledged with it.               *)
LEMMA ArrivingTaken ==
  ASSUME CommsInv, DeliveryInv, DataIsNoControl, Take, Arriving, sent' = sent,
         \/ acked' = acked /\ \A n \in 1 .. MaxSent : rx[1] # Token(n)
         \/ acked' = acked + 1 /\ \E n \in 1 .. MaxSent : rx[1] = Token(n)
  PROVE  Arriving'
<1>1. /\ acked \in Nat /\ sent \in Nat /\ sent <= MaxSent /\ MaxSent \in Nat
  BY AckedWereSent, CommsAssumption DEF CommsInv, TypeOK
<1>2. /\ Len(rx) \in Nat \ {0} /\ Len(rx') = Len(rx) - 1
      /\ \A i \in 1 .. Len(rx) - 1 : rx'[i] = rx[i + 1]
  BY Taken DEF CommsInv
<1> SUFFICES ASSUME NEW n \in acked' + 1 .. sent'
             PROVE  \E i \in 1 .. Len(rx') : rx'[i] = Token(n)
  BY DEF Arriving, Token, LastOf, DataPacket, Pkt, Data
<1>3. n \in acked + 1 .. sent /\ n \in 1 .. MaxSent /\ (acked' = acked + 1 => n # acked + 1)
  BY <1>1
<1>4. PICK i \in 1 .. Len(rx) : rx[i] = Token(n)
  BY <1>3 DEF Arriving
<1>5. i # 1
  <2> SUFFICES ASSUME i = 1 PROVE FALSE
    OBVIOUS
  <2>1. acked' = acked + 1
    BY <1>3, <1>4
  <2>2. acked + 1 \in acked + 1 .. sent /\ acked + 1 \in 1 .. MaxSent
    BY <1>1, <1>3
  <2>3. PICK k \in 1 .. Len(rx) : rx[k] = Token(acked + 1)
    BY <2>2 DEF Arriving
  <2>4. CASE k = 1
    <3>1. DataPacket(n) \in HostPackets /\ LastOf(DataPacket(n)) = Token(acked + 1)
      BY <1>3, <1>4, <2>3, <2>4, DataApart DEF Token
    <3>2. DataPacket(n) = DataPacket(acked + 1)
      BY <2>2, <3>1, TokenApart
    <3>3. n = acked + 1
      BY <1>3, <2>2, <3>2, DataApart
    <3> QED
      BY <1>3, <2>1, <3>3
  <2>5. CASE k # 1
    <3>1. 1 \in 1 .. k - 1
      BY <1>2, <2>5
    <3>2. n < acked + 1
      BY <1>3, <1>4, <2>2, <2>3, <3>1 DEF DeliveryInv, UnderWay
    <3> QED
      BY <1>1, <1>3, <3>2
  <2> QED
    BY <2>4, <2>5
<1>6. i - 1 \in 1 .. Len(rx) - 1 /\ (i - 1) + 1 = i
  BY <1>2, <1>5
<1>7. rx'[i - 1] = Token(n)
  BY <1>2, <1>4, <1>6
<1> QED
  BY <1>2, <1>6, <1>7

(* The bytes before the last of a frame are no last bytes.                 *)
LEMMA InnerByte ==
  ASSUME CommsInv, DataIsNoControl, Take, NEW own, NEW at, Frames(own, at),
         Position < FrameLength - 1
  PROVE  \A n \in 1 .. MaxSent : rx[1] # Token(n)
<1>1. own[1] \in HostPackets /\ rx[1] = Frame(own[1])[Position + 1]
  BY FirstByte
<1>2. Position + 1 \in 1 .. FrameLength - 1
  <2>1. Position \in 0 .. FrameLength - 1 /\ FrameLength \in Nat
    BY Positions
  <2> QED
    BY <2>1
<1>3. rx[1] \in InnerBytes
  BY <1>1, <1>2, FrameEnds
<1> QED
  BY <1>3, TokenApart

(* The length byte and the payload go to their places.                     *)
LEMMA FieldsReceived ==
  ASSUME CommsInv, AwaitLength \/ AwaitPayload, NEW own, NEW at, Frames(own, at)
  PROVE  Position < FrameLength - 1 /\ Position' = Position + 1 /\ Received(own[1])'
<1>1. /\ Payload \in Nat \ {0} /\ CrcBytes \in Nat \ {0}
      /\ FrameLength = 1 + Payload + CrcBytes
      /\ payloads_bytes_count \in 0 .. Payload - 1
  BY Positions
<1>2. PICK p : p = own[1]
  OBVIOUS
<1>3. p \in HostPackets /\ Received(p) /\ Head(rx) = Frame(p)[Position + 1]
  BY <1>2, FirstByte DEF AwaitLength, AwaitPayload
<1>4. /\ Frame(p)[1] = p.length
      /\ \A i \in 1 .. Payload : Frame(p)[1 + i] = p.data[i]
  BY <1>3, FrameBytes
<1>5. CASE AwaitLength
  <2>1. Position = 0 /\ Position' = 1 /\ crc_bytes_count' = crc_bytes_count
    BY <1>5 DEF AwaitLength, Position, CommsInv
  <2>2. /\ temp_packet'.length = Head(rx) /\ temp_packet'.crc = temp_packet.crc
    BY <1>5 DEF AwaitLength, CommsInv
  <2>3. temp_packet'.length = p.length
    BY <1>3, <1>4, <2>1, <2>2
  <2>4. \A j \in 1 .. Payload : ~(j < Position')
    BY <1>1, <2>1
  <2>5. Received(p)'
    BY <1>3, <2>1, <2>2, <2>3, <2>4 DEF Received
  <2> QED
    BY <1>1, <1>2, <2>1, <2>5
<1>6. CASE AwaitPayload
  <2> DEFINE c == payloads_bytes_count
  <2>1. crc_bytes_count = 0 /\ crc_bytes_count' = 0 /\ Position = 1 + c
    BY <1>6 DEF AwaitPayload, Position, CommsInv
  <2>2. Position' = 2 + c
    BY <1>1, <1>6, <2>1 DEF AwaitPayload, Position
  <2>3. /\ temp_packet'.length = temp_packet.length /\ temp_packet'.crc = temp_packet.crc
        /\ temp_packet'.data = [temp_packet.data EXCEPT ![c + 1] = Head(rx)]
    BY <1>6 DEF AwaitPayload, CommsInv
  <2>4. DOMAIN temp_packet.data = 1 .. Payload
    BY DEF CommsInv, TypeOK
  <2>5. Head(rx) = p.data[c + 1]
    <3>1. c + 1 \in 1 .. Payload /\ Position + 1 = 1 + (c + 1)
      BY <1>1, <2>1
    <3> QED
      BY <1>3, <1>4, <3>1
  <2>6. ASSUME NEW j \in 1 .. Payload, j < 2 + c
        PROVE  temp_packet'.data[j] = p.data[j]
    <3>1. CASE j = c + 1
      BY <2>3, <2>4, <2>5, <3>1
    <3>2. CASE j # c + 1
      <4>1. j < Position
        BY <1>1, <2>1, <2>6, <3>2
      <4>2. temp_packet.data[j] = p.data[j]
        BY <1>3, <4>1 DEF Received
      <4> QED
        BY <2>3, <2>4, <3>2, <4>2
    <3> QED
      BY <3>1, <3>2
  <2>7. temp_packet.length = p.length
    BY <1>1, <1>3, <2>1 DEF Received
  <2>8. Received(p)'
    BY <1>3, <2>1, <2>2, <2>3, <2>6, <2>7 DEF Received
  <2> QED
    BY <1>1, <1>2, <2>1, <2>2, <2>8
<1> QED
  BY <1>5, <1>6

(* The checksum adds up to that of the packet.                             *)
LEMMA ChecksumReceived ==
  ASSUME CommsInv, AwaitCRC, NEW own, NEW at, Frames(own, at)
  PROVE  LET crc == temp_packet.crc \cup {<<crc_bytes_count, Head(rx)>>}
             pkt == [length |-> temp_packet.length, data |-> temp_packet.data]
         IN /\ pkt = own[1] /\ Position = 1 + Payload + crc_bytes_count
            /\ crc = {<<j, Crc(own[1], j)>> : j \in 0 .. crc_bytes_count}
<1>1. /\ Payload \in Nat \ {0} /\ CrcBytes \in Nat \ {0}
      /\ FrameLength = 1 + Payload + CrcBytes
      /\ crc_bytes_count \in 0 .. CrcBytes - 1
  BY Positions
<1>2. PICK p : p = own[1]
  OBVIOUS
<1>3. p \in HostPackets /\ Received(p) /\ Head(rx) = Frame(p)[Position + 1]
  BY <1>2, FirstByte DEF AwaitCRC
<1>4. Position = 1 + Payload + crc_bytes_count
  BY DEF AwaitCRC, Position
<1>5. Head(rx) = Crc(p, crc_bytes_count)
  <2>1. \A j \in 0 .. CrcBytes - 1 : Frame(p)[1 + Payload + j + 1] = Crc(p, j)
    BY <1>3, FrameBytes
  <2>2. Position + 1 = 1 + Payload + crc_bytes_count + 1
    BY <1>1, <1>4
  <2> QED
    BY <1>1, <1>3, <2>1, <2>2
<1>6. temp_packet.crc \cup {<<crc_bytes_count, Head(rx)>>}
        = {<<j, Crc(p, j)>> : j \in 0 .. crc_bytes_count}
  <2>1. temp_packet.crc = {<<j, Crc(p, j)>> : j \in 0 .. crc_bytes_count - 1}
    BY <1>3 DEF Received
  <2>2. 0 .. crc_bytes_count = 0 .. crc_bytes_count - 1 \cup {crc_bytes_count}
    BY <1>1
  <2> QED
    BY <1>5, <2>1, <2>2
<1>7. [length |-> temp_packet.length, data |-> temp_packet.data] = p
  <2>1. temp_packet.length = p.length /\ \A j \in 1 .. Payload : temp_packet.data[j] = p.data[j]
    BY <1>1, <1>3, <1>4 DEF Received
  <2>2. temp_packet.data \in [1 .. Payload -> HeldBytes] /\ p.data \in [1 .. Payload -> InnerBytes]
        /\ p = [length |-> p.length, data |-> p.data]
    BY <1>3, HostPacketType DEF CommsInv, Held
  <2>3. temp_packet.data = p.data
    <3>1. temp_packet.data = [j \in 1 .. Payload |-> temp_packet.data[j]]
      BY <2>2
    <3>2. p.data = [j \in 1 .. Payload |-> p.data[j]]
      BY <2>2
    <3>3. [j \in 1 .. Payload |-> temp_packet.data[j]] = [j \in 1 .. Payload |-> p.data[j]]
      BY <2>1
    <3> QED
      BY <3>1, <3>2, <3>3
  <2> QED
    BY <2>1, <2>2, <2>3
<1> QED
  BY <1>2, <1>4, <1>6, <1>7

(* No byte of the length or of the payload is missed.                      *)
LEMMA CleanFields ==
  ASSUME CommsInv, DeliveryInv, DataIsNoControl, CleanInv, AwaitLength \/ AwaitPayload
  PROVE  CleanInv'
<1>1. Take /\ UNCHANGED <<pc, sent, acked, faults>>
  BY DEF AwaitLength, AwaitPayload, host
<1> SUFFICES ASSUME faults = 0, pc # "breakpoint"
             PROVE  (\E own, at : Frames(own, at))' /\ Arriving'
  BY <1>1 DEF CleanInv
<1>2. PICK own, at : Frames(own, at)
  BY DEF CleanInv
<1>3. Position < FrameLength - 1 /\ Position' = Position + 1 /\ Received(own[1])'
  BY <1>2, FieldsReceived
<1>4. \E o, a : Frames(o, a)'
  BY <1>1, <1>2, <1>3, FramesTaken
<1>5. Arriving'
  BY <1>1, <1>2, <1>3, InnerByte, ArrivingTaken DEF CleanInv
<1> QED
  BY <1>4, <1>5

(* No frame is missed with its checksum.                                   *)
LEMMA CleanChecksum ==
  ASSUME CommsInv, DeliveryInv, DataIsNoControl, CleanInv, AwaitCRC
  PROVE  CleanInv'
<1> DEFINE crc == temp_packet.crc \cup {<<crc_bytes_count, Head(rx)>>}
           pkt == [length |-> temp_packet.length, data |-> temp_packet.data]
<1>1. /\ Take /\ UNCHANGED <<payloads_bytes_count, sent, faults>>
      /\ temp_packet'.data = temp_packet.data
      /\ temp_packet'.length = temp_packet.length
      /\ \/ /\ crc_bytes_count + 1 < CrcBytes
            /\ temp_packet'.crc = crc /\ crc_bytes_count' = crc_bytes_count + 1
            /\ UNCHANGED <<state, queue, pc, acked>>
         \/ /\ crc_bytes_count = CrcBytes - 1
            /\ temp_packet'.crc = {}
            /\ crc_bytes_count' = 0 /\ state' = "Await_Length"
            /\ \/ Proper(pkt, crc) /\ (Stores(pkt) \/ Stops)
               \/ ~Proper(pkt, crc) /\ UNCHANGED <<queue, pc, acked>>
  BY ChecksumByte DEF host
<1> SUFFICES ASSUME faults = 0, pc' # "breakpoint"
             PROVE  (\E own, at : Frames(own, at))' /\ Arriving'
  BY <1>1 DEF CleanInv
<1>2. pc = "update" /\ state = "Await_CRC"
  BY DEF AwaitCRC, Take
<1>3. PICK own, at : Frames(own, at)
  BY <1>2 DEF CleanInv
<1>4. Arriving
  BY <1>2 DEF CleanInv
<1>5. /\ Payload \in Nat \ {0} /\ CrcBytes \in Nat \ {0}
      /\ FrameLength = 1 + Payload + CrcBytes
      /\ crc_bytes_count \in 0 .. CrcBytes - 1
  BY Positions
<1>6. PICK p : p = own[1]
  OBVIOUS
<1>7. /\ pkt = p /\ Position = 1 + Payload + crc_bytes_count
      /\ crc = {<<j, Crc(p, j)>> : j \in 0 .. crc_bytes_count}
  BY <1>3, <1>6, ChecksumReceived
<1>8. p \in HostPackets /\ Received(p) /\ rx[1] = Frame(p)[Position + 1]
  BY <1>1, <1>3, <1>6, FirstByte
<1> HIDE DEF crc, pkt
<1>9. CASE /\ crc_bytes_count + 1 < CrcBytes
           /\ temp_packet'.crc = crc /\ crc_bytes_count' = crc_bytes_count + 1
           /\ UNCHANGED <<state, queue, pc, acked>>
  <2>1. Position < FrameLength - 1
    BY <1>5, <1>7, <1>9
  <2>2. Position' = Position + 1
    BY <1>2, <1>5, <1>7, <1>9 DEF Position
  <2>3. Received(p)'
    <3>1. temp_packet.length = p.length
      BY <1>5, <1>7, <1>8 DEF Received
    <3>2. \A j \in 1 .. Payload : temp_packet.data[j] = p.data[j]
      BY <1>5, <1>7, <1>8 DEF Received
    <3>3. crc_bytes_count' - 1 = crc_bytes_count
      BY <1>5, <1>9
    <3> QED
      BY <1>1, <1>7, <1>9, <3>1, <3>2, <3>3 DEF Received
  <2>4. \E o, a : Frames(o, a)'
    BY <1>1, <1>3, <1>6, <2>1, <2>2, <2>3, FramesTaken
  <2>5. Arriving'
    BY <1>1, <1>3, <1>4, <1>9, <2>1, InnerByte, ArrivingTaken
  <2> QED
    BY <2>4, <2>5
<1>10. CASE /\ crc_bytes_count = CrcBytes - 1
            /\ temp_packet'.crc = {}
            /\ crc_bytes_count' = 0 /\ state' = "Await_Length"
            /\ \/ Proper(pkt, crc) /\ (Stores(pkt) \/ Stops)
               \/ ~Proper(pkt, crc) /\ UNCHANGED <<queue, pc, acked>>
  <2>1. Position = FrameLength - 1 /\ Position' = 0
    BY <1>5, <1>7, <1>10 DEF Position
  <2>2. \E o, a : Frames(o, a)'
    BY <1>1, <1>3, <1>10, <2>1, FramesTaken
  <2>3. crc = Checksum(p)
    BY <1>7, <1>10 DEF Checksum
  <2>4. rx[1] = LastOf(p)
    <3>1. Position + 1 = FrameLength
      BY <1>5, <2>1
    <3> QED
      BY <1>8, <3>1, FrameEnds
  <2>5. CASE \E n \in 1 .. MaxSent : p = DataPacket(n)
    <3>1. PICK n \in 1 .. MaxSent : p = DataPacket(n)
      BY <2>5
    <3>2. Proper(pkt, crc)
      BY <1>7, <2>3, <3>1, DataApart DEF Proper, IsCntrl, DataIsNoControl
    <3>3. acked' = acked + 1
      BY <1>10, <3>2 DEF Stores, Stops
    <3>4. rx[1] = Token(n)
      BY <2>4, <3>1 DEF Token
    <3>5. Arriving'
      BY <1>1, <1>4, <3>3, <3>4, ArrivingTaken
    <3> QED
      BY <2>2, <3>5
  <2>6. CASE ~\E n \in 1 .. MaxSent : p = DataPacket(n)
    <3>1. IsCntrl(pkt, RetByte) \/ IsCntrl(pkt, AckByte)
      BY <1>7, <1>8, <2>6 DEF HostPackets, IsCntrl
    <3>2. acked' = acked
      BY <1>10, <3>1 DEF Proper
    <3>3. \A n \in 1 .. MaxSent : rx[1] # Token(n)
      BY <1>8, <2>4, <2>6, TokenApart
    <3>4. Arriving'
      BY <1>1, <1>4, <3>2, <3>3, ArrivingTaken
    <3> QED
      BY <2>2, <3>4
  <2> QED
    BY <2>5, <2>6
<1> QED
  BY <1>1, <1>9, <1>10

(* What the host sends arrives whole, or a byte has been hit.              *)
LEMMA CleanSent ==
  ASSUME CommsInv, DeliveryInv, CleanInv, HostSendsData \/ HostSendsControl
  PROVE  CleanInv'
<1>1. UNCHANGED <<framing, pc, acked>>
  BY DEF HostSendsData, HostSendsControl
<1>2. acked \in Nat /\ sent \in Nat /\ MaxSent \in Nat /\ faults \in Nat
  BY AckedWereSent, CommsAssumption DEF CommsInv, TypeOK
<1>3. PICK p \in HostPackets :
        /\ Transmit(Frame(p))
        /\ sent' = sent \/ (sent' = sent + 1 /\ p = DataPacket(sent'))
  <2>1. CASE HostSendsData
    <3>1. sent' = sent + 1 /\ sent' \in 1 .. MaxSent /\ Transmit(Frame(DataPacket(sent')))
      BY <1>2, <2>1 DEF HostSendsData
    <3> QED
      BY <3>1, DataApart
  <2>2. CASE HostSendsControl
    BY <2>2 DEF HostSendsControl, HostPackets, host
  <2> QED
    BY <2>1, <2>2
<1> SUFFICES ASSUME faults' = 0, pc # "breakpoint"
             PROVE  (\E own, at : Frames(own, at))' /\ Arriving'
  BY <1>1 DEF CleanInv
<1>4. faults = 0 /\ rx' = rx \o Frame(p)
  BY <1>2, <1>3, Transmitted
<1>5. PICK own, at : Frames(own, at)
  BY <1>4 DEF CleanInv
<1>6. \E o, a : Frames(o, a)'
  BY <1>1, <1>4, <1>5, FramesSent
<1>7. Arriving'
  <2>1. /\ rx \in Seq(WireBytes) /\ Len(rx) \in Nat
        /\ Frame(p) \in Seq(WireBytes) /\ Len(Frame(p)) = FrameLength
        /\ FrameLength \in Nat \ {0} /\ Frame(p)[FrameLength] = LastOf(p)
    BY FrameBytes, FrameEnds, Positions DEF CommsInv, Held
  <2>2. /\ Len(rx') = Len(rx) + FrameLength
        /\ \A i \in 1 .. Len(rx) + FrameLength :
             rx'[i] = IF i <= Len(rx) THEN rx[i] ELSE Frame(p)[i - Len(rx)]
    BY <1>4, <2>1, ConcatProperties
  <2> SUFFICES ASSUME NEW n \in acked' + 1 .. sent'
               PROVE  \E i \in 1 .. Len(rx') : rx'[i] = Token(n)
    BY DEF Arriving, Token, LastOf, DataPacket, Pkt, Data
  <2>3. CASE n <= sent
    <3>1. n \in acked + 1 .. sent
      BY <1>1, <1>2, <2>3
    <3>2. PICK i \in 1 .. Len(rx) : rx[i] = Token(n)
      BY <1>1, <1>4, <3>1 DEF CleanInv, Arriving
    <3>3. i \in 1 .. Len(rx') /\ rx'[i] = Token(n)
      BY <2>1, <2>2, <3>2
    <3> QED
      BY <3>3
  <2>4. CASE ~(n <= sent)
    <3>1. n = sent' /\ p = DataPacket(n)
      BY <1>2, <1>3, <2>4
    <3>2. PICK k : k = Len(rx) + FrameLength
      OBVIOUS
    <3>3. k \in 1 .. Len(rx') /\ ~(k <= Len(rx)) /\ k - Len(rx) = FrameLength
      BY <2>1, <2>2, <3>2
    <3>4. rx'[k] = LastOf(p)
      BY <2>1, <2>2, <3>3
    <3> QED
      BY <3>1, <3>3, <3>4 DEF Token
  <2> QED
    BY <2>3, <2>4
<1> QED
  BY <1>6, <1>7

(* The caller does not touch the ring.                                     *)
LEMMA CleanOther ==
  ASSUME CleanInv, UpdateReturns \/ Caller \/ UNCHANGED vars
  PROVE  CleanInv'
<1>1. /\ UNCHANGED <<framing, rx, sent, acked, faults>>
      /\ pc' # "breakpoint" => pc # "breakpoint"
  BY DEF UpdateReturns, Caller, vars, host
<1>2. \A own, at : Frames(own, at) => Frames(own, at)'
  <2>1. /\ rx' = rx /\ temp_packet' = temp_packet /\ crc_bytes_count' = crc_bytes_count
        /\ state' = state /\ payloads_bytes_count' = payloads_bytes_count
    BY <1>1, Zenon DEF framing
  <2>2. Position' = Position
    BY <2>1, Zenon DEF Position
  <2>3. ASSUME NEW p, Received(p) PROVE Received(p)'
    BY <2>1, <2>2, <2>3, Zenon DEF Received
  <2> QED
    BY <2>1, <2>2, <2>3, Zenon DEF Frames, Frame, FrameLength, HostPackets,
       DataPacket, SingleByte, Pkt, Data
<1>3. Arriving => Arriving'
  BY <1>1 DEF Arriving, Token, LastOf, DataPacket, Pkt, Data
<1> QED
  BY <1>1, <1>2, <1>3 DEF CleanInv

(* So every step keeps the framing of a clean line.                        *)
LEMMA CleanStep ==
  ASSUME DataIsNoControl
  PROVE  CommsInv /\ DeliveryInv /\ CleanInv /\ [Next]_vars => CleanInv'
BY CleanSent, CleanFields, CleanChecksum, CleanOther DEF Next, TakeByte

(* At the start nothing is under way.                                      *)
LEMMA CleanInit == Init => CleanInv
<1> SUFFICES ASSUME Init PROVE CleanInv
  OBVIOUS
<1>1. /\ rx = <<>> /\ Len(rx) = 0 /\ acked = 0 /\ sent = 0 /\ state = "Await_Length"
      /\ temp_packet.crc = {}
  BY DEF Init
<1>2. Position = 0
  BY <1>1 DEF Position
<1>3. PICK e : e = <<>>
  OBVIOUS
<1>4. Frames(e, e)
  <2>1. 1 .. Len(rx) = {} /\ 1 .. Len(rx) - 1 = {} /\ \A S : e \in [{} -> S]
    BY <1>1, <1>3
  <2> QED
    BY <1>1, <1>2, <2>1 DEF Frames
<1>5. Arriving
  BY <1>1 DEF Arriving
<1> QED
  BY <1>4, <1>5 DEF CleanInv

(* As long as the line has hit no byte, the receiver awaits a length       *)
(* whenever no byte is under way, wherever in the frames before it has     *)
(* returned, and what was sent and not read is in the buffer.              *)
THEOREM CleanLineFrames ==
  ASSUME DataIsNoControl
  PROVE  Spec => []CleanLineKeepsFrames
<1>1. CommsInv /\ DeliveryInv /\ CleanInv => CleanLineKeepsFrames
  <2> SUFFICES ASSUME CommsInv, DeliveryInv, CleanInv, faults = 0, rx = <<>>, pc # "breakpoint"
               PROVE  state = "Await_Length" /\ (PacketAvailable <=> Unread > 0)
    BY DEF CleanLineKeepsFrames
  <2>1. Len(rx) = 0 /\ \A i \in 1 .. Len(rx) : FALSE
    OBVIOUS
  <2>2. PICK own, at : Frames(own, at)
    BY DEF CleanInv
  <2>3. Position = 0
    BY <2>1, <2>2 DEF Frames
  <2>4. state = "Await_Length"
    BY <2>3, Positions DEF Position, CommsInv, TypeOK
  <2>5. /\ acked \in Nat /\ sent \in Nat /\ Len(delivered) \in Nat
        /\ Len(delivered) <= acked /\ acked <= sent
        /\ acked - Len(delivered) < UsedSlots
        /\ buffer_write_idx = acked % UsedSlots
        /\ buffer_read_idx = Len(delivered) % UsedSlots
    BY AckedWereSent DEF CommsInv, Indices
  <2>6. acked = sent
    <3>1. \A n \in acked + 1 .. sent : FALSE
      BY <2>1 DEF CleanInv, Arriving
    <3> QED
      BY <2>5, <3>1
  <2>7. buffer_write_idx = buffer_read_idx <=> acked = Len(delivered)
    BY <2>5, SlotsApart
  <2> QED
    BY <2>4, <2>5, <2>6, <2>7 DEF PacketAvailable, Unread
<1> QED
  BY <1>1, CommsInvariant, DeliveryInit, DeliveryStep, CleanInit, CleanStep, PTL DEF Spec
=============================================================================
