-------------------------------- MODULE Comms --------------------------------
(***************************************************************************)
(* driver/comms.c: the packet layer of the bootloader, byte by byte.       *)
(*                                                                         *)
(* The host and the wire are left open: the host puts frames on the wire   *)
(* (data packets, numbered here by their payload, and the control packets  *)
(* ACK and RET), the wire loses or garbles single bytes.  The user of the  *)
(* layer is a loop like check_for_firmware_update: comms_update, then at   *)
(* most one packet read and at most one written.                           *)
(*                                                                         *)
(* A byte is a token: a plain value, or byte j of the checksum of a packet.*)
(* The receiver does nothing with a checksum but compare the whole of it,  *)
(* so the tokens say of it just this: a window of bytes passes the check   *)
(* if and only if it is one whole undamaged frame.  CRC-32 collisions are  *)
(* what is left out.                                                       *)
(***************************************************************************)
EXTENDS Integers, SequencesExt

CONSTANTS
  Payload,            \* PACKET_PAYLOAD_BYTES
  CrcBytes,           \* PACKET_CRC_BYTES
  BufferSize,         \* PACKET_BUFFER_SIZE
  RetByte, AckByte, PadByte, GarbledByte,
  Replies,            \* single bytes the user of the layer may write
  Window,             \* data packets the host may have unread
  MaxSent, MaxFaults  \* bounds on data packets sent and on bytes hit

ASSUME CommsAssumption ==
  /\ Payload \in Nat \ {0} /\ CrcBytes \in Nat \ {0} /\ BufferSize \in Nat \ {0}
  /\ {RetByte, AckByte, PadByte, GarbledByte} \cup Replies \subseteq Int
  /\ Window \in Nat \ {0} /\ MaxSent \in Nat /\ MaxFaults \in Nat

VARIABLES
  state, payloads_bytes_count, crc_bytes_count, temp_packet,
  prev_packet,                          \* last packet passed to comms_write
  buffer, buffer_read_idx, buffer_write_idx,
  pc,           \* in comms_update, in its caller, or stopped by BKPT
  rx,           \* bytes sent and not yet taken: on the line or in the
                \* ring of the UART
  line,         \* last packet put on the line to the host
  sent,         \* data packets the host has sent
  hasty,        \* it has sent one before the last was read
  acked,        \* packets the layer has acknowledged
  delivered,    \* packets comms_read has returned
  faults        \* bytes hit so far

framing == <<state, payloads_bytes_count, crc_bytes_count, temp_packet>>
host    == <<sent, hasty>>
queue   == <<buffer, buffer_read_idx, buffer_write_idx>>
vars    == <<framing, prev_packet, queue, pc, rx, line,
             host, acked, delivered, faults>>

-----------------------------------------------------------------------------
(* Packets.                                                                *)

Plain(value) == <<"plain", value>>
Crc(pkt, j)  == <<"crc", pkt, j>>

Data(bytes) ==
  [i \in 1 .. Payload |-> Plain(IF i <= Len(bytes) THEN bytes[i] ELSE PadByte)]
Pkt(bytes)  == [length |-> Plain(Len(bytes)), data |-> Data(bytes)]

(* Packet_create_single_byte *)
SingleByte(byte) == Pkt(<<byte>>)

(* Packet_is_cntrl *)
IsCntrl(pkt, byte) == pkt = SingleByte(byte)

(* Packet_compute_crc32, as the bytes |= has put at their positions.       *)
Checksum(pkt) == {<<j, Crc(pkt, j)>> : j \in 0 .. CrcBytes - 1}

Frame(pkt) ==
  <<pkt.length>> \o pkt.data \o [j \in 1 .. CrcBytes |-> Crc(pkt, j - 1)]

NoPacket == [length |-> Plain(0), data |-> [i \in 1 .. Payload |-> Plain(0)]]

(* x & mask *)
Bits(n)      == {k \in 0 .. 15 : (n \div 2 ^ k) % 2 = 1}
And(n, mask) == CHOOSE m \in 0 .. mask : Bits(m) = Bits(n) \cap Bits(mask)

NextSlot(i) == And(i + 1, BufferSize - 1)

(* What a mask does that is not a power of two minus one: the indices run  *)
(* around in the first slots and never get to the others.                  *)
RunsAround(slots) == \A i \in 0 .. slots - 1 : NextSlot(i) = (i + 1) % slots
UsedSlots         == CHOOSE slots \in 1 .. BufferSize : RunsAround(slots)

ASSUME SlotsCycle == \E slots \in 1 .. BufferSize : RunsAround(slots)

(* Mutant: the indices compared as if they never wrapped.                  *)
PacketAhead == buffer_write_idx > buffer_read_idx

(* comms_is_packet_available *)
PacketAvailable == buffer_write_idx # buffer_read_idx

Init ==
  /\ state = "Await_Length" /\ payloads_bytes_count = 0 /\ crc_bytes_count = 0
  /\ temp_packet = [length |-> Plain(0), data |-> NoPacket.data, crc |-> {}]
  /\ prev_packet = NoPacket /\ line = NoPacket
  /\ buffer = [i \in 0 .. BufferSize - 1 |-> NoPacket]
  /\ buffer_read_idx = 0 /\ buffer_write_idx = 0
  /\ pc = "update" /\ rx = <<>>
  /\ sent = 0 /\ hasty = FALSE
  /\ acked = 0 /\ delivered = <<>> /\ faults = 0

-----------------------------------------------------------------------------
(* The host and the wire.                                                  *)

DataPacket(n) == Pkt(<<n>>)

(* No data packet is a control packet by its content (UpdateSession has    *)
(* what happens to a file that has one).                                   *)
DataIsNoControl == {RetByte, AckByte} \cap 1 .. MaxSent = {}

(* A frame goes on the wire, which drops one of its bytes, garbles one, or *)
(* delivers it as it is: byte by byte, comms_update takes one of them at a *)
(* time and returns after any of them.                                     *)
Transmit(bytes) ==
  \/ rx' = rx \o bytes /\ UNCHANGED faults
  \/ /\ faults < MaxFaults /\ faults' = faults + 1
     /\ \E i \in DOMAIN bytes :
          rx' \in {rx \o RemoveAt(bytes, i),
                   rx \o ReplaceAt(bytes, i, Plain(GarbledByte))}

Unread == sent - Len(delivered)

(* Nothing unread, or after a fault nothing under way any more.            *)
HostUpToDate == Unread = 0 \/ (rx = <<>> /\ ~PacketAvailable)

HostSendsData ==
  /\ sent < MaxSent
  /\ Unread < Window \/ HostUpToDate
  /\ sent' = sent + 1 /\ hasty' = (hasty \/ ~HostUpToDate)
  /\ Transmit(Frame(DataPacket(sent')))
  /\ UNCHANGED <<framing, prev_packet, queue, pc, line, acked, delivered>>

HostSendsControl ==
  /\ rx = <<>>
  /\ \E byte \in {RetByte, AckByte} : Transmit(Frame(SingleByte(byte)))
  /\ UNCHANGED <<framing, prev_packet, queue, pc, line,
                 host, acked, delivered>>

-----------------------------------------------------------------------------
(* comms_update: one iteration of the loop is one byte.                    *)

Take == pc = "update" /\ rx # <<>> /\ rx' = Tail(rx)

AwaitLength ==
  /\ state = "Await_Length" /\ Take
  /\ temp_packet' = [temp_packet EXCEPT !.length = Head(rx)]
  /\ state' = "Await_Paylod"
  /\ UNCHANGED <<payloads_bytes_count, crc_bytes_count, prev_packet, queue, pc,
                 line, host, acked, delivered, faults>>

(* Mutant: the count is not reset.                                         *)
AwaitPayloadCounting ==
  /\ state = "Await_Paylod" /\ Take
  /\ temp_packet' = [temp_packet EXCEPT !.data[payloads_bytes_count + 1] = Head(rx)]
  /\ payloads_bytes_count' = payloads_bytes_count + 1
  /\ state' = IF payloads_bytes_count' >= Payload THEN "Await_CRC" ELSE state
  /\ UNCHANGED <<crc_bytes_count, prev_packet, queue, pc, line,
                 host, acked, delivered, faults>>

AwaitPayload ==
  /\ state = "Await_Paylod" /\ Take
  /\ temp_packet' = [temp_packet EXCEPT !.data[payloads_bytes_count + 1] = Head(rx)]
  /\ \/ /\ payloads_bytes_count + 1 >= Payload
        /\ payloads_bytes_count' = 0 /\ state' = "Await_CRC"
     \/ /\ payloads_bytes_count + 1 < Payload
        /\ payloads_bytes_count' = payloads_bytes_count + 1 /\ UNCHANGED state
  /\ UNCHANGED <<crc_bytes_count, prev_packet, queue, pc, line,
                 host, acked, delivered, faults>>

(* comms_write *)
Write(pkt) == line' = pkt /\ prev_packet' = pkt

(* Mutant: the full buffer is not noticed.                                 *)
AcceptAlways(pkt) ==
  /\ buffer' = [buffer EXCEPT ![buffer_write_idx] = pkt]
  /\ buffer_write_idx' = NextSlot(buffer_write_idx)
  /\ Write(SingleByte(AckByte)) /\ acked' = acked + 1
  /\ UNCHANGED <<buffer_read_idx, pc>>

(* A packet for the caller is queued and acknowledged.                     *)
Accept(pkt) ==
  \/ /\ NextSlot(buffer_write_idx) # buffer_read_idx
     /\ buffer' = [buffer EXCEPT ![buffer_write_idx] = pkt]
     /\ buffer_write_idx' = NextSlot(buffer_write_idx)
     /\ Write(SingleByte(AckByte)) /\ acked' = acked + 1
     /\ UNCHANGED <<buffer_read_idx, pc>>
  \/ /\ NextSlot(buffer_write_idx) = buffer_read_idx
     /\ pc' = "breakpoint"
     /\ UNCHANGED <<queue, line, prev_packet, acked>>

(* Mutants: an ACK is a packet like others; the checksum is not compared.  *)
HandleFrameKeepingAcks(pkt, crc) ==
  \/ /\ crc # Checksum(pkt)
     /\ Write(SingleByte(RetByte)) /\ UNCHANGED <<queue, pc, acked>>
  \/ /\ crc = Checksum(pkt) /\ IsCntrl(pkt, RetByte)
     /\ line' = prev_packet /\ UNCHANGED <<prev_packet, queue, pc, acked>>
  \/ crc = Checksum(pkt) /\ ~IsCntrl(pkt, RetByte) /\ Accept(pkt)
HandleFrameUnchecked(pkt, crc) ==
  \/ /\ IsCntrl(pkt, RetByte)
     /\ line' = prev_packet /\ UNCHANGED <<prev_packet, queue, pc, acked>>
  \/ /\ IsCntrl(pkt, AckByte)
     /\ UNCHANGED <<line, prev_packet, queue, pc, acked>>
  \/ ~IsCntrl(pkt, RetByte) /\ ~IsCntrl(pkt, AckByte) /\ Accept(pkt)

(* A complete frame.                                                       *)
HandleFrame(pkt, crc) ==
  \/ /\ crc # Checksum(pkt)
     /\ Write(SingleByte(RetByte)) /\ UNCHANGED <<queue, pc, acked>>
  \/ /\ crc = Checksum(pkt) /\ IsCntrl(pkt, RetByte)
     /\ line' = prev_packet /\ UNCHANGED <<prev_packet, queue, pc, acked>>
  \/ /\ crc = Checksum(pkt) /\ IsCntrl(pkt, AckByte)
     /\ UNCHANGED <<line, prev_packet, queue, pc, acked>>
  \/ /\ crc = Checksum(pkt) /\ ~IsCntrl(pkt, RetByte) /\ ~IsCntrl(pkt, AckByte)
     /\ Accept(pkt)

(* Mutant: the checksum is not cleared for the next frame.                 *)
AwaitCRCAccumulating ==
  /\ state = "Await_CRC" /\ Take
  /\ LET crc == temp_packet.crc \cup {<<crc_bytes_count, Head(rx)>>}
     IN /\ temp_packet' = [temp_packet EXCEPT !.crc = crc]
        /\ \/ /\ crc_bytes_count + 1 < CrcBytes
              /\ crc_bytes_count' = crc_bytes_count + 1
              /\ UNCHANGED <<state, prev_packet, queue, pc, line, acked>>
           \/ /\ crc_bytes_count + 1 >= CrcBytes
              /\ HandleFrame([length |-> temp_packet.length,
                              data |-> temp_packet.data], crc)
              /\ crc_bytes_count' = 0 /\ state' = "Await_Length"
  /\ UNCHANGED <<payloads_bytes_count, host, delivered, faults>>

AwaitCRC ==
  /\ state = "Await_CRC" /\ Take
  /\ LET crc == temp_packet.crc \cup {<<crc_bytes_count, Head(rx)>>}
     IN \/ /\ crc_bytes_count + 1 < CrcBytes
           /\ temp_packet' = [temp_packet EXCEPT !.crc = crc]
           /\ crc_bytes_count' = crc_bytes_count + 1
           /\ UNCHANGED <<state, prev_packet, queue, pc, line, acked>>
        \/ /\ crc_bytes_count + 1 >= CrcBytes
           /\ HandleFrame([length |-> temp_packet.length, data |-> temp_packet.data], crc)
           /\ temp_packet' = [temp_packet EXCEPT !.crc = {}]
           /\ crc_bytes_count' = 0 /\ state' = "Await_Length"
  /\ UNCHANGED <<payloads_bytes_count, host, delivered, faults>>

TakeByte == AwaitLength \/ AwaitPayload \/ AwaitCRC

(* uart_data_available is false: back to the caller.  It is false between  *)
(* any two bytes of a frame (a byte takes 87 us on the line), so nothing   *)
(* is asked of rx.                                                         *)
UpdateReturns ==
  /\ pc = "update" /\ pc' = "caller"
  /\ UNCHANGED <<framing, prev_packet, queue, rx, line,
                 host, acked, delivered, faults>>

-----------------------------------------------------------------------------
(* The rest of an iteration of the caller's loop.                          *)

(* comms_read *)
Read ==
  /\ delivered' = Append(delivered, buffer[buffer_read_idx])
  /\ buffer_read_idx' = NextSlot(buffer_read_idx)
  /\ UNCHANGED <<buffer, buffer_write_idx>>

Caller ==
  /\ pc = "caller" /\ pc' = "update"
  /\ \/ PacketAvailable /\ Read
     \/ ~PacketAvailable /\ UNCHANGED <<queue, delivered>>
  /\ \/ \E byte \in Replies : Write(SingleByte(byte))
     \/ UNCHANGED <<line, prev_packet>>
  /\ UNCHANGED <<framing, rx, host, acked, faults>>

Next == HostSendsData \/ HostSendsControl \/ TakeByte \/ UpdateReturns \/ Caller

(* The processor outruns the line, so a caller keeps getting its turn; the *)
(* bytes under way keep arriving however often comms_update has returned   *)
(* before them; the host need not send anything.                           *)
Spec ==
  Init /\ [][Next]_vars
  /\ SF_vars(TakeByte) /\ WF_vars(UpdateReturns) /\ WF_vars(Caller)

-----------------------------------------------------------------------------
(* Properties.                                                             *)

TypeOK ==
  /\ state \in {"Await_Length", "Await_Paylod", "Await_CRC"}
  /\ payloads_bytes_count \in 0 .. Payload - 1 /\ crc_bytes_count \in 0 .. CrcBytes - 1
  /\ DOMAIN temp_packet.data = 1 .. Payload
  /\ buffer_read_idx \in DOMAIN buffer /\ buffer_write_idx \in DOMAIN buffer
  /\ pc \in {"update", "caller", "breakpoint"}
  /\ sent \in 0 .. MaxSent /\ hasty \in BOOLEAN /\ acked \in Nat /\ faults \in 0 .. MaxFaults

(* What comms_read returns is what the host sent: no packet is invented,   *)
(* damaged or overtaken, and none is read more often than it was sent,     *)
(* whichever bytes the wire hits and in whatever framing that leaves the   *)
(* receiver.  (A host that resends is the subject of UpdateSession.)       *)
DeliveredInOrder ==
  \E number \in [DOMAIN delivered -> 1 .. sent] :
    /\ \A i \in DOMAIN delivered : delivered[i] = DataPacket(number[i])
    /\ \A i, j \in DOMAIN delivered : i < j => number[i] < number[j]

(* On a line that has hit no byte, framing is never lost, wherever in a    *)
(* frame comms_update has returned: between frames, with no byte under     *)
(* way, the receiver awaits a length, and what has been sent and not read  *)
(* is in the packet buffer.                                                *)
CleanLineKeepsFrames ==
  faults = 0 /\ rx = <<>> /\ pc # "breakpoint" =>
    state = "Await_Length" /\ (PacketAvailable <=> Unread > 0)

(* A host that has sent every packet only after the last one was read does *)
(* not run into the breakpoint of a full packet buffer.                    *)
NoBreakpoint == ~hasty => pc # "breakpoint"

(* Packets in the buffer: the slots from the read to the write index.      *)
Stored == (buffer_write_idx - buffer_read_idx) % UsedSlots

(* An ACK is a promise: a packet that has been acknowledged has been read, *)
(* or is still in the buffer, even when packets come in faster than they   *)
(* are read.                                                               *)
AckedAreKept == acked = Len(delivered) + Stored

(* "Debug check": the breakpoint stands for a full buffer, and a ring of   *)
(* PACKET_BUFFER_SIZE slots is full with one packet less.                  *)
BreakpointMeansFull == pc = "breakpoint" => Stored >= BufferSize - 1

(* On a line that hits no byte, every packet of such a host reaches the    *)
(* caller.                                                                 *)
EveryPacketIsRead ==
  \A n \in 1 .. MaxSent : sent = n ~> Len(delivered) >= n \/ faults > 0 \/ hasty
==============================================================================
