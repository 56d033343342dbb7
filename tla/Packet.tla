------------------------------- MODULE Packet -------------------------------
(***************************************************************************)
(* The packet of driver/comms.c and of firmware-updater/src/main.rs, which *)
(* both programs build alike: a length and a payload that is padded with   *)
(* what an erased cell holds.  The checksum is left to the line.           *)
(***************************************************************************)
EXTENDS Cells, Sequences

CONSTANTS
  Payload,      \* PACKET_PAYLOAD_BYTES, PACKET_DATA_BYTES
  UpReqByte     \* FU_PACKET_UP_REQ_BYTE0

(* Packet::new                                                             *)
NewPacket(cells) ==
  [length |-> Len(cells),
   data   |-> [i \in 1 .. Payload |-> IF i <= Len(cells) THEN cells[i] ELSE Erased]]

Control(byte) == NewPacket(<<byte>>)

(* Packet_is_cntrl: one byte of payload, the rest padding.                 *)
IsCntrl(pkt, byte) ==
  /\ pkt.length = 1
  /\ pkt.data[1] = byte
  /\ \A i \in 2 .. Payload : pkt.data[i] = Erased
==============================================================================
