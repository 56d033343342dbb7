------------------------------ MODULE Updater ------------------------------
(***************************************************************************)
(* firmware-updater/src/main.rs: one run of the host's updater.            *)
(*                                                                         *)
(* `step` is the place in main, `hpc` the place in the loop that           *)
(* sync_with_bootloader and wait_for_cntrl_packet share: (write,) sleep    *)
(* 100 ms, poll the port, look at one packet of the queue.                 *)
(***************************************************************************)
EXTENDS SerialLine, Packet

CONSTANTS
  AckByte, RetByte,
  Files,         \* what ./fw-image/update.bin.signed may hold
  WaitLimit,     \* iterations of wait_for_cntrl_packet: 5000 / 100
  SyncLimit      \* iterations of sync_with_bootloader: 10000 / 10

ASSUME UpdaterAssumption ==
  /\ Payload \in Nat \ {0, 1} /\ CellMax \in Nat \ {0}
  /\ {AckByte, RetByte, UpReqByte} \subseteq Cell
  /\ \A f \in Files : f \in Seq(Cell) /\ Len(f) \in 1 .. ErasedWord
  /\ WaitLimit \in Nat \ {0} /\ SyncLimit \in Nat \ {0}

VARIABLES
  fw_data,          \* the file
  step, hpc,
  to_poll,          \* bursts that were there when this poll began
  hskew,            \* bytes of an unfinished frame in the port's buffer
  packets_queue,
  prev_packet,      \* last packet passed to send_packet
  iterations,
  bytes_sent

hostVars == <<fw_data, step, hpc, to_poll, hskew, packets_queue, prev_packet,
              iterations, bytes_sent>>

Waits == {"Sync", "UpReq", "LengthReq", "Length", "Data", "Confirm"}
Over  == {"Success", "Failed"}

-----------------------------------------------------------------------------
(* Mutant: the length with its high cell first.                            *)
LengthPacketBigEndian ==
  NewPacket(<< Len(fw_data) \div (CellMax + 1), Len(fw_data) % (CellMax + 1) >>)

(* create_firmware_length_packet                                           *)
LengthPacket == NewPacket(WordCells(Len(fw_data)))

(* The data packet of file f from `at` on, and where it ends.              *)
ChunkEnd(f, at) == IF Len(f) - at > Payload THEN at + Payload ELSE Len(f)
Chunk(f, at)    == NewPacket(SubSeq(f, at + 1, ChunkEnd(f, at)))

NextEnd == ChunkEnd(fw_data, bytes_sent)

(* Mutant: the slice starts at the beginning of the file.                  *)
NextChunkFromStart == NewPacket(SubSeq(fw_data, 1, NextEnd - bytes_sent))

NextChunk == Chunk(fw_data, bytes_sent)

(* Every packet an updater that has read f may send.                       *)
FilePackets(f) ==
  {Control(byte) : byte \in {AckByte, RetByte, UpReqByte, Erased}}
    \cup {NewPacket(WordCells(Len(f)))}
    \cup {Chunk(f, at) : at \in {n \in 0 .. Len(f) - 1 : n % Payload = 0}}

WritePacket(pkt) == SendToBoot(FrameBytes, pkt)
SendPacket(pkt)  == WritePacket(pkt) /\ prev_packet' = pkt

HostInit ==
  /\ fw_data \in Files
  /\ step = "Sync" /\ hpc = "idle" /\ to_poll = 0 /\ hskew = 0
  /\ packets_queue = <<>> /\ prev_packet = Control(Erased)
  /\ iterations = 0 /\ bytes_sent = 0
  /\ to_boot = <<>> /\ to_host = <<>> /\ faults = 0

-----------------------------------------------------------------------------
Launch ==
  /\ hpc = "idle" /\ hpc' = "write"
  /\ UNCHANGED <<fw_data, step, to_poll, hskew, packets_queue, prev_packet,
                 iterations, bytes_sent, lineVars>>

WriteSync ==
  /\ hpc = "write" /\ hpc' = "sleep"
  /\ SendToBoot(SyncBytes, SyncSeq)
  /\ UNCHANGED <<fw_data, step, to_poll, hskew, packets_queue, prev_packet,
                 iterations, bytes_sent, to_host>>

(* The answers to what a poll sends take longer than the poll.             *)
Wake ==
  /\ hpc = "sleep" /\ hpc' = "poll" /\ to_poll' = Len(to_host)
  /\ UNCHANGED <<fw_data, step, hskew, packets_queue, prev_packet,
                 iterations, bytes_sent, lineVars>>

HandleFrame(frame) ==
  \/ /\ frame = Spoilt
     /\ SendPacket(Control(RetByte)) /\ UNCHANGED packets_queue
  \/ /\ frame = "RET"
     /\ WritePacket(prev_packet) /\ UNCHANGED <<prev_packet, packets_queue>>
  \/ /\ frame = "ACK"
     /\ UNCHANGED <<to_boot, faults, prev_packet, packets_queue>>
  \/ /\ frame \notin {Spoilt, "RET", "ACK"}
     /\ packets_queue' = Append(packets_queue, frame)
     /\ SendPacket(Control(AckByte))

(* poll_queue, one burst.                                                  *)
PollQueue ==
  /\ hpc = "poll" /\ to_poll > 0
  /\ to_poll' = to_poll - 1
  /\ to_host' = Tail(to_host)
  /\ hskew' = SkewAfter(hskew, Head(to_host))
  /\ \/ /\ Completes(hskew, Head(to_host))
        /\ HandleFrame(Received(hskew, Head(to_host)))
     \/ /\ ~Completes(hskew, Head(to_host))
        /\ UNCHANGED <<to_boot, faults, prev_packet, packets_queue>>
  /\ UNCHANGED <<fw_data, step, hpc, iterations, bytes_sent>>

-----------------------------------------------------------------------------
(* The packet each wait of main is for.                                    *)
Awaited ==
  CASE step = "Sync"             -> "SYN_OBSERVED"
    [] step = "UpReq"            -> "UP_RESP"
    [] step = "LengthReq"        -> "FW_LENGTH_REQ"
    [] step \in {"Length", "Data"} -> "READY_FOR_FW"
    [] step = "Confirm"          -> "UPDATE_SUCCESS"

(* Mutant: the last packet is followed by a wait for READY, too.           *)
SendChunkAwaitingReady ==
  /\ SendPacket(NextChunk)
  /\ bytes_sent' = NextEnd /\ step' = "Data"

SendChunk ==
  /\ SendPacket(NextChunk)
  /\ bytes_sent' = NextEnd
  /\ step' = IF NextEnd < Len(fw_data) THEN "Data" ELSE "Confirm"

(* main between one wait and the next.                                     *)
Proceed ==
  \/ /\ step = "Sync" /\ step' = "UpReq"
     /\ SendPacket(Control(UpReqByte)) /\ UNCHANGED bytes_sent
  \/ /\ step = "UpReq" /\ step' = "LengthReq"
     /\ UNCHANGED <<to_boot, faults, prev_packet, bytes_sent>>
  \/ /\ step = "LengthReq" /\ step' = "Length"
     /\ SendPacket(LengthPacket) /\ UNCHANGED bytes_sent
  \/ step \in {"Length", "Data"} /\ SendChunk
  \/ /\ step = "Confirm" /\ step' = "Success"
     /\ UNCHANGED <<to_boot, faults, prev_packet, bytes_sent>>

(* The first packet of the queue is the one awaited.                       *)
Answered ==
  /\ hpc = "poll" /\ to_poll = 0
  /\ packets_queue # <<>> /\ Head(packets_queue) = Awaited
  /\ packets_queue' = Tail(packets_queue)
  /\ Proceed
  /\ hpc' = IF step' = "Success" THEN "done" ELSE "sleep"
  /\ iterations' = 0
  /\ UNCHANGED <<fw_data, to_poll, hskew, to_host>>

Limit == IF step = "Sync" THEN SyncLimit ELSE WaitLimit

(* Mutant: the iteration is not counted.                                   *)
UnansweredForever ==
  /\ hpc = "poll" /\ to_poll = 0
  /\ \/ packets_queue = <<>> /\ UNCHANGED packets_queue
     \/ /\ packets_queue # <<>> /\ Head(packets_queue) # Awaited
        /\ packets_queue' = Tail(packets_queue)
  /\ hpc' = IF step = "Sync" THEN "write" ELSE "sleep"
  /\ UNCHANGED <<fw_data, step, iterations, to_poll, hskew, prev_packet,
                 bytes_sent, lineVars>>

(* There is none, or it is another one, which is dropped.                  *)
Unanswered ==
  /\ hpc = "poll" /\ to_poll = 0
  /\ \/ packets_queue = <<>> /\ UNCHANGED packets_queue
     \/ /\ packets_queue # <<>> /\ Head(packets_queue) # Awaited
        /\ packets_queue' = Tail(packets_queue)
  /\ iterations' = iterations + 1
  /\ \/ iterations' >= Limit /\ step' = "Failed" /\ hpc' = "done"
     \/ /\ iterations' < Limit /\ UNCHANGED step
        /\ hpc' = IF step = "Sync" THEN "write" ELSE "sleep"
  /\ UNCHANGED <<fw_data, to_poll, hskew, prev_packet, bytes_sent, lineVars>>

Run == WriteSync \/ PollQueue \/ Answered \/ Unanswered
==============================================================================
