---------------------------- MODULE SessionProofs ----------------------------
(***************************************************************************)
(* A session of updater, line and bootloader is a behaviour of Bootloader, *)
(* so that whatever BootloaderProofs shows of the board holds of the whole *)
(* system; what the updater reports as a success is one; and on a line     *)
(* that has hit nothing the two ends keep in step.                         *)
(***************************************************************************)
EXTENDS UpdateSession, BootloaderProofs, Numbers

(* What may be on the line, and what may reach the caller of comms_read:   *)
(* comms_update keeps an ACK or a RET to itself.                           *)
Answers  == Reply \cup {"ACK", "RET"}
Spoils   == {Burst(n, Spoilt) : n \in 0 .. FrameBytes}
Sent(f)  == {Burst(FrameBytes, p) : p \in FilePackets(f)}
              \cup {Burst(SyncBytes, SyncSeq)} \cup Spoils
Replied == {Burst(FrameBytes, r) : r \in Answers} \cup Spoils
Taken(f) == FilePackets(f) \ {Control(RetByte), Control(AckByte)}

(* The host: its place in main and how much of the file it has sent.       *)
HostInv ==
  /\ fw_data \in Files /\ step \in Waits \cup Over
  /\ hpc \in {"idle", "write", "sleep", "poll", "done"}
  /\ hskew \in 0 .. FrameBytes - 1 /\ iterations \in Nat
  /\ packets_queue \in Seq(Answers)
  /\ prev_packet \in FilePackets(fw_data)
  /\ bytes_sent \in 0 .. Len(fw_data)
  /\ step \in {"Sync", "UpReq", "LengthReq"} => bytes_sent = 0
  /\ step \in {"Length", "Data"} =>
       bytes_sent < Len(fw_data) /\ bytes_sent % Payload = 0

LineInv ==
  /\ to_boot \in Seq(Sent(fw_data)) /\ to_host \in Seq(Replied)
  /\ to_poll \in 0 .. Len(to_host)
  /\ faults \in 0 .. MaxFaults

LayerInv ==
  /\ bskew \in 0 .. FrameBytes - 1 /\ halted \in BOOLEAN
  /\ inbox \in Seq(Taken(fw_data)) /\ Len(inbox) <= 1
  /\ last_written \in Answers

LinkInv == HostInv /\ LineInv /\ LayerInv

(* The bytes received are packets of the file, one after the other.        *)
Lies(p, at) ==
  at + p.length <= bytes_written
    /\ \A j \in 1 .. p.length : fw_buffer[at + j - 1] = p.data[j]
MadeOfPackets ==
  bl # "Overrun" =>
    /\ bytes_written <= MaxFw
    /\ \A i \in 1 .. bytes_written : \E p \in Taken(fw_data), at \in 0 .. i - 1 :
         i <= at + p.length /\ Lies(p, at)

(* The whole file is in RAM.                                               *)
Whole ==
  /\ bytes_written >= Len(fw_data)
  /\ \A i \in 1 .. Len(fw_data) : fw_buffer[i - 1] = fw_data[i]

Accepting == Flashing \cup {"UpdateSuccess", "SwitchToApplication", "Application"}

(* No success is on its way to the host, or there already.                 *)
Announces(frame) == frame = "UPDATE_SUCCESS" /\ frame # Spoilt
Unannounced ==
  /\ step # "Success" /\ last_written # "UPDATE_SUCCESS"
  /\ \A i \in 1 .. Len(packets_queue) : packets_queue[i] # "UPDATE_SUCCESS"
  /\ \A i \in 1 .. Len(to_host) : ~Announces(to_host[i].frame)

(* A success is announced by a board that has the file, and never by       *)
(* anything else.                                                          *)
SuccessInv ==
  /\ bl \in Flashing => reply = "UPDATE_SUCCESS"
  /\ reply = "UPDATE_SUCCESS" => bl \in Accepting /\ Whole
  /\ resets = 0 /\ reply # "UPDATE_SUCCESS" => Unannounced

SInv == LinkInv /\ IInv /\ MadeOfPackets /\ SuccessInv

(* The image that a board may find verified in what it has received: the   *)
(* signature covers neither version nor size.                              *)
Image(b, v) == v \o WordCells(Len(b.body)) \o b.signature \o b.body

(* s lies in packets of f, the last of which may reach beyond it.          *)
Covered(s, f) ==
  \A i \in 1 .. Len(s) : \E p \in Taken(f), at \in 0 .. i - 1 :
    /\ i <= at + p.length
    /\ \A j \in 1 .. p.length : at + j <= Len(s) => s[at + j] = p.data[j]

(* The packets of a file do not make up another signed image than itself.  *)
FilesDistinct ==
  \A f \in Files, b \in Builds, v \in [1 .. 2 -> Cell] :
    Covered(Image(b, v), f) => Image(b, v) = f

(* The updater has files of the signer.                                    *)
FilesGenuine == Files \subseteq {File(b) : b \in Builds}
-----------------------------------------------------------------------------
(* What is sent.                                                           *)

(* The sizes of bursts.                                                    *)
LEMMA BurstSizes ==
  /\ FrameBytes \in Nat \ {0} /\ SyncBytes \in Nat /\ MaxFaults \in Nat
  /\ SyncBytes \in 1 .. FrameBytes - 1
BY LineAssumption

(* A transmission to the bootloader, hit or not.                           *)
LEMMA LineToBoot ==
  ASSUME NEW f, to_boot \in Seq(Sent(f)), faults \in 0 .. MaxFaults,
         NEW n \in 1 .. FrameBytes, NEW frame, Burst(n, frame) \in Sent(f),
         SendToBoot(n, frame)
  PROVE  to_boot' \in Seq(Sent(f)) /\ faults' \in 0 .. MaxFaults
<1>1. Hit(n) \subseteq Sent(f)
  BY BurstSizes DEF Hit, Sent, Spoils
<1>2. \E burst \in Sent(f) : to_boot' = Append(to_boot, burst)
  BY <1>1 DEF SendToBoot
<1>3. faults' \in 0 .. MaxFaults
  BY BurstSizes DEF SendToBoot
<1> QED
  BY <1>2, <1>3, AppendProperties

(* A transmission to the host.                                             *)
LEMMA LineToHost ==
  ASSUME to_host \in Seq(Replied), faults \in 0 .. MaxFaults,
         NEW frame \in Answers \cup {Spoilt}, SendToHost(frame)
  PROVE  /\ to_host' \in Seq(Replied) /\ faults' \in 0 .. MaxFaults
         /\ Len(to_host') = Len(to_host) + 1
         /\ \A i \in 1 .. Len(to_host) : to_host'[i] = to_host[i]
         /\ to_host'[Len(to_host) + 1].frame \in {frame, Spoilt}
<1>1. PICK burst : /\ to_host' = Append(to_host, burst)
                   /\ burst \in {Burst(FrameBytes, frame)} \cup Hit(FrameBytes)
  BY DEF SendToHost
<1>2. burst \in Replied
  BY <1>1, BurstSizes DEF Hit, Replied, Spoils
<1>3. burst.frame \in {frame, Spoilt}
  BY <1>1 DEF Hit, Burst
<1>4. faults' \in 0 .. MaxFaults
  BY BurstSizes DEF SendToHost
<1> QED
  BY <1>1, <1>2, <1>3, <1>4, AppendProperties

(* The bytes of an unfinished frame.                                       *)
LEMMA SkewType ==
  ASSUME NEW skew \in 0 .. FrameBytes - 1, NEW burst, burst.bytes \in Nat
  PROVE  SkewAfter(skew, burst) \in 0 .. FrameBytes - 1
<1>1. skew + burst.bytes \in Nat /\ FrameBytes \in Nat \ {0}
  BY BurstSizes
<1>2. ASSUME NEW n \in Nat, NEW m \in Nat \ {0} PROVE n % m \in 0 .. m - 1
  BY <1>2
<1> QED
  BY <1>1, <1>2 DEF SkewAfter

(* A burst has a number of bytes, and a whole frame is one that was sent.  *)
LEMMA BurstToBoot ==
  ASSUME NEW f, NEW burst \in Sent(f), NEW skew \in 0 .. FrameBytes - 1
  PROVE  /\ burst.bytes \in 0 .. FrameBytes
         /\ Completes(skew, burst) => Received(skew, burst) \in FilePackets(f) \cup {Spoilt}
<1>1. burst.bytes \in 0 .. FrameBytes
  BY BurstSizes DEF Sent, Spoils, Burst
<1>2. skew = 0 /\ Completes(skew, burst) => burst.frame \in FilePackets(f) \cup {Spoilt}
  BY BurstSizes DEF Sent, Spoils, Burst, Completes
<1> QED
  BY <1>1, <1>2 DEF Received

(* The same for what the host gets.                                        *)
LEMMA BurstToHost ==
  ASSUME NEW burst \in Replied, NEW skew
  PROVE  /\ burst.bytes \in 0 .. FrameBytes
         /\ Received(skew, burst) \in Answers \cup {Spoilt}
  BY BurstSizes DEF Replied, Spoils, Burst, Received

(* The cells of a data packet.                                             *)
LEMMA ChunkCells ==
  ASSUME NEW f \in Files, NEW at \in 0 .. Len(f) - 1
  PROVE  LET n == ChunkEnd(f, at) - at
         IN /\ n \in 1 .. Payload /\ n \in Nat /\ ChunkEnd(f, at) = at + n
            /\ Chunk(f, at).length = n
            /\ \A i \in 1 .. n : Chunk(f, at).data[i] = f[at + i]
<1> DEFINE n == ChunkEnd(f, at) - at
           s == SubSeq(f, at + 1, ChunkEnd(f, at))
<1>1. f \in Seq(Cell) /\ Len(f) \in Nat /\ Payload \in Nat \ {0} /\ at \in Nat /\ at < Len(f)
  BY UpdaterAssumption, LenProperties
<1>2. n \in 1 .. Payload /\ n \in Nat /\ ChunkEnd(f, at) = at + n /\ ChunkEnd(f, at) \in 0 .. Len(f)
  BY <1>1 DEF ChunkEnd
<1>3. Len(s) = n /\ \A i \in 1 .. n : s[i] = f[at + i]
  <2>1. /\ Len(s) = IF at + 1 <= ChunkEnd(f, at) THEN ChunkEnd(f, at) - (at + 1) + 1 ELSE 0
        /\ \A i \in 1 .. ChunkEnd(f, at) - (at + 1) + 1 : s[i] = f[(at + 1) + i - 1]
    <3>1. at + 1 \in Int /\ ChunkEnd(f, at) \in Int
      BY <1>1, <1>2
    <3>2. \A i \in at + 1 .. ChunkEnd(f, at) : f[i] \in Cell
      BY <1>1, <1>2, ElementOfSeq
    <3> QED
      BY <3>1, <3>2, SubSeqProperties
  <2>2. ChunkEnd(f, at) - (at + 1) + 1 = n /\ at + 1 <= ChunkEnd(f, at)
    BY <1>1, <1>2
  <2>3. \A i \in 1 .. n : (at + 1) + i - 1 = at + i
    BY <1>1, <1>2
  <2> QED
    BY <2>1, <2>2, <2>3
<1> HIDE DEF s, n
<1>4. \A i \in 1 .. n : i \in 1 .. Payload
  BY <1>1, <1>2
<1>5. /\ NewPacket(s).length = n
      /\ \A i \in 1 .. n : NewPacket(s).data[i] = s[i]
  BY <1>2, <1>3, <1>4 DEF NewPacket
<1>6. Chunk(f, at) = NewPacket(s)
  BY DEF Chunk, s
<1> QED
  BY <1>2, <1>3, <1>5, <1>6 DEF n

(* The link delivers what an updater sends, which is well formed: it       *)
(* claims at least one cell and no more than it has.                       *)
LEMMA PacketTypes ==
  ASSUME NEW f \in Files, NEW p \in FilePackets(f)
  PROVE  /\ p \in Packets /\ p.length \in 1 .. Payload
         /\ p.data \in [1 .. Payload -> Cell]
<1>1. p \in Packets
  BY SessionAssumption
<1>2. p.length \in 1 .. Payload
  <2>1. 1 \in 1 .. Payload /\ 2 \in 1 .. Payload
    BY BootAssumption
  <2>2. \A byte : Control(byte).length = 1
    BY DEF Control, NewPacket
  <2>3. \A n : NewPacket(WordCells(n)).length = 2
    BY DEF NewPacket, WordCells
  <2>4. ASSUME NEW at \in 0 .. Len(f) - 1 PROVE Chunk(f, at).length \in 1 .. Payload
    BY ChunkCells
  <2> QED
    BY <2>1, <2>2, <2>3, <2>4 DEF FilePackets
<1> QED
  BY <1>1, <1>2, BootAssumption

(* A packet buffer that has been read, or never written.                   *)
LEMMA EmptyInbox == \A f : <<>> \in Seq(Taken(f)) /\ Len(<<>>) = 0 /\ Len(<<>>) <= 1
  BY EmptySeq

(* The packet layer after a reset.                                         *)
LEMMA LayerStarts == LayerInit => LayerInv
<1> SUFFICES ASSUME LayerInit PROVE LayerInv
  OBVIOUS
<1>1. bskew \in 0 .. FrameBytes - 1
  BY BurstSizes DEF LayerInit
<1>2. last_written \in Answers
  BY DEF LayerInit, Answers, Reply
<1>3. inbox \in Seq(Taken(fw_data)) /\ Len(inbox) <= 1 /\ halted \in BOOLEAN
  BY EmptyInbox DEF LayerInit
<1> QED
  BY <1>1, <1>2, <1>3 DEF LayerInv

(* The packets that main and poll_queue send.                              *)
LEMMA FilePacketsOf ==
  ASSUME NEW f
  PROVE  /\ Control(AckByte) \in FilePackets(f) /\ Control(RetByte) \in FilePackets(f)
         /\ Control(UpReqByte) \in FilePackets(f) /\ Control(Erased) \in FilePackets(f)
         /\ NewPacket(WordCells(Len(f))) \in FilePackets(f)
         /\ \A n \in 0 .. Len(f) - 1 : n % Payload = 0 => Chunk(f, n) \in FilePackets(f)
  BY DEF FilePackets

(* Where a chunk ends: at the end of the file, or a packet further.        *)
LEMMA ChunkEnds ==
  ASSUME NEW n \in Nat, NEW at \in 0 .. n - 1, at % Payload = 0, NEW f, Len(f) = n
  PROVE  /\ ChunkEnd(f, at) \in 0 .. n
         /\ ChunkEnd(f, at) < n => ChunkEnd(f, at) % Payload = 0
<1>1. Payload \in Nat \ {0} /\ at \in Int
  BY BootAssumption
<1>2. \A q \in Int : (at + Payload * q) % Payload = at % Payload
  BY <1>1, ModTurns
<1>3. (at + Payload) % Payload = 0
  <2>1. (at + Payload * 1) % Payload = at % Payload
    BY <1>2
  <2>2. Payload * 1 = Payload
    BY <1>1
  <2> QED
    BY <2>1, <2>2
<1> QED
  BY <1>1, <1>3 DEF ChunkEnd

(* A packet written by the host.                                           *)
LEMMA HostWrites ==
  ASSUME LineInv, NEW p \in FilePackets(fw_data), WritePacket(p)
  PROVE  to_boot' \in Seq(Sent(fw_data)) /\ faults' \in 0 .. MaxFaults
<1>1. Burst(FrameBytes, p) \in Sent(fw_data) /\ FrameBytes \in 1 .. FrameBytes
  BY BurstSizes DEF Sent
<1> QED
  BY <1>1, LineToBoot DEF WritePacket, LineInv

(* A packet written by the bootloader.                                     *)
LEMMA BoardWrites ==
  ASSUME LineInv, NEW r \in Answers, BootWrites(r), UNCHANGED <<to_poll>>
  PROVE  /\ to_host' \in Seq(Replied) /\ faults' \in 0 .. MaxFaults
         /\ to_poll' \in 0 .. Len(to_host') /\ last_written' \in Answers
<1>1. /\ to_host' \in Seq(Replied) /\ faults' \in 0 .. MaxFaults
      /\ Len(to_host') = Len(to_host) + 1
  BY LineToHost DEF LineInv, BootWrites
<1>2. Len(to_host) \in Nat
  BY LenProperties DEF LineInv
<1> QED
  BY <1>1, <1>2 DEF LineInv, BootWrites
-----------------------------------------------------------------------------
(* The steps of the host.                                                  *)

(* The host starts, sends the sync sequence, or wakes up.                  *)
LEMMA HostWaits ==
  ASSUME LinkInv, Launch \/ WriteSync \/ Wake
  PROVE  HostInv' /\ LineInv'
<1> USE DEF LinkInv, HostInv, Waits, Over
<1>1. CASE Launch
  BY <1>1 DEF Launch, LineInv, lineVars
<1>2. CASE WriteSync
  <2>1. Burst(SyncBytes, SyncSeq) \in Sent(fw_data) /\ SyncBytes \in 1 .. FrameBytes
    BY BurstSizes DEF Sent
  <2>2. to_boot' \in Seq(Sent(fw_data)) /\ faults' \in 0 .. MaxFaults
    BY <1>2, <2>1, LineToBoot DEF WriteSync, LineInv
  <2> QED
    BY <1>2, <2>2 DEF WriteSync, LineInv
<1>3. CASE Wake
  <2>1. Len(to_host) \in Nat
    BY LenProperties DEF LineInv
  <2> QED
    BY <1>3, <2>1 DEF Wake, LineInv, lineVars
<1> QED
  BY <1>1, <1>2, <1>3

(* poll_queue takes a burst and answers it.                                *)
LEMMA HostPolls ==
  ASSUME LinkInv, PollQueue
  PROVE  HostInv' /\ LineInv'
<1> DEFINE burst == Head(to_host)
           frame == Received(hskew, burst)
<1>1. /\ to_host \in Seq(Replied) /\ to_host # <<>> /\ burst \in Replied
      /\ Tail(to_host) \in Seq(Replied) /\ Len(Tail(to_host)) = Len(to_host) - 1
      /\ Len(to_host) \in Nat
  <2>1. to_host \in Seq(Replied) /\ to_poll > 0 /\ to_poll \in 0 .. Len(to_host)
    BY DEF LinkInv, LineInv, PollQueue
  <2>2. to_host # <<>> /\ Len(to_host) \in Nat
    BY <2>1, LenProperties
  <2> QED
    BY <2>1, <2>2, HeadTailProperties
<1>2. burst.bytes \in Nat /\ frame \in Answers \cup {Spoilt}
  BY <1>1, BurstToHost, BurstSizes
<1>3. hskew' \in 0 .. FrameBytes - 1
  BY <1>2, SkewType DEF PollQueue, LinkInv, HostInv
<1>4. /\ to_boot' \in Seq(Sent(fw_data)) /\ faults' \in 0 .. MaxFaults
      /\ prev_packet' \in FilePackets(fw_data) /\ packets_queue' \in Seq(Answers)
  <2>1. CASE UNCHANGED <<to_boot, faults, prev_packet, packets_queue>>
    BY <2>1 DEF LinkInv, LineInv, HostInv
  <2>2. CASE frame = Spoilt /\ SendPacket(Control(RetByte)) /\ UNCHANGED packets_queue
    BY <2>2, HostWrites, FilePacketsOf DEF SendPacket, LinkInv, HostInv
  <2>3. CASE WritePacket(prev_packet) /\ UNCHANGED <<prev_packet, packets_queue>>
    BY <2>3, HostWrites DEF LinkInv, HostInv
  <2>4. CASE /\ frame # Spoilt /\ packets_queue' = Append(packets_queue, frame)
             /\ SendPacket(Control(AckByte))
    <3>1. packets_queue' \in Seq(Answers)
      BY <1>2, <2>4, AppendProperties DEF LinkInv, HostInv
    <3> QED
      BY <2>4, <3>1, HostWrites, FilePacketsOf DEF SendPacket, LinkInv, HostInv
  <2>5. HandleFrame(frame) \/ UNCHANGED <<to_boot, faults, prev_packet, packets_queue>>
    BY DEF PollQueue
  <2> QED
    BY <2>1, <2>2, <2>3, <2>4, <2>5 DEF HandleFrame
<1>5. HostInv'
  BY <1>3, <1>4 DEF PollQueue, LinkInv, HostInv
<1>6. LineInv'
  BY <1>1, <1>4 DEF PollQueue, LinkInv, LineInv
<1> QED
  BY <1>5, <1>6

(* main goes on to the next wait.                                          *)
LEMMA HostProceeds ==
  ASSUME LinkInv, Answered
  PROVE  HostInv' /\ LineInv'
<1>1. /\ packets_queue' \in Seq(Answers)
      /\ UNCHANGED <<fw_data, to_poll, hskew, to_host>>
      /\ hpc' \in {"done", "sleep"} /\ iterations' = 0
  BY HeadTailProperties DEF Answered, LinkInv, HostInv
<1>2. fw_data \in Files /\ Len(fw_data) \in Nat \ {0}
  BY UpdaterAssumption DEF LinkInv, HostInv, ErasedWord
<1>3. CASE step = "Sync" /\ step' = "UpReq" /\ SendPacket(Control(UpReqByte)) /\ UNCHANGED bytes_sent
  <2>1. /\ to_boot' \in Seq(Sent(fw_data)) /\ faults' \in 0 .. MaxFaults
        /\ prev_packet' \in FilePackets(fw_data)
    BY <1>3, HostWrites, FilePacketsOf DEF SendPacket, LinkInv
  <2> QED
    BY <1>1, <1>3, <2>1 DEF LinkInv, HostInv, LineInv, Waits
<1>4. CASE /\ UNCHANGED <<to_boot, faults, prev_packet, bytes_sent>>
           /\ \/ step = "UpReq" /\ step' = "LengthReq"
              \/ step = "Confirm" /\ step' = "Success"
  BY <1>1, <1>4 DEF LinkInv, HostInv, LineInv, Waits, Over
<1>5. CASE step = "LengthReq" /\ step' = "Length" /\ SendPacket(LengthPacket) /\ UNCHANGED bytes_sent
  <2>1. /\ to_boot' \in Seq(Sent(fw_data)) /\ faults' \in 0 .. MaxFaults
        /\ prev_packet' \in FilePackets(fw_data)
    BY <1>5, HostWrites, FilePacketsOf DEF SendPacket, LinkInv, LengthPacket
  <2>2. bytes_sent' = 0 /\ 0 % Payload = 0
    BY <1>5, BootAssumption DEF LinkInv, HostInv
  <2> QED
    BY <1>1, <1>2, <1>5, <2>1, <2>2 DEF LinkInv, HostInv, LineInv, Waits
<1>6. CASE step \in {"Length", "Data"} /\ SendChunk
  <2>1. bytes_sent \in 0 .. Len(fw_data) - 1 /\ bytes_sent % Payload = 0
    BY <1>2, <1>6 DEF LinkInv, HostInv
  <2>2. NextChunk \in FilePackets(fw_data)
    BY <2>1, FilePacketsOf DEF NextChunk
  <2>3. /\ to_boot' \in Seq(Sent(fw_data)) /\ faults' \in 0 .. MaxFaults
        /\ prev_packet' \in FilePackets(fw_data)
    BY <1>6, <2>2, HostWrites DEF SendChunk, SendPacket, LinkInv
  <2>4. /\ NextEnd \in 0 .. Len(fw_data)
        /\ NextEnd < Len(fw_data) => NextEnd % Payload = 0
    BY <1>2, <2>1, ChunkEnds DEF NextEnd
  <2>5. /\ bytes_sent' = NextEnd /\ step' \in {"Data", "Confirm"}
        /\ step' = "Data" => NextEnd < Len(fw_data)
    BY <1>6 DEF SendChunk
  <2> QED
    BY <1>1, <2>3, <2>4, <2>5 DEF LinkInv, HostInv, LineInv, Waits
<1> QED
  BY <1>3, <1>4, <1>5, <1>6 DEF Answered, Proceed

(* The host has found no answer: it goes on waiting, or gives up.          *)
LEMMA HostGivesUp ==
  ASSUME LinkInv, Unanswered
  PROVE  HostInv' /\ LineInv'
<1>1. packets_queue' \in Seq(Answers)
  BY HeadTailProperties DEF Unanswered, LinkInv, HostInv
<1>2. iterations' \in Nat
  BY DEF Unanswered, LinkInv, HostInv
<1>3. /\ hpc' \in {"done", "write", "sleep"} /\ step' \in {step, "Failed"}
      /\ UNCHANGED <<fw_data, to_poll, hskew, prev_packet, bytes_sent>>
      /\ UNCHANGED <<to_boot, to_host, faults>>
  BY DEF Unanswered, lineVars
<1>4. LineInv'
  BY <1>3 DEF LinkInv, LineInv
<1>5. HostInv'
  BY <1>1, <1>2, <1>3 DEF LinkInv, HostInv, Waits, Over
<1> QED
  BY <1>4, <1>5
-----------------------------------------------------------------------------
(* The steps of the board.                                                 *)

(* A burst is taken off the line to the bootloader.                        *)
LEMMA BurstTaken ==
  ASSUME LinkInv, to_boot # <<>>
  PROVE  /\ Head(to_boot) \in Sent(fw_data) /\ Tail(to_boot) \in Seq(Sent(fw_data))
  BY HeadTailProperties DEF LinkInv, LineInv

(* comms_update takes a burst and answers it.                              *)
LEMMA LayerTakes ==
  ASSUME LinkInv, CommsUpdate
  PROVE  HostInv' /\ LineInv' /\ LayerInv'
<1> DEFINE burst == Head(to_boot)
           frame == Received(bskew, burst)
<1>1. /\ burst \in Sent(fw_data) /\ to_boot' \in Seq(Sent(fw_data))
      /\ UNCHANGED hostVars
  BY BurstTaken DEF CommsUpdate
<1>2. bskew' \in 0 .. FrameBytes - 1
  <2>1. burst.bytes \in Nat /\ bskew \in 0 .. FrameBytes - 1
    BY <1>1, BurstToBoot, BurstSizes DEF LinkInv, LayerInv
  <2> QED
    BY <2>1, SkewType DEF CommsUpdate
<1>3. HostInv'
  BY <1>1 DEF LinkInv, HostInv, hostVars
<1>4. fw_data' = fw_data /\ to_poll' = to_poll
  BY <1>1 DEF hostVars
<1>5. /\ to_host' \in Seq(Replied) /\ to_poll' \in 0 .. Len(to_host')
      /\ faults' \in 0 .. MaxFaults /\ last_written' \in Answers
      /\ inbox' \in Seq(Taken(fw_data)) /\ Len(inbox') <= 1 /\ halted' \in BOOLEAN
  <2>1. CASE Silent /\ UNCHANGED inbox /\ halted' \in {halted, TRUE}
    BY <1>4, <2>1 DEF Silent, LinkInv, LineInv, LayerInv
  <2>2. CASE \E r \in Answers : BootWrites(r) /\ UNCHANGED <<inbox, halted>>
    BY <1>4, <2>2, BoardWrites DEF LinkInv, LayerInv
  <2>3. CASE /\ SendToHost(IF last_written = "None" THEN Spoilt ELSE last_written)
             /\ UNCHANGED <<last_written, inbox, halted>>
    <3>1. (IF last_written = "None" THEN Spoilt ELSE last_written) \in Answers \cup {Spoilt}
      BY DEF LinkInv, LayerInv
    <3>2. /\ to_host' \in Seq(Replied) /\ faults' \in 0 .. MaxFaults
          /\ Len(to_host') = Len(to_host) + 1
      BY <2>3, <3>1, LineToHost DEF LinkInv, LineInv
    <3>3. Len(to_host) \in Nat
      BY LenProperties DEF LinkInv, LineInv
    <3> QED
      BY <1>4, <2>3, <3>2, <3>3 DEF LinkInv, LineInv, LayerInv
  <2>4. CASE /\ Completes(bskew, burst)
             /\ frame \notin {Spoilt, Control(RetByte), Control(AckByte)}
             /\ inbox' = <<frame>> /\ BootWrites("ACK") /\ UNCHANGED halted
    <3>1. frame \in FilePackets(fw_data) \cup {Spoilt}
      BY <1>1, <2>4, BurstToBoot DEF LinkInv, LayerInv
    <3>2. frame \in Taken(fw_data)
      BY <2>4, <3>1 DEF Taken
    <3>3. inbox' \in Seq(Taken(fw_data)) /\ Len(inbox') = 1
      BY <2>4, <3>2
    <3> QED
      BY <1>4, <2>4, <3>3, BoardWrites DEF LinkInv, LayerInv, Answers
  <2>5. "RET" \in Answers /\ "ACK" \in Answers
    BY DEF Answers
  <2>6. \/ Completes(bskew, burst) /\ Dispatch(frame)
        \/ Silent /\ UNCHANGED <<inbox, halted>>
    BY DEF CommsUpdate
  <2>7. Completes(bskew, burst) /\ Dispatch(frame) =>
          \/ Silent /\ UNCHANGED inbox /\ halted' \in {halted, TRUE}
          \/ BootWrites("RET") /\ UNCHANGED <<inbox, halted>>
          \/ /\ SendToHost(IF last_written = "None" THEN Spoilt ELSE last_written)
             /\ UNCHANGED <<last_written, inbox, halted>>
          \/ /\ Completes(bskew, burst)
             /\ frame \notin {Spoilt, Control(RetByte), Control(AckByte)}
             /\ inbox' = <<frame>> /\ BootWrites("ACK") /\ UNCHANGED halted
    BY DEF Dispatch
  <2> HIDE DEF frame, burst
  <2> QED
    BY <2>1, <2>2, <2>3, <2>4, <2>5, <2>6, <2>7
<1> QED
  BY <1>1, <1>2, <1>3, <1>4, <1>5 DEF LineInv, LayerInv

(* What the loop writes.                                                   *)
LEMMA LoopWrites ==
  /\ SyncObserved \/ FWLengthReq \/ CheckForTimeout => reply' \in Answers
  /\ \A pkt : WaitingForUpdateReq(pkt) \/ FWLengthRes(pkt) => reply' \in Answers
  /\ \A pkt : ReceiveFW(pkt) /\ bl' = "ReceiveFW" => reply' \in Answers
  /\ CheckSignature => reply' \in Answers
<1>1. SyncObserved \/ FWLengthReq \/ CheckForTimeout => reply' \in Answers
  BY DEF SyncObserved, FWLengthReq, CheckForTimeout, Answers, Reply
<1>2. \A pkt : WaitingForUpdateReq(pkt) \/ FWLengthRes(pkt) => reply' \in Answers
  BY DEF WaitingForUpdateReq, FWLengthRes, Answers, Reply
<1>3. ASSUME NEW pkt, ReceiveFW(pkt), bl' = "ReceiveFW" PROVE reply' \in Answers
  BY <1>3 DEF ReceiveFW, Answers, Reply
<1>4. CheckSignature => reply' \in Answers
  BY DEF CheckSignature, Answers, Reply
<1> QED
  BY <1>1, <1>2, <1>3, <1>4

(* An iteration of the loop takes from the line and from the inbox, and    *)
(* writes at most one packet.                                              *)
LEMMA LoopLinks ==
  ASSUME LinkInv, UNCHANGED <<hostVars, bskew, halted>>,
         to_boot' \in {to_boot, Tail(to_boot), <<>>}, to_boot = <<>> => to_boot' = <<>>,
         inbox' \in {inbox, <<>>},
         Silent \/ \E r \in Answers : BootWrites(r)
  PROVE  LinkInv'
<1>1. to_boot' \in Seq(Sent(fw_data))
  BY BurstTaken, EmptySeq DEF LinkInv, LineInv
<1>2. UNCHANGED <<fw_data, to_poll>>
  BY DEF hostVars
<1>3. /\ to_host' \in Seq(Replied) /\ to_poll' \in 0 .. Len(to_host')
      /\ faults' \in 0 .. MaxFaults /\ last_written' \in Answers
  <2>1. CASE Silent
    BY <1>2, <2>1 DEF Silent, LinkInv, LineInv, LayerInv
  <2>2. CASE \E r \in Answers : BootWrites(r)
    BY <1>2, <2>2, BoardWrites DEF LinkInv
  <2> QED
    BY <2>1, <2>2
<1>4. HostInv'
  BY DEF LinkInv, HostInv, hostVars
<1>5. inbox' \in Seq(Taken(fw_data)) /\ Len(inbox') <= 1
  BY EmptyInbox DEF LinkInv, LayerInv
<1> QED
  BY <1>1, <1>2, <1>3, <1>4, <1>5 DEF LinkInv, LineInv, LayerInv

(* An iteration of the loop.                                               *)
LEMMA LoopRuns ==
  ASSUME LinkInv, BootSync \/ BootReads \/ BootTimesOut \/ BootComputes
  PROVE  LinkInv'
<1>1. CASE BootSync
  <2>1. Silent \/ \E r \in Answers : BootWrites(r)
    BY <1>1, LoopWrites DEF BootSync
  <2>2. /\ UNCHANGED <<hostVars, bskew, halted, inbox>>
        /\ to_boot # <<>> /\ to_boot' \in {Tail(to_boot), <<>>}
    BY <1>1 DEF BootSync
  <2> QED
    BY <2>1, <2>2, LoopLinks
<1>2. CASE BootReads
  <2>1. Silent \/ \E r \in Answers : BootWrites(r)
    BY <1>2, LoopWrites DEF BootReads
  <2>2. inbox' = <<>> /\ UNCHANGED <<hostVars, bskew, halted, to_boot>>
    BY <1>2 DEF BootReads
  <2> QED
    BY <2>1, <2>2, LoopLinks
<1>3. CASE BootTimesOut
  BY <1>3, LoopWrites, LoopLinks DEF BootTimesOut
<1>4. CASE BootComputes
  <2>1. Silent \/ \E r \in Answers : BootWrites(r)
    BY <1>4, LoopWrites DEF BootComputes
  <2>2. UNCHANGED <<hostVars, bskew, halted, inbox, to_boot>>
    BY <1>4 DEF BootComputes
  <2> QED
    BY <2>1, <2>2, LoopLinks
<1> QED
  BY <1>1, <1>2, <1>3, <1>4

(* A board that does not listen, and a board that is reset.                *)
LEMMA BoardRests ==
  ASSUME LinkInv, Unheard \/ BootResets
  PROVE  LinkInv'
<1>1. UNCHANGED <<hostVars, to_host, faults>> /\ UNCHANGED <<fw_data, to_poll>>
  BY DEF Unheard, BootResets, hostVars
<1>2. HostInv'
  BY <1>1 DEF LinkInv, HostInv, hostVars
<1>3. to_boot' \in Seq(Sent(fw_data))
  BY BurstTaken, EmptySeq DEF Unheard, BootResets
<1>4. LayerInv'
  <2>1. CASE UNCHANGED layerVars
    BY <1>1, <2>1 DEF layerVars, LinkInv, LayerInv
  <2>2. CASE BootResets
    <3>1. LayerInit'
      BY <2>2 DEF BootResets, LayerInit
    <3> QED
      BY <3>1, LayerStarts, PTL
  <2> QED
    BY <2>1, <2>2 DEF Unheard
<1> QED
  BY <1>1, <1>2, <1>3, <1>4 DEF LinkInv, LineInv

(* At first the line and the queues are empty.                             *)
LEMMA LinkInit == SessionInit => LinkInv
<1> SUFFICES ASSUME SessionInit PROVE LinkInv
  OBVIOUS
<1>1. HostInv
  <2>1. fw_data \in Files /\ Len(fw_data) \in Nat /\ prev_packet \in FilePackets(fw_data)
    BY UpdaterAssumption, FilePacketsOf DEF SessionInit, HostInit, ErasedWord
  <2> QED
    BY <2>1, BurstSizes DEF SessionInit, HostInit, HostInv, Waits
<1>2. LineInv
  BY BurstSizes, EmptySeq DEF SessionInit, HostInit, LineInv
<1>3. LayerInv
  BY LayerStarts DEF SessionInit
<1> QED
  BY <1>1, <1>2, <1>3 DEF LinkInv

(* Every step of either program and of the line keeps what is on the line. *)
LEMMA LinkStep == LinkInv /\ [SessionNext]_sessionVars => LinkInv'
<1> SUFFICES ASSUME LinkInv, [SessionNext]_sessionVars PROVE LinkInv'
  OBVIOUS
<1>1. ASSUME HostInv', LineInv', UNCHANGED <<fw_data, layerVars>>
      PROVE  LinkInv'
  BY <1>1 DEF LinkInv, LayerInv, layerVars
<1>2. CASE HostStarts
  <2>1. UNCHANGED <<fw_data, layerVars>>
    BY <1>2 DEF HostStarts, Launch
  <2> QED
    BY <1>1, <1>2, <2>1, HostWaits DEF HostStarts
<1>3. CASE HostRuns
  <2>1. UNCHANGED <<fw_data, layerVars>>
    BY <1>3 DEF HostRuns, Run, WriteSync, PollQueue, Answered, Unanswered
  <2> QED
    BY <1>1, <1>3, <2>1, HostWaits, HostPolls, HostProceeds, HostGivesUp DEF HostRuns, Run
<1>4. CASE HostSleeps
  <2>1. UNCHANGED <<fw_data, layerVars>>
    BY <1>4 DEF HostSleeps, Wake, TimePasses
  <2> QED
    BY <1>1, <1>4, <2>1, HostWaits DEF HostSleeps
<1>5. CASE BootStep
  BY <1>5, LayerTakes, LoopRuns DEF BootStep, LinkInv
<1>6. CASE Unheard \/ BootResets
  BY <1>6, BoardRests
<1>7. CASE UNCHANGED <<layerVars, hostVars, lineVars>>
  BY <1>7 DEF LinkInv, HostInv, LineInv, LayerInv, layerVars, hostVars, lineVars
<1>8. CASE NobodyThere
  BY <1>7, <1>8 DEF NobodyThere, TimePasses
<1> QED
  BY <1>2, <1>3, <1>4, <1>5, <1>6, <1>7, <1>8 DEF SessionNext, sessionVars
-----------------------------------------------------------------------------
(* A step of the session is a step of the bootloader, or none of its       *)
(* steps.                                                                  *)

(* The packet that an iteration finds is one that a bootloader may find.   *)
LEMMA ReadsPacket ==
  ASSUME LinkInv, inbox # <<>>
  PROVE  Head(inbox) \in Taken(fw_data) /\ Head(inbox) \in Packets
<1>1. Head(inbox) \in Taken(fw_data) /\ fw_data \in Files
  BY HeadTailProperties DEF LinkInv, LayerInv, HostInv
<1> QED
  BY <1>1, PacketTypes DEF Taken

(* The board of a session starts as any other.                             *)
LEMMA SessionInitIsInit == SessionInit => Init
  BY DEF SessionInit

(* Whatever moves in a session moves the board as Bootloader does.         *)
LEMMA SessionStepIsStep == LinkInv /\ [SessionNext]_sessionVars => [Next]_vars
<1> SUFFICES ASSUME LinkInv, [SessionNext]_sessionVars PROVE [Next]_vars
  OBVIOUS
<1>1. CASE UNCHANGED vars
  BY <1>1
<1>2. CASE HostStarts \/ HostRuns \/ CommsUpdate \/ Unheard
  BY <1>1, <1>2 DEF HostStarts, HostRuns, CommsUpdate, Unheard
<1>3. CASE HostSleeps \/ NobodyThere
  <2>1. Tick \/ UNCHANGED vars
    BY <1>3 DEF HostSleeps, NobodyThere, TimePasses
  <2> QED
    BY <1>1, <2>1 DEF Next
<1>4. CASE BootSync
  <2>1. SyncObserved \/ UNCHANGED vars
    BY <1>4 DEF BootSync
  <2> QED
    BY <1>1, <2>1 DEF Next
<1>5. CASE BootReads
  <2>1. Head(inbox) \in Packets
    BY <1>5, ReadsPacket DEF BootReads
  <2>2. Receive
    BY <1>5, <2>1 DEF BootReads, Receive
  <2> QED
    BY <2>2 DEF Next
<1>6. CASE BootTimesOut
  BY <1>6 DEF BootTimesOut, Next
<1>7. CASE BootComputes
  BY <1>7 DEF BootComputes, Compute, Next
<1>8. CASE BootResets
  BY <1>8 DEF BootResets, Next
<1>9. CASE UNCHANGED sessionVars
  BY <1>1, <1>9 DEF sessionVars
<1> QED
  BY <1>2, <1>3, <1>4, <1>5, <1>6, <1>7, <1>8, <1>9 DEF SessionNext, BootStep

(* What is on the line, in the queues and in the host's hands is always    *)
(* what the two programs of this session have sent.                        *)
LEMMA LinkInvariance == SessionSpec => []LinkInv
<1>1. SessionInit => LinkInv
  BY LinkInit
<1>2. LinkInv /\ [SessionNext]_sessionVars => LinkInv'
  BY LinkStep
<1> QED
  BY <1>1, <1>2, PTL DEF SessionSpec

(* The board of a session is one of Bootloader: the link it meets delivers *)
(* only what Bootloader's link may deliver, and the host, the line and the *)
(* packet layer change nothing of it.                                      *)
THEOREM SessionRunsBootloader == SessionSpec => Spec
<1>1. SessionInit => Init
  BY SessionInitIsInit
<1>2. LinkInv /\ [SessionNext]_sessionVars => [Next]_vars
  BY SessionStepIsStep
<1> QED
  BY <1>1, <1>2, LinkInvariance, PTL DEF SessionSpec, Spec

(* The types of both programs, the line and the packet layer: the counters *)
(* of bytes never pass the sizes of the files and of the frame, and the    *)
(* packet buffer holds at most one packet.                                 *)
THEOREM SessionTypeCorrect == SessionSpec => []SessionTypeOK
<1>1. TypeOK /\ LinkInv => SessionTypeOK
  BY DEF SessionTypeOK, LinkInv, HostInv, LineInv, LayerInv, Answers
<1>2. SessionSpec => []TypeOK
  BY SessionRunsBootloader, TypeCorrect, PTL
<1> QED
  BY <1>1, <1>2, LinkInvariance, PTL
-----------------------------------------------------------------------------
(* The image that is verified is the file.                                 *)

(* The cells of an image, one after the other.                             *)
LEMMA ImageCells ==
  ASSUME NEW b \in Builds, NEW v \in [1 .. 2 -> Cell]
  PROVE  /\ Len(Image(b, v)) = InfoCells + Len(b.body) /\ Len(b.body) \in Nat
         /\ Image(b, v)[1] = v[1] /\ Image(b, v)[2] = v[2]
         /\ Image(b, v)[3] = WordCells(Len(b.body))[1]
         /\ Image(b, v)[4] = WordCells(Len(b.body))[2]
         /\ \A i \in 1 .. SigCells : Image(b, v)[4 + i] = b.signature[i]
         /\ \A i \in 1 .. Len(b.body) : Image(b, v)[InfoCells + i] = b.body[i]
<1>1. /\ Len(b.body) \in 0 .. ErasedWord /\ b.body \in Seq(Cell) /\ Len(b.body) \in Nat
      /\ b.signature \in Seq(Cell) /\ Len(b.signature) = SigCells /\ SigCells \in Nat
      /\ v \in Seq(Cell) /\ Len(v) = 2
  <2>1. /\ Len(b.body) \in 0 .. ErasedWord /\ b.body \in Seq(Cell) /\ Len(b.body) \in Nat
        /\ b.signature \in Seq(Cell) /\ Len(b.signature) = SigCells /\ SigCells \in Nat
    BY ImageAssumption DEF ErasedWord
  <2>2. v \in Seq(Cell) /\ Len(v) = 2
    <3>1. \A n \in Nat : \A t \in [1 .. n -> Cell] : t \in Seq(Cell) /\ Len(t) = n
      OBVIOUS
    <3> QED
      BY <3>1
  <2> QED
    BY <2>1, <2>2
<1> DEFINE size   == WordCells(Len(b.body))
           head   == v \o size
           header == head \o b.signature
<1>2. size \in Seq(Cell) /\ Len(size) = 2
  BY <1>1, WordCellsType
<1>3. Image(b, v) = header \o b.body
  BY DEF Image
<1> HIDE DEF size
<1>4. /\ head \in Seq(Cell) /\ Len(head) = 4
      /\ head[1] = v[1] /\ head[2] = v[2] /\ head[3] = size[1] /\ head[4] = size[2]
  <2>1. /\ head \in Seq(Cell) /\ Len(head) = Len(v) + Len(size)
        /\ \A i \in 1 .. Len(v) : head[i] = v[i]
        /\ \A i \in 1 .. Len(size) : head[Len(v) + i] = size[i]
    BY <1>1, <1>2, ConcatCells
  <2>2. head[2 + 1] = size[1] /\ head[2 + 2] = size[2]
    BY <1>1, <1>2, <2>1
  <2> QED
    BY <1>1, <1>2, <2>1, <2>2
<1> HIDE DEF head
<1>5. /\ header \in Seq(Cell) /\ Len(header) = 4 + SigCells
      /\ \A i \in 1 .. 4 : header[i] = head[i]
      /\ \A i \in 1 .. SigCells : header[4 + i] = b.signature[i]
  <2>1. /\ header \in Seq(Cell) /\ Len(header) = Len(head) + Len(b.signature)
        /\ \A i \in 1 .. Len(head) : header[i] = head[i]
        /\ \A i \in 1 .. Len(b.signature) : header[Len(head) + i] = b.signature[i]
    BY <1>1, <1>4, ConcatCells
  <2> QED
    BY <1>1, <1>4, <2>1
<1> HIDE DEF header
<1> DEFINE s == Image(b, v)
<1>6. /\ Len(s) = 4 + SigCells + Len(b.body)
      /\ \A i \in 1 .. 4 + SigCells : s[i] = header[i]
      /\ \A i \in 1 .. Len(b.body) : s[(4 + SigCells) + i] = b.body[i]
  <2>1. /\ Len(header \o b.body) = Len(header) + Len(b.body)
        /\ \A i \in 1 .. Len(header) : (header \o b.body)[i] = header[i]
        /\ \A i \in 1 .. Len(b.body) : (header \o b.body)[Len(header) + i] = b.body[i]
    BY <1>1, <1>5, ConcatCells
  <2> QED
    BY <1>3, <1>5, <2>1
<1> HIDE DEF s
<1>7. SigCells \in Nat
  BY <1>1
<1>8. \A i \in 1 .. SigCells : s[4 + i] = b.signature[i]
  <2> TAKE i \in 1 .. SigCells
  <2>1. i \in Int /\ 1 =< i /\ i =< SigCells
    BY <1>7
  <2>2. 4 + i \in 1 .. 4 + SigCells
    BY <1>7, <2>1
  <2>3. s[4 + i] = header[4 + i]
    BY <1>6, <2>2
  <2> QED
    BY <1>5, <2>3
<1>9. s[1] = head[1] /\ s[2] = head[2] /\ s[3] = head[3] /\ s[4] = head[4]
  <2>1. \A i \in 1 .. 4 : i \in 1 .. 4 + SigCells
    BY <1>7
  <2>2. \A i \in 1 .. 4 : s[i] = header[i]
    BY <1>6, <2>1
  <2>3. \A i \in 1 .. 4 : s[i] = head[i]
    BY <1>5, <2>2
  <2> QED
    BY <2>3
<1>10. s[1] = v[1] /\ s[2] = v[2] /\ s[3] = size[1] /\ s[4] = size[2]
  BY <1>4, <1>9
<1> QED
  BY <1>1, <1>6, <1>8, <1>10 DEF s, size, InfoCells

(* Two cells that read as a number are how the number is written.          *)
LEMMA WordCellsOnly ==
  ASSUME NEW lo \in Cell, NEW hi \in Cell
  PROVE  WordCells(Word(lo, hi)) = <<lo, hi>>
<1> DEFINE M == CellMax + 1
<1>1. M \in Nat \ {0} /\ hi \in Int /\ lo \in 0 .. M - 1 /\ lo \in Int
  BY FlashAssumption DEF Cell
<1> HIDE DEF M
<1>2. (M * hi + lo) \div M = hi /\ (M * hi + lo) % M = lo
  BY <1>1, QuotientUnique
<1>3. Word(lo, hi) = M * hi + lo
  <2>1. Word(lo, hi) = lo + M * hi
    BY DEF Word, M
  <2> QED
    BY <1>1, <2>1
<1> QED
  BY <1>2, <1>3 DEF WordCells, M

(* An image whose body does not end in a zero has been received whole, and *)
(* lies at the beginning of the buffer.                                    *)
LEMMA VerifiedReceived ==
  ASSUME NoZeroEnd, IInv, CheckSignature, bl' = "UpdateFW"
  PROVE  \E b \in Builds, v \in [1 .. 2 -> Cell] :
           /\ Len(Image(b, v)) \in Nat
           /\ Len(Image(b, v)) <= bytes_written
           /\ \A i \in 1 .. Len(Image(b, v)) : Image(b, v)[i] = fw_buffer[i - 1]
<1> DEFINE upd == ReadInfo(fw_buffer, 0)
<1>1. HeaderAccepted(upd) /\ SignatureValid(fw_buffer, InfoCells, upd)
  BY DEF CheckSignature
<1>2. PICK b \in Builds : /\ b.signature = upd.signature /\ Len(b.body) = upd.size
                          /\ BodyAt(fw_buffer, InfoCells, b)
  BY <1>1 DEF SignatureValid
<1>3. /\ b.body \in Seq(Cell) /\ Len(b.body) \in Nat
      /\ b.signature \in [1 .. SigCells -> Cell] /\ SigCells \in Nat
  BY ImageAssumption
<1>4. /\ bytes_written \in InfoCells .. MaxFw
      /\ fw_buffer \in [0 .. MaxFw - 1 -> Cell] /\ ZeroTail
  BY DEF IInv, Buffered, CheckSignature, TypeOK
<1>5. MaxFw \in Nat /\ InfoCells \in Nat /\ InfoCells >= 5 /\ InfoCells < MaxFw
  BY BootAssumption, Layout
<1>6. Len(b.body) < MaxFw - InfoCells
  BY <1>1, <1>2 DEF HeaderAccepted
<1>7. InfoCells + Len(b.body) <= bytes_written
  <2>1. CASE Len(b.body) = 0
    BY <1>4, <1>5, <2>1
  <2>2. CASE Len(b.body) # 0
    <3> DEFINE last == InfoCells + Len(b.body) - 1
    <3>1. Len(b.body) \in 1 .. Len(b.body) /\ b.body # <<>>
      BY <1>3, <2>2
    <3>2. fw_buffer[last] = b.body[Len(b.body)]
      BY <1>2, <3>1 DEF BodyAt
    <3>3. fw_buffer[last] # 0
      BY <3>1, <3>2 DEF NoZeroEnd
    <3>4. last \in 0 .. MaxFw - 1
      BY <1>3, <1>5, <1>6
    <3> QED
      BY <1>3, <1>4, <1>5, <3>3, <3>4 DEF ZeroTail
  <2> QED
    BY <2>1, <2>2
<1>8. /\ fw_buffer[0] \in Cell /\ fw_buffer[1] \in Cell
      /\ fw_buffer[2] \in Cell /\ fw_buffer[3] \in Cell
  BY <1>4, <1>5
<1> DEFINE v == <<fw_buffer[0], fw_buffer[1]>>
           s == Image(b, v)
<1>9. v \in [1 .. 2 -> Cell]
  BY <1>8
<1>10. Len(b.body) = Word(fw_buffer[2], fw_buffer[3])
  <2>1. upd.size = Word(fw_buffer[0 + 2], fw_buffer[0 + 3])
    BY DEF ReadInfo
  <2> QED
    BY <1>2, <2>1
<1>11. WordCells(Len(b.body)) = <<fw_buffer[2], fw_buffer[3]>>
  BY <1>8, <1>10, WordCellsOnly
<1>12. \A i \in 1 .. SigCells : b.signature[i] = fw_buffer[3 + i]
  <2>1. \A i \in 1 .. SigCells : upd.signature[i] = fw_buffer[0 + 3 + i]
    BY DEF ReadInfo
  <2>2. \A i \in 1 .. SigCells : 0 + 3 + i = 3 + i
    OBVIOUS
  <2> QED
    BY <1>2, <2>1, <2>2
<1>13. \A i \in 1 .. Len(b.body) : b.body[i] = fw_buffer[InfoCells + i - 1]
  BY <1>2 DEF BodyAt
<1> HIDE DEF v
<1>14. /\ Len(s) = InfoCells + Len(b.body)
       /\ s[1] = v[1] /\ s[2] = v[2]
       /\ s[3] = WordCells(Len(b.body))[1] /\ s[4] = WordCells(Len(b.body))[2]
       /\ \A i \in 1 .. SigCells : s[4 + i] = b.signature[i]
       /\ \A i \in 1 .. Len(b.body) : s[InfoCells + i] = b.body[i]
  BY <1>9, ImageCells
<1> HIDE DEF s
<1>15. ASSUME NEW i \in 1 .. Len(s)
       PROVE  s[i] = fw_buffer[i - 1]
  <2>1. CASE i \in 1 .. 4
    <3>1. /\ s[1] = fw_buffer[0] /\ s[2] = fw_buffer[1]
          /\ s[3] = fw_buffer[2] /\ s[4] = fw_buffer[3]
      BY <1>11, <1>14 DEF v
    <3>2. i = 1 \/ i = 2 \/ i = 3 \/ i = 4
      BY <2>1
    <3> QED
      BY <3>1, <3>2
  <2>2. CASE i \in 5 .. InfoCells
    <3>1. i - 4 \in 1 .. SigCells /\ 4 + (i - 4) = i /\ 3 + (i - 4) = i - 1
      BY <1>3, <2>2 DEF InfoCells
    <3>2. s[4 + (i - 4)] = b.signature[i - 4] /\ b.signature[i - 4] = fw_buffer[3 + (i - 4)]
      BY <1>12, <1>14, <3>1
    <3> QED
      BY <3>1, <3>2
  <2>3. CASE i > InfoCells
    <3> DEFINE j == i - InfoCells
    <3>1. j \in 1 .. Len(b.body) /\ InfoCells + j = i /\ InfoCells + j - 1 = i - 1
      <4>1. i \in 1 .. InfoCells + Len(b.body)
        BY <1>14
      <4> QED
        BY <1>3, <1>5, <2>3, <4>1
    <3>2. s[InfoCells + j] = b.body[j] /\ b.body[j] = fw_buffer[InfoCells + j - 1]
      BY <1>13, <1>14, <3>1
    <3> QED
      BY <3>1, <3>2
  <2>4. i \in Int /\ i >= 1 /\ InfoCells \in Nat
    <3>1. i \in 1 .. InfoCells + Len(b.body)
      BY <1>14
    <3> QED
      BY <1>5, <3>1
  <2> QED
    BY <2>1, <2>2, <2>3, <2>4
<1>16. Len(s) \in Nat /\ Len(s) <= bytes_written
  BY <1>3, <1>5, <1>7, <1>14
<1> QED
  BY <1>9, <1>15, <1>16 DEF s

(* What a board accepts is the file of the host.                           *)
LEMMA AcceptedWhole ==
  ASSUME NoZeroEnd, FilesDistinct, IInv, LinkInv, MadeOfPackets,
         CheckSignature, bl' = "UpdateFW"
  PROVE  Whole
<1>1. PICK b \in Builds, v \in [1 .. 2 -> Cell] :
        /\ Len(Image(b, v)) \in Nat
        /\ Len(Image(b, v)) <= bytes_written
        /\ \A i \in 1 .. Len(Image(b, v)) : Image(b, v)[i] = fw_buffer[i - 1]
  BY VerifiedReceived
<1> DEFINE s == Image(b, v)
<1>2. bytes_written \in Nat
  BY DEF IInv, TypeOK
<1>3. bl # "Overrun" /\ fw_data \in Files
  BY DEF CheckSignature, LinkInv, HostInv
<1>4. ASSUME NEW i \in 1 .. Len(s)
      PROVE  \E p \in Taken(fw_data), at \in 0 .. i - 1 :
               /\ i <= at + p.length
               /\ \A j \in 1 .. p.length : at + j <= Len(s) => s[at + j] = p.data[j]
  <2>1. i \in 1 .. bytes_written
    BY <1>1, <1>2
  <2>2. PICK p \in Taken(fw_data), at \in 0 .. i - 1 : i <= at + p.length /\ Lies(p, at)
    BY <1>3, <2>1 DEF MadeOfPackets
  <2>3. p.length \in Nat
    BY <1>3, PacketTypes, BootAssumption DEF Taken
  <2>4. ASSUME NEW j \in 1 .. p.length, at + j <= Len(s)
        PROVE  s[at + j] = p.data[j]
    <3>1. at + j \in 1 .. Len(s) /\ (at + j) - 1 = at + j - 1
      BY <1>1, <2>2, <2>3, <2>4
    <3>2. s[at + j] = fw_buffer[(at + j) - 1]
      BY <1>1, <3>1
    <3>3. fw_buffer[at + j - 1] = p.data[j]
      BY <2>2, <2>4 DEF Lies
    <3> QED
      BY <3>1, <3>2, <3>3
  <2> QED
    BY <2>2, <2>4
<1>5. Covered(s, fw_data)
  BY <1>4 DEF Covered
<1>6. s = fw_data
  BY <1>3, <1>5 DEF FilesDistinct
<1> QED
  BY <1>1, <1>2, <1>6 DEF Whole
-----------------------------------------------------------------------------
(* What is received.                                                       *)

(* The host's file stays, and the buffer takes a packet of it, or is       *)
(* emptied by a reset, or stays.                                           *)
LEMMA BufferSteps ==
  ASSUME LinkInv, [SessionNext]_sessionVars
  PROVE  /\ fw_data' = fw_data
         /\ \/ \E pkt \in Taken(fw_data) : ReceiveFW(pkt)
            \/ Reset
            \/ /\ UNCHANGED <<bytes_written, fw_buffer>>
               /\ bl = "Overrun" => bl' = "Overrun"
<1>1. fw_data' = fw_data
  <2>1. CASE UNCHANGED hostVars
    BY <2>1 DEF hostVars
  <2>2. CASE Launch \/ Run \/ Wake
    BY <2>2 DEF Launch, Run, Wake, WriteSync, PollQueue, Answered, Unanswered
  <2> QED
    BY <2>1, <2>2 DEF SessionNext, HostStarts, HostRuns, HostSleeps, BootStep,
       CommsUpdate, BootSync, BootReads, BootTimesOut, BootComputes, Unheard,
       BootResets, NobodyThere, sessionVars
<1>2. CASE BootReads
  <2>1. PICK pkt : pkt = Head(inbox)
    OBVIOUS
  <2>2. pkt \in Taken(fw_data)
    BY <1>2, <2>1, ReadsPacket DEF BootReads
  <2>3. WaitingForUpdateReq(pkt) \/ FWLengthRes(pkt) \/ ReceiveFW(pkt)
    BY <1>2, <2>1 DEF BootReads
  <2>4. WaitingForUpdateReq(pkt) \/ FWLengthRes(pkt) =>
          UNCHANGED <<bytes_written, fw_buffer>> /\ bl # "Overrun"
    BY DEF WaitingForUpdateReq, FWLengthRes, loopVars
  <2> QED
    BY <1>1, <2>2, <2>3, <2>4
<1>3. CASE UNCHANGED vars
  BY <1>1, <1>3 DEF vars, loopVars
<1>4. CASE Tick \/ SyncObserved \/ CheckForTimeout
  BY <1>1, <1>4 DEF Tick, SyncObserved, CheckForTimeout, loopVars, Waiting
<1>5. CASE BootComputes
  BY <1>1, <1>5 DEF BootComputes, FWLengthReq, CheckSignature, EraseFirmware,
     FinishErase, WriteFirmware, FinishWrite, LeaveLoop, VerifyApplication,
     JumpToFirmware, loopVars
<1>6. CASE Reset
  BY <1>1, <1>6
<1> QED
  BY <1>2, <1>3, <1>4, <1>5, <1>6
     DEF SessionNext, HostStarts, HostRuns, HostSleeps, TimePasses, BootStep,
     CommsUpdate, BootSync, BootTimesOut, Unheard, BootResets, NobodyThere, sessionVars

(* A packet that claims no more cells than it has is copied as it is,      *)
(* whatever lies behind it.                                                *)
Joined(pkt) ==
  [i \in 0 .. MaxFw - 1 |->
     IF i \in bytes_written .. bytes_written + pkt.length - 1
     THEN pkt.data[i - bytes_written + 1] ELSE fw_buffer[i]]

LEMMA PayloadJoins ==
  ASSUME NEW pkt, ReceiveFW(pkt), pkt.length \in 0 .. Payload, bytes_written \in Nat
  PROVE  fw_buffer' = Joined(pkt)
<1>1. PICK behind \in Behind : fw_buffer' = CopyPayload(pkt, behind)
  BY DEF ReceiveFW
<1>2. ASSUME NEW i \in bytes_written .. bytes_written + pkt.length - 1
      PROVE  PayloadCell(pkt, behind, i - bytes_written + 1) = pkt.data[i - bytes_written + 1]
  <2>1. i - bytes_written + 1 <= Payload
    BY BootAssumption
  <2> QED
    BY <2>1 DEF PayloadCell
<1> QED
  BY <1>1, <1>2 DEF CopyPayload, Joined

(* A packet is put behind those that are there.                            *)
LEMMA PacketJoins ==
  ASSUME LinkInv, IInv, MadeOfPackets, fw_data' = fw_data,
         NEW pkt \in Taken(fw_data), ReceiveFW(pkt)
  PROVE  MadeOfPackets'
<1> SUFFICES ASSUME bl' # "Overrun" PROVE MadeOfPackets'
  BY DEF MadeOfPackets
<1>1. /\ bytes_written \in Nat /\ MaxFw \in Nat /\ bl # "Overrun"
      /\ fw_data \in Files
  BY BootAssumption DEF IInv, TypeOK, ReceiveFW, LinkInv, HostInv
<1>2. \A p \in Taken(fw_data) : p.length \in Nat /\ p.length <= Payload
  BY <1>1, PacketTypes, BootAssumption DEF Taken
<1>3. /\ bytes_written' = bytes_written + pkt.length /\ fw_buffer' = Joined(pkt)
      /\ bytes_written' <= MaxFw /\ bytes_written' \in Nat /\ pkt.length \in Nat
  <2>1. bytes_written' = bytes_written + pkt.length /\ fw_buffer' = Joined(pkt)
    <3>1. pkt.length \in 0 .. Payload
      BY <1>2
    <3> QED
      BY <1>1, <3>1, PayloadJoins DEF ReceiveFW
  <2>2. ~(bytes_written' > MaxFw)
    <3>1. fw_length \in InfoCells .. MaxFw
      BY DEF IInv, LengthAgreed, ReceiveFW
    <3>2. bytes_written' \in fw_length .. MaxFw \/ bytes_written' < fw_length
      BY DEF ReceiveFW
    <3>3. bytes_written' \in Int /\ fw_length \in Int /\ MaxFw \in Int
      BY <1>1, <1>2, <2>1, <3>1, Layout
    <3> QED
      BY <3>1, <3>2, <3>3
  <2> QED
    BY <1>1, <1>2, <2>1, <2>2
<1>4. \A k \in 0 .. MaxFw - 1 : k < bytes_written => fw_buffer'[k] = fw_buffer[k]
  BY <1>1, <1>3 DEF Joined
<1>5. ASSUME NEW j \in 1 .. pkt.length
      PROVE  fw_buffer'[bytes_written + j - 1] = pkt.data[j]
  <2> DEFINE k == bytes_written + j - 1
  <2>1. /\ k \in 0 .. MaxFw - 1 /\ k \in bytes_written .. bytes_written + pkt.length - 1
        /\ k - bytes_written + 1 = j
    BY <1>1, <1>3
  <2> HIDE DEF k
  <2>2. fw_buffer'[k] = pkt.data[k - bytes_written + 1]
    BY <1>3, <2>1 DEF Joined
  <2> QED
    BY <2>1, <2>2 DEF k
<1>6. ASSUME NEW i \in 1 .. bytes_written'
      PROVE  \E p \in Taken(fw_data), at \in 0 .. i - 1 : i <= at + p.length /\ Lies(p, at)'
  <2>1. CASE i <= bytes_written
    <3>1. PICK p \in Taken(fw_data), at \in 0 .. i - 1 : i <= at + p.length /\ Lies(p, at)
      BY <1>1, <1>3, <2>1 DEF MadeOfPackets
    <3>2. at \in Nat /\ p.length \in Nat /\ at + p.length <= bytes_written
      BY <1>2, <1>3, <3>1 DEF Lies
    <3>3. ASSUME NEW j \in 1 .. p.length
          PROVE  fw_buffer'[at + j - 1] = p.data[j]
      <4>1. at + j - 1 \in 0 .. MaxFw - 1 /\ at + j - 1 < bytes_written
        BY <1>1, <1>3, <3>2
      <4>2. fw_buffer[at + j - 1] = p.data[j]
        BY <3>1 DEF Lies
      <4> QED
        BY <1>4, <4>1, <4>2
    <3>4. at + p.length <= bytes_written'
      BY <1>1, <1>3, <3>2
    <3> QED
      BY <3>1, <3>3, <3>4 DEF Lies
  <2>2. CASE i > bytes_written
    <3>1. bytes_written \in 0 .. i - 1 /\ i <= bytes_written + pkt.length
      BY <1>1, <1>3, <2>2
    <3>2. PICK at \in 0 .. i - 1 : at = bytes_written
      BY <3>1
    <3>3. at + pkt.length <= bytes_written'
      BY <1>1, <1>3, <3>2
    <3>4. \A j \in 1 .. pkt.length : fw_buffer'[at + j - 1] = pkt.data[j]
      BY <1>5, <3>2
    <3>5. Lies(pkt, at)'
      BY <3>3, <3>4 DEF Lies
    <3> QED
      BY <3>1, <3>2, <3>5
  <2> QED
    BY <1>1, <1>3, <2>1, <2>2
<1> QED
  BY <1>3, <1>6 DEF MadeOfPackets

(* The buffer is made of packets of the host's file, one after the other,  *)
(* however often one was sent, and whatever has been hit.                  *)
LEMMA MadeOfPacketsStep ==
  ASSUME LinkInv, IInv, MadeOfPackets, [SessionNext]_sessionVars
  PROVE  MadeOfPackets'
<1>1. fw_data' = fw_data
  BY BufferSteps
<1>2. CASE \E pkt \in Taken(fw_data) : ReceiveFW(pkt)
  BY <1>1, <1>2, PacketJoins
<1>3. CASE Reset
  <2>1. bytes_written' = 0 /\ MaxFw \in Nat
    BY <1>3, BootAssumption DEF Reset
  <2> QED
    BY <2>1 DEF MadeOfPackets
<1>4. CASE UNCHANGED <<bytes_written, fw_buffer>> /\ (bl = "Overrun" => bl' = "Overrun")
  BY <1>1, <1>4 DEF MadeOfPackets, Lies
<1> QED
  BY <1>2, <1>3, <1>4, BufferSteps
-----------------------------------------------------------------------------
(* Who announces a success, and when.                                      *)

(* The elements of a queue that loses its head.                            *)
LEMMA TailElements ==
  ASSUME NEW S, NEW q \in Seq(S), q # <<>>
  PROVE  /\ Len(Tail(q)) = Len(q) - 1 /\ Len(q) \in Nat \ {0} /\ Head(q) = q[1]
         /\ \A i \in 1 .. Len(Tail(q)) : i + 1 \in 1 .. Len(q) /\ Tail(q)[i] = q[i + 1]
  BY HeadTailProperties, LenProperties, EmptySeq

(* No host takes for a success what is none.                               *)
LEMMA HostHearsNoSuccess ==
  ASSUME LinkInv, Unannounced, Launch \/ Run \/ Wake, UNCHANGED last_written
  PROVE  Unannounced'
<1>1. CASE Launch \/ WriteSync \/ Wake
  BY <1>1 DEF Launch, WriteSync, Wake, Unannounced, lineVars
<1>2. CASE PollQueue
  <2> DEFINE frame == Received(hskew, Head(to_host))
  <2>1. to_host \in Seq(Replied) /\ to_host # <<>> /\ packets_queue \in Seq(Answers)
    <3>1. to_host \in Seq(Replied) /\ to_poll > 0 /\ to_poll \in 0 .. Len(to_host)
      BY <1>2 DEF LinkInv, LineInv, PollQueue
    <3>2. to_host # <<>>
      BY <3>1, LenProperties
    <3> QED
      BY <3>1, <3>2 DEF LinkInv, HostInv
  <2>2. \A i \in 1 .. Len(to_host') : ~Announces(to_host'[i].frame)
    BY <1>2, <2>1, TailElements DEF PollQueue, Unannounced
  <2>3. ~Announces(frame)
    <3>1. Head(to_host) = to_host[1] /\ 1 \in 1 .. Len(to_host)
      BY <2>1, TailElements
    <3> QED
      BY <3>1 DEF Received, Unannounced, Announces
  <2>4. \A i \in 1 .. Len(packets_queue') : packets_queue'[i] # "UPDATE_SUCCESS"
    <3>1. CASE packets_queue' = packets_queue
      BY <3>1 DEF Unannounced
    <3>2. CASE packets_queue' = Append(packets_queue, frame) /\ frame # Spoilt
      <4>1. frame # "UPDATE_SUCCESS"
        BY <2>3, <3>2 DEF Announces
      <4> HIDE DEF frame
      <4>2. /\ Len(packets_queue') = Len(packets_queue) + 1 /\ Len(packets_queue) \in Nat
            /\ packets_queue'[Len(packets_queue) + 1] = frame
            /\ \A i \in 1 .. Len(packets_queue) : packets_queue'[i] = packets_queue[i]
        BY <2>1, <3>2, AppendProperties, LenProperties
      <4> QED
        BY <4>1, <4>2 DEF Unannounced
    <3> QED
      BY <1>2, <3>1, <3>2 DEF PollQueue, HandleFrame
  <2>5. step' = step
    BY <1>2 DEF PollQueue
  <2> QED
    BY <2>2, <2>4, <2>5 DEF Unannounced
<1>3. CASE Answered \/ Unanswered
  <2>1. to_host' = to_host
    BY <1>3 DEF Answered, Unanswered, lineVars
  <2>2. packets_queue' \in {packets_queue, Tail(packets_queue)}
        /\ (packets_queue = <<>> => packets_queue' = packets_queue)
    BY <1>3 DEF Answered, Unanswered
  <2>3. \A i \in 1 .. Len(packets_queue') : packets_queue'[i] # "UPDATE_SUCCESS"
    <3>1. packets_queue \in Seq(Answers)
      BY DEF LinkInv, HostInv
    <3>2. CASE packets_queue = <<>>
      BY <2>2, <3>2 DEF Unannounced
    <3>3. CASE packets_queue # <<>>
      BY <2>2, <3>1, <3>3, TailElements DEF Unannounced
    <3> QED
      BY <3>2, <3>3
  <2>4. step' # "Success"
    <3>1. CASE Unanswered
      BY <3>1 DEF Unanswered, Unannounced
    <3>2. CASE Answered
      <4>1. packets_queue \in Seq(Answers) /\ packets_queue # <<>>
            /\ Head(packets_queue) = Awaited
        BY <3>2 DEF LinkInv, HostInv, Answered
      <4>2. Head(packets_queue) = packets_queue[1] /\ 1 \in 1 .. Len(packets_queue)
        BY <4>1, TailElements
      <4>3. Awaited # "UPDATE_SUCCESS"
        BY <4>1, <4>2 DEF Unannounced
      <4>4. step # "Confirm"
        BY <4>3 DEF Awaited
      <4> QED
        BY <3>2, <4>4 DEF Answered, Proceed, SendChunk
    <3> QED
      BY <1>3, <3>1, <3>2
  <2> QED
    BY <2>1, <2>3, <2>4 DEF Unannounced
<1> QED
  BY <1>1, <1>2, <1>3 DEF Run

(* A board that writes anything else announces nothing.                    *)
LEMMA BoardSpeaks ==
  ASSUME LinkInv, Unannounced, UNCHANGED hostVars,
         NEW frame \in Answers \cup {Spoilt}, frame # "UPDATE_SUCCESS" \/ frame = Spoilt,
         SendToHost(frame), last_written' # "UPDATE_SUCCESS"
  PROVE  Unannounced'
<1>1. /\ Len(to_host') = Len(to_host) + 1 /\ Len(to_host) \in Nat
      /\ \A i \in 1 .. Len(to_host) : to_host'[i] = to_host[i]
      /\ to_host'[Len(to_host) + 1].frame \in {frame, Spoilt}
  BY LineToHost, LenProperties DEF LinkInv, LineInv
<1>2. ~Announces(to_host'[Len(to_host) + 1].frame)
  BY <1>1 DEF Announces
<1>3. \A i \in 1 .. Len(to_host') : ~Announces(to_host'[i].frame)
  BY <1>1, <1>2 DEF Unannounced
<1> QED
  BY <1>3 DEF Unannounced, hostVars

(* Between ACKs, RETs and repetitions the packet layer announces nothing.  *)
LEMMA LayerAnnouncesNothing ==
  ASSUME LinkInv, Unannounced, CommsUpdate
  PROVE  Unannounced'
<1>1. UNCHANGED hostVars
  BY DEF CommsUpdate
<1>2. CASE Silent
  BY <1>1, <1>2 DEF Silent, Unannounced, hostVars
<1>3. CASE BootWrites("RET") \/ BootWrites("ACK")
  <2>1. "RET" \in Answers /\ "ACK" \in Answers
    BY DEF Answers
  <2> QED
    BY <1>1, <1>3, <2>1, BoardSpeaks DEF BootWrites
<1>4. CASE /\ SendToHost(IF last_written = "None" THEN Spoilt ELSE last_written)
           /\ UNCHANGED last_written
  <2> DEFINE frame == IF last_written = "None" THEN Spoilt ELSE last_written
  <2>1. /\ frame \in Answers \cup {Spoilt}
        /\ frame # "UPDATE_SUCCESS" \/ frame = Spoilt
        /\ last_written' # "UPDATE_SUCCESS"
    BY <1>4 DEF LinkInv, LayerInv, Unannounced
  <2> QED
    BY <1>1, <1>4, <2>1, BoardSpeaks
<1> QED
  BY <1>2, <1>3, <1>4 DEF CommsUpdate, Dispatch

(* What the loop writes is its reply.                                      *)
LEMMA LoopReplies ==
  ASSUME BootSync \/ BootReads \/ BootTimesOut \/ BootComputes
  PROVE  /\ UNCHANGED hostVars
         /\ (Silent /\ UNCHANGED reply) \/ (BootWrites(reply') /\ reply' \in Answers)
<1>1. CASE BootSync
  BY <1>1, LoopWrites DEF BootSync, vars
<1>2. CASE BootReads
  <2>1. \A pkt : ReceiveFW(pkt) /\ bl' # "ReceiveFW" => UNCHANGED reply
    BY DEF ReceiveFW
  <2> QED
    BY <1>2, <2>1, LoopWrites DEF BootReads
<1>3. CASE BootTimesOut
  BY <1>3, LoopWrites DEF BootTimesOut
<1>4. CASE BootComputes
  <2>1. \/ EraseFirmware \/ FinishErase \/ WriteFirmware \/ FinishWrite
        \/ LeaveLoop \/ VerifyApplication \/ JumpToFirmware
        => UNCHANGED reply
    BY DEF EraseFirmware, FinishErase, WriteFirmware, FinishWrite, LeaveLoop,
       VerifyApplication, JumpToFirmware
  <2> QED
    BY <1>4, <2>1, LoopWrites DEF BootComputes
<1> QED
  BY <1>1, <1>2, <1>3, <1>4

(* Nothing is announced by a step after which the reply is another one.    *)
LEMMA NothingAnnounced ==
  ASSUME LinkInv, Unannounced, [SessionNext]_sessionVars, ~Reset,
         reply' # "UPDATE_SUCCESS"
  PROVE  Unannounced'
<1>1. CASE HostStarts \/ HostRuns \/ HostSleeps
  <2>1. (Launch \/ Run \/ Wake) /\ UNCHANGED last_written
    BY <1>1 DEF HostStarts, HostRuns, HostSleeps, TimePasses, layerVars
  <2> QED
    BY <2>1, HostHearsNoSuccess
<1>2. CASE CommsUpdate
  BY <1>2, LayerAnnouncesNothing
<1>3. CASE BootSync \/ BootReads \/ BootTimesOut \/ BootComputes
  <2>1. CASE Silent /\ UNCHANGED hostVars
    BY <2>1 DEF Silent, hostVars, Unannounced
  <2>2. CASE BootWrites(reply') /\ reply' \in Answers /\ UNCHANGED hostVars
    BY <2>2, BoardSpeaks DEF BootWrites
  <2> QED
    BY <1>3, <2>1, <2>2, LoopReplies
<1>4. CASE UNCHANGED <<hostVars, to_host, last_written>>
  BY <1>4 DEF hostVars, Unannounced
<1>5. Unheard \/ NobodyThere \/ UNCHANGED sessionVars =>
        UNCHANGED <<hostVars, to_host, last_written>>
  BY DEF Unheard, NobodyThere, TimePasses, sessionVars, layerVars, lineVars
<1> QED
  BY <1>1, <1>2, <1>3, <1>4, <1>5 DEF SessionNext, BootStep, BootResets
-----------------------------------------------------------------------------
(* What the host calls a success is one.                                   *)

(* A board that has accepted an image goes on with it until it is reset.   *)
LEMMA AcceptedKept ==
  ASSUME [Next]_vars, ~Reset, bl \in Accepting
  PROVE  /\ bl' \in Accepting
         /\ bl' \in Flashing => bl \in Flashing
         /\ UNCHANGED <<reply, fw_buffer, bytes_written>>
<1>1. CASE Tick \/ UNCHANGED vars
  BY <1>1 DEF Tick, vars, loopVars
<1>2. CASE \/ EraseFirmware \/ FinishErase \/ WriteFirmware \/ FinishWrite
           \/ LeaveLoop \/ JumpToFirmware
  BY <1>2 DEF EraseFirmware, FinishErase, WriteFirmware, FinishWrite, LeaveLoop,
     JumpToFirmware, loopVars, Accepting, Flashing
<1>3. ~(CheckForTimeout \/ SyncObserved \/ FWLengthReq \/ CheckSignature \/ VerifyApplication)
  BY DEF CheckForTimeout, SyncObserved, FWLengthReq, CheckSignature,
     VerifyApplication, Accepting, Flashing, Waiting
<1>4. ~Receive
  BY DEF Receive, WaitingForUpdateReq, FWLengthRes, ReceiveFW, Accepting, Flashing
<1> QED
  BY <1>1, <1>2, <1>3, <1>4 DEF Next, Compute

(* Nothing else than CheckSignature accepts one.                           *)
LEMMA OnlyCheckAccepts ==
  ASSUME [Next]_vars, bl \notin Accepting, reply # "UPDATE_SUCCESS",
         reply' = "UPDATE_SUCCESS" \/ bl' \in Flashing
  PROVE  /\ CheckSignature /\ bl' = "UpdateFW" /\ reply' = "UPDATE_SUCCESS"
         /\ UNCHANGED <<fw_buffer, bytes_written>>
<1>1. bl \notin Flashing
  BY DEF Accepting
<1>2. CASE CheckSignature
  BY <1>2 DEF CheckSignature, Flashing
<1>3. ~(Tick \/ UNCHANGED vars)
  BY <1>1 DEF Tick, vars
<1>4. ~(Reset \/ CheckForTimeout \/ SyncObserved \/ FWLengthReq)
  BY DEF Reset, CheckForTimeout, SyncObserved, FWLengthReq, Flashing
<1>5. ~Receive
  BY DEF Receive, WaitingForUpdateReq, FWLengthRes, ReceiveFW, Flashing
<1>6. ~(EraseFirmware \/ FinishErase \/ WriteFirmware \/ FinishWrite)
  BY <1>1 DEF EraseFirmware, FinishErase, WriteFirmware, FinishWrite, Flashing
<1>7. ~(LeaveLoop \/ VerifyApplication \/ JumpToFirmware)
  BY DEF LeaveLoop, VerifyApplication, JumpToFirmware, Flashing
<1> QED
  BY <1>2, <1>3, <1>4, <1>5, <1>6, <1>7 DEF Next, Compute

(* A step of either end keeps an announced success a true one.             *)
LEMMA SuccessStep ==
  ASSUME NoZeroEnd, FilesDistinct, SInv, [SessionNext]_sessionVars
  PROVE  SuccessInv'
<1>1. LinkInv /\ IInv /\ MadeOfPackets /\ SuccessInv /\ [Next]_vars /\ fw_data' = fw_data
  BY SessionStepIsStep, BufferSteps DEF SInv
<1>2. CASE Reset
  <2>1. bl' = "Sync" /\ reply' = "None" /\ resets' = resets + 1 /\ resets \in Nat
    BY <1>1, <1>2, BootAssumption DEF Reset, IInv, TypeOK
  <2>2. resets' # 0
    BY <2>1
  <2> QED
    BY <2>1, <2>2 DEF SuccessInv, Flashing
<1>3. CASE ~Reset /\ bl \in Accepting /\ reply = "UPDATE_SUCCESS"
  <2>1. /\ bl' \in Accepting /\ reply' = "UPDATE_SUCCESS"
        /\ UNCHANGED <<fw_buffer, bytes_written>>
    BY <1>1, <1>3, AcceptedKept
  <2>2. Whole'
    BY <1>1, <1>3, <2>1 DEF SuccessInv, Whole
  <2> QED
    BY <2>1, <2>2 DEF SuccessInv
<1>4. CASE ~Reset /\ bl \in Accepting /\ reply # "UPDATE_SUCCESS"
  <2>1. bl \notin Flashing /\ bl' \notin Flashing /\ reply' # "UPDATE_SUCCESS"
    BY <1>1, <1>4, AcceptedKept DEF SuccessInv
  <2>2. resets' = 0 => Unannounced'
    <3>1. resets' = resets
      BY <1>1, <1>4 DEF vars, loopVars, Next, Receive, Compute, Tick, CheckForTimeout,
         SyncObserved, WaitingForUpdateReq, FWLengthReq, FWLengthRes, ReceiveFW,
         CheckSignature, EraseFirmware, FinishErase, WriteFirmware, FinishWrite,
         LeaveLoop, VerifyApplication, JumpToFirmware
    <3> QED
      BY <1>1, <1>4, <2>1, <3>1, NothingAnnounced DEF SuccessInv, SInv
  <2> QED
    BY <2>1, <2>2 DEF SuccessInv
<1>5. CASE ~Reset /\ bl \notin Accepting
  <2>1. reply # "UPDATE_SUCCESS"
    BY <1>1, <1>5 DEF SuccessInv
  <2>2. CASE reply' = "UPDATE_SUCCESS" \/ bl' \in Flashing
    <3>1. /\ CheckSignature /\ bl' = "UpdateFW" /\ reply' = "UPDATE_SUCCESS"
          /\ UNCHANGED <<fw_buffer, bytes_written>>
      BY <1>1, <1>5, <2>1, <2>2, OnlyCheckAccepts
    <3>2. Whole
      BY <1>1, <3>1, AcceptedWhole
    <3>3. Whole'
      BY <1>1, <3>1, <3>2 DEF Whole
    <3> QED
      BY <3>1, <3>3 DEF SuccessInv, Accepting, Flashing
  <2>3. CASE reply' # "UPDATE_SUCCESS" /\ bl' \notin Flashing
    <3>1. resets' = resets
      BY <1>1, <1>5 DEF vars, loopVars, Next, Receive, Compute, Tick, CheckForTimeout,
         SyncObserved, WaitingForUpdateReq, FWLengthReq, FWLengthRes, ReceiveFW,
         CheckSignature, EraseFirmware, FinishErase, WriteFirmware, FinishWrite,
         LeaveLoop, VerifyApplication, JumpToFirmware
    <3> QED
      BY <1>1, <1>5, <2>1, <2>3, <3>1, NothingAnnounced DEF SuccessInv
  <2> QED
    BY <2>2, <2>3
<1> QED
  BY <1>2, <1>3, <1>4, <1>5

(* The host has heard of no success before it has sent anything.           *)
LEMMA SuccessInit == SessionInit => MadeOfPackets /\ SuccessInv
<1> SUFFICES ASSUME SessionInit PROVE MadeOfPackets /\ SuccessInv
  OBVIOUS
<1>1. bytes_written = 0 /\ MaxFw \in Nat /\ bl = "Sync" /\ reply = "None"
  BY BootAssumption DEF SessionInit, Init
<1>2. Unannounced
  <2>1. /\ packets_queue = <<>> /\ to_host = <<>> /\ step = "Sync"
        /\ last_written = "None"
    BY DEF SessionInit, HostInit, LayerInit
  <2> QED
    BY <2>1, EmptySeq DEF Unannounced
<1> QED
  BY <1>1, <1>2 DEF MadeOfPackets, SuccessInv, Flashing

(* The inductive invariant of the session.                                 *)
LEMMA SessionInvariance ==
  ASSUME NoZeroEnd, FilesDistinct
  PROVE  SessionSpec => []SInv
<1>1. SessionInit /\ LinkInv /\ IInv => SInv
  BY SuccessInit DEF SInv
<1>2. SInv /\ LinkInv' /\ IInv' /\ [SessionNext]_sessionVars => SInv'
  BY MadeOfPacketsStep, SuccessStep DEF SInv
<1>3. SessionSpec => []IInv
  BY SessionRunsBootloader, Invariance, PTL
<1> QED
  BY <1>1, <1>2, <1>3, LinkInvariance, PTL DEF SessionSpec

(* "Update Success" on the host's screen, on a board that has not been     *)
(* reset, means that the board has received the host's file, all of it,    *)
(* and has accepted it: whatever bursts were hit on the line, in whatever  *)
(* number, and whatever was resent, repeated or answered late because of   *)
(* it.                                                                     *)
THEOREM SuccessesAreTrue ==
  ASSUME NoZeroEnd, FilesDistinct
  PROVE  SessionSpec => []SuccessIsTrue
<1>1. SInv => SuccessIsTrue
  BY DEF SInv, SuccessInv, SuccessIsTrue, Unannounced, Whole
<1> QED
  BY <1>1, SessionInvariance, PTL

(* What a board is about to flash is the host's file, hence a build.       *)
LEMMA FlashedIsGenuine ==
  ASSUME FilesGenuine, SInv
  PROVE  UpdateIsGenuine
<1> SUFFICES ASSUME bl \in Flashing
             PROVE  \E b \in Builds :
                      update_info = Header(b) /\ BodyAt(fw_buffer, InfoCells, b)
  BY DEF UpdateIsGenuine
<1>1. Whole /\ fw_data \in Files /\ update_info = ReadInfo(fw_buffer, 0)
  BY DEF SInv, SuccessInv, LinkInv, HostInv, IInv, UpdateChecked
<1>2. PICK b \in Builds : fw_data = File(b)
  BY <1>1 DEF FilesGenuine
<1>3. b.version \in 0 .. ErasedWord
  BY ImageAssumption
<1> DEFINE v == WordCells(b.version)
<1>4. v \in [1 .. 2 -> Cell]
  <2>1. v \in Seq(Cell) /\ Len(v) = 2
    BY <1>3, WordCellsType
  <2>2. \A t \in Seq(Cell) : t \in [1 .. Len(t) -> Cell]
    BY LenProperties
  <2> QED
    BY <2>1, <2>2
<1>5. fw_data = Image(b, v)
  BY <1>2 DEF File, Image
<1>6. /\ Len(fw_data) = InfoCells + Len(b.body) /\ Len(b.body) \in Nat
      /\ \A i \in 1 .. Len(b.body) : fw_data[InfoCells + i] = b.body[i]
  BY <1>4, <1>5, ImageCells
<1>7. InfoCells \in Nat /\ InfoCells >= 5 /\ SigCells \in Nat /\ InfoCells = 4 + SigCells
  BY Layout, ImageAssumption DEF InfoCells
<1>8. \A i \in 1 .. InfoCells + Len(b.body) : fw_buffer[i - 1] = fw_data[i]
  BY <1>1, <1>6 DEF Whole
<1>9. BodyAt(fw_buffer, InfoCells, b)
  <2>1. ASSUME NEW i \in 1 .. Len(b.body)
        PROVE  fw_buffer[InfoCells + i - 1] = b.body[i]
    <3>1. InfoCells + i \in 1 .. InfoCells + Len(b.body)
          /\ (InfoCells + i) - 1 = InfoCells + i - 1
      BY <1>6, <1>7
    <3>2. fw_buffer[(InfoCells + i) - 1] = fw_data[InfoCells + i]
      BY <1>8, <3>1
    <3> QED
      BY <1>6, <3>1, <3>2
  <2> QED
    BY <2>1 DEF BodyAt
<1>10. update_info = Header(b)
  <2> DEFINE n == InfoCells + Len(b.body)
  <2>0. /\ n \in Nat /\ n >= 4 + SigCells /\ SigCells \in Nat
        /\ \A i \in 1 .. n : fw_buffer[i - 1] = fw_data[i]
    <3>1. \A k \in Nat, len \in Nat : k + len \in Nat /\ k + len >= k
      OBVIOUS
    <3>2. n \in Nat /\ n >= InfoCells
      BY <1>6, <1>7, <3>1
    <3>3. \A i \in 1 .. n : fw_buffer[i - 1] = fw_data[i]
      BY <1>8
    <3> QED
      BY <1>7, <3>2, <3>3
  <2> HIDE DEF n
  <2>1. 1 \in 1 .. n /\ 2 \in 1 .. n /\ 3 \in 1 .. n /\ 4 \in 1 .. n
    BY <2>0
  <2>2. /\ fw_buffer[1 - 1] = fw_data[1] /\ fw_buffer[2 - 1] = fw_data[2]
        /\ fw_buffer[3 - 1] = fw_data[3] /\ fw_buffer[4 - 1] = fw_data[4]
    BY <2>0, <2>1
  <2>3. /\ update_info.version = Word(fw_data[1], fw_data[2])
        /\ update_info.size = Word(fw_data[3], fw_data[4])
    <3>1. /\ update_info.version = Word(fw_buffer[0], fw_buffer[0 + 1])
          /\ update_info.size = Word(fw_buffer[0 + 2], fw_buffer[0 + 3])
      BY <1>1 DEF ReadInfo
    <3> QED
      BY <2>2, <3>1
  <2>4. update_info.version = b.version /\ update_info.size = Len(b.body)
    BY <1>2, <2>3, FileHeader
  <2>5. ASSUME NEW i \in 1 .. SigCells
        PROVE  fw_buffer[0 + 3 + i] = b.signature[i]
    <3>1. 4 + i \in 1 .. n /\ (4 + i) - 1 = 0 + 3 + i
      BY <2>0
    <3>2. fw_buffer[(4 + i) - 1] = fw_data[4 + i]
      BY <2>0, <3>1
    <3>3. fw_data[4 + i] = b.signature[i]
      BY <1>2, FileHeader
    <3> QED
      BY <3>1, <3>2, <3>3
  <2>6. update_info.signature = b.signature
    <3>1. b.signature \in [1 .. SigCells -> Cell]
      BY ImageAssumption
    <3>2. update_info.signature = [i \in 1 .. SigCells |-> fw_buffer[0 + 3 + i]]
      BY <1>1 DEF ReadInfo
    <3> QED
      BY <2>5, <3>1, <3>2
  <2>7. update_info = [version |-> update_info.version, size |-> update_info.size,
                       signature |-> update_info.signature]
    BY <1>1 DEF ReadInfo
  <2> QED
    BY <2>4, <2>6, <2>7 DEF Header
<1> QED
  BY <1>9, <1>10

(* Whatever the line hits, what a board is about to install is the header  *)
(* and the whole body of one build of the signer, at the places where they *)
(* are read: no mixture of two files or of two transfers, and none that is *)
(* cut short, ever gets as far as the flash.                               *)
THEOREM UpdatesAreGenuine ==
  ASSUME NoZeroEnd, FilesDistinct, FilesGenuine
  PROVE  SessionSpec => []UpdateIsGenuine
<1>1. SessionSpec => []SInv
  BY SessionInvariance
<1>2. SInv => UpdateIsGenuine
  BY FlashedIsGenuine
<1> QED
  BY <1>1, <1>2, PTL

(* Host, line and board together keep the promise of SecureBoot, whatever  *)
(* files the host has.                                                     *)
THEOREM SessionKeepsPromise ==
  ASSUME Releases
  PROVE  SessionSpec => KeepsPromise
<1>1. Spec => KeepsPromise
  BY BootKeepsPromise
<1> QED
  BY <1>1, SessionRunsBootloader, PTL
-----------------------------------------------------------------------------
(* Lockstep: what holds between the two ends as long as the line has hit   *)
(* nothing.  What is told apart on the line: the sync sequence and a frame *)
(* that fails its check are no packets, and the bytes of control packets   *)
(* are different.                                                          *)
FramesDiffer ==
  /\ SyncSeq \notin Packets /\ Spoilt \notin Packets /\ Spoilt \notin Answers
  /\ RetByte \notin {AckByte, UpReqByte, Erased} /\ AckByte # Erased

(* The bootloader waits longer than the host sleeps.                       *)
Patient == Timeout > 1

Ack == Control(AckByte)
BootFrame(i) == to_boot[i].frame
HostFrame(i) == to_host[i].frame

(* States of a board that has read a request in this boot, and the answers *)
(* that a board gives before it reads one, and before the length.          *)
Served == Flashing \cup {"FWLengthReq", "FWLengthRes", "ReceiveFW", "CheckSignature",
                         "UpdateSuccess", "UpdateFailure"}
Stale == {"ACK", "SYN_OBSERVED", "NAK"}
Early == Stale \cup {"UP_RESP", "FW_LENGTH_REQ"}

(* All answers that the host has not seen yet are in S.                    *)
OnlyIn(S) ==
  /\ \A i \in 1 .. Len(packets_queue) : packets_queue[i] \in S
  /\ \A i \in 1 .. Len(to_host) : HostFrame(i) \in S

(* There is at most one READY_FOR_FW among them, and only ACKs behind it.  *)
ReadyLast ==
  /\ OnlyIn(Early \cup {"READY_FOR_FW"})
  /\ \A i \in 1 .. Len(packets_queue) :
       packets_queue[i] = "READY_FOR_FW" =>
         i = Len(packets_queue) /\ \A j \in 1 .. Len(to_host) : HostFrame(j) = "ACK"
  /\ \A i, j \in 1 .. Len(to_host) :
       i < j /\ HostFrame(i) = "READY_FOR_FW" => HostFrame(j) = "ACK"

(* A frame for the bootloader that is no ACK; there is none between the    *)
(* ends; there is none but p.                                              *)
Request(i) == BootFrame(i) \notin {SyncSeq, Ack}
NoRequest == inbox = <<>> /\ \A i \in 1 .. Len(to_boot) : ~Request(i)
UnderWay(p) ==
  /\ inbox # <<>> => inbox[1] = p
  /\ \A i \in 1 .. Len(to_boot) : Request(i) => BootFrame(i) = p

(* Every burst is as it was sent, and the host's frames come whole.        *)
Unhit ==
  /\ \A i \in 1 .. Len(to_boot) :
       \/ to_boot[i] = Burst(SyncBytes, SyncSeq)
       \/ \E p \in FilePackets(fw_data) : to_boot[i] = Burst(FrameBytes, p)
  /\ \A i \in 1 .. Len(to_host) : \E r \in Answers : to_host[i] = Burst(FrameBytes, r)
  /\ \A i \in 1 .. Len(packets_queue) : packets_queue[i] \notin {"ACK", "RET"}
  /\ hskew = 0 /\ ~halted

(* A file may end in a piece that reads as a RET.  Nothing else does, and  *)
(* it is the last the host sends.                                          *)
LastPiece ==
  \/ prev_packet = Control(RetByte)
  \/ \E i \in 1 .. Len(to_boot) : BootFrame(i) = Control(RetByte)
RetLast == LastPiece => step \in {"Confirm"} \cup Over

(* What a RET makes comms_update repeat.  It is no RET once a request has  *)
(* been read, or the two would ask each other for ever.                    *)
Written ==
  /\ last_written \in {"ACK", "RET", reply}
  /\ bl \in Looping \ {"Sync"} => last_written # "None"
  /\ last_written = "RET" /\ bl \in Looping \ {"Sync"} /\ bskew = 0 =>
       step \in {"Sync", "UpReq", "Failed"} /\ OnlyIn(Stale \cup {"RET"})

(* Where host and board can be at all.                                     *)
Places ==
  /\ hpc \in {"idle", "write"} => step = "Sync"
  /\ hpc = "idle" => prev_packet = Control(Erased)
  /\ step \in Over => hpc = "done"
  /\ step = "Confirm" => bytes_sent = Len(fw_data)
  /\ bl = "Sync" => bskew = 0 /\ inbox = <<>>
  /\ bl \in {"Sync", "WaitingForUpdateReq", "FWLengthReq", "FWLengthRes"} =>
       bytes_written = 0

(* The sync sequence has been received when the host looks for an answer.  *)
SyncOnce ==
  \A i \in 1 .. Len(to_boot) : BootFrame(i) = SyncSeq => step = "Sync" /\ hpc = "sleep"

(* A host that has not found the board has asked for nothing; and one that *)
(* has had no answer so far has nothing to repeat.                         *)
Syncing ==
  step = "Sync" =>
    /\ NoRequest /\ bl \notin Served
    /\ OnlyIn(Stale \cup {"RET"})
    /\ prev_packet \in {Ack, Control(Erased)}
Fresh ==
  step = "Sync" /\ prev_packet = Control(Erased) =>
    /\ \A i \in 1 .. Len(to_host) : HostFrame(i) \notin {"ACK", "RET"}
    /\ \A i \in 1 .. Len(to_boot) : i = 1 /\ BootFrame(i) = SyncSeq
    /\ bl \in Looping \ {"Sync"} => to_host # <<>>
    /\ bl \in Looping /\ bskew # 0 =>
         to_boot = <<>> /\ (hpc = "sleep" \/ (hpc = "poll" /\ to_poll > 0))

(* A board that reads frames at their beginning.  In Sync it does not read *)
(* any; what is sent to it then may still be there when it gives up.       *)
Live == bskew = 0 /\ bl \in Looping /\ (bl = "Sync" => timer = 0)

(* No RET of an earlier boot comes to a host that a live board serves: the *)
(* host has taken it by the time the board gives up waiting for a sync.    *)
NoEcho ==
  hpc # "done" =>
    \A i \in 1 .. Len(to_host) :
      HostFrame(i) = "RET" =>
        /\ Live => step = "Sync" /\ (hpc = "poll" => i <= to_poll)
        /\ bl = "Sync" =>
             timer = Timeout \/ (hpc = "poll" /\ i <= to_poll /\ timer = Timeout - 1)

(* At most one request is under way to a live board, the last on the line, *)
(* and none while the host looks for an answer.                            *)
OneRequest ==
  Live /\ step # "Sync" =>
    /\ \A i \in 1 .. Len(to_boot) : Request(i) => i = Len(to_boot) /\ inbox = <<>>
    /\ NoRequest \/ hpc = "sleep"

(* A board that has lost the beginning of a frame is never served.         *)
Skewed == step # "Sync" /\ bskew # 0 /\ bl \in Looping => inbox = <<>> /\ bl \notin Served

(* What has been received is the beginning of the file.                    *)
Prefix == \A i \in 1 .. bytes_written : fw_buffer[i - 1] = fw_data[i]

(* What a live board waits for, where the host is then, and what may be    *)
(* between them.                                                           *)
Asking ==
  bl = "WaitingForUpdateReq" =>
    step \in {"UpReq", "Failed"} /\ OnlyIn(Stale)
Announcing ==
  bl = "FWLengthReq" =>
    step = "UpReq" /\ hpc = "sleep" /\ NoRequest /\ OnlyIn(Early)
Measuring ==
  bl = "FWLengthRes" =>
    /\ bytes_sent = 0 /\ OnlyIn(Early)
    /\ \/ step \in {"UpReq", "LengthReq", "Failed"} /\ NoRequest
       \/ step = "Length" /\ UnderWay(LengthPacket)
Receiving ==
  bl = "ReceiveFW" =>
    /\ fw_length = Len(fw_data) /\ bytes_written < fw_length
    /\ bytes_written % Payload = 0 /\ Prefix
    /\ \/ step \in {"Length", "Data"} /\ NoRequest /\ bytes_sent = bytes_written /\ ReadyLast
       \/ /\ step \in {"Data", "Confirm"} /\ bytes_sent = ChunkEnd(fw_data, bytes_written)
          /\ OnlyIn({"ACK"}) /\ UnderWay(Chunk(fw_data, bytes_written))
       \/ /\ step = "Confirm" /\ bytes_sent = ChunkEnd(fw_data, bytes_written)
          /\ OnlyIn(Answers \ {"RET", "UPDATE_SUCCESS"}) /\ NoRequest
       \/ /\ step = "Failed"
          /\ bytes_written <= bytes_sent /\ bytes_sent <= bytes_written + Payload
Checking ==
  bl = "CheckSignature" =>
    /\ step = "Confirm" /\ hpc = "sleep" /\ NoRequest /\ OnlyIn({"ACK"})
    /\ bytes_written = Len(fw_data) /\ Prefix
Phases ==
  Live /\ step # "Sync" => Asking /\ Announcing /\ Measuring /\ Receiving /\ Checking

(* A success that the board has announced is on its way to a host that     *)
(* waits for it, with nothing before it that would spend its patience.     *)
Coming ==
  \/ packets_queue # <<>> /\ packets_queue[1] = "UPDATE_SUCCESS"
  \/ /\ packets_queue = <<>> /\ hpc \in {"sleep", "poll"}
     /\ \E i \in 1 .. Len(to_host) :
          /\ HostFrame(i) = "UPDATE_SUCCESS" /\ (hpc = "poll" => i <= to_poll)
          /\ \A j \in 1 .. i - 1 : HostFrame(j) = "ACK"
Accepted ==
  reply = "UPDATE_SUCCESS" =>
    /\ bl \in Accepting
    /\ step \in {"Confirm", "Success"} /\ (step = "Confirm" => Coming)

(* The inductive invariant, on a line that has hit nothing, and what the   *)
(* proof of a step starts from.                                            *)
CleanInv ==
  /\ Unhit /\ RetLast /\ Written /\ Places /\ SyncOnce /\ Syncing /\ Fresh /\ NoEcho
  /\ OneRequest /\ Skewed /\ Phases /\ Accepted

InStep == faults = 0 => CleanInv

Clean == LinkInv /\ IInv /\ CleanInv /\ faults = 0

-----------------------------------------------------------------------------
(* What the lockstep needs of packets, sequences and the line.             *)

(* A packet of one cell is told by that cell.                              *)
LEMMA ControlsDiffer ==
  ASSUME NEW a, NEW b, a # b
  PROVE  Control(a) # Control(b)
<1>1. Payload \in Nat /\ 1 \in 1 .. Payload
  BY BootAssumption
<1>2. \A c : Control(c).data[1] = c
  <2> TAKE c
  <2>1. Len(<<c>>) = 1 /\ <<c>>[1] = c
    OBVIOUS
  <2> QED
    BY <1>1, <2>1 DEF Control, NewPacket
<1> QED
  BY <1>2

(* What a host sends, apart from the sync sequence, is no RET.             *)
LEMMA FramesApart ==
  ASSUME FramesDiffer, fw_data \in Files
  PROVE  /\ Ack # Control(RetByte) /\ Control(UpReqByte) # Control(RetByte)
         /\ Control(Erased) # Control(RetByte) /\ Ack # Control(Erased)
         /\ LengthPacket # Control(RetByte) /\ SyncSeq # Control(RetByte)
         /\ \A p \in FilePackets(fw_data) : p # SyncSeq /\ p # Spoilt
         /\ SyncSeq # Ack
<1>1. /\ Ack # Control(RetByte) /\ Control(UpReqByte) # Control(RetByte)
      /\ Control(Erased) # Control(RetByte) /\ Ack # Control(Erased)
  BY ControlsDiffer DEF FramesDiffer, Ack
<1>2. \A p \in FilePackets(fw_data) : p # SyncSeq /\ p # Spoilt
  BY PacketTypes DEF FramesDiffer
<1>3. LengthPacket # Control(RetByte)
  <2>1. Len(WordCells(Len(fw_data))) = 2 /\ Len(<<RetByte>>) = 1
    BY DEF WordCells
  <2>2. LengthPacket.length = 2 /\ Control(RetByte).length = 1
    BY <2>1 DEF LengthPacket, Control, NewPacket
  <2> QED
    BY <2>2
<1>4. SyncSeq # Ack /\ SyncSeq # Control(RetByte)
  BY <1>2, FilePacketsOf DEF Ack
<1> QED
  BY <1>1, <1>2, <1>3, <1>4

(* The elements of a sequence that gets one more.                          *)
LEMMA OneMore ==
  ASSUME NEW S, NEW q \in Seq(S), NEW e
  PROVE  /\ Len(q) \in Nat /\ Len(Append(q, e)) = Len(q) + 1
         /\ Append(q, e)[Len(q) + 1] = e
         /\ \A i \in 1 .. Len(q) : Append(q, e)[i] = q[i]
         /\ \A i \in 1 .. Len(Append(q, e)) : i \in 1 .. Len(q) \/ i = Len(q) + 1
  BY AppendProperties, LenProperties

(* On a clean line what is sent arrives.                                   *)
LEMMA ArrivesAtBoot ==
  ASSUME faults = 0, faults' = 0, NEW n, NEW frame, SendToBoot(n, frame)
  PROVE  to_boot' = Append(to_boot, Burst(n, frame))
  BY DEF SendToBoot

(* The same for the host.                                                  *)
LEMMA ArrivesAtHost ==
  ASSUME faults = 0, faults' = 0, NEW frame, SendToHost(frame)
  PROVE  to_host' = Append(to_host, Burst(FrameBytes, frame))
  BY DEF SendToHost

(* What a burst of a clean line is.                                        *)
LEMMA WholeFrames ==
  ASSUME Unhit
  PROVE  /\ \A i \in 1 .. Len(to_boot) :
              \/ BootFrame(i) = SyncSeq /\ to_boot[i].bytes = SyncBytes
              \/ BootFrame(i) \in FilePackets(fw_data) /\ to_boot[i].bytes = FrameBytes
         /\ \A i \in 1 .. Len(to_host) :
              HostFrame(i) \in Answers /\ to_host[i].bytes = FrameBytes
<1>1. \A n, frame : Burst(n, frame).bytes = n /\ Burst(n, frame).frame = frame
  BY DEF Burst
<1>2. ASSUME NEW i \in 1 .. Len(to_boot)
      PROVE  \/ BootFrame(i) = SyncSeq /\ to_boot[i].bytes = SyncBytes
             \/ BootFrame(i) \in FilePackets(fw_data) /\ to_boot[i].bytes = FrameBytes
  <2>1. \/ to_boot[i] = Burst(SyncBytes, SyncSeq)
        \/ \E p \in FilePackets(fw_data) : to_boot[i] = Burst(FrameBytes, p)
    BY DEF Unhit
  <2> QED
    BY <1>1, <2>1 DEF BootFrame
<1>3. ASSUME NEW i \in 1 .. Len(to_host)
      PROVE  HostFrame(i) \in Answers /\ to_host[i].bytes = FrameBytes
  <2>1. \E r \in Answers : to_host[i] = Burst(FrameBytes, r)
    BY DEF Unhit
  <2> QED
    BY <1>1, <2>1 DEF HostFrame
<1> QED
  BY <1>2, <1>3

(* A packet of the host joins those on the line to the bootloader.         *)
LEMMA HostSends ==
  ASSUME FramesDiffer, LinkInv, Unhit, NEW frame \in FilePackets(fw_data),
         to_boot' = Append(to_boot, Burst(FrameBytes, frame)),
         UNCHANGED fw_data
  PROVE  /\ Len(to_boot) \in Nat /\ Len(to_boot') = Len(to_boot) + 1
         /\ \A i \in 1 .. Len(to_boot') :
              \/ i \in 1 .. Len(to_boot) /\ to_boot'[i] = to_boot[i]
                   /\ BootFrame(i)' = BootFrame(i)
              \/ i = Len(to_boot) + 1 /\ BootFrame(i)' = frame
         /\ \A i \in 1 .. Len(to_boot') :
              \/ to_boot'[i] = Burst(SyncBytes, SyncSeq)
              \/ \E p \in FilePackets(fw_data) : to_boot'[i] = Burst(FrameBytes, p)
         /\ SyncOnce => \A i \in 1 .. Len(to_boot') :
              BootFrame(i)' = SyncSeq => step = "Sync" /\ hpc = "sleep"
<1>1. /\ Len(to_boot) \in Nat /\ Len(to_boot') = Len(to_boot) + 1
      /\ to_boot'[Len(to_boot) + 1] = Burst(FrameBytes, frame)
      /\ \A i \in 1 .. Len(to_boot) : to_boot'[i] = to_boot[i]
      /\ \A i \in 1 .. Len(to_boot') : i \in 1 .. Len(to_boot) \/ i = Len(to_boot) + 1
  BY OneMore DEF LinkInv, LineInv
<1>2. Burst(FrameBytes, frame).frame = frame
  BY DEF Burst
<1>3. \A i \in 1 .. Len(to_boot') :
        \/ i \in 1 .. Len(to_boot) /\ to_boot'[i] = to_boot[i] /\ BootFrame(i)' = BootFrame(i)
        \/ i = Len(to_boot) + 1 /\ BootFrame(i)' = frame
  BY <1>1, <1>2 DEF BootFrame
<1>4. \A i \in 1 .. Len(to_boot') :
        \/ to_boot'[i] = Burst(SyncBytes, SyncSeq)
        \/ \E p \in FilePackets(fw_data) : to_boot'[i] = Burst(FrameBytes, p)
  BY <1>1 DEF Unhit
<1>5. frame # SyncSeq
  BY FramesApart DEF LinkInv, HostInv
<1>6. SyncOnce => \A i \in 1 .. Len(to_boot') :
        BootFrame(i)' = SyncSeq => step = "Sync" /\ hpc = "sleep"
  BY <1>3, <1>5 DEF SyncOnce
<1> QED
  BY <1>1, <1>3, <1>4, <1>6

(* The host's queue and the line to it, when the host takes from them: the *)
(* first burst goes to the end of the queue or nowhere, or the first       *)
(* packet of the queue goes.                                               *)
LEMMA HostTakes ==
  ASSUME LinkInv, Unhit,
         \/ /\ to_host # <<>> /\ to_host' = Tail(to_host)
            /\ \/ packets_queue' = packets_queue
               \/ /\ HostFrame(1) # "ACK"
                  /\ packets_queue' = Append(packets_queue, HostFrame(1))
         \/ /\ to_host' = to_host
            /\ \/ packets_queue' = packets_queue
               \/ packets_queue # <<>> /\ packets_queue' = Tail(packets_queue)
  PROVE  /\ \A S : OnlyIn(S) => OnlyIn(S)'
         /\ ReadyLast => ReadyLast'
         /\ \A i \in 1 .. Len(to_host') : \E r \in Answers : to_host'[i] = Burst(FrameBytes, r)
<1>1. to_host \in Seq(Replied) /\ packets_queue \in Seq(Answers)
  BY DEF LinkInv, LineInv, HostInv
<1>2. CASE to_host # <<>> /\ to_host' = Tail(to_host)
  <2>1. /\ Len(to_host') = Len(to_host) - 1 /\ Len(to_host) \in Nat \ {0}
        /\ \A i \in 1 .. Len(to_host') :
             i + 1 \in 1 .. Len(to_host) /\ to_host'[i] = to_host[i + 1]
    BY <1>1, <1>2, TailElements
  <2>2. \A i \in 1 .. Len(to_host') :
          i + 1 \in 1 .. Len(to_host) /\ HostFrame(i)' = HostFrame(i + 1)
    BY <2>1 DEF HostFrame
  <2>3. 1 \in 1 .. Len(to_host)
    BY <2>1
  <2>4. ReadyLast => \A i, j \in 1 .. Len(to_host') :
          i < j /\ HostFrame(i)' = "READY_FOR_FW" => HostFrame(j)' = "ACK"
    <3> SUFFICES ASSUME ReadyLast, NEW i \in 1 .. Len(to_host'), NEW j \in 1 .. Len(to_host'),
                        i < j, HostFrame(i)' = "READY_FOR_FW"
                 PROVE  HostFrame(j)' = "ACK"
      OBVIOUS
    <3>1. /\ i + 1 \in 1 .. Len(to_host) /\ HostFrame(i)' = HostFrame(i + 1)
          /\ j + 1 \in 1 .. Len(to_host) /\ HostFrame(j)' = HostFrame(j + 1)
          /\ i + 1 < j + 1
      BY <2>1, <2>2
    <3> QED
      BY <3>1 DEF ReadyLast
  <2>5. CASE packets_queue' = packets_queue
    <3>1. \A S : OnlyIn(S) => OnlyIn(S)'
      BY <2>2, <2>5 DEF OnlyIn
    <3>2. ReadyLast => ReadyLast'
      BY <2>2, <2>4, <2>5, <3>1 DEF ReadyLast
    <3> QED
      BY <2>1, <3>1, <3>2 DEF Unhit
  <2>6. CASE /\ HostFrame(1) # "ACK"
             /\ packets_queue' = Append(packets_queue, HostFrame(1))
    <3>1. /\ Len(packets_queue) \in Nat /\ Len(packets_queue') = Len(packets_queue) + 1
          /\ \A i \in 1 .. Len(packets_queue) : packets_queue'[i] = packets_queue[i]
          /\ packets_queue'[Len(packets_queue) + 1] = HostFrame(1)
          /\ \A i \in 1 .. Len(packets_queue') :
               i \in 1 .. Len(packets_queue) \/ i = Len(packets_queue) + 1
      BY <1>1, <2>6, OneMore
    <3>2. \A S : OnlyIn(S) => OnlyIn(S)'
      BY <2>2, <2>3, <3>1 DEF OnlyIn
    <3>3. ASSUME ReadyLast, NEW i \in 1 .. Len(packets_queue'),
                 packets_queue'[i] = "READY_FOR_FW"
          PROVE  /\ i = Len(packets_queue')
                 /\ \A j \in 1 .. Len(to_host') : HostFrame(j)' = "ACK"
      <4>1. i = Len(packets_queue) + 1
        BY <2>3, <2>6, <3>1, <3>3 DEF ReadyLast
      <4>2. ASSUME NEW j \in 1 .. Len(to_host')
            PROVE  HostFrame(j)' = "ACK"
        <5>1. j + 1 \in 1 .. Len(to_host) /\ HostFrame(j)' = HostFrame(j + 1) /\ 1 < j + 1
          BY <2>1, <2>2
        <5> QED
          BY <2>3, <3>1, <3>3, <4>1, <5>1 DEF ReadyLast
      <4> QED
        BY <3>1, <4>1, <4>2
    <3>4. ReadyLast => ReadyLast'
      BY <2>4, <3>2, <3>3 DEF ReadyLast
    <3> QED
      BY <2>1, <3>2, <3>4 DEF Unhit
  <2> QED
    BY <1>2, <2>5, <2>6
<1>3. CASE to_host' = to_host /\ packets_queue' = packets_queue
  BY <1>3 DEF OnlyIn, ReadyLast, HostFrame, Unhit
<1>4. CASE to_host' = to_host /\ packets_queue # <<>> /\ packets_queue' = Tail(packets_queue)
  <2>1. /\ Len(packets_queue') = Len(packets_queue) - 1 /\ Len(packets_queue) \in Nat \ {0}
        /\ \A i \in 1 .. Len(packets_queue') :
             i + 1 \in 1 .. Len(packets_queue) /\ packets_queue'[i] = packets_queue[i + 1]
    BY <1>1, <1>4, TailElements, Zenon
  <2>2. \A S : OnlyIn(S) => OnlyIn(S)'
    BY <1>4, <2>1, Zenon DEF OnlyIn, HostFrame
  <2>3. ASSUME ReadyLast, NEW i \in 1 .. Len(packets_queue'),
               packets_queue'[i] = "READY_FOR_FW"
        PROVE  /\ i = Len(packets_queue')
               /\ \A j \in 1 .. Len(to_host) : HostFrame(j) = "ACK"
    <3>1. i + 1 \in 1 .. Len(packets_queue) /\ packets_queue[i + 1] = "READY_FOR_FW"
      BY <2>1, <2>3
    <3>2. i + 1 = Len(packets_queue) /\ \A j \in 1 .. Len(to_host) : HostFrame(j) = "ACK"
      BY <2>3, <3>1 DEF ReadyLast
    <3> QED
      BY <2>1, <3>2
  <2>4. ReadyLast => ReadyLast'
    BY <1>4, <2>2, <2>3 DEF ReadyLast, HostFrame
  <2> QED
    BY <1>4, <2>2, <2>4 DEF Unhit
<1> QED
  BY <1>2, <1>3, <1>4

(* The piece of the file that looks like a RET is the last one sent.       *)
LEMMA LastPieceKept ==
  ASSUME RetLast, step \in {"Confirm"} \cup Over => step' \in {"Confirm"} \cup Over,
         prev_packet' = Control(RetByte) => LastPiece \/ step' = "Confirm",
         \A i \in 1 .. Len(to_boot') :
           BootFrame(i)' = Control(RetByte) => LastPiece \/ step' = "Confirm"
  PROVE  RetLast'
<1>1. LastPiece' => LastPiece \/ step' = "Confirm"
  BY DEF LastPiece, Control
<1> QED
  BY <1>1 DEF RetLast

-----------------------------------------------------------------------------
(* The steps of the host, and of time, keep the lockstep.                  *)

(* What poll_queue does with the first burst of a clean line.              *)
LEMMA Polled ==
  ASSUME FramesDiffer, Clean, PollQueue, faults' = 0
  PROVE  /\ to_host # <<>> /\ to_host' = Tail(to_host) /\ to_poll' = to_poll - 1
         /\ HostFrame(1) \in Answers /\ hskew' = 0
         /\ \/ /\ HostFrame(1) = "RET" /\ UNCHANGED <<prev_packet, packets_queue>>
               /\ to_boot' = Append(to_boot, Burst(FrameBytes, prev_packet))
            \/ HostFrame(1) = "ACK" /\ UNCHANGED <<to_boot, prev_packet, packets_queue>>
            \/ /\ HostFrame(1) \notin {"RET", "ACK"} /\ prev_packet' = Ack
               /\ packets_queue' = Append(packets_queue, HostFrame(1))
               /\ to_boot' = Append(to_boot, Burst(FrameBytes, Ack))
<1>1. to_host \in Seq(Replied) /\ to_poll > 0 /\ to_poll \in 0 .. Len(to_host)
  BY DEF Clean, LinkInv, LineInv, PollQueue
<1>2. to_host # <<>> /\ Head(to_host) = to_host[1] /\ 1 \in 1 .. Len(to_host)
  BY <1>1, LenProperties, TailElements
<1>3. HostFrame(1) \in Answers /\ to_host[1].bytes = FrameBytes /\ hskew = 0
  BY <1>2, WholeFrames DEF Clean, CleanInv, Unhit
<1>4. /\ Completes(hskew, Head(to_host)) /\ SkewAfter(hskew, Head(to_host)) = 0
      /\ Received(hskew, Head(to_host)) = HostFrame(1)
  <2>1. FrameBytes \in Nat \ {0} /\ 0 + FrameBytes = FrameBytes
    BY BurstSizes
  <2>2. FrameBytes % FrameBytes = 0
    BY <2>1
  <2> QED
    BY <1>2, <1>3, <2>1, <2>2 DEF Completes, SkewAfter, Received, HostFrame
<1>5. HandleFrame(HostFrame(1)) /\ hskew' = 0
  BY <1>4 DEF PollQueue
<1>6. HostFrame(1) # Spoilt
  BY <1>3 DEF FramesDiffer
<1> QED
  BY <1>2, <1>3, <1>5, <1>6, ArrivesAtBoot
     DEF HandleFrame, SendPacket, WritePacket, Clean, PollQueue, Ack

(* While it polls, the host keeps in step.                                 *)
LEMMA PollKeeps ==
  ASSUME FramesDiffer, Clean, PollQueue, UNCHANGED <<vars, layerVars>>, faults' = 0
  PROVE  CleanInv'
<1> USE DEF Clean, CleanInv
<1>1. /\ to_host # <<>> /\ to_host' = Tail(to_host) /\ to_poll' = to_poll - 1
      /\ HostFrame(1) \in Answers /\ hskew' = 0 /\ hpc = "poll" /\ to_poll > 0
      /\ fw_data \in Files /\ packets_queue \in Seq(Answers) /\ to_poll \in Nat
  BY Polled, LenProperties DEF PollQueue, LinkInv, HostInv, LineInv
<1>2. /\ UNCHANGED <<fw_data, step, hpc, iterations, bytes_sent>>
      /\ UNCHANGED <<bl, timer, fw_length, bytes_written, fw_buffer, reply>>
      /\ UNCHANGED <<bskew, inbox, halted>>
  BY DEF PollQueue, vars, loopVars, layerVars
<1>3. /\ Len(to_host) \in Nat \ {0} /\ Len(to_host') = Len(to_host) - 1
      /\ \A i \in 1 .. Len(to_host') :
           i + 1 \in 1 .. Len(to_host) /\ HostFrame(i)' = HostFrame(i + 1)
      /\ 1 \in 1 .. Len(to_host)
  <2>1. to_host \in Seq(Replied)
    BY DEF LinkInv, LineInv
  <2> QED
    BY <1>1, <2>1, TailElements DEF HostFrame
<1>4. /\ \A S : OnlyIn(S) => OnlyIn(S)'
      /\ ReadyLast => ReadyLast'
      /\ \A i \in 1 .. Len(to_host') : \E r \in Answers : to_host'[i] = Burst(FrameBytes, r)
  BY <1>1, HostTakes, Polled
<1> DEFINE Frames ==
      \A i \in 1 .. Len(to_boot') :
        \/ to_boot'[i] = Burst(SyncBytes, SyncSeq)
        \/ \E p \in FilePackets(fw_data) : to_boot'[i] = Burst(FrameBytes, p)
<1>5. Frames /\ SyncOnce' /\ RetLast'
  <2>1. /\ prev_packet' = Control(RetByte) => LastPiece
        /\ prev_packet = Control(RetByte) => LastPiece
        /\ \A i \in 1 .. Len(to_boot) : BootFrame(i) = Control(RetByte) => LastPiece
        /\ Ack # Control(RetByte)
    BY <1>1, Polled, FramesApart DEF LastPiece
  <2>2. CASE to_boot' = to_boot
    <3>1. \A i \in 1 .. Len(to_boot') : BootFrame(i)' = BootFrame(i)
      BY <2>2 DEF BootFrame
    <3>2. RetLast'
      BY <1>2, <2>2, <2>1, <3>1, LastPieceKept
    <3> QED
      BY <1>2, <2>2, <3>2 DEF Unhit, SyncOnce, BootFrame
  <2>3. ASSUME NEW p \in {prev_packet, Ack}, to_boot' = Append(to_boot, Burst(FrameBytes, p))
        PROVE  Frames /\ SyncOnce' /\ RetLast'
    <3>1. p \in FilePackets(fw_data)
      BY <1>1, FilePacketsOf DEF LinkInv, HostInv, Ack
    <3>2. \A i \in 1 .. Len(to_boot') :
            \/ i \in 1 .. Len(to_boot) /\ BootFrame(i)' = BootFrame(i)
            \/ BootFrame(i)' = p
      BY <1>2, <2>3, <3>1, HostSends
    <3>3. RetLast'
      BY <1>2, <2>1, <3>2, LastPieceKept
    <3> QED
      BY <1>2, <2>3, <3>1, <3>3, HostSends DEF SyncOnce
  <2> QED
    BY <2>2, <2>3, Polled
<1>6. step = "Sync" \/ Live => HostFrame(1) # "RET" \/ (step = "Sync" /\ prev_packet = Ack)
  <2>1. step = "Sync" /\ HostFrame(1) = "RET" => prev_packet = Ack
    BY <1>3 DEF Syncing, Fresh
  <2>2. Live /\ HostFrame(1) = "RET" => step = "Sync"
    BY <1>1, <1>3 DEF NoEcho
  <2> QED
    BY <2>1, <2>2
<1>7. (step = "Sync" \/ Live) /\ NoRequest => NoRequest'
  <2>1. CASE to_boot' = to_boot
    BY <1>2, <2>1 DEF NoRequest, Request, BootFrame
  <2>2. CASE to_boot' = Append(to_boot, Burst(FrameBytes, Ack))
    <3>1. Ack \in FilePackets(fw_data)
      BY <1>1, FilePacketsOf DEF Ack
    <3>2. \A i \in 1 .. Len(to_boot') :
            \/ i \in 1 .. Len(to_boot) /\ BootFrame(i)' = BootFrame(i)
            \/ BootFrame(i)' = Ack
      BY <1>2, <2>2, <3>1, HostSends
    <3> QED
      BY <1>2, <3>2 DEF NoRequest, Request, Ack
  <2> QED
    BY <1>6, <2>1, <2>2, Polled
<1>8. Live' = Live
  BY <1>2 DEF Live
<1>9. Live /\ step # "Sync" => NoRequest'
  BY <1>1, <1>7 DEF OneRequest
<1>10. Unhit'
  <2>1. \A i \in 1 .. Len(packets_queue') : packets_queue'[i] \notin {"ACK", "RET"}
    <3>1. CASE packets_queue' = packets_queue
      BY <3>1 DEF Unhit
    <3>2. CASE /\ HostFrame(1) \notin {"RET", "ACK"}
               /\ packets_queue' = Append(packets_queue, HostFrame(1))
      BY <1>1, <3>2, OneMore DEF Unhit
    <3> QED
      BY <3>1, <3>2, Polled
  <2> QED
    BY <1>1, <1>2, <1>4, <1>5, <2>1 DEF Unhit
<1>11. Places'
  BY <1>1, <1>2 DEF Places
<1>12. Syncing'
  BY <1>2, <1>4, <1>7, Polled DEF Syncing, Ack
<1>13. Fresh'
  <2>1. step = "Sync" => prev_packet' # Control(Erased)
    BY <1>1, <1>3, Polled, FramesApart DEF Fresh
  <2> QED
    BY <1>2, <2>1 DEF Fresh
<1>14. NoEcho'
  <2> SUFFICES ASSUME NEW i \in 1 .. Len(to_host'), HostFrame(i)' = "RET"
               PROVE  /\ Live => step = "Sync" /\ i <= to_poll'
                      /\ bl = "Sync" => timer = Timeout \/ (i <= to_poll' /\ timer = Timeout - 1)
    BY <1>1, <1>2, <1>8 DEF NoEcho
  <2>1. i + 1 \in 1 .. Len(to_host) /\ HostFrame(i + 1) = "RET" /\ i \in Nat
    BY <1>3
  <2>2. i + 1 <= to_poll => i <= to_poll'
    BY <1>1, <2>1
  <2> QED
    BY <1>1, <2>1, <2>2 DEF NoEcho
<1>15. OneRequest'
  BY <1>2, <1>8, <1>9 DEF OneRequest, NoRequest
<1>16. Skewed'
  BY <1>2 DEF Skewed
<1>17. Phases'
  <2> SUFFICES ASSUME Live, step # "Sync"
               PROVE  (Asking /\ Announcing /\ Measuring /\ Receiving /\ Checking)'
    BY <1>2, <1>8 DEF Phases
  <2>1. Asking /\ Announcing /\ Measuring /\ Receiving /\ Checking
    BY DEF Phases
  <2>2. NoRequest'
    BY <1>9
  <2>3. \A p : UnderWay(p)'
    BY <2>2 DEF UnderWay, NoRequest
  <2>4. Asking' /\ Announcing' /\ Checking'
    BY <1>1, <1>2, <1>4, <2>1 DEF Asking, Announcing, Checking, Prefix
  <2>5. Measuring'
    BY <1>2, <1>4, <2>1, <2>2, <2>3 DEF Measuring, LengthPacket
  <2>6. Receiving'
    BY <1>2, <1>4, <2>1, <2>2, <2>3 DEF Receiving, Prefix, ChunkEnd, Chunk
  <2> QED
    BY <2>4, <2>5, <2>6
<1>18. Accepted'
  <2> SUFFICES ASSUME reply = "UPDATE_SUCCESS", step = "Confirm" PROVE Coming'
    BY <1>2 DEF Accepted
  <2>1. Coming
    BY DEF Accepted
  <2>2. CASE packets_queue # <<>> /\ packets_queue[1] = "UPDATE_SUCCESS"
    <3>1. packets_queue' # <<>> /\ packets_queue'[1] = packets_queue[1]
      <4>1. Len(packets_queue) \in Nat \ {0}
        BY <1>1, <2>2, EmptySeq, LenProperties
      <4>2. 1 \in 1 .. Len(packets_queue)
        BY <4>1
      <4>3. \A e : Append(packets_queue, e) # <<>> /\ Append(packets_queue, e)[1] = packets_queue[1]
        BY <1>1, <4>1, <4>2, OneMore, AppendProperties
      <4>4. \/ packets_queue' = packets_queue
            \/ \E e : packets_queue' = Append(packets_queue, e)
        BY Polled, Zenon
      <4> QED
        BY <2>2, <4>3, <4>4
    <3> QED
      BY <2>2, <3>1 DEF Coming
  <2>3. CASE packets_queue = <<>>
    <3>1. PICK i \in 1 .. Len(to_host) :
            /\ HostFrame(i) = "UPDATE_SUCCESS" /\ i <= to_poll
            /\ \A j \in 1 .. i - 1 : HostFrame(j) = "ACK"
      BY <1>1, <2>1, <2>3 DEF Coming
    <3>2. CASE i = 1
      <4>1. packets_queue' = Append(packets_queue, "UPDATE_SUCCESS")
        BY <3>1, <3>2, Polled
      <4>2. packets_queue' = <<"UPDATE_SUCCESS">>
        BY <2>3, <4>1
      <4> QED
        BY <4>2 DEF Coming
    <3>3. CASE i # 1
      <4>1. HostFrame(1) = "ACK" /\ i - 1 \in 1 .. Len(to_host')
        BY <1>3, <3>1, <3>3
      <4>2. packets_queue' = <<>> /\ HostFrame(i - 1)' = "UPDATE_SUCCESS" /\ i - 1 <= to_poll'
        BY <1>1, <1>3, <2>3, <3>1, <4>1, Polled
      <4>3. \A j \in 1 .. (i - 1) - 1 : HostFrame(j)' = "ACK"
        BY <1>3, <3>1, <4>1
      <4> QED
        BY <1>1, <1>2, <4>1, <4>2, <4>3 DEF Coming
    <3> QED
      BY <3>2, <3>3
  <2> QED
    BY <2>1, <2>2, <2>3 DEF Coming
<1>19. Written'
  BY <1>2, <1>4 DEF Written, layerVars
<1> QED
  BY <1>5, <1>10, <1>11, <1>12, <1>13, <1>14, <1>15, <1>16, <1>17, <1>18, <1>19

(* What main sends when it goes on to its next wait.                       *)
LEMMA Advanced ==
  ASSUME FramesDiffer, Clean, Answered, faults' = 0
  PROVE  /\ step' \in (Waits \cup {"Success"}) \ {"Sync"}
         /\ step' = "Success" => step = "Confirm"
         /\ step' = "Confirm" => bytes_sent' = Len(fw_data)
         /\ \/ /\ UNCHANGED <<to_boot, prev_packet, bytes_sent>>
               /\ \/ step = "UpReq" /\ step' = "LengthReq"
                  \/ step = "Confirm" /\ step' = "Success"
            \/ \E p \in FilePackets(fw_data) :
                 /\ prev_packet' = p /\ step' # "Success"
                 /\ p = Control(RetByte) => step' = "Confirm"
                 /\ to_boot' = Append(to_boot, Burst(FrameBytes, p))
                 /\ \/ step = "Sync" /\ step' = "UpReq" /\ UNCHANGED bytes_sent
                    \/ /\ step = "LengthReq" /\ step' = "Length" /\ UNCHANGED bytes_sent
                       /\ p = LengthPacket
                    \/ /\ step \in {"Length", "Data"} /\ step' \in {"Data", "Confirm"}
                       /\ bytes_sent' = NextEnd /\ p = NextChunk
<1>1. fw_data \in Files /\ LinkInv /\ faults = 0
  BY DEF Clean, LinkInv, HostInv
<1>2. CASE step = "Sync" /\ step' = "UpReq" /\ SendPacket(Control(UpReqByte)) /\ UNCHANGED bytes_sent
  BY <1>1, <1>2, ArrivesAtBoot, FilePacketsOf, FramesApart
     DEF SendPacket, WritePacket, Waits
<1>3. CASE /\ UNCHANGED <<to_boot, faults, prev_packet, bytes_sent>>
           /\ \/ step = "UpReq" /\ step' = "LengthReq"
              \/ step = "Confirm" /\ step' = "Success"
  BY <1>3 DEF Waits
<1>4. CASE step = "LengthReq" /\ step' = "Length" /\ SendPacket(LengthPacket) /\ UNCHANGED bytes_sent
  <2>1. LengthPacket \in FilePackets(fw_data)
    BY FilePacketsOf DEF LengthPacket
  <2> QED
    BY <1>1, <1>4, <2>1, ArrivesAtBoot, FramesApart DEF SendPacket, WritePacket, Waits
<1>5. CASE step \in {"Length", "Data"} /\ SendChunk
  <2>1. bytes_sent \in {n \in 0 .. Len(fw_data) - 1 : n % Payload = 0} /\ Len(fw_data) \in Nat
    BY <1>1, <1>5, LenProperties, UpdaterAssumption DEF LinkInv, HostInv, ErasedWord
  <2>2. /\ NextChunk \in FilePackets(fw_data)
        /\ NextChunk = Control(RetByte) => ~(NextEnd < Len(fw_data))
    <3>1. NextChunk.length = NextEnd - bytes_sent
      BY <1>1, <2>1, ChunkCells DEF NextChunk, NextEnd
    <3>2. Control(RetByte).length = 1
      <4>1. Len(<<RetByte>>) = 1
        OBVIOUS
      <4> QED
        BY <4>1 DEF Control, NewPacket
    <3>3. NextEnd < Len(fw_data) => NextEnd - bytes_sent = Payload
      BY <2>1, UpdaterAssumption DEF NextEnd, ChunkEnd
    <3> QED
      BY <1>1, <2>1, <3>1, <3>2, <3>3, FilePacketsOf, UpdaterAssumption DEF NextChunk
  <2>3. NextEnd \in 0 .. Len(fw_data)
    BY <2>1, ChunkEnds DEF NextEnd
  <2>4. /\ bytes_sent' = NextEnd /\ step' \in {"Data", "Confirm"}
        /\ step' = "Confirm" <=> ~(NextEnd < Len(fw_data))
        /\ prev_packet' = NextChunk /\ to_boot' = Append(to_boot, Burst(FrameBytes, NextChunk))
    BY <1>1, <1>5, ArrivesAtBoot DEF SendChunk, SendPacket, WritePacket
  <2>5. step' = "Confirm" => bytes_sent' = Len(fw_data)
    BY <2>1, <2>3, <2>4
  <2> QED
    BY <1>5, <2>2, <2>4, <2>5 DEF Waits
<1> QED
  BY <1>2, <1>3, <1>4, <1>5 DEF Answered, Proceed

(* When main goes on, the two ends stay in step.                           *)
LEMMA AnswerKeeps ==
  ASSUME FramesDiffer, Clean, Answered, UNCHANGED <<vars, layerVars>>, faults' = 0
  PROVE  CleanInv'
<1> USE DEF Clean, CleanInv
<1>1. /\ hpc = "poll" /\ to_poll = 0 /\ hpc' = (IF step' = "Success" THEN "done" ELSE "sleep")
      /\ packets_queue # <<>> /\ packets_queue' = Tail(packets_queue)
      /\ UNCHANGED <<fw_data, to_poll, hskew, to_host>>
      /\ packets_queue \in Seq(Answers) /\ fw_data \in Files
  BY DEF Answered, LinkInv, HostInv
<1>2. /\ UNCHANGED <<bl, timer, fw_length, bytes_written, fw_buffer, reply>>
      /\ UNCHANGED <<bskew, inbox, halted>>
  BY DEF vars, loopVars, layerVars
<1>3. /\ 1 \in 1 .. Len(packets_queue) /\ packets_queue[1] = Awaited
      /\ Len(packets_queue') = Len(packets_queue) - 1 /\ Len(packets_queue) \in Nat
      /\ \A i \in 1 .. Len(packets_queue') :
           i + 1 \in 1 .. Len(packets_queue) /\ packets_queue'[i] = packets_queue[i + 1]
  BY <1>1, TailElements DEF Answered
<1>4. /\ \A S : OnlyIn(S) => OnlyIn(S)'
      /\ \A i \in 1 .. Len(to_host') : \E r \in Answers : to_host'[i] = Burst(FrameBytes, r)
  BY <1>1, HostTakes
<1>5. Live' = Live
  BY <1>2 DEF Live
<1>6. Live \/ step = "Sync" => NoRequest
  BY <1>1 DEF OneRequest, Syncing
<1>7. \A i \in 1 .. Len(to_host) : HostFrame(i) = "RET" => ~Live /\ (bl = "Sync" => timer = Timeout)
  BY <1>1 DEF NoEcho
<1> DEFINE Frames ==
      \A i \in 1 .. Len(to_boot') :
        \/ to_boot'[i] = Burst(SyncBytes, SyncSeq)
        \/ \E p \in FilePackets(fw_data) : to_boot'[i] = Burst(FrameBytes, p)
<1>8. Frames /\ SyncOnce' /\ RetLast'
  <2>1. /\ \A i \in 1 .. Len(to_boot) : BootFrame(i) # SyncSeq
        /\ step \in {"Confirm"} \cup Over => step' \in {"Confirm"} \cup Over
        /\ prev_packet = Control(RetByte) => LastPiece
        /\ \A i \in 1 .. Len(to_boot) : BootFrame(i) = Control(RetByte) => LastPiece
    BY <1>1, Advanced DEF SyncOnce, LastPiece, Places, Over
  <2>2. CASE UNCHANGED <<to_boot, prev_packet>>
    <3>1. \A i \in 1 .. Len(to_boot') : BootFrame(i)' = BootFrame(i)
      BY <2>2 DEF BootFrame
    <3>2. RetLast'
      BY <2>1, <2>2, <3>1, LastPieceKept
    <3> QED
      BY <1>1, <2>1, <2>2, <3>2 DEF Unhit, SyncOnce, BootFrame
  <2>3. ASSUME NEW p \in FilePackets(fw_data), p = Control(RetByte) => step' = "Confirm",
               prev_packet' = p, to_boot' = Append(to_boot, Burst(FrameBytes, p))
        PROVE  Frames /\ SyncOnce' /\ RetLast'
    <3>1. p # SyncSeq
      BY <1>1, FramesApart
    <3>2. \A i \in 1 .. Len(to_boot') :
            \/ i \in 1 .. Len(to_boot) /\ BootFrame(i)' = BootFrame(i)
            \/ BootFrame(i)' = p
      BY <1>1, <2>3, HostSends
    <3>3. RetLast'
      BY <2>1, <2>3, <3>2, LastPieceKept
    <3> QED
      BY <1>1, <2>1, <2>3, <3>1, <3>3, HostSends DEF SyncOnce
  <2> QED
    BY <2>2, <2>3, Advanced
<1>9. Unhit'
  BY <1>1, <1>2, <1>3, <1>4, <1>8 DEF Unhit
<1>10. Places'
  BY <1>1, <1>2, Advanced DEF Places, Waits, Over
<1>11. Syncing' /\ Fresh'
  BY Advanced DEF Syncing, Fresh
<1>12. NoEcho'
  BY <1>1, <1>2, <1>5, <1>7 DEF NoEcho, HostFrame
<1>13. Skewed'
  BY <1>2, <1>6 DEF Skewed, Syncing, NoRequest
<1>14. ASSUME Live \/ step = "Sync"
       PROVE  /\ inbox' = <<>>
              /\ \A i \in 1 .. Len(to_boot') : Request(i)' => i = Len(to_boot')
              /\ to_boot' = to_boot => NoRequest'
              /\ \A p \in FilePackets(fw_data) :
                   to_boot' = Append(to_boot, Burst(FrameBytes, p))
                     => \A i \in 1 .. Len(to_boot') : Request(i)' => BootFrame(i)' = p
  <2>1. NoRequest
    BY <1>6, <1>14
  <2>2. CASE to_boot' = to_boot
    BY <1>2, <2>1, <2>2 DEF NoRequest, Request, BootFrame, Ack
  <2>3. ASSUME NEW p \in FilePackets(fw_data),
               to_boot' = Append(to_boot, Burst(FrameBytes, p))
        PROVE  \A i \in 1 .. Len(to_boot') :
                 Request(i)' => i = Len(to_boot') /\ BootFrame(i)' = p
    <3>1. /\ Len(to_boot) \in Nat /\ Len(to_boot') = Len(to_boot) + 1
          /\ \A i \in 1 .. Len(to_boot') :
               \/ i \in 1 .. Len(to_boot) /\ BootFrame(i)' = BootFrame(i)
               \/ i = Len(to_boot) + 1 /\ BootFrame(i)' = p
      BY <1>1, <2>3, HostSends
    <3> QED
      BY <1>2, <2>1, <3>1 DEF NoRequest, Request, UnderWay, Ack
  <2>4. to_boot' = to_boot => NoRequest'
    BY <1>2, <2>1 DEF NoRequest, Request, BootFrame, Ack
  <2>5. inbox' = <<>>
    BY <1>2, <2>1 DEF NoRequest
  <2> QED
    BY <2>2, <2>3, <2>4, <2>5, Advanced
<1>15. OneRequest'
  BY <1>1, <1>5, <1>14, Advanced DEF OneRequest
<1>16. Phases'
  <2> SUFFICES ASSUME Live, step' # "Sync"
               PROVE  (Asking /\ Announcing /\ Measuring /\ Receiving /\ Checking)'
    BY <1>5 DEF Phases
  <2>1. step # "Sync" => Asking /\ Announcing /\ Measuring /\ Receiving /\ Checking
    BY DEF Phases
  <2>2. CASE step = "Sync"
    <3>1. bl \notin Served /\ OnlyIn(Stale \cup {"RET"}) /\ step' = "UpReq"
      BY <2>2, Advanced DEF Syncing
    <3>2. OnlyIn(Stale)
      BY <1>7, <3>1 DEF OnlyIn, Unhit
    <3> QED
      BY <1>2, <1>4, <3>1, <3>2
         DEF Served, Asking, Announcing, Measuring, Receiving, Checking
  <2>3. CASE step = "UpReq"
    <3>1. step' = "LengthReq" /\ NoRequest' /\ bytes_sent' = bytes_sent
      BY <1>14, <2>3, Advanced
    <3>2. packets_queue[1] = "UP_RESP"
      BY <1>3, <2>3 DEF Awaited
    <3>3. bl \notin {"WaitingForUpdateReq", "FWLengthReq", "ReceiveFW", "CheckSignature"}
      BY <1>1, <1>3, <2>1, <2>3, <3>2
         DEF Asking, Announcing, Receiving, Checking, OnlyIn, Stale
    <3> QED
      BY <1>2, <1>4, <2>1, <2>3, <3>1, <3>3
         DEF Asking, Announcing, Measuring, Receiving, Checking
  <2>4. CASE step = "LengthReq"
    <3>1. /\ step' = "Length" /\ inbox' = <<>> /\ bytes_sent' = bytes_sent
          /\ \A i \in 1 .. Len(to_boot') : Request(i)' => BootFrame(i)' = LengthPacket
      BY <1>14, <2>4, Advanced
    <3>2. bl \notin {"WaitingForUpdateReq", "FWLengthReq", "ReceiveFW", "CheckSignature"}
      BY <1>1, <2>1, <2>4 DEF Asking, Announcing, Receiving, Checking
    <3>3. LengthPacket' = LengthPacket
      BY <1>1 DEF LengthPacket
    <3>4. UnderWay(LengthPacket)'
      BY <3>1, <3>3 DEF UnderWay
    <3> QED
      BY <1>2, <1>4, <2>1, <2>4, <3>1, <3>2, <3>4
         DEF Asking, Announcing, Measuring, Receiving, Checking
  <2>5. CASE step \in {"Length", "Data"}
    <3>1. /\ step' \in {"Data", "Confirm"} /\ inbox' = <<>> /\ bytes_sent' = NextEnd
          /\ \A i \in 1 .. Len(to_boot') : Request(i)' => BootFrame(i)' = NextChunk
      BY <1>14, <2>5, Advanced
    <3>2. packets_queue[1] = "READY_FOR_FW"
      BY <1>3, <2>5 DEF Awaited
    <3>3. bl \notin {"WaitingForUpdateReq", "FWLengthReq", "FWLengthRes", "CheckSignature"}
      BY <1>1, <1>3, <2>1, <2>5, <3>2
         DEF Asking, Announcing, Measuring, Checking, OnlyIn, Early, Stale
    <3>4. CASE bl = "ReceiveFW"
      <4>1. bytes_sent = bytes_written /\ ReadyLast
        <5>1. ~OnlyIn({"ACK"})
          BY <1>3, <3>2 DEF OnlyIn
        <5> QED
          BY <2>1, <2>5, <3>4, <5>1 DEF Receiving
      <4>2. OnlyIn({"ACK"})'
        <5>1. Len(packets_queue) = 1 /\ \A j \in 1 .. Len(to_host) : HostFrame(j) = "ACK"
          BY <1>3, <3>2, <4>1 DEF ReadyLast
        <5> QED
          BY <1>1, <1>3, <5>1 DEF OnlyIn, HostFrame
      <4>3. UnderWay(Chunk(fw_data, bytes_written))'
        <5>1. Chunk(fw_data, bytes_written)' = NextChunk
          BY <1>1, <1>2, <4>1 DEF NextChunk, Chunk, ChunkEnd
        <5> QED
          BY <3>1, <5>1 DEF UnderWay
      <4>4. bytes_sent' = ChunkEnd(fw_data, bytes_written)'
        BY <1>1, <1>2, <3>1, <4>1 DEF NextEnd, ChunkEnd
      <4>5. /\ fw_length = Len(fw_data) /\ bytes_written < fw_length
            /\ bytes_written % Payload = 0 /\ Prefix
        BY <2>1, <2>5, <3>4 DEF Receiving
      <4>6. Receiving'
        BY <1>1, <1>2, <3>1, <4>2, <4>3, <4>4, <4>5 DEF Receiving, Prefix
      <4> QED
        BY <1>2, <3>4, <4>6 DEF Asking, Announcing, Measuring, Checking
    <3> QED
      BY <1>2, <3>3, <3>4 DEF Asking, Announcing, Measuring, Receiving, Checking
  <2>6. CASE step = "Confirm"
    <3>1. packets_queue[1] = "UPDATE_SUCCESS"
      BY <1>3, <2>6 DEF Awaited
    <3>2. bl \notin {"WaitingForUpdateReq", "FWLengthReq", "FWLengthRes", "ReceiveFW",
                     "CheckSignature"}
      BY <1>1, <1>3, <2>1, <2>6, <3>1
         DEF Asking, Announcing, Measuring, Receiving, Checking, OnlyIn
    <3> QED
      BY <1>2, <3>2 DEF Asking, Announcing, Measuring, Receiving, Checking
  <2> QED
    BY <2>2, <2>3, <2>4, <2>5, <2>6, Advanced
<1>17. Accepted'
  <2> SUFFICES ASSUME reply = "UPDATE_SUCCESS" PROVE step' = "Success" /\ bl \in Accepting
    BY <1>2 DEF Accepted
  <2>1. step = "Confirm" /\ bl \in Accepting
    BY <1>1 DEF Accepted, Places, Over
  <2> QED
    BY <2>1, Advanced
<1>18. Written'
  <2>1. last_written' = last_written
    BY DEF layerVars
  <2>2. ASSUME step \in {"UpReq", "Failed"}, OnlyIn(Stale \cup {"RET"})
        PROVE  FALSE
    <3>1. step = "UpReq" /\ packets_queue[1] = "UP_RESP"
      BY <1>1, <1>3, <2>2 DEF Places, Over, Awaited
    <3> QED
      BY <1>3, <2>2, <3>1 DEF OnlyIn, Stale
  <2> QED
    BY <1>2, <1>4, <2>1, <2>2, Advanced DEF Written
<1> QED
  BY <1>8, <1>9, <1>10, <1>11, <1>12, <1>13, <1>15, <1>16, <1>17, <1>18

(* A host that finds no answer, or gives up, leaves the two in step.       *)
LEMMA UnansweredKeeps ==
  ASSUME FramesDiffer, Clean, Unanswered, UNCHANGED <<vars, layerVars>>, faults' = 0
  PROVE  CleanInv'
<1> USE DEF Clean, CleanInv
<1>1. /\ hpc = "poll" /\ to_poll = 0
      /\ \/ packets_queue = <<>> /\ packets_queue' = packets_queue
         \/ /\ packets_queue # <<>> /\ Head(packets_queue) # Awaited
            /\ packets_queue' = Tail(packets_queue)
      /\ \/ step' = "Failed" /\ hpc' = "done"
         \/ step' = step /\ hpc' = (IF step = "Sync" THEN "write" ELSE "sleep")
      /\ UNCHANGED <<fw_data, to_poll, hskew, prev_packet, bytes_sent, to_boot, to_host>>
      /\ packets_queue \in Seq(Answers)
  BY DEF Unanswered, LinkInv, HostInv, lineVars
<1>2. /\ UNCHANGED <<bl, timer, fw_length, bytes_written, fw_buffer, reply>>
      /\ UNCHANGED <<bskew, inbox, halted>>
  BY DEF vars, loopVars, layerVars
<1>3. /\ \A S : OnlyIn(S) => OnlyIn(S)'
      /\ ReadyLast => ReadyLast'
  BY <1>1, HostTakes
<1>4. Live' = Live
  BY <1>2 DEF Live
<1>5. Live \/ step = "Sync" => NoRequest
  BY <1>1 DEF OneRequest, Syncing
<1>6. \A i \in 1 .. Len(to_host) : HostFrame(i) = "RET" => ~Live /\ (bl = "Sync" => timer = Timeout)
  BY <1>1 DEF NoEcho
<1>7. NoRequest' = NoRequest
  BY <1>1, <1>2 DEF NoRequest, Request, BootFrame, Ack
<1>8. Unhit'
  <2>1. \A i \in 1 .. Len(packets_queue') : packets_queue'[i] \notin {"ACK", "RET"}
    <3>1. CASE packets_queue' = packets_queue
      BY <3>1 DEF Unhit
    <3>2. CASE packets_queue # <<>> /\ packets_queue' = Tail(packets_queue)
      BY <1>1, <3>2, TailElements DEF Unhit
    <3> QED
      BY <1>1, <3>1, <3>2
  <2> QED
    BY <1>1, <1>2, <2>1 DEF Unhit
<1>9. Places'
  BY <1>1, <1>2 DEF Places, Over
<1>10. SyncOnce'
  BY <1>1 DEF SyncOnce, BootFrame
<1>11. Syncing'
  BY <1>1, <1>2, <1>3, <1>7 DEF Syncing, Ack
<1>12. Fresh'
  BY <1>1, <1>2 DEF Fresh, HostFrame, BootFrame
<1>13. NoEcho'
  BY <1>1, <1>2, <1>4, <1>6 DEF NoEcho, HostFrame
<1>14. OneRequest'
  <2> SUFFICES ASSUME Live, step' # "Sync" PROVE inbox' = <<>> /\ NoRequest'
    BY <1>4 DEF OneRequest, NoRequest
  <2> QED
    BY <1>2, <1>5, <1>7 DEF NoRequest
<1>15. Skewed'
  BY <1>1, <1>2, <1>5 DEF Skewed, Syncing, NoRequest
<1>16. Phases'
  <2> SUFFICES ASSUME Live, step' # "Sync"
               PROVE  (Asking /\ Announcing /\ Measuring /\ Receiving /\ Checking)'
    BY <1>4 DEF Phases
  <2>1. NoRequest' /\ \A p : UnderWay(p)'
    BY <1>5, <1>7 DEF NoRequest, UnderWay
  <2>2. CASE step = "Sync"
    <3>1. bl \notin Served /\ OnlyIn(Stale \cup {"RET"}) /\ step' = "Failed"
      BY <1>1, <2>2 DEF Syncing
    <3>2. OnlyIn(Stale)
      BY <1>6, <3>1 DEF OnlyIn, Unhit
    <3> QED
      BY <1>2, <1>3, <3>1, <3>2
         DEF Served, Asking, Announcing, Measuring, Receiving, Checking
  <2>3. CASE step # "Sync"
    <3>1. Asking /\ Announcing /\ Measuring /\ Receiving /\ Checking
      BY <2>3 DEF Phases
    <3>2. step' \in {step, "Failed"}
      BY <1>1
    <3>3. Asking' /\ Announcing' /\ Checking'
      BY <1>1, <1>2, <1>3, <3>1, <3>2 DEF Asking, Announcing, Checking
    <3>4. Measuring'
      BY <1>1, <1>2, <1>3, <2>1, <3>1, <3>2 DEF Measuring, LengthPacket
    <3>5. ASSUME bl = "ReceiveFW"
          PROVE  Receiving'
      <4>1. /\ fw_length = Len(fw_data) /\ bytes_written < fw_length
            /\ bytes_written % Payload = 0 /\ Prefix
            /\ bytes_written <= bytes_sent /\ bytes_sent <= bytes_written + Payload
        <5>1. /\ Payload \in Nat /\ bytes_written \in Nat /\ Len(fw_data) \in Nat
              /\ bytes_sent \in Nat
          BY BootAssumption DEF IInv, TypeOK, LinkInv, HostInv
        <5>2. /\ bytes_written < Len(fw_data) =>
                   /\ bytes_written <= ChunkEnd(fw_data, bytes_written)
                   /\ ChunkEnd(fw_data, bytes_written) <= bytes_written + Payload
          BY <5>1 DEF ChunkEnd
        <5> QED
          BY <3>1, <3>5, <5>1, <5>2 DEF Receiving
      <4>2. /\ (fw_length = Len(fw_data) /\ bytes_written < fw_length)'
            /\ (bytes_written % Payload = 0 /\ Prefix)'
            /\ (bytes_written <= bytes_sent /\ bytes_sent <= bytes_written + Payload)'
        BY <1>1, <1>2, <4>1 DEF Prefix
      <4>3. CASE step' = "Failed"
        BY <4>2, <4>3 DEF Receiving
      <4>4. CASE step' = step
        <5>1. /\ ChunkEnd(fw_data, bytes_written)' = ChunkEnd(fw_data, bytes_written)
              /\ UnderWay(Chunk(fw_data, bytes_written))'
          BY <1>1, <1>2, <1>5, <1>7, <2>1 DEF ChunkEnd, UnderWay, NoRequest
        <5>2. \/ step \in {"Length", "Data"} /\ bytes_sent = bytes_written /\ ReadyLast
              \/ /\ step \in {"Data", "Confirm"} /\ bytes_sent = ChunkEnd(fw_data, bytes_written)
                 /\ OnlyIn({"ACK"})
              \/ /\ step = "Confirm" /\ bytes_sent = ChunkEnd(fw_data, bytes_written)
                 /\ OnlyIn(Answers \ {"RET", "UPDATE_SUCCESS"})
              \/ step = "Failed"
          BY <3>1, <3>5 DEF Receiving
        <5>3. bytes_written' = bytes_written /\ bytes_sent' = bytes_sent
          BY <1>1, <1>2
        <5>4. \/ /\ step' \in {"Length", "Data"} /\ NoRequest' /\ bytes_sent' = bytes_written'
                 /\ ReadyLast'
              \/ /\ step' \in {"Data", "Confirm"}
                 /\ bytes_sent' = ChunkEnd(fw_data, bytes_written)'
                 /\ OnlyIn({"ACK"})' /\ UnderWay(Chunk(fw_data, bytes_written))'
              \/ /\ step' = "Confirm" /\ bytes_sent' = ChunkEnd(fw_data, bytes_written)'
                 /\ OnlyIn(Answers \ {"RET", "UPDATE_SUCCESS"})' /\ NoRequest'
              \/ step' = "Failed"
          BY <1>3, <2>1, <4>4, <5>1, <5>2, <5>3
        <5> QED
          BY <4>2, <5>4 DEF Receiving
      <4> QED
        BY <3>2, <4>3, <4>4
    <3> QED
      BY <1>2, <3>3, <3>4, <3>5 DEF Receiving
  <2> QED
    BY <2>2, <2>3
<1>17. Accepted'
  <2> SUFFICES ASSUME reply = "UPDATE_SUCCESS" PROVE FALSE
    BY <1>2 DEF Accepted
  <2>1. step = "Confirm" /\ Coming
    BY <1>1 DEF Accepted, Places, Over
  <2>2. CASE packets_queue # <<>> /\ packets_queue[1] = "UPDATE_SUCCESS"
    <3>1. Head(packets_queue) = "UPDATE_SUCCESS"
      BY <1>1, <2>2, TailElements
    <3> QED
      BY <1>1, <2>1, <2>2, <3>1 DEF Awaited
  <2> QED
    BY <1>1, <2>1, <2>2 DEF Coming
<1>18. RetLast'
  BY <1>1 DEF RetLast, LastPiece, BootFrame, Over, Control
<1>19. Written'
  BY <1>1, <1>2, <1>3 DEF Written, layerVars
<1> QED
  BY <1>8, <1>9, <1>10, <1>11, <1>12, <1>13, <1>14, <1>15, <1>16, <1>17, <1>18, <1>19

(* A host that starts, and one that sends the sync sequence.               *)
LEMMA SyncKeeps ==
  ASSUME FramesDiffer, Clean, Launch \/ WriteSync, UNCHANGED <<vars, layerVars>>, faults' = 0
  PROVE  CleanInv'
<1> USE DEF Clean, CleanInv
<1>1. /\ step = "Sync" /\ UNCHANGED <<fw_data, step, to_poll, hskew, packets_queue>>
      /\ UNCHANGED <<prev_packet, iterations, bytes_sent, to_host>>
      /\ hpc \in {"idle", "write"} /\ hpc' \in {"write", "sleep"}
      /\ fw_data \in Files
  BY DEF Launch, WriteSync, Places, lineVars, LinkInv, HostInv
<1>2. /\ UNCHANGED <<bl, timer, fw_length, bytes_written, fw_buffer, reply>>
      /\ UNCHANGED <<bskew, inbox, halted>>
  BY DEF vars, loopVars, layerVars
<1>3. \/ hpc = "idle" /\ hpc' = "write" /\ to_boot' = to_boot
      \/ /\ hpc = "write" /\ hpc' = "sleep"
         /\ to_boot' = Append(to_boot, Burst(SyncBytes, SyncSeq))
  BY ArrivesAtBoot DEF Launch, WriteSync, lineVars
<1>4. /\ Len(to_boot) \in Nat
      /\ \A i \in 1 .. Len(to_boot') :
           \/ i \in 1 .. Len(to_boot) /\ to_boot'[i] = to_boot[i]
           \/ /\ i = Len(to_boot) + 1 /\ to_boot'[i] = Burst(SyncBytes, SyncSeq)
              /\ hpc' = "sleep"
  <2>1. to_boot \in Seq(Sent(fw_data))
    BY DEF LinkInv, LineInv
  <2>2. Len(to_boot) \in Nat
    BY <2>1, LenProperties
  <2> QED
    BY <1>3, <2>1, <2>2, OneMore
<1>5. \A i \in 1 .. Len(to_boot') :
        \/ i \in 1 .. Len(to_boot) /\ BootFrame(i)' = BootFrame(i)
        \/ i = Len(to_boot) + 1 /\ BootFrame(i)' = SyncSeq /\ hpc' = "sleep"
  BY <1>4 DEF BootFrame, Burst
<1>6. Unhit'
  BY <1>1, <1>2, <1>4 DEF Unhit
<1>7. Places'
  BY <1>1, <1>2, <1>3 DEF Places, Over
<1>8. \A i \in 1 .. Len(to_boot) : BootFrame(i) # SyncSeq
  BY <1>1 DEF SyncOnce
<1>9. SyncOnce'
  BY <1>1, <1>5, <1>8 DEF SyncOnce
<1>10. OnlyIn(Stale \cup {"RET"})'
  BY <1>1 DEF Syncing, OnlyIn, HostFrame
<1>11. Syncing'
  BY <1>1, <1>2, <1>5, <1>10 DEF Syncing, NoRequest, Request, Ack
<1>12. Fresh'
  <2> SUFFICES ASSUME prev_packet = Control(Erased) PROVE Fresh'
    BY <1>1 DEF Fresh
  <2>1. Len(to_boot) = 0
    BY <1>1, <1>4, <1>8 DEF Fresh
  <2>2. \A i \in 1 .. Len(to_boot') : i = 1 /\ BootFrame(i)' = SyncSeq
    BY <1>5, <2>1
  <2>3. ~(bl \in Looping /\ bskew # 0)
    BY <1>1 DEF Fresh
  <2> QED
    BY <1>1, <1>2, <2>2, <2>3 DEF Fresh, HostFrame
<1>13. NoEcho'
  BY <1>1, <1>2 DEF NoEcho, HostFrame, Live
<1>14. OneRequest' /\ Skewed' /\ Phases'
  BY <1>1 DEF OneRequest, Skewed, Phases
<1>15. Accepted'
  BY <1>1, <1>2 DEF Accepted
<1>16. RetLast'
  <2>1. ~LastPiece /\ SyncSeq # Control(RetByte)
    BY <1>1, FramesApart DEF RetLast, Over
  <2> QED
    BY <1>1, <1>5, <2>1, LastPieceKept DEF LastPiece
<1>17. Written'
  BY <1>1, <1>2 DEF Written, layerVars, OnlyIn, HostFrame
<1> QED
  BY <1>6, <1>7, <1>9, <1>11, <1>12, <1>13, <1>14, <1>15, <1>16, <1>17

(* Nor does the passing of time bring them out of step.                    *)
LEMMA TimeKeeps ==
  ASSUME FramesDiffer, Patient, Clean, HostSleeps \/ NobodyThere, faults' = 0
  PROVE  CleanInv'
<1> USE DEF Clean, CleanInv, Patient
<1>1. /\ to_boot = <<>> /\ TimePasses
      /\ UNCHANGED <<fw_data, step, hskew, packets_queue, prev_packet, bytes_sent,
                     to_boot, to_host>>
      /\ \/ hpc = "sleep" /\ hpc' = "poll" /\ to_poll' = Len(to_host)
         \/ hpc \in {"idle", "done"} /\ hpc' = hpc /\ to_poll' = to_poll
  BY DEF HostSleeps, NobodyThere, Wake, TimePasses, Idle, hostVars, lineVars
<1>2. /\ UNCHANGED <<bl, fw_length, bytes_written, fw_buffer, reply>>
      /\ UNCHANGED <<bskew, inbox, halted>>
      /\ \/ bl \notin Looping /\ timer' = timer
         \/ bl \in Waiting /\ inbox = <<>> /\ timer > 0 /\ timer' = timer - 1
  BY <1>1 DEF TimePasses, Idle, Deaf, Tick, vars, loopVars, layerVars, Unhit
<1>3. timer \in Int /\ Timeout \in Nat
  BY BootAssumption DEF IInv, TypeOK, Reported
<1>4. bl \in Looping => NoRequest'
  BY <1>1, <1>2, EmptySeq DEF NoRequest, Waiting, Looping
<1>5. Live' => Live \/ (bl = "Sync" /\ timer = 1)
  BY <1>2, <1>3 DEF Live
<1>6. Unhit'
  BY <1>1, <1>2 DEF Unhit
<1>7. Places'
  BY <1>1, <1>2 DEF Places
<1>8. SyncOnce'
  BY <1>1 DEF SyncOnce
<1>9. Syncing'
  BY <1>1, <1>2 DEF Syncing, NoRequest, OnlyIn, HostFrame, Ack
<1>10. \A i \in 1 .. Len(to_host) :
         HostFrame(i) = "RET" =>
           /\ hpc # "idle"
           /\ hpc = "sleep" /\ bl = "Sync" => timer = Timeout
  BY <1>1 DEF NoEcho, Fresh, Places
<1>11. Fresh'
  <2> SUFFICES ASSUME step = "Sync", prev_packet = Control(Erased) PROVE Fresh'
    BY <1>1 DEF Fresh
  <2>1. hpc = "sleep" /\ bl \in Looping /\ bskew # 0 => hpc' = "poll" /\ to_poll' > 0
    <3>1. hpc = "sleep" /\ bl \in Looping /\ bskew # 0 => to_host # <<>>
      BY DEF Fresh, Places
    <3>2. to_host # <<>> => Len(to_host) > 0
      BY LenProperties, EmptySeq DEF LinkInv, LineInv
    <3> QED
      BY <1>1, <3>1, <3>2
  <2>2. ~(hpc \in {"idle", "done"} /\ bl \in Looping /\ bskew # 0)
    BY DEF Fresh
  <2> QED
    BY <1>1, <1>2, <2>1, <2>2 DEF Fresh, HostFrame
<1>12. NoEcho'
  <2> SUFFICES ASSUME hpc' # "done", NEW i \in 1 .. Len(to_host), HostFrame(i) = "RET"
               PROVE  /\ Live' => step = "Sync" /\ (hpc' = "poll" => i <= to_poll')
                      /\ bl = "Sync" => 
                           timer' = Timeout
                             \/ (hpc' = "poll" /\ i <= to_poll' /\ timer' = Timeout - 1)
    BY <1>1, <1>2 DEF NoEcho, HostFrame
  <2>1. hpc = "sleep" /\ hpc' = "poll" /\ i <= to_poll'
    BY <1>1, <1>10
  <2>2. bl = "Sync" => timer = Timeout /\ timer' = Timeout - 1
    BY <1>2, <1>10, <2>1 DEF Looping, Waiting
  <2>3. Live => step = "Sync"
    BY <2>1 DEF NoEcho
  <2> QED
    BY <1>3, <1>5, <2>1, <2>2, <2>3
<1>13. OneRequest'
  <2> SUFFICES ASSUME Live' PROVE NoRequest'
    BY DEF OneRequest, NoRequest
  <2> QED
    BY <1>2, <1>4 DEF Live
<1>14. Skewed'
  BY <1>1, <1>2 DEF Skewed
<1>15. Phases'
  <2> SUFFICES ASSUME Live', step # "Sync"
               PROVE  (Asking /\ Announcing /\ Measuring /\ Receiving /\ Checking)'
    BY <1>1 DEF Phases
  <2>1. CASE bl = "Sync"
    BY <1>2, <2>1 DEF Asking, Announcing, Measuring, Receiving, Checking
  <2>2. CASE bl # "Sync"
    <3>1. Asking /\ Announcing /\ Measuring /\ Receiving /\ Checking
      BY <1>5, <2>2 DEF Phases
    <3>2. bl \in Waiting /\ NoRequest' /\ \A p : UnderWay(p)'
      BY <1>2, <1>4 DEF Live, UnderWay, NoRequest
    <3>3. \A S : OnlyIn(S)' = OnlyIn(S)
      BY <1>1 DEF OnlyIn, HostFrame
    <3>4. ReadyLast' = ReadyLast
      BY <1>1 DEF ReadyLast, OnlyIn, HostFrame
    <3>5. Asking' /\ Announcing' /\ Checking'
      BY <1>1, <1>2, <3>1, <3>2, <3>3 DEF Asking, Announcing, Checking, Waiting
    <3>6. Measuring'
      BY <1>1, <1>2, <3>1, <3>2, <3>3 DEF Measuring, LengthPacket
    <3>7. Receiving'
      <4>1. Prefix' = Prefix /\ ChunkEnd(fw_data, bytes_written)' = ChunkEnd(fw_data, bytes_written)
        BY <1>1, <1>2 DEF Prefix, ChunkEnd
      <4>2. UnderWay(Chunk(fw_data, bytes_written))'
        BY <3>2 DEF UnderWay, NoRequest
      <4> QED
        BY <1>1, <1>2, <3>1, <3>2, <3>3, <3>4, <4>1, <4>2 DEF Receiving
    <3> QED
      BY <3>5, <3>6, <3>7
  <2> QED
    BY <2>1, <2>2
<1>16. Accepted'
  <2>1. Coming => Coming'
    BY <1>1, LenProperties DEF Coming, HostFrame, LinkInv, LineInv
  <2> QED
    BY <1>1, <1>2, <2>1 DEF Accepted
<1>17. RetLast'
  BY <1>1 DEF RetLast, LastPiece, BootFrame, Control
<1>18. Written'
  BY <1>1, <1>2 DEF Written, TimePasses, layerVars, OnlyIn, HostFrame
<1> QED
  BY <1>6, <1>7, <1>8, <1>9, <1>11, <1>12, <1>13, <1>14, <1>15, <1>16, <1>17, <1>18

-----------------------------------------------------------------------------
(* The steps of the board keep it: comms_update, then the loop.            *)

(* A packet of the bootloader joins those on the line to the host.         *)
LEMMA BoardSends ==
  ASSUME LinkInv, Unhit, NEW r \in Answers,
         to_host' = Append(to_host, Burst(FrameBytes, r)),
         UNCHANGED <<packets_queue, hpc, to_poll>>
  PROVE  /\ Len(to_host) \in Nat /\ Len(to_host') = Len(to_host) + 1
         /\ \A i \in 1 .. Len(to_host') :
              \/ i \in 1 .. Len(to_host) /\ HostFrame(i)' = HostFrame(i)
              \/ i = Len(to_host) + 1 /\ HostFrame(i)' = r
         /\ \A i \in 1 .. Len(to_host) : HostFrame(i)' = HostFrame(i)
         /\ \E i \in 1 .. Len(to_host') : i = Len(to_host) + 1 /\ HostFrame(i)' = r
         /\ \A i \in 1 .. Len(to_host') : \E a \in Answers : to_host'[i] = Burst(FrameBytes, a)
         /\ \A S : OnlyIn(S) /\ r \in S => OnlyIn(S)'
         /\ ReadyLast /\ r = "ACK" => ReadyLast'
         /\ OnlyIn(Early) /\ r = "READY_FOR_FW" => ReadyLast'
         /\ Coming => Coming'
<1>1. /\ Len(to_host) \in Nat /\ Len(to_host') = Len(to_host) + 1
      /\ to_host'[Len(to_host) + 1] = Burst(FrameBytes, r)
      /\ \A i \in 1 .. Len(to_host) : to_host'[i] = to_host[i]
      /\ \A i \in 1 .. Len(to_host') : i \in 1 .. Len(to_host) \/ i = Len(to_host) + 1
  BY OneMore DEF LinkInv, LineInv
<1>2. /\ \A i \in 1 .. Len(to_host') :
           \/ i \in 1 .. Len(to_host) /\ HostFrame(i)' = HostFrame(i)
           \/ i = Len(to_host) + 1 /\ HostFrame(i)' = r
      /\ \A i \in 1 .. Len(to_host) : HostFrame(i)' = HostFrame(i)
      /\ \E i \in 1 .. Len(to_host') : i = Len(to_host) + 1 /\ HostFrame(i)' = r
  <2>1. Burst(FrameBytes, r).frame = r
    BY DEF Burst
  <2> QED
    BY <1>1, <2>1 DEF HostFrame
<1>3. \A i \in 1 .. Len(to_host') : \E a \in Answers : to_host'[i] = Burst(FrameBytes, a)
  BY <1>1 DEF Unhit
<1>4. \A S : OnlyIn(S) /\ r \in S => OnlyIn(S)'
  BY <1>2 DEF OnlyIn
<1>5. OnlyIn(Early \cup {"READY_FOR_FW"}) /\ r \in {"ACK", "READY_FOR_FW"} => OnlyIn(Early \cup {"READY_FOR_FW"})'
  BY <1>4 DEF Early, Stale
<1>6. ReadyLast /\ r = "ACK" => ReadyLast'
  BY <1>1, <1>2, <1>5 DEF ReadyLast
<1>7. OnlyIn(Early) => OnlyIn(Early \cup {"READY_FOR_FW"}) /\ "READY_FOR_FW" \notin Early
  BY DEF OnlyIn, Early, Stale
<1>8. OnlyIn(Early) /\ r = "READY_FOR_FW" => ReadyLast'
  <2> SUFFICES ASSUME OnlyIn(Early), r = "READY_FOR_FW" PROVE ReadyLast'
    OBVIOUS
  <2>1. \A i \in 1 .. Len(packets_queue') : packets_queue'[i] # "READY_FOR_FW"
    BY <1>7 DEF OnlyIn
  <2>2. \A i \in 1 .. Len(to_host) : HostFrame(i)' # "READY_FOR_FW"
    BY <1>2, <1>7 DEF OnlyIn
  <2>3. ASSUME NEW i \in 1 .. Len(to_host'), NEW j \in 1 .. Len(to_host'), i < j,
               HostFrame(i)' = "READY_FOR_FW"
        PROVE  FALSE
    BY <1>1, <2>2, <2>3
  <2> QED
    BY <1>5, <1>7, <2>1, <2>3 DEF ReadyLast
<1>9. Coming => Coming'
  <2>1. CASE packets_queue # <<>> /\ packets_queue[1] = "UPDATE_SUCCESS"
    BY <2>1 DEF Coming
  <2>2. ASSUME packets_queue = <<>>, hpc \in {"sleep", "poll"},
               NEW i \in 1 .. Len(to_host), HostFrame(i) = "UPDATE_SUCCESS",
               hpc = "poll" => i <= to_poll, \A j \in 1 .. i - 1 : HostFrame(j) = "ACK"
        PROVE  Coming'
    <3>1. i \in 1 .. Len(to_host') /\ HostFrame(i)' = "UPDATE_SUCCESS"
      BY <1>1, <1>2, <2>2
    <3>2. \A j \in 1 .. i - 1 : HostFrame(j)' = "ACK"
      BY <1>1, <1>2, <2>2
    <3> QED
      BY <2>2, <3>1, <3>2 DEF Coming
  <2> QED
    BY <2>1, <2>2 DEF Coming
<1> QED
  BY <1>1, <1>2, <1>3, <1>4, <1>6, <1>8, <1>9

(* A frame more leaves the bytes of an unfinished one as they are.         *)
LEMMA FrameTurns ==
  ASSUME NEW m \in Nat \ {0}, NEW n \in 0 .. m - 1
  PROVE  n % m = n /\ (n + m) % m = n
<1>1. n % m = n /\ n \in Int
  OBVIOUS
<1>2. \A q \in Int : (n + m * q) % m = n % m
  BY <1>1, ModTurns
<1>3. (n + m * 1) % m = n % m
  BY <1>2
<1>4. m * 1 = m
  OBVIOUS
<1> QED
  BY <1>1, <1>3, <1>4

(* What comms_update does with the first burst of a clean line.            *)
LEMMA LayerTook ==
  ASSUME FramesDiffer, Clean, CommsUpdate, faults' = 0
  PROVE  /\ bl \in Looping \ {"Sync"} /\ to_boot # <<>> /\ to_boot' = Tail(to_boot)
         /\ \/ /\ BootFrame(1) = SyncSeq /\ bskew = 0 /\ bskew' # 0
               /\ UNCHANGED <<to_host, last_written, inbox, halted>>
            \/ /\ BootFrame(1) = SyncSeq /\ bskew # 0 /\ UNCHANGED <<inbox, halted>>
               /\ \/ UNCHANGED <<to_host, last_written>>
                  \/ /\ to_host' = Append(to_host, Burst(FrameBytes, "RET"))
                     /\ last_written' = "RET"
            \/ /\ BootFrame(1) # SyncSeq /\ bskew # 0 /\ bskew' = bskew
               /\ to_host' = Append(to_host, Burst(FrameBytes, "RET"))
               /\ last_written' = "RET" /\ UNCHANGED <<inbox, halted>>
            \/ /\ BootFrame(1) = Ack /\ bskew = 0 /\ bskew' = 0
               /\ UNCHANGED <<to_host, last_written, inbox, halted>>
            \/ /\ BootFrame(1) = Control(RetByte) /\ bskew = 0 /\ bskew' = 0
               /\ last_written # "None" =>
                    to_host' = Append(to_host, Burst(FrameBytes, last_written))
               /\ UNCHANGED <<last_written, inbox, halted>>
            \/ /\ Request(1) /\ BootFrame(1) # Control(RetByte) /\ bskew = 0 /\ bskew' = 0
               /\ \/ /\ inbox = <<>> /\ inbox' = <<BootFrame(1)>> /\ halted' = halted
                     /\ to_host' = Append(to_host, Burst(FrameBytes, "ACK"))
                     /\ last_written' = "ACK"
                  \/ inbox # <<>>
<1> USE DEF Clean, CleanInv
<1>1. /\ to_boot # <<>> /\ to_boot' = Tail(to_boot) /\ bl \in Looping \ {"Sync"}
      /\ fw_data \in Files /\ to_boot \in Seq(Sent(fw_data))
  BY DEF CommsUpdate, CallsUpdate, LinkInv, HostInv, LineInv
<1>2. Head(to_boot) = to_boot[1] /\ 1 \in 1 .. Len(to_boot)
  BY <1>1, TailElements
<1>3. /\ bskew \in 0 .. FrameBytes - 1 /\ FrameBytes \in Nat \ {0}
      /\ SyncBytes \in 1 .. FrameBytes - 1 /\ bskew \in Nat
  BY BurstSizes DEF LinkInv, LayerInv
<1>4. /\ (bskew + FrameBytes) % FrameBytes = bskew /\ SyncBytes % FrameBytes = SyncBytes
  <2>1. SyncBytes \in 0 .. FrameBytes - 1
    BY <1>3
  <2> QED
    BY <1>3, <2>1, FrameTurns
<1>5. CASE BootFrame(1) = SyncSeq
  <2>1. to_boot[1].bytes = SyncBytes
    BY <1>1, <1>2, <1>5, WholeFrames, FramesApart
  <2>2. CASE bskew = 0
    <3>1. ~Completes(bskew, Head(to_boot)) /\ bskew' = SyncBytes % FrameBytes
      BY <1>2, <1>3, <2>1, <2>2 DEF Completes, CommsUpdate, SkewAfter
    <3>2. bskew' # 0 /\ Silent /\ UNCHANGED <<inbox, halted>>
      BY <1>3, <1>4, <3>1 DEF CommsUpdate
    <3> QED
      BY <1>1, <1>5, <2>2, <3>2 DEF Silent
  <2>3. CASE bskew # 0
    <3>1. Received(bskew, Head(to_boot)) = Spoilt
      BY <2>3 DEF Received
    <3>2. Dispatch(Spoilt) => BootWrites("RET") /\ UNCHANGED <<inbox, halted>>
      <4>1. Spoilt # Control(RetByte) /\ Spoilt # Control(AckByte)
        BY <1>1, FramesApart, FilePacketsOf
      <4> QED
        BY <4>1 DEF Dispatch
    <3> QED
      BY <1>1, <1>5, <2>3, <3>1, <3>2, ArrivesAtHost DEF CommsUpdate, Silent, BootWrites
  <2> QED
    BY <2>2, <2>3
<1>6. CASE BootFrame(1) # SyncSeq
  <2>1. /\ to_boot[1].bytes = FrameBytes /\ BootFrame(1) \in FilePackets(fw_data)
        /\ BootFrame(1) # Spoilt /\ Ack # Control(RetByte)
    BY <1>1, <1>2, <1>6, WholeFrames, FramesApart
  <2>2. Completes(bskew, Head(to_boot)) /\ SkewAfter(bskew, Head(to_boot)) = bskew
    <3>1. bskew + FrameBytes >= FrameBytes
      BY <1>3
    <3> QED
      BY <1>2, <1>4, <2>1, <3>1 DEF Completes, SkewAfter
  <2>3. Dispatch(Received(bskew, Head(to_boot))) /\ bskew' = bskew
    BY <2>2 DEF CommsUpdate
  <2>4. CASE bskew # 0
    <3>1. Dispatch(Spoilt)
      BY <2>3, <2>4 DEF Received
    <3>2. Spoilt # Control(RetByte) /\ Spoilt # Control(AckByte)
      BY <1>1, FramesApart, FilePacketsOf
    <3> QED
      BY <1>1, <1>6, <2>3, <2>4, <3>1, <3>2, ArrivesAtHost DEF Dispatch, BootWrites
  <2>5. CASE bskew = 0
    <3>1. Dispatch(BootFrame(1))
      BY <1>2, <2>3, <2>5 DEF Received, BootFrame
    <3> QED
      BY <1>1, <1>6, <2>1, <2>3, <2>5, <3>1, ArrivesAtHost
         DEF Dispatch, BootWrites, Silent, Request, Ack
  <2> QED
    BY <2>4, <2>5
<1> QED
  BY <1>5, <1>6

(* The first burst leaves the line to the bootloader.                      *)
LEMMA BurstLeaves ==
  ASSUME LinkInv, to_boot # <<>>, to_boot' = Tail(to_boot)
  PROVE  /\ 1 \in 1 .. Len(to_boot) /\ Len(to_boot) \in Nat \ {0}
         /\ Head(to_boot) = to_boot[1] /\ Len(to_boot') = Len(to_boot) - 1
         /\ \A i \in 1 .. Len(to_boot') :
              /\ i + 1 \in 1 .. Len(to_boot) /\ to_boot'[i] = to_boot[i + 1]
              /\ BootFrame(i)' = BootFrame(i + 1)
<1>1. to_boot \in Seq(Sent(fw_data))
  BY DEF LinkInv, LineInv
<1>2. /\ Len(to_boot') = Len(to_boot) - 1 /\ Len(to_boot) \in Nat \ {0}
      /\ Head(to_boot) = to_boot[1]
      /\ \A i \in 1 .. Len(to_boot') :
           i + 1 \in 1 .. Len(to_boot) /\ to_boot'[i] = to_boot[i + 1]
  BY <1>1, TailElements
<1> QED
  BY <1>2 DEF BootFrame

(* comms_update takes a frame, and the two ends stay in step.              *)
LEMMA LayerKeeps ==
  ASSUME FramesDiffer, Clean, CommsUpdate, faults' = 0
  PROVE  CleanInv'
<1> USE DEF Clean, CleanInv
<1>1. /\ UNCHANGED <<fw_data, step, hpc, to_poll, hskew, packets_queue>>
      /\ UNCHANGED <<prev_packet, iterations, bytes_sent>>
      /\ UNCHANGED <<bl, timer, fw_length, bytes_written, fw_buffer, reply>>
  BY DEF CommsUpdate, vars, loopVars, hostVars
<1>2. /\ bl \in Looping \ {"Sync"} /\ to_boot # <<>> /\ to_boot' = Tail(to_boot)
      /\ fw_data \in Files
  BY LayerTook DEF LinkInv, HostInv
<1>3. /\ 1 \in 1 .. Len(to_boot) /\ Len(to_boot) \in Nat \ {0}
      /\ Len(to_boot') = Len(to_boot) - 1
      /\ \A i \in 1 .. Len(to_boot') :
           /\ i + 1 \in 1 .. Len(to_boot) /\ to_boot'[i] = to_boot[i + 1]
           /\ BootFrame(i)' = BootFrame(i + 1)
  BY <1>2, BurstLeaves
<1> DEFINE Begun  == /\ BootFrame(1) = SyncSeq /\ bskew = 0 /\ bskew' # 0
                     /\ UNCHANGED <<to_host, last_written, inbox>>
           Ended  == /\ BootFrame(1) = SyncSeq /\ bskew # 0 /\ inbox' = inbox
                     /\ \/ UNCHANGED <<to_host, last_written>>
                        \/ /\ to_host' = Append(to_host, Burst(FrameBytes, "RET"))
                           /\ last_written' = "RET"
           Cut    == /\ BootFrame(1) # SyncSeq /\ bskew # 0 /\ bskew' = bskew /\ inbox' = inbox
                     /\ to_host' = Append(to_host, Burst(FrameBytes, "RET"))
                     /\ last_written' = "RET"
           Acked  == /\ BootFrame(1) = Ack /\ bskew = 0 /\ bskew' = 0
                     /\ UNCHANGED <<to_host, last_written, inbox>>
           Retold == /\ Request(1) /\ bskew = 0 /\ bskew' = 0 /\ step = "Confirm"
                     /\ Len(to_boot) = 1 /\ hpc = "sleep" /\ inbox = <<>>
                     /\ last_written \in Answers \ {"RET"}
                     /\ to_host' = Append(to_host, Burst(FrameBytes, last_written))
                     /\ UNCHANGED <<last_written, inbox>>
           Kept   == /\ Request(1) /\ bskew = 0 /\ bskew' = 0 /\ step # "Sync"
                     /\ Len(to_boot) = 1 /\ hpc = "sleep"
                     /\ inbox = <<>> /\ inbox' = <<BootFrame(1)>>
                     /\ to_host' = Append(to_host, Burst(FrameBytes, "ACK"))
                     /\ last_written' = "ACK"
<1>4. BootFrame(1) = SyncSeq => step = "Sync" /\ hpc = "sleep"
  BY <1>3 DEF SyncOnce
<1>5. step = "Sync" => ~Request(1)
  BY <1>3 DEF Syncing, NoRequest
<1>6. Request(1) /\ bskew = 0 =>
        step # "Sync" /\ inbox = <<>> /\ Len(to_boot) = 1 /\ hpc = "sleep"
  <2> SUFFICES ASSUME Request(1), bskew = 0
               PROVE  step # "Sync" /\ inbox = <<>> /\ Len(to_boot) = 1 /\ hpc = "sleep"
    OBVIOUS
  <2>1. Live /\ step # "Sync" /\ ~NoRequest
    BY <1>2, <1>3, <1>5 DEF Live, NoRequest
  <2> QED
    BY <1>3, <2>1 DEF OneRequest
<1>7. SyncSeq # Ack /\ SyncSeq # Control(RetByte) /\ Ack # Control(RetByte)
  BY <1>2, FramesApart
<1>8. BootFrame(1) = Control(RetByte) /\ bskew = 0 =>
         Request(1) /\ step = "Confirm" /\ last_written \in Answers \ {"None", "RET"}
  <2> SUFFICES ASSUME BootFrame(1) = Control(RetByte), bskew = 0
               PROVE  /\ Request(1) /\ step = "Confirm"
                      /\ last_written \in Answers \ {"None", "RET"}
    OBVIOUS
  <2>1. Request(1)
    BY <1>7 DEF Request
  <2>2. step \in {"Confirm"} \cup Over
    BY <1>3 DEF RetLast, LastPiece
  <2>3. step = "Confirm"
    BY <1>6, <2>1, <2>2 DEF Places
  <2> QED
    BY <1>2, <2>1, <2>3 DEF Written, LinkInv, LayerInv
<1>9. halted' = halted /\ (Begun \/ Ended \/ Cut \/ Acked \/ Retold \/ Kept)
  BY <1>6, <1>8, LayerTook
<1>10. /\ \/ to_host' = to_host
          \/ to_host' = Append(to_host, Burst(FrameBytes, "RET")) /\ (Ended \/ Cut)
          \/ to_host' = Append(to_host, Burst(FrameBytes, "ACK")) /\ Kept
          \/ to_host' = Append(to_host, Burst(FrameBytes, last_written)) /\ Retold
       /\ "ACK" \in Answers /\ "RET" \in Answers
  BY <1>9 DEF Answers
<1>11. /\ \A S : /\ OnlyIn(S) /\ (Ended \/ Cut => "RET" \in S)
                /\ (Kept => "ACK" \in S) /\ (Retold => last_written \in S)
                => OnlyIn(S)'
       /\ ReadyLast /\ ~Ended /\ ~Cut /\ ~Retold => ReadyLast'
       /\ Coming => Coming'
       /\ \A i \in 1 .. Len(to_host') : \E a \in Answers : to_host'[i] = Burst(FrameBytes, a)
  <2>1. CASE to_host' = to_host
    BY <1>1, <2>1 DEF OnlyIn, ReadyLast, Coming, HostFrame, Unhit
  <2>2. CASE to_host' = Append(to_host, Burst(FrameBytes, "RET")) /\ (Ended \/ Cut)
    BY <1>1, <1>10, <2>2, BoardSends
  <2>3. CASE to_host' = Append(to_host, Burst(FrameBytes, "ACK")) /\ Kept
    BY <1>1, <1>10, <2>3, BoardSends
  <2>4. CASE to_host' = Append(to_host, Burst(FrameBytes, last_written)) /\ Retold
    BY <1>1, <2>4, BoardSends
  <2> QED
    BY <1>10, <2>1, <2>2, <2>3, <2>4
<1>12. \A i \in 1 .. Len(to_host') :
         HostFrame(i)' = "RET" =>
           Ended \/ Cut \/ (i \in 1 .. Len(to_host) /\ HostFrame(i) = "RET")
  <2>1. CASE to_host' = to_host
    BY <2>1 DEF HostFrame
  <2>2. CASE to_host' = Append(to_host, Burst(FrameBytes, "ACK")) /\ Kept
    BY <1>1, <1>10, <2>2, BoardSends
  <2>3. CASE to_host' = Append(to_host, Burst(FrameBytes, last_written)) /\ Retold
    BY <1>1, <2>3, BoardSends
  <2> QED
    BY <1>10, <2>1, <2>2, <2>3
<1>13. Acked \/ Kept \/ Retold => Live /\ Live'
  BY <1>1, <1>2 DEF Live
<1>14. Live' /\ step # "Sync" => Acked \/ Kept \/ Retold
  BY <1>4, <1>9 DEF Live
<1>15. \A i \in 1 .. Len(to_boot') : Request(i)' => i + 1 \in 1 .. Len(to_boot) /\ Request(i + 1)
  BY <1>3 DEF Request, Ack
<1>16. ~Kept /\ NoRequest => NoRequest'
  BY <1>9, <1>15 DEF NoRequest
<1>17. Unhit'
  <2>1. \A i \in 1 .. Len(to_boot') :
          \/ to_boot'[i] = Burst(SyncBytes, SyncSeq)
          \/ \E p \in FilePackets(fw_data) : to_boot'[i] = Burst(FrameBytes, p)
    BY <1>3 DEF Unhit
  <2> QED
    BY <1>1, <1>9, <1>11, <2>1 DEF Unhit
<1>18. Places'
  BY <1>1, <1>2 DEF Places
<1>19. SyncOnce'
  BY <1>1, <1>3 DEF SyncOnce
<1>20. Syncing'
  <2> SUFFICES ASSUME step = "Sync" PROVE Syncing'
    BY <1>1 DEF Syncing
  <2>1. ~Kept /\ ~Retold
    BY <1>5
  <2>2. OnlyIn(Stale \cup {"RET"})'
    BY <1>11, <2>1 DEF Syncing
  <2> QED
    BY <1>1, <1>16, <2>1, <2>2 DEF Syncing, Ack
<1>21. Fresh'
  <2> SUFFICES ASSUME step = "Sync", prev_packet = Control(Erased) PROVE Fresh'
    BY <1>1 DEF Fresh
  <2>1. Len(to_boot) = 1 /\ BootFrame(1) = SyncSeq /\ hpc = "sleep" /\ bskew = 0
    <3>1. Len(to_boot) \in 1 .. Len(to_boot)
      BY <1>3
    <3> QED
      BY <1>2, <1>3, <1>4, <3>1 DEF Fresh
  <2>2. Begun
    BY <1>9, <1>7, <2>1 DEF Request
  <2>3. to_boot' = <<>>
    <3>1. to_boot' \in Seq(Sent(fw_data)) /\ Len(to_boot') = 0
      BY <1>2, <1>3, <2>1, BurstTaken
    <3> QED
      BY <3>1, EmptySeq
  <2>4. to_host # <<>>
    BY <1>2 DEF Fresh
  <2> QED
    BY <1>1, <1>3, <2>1, <2>2, <2>3, <2>4 DEF Fresh, HostFrame
<1>22. NoEcho'
  <2> SUFFICES ASSUME hpc # "done", NEW i \in 1 .. Len(to_host'), HostFrame(i)' = "RET", Live'
               PROVE  step = "Sync" /\ (hpc = "poll" => i <= to_poll)
    BY <1>1, <1>2 DEF NoEcho
  <2>1. ~Begun /\ ~Cut
    BY DEF Live
  <2>2. CASE Ended
    BY <1>4, <2>2
  <2>3. CASE Acked \/ Kept \/ Retold
    <3>1. Live /\ ~Ended /\ ~Cut
      BY <1>13, <2>3
    <3>2. i \in 1 .. Len(to_host) /\ HostFrame(i) = "RET"
      BY <1>12, <3>1
    <3> QED
      BY <3>1, <3>2 DEF NoEcho
  <2> QED
    BY <1>9, <2>1, <2>2, <2>3
<1>23. OneRequest'
  <2> SUFFICES ASSUME Live', step # "Sync"
               PROVE  /\ \A i \in 1 .. Len(to_boot') :
                           Request(i)' => i = Len(to_boot') /\ inbox' = <<>>
                      /\ NoRequest' \/ hpc = "sleep"
    BY <1>1 DEF OneRequest
  <2>1. CASE Acked
    <3>1. Live /\ inbox' = inbox /\ ~Kept
      BY <1>7, <1>13, <2>1 DEF Request
    <3>2. \A i \in 1 .. Len(to_boot) : Request(i) => i = Len(to_boot) /\ inbox = <<>>
      BY <3>1 DEF OneRequest
    <3>3. \A i \in 1 .. Len(to_boot') : Request(i)' => i = Len(to_boot') /\ inbox' = <<>>
      <4> TAKE i \in 1 .. Len(to_boot')
      <4>1. Request(i)' => i + 1 = Len(to_boot) /\ inbox = <<>>
        BY <1>15, <3>2
      <4> QED
        BY <1>3, <3>1, <4>1
    <3> QED
      BY <1>16, <3>1, <3>3 DEF OneRequest
  <2>2. CASE Kept \/ Retold
    <3>1. \A i \in 1 .. Len(to_boot') : FALSE
      BY <1>3, <2>2
    <3> QED
      BY <2>2, <3>1
  <2> QED
    BY <1>14, <2>1, <2>2
<1>24. Skewed'
  <2> SUFFICES ASSUME step # "Sync", bskew' # 0 PROVE inbox' = <<>> /\ bl \notin Served
    BY <1>1 DEF Skewed
  <2>1. Cut
    BY <1>4, <1>9
  <2> QED
    BY <1>2, <2>1 DEF Skewed
<1>25. Phases'
  <2> SUFFICES ASSUME Live', step # "Sync"
               PROVE  (Asking /\ Announcing /\ Measuring /\ Receiving /\ Checking)'
    BY <1>1 DEF Phases
  <2>1. (Acked \/ Kept \/ Retold) /\ Live
    BY <1>13, <1>14
  <2>2. Asking /\ Announcing /\ Measuring /\ Receiving /\ Checking
    BY <2>1 DEF Phases
  <2>3. CASE Retold
    <3>1. ~NoRequest /\ step = "Confirm"
      BY <1>3, <2>3 DEF NoRequest
    <3>2. bl \notin {"WaitingForUpdateReq", "FWLengthReq", "FWLengthRes", "CheckSignature"}
      BY <2>2, <3>1 DEF Asking, Announcing, Measuring, Checking
    <3>3. CASE bl = "ReceiveFW"
      <4>1. NoRequest'
        <5>1. \A i \in 1 .. Len(to_boot') : FALSE
          BY <1>3, <2>3
        <5> QED
          BY <2>3, <5>1 DEF NoRequest
      <4>2. /\ fw_length = Len(fw_data) /\ bytes_written < fw_length
            /\ bytes_written % Payload = 0 /\ Prefix
            /\ bytes_sent = ChunkEnd(fw_data, bytes_written) /\ OnlyIn({"ACK"})
        BY <2>2, <3>1, <3>3 DEF Receiving
      <4>3. OnlyIn(Answers \ {"RET", "UPDATE_SUCCESS"})'
        <5>1. last_written # "UPDATE_SUCCESS"
          <6>1. reply # "UPDATE_SUCCESS"
            BY <3>3 DEF Accepted, Accepting, Flashing
          <6> QED
            BY <6>1 DEF Written
        <5>2. OnlyIn(Answers \ {"RET", "UPDATE_SUCCESS"})
          BY <4>2 DEF OnlyIn, Answers
        <5> QED
          BY <1>7, <1>11, <2>3, <5>1, <5>2
      <4>4. Receiving'
        BY <1>1, <2>3, <4>1, <4>2, <4>3 DEF Receiving, Prefix, ChunkEnd
      <4> QED
        BY <1>1, <3>3, <4>4 DEF Asking, Announcing, Measuring, Checking
    <3> QED
      BY <1>1, <3>2, <3>3 DEF Asking, Announcing, Measuring, Receiving, Checking
  <2> SUFFICES ASSUME Acked \/ Kept, ~Retold
               PROVE  (Asking /\ Announcing /\ Measuring /\ Receiving /\ Checking)'
    BY <2>1, <2>3
  <2>4. \A S : OnlyIn(S) /\ "ACK" \in S => OnlyIn(S)'
    BY <1>11, <2>1
  <2>5. NoRequest => NoRequest'
    BY <1>3, <1>16 DEF NoRequest
  <2>6. ASSUME NEW p, UnderWay(p)
        PROVE  /\ inbox' # <<>> => inbox'[1] = p
               /\ \A i \in 1 .. Len(to_boot') : Request(i)' => BootFrame(i)' = p
    <3>1. \A i \in 1 .. Len(to_boot') : Request(i)' => BootFrame(i)' = p
      BY <1>3, <1>15, <2>6 DEF UnderWay
    <3>2. CASE Acked
      BY <2>6, <3>1, <3>2 DEF UnderWay
    <3>3. CASE Kept
      BY <1>3, <2>6, <3>1, <3>3 DEF UnderWay
    <3> QED
      BY <2>1, <3>2, <3>3
  <2>7. Asking' /\ Announcing'
    BY <1>1, <2>2, <2>4, <2>5 DEF Asking, Announcing, Stale, Early
  <2>8. Measuring'
    <3>1. LengthPacket' = LengthPacket
      BY <1>1 DEF LengthPacket
    <3>2. UnderWay(LengthPacket) => UnderWay(LengthPacket)'
      BY <2>6, <3>1 DEF UnderWay
    <3> QED
      BY <1>1, <2>2, <2>4, <2>5, <3>2 DEF Measuring, Stale, Early
  <2>9. Receiving'
    <3>1. /\ Prefix' = Prefix /\ ChunkEnd(fw_data, bytes_written)' = ChunkEnd(fw_data, bytes_written)
          /\ Chunk(fw_data, bytes_written)' = Chunk(fw_data, bytes_written)
      BY <1>1 DEF Prefix, ChunkEnd, Chunk
    <3>2. UnderWay(Chunk(fw_data, bytes_written)) => UnderWay(Chunk(fw_data, bytes_written))'
      BY <2>6, <3>1 DEF UnderWay
    <3>3. /\ ReadyLast => ReadyLast'
          /\ OnlyIn({"ACK"}) => OnlyIn({"ACK"})'
          /\ OnlyIn(Answers \ {"RET", "UPDATE_SUCCESS"})
               => OnlyIn(Answers \ {"RET", "UPDATE_SUCCESS"})'
      BY <1>11, <2>1, <2>4 DEF Answers
    <3> QED
      BY <1>1, <2>2, <2>5, <3>1, <3>2, <3>3 DEF Receiving
  <2>10. Checking'
    <3>1. Prefix' = Prefix
      BY <1>1 DEF Prefix
    <3> QED
      BY <1>1, <2>2, <2>4, <2>5, <3>1 DEF Checking
  <2> QED
    BY <2>7, <2>8, <2>9, <2>10
<1>26. Accepted'
  BY <1>1, <1>11 DEF Accepted
<1>27. RetLast'
  BY <1>1, <1>3, LastPieceKept DEF LastPiece
<1>28. Written'
  <2>1. last_written' \in {"ACK", "RET", reply'} /\ last_written' # "None"
    BY <1>1, <1>2, <1>9 DEF Written
  <2>2. ASSUME last_written' = "RET", bskew' = 0
        PROVE  step \in {"Sync", "UpReq", "Failed"} /\ OnlyIn(Stale \cup {"RET"})'
    <3>1. CASE Ended
      BY <1>4, <1>11, <3>1 DEF Syncing, Stale
    <3>2. CASE Acked
      <4>1. step \in {"Sync", "UpReq", "Failed"} /\ OnlyIn(Stale \cup {"RET"})
        BY <1>2, <2>2, <3>2 DEF Written
      <4>2. ~Kept /\ ~Retold
        BY <3>2 DEF Request
      <4> QED
        BY <1>11, <4>1, <4>2
    <3> QED
      BY <1>9, <2>2, <3>1, <3>2
  <2> QED
    BY <1>1, <2>1, <2>2 DEF Written
<1> QED
  BY <1>17, <1>18, <1>19, <1>20, <1>21, <1>22, <1>23, <1>24, <1>25, <1>26, <1>27, <1>28

(* In BL_Sync the board hears the sync sequence, or passes over a frame.   *)
LEMMA SyncHeardKeeps ==
  ASSUME FramesDiffer, Clean, BootSync, faults' = 0
  PROVE  CleanInv'
<1> USE DEF Clean, CleanInv
<1>1. /\ UNCHANGED <<fw_data, step, hpc, to_poll, hskew, packets_queue>>
      /\ UNCHANGED <<prev_packet, iterations, bytes_sent>>
      /\ UNCHANGED <<bskew, inbox, halted>>
      /\ bl = "Sync" /\ to_boot # <<>> /\ fw_data \in Files
  BY DEF BootSync, hostVars, LinkInv, HostInv
<1>2. /\ bskew = 0 /\ inbox = <<>>
  BY <1>1 DEF Places
<1>3. /\ 1 \in 1 .. Len(to_boot) /\ BootFrame(1) = Head(to_boot).frame
      /\ Len(to_boot) \in Nat \ {0}
      /\ to_boot' = Tail(to_boot) =>
           /\ Len(to_boot') = Len(to_boot) - 1
           /\ \A i \in 1 .. Len(to_boot') :
                /\ i + 1 \in 1 .. Len(to_boot) /\ to_boot'[i] = to_boot[i + 1]
                /\ BootFrame(i)' = BootFrame(i + 1)
  <2>1. to_boot \in Seq(Sent(fw_data))
    BY DEF LinkInv, LineInv
  <2>2. /\ 1 \in 1 .. Len(to_boot) /\ Head(to_boot) = to_boot[1] /\ Len(to_boot) \in Nat \ {0}
    BY <1>1, <2>1, TailElements
  <2> QED
    BY <1>1, <2>2, BurstLeaves DEF BootFrame
<1>4. CASE Head(to_boot).frame = SyncSeq
  <2>1. /\ bl' = "WaitingForUpdateReq" /\ reply' = "SYN_OBSERVED"
        /\ bytes_written' = bytes_written
        /\ SendToHost("SYN_OBSERVED") /\ to_boot' \in {Tail(to_boot), <<>>}
    BY <1>4 DEF BootSync, SyncObserved, BootWrites
  <2>2. step = "Sync" /\ hpc = "sleep"
    BY <1>3, <1>4 DEF SyncOnce
  <2>3. to_host' = Append(to_host, Burst(FrameBytes, "SYN_OBSERVED"))
          /\ "SYN_OBSERVED" \in Answers
    BY <2>1, ArrivesAtHost DEF Answers, Reply
  <2>4. /\ Len(to_host) \in Nat /\ Len(to_host') = Len(to_host) + 1
        /\ \A i \in 1 .. Len(to_host') :
             \/ i \in 1 .. Len(to_host) /\ HostFrame(i)' = HostFrame(i)
             \/ i = Len(to_host) + 1 /\ HostFrame(i)' = "SYN_OBSERVED"
        /\ \A i \in 1 .. Len(to_host') : \E a \in Answers : to_host'[i] = Burst(FrameBytes, a)
        /\ \A S : OnlyIn(S) /\ "SYN_OBSERVED" \in S => OnlyIn(S)'
    BY <1>1, <2>3, BoardSends
  <2>5. \A i \in 1 .. Len(to_boot') :
          /\ i + 1 \in 1 .. Len(to_boot) /\ to_boot'[i] = to_boot[i + 1]
          /\ BootFrame(i)' = BootFrame(i + 1)
    <3>1. CASE to_boot' = Tail(to_boot)
      BY <1>3, <3>1
    <3>2. CASE to_boot' = <<>>
      <4>1. \A i \in 1 .. Len(to_boot') : FALSE
        BY <3>2
      <4> QED
        BY <4>1
    <3> QED
      BY <2>1, <3>1, <3>2
  <2>6. Unhit'
    BY <1>1, <2>4, <2>5 DEF Unhit
  <2>7. Places'
    BY <1>1, <2>1, <2>2 DEF Places
  <2>8. SyncOnce'
    BY <1>1, <2>2 DEF SyncOnce
  <2>9. Syncing'
    <3>1. NoRequest'
      BY <1>1, <2>2, <2>5 DEF Syncing, NoRequest, Request, Ack
    <3>2. OnlyIn(Stale \cup {"RET"})'
      BY <2>2, <2>4 DEF Syncing, Stale
    <3> QED
      BY <1>1, <2>1, <2>2, <3>1, <3>2 DEF Syncing, Served, Flashing, Ack
  <2>10. Fresh'
    <3> SUFFICES ASSUME prev_packet = Control(Erased) PROVE Fresh'
      BY <1>1 DEF Fresh
    <3>1. \A i \in 1 .. Len(to_boot') : FALSE
      <4> SUFFICES ASSUME NEW i \in 1 .. Len(to_boot') PROVE FALSE
        OBVIOUS
      <4>1. i + 1 = 1
        BY <2>2, <2>5 DEF Fresh
      <4> QED
        BY <4>1
    <3>2. to_host' # <<>>
      BY <2>4
    <3>3. \A i \in 1 .. Len(to_host') : HostFrame(i)' \notin {"ACK", "RET"}
      BY <2>2, <2>4 DEF Fresh
    <3> QED
      BY <1>1, <1>2, <3>1, <3>2, <3>3 DEF Fresh
  <2>11. NoEcho'
    BY <1>1, <2>1, <2>2 DEF NoEcho
  <2>12. OneRequest' /\ Skewed' /\ Phases'
    BY <1>1, <2>2 DEF OneRequest, Skewed, Phases
  <2>13. Accepted'
    BY <2>1 DEF Accepted
  <2>14. Written' /\ RetLast'
    <3>1. last_written' = "SYN_OBSERVED"
      BY <1>4, <2>1 DEF BootSync, BootWrites
    <3> QED
      BY <1>1, <2>1, <2>5, <3>1, LastPieceKept DEF Written, LastPiece
  <2> QED
    BY <2>6, <2>7, <2>8, <2>9, <2>10, <2>11, <2>12, <2>13, <2>14
<1>5. CASE Head(to_boot).frame # SyncSeq
  <2>1. /\ to_boot' = Tail(to_boot) /\ UNCHANGED to_host
        /\ UNCHANGED <<bl, timer, fw_length, bytes_written, fw_buffer, reply>>
    BY <1>5 DEF BootSync, Silent, vars, loopVars
  <2>2. \A i \in 1 .. Len(to_boot') :
          /\ i + 1 \in 1 .. Len(to_boot) /\ to_boot'[i] = to_boot[i + 1]
          /\ BootFrame(i)' = BootFrame(i + 1)
    BY <1>3, <2>1
  <2>3. \A i \in 1 .. Len(to_boot') :
          Request(i)' => i + 1 \in 1 .. Len(to_boot) /\ Request(i + 1)
    BY <2>2 DEF Request, Ack
  <2>4. NoRequest => NoRequest'
    BY <1>1, <2>3 DEF NoRequest
  <2>5. Live' = Live
    BY <1>1, <2>1 DEF Live
  <2>6. Unhit'
    BY <1>1, <2>1, <2>2 DEF Unhit
  <2>7. Places' /\ Skewed' /\ NoEcho'
    BY <1>1, <2>1, <2>5 DEF Places, Skewed, NoEcho, HostFrame
  <2>8. SyncOnce'
    BY <1>1, <2>2 DEF SyncOnce
  <2>9. Syncing'
    BY <1>1, <2>1, <2>4 DEF Syncing, OnlyIn, HostFrame, Ack
  <2>10. Fresh'
    BY <1>1, <1>3, <1>5 DEF Fresh
  <2>11. OneRequest'
    <3> SUFFICES ASSUME Live, step # "Sync"
                 PROVE  /\ \A i \in 1 .. Len(to_boot') :
                             Request(i)' => i = Len(to_boot') /\ inbox' = <<>>
                        /\ NoRequest' \/ hpc = "sleep"
      BY <1>1, <2>5 DEF OneRequest
    <3>1. /\ \A i \in 1 .. Len(to_boot) : Request(i) => i = Len(to_boot) /\ inbox = <<>>
          /\ NoRequest \/ hpc = "sleep"
      BY DEF OneRequest
    <3>2. \A i \in 1 .. Len(to_boot') : Request(i)' => i + 1 = Len(to_boot) /\ inbox = <<>>
      BY <2>3, <3>1
    <3>3. Len(to_boot') = Len(to_boot) - 1 /\ Len(to_boot) \in Int
      BY <1>3, <2>1
    <3>4. \A i \in 1 .. Len(to_boot') : Request(i)' => i = Len(to_boot')
      BY <3>2, <3>3
    <3> QED
      BY <1>1, <2>4, <3>1, <3>2, <3>4
  <2>12. Phases'
    BY <1>1, <2>1 DEF Phases, Asking, Announcing, Measuring, Receiving, Checking
  <2>13. Accepted'
    BY <1>1, <2>1 DEF Accepted, Coming, HostFrame
  <2>14. Written' /\ RetLast'
    <3>1. last_written' = last_written
      BY <1>5 DEF BootSync, Silent
    <3> QED
      BY <1>1, <2>1, <2>2, <3>1, LastPieceKept DEF Written, LastPiece
  <2> QED
    BY <2>6, <2>7, <2>8, <2>9, <2>10, <2>11, <2>12, <2>13, <2>14
<1> QED
  BY <1>4, <1>5

(* What a step of the loop must leave alone, or may do, to keep in step.   *)
BoardMoves ==
  /\ UNCHANGED <<hostVars, to_boot, bskew, halted>> /\ inbox' \in {inbox, <<>>}
  /\ bl' # "Sync" /\ (bl' \in Looping => bl \in Looping)
  /\ bl' \in {"WaitingForUpdateReq", "FWLengthReq", "FWLengthRes"} => bytes_written' = 0
  /\ bl = "Sync" => timer = 0 /\ to_host' # to_host
  /\ bl' \in Served => bl \in Served \/ inbox # <<>>
  /\ \/ UNCHANGED <<to_host, last_written, reply>>
     \/ \E r \in Answers \ {"ACK", "RET", "None"} :
          /\ to_host' = Append(to_host, Burst(FrameBytes, r))
          /\ last_written' = r /\ reply' = r
          /\ r \in Stale \/ bl \in Served \/ inbox # <<>>

(* What holds after any such step.                                         *)
LEMMA MovesKeep ==
  ASSUME FramesDiffer, Clean, BoardMoves
  PROVE  /\ Unhit' /\ Places' /\ SyncOnce' /\ Syncing' /\ Fresh' /\ NoEcho'
         /\ OneRequest' /\ Skewed' /\ RetLast' /\ Written'
<1> USE DEF Clean, CleanInv
<1>1. /\ UNCHANGED <<fw_data, step, hpc, to_poll, hskew, packets_queue>>
      /\ UNCHANGED <<prev_packet, iterations, bytes_sent>>
      /\ UNCHANGED <<to_boot, bskew, halted>>
      /\ inbox = <<>> => inbox' = <<>>
      /\ bl' # "Sync"
      /\ \A i \in 1 .. Len(to_boot) : BootFrame(i)' = BootFrame(i)
  BY DEF BoardMoves, hostVars, BootFrame
<1>2. Live' => Live
  BY <1>1 DEF BoardMoves, Live
<1> DEFINE Told ==
      /\ \A i \in 1 .. Len(to_host') : \E a \in Answers : to_host'[i] = Burst(FrameBytes, a)
      /\ \A i \in 1 .. Len(to_host') :
           \/ i \in 1 .. Len(to_host) /\ HostFrame(i)' = HostFrame(i)
           \/ HostFrame(i)' \notin {"ACK", "RET"}
      /\ to_host' = to_host \/ to_host' # <<>>
      /\ bl \notin Served /\ inbox = <<>> /\ OnlyIn(Stale \cup {"RET"})
           => OnlyIn(Stale \cup {"RET"})'
<1>3. Told
  <2>1. CASE to_host' = to_host
    BY <1>1, <2>1 DEF HostFrame, OnlyIn, Unhit
  <2>2. ASSUME NEW r \in Answers \ {"ACK", "RET"},
               to_host' = Append(to_host, Burst(FrameBytes, r)),
               r \in Stale \/ bl \in Served \/ inbox # <<>>
        PROVE  Told
    <3>1. /\ Len(to_host) \in Nat /\ Len(to_host') = Len(to_host) + 1
          /\ \A i \in 1 .. Len(to_host') :
               \/ i \in 1 .. Len(to_host) /\ HostFrame(i)' = HostFrame(i)
               \/ i = Len(to_host) + 1 /\ HostFrame(i)' = r
          /\ \A i \in 1 .. Len(to_host') : \E a \in Answers : to_host'[i] = Burst(FrameBytes, a)
          /\ \A S : OnlyIn(S) /\ r \in S => OnlyIn(S)'
      BY <1>1, <2>2, BoardSends
    <3>2. Len(to_host') # 0 /\ Len(<<>>) = 0
      BY <3>1
    <3> QED
      BY <2>2, <3>1, <3>2
  <2> QED
    BY <2>1, <2>2 DEF BoardMoves
<1>4. NoRequest => NoRequest'
  BY <1>1 DEF NoRequest, Request, Ack
<1>5. Unhit'
  BY <1>1, <1>3 DEF Unhit
<1>6. Places'
  BY <1>1 DEF Places, BoardMoves
<1>7. SyncOnce'
  BY <1>1 DEF SyncOnce
<1>8. Syncing'
  <2> SUFFICES ASSUME step = "Sync" PROVE Syncing'
    BY <1>1 DEF Syncing
  <2>1. inbox = <<>> /\ bl \notin Served /\ bl' \notin Served
    BY DEF Syncing, NoRequest, BoardMoves
  <2> QED
    BY <1>1, <1>3, <1>4, <2>1 DEF Syncing, Ack
<1>9. Fresh'
  <2> SUFFICES ASSUME step = "Sync", prev_packet = Control(Erased) PROVE Fresh'
    BY <1>1 DEF Fresh
  <2>1. \A i \in 1 .. Len(to_host') : HostFrame(i)' \notin {"ACK", "RET"}
    BY <1>3 DEF Fresh
  <2>2. bl' \in Looping \ {"Sync"} => to_host' # <<>>
    BY <1>3 DEF BoardMoves, Fresh
  <2> QED
    BY <1>1, <2>1, <2>2 DEF BoardMoves, Fresh
<1>10. NoEcho'
  BY <1>1, <1>2, <1>3 DEF NoEcho
<1>11. OneRequest'
  BY <1>1, <1>2, <1>4 DEF OneRequest, Request, Ack
<1>12. Skewed'
  BY <1>1 DEF Skewed, BoardMoves
<1>13. RetLast'
  BY <1>1 DEF RetLast, LastPiece, Control
<1>14. Written'
  <2>1. CASE UNCHANGED <<to_host, last_written, reply>>
    BY <1>1, <2>1 DEF Written, BoardMoves, OnlyIn, HostFrame
  <2>2. CASE last_written' = reply' /\ last_written' \notin {"RET", "None"}
    BY <2>2 DEF Written
  <2> QED
    BY <2>1, <2>2 DEF BoardMoves
<1> QED
  BY <1>5, <1>6, <1>7, <1>8, <1>9, <1>10, <1>11, <1>12, <1>13, <1>14

(* A board that is served is one that counts bytes right.                  *)
LEMMA ServedLive ==
  ASSUME CleanInv, bl \in Served
  PROVE  step # "Sync" /\ Live /\ bl # "Sync"
<1>1. bl \in Looping /\ bl # "Sync"
  BY DEF Served, Looping, Flashing, Waiting
<1>2. step # "Sync" /\ bskew = 0
  BY <1>1 DEF CleanInv, Syncing, Skewed
<1> QED
  BY <1>1, <1>2 DEF Live

(* A board that loses patience stays in step.                              *)
LEMMA TimesOutKeeps ==
  ASSUME FramesDiffer, Clean, BootTimesOut, faults' = 0
  PROVE  CleanInv'
<1>1. /\ bl \in Waiting /\ timer = 0 /\ reply' = "NAK" /\ bl' = "UpdateTimeout"
      /\ last_written' = "NAK"
      /\ SendToHost("NAK") /\ UNCHANGED <<to_boot, bskew, inbox, halted, hostVars>>
  BY DEF BootTimesOut, CheckForTimeout, BootWrites
<1>2. to_host' = Append(to_host, Burst(FrameBytes, "NAK"))
  BY <1>1, ArrivesAtHost DEF Clean
<1>3. to_host' # to_host
  <2>1. Len(to_host') = Len(to_host) + 1 /\ Len(to_host) \in Nat
    BY <1>2, OneMore DEF Clean, LinkInv, LineInv
  <2> QED
    BY <2>1
<1>4. "NAK" \in Answers \ {"ACK", "RET", "None"} /\ "NAK" \in Stale
  BY DEF Answers, Reply, Stale
<1>5. BoardMoves
  BY <1>1, <1>2, <1>3, <1>4 DEF BoardMoves, Looping, Waiting, Served, Flashing
<1>6. Phases' /\ Accepted'
  BY <1>1 DEF Phases, Accepted, Asking, Announcing, Measuring, Receiving, Checking
<1> QED
  BY <1>5, <1>6, MovesKeep DEF CleanInv

(* A board that asks for the length, checks, flashes or starts stays in    *)
(* step.                                                                   *)
LEMMA ComputesKeep ==
  ASSUME FramesDiffer, Clean, BootComputes, faults' = 0
  PROVE  CleanInv'
<1>1. /\ UNCHANGED <<to_boot, bskew, inbox, halted, hostVars>>
      /\ UNCHANGED <<fw_data, step, hpc, to_poll, packets_queue, bytes_sent>>
      /\ \A i \in 1 .. Len(to_boot) : BootFrame(i)' = BootFrame(i)
  BY DEF BootComputes, hostVars, BootFrame
<1>2. Places /\ Syncing /\ Phases /\ Accepted /\ Unhit /\ LinkInv
  BY DEF Clean, CleanInv
<1>3. NoRequest => NoRequest'
  BY <1>1 DEF NoRequest, Request, Ack
<1>4. CASE FWLengthReq /\ BootWrites(reply')
  <2>1. /\ bl = "FWLengthReq" /\ bl' = "FWLengthRes" /\ reply' = "FW_LENGTH_REQ"
        /\ bytes_written' = bytes_written /\ SendToHost("FW_LENGTH_REQ")
        /\ last_written' = reply'
    BY <1>4 DEF FWLengthReq, BootWrites
  <2>2. to_host' = Append(to_host, Burst(FrameBytes, "FW_LENGTH_REQ"))
    BY <2>1, ArrivesAtHost DEF Clean
  <2>3. "FW_LENGTH_REQ" \in Answers \ {"ACK", "RET", "None"} /\ bl \in Served /\ bl' \in Looping
    BY <2>1 DEF Answers, Reply, Served, Looping, Waiting
  <2>4. BoardMoves
    BY <1>1, <1>2, <2>1, <2>2, <2>3 DEF BoardMoves, Places, Looping
  <2>5. step = "UpReq" /\ NoRequest /\ OnlyIn(Early) /\ bytes_sent = 0
    <3>1. Announcing
      BY <1>2, <2>3, ServedLive DEF Phases, Clean
    <3> QED
      BY <1>2, <2>1, <3>1 DEF Announcing, LinkInv, HostInv
  <2>6. OnlyIn(Early)'
    BY <1>1, <1>2, <2>2, <2>3, <2>5, BoardSends DEF Early
  <2>7. Phases'
    BY <1>1, <1>3, <2>1, <2>5, <2>6
       DEF Phases, Asking, Announcing, Measuring, Receiving, Checking
  <2>8. Accepted'
    BY <2>1 DEF Accepted
  <2> QED
    BY <2>4, <2>7, <2>8, MovesKeep DEF CleanInv
<1>5. CASE CheckSignature /\ BootWrites(reply')
  <2>1. /\ bl = "CheckSignature" /\ bl \in Served /\ bl \in Looping
        /\ \/ bl' = "UpdateFW" /\ reply' = "UPDATE_SUCCESS"
           \/ bl' = "UpdateFailure" /\ reply' = "NAK"
        /\ last_written' = reply'
    BY <1>5 DEF CheckSignature, Served, Looping, BootWrites
  <2>2. /\ reply' = "UPDATE_SUCCESS" => SendToHost("UPDATE_SUCCESS")
        /\ reply' = "NAK" => SendToHost("NAK")
    BY <1>5, <2>1 DEF BootWrites
  <2>3. /\ reply' = "NAK" => to_host' = Append(to_host, Burst(FrameBytes, "NAK"))
        /\ reply' = "UPDATE_SUCCESS" =>
             to_host' = Append(to_host, Burst(FrameBytes, "UPDATE_SUCCESS"))
    BY <2>2, ArrivesAtHost DEF Clean
  <2>4. "UPDATE_SUCCESS" \in Answers \ {"ACK", "RET", "None"} /\ "NAK" \in Answers \ {"ACK", "RET", "None"}
    BY DEF Answers, Reply
  <2>5. BoardMoves
    BY <1>1, <2>1, <2>3, <2>4 DEF BoardMoves
  <2>6. Phases'
    BY <2>1 DEF Phases, Asking, Announcing, Measuring, Receiving, Checking
  <2>7. Accepted'
    <3> SUFFICES ASSUME reply' = "UPDATE_SUCCESS"
                 PROVE  bl' \in Accepting /\ step = "Confirm" /\ Coming'
      BY <1>1 DEF Accepted
    <3>1. step = "Confirm" /\ hpc = "sleep" /\ OnlyIn({"ACK"})
      <4>1. Checking
        BY <1>2, <2>1, ServedLive DEF Phases, Clean
      <4> QED
        BY <2>1, <4>1 DEF Checking
    <3>2. packets_queue = <<>>
      <4>1. packets_queue \in Seq(Answers)
        BY <1>2 DEF LinkInv, HostInv
      <4>2. \A i \in 1 .. Len(packets_queue) : FALSE
        BY <1>2, <3>1 DEF OnlyIn, Unhit
      <4>3. packets_queue # <<>> => 1 \in 1 .. Len(packets_queue)
        BY <4>1, TailElements
      <4> QED
        BY <4>2, <4>3
    <3>3. to_host' = Append(to_host, Burst(FrameBytes, "UPDATE_SUCCESS"))
      BY <2>3
    <3>4. /\ Len(to_host) \in Nat /\ Len(to_host') = Len(to_host) + 1
          /\ \A i \in 1 .. Len(to_host) : HostFrame(i)' = HostFrame(i)
          /\ \E i \in 1 .. Len(to_host') : i = Len(to_host) + 1 /\ HostFrame(i)' = "UPDATE_SUCCESS"
      BY <1>1, <1>2, <2>4, <3>3, BoardSends
    <3>5. PICK i \in 1 .. Len(to_host') : i = Len(to_host) + 1 /\ HostFrame(i)' = "UPDATE_SUCCESS"
      BY <3>4
    <3>6. \A j \in 1 .. i - 1 : HostFrame(j)' = "ACK"
      BY <3>1, <3>4, <3>5 DEF OnlyIn
    <3>7. Coming'
      BY <1>1, <3>1, <3>2, <3>5, <3>6 DEF Coming
    <3> QED
      BY <2>1, <3>1, <3>7 DEF Accepting, Flashing
  <2> QED
    BY <2>5, <2>6, <2>7, MovesKeep DEF CleanInv
<1>6. CASE /\ \/ EraseFirmware \/ FinishErase
              \/ WriteFirmware \/ FinishWrite
              \/ LeaveLoop \/ VerifyApplication \/ JumpToFirmware
           /\ Silent
  <2>1. to_host' = to_host /\ UNCHANGED <<last_written, reply, bytes_written>>
    BY <1>6 DEF Silent, EraseFirmware, FinishErase, WriteFirmware, FinishWrite, LeaveLoop,
       VerifyApplication, JumpToFirmware
  <2>2. /\ bl \in Flashing \cup {"UpdateSuccess", "UpdateTimeout", "UpdateFailure",
                                  "VerifyApplication", "SwitchToApplication"}
        /\ bl' \in Flashing \cup {"UpdateSuccess"} =>
             bl \in Flashing \cup {"UpdateSuccess"}
        /\ bl' \in Flashing \cup {"UpdateSuccess", "SwitchToApplication", "Application",
                                  "VerifyApplication", "HardFault", "InfiniteLoop"}
    BY <1>6 DEF Flashing, EraseFirmware, FinishErase, WriteFirmware, FinishWrite, LeaveLoop,
       VerifyApplication, JumpToFirmware
  <2>3. BoardMoves
    BY <1>1, <2>1, <2>2 DEF BoardMoves, Flashing, Served, Looping, Waiting
  <2>4. Phases'
    BY <2>2 DEF Flashing, Phases, Asking, Announcing, Measuring, Receiving, Checking
  <2>5. bl \in Accepting => bl' \in Accepting
    <3>1. [Next]_vars /\ ~Reset
      <4>1. bl' # "Sync"
        BY <2>2 DEF Flashing
      <4> QED
        BY <1>6, <4>1 DEF Next, Compute, Reset
    <3> QED
      BY <3>1, AcceptedKept
  <2>6. Coming => Coming'
    BY <1>1, <2>1 DEF Coming, HostFrame
  <2>7. Accepted'
    BY <1>1, <1>2, <2>1, <2>5, <2>6 DEF Accepted
  <2> QED
    BY <2>3, <2>4, <2>7, MovesKeep DEF CleanInv
<1> QED
  BY <1>4, <1>5, <1>6 DEF BootComputes

(* A packet read by the loop is the one request that is under way.         *)
LEMMA RequestRead ==
  ASSUME FramesDiffer, Clean, BootReads
  PROVE  /\ UNCHANGED <<to_boot, bskew, halted, hostVars>> /\ inbox # <<>> /\ inbox' = <<>>
         /\ Head(inbox) = inbox[1] /\ step \notin {"Sync", "Failed"} /\ Live /\ hpc = "sleep"
         /\ Asking /\ Announcing /\ Measuring /\ Receiving /\ Checking
         /\ NoRequest' /\ ~NoRequest
<1> USE DEF Clean, CleanInv
<1>1. /\ UNCHANGED <<to_boot, bskew, halted, hostVars>> /\ inbox # <<>> /\ inbox' = <<>>
      /\ bl \in Looping \ {"Sync"}
  BY DEF BootReads, WaitingForUpdateReq, FWLengthRes, ReceiveFW, Looping, Waiting
<1>2. Head(inbox) = inbox[1]
  BY <1>1, TailElements DEF LinkInv, LayerInv
<1>3. step # "Sync" /\ ~NoRequest
  BY <1>1 DEF Syncing, NoRequest
<1>4. Live
  BY <1>1, <1>3 DEF Skewed, Live
<1>5. hpc = "sleep" /\ \A i \in 1 .. Len(to_boot) : ~Request(i)
  BY <1>1, <1>3, <1>4 DEF OneRequest
<1>6. NoRequest'
  BY <1>1, <1>5 DEF NoRequest, Request, BootFrame, Ack
<1>7. step # "Failed"
  BY <1>5 DEF Places, Over
<1> QED
  BY <1>1, <1>2, <1>3, <1>4, <1>5, <1>6, <1>7 DEF Phases

(* A board that reads a packet stays in step: it waits for the next one    *)
(* and says so.                                                            *)
LEMMA ReadsKeep ==
  ASSUME FramesDiffer, Clean, BootReads, faults' = 0
  PROVE  CleanInv'
<1> DEFINE pkt == Head(inbox)
<1>1. /\ UNCHANGED <<to_boot, bskew, halted, hostVars>> /\ inbox # <<>> /\ inbox' = <<>>
      /\ pkt = inbox[1] /\ step \notin {"Sync", "Failed"} /\ Live /\ hpc = "sleep"
      /\ Asking /\ Announcing /\ Measuring /\ Receiving /\ Checking
      /\ NoRequest' /\ ~NoRequest
  BY RequestRead
<1>2. /\ UNCHANGED <<fw_data, step, hpc, to_poll, packets_queue, bytes_sent>>
      /\ Places /\ Unhit /\ LinkInv /\ fw_data \in Files
  BY <1>1 DEF hostVars, Clean, CleanInv, LinkInv, HostInv
<1>3. \A S : OnlyIn(S) /\ to_host' = to_host => OnlyIn(S)'
  BY <1>2 DEF OnlyIn, HostFrame
<1>4. ASSUME NEW r \in {"UP_RESP", "NAK", "READY_FOR_FW"}, BootWrites(r)
      PROVE  /\ to_host' = Append(to_host, Burst(FrameBytes, r)) /\ last_written' = r
             /\ r \in Answers \ {"ACK", "RET", "None"}
  BY <1>4, ArrivesAtHost DEF Clean, BootWrites, Answers, Reply
<1>5. Len(fw_data) \in Nat \ {0} /\ Len(fw_data) \in 0 .. ErasedWord
  BY <1>2, UpdaterAssumption DEF ErasedWord
<1>6. CASE WaitingForUpdateReq(pkt) /\ BootWrites(reply')
  <2>1. /\ bl = "WaitingForUpdateReq" /\ bytes_written' = bytes_written
        /\ \/ bl' = "FWLengthReq" /\ reply' = "UP_RESP" /\ BootWrites("UP_RESP")
           \/ bl' = "WaitingForUpdateReq" /\ reply' = "NAK" /\ BootWrites("NAK")
    BY <1>6 DEF WaitingForUpdateReq
  <2>2. step = "UpReq" /\ OnlyIn(Stale) /\ OnlyIn(Early)
    BY <1>1, <2>1 DEF Asking, OnlyIn, Early
  <2>3. BoardMoves
    BY <1>1, <1>2, <1>4, <2>1 DEF BoardMoves, Places, Looping, Waiting, Served
  <2>4. bl' = "FWLengthReq" => OnlyIn(Early)'
    BY <1>2, <1>4, <2>1, <2>2, BoardSends DEF Early
  <2>5. bl' = "WaitingForUpdateReq" => OnlyIn(Stale)'
    BY <1>2, <1>4, <2>1, <2>2, BoardSends DEF Stale
  <2>6. Phases'
    BY <1>1, <1>2, <2>1, <2>2, <2>4, <2>5
       DEF Phases, Asking, Announcing, Measuring, Receiving, Checking
  <2>7. Accepted'
    BY <2>1 DEF Accepted
  <2> QED
    BY <2>3, <2>6, <2>7, MovesKeep DEF CleanInv
<1>7. CASE FWLengthRes(pkt) /\ BootWrites(reply')
  <2>1. /\ bl = "FWLengthRes" /\ UNCHANGED <<bytes_written, fw_buffer>>
        /\ fw_length' = Word(pkt.data[1], pkt.data[2])
        /\ \/ bl' = "ReceiveFW" /\ reply' = "READY_FOR_FW" /\ BootWrites("READY_FOR_FW")
           \/ bl' = "UpdateFailure" /\ reply' = "NAK" /\ BootWrites("NAK")
    BY <1>7 DEF FWLengthRes
  <2>2. /\ step = "Length" /\ bytes_sent = 0 /\ OnlyIn(Early) /\ pkt = LengthPacket
    BY <1>1, <2>1 DEF Measuring, UnderWay
  <2>3. bytes_written = 0
    BY <1>2, <2>1 DEF Places
  <2>4. fw_length' = Len(fw_data)
    <3>1. Len(WordCells(Len(fw_data))) = 2 /\ 1 \in 1 .. Payload /\ 2 \in 1 .. Payload
      BY BootAssumption DEF WordCells
    <3>2. /\ LengthPacket.data[1] = WordCells(Len(fw_data))[1]
          /\ LengthPacket.data[2] = WordCells(Len(fw_data))[2]
      BY <3>1 DEF LengthPacket, NewPacket
    <3> QED
      BY <1>5, <2>1, <2>2, <3>2, WordCellsExact
  <2>5. BoardMoves
    BY <1>1, <1>2, <1>4, <2>1 DEF BoardMoves, Looping, Waiting
  <2>6. bl' = "ReceiveFW" => ReadyLast'
    BY <1>2, <1>4, <2>1, <2>2, BoardSends
  <2>7. ASSUME bl' = "ReceiveFW" PROVE Receiving'
    <3>1. Prefix' /\ 0 % Payload = 0
      BY <2>1, <2>3, BootAssumption DEF Prefix
    <3>2. /\ fw_length' = Len(fw_data)' /\ bytes_written' < fw_length'
          /\ bytes_written' % Payload = 0 /\ bytes_sent' = bytes_written'
          /\ step' \in {"Length", "Data"}
      BY <1>2, <1>5, <2>1, <2>2, <2>3, <2>4, <3>1
    <3> QED
      BY <1>1, <2>6, <2>7, <3>1, <3>2 DEF Receiving
  <2>8. Phases'
    BY <2>1, <2>7 DEF Phases, Asking, Announcing, Measuring, Receiving, Checking
  <2>9. Accepted'
    BY <2>1 DEF Accepted
  <2> QED
    BY <2>5, <2>8, <2>9, MovesKeep DEF CleanInv
<1>8. CASE /\ ReceiveFW(pkt)
           /\ \/ bl' = "ReceiveFW" /\ BootWrites(reply')
              \/ bl' # "ReceiveFW" /\ Silent
  <2> DEFINE at == bytes_written
             n  == ChunkEnd(fw_data, at) - at
  <2>1. /\ bl = "ReceiveFW" /\ fw_length' = fw_length
        /\ ReceiveFW(pkt) /\ bytes_written' = at + pkt.length
        /\ \/ bytes_written' > MaxFw /\ bl' = "Overrun" /\ UNCHANGED reply /\ Silent
           \/ /\ bytes_written' \in fw_length .. MaxFw
              /\ bl' = "CheckSignature" /\ UNCHANGED reply /\ Silent
           \/ /\ bytes_written' < fw_length /\ bl' = "ReceiveFW"
              /\ reply' = "READY_FOR_FW" /\ BootWrites("READY_FOR_FW")
    BY <1>8 DEF ReceiveFW
  <2>2. /\ fw_length = Len(fw_data) /\ at < fw_length /\ at % Payload = 0 /\ Prefix
        /\ step \in {"Data", "Confirm"} /\ bytes_sent = ChunkEnd(fw_data, at)
        /\ OnlyIn({"ACK"}) /\ pkt = Chunk(fw_data, at)
    BY <1>1, <2>1 DEF Receiving, UnderWay
  <2>3. /\ at \in 0 .. Len(fw_data) - 1 /\ at \in Nat /\ MaxFw \in Nat
        /\ fw_length \in InfoCells .. MaxFw
    <3>1. at \in Nat /\ fw_length \in InfoCells .. MaxFw
      BY <2>1 DEF Clean, IInv, TypeOK, LengthAgreed
    <3> QED
      BY <1>5, <2>2, <3>1, BootAssumption
  <2>4. /\ n \in 1 .. Payload /\ n \in Nat /\ ChunkEnd(fw_data, at) = at + n
        /\ pkt.length = n /\ \A i \in 1 .. n : pkt.data[i] = fw_data[at + i]
    BY <1>2, <2>2, <2>3, ChunkCells
  <2>5. /\ ChunkEnd(fw_data, at) \in 0 .. Len(fw_data)
        /\ ChunkEnd(fw_data, at) < Len(fw_data) => ChunkEnd(fw_data, at) % Payload = 0
    BY <1>5, <2>2, <2>3, ChunkEnds
  <2> HIDE DEF n, pkt
  <2>14. fw_buffer' = Joined(pkt)
    <3>1. pkt.length \in 0 .. Payload /\ bytes_written \in Nat
      BY <2>3, <2>4, BootAssumption
    <3> QED
      BY <2>1, <3>1, PayloadJoins
  <2>6. bytes_written' = bytes_sent /\ bytes_sent = at + n /\ bytes_sent \in 0 .. Len(fw_data)
    BY <2>1, <2>2, <2>4, <2>5
  <2>7. bytes_sent <= MaxFw
    BY <1>5, <2>2, <2>3, <2>6
  <2>8. Prefix'
    <3> SUFFICES ASSUME NEW i \in 1 .. at + n PROVE fw_buffer'[i - 1] = fw_data[i]
      BY <1>2, <2>6 DEF Prefix
    <3>1. i - 1 \in 0 .. MaxFw - 1 /\ i \in Int
      BY <2>3, <2>4, <2>6, <2>7
    <3>2. fw_buffer'[i - 1] =
            IF i - 1 \in at .. at + n - 1 THEN pkt.data[i - 1 - at + 1] ELSE fw_buffer[i - 1]
      BY <2>4, <2>14, <3>1 DEF Joined
    <3>3. CASE i <= at
      <4>1. i - 1 \notin at .. at + n - 1 /\ i \in 1 .. at
        BY <2>3, <3>1, <3>3
      <4> QED
        BY <2>2, <3>2, <4>1 DEF Prefix
    <3>4. CASE i > at
      <4>0. at \in Int /\ n \in Int
        BY <2>3, <2>4
      <4>1. /\ i - 1 \in at .. at + n - 1 /\ i - at \in 1 .. n
            /\ i - 1 - at + 1 = i - at /\ at + (i - at) = i
        BY <3>1, <3>4, <4>0
      <4> QED
        BY <2>4, <3>2, <4>1
    <3> QED
      BY <2>3, <3>1, <3>3, <3>4
  <2>9. BoardMoves
    <3>1. \/ UNCHANGED <<to_host, last_written, reply>>
          \/ BootWrites("READY_FOR_FW") /\ reply' = "READY_FOR_FW"
      BY <2>1 DEF Silent
    <3> QED
      BY <1>1, <1>4, <2>1, <3>1 DEF BoardMoves, Looping, Waiting
  <2>10. ASSUME bl' = "ReceiveFW" PROVE Receiving'
    <3>1. BootWrites("READY_FOR_FW") /\ bytes_sent < Len(fw_data)
      BY <2>1, <2>2, <2>6, <2>10
    <3>2. step = "Data"
      BY <1>2, <1>5, <2>2, <3>1 DEF Places
    <3>3. OnlyIn(Early)
      BY <2>2 DEF OnlyIn, Early, Stale
    <3>4. ReadyLast'
      BY <1>2, <1>4, <3>1, <3>3, BoardSends
    <3>5. /\ fw_length' = Len(fw_data)' /\ bytes_written' < fw_length'
          /\ bytes_written' % Payload = 0 /\ bytes_sent' = bytes_written'
          /\ step' \in {"Length", "Data"}
      BY <1>2, <2>1, <2>2, <2>5, <2>6, <3>1, <3>2
    <3> QED
      BY <1>1, <2>8, <3>4, <3>5 DEF Receiving
  <2>11. ASSUME bl' = "CheckSignature" PROVE Checking'
    <3>1. bytes_written' = Len(fw_data) /\ to_host' = to_host
      BY <1>5, <2>1, <2>2, <2>3, <2>6, <2>7, <2>11 DEF Silent
    <3>2. step = "Confirm"
      BY <1>2, <2>2, <2>6, <3>1 DEF LinkInv, HostInv
    <3> QED
      BY <1>1, <1>2, <1>3, <2>2, <2>8, <3>1, <3>2 DEF Checking
  <2>12. Phases'
    BY <2>1, <2>10, <2>11 DEF Phases, Asking, Announcing, Measuring, Receiving, Checking
  <2>13. Accepted'
    <3>1. reply # "UPDATE_SUCCESS"
      BY <2>1 DEF Clean, CleanInv, Accepted, Accepting, Flashing
    <3> QED
      BY <2>1, <3>1 DEF Accepted
  <2> QED
    BY <2>9, <2>12, <2>13, MovesKeep DEF CleanInv
<1> QED
  BY <1>6, <1>7, <1>8 DEF BootReads

(* A board that has left its loop hears nothing, and nothing changes.      *)
LEMMA UnheardKeeps ==
  ASSUME FramesDiffer, Clean, Unheard
  PROVE  CleanInv'
<1> USE DEF Clean, CleanInv
<1>1. /\ to_boot # <<>> /\ to_boot' = Tail(to_boot) /\ bl \notin Looping
      /\ UNCHANGED <<fw_data, step, hpc, to_poll, hskew, packets_queue>>
      /\ UNCHANGED <<prev_packet, iterations, bytes_sent>>
      /\ UNCHANGED <<bl, timer, fw_length, bytes_written, fw_buffer, reply>>
      /\ UNCHANGED <<bskew, inbox, halted, to_host>>
  BY DEF Unheard, Deaf, Unhit, vars, loopVars, layerVars, hostVars
<1>2. \A i \in 1 .. Len(to_boot') :
        /\ i + 1 \in 1 .. Len(to_boot) /\ to_boot'[i] = to_boot[i + 1]
        /\ BootFrame(i)' = BootFrame(i + 1)
  BY <1>1, BurstLeaves
<1>3. ~Live'
  BY <1>1 DEF Live
<1>4. Unhit'
  BY <1>1, <1>2 DEF Unhit
<1>5. Places' /\ Skewed' /\ OneRequest' /\ Phases'
  BY <1>1, <1>3 DEF Places, Skewed, OneRequest, Phases
<1>6. SyncOnce'
  BY <1>1, <1>2 DEF SyncOnce
<1>7. Syncing'
  <2>1. NoRequest => NoRequest'
    BY <1>1, <1>2 DEF NoRequest, Request, Ack
  <2> QED
    BY <1>1, <2>1 DEF Syncing, OnlyIn, HostFrame, Ack
<1>8. Fresh'
  <2> SUFFICES ASSUME step = "Sync", prev_packet = Control(Erased) PROVE Fresh'
    BY <1>1 DEF Fresh
  <2>1. ASSUME NEW i \in 1 .. Len(to_boot') PROVE FALSE
    <3>1. i + 1 = 1
      BY <1>2 DEF Fresh
    <3> QED
      BY <3>1
  <2> QED
    BY <1>1, <2>1 DEF Fresh, HostFrame
<1>9. NoEcho' /\ Accepted'
  BY <1>1, <1>3 DEF NoEcho, Accepted, Coming, HostFrame
<1>10. RetLast' /\ Written'
  BY <1>1, <1>2, LastPieceKept DEF LastPiece, Written, Unheard, layerVars
<1> QED
  BY <1>4, <1>5, <1>6, <1>7, <1>8, <1>9, <1>10

(* A board that is reset starts anew, whatever the host is waiting for.    *)
LEMMA ResetKeeps ==
  ASSUME FramesDiffer, Clean, BootResets
  PROVE  CleanInv'
<1> USE DEF Clean, CleanInv
<1>1. /\ UNCHANGED <<fw_data, step, hpc, to_poll, hskew, packets_queue>>
      /\ UNCHANGED <<prev_packet, iterations, bytes_sent, to_host>>
      /\ bl' = "Sync" /\ timer' = Timeout /\ bytes_written' = 0 /\ reply' = "None"
      /\ to_boot' = <<>> /\ bskew' = 0 /\ inbox' = <<>> /\ halted' = FALSE
  BY DEF BootResets, Reset, hostVars
<1>2. \A i \in 1 .. Len(to_boot') : FALSE
  BY <1>1
<1>3. ~Live'
  BY <1>1, BootAssumption DEF Live
<1>4. Unhit' /\ Places' /\ SyncOnce'
  BY <1>1, <1>2 DEF Unhit, Places, SyncOnce
<1>5. Syncing'
  BY <1>1, <1>2 DEF Syncing, NoRequest, OnlyIn, HostFrame, Ack, Served, Flashing
<1>6. Fresh'
  BY <1>1, <1>2 DEF Fresh, HostFrame
<1>7. NoEcho' /\ OneRequest' /\ Skewed' /\ Phases' /\ Accepted'
  BY <1>1, <1>3 DEF NoEcho, OneRequest, Skewed, Phases, Accepted
<1>8. RetLast' /\ Written'
  BY <1>1, <1>2, LastPieceKept DEF LastPiece, Written, BootResets
<1> QED
  BY <1>4, <1>5, <1>6, <1>7, <1>8

-----------------------------------------------------------------------------
(* The invariant, and what follows from it.                                *)

(* Both ends start in step.                                                *)
LEMMA CleanInit == FramesDiffer /\ SessionInit => CleanInv
<1> SUFFICES ASSUME FramesDiffer, SessionInit PROVE CleanInv
  OBVIOUS
<1>1. /\ fw_data \in Files /\ step = "Sync" /\ hpc = "idle" /\ hskew = 0
      /\ packets_queue = <<>> /\ prev_packet = Control(Erased)
      /\ to_boot = <<>> /\ to_host = <<>>
      /\ bl = "Sync" /\ bytes_written = 0 /\ reply = "None"
      /\ bskew = 0 /\ inbox = <<>> /\ halted = FALSE
  BY DEF SessionInit, HostInit, Init, LayerInit
<1>2. /\ \A i \in 1 .. Len(to_boot) : FALSE
      /\ \A i \in 1 .. Len(to_host) : FALSE
      /\ \A i \in 1 .. Len(packets_queue) : FALSE
  BY <1>1
<1>3. Unhit
  BY <1>1, <1>2, FramesApart DEF Unhit
<1>4. Places /\ SyncOnce
  BY <1>1, <1>2 DEF Places, SyncOnce, Over
<1>5. Syncing /\ Fresh
  BY <1>1, <1>2 DEF Syncing, Fresh, NoRequest, OnlyIn, Served, Flashing
<1>6. NoEcho /\ OneRequest /\ Skewed /\ Phases /\ Accepted
  BY <1>1, <1>2 DEF NoEcho, OneRequest, Skewed, Phases, Accepted
<1>7. RetLast /\ Written
  BY <1>1, <1>2, FramesApart DEF RetLast, LastPiece, Written, SessionInit, LayerInit
<1> QED
  BY <1>3, <1>4, <1>5, <1>6, <1>7 DEF CleanInv

(* And nothing moves when nothing moves.                                   *)
LEMMA CleanStutter == CleanInv /\ UNCHANGED sessionVars => CleanInv'
<1> SUFFICES ASSUME CleanInv, UNCHANGED sessionVars PROVE CleanInv'
  OBVIOUS
<1>1. /\ UNCHANGED <<fw_data, step, hpc, to_poll, hskew, packets_queue>>
      /\ UNCHANGED <<prev_packet, iterations, bytes_sent>>
      /\ UNCHANGED <<bl, timer, fw_length, bytes_written, fw_buffer, reply>>
      /\ UNCHANGED <<bskew, inbox, halted, to_boot, to_host>>
  BY DEF sessionVars, vars, loopVars, layerVars, hostVars, lineVars
<1>2. Unhit' /\ Places' /\ SyncOnce' /\ Syncing' /\ Fresh'
  BY <1>1 DEF CleanInv, Unhit, Places, SyncOnce, Syncing, Fresh, NoRequest, Request, OnlyIn,
     BootFrame, HostFrame, Ack
<1>3. NoEcho' /\ OneRequest' /\ Skewed' /\ Accepted'
  BY <1>1 DEF CleanInv, NoEcho, OneRequest, Skewed, Accepted, Coming, Live, NoRequest,
     Request, BootFrame, HostFrame, Ack
<1>4. Phases'
  BY <1>1 DEF CleanInv, Phases, Asking, Announcing, Measuring, Receiving, Checking, Live,
     NoRequest, Request, UnderWay, OnlyIn, ReadyLast, Prefix, BootFrame, HostFrame, Ack,
     LengthPacket, Chunk, ChunkEnd
<1>5. RetLast' /\ Written'
  <2>1. last_written' = last_written
    BY DEF sessionVars, layerVars
  <2> QED
    BY <1>1, <2>1 DEF CleanInv, RetLast, LastPiece, Written, OnlyIn, BootFrame, HostFrame,
       Control
<1> QED
  BY <1>2, <1>3, <1>4, <1>5 DEF CleanInv

(* A line that has hit a burst has hit one.                                *)
LEMMA HitsCount ==
  ASSUME LinkInv, [SessionNext]_sessionVars, faults' = 0
  PROVE  faults = 0
<1>1. faults \in Nat
  BY BurstSizes DEF LinkInv, LineInv
<1>2. (\E n, frame : SendToBoot(n, frame)) \/ (\E frame : SendToHost(frame))
        => faults' = faults \/ faults' = faults + 1
  BY DEF SendToBoot, SendToHost
<1>3. \/ faults' = faults
      \/ \E n, frame : SendToBoot(n, frame)
      \/ \E frame : SendToHost(frame)
  <2>1. CASE HostStarts \/ HostSleeps \/ NobodyThere \/ Unheard \/ BootResets \/ UNCHANGED sessionVars
    BY <2>1 DEF HostStarts, Launch, HostSleeps, Wake, NobodyThere, Unheard, BootResets,
       sessionVars, lineVars
  <2>2. CASE HostRuns
    BY <2>2 DEF HostRuns, Run, WriteSync, PollQueue, HandleFrame, Answered, Proceed,
       SendChunk, Unanswered, SendPacket, WritePacket, lineVars
  <2>3. CASE CommsUpdate
    BY <2>3 DEF CommsUpdate, Dispatch, BootWrites, Silent
  <2>4. CASE BootSync \/ BootReads \/ BootTimesOut \/ BootComputes
    BY <2>4 DEF BootSync, BootReads, BootTimesOut, BootComputes, BootWrites, Silent
  <2> QED
    BY <2>1, <2>2, <2>3, <2>4 DEF SessionNext, BootStep
<1> QED
  BY <1>1, <1>2, <1>3

(* No step on a clean line brings the two ends out of step.                *)
LEMMA CleanStep ==
  ASSUME FramesDiffer, Patient, LinkInv, IInv, faults = 0 => CleanInv,
         [SessionNext]_sessionVars
  PROVE  faults' = 0 => CleanInv'
<1> SUFFICES ASSUME faults' = 0 PROVE CleanInv'
  OBVIOUS
<1>1. Clean
  BY HitsCount DEF Clean
<1>2. CASE HostStarts
  BY <1>1, <1>2, SyncKeeps DEF HostStarts
<1>3. CASE HostRuns
  BY <1>1, <1>3, SyncKeeps, PollKeeps, AnswerKeeps, UnansweredKeeps DEF HostRuns, Run
<1>4. CASE HostSleeps \/ NobodyThere
  BY <1>1, <1>4, TimeKeeps
<1>5. CASE BootStep
  BY <1>1, <1>5, LayerKeeps, SyncHeardKeeps, ReadsKeep, TimesOutKeeps, ComputesKeep
     DEF BootStep
<1>6. CASE Unheard \/ BootResets
  BY <1>1, <1>6, UnheardKeeps, ResetKeeps
<1>7. CASE UNCHANGED sessionVars
  BY <1>1, <1>7, CleanStutter DEF Clean
<1> QED
  BY <1>2, <1>3, <1>4, <1>5, <1>6, <1>7 DEF SessionNext

(* On a line that has hit nothing the two ends are in step.                *)
LEMMA InStepInvariance ==
  ASSUME FramesDiffer, Patient
  PROVE  SessionSpec => [](LinkInv /\ IInv /\ InStep)
<1>1. SessionInit => InStep
  BY CleanInit DEF InStep
<1>2. LinkInv /\ IInv /\ InStep /\ [SessionNext]_sessionVars => InStep'
  BY CleanStep DEF InStep
<1>3. SessionSpec => []IInv
  BY SessionRunsBootloader, Invariance, PTL
<1> QED
  BY <1>1, <1>2, <1>3, LinkInvariance, PTL DEF SessionSpec

(* What ReceiveFW has copied into fw_buffer on a clean line is a prefix of *)
(* the file, in order and without a packet twice, and the host has sent at *)
(* most one packet more, whenever the board was reset and whatever answers *)
(* of an earlier boot were under way.                                      *)
THEOREM TransfersArePrefixes ==
  ASSUME FramesDiffer, Patient
  PROVE  SessionSpec => []TransferIsPrefix
<1>1. LinkInv /\ IInv /\ InStep => TransferIsPrefix
  <2> SUFFICES ASSUME LinkInv, IInv, InStep, faults = 0, bl \in {"ReceiveFW", "CheckSignature"}
               PROVE  /\ bytes_written <= bytes_sent /\ bytes_sent <= bytes_written + Payload
                      /\ \A i \in 1 .. bytes_written : fw_buffer[i - 1] = fw_data[i]
    BY DEF TransferIsPrefix
  <2>1. CleanInv /\ Receiving /\ Checking
    BY ServedLive DEF InStep, CleanInv, Phases, Served
  <2>2. bytes_written \in Nat /\ Payload \in Nat /\ Len(fw_data) \in Nat
    BY BootAssumption, UpdaterAssumption DEF IInv, TypeOK, LinkInv, HostInv, ErasedWord
  <2>3. CASE bl = "ReceiveFW"
    <3>1. Prefix /\ bytes_written < Len(fw_data)
      BY <2>1, <2>3 DEF Receiving
    <3>2. /\ bytes_written <= ChunkEnd(fw_data, bytes_written)
          /\ ChunkEnd(fw_data, bytes_written) <= bytes_written + Payload
      BY <2>2, <3>1 DEF ChunkEnd
    <3>3. bytes_written <= bytes_sent /\ bytes_sent <= bytes_written + Payload
      BY <2>1, <2>2, <2>3, <3>2 DEF Receiving
    <3> QED
      BY <3>1, <3>3 DEF Prefix
  <2>4. CASE bl = "CheckSignature"
    <3>1. Prefix /\ bytes_written = Len(fw_data) /\ bytes_sent = Len(fw_data)
      BY <2>1, <2>4 DEF Checking, CleanInv, Places
    <3> QED
      BY <2>2, <3>1 DEF Prefix
  <2> QED
    BY <2>3, <2>4
<1> QED
  BY <1>1, InStepInvariance, PTL

(* A host that gives up on a clean line has not been accepted: what        *)
(* BL_CheckSignature announces comes before wait_for_cntrl_packet has run  *)
(* out of iterations.                                                      *)
THEOREM FailuresAreTrue ==
  ASSUME FramesDiffer, Patient
  PROVE  SessionSpec => []FailureIsTrue
<1>1. InStep => FailureIsTrue
  BY DEF InStep, FailureIsTrue, CleanInv, Accepted
<1> QED
  BY <1>1, InStepInvariance, PTL

(* A clean line never has a second request for comms_update while the      *)
(* packet buffer, which has room for one, is full.                         *)
THEOREM BreakpointUnreached ==
  ASSUME FramesDiffer, Patient
  PROVE  SessionSpec => []NoBreakpoint
<1>1. InStep => NoBreakpoint
  BY DEF InStep, NoBreakpoint, CleanInv, Unhit
<1> QED
  BY <1>1, InStepInvariance, PTL
==============================================================================
