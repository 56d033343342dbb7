----------------------------- MODULE Bootloader -----------------------------
(***************************************************************************)
(* boot/bootloader.c: main, the update loop check_for_firmware_update, and *)
(* the flash operations they call.  Every value of `bl` but the last six   *)
(* below is a BLState of the C code; one action is one iteration of the    *)
(* loop, one page erased or one cell programmed.                           *)
(*                                                                         *)
(* The link is left open: an iteration that finds a packet finds any       *)
(* member of Packets, so every loss, duplication or reordering that the    *)
(* link layer lets through is among the behaviours.  comms_update stores   *)
(* whatever length byte comes with a valid checksum, so a packet may claim *)
(* any length, from nothing to more than its payload.                      *)
(***************************************************************************)
EXTENDS FirmwareImage, Packet

CONSTANTS
  BootloaderCells,   \* BOOTLOADER_SIZE
  StartPage,         \* FIRMWARE_START_PAGE
  EndPage,           \* FIRMWARE_END_PAGE
  MaxFw,             \* MAX_FW_LENGTH
  Timeout,           \* FU_DEFAULT_TIMEOUT, in ticks of the model
  LengthMax,         \* largest length a packet can claim: 255, in cells
  Packets,           \* what the link may deliver
  Behind,            \* what may follow a packet in RAM
  BootImageCells,    \* length of the bootloader image before padding
  Provisioned,       \* builds a programmer may have written with their header
  FactoryFirmware,   \* builds whose body `make flash` may have written
  MaxPackets,        \* bound on the packets with data that one boot reads
  MaxResets          \* bound on the resets of a behaviour

(* Both hold of the linker scripts and headers: the header of the firmware *)
(* ends the bootloader section and begins in the first page erased.        *)
ASSUME BootAssumption ==
  /\ StartPage \in Nat /\ EndPage \in Nat /\ StartPage < EndPage
  /\ BootloaderCells = (StartPage + 1) * PageCells
  /\ MaxFw \in Nat /\ Timeout \in Nat \ {0} /\ Payload \in Nat \ {0, 1}
  /\ InfoCells <= PageCells /\ InfoCells < MaxFw
  /\ BootloaderCells - InfoCells + MaxFw < FlashEnd
  /\ EndPage < FlashPages
  /\ UpReqByte \in Cell
  /\ BootImageCells \in 0 .. BootloaderCells - InfoCells
  /\ LengthMax \in Nat /\ LengthMax >= Payload
  /\ Packets \subseteq [length : 0 .. LengthMax, data : [1 .. Payload -> Cell]]
  /\ Behind \subseteq [1 .. LengthMax - Payload -> Cell] /\ Behind # {}
  /\ Provisioned \subseteq Builds /\ FactoryFirmware \subseteq Builds
  /\ \A b \in Provisioned \cup FactoryFirmware :
       Len(b.body) <= FlashEnd - BootloaderCells
  /\ MaxPackets \in Nat /\ MaxResets \in Nat

FwInfoStart == BootloaderCells - InfoCells     \* FIRMWARE_INFO_START
FwStart     == BootloaderCells                 \* FIRMWARE_ISR_VECTOR_START

VARIABLES
  bl,              \* boot_state / *state
  info,            \* finfo, read once by main
  timer,           \* ticks left until Timer_has_elapsed, or Reported
  fw_length, bytes_written, fw_buffer, update_info,
  reply,           \* last packet the loop itself passed to comms_write
  packets,         \* packets with data read in this boot
  resets           \* resets so far

loopVars == <<info, fw_length, fw_buffer, update_info>>
vars == <<flash, cursor, bl, timer, bytes_written, reply, packets, resets, loopVars>>

Waiting  == {"Sync", "WaitingForUpdateReq", "FWLengthRes", "ReceiveFW"}
Flashing == {"UpdateFW", "WriteFW"}
Looping  == Waiting \cup Flashing \cup
            {"FWLengthReq", "CheckSignature",
             "UpdateTimeout", "UpdateFailure", "UpdateSuccess"}
Stopped  == {"InfiniteLoop", "HardFault", "Overrun", "Application"}
BLState  == Looping \cup Stopped \cup
            {"VerifyApplication", "SwitchToApplication"}

Reply == {"None", "SYN_OBSERVED", "UP_RESP", "FW_LENGTH_REQ",
          "READY_FOR_FW", "UPDATE_SUCCESS", "NAK"}

Reported    == -1      \* t.elapsed: the one true answer has been given
EmptyBuffer == [i \in 0 .. MaxFw - 1 |-> 0]
NoInfo == [version |-> 0, size |-> 0, signature |-> [i \in 1 .. SigCells |-> 0]]

-----------------------------------------------------------------------------
(* Boards as they leave the workshop.                                      *)

BootCode == 1

(* Bootloader image padded with 0xFF to BOOTLOADER_SIZE (pad-bootloader),  *)
(* the firmware linked behind it; with its header only if a programmer has *)
(* written one.                                                            *)
Board(b, provisioned) ==
  [a \in Addr |->
     CASE a < BootImageCells -> BootCode
       [] a \in FwStart .. FwStart + Len(b.body) - 1 -> b.body[a - FwStart + 1]
       [] provisioned /\ a \in FwInfoStart .. FwStart - 1 ->
            File(b)[a - FwInfoStart + 1]
       [] OTHER -> Erased]

InitialBoards ==
  {Board(b, TRUE)  : b \in Provisioned} \cup
  {Board(b, FALSE) : b \in FactoryFirmware}

Init ==
  /\ flash \in InitialBoards /\ cursor = 0
  /\ bl = "Sync" /\ info = ReadInfo(flash, FwInfoStart)
  /\ timer = Timeout
  /\ fw_length = 0 /\ bytes_written = 0
  /\ fw_buffer = EmptyBuffer /\ update_info = NoInfo
  /\ reply = "None" /\ packets = 0 /\ resets = 0

(* Power loss or the reset button, at any point of any operation: RAM is   *)
(* lost, flash is kept, main runs again from its first line.               *)
Reset ==
  /\ resets < MaxResets
  /\ resets' = resets + 1
  /\ bl' = "Sync" /\ info' = ReadInfo(flash, FwInfoStart)
  /\ timer' = Timeout
  /\ fw_length' = 0 /\ bytes_written' = 0
  /\ fw_buffer' = EmptyBuffer /\ update_info' = NoInfo
  /\ reply' = "None" /\ packets' = 0 /\ cursor' = 0
  /\ UNCHANGED flash

-----------------------------------------------------------------------------
(* The timer.                                                              *)

(* Mutant: the deadline is not saturated.                                  *)
TickBelowZero ==
  /\ bl \in Looping
  /\ timer' = timer - 1
  /\ UNCHANGED <<flash, cursor, bl, bytes_written, reply, packets, resets, loopVars>>

(* sys_tick_handler, as far as the loop's timer can see it.                *)
Tick ==
  /\ bl \in Looping /\ timer > 0
  /\ timer' = timer - 1
  /\ UNCHANGED <<flash, cursor, bl, bytes_written, reply, packets, resets, loopVars>>

(* Mutants: one state asks and does not leave; no NAK is sent.             *)
CheckForTimeoutStaying ==
  /\ bl \in Waiting /\ timer = 0
  /\ timer' = Reported /\ reply' = "NAK"
  /\ bl' = IF bl = "ReceiveFW" THEN bl ELSE "UpdateTimeout"
  /\ UNCHANGED <<flash, cursor, bytes_written, packets, resets, loopVars>>
CheckForTimeoutSilently ==
  /\ bl \in Waiting /\ timer = 0
  /\ timer' = Reported /\ bl' = "UpdateTimeout"
  /\ UNCHANGED <<flash, cursor, bytes_written, reply, packets, resets, loopVars>>

(* check_for_timeout returns true: in BL_Sync on any byte that does not    *)
(* complete the sequence, elsewhere on an iteration without a packet.      *)
(* Timer_has_elapsed says so once: a loop that stayed would hear no more.  *)
CheckForTimeout ==
  /\ bl \in Waiting /\ timer = 0
  /\ timer' = Reported
  /\ reply' = "NAK" /\ bl' = "UpdateTimeout"
  /\ UNCHANGED <<flash, cursor, bytes_written, packets, resets, loopVars>>

-----------------------------------------------------------------------------
(* check_for_firmware_update                                               *)

SyncObserved ==
  /\ bl = "Sync"
  /\ bl' = "WaitingForUpdateReq"
  /\ reply' = "SYN_OBSERVED"
  /\ timer' = Timeout
  /\ UNCHANGED <<flash, cursor, bytes_written, packets, resets, loopVars>>

(* A packet that is not the request is answered with a NAK and ignored.    *)
WaitingForUpdateReq(pkt) ==
  /\ bl = "WaitingForUpdateReq"
  /\ \/ /\ IsCntrl(pkt, UpReqByte)
        /\ reply' = "UP_RESP" /\ bl' = "FWLengthReq"
     \/ /\ ~IsCntrl(pkt, UpReqByte)
        /\ reply' = "NAK" /\ UNCHANGED bl
  /\ UNCHANGED <<flash, cursor, timer, bytes_written, packets, resets, loopVars>>

FWLengthReq ==
  /\ bl = "FWLengthReq"
  /\ bl' = "FWLengthRes" /\ reply' = "FW_LENGTH_REQ" /\ timer' = Timeout
  /\ UNCHANGED <<flash, cursor, bytes_written, packets, resets, loopVars>>

(* Whatever packet comes next is read as the length.                       *)
FWLengthRes(pkt) ==
  /\ bl = "FWLengthRes"
  /\ fw_length' = Word(pkt.data[1], pkt.data[2])
  /\ \/ /\ fw_length' \in InfoCells .. MaxFw
        /\ bl' = "ReceiveFW" /\ reply' = "READY_FOR_FW" /\ timer' = Timeout
     \/ /\ fw_length' \notin InfoCells .. MaxFw
        /\ bl' = "UpdateFailure" /\ reply' = "NAK" /\ UNCHANGED timer
  /\ UNCHANGED <<flash, cursor, bytes_written, packets, resets,
                 info, fw_buffer, update_info>>

(* m_memcpy(pkt.data, ..., pkt.length): behind the payload it copies what  *)
(* follows the packet in RAM.                                              *)
PayloadCell(pkt, behind, k) ==
  IF k <= Payload THEN pkt.data[k] ELSE behind[k - Payload]

CopyPayload(pkt, behind) ==
  [i \in 0 .. MaxFw - 1 |->
     IF i \in bytes_written .. bytes_written + pkt.length - 1
     THEN PayloadCell(pkt, behind, i - bytes_written + 1) ELSE fw_buffer[i]]

(* The bound of the model: it leaves packets without data alone, which     *)
(* nothing in the code counts.                                             *)
CountData(pkt) ==
  \/ pkt.length = 0 /\ UNCHANGED packets
  \/ pkt.length > 0 /\ packets < MaxPackets /\ packets' = packets + 1

(* Mutant: the loop waits for exactly the announced length.                *)
ReceiveUntilExact(pkt) ==
  /\ bl = "ReceiveFW"
  /\ CountData(pkt)
  /\ \E behind \in Behind : fw_buffer' = CopyPayload(pkt, behind)
  /\ bytes_written' = bytes_written + pkt.length
  /\ timer' = Timeout
  /\ \/ bytes_written' > MaxFw /\ bl' = "Overrun" /\ UNCHANGED reply
     \/ bytes_written' = fw_length /\ bl' = "CheckSignature" /\ UNCHANGED reply
     \/ /\ bytes_written' \in 0 .. MaxFw \ {fw_length}
        /\ reply' = "READY_FOR_FW" /\ UNCHANGED bl
  /\ UNCHANGED <<flash, cursor, resets, info, fw_length, update_info>>

(* A packet that reaches past the end of fw_buffer overwrites the stack:   *)
(* nothing is known of the rest of that boot ("Overrun").  One without     *)
(* data is asked for again, with the timer started anew.                   *)
ReceiveFW(pkt) ==
  /\ bl = "ReceiveFW"
  /\ CountData(pkt)
  /\ \E behind \in Behind : fw_buffer' = CopyPayload(pkt, behind)
  /\ bytes_written' = bytes_written + pkt.length
  /\ timer' = Timeout
  /\ \/ bytes_written' > MaxFw /\ bl' = "Overrun" /\ UNCHANGED reply
     \/ /\ bytes_written' \in fw_length .. MaxFw
        /\ bl' = "CheckSignature" /\ UNCHANGED reply
     \/ /\ bytes_written' < fw_length
        /\ reply' = "READY_FOR_FW" /\ UNCHANGED bl
  /\ UNCHANGED <<flash, cursor, resets, info, fw_length, update_info>>

(* Mutant: an older version is as good as a newer one.                     *)
SizeAccepted(upd) == upd.size < MaxFw - InfoCells

(* Size and version of the received header are acceptable.                 *)
HeaderAccepted(upd) ==
  /\ upd.size < MaxFw - InfoCells
  /\ upd.version > info.version

CheckSignature ==
  /\ bl = "CheckSignature"
  /\ update_info' = ReadInfo(fw_buffer, 0)
  /\ \/ /\ HeaderAccepted(update_info')
        /\ SignatureValid(fw_buffer, InfoCells, update_info')
        /\ bl' = "UpdateFW" /\ reply' = "UPDATE_SUCCESS"
        /\ cursor' = StartPage
     \/ /\ \/ ~HeaderAccepted(update_info')
           \/ ~SignatureValid(fw_buffer, InfoCells, update_info')
        /\ bl' = "UpdateFailure" /\ reply' = "NAK"
        /\ UNCHANGED cursor
  /\ UNCHANGED <<flash, timer, bytes_written, packets, resets,
                 info, fw_length, fw_buffer>>

-----------------------------------------------------------------------------
(* BL_UpdateFW: bl_erase_firmware, then bl_write_firmware.                 *)

EraseFirmware ==
  /\ bl = "UpdateFW" /\ cursor <= EndPage
  /\ EraseNextPage
  /\ UNCHANGED <<bl, timer, bytes_written, reply, packets, resets, loopVars>>

(* Mutant: END_PAGE passed instead of END_PAGE + 1.                        *)
FinishEraseEarly ==
  /\ bl = "UpdateFW" /\ cursor >= EndPage
  /\ bl' = "WriteFW" /\ cursor' = 0
  /\ UNCHANGED <<flash, timer, bytes_written, reply, packets, resets, loopVars>>

FinishErase ==
  /\ bl = "UpdateFW" /\ cursor > EndPage
  /\ bl' = "WriteFW" /\ cursor' = 0
  /\ UNCHANGED <<flash, timer, bytes_written, reply, packets, resets, loopVars>>

WriteFirmware ==
  /\ bl = "WriteFW" /\ cursor < CellsToProgram(bytes_written)
  /\ ProgramNextCell(FwInfoStart, fw_buffer, bytes_written)
  /\ UNCHANGED <<bl, timer, bytes_written, reply, packets, resets, loopVars>>

FinishWrite ==
  /\ bl = "WriteFW" /\ cursor >= CellsToProgram(bytes_written)
  /\ bl' = "UpdateSuccess"
  /\ UNCHANGED <<flash, cursor, timer, bytes_written, reply, packets, resets, loopVars>>

-----------------------------------------------------------------------------
(* The ways out of the loop, and the rest of main.                         *)

(* Mutant: a successful update is verified with the header read before it. *)
LeaveLoopToVerify ==
  /\ bl \in {"UpdateSuccess", "UpdateTimeout", "UpdateFailure"}
  /\ bl' = "VerifyApplication"
  /\ UNCHANGED <<flash, cursor, timer, bytes_written, reply, packets, resets, loopVars>>

LeaveLoop ==
  /\ \/ bl = "UpdateSuccess" /\ bl' = "SwitchToApplication"
     \/ bl \in {"UpdateTimeout", "UpdateFailure"} /\ bl' = "VerifyApplication"
  /\ UNCHANGED <<flash, cursor, timer, bytes_written, reply, packets, resets, loopVars>>

(* verify_firmware.  Hashing info->size cells faults when they are not all *)
(* in the flash: the fault handler never returns.                          *)
VerifyApplication ==
  /\ bl = "VerifyApplication"
  /\ \/ FwStart + info.size > FlashEnd /\ bl' = "HardFault"
     \/ /\ FwStart + info.size <= FlashEnd
        /\ \/ SignatureValid(flash, FwStart, info) /\ bl' = "SwitchToApplication"
           \/ ~SignatureValid(flash, FwStart, info) /\ bl' = "InfiniteLoop"
  /\ UNCHANGED <<flash, cursor, timer, bytes_written, reply, packets, resets, loopVars>>

(* boot_cleanup and jump_to_firmware.                                      *)
JumpToFirmware ==
  /\ bl = "SwitchToApplication"
  /\ bl' = "Application"
  /\ UNCHANGED <<flash, cursor, timer, bytes_written, reply, packets, resets, loopVars>>

-----------------------------------------------------------------------------
Receive == \E pkt \in Packets :
  WaitingForUpdateReq(pkt) \/ FWLengthRes(pkt) \/ ReceiveFW(pkt)

(* What the bootloader does without waiting for anything.                  *)
Compute ==
  \/ FWLengthReq \/ CheckSignature
  \/ EraseFirmware \/ FinishErase \/ WriteFirmware \/ FinishWrite
  \/ LeaveLoop \/ VerifyApplication \/ JumpToFirmware

Next == Reset \/ Tick \/ CheckForTimeout \/ SyncObserved \/ Receive \/ Compute

(* SysTick keeps firing, the processor keeps executing, and an iteration   *)
(* without a packet comes up again and again while the timer has expired.  *)
Fairness == WF_vars(Tick) /\ WF_vars(Compute) /\ WF_vars(CheckForTimeout)

Spec     == Init /\ [][Next]_vars
FairSpec == Spec /\ Fairness

-----------------------------------------------------------------------------
(* Properties.                                                             *)

TypeOK ==
  /\ FlashTypeOK
  /\ bl \in BLState
  /\ info \in FirmwareInfo /\ update_info \in FirmwareInfo
  /\ timer \in 0 .. Timeout \cup {Reported}
  /\ fw_length \in Nat /\ bytes_written \in Nat
  /\ fw_buffer \in [0 .. MaxFw - 1 -> Cell]
  /\ reply \in Reply
  /\ packets \in 0 .. MaxPackets /\ resets \in 0 .. MaxResets

(* What the flash holds would pass verify_firmware.                        *)
FlashVerified ==
  LET inFlash == ReadInfo(flash, FwInfoStart)
  IN FwStart + inFlash.size <= FlashEnd /\ SignatureValid(flash, FwStart, inFlash)

(* The bootloader hands control only to firmware whose signature the flash *)
(* itself carries: both after a boot without update (verify_firmware) and  *)
(* after an update, when what was verified is the copy in RAM (README,     *)
(* "If the firmware is verified we switch to it else we loop forever").    *)
SwitchOnlyToVerified == bl = "Application" => FlashVerified

(* The version a boot reads never falls below the one an earlier boot      *)
(* read, whatever the update does and wherever power is lost in it.        *)
NoRollback == [][info'.version >= info.version]_vars

(* An abandoned update has been refused to the host's face: the boot gets  *)
(* to verify_firmware only after a NAK, and never after UPDATE_SUCCESS.    *)
FailureReported == bl = "VerifyApplication" => reply = "NAK"

(* The header main read before the update loop is still the one in flash   *)
(* when verify_firmware uses it.                                           *)
InfoFresh == bl = "VerifyApplication" => info = ReadInfo(flash, FwInfoStart)

(* An update never touches the bootloader's own code, although the header  *)
(* it rewrites shares a page with the end of the bootloader section.       *)
BootCodeIntact == \A a \in 0 .. BootImageCells - 1 : flash[a] = BootCode

(* However often packets are repeated and whatever length they claim,      *)
(* fw_buffer can be overrun only in a transfer whose announced length      *)
(* leaves less room in it than the longest packet takes.                   *)
OverrunNeedsLongFile == bl = "Overrun" => fw_length + LengthMax > MaxFw

(* What is erased for and flashed is one build, whole and with the header  *)
(* it was given, although the signature does not cover the header: the     *)
(* packets of updaters, lost, sent again, cut off by a reset and followed  *)
(* by those of another file, never pass for a file of their own.           *)
UpdateIsGenuine ==
  bl \in Flashing =>
    \E b \in Builds :
      update_info = Header(b) /\ BodyAt(fw_buffer, InfoCells, b)

(* A body is accepted only if the signer gave it a higher version than the *)
(* board has (README, "the firmware version is used to defend against      *)
(* replay attack where attacker might send old firmware versions").        *)
ReplayRefused ==
  bl \in Flashing =>
    \E b \in Builds :
      /\ b.signature = update_info.signature /\ Len(b.body) = update_info.size
      /\ BodyAt(fw_buffer, InfoCells, b)
      /\ b.version > info.version

(* On a board that `make flash` has just written, a genuine update file is *)
(* accepted (README, "the version number should start with 1").            *)
NothingInstalled == \A a \in FwInfoStart .. FwStart - 1 : flash[a] = Erased
HoldsFile(b) ==
  /\ bytes_written = Len(File(b)) /\ Len(b.body) < MaxFw - InfoCells
  /\ \A i \in 1 .. Len(File(b)) : fw_buffer[i - 1] = File(b)[i]
FirstInstallAccepted ==
  [][(bl = "CheckSignature" /\ bl' \notin {"CheckSignature", "Sync"}
        /\ NothingInstalled /\ \E b \in Builds : HoldsFile(b))
     => bl' = "UpdateFW"]_vars

(* Every boot comes to an end (application, refusal or fault) whatever the *)
(* host sends or leaves out, unless it sends packets without data to the   *)
(* end of time: each of them starts the timer anew and brings the transfer *)
(* no further.                                                             *)
BootDecides == (bl = "Sync") ~> (bl \in Stopped)
FedNothing ==
  bl = "ReceiveFW" /\ UNCHANGED <<bl, bytes_written>> /\ timer' > timer
DecidesUnlessFed == BootDecides \/ []<><<FedNothing>>_vars
-----------------------------------------------------------------------------
(* Refinement of SecureBoot.                                               *)

NoFirmware == [version |-> 0, body |-> <<>>, signature |-> <<>>]

(* What lies in `mem` behind a header that says `said`, if it is signed.   *)
ImageAt(mem, base, said) ==
  IF SignatureValid(mem, base, said)
  THEN [version   |-> said.version,
        body      |-> [i \in 1 .. said.size |-> mem[base + i - 1]],
        signature |-> said.signature]
  ELSE NoFirmware

ImageInFlash == ImageAt(flash, FwStart, ReadInfo(flash, FwInfoStart))

ImageInBuffer ==
  IF bl \in Flashing THEN ImageAt(fw_buffer, InfoCells, update_info) ELSE NoFirmware

Promise == INSTANCE SecureBoot WITH
  installed <- ImageInFlash,
  pending   <- ImageInBuffer,
  floor     <- info.version,
  running   <- bl = "Application"

(* The bootloader implements SecureBoot, whatever packets it is sent.      *)
KeepsPromise == Promise!Spec

(* The image of build b is in flash whole: its header and its body.        *)
Installed(b) ==
  /\ ReadInfo(flash, FwInfoStart) = Header(b)
  /\ BodyAt(flash, FwStart, b)
==============================================================================
