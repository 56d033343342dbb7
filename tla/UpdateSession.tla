---------------------------- MODULE UpdateSession ----------------------------
(***************************************************************************)
(* A whole update: the updater of the host (Updater), the serial line      *)
(* (SerialLine), the packet layer of the bootloader, frame by frame, and   *)
(* the boot and update loop (Bootloader).                                  *)
(*                                                                         *)
(* Comms has the packet layer byte by byte; here comms_update takes one    *)
(* burst of the line at a time.                                            *)
(*                                                                         *)
(* Time: both ends wait for seconds while a frame takes 2 ms and a         *)
(* signature some 100 ms.  So time passes only while the bootloader has    *)
(* nothing to do, and a tick is one sleep of the host.                     *)
(***************************************************************************)
EXTENDS Updater, Bootloader

VARIABLES
  bskew,          \* bytes in temp_packet
  inbox,          \* the packet buffer: one packet at most, see Comms
  last_written,   \* prev_packet of comms.c
  halted          \* stopped at the breakpoint of a full packet buffer

(* The link delivers what an updater sends; `vars` are the bootloader's.   *)
ASSUME SessionAssumption == UNION {FilePackets(f) : f \in Files} \subseteq Packets

layerVars   == <<bskew, inbox, last_written, halted>>
sessionVars == <<vars, layerVars, hostVars, lineVars>>

LayerInit ==
  bskew = 0 /\ inbox = <<>> /\ last_written = "None" /\ halted = FALSE

SessionInit == HostInit /\ Init /\ LayerInit

-----------------------------------------------------------------------------
(* comms.c, frame by frame.                                                *)

(* comms_write *)
BootWrites(frame) == SendToHost(frame) /\ last_written' = frame

Silent == UNCHANGED <<to_host, faults, last_written>>

(* Mutant: an ACK is a packet like others.                                 *)
DispatchKeepingAcks(frame) ==
  \/ frame = Spoilt /\ BootWrites("RET") /\ UNCHANGED <<inbox, halted>>
  \/ /\ frame = Control(RetByte)
     /\ SendToHost(last_written) /\ UNCHANGED <<last_written, inbox, halted>>
  \/ /\ frame \notin {Spoilt, Control(RetByte)}
     /\ \/ inbox = <<>> /\ inbox' = <<frame>> /\ BootWrites("ACK") /\ UNCHANGED halted
        \/ inbox # <<>> /\ halted' = TRUE /\ Silent /\ UNCHANGED inbox

(* A complete frame.  The prev_packet of a bootloader that has written     *)
(* nothing is all zeros, which no checksum matches.                        *)
Dispatch(frame) ==
  \/ /\ frame = Spoilt
     /\ BootWrites("RET") /\ UNCHANGED <<inbox, halted>>
  \/ /\ frame = Control(RetByte)
     /\ SendToHost(IF last_written = "None" THEN Spoilt ELSE last_written)
     /\ UNCHANGED <<last_written, inbox, halted>>
  \/ frame = Control(AckByte) /\ Silent /\ UNCHANGED <<inbox, halted>>
  \/ /\ frame \notin {Spoilt, Control(RetByte), Control(AckByte)}
     /\ \/ inbox = <<>> /\ inbox' = <<frame>> /\ BootWrites("ACK") /\ UNCHANGED halted
        \/ inbox # <<>> /\ halted' = TRUE /\ Silent /\ UNCHANGED inbox

(* The loop calls comms_update before each switch on the state but in      *)
(* BL_Sync; while the flash is busy it does not get there.                 *)
CallsUpdate ==
  /\ bl \in Looping \ {"Sync", "WriteFW"}
  /\ bl = "UpdateFW" => cursor = StartPage

CommsUpdate ==
  /\ CallsUpdate /\ ~halted
  /\ to_boot # <<>> /\ to_boot' = Tail(to_boot)
  /\ bskew' = SkewAfter(bskew, Head(to_boot))
  /\ \/ /\ Completes(bskew, Head(to_boot))
        /\ Dispatch(Received(bskew, Head(to_boot)))
     \/ ~Completes(bskew, Head(to_boot)) /\ Silent /\ UNCHANGED <<inbox, halted>>
  /\ UNCHANGED <<vars, hostVars>>

-----------------------------------------------------------------------------
(* bootloader.c, with what each step reads and writes.                     *)

(* BL_Sync reads bytes, not packets, and then empties the ring, of what    *)
(* has arrived by then.                                                    *)
BootSync ==
  /\ bl = "Sync" /\ to_boot # <<>>
  /\ \/ /\ Head(to_boot).frame = SyncSeq
        /\ SyncObserved /\ BootWrites(reply')
        /\ to_boot' \in {Tail(to_boot), <<>>}
     \/ /\ Head(to_boot).frame # SyncSeq
        /\ to_boot' = Tail(to_boot) /\ Silent /\ UNCHANGED vars
  /\ UNCHANGED <<bskew, inbox, halted, hostVars>>

(* comms_is_packet_available, comms_read                                   *)
BootReads ==
  /\ inbox # <<>> /\ inbox' = <<>> /\ ~halted
  /\ LET pkt == Head(inbox)
     IN \/ WaitingForUpdateReq(pkt) /\ BootWrites(reply')
        \/ FWLengthRes(pkt) /\ BootWrites(reply')
        \/ /\ ReceiveFW(pkt)
           /\ \/ bl' = "ReceiveFW" /\ BootWrites(reply')
              \/ bl' # "ReceiveFW" /\ Silent
  /\ UNCHANGED <<to_boot, bskew, halted, hostVars>>

(* A timeout is looked for where no packet is found.                       *)
BootTimesOut ==
  /\ ~halted /\ (inbox = <<>> \/ bl = "Sync")
  /\ CheckForTimeout /\ BootWrites(reply')
  /\ UNCHANGED <<to_boot, bskew, inbox, halted, hostVars>>

BootComputes ==
  /\ ~halted
  /\ \/ (FWLengthReq \/ CheckSignature) /\ BootWrites(reply')
     \/ /\ \/ EraseFirmware \/ FinishErase
           \/ WriteFirmware \/ FinishWrite
           \/ LeaveLoop \/ VerifyApplication \/ JumpToFirmware
        /\ Silent
  /\ UNCHANGED <<to_boot, bskew, inbox, halted, hostVars>>

(* Nobody reads the port once the loop is left.                            *)
Deaf == halted \/ bl \notin Looping
Unheard ==
  /\ Deaf /\ to_boot # <<>> /\ to_boot' = Tail(to_boot)
  /\ UNCHANGED <<vars, layerVars, hostVars, to_host, faults>>

BootResets ==
  /\ Reset
  /\ to_boot' = <<>> /\ bskew' = 0 /\ inbox' = <<>>
  /\ last_written' = "None" /\ halted' = FALSE
  /\ UNCHANGED <<hostVars, to_host, faults>>

-----------------------------------------------------------------------------
Idle ==
  /\ to_boot = <<>>
  /\ \/ Deaf /\ (halted \/ bl \in Stopped)
     \/ ~Deaf /\ bl \in Waiting /\ inbox = <<>> /\ timer > 0

(* The bootloader's part in the passing of 100 ms.                         *)
TimePasses ==
  /\ Idle
  /\ \/ ~Deaf /\ Tick
     \/ Deaf /\ UNCHANGED vars
  /\ UNCHANGED layerVars

HostSleeps == Wake /\ TimePasses
NobodyThere ==
  /\ hpc \in {"idle", "done"} /\ ~Deaf
  /\ TimePasses /\ UNCHANGED <<hostVars, lineVars>>

HostRuns == Run /\ UNCHANGED <<vars, layerVars>>

HostStarts == Launch /\ UNCHANGED <<vars, layerVars>>

BootStep == CommsUpdate \/ BootSync \/ BootReads \/ BootTimesOut \/ BootComputes

SessionNext ==
  \/ HostStarts \/ HostRuns \/ HostSleeps
  \/ BootStep \/ Unheard \/ BootResets \/ NobodyThere

(* Both processors keep executing and time keeps passing.  The user need   *)
(* not start the updater.                                                  *)
SessionSpec ==
  SessionInit /\ [][SessionNext]_sessionVars
  /\ WF_sessionVars(HostRuns) /\ WF_sessionVars(BootStep) /\ WF_sessionVars(Unheard)
  /\ WF_sessionVars(HostSleeps) /\ WF_sessionVars(NobodyThere)

-----------------------------------------------------------------------------
(* Properties.                                                             *)

SessionTypeOK ==
  /\ TypeOK
  /\ fw_data \in Files /\ step \in Waits \cup Over
  /\ hpc \in {"idle", "write", "sleep", "poll", "done"}
  /\ to_poll \in 0 .. Len(to_host)
  /\ hskew \in 0 .. FrameBytes - 1 /\ bskew \in 0 .. FrameBytes - 1
  /\ iterations \in Nat /\ bytes_sent \in 0 .. Len(fw_data)
  /\ Len(inbox) <= 1 /\ faults \in 0 .. MaxFaults /\ halted \in BOOLEAN
  /\ last_written \in Reply \cup {"ACK", "RET"}

(* "Update Success": the bootloader has received and accepted exactly the  *)
(* file the host has read, whatever was hit, resent or received twice.     *)
SuccessIsTrue ==
  step = "Success" /\ resets = 0 =>
    /\ reply = "UPDATE_SUCCESS" /\ bytes_written >= Len(fw_data)
    /\ \A i \in 1 .. Len(fw_data) : fw_buffer[i - 1] = fw_data[i]

(* As long as no burst has been hit, what has been received is a prefix of *)
(* the file, and the host is at most one packet ahead.                     *)
TransferIsPrefix ==
  faults = 0 /\ bl \in {"ReceiveFW", "CheckSignature"} =>
    /\ bytes_written <= bytes_sent /\ bytes_sent <= bytes_written + Payload
    /\ \A i \in 1 .. bytes_written : fw_buffer[i - 1] = fw_data[i]

(* As long as no burst has been hit, the two ends agree on the outcome: a  *)
(* host that gives up leaves a bootloader that has not accepted the file.  *)
FailureIsTrue ==
  faults = 0 /\ step = "Failed" => reply # "UPDATE_SUCCESS"

(* The answers keep the host in step: it never has two packets under way   *)
(* for a packet buffer that holds one.                                     *)
NoBreakpoint == faults = 0 => ~halted

(* The updater ends, however many frames are answered with a RET.          *)
HostEnds == (hpc = "write") ~> (hpc = "done")

(* So does the boot, whatever the updater does meanwhile.                  *)
BootEnds == (bl = "Sync") ~> (bl \in Stopped \/ halted)

(* What the host calls a success is running in the end, unless the board   *)
(* is reset.                                                               *)
HostFile == CHOOSE b \in Builds : File(b) = fw_data
SuccessIsInstalled ==
  (step = "Success") ~>
    ((bl = "Application" /\ Installed(HostFile)) \/ resets > 0)

(* On a line that hits nothing, a file that is acceptable is accepted once *)
(* the two ends have found each other.                                     *)
Acceptable == HeaderAccepted(
  [version |-> HostFile.version, size |-> Len(HostFile.body),
   signature |-> HostFile.signature])
CleanUpdateSucceeds ==
  (bl = "WaitingForUpdateReq" /\ Acceptable) ~>
    (step = "Success" \/ resets > 0 \/ faults > 0)
==============================================================================
