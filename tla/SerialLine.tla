----------------------------- MODULE SerialLine -----------------------------
(***************************************************************************)
(* The two directions of the serial line between the updater and the       *)
(* bootloader, a burst of bytes at a time, and how a receiver that counts  *)
(* bytes (comms_update, poll_queue) cuts them into frames.                 *)
(*                                                                         *)
(* A burst is a frame, or the four bytes of the sync sequence.  The line   *)
(* may garble a byte of it or drop one.  A receiver that holds SKEW bytes  *)
(* of an unfinished frame completes it with bytes of the next burst: what  *)
(* it gets is spoilt, and stays so until its skew is a whole frame.        *)
(***************************************************************************)
EXTENDS Integers, Sequences

CONSTANTS
  FrameBytes,    \* PACKET_SIZE
  SyncBytes,     \* length of FU_SYNC_SEQ
  SyncSeq,       \* FU_SYNC_SEQ
  Spoilt,        \* what fails the check of its CRC
  MaxFaults      \* bound on the bursts hit

ASSUME LineAssumption ==
  /\ SyncBytes \in Nat \ {0} /\ FrameBytes \in Nat /\ SyncBytes < FrameBytes
  /\ MaxFaults \in Nat

VARIABLES
  to_boot, to_host,    \* bursts that have not been received yet
  faults               \* bursts hit so far

lineVars == <<to_boot, to_host, faults>>

Burst(n, frame) == [bytes |-> n, frame |-> frame]

(* What may come of a burst that is hit: all of it, or one byte less.      *)
Hit(n) == {Burst(n, Spoilt), Burst(n - 1, Spoilt)}

SendToBoot(n, frame) ==
  \/ to_boot' = Append(to_boot, Burst(n, frame)) /\ UNCHANGED faults
  \/ /\ faults < MaxFaults /\ faults' = faults + 1
     /\ \E burst \in Hit(n) : to_boot' = Append(to_boot, burst)

SendToHost(frame) ==
  \/ to_host' = Append(to_host, Burst(FrameBytes, frame)) /\ UNCHANGED faults
  \/ /\ faults < MaxFaults /\ faults' = faults + 1
     /\ \E burst \in Hit(FrameBytes) : to_host' = Append(to_host, burst)

(* Mutant: the counters are not reset by a complete frame.                 *)
SkewCounting(skew, burst) == skew + burst.bytes

(* A receiver that holds `skew` bytes takes a burst.                       *)
Completes(skew, burst) == skew + burst.bytes >= FrameBytes
SkewAfter(skew, burst) == (skew + burst.bytes) % FrameBytes
Received(skew, burst)  == IF skew = 0 THEN burst.frame ELSE Spoilt
==============================================================================
