----------------------------- MODULE SecureBoot -----------------------------
(***************************************************************************)
(* What the bootloader promises to whoever owns the board, without flash,  *)
(* packets or time (README, "Bootloader state machine"):                   *)
(*   - the application runs only from an image whose body is signed and    *)
(*     that is installed whole;                                            *)
(*   - an image is replaced only by one that claims a higher version than  *)
(*     any the board has started with.  The claim is not signed: nothing   *)
(*     is promised of the age of the body;                                 *)
(*   - power lost during an installation leaves no firmware rather than    *)
(*     half of one, and the board then refuses to run.                     *)
(***************************************************************************)
EXTENDS Integers

CONSTANTS Images,      \* signed bodies, each under every version
          NoFirmware   \* the flash holds nothing that verifies

VARIABLES
  installed,   \* the image in flash, or NoFirmware
  pending,     \* the image accepted for installation, or NoFirmware
  floor,       \* the version read when the board last started
  running      \* the application has control

vars == <<installed, pending, floor, running>>

Init ==
  /\ installed \in Images \cup {NoFirmware}
  /\ pending = NoFirmware /\ ~running
  /\ floor \in Nat
  /\ installed # NoFirmware => floor = installed.version

(* A complete and signed image of a higher version has been received.      *)
Accept ==
  /\ ~running /\ pending = NoFirmware
  /\ pending' \in Images /\ pending'.version > floor
  /\ UNCHANGED <<installed, floor, running>>

(* The old firmware is gone before the new one is there.                   *)
Remove ==
  /\ pending # NoFirmware /\ installed # NoFirmware
  /\ installed' = NoFirmware
  /\ UNCHANGED <<pending, floor, running>>

Install ==
  /\ pending # NoFirmware /\ installed = NoFirmware
  /\ installed' = pending
  /\ UNCHANGED <<pending, floor, running>>

(* The installation is over; it has succeeded.                             *)
Complete ==
  /\ pending # NoFirmware /\ installed = pending
  /\ pending' = NoFirmware
  /\ UNCHANGED <<installed, floor, running>>

Run ==
  /\ ~running /\ pending = NoFirmware /\ installed # NoFirmware
  /\ running' = TRUE
  /\ UNCHANGED <<installed, pending, floor>>

(* A reset drops what was pending.  The board may have become pickier.     *)
Restart ==
  /\ running' = FALSE /\ pending' = NoFirmware
  /\ floor' \in Nat /\ floor' >= floor
  /\ installed # NoFirmware => floor' = installed.version
  /\ UNCHANGED installed

Next == Accept \/ Remove \/ Install \/ Complete \/ Run \/ Restart

Spec == Init /\ [][Next]_vars
==============================================================================
