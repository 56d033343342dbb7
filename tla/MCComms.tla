------------------------------- MODULE MCComms -------------------------------
(***************************************************************************)
(* Two bytes of payload and two of checksum: every state of the receiver   *)
(* lasts for more than one byte where it does in the code.                 *)
(***************************************************************************)
EXTENDS Comms

(* What the proofs assume of the data packets holds here.                  *)
ASSUME DataIsNoControl
==============================================================================
