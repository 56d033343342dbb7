----------------------------- MODULE MCSession -----------------------------
(***************************************************************************)
(* A small board, as in MCBootloader, and files of two and three packets.  *)
(***************************************************************************)
EXTENDS SessionProofs

Build(v, n) ==
  [version |-> v, body |-> [i \in 1 .. n |-> 10 * v + i], signature |-> <<40 + v, 50>>]

Old == Build(1, 4)
New == Build(2, 8)
MCBuilds == {Old, New}
MCOld    == {Old}
MCNone   == {}

MCFiles  == {File(b) : b \in MCBuilds}

(* Its last packet is one cell, and that is the ACK.                       *)
Tail6 == [version |-> 2, signature |-> <<42, 50>>, body |-> <<21, 22, 23, 24, AckByte>>]
TailBuilds == {Old, Tail6}
TailFile   == {File(Tail6)}

(* What the theorems of SessionProofs assume of files, images and frames.  *)
ASSUME Releases /\ FilesDistinct /\ FilesGenuine /\ FramesDiffer /\ Patient

MCPackets == UNION {FilePackets(f) : f \in Files}

MCBehind == {[k \in 1 .. LengthMax - Payload |-> 0]}
==============================================================================
