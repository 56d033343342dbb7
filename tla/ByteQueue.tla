------------------------------ MODULE ByteQueue ------------------------------
(***************************************************************************)
(* What the receive path promises its reader: a queue that hands over the  *)
(* bytes it accepted, once each and in order, and that refuses a byte only *)
(* when Capacity bytes are waiting.                                        *)
(***************************************************************************)
EXTENDS Naturals, Sequences

CONSTANTS Byte, Capacity

VARIABLES
  waiting,   \* accepted and not yet handed over
  taken      \* the byte handed over last

Init == waiting = <<>> /\ taken \in Byte

Accept(b) ==
  /\ Len(waiting) < Capacity
  /\ waiting' = Append(waiting, b)
  /\ UNCHANGED taken

Take ==
  /\ waiting # <<>>
  /\ taken' = Head(waiting)
  /\ waiting' = Tail(waiting)

Next == Take \/ \E b \in Byte : Accept(b)

Spec == Init /\ [][Next]_<<waiting, taken>>
==============================================================================
