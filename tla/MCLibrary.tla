----------------------------- MODULE MCLibrary -----------------------------
(***************************************************************************)
(* The units the two programs are built on, each by itself: a behaviour    *)
(* uses one of them. Counters wrap after a few ticks, the ring has four    *)
(* cells, blocks have eight bytes, base64 has digits of one bit, and       *)
(* integers have three words of four bits.                                 *)
(***************************************************************************)
EXTENDS Timer, RingBuffer, Sha256, Base64, Vli

MCWaits   == {1, 3}
MCMessage == [n \in 1 .. 20 |-> n % 16]

(* Byte strings of up to six bytes, fewer values the longer they are.      *)
MCKeys ==
  {<<>>} \cup [1 .. 1 -> 0 .. 15] \cup [1 .. 2 -> 0 .. 15]
         \cup [1 .. 3 -> {0, 1, 6, 9, 15}] \cup [1 .. 4 -> {0, 9, 15}]
         \cup [1 .. 5 -> {0, 15}] \cup [1 .. 6 -> {6, 9}]

(* Around the ends of words, of their number, and of p and n.              *)
MCOperands ==
  {0, 1, 2, 7, 15, 16, 17, 18, 100, 204, 255, 256, 257, 511, 1000, 2047, 2048, 2049, 2500,
   3333, 3594, 3839, 3840, 4000, 4048, 4055, 4056, 4057, 4058, 4071, 4072, 4073, 4080, 4094, 4095}

VARIABLE unit
libraryVars == <<unit, timerVars, ringVars, hashVars, decodeVars, vliVars>>

AnyByte   == CHOOSE x \in Byte : TRUE

(* What is in a new ring is arbitrary, for a behaviour that uses it.       *)
Init ==
  /\ unit \in {"timer", "ring", "sha256", "base64", "vli"}
  /\ TimerInit /\ RingInit /\ HashInit /\ DecodeInit /\ VliInit
  /\ unit # "ring" =>
       buffer = [x \in Index |-> AnyByte] /\ fetched = AnyByte /\ byte = AnyByte

Next ==
  /\ UNCHANGED unit
  /\ \/ unit = "timer"  /\ TimerNext  /\ UNCHANGED <<ringVars, hashVars, decodeVars, vliVars>>
     \/ unit = "ring"   /\ RingNext   /\ UNCHANGED <<timerVars, hashVars, decodeVars, vliVars>>
     \/ unit = "sha256" /\ HashNext   /\ UNCHANGED <<timerVars, ringVars, decodeVars, vliVars>>
     \/ unit = "base64" /\ DecodeNext /\ UNCHANGED <<timerVars, ringVars, hashVars, vliVars>>
     \/ unit = "vli"    /\ VliNext    /\ UNCHANGED <<timerVars, ringVars, hashVars, decodeVars>>

(* Only the ring is used by two at once, and the reader goes on.           *)
Spec == Init /\ [][Next]_libraryVars /\ WF_ringVars(ReadByte)
==============================================================================
