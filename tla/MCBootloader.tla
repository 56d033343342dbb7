---------------------------- MODULE MCBootloader ----------------------------
(***************************************************************************)
(* Small boards for TLC.  The layout keeps the shape of the real one: the  *)
(* header ends the bootloader section inside the first erased page, and    *)
(* MAX_FW_LENGTH equals the size of the erased pages, so that the largest  *)
(* image reaches past them.  Page 1 stands for page 15, page 2 for pages   *)
(* 16 to 24, page 3 for page 25.                                           *)
(***************************************************************************)
EXTENDS Bootloader, FiniteSetsExt

Build(v, n) ==
  [version   |-> v,
   body      |-> [i \in 1 .. n |-> 10 * v + i],
   signature |-> <<40 + v, 50>>]

B1 == Build(1, 4)
B2 == Build(2, 8)    \* header and body end with the erased pages
B3 == Build(3, 9)    \* one cell longer, still below the limit on size
B4 == Build(4, 9)
B5 == Build(3, 5)    \* odd length: the last word is padded

(* The packets the host cuts a file into.                                  *)
Chunks(b) ==
  LET file == File(b)
  IN { NewPacket(SubSeq(file, o + 1, Min({o + Payload, Len(file)}))) :
         o \in {n \in 0 .. Len(file) - 1 : n % Payload = 0} }

(* Request, announced lengths (right, shortest, too short, too long), data *)
PacketsOf(builds) ==
  {Control(UpReqByte)}
    \cup {NewPacket(WordCells(n)) :
            n \in {InfoCells - 1, InfoCells, MaxFw + 1} \cup {Len(File(b)) : b \in builds}}
    \cup UNION {Chunks(b) : b \in builds}

(* Packets no updater makes: without data, and one that claims more cells  *)
(* than it has payload.                                                    *)
Empty   == NewPacket(<<>>)
TooLong == [NewPacket(SubSeq(File(B5), 1, Payload)) EXCEPT !.length = LengthMax]

(* The signed body of b behind a header that claims version v.             *)
Forged(b, v) == Chunks([b EXCEPT !.version = v])

(* Two contents of the RAM behind a packet.                                *)
MCBehind == {[k \in 1 .. LengthMax - Payload |-> c] : c \in {0, Erased}}

FitBuilds     == {B1, B2, B5}
LargeBuilds   == {B3, B4}
FitPackets    == PacketsOf(FitBuilds)
AnyPackets    == PacketsOf({B2, B5}) \cup {Empty, TooLong} \cup Forged(B5, 4)
ReplayPackets == PacketsOf({B1}) \cup Forged(B1, 4)
LivePackets   ==
  {Control(UpReqByte), NewPacket(WordCells(Len(File(B2)))), Empty} \cup Chunks(B2)
LargePackets  == PacketsOf(LargeBuilds)
OldBuild      == {B1}
NewBuild      == {B2}
LargeBuild    == {B3}
NoBuild       == {}
==============================================================================
