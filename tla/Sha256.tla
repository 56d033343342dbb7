-------------------------------- MODULE Sha256 --------------------------------
(***************************************************************************)
(* util/sha256.c: the buffering, padding and length field around the       *)
(* compression function.  SHA256Guts is kept apart: `hash` is the sequence *)
(* of blocks it has been given, so that two messages have one digest only  *)
(* if they are cut into the same blocks.                                   *)
(*                                                                         *)
(* A caller adds the message piece by piece (the bootloader in one piece,  *)
(* calculate_firmware_hash).                                               *)
(***************************************************************************)
EXTENDS Integers, SequencesExt

CONSTANTS
  BlockBytes,      \* 64
  LengthBytes,     \* 8, the length field
  BitsPerByte,     \* 8
  Message          \* the longest message, others are its prefixes

ByteBase == 2 ^ BitsPerByte

ASSUME HashAssumption ==
  /\ BlockBytes \in Nat /\ LengthBytes \in 1 .. BlockBytes - 1
  /\ BitsPerByte \in Nat \ {0}
  /\ Message \in Seq(0 .. ByteBase - 1)

VARIABLES
  sc,        \* the context: totalLength, hash, bufferLength, buffer
  given,     \* bytes the caller has passed to ecdsa_sha256_update
  hpc

hashVars == <<sc, given, hpc>>

(* padding[]: 0x80 and zeros.                                              *)
Padding(n) == [i \in 1 .. n |-> IF i = 1 THEN ByteBase \div 2 ELSE 0]

(* The bytes of a 64-bit length after BYTESWAP64: most significant first.  *)
LengthField(n) ==
  [i \in 1 .. LengthBytes |-> (n \div ByteBase ^ (LengthBytes - i)) % ByteBase]

Blocks(bytes) ==
  [b \in 1 .. Len(bytes) \div BlockBytes |->
     SubSeq(bytes, (b - 1) * BlockBytes + 1, b * BlockBytes)]

(* memcpy of data to &buffer.bytes[at].                                    *)
Fill(buffer, at, data) ==
  [i \in 0 .. BlockBytes - 1 |->
     IF i \in at .. at + Len(data) - 1 THEN data[i - at + 1] ELSE buffer[i]]

BufferBlock(buffer) == [i \in 1 .. BlockBytes |-> buffer[i - 1]]

InitContext(buffer) ==
  [totalLength |-> 0, hash |-> <<>>, bufferLength |-> 0, buffer |-> buffer]

(* First part of ecdsa_sha256_update: top up a buffer that is not empty    *)
(* and digest it when it is full.                                          *)
TopUp(c, data) ==
  LET filled == Fill(c.buffer, c.bufferLength, data)
      length == c.bufferLength + Len(data)
  IN IF length = BlockBytes
     THEN [c EXCEPT !.buffer = filled, !.bufferLength = 0,
                    !.hash = Append(@, BufferBlock(filled))]
     ELSE [c EXCEPT !.buffer = filled, !.bufferLength = length]

(* bytesToCopy: no more than there is room for, and than there is.         *)
RoomInBuffer(c, data) ==
  IF c.bufferLength = 0 THEN 0
  ELSE IF BlockBytes - c.bufferLength > Len(data) THEN Len(data)
       ELSE BlockBytes - c.bufferLength

(* ecdsa_sha256_update: the rest of data is digested in place block by     *)
(* block, and its tail is kept in the buffer.                              *)
Update(c, data) ==
  LET room  == RoomInBuffer(c, data)
      c1    == IF c.bufferLength = 0 THEN c ELSE TopUp(c, SubSeq(data, 1, room))
      rest  == SubSeq(data, room + 1, Len(data))
      whole == (Len(rest) \div BlockBytes) * BlockBytes
      tail  == SubSeq(rest, whole + 1, Len(rest))
  IN [c1 EXCEPT
        !.hash = @ \o Blocks(rest),
        !.buffer = Fill(@, c1.bufferLength, tail),
        !.bufferLength = @ + Len(tail),
        !.totalLength = (@ + BitsPerByte * Len(data)) % ByteBase ^ LengthBytes]

(* Mutant: no padding when exactly the length field fits into the block.   *)
BytesToPadShort(c) ==
  LET n == 2 * BlockBytes - LengthBytes - c.bufferLength
  IN IF n >= BlockBytes THEN n - BlockBytes ELSE n

(* bytesToPad: at least the 0x80, and up to the length field.              *)
BytesToPad(c) ==
  LET n == 2 * BlockBytes - LengthBytes - c.bufferLength
  IN IF n > BlockBytes THEN n - BlockBytes ELSE n

(* ecdsa_sha256_final: the length is read before the padding counts.       *)
Final(c) ==
  Update(Update(c, Padding(BytesToPad(c))), LengthField(c.totalLength))

-----------------------------------------------------------------------------
HashInit ==
  /\ sc = InitContext([i \in 0 .. BlockBytes - 1 |-> 0])
  /\ given = 0 /\ hpc = "update"

(* The context is a local variable: what an earlier call left in its       *)
(* buffer is still there.                                                  *)
HashRestart ==
  /\ hpc = "done"
  /\ sc' = InitContext(sc.buffer) /\ given' = 0 /\ hpc' = "update"

HashUpdate(n) ==
  /\ hpc = "update" /\ n <= Len(Message) - given
  /\ sc' = Update(sc, SubSeq(Message, given + 1, given + n))
  /\ given' = given + n /\ UNCHANGED hpc

HashFinal ==
  /\ hpc = "update"
  /\ sc' = Final(sc) /\ hpc' = "done" /\ UNCHANGED given

HashNext ==
  HashRestart \/ HashFinal \/ \E n \in 0 .. Len(Message) : HashUpdate(n)

HashSpec == HashInit /\ [][HashNext]_hashVars

-----------------------------------------------------------------------------
(* Properties.                                                             *)

(* FIPS 180-4, 5.1.1: the message, a one bit, the fewest zeros that let    *)
(* the length field end a block, and the length.                           *)
PaddedLength(n) ==
  CHOOSE m \in n + 1 + LengthBytes .. n + LengthBytes + BlockBytes :
    m % BlockBytes = 0
Padded(bytes) ==
  LET length == PaddedLength(Len(bytes))
  IN bytes \o Padding(length - Len(bytes) - LengthBytes)
       \o LengthField(BitsPerByte * Len(bytes))

(* In whatever pieces a message has been added, also in none, and whatever *)
(* its length is to the block and to the length field: what has been       *)
(* digested is the standard's padded message, with nothing left over.      *)
DigestIsStandard ==
  hpc = "done" =>
    sc.hash = Blocks(Padded(SubSeq(Message, 1, given))) /\ sc.bufferLength = 0
==============================================================================
