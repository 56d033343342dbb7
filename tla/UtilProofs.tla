----------------------------- MODULE UtilProofs -----------------------------
(***************************************************************************)
(* util/sha256.c and util/base64.c, for every length and content.          *)
(*                                                                         *)
(* In whatever pieces it is added, a message is digested in the blocks of  *)
(* the standard's padded message. The argument is what a context stands    *)
(* for (Holds): the whole blocks of what has been added are digested and   *)
(* the rest is in the buffer. An update keeps it, and final is two         *)
(* updates.                                                                *)
(*                                                                         *)
(* b64decode gives back every key that was encoded, whether it was padded  *)
(* or not. A group is a number below ByteValues^3 = CharValues^4, written  *)
(* in three bytes and in four characters. The last group is short by one   *)
(* or two bytes, which are taken for zeros; then its last characters are   *)
(* zeros, too, and the decoder loses nothing by not reading them.          *)
(***************************************************************************)
EXTENDS Sha256, Base64, SequenceTheorems, FiniteSetTheorems, Numbers

-----------------------------------------------------------------------------
(* SHA-256.                                                                *)

(* The standard's own limit: the length of a message fits its field.       *)
LengthFits ==
  /\ ByteBase ^ LengthBytes \in Nat
  /\ BitsPerByte * Len(Message) < ByteBase ^ LengthBytes

(* All bytes that are ever digested.                                       *)
LengthValues == {(n \div ByteBase ^ k) % ByteBase : n, k \in Int}
Byte == (0 .. ByteBase - 1) \cup {ByteBase \div 2, 0} \cup LengthValues

(* The context c stands for the bytes m.                                   *)
Holds(c, m) ==
  /\ DOMAIN c = {"totalLength", "hash", "bufferLength", "buffer"}
  /\ c.hash = Blocks(m)
  /\ c.bufferLength = Len(m) % BlockBytes
  /\ DOMAIN c.buffer = 0 .. BlockBytes - 1
  /\ \A k \in 0 .. c.bufferLength - 1 :
       c.buffer[k] = m[Len(m) - c.bufferLength + k + 1]

HashInv ==
  /\ given \in 0 .. Len(Message) /\ hpc \in {"update", "done"}
  /\ DOMAIN sc.buffer = 0 .. BlockBytes - 1
  /\ hpc = "update" => /\ Holds(sc, SubSeq(Message, 1, given))
                       /\ sc.totalLength = BitsPerByte * given
  /\ DigestIsStandard
-----------------------------------------------------------------------------
(* Blocks and what is left over.                                           *)

(* Every length is one of blocks and a rest.                               *)
LEMMA Cut ==
  ASSUME NEW n \in Nat
  PROVE  \E q \in Nat : \E r \in 0 .. BlockBytes - 1 :
           n = BlockBytes * q + r /\ n \div BlockBytes = q /\ n % BlockBytes = r
<1>1. BlockBytes \in Nat \ {0}
  BY HashAssumption
<1>2. ASSUME NEW M \in Nat \ {0}
      PROVE  /\ n \div M \in Nat /\ n % M \in 0 .. M - 1
             /\ n = M * (n \div M) + (n % M)
  <2> DEFINE d == n \div M
             e == n % M
  <2>1. d \in Int /\ e \in 0 .. M - 1 /\ n = M * d + e
    OBVIOUS
  <2> HIDE DEF d, e
  <2>2. ASSUME NEW k \in Int, k >= 1 PROVE M * k >= M
    BY <2>2
  <2>3. d >= 0
    <3>1. M * (-d) = -(M * d) /\ -d \in Int /\ M * d \in Int
      BY <2>1
    <3>2. ~(-d >= 1)
      BY <2>1, <2>2, <3>1
    <3> QED
      BY <2>1, <3>2
  <2> QED
    BY <2>1, <2>3 DEF d, e
<1> QED
  BY <1>1, <1>2

(* Blocks of a sequence of so many blocks and a rest.                      *)
LEMMA BlocksOf ==
  ASSUME NEW m \in Seq(Byte), NEW q \in Nat, NEW r \in 0 .. BlockBytes - 1,
         Len(m) = BlockBytes * q + r
  PROVE  Blocks(m) = [b \in 1 .. q |->
           SubSeq(m, (b - 1) * BlockBytes + 1, b * BlockBytes)]
<1>1. BlockBytes \in Nat \ {0}
  BY HashAssumption
<1>2. Len(m) \div BlockBytes = q
  BY <1>1, DivUnique
<1> QED
  BY <1>2 DEF Blocks

(* Joining sequences of bytes associates.                                  *)
LEMMA Associates ==
  \A a, b, c \in Seq(Byte) : (a \o b) \o c = a \o (b \o c)
<1>1. ASSUME NEW S, NEW a \in Seq(S), NEW b \in Seq(S), NEW c \in Seq(S)
      PROVE  (a \o b) \o c = a \o (b \o c)
  BY ConcatAssociative
<1> QED
  BY <1>1

(* Where a block lies.                                                     *)
LEMMA BlockWithin ==
  ASSUME NEW q \in Nat, NEW b \in 1 .. q
  PROVE  /\ (b - 1) * BlockBytes + 1 \in Nat /\ (b - 1) * BlockBytes + 1 >= 1
         /\ b * BlockBytes \in Nat /\ b * BlockBytes <= BlockBytes * q
         /\ b * BlockBytes - ((b - 1) * BlockBytes + 1) + 1 = BlockBytes
<1>1. BlockBytes \in Nat /\ b \in Nat /\ b - 1 \in Nat /\ q - b \in Nat
  BY HashAssumption
<1>2. /\ (b - 1) * BlockBytes \in Nat /\ BlockBytes * (q - b) \in Nat
      /\ b * BlockBytes = (b - 1) * BlockBytes + BlockBytes
      /\ BlockBytes * q = b * BlockBytes + BlockBytes * (q - b)
  BY <1>1
<1> QED
  BY <1>1, <1>2

(* Two sequences that agree up to there have the same blocks.              *)
LEMMA BlockAgrees ==
  ASSUME NEW m \in Seq(Byte), NEW l \in Seq(Byte), NEW q \in Nat, NEW b \in 1 .. q,
         BlockBytes * q <= Len(m), BlockBytes * q <= Len(l),
         \A k \in 1 .. BlockBytes * q : m[k] = l[k]
  PROVE  SubSeq(m, (b - 1) * BlockBytes + 1, b * BlockBytes)
           = SubSeq(l, (b - 1) * BlockBytes + 1, b * BlockBytes)
<1> DEFINE from == (b - 1) * BlockBytes + 1
           to == b * BlockBytes
<1>1. /\ from \in Nat /\ from >= 1 /\ to \in Nat /\ to <= BlockBytes * q
      /\ BlockBytes * q \in Nat /\ Len(m) \in Nat /\ Len(l) \in Nat
  BY BlockWithin, HashAssumption
<1> HIDE DEF from, to
<1>2. \A k \in from .. to : m[k] \in Byte /\ l[k] \in Byte /\ m[k] = l[k]
  BY <1>1
<1>3. /\ SubSeq(m, from, to) \in Seq(Byte) /\ SubSeq(l, from, to) \in Seq(Byte)
      /\ Len(SubSeq(m, from, to)) = Len(SubSeq(l, from, to))
      /\ Len(SubSeq(m, from, to)) = (IF from <= to THEN to - from + 1 ELSE 0)
      /\ \A k \in 1 .. to - from + 1 : SubSeq(m, from, to)[k] = m[from + k - 1]
      /\ \A k \in 1 .. to - from + 1 : SubSeq(l, from, to)[k] = l[from + k - 1]
  BY <1>1, <1>2, SubSeqProperties
<1>4. \A k \in 1 .. Len(SubSeq(m, from, to)) :
        SubSeq(m, from, to)[k] = SubSeq(l, from, to)[k]
  BY <1>1, <1>2, <1>3
<1>5. SubSeq(m, from, to) = SubSeq(l, from, to)
  BY <1>3, <1>4, SeqEqual
<1> QED
  BY <1>5 DEF from, to

(* What does not finish a block adds none.                                 *)
LEMMA BlocksUnfinished ==
  ASSUME NEW m \in Seq(Byte), NEW t \in Seq(Byte), NEW q \in Nat, NEW r \in Nat,
         Len(m) = BlockBytes * q + r, r + Len(t) \in 0 .. BlockBytes - 1
  PROVE  Blocks(m \o t) = Blocks(m)
<1>1. /\ m \o t \in Seq(Byte) /\ Len(m \o t) = Len(m) + Len(t)
      /\ Len(m) \in Nat /\ Len(t) \in Nat
      /\ \A k \in 1 .. Len(m) : (m \o t)[k] = m[k]
  <2>1. /\ m \o t \in Seq(Byte) /\ Len(m \o t) = Len(m) + Len(t)
        /\ \A k \in 1 .. Len(m) + Len(t) :
             (m \o t)[k] = IF k <= Len(m) THEN m[k] ELSE t[k - Len(m)]
    BY ConcatProperties
  <2>2. Len(m) \in Nat /\ Len(t) \in Nat
    OBVIOUS
  <2> QED
    BY <2>1, <2>2
<1>2. /\ r \in 0 .. BlockBytes - 1 /\ BlockBytes * q \in Nat
      /\ Len(m \o t) = BlockBytes * q + (r + Len(t))
      /\ BlockBytes * q <= Len(m) /\ BlockBytes * q <= Len(m \o t)
  BY <1>1, HashAssumption
<1>3. /\ Blocks(m) = [b \in 1 .. q |-> SubSeq(m, (b - 1) * BlockBytes + 1, b * BlockBytes)]
      /\ Blocks(m \o t) =
           [b \in 1 .. q |-> SubSeq(m \o t, (b - 1) * BlockBytes + 1, b * BlockBytes)]
  BY <1>1, <1>2, BlocksOf
<1>4. ASSUME NEW b \in 1 .. q
      PROVE  SubSeq(m \o t, (b - 1) * BlockBytes + 1, b * BlockBytes)
               = SubSeq(m, (b - 1) * BlockBytes + 1, b * BlockBytes)
  <2>1. \A k \in 1 .. BlockBytes * q : (m \o t)[k] = m[k]
    BY <1>1, <1>2
  <2> QED
    BY <1>1, <1>2, <2>1, BlockAgrees
<1> QED
  BY <1>3, <1>4

(* A block may be looked for in a part of the sequence.                    *)
Moved(m, l, q, b) ==
  SubSeq(m \o l, (q + b - 1) * BlockBytes + 1, (q + b) * BlockBytes)
    = SubSeq(l, (b - 1) * BlockBytes + 1, b * BlockBytes)

LEMMA BlockMoved ==
  ASSUME NEW m \in Seq(Byte), NEW l \in Seq(Byte), NEW q \in Nat, NEW pre \in Nat,
         NEW b \in 1 .. pre, Len(m) = BlockBytes * q, BlockBytes * pre <= Len(l)
  PROVE  Moved(m, l, q, b)
<1> DEFINE from == (b - 1) * BlockBytes + 1
           to == b * BlockBytes
           base == BlockBytes * q
<1>1. /\ from \in Nat /\ from >= 1 /\ to \in Nat /\ to <= BlockBytes * pre
      /\ base \in Nat /\ Len(m) = base /\ Len(l) \in Nat /\ BlockBytes * pre \in Nat
  BY BlockWithin, HashAssumption
<1>2. /\ (q + b - 1) * BlockBytes + 1 = base + from
      /\ (q + b) * BlockBytes = base + to
  BY HashAssumption
<1> HIDE DEF from, to, base
<1>3. /\ m \o l \in Seq(Byte) /\ Len(m \o l) = base + Len(l)
      /\ \A k \in 1 .. base + Len(l) : (m \o l)[k] = IF k <= base THEN m[k] ELSE l[k - base]
  BY <1>1, ConcatProperties
<1>4. \A k \in from .. to :
        /\ base + k \in base + from .. base + to
        /\ (m \o l)[base + k] = l[k] /\ l[k] \in Byte
  BY <1>1, <1>3
<1>5. \A k \in base + from .. base + to : (m \o l)[k] \in Byte
  BY <1>1, <1>3
<1>6. /\ SubSeq(m \o l, base + from, base + to) \in Seq(Byte)
      /\ Len(SubSeq(m \o l, base + from, base + to))
           = (IF base + from <= base + to THEN (base + to) - (base + from) + 1 ELSE 0)
      /\ \A k \in 1 .. (base + to) - (base + from) + 1 :
           SubSeq(m \o l, base + from, base + to)[k] = (m \o l)[base + from + k - 1]
  BY <1>1, <1>5, SubSeqProperties
<1>7. /\ SubSeq(l, from, to) \in Seq(Byte)
      /\ Len(SubSeq(l, from, to)) = (IF from <= to THEN to - from + 1 ELSE 0)
      /\ \A k \in 1 .. to - from + 1 : SubSeq(l, from, to)[k] = l[from + k - 1]
  BY <1>1, <1>4, SubSeqProperties
<1>8. /\ Len(SubSeq(l, from, to)) = Len(SubSeq(m \o l, base + from, base + to))
      /\ \A k \in 1 .. Len(SubSeq(l, from, to)) :
           SubSeq(m \o l, base + from, base + to)[k] = SubSeq(l, from, to)[k]
  <2>1. (base + to) - (base + from) + 1 = to - from + 1
    BY <1>1
  <2>2. Len(SubSeq(l, from, to)) = Len(SubSeq(m \o l, base + from, base + to))
    BY <1>1, <1>6, <1>7
  <2>3. ASSUME NEW k \in 1 .. Len(SubSeq(l, from, to))
        PROVE  SubSeq(m \o l, base + from, base + to)[k] = SubSeq(l, from, to)[k]
    <3>1. k \in 1 .. to - from + 1 /\ from + k - 1 \in from .. to
      BY <1>1, <1>7
    <3>2. base + from + k - 1 = base + (from + k - 1)
      BY <1>1, <3>1
    <3>3. (m \o l)[base + (from + k - 1)] = l[from + k - 1]
      BY <1>4, <3>1
    <3> QED
      BY <1>6, <1>7, <2>1, <3>1, <3>2, <3>3
  <2> QED
    BY <2>2, <2>3
<1>9. SubSeq(m \o l, base + from, base + to) = SubSeq(l, from, to)
  BY <1>6, <1>7, <1>8, SeqEqual
<1> QED
  BY <1>2, <1>9 DEF from, to, Moved

(* Whole blocks may be digested first.                                     *)
LEMMA BlocksConcat ==
  ASSUME NEW m \in Seq(Byte), NEW l \in Seq(Byte), Len(m) % BlockBytes = 0
  PROVE  Blocks(m \o l) = Blocks(m) \o Blocks(l)
<1>1. PICK q \in Nat : Len(m) = BlockBytes * q + 0
  <2>1. Len(m) \in Nat
    OBVIOUS
  <2> QED
    BY <2>1, Cut
<1>2. PICK pre \in Nat, r \in 0 .. BlockBytes - 1 : Len(l) = BlockBytes * pre + r
  <2>1. Len(l) \in Nat
    OBVIOUS
  <2> QED
    BY <2>1, Cut
<1>3. /\ m \o l \in Seq(Byte) /\ Len(m \o l) = Len(m) + Len(l)
      /\ \A k \in 1 .. Len(m) + Len(l) :
           (m \o l)[k] = IF k <= Len(m) THEN m[k] ELSE l[k - Len(m)]
  BY ConcatProperties
<1>4. /\ Len(m \o l) = BlockBytes * (q + pre) + r /\ q + pre \in Nat
      /\ BlockBytes * q \in Nat /\ BlockBytes * pre \in Nat /\ BlockBytes \in Nat
      /\ 0 \in 0 .. BlockBytes - 1 /\ Len(m) = BlockBytes * q
      /\ BlockBytes * q <= Len(m \o l) /\ BlockBytes * pre <= Len(l)
  BY <1>1, <1>2, <1>3, HashAssumption
<1> DEFINE block(s, b) == SubSeq(s, (b - 1) * BlockBytes + 1, b * BlockBytes)
<1>5. /\ Blocks(m) = [b \in 1 .. q |-> block(m, b)]
      /\ Blocks(l) = [b \in 1 .. pre |-> block(l, b)]
      /\ Blocks(m \o l) = [b \in 1 .. q + pre |-> block(m \o l, b)]
  BY <1>1, <1>2, <1>3, <1>4, BlocksOf
<1>6. \A b \in 1 .. q : block(m \o l, b) = block(m, b)
  <2>1. \A k \in 1 .. BlockBytes * q : (m \o l)[k] = m[k]
    BY <1>3, <1>4
  <2>2. BlockBytes * q <= Len(m)
    BY <1>4
  <2>3. m \o l \in Seq(Byte) /\ BlockBytes * q <= Len(m \o l)
    BY <1>3, <1>4
  <2>4. \A b \in 1 .. q :
          SubSeq(m \o l, (b - 1) * BlockBytes + 1, b * BlockBytes)
            = SubSeq(m, (b - 1) * BlockBytes + 1, b * BlockBytes)
    BY <2>1, <2>2, <2>3, BlockAgrees
  <2> QED
    BY <2>4
<1>7. \A b \in 1 .. pre : block(m \o l, q + b) = block(l, b)
  <2>1. Len(m) = BlockBytes * q /\ BlockBytes * pre <= Len(l)
    BY <1>4
  <2>2. ASSUME NEW b \in 1 .. pre
        PROVE  Moved(m, l, q, b)
    BY <2>1, BlockMoved
  <2>3. \A b \in 1 .. pre : (q + b) - 1 = q + b - 1
    OBVIOUS
  <2> QED
    BY <2>2, <2>3, Zenon DEF Moved
<1> HIDE DEF block
<1>8. \A b \in q + 1 .. q + pre : block(m \o l, b) = block(l, b - q)
  <2> SUFFICES ASSUME NEW b \in q + 1 .. q + pre
               PROVE  block(m \o l, b) = block(l, b - q)
    OBVIOUS
  <2>1. b - q \in 1 .. pre /\ q + (b - q) = b
    OBVIOUS
  <2> QED
    BY <1>7, <2>1
<1>9. Blocks(m \o l) = [b \in 1 .. q + pre |-> IF b <= q THEN block(m, b) ELSE block(l, b - q)]
  BY <1>5, <1>6, <1>8
<1> DEFINE B == {block(s, b) : s \in {m, l}, b \in Nat}
<1>10. Blocks(m) \in [1 .. q -> B] /\ Blocks(l) \in [1 .. pre -> B]
  BY <1>5
<1> HIDE DEF B
<1>11. /\ Blocks(m) \in Seq(B) /\ Blocks(l) \in Seq(B)
       /\ Len(Blocks(m)) = q /\ Len(Blocks(l)) = pre
  <2>1. ASSUME NEW n \in Nat, NEW s \in [1 .. n -> B]
        PROVE  s \in Seq(B) /\ Len(s) = n
    OBVIOUS
  <2> QED
    BY <1>10, <2>1
<1>12. /\ Blocks(m) \o Blocks(l) \in Seq(B) /\ Len(Blocks(m) \o Blocks(l)) = q + pre
       /\ \A b \in 1 .. q + pre : (Blocks(m) \o Blocks(l))[b]
            = IF b <= q THEN Blocks(m)[b] ELSE Blocks(l)[b - q]
  BY <1>11, ConcatProperties
<1>13. Blocks(m) \o Blocks(l) =
         [b \in 1 .. q + pre |-> IF b <= q THEN block(m, b) ELSE block(l, b - q)]
  <2>1. Blocks(m) \o Blocks(l) \in [1 .. q + pre -> B]
    BY <1>12, LenProperties
  <2>2. \A b \in 1 .. q + pre : (Blocks(m) \o Blocks(l))[b]
            = IF b <= q THEN block(m, b) ELSE block(l, b - q)
    BY <1>5, <1>12
  <2> QED
    BY <2>1, <2>2
<1> QED
  BY <1>9, <1>13
(* A sequence is what lies before a cut and what lies after it.            *)
LEMMA SplitAt ==
  ASSUME NEW s \in Seq(Byte), NEW n \in 0 .. Len(s)
  PROVE  /\ SubSeq(s, 1, n) \in Seq(Byte) /\ Len(SubSeq(s, 1, n)) = n
         /\ SubSeq(s, n + 1, Len(s)) \in Seq(Byte)
         /\ Len(SubSeq(s, n + 1, Len(s))) = Len(s) - n
         /\ s = SubSeq(s, 1, n) \o SubSeq(s, n + 1, Len(s))
<1>1. /\ Len(s) \in Nat /\ n \in Nat /\ n <= Len(s)
      /\ \A ix \in 1 .. Len(s) : s[ix] \in Byte
  OBVIOUS
<1>2. SubSeq(s, 1, n) \in Seq(Byte) /\ Len(SubSeq(s, 1, n)) = n
  BY <1>1, SubSeqProperties
<1>3. /\ SubSeq(s, n + 1, Len(s)) \in Seq(Byte)
      /\ Len(SubSeq(s, n + 1, Len(s))) = Len(s) - n
  <2>1. /\ n + 1 \in Int /\ Len(s) \in Int
        /\ \A ix \in n + 1 .. Len(s) : s[ix] \in Byte
    BY <1>1
  <2>2. Len(s) - n = IF n + 1 <= Len(s) THEN Len(s) - (n + 1) + 1 ELSE 0
    BY <1>1
  <2> QED
    BY <2>1, <2>2, SubSeqProperties
<1>4. SubSeq(s, 1, n) \o SubSeq(s, n + 1, Len(s)) = SubSeq(s, 1, Len(s))
  <2>1. 1 \in 1 .. Len(s) + 1 /\ n \in 1 - 1 .. Len(s) /\ Len(s) \in n .. Len(s)
    BY <1>1
  <2> QED
    BY <2>1, ConcatAdjacentSubSeq
<1> QED
  BY <1>2, <1>3, <1>4, SubSeqFull

(* The blocks of a sequence are a sequence.                                *)
LEMMA BlocksIsSeq ==
  ASSUME NEW m \in Seq(Byte)
  PROVE  \E B : Blocks(m) \in Seq(B)
<1>1. PICK pre \in Nat, r \in 0 .. BlockBytes - 1 : Len(m) = BlockBytes * pre + r
  <2>1. Len(m) \in Nat
    OBVIOUS
  <2> QED
    BY <2>1, Cut
<1> DEFINE block(b) == SubSeq(m, (b - 1) * BlockBytes + 1, b * BlockBytes)
           B == {block(b) : b \in Nat}
<1>2. Blocks(m) = [b \in 1 .. pre |-> block(b)]
  BY <1>1, BlocksOf
<1> HIDE DEF block
<1>3. Blocks(m) \in [1 .. pre -> B]
  BY <1>2
<1> HIDE DEF B
<1>4. Blocks(m) \in Seq(B)
  BY <1>3
<1> QED
  BY <1>4, Zenon
-----------------------------------------------------------------------------
(* The buffer.                                                             *)

(* What a buffer that is not full takes is in it afterwards.               *)
LEMMA BufferGrows ==
  ASSUME NEW c, NEW m \in Seq(Byte), Holds(c, m),
         NEW t \in Seq(Byte), c.bufferLength + Len(t) <= BlockBytes
  PROVE  LET filled == Fill(c.buffer, c.bufferLength, t)
             size == c.bufferLength + Len(t)
         IN /\ DOMAIN filled = 0 .. BlockBytes - 1
            /\ size \in 0 .. BlockBytes /\ size <= Len(m \o t)
            /\ Len(m \o t) = Len(m) + Len(t)
            /\ \A k \in 0 .. size - 1 : filled[k] = (m \o t)[Len(m \o t) - size + k + 1]
<1> DEFINE filled == Fill(c.buffer, c.bufferLength, t)
           at == c.bufferLength
           size == at + Len(t)
<1>1. PICK q \in Nat, r \in 0 .. BlockBytes - 1 :
        Len(m) = BlockBytes * q + r /\ at = r
  <2>1. Len(m) \in Nat
    OBVIOUS
  <2>2. c.bufferLength = Len(m) % BlockBytes
    BY DEF Holds
  <2> QED
    BY <2>1, <2>2, Cut
<1>2. /\ at \in Nat /\ at <= Len(m) /\ at < BlockBytes /\ Len(t) \in Nat /\ Len(m) \in Nat
      /\ BlockBytes \in Nat
  <2>1. BlockBytes * q \in Nat
    BY HashAssumption
  <2> QED
    BY <1>1, <2>1, HashAssumption
<1>3. /\ DOMAIN filled = 0 .. BlockBytes - 1
      /\ \A k \in 0 .. at - 1 : filled[k] = c.buffer[k]
      /\ \A k \in at .. at + Len(t) - 1 : filled[k] = t[k - at + 1]
  <2>1. filled = [ix \in 0 .. BlockBytes - 1 |->
                    IF ix \in at .. at + Len(t) - 1 THEN t[ix - at + 1] ELSE c.buffer[ix]]
    BY DEF Fill
  <2> HIDE DEF filled, at
  <2>2. at + Len(t) <= BlockBytes
    BY DEF at
  <2> QED
    BY <1>2, <2>1, <2>2
<1>4. /\ m \o t \in Seq(Byte) /\ Len(m \o t) = Len(m) + Len(t)
      /\ \A k \in 1 .. Len(m) + Len(t) :
           (m \o t)[k] = IF k <= Len(m) THEN m[k] ELSE t[k - Len(m)]
  BY ConcatProperties
<1>5. \A k \in 0 .. at - 1 : c.buffer[k] = m[Len(m) - at + k + 1]
  BY DEF Holds
<1> HIDE DEF filled, at
<1>6. ASSUME NEW k \in 0 .. size - 1
      PROVE  filled[k] = (m \o t)[Len(m) + Len(t) - size + k + 1]
  <2>1. /\ Len(m) + Len(t) - size + k + 1 = Len(m) - at + k + 1
        /\ Len(m) - at + k + 1 \in 1 .. Len(m) + Len(t)
    BY <1>2 DEF at
  <2>2. CASE k < at
    <3>1. k \in 0 .. at - 1 /\ Len(m) - at + k + 1 <= Len(m)
      BY <1>2, <2>2
    <3> QED
      BY <1>3, <1>4, <1>5, <2>1, <3>1
  <2>3. CASE k >= at
    <3>1. /\ k \in at .. at + Len(t) - 1 /\ ~(Len(m) - at + k + 1 <= Len(m))
          /\ Len(m) - at + k + 1 - Len(m) = k - at + 1
      <4> DEFINE a == Len(m)  b == Len(t)
      <4>1. k \in 0 .. (at + b) - 1 /\ a \in Nat /\ b \in Nat
        BY <1>2 DEF at
      <4> HIDE DEF a, b
      <4>2. k \in at .. at + b - 1 /\ ~(a - at + k + 1 <= a) /\ a - at + k + 1 - a = k - at + 1
        BY <1>2, <2>3, <4>1
      <4> QED
        BY <4>2 DEF a, b
    <3>2. ASSUME NEW j, j = Len(m) - at + k + 1
          PROVE  (m \o t)[j] = t[k - at + 1]
      BY <1>2, <1>4, <2>1, <3>1, <3>2
    <3>3. filled[k] = t[k - at + 1]
      BY <1>3, <3>1
    <3> QED
      BY <2>1, <3>2, <3>3
  <2> QED
    BY <1>2, <2>2, <2>3
<1>7. size \in 0 .. BlockBytes /\ size <= Len(m) + Len(t)
  BY <1>2 DEF at
<1>8. \A k \in 0 .. size - 1 : filled[k] = (m \o t)[Len(m \o t) - size + k + 1]
  <2>1. Len(m \o t) - size = Len(m) + Len(t) - size
    <3>1. size \in Int /\ Len(m) + Len(t) \in Int
      BY <1>2
    <3> HIDE DEF size
    <3> QED
      BY <1>4, <1>2, <3>1
  <2> HIDE DEF size
  <2>2. ASSUME NEW n, n = Len(m) + Len(t) - size, NEW k \in 0 .. size - 1
        PROVE  filled[k] = (m \o t)[n + k + 1]
    BY <1>6, <2>2
  <2> QED
    BY <2>1, <2>2
<1> QED
  BY <1>3, <1>4, <1>7, <1>8 DEF filled, at

(* A rest that leaves the block unfinished is kept.                        *)
LEMMA RestKept ==
  ASSUME NEW c, NEW e, NEW m \in Seq(Byte), Holds(c, m),
         NEW t \in Seq(Byte), c.bufferLength + Len(t) < BlockBytes,
         DOMAIN e = DOMAIN c, e.hash = c.hash,
         e.buffer = Fill(c.buffer, c.bufferLength, t),
         e.bufferLength = c.bufferLength + Len(t)
  PROVE  Holds(e, m \o t)
<1>1. PICK q \in Nat, r \in 0 .. BlockBytes - 1 :
        Len(m) = BlockBytes * q + r /\ c.bufferLength = r
  <2>1. Len(m) \in Nat
    OBVIOUS
  <2>2. c.bufferLength = Len(m) % BlockBytes
    BY DEF Holds
  <2> QED
    BY <2>1, <2>2, Cut
<1>2. /\ DOMAIN e.buffer = 0 .. BlockBytes - 1
      /\ Len(m \o t) = Len(m) + Len(t)
      /\ \A k \in 0 .. e.bufferLength - 1 :
           e.buffer[k] = (m \o t)[Len(m \o t) - e.bufferLength + k + 1]
  <2>1. c.bufferLength + Len(t) <= BlockBytes
    BY <1>1, HashAssumption
  <2> QED
    BY <2>1, BufferGrows
<1>3. /\ m \o t \in Seq(Byte) /\ Len(m) \in Nat /\ Len(t) \in Nat
      /\ \A k \in 1 .. Len(m) : (m \o t)[k] = m[k]
  BY ConcatProperties
<1>4. /\ r + Len(t) \in 0 .. BlockBytes - 1 /\ BlockBytes \in Nat \ {0}
      /\ BlockBytes * q \in Nat /\ BlockBytes * q <= Len(m)
      /\ Len(m \o t) = BlockBytes * q + (r + Len(t)) /\ BlockBytes * q <= Len(m \o t)
  BY <1>1, <1>2, <1>3, HashAssumption
<1>5. e.bufferLength = Len(m \o t) % BlockBytes
  <2>1. (BlockBytes * q + (r + Len(t))) % BlockBytes = r + Len(t)
    BY <1>4, DivUnique
  <2> QED
    BY <1>1, <1>4, <2>1
<1>6. Blocks(m \o t) = Blocks(m)
  <2>1. r \in Nat
    BY <1>1
  <2> QED
    BY <1>1, <1>4, <2>1, BlocksUnfinished
<1> QED
  BY <1>2, <1>5, <1>6 DEF Holds

(* A block that is finished is the next one of the message.                *)
LEMMA BlockFinished ==
  ASSUME NEW c, NEW m \in Seq(Byte), Holds(c, m),
         NEW t \in Seq(Byte), c.bufferLength + Len(t) = BlockBytes,
         NEW filled, filled = Fill(c.buffer, c.bufferLength, t)
  PROVE  /\ DOMAIN filled = 0 .. BlockBytes - 1
         /\ Len(m \o t) % BlockBytes = 0
         /\ Blocks(m \o t) = Append(Blocks(m), BufferBlock(filled))
<1>1. PICK q \in Nat, r \in 0 .. BlockBytes - 1 :
        Len(m) = BlockBytes * q + r /\ c.bufferLength = r
  <2>1. Len(m) \in Nat
    OBVIOUS
  <2>2. c.bufferLength = Len(m) % BlockBytes
    BY DEF Holds
  <2> QED
    BY <2>1, <2>2, Cut
<1>2. /\ DOMAIN filled = 0 .. BlockBytes - 1
      /\ Len(m \o t) = Len(m) + Len(t)
      /\ \A k \in 0 .. BlockBytes - 1 :
           filled[k] = (m \o t)[Len(m \o t) - BlockBytes + k + 1]
  <2>1. c.bufferLength + Len(t) <= BlockBytes
    BY <1>1, HashAssumption
  <2> DEFINE grown == Fill(c.buffer, c.bufferLength, t)
             size == c.bufferLength + Len(t)
  <2>2. /\ DOMAIN grown = 0 .. BlockBytes - 1
        /\ Len(m \o t) = Len(m) + Len(t)
        /\ \A k \in 0 .. size - 1 : grown[k] = (m \o t)[Len(m \o t) - size + k + 1]
    BY <2>1, BufferGrows, Zenon
  <2>3. grown = filled /\ size = BlockBytes
    OBVIOUS
  <2> HIDE DEF grown, size
  <2> QED
    BY <2>2, <2>3
<1>3. /\ m \o t \in Seq(Byte) /\ Len(m) \in Nat /\ Len(t) \in Nat
      /\ \A k \in 1 .. Len(m) : (m \o t)[k] = m[k]
  BY ConcatProperties
<1>4. /\ BlockBytes \in Nat \ {0} /\ BlockBytes * q \in Nat /\ BlockBytes * q <= Len(m)
      /\ Len(m \o t) = BlockBytes * q + BlockBytes
      /\ Len(m \o t) = BlockBytes * (q + 1) + 0 /\ BlockBytes * q <= Len(m \o t)
      /\ q + 1 \in Nat /\ 0 \in 0 .. BlockBytes - 1
  <2>1. BlockBytes \in Nat \ {0} /\ 0 \in 0 .. BlockBytes - 1
    BY HashAssumption
  <2>2. BlockBytes * q \in Nat /\ BlockBytes * (q + 1) = BlockBytes * q + BlockBytes
    BY <2>1
  <2>3. Len(m \o t) = BlockBytes * q + BlockBytes
    BY <1>1, <1>2, <1>3, <2>1, <2>2
  <2>4. /\ BlockBytes * q <= Len(m) /\ BlockBytes * q <= Len(m \o t)
        /\ BlockBytes * (q + 1) + 0 = BlockBytes * q + BlockBytes
    BY <1>1, <1>3, <2>1, <2>2, <2>3
  <2> QED
    BY <2>1, <2>2, <2>3, <2>4
<1>5. Len(m \o t) % BlockBytes = 0
  <2>1. (BlockBytes * (q + 1) + 0) % BlockBytes = 0
    BY <1>4, DivUnique
  <2> QED
    BY <1>4, <2>1
<1> DEFINE block(s, b) == SubSeq(s, (b - 1) * BlockBytes + 1, b * BlockBytes)
<1>6. /\ Blocks(m) = [b \in 1 .. q |-> block(m, b)]
      /\ Blocks(m \o t) = [b \in 1 .. q + 1 |-> block(m \o t, b)]
  <2>1. Blocks(m) = [b \in 1 .. q |-> block(m, b)]
    BY <1>1, BlocksOf
  <2>2. Blocks(m \o t) = [b \in 1 .. q + 1 |-> block(m \o t, b)]
    BY <1>3, <1>4, BlocksOf
  <2> QED
    BY <2>1, <2>2
<1>7. \A b \in 1 .. q : block(m \o t, b) = block(m, b)
  <2>1. \A k \in 1 .. BlockBytes * q : (m \o t)[k] = m[k]
    BY <1>3, <1>4
  <2>2. BlockBytes * q <= Len(m) /\ BlockBytes * q <= Len(m \o t)
    BY <1>4
  <2> QED
    BY <1>3, <2>1, <2>2, BlockAgrees
<1>8. ASSUME NEW b, b = q + 1
      PROVE  block(m \o t, b) = BufferBlock(filled)
  <2> DEFINE from == BlockBytes * q + 1
             to == BlockBytes * q + BlockBytes
  <2>1. (b - 1) * BlockBytes + 1 = from /\ b * BlockBytes = to
    BY <1>4, <1>8
  <2>2. from \in Nat /\ to \in Nat /\ from >= 1 /\ to = Len(m \o t)
        /\ to - from + 1 = BlockBytes /\ from <= to
    BY <1>4
  <2> HIDE DEF from, to
  <2>3. /\ SubSeq(m \o t, from, to) \in Seq(Byte)
        /\ Len(SubSeq(m \o t, from, to)) = BlockBytes
        /\ \A k \in 1 .. BlockBytes : SubSeq(m \o t, from, to)[k] = (m \o t)[from + k - 1]
    <3>1. \A k \in from .. to : (m \o t)[k] \in Byte
      BY <1>3, <2>2
    <3> DEFINE u == m \o t
    <3>2. \A k \in from .. to : u[k] \in Byte
      BY <3>1
    <3> HIDE DEF u
    <3>3. /\ SubSeq(u, from, to) \in Seq(Byte)
          /\ Len(SubSeq(u, from, to)) = IF from <= to THEN to - from + 1 ELSE 0
          /\ \A k \in 1 .. to - from + 1 : SubSeq(u, from, to)[k] = u[from + k - 1]
      BY <2>2, <3>2, SubSeqProperties
    <3> QED
      BY <2>2, <3>3 DEF u
  <2>4. SubSeq(m \o t, from, to) = [k \in 1 .. BlockBytes |-> (m \o t)[from + k - 1]]
    <3>1. SubSeq(m \o t, from, to) \in [1 .. BlockBytes -> Byte]
      BY <2>3, LenProperties
    <3> QED
      BY <2>3, <3>1
  <2>5. ASSUME NEW k \in 1 .. BlockBytes
        PROVE  (m \o t)[from + k - 1] = filled[k - 1]
    <3>1. k - 1 \in 0 .. BlockBytes - 1
          /\ Len(m \o t) - BlockBytes + (k - 1) + 1 = from + k - 1
      BY <1>4, <2>2 DEF to, from
    <3> QED
      BY <1>2, <3>1
  <2>6. SubSeq(m \o t, from, to) = BufferBlock(filled)
    BY <2>4, <2>5 DEF BufferBlock
  <2>7. block(m \o t, b) = SubSeq(m \o t, from, to)
    <3>1. ASSUME NEW ix, NEW j, NEW x, NEW y, ix = x, j = y
          PROVE  SubSeq(m \o t, ix, j) = SubSeq(m \o t, x, y)
      BY <3>1
    <3> QED
      BY <2>1, <3>1
  <2> QED
    BY <2>6, <2>7, Zenon
<1> HIDE DEF block
<1>9. Blocks(m \o t) = Append(Blocks(m), BufferBlock(filled))
  <2> DEFINE B == {block(s, b) : s \in {m, m \o t}, b \in Nat}
  <2>1. Blocks(m) \in [1 .. q -> B] /\ BufferBlock(filled) \in B
    BY <1>4, <1>6, <1>8
  <2> HIDE DEF B
  <2>2. Blocks(m) \in Seq(B) /\ Len(Blocks(m)) = q
    <3>1. ASSUME NEW n \in Nat, NEW s \in [1 .. n -> B]
          PROVE  s \in Seq(B) /\ Len(s) = n
      OBVIOUS
    <3> QED
      BY <2>1, <3>1
  <2> DEFINE longer == Append(Blocks(m), BufferBlock(filled))
  <2>3. /\ longer \in Seq(B) /\ Len(longer) = q + 1
        /\ \A b \in 1 .. q : longer[b] = Blocks(m)[b]
        /\ longer[q + 1] = BufferBlock(filled)
    BY <2>1, <2>2, AppendProperties
  <2>4. longer \in [1 .. q + 1 -> B]
    BY <2>3, LenProperties
  <2> HIDE DEF longer
  <2>5. \A b \in 1 .. q + 1 : longer[b] = block(m \o t, b)
    <3>1. \A b \in 1 .. q + 1 : b \in 1 .. q \/ b = q + 1
      OBVIOUS
    <3> QED
      BY <1>6, <1>7, <1>8, <2>3, <3>1
  <2>6. longer = [b \in 1 .. q + 1 |-> block(m \o t, b)]
    BY <2>4, <2>5
  <2> QED
    BY <1>6, <2>6 DEF longer
<1> QED
  BY <1>2, <1>5, <1>9
-----------------------------------------------------------------------------
(* The functions of sha256.c.                                              *)

(* What the first part of an update leaves: the bytes it took are added,   *)
(* and either the buffer is empty or nothing is left to add.               *)
LEMMA ToppedUp ==
  ASSUME NEW c, NEW m \in Seq(Byte), Holds(c, m), NEW d \in Seq(Byte)
  PROVE  LET room == RoomInBuffer(c, d)
             c1   == IF c.bufferLength = 0 THEN c ELSE TopUp(c, SubSeq(d, 1, room))
         IN /\ room \in 0 .. Len(d)
            /\ Holds(c1, m \o SubSeq(d, 1, room))
            /\ c1.totalLength = c.totalLength
            /\ c1.bufferLength = 0 \/ room = Len(d)
<1> DEFINE room == RoomInBuffer(c, d)
           head == SubSeq(d, 1, room)
           c1   == IF c.bufferLength = 0 THEN c ELSE TopUp(c, head)
<1>1. c.bufferLength \in 0 .. BlockBytes - 1 /\ Len(d) \in Nat /\ BlockBytes \in Nat \ {0}
  <2>1. Len(m) \in Nat
    OBVIOUS
  <2> QED
    BY <2>1, Cut, HashAssumption DEF Holds
<1>2. /\ room \in 0 .. Len(d)
      /\ c.bufferLength = 0 => room = 0
      /\ c.bufferLength # 0 =>
           c.bufferLength + room <= BlockBytes
           /\ (c.bufferLength + room # BlockBytes => room = Len(d))
  BY <1>1 DEF RoomInBuffer
<1> HIDE DEF room
<1>3. /\ head \in Seq(Byte) /\ Len(head) = room
  <2>1. \A ix \in 1 .. room : d[ix] \in Byte
    BY <1>1, <1>2
  <2> QED
    BY <1>1, <1>2, <2>1, SubSeqProperties
<1> HIDE DEF head
<1>4. CASE c.bufferLength = 0
  <2>1. head = <<>>
    BY <1>2, <1>4, SubSeqEmpty DEF head
  <2>2. m \o head = m
    BY <2>1, ConcatEmptySeq
  <2> QED
    BY <1>2, <1>4, <2>2 DEF room, head
<1>5. CASE c.bufferLength # 0
  <2> DEFINE filled == Fill(c.buffer, c.bufferLength, head)
             size == c.bufferLength + Len(head)
  <2>1. DOMAIN c = {"totalLength", "hash", "bufferLength", "buffer"}
        /\ c.hash = Blocks(m)
    BY DEF Holds
  <2>2. CASE size = BlockBytes
    <3> DEFINE hash == Append(c.hash, BufferBlock(filled))
    <3>1. c1 = [c EXCEPT !.buffer = filled, !.bufferLength = 0, !.hash = hash]
      BY <1>5, <2>2 DEF TopUp
    <3> HIDE DEF c1, hash, filled
    <3>2. /\ DOMAIN c1 = {"totalLength", "hash", "bufferLength", "buffer"}
          /\ c1.buffer = filled /\ c1.bufferLength = 0 /\ c1.hash = hash
          /\ c1.totalLength = c.totalLength
      BY <2>1, <3>1
    <3>3. /\ DOMAIN filled = 0 .. BlockBytes - 1
          /\ Len(m \o head) % BlockBytes = 0
          /\ Blocks(m \o head) = Append(Blocks(m), BufferBlock(filled))
      <4>1. c.bufferLength + Len(head) = BlockBytes
        BY <2>2
      <4> QED
        BY <1>3, <4>1, BlockFinished DEF filled
    <3>4. Holds(c1, m \o head)
      <4>1. \A k \in 0 .. c1.bufferLength - 1 : FALSE
        BY <3>2
      <4> QED
        BY <2>1, <3>2, <3>3, <4>1 DEF Holds, hash
    <3> QED
      BY <1>2, <3>2, <3>4 DEF room, head, c1
  <2>3. CASE size # BlockBytes
    <3>1. c1 = [c EXCEPT !.buffer = filled, !.bufferLength = size]
      BY <1>5, <2>3 DEF TopUp
    <3> HIDE DEF c1, filled, size
    <3>2. /\ DOMAIN c1 = DOMAIN c /\ c1.hash = c.hash
          /\ c1.buffer = filled /\ c1.bufferLength = size
          /\ c1.totalLength = c.totalLength
      BY <2>1, <3>1
    <3>3. size < BlockBytes /\ room = Len(d)
      BY <1>1, <1>2, <1>3, <1>5, <2>3 DEF size
    <3>4. Holds(c1, m \o head)
      BY <1>3, <3>2, <3>3, RestKept DEF filled, size
    <3> QED
      BY <1>2, <3>2, <3>3, <3>4 DEF room, head, c1
  <2> QED
    BY <2>2, <2>3
<1> QED
  BY <1>4, <1>5

(* An update adds its bytes to what the context stands for.                *)
LEMMA UpdateHolds ==
  ASSUME NEW c, NEW m \in Seq(Byte), Holds(c, m), NEW d \in Seq(Byte)
  PROVE  /\ Holds(Update(c, d), m \o d)
         /\ Update(c, d).totalLength
              = (c.totalLength + BitsPerByte * Len(d)) % ByteBase ^ LengthBytes
<1> DEFINE room  == RoomInBuffer(c, d)
           head  == SubSeq(d, 1, room)
           c1    == IF c.bufferLength = 0 THEN c ELSE TopUp(c, head)
           rest  == SubSeq(d, room + 1, Len(d))
           whole == (Len(rest) \div BlockBytes) * BlockBytes
           front == SubSeq(rest, 1, whole)
           tail  == SubSeq(rest, whole + 1, Len(rest))
           hash  == c1.hash \o Blocks(rest)
           buffer == Fill(c1.buffer, c1.bufferLength, tail)
           total == (c.totalLength + BitsPerByte * Len(d)) % ByteBase ^ LengthBytes
           e == Update(c, d)
<1>1. /\ room \in 0 .. Len(d)
      /\ Holds(c1, m \o head)
      /\ c1.totalLength = c.totalLength
      /\ c1.bufferLength = 0 \/ room = Len(d)
  BY ToppedUp
<1>2. e = [c1 EXCEPT !.hash = hash, !.buffer = buffer,
                     !.bufferLength = c1.bufferLength + Len(tail), !.totalLength = total]
  BY <1>1 DEF Update
<1> HIDE DEF room, c1, hash, buffer, total, e
<1>3. /\ head \in Seq(Byte) /\ rest \in Seq(Byte) /\ d = head \o rest
      /\ Len(rest) = Len(d) - room /\ Len(rest) \in Nat
  <2>1. /\ head \in Seq(Byte) /\ rest \in Seq(Byte) /\ d = head \o rest
        /\ Len(rest) = Len(d) - room
    BY <1>1, SplitAt
  <2>2. Len(rest) \in Nat
    BY <2>1
  <2> QED
    BY <2>1, <2>2
<1> HIDE DEF rest
<1>4. PICK q \in Nat, r \in 0 .. BlockBytes - 1 :
        Len(rest) = BlockBytes * q + r /\ Len(rest) \div BlockBytes = q
  BY <1>3, Cut
<1>5. /\ whole = BlockBytes * q /\ whole \in 0 .. Len(rest) /\ BlockBytes \in Nat \ {0}
      /\ Len(rest) - whole = r /\ r \in Nat
  <2>1. BlockBytes \in Nat \ {0} /\ r \in Nat /\ whole = q * BlockBytes
    <3>1. BlockBytes \in Nat \ {0}
      BY HashAssumption
    <3>2. r \in Nat
      BY <1>4
    <3>3. whole = q * BlockBytes
      BY <1>4, Zenon
    <3> QED
      BY <3>1, <3>2, <3>3
  <2>2. whole = BlockBytes * q /\ BlockBytes * q \in Nat
    BY <2>1
  <2> DEFINE w == BlockBytes * q
  <2> HIDE DEF w, whole
  <2>3. w \in Nat /\ Len(rest) = w + r /\ whole = w
    BY <1>4, <2>2 DEF w
  <2>4. whole \in 0 .. Len(rest) /\ Len(rest) - whole = r
    BY <2>1, <2>3
  <2> QED
    BY <2>1, <2>2, <2>4
<1> HIDE DEF whole
<1>6. /\ front \in Seq(Byte) /\ tail \in Seq(Byte) /\ rest = front \o tail
      /\ Len(front) = BlockBytes * q + 0 /\ Len(tail) = r
  <2>1. /\ front \in Seq(Byte) /\ Len(front) = whole
        /\ tail \in Seq(Byte) /\ Len(tail) = Len(rest) - whole
        /\ rest = front \o tail
    BY <1>3, <1>5, SplitAt
  <2>2. whole = BlockBytes * q + 0
    BY <1>3, <1>5
  <2> QED
    BY <1>5, <2>1, <2>2
<1> HIDE DEF head, front, tail
<1>7. Blocks(rest) = Blocks(front)
  <2>1. 0 \in Nat /\ 0 + Len(tail) \in 0 .. BlockBytes - 1
    BY <1>4, <1>5, <1>6
  <2> QED
    BY <1>6, <2>1, BlocksUnfinished
<1>8. /\ DOMAIN c1 = {"totalLength", "hash", "bufferLength", "buffer"}
      /\ c1.hash = Blocks(m \o head)
      /\ c1.bufferLength = Len(m \o head) % BlockBytes
      /\ DOMAIN c1.buffer = 0 .. BlockBytes - 1
      /\ \A k \in 0 .. c1.bufferLength - 1 :
           c1.buffer[k] = (m \o head)[Len(m \o head) - c1.bufferLength + k + 1]
  BY <1>1 DEF Holds
<1>9. m \o head \in Seq(Byte)
  BY <1>3
<1> DEFINE f == [c1 EXCEPT !.hash = hash]
<1>10. /\ DOMAIN f = DOMAIN c1 /\ f.hash = hash /\ f.buffer = c1.buffer
       /\ f.bufferLength = c1.bufferLength
  BY <1>8
<1>11. /\ DOMAIN e = DOMAIN f /\ e.hash = f.hash
       /\ e.buffer = Fill(f.buffer, f.bufferLength, tail)
       /\ e.bufferLength = f.bufferLength + Len(tail)
       /\ e.totalLength = total
  BY <1>2, <1>8, <1>10 DEF buffer
<1> HIDE DEF f
(* The whole blocks are digested in place.                                 *)
<1>12. Holds(f, (m \o head) \o front) /\ f.bufferLength + Len(tail) < BlockBytes
  <2>1. CASE c1.bufferLength = 0
    <3>1. Len(m \o head) % BlockBytes = 0
      BY <1>8, <2>1
    <3>2. Blocks((m \o head) \o front) = hash
      BY <1>6, <1>7, <1>8, <1>9, <3>1, BlocksConcat DEF hash
    <3>3. Len((m \o head) \o front) % BlockBytes = 0
      <4>1. Len(m \o head) \in Nat
        BY <1>9
      <4>2. PICK pre \in Nat : Len(m \o head) = BlockBytes * pre + 0
        BY <3>1, <4>1, Cut
      <4>3. Len((m \o head) \o front) = Len(m \o head) + Len(front)
        BY <1>6, <1>9, ConcatProperties
      <4>4. Len((m \o head) \o front) = BlockBytes * (pre + q) + 0 /\ pre + q \in Nat
        BY <1>5, <1>6, <4>2, <4>3
      <4>5. 0 \in 0 .. BlockBytes - 1
        BY <1>5
      <4>6. (BlockBytes * (pre + q) + 0) % BlockBytes = 0
        BY <1>5, <4>4, <4>5, DivUnique
      <4> QED
        BY <4>4, <4>6
    <3>4. \A k \in 0 .. f.bufferLength - 1 : FALSE
      BY <1>10, <2>1
    <3>5. f.bufferLength + Len(tail) < BlockBytes
      BY <1>4, <1>5, <1>6, <1>10, <2>1
    <3> QED
      BY <1>8, <1>10, <2>1, <3>2, <3>3, <3>4, <3>5 DEF Holds
  <2>2. CASE c1.bufferLength # 0
    <3>1. Len(rest) = 0
      BY <1>1, <1>3, <2>2
    <3>2. Len(front) = 0 /\ Len(tail) = 0
      <4>1. BlockBytes * q \in Nat
        BY <1>5
      <4> QED
        BY <1>4, <1>5, <1>6, <3>1, <4>1
    <3>3. front = <<>>
      BY <1>6, <3>2, EmptySeq
    <3>4. (m \o head) \o front = m \o head
      BY <1>9, <3>3, ConcatEmptySeq
    <3>5. hash = c1.hash
      <4>5. PICK B : Blocks(m \o head) \in Seq(B)
        BY <1>9, BlocksIsSeq
      <4>6. Blocks(front) = <<>>
        <5>1. Len(front) \div BlockBytes = 0
          <6>1. PICK n \in Nat, w \in 0 .. BlockBytes - 1 :
                  0 = BlockBytes * n + w /\ 0 \div BlockBytes = n
            BY Cut
          <6>2. n = 0
            <7>1. ASSUME n >= 1 PROVE BlockBytes * n >= 1
              BY <1>5, <7>1
            <7> QED
              BY <1>5, <6>1, <7>1
          <6> QED
            BY <3>2, <6>1, <6>2
        <5> QED
          BY <5>1 DEF Blocks
      <4> QED
        BY <1>7, <1>8, <4>5, <4>6, ConcatEmptySeq DEF hash
    <3>6. f.bufferLength + Len(tail) < BlockBytes
      <4>1. Len(m \o head) \in Nat
        BY <1>9
      <4>2. f.bufferLength \in 0 .. BlockBytes - 1
        BY <1>8, <1>10, <4>1, Cut
      <4> QED
        BY <1>5, <3>2, <4>2
    <3> QED
      BY <1>8, <1>10, <3>4, <3>5, <3>6 DEF Holds
  <2> QED
    BY <2>1, <2>2
<1>13. Holds(e, ((m \o head) \o front) \o tail)
  <2>1. (m \o head) \o front \in Seq(Byte)
    BY <1>6, <1>9
  <2> QED
    BY <1>6, <1>11, <1>12, <2>1, RestKept
<1>14. ((m \o head) \o front) \o tail = m \o d
  <2>1. (m \o head) \o rest = ((m \o head) \o front) \o tail
    <3> DEFINE l == m \o head
    <3>1. l \in Seq(Byte)
      BY <1>9
    <3> HIDE DEF l
    <3>2. (l \o front) \o tail = l \o (front \o tail)
      <4>1. front \in Seq(Byte) /\ tail \in Seq(Byte)
        BY <1>6
      <4> HIDE DEF front, tail
      <4> QED
        BY <3>1, <4>1, Associates, Zenon
    <3> QED
      BY <1>6, <3>2, Zenon DEF l
  <2>2. (m \o head) \o rest = m \o (head \o rest)
    <3>1. m \in Seq(Byte) /\ head \in Seq(Byte) /\ rest \in Seq(Byte)
      BY <1>3
    <3> HIDE DEF head, rest
    <3> QED
      BY <3>1, Associates, Zenon
  <2> QED
    BY <1>3, <2>1, <2>2, Zenon
<1> QED
  BY <1>11, <1>13, <1>14 DEF e, total

(* The padding of a message ends its last block.                           *)
LEMMA PaddingFits ==
  ASSUME NEW n \in Nat, NEW c, c.bufferLength = n % BlockBytes
  PROVE  LET pad == BytesToPad(c)
         IN /\ pad \in 1 .. BlockBytes
            /\ (n + pad + LengthBytes) % BlockBytes = 0
            /\ PaddedLength(n) = n + pad + LengthBytes
<1> DEFINE pad == BytesToPad(c)
           total == n + pad + LengthBytes
<1>1. PICK q \in Nat, r \in 0 .. BlockBytes - 1 :
        n = BlockBytes * q + r /\ c.bufferLength = r
  BY Cut
<1>2. /\ BlockBytes \in Nat \ {0} /\ LengthBytes \in 1 .. BlockBytes - 1
      /\ BlockBytes * q \in Nat /\ r \in Nat
  BY HashAssumption
<1>3. /\ pad \in 1 .. BlockBytes
      /\ r + pad + LengthBytes = BlockBytes \/ r + pad + LengthBytes = 2 * BlockBytes
  BY <1>1, <1>2 DEF BytesToPad
<1> HIDE DEF pad
<1>4. PICK pre \in Nat : total = BlockBytes * pre + 0
  <2>1. CASE r + pad + LengthBytes = BlockBytes
    <3>1. BlockBytes * (q + 1) = BlockBytes * q + BlockBytes
      BY <1>2
    <3>2. total = BlockBytes * (q + 1) + 0 /\ q + 1 \in Nat
      BY <1>1, <1>2, <1>3, <2>1, <3>1
    <3> QED
      BY <3>2
  <2>2. CASE r + pad + LengthBytes = 2 * BlockBytes
    <3>1. BlockBytes * (q + 2) = BlockBytes * q + 2 * BlockBytes
      BY <1>2
    <3>2. total = BlockBytes * (q + 2) + 0 /\ q + 2 \in Nat
      BY <1>1, <1>2, <1>3, <2>2, <3>1
    <3> QED
      BY <3>2
  <2> QED
    BY <1>3, <2>1, <2>2
<1> DEFINE Lengths == n + 1 + LengthBytes .. n + LengthBytes + BlockBytes
<1>5. total \in Lengths /\ total % BlockBytes = 0
  <2>1. 0 \in 0 .. BlockBytes - 1
    BY <1>2
  <2>2. total \in Lengths
    BY <1>2, <1>3
  <2> DEFINE t == total
  <2>3. t \in Int /\ t = BlockBytes * pre + 0
    BY <1>2, <1>3, <1>4
  <2> HIDE DEF t
  <2>4. t % BlockBytes = 0
    BY <1>2, <2>1, <2>3, DivUnique
  <2> QED
    BY <2>2, <2>4 DEF t
<1>6. ASSUME NEW m \in Lengths, m % BlockBytes = 0
      PROVE  m = total
  <2>1. m \in Nat /\ m - total < BlockBytes /\ total - m < BlockBytes
    BY <1>2, <1>3
  <2>2. PICK k \in Nat : m = BlockBytes * k + 0
    BY <1>6, <2>1, Cut
  <2>3. /\ m - total = BlockBytes * (k - pre) /\ total - m = BlockBytes * (pre - k)
        /\ k - pre \in Int /\ pre - k \in Int
    BY <1>2, <1>4, <2>2
  <2>4. ASSUME NEW ix \in Int, ix >= 1 PROVE BlockBytes * ix >= BlockBytes
    BY <1>2, <2>4
  <2>5. ~(k - pre >= 1) /\ ~(pre - k >= 1)
    BY <1>2, <2>1, <2>3, <2>4
  <2>6. k = pre
    BY <2>5
  <2> QED
    BY <1>4, <2>2, <2>6
<1>7. PaddedLength(n) = total
  <2> HIDE DEF Lengths, total
  <2>1. \E m \in Lengths : m % BlockBytes = 0
    BY <1>5
  <2>2. PaddedLength(n) = CHOOSE m \in Lengths : m % BlockBytes = 0
    BY DEF PaddedLength, Lengths
  <2>3. PaddedLength(n) \in Lengths /\ PaddedLength(n) % BlockBytes = 0
    BY <2>1, <2>2, Zenon
  <2> QED
    BY <1>6, <2>3
<1> QED
  BY <1>3, <1>5, <1>7 DEF pad

(* Final digests the standard's padded message.                            *)
LEMMA FinalHolds ==
  ASSUME NEW c, NEW m \in Seq(Byte), Holds(c, m),
         c.totalLength = BitsPerByte * Len(m)
  PROVE  /\ DOMAIN Final(c).buffer = 0 .. BlockBytes - 1
         /\ Final(c).hash = Blocks(Padded(m))
         /\ Final(c).bufferLength = 0
<1> DEFINE n == Len(m)
           pad == BytesToPad(c)
           padding == Padding(pad)
           size == LengthField(c.totalLength)
           c1 == Update(c, padding)
<1>1. n \in Nat /\ c.bufferLength = n % BlockBytes
  BY DEF Holds
<1>2. /\ pad \in 1 .. BlockBytes
      /\ (n + pad + LengthBytes) % BlockBytes = 0
      /\ PaddedLength(n) = n + pad + LengthBytes
  BY <1>1, PaddingFits
<1>3. pad \in Nat /\ LengthBytes \in Nat /\ BitsPerByte * n \in Nat
  BY <1>1, <1>2, HashAssumption
<1> HIDE DEF pad, n
<1>4. padding \in Seq(Byte) /\ Len(padding) = pad
  <2>1. padding \in [1 .. pad -> Byte]
    BY <1>3 DEF Padding, Byte
  <2> QED
    BY <1>3, <2>1
<1>5. size \in Seq(Byte) /\ Len(size) = LengthBytes
  <2>1. \A ix \in 1 .. LengthBytes :
          (c.totalLength \div ByteBase ^ (LengthBytes - ix)) % ByteBase \in LengthValues
    BY <1>3, <1>1 DEF LengthValues, n
  <2>2. size = [ix \in 1 .. LengthBytes |->
                   (c.totalLength \div ByteBase ^ (LengthBytes - ix)) % ByteBase]
    BY DEF LengthField
  <2>3. size \in [1 .. LengthBytes -> LengthValues]
    BY <2>1, <2>2, Zenon
  <2>4. LengthValues \subseteq Byte
    BY DEF Byte
  <2> HIDE DEF size
  <2>5. size \in [1 .. LengthBytes -> Byte]
    BY <2>3, <2>4
  <2> QED
    BY <1>3, <2>5
<1> HIDE DEF padding, size
<1>6. Holds(c1, m \o padding)
  BY <1>4, UpdateHolds
<1>7. m \o padding \in Seq(Byte) /\ Len(m \o padding) = n + pad
  BY <1>4, ConcatProperties DEF n
<1> HIDE DEF c1
<1>8. Holds(Update(c1, size), (m \o padding) \o size)
  BY <1>5, <1>6, <1>7, UpdateHolds
<1>9. Final(c) = Update(c1, size)
  BY DEF Final, c1, padding, pad, size
<1>10. Len((m \o padding) \o size) = n + pad + LengthBytes
  BY <1>5, <1>7, ConcatProperties
<1>11. Padded(m) = (m \o padding) \o size
  <2>1. PaddedLength(n) - n - LengthBytes = pad
    BY <1>1, <1>2, <1>3
  <2>2. Padded(m) = m \o Padding(PaddedLength(n) - n - LengthBytes)
                      \o LengthField(BitsPerByte * n)
    BY DEF Padded, n
  <2> QED
    BY <2>1, <2>2 DEF padding, size, n
<1> QED
  BY <1>2, <1>8, <1>9, <1>10, <1>11 DEF Holds
-----------------------------------------------------------------------------
(* The message added.                                                      *)

(* A context that has just been initialised stands for no bytes.           *)
LEMMA InitHolds ==
  ASSUME NEW buffer, DOMAIN buffer = 0 .. BlockBytes - 1
  PROVE  Holds(InitContext(buffer), <<>>)
<1> DEFINE c == InitContext(buffer)
<1>1. /\ DOMAIN c = {"totalLength", "hash", "bufferLength", "buffer"}
      /\ c.hash = <<>> /\ c.bufferLength = 0 /\ c.buffer = buffer
  BY DEF InitContext
<1> HIDE DEF c
<1>2. 0 \div BlockBytes = 0 /\ 0 % BlockBytes = 0
  <2>1. BlockBytes \in Nat \ {0} /\ 0 \in 0 .. BlockBytes - 1
    BY HashAssumption
  <2>2. (BlockBytes * 0 + 0) \div BlockBytes = 0 /\ (BlockBytes * 0 + 0) % BlockBytes = 0
    BY <2>1, DivUnique
  <2>3. BlockBytes * 0 + 0 = 0
    BY <2>1
  <2> QED
    BY <2>2, <2>3
<1>3. Len(<<>>) = 0 /\ Blocks(<<>>) = <<>>
  BY <1>2 DEF Blocks
<1>4. \A k \in 0 .. c.bufferLength - 1 : FALSE
  BY <1>1
<1> QED
  BY <1>1, <1>2, <1>3, <1>4 DEF Holds, c

(* The piece that follows what has been given continues the message.       *)
LEMMA PieceContinues ==
  ASSUME NEW g \in 0 .. Len(Message), NEW n \in Nat, n <= Len(Message) - g
  PROVE  /\ SubSeq(Message, 1, g) \in Seq(Byte) /\ Len(SubSeq(Message, 1, g)) = g
         /\ SubSeq(Message, g + 1, g + n) \in Seq(Byte)
         /\ Len(SubSeq(Message, g + 1, g + n)) = n
         /\ SubSeq(Message, 1, g) \o SubSeq(Message, g + 1, g + n)
              = SubSeq(Message, 1, g + n)
<1>1. Message \in Seq(Byte) /\ Len(Message) \in Nat /\ g \in Nat
  <2>1. Message \in Seq(0 .. ByteBase - 1) /\ 0 .. ByteBase - 1 \subseteq Byte
    BY HashAssumption DEF Byte
  <2>2. Message \in Seq(Byte)
    BY <2>1, SeqMonotonic
  <2> QED
    BY <2>2
<1>2. \A ix \in 1 .. Len(Message) : Message[ix] \in Byte
  BY <1>1
<1>3. SubSeq(Message, 1, g) \in Seq(Byte) /\ Len(SubSeq(Message, 1, g)) = g
  BY <1>1, SplitAt
<1>4. /\ SubSeq(Message, g + 1, g + n) \in Seq(Byte)
      /\ Len(SubSeq(Message, g + 1, g + n)) = n
  <2>1. /\ g + 1 \in Int /\ g + n \in Int
        /\ \A ix \in g + 1 .. g + n : Message[ix] \in Byte
    BY <1>1, <1>2
  <2>2. n = IF g + 1 <= g + n THEN (g + n) - (g + 1) + 1 ELSE 0
    BY <1>1
  <2> QED
    BY <2>1, <2>2, SubSeqProperties
<1>5. 1 \in 1 .. Len(Message) + 1 /\ g \in 1 - 1 .. Len(Message) /\ g + n \in g .. Len(Message)
  BY <1>1
<1> QED
  BY <1>1, <1>3, <1>4, <1>5, ConcatAdjacentSubSeq

(* HashInv is inductive.                                                   *)
LEMMA HashInvInductive ==
  ASSUME LengthFits
  PROVE  /\ HashInit => HashInv
         /\ HashInv /\ [HashNext]_hashVars => HashInv'
<1>1. BlockBytes \in Nat /\ BitsPerByte \in Nat /\ Len(Message) \in Nat
  BY HashAssumption
<1>2. SubSeq(Message, 1, 0) = <<>>
  BY SubSeqEmpty
<1>3. HashInit => HashInv
  <2> SUFFICES ASSUME HashInit PROVE HashInv
    OBVIOUS
  <2> DEFINE empty == [ix \in 0 .. BlockBytes - 1 |-> 0]
  <2>1. DOMAIN empty = 0 .. BlockBytes - 1 /\ sc = InitContext(empty)
        /\ given = 0 /\ hpc = "update"
    BY DEF HashInit
  <2> HIDE DEF empty
  <2>2. Holds(sc, SubSeq(Message, 1, given))
    BY <1>2, <2>1, InitHolds
  <2>3. sc.totalLength = 0 /\ sc.buffer = empty /\ BitsPerByte * 0 = 0
    BY <1>1, <2>1 DEF InitContext
  <2> QED
    BY <1>1, <2>1, <2>2, <2>3 DEF HashInv, DigestIsStandard
<1>4. HashInv /\ HashRestart => HashInv'
  <2> SUFFICES ASSUME HashInv, HashRestart PROVE HashInv'
    OBVIOUS
  <2>1. /\ sc' = InitContext(sc.buffer) /\ given' = 0 /\ hpc' = "update"
        /\ DOMAIN sc.buffer = 0 .. BlockBytes - 1
    BY DEF HashRestart, HashInv
  <2>2. Holds(sc', SubSeq(Message, 1, given'))
    BY <1>2, <2>1, InitHolds
  <2>3. sc'.totalLength = 0 /\ sc'.buffer = sc.buffer /\ BitsPerByte * 0 = 0
    BY <1>1, <2>1 DEF InitContext
  <2> QED
    BY <1>1, <2>1, <2>2, <2>3 DEF HashInv, DigestIsStandard
<1>5. ASSUME HashInv, NEW n \in 0 .. Len(Message), HashUpdate(n)
      PROVE  HashInv'
  <2> DEFINE m == SubSeq(Message, 1, given)
             d == SubSeq(Message, given + 1, given + n)
  <2>1. /\ hpc = "update" /\ hpc' = "update" /\ n <= Len(Message) - given /\ n \in Nat
        /\ sc' = Update(sc, d) /\ given' = given + n
        /\ given \in 0 .. Len(Message)
        /\ Holds(sc, m) /\ sc.totalLength = BitsPerByte * given
    BY <1>5 DEF HashUpdate, HashInv
  <2>2. /\ m \in Seq(Byte) /\ d \in Seq(Byte) /\ Len(d) = n
        /\ m \o d = SubSeq(Message, 1, given')
    BY <2>1, PieceContinues
  <2> HIDE DEF m, d
  <2>3. Holds(sc', SubSeq(Message, 1, given'))
    BY <2>1, <2>2, UpdateHolds
  <2>4. sc'.totalLength = (BitsPerByte * given + BitsPerByte * n) % ByteBase ^ LengthBytes
    BY <2>1, <2>2, UpdateHolds
  <2>5. given' \in 0 .. Len(Message)
    BY <1>1, <2>1
  <2>6. sc'.totalLength = BitsPerByte * given'
    <3> DEFINE M == ByteBase ^ LengthBytes
               x == BitsPerByte * given'
    <3>1. M \in Nat /\ BitsPerByte * Len(Message) < M
      BY DEF LengthFits
    <3>2. x = BitsPerByte * given + BitsPerByte * n
      BY <1>1, <2>1
    <3>3. x \in Nat /\ x <= BitsPerByte * Len(Message)
      <4>1. BitsPerByte * (Len(Message) - given') \in Nat
        BY <1>1, <2>5
      <4>2. BitsPerByte * Len(Message) = x + BitsPerByte * (Len(Message) - given')
        BY <1>1, <2>5
      <4>3. x \in Nat
        <5>1. ASSUME NEW ix \in Nat, NEW j \in Nat PROVE ix * j \in Nat
          OBVIOUS
        <5>2. given' \in Nat
          BY <1>1, <2>5
        <5> QED
          BY <1>1, <5>1, <5>2
      <4> QED
        BY <4>1, <4>2, <4>3
    <3>4. sc'.totalLength = x % M
      BY <2>4, <3>2
    <3> HIDE DEF M, x
    <3>5. M \in Nat \ {0} /\ x \in 0 .. M - 1
      <4>1. BitsPerByte * Len(Message) \in Nat
        BY <1>1
      <4> QED
        BY <3>1, <3>3, <4>1
    <3>6. (M * 0 + x) % M = x
      BY <3>5, DivUnique
    <3>7. M * 0 + x = x
      BY <3>5
    <3> QED
      BY <3>4, <3>6, <3>7 DEF x
  <2> QED
    BY <2>1, <2>3, <2>5, <2>6 DEF HashInv, DigestIsStandard, Holds
<1>6. HashInv /\ HashFinal => HashInv'
  <2> SUFFICES ASSUME HashInv, HashFinal PROVE HashInv'
    OBVIOUS
  <2> DEFINE m == SubSeq(Message, 1, given)
  <2>1. /\ hpc' = "done" /\ sc' = Final(sc) /\ given' = given
        /\ given \in 0 .. Len(Message)
        /\ Holds(sc, m) /\ sc.totalLength = BitsPerByte * given
    BY DEF HashFinal, HashInv
  <2>2. m \in Seq(Byte) /\ Len(m) = given
    <3>1. 0 \in Nat /\ 0 <= Len(Message) - given
      BY <1>1, <2>1
    <3> QED
      BY <2>1, <3>1, PieceContinues
  <2> HIDE DEF m
  <2>3. /\ DOMAIN sc'.buffer = 0 .. BlockBytes - 1
        /\ sc'.hash = Blocks(Padded(m)) /\ sc'.bufferLength = 0
    BY <2>1, <2>2, FinalHolds
  <2> QED
    BY <2>1, <2>3 DEF HashInv, DigestIsStandard, m
<1>7. HashInv /\ UNCHANGED hashVars => HashInv'
  BY DEF HashInv, DigestIsStandard, hashVars
<1> QED
  BY <1>3, <1>4, <1>5, <1>6, <1>7 DEF HashNext

(* The digest of a message that fits its length field is over the blocks   *)
(* of the standard's padded message, in whatever pieces it was added.      *)
THEOREM DigestsAreStandard ==
  ASSUME LengthFits
  PROVE  HashSpec => []DigestIsStandard
<1>1. HashInit => HashInv
  BY HashInvInductive
<1>2. HashInv /\ [HashNext]_hashVars => HashInv'
  BY HashInvInductive
<1>3. HashInv => DigestIsStandard
  BY DEF HashInv
<1> QED
  BY <1>1, <1>2, <1>3, PTL DEF HashSpec

-----------------------------------------------------------------------------
(* Base64.                                                                 *)

(* Three bytes hold what four characters hold.                             *)
LEMMA Bases ==
  /\ CharValues \in Nat \ {0} /\ ByteValues \in Nat \ {0}
  /\ Digit \in Nat \ {0} /\ Digit * Digit \in Nat
  /\ ByteValues = CharValues * Digit
  /\ ByteValues * ByteValues * ByteValues
       = CharValues * CharValues * CharValues * CharValues
<1> DEFINE C == CharValues
<1>1. Digit \in Nat \ {0} /\ Digit * Digit \in Nat \ {0}
  BY Base64Assumption
<1>2. C \in Nat \ {0} /\ C = Digit * Digit * Digit
  BY <1>1 DEF CharValues
<1>3. ByteValues = C * Digit
  BY DEF ByteValues
<1> HIDE DEF C
<1>4. C * Digit \in Nat \ {0}
  BY <1>1, <1>2
<1>5. (C * Digit) * (C * Digit) * (C * Digit) = C * C * C * (Digit * Digit * Digit)
  BY <1>1, <1>2
<1>6. (C * Digit) * (C * Digit) * (C * Digit) = C * C * C * C
  BY <1>2, <1>5
<1> QED
  BY <1>1, <1>2, <1>3, <1>4, <1>6 DEF C

(* The number that three bytes make, and the bytes of it.                  *)
LEMMA BytesOfGroup ==
  ASSUME NEW a \in 0 .. ByteValues - 1, NEW b \in 0 .. ByteValues - 1,
         NEW c \in 0 .. ByteValues - 1,
         NEW n, n = (a * ByteValues + b) * ByteValues + c
  PROVE  /\ n \in 0 .. ByteValues * ByteValues * ByteValues - 1
         /\ GroupByte(n, 0) = a /\ GroupByte(n, 1) = b /\ GroupByte(n, 2) = c
<1> DEFINE M == ByteValues
           m == M * a + b
<1>1. M \in Nat \ {0} /\ M * M \in Nat \ {0}
  BY Bases
<1>2. a \in 0 .. M - 1 /\ b \in 0 .. M - 1 /\ c \in 0 .. M - 1 /\ n = (a * M + b) * M + c
  OBVIOUS
<1>3. /\ GroupByte(n, 0) = (n \div (M * M)) % M
      /\ GroupByte(n, 1) = (n \div M) % M
      /\ GroupByte(n, 2) = n % M
  BY DEF GroupByte
<1> HIDE DEF M
<1>4. m \in 0 .. M * M - 1 /\ m \div M = a /\ m % M = b
  BY <1>1, <1>2, TwoDigits
<1>5. m = a * M + b
  BY <1>1, <1>2
<1> HIDE DEF m
<1>6. n = M * m + c
  BY <1>1, <1>2, <1>4, <1>5
<1>7. /\ M * m + c \in 0 .. (M * M) * M - 1
      /\ (M * m + c) \div M = m /\ (M * m + c) % M = c
  <2> DEFINE N == M * M
  <2>1. N \in Nat \ {0} /\ m \in 0 .. N - 1 /\ c \in 0 .. M - 1
    BY <1>1, <1>2, <1>4
  <2> HIDE DEF N
  <2>2. /\ M * m + c \in 0 .. N * M - 1
        /\ (M * m + c) \div M = m /\ (M * m + c) % M = c
    BY <1>1, <2>1, TwoDigits
  <2> QED
    BY <2>2 DEF N
<1>8. n \in Nat
  BY <1>1, <1>6, <1>7
<1>9. n \div (M * M) = (n \div M) \div M
  BY <1>1, <1>8, DivDiv
<1>10. a % M = a
  <2>1. (M * 0 + a) % M = a
    BY <1>1, <1>2, DivUnique
  <2> QED
    BY <1>1, <1>2, <2>1
<1>11. n \in 0 .. M * M * M - 1
  BY <1>6, <1>7
<1> QED
  BY <1>3, <1>4, <1>6, <1>7, <1>9, <1>10, <1>11 DEF M

(* Four characters stand for the number that they write.                   *)
LEMMA GroupOfChars ==
  ASSUME NEW n \in 0 .. CharValues * CharValues * CharValues * CharValues - 1
  PROVE  /\ \A k \in {0, 1, 2, 3} : GroupChar(n, k) \in 0 .. CharValues - 1
         /\ Group(GroupChar(n, 0), GroupChar(n, 1), GroupChar(n, 2), GroupChar(n, 3)) = n
<1> DEFINE M == CharValues
           x == n \div M
           y == x \div M
           z == y \div M
<1>1. M \in Nat \ {0} /\ M * M \in Nat \ {0} /\ M * M * M \in Nat \ {0}
  BY Bases
<1>2. n \in 0 .. M * M * M * M - 1
  OBVIOUS
<1>3. /\ GroupChar(n, 0) = (n \div (M * M * M)) % M
      /\ GroupChar(n, 1) = (n \div (M * M)) % M
      /\ GroupChar(n, 2) = (n \div M) % M
      /\ GroupChar(n, 3) = n % M
  BY DEF GroupChar
<1>4. \A c0, c1, c2, c3 \in 0 .. M - 1 :
        Group(c0, c1, c2, c3) = ((c0 * M + c1) * M + c2) * M + c3
  <2> TAKE c0, c1, c2, c3 \in 0 .. M - 1
  <2>1. /\ B64index(c0) = c0 /\ B64index(c1) = c1
        /\ B64index(c2) = c2 /\ B64index(c3) = c3
    BY <1>1 DEF B64index
  <2> QED
    BY <2>1 DEF Group
<1> HIDE DEF M
<1>5. n \in Nat
  BY <1>1, <1>2
<1> HIDE DEF x, y, z
<1>6. x \in Nat /\ n % M \in 0 .. M - 1 /\ M * x + (n % M) = n
  BY <1>1, <1>5, Parts DEF x
<1>7. /\ y \in Nat /\ x % M \in 0 .. M - 1 /\ M * y + (x % M) = x
      /\ z \in Nat /\ y % M \in 0 .. M - 1 /\ M * z + (y % M) = y
  <2>1. y \in Nat /\ x % M \in 0 .. M - 1 /\ M * y + (x % M) = x
    BY <1>1, <1>6, Parts DEF y
  <2> QED
    BY <1>1, <2>1, Parts DEF z
<1>8. n \div (M * M) = y
  BY <1>1, <1>5, DivDiv DEF x, y
<1>9. n \div (M * M * M) = z
  <2>1. n \div (M * (M * M)) = (n \div (M * M)) \div M
    BY <1>1, <1>5, DivDiv
  <2>2. M * (M * M) = M * M * M
    BY <1>1
  <2> QED
    BY <1>8, <2>1, <2>2 DEF z
<1>10. z < M
  <2> SUFFICES ASSUME z >= M PROVE FALSE
    BY <1>1, <1>7
  <2>1. M * z >= M * M /\ M * z \in Nat /\ M * M \in Nat
    BY <1>1, <1>7, TimesMonotone
  <2>2. y >= M * M
    BY <1>1, <1>7, <2>1
  <2>3. M * y >= M * (M * M)
    BY <1>1, <1>7, <2>2, TimesMonotone
  <2>4. x >= M * (M * M)
    BY <1>1, <1>7, <2>3
  <2>5. M * (M * M) \in Nat
    BY <1>1
  <2>6. M * x >= M * (M * (M * M))
    BY <1>1, <1>6, <2>4, <2>5, TimesMonotone
  <2>7. n >= M * (M * (M * M))
    <3>1. M * x \in Int /\ M * (M * (M * M)) \in Int
      BY <1>1, <1>6
    <3> QED
      BY <1>1, <1>6, <2>6, <3>1
  <2>8. M * (M * (M * M)) = M * M * M * M
    BY <1>1
  <2> QED
    <3> DEFINE R == M * M * M * M
    <3>1. R \in Int
      BY <1>1
    <3>2. n \in 0 .. R - 1 /\ n >= R
      BY <1>2, <2>7, <2>8
    <3> HIDE DEF R
    <3> QED
      BY <3>1, <3>2
<1>11. z \in 0 .. M - 1 /\ z % M = z
  <2>0. z \in 0 .. M - 1
    BY <1>1, <1>7, <1>10
  <2>1. (M * 0 + z) % M = z
    BY <1>1, <2>0, DivUnique
  <2> QED
    BY <1>1, <1>7, <2>0, <2>1
<1>12. /\ GroupChar(n, 0) = z /\ GroupChar(n, 1) = y % M
       /\ GroupChar(n, 2) = x % M /\ GroupChar(n, 3) = n % M
  BY <1>3, <1>8, <1>9, <1>11 DEF x
<1>13. y % M \in 0 .. M - 1 /\ x % M \in 0 .. M - 1 /\ n % M \in 0 .. M - 1
  BY <1>6, <1>7
<1>14. Group(z, y % M, x % M, n % M)
         = ((z * M + (y % M)) * M + (x % M)) * M + (n % M)
  BY <1>4, <1>11, <1>13
<1>15. z * M + (y % M) = y
  BY <1>1, <1>7
<1>16. y * M + (x % M) = x
  BY <1>1, <1>7
<1>17. x * M + (n % M) = n
  BY <1>1, <1>6
<1>18. Group(z, y % M, x % M, n % M) = n
  BY <1>14, <1>15, <1>16, <1>17
<1> QED
  BY <1>11, <1>12, <1>13, <1>18 DEF M

(* A group of which the last bytes are zeros: so are its last characters.  *)
LEMMA ZeroChars ==
  ASSUME NEW n \in 0 .. CharValues * CharValues * CharValues * CharValues - 1,
         NEW m \in Nat
  PROVE  /\ n = m * ByteValues => GroupChar(n, 3) = 0
         /\ n = m * ByteValues * ByteValues => GroupChar(n, 2) = 0 /\ GroupChar(n, 3) = 0
<1> DEFINE M == CharValues
<1>1. M \in Nat \ {0} /\ Digit \in Nat \ {0} /\ ByteValues = M * Digit
  BY Bases
<1>2. GroupChar(n, 2) = (n \div M) % M /\ GroupChar(n, 3) = n % M
  BY DEF GroupChar
<1> HIDE DEF M
<1>3. ASSUME NEW h \in Nat
      PROVE  (M * h) % M = 0 /\ (M * h) \div M = h
  <2>1. M * h = M * h + 0
    BY <1>1, <1>3
  <2>2. (M * h + 0) % M = 0 /\ (M * h + 0) \div M = h
    BY <1>1, <1>3, DivUnique
  <2> QED
    BY <2>1, <2>2
<1>4. ASSUME n = m * ByteValues
      PROVE  GroupChar(n, 3) = 0
  <2>1. n = M * (m * Digit) /\ m * Digit \in Nat
    BY <1>1, <1>4
  <2> QED
    BY <1>2, <1>3, <2>1
<1>5. ASSUME n = m * ByteValues * ByteValues
      PROVE  GroupChar(n, 2) = 0 /\ GroupChar(n, 3) = 0
  <2>1. /\ n = M * (M * (m * Digit * Digit))
        /\ m * Digit * Digit \in Nat /\ M * (m * Digit * Digit) \in Nat
    BY <1>1, <1>5
  <2> QED
    BY <1>2, <1>3, <2>1
<1> QED
  BY <1>4, <1>5

-----------------------------------------------------------------------------
(* The text of a key.                                                      *)

(* Bytes of the key, and the zeros taken for the ones behind it.           *)
LEMMA KeyByteType ==
  ASSUME NEW bytes \in Seq(0 .. ByteValues - 1), NEW at \in Nat
  PROVE  KeyByte(bytes, at) \in 0 .. ByteValues - 1
<1>1. ByteValues \in Nat \ {0}
  BY Bases
<1>2. CASE at < Len(bytes)
  <2>1. at + 1 \in 1 .. Len(bytes)
    BY <1>2
  <2>2. \A k \in 1 .. Len(bytes) : bytes[k] \in 0 .. ByteValues - 1
    BY ElementOfSeq
  <2> QED
    BY <1>2, <2>1, <2>2 DEF KeyByte
<1>3. CASE ~(at < Len(bytes))
  BY <1>1, <1>3 DEF KeyByte
<1> QED
  BY <1>2, <1>3

(* A group is decoded to its bytes, also when the characters that stand    *)
(* for missing bytes are not there.                                        *)
LEMMA GroupDecoded ==
  ASSUME NEW bytes \in Seq(0 .. ByteValues - 1), NEW g \in Nat
  PROVE  LET n == KeyGroup(bytes, g) IN
         /\ \A k \in {0, 1, 2, 3} : GroupChar(n, k) \in 0 .. CharValues - 1
         /\ GroupByte(n, 0) = KeyByte(bytes, 3 * g)
         /\ GroupByte(n, 1) = KeyByte(bytes, 3 * g + 1)
         /\ GroupByte(n, 2) = KeyByte(bytes, 3 * g + 2)
         /\ Group(GroupChar(n, 0), GroupChar(n, 1), GroupChar(n, 2), GroupChar(n, 3)) = n
         /\ Len(bytes) =< 3 * g + 2 =>
              Group(GroupChar(n, 0), GroupChar(n, 1), GroupChar(n, 2), NUL) = n
         /\ Len(bytes) =< 3 * g + 1 =>
              Group(GroupChar(n, 0), GroupChar(n, 1), NUL, NUL) = n
<1> DEFINE B == ByteValues
           C == CharValues
           x == KeyByte(bytes, 3 * g)
           y == KeyByte(bytes, 3 * g + 1)
           z == KeyByte(bytes, 3 * g + 2)
           n == KeyGroup(bytes, g)
           c0 == GroupChar(n, 0)
           c1 == GroupChar(n, 1)
           c2 == GroupChar(n, 2)
           c3 == GroupChar(n, 3)
<1>1. B \in Nat \ {0} /\ C \in Nat \ {0} /\ B * B * B = C * C * C * C
  BY Bases
<1>2. x \in 0 .. B - 1 /\ y \in 0 .. B - 1 /\ z \in 0 .. B - 1
  BY KeyByteType
<1>3. n = (x * B + y) * B + z
  BY DEF KeyGroup
<1> HIDE DEF n
<1>4. /\ n \in 0 .. B * B * B - 1
      /\ GroupByte(n, 0) = x /\ GroupByte(n, 1) = y /\ GroupByte(n, 2) = z
  <2> HIDE DEF x, y, z
  <2> QED
    BY <1>2, <1>3, BytesOfGroup
<1>5. n \in 0 .. C * C * C * C - 1
  BY <1>1, <1>4
<1>6. /\ \A k \in {0, 1, 2, 3} : GroupChar(n, k) \in 0 .. C - 1
      /\ Group(c0, c1, c2, c3) = n
  BY <1>5, GroupOfChars
<1>7. B64index(NUL) = 0 /\ B64index(0) = 0
  BY <1>1 DEF B64index, NUL
<1>8. ASSUME Len(bytes) =< 3 * g + 2
      PROVE  Group(c0, c1, c2, NUL) = n
  <2>1. z = 0
    BY <1>8 DEF KeyByte
  <2> HIDE DEF x, y, z
  <2>2. x * B + y \in Nat
    BY <1>1, <1>2
  <2>3. n = (x * B + y) * B
    BY <1>1, <1>2, <1>3, <2>1, <2>2
  <2>4. c3 = 0
    BY <1>5, <2>2, <2>3, ZeroChars
  <2>5. Group(c0, c1, c2, NUL) = Group(c0, c1, c2, 0)
    BY <1>7 DEF Group
  <2> QED
    BY <1>6, <2>4, <2>5
<1>9. ASSUME Len(bytes) =< 3 * g + 1
      PROVE  Group(c0, c1, NUL, NUL) = n
  <2>1. y = 0 /\ z = 0
    BY <1>9 DEF KeyByte
  <2> HIDE DEF x, y, z
  <2>2. x \in Nat
    BY <1>1, <1>2
  <2>3. n = x * B * B
    BY <1>1, <1>2, <1>3, <2>1, <2>2
  <2>4. c2 = 0 /\ c3 = 0
    BY <1>5, <2>2, <2>3, ZeroChars
  <2>5. Group(c0, c1, NUL, NUL) = Group(c0, c1, 0, 0)
    BY <1>7 DEF Group
  <2> QED
    BY <1>6, <2>4, <2>5
<1> QED
  BY <1>4, <1>6, <1>8, <1>9 DEF n

(* What the decoder makes of the length and the last characters: of q      *)
(* whole groups and r bytes it reads the whole groups in the loop and the  *)
(* r bytes after it.                                                       *)
LEMMA EncodedText ==
  ASSUME NEW bytes \in Seq(0 .. ByteValues - 1), NEW padded \in BOOLEAN,
         text = Encode(bytes, padded),
         NEW q \in Nat, NEW r \in {0, 1, 2}, Len(bytes) = 3 * q + r, Len(bytes) > 0
  PROVE  /\ Pad1 <=> r # 0
         /\ Pad2 <=> r = 2
         /\ LastIndex = 4 * q
         /\ \A g \in 0 .. q : \A k \in {0, 1, 2, 3} :
              g < q \/ (r # 0 /\ k =< r) =>
                p(4 * g + k) = GroupChar(KeyGroup(bytes, g), k)
<1> DEFINE chars == (4 * Len(bytes) + 2) \div 3
           size  == IF padded THEN 4 * ((Len(bytes) + 2) \div 3) ELSE chars
           char(k) == GroupChar(KeyGroup(bytes, (k - 1) \div 4), (k - 1) % 4)
<1>1. text = [k \in 1 .. size + 1 |->
                IF k =< chars THEN char(k) ELSE IF k =< size THEN PadChar ELSE NUL]
  BY DEF Encode
<1>2. CharValues \in Nat \ {0}
  BY Bases
<1>3. ASSUME NEW k \in 1 .. chars
      PROVE  char(k) \in 0 .. CharValues - 1
  <2>1. (k - 1) \div 4 \in Nat /\ (k - 1) % 4 \in {0, 1, 2, 3}
    BY <1>3
  <2> QED
    BY <2>1, GroupDecoded
<1> HIDE DEF char
<1>4. /\ r = 0 => chars = 4 * q
      /\ r = 1 => chars = 4 * q + 2
      /\ r = 2 => chars = 4 * q + 3
  OBVIOUS
<1>5. /\ ~padded => size = chars
      /\ padded /\ r = 0 => size = 4 * q
      /\ padded /\ r # 0 => size = 4 * q + 4
  OBVIOUS
<1> HIDE DEF chars, size
<1>6. chars \in Nat /\ size \in Nat /\ chars =< size /\ size > 0
  BY <1>4, <1>5
<1>7. /\ \A k \in 1 .. chars : text[k] = char(k) /\ text[k] \in 0 .. CharValues - 1
      /\ \A k \in 1 .. size : k > chars => text[k] = PadChar
      /\ text[size + 1] = NUL
  <2>1. \A k \in 1 .. size + 1 :
          text[k] = IF k =< chars THEN char(k) ELSE IF k =< size THEN PadChar ELSE NUL
    BY <1>1
  <2> QED
    BY <1>3, <1>6, <2>1
<1>8. \A k \in 1 .. size : text[k] # NUL /\ text[k] \in Int
  BY <1>2, <1>6, <1>7 DEF NUL, PadChar
<1>9. Len(text) = size + 1
  <2> DEFINE S == 0 .. CharValues + 1
  <2>1. text \in [1 .. size + 1 -> S]
    <3>1. \A k \in 1 .. size + 1 : text[k] \in S
      <4> TAKE k \in 1 .. size + 1
      <4>1. CASE k =< chars
        BY <1>2, <1>6, <1>7, <4>1
      <4>2. CASE k > chars /\ k =< size
        BY <1>2, <1>6, <1>7, <4>2 DEF PadChar
      <4>3. CASE k = size + 1
        BY <1>2, <1>7, <4>3 DEF NUL
      <4> QED
        BY <1>6, <4>1, <4>2, <4>3
    <3>2. text = [k \in 1 .. size + 1 |-> text[k]]
      BY <1>1
    <3> HIDE DEF S
    <3> QED
      BY <3>1, <3>2
  <2> HIDE DEF S
  <2>2. \A n \in Nat : \A t \in [1 .. n -> S] : Len(t) = n
    OBVIOUS
  <2> QED
    BY <1>6, <2>1, <2>2
<1>10. length = size
  <2> DEFINE Ends(n) == text[n + 1] = NUL /\ \A m \in 1 .. n : text[m] # NUL
  <2>1. size \in 0 .. Len(text) - 1 /\ Ends(size)
    BY <1>6, <1>7, <1>8, <1>9
  <2>2. ASSUME NEW n \in 0 .. Len(text) - 1, Ends(n)
        PROVE  n = size
    BY <1>6, <1>8, <1>9, <2>2
  <2>3. BytesLen(text) = CHOOSE n \in 0 .. Len(text) - 1 : Ends(n)
    BY DEF BytesLen
  <2> HIDE DEF Ends
  <2> QED
    BY <2>1, <2>2, <2>3 DEF length
<1>11. p(size - 1) = text[size] /\ p(size - 2) = text[size - 1]
  <2>1. size - 1 + 1 = size /\ size - 2 + 1 = size - 1
    BY <1>6
  <2> QED
    BY <2>1 DEF p
<1>12. /\ r # 0 \/ ~padded => (text[size] = PadChar <=> padded)
       /\ r = 0 => text[size] # PadChar
  <2>1. CASE chars = size
    <3>1. text[size] \in 0 .. CharValues - 1
      BY <1>6, <1>7, <2>1
    <3>2. text[size] # PadChar
      BY <1>2, <3>1 DEF PadChar
    <3> QED
      BY <1>4, <1>5, <2>1, <3>2
  <2>2. CASE chars < size
    <3>1. text[size] = PadChar
      BY <1>6, <1>7, <2>2
    <3> QED
      BY <1>4, <1>5, <2>2, <3>1
  <2> QED
    BY <1>6, <2>1, <2>2
<1>13. padded /\ r # 0 => (text[size - 1] = PadChar <=> r = 1)
  <2> SUFFICES ASSUME padded, r # 0
               PROVE  text[size - 1] = PadChar <=> r = 1
    OBVIOUS
  <2>1. CASE r = 1
    <3>1. size - 1 \in 1 .. size /\ size - 1 > chars
      BY <1>4, <1>5, <2>1
    <3> QED
      BY <1>7, <2>1, <3>1
  <2>2. CASE r = 2
    <3>1. size - 1 \in 1 .. chars
      BY <1>4, <1>5, <2>2
    <3>2. text[size - 1] \in 0 .. CharValues - 1
      BY <1>7, <3>1
    <3>3. \A x \in 0 .. CharValues - 1 : x # PadChar
      BY <1>2 DEF PadChar
    <3>4. text[size - 1] # PadChar
      BY <3>2, <3>3
    <3>5. r # 1
      BY <2>2
    <3> QED
      BY <3>4, <3>5
  <2> QED
    BY <2>1, <2>2
<1>14. Pad1 <=> r # 0
  <2>1. size % 4 # 0 <=> ~padded /\ r # 0
    BY <1>4, <1>5
  <2> QED
    BY <1>10, <1>11, <1>12, <2>1 DEF Pad1
<1>15. Pad2 <=> r = 2
  <2>1. /\ size % 4 > 2 <=> ~padded /\ r = 2
        /\ size % 4 = 0 <=> padded \/ r = 0
    BY <1>4, <1>5
  <2> QED
    BY <1>10, <1>11, <1>13, <1>14, <2>1 DEF Pad2
<1>16. LastIndex = 4 * q
  <2>1. LastIndex = ((size - (IF Pad1 THEN 1 ELSE 0)) \div 4) * 4
    BY <1>10 DEF LastIndex
  <2>2. CASE r = 0
    <3>1. LastIndex = ((4 * q - 0) \div 4) * 4
      BY <1>4, <1>5, <1>14, <2>1, <2>2
    <3> QED
      BY <3>1
  <2>3. CASE r # 0
    <3>1. LastIndex = ((size - 1) \div 4) * 4 /\ size \in {4 * q + 2, 4 * q + 3, 4 * q + 4}
      BY <1>4, <1>5, <1>14, <2>1, <2>3
    <3> QED
      BY <3>1
  <2> QED
    BY <2>2, <2>3
<1>17. ASSUME NEW g \in 0 .. q, NEW k \in {0, 1, 2, 3}, g < q \/ (r # 0 /\ k =< r)
       PROVE  p(4 * g + k) = GroupChar(KeyGroup(bytes, g), k)
  <2>1. 4 * g + k + 1 \in 1 .. chars
    BY <1>4, <1>17
  <2>2. (4 * g + k + 1 - 1) \div 4 = g /\ (4 * g + k + 1 - 1) % 4 = k
    BY <1>17
  <2>3. text[4 * g + k + 1] = char(4 * g + k + 1)
    BY <1>7, <2>1
  <2> QED
    BY <2>2, <2>3 DEF p, char
<1> QED
  BY <1>14, <1>15, <1>16, <1>17

-----------------------------------------------------------------------------
(* The decoder.                                                            *)

(* The first w bytes of the key are in output[], and nothing else is.      *)
Decoded(w) ==
  /\ DOMAIN output = 0 .. Len(key) - 1
  /\ written = 0 .. w - 1
  /\ \A k \in 0 .. w - 1 : output[k] = key[k + 1]

(* What has been stored at every place of the decoder.                     *)
DecodeInv ==
  /\ key \in Seq(0 .. ByteValues - 1)
  /\ dpc \in {"idle", "groups", "tail", "returned"}
  /\ dpc = "idle" => written = {}
  /\ dpc = "groups" =>
       /\ \E padded \in BOOLEAN : text = Encode(key, padded)
       /\ \E g \in Nat : i = 4 * g /\ 3 * g =< Len(key) /\ Decoded(3 * g)
  /\ dpc \in {"groups", "tail"} => Len(key) > 0
  /\ dpc \in {"tail", "returned"} => Decoded(Len(key))
  /\ dpc = "returned" => (result.ok <=> key # <<>>) /\ result.count = Len(key)

(* The next m bytes of a group are stored behind the first w.              *)
LEMMA StoreDecodes ==
  ASSUME NEW w \in Nat, NEW m \in Nat, NEW n, key' = key, Decoded(w), Store(n, m),
         w + m =< Len(key), Len(key) \in Nat,
         \A k \in 0 .. m - 1 : GroupByte(n, k) = key[w + k + 1]
  PROVE  Decoded(w + m)'
<1> DEFINE j == Cardinality(written)
<1>1. j = w
  <2>1. Cardinality(0 .. w - 1) = IF 0 > w - 1 THEN 0 ELSE (w - 1) - 0 + 1
    BY FS_Interval
  <2> QED
    BY <2>1 DEF Decoded
<1>2. /\ written' = written \cup (w .. w + m - 1)
      /\ output' = [k \in DOMAIN output |->
                      IF k \in w .. w + m - 1 THEN GroupByte(n, k - w) ELSE output[k]]
  BY <1>1 DEF Store
<1>3. DOMAIN output = 0 .. Len(key) - 1 /\ DOMAIN output' = 0 .. Len(key') - 1
  BY <1>2 DEF Decoded
<1>4. written' = 0 .. (w + m) - 1
  BY <1>2 DEF Decoded
<1>5. ASSUME NEW k \in 0 .. (w + m) - 1
      PROVE  output'[k] = key[k + 1]
  <2>1. k \in DOMAIN output
    BY <1>3
  <2>2. CASE k \in w .. w + m - 1
    <3>1. output'[k] = GroupByte(n, k - w)
      BY <1>2, <2>1, <2>2
    <3>2. k - w \in 0 .. m - 1 /\ w + (k - w) + 1 = k + 1
      BY <2>2
    <3> QED
      BY <3>1, <3>2
  <2>3. CASE k \in 0 .. w - 1
    BY <1>2, <2>1, <2>3 DEF Decoded
  <2> QED
    BY <2>2, <2>3
<1> QED
  BY <1>3, <1>4, <1>5 DEF Decoded

(* Of the key whose text is being decoded: q whole groups and r bytes.     *)
LEMMA KeyShape ==
  ASSUME DecodeInv, dpc = "groups"
  PROVE  \E q \in Nat, r \in {0, 1, 2}, g \in Nat :
           /\ g =< q
           /\ Len(key) = 3 * q + r
           /\ Pad1 <=> r # 0
           /\ Pad2 <=> r = 2
           /\ LastIndex = 4 * q
           /\ i = 4 * g /\ Decoded(3 * g)
           /\ \A k \in {0, 1, 2, 3} :
                g < q \/ (r # 0 /\ k =< r) => p(4 * g + k) = GroupChar(KeyGroup(key, g), k)
<1>1. /\ key \in Seq(0 .. ByteValues - 1) /\ Len(key) > 0 /\ Len(key) \in Nat
      /\ \E padded \in BOOLEAN : text = Encode(key, padded)
      /\ \E g \in Nat : i = 4 * g /\ 3 * g =< Len(key) /\ Decoded(3 * g)
  BY DEF DecodeInv
<1>2. PICK padded \in BOOLEAN : text = Encode(key, padded)
  BY <1>1
<1>3. PICK g \in Nat : i = 4 * g /\ 3 * g =< Len(key) /\ Decoded(3 * g)
  BY <1>1
<1>4. PICK q \in Nat, r \in {0, 1, 2} : Len(key) = 3 * q + r
  <2>1. /\ Len(key) \div 3 \in Nat /\ Len(key) % 3 \in {0, 1, 2}
        /\ Len(key) = 3 * (Len(key) \div 3) + (Len(key) % 3)
    BY <1>1
  <2> QED
    BY <2>1
<1>5. g \in 0 .. q /\ g =< q
  BY <1>3, <1>4
<1>6. /\ Pad1 <=> r # 0
      /\ Pad2 <=> r = 2
      /\ LastIndex = 4 * q
      /\ \A h \in 0 .. q : \A k \in {0, 1, 2, 3} :
           h < q \/ (r # 0 /\ k =< r) => p(4 * h + k) = GroupChar(KeyGroup(key, h), k)
  BY <1>1, <1>2, <1>4, EncodedText
<1>7. \A k \in {0, 1, 2, 3} :
        g < q \/ (r # 0 /\ k =< r) => p(4 * g + k) = GroupChar(KeyGroup(key, g), k)
  BY <1>5, <1>6
<1> HIDE DEF Decoded
<1>8. /\ g =< q /\ Len(key) = 3 * q + r
      /\ (Pad1 <=> r # 0) /\ (Pad2 <=> r = 2) /\ LastIndex = 4 * q
      /\ i = 4 * g /\ Decoded(3 * g)
  BY <1>3, <1>4, <1>5, <1>6
<1> WITNESS q \in Nat, r \in {0, 1, 2}, g \in Nat
<1> QED
  BY <1>7, <1>8, Zenon

(* A call begins with nothing stored, and an empty key ends it.            *)
LEMMA CallDecodes ==
  ASSUME NEW bytes \in Keys, NEW padded \in BOOLEAN, DecodeCall(bytes, padded)
  PROVE  DecodeInv'
<1>1. bytes \in Seq(0 .. ByteValues - 1) /\ Len(bytes) \in Nat
  BY Base64Assumption
<1>2. /\ key' = bytes /\ text' = Encode(bytes, padded) /\ i' = 0 /\ written' = {}
      /\ DOMAIN output' = 0 .. Len(bytes) - 1
  BY DEF DecodeCall
<1>3. Decoded(0)'
  BY <1>2 DEF Decoded
<1>4. CASE bytes = <<>>
  <2>1. Len(bytes) = 0 /\ Decoded(Len(key))'
    BY <1>2, <1>3, <1>4
  <2>2. dpc' = "returned" /\ result' = [ok |-> FALSE, count |-> 0]
    BY <1>4 DEF DecodeCall
  <2> QED
    BY <1>1, <1>2, <1>4, <2>1, <2>2 DEF DecodeInv
<1>5. CASE bytes # <<>>
  <2>1. Len(bytes) > 0
    BY <1>1, <1>5
  <2>2. dpc' = "groups"
    BY <1>5 DEF DecodeCall
  <2>3. \E g \in Nat : i' = 4 * g /\ 3 * g =< Len(key') /\ Decoded(3 * g)'
    <3>1. i' = 4 * 0 /\ 3 * 0 =< Len(key') /\ Decoded(3 * 0)'
      BY <1>1, <1>2, <1>3
    <3> QED
      BY <3>1
  <2>4. \E pad \in BOOLEAN : text' = Encode(key', pad)
    BY <1>2
  <2> QED
    BY <1>1, <1>2, <2>1, <2>2, <2>3, <2>4 DEF DecodeInv
<1> QED
  BY <1>4, <1>5

(* The loop stores the three bytes of a whole group.                       *)
LEMMA GroupDecodes ==
  ASSUME DecodeInv, DecodeGroup
  PROVE  DecodeInv'
<1>1. /\ dpc = "groups" /\ i < LastIndex
      /\ Store(Group(p(i), p(i + 1), p(i + 2), p(i + 3)), 3)
      /\ i' = i + 4 /\ UNCHANGED <<key, text, dpc, result>>
  BY DEF DecodeGroup
<1>2. PICK q \in Nat, r \in {0, 1, 2}, g \in Nat :
        /\ g =< q
        /\ Len(key) = 3 * q + r
        /\ LastIndex = 4 * q
        /\ i = 4 * g /\ Decoded(3 * g)
        /\ \A k \in {0, 1, 2, 3} :
             g < q \/ (r # 0 /\ k =< r) => p(4 * g + k) = GroupChar(KeyGroup(key, g), k)
  BY <1>1, KeyShape
<1>3. g < q /\ key \in Seq(0 .. ByteValues - 1)
  BY <1>1, <1>2 DEF DecodeInv
<1> DEFINE n == KeyGroup(key, g)
<1>4. /\ p(i) = GroupChar(n, 0) /\ p(i + 1) = GroupChar(n, 1)
      /\ p(i + 2) = GroupChar(n, 2) /\ p(i + 3) = GroupChar(n, 3)
  <2>1. i = 4 * g + 0
    BY <1>2
  <2> QED
    BY <1>2, <1>3, <2>1
<1>5. /\ Group(p(i), p(i + 1), p(i + 2), p(i + 3)) = n
      /\ GroupByte(n, 0) = KeyByte(key, 3 * g)
      /\ GroupByte(n, 1) = KeyByte(key, 3 * g + 1)
      /\ GroupByte(n, 2) = KeyByte(key, 3 * g + 2)
  BY <1>3, <1>4, GroupDecoded
<1> HIDE DEF n
<1>6. \A k \in 0 .. 3 - 1 : GroupByte(n, k) = key[3 * g + k + 1]
  <2>1. /\ KeyByte(key, 3 * g) = key[3 * g + 0 + 1]
        /\ KeyByte(key, 3 * g + 1) = key[3 * g + 1 + 1]
        /\ KeyByte(key, 3 * g + 2) = key[3 * g + 2 + 1]
    BY <1>2, <1>3 DEF KeyByte
  <2>2. \A k \in 0 .. 3 - 1 : k \in {0, 1, 2}
    OBVIOUS
  <2> QED
    BY <1>5, <2>1, <2>2
<1>7. Decoded(3 * g + 3)'
  <2>1. 3 * g \in Nat /\ 3 * g + 3 =< Len(key) /\ Len(key) \in Nat /\ key' = key
    BY <1>1, <1>2, <1>3
  <2>2. Decoded(3 * g) /\ Store(n, 3)
    BY <1>1, <1>2, <1>5
  <2> QED
    BY <1>6, <2>1, <2>2, StoreDecodes
<1>8. \E h \in Nat : i' = 4 * h /\ 3 * h =< Len(key') /\ Decoded(3 * h)'
  <2>1. 3 * (g + 1) = 3 * g + 3 /\ g + 1 \in Nat
    BY <1>2
  <2>2. i' = 4 * (g + 1) /\ 3 * (g + 1) =< Len(key')
    BY <1>1, <1>2, <1>3
  <2>3. Decoded(3 * (g + 1))'
    BY <1>7, <2>1
  <2> QED
    BY <2>1, <2>2, <2>3
<1> QED
  BY <1>1, <1>8 DEF DecodeInv

(* The last one or two bytes, of two or three characters.                  *)
LEMMA TailDecodes ==
  ASSUME DecodeInv, DecodeTail
  PROVE  DecodeInv'
<1>1. /\ dpc = "groups" /\ i >= LastIndex /\ Pad1 /\ dpc' = "tail"
      /\ UNCHANGED <<key, text, i, result>>
      /\ \/ Pad2  /\ Store(Group(p(LastIndex), p(LastIndex + 1), p(LastIndex + 2), NUL), 2)
         \/ ~Pad2 /\ Store(Group(p(LastIndex), p(LastIndex + 1), NUL, NUL), 1)
  BY DEF DecodeTail
<1>2. PICK q \in Nat, r \in {0, 1, 2}, g \in Nat :
        /\ g =< q
        /\ Len(key) = 3 * q + r
        /\ Pad1 <=> r # 0
        /\ Pad2 <=> r = 2
        /\ LastIndex = 4 * q
        /\ i = 4 * g /\ Decoded(3 * g)
        /\ \A k \in {0, 1, 2, 3} :
             g < q \/ (r # 0 /\ k =< r) => p(4 * g + k) = GroupChar(KeyGroup(key, g), k)
  BY <1>1, KeyShape
<1>3. /\ key \in Seq(0 .. ByteValues - 1) /\ Len(key) \in Nat
      /\ g = q /\ r \in {1, 2} /\ LastIndex = 4 * g
  BY <1>1, <1>2 DEF DecodeInv
<1> DEFINE n == KeyGroup(key, g)
<1>4. /\ p(LastIndex) = GroupChar(n, 0) /\ p(LastIndex + 1) = GroupChar(n, 1)
      /\ r = 2 => p(LastIndex + 2) = GroupChar(n, 2)
  <2>1. LastIndex = 4 * g + 0
    BY <1>2, <1>3
  <2> QED
    BY <1>2, <1>3, <2>1
<1>5. /\ GroupByte(n, 0) = KeyByte(key, 3 * g)
      /\ GroupByte(n, 1) = KeyByte(key, 3 * g + 1)
      /\ r = 2 => Group(p(LastIndex), p(LastIndex + 1), p(LastIndex + 2), NUL) = n
      /\ r = 1 => Group(p(LastIndex), p(LastIndex + 1), NUL, NUL) = n
  <2>1. /\ GroupByte(n, 0) = KeyByte(key, 3 * g)
        /\ GroupByte(n, 1) = KeyByte(key, 3 * g + 1)
        /\ Len(key) =< 3 * g + 2 =>
             Group(GroupChar(n, 0), GroupChar(n, 1), GroupChar(n, 2), NUL) = n
        /\ Len(key) =< 3 * g + 1 =>
             Group(GroupChar(n, 0), GroupChar(n, 1), NUL, NUL) = n
    BY <1>2, <1>3, GroupDecoded
  <2> HIDE DEF n
  <2>2. Len(key) =< 3 * g + 2 /\ (r = 1 => Len(key) =< 3 * g + 1)
    BY <1>2, <1>3
  <2> QED
    BY <1>4, <2>1, <2>2
<1> HIDE DEF n
<1>6. Store(n, r)
  BY <1>1, <1>2, <1>3, <1>5
<1>7. \A k \in 0 .. r - 1 : GroupByte(n, k) = key[3 * g + k + 1]
  <2>1. /\ KeyByte(key, 3 * g) = key[3 * g + 0 + 1]
        /\ r = 2 => KeyByte(key, 3 * g + 1) = key[3 * g + 1 + 1]
    BY <1>2, <1>3 DEF KeyByte
  <2>2. \A k \in 0 .. r - 1 : k = 0 \/ (k = 1 /\ r = 2)
    BY <1>3
  <2> QED
    BY <1>5, <2>1, <2>2
<1>8. Decoded(Len(key))'
  <2>1. /\ 3 * g \in Nat /\ r \in Nat /\ key' = key
        /\ 3 * g + r =< Len(key) /\ 3 * g + r = Len(key)
    BY <1>1, <1>2, <1>3
  <2>2. Decoded(3 * g + r)'
    BY <1>2, <1>3, <1>6, <1>7, <2>1, StoreDecodes
  <2>3. Len(key') = 3 * g + r
    BY <2>1
  <2> QED
    BY <2>2, <2>3 DEF Decoded
<1> QED
  BY <1>1, <1>3, <1>8 DEF DecodeInv

(* Whichever way the end is reached, the whole key has been stored.        *)
LEMMA ReturnDecodes ==
  ASSUME DecodeInv, DecodeReturn
  PROVE  DecodeInv'
<1>1. /\ dpc' = "returned" /\ result' = [ok |-> TRUE, count |-> Cardinality(written)]
      /\ UNCHANGED <<key, text, output, written, i>>
      /\ dpc = "tail" \/ (dpc = "groups" /\ i >= LastIndex /\ ~Pad1)
  BY DEF DecodeReturn
<1>2. /\ key \in Seq(0 .. ByteValues - 1) /\ Len(key) \in Nat /\ Len(key) > 0
      /\ dpc = "tail" => Decoded(Len(key))
  BY <1>1 DEF DecodeInv
<1>3. Decoded(Len(key))
  <2>1. CASE dpc = "tail"
    BY <1>2, <2>1
  <2>2. CASE dpc = "groups" /\ i >= LastIndex /\ ~Pad1
    <3>1. PICK q \in Nat, r \in {0, 1, 2}, g \in Nat :
            /\ g =< q
            /\ Len(key) = 3 * q + r
            /\ Pad1 <=> r # 0
            /\ LastIndex = 4 * q
            /\ i = 4 * g /\ Decoded(3 * g)
      BY <2>2, KeyShape
    <3>2. 3 * g = Len(key)
      BY <2>2, <3>1
    <3> QED
      BY <3>1, <3>2
  <2> QED
    BY <1>1, <2>1, <2>2
<1>4. Cardinality(written) = Len(key)
  <2>1. Cardinality(0 .. Len(key) - 1)
          = IF 0 > Len(key) - 1 THEN 0 ELSE (Len(key) - 1) - 0 + 1
    BY <1>2, FS_Interval
  <2> QED
    BY <1>2, <1>3, <2>1 DEF Decoded
<1>5. Decoded(Len(key))'
  BY <1>1, <1>3 DEF Decoded
<1>6. key' # <<>> /\ result'.ok /\ result'.count = Len(key')
  BY <1>1, <1>2, <1>4
<1> QED
  BY <1>1, <1>2, <1>5, <1>6 DEF DecodeInv

(* DecodeInv holds in every state of the decoder.                          *)
LEMMA DecodeInvariance ==
  DecodeSpec => []DecodeInv
<1>1. DecodeInit => DecodeInv
  BY DEF DecodeInit, DecodeInv
<1>2. DecodeInv /\ [DecodeNext]_decodeVars => DecodeInv'
  <2> SUFFICES ASSUME DecodeInv, [DecodeNext]_decodeVars
               PROVE  DecodeInv'
    OBVIOUS
  <2>1. CASE \E bytes \in Keys, padded \in BOOLEAN : DecodeCall(bytes, padded)
    BY <2>1, CallDecodes
  <2>2. CASE DecodeGroup
    BY <2>2, GroupDecodes
  <2>3. CASE DecodeTail
    BY <2>3, TailDecodes
  <2>4. CASE DecodeReturn
    BY <2>4, ReturnDecodes
  <2>5. CASE DecodeDone
    BY <2>5 DEF DecodeDone, DecodeInv
  <2>6. CASE UNCHANGED decodeVars
    BY <2>6 DEF decodeVars, DecodeInv, Decoded
  <2> QED
    BY <2>1, <2>2, <2>3, <2>4, <2>5, <2>6 DEF DecodeNext
<1> QED
  BY <1>1, <1>2, PTL DEF DecodeSpec

(* Every key is given back as it was encoded, whatever its length, padded  *)
(* or not, and nothing is stored outside the bytes of output[].            *)
THEOREM KeysAreDecoded ==
  DecodeSpec => []KeyIsDecoded
<1>1. DecodeInv => KeyIsDecoded
  <2> SUFFICES ASSUME DecodeInv
               PROVE  KeyIsDecoded
    OBVIOUS
  <2>1. Len(key) \in Nat
    BY DEF DecodeInv
  <2>2. written \subseteq DOMAIN output
    <3>1. CASE dpc = "idle"
      BY <3>1 DEF DecodeInv
    <3>2. CASE dpc = "groups"
      BY <2>1, <3>2 DEF DecodeInv, Decoded
    <3>3. CASE dpc \in {"tail", "returned"}
      BY <2>1, <3>3 DEF DecodeInv, Decoded
    <3> QED
      BY <3>1, <3>2, <3>3 DEF DecodeInv
  <2>3. ASSUME dpc = "returned"
        PROVE  /\ result.ok <=> key # <<>>
               /\ result.count = Len(key)
               /\ \A k \in DOMAIN output : output[k] = key[k + 1]
    BY <2>3 DEF DecodeInv, Decoded
  <2> QED
    BY <2>2, <2>3 DEF KeyIsDecoded
<1> QED
  BY <1>1, DecodeInvariance, PTL
=============================================================================
