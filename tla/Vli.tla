--------------------------------- MODULE Vli ---------------------------------
(***************************************************************************)
(* The integers of several words of util/uECC.c and the reduction of       *)
(* curve-specific.inc: what a call returns, and uECC_vli_modInv one round  *)
(* of its loop at a time.                                                  *)
(*                                                                         *)
(* An integer is a sequence of words, the low one first.                   *)
(* The board's assembly routines are to return what the C ones do.         *)
(***************************************************************************)
EXTENDS Integers, Sequences, FiniteSetsExt

CONSTANTS
  WordBits,        \* uECC_WORD_BITS: 32
  ByteBits,        \* 8
  NumWords,        \* num_words of the curve: 8
  Omega,           \* the low word of 2^256 - p: 0x3D1
  Order,           \* n
  Operands         \* numbers the operations are called with

(* Power(b)[k] is b to the power of k.                                     *)
Power(b) == LET power[k \in Nat] == IF k = 0 THEN 1 ELSE b * power[k - 1] IN power

Base == Power(2)[WordBits]
Full == Power(Base)[NumWords]

(* secp256k1: p = 2^256 - 2^32 - 0x3D1                                     *)
P == Full - Base - Omega

ASSUME VliAssumption ==
  /\ WordBits \in Nat \ {0} /\ ByteBits \in Nat \ {0} /\ WordBits % ByteBits = 0
  /\ NumWords \in 2 .. Base /\ Omega \in 1 .. Base - 1
  /\ (Base + Omega) * (Base + Omega + 1) < Full
  /\ Order \in Full \div 2 .. Full - 1
  /\ Operands \subseteq 0 .. Full - 1

ASSUME ModuliPrime == \A m \in {P, Order} : \A d \in 2 .. m - 1 : m % d # 0

VARIABLES
  op, left, right, \* the operation called, and with what
  out,             \* what it returned: the words, and a carry or a flag
  ipc, input, mod, \* uECC_vli_modInv: where it is, and its arguments
  a, b, u, v       \* its locals; its result is u

callVars == <<op, left, right, out>>
inverseVars == <<ipc, input, mod, a, b, u, v>>
vliVars == <<op, left, right, out, ipc, input, mod, a, b, u, v>>

Bit(condition) == IF condition THEN 1 ELSE 0

(* Sums(w)[k] is the number in the first k words.                          *)
Sums(w) ==
  LET sum[k \in 0 .. Len(w)] ==
        IF k = 0 THEN 0 ELSE sum[k - 1] + w[k] * Power(Base)[k - 1]
  IN sum
Value(w) == Sums(w)[Len(w)]
Number(x) == [k \in 1 .. NumWords |-> (x \div Power(Base)[k - 1]) % Base]
Zero == Number(0)

-----------------------------------------------------------------------------
(* The operations.                                                         *)
IsZero(w) == \A k \in DOMAIN w : w[k] = 0
Even(w) == w[1] % 2 = 0
Equal(l, r) == \A k \in DOMAIN l : l[k] = r[k]

NumDigits(w) == IF IsZero(w) THEN 0 ELSE Max({k \in DOMAIN w : w[k] # 0})
NumBits(w) ==
  LET digits == NumDigits(w)
  IN IF digits = 0 THEN 0
     ELSE (digits - 1) * WordBits
            + CHOOSE n \in 1 .. WordBits : w[digits] \in Power(2)[n - 1] .. Power(2)[n] - 1

(* uECC_vli_cmp_unsafe                                                     *)
CmpUnsafe(l, r) ==
  LET differ == {k \in DOMAIN l : l[k] # r[k]}
  IN IF differ = {} THEN 0 ELSE IF l[Max(differ)] > r[Max(differ)] THEN 1 ELSE -1

Rshift1(w) ==
  [k \in 1 .. Len(w) |->
     w[k] \div 2 + (IF k < Len(w) THEN (w[k + 1] % 2) * (Base \div 2) ELSE 0)]

(* Mutant: a word that comes out as it went in has no carry.               *)
CarriesAlone(l, r) ==
  LET carry[k \in 0 .. Len(l)] ==
        IF k = 0 THEN 0 ELSE Bit((l[k] + r[k] + carry[k - 1]) % Base < l[k])
  IN carry

(* The carry of each word is told from its sum: one that equals the left   *)
(* word added nothing, or Base, so the carry stays what it was.            *)
Carries(l, r) ==
  LET carry[k \in 0 .. Len(l)] ==
        IF k = 0 THEN 0
        ELSE LET before == carry[k - 1]
                 sum == (l[k] + r[k] + before) % Base
             IN IF sum # l[k] THEN Bit(sum < l[k]) ELSE before
  IN carry

Add(l, r) ==
  LET carry == Carries(l, r)
  IN [words |-> [k \in 1 .. Len(l) |-> (l[k] + r[k] + carry[k - 1]) % Base],
      carry |-> carry[Len(l)]]

Borrows(l, r) ==
  LET borrow[k \in 0 .. Len(l)] ==
        IF k = 0 THEN 0
        ELSE LET before == borrow[k - 1]
                 diff == (l[k] - r[k] - before) % Base
             IN IF diff # l[k] THEN Bit(diff > l[k]) ELSE before
  IN borrow

Sub(l, r) ==
  LET borrow == Borrows(l, r)
  IN [words |-> [k \in 1 .. Len(l) |-> (l[k] - r[k] - borrow[k - 1]) % Base],
      carry |-> borrow[Len(l)]]

(* uECC_vli_cmp                                                            *)
Cmp(l, r) == LET diff == Sub(l, r) IN Bit(~IsZero(diff.words)) - 2 * diff.carry

(* <<r0, r1, r2>> after muladd                                             *)
Muladd(x, y, r) ==
  LET product == x * y
      r01 == (r[2] * Base + r[1] + product) % (Base * Base)
  IN <<r01 % Base, r01 \div Base, (r[3] + Bit(r01 < product)) % Base>>

(* Column k is of the words whose places add up to k.                      *)
Column(l, r, k, start) ==
  LET acc[x \in 0 .. Len(l)] ==
        IF x = 0 THEN start
        ELSE IF k + 1 - x \in 1 .. Len(l) THEN Muladd(l[x], r[k + 1 - x], acc[x - 1])
        ELSE acc[x - 1]
  IN acc[Len(l)]

(* <<r0, r1, r2>> after each column                                        *)
Columns(l, r) ==
  LET acc[k \in 0 .. 2 * Len(l) - 1] ==
        IF k = 0 THEN <<0, 0, 0>>
        ELSE LET before == acc[k - 1] IN Column(l, r, k, <<before[2], before[3], 0>>)
  IN acc

Mult(l, r) ==
  LET acc == Columns(l, r)
  IN [k \in 1 .. 2 * Len(l) |-> IF k < 2 * Len(l) THEN acc[k][1] ELSE acc[k - 1][2]]

(* left < mod and right < mod                                              *)
ModAdd(l, r, m) ==
  LET sum == Add(l, r)
  IN IF sum.carry = 1 \/ CmpUnsafe(m, sum.words) # 1 THEN Sub(sum.words, m).words
     ELSE sum.words

ModSub(l, r, m) ==
  LET diff == Sub(l, r)
  IN IF diff.carry = 1 THEN Add(diff.words, m).words ELSE diff.words

(* m moved up until its highest bit is the highest of 2 * NumWords words   *)
ModMultiple(m, shift) ==
  LET up == shift \div WordBits  by == Power(2)[shift % WordBits]
      At(k) == IF k \in 1 .. Len(m) THEN m[k] ELSE 0
  IN [k \in 1 .. 2 * Len(m) |->
        ((At(k - up) * by) % Base) + (At(k - up - 1) * by) \div Base]

(* The rounds of uECC_vli_mmod: v is v[index].                             *)
Rounds(product, m, shift) ==
  LET round[k \in 0 .. shift + 1] ==
        IF k = 0 THEN [v |-> product, mod_multiple |-> ModMultiple(m, shift)]
        ELSE LET s == round[k - 1]
                 diff == Sub(s.v, s.mod_multiple)
             IN [v |-> IF diff.carry = 1 THEN s.v ELSE diff.words,
                 mod_multiple |-> Rshift1(s.mod_multiple)]
  IN round

Low(w) == SubSeq(w, 1, NumWords)
High(w) == SubSeq(w, NumWords + 1, 2 * NumWords)

Mmod(product, m) ==
  LET shift == 2 * Len(m) * WordBits - NumBits(m)
  IN Low(Rounds(product, m, shift)[shift + 1].v)

ModMult(l, r, m) == Mmod(Mult(l, r), m)

(* omega_mult_secp256k1: (2^32 + 0x3D1) * right                            *)
OmegaCarries(w) ==
  LET carry[k \in 0 .. NumWords] ==
        IF k = 0 THEN 0 ELSE (Omega * w[k] + carry[k - 1]) \div Base
  IN carry

OmegaMult(w) ==
  LET carry == OmegaCarries(w)
      low == [k \in 1 .. NumWords |-> (Omega * w[k] + carry[k - 1]) % Base]
      high == Add([k \in 1 .. NumWords |-> IF k < NumWords THEN low[k + 1] ELSE carry[k]], w)
  IN [k \in 1 .. 2 * NumWords |->
        IF k = 1 THEN low[1] ELSE IF k <= NumWords + 1 THEN high.words[k - 1]
        ELSE IF k = NumWords + 2 THEN high.carry ELSE 0]

(* w less P, count times                                                   *)
LessP(w, count) ==
  LET less[k \in 0 .. count] == IF k = 0 THEN w ELSE Sub(less[k - 1], Number(P)).words
  IN less[count]

(* vli_mmod_fast_secp256k1                                                 *)
MmodFast(product) ==
  LET q == OmegaMult(High(product))
      first == Add(Low(product), Low(q))
      second == Add(first.words, Low(OmegaMult(High(q))))
      carried == LessP(second.words, first.carry + second.carry)
  IN IF CmpUnsafe(carried, Number(P)) > 0 THEN Sub(carried, Number(P)).words ELSE carried

ModMultFast(l, r) == MmodFast(Mult(l, r))

(* Byte strings, with the high byte first.                                 *)
ByteModulus == Power(2)[ByteBits]
BytesPerWord == WordBits \div ByteBits
NumBytes == NumWords * BytesPerWord
ByteOf(w, place) ==
  (w[1 + place \div BytesPerWord] \div Power(ByteModulus)[place % BytesPerWord]) % ByteModulus
NativeToBytes(w) == [k \in 1 .. NumBytes |-> ByteOf(w, NumBytes - k)]
BytesToNative(bytes) ==
  LET At(place) == IF place < Len(bytes) THEN bytes[Len(bytes) - place] ELSE 0
      Word(k) == LET word[j \in 0 .. BytesPerWord] ==
                       IF j = 0 THEN 0
                       ELSE word[j - 1] * ByteModulus + At(k * BytesPerWord - j)
                 IN word[BytesPerWord]
  IN [k \in 1 .. NumWords |-> Word(k)]

(* bits2int: n has as many bits as its words, so that the number is taken  *)
(* as it is, be it n or more.                                              *)
Bits2int(bits) ==
  BytesToNative([k \in 1 .. IF Len(bits) > NumBytes THEN NumBytes ELSE Len(bits) |-> bits[k]])

-----------------------------------------------------------------------------
(* Calls, one at a time.                                                   *)
Returned(words, flag) == [words |-> words, flag |-> flag]

VliInit ==
  /\ op = "none" /\ left = Zero /\ right = Zero /\ out = Returned(Zero, 0)
  /\ ipc = "idle" /\ input = Zero /\ mod = Zero
  /\ a = Zero /\ b = Zero /\ u = Zero /\ v = Zero

Call(name, l, r, result) ==
  /\ op' = name /\ left' = l /\ right' = r /\ out' = result
  /\ UNCHANGED inverseVars

CallArithmetic(l, r) ==
  \/ LET sum == Add(l, r) IN Call("add", l, r, Returned(sum.words, sum.carry))
  \/ LET diff == Sub(l, r) IN Call("sub", l, r, Returned(diff.words, diff.carry))
  \/ Call("mult", l, r, Returned(Mult(l, r), 0))
  \/ Call("cmp", l, r, Returned(Zero, <<Cmp(l, r), CmpUnsafe(l, r), Equal(l, r)>>))

(* left < mod; the hash that is added in uECC_sign is less than 2 * n, and *)
(* what was not reduced is multiplied next.                                *)
CallModular(l, r) ==
  \/ /\ Value(r) < P
     /\ Call("modAdd", l, r, Returned(ModAdd(l, r, Number(P)), 0))
  \/ /\ Value(l) < P /\ Value(r) < P
     /\ \/ Call("modSub", l, r, Returned(ModSub(l, r, Number(P)), 0))
        \/ Call("modMultFast", l, r, Returned(ModMultFast(l, r), 0))
  \/ Call("modMult", l, r, Returned(ModMult(l, r, Number(Order)), 0))

CallBits(w) ==
  \/ Call("rshift1", w, w, Returned(Rshift1(w), NumBits(w)))
  \/ \E size \in NumBytes - 1 .. NumBytes + 1 :
       LET bytes == NativeToBytes(w)
           sent == [k \in 1 .. size |-> IF k <= NumBytes THEN bytes[k] ELSE 1]
       IN Call("bytes", w, w, Returned(Bits2int(sent), size))

CallReturns ==
  /\ op # "none" /\ op' = "none" /\ left' = Zero /\ right' = Zero /\ out' = Returned(Zero, 0)
  /\ UNCHANGED inverseVars

-----------------------------------------------------------------------------
(* uECC_vli_modInv.                                                        *)

(* Mutant: the carry of the sum is not shifted in.                         *)
InvUpdateNoCarry(uv, m) == IF Even(uv) THEN Rshift1(uv) ELSE Rshift1(Add(uv, m).words)

(* vli_modInv_update: uv / 2                                               *)
InvUpdate(uv, m) ==
  IF Even(uv) THEN Rshift1(uv)
  ELSE LET sum == Add(uv, m)
       IN [Rshift1(sum.words) EXCEPT ![NumWords] = @ + sum.carry * (Base \div 2)]

(* u - v, as the loop computes it                                          *)
InvMinus(x, y, m) ==
  Sub(IF CmpUnsafe(x, y) < 0 THEN Add(x, m).words ELSE x, y).words

ModInvCall(x, m) ==
  /\ input' = x /\ mod' = m
  /\ \/ /\ IsZero(x) /\ ipc' = "done"
        /\ a' = Zero /\ b' = Zero /\ u' = Zero /\ v' = Zero
     \/ /\ ~IsZero(x) /\ ipc' = "loop"
        /\ a' = x /\ b' = m /\ u' = Number(1) /\ v' = Zero
  /\ UNCHANGED callVars

InLoop == ipc = "loop" /\ ~Equal(a, b)

HalveA ==
  /\ InLoop /\ Even(a)
  /\ a' = Rshift1(a) /\ u' = InvUpdate(u, mod)
  /\ UNCHANGED <<b, v, ipc, input, mod, callVars>>

HalveB ==
  /\ InLoop /\ ~Even(a) /\ Even(b)
  /\ b' = Rshift1(b) /\ v' = InvUpdate(v, mod)
  /\ UNCHANGED <<a, u, ipc, input, mod, callVars>>

SubtractB ==
  /\ InLoop /\ ~Even(a) /\ ~Even(b) /\ CmpUnsafe(a, b) > 0
  /\ a' = Rshift1(Sub(a, b).words) /\ u' = InvUpdate(InvMinus(u, v, mod), mod)
  /\ UNCHANGED <<b, v, ipc, input, mod, callVars>>

(* Mutant: b - a the wrong way round.                                      *)
SubtractASwapped ==
  /\ InLoop /\ ~Even(a) /\ ~Even(b) /\ CmpUnsafe(a, b) < 0
  /\ b' = Rshift1(Sub(a, b).words) /\ v' = InvUpdate(InvMinus(v, u, mod), mod)
  /\ UNCHANGED <<a, u, ipc, input, mod, callVars>>

SubtractA ==
  /\ InLoop /\ ~Even(a) /\ ~Even(b) /\ CmpUnsafe(a, b) < 0
  /\ b' = Rshift1(Sub(b, a).words) /\ v' = InvUpdate(InvMinus(v, u, mod), mod)
  /\ UNCHANGED <<a, u, ipc, input, mod, callVars>>

LoopEnds ==
  /\ ipc = "loop" /\ Equal(a, b) /\ ipc' = "done"
  /\ UNCHANGED <<a, b, u, v, input, mod, callVars>>

ModInvReturns ==
  /\ ipc = "done" /\ ipc' = "idle"
  /\ input' = Zero /\ mod' = Zero /\ a' = Zero /\ b' = Zero /\ u' = Zero /\ v' = Zero
  /\ UNCHANGED callVars

InverseStep == HalveA \/ HalveB \/ SubtractA \/ SubtractB \/ LoopEnds

VliNext ==
  \/ /\ op = "none" /\ ipc = "idle"
     /\ \/ \E l, r \in Operands : CallArithmetic(Number(l), Number(r))
        \/ \E l, r \in Operands : CallModular(Number(l), Number(r))
        \/ \E x \in Operands : CallBits(Number(x))
        \/ \E x \in Operands, m \in {P, Order} : x < m /\ ModInvCall(Number(x), Number(m))
  \/ CallReturns \/ InverseStep \/ ModInvReturns

VliSpec == VliInit /\ [][VliNext]_vliVars

-----------------------------------------------------------------------------
(* Properties.                                                             *)

(* What the fast reduction adds the halves of a product up to.             *)
Folded(product) ==
  LET q == (Base + Omega) * (product \div Full)
  IN (product % Full) + (q % Full) + (Base + Omega) * (q \div Full)

(* Every operation on words returns the number it stands for, with its     *)
(* carry or borrow: the carry that is told from a wrapped sum, the columns *)
(* of the product, the two reductions. The arithmetic modulo p stays below *)
(* p although the last test of the fast reduction lets p itself pass; a    *)
(* hash that is not below n is still right modulo n. The fast reduction is *)
(* short of 2^256 - p where its sum, less the carry, is still p or more.   *)
ArithmeticExact ==
  LET x == Value(left)  y == Value(right)  z == Value(out.words)
      order == IF x = y THEN 0 ELSE IF x > y THEN 1 ELSE -1
  IN /\ op = "add"  => z + out.flag * Full = x + y
     /\ op = "sub"  => z - out.flag * Full = x - y
     /\ op = "mult" => z = x * y
     /\ op = "cmp"  => out.flag = <<order, order, order = 0>>
     /\ op = "modAdd" => z % P = (x + y) % P /\ (x < P => z < P)
     /\ op = "modSub" => z = (x - y) % P
     /\ op = "modMultFast" =>
          z = IF Folded(x * y) \in Full + P .. 2 * Full - 1
              THEN ((x * y) % P) - (Full - P) ELSE (x * y) % P
     /\ op = "modMult" => z = (x * y) % Order
     /\ op = "rshift1" =>
          /\ z = x \div 2 /\ x < Power(2)[out.flag]
          /\ x > 0 => x >= Power(2)[out.flag - 1]
     /\ op = "bytes" => z = IF out.flag < NumBytes THEN x \div ByteModulus ELSE x

(* uECC_vli_modMult_fast: "Computes result = (left * right) % curve->p."   *)
FastReductionExact ==
  op = "modMultFast" => Value(out.words) = (Value(left) * Value(right)) % P

(* The loop of uECC_vli_modInv keeps u * input = a and v * input = b, with *)
(* u and v below the modulus although their sums need a bit more than the  *)
(* words have, and ends with the inverse; zero has zero.                   *)
InverseLoop ==
  LET x == Value(input)  m == Value(mod)
  IN /\ ipc = "loop" =>
          /\ Value(u) < m /\ Value(v) < m
          /\ (Value(u) * x) % m = Value(a) /\ (Value(v) * x) % m = Value(b) % m
     /\ ipc = "done" =>
          IF x = 0 THEN IsZero(u) ELSE Value(u) < m /\ (Value(u) * x) % m = 1

(* Every round makes a or b smaller and neither becomes zero, so that the  *)
(* loop ends: a = b = 1 is where it must.                                  *)
InverseShrinks ==
  [][ipc = "loop" =>
       IF ipc' = "loop"
       THEN /\ Value(a') + Value(b') < Value(a) + Value(b)
            /\ Value(a') > 0 /\ Value(b') > 0
       ELSE Value(a) = 1]_inverseVars
==============================================================================
