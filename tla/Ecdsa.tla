-------------------------------- MODULE Ecdsa --------------------------------
(***************************************************************************)
(* The points and the signatures of util/uECC.c over a small curve of the  *)
(* form of secp256k1: y^2 = x^3 + B modulo p = 3 mod 4, of prime order     *)
(* n < p with as many bits as p, and no point with x = 0. Field elements   *)
(* are numbers below p (module Vli has the words they are made of). The    *)
(* ladder of EccPoint_mult and the loop of uECC_verify take one action per *)
(* bit of their scalars.                                                   *)
(***************************************************************************)
EXTENDS Integers, FiniteSetsExt

CONSTANTS
  P, N, NBits, B, G,         \* the curve: curve->p, n, num_n_bits, b, G
  PrivateKeys,               \* arguments of uECC_compute_public_key
  Nonces,                    \* values the random number generator returns for k
  InitialZs,                 \* and for the Z of the first point; 1 without one
  Hashes,                    \* message hashes, as numbers
  VerifyKeys,                \* private keys of the public keys that verify
  Rs, Ss,                    \* signatures that did not come from uECC_sign
  MaxTries                   \* uECC_RNG_MAX_TRIES: 64

TwoTo[n \in Nat] == IF n = 0 THEN 1 ELSE 2 * TwoTo[n - 1]
Prime(n) == n > 1 /\ \A d \in 2 .. n - 1 : n % d # 0

ASSUME EcdsaAssumption ==
  /\ NBits \in Nat \ {0} /\ {N, P} \subseteq TwoTo[NBits - 1] .. TwoTo[NBits] - 1
  /\ Prime(N) /\ N % 2 = 1 /\ Prime(P) /\ P % 4 = 3 /\ N < P
  /\ B \in Nat /\ G \in (0 .. P - 1) \X (0 .. P - 1)
  /\ PrivateKeys \cup Nonces \cup Hashes \cup Rs \cup Ss \subseteq 0 .. TwoTo[NBits] - 1
  /\ InitialZs \subseteq 1 .. P - 1 /\ VerifyKeys \subseteq PrivateKeys
  /\ MaxTries \in Nat \ {0}

VARIABLES
  pc,
  private, public, \* the key pair
  hash, tries,     \* of uECC_sign
  k, ladder,       \* the secret multiple, and the locals of EccPoint_mult
  product,         \* its result
  signature,       \* <<r, s>>
  shamir,          \* the locals of uECC_verify
  verdict          \* what it returned

keyVars == <<private, public>>
ecdsaVars == <<pc, private, public, hash, tries, k, ladder, product, signature, shamir, verdict>>

-----------------------------------------------------------------------------
(* The field.                                                              *)
Mod(x) == x % P
InverseModP == [x \in 1 .. P - 1 |-> CHOOSE y \in 1 .. P - 1 : (x * y) % P = 1]
InverseModN == [x \in 1 .. N - 1 |-> CHOOSE y \in 1 .. N - 1 : (x * y) % N = 1]
ModInv(x, inverse) == IF x = 0 THEN 0 ELSE inverse[x]
TestBit(x, bit) == (x \div TwoTo[bit]) % 2
NumBits(x) == IF x = 0 THEN 0 ELSE CHOOSE n \in 1 .. NBits + 2 : x \in TwoTo[n - 1] .. TwoTo[n] - 1

-----------------------------------------------------------------------------
(* Points: <<x, y>>, with (0, 0) for the point at infinity.                *)
IsZero(point) == point = <<0, 0>>

(* apply_z                                                                 *)
ApplyZ(point, z) == <<Mod(point[1] * z * z), Mod(point[2] * Mod(z * z * z))>>

Half(x) == IF x % 2 = 1 THEN (x + P) \div 2 ELSE x \div 2

(* double_jacobian_secp256k1                                               *)
DoubleJacobian(point, z) ==
  LET xyy == Mod(point[1] * Mod(point[2] * point[2]))
      slope == Half(Mod(3 * point[1] * point[1]))
      x3 == Mod(slope * slope - 2 * xyy)
      y3 == Mod(slope * (xyy - x3) - Mod(point[2] * point[2]) * Mod(point[2] * point[2]))
  IN IF z = 0 THEN [point |-> point, z |-> z]
     ELSE [point |-> <<x3, y3>>, z |-> Mod(point[2] * z)]

(* XYcZ_add: P and Q with the same Z become P and P + Q with a new one     *)
XYcZAdd(one, two) ==
  LET square == Mod((two[1] - one[1]) * (two[1] - one[1]))
      x1 == Mod(one[1] * square)
      x2 == Mod(two[1] * square)
      dy == Mod(two[2] - one[2])
      x3 == Mod(dy * dy - x1 - x2)
      y1 == Mod(one[2] * Mod(x2 - x1))
  IN <<<<x1, y1>>, <<x3, Mod(dy * Mod(x1 - x3) - y1)>>>>

(* XYcZ_addC: P - Q and P + Q                                              *)
XYcZAddC(one, two) ==
  LET square == Mod((two[1] - one[1]) * (two[1] - one[1]))
      x1 == Mod(one[1] * square)
      x2 == Mod(two[1] * square)
      sum == Mod(two[2] + one[2])
      dy == Mod(two[2] - one[2])
      y1 == Mod(one[2] * Mod(x2 - x1))
      x3 == Mod(dy * dy - x1 - x2)
      x4 == Mod(sum * sum - x1 - x2)
  IN <<<<x4, Mod(sum * Mod(x4 - x1) - y1)>>, <<x3, Mod(dy * Mod(x1 - x3) - y1)>>>>

(* x_side_secp256k1                                                        *)
XSide(x) == Mod(Mod(Mod(x * x) * x) + B)

(* uECC_valid_point                                                        *)
ValidPoint(point) ==
  /\ ~IsZero(point) /\ point[1] < P /\ point[2] < P
  /\ Mod(point[2] * point[2]) = XSide(point[1])

(* mod_sqrt_default: x to the power of (p + 1) / 4                         *)
ModSqrt(x) ==
  LET bits == NumBits(P + 1)
      Step(a, down) ==
        Mod(Mod(a * a) * (IF TestBit(P + 1, bits - down) = 1 THEN x ELSE 1))
      power[down \in 0 .. bits - 2] ==
        IF down = 0 THEN 1 ELSE Step(power[down - 1], down)
  IN power[bits - 2]

(* uECC_compress, uECC_decompress                                          *)
Compress(point) == <<2 + (point[2] % 2), point[1]>>
Decompress(compressed) ==
  LET y == ModSqrt(XSide(compressed[2]))
  IN <<compressed[2], IF y % 2 # compressed[1] % 2 THEN P - y ELSE y>>

-----------------------------------------------------------------------------
(* The curve's group, as the textbook has it.                              *)
PointAdd(one, two) ==
  LET slope == IF one = two
               THEN Mod(3 * one[1] * one[1]) * ModInv(Mod(2 * one[2]), InverseModP)
               ELSE Mod(two[2] - one[2]) * ModInv(Mod(two[1] - one[1]), InverseModP)
      x == Mod(Mod(slope) * Mod(slope) - one[1] - two[1])
  IN IF IsZero(one) THEN two
     ELSE IF IsZero(two) THEN one
     ELSE IF one[1] = two[1] /\ Mod(one[2] + two[2]) = 0 THEN <<0, 0>>
     ELSE <<x, Mod(Mod(slope) * Mod(one[1] - x) - one[2])>>

(* m * G                                                                   *)
Multiples[m \in 0 .. N - 1] == IF m = 0 THEN <<0, 0>> ELSE PointAdd(Multiples[m - 1], G)
Multiple(m) == Multiples[m % N]
Opposite(point) == <<point[1], P - point[2]>>

(* The multiples of G are points of the curve, none with x = 0, and the    *)
(* group of the numbers modulo n: the mathematics the code is built on.    *)
ASSUME GroupOfG ==
  /\ \A m \in 1 .. N - 1 :
       /\ Multiple(m) \in (1 .. P - 1) \X (1 .. P - 1) /\ ValidPoint(Multiple(m))
       /\ Multiple(N - m) = Opposite(Multiple(m))
  /\ \A l, m \in 0 .. N - 1 : PointAdd(Multiple(l), Multiple(m)) = Multiple(l + m)

-----------------------------------------------------------------------------
(* EccPoint_mult.                                                          *)

(* Mutant: the second addition of n depends on nothing.                    *)
RegularizeKOnce(m) == (m + N) % TwoTo[NBits]

(* regularize_k, and the choice of its callers: k + n or k + 2 * n, the    *)
(* one that has a bit more than n, without this bit.                       *)
RegularizeK(m) ==
  LET k0 == (m + N) % TwoTo[NBits]  carry == (m + N) \div TwoTo[NBits]
  IN IF carry = 1 THEN k0 ELSE (k0 + N) % TwoTo[NBits]

(* XYcZ_initial_double, and num_bits - 2                                   *)
StartLadder(caller, point, m) ==
  \E initial_Z \in InitialZs :
    LET double == DoubleJacobian(ApplyZ(point, initial_Z), initial_Z)
    IN /\ pc' = "ladder" /\ k' = m /\ product' = <<0, 0>>
       /\ ladder' = [caller |-> caller, point |-> point, scalar |-> RegularizeK(m),
                     i |-> NBits - 1,
                     R |-> [j \in 0 .. 1 |-> IF j = 1 THEN double.point
                                             ELSE ApplyZ(point, double.z)]]

LadderBit == 1 - TestBit(ladder.scalar, ladder.i)    \* nb

LadderStep ==
  /\ pc = "ladder" /\ ladder.i > 0
  /\ LET nb == LadderBit
         sums == XYcZAddC(ladder.R[1 - nb], ladder.R[nb])
         next == XYcZAdd(sums[2], sums[1])
     IN ladder' = [ladder EXCEPT !.i = @ - 1, !.R[nb] = next[1], !.R[1 - nb] = next[2]]
  /\ UNCHANGED <<pc, keyVars, hash, tries, k, product, signature, shamir, verdict>>

LadderEnds ==
  /\ pc = "ladder" /\ ladder.i = 0 /\ pc' = "multiplied"
  /\ LET nb == LadderBit
         sums == XYcZAddC(ladder.R[1 - nb], ladder.R[nb])
         dx == IF nb = 1 THEN sums[2][1] - sums[1][1] ELSE sums[1][1] - sums[2][1]
         z == ModInv(Mod(Mod(Mod(dx) * sums[1][2]) * ladder.point[1]), InverseModP)
         next == XYcZAdd(sums[2], sums[1])
     IN product' = ApplyZ(next[1 + nb], Mod(Mod(z * ladder.point[2]) * sums[1][1]))
  /\ UNCHANGED <<keyVars, hash, tries, k, ladder, signature, shamir, verdict>>

-----------------------------------------------------------------------------
(* Keys.                                                                   *)
NoLadder == [caller |-> "none"]
NoShamir == [i |-> -1]

EcdsaInit ==
  /\ pc = "idle" /\ private = 0 /\ public = <<0, 0>> /\ hash = 0 /\ tries = 0 /\ k = 0
  /\ ladder = NoLadder /\ product = <<0, 0>> /\ signature = <<0, 0>>
  /\ shamir = NoShamir /\ verdict = -1

InRange(x) == x # 0 /\ x < N

(* uECC_compute_public_key, up to EccPoint_mult; a key out of range is     *)
(* refused.                                                                *)
ComputePublicKey(d) ==
  /\ pc = "idle" /\ InRange(d)
  /\ private' = d /\ StartLadder("key", G, d)
  /\ UNCHANGED <<public, hash, tries, signature, shamir, verdict>>

(* uECC_generate_random_int(curve->n)                                      *)
Draws(x) == x \in Nonces /\ InRange(x)

(* uECC_make_key, up to EccPoint_mult                                      *)
MakeKey(d) ==
  /\ \/ pc = "idle"
     \/ pc = "multiplied" /\ ladder.caller = "make" /\ IsZero(product)
  /\ tries < MaxTries /\ tries' = tries + 1 /\ Draws(d)
  /\ private' = d /\ StartLadder("make", G, d)
  /\ UNCHANGED <<public, hash, signature, shamir, verdict>>

KeyIsComputed ==
  /\ pc = "multiplied" /\ ladder.caller \in {"key", "make"} /\ ~IsZero(product)
  /\ pc' = "key" /\ public' = product
  /\ tries' = 0 /\ k' = 0 /\ ladder' = NoLadder /\ product' = <<0, 0>>
  /\ UNCHANGED <<private, hash, signature, shamir, verdict>>

(* The key travels in its short form.                                      *)
CompressKey ==
  /\ pc = "key" /\ public' = Decompress(Compress(public))
  /\ UNCHANGED <<pc, private, hash, tries, k, ladder, product, signature, shamir, verdict>>

(* uECC_shared_secret, of the owner of d with this public key: it checks   *)
(* neither. What it is called with are keys that this library has made:    *)
(* EcdsaNext has no other d, and no other public key is left here.         *)
SharedSecret(d) ==
  /\ pc = "key" /\ private \in VerifyKeys
  /\ StartLadder("secret", public, d)
  /\ UNCHANGED <<keyVars, hash, tries, signature, shamir, verdict>>

-----------------------------------------------------------------------------
(* uECC_sign and uECC_sign_with_k.                                         *)
StartSigning(m) ==
  /\ StartLadder("sign", G, m)
  /\ UNCHANGED <<keyVars, signature, shamir, verdict>>

Sign(e, m) ==
  /\ pc = "key" /\ private \in VerifyKeys /\ Draws(m)
  /\ hash' = e /\ tries' = 1 /\ StartSigning(m)

SignAgain(m) ==
  /\ pc = "multiplied" /\ ladder.caller = "sign" /\ product[1] = 0
  /\ tries < MaxTries /\ tries' = tries + 1 /\ Draws(m) /\ StartSigning(m)
  /\ UNCHANGED hash

SignWithK(e, m) ==
  /\ pc = "key" /\ private \in VerifyKeys /\ m \in Nonces /\ InRange(m)
  /\ hash' = e /\ tries' = MaxTries /\ StartSigning(m)

(* Mutant: the carry of the sum is lost.                                   *)
ModAddNNoCarry(x, y) ==
  LET sum == (x + y) % TwoTo[NBits] IN IF sum >= N THEN sum - N ELSE sum

(* uECC_vli_modAdd modulo n, of a hash that may be n or more               *)
ModAddN(x, y) == IF x + y >= N THEN x + y - N ELSE x + y

(* The rest of uECC_sign_with_k_internal: r is not reduced modulo n.       *)
SignatureIsMade ==
  /\ pc = "multiplied" /\ ladder.caller = "sign" /\ product[1] # 0 /\ pc' = "signed"
  /\ \E tmp \in InitialZs :
       LET inverse == (ModInv((k * tmp) % N, InverseModN) * tmp) % N
           e_rd == ModAddN(hash, (private * product[1]) % N)
       IN tmp < N /\ signature' = <<product[1], (e_rd * inverse) % N>>
  /\ ladder' = NoLadder /\ product' = <<0, 0>> /\ tries' = 0
  /\ UNCHANGED <<keyVars, hash, k, shamir, verdict>>

-----------------------------------------------------------------------------
(* uECC_verify.                                                            *)
Index(u1, u2, i) == TestBit(u1, i) + 2 * TestBit(u2, i)

(* points[]                                                                *)
PointOf(index, sum) == IF index = 1 THEN G ELSE IF index = 2 THEN public ELSE sum

(* Mutant: s is not compared with n.                                       *)
AcceptableAnyS(r, s) == InRange(r) /\ s # 0 /\ s % N # 0
Acceptable(r, s) == InRange(r) /\ InRange(s)

(* u1, u2, G + Q, and the first of the points                              *)
StartVerify(e, r, s, own) ==
  LET z == InverseModN[s % N]
      u1 == (e * z) % N  u2 == (r * z) % N
      dz == ModInv(Mod(public[1] - G[1]), InverseModP)
      sum == ApplyZ(XYcZAdd(G, public)[2], dz)
      num_bits == Max({NumBits(u1), NumBits(u2)})
  IN shamir' = [own |-> own, u1 |-> u1, u2 |-> u2, sum |-> sum, i |-> num_bits - 2,
                point |-> PointOf(Index(u1, u2, num_bits - 1), sum), z |-> 1]

Verify(e, r, s, own) ==
  /\ hash' = e /\ signature' = <<r, s>>
  /\ \/ Acceptable(r, s) /\ pc' = "verify" /\ verdict' = -1 /\ StartVerify(e, r, s, own)
     \/ ~Acceptable(r, s) /\ pc' = "verified" /\ verdict' = 0
        /\ shamir' = [own |-> own, i |-> -1]
  /\ UNCHANGED <<keyVars, tries, k, ladder, product>>

VerifyOwn == pc = "signed" /\ Verify(hash, signature[1], signature[2], TRUE)
VerifyOther(e, r, s) == pc = "key" /\ private \in VerifyKeys /\ Verify(e, r, s, FALSE)

VerifyStep ==
  /\ pc = "verify" /\ shamir.i >= 0
  /\ LET double == DoubleJacobian(shamir.point, shamir.z)
         index == Index(shamir.u1, shamir.u2, shamir.i)
         added == ApplyZ(PointOf(index, shamir.sum), double.z)
     IN shamir' =
          IF index = 0
          THEN [shamir EXCEPT !.i = @ - 1, !.point = double.point, !.z = double.z]
          ELSE [shamir EXCEPT !.i = @ - 1,
                              !.point = XYcZAdd(added, double.point)[2],
                              !.z = Mod(double.z * Mod(double.point[1] - added[1]))]
  /\ UNCHANGED <<pc, keyVars, hash, tries, k, ladder, product, signature, verdict>>

VerifyEnds ==
  /\ pc = "verify" /\ shamir.i < 0 /\ pc' = "verified"
  /\ LET rx == ApplyZ(shamir.point, ModInv(shamir.z, InverseModP))[1]
     IN verdict' = IF (IF rx >= N THEN rx - N ELSE rx) = signature[1] THEN 1 ELSE 0
  /\ UNCHANGED <<keyVars, hash, tries, k, ladder, product, signature, shamir>>

(* A call has returned and nothing more is done with what it returned: a   *)
(* key, a secret, a verdict, or 0 for a failure.                           *)
Forget ==
  /\ \/ pc \in {"key", "verified"}
     \/ pc = "multiplied" /\ (ladder.caller = "secret" \/ IsZero(product))
  /\ pc' = "idle" /\ private' = 0 /\ public' = <<0, 0>> /\ hash' = 0 /\ tries' = 0 /\ k' = 0
  /\ ladder' = NoLadder /\ product' = <<0, 0>> /\ signature' = <<0, 0>>
  /\ shamir' = NoShamir /\ verdict' = -1

(* The range of the private keys that uECC_make_key draws and              *)
(* uECC_compute_public_key takes.                                          *)
MadeKeys == {d \in PrivateKeys : InRange(d)}

EcdsaNext ==
  \/ \E d \in PrivateKeys : ComputePublicKey(d) \/ MakeKey(d)
  \/ \E d \in MadeKeys : SharedSecret(d)
  \/ \E e \in Hashes, m \in Nonces : Sign(e, m) \/ SignWithK(e, m)
  \/ \E m \in Nonces : SignAgain(m)
  \/ \E e \in Hashes, r \in Rs, s \in Ss : VerifyOther(e, r, s)
  \/ LadderStep \/ LadderEnds \/ KeyIsComputed \/ CompressKey \/ SignatureIsMade
  \/ VerifyOwn \/ VerifyStep \/ VerifyEnds \/ Forget

Spec == EcdsaInit /\ [][EcdsaNext]_ecdsaVars

-----------------------------------------------------------------------------
(* Properties.                                                             *)

(* The multiples the ladder cannot reach: one of its sums would be of a    *)
(* point and its opposite.                                                 *)
Unreachable == {1, N - 2, N - 1}

(* The bits the ladder has gone through, with the leading one.             *)
Prefix == (TwoTo[NBits] + ladder.scalar) \div TwoTo[ladder.i + 1]

(* The private key of the point that is multiplied.                        *)
BaseLog == IF ladder.caller = "secret" THEN private ELSE 1

(* All along the ladder R0 and R1 are the multiples by the bits so far and *)
(* by one more, over a common Z that is kept nowhere, and EccPoint_mult    *)
(* returns the multiple by k, for every k below n but 1, n - 2 and n - 1:  *)
(* for these three it returns the point at infinity, which its callers     *)
(* refuse, and never a wrong point.                                        *)
LadderIsMultiple ==
  /\ pc = "ladder" /\ k \notin Unreachable =>
       \E z \in 1 .. P - 1 :
         /\ ladder.R[0] = ApplyZ(Multiple(Prefix * BaseLog), z)
         /\ ladder.R[1] = ApplyZ(Multiple((Prefix + 1) * BaseLog), z)
  /\ pc = "multiplied" =>
       product = IF k \in Unreachable THEN <<0, 0>> ELSE Multiple(k * BaseLog)

(* What the standard says of a signature.                                  *)
Genuine ==
  LET r == signature[1]  s == signature[2]  w == InverseModN[s]
      point == Multiple(((hash * w) % N) + ((r * w) % N) * private)
  IN InRange(r) /\ InRange(s) /\ ~IsZero(point) /\ point[1] % N = r

(* The sum of the bits above i, as a multiple of G.                        *)
SumAbove(i) == shamir.u1 \div TwoTo[i + 1] + (shamir.u2 \div TwoTo[i + 1]) * private

(* The loop has added a point to itself or to its opposite, before bit i.  *)
CollidedBefore(i) ==
  \E j \in i .. Max({NumBits(shamir.u1), NumBits(shamir.u2)}) - 2 :
    LET index == Index(shamir.u1, shamir.u2, j)
        added == Multiple((index % 2) + (index \div 2) * private)
    IN j >= 0 /\ index # 0 /\ Multiple(2 * SumAbove(j))[1] = added[1]

(* uECC_verify returns 1 for the signatures the standard accepts and for   *)
(* no others, whatever r, s and hash it is given: the loop keeps the sum   *)
(* of the multiples of its bits. The one exception is on the safe side: a  *)
(* sum that meets the point it is to add makes Z zero, Z stays zero, and   *)
(* the signature is refused.                                               *)
VerifyIsEcdsa ==
  /\ pc = "verify" =>
       IF shamir.z = 0 THEN CollidedBefore(shamir.i + 1)
       ELSE shamir.point = ApplyZ(Multiple(SumAbove(shamir.i)), shamir.z)
  /\ pc = "verified" =>
       (verdict = 1 <=> Genuine /\ ~CollidedBefore(0))

(* A signature that uECC_sign or uECC_sign_with_k made, be the hash n or   *)
(* more, is accepted with the public key, unless its r is n or more or its *)
(* s is 0 (uECC_sign looks at neither) or the loop above collides.         *)
SignedIsAccepted ==
  pc = "verified" /\ shamir.own =>
    verdict = 1 \/ signature[1] >= N \/ signature[2] = 0 \/ CollidedBefore(0)
==============================================================================
