---------------------------- MODULE EcdsaProofs ----------------------------
(***************************************************************************)
(* The points and the signatures of util/uECC.c, for every curve of the    *)
(* form of secp256k1 and all keys, nonces, hashes and signatures.          *)
(*                                                                         *)
(* The one thing taken from mathematics is the assumption GroupOfG of      *)
(* Ecdsa: the multiples of G are a group of order n. All that the code     *)
(* makes of it is proved: its formulas, which avoid every division by      *)
(* keeping points over a Z of their own, are the lines of the textbook     *)
(* over that Z; the ladder keeps two neighbouring multiples and never adds *)
(* a point to itself, save for three scalars, for which it follows a cusp  *)
(* to the point at infinity; the exponent of mod_sqrt_default gives a root *)
(* (by Fermat's theorem); the loop of uECC_verify keeps the sum of its     *)
(* bits until Z is zero. Module Numbers has induction and loops.           *)
(***************************************************************************)
EXTENDS Ecdsa, Numbers, FiniteSetTheorems, TLAPS

(* Numbers that are the same modulo m.                                     *)
Same(a, b, m) == a % m = b % m

(* A number is the same as its remainder.                                  *)
LEMMA SameRest ==
  ASSUME NEW m \in Nat \ {0}, NEW a \in Int
  PROVE  a % m \in 0 .. m - 1 /\ Same(a % m, a, m)
<1>1. a % m \in 0 .. m - 1
  OBVIOUS
<1> DEFINE r == a % m
<1> HIDE DEF r
<1>2. r \in 0 .. m - 1
  BY <1>1 DEF r
<1>3. r % m = r
  BY <1>2
<1> QED
  BY <1>2, <1>3 DEF Same, r

(* Small numbers that are the same are equal.                              *)
LEMMA SameSmall ==
  ASSUME NEW m \in Nat \ {0}, NEW a \in 0 .. m - 1
  PROVE  a % m = a
OBVIOUS

(* Same numbers differ by a multiple.                                      *)
LEMMA SameIs ==
  ASSUME NEW m \in Nat \ {0}, NEW a \in Int, NEW b \in Int
  PROVE  Same(a, b, m) <=> \E q \in Int : a = b + m * q
<1>1. ASSUME Same(a, b, m) PROVE \E q \in Int : a = b + m * q
  <2> DEFINE d == a \div m  e == b \div m  r == b % m
  <2>1. d \in Int /\ e \in Int /\ r \in Int /\ a = m * d + r /\ b = m * e + r
    BY <1>1 DEF Same
  <2> HIDE DEF d, e, r
  <2>2. m * (d - e) = m * d - m * e /\ m * d \in Int /\ m * e \in Int /\ d - e \in Int
    BY <2>1
  <2>3. a = b + m * (d - e)
    BY <2>1, <2>2
  <2> QED
    BY <2>2, <2>3
<1>2. ASSUME NEW q \in Int, a = b + m * q PROVE Same(a, b, m)
  BY <1>2, ModTurns DEF Same
<1> QED
  BY <1>1, <1>2

(* Sums, differences and products of same numbers.                         *)
LEMMA SameOps ==
  ASSUME NEW m \in Nat \ {0}, NEW a \in Int, NEW b \in Int, NEW c \in Int, NEW d \in Int,
         Same(a, c, m), Same(b, d, m)
  PROVE  Same(a + b, c + d, m) /\ Same(a - b, c - d, m) /\ Same(a * b, c * d, m)
<1>1. PICK q \in Int : a = c + m * q
  BY SameIs
<1>2. PICK r \in Int : b = d + m * r
  BY SameIs
<1>3. Same(a + b, c + d, m) /\ Same(a - b, c - d, m)
  <2> DEFINE e == q + r  f == q - r
  <2>1. m * e = m * q + m * r /\ m * f = m * q - m * r /\ e \in Int /\ f \in Int
        /\ m * q \in Int /\ m * r \in Int
    OBVIOUS
  <2> HIDE DEF e, f
  <2>2. a + b = (c + d) + m * e /\ a - b = (c - d) + m * f
    BY <1>1, <1>2, <2>1
  <2>3. a + b \in Int /\ c + d \in Int /\ a - b \in Int /\ c - d \in Int
    OBVIOUS
  <2> QED
    BY <2>1, <2>2, <2>3, SameIs
<1>4. (c + m * q) * (d + m * r) = (c * d) + m * (c * r + q * d + m * (q * r))
  OBVIOUS
<1>5. c * r + q * d + m * (q * r) \in Int /\ c * d \in Int /\ a * b \in Int
  OBVIOUS
<1>6. Same(a * b, c * d, m)
  <2> DEFINE e == c * r + q * d + m * (q * r)
  <2>1. e \in Int /\ a * b = (c * d) + m * e
    BY <1>1, <1>2, <1>4, <1>5
  <2> HIDE DEF e
  <2> QED
    BY <1>5, <2>1, SameIs
<1> QED
  BY <1>3, <1>6

-----------------------------------------------------------------------------
(* Every number but 0 has an inverse modulo a prime.                       *)
LEMMA Invertible ==
  ASSUME NEW m \in Nat, Prime(m), NEW a \in 1 .. m - 1
  PROVE  \E b \in 1 .. m - 1 : (a * b) % m = 1
<1> DEFINE rest(b) == (a * b) % m
           T == {r \in Nat : r > 0 /\ \E b \in Int : rest(b) = r}
<1>0. m > 1 /\ m \in Nat \ {0}
  BY DEF Prime
<1>1. a \in T
  <2>1. a * 1 = a /\ a % m = a
    OBVIOUS
  <2>2. rest(1) = a
    BY <2>1
  <2> HIDE DEF rest
  <2> QED
    BY <2>2
<1>2. T \in SUBSET Nat
  OBVIOUS
<1>3. PICK g \in T : \A r \in T : g <= r
  <2> HIDE DEF T
  <2> QED
    BY <1>1, <1>2, Least
<1>4. PICK b \in Int : (a * b) % m = g
  OBVIOUS
<1>16. g \in Nat /\ g > 0
  OBVIOUS
<1> HIDE DEF T, rest
<1>5. g \in 1 .. m - 1
  <2>1. a * b \in Int
    OBVIOUS
  <2> QED
    BY <1>0, <1>4, <1>16, <2>1
<1> DEFINE q == m \div g
           r == m % g
<1>6. q \in Int /\ r \in 0 .. g - 1 /\ m = g * q + r
  BY <1>5
<1>7. r = m % g /\ r \in Nat
  BY <1>5
<1> HIDE DEF r, q
<1>8. (a * (0 - b * q)) % m = r
  <2>1. Same(a * b, g, m)
    <3>1. g % m = g
      BY <1>5
    <3> QED
      BY <1>4, <3>1 DEF Same
  <2>2. a * b \in Int /\ Same(q, q, m) /\ g \in Int
    BY <1>5 DEF Same
  <2>3. Same((a * b) * q, g * q, m)
    BY <1>0, <1>6, <2>1, <2>2, SameOps
  <2>4. (a * b) * q \in Int /\ g * q \in Int /\ Same(0, 0, m)
    BY <1>6, <2>2 DEF Same
  <2>5. Same(0 - (a * b) * q, 0 - g * q, m)
    BY <1>0, <2>3, <2>4, SameOps
  <2> DEFINE h == 0 - g * q
             f == -1
  <2>6. h \in Int /\ r \in Int /\ f \in Int /\ h = r + m * f
    BY <1>6, <2>4
  <2> HIDE DEF h, f
  <2>7. Same(h, r, m)
    BY <1>0, <2>6, SameIs
  <2>8. r % m = r
    BY <1>5, <1>6
  <2>9. a * (0 - b * q) = 0 - (a * b) * q
    BY <1>6
  <2> QED
    BY <2>5, <2>7, <2>8, <2>9 DEF Same, h
<1>9. r = 0
  <2>1. ASSUME r # 0 PROVE FALSE
    <3> DEFINE d == 0 - b * q
    <3>1. d \in Int /\ rest(d) = r
      BY <1>6, <1>8 DEF rest
    <3> HIDE DEF d
    <3>2. r > 0
      BY <1>7, <2>1
    <3>3. r \in T
      BY <1>7, <3>1, <3>2 DEF T
    <3>4. g <= r
      BY <1>3, <3>3
    <3>5. r < g
      BY <1>5, <1>6
    <3> QED
      BY <1>7, <1>16, <3>4, <3>5
  <2> QED
    BY <2>1
<1>10. g = 1
  BY <1>5, <1>7, <1>9 DEF Prime
<1> DEFINE c == b % m
<1>11. c \in 0 .. m - 1 /\ Same(c, b, m)
  BY <1>0, SameRest
<1> HIDE DEF c
<1>12. Same(a * c, a * b, m)
  <2>1. Same(a, a, m) /\ a \in Int /\ c \in Int
    BY <1>11 DEF Same
  <2> QED
    BY <1>0, <1>11, <2>1, SameOps
<1>13. (a * c) % m = 1
  BY <1>4, <1>10, <1>12 DEF Same
<1>14. c # 0
  <2>1. a * 0 = 0 /\ 0 % m = 0
    BY <1>0
  <2> QED
    BY <1>13, <2>1
<1> QED
  BY <1>11, <1>13, <1>14

(* What may be divided by.                                                 *)
LEMMA Cancel ==
  ASSUME NEW m \in Nat, Prime(m), NEW a \in Int, NEW b \in Int, NEW c \in Int,
         ~Same(c, 0, m), Same(c * a, c * b, m)
  PROVE  Same(a, b, m)
<1>0. m \in Nat \ {0}
  BY DEF Prime
<1> DEFINE d == c % m
<1>1. d \in 0 .. m - 1 /\ Same(d, c, m)
  BY <1>0, SameRest
<1> HIDE DEF d
<1>2. d # 0
  <2>1. 0 % m = 0
    BY <1>0
  <2> QED
    BY <1>1, <2>1 DEF Same
<1> HIDE DEF d
<1>3. PICK e \in 1 .. m - 1 : (d * e) % m = 1
  <2>1. d \in 1 .. m - 1
    BY <1>1, <1>2
  <2> QED
    BY <2>1, Invertible
<1>4. ASSUME NEW x \in Int PROVE Same(e * (c * x), x, m)
  <2>1. Same(e, e, m) /\ Same(x, x, m)
    BY DEF Same
  <2>2. Same(d * e, c * e, m)
    BY <1>0, <1>1, <2>1, SameOps
  <2>3. Same(d * e, 1, m)
    <3>1. 1 % m = 1
      BY DEF Prime
    <3> QED
      BY <1>3, <3>1 DEF Same
  <2>4. Same(c * e, 1, m) /\ c * e \in Int
    BY <2>2, <2>3 DEF Same
  <2>5. Same((c * e) * x, 1 * x, m)
    BY <1>0, <2>1, <2>4, SameOps
  <2>6. (c * e) * x = e * (c * x) /\ 1 * x = x
    OBVIOUS
  <2> QED
    BY <2>5, <2>6
<1>5. c * a \in Int /\ c * b \in Int /\ Same(e, e, m)
  BY DEF Same
<1>6. Same(e * (c * a), e * (c * b), m)
  BY <1>0, <1>5, SameOps
<1> QED
  BY <1>4, <1>6 DEF Same

(* A product is no multiple unless a factor is.                            *)
LEMMA NoZeroDivisors ==
  ASSUME NEW m \in Nat, Prime(m), NEW a \in Int, NEW b \in Int,
         ~Same(a, 0, m), ~Same(b, 0, m)
  PROVE  ~Same(a * b, 0, m)
<1>1. SUFFICES ASSUME Same(a * b, 0, m) PROVE Same(b, 0, m)
  OBVIOUS
<1>2. Same(a * b, a * 0, m)
  BY <1>1
<1> QED
  BY <1>2, Cancel

(* Numbers that stand for the same field element.                          *)
a \cong b == Mod(a) = Mod(b)

(* What the assumptions say of the field.                                  *)
LEMMA FieldIs ==
  /\ P \in Nat \ {0} /\ P > 2 /\ Prime(P) /\ P % 2 = 1
  /\ N \in Nat \ {0} /\ N > 2 /\ Prime(N) /\ N % 2 = 1 /\ N < P
  /\ Mod(0) = 0 /\ Mod(1) = 1
<1>1. N \in Int /\ P \in Int
  <2>1. N \in TwoTo[NBits - 1] .. TwoTo[NBits] - 1 /\ P \in TwoTo[NBits - 1] .. TwoTo[NBits] - 1
    BY EcdsaAssumption
  <2> QED
    BY <2>1
<1>2. Prime(N) /\ N % 2 = 1 /\ Prime(P) /\ P % 4 = 3 /\ N < P
  BY EcdsaAssumption
<1>3. N > 1 /\ P > 1
  BY <1>2 DEF Prime
<1>4. N > 2 /\ P > 2
  BY <1>1, <1>2, <1>3
<1>5. P % 2 = 1
  BY <1>1, <1>2, <1>4
<1>6. 0 % P = 0 /\ 1 % P = 1
  <2> DEFINE o == 0  e == 1
  <2>1. o \in 0 .. P - 1 /\ e \in 0 .. P - 1 /\ P \in Nat \ {0}
    BY <1>1, <1>4
  <2> HIDE DEF o, e
  <2>2. o % P = o /\ e % P = e
    BY <2>1, SameSmall
  <2> QED
    BY <2>2 DEF o, e
<1> QED
  BY <1>1, <1>2, <1>4, <1>5, <1>6 DEF Mod

(* A number and its field element.                                         *)
LEMMA ModIs ==
  ASSUME NEW a \in Int
  PROVE  Mod(a) \in 0 .. P - 1 /\ Mod(a) \in Int /\ Mod(a) \cong a
<1>1. a % P \in 0 .. P - 1 /\ Same(a % P, a, P)
  BY FieldIs, SameRest
<1> QED
  BY <1>1 DEF Mod, Same, \cong

(* Small numbers are their own remainders.                                 *)
LEMMA ModSmall ==
  ASSUME NEW a \in 0 .. P - 1
  PROVE  Mod(a) = a
BY FieldIs, SameSmall DEF Mod

(* The ring.                                                               *)
LEMMA CongOps ==
  ASSUME NEW a \in Int, NEW b \in Int, NEW c \in Int, NEW d \in Int, a \cong c, b \cong d
  PROVE  a + b \cong c + d /\ a - b \cong c - d /\ a * b \cong c * d
<1>1. Same(a, c, P) /\ Same(b, d, P)
  BY DEF \cong, Same, Mod
<1>2. Same(a + b, c + d, P) /\ Same(a - b, c - d, P) /\ Same(a * b, c * d, P)
  BY <1>1, FieldIs, SameOps
<1> QED
  BY <1>2 DEF \cong, Same, Mod

(* A number stands for what it stands for.                                 *)
LEMMA CongSelf ==
  ASSUME NEW a PROVE a \cong a
BY DEF \cong

(* Equality of field elements is transitive.                               *)
LEMMA CongChain ==
  ASSUME NEW a, NEW b, NEW c, a \cong b, b \cong c
  PROVE  a \cong c
BY DEF \cong

(* CongOps for a sum, with its type.                                       *)
LEMMA CongPlus ==
  ASSUME NEW a \in Int, NEW b \in Int, NEW c \in Int, NEW d \in Int, a \cong c, b \cong d
  PROVE  a + b \in Int /\ c + d \in Int /\ a + b \cong c + d
BY CongOps

(* CongOps for a difference, with its type.                                *)
LEMMA CongMinus ==
  ASSUME NEW a \in Int, NEW b \in Int, NEW c \in Int, NEW d \in Int, a \cong c, b \cong d
  PROVE  a - b \in Int /\ c - d \in Int /\ a - b \cong c - d
BY CongOps

(* CongOps for a product, with its type.                                   *)
LEMMA CongTimes ==
  ASSUME NEW a \in Int, NEW b \in Int, NEW c \in Int, NEW d \in Int, a \cong c, b \cong d
  PROVE  a * b \in Int /\ c * d \in Int /\ a * b \cong c * d
BY CongOps

(* A factor that is not zero cancels.                                      *)
LEMMA CongCancel ==
  ASSUME NEW a \in Int, NEW b \in Int, NEW c \in Int, Mod(c) # 0, c * a \cong c * b
  PROVE  a \cong b
<1>1. ~Same(c, 0, P) /\ Same(c * a, c * b, P)
  BY FieldIs DEF \cong, Same, Mod
<1>2. Same(a, b, P)
  BY <1>1, FieldIs, Cancel
<1> QED
  BY <1>2 DEF \cong, Same, Mod

(* A product is zero only when a factor is.                                *)
LEMMA NonZeroTimes ==
  ASSUME NEW a \in Int, NEW b \in Int, Mod(a) # 0, Mod(b) # 0
  PROVE  Mod(a * b) # 0
<1>1. ~Same(a, 0, P) /\ ~Same(b, 0, P)
  BY FieldIs DEF Same, Mod
<1>2. ~Same(a * b, 0, P)
  BY <1>1, FieldIs, NoZeroDivisors
<1> QED
  BY <1>2, FieldIs DEF Same, Mod

(* A point and its line with a slope: the third point on it, mirrored.     *)
Line(one, two, s) ==
  LET x == s * s - one[1] - two[1]
  IN <<Mod(x), Mod(s * (one[1] - x) - one[2])>>

(* XYcZ_add, over any field element: its Z is the difference of the x.     *)
LEMMA XYcZAddIs ==
  ASSUME NEW x1 \in Int, NEW y1 \in Int, NEW x2 \in Int, NEW y2 \in Int, NEW s \in Int,
         s * (x2 - x1) \cong y2 - y1
  PROVE  LET one == <<x1, y1>>  two == <<x2, y2>>
         IN XYcZAdd(one, two)
              = <<ApplyZ(one, x2 - x1), ApplyZ(Line(one, two, s), x2 - x1)>>
<1> DEFINE t == x2 - x1
           tt == t * t
           ttt == t * t * t
           square == Mod(tt)
           X1 == Mod(x1 * square)
           X2 == Mod(x2 * square)
           e == y2 - y1
           dy == Mod(e)
           x3 == Mod(dy * dy - X1 - X2)
           Y1 == Mod(y1 * Mod(X2 - X1))
           y3 == Mod(dy * Mod(X1 - x3) - Y1)
           l == s * s - x1 - x2
           lx == Mod(l)
           m == s * (x1 - l) - y1
           ly == Mod(m)
<1>1. /\ t \in Int /\ tt \in Int /\ ttt \in Int /\ e \in Int /\ l \in Int /\ m \in Int
      /\ s * t \in Int /\ s * t \cong e /\ t * tt = ttt
  OBVIOUS
<1>2. XYcZAdd(<<x1, y1>>, <<x2, y2>>) = <<<<X1, Y1>>, <<x3, y3>>>>
  BY DEF XYcZAdd
<1>3. ApplyZ(<<x1, y1>>, t) = <<Mod(x1 * t * t), Mod(y1 * Mod(ttt))>>
  BY DEF ApplyZ
<1>4. ApplyZ(Line(<<x1, y1>>, <<x2, y2>>, s), t) = <<Mod(lx * t * t), Mod(ly * Mod(ttt))>>
  BY DEF ApplyZ, Line
<1>5. square \in Int /\ square \cong tt
  BY <1>1, ModIs
<1>6. /\ X1 \in Int /\ X1 \cong x1 * tt /\ x1 * tt \in Int
      /\ X2 \in Int /\ X2 \cong x2 * tt /\ x2 * tt \in Int
  <2> HIDE DEF square, tt
  <2>1. x1 * square \in Int /\ x1 * tt \in Int /\ x2 * square \in Int /\ x2 * tt \in Int
    BY <1>1, <1>5
  <2>2. x1 * square \cong x1 * tt /\ x2 * square \cong x2 * tt
    BY <1>1, <1>5, CongSelf, CongTimes
  <2> QED
    BY <2>1, <2>2, ModIs DEF \cong
<1>7. dy \in Int /\ dy \cong s * t
  BY <1>1, ModIs DEF \cong
<1>8. dy * dy \in Int /\ dy * dy \cong (s * t) * (s * t) /\ (s * t) * (s * t) \in Int
  <2> HIDE DEF dy, t
  <2> QED
    BY <1>1, <1>7, CongMinus, CongTimes, CongSelf, CongPlus
<1>9. X1 + X2 \in Int /\ X1 + X2 \cong x1 * tt + x2 * tt /\ x1 * tt + x2 * tt \in Int
  <2> HIDE DEF X1, X2, tt
  <2> QED
    BY <1>6, CongMinus, CongTimes, CongSelf, CongPlus
<1>10. dy * dy - (X1 + X2) \cong (s * t) * (s * t) - (x1 * tt + x2 * tt)
  <2> HIDE DEF X1, X2, tt, dy, t
  <2> QED
    BY <1>8, <1>9, CongMinus, CongTimes, CongSelf, CongPlus
<1>11. (s * t) * (s * t) - (x1 * tt + x2 * tt) = l * tt
  OBVIOUS
<1>12. x3 \in Int /\ x3 \cong l * tt /\ l * tt \in Int
  <2>1. dy * dy - (X1 + X2) = dy * dy - X1 - X2 /\ dy * dy - X1 - X2 \in Int
    <3> HIDE DEF dy, X1, X2
    <3> QED
      BY <1>6, <1>7
  <2>2. l * tt \in Int
    BY <1>1
  <2> HIDE DEF dy, X1, X2, l, tt
  <2> QED
    BY <1>10, <1>11, <2>1, <2>2, ModIs DEF \cong
<1>13. X2 - X1 \cong ttt /\ X2 - X1 \in Int
  <2>1. x2 * tt - x1 * tt = ttt
    OBVIOUS
  <2> HIDE DEF X1, X2, tt, ttt
  <2>2. X2 - X1 \cong x2 * tt - x1 * tt
    BY <1>6, CongMinus, CongTimes, CongSelf, CongPlus
  <2> QED
    BY <1>6, <2>1, <2>2
<1>14. Mod(X2 - X1) = Mod(ttt) /\ Mod(ttt) \in Int /\ Mod(ttt) \cong ttt
  BY <1>1, <1>13, ModIs DEF \cong
<1>15. X1 = Mod(x1 * t * t)
  <2>1. x1 * t * t = x1 * tt
    OBVIOUS
  <2> HIDE DEF X1, tt
  <2>2. Mod(X1) = X1
    <3>1. X1 \in 0 .. P - 1
      <4>1. x1 * square \in Int
        BY <1>5
      <4> QED
        BY <4>1, ModIs DEF X1
    <3> QED
      BY <3>1, ModSmall
  <2> QED
    BY <1>6, <2>1, <2>2 DEF \cong
<1>16. x3 = Mod(lx * t * t)
  <2>1. lx \in Int /\ lx \cong l
    BY <1>1, ModIs
  <2>2. lx * tt \cong l * tt
    <3> HIDE DEF lx, l, tt
    <3> QED
      BY <1>1, <2>1, CongSelf, CongTimes
  <2>3. lx * t * t = lx * tt
    <3> HIDE DEF lx
    <3> QED
      BY <2>1
  <2>4. Mod(x3) = x3
    <3>1. dy * dy - X1 - X2 \in Int
      <4> HIDE DEF dy, X1, X2
      <4> QED
        BY <1>6, <1>7
    <3> HIDE DEF dy, X1, X2
    <3>2. x3 \in 0 .. P - 1
      BY <3>1, ModIs
    <3> QED
      BY <3>2, ModSmall
  <2> HIDE DEF x3, lx, tt
  <2> QED
    BY <1>12, <2>2, <2>3, <2>4 DEF \cong
<1>17. y3 = Mod(ly * Mod(ttt))
  <2> HIDE DEF X1, X2, x3, dy, tt, t, ttt, l, m, Y1
  <2>1. X1 - x3 \cong x1 * tt - l * tt /\ X1 - x3 \in Int /\ x1 * tt - l * tt \in Int
    BY <1>6, <1>12, CongMinus, CongTimes, CongSelf, CongPlus
  <2>2. Mod(X1 - x3) \in Int /\ Mod(X1 - x3) \cong x1 * tt - l * tt
    BY <2>1, ModIs DEF \cong
  <2>3. dy * Mod(X1 - x3) \in Int /\ (s * t) * (x1 * tt - l * tt) \in Int
        /\ dy * Mod(X1 - x3) \cong (s * t) * (x1 * tt - l * tt)
    BY <1>1, <1>7, <2>1, <2>2, CongMinus, CongTimes, CongSelf, CongPlus
  <2>4. Y1 \in Int /\ Y1 \cong y1 * ttt /\ y1 * ttt \in Int
    <3>1. y1 * Mod(X2 - X1) \in Int /\ y1 * ttt \in Int
      BY <1>1, <1>14
    <3>2. Mod(X2 - X1) \cong ttt
      BY <1>14
    <3>3. y1 * Mod(X2 - X1) \cong y1 * ttt
      BY <1>1, <1>14, <3>2, CongSelf, CongTimes
    <3> QED
      BY <3>1, <3>3, ModIs DEF Y1, \cong
  <2>5. dy * Mod(X1 - x3) - Y1 \cong (s * t) * (x1 * tt - l * tt) - y1 * ttt
    BY <2>3, <2>4, CongMinus, CongTimes, CongSelf, CongPlus
  <2>6. (s * t) * (x1 * tt - l * tt) - y1 * ttt = m * ttt
    <3>1. l \in Int
      BY <1>1
    <3> QED
      BY <3>1 DEF tt, ttt, m, t
  <2>7. ly \in Int /\ ly \cong m
    BY <1>1, ModIs
  <2> HIDE DEF ly
  <2>8. ly * Mod(ttt) \cong m * ttt
    BY <1>1, <1>14, <2>7, CongMinus, CongTimes, CongSelf, CongPlus
  <2> QED
    BY <2>5, <2>6, <2>8 DEF \cong
<1>18. Y1 = Mod(y1 * Mod(ttt))
  BY <1>14
<1> HIDE DEF X1, X2, x3, y3, Y1, lx, ly, ttt
<1>19. ApplyZ(<<x1, y1>>, t) = <<X1, Y1>>
       /\ ApplyZ(Line(<<x1, y1>>, <<x2, y2>>, s), t) = <<x3, y3>>
  BY <1>3, <1>4, <1>15, <1>16, <1>17, <1>18
<1> QED
  BY <1>2, <1>19

(* XYcZ_addC: the difference comes from the opposite of the second point.  *)
LEMMA XYcZAddCIs ==
  ASSUME NEW x1 \in Int, NEW y1 \in Int, NEW x2 \in Int, NEW y2 \in Int
  PROVE  XYcZAddC(<<x1, y1>>, <<x2, y2>>)
           = <<XYcZAdd(<<x1, y1>>, <<x2, -y2>>)[2], XYcZAdd(<<x1, y1>>, <<x2, y2>>)[2]>>
<1> DEFINE square == Mod((x2 - x1) * (x2 - x1))
           X1 == Mod(x1 * square)
           X2 == Mod(x2 * square)
           sum == Mod(y2 + y1)
           dy == Mod(y2 - y1)
           ndy == Mod((-y2) - y1)
           Y1 == Mod(y1 * Mod(X2 - X1))
           x3 == Mod(dy * dy - X1 - X2)
           x4 == Mod(sum * sum - X1 - X2)
           xn == Mod(ndy * ndy - X1 - X2)
           y4 == Mod(sum * Mod(x4 - X1) - Y1)
           yn == Mod(ndy * Mod(X1 - xn) - Y1)
           y3 == Mod(dy * Mod(X1 - x3) - Y1)
<1>1. XYcZAddC(<<x1, y1>>, <<x2, y2>>) = <<<<x4, y4>>, <<x3, y3>>>>
  BY DEF XYcZAddC
<1>2. XYcZAdd(<<x1, y1>>, <<x2, y2>>) = <<<<X1, Y1>>, <<x3, y3>>>>
  BY DEF XYcZAdd
<1>3. XYcZAdd(<<x1, y1>>, <<x2, -y2>>) = <<<<X1, Y1>>, <<xn, yn>>>>
  BY DEF XYcZAdd
<1>4. square \in Int
  BY ModIs
<1> HIDE DEF square
<1>5. X1 \in Int /\ X2 \in Int
  <2>1. x1 * square \in Int /\ x2 * square \in Int
    BY <1>4
  <2> QED
    BY <2>1, ModIs
<1> HIDE DEF X1, X2
<1>6. Y1 \in Int
  <2>1. X2 - X1 \in Int
    BY <1>5
  <2>2. Mod(X2 - X1) \in Int
    BY <2>1, ModIs
  <2>3. y1 * Mod(X2 - X1) \in Int
    BY <2>2
  <2> QED
    BY <2>3, ModIs
<1> HIDE DEF Y1
<1> DEFINE e == y2 + y1
           ne == (-y2) - y1
<1>7. e \in Int /\ ne \in Int /\ ne = -e
  OBVIOUS
<1>8. sum \in Int /\ sum \cong e /\ ndy \in Int /\ ndy \cong ne
  <2> HIDE DEF e, ne
  <2> QED
    BY <1>7, ModIs DEF e, ne
<1>9. sum * sum \in Int /\ sum * sum \cong ndy * ndy /\ ndy * ndy \in Int
  <2> HIDE DEF sum, ndy, e, ne
  <2>1. sum * sum \cong e * e /\ ndy * ndy \cong ne * ne
    BY <1>7, <1>8, CongTimes
  <2>2. e * e = ne * ne
    BY <1>7
  <2>3. sum * sum \cong ndy * ndy
    BY <2>1, <2>2 DEF \cong
  <2> QED
    BY <1>8, <2>3
<1>10. x4 = xn
  <2> HIDE DEF sum, ndy
  <2>1. sum * sum - X1 \cong ndy * ndy - X1 /\ sum * sum - X1 \in Int /\ ndy * ndy - X1 \in Int
    BY <1>5, <1>9, CongSelf, CongMinus
  <2>2. sum * sum - X1 - X2 \cong ndy * ndy - X1 - X2
    BY <1>5, <2>1, CongSelf, CongMinus
  <2> QED
    BY <2>2 DEF \cong
<1>11. xn \in Int
  <2> HIDE DEF ndy
  <2>1. ndy * ndy - X1 - X2 \in Int
    BY <1>5, <1>9
  <2> QED
    BY <2>1, ModIs
<1>12. y4 = yn
  <2> HIDE DEF sum, ndy, xn
  <2> DEFINE f == xn - X1
             g == X1 - xn
  <2>1. f \in Int /\ g \in Int /\ f = -g
    BY <1>5, <1>11
  <2>2. Mod(f) \in Int /\ Mod(f) \cong f /\ Mod(g) \in Int /\ Mod(g) \cong g
    <3> HIDE DEF f, g
    <3> QED
      BY <2>1, ModIs
  <2> HIDE DEF f, g, e, ne
  <2>3. sum * Mod(f) \in Int /\ sum * Mod(f) \cong e * f
    BY <1>7, <1>8, <2>1, <2>2, CongTimes
  <2>4. ndy * Mod(g) \in Int /\ ndy * Mod(g) \cong ne * g
    BY <1>7, <1>8, <2>1, <2>2, CongTimes
  <2>5. e * f = ne * g
    BY <1>7, <2>1
  <2>6. sum * Mod(f) \cong ndy * Mod(g)
    BY <2>3, <2>4, <2>5 DEF \cong
  <2>7. sum * Mod(f) - Y1 \cong ndy * Mod(g) - Y1
    BY <1>6, <2>3, <2>4, <2>6, CongSelf, CongMinus
  <2>8. y4 = Mod(sum * Mod(f) - Y1) /\ yn = Mod(ndy * Mod(g) - Y1)
    BY <1>10 DEF f, g
  <2> QED
    BY <2>7, <2>8 DEF \cong
<1> HIDE DEF x4, y4, x3, y3, xn, yn
<1> QED
  BY <1>1, <1>2, <1>3, <1>10, <1>12

(* Half of a number, and twice that.                                       *)
LEMMA HalfIs ==
  ASSUME NEW x \in 0 .. P - 1
  PROVE  Half(x) \in Int /\ 2 * Half(x) \cong x
<1>1. CASE x % 2 = 1
  <2> DEFINE h == (x + P) \div 2
  <2>1. P % 2 = 1 /\ P \in Nat
    BY FieldIs
  <2>2. h \in Int /\ 2 * h = x + P
    BY <1>1, <2>1
  <2>3. Half(x) = h
    BY <1>1 DEF Half
  <2> HIDE DEF h
  <2>4. x + P \cong x + 0
    <3>1. P \cong 0
      <4>1. P % P = 0
        BY FieldIs
      <4> QED
        BY <4>1, FieldIs DEF \cong, Mod
    <3> QED
      <4> DEFINE o == 0
      <4>1. x \in Int /\ P \in Int /\ x \cong x /\ o \in Int /\ P \cong o
        BY <2>1, <3>1, CongSelf
      <4> HIDE DEF o
      <4>2. x + P \cong x + o
        BY <2>1, <4>1, CongPlus
      <4> QED
        BY <4>2 DEF o
  <2>5. x + 0 = x
    OBVIOUS
  <2> QED
    BY <2>2, <2>3, <2>4, <2>5
<1>2. CASE x % 2 # 1
  <2> DEFINE h == x \div 2
  <2>1. h \in Int /\ 2 * h = x
    BY <1>2
  <2>2. Half(x) = h
    BY <1>2 DEF Half
  <2> QED
    BY <2>1, <2>2, CongSelf
<1> QED
  BY <1>1, <1>2

(* double_jacobian_secp256k1: the tangent, over Y and Z.                   *)
LEMMA DoubleIs ==
  ASSUME NEW x1 \in Int, NEW y1 \in Int, NEW s \in Int, NEW z \in Int, z # 0,
         s * (2 * y1) \cong 3 * x1 * x1
  PROVE  DoubleJacobian(<<x1, y1>>, z)
           = [point |-> ApplyZ(Line(<<x1, y1>>, <<x1, y1>>, s), y1), z |-> Mod(y1 * z)]
<1> DEFINE yy == y1 * y1
           yyy == y1 * y1 * y1
           xyy == Mod(x1 * Mod(yy))
           three == 3 * x1 * x1
           slope == Half(Mod(three))
           x3 == Mod(slope * slope - 2 * xyy)
           y3 == Mod(slope * (xyy - x3) - Mod(yy) * Mod(yy))
           l == s * s - x1 - x1
           lx == Mod(l)
           m == s * (x1 - l) - y1
           ly == Mod(m)
           sy == s * y1
<1>1. /\ yy \in Int /\ yyy \in Int /\ three \in Int /\ l \in Int /\ m \in Int /\ sy \in Int
      /\ s * (2 * y1) = 2 * sy
  OBVIOUS
<1>2. DoubleJacobian(<<x1, y1>>, z) = [point |-> <<x3, y3>>, z |-> Mod(y1 * z)]
  BY DEF DoubleJacobian
<1>3. ApplyZ(Line(<<x1, y1>>, <<x1, y1>>, s), y1) = <<Mod(lx * y1 * y1), Mod(ly * Mod(yyy))>>
  BY DEF ApplyZ, Line
<1>4. Mod(yy) \in Int /\ Mod(yy) \cong yy
  BY <1>1, ModIs
<1>5. xyy \in Int /\ xyy \cong x1 * yy /\ x1 * yy \in Int
  <2> HIDE DEF yy
  <2>1. x1 * Mod(yy) \in Int /\ x1 * yy \in Int /\ x1 * Mod(yy) \cong x1 * yy
    BY <1>1, <1>4, CongSelf, CongTimes
  <2> QED
    BY <2>1, ModIs, CongChain
<1>6. slope \in Int /\ slope \cong sy
  <2> HIDE DEF three, sy
  <2>1. Mod(three) \in 0 .. P - 1 /\ Mod(three) \cong three
    BY <1>1, ModIs
  <2>2. slope \in Int /\ 2 * slope \cong Mod(three)
    BY <2>1, HalfIs
  <2> HIDE DEF slope
  <2>3. 2 * slope \cong 2 * sy
    <3>1. 2 * sy \cong three
      BY <1>1 DEF three
    <3> QED
      BY <2>1, <2>2, <3>1 DEF \cong
  <2>4. Mod(2) # 0
    BY FieldIs, ModSmall
  <2> QED
    BY <1>1, <2>2, <2>3, <2>4, CongCancel
<1> HIDE DEF slope, xyy, three
<1>7. slope * slope - 2 * xyy \in Int /\ slope * slope - 2 * xyy \cong l * yy /\ l * yy \in Int
  <2>1. sy * sy - 2 * (x1 * yy) = l * yy
    OBVIOUS
  <2>2. l * yy \in Int
    BY <1>1
  <2> HIDE DEF sy, l, yy
  <2>3. slope * slope \cong sy * sy /\ slope * slope \in Int /\ sy * sy \in Int
    BY <1>1, <1>6, CongTimes
  <2>4. 2 * xyy \cong 2 * (x1 * yy) /\ 2 * xyy \in Int /\ 2 * (x1 * yy) \in Int
    <3>1. 2 \cong 2 /\ 2 \in Int
      BY CongSelf
    <3> DEFINE a == x1 * yy
    <3> HIDE DEF a
    <3>2. a \in Int /\ xyy \cong a
      BY <1>5 DEF a
    <3>3. 2 * xyy \cong 2 * a /\ 2 * xyy \in Int /\ 2 * a \in Int
      BY <1>5, <3>1, <3>2, CongTimes
    <3> QED
      BY <3>3 DEF a
  <2>5. slope * slope - 2 * xyy \cong sy * sy - 2 * (x1 * yy)
    BY <2>3, <2>4, CongMinus
  <2> QED
    BY <2>1, <2>2, <2>3, <2>4, <2>5
<1>8. x3 \in Int /\ x3 \cong l * yy /\ x3 = Mod(l * yy)
  <2> HIDE DEF l, yy
  <2> QED
    BY <1>7, ModIs, CongChain DEF \cong
<1>9. x3 = Mod(lx * y1 * y1)
  <2>1. lx \in Int /\ lx \cong l
    BY <1>1, ModIs
  <2> HIDE DEF lx, l, x3
  <2>2. lx * y1 * y1 = lx * yy
    BY <2>1
  <2> HIDE DEF yy
  <2>3. lx * yy \cong l * yy
    BY <1>1, <2>1, CongSelf, CongTimes
  <2> QED
    BY <1>8, <2>2, <2>3 DEF \cong
<1> HIDE DEF x3
<1>10. y3 = Mod(ly * Mod(yyy))
  <2>1. sy * (x1 * yy - l * yy) - yy * yy = m * yyy
    OBVIOUS
  <2>2. ly \in Int /\ ly \cong m /\ Mod(yyy) \in Int /\ Mod(yyy) \cong yyy
    BY <1>1, ModIs
  <2> HIDE DEF sy, l, m, ly, yy, yyy
  <2>3. xyy - x3 \cong x1 * yy - l * yy /\ xyy - x3 \in Int /\ x1 * yy - l * yy \in Int
    BY <1>5, <1>7, <1>8, CongMinus
  <2>4. /\ slope * (xyy - x3) \cong sy * (x1 * yy - l * yy)
        /\ slope * (xyy - x3) \in Int /\ sy * (x1 * yy - l * yy) \in Int
    BY <1>1, <1>6, <2>3, CongTimes
  <2>5. Mod(yy) * Mod(yy) \cong yy * yy /\ Mod(yy) * Mod(yy) \in Int /\ yy * yy \in Int
    BY <1>1, <1>4, CongTimes
  <2>6. slope * (xyy - x3) - Mod(yy) * Mod(yy) \cong sy * (x1 * yy - l * yy) - yy * yy
    BY <2>4, <2>5, CongMinus
  <2>7. ly * Mod(yyy) \cong m * yyy
    BY <1>1, <2>2, CongTimes
  <2> QED
    BY <2>1, <2>6, <2>7 DEF \cong
<1> HIDE DEF y3, lx, ly
<1> QED
  BY <1>2, <1>3, <1>9, <1>10

-----------------------------------------------------------------------------
(* One Z over another is their product.                                    *)
LEMMA ApplyZTwice ==
  ASSUME NEW x \in Int, NEW y \in Int, NEW z \in Int, NEW t \in Int
  PROVE  /\ ApplyZ(<<x, y>>, z) \in (0 .. P - 1) \X (0 .. P - 1)
         /\ ApplyZ(ApplyZ(<<x, y>>, z), t) = ApplyZ(<<x, y>>, z * t)
<1> DEFINE zz == z * z
           zzz == z * z * z
           tt == t * t
           ttt == t * t * t
           zt == z * t
           x1 == Mod(x * z * z)
           y1 == Mod(y * Mod(zzz))
<1>1. /\ zz \in Int /\ zzz \in Int /\ tt \in Int /\ ttt \in Int /\ zt \in Int
      /\ x * z * z = x * zz /\ x * zz \in Int /\ y * zzz \in Int
  OBVIOUS
<1>2. Mod(zzz) \in Int /\ Mod(zzz) \cong zzz /\ Mod(ttt) \in Int /\ Mod(ttt) \cong ttt
  BY <1>1, ModIs
<1>3. x1 \in 0 .. P - 1 /\ x1 \in Int /\ x1 \cong x * zz
  <2> HIDE DEF zz
  <2> QED
    BY <1>1, ModIs
<1>4. y1 \in 0 .. P - 1 /\ y1 \in Int /\ y1 \cong y * zzz
  <2> HIDE DEF zzz
  <2>1. y * Mod(zzz) \in Int /\ y * Mod(zzz) \cong y * zzz
    BY <1>1, <1>2, CongSelf, CongTimes
  <2> QED
    BY <2>1, ModIs, CongChain
<1>5. ApplyZ(<<x, y>>, z) = <<x1, y1>>
  BY DEF ApplyZ
<1> HIDE DEF x1, y1
<1>6. ApplyZ(<<x1, y1>>, t) = <<Mod(x1 * t * t), Mod(y1 * Mod(ttt))>>
  BY DEF ApplyZ
<1>7. ApplyZ(<<x, y>>, zt) = <<Mod(x * zt * zt), Mod(y * Mod(zt * zt * zt))>>
  BY DEF ApplyZ
<1>8. Mod(x1 * t * t) = Mod(x * zt * zt)
  <2>1. x1 * t * t = x1 * tt /\ x * zt * zt = (x * zz) * tt
    BY <1>3
  <2> HIDE DEF zz, tt, zt
  <2>2. x1 * tt \cong (x * zz) * tt
    BY <1>1, <1>3, CongSelf, CongTimes
  <2> QED
    BY <2>1, <2>2 DEF \cong
<1>9. Mod(y1 * Mod(ttt)) = Mod(y * Mod(zt * zt * zt))
  <2> DEFINE ztt == zt * zt * zt
  <2>1. ztt \in Int /\ y * ztt = (y * zzz) * ttt
    BY <1>1
  <2> HIDE DEF zzz, ttt, ztt
  <2>2. y1 * Mod(ttt) \cong (y * zzz) * ttt
    BY <1>1, <1>2, <1>4, CongTimes
  <2>3. Mod(ztt) \in Int /\ Mod(ztt) \cong ztt
    BY <2>1, ModIs
  <2>4. y * Mod(ztt) \cong y * ztt
    BY <2>1, <2>3, CongSelf, CongTimes
  <2> QED
    BY <2>1, <2>2, <2>4 DEF \cong, ztt
<1> QED
  BY <1>3, <1>4, <1>5, <1>6, <1>7, <1>8, <1>9

(* Only the field element of Z matters.                                    *)
LEMMA ApplyZSame ==
  ASSUME NEW x \in Int, NEW y \in Int, NEW z \in Int, NEW t \in Int, z \cong t
  PROVE  ApplyZ(<<x, y>>, z) = ApplyZ(<<x, y>>, t)
<1>1. ApplyZ(<<x, y>>, z) = <<Mod(x * z * z), Mod(y * Mod(z * z * z))>>
  BY DEF ApplyZ
<1>2. ApplyZ(<<x, y>>, t) = <<Mod(x * t * t), Mod(y * Mod(t * t * t))>>
  BY DEF ApplyZ
<1>3. z * z \in Int /\ t * t \in Int /\ z * z \cong t * t
  BY CongTimes
<1>4. (z * z) * z \cong (t * t) * t
  BY <1>3, CongTimes
<1>5. Mod(z * z * z) = Mod(t * t * t)
  BY <1>4 DEF \cong
<1>6. x * (z * z) \cong x * (t * t)
  BY <1>3, CongSelf, CongTimes
<1>7. x * z * z = x * (z * z) /\ x * t * t = x * (t * t)
  OBVIOUS
<1>8. Mod(x * z * z) = Mod(x * t * t)
  BY <1>6, <1>7 DEF \cong
<1> QED
  BY <1>1, <1>2, <1>5, <1>8

(* The line of two points over a Z is their line over it.                  *)
LEMMA LineOverZ ==
  ASSUME NEW x1 \in Int, NEW y1 \in Int, NEW x2 \in Int, NEW y2 \in Int, NEW s \in Int,
         NEW z \in Int
  PROVE  Line(ApplyZ(<<x1, y1>>, z), ApplyZ(<<x2, y2>>, z), s * z)
           = ApplyZ(Line(<<x1, y1>>, <<x2, y2>>, s), z)
<1> DEFINE zz == z * z
           zzz == z * z * z
           u == s * z
           X1 == Mod(x1 * z * z)
           Y1 == Mod(y1 * Mod(zzz))
           X2 == Mod(x2 * z * z)
           Y2 == Mod(y2 * Mod(zzz))
           l == s * s - x1 - x2
           lx == Mod(l)
           m == s * (x1 - l) - y1
           ly == Mod(m)
           k1 == u * u - X1 - X2
           k2 == u * (X1 - k1) - Y1
<1>1. /\ zz \in Int /\ zzz \in Int /\ u \in Int /\ l \in Int /\ m \in Int
      /\ x1 * z * z = x1 * zz /\ x1 * zz \in Int /\ x2 * z * z = x2 * zz /\ x2 * zz \in Int
  OBVIOUS
<1>2. ApplyZ(<<x1, y1>>, z) = <<X1, Y1>> /\ ApplyZ(<<x2, y2>>, z) = <<X2, Y2>>
  BY DEF ApplyZ
<1>3. Line(<<X1, Y1>>, <<X2, Y2>>, u) = <<Mod(k1), Mod(k2)>>
  BY DEF Line
<1>4. ApplyZ(Line(<<x1, y1>>, <<x2, y2>>, s), z) = <<Mod(lx * z * z), Mod(ly * Mod(zzz))>>
  BY DEF Line, ApplyZ
<1>5. Mod(zzz) \in Int /\ Mod(zzz) \cong zzz
  BY <1>1, ModIs
<1>6. X1 \in Int /\ X1 \cong x1 * zz /\ X2 \in Int /\ X2 \cong x2 * zz
  <2> HIDE DEF zz
  <2> QED
    BY <1>1, ModIs
<1>7. Y1 \in Int /\ Y1 \cong y1 * zzz /\ y1 * zzz \in Int
  <2> HIDE DEF zzz
  <2>1. y1 * Mod(zzz) \in Int /\ y1 * Mod(zzz) \cong y1 * zzz /\ y1 * zzz \in Int
    BY <1>1, <1>5, CongSelf, CongTimes
  <2> QED
    BY <2>1, ModIs, CongChain
<1>8. lx \in Int /\ lx \cong l /\ ly \in Int /\ ly \cong m
  BY <1>1, ModIs
<1> HIDE DEF X1, Y1, X2, Y2, lx, ly
<1>9. k1 \in Int /\ k1 \cong l * zz /\ l * zz \in Int
  <2>1. u * u - x1 * zz - x2 * zz = l * zz
    OBVIOUS
  <2>2. u * u \in Int /\ l * zz \in Int
    BY <1>1
  <2> HIDE DEF u, l, zz
  <2>3. /\ u * u - X1 \in Int /\ u * u - x1 * zz \in Int
        /\ u * u - X1 \cong u * u - x1 * zz
    BY <1>1, <1>6, <2>2, CongSelf, CongMinus
  <2>4. (u * u - X1) - X2 \cong (u * u - x1 * zz) - x2 * zz /\ (u * u - X1) - X2 \in Int
    BY <1>1, <1>6, <2>3, CongMinus
  <2> QED
    BY <2>1, <2>2, <2>4
<1>10. Mod(k1) = Mod(lx * z * z)
  <2>1. lx * z * z = lx * zz
    BY <1>8
  <2> HIDE DEF k1, l, zz
  <2>2. lx * zz \cong l * zz
    BY <1>1, <1>8, CongSelf, CongTimes
  <2> QED
    BY <1>9, <2>1, <2>2 DEF \cong
<1>11. Mod(k2) = Mod(ly * Mod(zzz))
  <2>1. u * (x1 * zz - l * zz) - y1 * zzz = m * zzz
    OBVIOUS
  <2> HIDE DEF k1, u, zz, zzz, l, m
  <2>2. X1 - k1 \cong x1 * zz - l * zz /\ X1 - k1 \in Int /\ x1 * zz - l * zz \in Int
    BY <1>1, <1>6, <1>9, CongMinus
  <2>3. /\ u * (X1 - k1) \cong u * (x1 * zz - l * zz)
        /\ u * (X1 - k1) \in Int /\ u * (x1 * zz - l * zz) \in Int
    BY <1>1, <2>2, CongSelf, CongTimes
  <2>4. k2 \cong u * (x1 * zz - l * zz) - y1 * zzz
    BY <1>7, <2>3, CongMinus
  <2>5. ly * Mod(zzz) \cong m * zzz
    BY <1>1, <1>5, <1>8, CongTimes
  <2> QED
    BY <2>1, <2>4, <2>5 DEF \cong
<1> HIDE DEF k1, k2, u
<1> QED
  BY <1>2, <1>3, <1>4, <1>10, <1>11 DEF u

(* The inverses of the two fields.                                         *)
LEMMA InverseIs ==
  /\ \A x \in 1 .. P - 1 : InverseModP[x] \in 1 .. P - 1 /\ Mod(x * InverseModP[x]) = 1
  /\ \A x \in 1 .. N - 1 : InverseModN[x] \in 1 .. N - 1 /\ (x * InverseModN[x]) % N = 1
<1>1. ASSUME NEW m \in Nat, Prime(m), NEW x \in 1 .. m - 1
      PROVE  LET y == CHOOSE y \in 1 .. m - 1 : (x * y) % m = 1
             IN y \in 1 .. m - 1 /\ (x * y) % m = 1
  <2>1. \E y \in 1 .. m - 1 : (x * y) % m = 1
    BY <1>1, Invertible
  <2> DEFINE rest(y) == (x * y) % m
             T == 1 .. m - 1
  <2>2. \E y \in T : rest(y) = 1
    BY <2>1
  <2> HIDE DEF rest, T
  <2>3. LET y == CHOOSE y \in T : rest(y) = 1 IN y \in T /\ rest(y) = 1
    BY <2>2
  <2> QED
    BY <2>3 DEF rest, T
<1>2. ASSUME NEW x \in 1 .. P - 1
      PROVE  InverseModP[x] \in 1 .. P - 1 /\ Mod(x * InverseModP[x]) = 1
  <2> DEFINE y == CHOOSE y \in 1 .. P - 1 : (x * y) % P = 1
  <2>1. InverseModP[x] = y
    BY DEF InverseModP
  <2>2. y \in 1 .. P - 1 /\ (x * y) % P = 1
    BY <1>1, FieldIs
  <2> HIDE DEF y
  <2> QED
    BY <2>1, <2>2 DEF Mod
<1>3. ASSUME NEW x \in 1 .. N - 1
      PROVE  InverseModN[x] \in 1 .. N - 1 /\ (x * InverseModN[x]) % N = 1
  <2> DEFINE y == CHOOSE y \in 1 .. N - 1 : (x * y) % N = 1
  <2>1. InverseModN[x] = y
    BY DEF InverseModN
  <2>2. y \in 1 .. N - 1 /\ (x * y) % N = 1
    BY <1>1, FieldIs
  <2> HIDE DEF y
  <2> QED
    BY <2>1, <2>2
<1> QED
  BY <1>2, <1>3

(* Different field elements have a difference.                             *)
LEMMA DifferenceIs ==
  ASSUME NEW a \in 0 .. P - 1, NEW c \in 0 .. P - 1, a # c
  PROVE  Mod(c - a) # 0
<1> SUFFICES ASSUME Mod(c - a) = 0 PROVE FALSE
  OBVIOUS
<1> DEFINE d == c - a
           o == 0
<1>1. d \in Int /\ a \in Int /\ o \in Int /\ d + a = c /\ o + a = a
  OBVIOUS
<1>2. d \cong o /\ a \cong a
  BY FieldIs DEF \cong
<1> HIDE DEF d, o
<1>3. d + a \cong o + a
  BY <1>1, <1>2, CongPlus
<1>4. Mod(c) = c /\ Mod(a) = a
  BY ModSmall
<1> QED
  BY <1>1, <1>3, <1>4 DEF \cong

(* The textbook's formula is the line's third point.                       *)
LEMMA LineIs ==
  ASSUME NEW a \in Int, NEW b \in Int, NEW c \in Int, NEW d \in Int, NEW s \in Int
  PROVE  LET x == Mod(Mod(s) * Mod(s) - a - c)
         IN Line(<<a, b>>, <<c, d>>, s) = <<x, Mod(Mod(s) * Mod(a - x) - b)>>
<1> DEFINE l == s * s - a - c
           x == Mod(Mod(s) * Mod(s) - a - c)
           f == a - x
<1>1. s * s \in Int /\ l \in Int /\ Mod(s) \in Int /\ Mod(s) \cong s
  BY ModIs
<1>2. x = Mod(l)
  <2>1. Mod(s) * Mod(s) \cong s * s /\ Mod(s) * Mod(s) \in Int
    BY <1>1, CongTimes
  <2>2. Mod(s) * Mod(s) - a \cong s * s - a /\ Mod(s) * Mod(s) - a \in Int /\ s * s - a \in Int
    BY <1>1, <2>1, CongSelf, CongMinus
  <2>3. Mod(s) * Mod(s) - a - c \cong s * s - a - c
    BY <2>2, CongSelf, CongMinus
  <2> QED
    BY <2>3 DEF \cong
<1>3. x \in Int /\ x \cong l
  <2> HIDE DEF l
  <2> QED
    BY <1>1, <1>2, ModIs
<1> HIDE DEF x, l
<1>4. f \in Int /\ f \cong a - l /\ a - l \in Int
  BY <1>1, <1>3, CongSelf, CongMinus
<1>5. Mod(f) \in Int /\ Mod(f) \cong a - l
  BY <1>4, ModIs DEF \cong
<1> HIDE DEF f
<1>6. /\ Mod(s) * Mod(f) \cong s * (a - l)
      /\ Mod(s) * Mod(f) \in Int /\ s * (a - l) \in Int
  BY <1>1, <1>4, <1>5, CongTimes
<1>7. Mod(s) * Mod(f) - b \cong s * (a - l) - b
  BY <1>6, CongSelf, CongMinus
<1>8. Line(<<a, b>>, <<c, d>>, s) = <<Mod(l), Mod(s * (a - l) - b)>>
  BY DEF Line, l
<1> QED
  BY <1>2, <1>7, <1>8 DEF \cong, x, f

(* What uECC_vli_modInv returns.                                           *)
LEMMA ModInvIs ==
  ASSUME NEW d \in Int
  PROVE  /\ ModInv(Mod(d), InverseModP) \in 0 .. P - 1
         /\ Mod(d) = 0 => ModInv(Mod(d), InverseModP) = 0
         /\ Mod(d) # 0 => d * ModInv(Mod(d), InverseModP) \cong 1
<1>1. CASE Mod(d) = 0
  BY <1>1, FieldIs DEF ModInv
<1>2. CASE Mod(d) # 0
  <2> DEFINE v == InverseModP[Mod(d)]
  <2>1. Mod(d) \in 1 .. P - 1 /\ Mod(d) \in Int /\ Mod(d) \cong d
    BY <1>2, ModIs
  <2>2. v \in 1 .. P - 1 /\ Mod(Mod(d) * v) = 1 /\ ModInv(Mod(d), InverseModP) = v
    BY <1>2, <2>1, InverseIs DEF ModInv
  <2> HIDE DEF v
  <2>3. d \cong Mod(d) /\ v \cong v /\ v \in Int
    BY <2>1, <2>2 DEF \cong
  <2>4. d * v \cong Mod(d) * v
    BY <2>1, <2>3, CongTimes
  <2>5. d * v \cong 1
    BY <2>2, <2>4, FieldIs DEF \cong
  <2> QED
    BY <1>2, <2>2, <2>5
<1> QED
  BY <1>1, <1>2

(* An inverse is a number.                                                 *)
LEMMA ModInvIn ==
  ASSUME NEW d \in Int
  PROVE  ModInv(Mod(d), InverseModP) \in Int
BY ModInvIs

(* A quotient.                                                             *)
LEMMA QuotientIs ==
  ASSUME NEW e \in Int, NEW d \in Int, Mod(d) # 0
  PROVE  LET s == Mod(e) * ModInv(Mod(d), InverseModP)
         IN s \in Int /\ s * d \cong e
<1> DEFINE v == ModInv(Mod(d), InverseModP)
           i == 1
<1>1. v \in Int /\ d * v \cong i /\ i \in Int /\ d * v \in Int
  BY ModInvIs
<1>3. Mod(e) \in Int /\ Mod(e) \cong e
  BY ModIs
<1> HIDE DEF v, i
<1>7. Mod(e) * (d * v) \cong e * i
  BY <1>1, <1>3, CongTimes
<1>8. Mod(e) * (d * v) = (Mod(e) * v) * d /\ e * i = e /\ Mod(e) * v \in Int
  BY <1>1, <1>3 DEF i
<1> QED
  BY <1>7, <1>8 DEF v

-----------------------------------------------------------------------------
(* A multiple that is not the point at infinity.                           *)
NotZero(m) == ~Same(m, 0, N)

(* What a sum of points is made of.                                        *)
Places == Int \X Int

(* PointAdd gives pairs of numbers.                                        *)
LEMMA PointAddIn ==
  ASSUME NEW s \in Places
  PROVE  PointAdd(s, G) \in Places
<1>1. PICK a \in Int, b \in Int : s = <<a, b>>
  BY DEF Places
<1>2. PICK c \in Int, d \in Int : G = <<c, d>>
  BY EcdsaAssumption
<1> DEFINE slope == IF s = G THEN Mod(3 * a * a) * ModInv(Mod(2 * b), InverseModP)
                    ELSE Mod(d - b) * ModInv(Mod(c - a), InverseModP)
           x == Mod(Mod(slope) * Mod(slope) - a - c)
           y == Mod(Mod(slope) * Mod(a - x) - b)
<1>3. slope \in Int
  <2>1. Mod(3 * a * a) \in Int /\ Mod(d - b) \in Int
    BY ModIs, 3 * a * a \in Int, d - b \in Int
  <2>2. ModInv(Mod(2 * b), InverseModP) \in Int /\ ModInv(Mod(c - a), InverseModP) \in Int
    BY ModInvIn, 2 * b \in Int, c - a \in Int
  <2> QED
    BY <2>1, <2>2
<1> HIDE DEF slope
<1>4. Mod(slope) \in Int
  BY <1>3, ModIs
<1>5. x \in Int
  <2>1. Mod(slope) * Mod(slope) - a - c \in Int
    BY <1>4
  <2> QED
    BY <2>1, ModIs
<1> HIDE DEF x
<1>6. y \in Int
  <2>1. a - x \in Int
    BY <1>5
  <2>2. Mod(a - x) \in Int
    BY <2>1, ModIs
  <2>3. Mod(slope) * Mod(a - x) - b \in Int
    BY <1>4, <2>2
  <2> QED
    BY <2>3, ModIs
<1> HIDE DEF y
<1>7. PointAdd(s, G) \in {G, s, <<0, 0>>, <<x, y>>}
  BY <1>1, <1>2 DEF PointAdd, IsZero, x, y, slope
<1> QED
  BY <1>1, <1>2, <1>5, <1>6, <1>7 DEF Places

MultiplesOf(f) ==
  f = [m \in 0 .. N - 1 |-> IF m = 0 THEN <<0, 0>> ELSE PointAdd(f[m - 1], G)]

(* The first multiples.                                                    *)
LEMMA MultiplesIs ==
  /\ Multiple(0) = <<0, 0>>
  /\ Multiple(1) = G
<1> DEFINE n == N - 1
           step == [m \in 1 .. n |-> [s \in Places |-> PointAdd(s, G)]]
           zero == <<0, 0>>
<1>1. n \in Nat /\ n >= 1 /\ zero \in Places
  BY FieldIs DEF Places
<1>2. step \in [1 .. n -> [Places -> Places]]
  BY PointAddIn
<1>3. ASSUME NEW f \in [0 .. n -> Places], Loops(f, n, zero, step)
      PROVE  MultiplesOf(f)
  <2>1. ASSUME NEW m \in 0 .. n
        PROVE  f[m] = IF m = 0 THEN zero ELSE PointAdd(f[m - 1], G)
    <3>1. CASE m = 0
      BY <1>3, <3>1 DEF Loops
    <3>2. CASE m # 0
      <4>1. m \in 1 .. n /\ m - 1 \in 0 .. n
        BY <1>1, <3>2
      <4>2. f[m] = step[m][f[m - 1]]
        BY <1>3, <4>1 DEF Loops
      <4> QED
        BY <3>2, <4>1, <4>2
    <3> QED
      BY <3>1, <3>2
  <2>2. f = [m \in 0 .. n |-> f[m]]
    OBVIOUS
  <2> QED
    BY <2>1, <2>2 DEF MultiplesOf
<1> HIDE DEF step
<1>4. \E f : MultiplesOf(f)
  <2> HIDE DEF n, zero
  <2> QED
    BY <1>1, <1>2, <1>3, LoopExists
<1>5. MultiplesOf(Multiples)
  <2>1. MultiplesOf(CHOOSE f : MultiplesOf(f))
    BY <1>4
  <2>2. Multiples = CHOOSE f : MultiplesOf(f)
    BY DEF Multiples, MultiplesOf
  <2> QED
    BY <2>1, <2>2
<1> DEFINE h == Multiples
<1> HIDE DEF h
<1>6. h = [m \in 0 .. N - 1 |-> IF m = 0 THEN <<0, 0>> ELSE PointAdd(h[m - 1], G)]
  BY <1>5 DEF MultiplesOf, h
<1>7. h[0] = <<0, 0>> /\ h[1] = PointAdd(h[0], G)
  BY <1>1, <1>6
<1>8. PointAdd(<<0, 0>>, G) = G
  BY DEF PointAdd, IsZero
<1>9. 0 % N = 0 /\ 1 % N = 1
  BY FieldIs
<1> QED
  BY <1>7, <1>8, <1>9 DEF Multiple, h

(* A multiple depends on the remainder.                                    *)
LEMMA MultipleSame ==
  ASSUME NEW l \in Int, NEW m \in Int, Same(l, m, N)
  PROVE  Multiple(l) = Multiple(m)
BY DEF Multiple, Same

(* A multiple of G is that of the remainder modulo n.                      *)
LEMMA MultipleRest ==
  ASSUME NEW m \in Int
  PROVE  m % N \in 0 .. N - 1 /\ Multiple(m) = Multiple(m % N)
<1>1. m % N \in 0 .. N - 1 /\ Same(m % N, m, N)
  BY FieldIs, SameRest
<1> HIDE DEF Multiple
<1> DEFINE r == m % N
<1> HIDE DEF r
<1>2. r \in 0 .. N - 1 /\ Same(r, m, N) /\ r \in Int
  BY <1>1 DEF r
<1> QED
  BY <1>2, MultipleSame DEF r

(* A scalar that is not a multiple of n has a remainder.                   *)
LEMMA NotZeroRest ==
  ASSUME NEW m \in Int
  PROVE  NotZero(m) <=> m % N \in 1 .. N - 1
<1>1. m % N \in 0 .. N - 1 /\ 0 % N = 0
  <2>1. m % N \in 0 .. N - 1
    BY FieldIs, SameRest
  <2>2. 0 % N = 0
    BY FieldIs
  <2> QED
    BY <2>1, <2>2
<1> QED
  BY <1>1 DEF NotZero, Same

(* The group.                                                              *)
LEMMA MultiplePlus ==
  ASSUME NEW l \in Int, NEW m \in Int
  PROVE  PointAdd(Multiple(l), Multiple(m)) = Multiple(l + m)
<1> DEFINE a == l % N  b == m % N
<1>1. a \in 0 .. N - 1 /\ b \in 0 .. N - 1 /\ Same(a, l, N) /\ Same(b, m, N)
  BY FieldIs, SameRest
<1>2. Multiple(l) = Multiple(a) /\ Multiple(m) = Multiple(b)
  BY MultipleRest
<1> HIDE DEF a, b
<1>3. PointAdd(Multiple(a), Multiple(b)) = Multiple(a + b)
  BY <1>1, GroupOfG
<1>4. Same(a + b, l + m, N) /\ a + b \in Int /\ l + m \in Int
  BY <1>1, FieldIs, SameOps
<1>5. Multiple(a + b) = Multiple(l + m)
  BY <1>4, MultipleSame
<1> QED
  BY <1>2, <1>3, <1>5

(* A multiple is a point of the curve, and the opposite multiple the       *)
(* opposite point.                                                         *)
LEMMA MultipleIs ==
  ASSUME NEW m \in Int, NotZero(m)
  PROVE  /\ Multiple(m) \in (1 .. P - 1) \X (1 .. P - 1)
         /\ ValidPoint(Multiple(m))
         /\ Multiple(-m) = Opposite(Multiple(m))
<1> DEFINE r == m % N
<1>1. r \in 1 .. N - 1 /\ Same(r, m, N) /\ Multiple(m) = Multiple(r)
  BY NotZeroRest, FieldIs, SameRest, MultipleRest
<1> HIDE DEF r
<1>2. /\ Multiple(r) \in (1 .. P - 1) \X (1 .. P - 1)
      /\ ValidPoint(Multiple(r)) /\ Multiple(N - r) = Opposite(Multiple(r))
  BY <1>1, GroupOfG
<1>3. Same(N - r, -m, N)
  <2> DEFINE n == N  o == 0
  <2>1. Same(n, o, N) /\ n \in Int /\ o \in Int /\ r \in Int
    <3>1. N % N = 0 /\ 0 % N = 0
      BY FieldIs
    <3> QED
      BY <1>1, <3>1, FieldIs DEF Same
  <2> HIDE DEF n, o
  <2>2. Same(n - r, o - m, N)
    BY <1>1, <2>1, FieldIs, SameOps
  <2>3. o - m = -m
    BY DEF o
  <2> QED
    BY <2>2, <2>3 DEF n
<1>4. Multiple(N - r) = Multiple(-m)
  <2>1. N - r \in Int /\ -m \in Int
    BY <1>1, FieldIs
  <2> QED
    BY <1>3, <2>1, MultipleSame
<1> QED
  BY <1>1, <1>2, <1>4

(* Only a multiple of the order is the point at infinity.                  *)
LEMMA MultipleZero ==
  ASSUME NEW m \in Int
  PROVE  Multiple(m) = <<0, 0>> <=> ~NotZero(m)
<1>1. ASSUME NotZero(m) PROVE Multiple(m) # <<0, 0>>
  BY <1>1, MultipleIs
<1>2. ASSUME ~NotZero(m) PROVE Multiple(m) = <<0, 0>>
  BY <1>2, MultipleSame, MultiplesIs DEF NotZero
<1> QED
  BY <1>1, <1>2

(* Equal multiples are of the same numbers.                                *)
LEMMA MultipleInjective ==
  ASSUME NEW l \in Int, NEW m \in Int, NotZero(l), NotZero(m), Multiple(l) = Multiple(m)
  PROVE  Same(l, m, N)
<1>1. Multiple(-l) = Multiple(-m) /\ -l \in Int /\ -m \in Int
  BY MultipleIs
<1>2. Multiple(m + (-l)) = Multiple(m + (-m))
  BY <1>1, MultiplePlus
<1>3. m + (-m) = 0 /\ m + (-l) = m - l /\ m - l \in Int
  OBVIOUS
<1>4. ~NotZero(m - l)
  BY <1>2, <1>3, MultipleZero, MultiplesIs
<1> DEFINE d == m - l
           o == 0
<1>5. Same(d, o, N) /\ d \in Int /\ o \in Int /\ Same(l, l, N) /\ d + l = m /\ o + l = l
  BY <1>3, <1>4 DEF NotZero, Same
<1> HIDE DEF d, o
<1>6. Same(d + l, o + l, N)
  BY <1>5, FieldIs, SameOps
<1> QED
  BY <1>5, <1>6 DEF Same

(* Points with the same x are equal or opposite.                           *)
LEMMA SameX ==
  ASSUME NEW l \in Int, NEW m \in Int, NotZero(l), NotZero(m)
  PROVE  Multiple(l)[1] = Multiple(m)[1] <=> Same(l, m, N) \/ ~NotZero(l + m)
<1> DEFINE x1 == Multiple(l)[1]  y1 == Multiple(l)[2]
           x2 == Multiple(m)[1]  y2 == Multiple(m)[2]
<1>1. /\ Multiple(l) = <<x1, y1>> /\ Multiple(m) = <<x2, y2>>
      /\ x1 \in 1 .. P - 1 /\ y1 \in 1 .. P - 1 /\ x2 \in 1 .. P - 1 /\ y2 \in 1 .. P - 1
      /\ Mod(y1 * y1) = XSide(x1) /\ Mod(y2 * y2) = XSide(x2)
      /\ Multiple(-l) = <<x1, P - y1>>
  BY MultipleIs DEF ValidPoint, Opposite
<1> HIDE DEF x1, y1, x2, y2
<1>2. ~NotZero(l + m) <=> Same(m, -l, N)
  <2> DEFINE s == l + m  o == 0  n == -l
  <2>1. s \in Int /\ o \in Int /\ n \in Int /\ s - l = m /\ o - l = n /\ m - n = s /\ n - n = o
        /\ Same(l, l, N) /\ Same(n, n, N)
    BY DEF Same
  <2> HIDE DEF s, o, n
  <2>2. ASSUME Same(s, o, N) PROVE Same(m, n, N)
    <3>1. Same(s - l, o - l, N)
      BY <2>1, <2>2, FieldIs, SameOps
    <3> QED
      BY <2>1, <3>1
  <2>3. ASSUME Same(m, n, N) PROVE Same(s, o, N)
    <3>1. Same(m - n, n - n, N)
      BY <2>1, <2>3, FieldIs, SameOps
    <3> QED
      BY <2>1, <3>1
  <2> QED
    BY <2>2, <2>3 DEF s, o, n, NotZero
<1>3. ASSUME Same(l, m, N) \/ ~NotZero(l + m) PROVE x1 = x2
  <2>1. CASE Same(l, m, N)
    BY <1>1, <2>1, MultipleSame
  <2>2. CASE Same(m, -l, N)
    <3>1. Multiple(m) = Multiple(-l)
      BY <2>2, -l \in Int, MultipleSame
    <3> QED
      BY <1>1, <3>1
  <2> QED
    BY <1>2, <1>3, <2>1, <2>2
<1>4. ASSUME x1 = x2 PROVE Same(l, m, N) \/ ~NotZero(l + m)
  <2> DEFINE f == y1 - y2
             g == y1 + y2
  <2>1. f \in Int /\ g \in Int /\ y1 * y1 \in Int /\ y2 * y2 \in Int
        /\ f * g = y1 * y1 - y2 * y2
    BY <1>1
  <2>2. y1 * y1 \cong y2 * y2 /\ y2 * y2 \cong y2 * y2
    BY <1>1, <1>4 DEF \cong
  <2>3. y1 * y1 - y2 * y2 \cong y2 * y2 - y2 * y2
    BY <2>1, <2>2, CongMinus
  <2>4. y2 * y2 - y2 * y2 = 0
    BY <2>1
  <2> HIDE DEF f, g
  <2>5. Mod(f * g) = 0
    BY <2>1, <2>3, <2>4, FieldIs DEF \cong
  <2>6. CASE Mod(f) = 0
    <3>1. y1 = y2
      BY <1>1, <2>6, DifferenceIs DEF f
    <3>2. Same(l, m, N)
      BY <1>1, <1>4, <3>1, MultipleInjective
    <3> QED
      BY <3>2
  <2>7. CASE Mod(g) = 0
    <3>1. y1 + y2 = P
      <4>1. P \in Nat /\ g \in 2 .. 2 * P - 2
        BY <1>1, FieldIs DEF g
      <4>2. CASE g < P
        <5>1. Mod(g) = g
          BY <4>1, <4>2, ModSmall
        <5> QED
          BY <2>7, <4>1, <5>1
      <4>3. CASE g > P
        <5> DEFINE h == g - P  q == 1
        <5>1. h \in 1 .. P - 1 /\ h \in Int /\ q \in Int /\ g = h + P * q
          BY <4>1, <4>3
        <5> HIDE DEF h, q
        <5>2. Same(g, h, P)
          BY <2>1, <5>1, FieldIs, SameIs
        <5>3. Mod(h) = h /\ Mod(g) = Mod(h)
          BY <5>1, <5>2, ModSmall DEF Same, Mod
        <5> QED
          BY <2>7, <5>1, <5>3
      <4> QED
        BY <4>1, <4>2, <4>3 DEF g
    <3>2. y2 = P - y1
      BY <1>1, <3>1, FieldIs
    <3>3. Multiple(m) = Multiple(-l)
      BY <1>1, <1>4, <3>2
    <3>4. NotZero(-l)
      <4>1. -l \in Int
        OBVIOUS
      <4> QED
        BY <1>1, <3>3, <4>1, MultipleZero
    <3>5. Same(m, -l, N)
      BY <3>3, <3>4, -l \in Int, MultipleInjective
    <3> QED
      BY <1>2, <3>5
  <2> QED
    BY <2>1, <2>5, <2>6, <2>7, NonZeroTimes
<1> QED
  BY <1>3, <1>4 DEF x1, x2

(* The slope of the line through two points: named, so that a citation     *)
(* matches the name and not a product.                                     *)
Slope(s, a, b, c, d) == s * (c - a) \cong d - b

(* Two points with different x: their sum is on the line through them.     *)
LEMMA ChordIs ==
  ASSUME NEW a \in 1 .. P - 1, NEW b \in Int, NEW c \in 1 .. P - 1, NEW d \in Int, a # c
  PROVE  \E s \in Int : /\ Slope(s, a, b, c, d)
                        /\ PointAdd(<<a, b>>, <<c, d>>) = Line(<<a, b>>, <<c, d>>, s)
<1> DEFINE s == Mod(d - b) * ModInv(Mod(c - a), InverseModP)
           x == Mod(Mod(s) * Mod(s) - a - c)
           y == Mod(Mod(s) * Mod(a - x) - b)
<1>1. Mod(c - a) # 0 /\ c - a \in Int /\ d - b \in Int
  BY DifferenceIs
<1>2. s \in Int /\ s * (c - a) \cong d - b
  BY <1>1, QuotientIs
<1>3. PointAdd(<<a, b>>, <<c, d>>) = <<x, y>>
  BY DEF PointAdd, IsZero
<1> HIDE DEF s
<1>4. Line(<<a, b>>, <<c, d>>, s) = <<x, y>>
  BY <1>2, LineIs
<1>5. Slope(s, a, b, c, d)
  BY <1>2 DEF Slope
<1> QED
  BY <1>2, <1>3, <1>4, <1>5

(* A point and itself: their sum is on the tangent.                        *)
LEMMA TangentIs ==
  ASSUME NEW a \in 1 .. P - 1, NEW b \in 1 .. P - 1
  PROVE  \E s \in Int : /\ s * (2 * b) \cong 3 * a * a
                        /\ PointAdd(<<a, b>>, <<a, b>>) = Line(<<a, b>>, <<a, b>>, s)
<1> DEFINE s == Mod(3 * a * a) * ModInv(Mod(2 * b), InverseModP)
           x == Mod(Mod(s) * Mod(s) - a - a)
           y == Mod(Mod(s) * Mod(a - x) - b)
<1>1. Mod(2 * b) # 0 /\ 2 * b \in Int /\ 3 * a * a \in Int
  <2>1. Mod(2) = 2 /\ Mod(b) = b
    BY FieldIs, ModSmall
  <2> DEFINE g == 2
  <2>2. g \in Int /\ b \in Int /\ Mod(g) # 0 /\ Mod(b) # 0
    BY <2>1
  <2> HIDE DEF g
  <2>3. Mod(g * b) # 0
    BY <2>2, NonZeroTimes
  <2> QED
    BY <2>3 DEF g
<1>2. s \in Int /\ s * (2 * b) \cong 3 * a * a
  BY <1>1, QuotientIs
<1>3. PointAdd(<<a, b>>, <<a, b>>) = <<x, y>>
  <2>1. b + b = 2 * b
    OBVIOUS
  <2> QED
    BY <1>1, <2>1 DEF PointAdd, IsZero
<1> HIDE DEF s
<1>4. Line(<<a, b>>, <<a, b>>, s) = <<x, y>>
  BY <1>2, LineIs
<1> QED
  BY <1>2, <1>3, <1>4

-----------------------------------------------------------------------------
(* A multiple of G over a Z, as the code has it.                           *)
At(m, z) == ApplyZ(Multiple(m), z)

(* The coordinates of a multiple over a Z.                                 *)
LEMMA AtIs ==
  ASSUME NEW m \in Int, NEW z \in Int, NotZero(m), Mod(z) # 0
  PROVE  LET x == At(m, z)[1]  y == At(m, z)[2]
         IN /\ At(m, z) = <<x, y>> /\ x \in 1 .. P - 1 /\ y \in 1 .. P - 1
            /\ x \cong Multiple(m)[1] * (z * z) /\ y \cong Multiple(m)[2] * (z * z * z)
            /\ Multiple(m) = <<Multiple(m)[1], Multiple(m)[2]>>
            /\ Multiple(m)[1] \in 1 .. P - 1 /\ Multiple(m)[2] \in 1 .. P - 1
<1> DEFINE a == Multiple(m)[1]
           b == Multiple(m)[2]
           zz == z * z
           zzz == z * z * z
           x == Mod(a * z * z)
           y == Mod(b * Mod(zzz))
<1>1. Multiple(m) = <<a, b>> /\ a \in 1 .. P - 1 /\ b \in 1 .. P - 1
  BY MultipleIs
<1>2. At(m, z) = <<x, y>>
  BY DEF At, ApplyZ
<1> HIDE DEF a, b
<1>3. zz \in Int /\ Mod(zz) # 0
  BY NonZeroTimes
<1>4. zzz \in Int /\ Mod(zzz) # 0
  <2>1. zz * z \in Int /\ Mod(zz * z) # 0
    <3> HIDE DEF zz
    <3> QED
      BY <1>3, NonZeroTimes
  <2> QED
    BY <2>1
<1>5. a \in Int /\ Mod(a) # 0 /\ b \in Int /\ Mod(b) # 0
  BY <1>1, ModSmall
<1>6. x \in 1 .. P - 1 /\ x \cong a * zz
  <2>1. a * z * z = a * zz
    BY <1>5
  <2> HIDE DEF zz
  <2>2. a * zz \in Int /\ Mod(a * zz) # 0
    BY <1>3, <1>5, NonZeroTimes
  <2>3. x \in 0 .. P - 1 /\ x \cong a * zz
    BY <2>1, <2>2, ModIs
  <2> QED
    BY <2>1, <2>2, <2>3
<1>7. y \in 1 .. P - 1 /\ y \cong b * zzz
  <2> HIDE DEF zzz
  <2>1. Mod(zzz) \in Int /\ Mod(zzz) \cong zzz
    BY <1>4, ModIs
  <2>2. b * zzz \in Int /\ Mod(b * zzz) # 0
    BY <1>4, <1>5, NonZeroTimes
  <2>3. b * Mod(zzz) \in Int /\ b * Mod(zzz) \cong b * zzz
    BY <1>4, <1>5, <2>1, CongSelf, CongTimes
  <2>4. y \in 0 .. P - 1 /\ y \cong b * zzz
    BY <2>3, ModIs, CongChain
  <2>5. y # 0
    BY <2>2, <2>3 DEF \cong
  <2> QED
    BY <2>4, <2>5
<1> HIDE DEF x, y
<1> QED
  BY <1>1, <1>2, <1>6, <1>7 DEF a, b

(* A point over a Z.                                                       *)
OverZ(a, b, x, y, z) == x \cong a * (z * z) /\ y \cong b * (z * z * z)

(* A slope over a Z.                                                       *)
LEMMA SlopeOverZ ==
  ASSUME NEW a \in Int, NEW b \in Int, NEW c \in Int, NEW d \in Int, NEW s \in Int,
         NEW z \in Int, NEW x1 \in Int, NEW y1 \in Int, NEW x2 \in Int, NEW y2 \in Int,
         Slope(s, a, b, c, d), OverZ(a, b, x1, y1, z), OverZ(c, d, x2, y2, z)
  PROVE  Slope(s * z, x1, y1, x2, y2)
<1> DEFINE zz == z * z  zzz == z * z * z  u == s * z  e == c - a  f == d - b
<1>1. /\ zz \in Int /\ zzz \in Int /\ u \in Int /\ e \in Int /\ f \in Int
      /\ c * zz - a * zz = e * zz /\ d * zzz - b * zzz = f * zzz /\ u * (e * zz) = (s * e) * zzz
      /\ c * zz \in Int /\ a * zz \in Int /\ d * zzz \in Int /\ b * zzz \in Int
      /\ s * e \in Int /\ s * e \cong f
      /\ x1 \cong a * zz /\ y1 \cong b * zzz /\ x2 \cong c * zz /\ y2 \cong d * zzz
  BY DEF Slope, OverZ
<1> HIDE DEF zz, zzz, u, e, f
<1>2. x2 - x1 \in Int /\ x2 - x1 \cong c * zz - a * zz
  BY <1>1, CongMinus
<1>3. e * zz \in Int /\ x2 - x1 \cong e * zz
  BY <1>1, <1>2
<1>4. y2 - y1 \cong d * zzz - b * zzz
  BY <1>1, CongMinus
<1>5. u * (x2 - x1) \cong u * (e * zz)
  BY <1>1, <1>2, <1>3, CongSelf, CongTimes
<1>6. (s * e) * zzz \cong f * zzz
  BY <1>1, CongSelf, CongTimes
<1>7. u * (x2 - x1) \cong y2 - y1
  BY <1>1, <1>4, <1>5, <1>6 DEF \cong
<1> QED
  BY <1>7 DEF u, Slope

(* Adding multiples: XYcZ_add leaves the first one and their sum over a    *)
(* new Z, XYcZ_addC their difference and their sum.                        *)
LEMMA AtPlus ==
  ASSUME NEW l \in Int, NEW m \in Int, NEW z \in Int,
         NotZero(l), NotZero(m), NotZero(l + m), ~Same(l, m, N), Mod(z) # 0
  PROVE  LET t == At(m, z)[1] - At(l, z)[1]
         IN /\ t \in Int /\ Mod(t) # 0
            /\ XYcZAdd(At(l, z), At(m, z)) = <<At(l, z * t), At(l + m, z * t)>>
            /\ XYcZAddC(At(l, z), At(m, z)) = <<At(l - m, z * t), At(l + m, z * t)>>
<1> DEFINE a == Multiple(l)[1]  b == Multiple(l)[2]
           c == Multiple(m)[1]  d == Multiple(m)[2]
           x1 == At(l, z)[1]  y1 == At(l, z)[2]
           x2 == At(m, z)[1]  y2 == At(m, z)[2]
           t == x2 - x1
<1>1. /\ At(l, z) = <<x1, y1>> /\ x1 \in 1 .. P - 1 /\ y1 \in 1 .. P - 1
      /\ x1 \cong a * (z * z) /\ y1 \cong b * (z * z * z)
      /\ Multiple(l) = <<a, b>> /\ a \in 1 .. P - 1 /\ b \in 1 .. P - 1
  BY AtIs
<1>2. /\ At(m, z) = <<x2, y2>> /\ x2 \in 1 .. P - 1 /\ y2 \in 1 .. P - 1
      /\ x2 \cong c * (z * z) /\ y2 \cong d * (z * z * z)
      /\ Multiple(m) = <<c, d>> /\ c \in 1 .. P - 1 /\ d \in 1 .. P - 1
  BY AtIs
<1>3. a # c
  BY SameX
<1>4. Multiple(-m) = <<c, P - d>> /\ P - d \in 1 .. P - 1 /\ P \in Int
  BY <1>2, MultipleIs, FieldIs DEF Opposite
<1> HIDE DEF a, b, c, d, x1, y1, x2, y2
<1>5. ApplyZ(<<a, b>>, z) = <<x1, y1>> /\ ApplyZ(<<c, d>>, z) = <<x2, y2>>
  BY <1>1, <1>2 DEF At
<1>16. /\ a \in Int /\ b \in Int /\ c \in Int /\ d \in Int /\ P - d \in Int
       /\ x1 \in Int /\ y1 \in Int /\ x2 \in Int /\ y2 \in Int
  BY <1>1, <1>2, <1>4
<1>17. OverZ(a, b, x1, y1, z) /\ OverZ(c, d, x2, y2, z)
  BY <1>1, <1>2 DEF OverZ
<1>6. t \in Int /\ Mod(t) # 0
  <2> DEFINE zz == z * z  e == c - a
  <2>1. zz \in Int /\ Mod(zz) # 0
    BY NonZeroTimes
  <2>2. e \in Int /\ Mod(e) # 0
    BY <1>1, <1>2, <1>3, DifferenceIs
  <2>3. c * zz \in Int /\ a * zz \in Int /\ c * zz - a * zz = e * zz
        /\ x1 \cong a * zz /\ x2 \cong c * zz /\ x1 \in Int /\ x2 \in Int
    BY <1>1, <1>2, <2>1
  <2> HIDE DEF zz, e
  <2>4. x2 - x1 \cong c * zz - a * zz
    BY <2>3, CongMinus
  <2>5. Mod(e * zz) # 0
    BY <2>1, <2>2, NonZeroTimes
  <2> QED
    BY <2>3, <2>4, <2>5 DEF \cong
<1>7. PICK s \in Int : /\ Slope(s, a, b, c, d)
                       /\ PointAdd(<<a, b>>, <<c, d>>) = Line(<<a, b>>, <<c, d>>, s)
  <2>1. a \in 1 .. P - 1 /\ c \in 1 .. P - 1
    BY <1>1, <1>2
  <2> QED
    BY <1>3, <1>16, <2>1, ChordIs
<1>8. PICK r \in Int : /\ Slope(r, a, b, c, P - d)
                       /\ PointAdd(<<a, b>>, <<c, P - d>>) = Line(<<a, b>>, <<c, P - d>>, r)
  <2>1. a \in 1 .. P - 1 /\ c \in 1 .. P - 1
    BY <1>1, <1>2
  <2> QED
    BY <1>3, <1>16, <2>1, ChordIs
<1>9. Line(<<a, b>>, <<c, d>>, s) = Multiple(l + m)
  BY <1>1, <1>2, <1>7, MultiplePlus
<1>10. Line(<<a, b>>, <<c, P - d>>, r) = Multiple(l - m)
  <2>1. l + (-m) = l - m /\ -m \in Int
    OBVIOUS
  <2> QED
    BY <1>1, <1>4, <1>8, <2>1, MultiplePlus
<1>11. \A n \in Int : NotZero(n) => \E x \in Int, y \in Int : Multiple(n) = <<x, y>>
  BY MultipleIs
<1>12. ASSUME NEW n \in Int PROVE ApplyZ(At(n, z), t) = At(n, z * t)
  <2>1. \E x \in Int, y \in Int : Multiple(n) = <<x, y>>
    <3>1. CASE NotZero(n)
      BY <1>11, <3>1
    <3>2. CASE ~NotZero(n)
      <4>1. Multiple(n) = <<0, 0>> /\ 0 \in Int
        BY <3>2, MultipleZero
      <4> QED
        BY <4>1
    <3> QED
      BY <3>1, <3>2
  <2> HIDE DEF t
  <2>2. PICK x \in Int, y \in Int : Multiple(n) = <<x, y>>
    BY <2>1
  <2>3. ApplyZ(ApplyZ(<<x, y>>, z), t) = ApplyZ(<<x, y>>, z * t)
    BY <1>6, ApplyZTwice
  <2> QED
    BY <2>2, <2>3 DEF At
<1>13. XYcZAdd(<<x1, y1>>, <<x2, y2>>) = <<At(l, z * t), At(l + m, z * t)>>
  <2> DEFINE u == s * z
             line == Line(<<x1, y1>>, <<x2, y2>>, u)
  <2>1. u * t \cong y2 - y1 /\ u \in Int
    <3>1. u \in Int
      BY <1>7
    <3>2. Slope(s * z, x1, y1, x2, y2)
      BY <1>7, <1>16, <1>17, SlopeOverZ
    <3> QED
      BY <3>1, <3>2 DEF Slope
  <2>2. line = ApplyZ(Line(<<a, b>>, <<c, d>>, s), z)
    <3>1. Line(ApplyZ(<<a, b>>, z), ApplyZ(<<c, d>>, z), u)
            = ApplyZ(Line(<<a, b>>, <<c, d>>, s), z)
      BY <1>7, <1>16, LineOverZ
    <3> QED
      BY <1>5, <3>1
  <2>3. line = At(l + m, z)
    BY <1>9, <2>2 DEF At
  <2>4. XYcZAdd(<<x1, y1>>, <<x2, y2>>) = <<ApplyZ(<<x1, y1>>, t), ApplyZ(line, t)>>
    <3> HIDE DEF u
    <3> QED
      BY <1>1, <1>2, <2>1, XYcZAddIs
  <2> HIDE DEF u, t, line
  <2> QED
    BY <1>1, <1>12, <2>3, <2>4, l + m \in Int
<1>14. XYcZAdd(<<x1, y1>>, <<x2, -y2>>)[2] = At(l - m, z * t)
  <2> DEFINE u == r * z
             y3 == -y2
             line == Line(<<x1, y1>>, <<x2, y3>>, u)
  <2>1. u * t \cong y3 - y1 /\ u \in Int /\ y3 \in Int
    <3>1. y3 \in Int /\ y2 \in Int /\ d \in Int /\ P - d \in Int /\ u \in Int
      BY <1>8, <1>16
    <3>2. y3 \cong (P - d) * (z * z * z)
      <4> DEFINE zzz == z * z * z  o == 0  h == P - d
      <4>1. zzz \in Int /\ o \in Int /\ h \in Int /\ y2 \cong d * zzz /\ d * zzz \in Int
        BY <1>2, <3>1
      <4>2. P \cong o
        <5>1. P % P = 0
          BY FieldIs
        <5> QED
          BY <5>1, FieldIs DEF \cong, Mod
      <4>3. o - y2 = y3 /\ (o - d) * zzz = o - d * zzz
        BY <3>1
      <4> HIDE DEF zzz, o, y3
      <4>4. h \cong o - d /\ o - d \in Int
        BY <1>4, <3>1, <4>1, <4>2, CongSelf, CongMinus
      <4> HIDE DEF h
      <4>5. h * zzz \cong (o - d) * zzz
        BY <4>1, <4>4, CongSelf, CongTimes
      <4>6. o - y2 \cong o - d * zzz
        BY <3>1, <4>1, CongSelf, CongMinus
      <4> QED
        BY <4>3, <4>5, <4>6 DEF \cong, h, zzz
    <3> DEFINE h == P - d
    <3>3. h \in Int /\ Slope(r, a, b, c, h) /\ OverZ(c, h, x2, y3, z)
      BY <1>2, <1>8, <3>1, <3>2 DEF OverZ
    <3> HIDE DEF y3, h
    <3>4. Slope(r * z, x1, y1, x2, y3)
      BY <1>8, <1>16, <1>17, <3>1, <3>3, SlopeOverZ
    <3> QED
      BY <3>1, <3>4 DEF Slope
  <2>2. line = Line(ApplyZ(<<a, b>>, z), ApplyZ(<<c, P - d>>, z), u)
    <3>1. ApplyZ(<<c, P - d>>, z)[1] = x2
      <4>1. ApplyZ(<<c, d>>, z)[1] = ApplyZ(<<c, P - d>>, z)[1]
        BY DEF ApplyZ
      <4> QED
        BY <1>5, <4>1
    <3> QED
      BY <1>5, <3>1 DEF Line
  <2>3. line = ApplyZ(Line(<<a, b>>, <<c, P - d>>, r), z)
    <3> DEFINE h == P - d
    <3> HIDE DEF line, h
    <3>1. h \in Int
      BY <1>16 DEF h
    <3>2. Line(ApplyZ(<<a, b>>, z), ApplyZ(<<c, h>>, z), r * z)
            = ApplyZ(Line(<<a, b>>, <<c, h>>, r), z)
      BY <1>8, <1>16, <3>1, LineOverZ
    <3> QED
      BY <2>2, <3>2 DEF h
  <2>4. line = At(l - m, z)
    BY <1>10, <2>3 DEF At
  <2>5. XYcZAdd(<<x1, y1>>, <<x2, y3>>) = <<ApplyZ(<<x1, y1>>, t), ApplyZ(line, t)>>
    <3> HIDE DEF u, y3
    <3> QED
      BY <1>1, <1>2, <2>1, XYcZAddIs
  <2> HIDE DEF u, t, line
  <2> QED
    BY <1>12, <2>4, <2>5, l - m \in Int
<1>15. XYcZAddC(<<x1, y1>>, <<x2, y2>>)
         = <<XYcZAdd(<<x1, y1>>, <<x2, -y2>>)[2], XYcZAdd(<<x1, y1>>, <<x2, y2>>)[2]>>
  BY <1>1, <1>2, XYcZAddCIs
<1> HIDE DEF t
<1> QED
  BY <1>1, <1>2, <1>6, <1>13, <1>14, <1>15 DEF t, x1, x2

(* Doubling a multiple.                                                    *)
LEMMA AtDouble ==
  ASSUME NEW m \in Int, NEW z \in Int, NotZero(m), z # 0, Mod(z) # 0
  PROVE  LET y == At(m, z)[2]
         IN /\ y \in 1 .. P - 1
            /\ DoubleJacobian(At(m, z), z) = [point |-> At(2 * m, z * y), z |-> Mod(y * z)]
<1> DEFINE a == Multiple(m)[1]  b == Multiple(m)[2]
           x == At(m, z)[1]  y == At(m, z)[2]
<1>1. /\ At(m, z) = <<x, y>> /\ x \in 1 .. P - 1 /\ y \in 1 .. P - 1
      /\ x \cong a * (z * z) /\ y \cong b * (z * z * z)
      /\ Multiple(m) = <<a, b>> /\ a \in 1 .. P - 1 /\ b \in 1 .. P - 1
  BY AtIs
<1> HIDE DEF a, b, x, y
<1>2. PICK s \in Int : /\ s * (2 * b) \cong 3 * a * a
                       /\ PointAdd(<<a, b>>, <<a, b>>) = Line(<<a, b>>, <<a, b>>, s)
  BY <1>1, TangentIs
<1>3. Line(<<a, b>>, <<a, b>>, s) = Multiple(2 * m)
  <2>1. m + m = 2 * m
    OBVIOUS
  <2> QED
    BY <1>1, <1>2, <2>1, MultiplePlus
<1> DEFINE u == s * z
           line == Line(<<x, y>>, <<x, y>>, u)
<1>4. u \in Int /\ u * (2 * y) \cong 3 * x * x
  <2> DEFINE zz == z * z  zzz == z * z * z  e == 2 * b  f == 3 * a * a  w == zz * zz  g == 2
  <2>1. /\ zz \in Int /\ zzz \in Int /\ e \in Int /\ f \in Int /\ w \in Int /\ u \in Int /\ g \in Int
        /\ x \in Int /\ y \in Int /\ a \in Int /\ b \in Int
        /\ x \cong a * zz /\ y \cong b * zzz /\ a * zz \in Int /\ b * zzz \in Int
        /\ s * e \cong f /\ s * e \in Int
    BY <1>1, <1>2
  <2>2. u * (g * (b * zzz)) = (s * e) * w /\ (3 * (a * zz)) * (a * zz) = f * w
    BY <2>1
  <2> HIDE DEF zz, zzz, e, f, w, u, g
  <2>3. g * y \cong g * (b * zzz) /\ g * y \in Int /\ g * (b * zzz) \in Int
    BY <2>1, CongSelf, CongTimes
  <2>4. u * (g * y) \cong u * (g * (b * zzz))
    BY <2>1, <2>3, CongSelf, CongTimes
  <2>5. (s * e) * w \cong f * w
    BY <2>1, CongSelf, CongTimes
  <2> DEFINE h == 3
             az == a * zz
  <2>6. h \in Int /\ az \in Int /\ x \cong az
    BY <2>1
  <2> HIDE DEF h, az
  <2>7. h * x \cong h * az /\ h * x \in Int /\ h * az \in Int
    BY <2>1, <2>6, CongSelf, CongTimes
  <2>8. (h * x) * x \cong (h * az) * az
    BY <2>1, <2>6, <2>7, CongTimes
  <2> QED
    BY <2>1, <2>2, <2>4, <2>5, <2>8 DEF \cong, g, h, az
<1>5. line = At(2 * m, z)
  <2>1. ApplyZ(<<a, b>>, z) = <<x, y>>
    BY <1>1 DEF At
  <2>2. a \in Int /\ b \in Int
    BY <1>1
  <2>3. Line(ApplyZ(<<a, b>>, z), ApplyZ(<<a, b>>, z), s * z)
          = ApplyZ(Line(<<a, b>>, <<a, b>>, s), z)
    BY <1>2, <2>2, LineOverZ
  <2> QED
    BY <1>3, <2>1, <2>3 DEF At
<1>6. DoubleJacobian(<<x, y>>, z) = [point |-> ApplyZ(line, y), z |-> Mod(y * z)]
  <2> HIDE DEF u
  <2> QED
    BY <1>1, <1>4, DoubleIs
<1>7. ApplyZ(At(2 * m, z), y) = At(2 * m, z * y)
  <2>1. \E j \in Int, k1 \in Int : Multiple(2 * m) = <<j, k1>>
    <3>1. 2 * m \in Int /\ 0 \in Int
      OBVIOUS
    <3> QED
      BY <3>1, MultipleZero, MultipleIs
  <2> QED
    BY <1>1, <2>1, ApplyZTwice DEF At
<1> HIDE DEF line
<1> QED
  BY <1>1, <1>5, <1>6, <1>7 DEF y

(* No Z is zero that is a product of others.                               *)
LEMMA ZTimes ==
  ASSUME NEW z \in Int, NEW t \in Int, Mod(z) # 0, Mod(t) # 0
  PROVE  z * t \in Int /\ Mod(z * t) # 0
BY NonZeroTimes

(* A Z of 1 changes no point.                                              *)
LEMMA AtOne ==
  ASSUME NEW m \in Int, NEW z \in Int, z \cong 1
  PROVE  At(m, z) = Multiple(m)
<1>1. \E x \in 0 .. P - 1, y \in 0 .. P - 1 : Multiple(m) = <<x, y>>
  <2>1. 0 \in 0 .. P - 1
    BY FieldIs
  <2> QED
    BY <2>1, MultipleZero, MultipleIs
<1>2. PICK x \in 0 .. P - 1, y \in 0 .. P - 1 : Multiple(m) = <<x, y>>
  BY <1>1
<1>3. x \in Int /\ y \in Int /\ Mod(x) = x /\ Mod(y) = y /\ Mod(1) = 1
  BY ModSmall, FieldIs
<1>4. ApplyZ(<<x, y>>, z) = ApplyZ(<<x, y>>, 1)
  <2> DEFINE o == 1
  <2>1. o \in Int /\ z \cong o
    OBVIOUS
  <2> HIDE DEF o
  <2>2. ApplyZ(<<x, y>>, z) = ApplyZ(<<x, y>>, o)
    BY <1>3, <2>1, ApplyZSame
  <2> QED
    BY <2>2 DEF o
<1>5. x * 1 * 1 = x /\ y * 1 = y /\ 1 * 1 * 1 = 1
  BY <1>3
<1>6. ApplyZ(<<x, y>>, 1) = <<x, y>>
  BY <1>3, <1>5 DEF ApplyZ
<1> QED
  BY <1>2, <1>4, <1>6 DEF At

(* apply_z of a multiple over a Z: the two Zs are multiplied.              *)
LEMMA AtTwice ==
  ASSUME NEW m \in Int, NEW z \in Int, NEW t \in Int
  PROVE  ApplyZ(At(m, z), t) = At(m, z * t)
<1>1. \E x \in Int, y \in Int : Multiple(m) = <<x, y>>
  <2>1. 0 \in Int
    OBVIOUS
  <2> QED
    BY <2>1, MultipleZero, MultipleIs
<1>2. PICK x \in Int, y \in Int : Multiple(m) = <<x, y>>
  BY <1>1
<1>3. ApplyZ(ApplyZ(<<x, y>>, z), t) = ApplyZ(<<x, y>>, z * t)
  BY ApplyZTwice
<1> QED
  BY <1>2, <1>3 DEF At

(* A turn of the ladder: the difference and the sum of two multiples, then *)
(* the sum of both and twice the first one.                                *)
LEMMA TurnIs ==
  ASSUME NEW l \in Int, NEW m \in Int, NEW z \in Int, Mod(z) # 0,
         NotZero(l), NotZero(m), NotZero(l + m), NotZero(l - m),
         NotZero(2 * l), NotZero(2 * m)
  PROVE  LET sums == XYcZAddC(At(l, z), At(m, z))
         IN \E w \in Int :
              LET t == sums[1][1] - sums[2][1]
              IN /\ Mod(w) # 0 /\ t \in Int /\ Mod(t) # 0
                 /\ sums = <<At(l - m, w), At(l + m, w)>>
                 /\ XYcZAdd(sums[2], sums[1]) = <<At(l + m, w * t), At(2 * l, w * t)>>
<1>1. ASSUME NEW i \in Int, NEW j \in Int
      PROVE  NotZero(i - j) <=> ~Same(i, j, N)
  <2> DEFINE d == i - j  o == 0
  <2>1. d \in Int /\ o \in Int /\ Same(j, j, N) /\ d + j = i /\ o + j = j /\ j - j = o
    BY DEF Same
  <2> HIDE DEF d, o
  <2>2. ASSUME Same(d, o, N) PROVE Same(i, j, N)
    <3>1. Same(d + j, o + j, N)
      BY <2>1, <2>2, FieldIs, SameOps
    <3> QED
      BY <2>1, <3>1
  <2>3. ASSUME Same(i, j, N) PROVE Same(d, o, N)
    <3>1. Same(i - j, j - j, N)
      BY <2>1, <2>3, FieldIs, SameOps
    <3> QED
      BY <2>1, <3>1 DEF d
  <2> QED
    BY <2>2, <2>3 DEF NotZero, d, o
<1> DEFINE sums == XYcZAddC(At(l, z), At(m, z))
           s == At(m, z)[1] - At(l, z)[1]
           w == z * s
<1>2. s \in Int /\ Mod(s) # 0 /\ sums = <<At(l - m, z * s), At(l + m, z * s)>>
  BY <1>1, AtPlus
<1> HIDE DEF s
<1>3. w \in Int /\ Mod(w) # 0 /\ sums = <<At(l - m, w), At(l + m, w)>>
  BY <1>2, ZTimes
<1> HIDE DEF w, sums
<1> DEFINE p == l + m
           q == l - m
           t == sums[1][1] - sums[2][1]
<1>4. /\ p \in Int /\ q \in Int /\ NotZero(p) /\ NotZero(q)
      /\ p + q = 2 * l /\ p - q = 2 * m
  OBVIOUS
<1>5. sums[1] = At(q, w) /\ sums[2] = At(p, w)
  BY <1>3
<1> HIDE DEF p, q
<1>6. NotZero(p + q) /\ ~Same(p, q, N)
  BY <1>1, <1>4
<1>7. /\ t \in Int /\ Mod(t) # 0
      /\ XYcZAdd(sums[2], sums[1]) = <<At(p, w * t), At(p + q, w * t)>>
  <2>1. w \in Int /\ Mod(w) # 0
    BY <1>3
  <2>2. LET v == At(q, w)[1] - At(p, w)[1]
        IN /\ v \in Int /\ Mod(v) # 0
           /\ XYcZAdd(At(p, w), At(q, w)) = <<At(p, w * v), At(p + q, w * v)>>
    BY <1>4, <1>6, <2>1, AtPlus
  <2> QED
    BY <1>5, <2>2
<1> QED
  BY <1>3, <1>4, <1>7 DEF p, q, sums

(* The factor that EccPoint_mult finds for its last point is the inverse   *)
(* of the point's Z.                                                       *)
LEMMA LastZIs ==
  ASSUME NEW a \in 1 .. P - 1, NEW b \in 1 .. P - 1, NEW w \in Int, NEW t \in Int,
         Mod(w) # 0, Mod(t) # 0,
         NEW x \in Int, NEW y \in Int, NEW dx \in Int, NEW e \in {1, -1},
         x \cong a * (w * w), y \cong (e * b) * (w * w * w), dx = e * t
  PROVE  LET z == ModInv(Mod(Mod(Mod(dx) * y) * a), InverseModP)
             last == Mod(Mod(z * b) * x)
         IN last \in Int /\ (w * t) * last \cong 1
<1> DEFINE ww == w * w
           www == w * w * w
           eb == e * b
           den == dx * y * a
           z == ModInv(Mod(Mod(Mod(dx) * y) * a), InverseModP)
           last == Mod(Mod(z * b) * x)
           prod == (t * b) * (a * www)
<1>1. /\ a \in Int /\ b \in Int /\ ww \in Int /\ www \in Int /\ eb \in Int /\ e * e = 1
      /\ dx * y \in Int /\ den \in Int /\ prod \in Int /\ e \in Int
      /\ a * ww \in Int /\ eb * www \in Int
      /\ x \cong a * ww /\ y \cong eb * www
  OBVIOUS
<1>2. Mod(Mod(Mod(dx) * y) * a) = Mod(den)
  <2>1. Mod(dx) \in Int /\ Mod(dx) \cong dx
    BY ModIs
  <2> DEFINE f == Mod(dx) * y
             g == dx * y
  <2>2. f \in Int /\ g \in Int /\ f \cong g
    BY <2>1, CongSelf, CongTimes
  <2> HIDE DEF f, g
  <2>3. Mod(f) \in Int /\ Mod(f) \cong g
    BY <2>2, ModIs, CongChain
  <2>4. Mod(f) * a \cong g * a
    BY <1>1, <2>2, <2>3, CongSelf, CongTimes
  <2> QED
    BY <2>4 DEF \cong, f, g
<1>3. den \cong prod
  <2> DEFINE da == dx * a
  <2>1. da \in Int /\ den = da * y /\ da * (eb * www) = (e * e) * prod
    BY <1>1
  <2>2. (e * e) * prod = prod
    BY <1>1
  <2> HIDE DEF da, eb, www, prod, den
  <2>3. da * y \cong da * (eb * www)
    BY <1>1, <2>1, CongSelf, CongTimes
  <2> QED
    BY <2>1, <2>2, <2>3
<1>4. Mod(den) # 0
  <2>1. Mod(a) # 0 /\ Mod(b) # 0
    BY ModSmall
  <2>2. ww \in Int /\ Mod(ww) # 0
    BY ZTimes
  <2>3. ww * w \in Int /\ Mod(ww * w) # 0
    <3> HIDE DEF ww
    <3> QED
      BY <2>2, ZTimes
  <2>4. Mod(www) # 0
    BY <2>3
  <2> DEFINE f == t * b  g == a * www
  <2> HIDE DEF www
  <2>5. f \in Int /\ g \in Int /\ Mod(f) # 0 /\ Mod(g) # 0
    BY <1>1, <2>1, <2>4, ZTimes
  <2> HIDE DEF f, g
  <2>6. Mod(f * g) # 0
    BY <2>5, ZTimes
  <2> QED
    BY <1>3, <2>6 DEF \cong, f, g
<1>5. z \in Int /\ den * z \cong 1
  <2> HIDE DEF den
  <2>1. z = ModInv(Mod(den), InverseModP)
    BY <1>2
  <2> HIDE DEF z
  <2> QED
    BY <1>1, <1>4, <2>1, ModInvIs
<1> HIDE DEF z
<1>6. last \in Int /\ last \cong (z * b) * (a * ww)
  <2> DEFINE f == z * b
  <2>1. f \in Int
    BY <1>1, <1>5
  <2> HIDE DEF f, ww
  <2>2. Mod(f) \in Int /\ Mod(f) \cong f
    BY <2>1, ModIs
  <2>3. Mod(f) * x \in Int /\ Mod(f) * x \cong f * (a * ww)
    BY <1>1, <2>1, <2>2, CongTimes
  <2>4. Mod(Mod(f) * x) \in Int /\ Mod(Mod(f) * x) \cong f * (a * ww)
    BY <2>3, ModIs, CongChain
  <2> QED
    BY <2>4 DEF f
<1>7. (w * t) * last \cong (w * t) * ((z * b) * (a * ww))
  <2> DEFINE f == (z * b) * (a * ww)
             g == w * t
  <2>1. f \in Int /\ g \in Int
    BY <1>1, <1>5
  <2> HIDE DEF f, g, last
  <2>2. last \in Int /\ last \cong f
    BY <1>6 DEF f
  <2>3. g * last \cong g * f
    BY <2>1, <2>2, CongSelf, CongTimes
  <2> QED
    BY <2>3 DEF f, g
<1>8. (w * t) * ((z * b) * (a * ww)) = prod * z
  BY <1>1, <1>5
<1>9. prod * z \cong den * z
  <2> HIDE DEF prod, den
  <2>1. prod \cong den
    BY <1>3 DEF \cong
  <2> QED
    BY <1>1, <1>5, <2>1, CongSelf, CongTimes
<1>10. (w * t) * last \cong 1
  BY <1>5, <1>7, <1>8, <1>9 DEF \cong
<1> QED
  BY <1>6, <1>10 DEF z

-----------------------------------------------------------------------------
(* What is left when the ladder has added a point and its opposite.        *)
Cusp(w) == <<Mod(w * w), Mod(w * w * w)>>

(* A point of the cusp has no zero.                                        *)
LEMMA CuspIs ==
  ASSUME NEW w \in Int, Mod(w) # 0
  PROVE  Cusp(w)[1] \in 1 .. P - 1 /\ Cusp(w)[2] \in 1 .. P - 1
<1> DEFINE ww == w * w
<1>1. ww \in Int /\ Mod(ww) # 0
  BY ZTimes
<1> HIDE DEF ww
<1>2. ww * w \in Int /\ Mod(ww * w) # 0
  BY <1>1, ZTimes
<1>3. Mod(ww) \in 1 .. P - 1 /\ Mod(ww * w) \in 1 .. P - 1
  BY <1>1, <1>2, ModIs
<1> QED
  BY <1>3 DEF Cusp, ww

(* A point less its opposite.                                              *)
LEMMA OppositesIs ==
  ASSUME NEW x \in 0 .. P - 1, NEW y \in 1 .. P - 1
  PROVE  \E w \in Int : /\ Mod(w) # 0
                        /\ XYcZAddC(<<x, y>>, <<x, P - y>>) = <<<<0, 0>>, Cusp(w)>>
<1> DEFINE e == (P - y) - y
           dy == Mod(e)
           w == -dy
<1>1. P \in Nat /\ P > 2 /\ P % 2 = 1 /\ x \in Int /\ y \in Int /\ Mod(0) = 0 /\ P - y \in 1 .. P - 1
  BY FieldIs
<1>2. P - y # y
  BY <1>1
<1>3. Mod(e) # 0
  BY <1>1, <1>2, DifferenceIs
<1>4. dy \in 1 .. P - 1 /\ dy \in Int
  BY <1>1, <1>3, ModIs
<1> HIDE DEF dy
<1>5. Mod(w) # 0
  <2>1. dy \in 0 .. P - 1 /\ 0 \in 0 .. P - 1 /\ dy # 0 /\ 0 - dy = w
    BY <1>1, <1>4
  <2> HIDE DEF w
  <2>2. Mod(0 - dy) # 0
    BY <2>1, DifferenceIs
  <2> QED
    BY <2>1, <2>2
<1> DEFINE x3 == Mod(dy * dy - 0 - 0)
           f == 0 - x3
           y3 == Mod(dy * Mod(f) - 0)
<1>6. x3 = Mod(w * w)
  <2>1. dy * dy - 0 - 0 = w * w
    BY <1>4
  <2> QED
    BY <2>1
<1>7. y3 = Mod(w * w * w)
  <2> DEFINE dd == dy * dy  g == -1
  <2>1. dd \in Int /\ dd - 0 - 0 = dd /\ g \in Int
    BY <1>4
  <2>2. x3 \in Int /\ x3 \cong dd
    <3> HIDE DEF dd
    <3>1. x3 = Mod(dd)
      BY <2>1 DEF dd
    <3> HIDE DEF x3
    <3> QED
      BY <2>1, <3>1, ModIs
  <2> HIDE DEF x3
  <2>3. f \in Int /\ f = g * x3 /\ w * w * w = dy * (g * dd)
    BY <1>4, <2>2
  <2> HIDE DEF dd, g, f
  <2>4. g * x3 \cong g * dd /\ g * dd \in Int
    BY <2>1, <2>2, CongSelf, CongTimes
  <2>5. Mod(f) \in Int /\ Mod(f) \cong g * dd
    BY <2>3, <2>4, ModIs DEF \cong
  <2>6. dy * Mod(f) \cong dy * (g * dd)
    BY <1>4, <2>4, <2>5, CongSelf, CongTimes
  <2>7. dy * Mod(f) - 0 = dy * Mod(f)
    BY <1>4, <2>5
  <2> HIDE DEF w
  <2> QED
    BY <2>3, <2>6, <2>7 DEF \cong
<1>8. XYcZAddC(<<x, y>>, <<x, P - y>>) = <<<<0, 0>>, <<x3, y3>>>>
  <2> DEFINE square == Mod((x - x) * (x - x))
             X1 == Mod(x * square)
             sum == Mod((P - y) + y)
             Y1 == Mod(y * Mod(X1 - X1))
             x4 == Mod(sum * sum - X1 - X1)
             y4 == Mod(sum * Mod(x4 - X1) - Y1)
  <2>1. square = 0
    <3>1. (x - x) * (x - x) = 0
      BY <1>1
    <3> QED
      BY <1>1, <3>1
  <2> HIDE DEF square
  <2>2. X1 = 0
    <3>1. x * 0 = 0
      BY <1>1
    <3> QED
      BY <1>1, <2>1, <3>1
  <2> HIDE DEF X1
  <2>3. sum = 0
    <3>1. (P - y) + y = P /\ P % P = 0
      BY <1>1
    <3> QED
      BY <3>1 DEF Mod
  <2> HIDE DEF sum
  <2>4. Y1 = 0
    <3>1. X1 - X1 = 0 /\ y * 0 = 0
      BY <1>1, <2>2
    <3> QED
      BY <1>1, <3>1
  <2> HIDE DEF Y1
  <2>5. x4 = 0
    <3>1. sum * sum - X1 - X1 = 0
      BY <2>2, <2>3
    <3> QED
      BY <1>1, <3>1
  <2> HIDE DEF x4
  <2>6. y4 = 0
    <3>1. x4 - X1 = 0
      BY <2>2, <2>5
    <3>2. sum * Mod(x4 - X1) - Y1 = 0
      BY <1>1, <2>3, <2>4, <3>1
    <3> QED
      BY <1>1, <3>2
  <2> HIDE DEF y4
  <2>7. XYcZAddC(<<x, y>>, <<x, P - y>>)
          = <<<<x4, y4>>, <<Mod(dy * dy - X1 - X1),
                            Mod(dy * Mod(X1 - Mod(dy * dy - X1 - X1)) - Y1)>>>>
    BY DEF XYcZAddC, x4, y4, sum, X1, square, Y1, dy
  <2> HIDE DEF w
  <2> QED
    BY <2>2, <2>4, <2>5, <2>6, <2>7
<1> HIDE DEF x3, y3
<1>9. w \in Int
  BY <1>4
<1> HIDE DEF w
<1> QED
  BY <1>5, <1>6, <1>7, <1>8, <1>9 DEF Cusp

(* A cusp is the point (1, 1) of the curve y^2 = x^3 over a Z.             *)
LEMMA CuspOver ==
  ASSUME NEW w \in Int
  PROVE  Cusp(w) = ApplyZ(<<1, 1>>, w)
<1> DEFINE www == w * w * w
<1>1. 1 * w * w = w * w /\ www \in Int
  OBVIOUS
<1>2. ApplyZ(<<1, 1>>, w) = <<Mod(1 * w * w), Mod(1 * Mod(www))>>
  BY DEF ApplyZ
<1>3. Mod(www) \in 0 .. P - 1
  BY <1>1, ModIs
<1>4. 1 * Mod(www) = Mod(www) /\ Mod(Mod(www)) = Mod(www)
  BY <1>3, ModSmall
<1> QED
  BY <1>1, <1>2, <1>4 DEF Cusp

(* On that curve the third point is (0, 0).                                *)
LEMMA CuspAdd ==
  ASSUME NEW x1 \in Int, NEW y1 \in Int, NEW x2 \in Int, NEW y2 \in Int, NEW s \in Int,
         s * s \cong x1 + x2, s * x1 \cong y1, s * x2 \cong y2
  PROVE  XYcZAdd(<<x1, y1>>, <<x2, y2>>) = <<ApplyZ(<<x1, y1>>, x2 - x1), <<0, 0>>>>
<1> DEFINE t == x2 - x1
           l == s * s - x1 - x2
           o == 0
           f == x1 - l
           ss == s * s
<1>1. /\ t \in Int /\ l \in Int /\ o \in Int /\ f \in Int /\ s * x1 \in Int /\ s * x2 \in Int
      /\ s * t = s * x2 - s * x1 /\ x1 + x2 \in Int /\ ss \in Int
      /\ l = ss - (x1 + x2) /\ (x1 + x2) - (x1 + x2) = o /\ x1 - o = x1 /\ y1 - y1 = o
  OBVIOUS
<1> HIDE DEF o, l, t, ss
<1>2. s * t \cong y2 - y1
  <2>1. s * x2 - s * x1 \cong y2 - y1
    BY <1>1, CongMinus
  <2> QED
    BY <1>1, <2>1
<1>3. l \cong o
  <2>1. ss \cong x1 + x2
    BY DEF ss
  <2>2. ss - (x1 + x2) \cong (x1 + x2) - (x1 + x2)
    BY <1>1, <2>1, CongSelf, CongMinus
  <2> QED
    BY <1>1, <2>2
<1>4. f \cong x1
  <2>1. x1 - l \cong x1 - o
    BY <1>1, <1>3, CongSelf, CongMinus
  <2> QED
    BY <1>1, <2>1
<1> HIDE DEF f
<1>5. s * f \cong s * x1 /\ s * f \in Int
  BY <1>1, <1>4, CongSelf, CongTimes
<1>6. s * f - y1 \cong o
  <2>1. s * f \cong y1
    BY <1>5, CongChain
  <2>2. s * f - y1 \cong y1 - y1
    BY <1>5, <2>1, CongSelf, CongMinus
  <2> QED
    BY <1>1, <2>2
<1>7. Line(<<x1, y1>>, <<x2, y2>>, s) = <<0, 0>>
  <2>1. Line(<<x1, y1>>, <<x2, y2>>, s) = <<Mod(l), Mod(s * f - y1)>>
    BY DEF Line, l, f, ss
  <2>2. Mod(o) = 0
    BY FieldIs DEF o
  <2> QED
    BY <1>3, <1>6, <2>1, <2>2 DEF \cong
<1>8. ApplyZ(<<0, 0>>, t) = <<0, 0>>
  <2>1. 0 * t * t = 0 /\ t * t * t \in Int
    BY <1>1
  <2>2. Mod(t * t * t) \in Int
    BY <2>1, ModIs
  <2>3. 0 * Mod(t * t * t) = 0
    BY <2>2
  <2> QED
    BY <2>1, <2>3, FieldIs DEF ApplyZ
<1>9. XYcZAdd(<<x1, y1>>, <<x2, y2>>)
        = <<ApplyZ(<<x1, y1>>, t), ApplyZ(Line(<<x1, y1>>, <<x2, y2>>, s), t)>>
  <2>1. s * (x2 - x1) \cong y2 - y1
    BY <1>2 DEF t
  <2> QED
    BY <2>1, XYcZAddIs DEF t
<1> QED
  BY <1>7, <1>8, <1>9 DEF t

(* What there is of a cusp.                                                *)
LEMMA CuspParts ==
  ASSUME NEW w \in Int, Mod(w) # 0
  PROVE  \E c \in 1 .. P - 1, d \in 1 .. P - 1 :
           /\ Cusp(w) = <<c, d>>
           /\ w * w \cong c /\ w * c \cong d
           /\ (-w) * (-w) \cong c /\ (-w) * c \cong -d
<1> DEFINE c == Cusp(w)[1]  d == Cusp(w)[2]
           ww == w * w
           www == w * w * w
<1>1. c \in 1 .. P - 1 /\ d \in 1 .. P - 1 /\ Cusp(w) = <<c, d>> /\ c = Mod(ww) /\ d = Mod(www)
  BY CuspIs DEF Cusp
<1>2. ww \in Int /\ www \in Int /\ w * ww = www /\ (-w) * (-w) = ww
  OBVIOUS
<1> HIDE DEF c, d, ww, www
<1>3. c \in Int /\ d \in Int /\ c \cong ww /\ d \cong www
  BY <1>1, <1>2, ModIs
<1>4. w * c \cong www
  BY <1>2, <1>3, CongSelf, CongTimes
<1>5. w * c \cong d /\ ww \cong c
  BY <1>3, <1>4 DEF \cong
<1>6. (-w) * c \cong -d
  <2> DEFINE g == -1
  <2>1. g \in Int /\ w * c \in Int /\ g * (w * c) = (-w) * c /\ g * d = -d
    BY <1>3
  <2> HIDE DEF g
  <2>2. g * (w * c) \cong g * d
    BY <1>3, <1>5, <2>1, CongSelf, CongTimes
  <2> QED
    BY <2>1, <2>2
<1> QED
  BY <1>1, <1>2, <1>5, <1>6 DEF ww

(* From a cusp and (0, 0) there come a cusp and (0, 0), or nothing.        *)
LEMMA CuspTurn ==
  ASSUME NEW w \in Int, Mod(w) # 0
  PROVE  /\ \E v \in Int : Mod(v) # 0 /\ XYcZAdd(Cusp(w), <<0, 0>>) = <<Cusp(v), <<0, 0>>>>
         /\ XYcZAddC(Cusp(w), <<0, 0>>) = <<<<0, 0>>, <<0, 0>>>>
         /\ XYcZAddC(<<0, 0>>, Cusp(w)) = <<<<0, 0>>, <<0, 0>>>>
<1>1. PICK c \in 1 .. P - 1, d \in 1 .. P - 1 :
           /\ Cusp(w) = <<c, d>>
           /\ w * w \cong c /\ w * c \cong d
           /\ (-w) * (-w) \cong c /\ (-w) * c \cong -d
  BY CuspParts
<1> DEFINE t == 0 - c
           n == -w
           e == -d
<1>2. /\ c \in Int /\ d \in Int /\ 0 \in Int /\ c + 0 = c /\ 0 + c = c /\ w * 0 = 0
      /\ t \in Int /\ -0 = 0 /\ n * 0 = 0 /\ n \in Int /\ e \in Int
  <2>1. c \in Int /\ d \in Int /\ P \in Int
    BY FieldIs
  <2>2. n \in Int /\ e \in Int /\ t \in Int
    BY <2>1
  <2> HIDE DEF n, t, e
  <2>3. w * 0 = 0 /\ n * 0 = 0
    BY <2>2
  <2>4. -0 = 0
    <3> DEFINE o == 0  m == -o
    <3>1. o \in Int
      OBVIOUS
    <3> HIDE DEF o
    <3>2. m = 0 - o
      BY <3>1
    <3> HIDE DEF m
    <3>3. m = 0
      BY <3>2 DEF o
    <3> QED
      BY <3>3 DEF m, o, Zenon
  <2> QED
    BY <2>1, <2>2, <2>3, <2>4
<1>10. n * n \cong c /\ n * c \cong e
  BY <1>1
<1>3. 0 \cong 0
  BY CongSelf
<1>4. XYcZAdd(<<c, d>>, <<0, 0>>) = <<ApplyZ(<<c, d>>, t), <<0, 0>>>>
  <2> DEFINE o == 0
  <2>1. o \in Int /\ w * w \cong c + o /\ w * c \cong d /\ w * o \cong o
    BY <1>1, <1>2, <1>3, <1>10
  <2> HIDE DEF o
  <2>2. XYcZAdd(<<c, d>>, <<o, o>>) = <<ApplyZ(<<c, d>>, o - c), <<0, 0>>>>
    BY <1>2, <2>1, CuspAdd
  <2> QED
    BY <2>2 DEF o
<1>5. XYcZAdd(<<0, 0>>, <<c, d>>)[2] = <<0, 0>>
  <2> DEFINE o == 0
  <2>1. o \in Int /\ w * w \cong o + c /\ w * c \cong d /\ w * o \cong o
    BY <1>1, <1>2, <1>3
  <2> HIDE DEF o
  <2>2. XYcZAdd(<<o, o>>, <<c, d>>) = <<ApplyZ(<<o, o>>, c - o), <<0, 0>>>>
    BY <1>2, <2>1, CuspAdd
  <2> QED
    BY <2>2 DEF o
<1>6. XYcZAdd(<<0, 0>>, <<c, -d>>)[2] = <<0, 0>>
  <2> DEFINE o == 0
  <2>1. o \in Int /\ n * n \cong o + c /\ n * c \cong e /\ n * o \cong o
    BY <1>2, <1>3, <1>10
  <2> HIDE DEF o, n, e
  <2>2. XYcZAdd(<<o, o>>, <<c, e>>) = <<ApplyZ(<<o, o>>, c - o), <<0, 0>>>>
    BY <1>2, <2>1, CuspAdd
  <2> QED
    BY <2>2 DEF o, e
<1>7. XYcZAddC(<<c, d>>, <<0, 0>>) = <<<<0, 0>>, <<0, 0>>>>
  <2>1. XYcZAddC(<<c, d>>, <<0, 0>>)
          = <<XYcZAdd(<<c, d>>, <<0, -0>>)[2], XYcZAdd(<<c, d>>, <<0, 0>>)[2]>>
    BY <1>2, XYcZAddCIs
  <2> QED
    BY <1>2, <1>4, <2>1
<1>8. XYcZAddC(<<0, 0>>, <<c, d>>) = <<<<0, 0>>, <<0, 0>>>>
  <2>1. XYcZAddC(<<0, 0>>, <<c, d>>)
          = <<XYcZAdd(<<0, 0>>, <<c, -d>>)[2], XYcZAdd(<<0, 0>>, <<c, d>>)[2]>>
    BY <1>2, XYcZAddCIs
  <2> QED
    BY <1>5, <1>6, <2>1
<1>9. \E v \in Int : Mod(v) # 0 /\ ApplyZ(<<c, d>>, t) = Cusp(v)
  <2>1. Mod(t) # 0
    <3>1. c \in 0 .. P - 1 /\ 0 \in 0 .. P - 1 /\ c # 0
      BY FieldIs
    <3> QED
      BY <3>1, DifferenceIs
  <2>2. w * t \in Int /\ Mod(w * t) # 0
    BY <1>2, <2>1, ZTimes
  <2>3. ApplyZ(ApplyZ(<<1, 1>>, w), t) = ApplyZ(<<1, 1>>, w * t)
    <3>1. 1 \in Int
      OBVIOUS
    <3> HIDE DEF t
    <3> QED
      BY <1>2, <3>1, ApplyZTwice
  <2>4. ApplyZ(<<c, d>>, t) = Cusp(w * t)
    BY <1>1, <2>2, <2>3, CuspOver
  <2> QED
    BY <2>2, <2>4
<1> QED
  BY <1>1, <1>4, <1>7, <1>8, <1>9

-----------------------------------------------------------------------------
(* The powers of two.                                                      *)
PowersOf(f) == f = [n \in Nat |-> IF n = 0 THEN 1 ELSE 2 * f[n - 1]]

(* The powers of two: the function exists and has its equations.           *)
LEMMA TwoToDef ==
  /\ TwoTo \in [Nat -> Nat \ {0}] /\ TwoTo[0] = 1
  /\ \A n \in Nat : TwoTo[n + 1] = 2 * TwoTo[n]
<1> DEFINE step == [n \in Nat |-> [s \in Nat |-> 2 * s]]
           S == Nat
           one == 1
<1>1. step \in [Nat -> [S -> S]] /\ one \in S
  OBVIOUS
<1>2. ASSUME NEW f \in [Nat -> S], Follows(f, one, step)
      PROVE  PowersOf(f)
  <2>1. ASSUME NEW n \in Nat PROVE f[n] = IF n = 0 THEN 1 ELSE 2 * f[n - 1]
    <3>1. CASE n = 0
      BY <1>2, <3>1 DEF Follows
    <3>2. CASE n # 0
      <4>1. n - 1 \in Nat /\ n = (n - 1) + 1
        BY <3>2
      <4>2. f[(n - 1) + 1] = step[n - 1][f[n - 1]]
        BY <1>2, <4>1 DEF Follows
      <4> QED
        BY <3>2, <4>1, <4>2
    <3> QED
      BY <3>1, <3>2
  <2> QED
    BY <2>1 DEF PowersOf
<1> HIDE DEF step, S, one
<1>3. \E f : PowersOf(f)
  BY <1>1, <1>2, Recursion
<1>4. PowersOf(CHOOSE f : PowersOf(f))
  BY <1>3
<1> DEFINE p == TwoTo
<1>5. p = CHOOSE f : PowersOf(f)
  BY DEF TwoTo, PowersOf
<1> HIDE DEF p
<1>6. p = [n \in Nat |-> IF n = 0 THEN 1 ELSE 2 * p[n - 1]]
  <2>1. PowersOf(p)
    BY <1>4, <1>5
  <2> QED
    BY <2>1 DEF PowersOf
<1>7. p[0] = 1 /\ \A n \in Nat : p[n + 1] = 2 * p[n]
  BY <1>6
<1> DEFINE T == {n \in Nat : p[n] \in Nat \ {0}}
<1>8. 0 \in T /\ (\A n \in T : n + 1 \in T) /\ T \in SUBSET Nat
  BY <1>7
<1> HIDE DEF T
<1>9. T = Nat
  BY <1>8, Induct
<1>10. \A n \in Nat : p[n] \in Nat \ {0}
  BY <1>9 DEF T
<1>11. p = [n \in Nat |-> p[n]]
  BY <1>6
<1> QED
  BY <1>7, <1>10, <1>11 DEF p

(* A greater power is a multiple of a lesser one.                          *)
LEMMA TwoToGrows ==
  ASSUME NEW m \in Nat, NEW n \in Nat, m <= n
  PROVE  TwoTo[m] <= TwoTo[n]
<1> DEFINE T == {j \in Nat : TwoTo[m] <= TwoTo[m + j]}
<1>1. T \in SUBSET Nat
  OBVIOUS
<1>2. 0 \in T
  BY TwoToDef
<1>3. ASSUME NEW j \in T PROVE j + 1 \in T
  <2>1. j \in Nat /\ TwoTo[m] <= TwoTo[m + j]
    OBVIOUS
  <2>2. TwoTo[(m + j) + 1] = 2 * TwoTo[m + j] /\ TwoTo[m + j] \in Nat /\ TwoTo[m] \in Nat
    BY <2>1, TwoToDef
  <2>3. (m + j) + 1 = m + (j + 1)
    BY <2>1
  <2>4. TwoTo[m] <= TwoTo[m + (j + 1)]
    BY <2>1, <2>2, <2>3
  <2> QED
    BY <2>1, <2>4
<1> HIDE DEF T
<1>4. T = Nat
  BY <1>1, <1>2, <1>3, Induct
<1>5. n - m \in Nat /\ m + (n - m) = n
  OBVIOUS
<1>6. n - m \in T
  BY <1>4, <1>5
<1> QED
  BY <1>5, <1>6 DEF T

(* A number without its last bits.                                         *)
LEMMA BitsIs ==
  ASSUME NEW x \in Nat, NEW i \in Nat
  PROVE  /\ TestBit(x, i) \in {0, 1}
         /\ x \div TwoTo[i] \in Nat /\ x \div TwoTo[i + 1] \in Nat
         /\ x \div TwoTo[i] = 2 * (x \div TwoTo[i + 1]) + TestBit(x, i)
<1> DEFINE t == TwoTo[i]
           q == x \div t
<1>1. t \in Nat \ {0} /\ TwoTo[i + 1] = 2 * t
  BY TwoToDef
<1> HIDE DEF t
<1>2. q \in Nat
  BY <1>1, Parts
<1>3. x \div (2 * t) = q \div 2
  BY <1>1, DivDiv
<1> HIDE DEF q
<1>4. q \div 2 \in Nat /\ q % 2 \in {0, 1} /\ q = 2 * (q \div 2) + (q % 2)
  BY <1>2
<1>5. TestBit(x, i) = q % 2
  BY DEF TestBit, q, t
<1> QED
  BY <1>1, <1>2, <1>3, <1>4, <1>5 DEF q, t

(* Sums of exponents.                                                      *)
LEMMA TwoToPlus ==
  ASSUME NEW m \in Nat, NEW n \in Nat
  PROVE  TwoTo[m + n] = TwoTo[m] * TwoTo[n]
<1> DEFINE T == {j \in Nat : TwoTo[m + j] = TwoTo[m] * TwoTo[j]}
<1>1. T \in SUBSET Nat
  OBVIOUS
<1>2. 0 \in T
  <2>1. m + 0 = m /\ TwoTo[m] * 1 = TwoTo[m] /\ TwoTo[0] = 1
    BY TwoToDef
  <2> QED
    BY <2>1
<1>3. ASSUME NEW j \in T PROVE j + 1 \in T
  <2> DEFINE a == TwoTo[m]  b == TwoTo[j]  c == TwoTo[m + j]
  <2>1. j \in Nat /\ m + j \in Nat /\ (m + j) + 1 = m + (j + 1) /\ c = a * b
    OBVIOUS
  <2>2. TwoTo[(m + j) + 1] = 2 * c /\ TwoTo[j + 1] = 2 * b /\ a \in Nat /\ b \in Nat
    BY <2>1, TwoToDef
  <2> HIDE DEF a, b, c
  <2>3. 2 * (a * b) = a * (2 * b)
    BY <2>2
  <2>4. TwoTo[m + (j + 1)] = a * TwoTo[j + 1]
    BY <2>1, <2>2, <2>3
  <2> QED
    BY <2>1, <2>4 DEF a
<1> HIDE DEF T
<1>4. T = Nat
  BY <1>1, <1>2, <1>3, Induct
<1> QED
  BY <1>4 DEF T

(* The sizes of the two primes.                                            *)
LEMMA SizesAre ==
  /\ NBits \in Nat /\ NBits >= 3
  /\ LET h == TwoTo[NBits - 1]
     IN /\ h \in Nat /\ h >= 4 /\ TwoTo[NBits] = 2 * h /\ TwoTo[NBits + 1] = 4 * h
        /\ h < N /\ N < P /\ P < 2 * h
<1> DEFINE h == TwoTo[NBits - 1]
<1>1. /\ NBits \in Nat /\ NBits >= 1 /\ {N, P} \subseteq h .. TwoTo[NBits] - 1
      /\ N % 2 = 1 /\ N < P /\ N > 1 /\ N \in Nat
  BY EcdsaAssumption, FieldIs DEF Prime
<1>2. h \in Nat \ {0} /\ TwoTo[NBits] = 2 * h /\ TwoTo[NBits + 1] = 4 * h
  <2>1. NBits - 1 \in Nat /\ (NBits - 1) + 1 = NBits
    BY <1>1
  <2>2. TwoTo[(NBits - 1) + 1] = 2 * h /\ TwoTo[NBits + 1] = 2 * TwoTo[NBits] /\ h \in Nat \ {0}
    BY <1>1, <2>1, TwoToDef
  <2> QED
    BY <2>1, <2>2
<1>3. TwoTo[0] = 1 /\ TwoTo[1] = 2 /\ TwoTo[2] = 4
  <2>1. TwoTo[0 + 1] = 2 * TwoTo[0] /\ TwoTo[1 + 1] = 2 * TwoTo[1] /\ TwoTo[0] = 1
    BY TwoToDef
  <2>2. 0 + 1 = 1 /\ 1 + 1 = 2
    OBVIOUS
  <2> QED
    BY <2>1, <2>2
<1>4. NBits >= 3
  <2>1. NBits # 1
    <3> SUFFICES ASSUME NBits = 1 PROVE FALSE
      OBVIOUS
    <3>1. NBits - 1 = 0
      OBVIOUS
    <3> QED
      BY <1>1, <1>2, <1>3, <3>1
  <2>2. NBits # 2
    <3> SUFFICES ASSUME NBits = 2 PROVE FALSE
      OBVIOUS
    <3>1. NBits - 1 = 1
      OBVIOUS
    <3>2. h = 2
      BY <1>3, <3>1
    <3>3. N \in 2 .. 3 /\ P \in 2 .. 3
      BY <1>1, <1>2, <3>2
    <3>4. N = 2
      BY <1>1, <3>3
    <3> QED
      BY <1>1, <3>4
  <2> QED
    BY <1>1, <2>1, <2>2
<1>5. h >= 4 /\ h % 2 = 0
  <2>1. NBits - 2 \in Nat /\ (NBits - 2) + 1 = NBits - 1 /\ NBits - 1 \in Nat /\ 2 <= NBits - 1
    BY <1>1, <1>4
  <2>2. TwoTo[(NBits - 2) + 1] = 2 * TwoTo[NBits - 2] /\ TwoTo[NBits - 2] \in Nat
    BY <2>1, TwoToDef
  <2>3. h = 2 * TwoTo[NBits - 2]
    BY <2>1, <2>2
  <2>4. TwoTo[2] <= h
    BY <2>1, TwoToGrows
  <2> QED
    BY <1>2, <1>3, <2>2, <2>3, <2>4
<1>6. h # N
  BY <1>1, <1>5
<1> HIDE DEF h
<1>7. h < N /\ N < P /\ P < 2 * h
  BY <1>1, <1>2, <1>6
<1> QED
  BY <1>1, <1>2, <1>4, <1>5, <1>7 DEF h

(* Below 4 * n there are four multiples of n.                              *)
LEMMA FewMultiples ==
  ASSUME NEW x \in 0 .. 4 * N - 1, ~NotZero(x)
  PROVE  x \in {0, N, 2 * N, 3 * N}
<1>1. N \in Nat \ {0} /\ N > 2
  BY FieldIs
<1> DEFINE o == 0
<1>2. Same(x, o, N) /\ x \in Int /\ o \in Int
  BY DEF NotZero
<1>3. PICK q \in Int : x = o + N * q
  <2> HIDE DEF o
  <2> QED
    BY <1>1, <1>2, SameIs
<1>4. x = N * q
  BY <1>1, <1>3
<1>5. ASSUME q >= 4 PROVE FALSE
  <2>1. N * (q - 4) >= 0 /\ N * (q - 4) = N * q - 4 * N
    BY <1>1, <1>5
  <2> QED
    BY <1>1, <1>4, <2>1
<1>6. ASSUME q <= -1 PROVE FALSE
  <2>1. N * (-1 - q) >= 0 /\ N * (-1 - q) = -N - N * q
    BY <1>1, <1>6
  <2> QED
    BY <1>1, <1>4, <2>1
<1>7. q \in {0, 1, 2, 3}
  BY <1>5, <1>6
<1> QED
  BY <1>1, <1>4, <1>7

-----------------------------------------------------------------------------
(* The scalar of the ladder, with its leading bit.                         *)
Regular(m) == TwoTo[NBits] + RegularizeK(m)

(* regularize_k adds n, or n twice.                                        *)
LEMMA RegularIs ==
  ASSUME NEW m \in 1 .. N - 1
  PROVE  /\ RegularizeK(m) \in 0 .. TwoTo[NBits] - 1
         /\ \/ Regular(m) = m + N
            \/ Regular(m) = m + 2 * N /\ m + N < TwoTo[NBits]
<1> DEFINE h == TwoTo[NBits - 1]
           t == TwoTo[NBits]
           x == m + N
<1>1. h \in Nat /\ h >= 4 /\ t = 2 * h /\ h < N /\ N < 2 * h /\ N \in Nat /\ m \in Nat
      /\ t \in Nat \ {0}
  BY SizesAre, FieldIs
<1> HIDE DEF h, t
<1>2. CASE x >= t
  <2> DEFINE o == 1
  <2>1. x = t * o + (x - t) /\ x - t \in 0 .. t - 1 /\ o \in Nat
    BY <1>1, <1>2
  <2> HIDE DEF o
  <2>2. (t * o + (x - t)) % t = x - t /\ (t * o + (x - t)) \div t = o
    BY <1>1, <2>1, DivUnique
  <2>3. x % t = x - t /\ x \div t = 1
    BY <2>1, <2>2 DEF o
  <2>4. RegularizeK(m) = x - t
    BY <2>3 DEF RegularizeK, t
  <2>5. Regular(m) = m + N
    BY <1>1, <2>4 DEF Regular, t
  <2> QED
    BY <2>1, <2>4, <2>5 DEF t
<1>3. CASE x < t
  <2> DEFINE o == 0  e == 1  y == x + N
  <2>1. x = t * o + x /\ x \in 0 .. t - 1 /\ o \in Nat
    BY <1>1, <1>3
  <2> HIDE DEF o
  <2>2. (t * o + x) % t = x /\ (t * o + x) \div t = o
    BY <1>1, <2>1, DivUnique
  <2>3. x % t = x /\ x \div t = 0
    BY <2>1, <2>2 DEF o
  <2>4. RegularizeK(m) = y % t
    BY <2>3 DEF RegularizeK, t
  <2>5. y = t * e + (y - t) /\ y - t \in 0 .. t - 1 /\ e \in Nat
    BY <1>1, <1>3
  <2> HIDE DEF e, y
  <2>6. (t * e + (y - t)) % t = y - t
    BY <1>1, <2>5, DivUnique
  <2>7. RegularizeK(m) = y - t
    BY <2>4, <2>5, <2>6
  <2>8. Regular(m) = m + 2 * N
    BY <1>1, <2>7 DEF Regular, t, y
  <2> QED
    BY <1>3, <2>5, <2>7, <2>8 DEF t
<1> QED
  BY <1>1, <1>2, <1>3

(* What there is of it above bit i.                                        *)
LEMMA PrefixIs ==
  ASSUME NEW m \in 1 .. N - 1
  PROVE  /\ Regular(m) \in Nat /\ Regular(m) \in TwoTo[NBits] .. TwoTo[NBits + 1] - 1
         /\ Same(Regular(m), m, N)
         /\ Regular(m) \div TwoTo[NBits] = 1
         /\ Regular(m) \div TwoTo[0] = Regular(m)
         /\ \A i \in 0 .. NBits - 1 :
              /\ Regular(m) \div TwoTo[i + 1] \in Nat
              /\ TestBit(RegularizeK(m), i) \in {0, 1}
              /\ Regular(m) \div TwoTo[i]
                   = 2 * (Regular(m) \div TwoTo[i + 1]) + TestBit(RegularizeK(m), i)
<1> DEFINE t == TwoTo[NBits]
           s == RegularizeK(m)
           r == Regular(m)
<1>1. /\ t \in Nat \ {0} /\ TwoTo[NBits + 1] = 2 * t /\ NBits \in Nat
      /\ s \in 0 .. t - 1 /\ s \in Nat
      /\ r = t + s
  BY SizesAre, TwoToDef, RegularIs DEF Regular
<1>2. Same(r, m, N)
  <2>1. N \in Nat \ {0} /\ r \in Int /\ m \in Int
    BY <1>1, FieldIs
  <2>2. r = m + N \/ r = m + 2 * N
    BY RegularIs
  <2> HIDE DEF r
  <2>3. PICK q \in Int : r = m + N * q
    <3>1. CASE r = m + N
      <4>1. N = N * 1 /\ 1 \in Int
        BY <2>1
      <4> QED
        BY <3>1, <4>1
    <3>2. CASE r = m + 2 * N
      <4>1. 2 * N = N * 2 /\ 2 \in Int
        BY <2>1
      <4> QED
        BY <3>2, <4>1
    <3> QED
      BY <2>2, <3>1, <3>2
  <2> QED
    BY <2>1, <2>3, SameIs
<1> HIDE DEF r, s
<1>3. r \in Nat /\ r \in t .. 2 * t - 1
  BY <1>1
<1>4. r \div t = 1
  <2> DEFINE o == 1
  <2>1. r = t * o + s /\ o \in Nat
    BY <1>1
  <2> HIDE DEF t, o
  <2> QED
    BY <1>1, <2>1, DivUnique DEF o
<1>5. r \div TwoTo[0] = r
  <2>1. TwoTo[0] = 1 /\ r \div 1 = r
    BY <1>3, TwoToDef
  <2> QED
    BY <2>1
<1>6. ASSUME NEW i \in 0 .. NBits - 1
      PROVE  TestBit(r, i) = TestBit(s, i)
  <2> DEFINE j == NBits - 1 - i
             a == TwoTo[i]
             b == TwoTo[j]
             q == s \div a
             e == s % a
  <2>1. i \in Nat /\ j \in Nat /\ i + (j + 1) = NBits /\ j + 1 \in Nat
    BY <1>1
  <2>2. TwoTo[i + (j + 1)] = a * TwoTo[j + 1] /\ TwoTo[j + 1] = 2 * b
        /\ a \in Nat \ {0} /\ b \in Nat
    BY <2>1, TwoToDef, TwoToPlus
  <2>3. t = a * (2 * b)
    BY <2>1, <2>2
  <2> HIDE DEF t, a, b, j
  <2>4. q \in Nat /\ e \in 0 .. a - 1 /\ s = a * q + e
    BY <1>1, <2>2, Parts
  <2> HIDE DEF q, e
  <2>5. r = a * (2 * b + q) + e /\ 2 * b + q \in Nat
    BY <1>1, <2>2, <2>3, <2>4
  <2>6. (a * (2 * b + q) + e) \div a = 2 * b + q
    BY <2>2, <2>4, <2>5, DivUnique
  <2>7. r \div a = 2 * b + q
    BY <2>5, <2>6
  <2>8. (2 * b + q) % 2 = q % 2
    BY <2>2, <2>4
  <2> QED
    BY <2>7, <2>8 DEF TestBit, a, q
<1>7. ASSUME NEW i \in 0 .. NBits - 1
      PROVE  /\ r \div TwoTo[i + 1] \in Nat
             /\ TestBit(s, i) \in {0, 1}
             /\ r \div TwoTo[i] = 2 * (r \div TwoTo[i + 1]) + TestBit(s, i)
  <2>1. i \in Nat
    BY <1>1
  <2> QED
    BY <1>3, <1>6, <2>1, BitsIs
<1> QED
  BY <1>1, <1>2, <1>3, <1>4, <1>5, <1>7 DEF r, s, t

(* Three multiples that must not be of the order.                          *)
Apart(m) == NotZero(m) /\ NotZero(m + 1) /\ NotZero(2 * m + 1)

(* They are not before bit 1; there, and at bit 0, only for the multiples  *)
(* that are unreachable, which all are met at bit 1.                       *)
LEMMA ApartIs ==
  ASSUME NEW k1 \in 1 .. N - 1, NEW i \in 0 .. NBits - 1
  PROVE  LET m == Regular(k1) \div TwoTo[i + 1]
         IN /\ i > 1 => Apart(m)
            /\ k1 \notin Unreachable => Apart(m)
            /\ k1 \in Unreachable /\ i = 1 => 2 * m + 1 = N /\ NotZero(m) /\ NotZero(m + 1)
<1> DEFINE h == TwoTo[NBits - 1]
           r == Regular(k1)
           t == TwoTo[i + 1]
           m == r \div t
<1>1. /\ h \in Nat /\ h >= 4 /\ h < N /\ N < P /\ P < 2 * h /\ N \in Nat /\ k1 \in Nat
      /\ r \in Nat /\ r \in 2 * h .. 4 * h - 1 /\ N > 2 /\ N % 2 = 1 /\ P \in Nat
      /\ (r = k1 + N \/ (r = k1 + 2 * N /\ k1 + N < 2 * h))
      /\ i \in Nat /\ NBits \in Nat
      /\ k1 >= 1 /\ k1 <= N - 1
  <2>1. /\ h \in Nat /\ h >= 4 /\ h < N /\ N < P /\ P < 2 * h /\ NBits \in Nat
        /\ TwoTo[NBits] = 2 * h /\ TwoTo[NBits + 1] = 4 * h
    BY SizesAre
  <2>2. N \in Nat /\ N > 2 /\ N % 2 = 1 /\ P \in Nat
    BY FieldIs
  <2>3. r \in Nat /\ r \in TwoTo[NBits] .. TwoTo[NBits + 1] - 1
    BY PrefixIs
  <2>4. r = k1 + N \/ (r = k1 + 2 * N /\ k1 + N < TwoTo[NBits])
    BY RegularIs
  <2> HIDE DEF h, r
  <2>5. r \in 2 * h .. 4 * h - 1
    BY <2>1, <2>3
  <2>6. r = k1 + N \/ (r = k1 + 2 * N /\ k1 + N < 2 * h)
    BY <2>1, <2>4
  <2>7. i \in Nat /\ k1 \in Nat /\ k1 >= 1 /\ k1 <= N - 1
    BY <2>1, <2>2
  <2> QED
    BY <2>1, <2>2, <2>3, <2>5, <2>6, <2>7
<1> HIDE DEF h, r
<1>2. /\ t \in Nat \ {0} /\ m \in Nat /\ t * m <= r /\ r < t * m + t
  <2>1. t \in Nat \ {0}
    BY <1>1, TwoToDef
  <2> HIDE DEF t
  <2>2. r \div t \in Nat /\ r % t \in 0 .. t - 1 /\ t * (r \div t) + (r % t) = r
    BY <1>1, <2>1, Parts
  <2> DEFINE e == r % t
  <2> HIDE DEF m, e
  <2>3. m \in Nat /\ e \in 0 .. t - 1 /\ t * m + e = r
    BY <2>2 DEF m, e
  <2>4. t * m \in Nat
    BY <2>1, <2>3
  <2> QED
    BY <2>1, <2>3, <2>4
<1>3. TwoTo[1] = 2 /\ TwoTo[2] = 4 /\ TwoTo[3] = 8
  <2>1. /\ TwoTo[0 + 1] = 2 * TwoTo[0] /\ TwoTo[1 + 1] = 2 * TwoTo[1] /\ TwoTo[0] = 1
        /\ TwoTo[2 + 1] = 2 * TwoTo[2]
    BY TwoToDef
  <2>2. 0 + 1 = 1 /\ 1 + 1 = 2 /\ 2 + 1 = 3
    OBVIOUS
  <2> QED
    BY <2>1, <2>2
<1>4. i = 0 => t = 2
  BY <1>3
<1>5. i = 1 => t = 4
  BY <1>3
<1>6. i > 1 => t >= 8
  <2> SUFFICES ASSUME i > 1 PROVE t >= 8
    OBVIOUS
  <2>1. 3 <= i + 1 /\ 3 \in Nat /\ i + 1 \in Nat
    BY <1>1
  <2>2. TwoTo[3] <= TwoTo[i + 1]
    BY <2>1, TwoToGrows
  <2> QED
    BY <1>3, <2>2
<1>7. m >= 1
  <2> SUFFICES ASSUME m = 0 PROVE FALSE
    BY <1>2
  <2>1. t <= 2 * h
    <3>1. i + 1 <= NBits /\ i + 1 \in Nat
      BY <1>1
    <3>2. TwoTo[i + 1] <= TwoTo[NBits]
      BY <1>1, <3>1, TwoToGrows
    <3> QED
      BY <3>2, SizesAre DEF h
  <2>2. r < t
    BY <1>2
  <2> QED
    BY <1>1, <1>2, <2>1, <2>2
<1> HIDE DEF t, m
<1>8. ASSUME NEW x \in Int, x > 0, x < N PROVE NotZero(x)
  <2>1. x \in 0 .. 4 * N - 1 /\ x \notin {0, N, 2 * N, 3 * N}
    BY <1>1, <1>8
  <2> QED
    BY <2>1, FewMultiples
<1>9. ASSUME i > 1 PROVE Apart(m)
  <2>1. t * m >= 8 * m
    <3>1. (t - 8) * m >= 0 /\ (t - 8) * m = t * m - 8 * m
      BY <1>2, <1>6, <1>9
    <3>2. t * m \in Nat
      BY <1>2
    <3> QED
      BY <1>2, <3>1, <3>2
  <2>2. 2 * m + 1 <= h
    <3>1. t * m \in Nat
      BY <1>2
    <3> QED
      BY <1>1, <1>2, <2>1, <3>1
  <2> QED
    BY <1>1, <1>2, <1>7, <1>8, <2>2 DEF Apart
<1>10. ASSUME i = 1 PROVE /\ m + 1 < N /\ 4 * m <= r /\ r < 4 * m + 4
  <2>1. 4 * m <= r /\ r < 4 * m + 4
    BY <1>2, <1>5, <1>10
  <2> QED
    BY <1>1, <1>2, <2>1
<1>11. ASSUME i = 1 PROVE NotZero(m) /\ NotZero(m + 1)
  BY <1>1, <1>2, <1>7, <1>8, <1>10, <1>11
<1>12. ASSUME i = 1, k1 \notin Unreachable PROVE NotZero(2 * m + 1)
  <2> SUFFICES ASSUME ~NotZero(2 * m + 1) PROVE FALSE
    OBVIOUS
  <2>1. 2 * m + 1 \in 0 .. 4 * N - 1 /\ 2 * m + 1 < 2 * N
    BY <1>1, <1>2, <1>10, <1>12
  <2>2. 2 * m + 1 = N
    <3>1. 2 * m + 1 \in {0, N, 2 * N, 3 * N}
      BY <2>1, FewMultiples
    <3> QED
      BY <1>1, <1>2, <2>1, <3>1
  <2> QED
    BY <1>1, <1>2, <1>10, <1>12, <2>2 DEF Unreachable
<1>13. ASSUME i = 1, k1 \in Unreachable PROVE 2 * m + 1 = N
  <2>1. PICK j \in Nat : N = 2 * j + 1
    <3>1. N = 2 * (N \div 2) + 1 /\ N \div 2 \in Nat
      BY <1>1
    <3> QED
      BY <3>1
  <2>2. r = 2 * N + 1 \/ r = 2 * N - 2 \/ r = 2 * N - 1
    <3>1. CASE k1 = 1
      BY <1>1, <3>1
    <3>2. CASE k1 = N - 2
      BY <1>1, <3>2
    <3>3. CASE k1 = N - 1
      BY <1>1, <3>3
    <3> QED
      BY <1>13, <3>1, <3>2, <3>3 DEF Unreachable
  <2>3. m = j
    BY <1>1, <1>2, <1>10, <1>13, <2>1, <2>2
  <2> QED
    BY <2>1, <2>3
<1>14. ASSUME i = 0, k1 \notin Unreachable PROVE Apart(m)
  <2>1. 2 * m <= r /\ r < 2 * m + 2
    BY <1>2, <1>4, <1>14
  <2>2. k1 # 1 /\ k1 # N - 2 /\ k1 # N - 1 /\ k1 >= 1 /\ k1 <= N - 1
    BY <1>1, <1>14 DEF Unreachable
  <2>3. NotZero(m)
    <3> SUFFICES ASSUME ~NotZero(m) PROVE FALSE
      OBVIOUS
    <3>1. m \in 0 .. 4 * N - 1 /\ m < 2 * N
      BY <1>1, <1>2, <2>1
    <3>2. m = N
      <4>1. m \in {0, N, 2 * N, 3 * N}
        BY <3>1, FewMultiples
      <4> QED
        BY <1>1, <1>7, <3>1, <4>1
    <3> QED
      BY <1>1, <2>1, <2>2, <3>2
  <2>4. NotZero(m + 1)
    <3> SUFFICES ASSUME ~NotZero(m + 1) PROVE FALSE
      OBVIOUS
    <3>1. m + 1 \in 0 .. 4 * N - 1 /\ m + 1 < 2 * N
      BY <1>1, <1>2, <2>1
    <3>2. m + 1 = N
      <4>1. m + 1 \in {0, N, 2 * N, 3 * N}
        BY <3>1, FewMultiples
      <4> QED
        BY <1>1, <1>2, <3>1, <4>1
    <3>3. m = N - 1
      BY <1>1, <1>2, <3>2
    <3>4. r = 2 * N - 2 \/ r = 2 * N - 1
      BY <1>1, <2>1, <3>3
    <3> QED
      BY <1>1, <2>2, <3>4
  <2>5. NotZero(2 * m + 1)
    <3> SUFFICES ASSUME ~NotZero(2 * m + 1) PROVE FALSE
      OBVIOUS
    <3>1. 2 * m + 1 \in 0 .. 4 * N - 1
      BY <1>1, <1>2, <2>1
    <3>2. 2 * m + 1 = N \/ 2 * m + 1 = 3 * N
      <4>1. 2 * m + 1 \in {0, N, 2 * N, 3 * N}
        BY <3>1, FewMultiples
      <4> QED
        BY <1>1, <1>2, <4>1
    <3>3. CASE 2 * m + 1 = N
      <4>1. r < N + 1
        BY <1>1, <1>2, <2>1, <3>3
      <4> QED
        BY <1>1, <2>2, <4>1
    <3>4. CASE 2 * m + 1 = 3 * N
      <4>1. r = 3 * N - 1 \/ r = 3 * N
        BY <1>1, <1>2, <2>1, <3>4
      <4> QED
        BY <1>1, <2>2, <4>1
    <3> QED
      BY <3>2, <3>3, <3>4
  <2> QED
    BY <2>3, <2>4, <2>5 DEF Apart
<1>15. i > 1 => Apart(m)
  BY <1>9
<1>16. k1 \notin Unreachable => Apart(m)
  <2>1. i = 0 \/ i = 1 \/ i > 1
    BY <1>1
  <2> QED
    BY <1>9, <1>11, <1>12, <1>14, <2>1 DEF Apart
<1>17. k1 \in Unreachable /\ i = 1 => 2 * m + 1 = N /\ NotZero(m) /\ NotZero(m + 1)
  BY <1>11, <1>13
<1> QED
  BY <1>15, <1>16, <1>17 DEF m, r, t

(* The start of the ladder: the point and its double, over one Z.          *)
LEMMA StartsAt ==
  ASSUME NEW b \in Int, NotZero(b), NEW initial_Z \in InitialZs
  PROVE  LET double == DoubleJacobian(ApplyZ(Multiple(b), initial_Z), initial_Z)
         IN \E z \in Int : /\ Mod(z) # 0
                           /\ ApplyZ(Multiple(b), double.z) = At(b, z)
                           /\ double.point = At(2 * b, z)
<1> DEFINE y == At(b, initial_Z)[2]  z == Mod(y * initial_Z)
<1>1. initial_Z \in 1 .. P - 1 /\ initial_Z \in Int /\ initial_Z # 0 /\ Mod(initial_Z) # 0
  <2>1. initial_Z \in 1 .. P - 1 /\ P \in Nat
    BY EcdsaAssumption, FieldIs
  <2>2. Mod(initial_Z) = initial_Z
    BY <2>1, ModSmall
  <2> QED
    BY <2>1, <2>2
<1>2. /\ y \in 1 .. P - 1
      /\ DoubleJacobian(At(b, initial_Z), initial_Z)
           = [point |-> At(2 * b, initial_Z * y), z |-> z]
  BY <1>1, AtDouble
<1>3. y \in Int /\ Mod(y) # 0
  <2>1. y \in 1 .. P - 1 /\ P \in Nat
    BY <1>2, FieldIs
  <2> HIDE DEF y
  <2>2. Mod(y) = y
    BY <2>1, ModSmall
  <2> QED
    BY <2>1, <2>2
<1>4. y * initial_Z \in Int /\ Mod(y * initial_Z) # 0 /\ y * initial_Z = initial_Z * y
  <2> HIDE DEF y
  <2> QED
    BY <1>1, <1>3, ZTimes
<1>5. z \in Int /\ z \cong y * initial_Z /\ Mod(z) # 0
  <2> DEFINE t == y * initial_Z
  <2>1. t \in Int /\ Mod(t) # 0
    BY <1>4
  <2> HIDE DEF t
  <2>2. Mod(t) \in Int /\ Mod(t) \cong t
    BY <2>1, ModIs
  <2>3. Mod(Mod(t)) # 0
    BY <2>1, <2>2 DEF \cong
  <2> QED
    BY <2>2, <2>3 DEF t
<1>6. At(2 * b, initial_Z * y) = At(2 * b, z)
  <2> DEFINE t == y * initial_Z
  <2>1. 2 * b \in Int /\ NotZero(2 * b)
    <3>1. NotZero(2)
      <4>1. 2 \in 1 .. N - 1 /\ 2 \in Int
        BY FieldIs
      <4>2. 2 % N = 2
        BY <4>1, FieldIs, SameSmall
      <4> QED
        BY <4>1, <4>2, NotZeroRest
    <3> DEFINE two == 2
    <3> HIDE DEF two
    <3>2. two \in Int /\ NotZero(two)
      BY <3>1 DEF two
    <3>3. NotZero(two * b)
      BY <3>2, FieldIs, NoZeroDivisors DEF NotZero
    <3> QED
      BY <3>3 DEF two
  <2>2. Multiple(2 * b) = <<Multiple(2 * b)[1], Multiple(2 * b)[2]>>
        /\ Multiple(2 * b)[1] \in Int /\ Multiple(2 * b)[2] \in Int
    <3>1. Multiple(2 * b) \in (1 .. P - 1) \X (1 .. P - 1)
      BY <2>1, MultipleIs
    <3> QED
      BY <3>1
  <2>3. t \in Int /\ t \cong z /\ t = initial_Z * y
    BY <1>4, <1>5 DEF \cong
  <2> HIDE DEF t, z, y
  <2> QED
    BY <1>5, <2>2, <2>3, ApplyZSame DEF At
<1> QED
  BY <1>2, <1>5, <1>6 DEF At

(* Products of numbers that are not zero modulo n.                         *)
LEMMA NotZeroTimes ==
  ASSUME NEW l \in Int, NEW m \in Int, NotZero(l), NotZero(m)
  PROVE  NotZero(l * m)
BY FieldIs, NoZeroDivisors DEF NotZero

(* A scalar below n is not a multiple of it.                               *)
LEMMA NotZeroSmall ==
  ASSUME NEW m \in 1 .. N - 1
  PROVE  NotZero(m) /\ m \in Int
<1>1. m \in 0 .. N - 1 /\ m \in Int /\ N \in Nat \ {0}
  BY FieldIs
<1>2. m % N = m
  BY <1>1, SameSmall
<1> QED
  BY <1>1, <1>2, NotZeroRest

(* Two is not a multiple of n, which is an odd prime.                      *)
LEMMA NotZeroTwo == NotZero(2)
<1>1. 2 \in 1 .. N - 1
  BY FieldIs
<1> QED
  BY <1>1, NotZeroSmall

(* The opposite of a scalar that is not a multiple is not one.             *)
LEMMA NotZeroMinus ==
  ASSUME NEW m \in Int, NotZero(m)
  PROVE  NotZero(-m)
<1> DEFINE o == 0  n == -m
<1>1. SUFFICES ASSUME Same(n, o, N) PROVE FALSE
  BY DEF NotZero
<1>2. n \in Int /\ o \in Int /\ o - n = m /\ o - o = 0
  OBVIOUS
<1> HIDE DEF n, o
<1>3. Same(o - n, o - o, N)
  <2>1. Same(o, o, N)
    BY DEF Same
  <2> QED
    BY <1>1, <1>2, <2>1, FieldIs, SameOps
<1> QED
  BY <1>2, <1>3 DEF NotZero, Same, o

(* One turn of the ladder with the multiples m and m + 1 of a point; u is  *)
(* the bit.                                                                *)
TurnsTo(b, m, z, u, sums) ==
  LET next == XYcZAdd(sums[2], sums[1])
      t == sums[1][1] - sums[2][1]
  IN \E w \in Int : /\ Mod(w) # 0 /\ t \in Int /\ Mod(t) # 0
                    /\ sums[1] = At((2 * u - 1) * b, w)
                    /\ next = <<At((2 * m + 1) * b, w * t), At((2 * (m + u)) * b, w * t)>>

(* One turn of the ladder, from neighbouring multiples over a Z.           *)
LEMMA TurnAt ==
  ASSUME NEW b \in Int, NotZero(b), NEW m \in Int, Apart(m), NEW z \in Int, Mod(z) # 0,
         NEW u \in {0, 1}
  PROVE  TurnsTo(b, m, z, u, XYcZAddC(At((m + u) * b, z), At((m + 1 - u) * b, z)))
<1> DEFINE l == (m + u) * b
           n == (m + 1 - u) * b
           p == (2 * u - 1) * b
           q == (2 * m + 1) * b
           r == (2 * (m + u)) * b
<1> DEFINE a == m + u
           c == m + 1 - u
<1>1. a \in Int /\ c \in Int /\ l = a * b /\ n = c * b /\ l \in Int /\ n \in Int
  OBVIOUS
<1>2. NotZero(a) /\ NotZero(c)
  <2>1. CASE u = 0
    <3>1. a = m /\ c = m + 1
      BY <2>1
    <3> QED
      BY <3>1 DEF Apart
  <2>2. CASE u = 1
    <3>1. a = m + 1 /\ c = m
      BY <2>2
    <3> QED
      BY <3>1 DEF Apart
  <2> QED
    BY <2>1, <2>2
<1>3. l + n = q /\ l - n = p /\ 2 * l = r
  <2>1. a + c = 2 * m + 1 /\ a - c = 2 * u - 1
    OBVIOUS
  <2> HIDE DEF a, c
  <2>2. l + n = (a + c) * b /\ l - n = (a - c) * b /\ 2 * l = (2 * a) * b
    BY <1>1
  <2> QED
    BY <2>1, <2>2 DEF a
<1>4. NotZero(q)
  <2> DEFINE f == 2 * m + 1
  <2>1. f \in Int /\ NotZero(f)
    BY DEF Apart
  <2> HIDE DEF f
  <2>2. NotZero(f * b)
    BY <2>1, NotZeroTimes
  <2> QED
    BY <2>2 DEF f
<1>5. NotZero(p)
  <2>1. CASE u = 1
    <3>1. (2 * u - 1) * b = b
      BY <2>1
    <3> QED
      BY <3>1
  <2>2. CASE u = 0
    <3>1. (2 * u - 1) * b = -b
      BY <2>2
    <3> QED
      BY <3>1, NotZeroMinus
  <2> QED
    BY <2>1, <2>2
<1>6. NotZero(l) /\ NotZero(n)
  <2> HIDE DEF a, c
  <2> QED
    BY <1>1, <1>2, NotZeroTimes
<1> HIDE DEF a, c
<1> HIDE DEF l, n, p, q, r
<1>7. l \in Int /\ n \in Int /\ NotZero(l) /\ NotZero(n) /\ NotZero(l + n) /\ NotZero(l - n)
  BY <1>1, <1>3, <1>4, <1>5, <1>6
<1>8. NotZero(2 * l) /\ NotZero(2 * n)
  <2> DEFINE two == 2
  <2>1. two \in Int /\ NotZero(two)
    BY NotZeroTwo
  <2> HIDE DEF two
  <2>2. NotZero(two * l) /\ NotZero(two * n)
    BY <1>7, <2>1, NotZeroTimes
  <2> QED
    BY <2>2 DEF two
<1> DEFINE sums == XYcZAddC(At(l, z), At(n, z))
           t == sums[1][1] - sums[2][1]
           next == XYcZAdd(sums[2], sums[1])
<1>9. PICK w \in Int : /\ Mod(w) # 0 /\ t \in Int /\ Mod(t) # 0
                       /\ sums = <<At(l - n, w), At(l + n, w)>>
                       /\ next = <<At(l + n, w * t), At(2 * l, w * t)>>
  BY <1>7, <1>8, TurnIs
<1>10. sums[1] = At(l - n, w)
  <2> HIDE DEF sums
  <2> QED
    BY <1>9
<1>11. /\ Mod(w) # 0 /\ t \in Int /\ Mod(t) # 0
       /\ sums[1] = At(p, w)
       /\ next = <<At(q, w * t), At(r, w * t)>>
  BY <1>3, <1>9, <1>10
<1> HIDE DEF sums
<1>12. TurnsTo(b, m, z, u, sums)
  <2> SUFFICES \E v \in Int : /\ Mod(v) # 0 /\ t \in Int /\ Mod(t) # 0
                              /\ sums[1] = At(p, v)
                              /\ next = <<At(q, v * t), At(r, v * t)>>
    BY DEF TurnsTo, p, q, r
  <2> HIDE DEF t, next
  <2> QED
    BY <1>11
<1> QED
  BY <1>12 DEF sums, l, n

(* The two points of the ladder: multiples of b by m and m + 1, or, after  *)
(* a sum of opposite points, a point of the cusp and (0, 0).               *)
Regularly(R, m, b) ==
  \E z \in Int : Mod(z) # 0 /\ R[0] = At(m * b, z) /\ R[1] = At((m + 1) * b, z)
Collapsed(R) ==
  \E w \in Int : /\ Mod(w) # 0
                 /\ \/ R[0] = Cusp(w) /\ R[1] = <<0, 0>>
                    \/ R[1] = Cusp(w) /\ R[0] = <<0, 0>>

(* What LadderStep makes of them.                                          *)
Turned(R, nb) ==
  LET sums == XYcZAddC(R[1 - nb], R[nb])
      next == XYcZAdd(sums[2], sums[1])
  IN [R EXCEPT ![nb] = next[1], ![1 - nb] = next[2]]

(* The two points after a turn.                                            *)
LEMMA TurnedIs ==
  ASSUME NEW S, NEW R \in [0 .. 1 -> S], NEW nb \in 0 .. 1,
         NEW sums, NEW next,
         sums = XYcZAddC(R[1 - nb], R[nb]), next = XYcZAdd(sums[2], sums[1])
  PROVE  /\ nb = 0 => Turned(R, nb)[0] = next[1] /\ Turned(R, nb)[1] = next[2]
         /\ nb = 1 => Turned(R, nb)[1] = next[1] /\ Turned(R, nb)[0] = next[2]
<1>1. Turned(R, nb) = [R EXCEPT ![nb] = next[1], ![1 - nb] = next[2]]
  BY DEF Turned
<1>2. CASE nb = 0
  <2>1. nb = 0 /\ 1 - nb = 1
    BY <1>2
  <2> QED
    BY <1>1, <2>1
<1>3. CASE nb = 1
  <2>1. nb = 1 /\ 1 - nb = 0
    BY <1>3
  <2> QED
    BY <1>1, <2>1
<1> QED
  BY <1>2, <1>3

(* A regular turn.                                                         *)
LEMMA RegularTurn ==
  ASSUME NEW b \in Int, NotZero(b), NEW m \in Int, Apart(m), NEW u \in {0, 1},
         NEW S, NEW R \in [0 .. 1 -> S], Regularly(R, m, b)
  PROVE  Regularly(Turned(R, 1 - u), 2 * m + u, b)
<1> DEFINE nb == 1 - u
           sums == XYcZAddC(R[1 - nb], R[nb])
           next == XYcZAdd(sums[2], sums[1])
           t == sums[1][1] - sums[2][1]
<1>1. PICK z \in Int : Mod(z) # 0 /\ R[0] = At(m * b, z) /\ R[1] = At((m + 1) * b, z)
  BY DEF Regularly
<1>2. R[1 - nb] = At((m + u) * b, z) /\ R[nb] = At((m + 1 - u) * b, z)
  <2>1. CASE u = 0
    <3>1. 1 - nb = 0 /\ nb = 1 /\ m + u = m /\ m + 1 - u = m + 1
      BY <2>1
    <3> HIDE DEF nb
    <3> QED
      BY <1>1, <3>1
  <2>2. CASE u = 1
    <3>1. 1 - nb = 1 /\ nb = 0 /\ m + u = m + 1 /\ m + 1 - u = m
      BY <2>2
    <3> HIDE DEF nb
    <3> QED
      BY <1>1, <3>1
  <2> QED
    BY <2>1, <2>2
<1>3. PICK w \in Int :
        /\ Mod(w) # 0 /\ t \in Int /\ Mod(t) # 0
        /\ next = <<At((2 * m + 1) * b, w * t), At((2 * (m + u)) * b, w * t)>>
  <2>1. sums = XYcZAddC(At((m + u) * b, z), At((m + 1 - u) * b, z))
    BY <1>2
  <2> HIDE DEF sums
  <2>2. TurnsTo(b, m, z, u, sums)
    BY <1>1, <2>1, TurnAt
  <2>3. \E w \in Int :
          /\ Mod(w) # 0 /\ t \in Int /\ Mod(t) # 0
          /\ sums[1] = At((2 * u - 1) * b, w)
          /\ next = <<At((2 * m + 1) * b, w * t), At((2 * (m + u)) * b, w * t)>>
    BY <2>2 DEF TurnsTo
  <2> HIDE DEF t, next
  <2> QED
    BY <2>3
<1>4. nb \in 0 .. 1 /\ (nb = 0 <=> u = 1) /\ (nb = 1 <=> u = 0)
  OBVIOUS
<1>5. /\ nb = 0 => Turned(R, nb)[0] = next[1] /\ Turned(R, nb)[1] = next[2]
      /\ nb = 1 => Turned(R, nb)[1] = next[1] /\ Turned(R, nb)[0] = next[2]
  <2> HIDE DEF nb
  <2> QED
    BY <1>4, TurnedIs
<1>6. w * t \in Int /\ Mod(w * t) # 0
  <2> HIDE DEF t
  <2> QED
    BY <1>3, ZTimes
<1>7. Turned(R, nb)[0] = At((2 * m + u) * b, w * t)
      /\ Turned(R, nb)[1] = At((2 * m + u + 1) * b, w * t)
  <2>1. CASE u = 0
    <3>1. 2 * (m + u) = 2 * m + u /\ 2 * m + 1 = 2 * m + u + 1
      BY <2>1
    <3> HIDE DEF nb, next, t
    <3> QED
      BY <1>3, <1>4, <1>5, <2>1, <3>1
  <2>2. CASE u = 1
    <3>1. 2 * (m + u) = 2 * m + u + 1 /\ 2 * m + 1 = 2 * m + u
      BY <2>2
    <3> HIDE DEF nb, next, t
    <3> QED
      BY <1>3, <1>4, <1>5, <2>2, <3>1
  <2> QED
    BY <2>1, <2>2
<1> HIDE DEF t, next
<1> QED
  BY <1>6, <1>7 DEF Regularly

(* The turn of the multiples that cannot be reached.                       *)
LEMMA CollapsingTurn ==
  ASSUME NEW b \in Int, NotZero(b), NEW m \in Int, NotZero(m), 2 * m + 1 = N,
         NEW u \in {0, 1}, NEW S, NEW R \in [0 .. 1 -> S], Regularly(R, m, b)
  PROVE  Collapsed(Turned(R, 1 - u))
<1> DEFINE nb == 1 - u
           sums == XYcZAddC(R[1 - nb], R[nb])
           next == XYcZAdd(sums[2], sums[1])
           l == m * b
<1>1. PICK z \in Int : Mod(z) # 0 /\ R[0] = At(l, z) /\ R[1] = At((m + 1) * b, z)
  BY DEF Regularly
<1>2. l \in Int /\ NotZero(l)
  BY NotZeroTimes
<1>3. Multiple((m + 1) * b) = Opposite(Multiple(l))
  <2> DEFINE n == (m + 1) * b
  <2>1. n = -l + N * b /\ n \in Int /\ -l \in Int
    <3>1. n = -(m * b) + (2 * m + 1) * b /\ n \in Int
      OBVIOUS
    <3> QED
      BY <3>1
  <2> HIDE DEF n, l
  <2>2. Same(n, -l, N)
    BY <2>1, FieldIs, SameIs
  <2>3. Multiple(n) = Multiple(-l)
    BY <2>1, <2>2, MultipleSame
  <2> QED
    BY <1>2, <2>3, MultipleIs DEF n
<1> DEFINE x == At(l, z)[1]  y == At(l, z)[2]  a == Multiple(l)[1]  c == Multiple(l)[2]
<1>4. /\ At(l, z) = <<x, y>> /\ x \in 1 .. P - 1 /\ y \in 1 .. P - 1
      /\ x \cong a * (z * z) /\ y \cong c * (z * z * z)
      /\ Multiple(l) = <<a, c>> /\ a \in 1 .. P - 1 /\ c \in 1 .. P - 1
  BY <1>1, <1>2, AtIs
<1> HIDE DEF x, y, a, c
<1>5. At((m + 1) * b, z) = <<x, P - y>>
  <2>1. At((m + 1) * b, z) = ApplyZ(<<a, P - c>>, z)
    BY <1>3, <1>4 DEF At, Opposite
  <2>2. At(l, z) = ApplyZ(<<a, c>>, z)
    BY <1>4 DEF At
  <2>3. ApplyZ(<<a, c>>, z) = <<Mod(a * z * z), Mod(c * Mod(z * z * z))>>
        /\ ApplyZ(<<a, P - c>>, z) = <<Mod(a * z * z), Mod((P - c) * Mod(z * z * z))>>
    BY DEF ApplyZ
  <2>4. x = Mod(a * z * z) /\ y = Mod(c * Mod(z * z * z))
    BY <1>4, <2>2, <2>3
  <2> DEFINE v == Mod(z * z * z)
  <2>5. v \in Int
    <3> DEFINE zzz == z * z * z
    <3>1. zzz \in Int
      OBVIOUS
    <3> HIDE DEF zzz
    <3>2. Mod(zzz) \in Int
      BY <3>1, ModIs
    <3> QED
      BY <3>2 DEF zzz
  <2>6. Mod((P - c) * v) = P - y
    <3> DEFINE f == (P - c) * v  g == c * v
    <3>1. g \in Int /\ P \in Nat \ {0} /\ c \in Int
      BY <1>4, <2>5, FieldIs
    <3>2. f = -g + P * v
      BY <2>5, <3>1
    <3>3. y = Mod(g)
      BY <2>4
    <3> HIDE DEF f, g, v
    <3>4. Same(y, g, P)
      BY <3>1, <3>3, ModIs DEF Same, Mod, \cong
    <3>5. PICK q \in Int : g = y + P * q
      <4>1. Same(g, y, P)
        BY <3>4 DEF Same
      <4>2. y \in Int
        BY <1>4
      <4> QED
        BY <3>1, <4>1, <4>2, SameIs
    <3>6. f = (P - y) + P * (v - q - 1) /\ v - q - 1 \in Int /\ f \in Int
      <4>1. y \in Int
        BY <1>4
      <4> QED
        BY <2>5, <3>1, <3>2, <3>5, <4>1
    <3>7. P - y \in 0 .. P - 1 /\ P - y \in Int
      BY <1>4, <3>1
    <3>8. Same(f, P - y, P)
      BY <3>1, <3>6, <3>7, SameIs
    <3>9. Mod(f) = Mod(P - y)
      BY <3>8 DEF Same, Mod
    <3>10. Mod(P - y) = P - y
      BY <3>7, ModSmall
    <3> QED
      BY <3>9, <3>10 DEF f, v
  <2> QED
    BY <2>1, <2>3, <2>4, <2>6
<1>6. \E w \in Int : Mod(w) # 0 /\ sums = <<<<0, 0>>, Cusp(w)>>
  <2>1. CASE u = 0
    <3>1. 1 - nb = 0 /\ nb = 1
      BY <2>1
    <3>2. sums = XYcZAddC(<<x, y>>, <<x, P - y>>)
      BY <1>1, <1>4, <1>5, <3>1
    <3>3. x \in 0 .. P - 1 /\ P \in Nat
      BY <1>4, FieldIs
    <3> QED
      BY <1>4, <3>2, <3>3, OppositesIs
  <2>2. CASE u = 1
    <3>1. 1 - nb = 1 /\ nb = 0
      BY <2>2
    <3>2. sums = XYcZAddC(<<x, P - y>>, <<x, y>>)
      BY <1>1, <1>4, <1>5, <3>1
    <3> DEFINE f == P - y
    <3>3. x \in 0 .. P - 1 /\ f \in 1 .. P - 1 /\ y = P - f
      BY <1>4, FieldIs
    <3> HIDE DEF f
    <3>4. \E w \in Int : Mod(w) # 0 /\ XYcZAddC(<<x, f>>, <<x, P - f>>) = <<<<0, 0>>, Cusp(w)>>
      BY <3>3, OppositesIs
    <3> QED
      BY <3>2, <3>3, <3>4 DEF f
  <2> QED
    BY <2>1, <2>2
<1>7. PICK w \in Int : Mod(w) # 0 /\ sums = <<<<0, 0>>, Cusp(w)>>
  BY <1>6
<1>8. sums[1] = <<0, 0>> /\ sums[2] = Cusp(w)
  <2> HIDE DEF sums
  <2> QED
    BY <1>7
<1> HIDE DEF sums
<1>9. PICK v \in Int : Mod(v) # 0 /\ next = <<Cusp(v), <<0, 0>>>>
  BY <1>7, <1>8, CuspTurn
<1>10. /\ nb = 0 => Turned(R, nb)[0] = next[1] /\ Turned(R, nb)[1] = next[2]
       /\ nb = 1 => Turned(R, nb)[1] = next[1] /\ Turned(R, nb)[0] = next[2]
  <2>1. nb \in 0 .. 1
    OBVIOUS
  <2> HIDE DEF nb, next
  <2> QED
    BY <2>1, TurnedIs DEF next, sums
<1>11. nb = 0 \/ nb = 1
  OBVIOUS
<1> HIDE DEF next
<1>12. next[1] = Cusp(v) /\ next[2] = <<0, 0>>
  BY <1>9
<1> HIDE DEF nb
<1>13. Collapsed(Turned(R, nb))
  BY <1>9, <1>10, <1>11, <1>12 DEF Collapsed
<1> QED
  BY <1>13 DEF nb

(* What LadderEnds makes of the two points.                                *)
Multiplied(R, nb, point) ==
  LET sums == XYcZAddC(R[1 - nb], R[nb])
      dx == IF nb = 1 THEN sums[2][1] - sums[1][1] ELSE sums[1][1] - sums[2][1]
      z == ModInv(Mod(Mod(Mod(dx) * sums[1][2]) * point[1]), InverseModP)
      next == XYcZAdd(sums[2], sums[1])
  IN ApplyZ(next[1 + nb], Mod(Mod(z * point[2]) * sums[1][1]))

(* The point that turns out is the multiple: the factor restores Z to 1.   *)
LEMMA RegularLast ==
  ASSUME NEW b \in Int, NotZero(b), NEW m \in Int, Apart(m), NEW u \in {0, 1},
         NEW S, NEW R \in [0 .. 1 -> S], Regularly(R, m, b)
  PROVE  Multiplied(R, 1 - u, Multiple(b)) = Multiple((2 * m + u) * b)
<1> DEFINE nb == 1 - u
           sums == XYcZAddC(R[1 - nb], R[nb])
           next == XYcZAdd(sums[2], sums[1])
           t == sums[1][1] - sums[2][1]
           dx == IF nb = 1 THEN sums[2][1] - sums[1][1] ELSE sums[1][1] - sums[2][1]
           e == IF u = 0 THEN -1 ELSE 1
           f == (2 * u - 1) * b
           a == Multiple(b)[1]
           c == Multiple(b)[2]
           l == (2 * m + u) * b
<1>1. PICK z \in Int : Mod(z) # 0 /\ R[0] = At(m * b, z) /\ R[1] = At((m + 1) * b, z)
  BY DEF Regularly
<1>2. R[1 - nb] = At((m + u) * b, z) /\ R[nb] = At((m + 1 - u) * b, z)
  <2>1. CASE u = 0
    <3>1. 1 - nb = 0 /\ nb = 1 /\ m + u = m /\ m + 1 - u = m + 1
      BY <2>1
    <3> HIDE DEF nb
    <3> QED
      BY <1>1, <3>1
  <2>2. CASE u = 1
    <3>1. 1 - nb = 1 /\ nb = 0 /\ m + u = m + 1 /\ m + 1 - u = m
      BY <2>2
    <3> HIDE DEF nb
    <3> QED
      BY <1>1, <3>1
  <2> QED
    BY <2>1, <2>2
<1>3. PICK w \in Int :
        /\ Mod(w) # 0 /\ t \in Int /\ Mod(t) # 0
        /\ sums[1] = At(f, w)
        /\ next = <<At((2 * m + 1) * b, w * t), At((2 * (m + u)) * b, w * t)>>
  <2>1. sums = XYcZAddC(At((m + u) * b, z), At((m + 1 - u) * b, z))
    BY <1>2
  <2> HIDE DEF sums
  <2>2. TurnsTo(b, m, z, u, sums)
    BY <1>1, <2>1, TurnAt
  <2>3. \E w \in Int :
          /\ Mod(w) # 0 /\ t \in Int /\ Mod(t) # 0
          /\ sums[1] = At(f, w)
          /\ next = <<At((2 * m + 1) * b, w * t), At((2 * (m + u)) * b, w * t)>>
    BY <2>2 DEF TurnsTo
  <2> HIDE DEF t, next, f
  <2> QED
    BY <2>3
<1>4. next[1 + nb] = At(l, w * t)
  <2>1. CASE u = 0
    <3>1. 1 + nb = 2 /\ 2 * (m + u) = 2 * m + u
      BY <2>1
    <3> HIDE DEF nb, next, t
    <3> QED
      BY <1>3, <3>1
  <2>2. CASE u = 1
    <3>1. 1 + nb = 1 /\ 2 * m + 1 = 2 * m + u
      BY <2>2
    <3> HIDE DEF nb, next, t
    <3> QED
      BY <1>3, <3>1
  <2> QED
    BY <2>1, <2>2
<1>5. /\ a \in 1 .. P - 1 /\ c \in 1 .. P - 1 /\ Multiple(b) = <<a, c>>
      /\ Multiple(-b) = <<a, P - c>> /\ a \in Int /\ c \in Int
  <2>1. Multiple(b) \in (1 .. P - 1) \X (1 .. P - 1) /\ Multiple(-b) = Opposite(Multiple(b))
    BY MultipleIs
  <2> QED
    BY <2>1 DEF Opposite
<1>6. e \in {1, -1}
  OBVIOUS
<1>7. dx = e * t /\ dx \in Int
  <2> DEFINE x1 == sums[1][1]  x2 == sums[2][1]
  <2>1. x1 \in Int /\ x2 \in Int
    <3>1. x1 \in Int
      <4>1. sums[1] = At(f, w)
        BY <1>3
      <4>2. f \in Int /\ NotZero(f)
        <5>1. CASE u = 1
          <6>1. f = b
            BY <5>1
          <6> QED
            BY <6>1
        <5>2. CASE u = 0
          <6>1. f = -b /\ -b \in Int
            BY <5>2
          <6> QED
            BY <6>1, NotZeroMinus
        <5> QED
          BY <5>1, <5>2
      <4> HIDE DEF f, sums
      <4>3. At(f, w)[1] \in 1 .. P - 1 /\ P \in Nat
        BY <1>3, <4>2, AtIs, FieldIs
      <4> QED
        BY <4>1, <4>3
    <3>2. x2 \in Int
      <4> DEFINE one == R[1 - nb]  two == R[nb]
      <4>1. /\ (m + u) * b \in Int /\ (m + 1 - u) * b \in Int
            /\ NotZero((m + u) * b) /\ NotZero((m + 1 - u) * b)
        <5>1. NotZero(m + u) /\ NotZero(m + 1 - u)
          <6>1. CASE u = 0
            <7>1. m + u = m /\ m + 1 - u = m + 1
              BY <6>1
            <7> QED
              BY <7>1 DEF Apart
          <6>2. CASE u = 1
            <7>1. m + u = m + 1 /\ m + 1 - u = m
              BY <6>2
            <7> QED
              BY <7>1 DEF Apart
          <6> QED
            BY <6>1, <6>2
        <5> DEFINE g == m + u  h == m + 1 - u
        <5>2. g \in Int /\ h \in Int
          OBVIOUS
        <5>3. NotZero(g) /\ NotZero(h)
          BY <5>1
        <5> HIDE DEF g, h
        <5>4. NotZero(g * b) /\ NotZero(h * b) /\ g * b \in Int /\ h * b \in Int
          BY <5>2, <5>3, NotZeroTimes
        <5> QED
          BY <5>4 DEF g, h
      <4> DEFINE g == (m + u) * b  h == (m + 1 - u) * b
      <4>2. PICK x3 \in Int, y3 \in Int, x4 \in Int, y4 \in Int : one = <<x3, y3>> /\ two = <<x4, y4>>
        <5>1. g \in Int /\ NotZero(g) /\ h \in Int /\ NotZero(h) /\ one = At(g, z) /\ two = At(h, z)
          BY <1>2, <4>1
        <5> HIDE DEF g, h, one, two
        <5>2. /\ At(g, z) = <<At(g, z)[1], At(g, z)[2]>> /\ At(h, z) = <<At(h, z)[1], At(h, z)[2]>>
              /\ At(g, z)[1] \in 1 .. P - 1 /\ At(g, z)[2] \in 1 .. P - 1
              /\ At(h, z)[1] \in 1 .. P - 1 /\ At(h, z)[2] \in 1 .. P - 1 /\ P \in Nat
          BY <1>1, <5>1, AtIs, FieldIs
        <5> QED
          BY <5>1, <5>2
      <4>3. sums = XYcZAddC(<<x3, y3>>, <<x4, y4>>)
        BY <4>2
      <4> DEFINE square == Mod((x4 - x3) * (x4 - x3))
                 dy == Mod(y4 - y3)
      <4>4. square \in Int /\ dy \in Int
        <5> DEFINE g1 == (x4 - x3) * (x4 - x3)  g2 == y4 - y3
        <5>1. g1 \in Int /\ g2 \in Int
          OBVIOUS
        <5> HIDE DEF g1, g2
        <5>2. Mod(g1) \in Int /\ Mod(g2) \in Int
          BY <5>1, ModIs
        <5> QED
          BY <5>2 DEF g1, g2
      <4>5. x2 = Mod(dy * dy - Mod(x3 * square) - Mod(x4 * square))
        BY <4>3 DEF XYcZAddC
      <4> HIDE DEF square, dy, x2
      <4>6. x3 * square \in Int /\ x4 * square \in Int
        BY <4>4
      <4>7. Mod(x3 * square) \in Int /\ Mod(x4 * square) \in Int
        BY <4>6, ModIs
      <4>8. dy * dy - Mod(x3 * square) - Mod(x4 * square) \in Int
        BY <4>4, <4>7
      <4> QED
        BY <4>5, <4>8, ModIs
    <3> QED
      BY <3>1, <3>2
  <2>2. t = x1 - x2 /\ dx = (IF nb = 1 THEN x2 - x1 ELSE x1 - x2)
    OBVIOUS
  <2> HIDE DEF x1, x2, t, dx, sums
  <2>3. CASE u = 0
    <3>1. nb = 1 /\ e = -1
      BY <2>3
    <3> HIDE DEF nb, e
    <3> QED
      BY <2>1, <2>2, <3>1
  <2>4. CASE u = 1
    <3>1. nb # 1 /\ e = 1
      BY <2>4
    <3> HIDE DEF nb, e
    <3> QED
      BY <2>1, <2>2, <3>1
  <2> QED
    BY <2>3, <2>4
<1> DEFINE x == sums[1][1]  y == sums[1][2]
<1>8. x \in Int /\ y \in Int /\ x \cong a * (w * w) /\ y \cong (e * c) * (w * w * w)
  <2>1. sums[1] = At(f, w)
    BY <1>3
  <2>2. x = At(f, w)[1] /\ y = At(f, w)[2]
    BY <2>1
  <2> HIDE DEF x, y, sums, t
  <2>3. CASE u = 1
    <3>1. f = b /\ e * c = c
      BY <1>5, <2>3
    <3> HIDE DEF f, a, c, e
    <3> DEFINE x0 == At(b, w)[1]  y0 == At(b, w)[2]
    <3>2. /\ x0 \in 1 .. P - 1 /\ y0 \in 1 .. P - 1
          /\ x0 \cong a * (w * w) /\ y0 \cong c * (w * w * w) /\ P \in Nat
      BY <1>3, AtIs, FieldIs DEF a, c
    <3>3. x = x0 /\ y = y0
      BY <2>2, <3>1
    <3> HIDE DEF x0, y0
    <3> QED
      BY <3>1, <3>2, <3>3
  <2>4. CASE u = 0
    <3>1. f = -b /\ e * c = -c /\ -b \in Int
      BY <1>5, <2>4
    <3> DEFINE g == -b
    <3>2. g \in Int /\ NotZero(g) /\ f = g /\ Multiple(g) = <<a, P - c>>
      BY <1>5, <3>1, NotZeroMinus
    <3> HIDE DEF f, g
    <3> DEFINE x0 == At(g, w)[1]  y0 == At(g, w)[2]
    <3>3. /\ x0 \in 1 .. P - 1 /\ y0 \in 1 .. P - 1
          /\ x0 \cong Multiple(g)[1] * (w * w) /\ y0 \cong Multiple(g)[2] * (w * w * w) /\ P \in Nat
      BY <1>3, <3>2, AtIs, FieldIs
    <3>4. x = x0 /\ y = y0
      BY <2>2, <3>2
    <3> HIDE DEF x0, y0, a, c, e
    <3>5. Multiple(g)[1] = a /\ Multiple(g)[2] = P - c
      BY <3>2
    <3> DEFINE www == w * w * w  d == P - c  o == -c
    <3>6. www \in Int /\ d \in Int /\ o \in Int /\ d = o + P * 1 /\ 1 \in Int /\ P \in Nat \ {0}
      BY <1>5, FieldIs
    <3>7. d \cong o
      <4> HIDE DEF d, o
      <4>1. Same(d, o, P)
        BY <3>6, SameIs
      <4> QED
        BY <4>1 DEF Same, \cong, Mod
    <3>8. y0 \cong d * www
      BY <3>3, <3>5
    <3> HIDE DEF www, d, o
    <3>9. d * www \cong o * www
      BY <3>6, <3>7, CongSelf, CongTimes
    <3>10. y0 \cong o * www
      BY <3>8, <3>9, CongChain
    <3> QED
      BY <3>1, <3>3, <3>4, <3>5, <3>10 DEF www, o
  <2> QED
    BY <2>3, <2>4
<1> DEFINE z2 == ModInv(Mod(Mod(Mod(dx) * y) * a), InverseModP)
           last == Mod(Mod(z2 * c) * x)
<1>9. last \in Int /\ (w * t) * last \cong 1
  <2>1. t \in Int /\ Mod(t) # 0 /\ Mod(w) # 0
    BY <1>3
  <2> HIDE DEF a, c, dx, x, y, e, t
  <2> QED
    BY <1>5, <1>6, <1>7, <1>8, <2>1, LastZIs
<1>10. Multiplied(R, nb, Multiple(b)) = ApplyZ(next[1 + nb], last)
  BY DEF Multiplied
<1>11. l \in Int /\ w * t \in Int
  <2>1. t \in Int
    BY <1>3
  <2> HIDE DEF t
  <2> QED
    BY <2>1
<1> DEFINE v == (w * t) * last
<1>12. v \in Int /\ v \cong 1
  <2>1. w * t \in Int /\ last \in Int
    BY <1>9, <1>11
  <2> HIDE DEF last, t
  <2> QED
    BY <1>9, <2>1
<1>13. ApplyZ(At(l, w * t), last) = At(l, v)
  <2> HIDE DEF l, last, t
  <2> QED
    BY <1>9, <1>11, AtTwice
<1>14. At(l, v) = Multiple(l)
  <2> HIDE DEF l, v
  <2> QED
    BY <1>11, <1>12, AtOne
<1>15. Multiplied(R, nb, Multiple(b)) = Multiple(l)
  <2> HIDE DEF next, last, nb, l, v, t
  <2> QED
    BY <1>4, <1>10, <1>13, <1>14
<1> QED
  BY <1>15 DEF l, nb

(* Two points at infinity give the point at infinity.                      *)
LEMMA ZerosAre ==
  /\ ModInv(0, InverseModP) = 0
  /\ \A x \in Int : x * 0 = 0 /\ 0 * x = 0
  /\ LET next == XYcZAdd(<<0, 0>>, <<0, 0>>)
     IN ApplyZ(next[1], 0) = <<0, 0>> /\ ApplyZ(next[2], 0) = <<0, 0>>
<1>1. ModInv(0, InverseModP) = 0
  BY DEF ModInv
<1>2. \A x \in Int : x * 0 = 0 /\ 0 * x = 0
  OBVIOUS
<1> DEFINE next == XYcZAdd(<<0, 0>>, <<0, 0>>)
<1>3. next = <<<<0, 0>>, <<0, 0>>>>
  <2>1. Mod(0) = 0 /\ 0 - 0 = 0 /\ 0 * 0 = 0
    BY FieldIs
  <2> QED
    BY <2>1 DEF XYcZAdd
<1>4. ApplyZ(<<0, 0>>, 0) = <<0, 0>>
  <2>1. Mod(0) = 0 /\ 0 * 0 = 0
    BY FieldIs
  <2> QED
    BY <2>1 DEF ApplyZ
<1>5. next[1] = <<0, 0>> /\ next[2] = <<0, 0>>
  <2> HIDE DEF next
  <2> QED
    BY <1>3
<1> QED
  BY <1>1, <1>2, <1>4, <1>5

(* The ladder that has met two opposite points returns (0, 0).             *)
LEMMA CollapsedLast ==
  ASSUME NEW S, NEW R \in [0 .. 1 -> S], Collapsed(R), NEW nb \in {0, 1},
         NEW a \in Int, NEW c \in Int
  PROVE  Multiplied(R, nb, <<a, c>>) = <<0, 0>>
<1> DEFINE o == <<0, 0>>
           sums == XYcZAddC(R[1 - nb], R[nb])
           next == XYcZAdd(sums[2], sums[1])
           dx == IF nb = 1 THEN sums[2][1] - sums[1][1] ELSE sums[1][1] - sums[2][1]
           z == ModInv(Mod(Mod(Mod(dx) * sums[1][2]) * a), InverseModP)
<1>1. PICK w \in Int : /\ Mod(w) # 0
                       /\ \/ R[0] = Cusp(w) /\ R[1] = o
                          \/ R[1] = Cusp(w) /\ R[0] = o
  BY DEF Collapsed
<1>2. (nb = 0 /\ 1 - nb = 1) \/ (nb = 1 /\ 1 - nb = 0)
  OBVIOUS
<1>3. XYcZAddC(Cusp(w), o) = <<o, o>> /\ XYcZAddC(o, Cusp(w)) = <<o, o>>
  BY <1>1, CuspTurn
<1>4. sums = <<o, o>>
  <2> HIDE DEF o
  <2> QED
    BY <1>1, <1>2, <1>3
<1>5. sums[1] = <<0, 0>> /\ sums[2] = <<0, 0>>
  <2> HIDE DEF sums
  <2> QED
    BY <1>4
<1>6. dx = 0 /\ sums[1][1] = 0 /\ sums[1][2] = 0
  <2>1. 0 - 0 = 0
    OBVIOUS
  <2> HIDE DEF sums
  <2> QED
    BY <1>5, <2>1
<1>7. Mod(0) = 0
  BY FieldIs
<1>8. z = 0
  <2>1. 0 * 0 = 0 /\ 0 * a = 0
    BY ZerosAre
  <2> HIDE DEF dx, sums
  <2> QED
    BY <1>6, <1>7, <2>1, ZerosAre
<1>9. Mod(Mod(z * c) * sums[1][1]) = 0
  <2>1. 0 * 0 = 0 /\ 0 * c = 0
    BY ZerosAre
  <2> HIDE DEF sums, z
  <2> QED
    BY <1>6, <1>7, <1>8, <2>1
<1>10. Multiplied(R, nb, <<a, c>>) = ApplyZ(next[1 + nb], Mod(Mod(z * c) * sums[1][1]))
  BY DEF Multiplied
<1>11. next = XYcZAdd(<<0, 0>>, <<0, 0>>)
  <2> HIDE DEF sums
  <2> QED
    BY <1>5
<1>12. 1 + nb = 1 \/ 1 + nb = 2
  OBVIOUS
<1> HIDE DEF z, sums, next
<1> QED
  BY <1>9, <1>10, <1>11, <1>12, ZerosAre

(* The group's order is larger than 3.                                     *)
LEMMA OrderIs == N >= 5 /\ NBits - 1 \in 0 .. NBits - 1 /\ NBits - 1 > 1
BY SizesAre, FieldIs

-----------------------------------------------------------------------------
(* The two points after bit i + 1 of the multiplication by d of the point  *)
(* that is the multiple by b.                                              *)
Rungs(R, d, i, b) ==
  IF d \in Unreachable /\ i = 0 THEN Collapsed(R)
  ELSE Regularly(R, Regular(d) \div TwoTo[i + 1], b)

(* A turn keeps the points at the bits so far.                             *)
LEMMA RungsTurn ==
  ASSUME NEW d \in 1 .. N - 1, NEW i \in 1 .. NBits - 1, NEW b \in Int, NotZero(b),
         NEW S, NEW R \in [0 .. 1 -> S], Rungs(R, d, i, b)
  PROVE  Rungs(Turned(R, 1 - TestBit(RegularizeK(d), i)), d, i - 1, b)
<1> DEFINE m == Regular(d) \div TwoTo[i + 1]
           u == TestBit(RegularizeK(d), i)
           n == Regular(d) \div TwoTo[i]
<1>1. i \in 0 .. NBits - 1 /\ i # 0 /\ i \in Nat /\ (i - 1) + 1 = i /\ (i - 1 = 0 <=> i = 1)
      /\ (i > 1 \/ i = 1)
  BY OrderIs, SizesAre
<1>2. m \in Nat /\ m \in Int /\ u \in {0, 1} /\ n = 2 * m + u
  <2>1. m \in Nat /\ u \in {0, 1} /\ n = 2 * m + u
    BY <1>1, PrefixIs
  <2> HIDE DEF m
  <2> QED
    BY <2>1
<1>3. /\ i > 1 => Apart(m)
      /\ d \notin Unreachable => Apart(m)
      /\ d \in Unreachable /\ i = 1 => 2 * m + 1 = N /\ NotZero(m) /\ NotZero(m + 1)
  BY <1>1, ApartIs
<1> HIDE DEF m, u, n
<1>4. Regularly(R, m, b)
  BY <1>1 DEF Rungs, m
<1>5. CASE d \in Unreachable /\ i = 1
  <2>1. Collapsed(Turned(R, 1 - u))
    BY <1>2, <1>3, <1>4, <1>5, CollapsingTurn
  <2> QED
    BY <1>1, <1>5, <2>1 DEF Rungs, u
<1>6. CASE ~(d \in Unreachable /\ i = 1)
  <2>1. Regularly(Turned(R, 1 - u), 2 * m + u, b)
    BY <1>1, <1>2, <1>3, <1>4, <1>6, RegularTurn
  <2>2. Regularly(Turned(R, 1 - u), Regular(d) \div TwoTo[(i - 1) + 1], b)
    BY <1>1, <1>2, <2>1 DEF n
  <2> QED
    BY <1>1, <1>6, <2>2 DEF Rungs, u
<1> QED
  BY <1>5, <1>6

(* The last bit, and the result of EccPoint_mult.                          *)
LEMMA RungsLast ==
  ASSUME NEW d \in 1 .. N - 1, NEW b \in Int, NotZero(b),
         NEW S, NEW R \in [0 .. 1 -> S], Rungs(R, d, 0, b)
  PROVE  Multiplied(R, 1 - TestBit(RegularizeK(d), 0), Multiple(b))
           = IF d \in Unreachable THEN <<0, 0>> ELSE Multiple(d * b)
<1> DEFINE m == Regular(d) \div TwoTo[0 + 1]
           u == TestBit(RegularizeK(d), 0)
           n == Regular(d)
<1>1. 0 \in 0 .. NBits - 1
  BY OrderIs, SizesAre
<1>2. m \in Nat /\ u \in {0, 1} /\ n = 2 * m + u /\ n \in Nat /\ Same(n, d, N)
  BY <1>1, PrefixIs
<1>3. d \notin Unreachable => Apart(m)
  BY <1>1, ApartIs
<1>4. 1 - u \in {0, 1}
  BY <1>2
<1>5. PICK a \in Int, c \in Int : Multiple(b) = <<a, c>>
  <2>1. Multiple(b) \in (1 .. P - 1) \X (1 .. P - 1)
    BY MultipleIs
  <2> QED
    BY <2>1
<1> HIDE DEF m, u, n
<1>6. CASE d \in Unreachable
  <2>1. Collapsed(R)
    BY <1>6 DEF Rungs
  <2> DEFINE nb == 1 - u
  <2> HIDE DEF nb
  <2>2. Multiplied(R, nb, <<a, c>>) = <<0, 0>>
    BY <1>4, <2>1, CollapsedLast DEF nb
  <2> QED
    BY <1>5, <1>6, <2>2 DEF u, nb
<1>7. CASE d \notin Unreachable
  <2>1. Regularly(R, m, b)
    BY <1>7 DEF Rungs, m
  <2>2. Multiplied(R, 1 - u, Multiple(b)) = Multiple((2 * m + u) * b)
    BY <1>2, <1>3, <1>7, <2>1, RegularLast
  <2>3. Multiple(n * b) = Multiple(d * b)
    <3>1. n \in Int /\ d \in Int /\ N \in Nat \ {0} /\ Same(b, b, N)
      BY <1>2, FieldIs DEF Same
    <3>2. Same(n * b, d * b, N) /\ n * b \in Int /\ d * b \in Int
      BY <1>2, <3>1, SameOps
    <3> QED
      BY <3>2, MultipleSame
  <2> QED
    BY <1>2, <1>7, <2>2, <2>3 DEF u
<1> QED
  BY <1>6, <1>7

(* The points of the ladder are pairs of numbers.                          *)
LEMMA AtIn ==
  ASSUME NEW m \in Int, NEW z \in Int
  PROVE  At(m, z) \in Places
<1>1. PICK x \in Int, y \in Int : Multiple(m) = <<x, y>>
  <2>1. Multiple(m) = <<0, 0>> \/ Multiple(m) \in (1 .. P - 1) \X (1 .. P - 1)
    BY MultipleZero, MultipleIs
  <2> QED
    BY <2>1
<1>2. ApplyZ(<<x, y>>, z) \in (0 .. P - 1) \X (0 .. P - 1)
  BY ApplyZTwice
<1> QED
  BY <1>1, <1>2 DEF At, Places

(* The points are pairs of numbers.                                        *)
LEMMA RungsIn ==
  ASSUME NEW d \in 1 .. N - 1, NEW i \in 0 .. NBits - 1, NEW b \in Int,
         NEW S, NEW R \in [0 .. 1 -> S], Rungs(R, d, i, b)
  PROVE  R \in [0 .. 1 -> Places]
<1> DEFINE m == Regular(d) \div TwoTo[i + 1]
<1>1. m \in Int
  <2>1. m \in Nat
    BY PrefixIs
  <2> QED
    BY <2>1
<1>2. R[0] \in Places /\ R[1] \in Places
  <2>1. CASE Collapsed(R)
    <3>1. PICK w \in Int : /\ Mod(w) # 0
                           /\ \/ R[0] = Cusp(w) /\ R[1] = <<0, 0>>
                              \/ R[1] = Cusp(w) /\ R[0] = <<0, 0>>
      BY <2>1 DEF Collapsed
    <3>2. Cusp(w) \in Places /\ <<0, 0>> \in Places
      <4>1. Cusp(w)[1] \in Int /\ Cusp(w)[2] \in Int
        BY <3>1, CuspIs
      <4>2. Cusp(w) = <<Cusp(w)[1], Cusp(w)[2]>>
        BY DEF Cusp
      <4> QED
        BY <4>1, <4>2 DEF Places
    <3> QED
      BY <3>1, <3>2
  <2>2. CASE Regularly(R, m, b)
    <3>1. PICK z \in Int : R[0] = At(m * b, z) /\ R[1] = At((m + 1) * b, z)
      BY <2>2 DEF Regularly
    <3> HIDE DEF m
    <3>2. m * b \in Int /\ (m + 1) * b \in Int
      BY <1>1
    <3> QED
      BY <3>1, <3>2, AtIn
  <2> QED
    BY <2>1, <2>2 DEF Rungs
<1> QED
  BY <1>2

(* The powers of a field element.                                          *)
PowersIn(f, a) == f = [n \in Nat |-> IF n = 0 THEN 1 ELSE Mod(a * f[n - 1])]
Power(a) == LET f[n \in Nat] == IF n = 0 THEN 1 ELSE Mod(a * f[n - 1]) IN f

(* The powers of a field element: their equations.                         *)
LEMMA PowerDef ==
  ASSUME NEW a \in Int
  PROVE  /\ Power(a)[0] = 1 /\ \A n \in Nat : Power(a)[n + 1] = Mod(a * Power(a)[n])
         /\ \A n \in Nat : Power(a)[n] \in Int
<1> DEFINE step == [n \in Nat |-> [s \in Int |-> Mod(a * s)]]
           S == Int
           one == 1
<1>1. step \in [Nat -> [S -> S]] /\ one \in S
  <2>1. \A s \in Int : Mod(a * s) \in Int
    <3>1. \A s \in Int : a * s \in Int
      OBVIOUS
    <3> QED
      BY <3>1, ModIs
  <2> DEFINE turn == [s \in Int |-> Mod(a * s)]
  <2>2. turn \in [S -> S]
    BY <2>1
  <2>3. step = [n \in Nat |-> turn]
    OBVIOUS
  <2> HIDE DEF step, turn, S
  <2>4. step \in [Nat -> [S -> S]]
    BY <2>2, <2>3
  <2> QED
    BY <2>4 DEF S
<1>2. ASSUME NEW f \in [Nat -> S], Follows(f, one, step)
      PROVE  PowersIn(f, a)
  <2>1. ASSUME NEW n \in Nat PROVE f[n] = IF n = 0 THEN 1 ELSE Mod(a * f[n - 1])
    <3>1. CASE n = 0
      BY <1>2, <3>1 DEF Follows
    <3>2. CASE n # 0
      <4>1. n - 1 \in Nat /\ n = (n - 1) + 1
        BY <3>2
      <4>2. f[(n - 1) + 1] = step[n - 1][f[n - 1]]
        BY <1>2, <4>1 DEF Follows
      <4> QED
        BY <3>2, <4>1, <4>2
    <3> QED
      BY <3>1, <3>2
  <2> QED
    BY <2>1 DEF PowersIn
<1> HIDE DEF step, S, one
<1>3. \E f : PowersIn(f, a)
  BY <1>1, <1>2, Recursion
<1>4. PowersIn(CHOOSE f : PowersIn(f, a), a)
  BY <1>3
<1> DEFINE p == Power(a)
<1>5. p = CHOOSE f : PowersIn(f, a)
  BY DEF Power, PowersIn
<1> HIDE DEF p
<1>6. p = [n \in Nat |-> IF n = 0 THEN 1 ELSE Mod(a * p[n - 1])]
  <2>1. PowersIn(p, a)
    BY <1>4, <1>5
  <2> QED
    BY <2>1 DEF PowersIn
<1>7. p[0] = 1 /\ \A n \in Nat : p[n + 1] = Mod(a * p[n])
  BY <1>6
<1> DEFINE T == {n \in Nat : p[n] \in Int}
<1>8. 0 \in T /\ T \in SUBSET Nat
  BY <1>7
<1>9. ASSUME NEW n \in T PROVE n + 1 \in T
  <2>1. p[n] \in Int /\ n \in Nat /\ p[n + 1] = Mod(a * p[n])
    BY <1>7
  <2>2. a * p[n] \in Int
    BY <2>1
  <2> QED
    BY <2>1, <2>2, ModIs
<1> HIDE DEF T
<1>10. T = Nat
  BY <1>8, <1>9, Induct
<1>11. \A n \in Nat : p[n] \in Int
  BY <1>10 DEF T
<1> QED
  BY <1>7, <1>11 DEF p

(* Powers of a product of exponents and of a sum.                          *)
LEMMA PowerPlus ==
  ASSUME NEW a \in Int, NEW m \in Nat, NEW n \in Nat
  PROVE  Power(a)[m + n] \cong Power(a)[m] * Power(a)[n]
<1> DEFINE p == Power(a)
<1>1. p[0] = 1 /\ (\A j \in Nat : p[j + 1] = Mod(a * p[j])) /\ \A j \in Nat : p[j] \in Int
  BY PowerDef
<1> HIDE DEF p
<1> DEFINE T == {j \in Nat : p[m + j] \cong p[m] * p[j]}
<1>2. T \in SUBSET Nat
  OBVIOUS
<1>3. 0 \in T
  <2>1. p[m] * 1 = p[m] /\ m + 0 = m
    BY <1>1
  <2>2. p[m + 0] \cong p[m] * p[0]
    BY <1>1, <2>1, CongSelf
  <2> QED
    BY <2>2
<1>4. ASSUME NEW j \in T PROVE j + 1 \in T
  <2> DEFINE b == p[m]  c == p[j]  d == p[m + j]
  <2>1. j \in Nat /\ m + j \in Nat /\ (m + j) + 1 = m + (j + 1) /\ j + 1 \in Nat
        /\ d \cong b * c
    OBVIOUS
  <2>2. b \in Int /\ c \in Int /\ d \in Int
    BY <1>1, <2>1
  <2>3. p[m + (j + 1)] = Mod(a * d) /\ p[j + 1] = Mod(a * c)
    BY <1>1, <2>1
  <2> HIDE DEF b, c, d
  <2> DEFINE bc == b * c  ac == a * c
  <2>4. bc \in Int /\ ac \in Int /\ a * bc = b * ac
    BY <2>2
  <2>5. d \cong bc
    BY <2>1
  <2> HIDE DEF bc, ac
  <2>6. a * d \cong a * bc /\ a * d \in Int
    BY <2>2, <2>4, <2>5, CongSelf, CongTimes
  <2>7. Mod(ac) \in Int /\ ac \cong Mod(ac) /\ Mod(a * d) \cong a * d
    BY <2>4, <2>6, ModIs DEF \cong
  <2>8. b * ac \cong b * Mod(ac)
    BY <2>2, <2>4, <2>7, CongSelf, CongTimes
  <2>9. Mod(a * d) \cong b * Mod(ac)
    BY <2>4, <2>6, <2>7, <2>8 DEF \cong
  <2>10. p[m + (j + 1)] \cong p[m] * p[j + 1]
    BY <2>3, <2>9 DEF b, ac
  <2> QED
    BY <2>1, <2>10
<1> HIDE DEF T
<1>5. T = Nat
  BY <1>2, <1>3, <1>4, Induct
<1>6. p[m + n] \cong p[m] * p[n]
  BY <1>5 DEF T
<1> QED
  BY <1>6 DEF p

(* The powers of a number that is not zero are not zero.                   *)
LEMMA PowerNotZero ==
  ASSUME NEW a \in Int, Mod(a) # 0, NEW n \in Nat
  PROVE  Power(a)[n] \in 1 .. P - 1 /\ Mod(Power(a)[n]) = Power(a)[n]
<1> DEFINE p == Power(a)
           T == {j \in Nat : p[j] \in 1 .. P - 1}
<1>1. p[0] = 1 /\ (\A j \in Nat : p[j + 1] = Mod(a * p[j])) /\ \A j \in Nat : p[j] \in Int
  BY PowerDef
<1> HIDE DEF p
<1>2. T \in SUBSET Nat
  OBVIOUS
<1>3. 0 \in T
  BY <1>1, FieldIs
<1>4. ASSUME NEW j \in T PROVE j + 1 \in T
  <2> DEFINE c == p[j]
  <2>1. c \in 1 .. P - 1 /\ c \in 0 .. P - 1 /\ c \in Int /\ p[j + 1] = Mod(a * c) /\ j \in Nat
        /\ c # 0
    BY <1>1, FieldIs
  <2> HIDE DEF c
  <2>2. Mod(c) # 0
    BY <2>1, ModSmall
  <2>3. Mod(a * c) # 0 /\ a * c \in Int
    BY <2>1, <2>2, NonZeroTimes
  <2>4. Mod(a * c) \in 1 .. P - 1
    BY <2>3, ModIs
  <2> QED
    BY <2>1, <2>4
<1> HIDE DEF T
<1>5. T = Nat
  BY <1>2, <1>3, <1>4, Induct
<1>6. p[n] \in 1 .. P - 1
  BY <1>5 DEF T
<1>7. p[n] \in 0 .. P - 1
  BY <1>6, FieldIs
<1> QED
  BY <1>6, <1>7, ModSmall DEF p

(* Some power is 1: the powers are fewer than the exponents.               *)
LEMMA OrderExists ==
  ASSUME NEW a \in Int, Mod(a) # 0
  PROVE  \E d \in Nat \ {0} :
           /\ Power(a)[d] = 1
           /\ \A j \in 1 .. d - 1 : Power(a)[j] # 1
<1> DEFINE p == Power(a)
<1>1. \A n \in Nat : p[n] \in 1 .. P - 1 /\ Mod(p[n]) = p[n] /\ p[n] \in Int
  BY PowerNotZero, PowerDef
<1>2. p[0] = 1
  BY PowerDef
<1>3. \A m, n \in Nat : p[m + n] \cong p[m] * p[n]
  BY PowerPlus
<1> HIDE DEF p
<1> DEFINE S == 0 .. P - 1
           U == 1 .. P - 1
           f == [j \in S |-> p[j]]
<1>4. IsFiniteSet(S) /\ IsFiniteSet(U) /\ Cardinality(U) < Cardinality(S)
  <2> DEFINE zero == 0  one == 1  last == P - 1
  <2>1. zero \in Int /\ one \in Int /\ last \in Int /\ last >= 1 /\ P \in Nat
    BY FieldIs
  <2>2. Cardinality(zero .. last) = IF zero > last THEN 0 ELSE last - zero + 1
    BY <2>1, FS_Interval
  <2>3. Cardinality(one .. last) = IF one > last THEN 0 ELSE last - one + 1
    BY <2>1, FS_Interval
  <2>4. IsFiniteSet(zero .. last) /\ IsFiniteSet(one .. last)
    BY <2>1, FS_Interval
  <2> QED
    BY <2>1, <2>2, <2>3, <2>4
<1>5. f \in [S -> U]
  <2>1. \A j \in S : j \in Nat
    OBVIOUS
  <2> QED
    BY <1>1, <2>1
<1>6. PICK x \in S, y \in S : x # y /\ f[x] = f[y]
  <2> HIDE DEF S, U, f
  <2> QED
    BY <1>4, <1>5, FS_PigeonHole
<1>7. \E l \in Nat, n \in Nat : n > l /\ p[l] = p[n]
  <2>1. x \in Nat /\ y \in Nat /\ p[x] = p[y] /\ (x < y \/ y < x)
    BY <1>6
  <2> QED
    BY <2>1
<1>8. PICK l \in Nat, n \in Nat : n > l /\ p[l] = p[n]
  BY <1>7
<1> DEFINE T == {j \in Nat : j > 0 /\ p[j] = 1}
<1>9. n - l \in T
  <2> DEFINE e == n - l  b == p[l]  c == p[n - l]  o == 1
  <2>1. e \in Nat /\ e > 0 /\ l + e = n
    BY <1>8
  <2>2. b \in Int /\ c \in Int /\ Mod(b) # 0 /\ Mod(c) = c
    BY <1>1, <2>1, FieldIs
  <2>3. p[l + e] \cong b * c
    BY <1>3, <2>1
  <2>4. b * o = b /\ o \in Int
    BY <2>2
  <2>5. p[l + e] = b
    BY <1>8, <2>1
  <2> HIDE DEF b, c, o, e
  <2>6. b * c \cong b * o
    BY <2>3, <2>4, <2>5 DEF \cong
  <2>7. c \cong o
    BY <2>2, <2>4, <2>6, CongCancel
  <2>8. c = 1
    BY <2>2, <2>7, FieldIs DEF \cong, o
  <2> QED
    BY <2>1, <2>8 DEF e, c
<1>10. T \in SUBSET Nat /\ T # {}
  BY <1>9
<1>11. PICK d \in T : \A j \in T : d <= j
  <2> HIDE DEF T
  <2> QED
    BY <1>10, Least
<1>12. d \in Nat \ {0} /\ p[d] = 1
  BY <1>11
<1>13. ASSUME NEW j \in 1 .. d - 1, p[j] = 1 PROVE FALSE
  <2>1. j \in Nat /\ j > 0 /\ j < d
    BY <1>12
  <2>2. j \in T
    BY <1>13, <2>1
  <2>3. d <= j
    BY <1>11, <2>2
  <2> QED
    BY <1>12, <2>1, <2>3
<1>14. \A j \in 1 .. d - 1 : p[j] # 1
  BY <1>13
<1> QED
  BY <1>12, <1>14 DEF p

(* A set of field elements that multiplying by a does not leave.           *)
Closed(W, a) == W \in SUBSET (1 .. P - 1) /\ \A x \in W : Mod(a * x) \in W

(* The multiples of w by the powers of a below the order d.                *)
Orbit(w, a, d) == {Mod(w * Power(a)[j]) : j \in 0 .. d - 1}

(* The multiples by the powers below the order are all different.          *)
LEMMA OrbitIs ==
  ASSUME NEW a \in Int, Mod(a) # 0, NEW d \in Nat \ {0}, Power(a)[d] = 1,
         \A j \in 1 .. d - 1 : Power(a)[j] # 1, NEW w \in 1 .. P - 1
  PROVE  IsFiniteSet(Orbit(w, a, d)) /\ Cardinality(Orbit(w, a, d)) = d
<1> DEFINE p == Power(a)
           S == 0 .. d - 1
           O == Orbit(w, a, d)
           f == [j \in S |-> Mod(w * p[j])]
<1>1. \A n \in Nat : p[n] \in 1 .. P - 1 /\ Mod(p[n]) = p[n] /\ p[n] \in Int
  BY PowerNotZero, PowerDef
<1>2. \A m, n \in Nat : p[m + n] \cong p[m] * p[n]
  BY PowerPlus
<1>3. w \in Int /\ Mod(w) # 0 /\ d \in Nat /\ d > 0
  <2>1. w \in 0 .. P - 1 /\ w # 0
    BY FieldIs
  <2> QED
    BY <2>1, ModSmall
<1> HIDE DEF p
<1>4. f \in [S -> O] /\ \A x \in O : \E j \in S : f[j] = x
  BY DEF Orbit, p
<1>5. ASSUME NEW l \in S, NEW n \in S, l < n, f[l] = f[n] PROVE FALSE
  <2> DEFINE e == n - l  b == p[l]  c == p[n - l]  g == p[n]  o == 1
  <2>1. l \in Nat /\ n \in Nat /\ e \in Nat /\ e \in 1 .. d - 1 /\ l + e = n
    BY <1>3, <1>5
  <2>2. b \in Int /\ c \in Int /\ g \in Int /\ Mod(b) # 0 /\ Mod(c) = c
    BY <1>1, <2>1, FieldIs
  <2>3. p[l + e] \cong b * c
    BY <1>2, <2>1
  <2>4. b * o = b /\ o \in Int /\ g = p[l + e]
    BY <2>1, <2>2
  <2>5. w * b \cong w * g
    BY <1>5 DEF \cong
  <2> HIDE DEF b, c, o, e, g
  <2>6. b \cong g
    BY <1>3, <2>2, <2>5, CongCancel
  <2>7. b * c \cong b * o
    BY <2>3, <2>4, <2>6 DEF \cong
  <2>8. c \cong o
    BY <2>2, <2>4, <2>7, CongCancel
  <2>9. c = 1
    BY <2>2, <2>8, FieldIs DEF \cong, o
  <2>10. c # 1
    BY <2>1 DEF p, c, e
  <2> QED
    BY <2>9, <2>10
<1>6. f \in Bijection(S, O)
  <2>1. \A l, n \in S : f[l] = f[n] => l = n
    <3> SUFFICES ASSUME NEW l \in S, NEW n \in S, f[l] = f[n], l # n PROVE FALSE
      OBVIOUS
    <3>1. l < n \/ n < l
      BY <1>3
    <3> HIDE DEF f, S
    <3> QED
      BY <1>5, <3>1
  <2> HIDE DEF f, O, S
  <2>2. DOMAIN f = S
    BY <1>4
  <2> QED
    BY <1>4, <2>1, <2>2 DEF Bijection, Injection, Surjection, IsInjective
<1>7. IsFiniteSet(S) /\ Cardinality(S) = d
  <2> DEFINE zero == 0  last == d - 1
  <2>1. zero \in Int /\ last \in Int
    BY <1>3
  <2>2. IsFiniteSet(zero .. last) /\ Cardinality(zero .. last) = IF zero > last THEN 0 ELSE last - zero + 1
    BY <2>1, FS_Interval
  <2> QED
    BY <1>3, <2>1, <2>2
<1> HIDE DEF S, O, f
<1>8. ExistsBijection(S, O)
  BY <1>6 DEF ExistsBijection
<1>9. IsFiniteSet(O) /\ Cardinality(O) = Cardinality(S)
  BY <1>7, <1>8, FS_Bijection
<1> QED
  BY <1>7, <1>9 DEF O

(* Without the orbit of one of its elements it is still closed.            *)
LEMMA OrbitOut ==
  ASSUME NEW a \in Int, Mod(a) # 0, NEW d \in Nat \ {0}, Power(a)[d] = 1,
         NEW W, Closed(W, a), NEW w \in W
  PROVE  Orbit(w, a, d) \subseteq W /\ Closed(W \ Orbit(w, a, d), a)
<1> DEFINE p == Power(a)
           O == Orbit(w, a, d)
           at(n) == Mod(w * p[n])
<1>1. \A n \in Nat : p[n] \in 1 .. P - 1 /\ Mod(p[n]) = p[n] /\ p[n] \in Int
  BY PowerNotZero, PowerDef
<1>2. p[0] = 1 /\ \A n \in Nat : p[n + 1] = Mod(a * p[n])
  BY PowerDef
<1>3. w \in 1 .. P - 1 /\ w \in Int /\ Mod(w) = w /\ d \in Nat /\ d > 0
  <2>1. w \in 1 .. P - 1
    BY DEF Closed
  <2>2. w \in 0 .. P - 1
    BY <2>1, FieldIs
  <2> QED
    BY <2>1, <2>2, ModSmall
<1>4. p[d] = 1
  OBVIOUS
<1> HIDE DEF p
<1>5. ASSUME NEW n \in Nat
      PROVE  /\ at(n) \in Int /\ at(n + 1) = Mod(a * at(n)) /\ w * p[n] \in Int
             /\ at(n) \cong w * p[n]
  <2> DEFINE b == p[n]  wb == w * b  ab == a * b
  <2>1. b \in Int /\ wb \in Int /\ ab \in Int /\ w * ab = a * wb /\ p[n + 1] = Mod(ab)
    BY <1>1, <1>2, <1>3
  <2> HIDE DEF b, wb, ab
  <2>2. Mod(wb) \in Int /\ Mod(wb) \cong wb /\ Mod(ab) \in Int /\ Mod(ab) \cong ab
    BY <2>1, ModIs
  <2>3. w * Mod(ab) \cong w * ab /\ a * Mod(wb) \cong a * wb
    BY <1>3, <2>1, <2>2, CongSelf, CongTimes
  <2>4. Mod(w * Mod(ab)) = Mod(a * Mod(wb))
    BY <2>1, <2>3 DEF \cong
  <2> QED
    BY <2>1, <2>2, <2>4 DEF wb, b
<1>6. at(0) = w /\ at(d) = w
  <2>1. w * 1 = w
    BY <1>3
  <2> QED
    BY <1>2, <1>3, <1>4, <2>1
<1>7. O = {at(j) : j \in 0 .. d - 1}
  BY DEF Orbit, p
<1> HIDE DEF at, O
<1>8. \A n \in Nat : at(n) \in W
  <2> DEFINE T == {n \in Nat : at(n) \in W}
  <2>1. T \in SUBSET Nat /\ 0 \in T
    BY <1>6
  <2>2. ASSUME NEW n \in T PROVE n + 1 \in T
    BY <1>5 DEF Closed
  <2> HIDE DEF T
  <2>3. T = Nat
    BY <2>1, <2>2, Induct
  <2> QED
    BY <2>3 DEF T
<1>9. O \subseteq W
  <2>1. \A j \in 0 .. d - 1 : j \in Nat
    BY <1>3
  <2> QED
    BY <1>7, <1>8, <2>1
<1>10. ASSUME NEW x \in W, Mod(a * x) \in O PROVE x \in O
  <2>1. PICK j \in 0 .. d - 1 : Mod(a * x) = at(j)
    BY <1>7, <1>10
  <2>2. x \in Int /\ Mod(x) = x
    <3>1. x \in 1 .. P - 1
      BY DEF Closed
    <3>2. x \in 0 .. P - 1
      BY <3>1, FieldIs
    <3> QED
      BY <3>2, ModSmall
  <2>3. \E i \in 0 .. d - 1 : Mod(a * x) = at(i + 1)
    <3>1. CASE j = 0
      <4>1. d - 1 \in 0 .. d - 1 /\ (d - 1) + 1 = d
        BY <1>3
      <4> QED
        BY <1>6, <2>1, <3>1, <4>1
    <3>2. CASE j # 0
      <4>1. j - 1 \in 0 .. d - 1 /\ (j - 1) + 1 = j
        BY <1>3, <3>2
      <4> QED
        BY <2>1, <4>1
    <3> QED
      BY <3>1, <3>2
  <2>4. PICK i \in 0 .. d - 1 : Mod(a * x) = at(i + 1)
    BY <2>3
  <2> DEFINE c == at(i)
  <2>5. i \in Nat
    BY <1>3
  <2>6. c \in Int /\ at(i + 1) = Mod(a * c)
    BY <1>5, <2>5
  <2>7. Mod(c) = c
    BY <1>5, <2>5 DEF \cong, at
  <2> HIDE DEF c
  <2>8. a * x \cong a * c
    BY <2>4, <2>6 DEF \cong
  <2>9. x \cong c
    BY <2>2, <2>6, <2>8, CongCancel
  <2>10. x = c
    BY <2>2, <2>7, <2>9 DEF \cong
  <2> QED
    BY <1>7, <2>10 DEF c
<1>11. Closed(W \ O, a)
  <2>1. \A x \in W \ O : Mod(a * x) \in W \ O
    BY <1>10 DEF Closed
  <2> QED
    BY <2>1 DEF Closed
<1> QED
  BY <1>9, <1>11 DEF O

(* Fermat: orbit by orbit.                                                 *)
LEMMA Fermat ==
  ASSUME NEW a \in Int, Mod(a) # 0
  PROVE  Power(a)[P - 1] = 1
<1> DEFINE p == Power(a)
<1>1. PICK d \in Nat \ {0} : p[d] = 1 /\ \A j \in 1 .. d - 1 : p[j] # 1
  BY OrderExists
<1>2. \A n \in Nat : p[n] \in 1 .. P - 1 /\ Mod(p[n]) = p[n] /\ p[n] \in Int
  BY PowerNotZero, PowerDef
<1>3. \A m, n \in Nat : p[m + n] \cong p[m] * p[n]
  BY PowerPlus
<1>4. p[0] = 1
  BY PowerDef
<1> DEFINE U == 1 .. P - 1
           T == {n \in Nat : \A W : Closed(W, a) /\ IsFiniteSet(W) /\ Cardinality(W) <= n
                                      => p[Cardinality(W)] = 1}
<1>5. T \in SUBSET Nat
  OBVIOUS
<1>6. \A W : IsFiniteSet(W) => Cardinality(W) \in Nat
  BY FS_CardinalityType
<1>7. ASSUME NEW W, Closed(W, a), IsFiniteSet(W), W # {}
      PROVE  \E V : /\ Closed(V, a) /\ IsFiniteSet(V)
                    /\ Cardinality(W) = Cardinality(V) + d
  <2>1. PICK w \in W : TRUE
    BY <1>7
  <2> DEFINE O == Orbit(w, a, d)
             V == W \ O
  <2>2. w \in 1 .. P - 1
    BY <1>7 DEF Closed
  <2>3. IsFiniteSet(O) /\ Cardinality(O) = d
    BY <1>1, <2>2, OrbitIs
  <2>4. O \subseteq W /\ Closed(V, a)
    BY <1>1, <1>7, OrbitOut
  <2>5. W = V \cup O /\ V \cap O = {} /\ V \in SUBSET W
    BY <2>4
  <2> HIDE DEF V, O
  <2>6. IsFiniteSet(V)
    BY <1>7, <2>5, FS_Subset
  <2>7. Cardinality(V \cup O) = Cardinality(V) + Cardinality(O) - Cardinality(V \cap O)
    BY <2>3, <2>6, FS_Union
  <2>8. Cardinality(V \cap O) = 0
    BY <2>5, FS_EmptySet
  <2>9. Cardinality(V) \in Nat
    BY <1>6, <2>6
  <2> QED
    BY <2>3, <2>4, <2>5, <2>6, <2>7, <2>8, <2>9
<1> HIDE DEF p
<1>8. ASSUME NEW W, IsFiniteSet(W), W = {} PROVE p[Cardinality(W)] = 1
  BY <1>4, <1>8, FS_EmptySet
<1>9. 0 \in T
  <2>1. ASSUME NEW W, Closed(W, a), IsFiniteSet(W), Cardinality(W) <= 0
        PROVE  p[Cardinality(W)] = 1
    <3>1. Cardinality(W) = 0
      BY <1>6, <2>1
    <3> QED
      BY <1>4, <3>1
  <2> QED
    BY <2>1
<1>10. ASSUME NEW n \in T PROVE n + 1 \in T
  <2>1. n \in Nat /\ \A W : Closed(W, a) /\ IsFiniteSet(W) /\ Cardinality(W) <= n
                              => p[Cardinality(W)] = 1
    OBVIOUS
  <2>2. ASSUME NEW W, Closed(W, a), IsFiniteSet(W), Cardinality(W) <= n + 1
        PROVE  p[Cardinality(W)] = 1
    <3>1. CASE W = {}
      BY <1>8, <2>2, <3>1
    <3>2. CASE W # {}
      <4>1. PICK V : /\ Closed(V, a) /\ IsFiniteSet(V)
                     /\ Cardinality(W) = Cardinality(V) + d
        BY <1>7, <2>2, <3>2
      <4> DEFINE v == Cardinality(V)
      <4>2. v \in Nat /\ v <= n /\ d \in Nat
        BY <1>6, <2>1, <2>2, <4>1
      <4>3. p[v] = 1
        BY <2>1, <4>1, <4>2
      <4> HIDE DEF v
      <4>4. p[v + d] \cong p[v] * p[d]
        BY <1>3, <4>2
      <4>5. p[v] * p[d] = 1
        BY <1>1, <4>3
      <4>6. Mod(p[v + d]) = p[v + d]
        BY <1>2, <4>2
      <4>7. p[v + d] = 1
        BY <4>4, <4>5, <4>6, FieldIs DEF \cong
      <4> QED
        BY <4>1, <4>7 DEF v
    <3> QED
      BY <3>1, <3>2
  <2> QED
    BY <2>1, <2>2
<1> HIDE DEF T
<1>11. T = Nat
  BY <1>5, <1>9, <1>10, Induct
<1>12. Closed(U, a) /\ IsFiniteSet(U) /\ Cardinality(U) = P - 1
  <2>1. ASSUME NEW x \in U PROVE Mod(a * x) \in U
    <3>1. x \in 0 .. P - 1 /\ x # 0 /\ x \in Int
      BY FieldIs
    <3>2. Mod(x) # 0
      BY <3>1, ModSmall
    <3>3. Mod(a * x) # 0 /\ a * x \in Int
      BY <3>1, <3>2, NonZeroTimes
    <3> QED
      BY <3>3, ModIs
  <2> DEFINE one == 1  last == P - 1
  <2>2. one \in Int /\ last \in Int /\ last >= 1 /\ P \in Nat
    BY FieldIs
  <2>3. IsFiniteSet(one .. last) /\ Cardinality(one .. last) = IF one > last THEN 0 ELSE last - one + 1
    BY <2>2, FS_Interval
  <2> QED
    BY <2>1, <2>2, <2>3 DEF Closed
<1>13. P - 1 \in T /\ P - 1 \in Nat
  BY <1>11, FieldIs
<1>14. p[Cardinality(U)] = 1
  <2> HIDE DEF U
  <2>1. Cardinality(U) <= P - 1
    BY <1>12, <1>13
  <2> QED
    BY <1>12, <1>13, <2>1 DEF T
<1> QED
  BY <1>12, <1>14 DEF p

(* The size of a number.                                                   *)
LEMMA NumBitsIs ==
  ASSUME NEW x \in 1 .. TwoTo[NBits + 2] - 1
  PROVE  /\ NumBits(x) \in 1 .. NBits + 2
         /\ TwoTo[NumBits(x) - 1] <= x /\ x < TwoTo[NumBits(x)]
<1> DEFINE T == {n \in Nat : x < TwoTo[n]}
<1>1. NBits + 2 \in Nat /\ TwoTo[NBits + 2] \in Nat /\ x \in Nat /\ x >= 1 /\ x < TwoTo[NBits + 2]
  <2>1. NBits + 2 \in Nat
    BY SizesAre
  <2>2. TwoTo[NBits + 2] \in Nat
    BY <2>1, TwoToDef
  <2> QED
    BY <2>1, <2>2
<1>2. T \in SUBSET Nat /\ T # {}
  BY <1>1
<1>3. PICK n \in T : \A j \in T : n <= j
  <2> HIDE DEF T
  <2> QED
    BY <1>2, Least
<1>4. n # 0
  <2>1. TwoTo[0] = 1 /\ x < TwoTo[n]
    BY TwoToDef
  <2> QED
    BY <1>1, <2>1
<1>5. n - 1 \in Nat /\ n - 1 \notin T
  BY <1>3, <1>4
<1>6. TwoTo[n - 1] <= x
  <2>1. TwoTo[n - 1] \in Nat
    BY <1>5, TwoToDef
  <2> QED
    BY <1>1, <1>5, <2>1
<1>7. n \in 1 .. NBits + 2
  <2>1. NBits + 2 \in T
    BY <1>1
  <2> QED
    BY <1>1, <1>3, <1>4, <2>1
<1>8. x \in TwoTo[n - 1] .. TwoTo[n] - 1
  <2>1. TwoTo[n - 1] \in Nat /\ TwoTo[n] \in Nat
    BY <1>5, TwoToDef
  <2> QED
    BY <1>1, <1>6, <2>1
<1> DEFINE l == CHOOSE j \in 1 .. NBits + 2 : x \in TwoTo[j - 1] .. TwoTo[j] - 1
<1>9. l \in 1 .. NBits + 2 /\ x \in TwoTo[l - 1] .. TwoTo[l] - 1
  BY <1>7, <1>8
<1>10. NumBits(x) = l
  BY <1>1 DEF NumBits
<1> HIDE DEF l
<1>11. TwoTo[l - 1] \in Nat /\ TwoTo[l] \in Nat
  <2>1. l - 1 \in Nat /\ l \in Nat
    BY <1>9
  <2> QED
    BY <2>1, TwoToDef
<1> QED
  BY <1>1, <1>9, <1>10, <1>11

(* The loop of mod_sqrt_default computes a power.                          *)
SqrtStep(x, bits, a, down) ==
  Mod(Mod(a * a) * (IF TestBit(P + 1, bits - down) = 1 THEN x ELSE 1))
SqrtLoop(f, x, bits) ==
  f = [down \in 0 .. bits - 2 |-> IF down = 0 THEN 1 ELSE SqrtStep(x, bits, f[down - 1], down)]

StepsTo(x, u, a, n) ==
  LET b == Mod(Mod(a * a) * (IF u = 1 THEN x ELSE 1))
  IN b \in Int /\ b = Mod(Power(x)[n])

(* One turn of mod_sqrt_default doubles the exponent and adds a bit.       *)
LEMMA SqrtStepIs ==
  ASSUME NEW x \in Int, NEW n \in Nat, NEW u \in {0, 1}, NEW a \in Int, a \cong Power(x)[n],
         NEW e, e = 2 * n + u
  PROVE  StepsTo(x, u, a, e)
<1> DEFINE p == Power(x)
           c == IF u = 1 THEN x ELSE 1
           aa == a * a
           pp == p[n] * p[n]
<1>1. p[0] = 1 /\ (\A j \in Nat : p[j + 1] = Mod(x * p[j])) /\ \A j \in Nat : p[j] \in Int
  BY PowerDef
<1>2. \A l, m \in Nat : p[l + m] \cong p[l] * p[m]
  BY PowerPlus
<1>3. a \cong p[n]
  OBVIOUS
<1> HIDE DEF p
<1>4. aa \in Int /\ pp \in Int /\ aa \cong pp
  BY <1>1, <1>3, CongTimes
<1>5. c \in Int /\ c \cong p[u]
  <2>1. CASE u = 0
    BY <1>1, <2>1, CongSelf
  <2>2. CASE u = 1
    <3>1. p[0 + 1] = Mod(x * p[0]) /\ 0 + 1 = 1 /\ x * 1 = x
      BY <1>1
    <3>2. p[1] = Mod(x)
      BY <1>1, <3>1
    <3>3. Mod(x) \cong x
      BY ModIs
    <3> QED
      BY <2>2, <3>2, <3>3 DEF \cong
  <2> QED
    BY <2>1, <2>2
<1>6. p[2 * n + u] \cong pp * p[u] /\ p[u] \in Int /\ p[2 * n] \in Int
  <2>1. 2 * n = n + n /\ 2 * n \in Nat /\ u \in Nat
    OBVIOUS
  <2>2. p[2 * n] \cong pp
    BY <1>2, <2>1
  <2>3. p[2 * n + u] \cong p[2 * n] * p[u]
    BY <1>2, <2>1
  <2>4. p[2 * n] \in Int /\ p[u] \in Int
    BY <1>1, <2>1
  <2>5. p[2 * n] * p[u] \cong pp * p[u]
    <3> HIDE DEF pp
    <3> QED
      BY <1>4, <2>2, <2>4, CongSelf, CongTimes
  <2> QED
    BY <2>3, <2>4, <2>5, CongChain
<1> HIDE DEF c, aa, pp
<1>7. Mod(aa) \in Int /\ Mod(aa) \cong aa
  BY <1>4, ModIs
<1>8. Mod(aa) \cong pp
  BY <1>4, <1>7, CongChain
<1>9. Mod(aa) * c \cong pp * p[u] /\ Mod(aa) * c \in Int
  BY <1>4, <1>5, <1>6, <1>7, <1>8, CongTimes
<1>10. Mod(Mod(aa) * c) = Mod(p[2 * n + u])
  BY <1>6, <1>9 DEF \cong
<1>11. Mod(Mod(aa) * c) \in Int
  BY <1>9, ModIs
<1> QED
  BY <1>10, <1>11 DEF aa, c, p, StepsTo

(* mod_sqrt_default gives the power (p + 1) / 4.                           *)
LEMMA ModSqrtIs ==
  ASSUME NEW x \in Int
  PROVE  ModSqrt(x) = Mod(Power(x)[(P + 1) \div 4])
<1> DEFINE q == P + 1
           bits == NumBits(q)
           n == bits - 2
           p == Power(x)
<1>1. q \in Nat /\ q >= 4 /\ q \in 1 .. TwoTo[NBits + 2] - 1
  <2>1. P \in Nat /\ P > 2
    BY FieldIs
  <2>2. NBits \in Nat /\ P < TwoTo[NBits]
    BY SizesAre
  <2>3. TwoTo[NBits + 1] = 2 * TwoTo[NBits] /\ TwoTo[NBits + 1 + 1] = 2 * TwoTo[NBits + 1]
        /\ TwoTo[NBits] \in Nat /\ NBits + 1 + 1 = NBits + 2
    BY <2>2, TwoToDef
  <2>4. TwoTo[NBits + 2] = 4 * TwoTo[NBits]
    BY <2>3
  <2> QED
    BY <2>1, <2>2, <2>3, <2>4
<1>2. bits \in 1 .. NBits + 2 /\ TwoTo[bits - 1] <= q /\ q < TwoTo[bits] /\ bits \in Nat
  <2>1. bits \in 1 .. NBits + 2 /\ TwoTo[bits - 1] <= q /\ q < TwoTo[bits]
    BY <1>1, NumBitsIs
  <2>2. NBits \in Nat
    BY SizesAre
  <2> HIDE DEF bits
  <2> QED
    BY <2>1, <2>2
<1>3. bits >= 3
  <2> SUFFICES ASSUME bits <= 2 PROVE FALSE
    BY <1>2
  <2> HIDE DEF bits
  <2>1. TwoTo[bits] <= TwoTo[2]
    BY <1>2, TwoToGrows
  <2>2. TwoTo[2] = 4
    <3>1. TwoTo[0 + 1] = 2 * TwoTo[0] /\ TwoTo[1 + 1] = 2 * TwoTo[1] /\ TwoTo[0] = 1
          /\ 0 + 1 = 1 /\ 1 + 1 = 2
      BY TwoToDef
    <3> QED
      BY <3>1
  <2>3. TwoTo[bits] \in Nat
    BY <1>2, TwoToDef
  <2> QED
    BY <1>1, <1>2, <2>1, <2>2, <2>3
<1> HIDE DEF bits
<1>4. n \in Nat /\ n >= 1
  BY <1>2, <1>3
<1> DEFINE step == [down \in 1 .. n |-> [a \in Int |-> SqrtStep(x, bits, a, down)]]
           S == Int
           one == 1
<1>5. step \in [1 .. n -> [S -> S]] /\ one \in S
  <2>1. ASSUME NEW down \in 1 .. n, NEW a \in Int PROVE SqrtStep(x, bits, a, down) \in Int
    <3> DEFINE c == IF TestBit(P + 1, bits - down) = 1 THEN x ELSE 1
               aa == a * a
    <3>1. c \in Int /\ aa \in Int
      OBVIOUS
    <3> HIDE DEF c, aa
    <3>2. Mod(aa) \in Int
      BY <3>1, ModIs
    <3>3. Mod(aa) * c \in Int
      BY <3>1, <3>2
    <3>4. Mod(Mod(aa) * c) \in Int
      BY <3>3, ModIs
    <3> QED
      BY <3>4 DEF aa, c, SqrtStep
  <2>2. ASSUME NEW down \in 1 .. n PROVE [a \in Int |-> SqrtStep(x, bits, a, down)] \in [S -> S]
    BY <2>1
  <2> HIDE DEF S, n
  <2> QED
    BY <2>2 DEF S
<1>6. ASSUME NEW f \in [0 .. n -> S], Loops(f, n, one, step) PROVE SqrtLoop(f, x, bits)
  <2>1. ASSUME NEW down \in 0 .. n
        PROVE  f[down] = IF down = 0 THEN 1 ELSE SqrtStep(x, bits, f[down - 1], down)
    <3>1. CASE down = 0
      BY <1>6, <3>1 DEF Loops
    <3>2. CASE down # 0
      <4>1. down \in 1 .. n /\ down - 1 \in 0 .. n
        BY <1>4, <3>2
      <4>2. f[down] = step[down][f[down - 1]] /\ f[down - 1] \in Int
        BY <1>6, <4>1 DEF Loops
      <4> HIDE DEF n
      <4> QED
        BY <3>2, <4>1, <4>2
    <3> QED
      BY <3>1, <3>2
  <2>2. f = [down \in 0 .. n |-> f[down]]
    OBVIOUS
  <2> QED
    BY <2>1, <2>2 DEF SqrtLoop
<1> HIDE DEF step, S, one
<1>7. \E f : SqrtLoop(f, x, bits)
  BY <1>4, <1>5, <1>6, LoopExists
<1> DEFINE f == CHOOSE f : SqrtLoop(f, x, bits)
<1>8. SqrtLoop(f, x, bits)
  BY <1>7
<1>9. ModSqrt(x) = f[n]
  BY DEF ModSqrt, SqrtLoop, SqrtStep, bits
<1> HIDE DEF f
<1>10. f = [down \in 0 .. n |-> IF down = 0 THEN 1 ELSE SqrtStep(x, bits, f[down - 1], down)]
  BY <1>8 DEF SqrtLoop
<1> DEFINE e(down) == q \div TwoTo[bits - down]
           T == {down \in Nat : down <= n => f[down] \in Int /\ f[down] = Mod(p[e(down)])}
<1>11. T \in SUBSET Nat
  OBVIOUS
<1>12. 0 \in T
  <2>1. f[0] = 1
    BY <1>4, <1>10
  <2>2. e(0) = 0
    <3> DEFINE t == TwoTo[bits]
    <3>1. bits - 0 = bits /\ t \in Nat \ {0} /\ q < t /\ q \in Nat
      BY <1>1, <1>2, TwoToDef
    <3> HIDE DEF t, q
    <3> DEFINE o == 0
    <3>2. q \in 0 .. t - 1 /\ o \in Nat /\ q = t * o + q
      BY <3>1
    <3> HIDE DEF o
    <3>3. (t * o + q) \div t = o
      BY <3>1, <3>2, DivUnique
    <3> QED
      BY <3>1, <3>2, <3>3 DEF t, o
  <2>3. p[0] = 1 /\ Mod(1) = 1
    BY PowerDef, FieldIs
  <2> HIDE DEF e, p
  <2> QED
    BY <2>1, <2>2, <2>3
<1>13. ASSUME NEW down \in T PROVE down + 1 \in T
  <2> SUFFICES ASSUME down + 1 <= n
               PROVE  f[down + 1] \in Int /\ f[down + 1] = Mod(p[e(down + 1)])
    OBVIOUS
  <2>1. /\ down \in Nat /\ down <= n /\ down + 1 \in 0 .. n /\ down + 1 # 0
        /\ (down + 1) - 1 = down /\ down \in 0 .. n
    BY <1>4
  <2>2. f[down] \in Int /\ f[down] = Mod(p[e(down)])
    BY <2>1
  <2> DEFINE i == bits - (down + 1)
             u == TestBit(q, i)
             a == f[down]
  <2>3. i \in Nat /\ i + 1 = bits - down
    BY <1>2, <2>1
  <2>4. u \in {0, 1} /\ e(down) \in Nat /\ e(down + 1) = 2 * e(down) + u
    <3> HIDE DEF q, i
    <3>1. q \in Nat
      BY <1>1
    <3>2. /\ u \in {0, 1} /\ q \div TwoTo[i + 1] \in Nat
          /\ q \div TwoTo[i] = 2 * (q \div TwoTo[i + 1]) + u
      BY <2>3, <3>1, BitsIs
    <3> QED
      BY <2>3, <3>2 DEF i
  <2>5. f[down + 1] = Mod(Mod(a * a) * (IF u = 1 THEN x ELSE 1))
    BY <1>10, <2>1 DEF SqrtStep
  <2> HIDE DEF e, u
  <2>6. a \cong Power(x)[e(down)]
    <3>1. p[e(down)] \in Int
      BY <2>4, PowerDef
    <3>2. Mod(p[e(down)]) \cong p[e(down)]
      BY <3>1, ModIs
    <3> QED
      BY <2>2, <3>2
  <2> DEFINE l == e(down)
  <2>7. a \in Int /\ l \in Nat /\ a \cong Power(x)[l]
    BY <2>2, <2>4, <2>6
  <2> HIDE DEF a, l
  <2> DEFINE g == e(down + 1)
  <2>8. g = 2 * l + u
    BY <2>4 DEF l
  <2> HIDE DEF g
  <2>9. u \in {0, 1}
    BY <2>4
  <2>10. StepsTo(x, u, a, g)
    BY <2>7, <2>8, <2>9, SqrtStepIs
  <2> QED
    BY <2>5, <2>10 DEF g, StepsTo
<1> HIDE DEF T
<1>14. T = Nat
  BY <1>11, <1>12, <1>13, Induct
<1>15. f[n] = Mod(p[e(n)])
  BY <1>4, <1>14 DEF T
<1>16. e(n) = (P + 1) \div 4
  <2>1. bits - n = 2
    BY <1>2
  <2>2. TwoTo[2] = 4
    <3>1. TwoTo[0 + 1] = 2 * TwoTo[0] /\ TwoTo[1 + 1] = 2 * TwoTo[1] /\ TwoTo[0] = 1
          /\ 0 + 1 = 1 /\ 1 + 1 = 2
      BY TwoToDef
    <3> QED
      BY <3>1
  <2> QED
    BY <2>1, <2>2
<1> QED
  BY <1>9, <1>15, <1>16

(* The powers of a square.                                                 *)
LEMMA PowerSquare ==
  ASSUME NEW y \in Int, NEW s \in Int, s \cong y * y, NEW n \in Nat
  PROVE  Power(s)[n] \cong Power(y)[2 * n]
<1> DEFINE p == Power(s)
           q == Power(y)
           T == {j \in Nat : p[j] \cong q[2 * j]}
<1>1. p[0] = 1 /\ (\A j \in Nat : p[j + 1] = Mod(s * p[j])) /\ \A j \in Nat : p[j] \in Int
  BY PowerDef
<1>2. q[0] = 1 /\ (\A j \in Nat : q[j + 1] = Mod(y * q[j])) /\ \A j \in Nat : q[j] \in Int
  BY PowerDef
<1> HIDE DEF p, q
<1>3. T \in SUBSET Nat
  OBVIOUS
<1>4. 0 \in T
  <2>1. p[0] \cong q[2 * 0]
    <3>1. 2 * 0 = 0
      OBVIOUS
    <3> QED
      BY <1>1, <1>2, <3>1 DEF \cong
  <2> QED
    BY <2>1
<1>5. ASSUME NEW j \in T PROVE j + 1 \in T
  <2> DEFINE a == p[j]  b == q[2 * j]  c == q[2 * j + 1]  yy == y * y
  <2>1. j \in Nat /\ 2 * j \in Nat /\ 2 * j + 1 \in Nat /\ 2 * (j + 1) = (2 * j + 1) + 1
        /\ a \cong b
    OBVIOUS
  <2>2. /\ a \in Int /\ b \in Int /\ c \in Int /\ c = Mod(y * b) /\ p[j + 1] = Mod(s * a)
        /\ q[2 * (j + 1)] = Mod(y * c) /\ yy \in Int /\ s \cong yy
    BY <1>1, <1>2, <2>1
  <2> HIDE DEF a, b, c, yy
  <2>3. s * a \cong yy * b /\ s * a \in Int /\ yy * b \in Int
    BY <2>1, <2>2, CongTimes
  <2> DEFINE yb == y * b
  <2>4. yb \in Int /\ c = Mod(yb) /\ yy * b = y * yb
    BY <2>2 DEF yy
  <2> HIDE DEF yb
  <2>5. c \cong yb
    BY <2>4, ModIs
  <2>6. y * c \cong y * yb
    BY <2>2, <2>4, <2>5, CongSelf, CongTimes
  <2>7. y * c \in Int
    BY <2>2
  <2>8. Mod(s * a) \cong s * a /\ Mod(y * c) \cong y * c
    BY <2>3, <2>7, ModIs
  <2>9. p[j + 1] \cong q[2 * (j + 1)]
    BY <2>2, <2>3, <2>4, <2>6, <2>8 DEF \cong
  <2> QED
    BY <2>1, <2>9
<1> HIDE DEF T
<1>6. T = Nat
  BY <1>3, <1>4, <1>5, Induct
<1>7. p[n] \cong q[2 * n]
  BY <1>6 DEF T
<1> QED
  BY <1>7 DEF p, q

(* The square root of a square is one of its two roots.                    *)
LEMMA RootIs ==
  ASSUME NEW y \in 1 .. P - 1
  PROVE  ModSqrt(Mod(y * y)) \in {y, P - y}
<1> DEFINE yy == y * y
           s == Mod(yy)
           n == (P + 1) \div 4
           a == Power(s)[n]
           r == Mod(a)
           q == Power(y)
<1>1. P \in Nat /\ P > 2 /\ P % 2 = 1 /\ P % 4 = 3
  BY FieldIs, EcdsaAssumption
<1>2. n \in Nat /\ 4 * n = P + 1 /\ P - 1 \in Nat
  BY <1>1
<1>3. y \in Int /\ y \in 0 .. P - 1 /\ y # 0 /\ yy \in Int
  BY <1>1
<1>4. Mod(y) # 0 /\ Mod(y) = y
  BY <1>3, ModSmall
<1> HIDE DEF yy
<1>5. s \in Int /\ s \cong yy
  BY <1>3, ModIs
<1>6. s \cong y * y
  BY <1>5 DEF yy
<1> HIDE DEF s, n
<1>7. ModSqrt(s) = r
  BY <1>5, ModSqrtIs DEF n
<1>8. a \in Int
  BY <1>2, <1>5, PowerDef
<1> HIDE DEF a
<1>9. r \in 0 .. P - 1 /\ r \in Int /\ r \cong a
  BY <1>8, ModIs
<1>10. a \cong q[2 * n]
  BY <1>2, <1>3, <1>5, <1>6, PowerSquare DEF a
<1>11. (\A j \in Nat : q[j] \in Int) /\ q[0] = 1 /\ \A j \in Nat : q[j + 1] = Mod(y * q[j])
  BY <1>3, PowerDef
<1>12. \A l, m \in Nat : q[l + m] \cong q[l] * q[m]
  BY <1>3, PowerPlus
<1>13. q[P - 1] = 1
  BY <1>3, <1>4, Fermat
<1> HIDE DEF q, r
<1>14. r \cong q[2 * n]
  BY <1>9, <1>10, CongChain
<1>15. r * r \cong q[P + 1]
  <2> DEFINE h == 2 * n  c == q[2 * n]
  <2>1. h \in Nat /\ h + h = P + 1
    BY <1>2
  <2>2. c \in Int
    BY <1>11, <2>1
  <2>3. r \cong c
    BY <1>14
  <2>4. q[h + h] \cong c * c
    BY <1>12, <2>1
  <2> HIDE DEF h, c
  <2>5. r * r \cong c * c
    BY <1>9, <2>2, <2>3, CongTimes
  <2>6. r * r \cong q[h + h]
    BY <2>4, <2>5 DEF \cong
  <2> QED
    BY <2>1, <2>6
<1>16. q[P + 1] \cong yy
  <2> DEFINE l == P - 1  two == 2
  <2>1. l \in Nat /\ two \in Nat /\ l + two = P + 1
    BY <1>1
  <2>2. q[two] \cong yy
    <3> DEFINE one == 1
    <3>1. q[0 + 1] = Mod(y * q[0]) /\ q[1 + 1] = Mod(y * q[1]) /\ 0 + 1 = 1 /\ 1 + 1 = 2 /\ y * 1 = y
      BY <1>3, <1>11
    <3>2. q[1] = y
      BY <1>4, <1>11, <3>1
    <3>3. q[two] = Mod(yy)
      BY <3>1, <3>2 DEF yy
    <3> QED
      BY <1>3, <3>3, ModIs
  <2>3. q[l] = 1 /\ q[two] \in Int
    BY <1>11, <1>13, <2>1
  <2> HIDE DEF l, two
  <2>4. q[l + two] \cong q[l] * q[two]
    BY <1>12, <2>1
  <2>5. q[l] * q[two] = q[two]
    BY <2>3
  <2> QED
    BY <2>1, <2>2, <2>4, <2>5 DEF \cong
<1>17. Mod((r - y) * (r + y)) = 0
  <2> DEFINE rr == r * r
  <2>1. rr \in Int /\ (r - y) * (r + y) = rr - yy /\ yy - yy = 0 /\ rr \cong yy
    <3>1. r * r \cong yy
      BY <1>15, <1>16, CongChain
    <3> QED
      BY <1>3, <1>9, <3>1 DEF yy
  <2> HIDE DEF rr
  <2>2. rr - yy \cong yy - yy
    BY <1>3, <2>1, CongSelf, CongMinus
  <2>3. Mod(rr - yy) = Mod(0)
    BY <2>1, <2>2 DEF \cong
  <2> QED
    BY <2>1, <2>3, FieldIs
<1>18. Mod(r - y) = 0 \/ Mod(r + y) = 0
  <2> DEFINE f == r - y  g == r + y
  <2>1. f \in Int /\ g \in Int
    BY <1>3, <1>9
  <2>2. Mod(f * g) = 0
    BY <1>17
  <2> HIDE DEF f, g
  <2>3. Mod(f) = 0 \/ Mod(g) = 0
    BY <2>1, <2>2, NonZeroTimes
  <2> QED
    BY <2>3 DEF f, g
<1>19. CASE Mod(r - y) = 0
  <2>1. ASSUME r # y PROVE FALSE
    <3>1. Mod(r - y) # 0
      BY <1>3, <1>9, <2>1, DifferenceIs
    <3> QED
      BY <1>19, <3>1
  <2> QED
    BY <1>7, <2>1 DEF s, yy
<1>20. CASE Mod(r + y) = 0
  <2> DEFINE g == P - y
  <2>1. g \in 0 .. P - 1 /\ r - g = (r + y) + P * (-1)
    BY <1>1, <1>3, <1>9
  <2>2. ASSUME r # g PROVE FALSE
    <3>1. Mod(r - g) # 0
      <4> HIDE DEF g
      <4> QED
        BY <1>9, <2>1, <2>2, DifferenceIs
    <3> DEFINE h == r + y  o == -1  e == r - g
    <3>2. h \in Int /\ o \in Int /\ e \in Int /\ e = h + P * o /\ P \in Nat \ {0}
      BY <1>1, <1>3, <1>9, <2>1
    <3> HIDE DEF h, o, e, g
    <3>3. Same(e, h, P)
      BY <3>2, SameIs
    <3>4. Mod(e) = Mod(h)
      BY <3>3 DEF Same, Mod
    <3> QED
      BY <1>20, <3>1, <3>4 DEF e, h
  <2> QED
    BY <1>7, <2>2 DEF s, yy
<1> QED
  BY <1>18, <1>19, <1>20

(* A key that has travelled in its short form is the same.                 *)
LEMMA CompressIs ==
  ASSUME NEW m \in 1 .. N - 1
  PROVE  Decompress(Compress(Multiple(m))) = Multiple(m)
<1> DEFINE x == Multiple(m)[1]
           y == Multiple(m)[2]
           r == ModSqrt(XSide(x))
<1>1. NotZero(m) /\ m \in Int
  <2>1. m \in 0 .. N - 1 /\ m \in Int /\ N \in Nat \ {0}
    BY FieldIs
  <2>2. m % N = m
    BY <2>1, SameSmall
  <2> QED
    BY <2>1, <2>2, NotZeroRest
<1>2. Multiple(m) = <<x, y>> /\ x \in 1 .. P - 1 /\ y \in 1 .. P - 1 /\ Mod(y * y) = XSide(x)
  <2>1. Multiple(m) \in (1 .. P - 1) \X (1 .. P - 1) /\ ValidPoint(Multiple(m))
    BY <1>1, MultipleIs
  <2> QED
    BY <2>1 DEF ValidPoint
<1>3. P \in Nat /\ P > 2 /\ P % 2 = 1
  BY FieldIs
<1> HIDE DEF x, y
<1>4. r = y \/ r = P - y
  BY <1>2, RootIs
<1>5. Compress(Multiple(m)) = <<2 + (y % 2), x>>
  BY <1>2 DEF Compress
<1>6. Decompress(<<2 + (y % 2), x>>)
        = <<x, IF r % 2 # (2 + (y % 2)) % 2 THEN P - r ELSE r>>
  BY DEF Decompress
<1> HIDE DEF r
<1>7. (2 + (y % 2)) % 2 = y % 2 /\ (P - y) % 2 # y % 2 /\ P - (P - y) = y
  BY <1>2, <1>3
<1> QED
  BY <1>2, <1>4, <1>5, <1>6, <1>7

-----------------------------------------------------------------------------
(* The state: the key pair, and EccPoint_mult while it is at work.         *)
KeyPair == private \in 1 .. N - 1 /\ private \notin Unreachable /\ public = Multiple(private)

Callers == {"key", "make", "sign", "secret"}
Ladders == [caller : Callers, point : Places, scalar : Nat, i : 0 .. NBits - 1,
            R : [0 .. 1 -> Places]]

(* The call in progress: its scalar, its point, and the key it is about.   *)
Calling ==
  /\ ladder \in Ladders /\ k \in 1 .. N - 1
  /\ ladder.scalar = RegularizeK(k) /\ ladder.point = Multiple(BaseLog)
  /\ IF ladder.caller \in {"key", "make"} THEN private = k ELSE KeyPair

(* The inductive invariant of keys and of the ladder.                      *)
LadderInv ==
  /\ pc \in {"idle", "ladder", "multiplied", "key", "signed", "verify", "verified"}
  /\ pc \in {"key", "signed", "verify", "verified"} => KeyPair
  /\ pc \in {"ladder", "multiplied"} => Calling
  /\ pc = "ladder" => Rungs(ladder.R, k, ladder.i, BaseLog)
  /\ pc = "multiplied" =>
       product = IF k \in Unreachable THEN <<0, 0>> ELSE Multiple(k * BaseLog)

(* What is multiplied is not the point at infinity.                        *)
LEMMA BaseIs ==
  ASSUME Calling
  PROVE  /\ BaseLog \in 1 .. N - 1 /\ BaseLog \in Int /\ NotZero(BaseLog)
         /\ ladder.caller # "secret" => BaseLog = 1
<1>1. 1 \in 1 .. N - 1
  BY FieldIs
<1>2. BaseLog \in 1 .. N - 1
  BY <1>1 DEF Calling, BaseLog, KeyPair
<1> QED
  BY <1>2, NotZeroSmall DEF BaseLog

(* The arguments of a call.                                                *)
LEMMA ArgumentsAre ==
  /\ \A d \in PrivateKeys \cup Nonces : InRange(d) => d \in 1 .. N - 1
  /\ G = Multiple(1) /\ 1 \in 1 .. N - 1
<1>1. N \in Nat \ {0} /\ N > 2
  BY FieldIs
<1>2. ASSUME NEW d \in PrivateKeys \cup Nonces, InRange(d) PROVE d \in 1 .. N - 1
  <2>1. d \in 0 .. TwoTo[NBits] - 1
    BY EcdsaAssumption
  <2>2. d # 0 /\ d < N
    BY <1>2 DEF InRange
  <2> QED
    BY <1>1, <2>1, <2>2
<1> QED
  BY <1>1, <1>2, MultiplesIs

(* A call of EccPoint_mult.                                                *)
LEMMA StartIs ==
  ASSUME NEW caller, NEW b \in 1 .. N - 1, NEW point, point = Multiple(b), NEW m \in 1 .. N - 1,
         StartLadder(caller, point, m)
  PROVE  /\ pc' = "ladder" /\ k' = m
         /\ ladder' \in [caller : {caller}, point : {point}, scalar : {RegularizeK(m)},
                         i : {NBits - 1}, R : [0 .. 1 -> Places]]
         /\ Rungs(ladder'.R, m, NBits - 1, b)
<1>1. PICK initial_Z \in InitialZs :
        LET double == DoubleJacobian(ApplyZ(point, initial_Z), initial_Z)
        IN ladder' = [caller |-> caller, point |-> point, scalar |-> RegularizeK(m),
                      i |-> NBits - 1,
                      R |-> [j \in 0 .. 1 |-> IF j = 1 THEN double.point
                                              ELSE ApplyZ(point, double.z)]]
  BY DEF StartLadder
<1> DEFINE double == DoubleJacobian(ApplyZ(point, initial_Z), initial_Z)
           R == [j \in 0 .. 1 |-> IF j = 1 THEN double.point ELSE ApplyZ(point, double.z)]
<1>2. ladder' = [caller |-> caller, point |-> point, scalar |-> RegularizeK(m),
                 i |-> NBits - 1, R |-> R]
  BY <1>1
<1>3. b \in Int /\ NotZero(b)
  BY NotZeroSmall
<1>4. PICK z \in Int : /\ Mod(z) # 0 /\ ApplyZ(point, double.z) = At(b, z)
                       /\ double.point = At(2 * b, z)
  BY <1>3, StartsAt
<1> DEFINE S == {At(b, z), At(2 * b, z)}
<1>5. R \in [0 .. 1 -> S] /\ R[0] = At(b, z) /\ R[1] = At(2 * b, z)
  <2> HIDE DEF double
  <2>1. 0 \in 0 .. 1 /\ 1 \in 0 .. 1
    OBVIOUS
  <2>2. R[0] = At(b, z) /\ R[1] = At(2 * b, z)
    BY <1>4, <2>1
  <2>3. \A j \in 0 .. 1 : (IF j = 1 THEN double.point ELSE ApplyZ(point, double.z)) \in S
    BY <1>4
  <2> QED
    BY <2>2, <2>3
<1> HIDE DEF double, R
<1>6. Regularly(R, Regular(m) \div TwoTo[(NBits - 1) + 1], b)
  <2>1. (NBits - 1) + 1 = NBits /\ 1 * b = b /\ (1 + 1) * b = 2 * b
    BY <1>3, SizesAre
  <2>2. Regular(m) \div TwoTo[NBits] = 1
    BY PrefixIs
  <2>3. Regularly(R, 1, b)
    BY <1>4, <1>5, <2>1 DEF Regularly
  <2> QED
    BY <2>1, <2>2, <2>3
<1>7. Rungs(R, m, NBits - 1, b) /\ NBits - 1 \in 0 .. NBits - 1
  BY <1>6, OrderIs DEF Rungs
<1>8. R \in [0 .. 1 -> Places]
  <2> HIDE DEF S
  <2> QED
    BY <1>3, <1>5, <1>7, RungsIn
<1>9. ladder'.R = R
  BY <1>2
<1> QED
  BY <1>2, <1>7, <1>8, <1>9 DEF StartLadder

(* The calls on behalf of a key that is to be computed, and of a key pair. *)
LEMMA CallForKey ==
  ASSUME NEW caller \in {"key", "make"}, NEW d \in 1 .. N - 1, private' = d,
         StartLadder(caller, G, d)
  PROVE  LadderInv'
<1>1. /\ pc' = "ladder" /\ k' = d
      /\ ladder' \in [caller : {caller}, point : {G}, scalar : {RegularizeK(d)},
                      i : {NBits - 1}, R : [0 .. 1 -> Places]]
      /\ Rungs(ladder'.R, d, NBits - 1, 1)
  BY ArgumentsAre, StartIs
<1>2. ladder'.caller = caller /\ ladder'.i = NBits - 1 /\ ladder'.scalar = RegularizeK(d)
      /\ ladder'.point = G
  BY <1>1
<1>3. BaseLog' = 1
  BY <1>2 DEF BaseLog
<1>4. ladder' \in Ladders
  <2>1. G \in Places /\ RegularizeK(d) \in Nat /\ NBits - 1 \in 0 .. NBits - 1
    <3>1. RegularizeK(d) \in 0 .. TwoTo[NBits] - 1
      BY RegularIs
    <3>2. G \in Places
      BY EcdsaAssumption DEF Places
    <3> QED
      BY <3>1, <3>2, OrderIs
  <2> QED
    BY <1>1, <2>1 DEF Ladders, Callers
<1>5. Calling'
  BY <1>1, <1>2, <1>3, <1>4, ArgumentsAre DEF Calling
<1> QED
  BY <1>1, <1>2, <1>3, <1>5 DEF LadderInv

(* A call that signs or makes a shared secret.                             *)
LEMMA CallWithKey ==
  ASSUME NEW caller \in {"sign", "secret"}, NEW m \in 1 .. N - 1, KeyPair, UNCHANGED keyVars,
         NEW point, point = (IF caller = "secret" THEN public ELSE G),
         StartLadder(caller, point, m)
  PROVE  LadderInv'
<1> DEFINE b == IF caller = "secret" THEN private ELSE 1
<1>1. b \in 1 .. N - 1 /\ point = Multiple(b)
  BY ArgumentsAre DEF KeyPair
<1>2. KeyPair' /\ private' = private
  BY DEF KeyPair, keyVars
<1> HIDE DEF b
<1>3. /\ pc' = "ladder" /\ k' = m
      /\ ladder' \in [caller : {caller}, point : {point}, scalar : {RegularizeK(m)},
                      i : {NBits - 1}, R : [0 .. 1 -> Places]]
      /\ Rungs(ladder'.R, m, NBits - 1, b)
  BY <1>1, StartIs
<1>4. ladder'.caller = caller /\ ladder'.i = NBits - 1 /\ ladder'.scalar = RegularizeK(m)
      /\ ladder'.point = point
  BY <1>3
<1>5. BaseLog' = b
  BY <1>2, <1>4 DEF BaseLog, b
<1>6. ladder' \in Ladders
  <2>1. point \in Places
    <3>1. NotZero(b) /\ b \in Int
      BY <1>1, NotZeroSmall
    <3>2. Multiple(b) \in (1 .. P - 1) \X (1 .. P - 1)
      BY <3>1, MultipleIs
    <3> QED
      BY <1>1, <3>2 DEF Places
  <2>2. RegularizeK(m) \in Nat /\ NBits - 1 \in 0 .. NBits - 1
    <3>1. RegularizeK(m) \in 0 .. TwoTo[NBits] - 1
      BY RegularIs
    <3> QED
      BY <3>1, OrderIs
  <2> QED
    BY <1>3, <2>1, <2>2 DEF Ladders, Callers
<1>7. Calling'
  BY <1>1, <1>2, <1>3, <1>4, <1>5, <1>6 DEF Calling
<1> QED
  BY <1>3, <1>4, <1>5, <1>7 DEF LadderInv

(* One bit.                                                                *)
LEMMA StepKeepsLadder ==
  ASSUME LadderInv, LadderStep
  PROVE  LadderInv'
<1> DEFINE i == ladder.i  b == BaseLog  R == ladder.R  nb == LadderBit
<1>1. /\ pc = "ladder" /\ i > 0 /\ pc' = pc /\ private' = private /\ public' = public /\ k' = k
      /\ Calling /\ Rungs(R, k, i, b)
  BY DEF LadderStep, LadderInv, keyVars
<1>2. ladder \in Ladders /\ k \in 1 .. N - 1 /\ R \in [0 .. 1 -> Places] /\ i \in 1 .. NBits - 1
      /\ i - 1 \in 0 .. NBits - 1 /\ ladder.scalar = RegularizeK(k)
  <2>1. ladder \in Ladders /\ k \in 1 .. N - 1 /\ ladder.scalar = RegularizeK(k)
    BY <1>1 DEF Calling
  <2>2. R \in [0 .. 1 -> Places] /\ i \in 0 .. NBits - 1
    BY <2>1 DEF Ladders
  <2>3. i \in 1 .. NBits - 1 /\ i - 1 \in 0 .. NBits - 1
    BY <1>1, <2>2, SizesAre
  <2> QED
    BY <2>1, <2>2, <2>3
<1>3. b \in 1 .. N - 1 /\ b \in Int /\ NotZero(b)
  BY <1>1, BaseIs
<1>4. nb = 1 - TestBit(RegularizeK(k), i)
  BY <1>2 DEF LadderBit
<1>5. Rungs(Turned(R, nb), k, i - 1, b)
  <2> HIDE DEF R, i, b, nb
  <2>1. k \in 1 .. N - 1 /\ i \in 1 .. NBits - 1 /\ R \in [0 .. 1 -> Places]
        /\ b \in Int /\ NotZero(b) /\ Rungs(R, k, i, b)
    BY <1>1, <1>2, <1>3
  <2>2. Rungs(Turned(R, 1 - TestBit(RegularizeK(k), i)), k, i - 1, b)
    BY <2>1, RungsTurn, Zenon
  <2> QED
    BY <1>4, <2>2
<1>6. ladder' = [ladder EXCEPT !.i = i - 1, !.R = Turned(R, nb)]
  <2>1. LET sums == XYcZAddC(R[1 - nb], R[nb])
            next == XYcZAdd(sums[2], sums[1])
        IN ladder' = [ladder EXCEPT !.i = @ - 1, !.R[nb] = next[1], !.R[1 - nb] = next[2]]
    BY DEF LadderStep
  <2>2. ladder = [caller |-> ladder.caller, point |-> ladder.point, scalar |-> ladder.scalar,
                  i |-> i, R |-> R]
    BY <1>2 DEF Ladders
  <2> HIDE DEF nb
  <2> QED
    BY <2>1, <2>2 DEF Turned
<1>7. Turned(R, nb) \in [0 .. 1 -> Places]
  <2> DEFINE T == Turned(R, nb)
  <2>1. \E S : T \in [0 .. 1 -> S]
    <3> DEFINE sums == XYcZAddC(R[1 - nb], R[nb])
               next == XYcZAdd(sums[2], sums[1])
               n1 == next[1]
               n2 == next[2]
    <3>1. T = [R EXCEPT ![nb] = n1, ![1 - nb] = n2]
      BY DEF Turned
    <3> HIDE DEF n1, n2, T, nb, R
    <3>2. T \in [0 .. 1 -> Places \cup {n1, n2}]
      BY <1>2, <3>1
    <3> QED
      BY <3>2
  <2>2. PICK S : T \in [0 .. 1 -> S]
    BY <2>1
  <2> HIDE DEF T, i, b
  <2> QED
    BY <1>2, <1>3, <1>5, <2>2, RungsIn DEF T
<1> DEFINE T == Turned(R, nb)
<1> HIDE DEF T
<1>8. /\ ladder' \in Ladders /\ ladder'.i = i - 1 /\ ladder'.R = T
      /\ ladder'.caller = ladder.caller /\ ladder'.scalar = ladder.scalar
      /\ ladder'.point = ladder.point
  <2>1. ladder' = [ladder EXCEPT !.i = i - 1, !.R = T] /\ T \in [0 .. 1 -> Places]
    BY <1>6, <1>7 DEF T
  <2> HIDE DEF R, nb
  <2> QED
    BY <1>2, <2>1 DEF Ladders
<1>9. BaseLog' = BaseLog
  BY <1>1, <1>8 DEF BaseLog
<1>10. Calling'
  <2>1. KeyPair => KeyPair'
    BY <1>1 DEF KeyPair
  <2> QED
    BY <1>1, <1>2, <1>8, <1>9, <2>1 DEF Calling
<1>11. Rungs(ladder'.R, k', ladder'.i, BaseLog')
  BY <1>1, <1>5, <1>8, <1>9 DEF T
<1> QED
  BY <1>1, <1>10, <1>11 DEF LadderInv

(* The last one.                                                           *)
LEMMA EndKeepsLadder ==
  ASSUME LadderInv, LadderEnds
  PROVE  LadderInv'
<1> DEFINE b == BaseLog  R == ladder.R  nb == LadderBit
<1>1. /\ pc = "ladder" /\ ladder.i = 0 /\ pc' = "multiplied"
      /\ private' = private /\ public' = public /\ k' = k /\ ladder' = ladder
      /\ Calling /\ Rungs(R, k, 0, b)
  BY DEF LadderEnds, LadderInv, keyVars
<1>2. ladder \in Ladders /\ k \in 1 .. N - 1 /\ R \in [0 .. 1 -> Places]
      /\ ladder.scalar = RegularizeK(k) /\ ladder.point = Multiple(b)
  BY <1>1 DEF Calling, Ladders
<1>3. b \in 1 .. N - 1 /\ b \in Int /\ NotZero(b)
  BY <1>1, BaseIs
<1>4. nb = 1 - TestBit(RegularizeK(k), 0)
  BY <1>1, <1>2 DEF LadderBit
<1>5. product' = Multiplied(R, nb, ladder.point)
  BY DEF LadderEnds, Multiplied
<1>6. product' = IF k \in Unreachable THEN <<0, 0>> ELSE Multiple(k * b)
  <2> HIDE DEF R, b, nb
  <2> QED
    BY <1>1, <1>2, <1>3, <1>4, <1>5, RungsLast
<1>7. BaseLog' = BaseLog /\ (KeyPair => KeyPair')
  BY <1>1 DEF BaseLog, KeyPair
<1>8. Calling'
  BY <1>1, <1>7 DEF Calling
<1> QED
  BY <1>1, <1>6, <1>7, <1>8 DEF LadderInv

(* A key that was computed is a pair, and none of the unreachable ones.    *)
LEMMA KeyKeepsLadder ==
  ASSUME LadderInv, KeyIsComputed
  PROVE  LadderInv'
<1>1. /\ pc = "multiplied" /\ ladder.caller \in {"key", "make"} /\ ~IsZero(product)
      /\ pc' = "key" /\ public' = product /\ private' = private
      /\ Calling /\ product = IF k \in Unreachable THEN <<0, 0>> ELSE Multiple(k * BaseLog)
  BY DEF KeyIsComputed, LadderInv
<1>2. k \in 1 .. N - 1 /\ private = k /\ BaseLog = 1
  BY <1>1, BaseIs DEF Calling
<1>3. k \notin Unreachable
  BY <1>1 DEF IsZero
<1>4. k * BaseLog = k
  <2>1. k \in Int
    BY <1>2, NotZeroSmall
  <2> QED
    BY <1>2, <2>1
<1>5. KeyPair'
  BY <1>1, <1>2, <1>3, <1>4 DEF KeyPair
<1> QED
  BY <1>1, <1>5 DEF LadderInv

(* Steps that leave the ladder and the key pair alone.                     *)
LEMMA SameKeepsLadder ==
  ASSUME LadderInv, UNCHANGED <<keyVars, k, ladder, product>>,
         pc' \in {"key", "signed", "verify", "verified"}, KeyPair
  PROVE  LadderInv'
<1>1. KeyPair'
  BY DEF KeyPair, keyVars
<1> QED
  BY <1>1 DEF LadderInv

(* Every step keeps the invariant.                                         *)
LEMMA NextKeepsLadder ==
  ASSUME LadderInv, EcdsaNext
  PROVE  LadderInv'
<1>1. ASSUME NEW d \in PrivateKeys, ComputePublicKey(d) PROVE LadderInv'
  <2>1. private' = d /\ InRange(d) /\ StartLadder("key", G, d)
    BY <1>1 DEF ComputePublicKey
  <2> QED
    BY <2>1, ArgumentsAre, CallForKey
<1>2. ASSUME NEW d \in PrivateKeys, MakeKey(d) PROVE LadderInv'
  <2>1. private' = d /\ Draws(d) /\ StartLadder("make", G, d)
    BY <1>2 DEF MakeKey
  <2> QED
    BY <2>1, ArgumentsAre, CallForKey DEF Draws
<1>3. ASSUME NEW d \in MadeKeys, SharedSecret(d) PROVE LadderInv'
  <2>1. /\ d \in PrivateKeys /\ InRange(d)
        /\ pc = "key" /\ StartLadder("secret", public, d) /\ UNCHANGED keyVars
    BY <1>3 DEF SharedSecret, MadeKeys
  <2>2. KeyPair
    BY <2>1 DEF LadderInv
  <2> QED
    BY <2>1, <2>2, ArgumentsAre, CallWithKey
<1>4. ASSUME NEW m \in 1 .. N - 1, StartSigning(m), KeyPair PROVE LadderInv'
  <2>1. StartLadder("sign", G, m) /\ UNCHANGED keyVars
    BY <1>4 DEF StartSigning
  <2> QED
    BY <1>4, <2>1, CallWithKey
<1>5. ASSUME NEW e \in Hashes, NEW m \in Nonces, Sign(e, m) \/ SignWithK(e, m) PROVE LadderInv'
  <2>1. pc = "key" /\ InRange(m) /\ StartSigning(m)
    BY <1>5 DEF Sign, SignWithK, Draws
  <2>2. KeyPair /\ m \in 1 .. N - 1
    BY <2>1, ArgumentsAre DEF LadderInv
  <2> QED
    BY <1>4, <2>1, <2>2
<1>6. ASSUME NEW m \in Nonces, SignAgain(m) PROVE LadderInv'
  <2>1. pc = "multiplied" /\ ladder.caller = "sign" /\ InRange(m) /\ StartSigning(m)
    BY <1>6 DEF SignAgain, Draws
  <2>2. KeyPair /\ m \in 1 .. N - 1
    BY <2>1, ArgumentsAre DEF LadderInv, Calling
  <2> QED
    BY <1>4, <2>1, <2>2
<1>7. CASE CompressKey
  <2>1. pc = "key" /\ pc' = pc /\ private' = private /\ public' = Decompress(Compress(public))
    BY <1>7 DEF CompressKey
  <2>2. KeyPair
    BY <2>1 DEF LadderInv
  <2>3. KeyPair'
    BY <2>1, <2>2, CompressIs DEF KeyPair
  <2> QED
    BY <2>1, <2>3 DEF LadderInv
<1>8. CASE SignatureIsMade
  <2>1. pc = "multiplied" /\ ladder.caller = "sign" /\ pc' = "signed" /\ UNCHANGED keyVars
    BY <1>8 DEF SignatureIsMade
  <2>2. KeyPair
    BY <2>1 DEF LadderInv, Calling
  <2>3. KeyPair'
    BY <2>1, <2>2 DEF KeyPair, keyVars
  <2> QED
    BY <2>1, <2>3 DEF LadderInv
<1>9. ASSUME NEW e, NEW r, NEW s, NEW own, Verify(e, r, s, own), KeyPair PROVE LadderInv'
  <2>1. pc' \in {"verify", "verified"} /\ UNCHANGED <<keyVars, k, ladder, product>>
    BY <1>9 DEF Verify
  <2> QED
    BY <1>9, <2>1, SameKeepsLadder
<1>10. ASSUME NEW e \in Hashes, NEW r \in Rs, NEW s \in Ss, VerifyOther(e, r, s)
       PROVE LadderInv'
  <2>1. pc = "key" /\ Verify(e, r, s, FALSE)
    BY <1>10 DEF VerifyOther
  <2>2. KeyPair
    BY <2>1 DEF LadderInv
  <2> QED
    BY <1>9, <2>1, <2>2
<1>11. CASE VerifyOwn
  <2>1. pc = "signed" /\ Verify(hash, signature[1], signature[2], TRUE)
    BY <1>11 DEF VerifyOwn
  <2>2. KeyPair
    BY <2>1 DEF LadderInv
  <2> QED
    BY <1>9, <2>1, <2>2
<1>12. CASE VerifyStep \/ VerifyEnds
  <2>1. pc = "verify" /\ pc' \in {"verify", "verified"} /\ UNCHANGED <<keyVars, k, ladder, product>>
    BY <1>12 DEF VerifyStep, VerifyEnds
  <2>2. KeyPair
    BY <2>1 DEF LadderInv
  <2> QED
    BY <2>1, <2>2, SameKeepsLadder
<1>13. CASE Forget
  BY <1>13 DEF Forget, LadderInv
<1> QED
  BY <1>1, <1>2, <1>3, <1>5, <1>6, <1>7, <1>8, <1>10, <1>11, <1>12, <1>13,
     StepKeepsLadder, EndKeepsLadder, KeyKeepsLadder DEF EcdsaNext

(* The invariant holds of the specification.                               *)
LEMMA LadderInvariance == Spec => []LadderInv
<1>1. EcdsaInit => LadderInv
  BY DEF EcdsaInit, LadderInv
<1>2. LadderInv /\ [EcdsaNext]_ecdsaVars => LadderInv'
  <2>1. CASE EcdsaNext
    BY <2>1, NextKeepsLadder
  <2>2. CASE UNCHANGED ecdsaVars
    <3>1. (KeyPair => KeyPair') /\ BaseLog' = BaseLog
      BY <2>2 DEF KeyPair, BaseLog, ecdsaVars
    <3>2. Calling => Calling'
      BY <2>2, <3>1 DEF Calling, ecdsaVars
    <3> QED
      BY <2>2, <3>1, <3>2 DEF LadderInv, ecdsaVars
  <2> QED
    BY <2>1, <2>2
<1> QED
  BY <1>1, <1>2, PTL DEF Spec

(* Property LadderIsMultiple.                                              *)
THEOREM LadderComputesMultiples == Spec => []LadderIsMultiple
<1>1. ASSUME LadderInv PROVE LadderIsMultiple
  <2>1. ASSUME pc = "ladder", k \notin Unreachable
        PROVE  \E z \in 1 .. P - 1 :
                 /\ ladder.R[0] = ApplyZ(Multiple(Prefix * BaseLog), z)
                 /\ ladder.R[1] = ApplyZ(Multiple((Prefix + 1) * BaseLog), z)
    <3>1. Calling /\ Rungs(ladder.R, k, ladder.i, BaseLog)
      BY <1>1, <2>1 DEF LadderInv
    <3>2. BaseLog \in Int /\ k \in 1 .. N - 1 /\ ladder.i \in 0 .. NBits - 1
      BY <3>1, BaseIs DEF Calling, Ladders
    <3>3. Prefix = Regular(k) \div TwoTo[ladder.i + 1]
      BY <3>1 DEF Prefix, Regular, Calling
    <3>4. Prefix \in Int
      <4>1. Prefix \in Nat
        BY <3>2, <3>3, PrefixIs
      <4> QED
        BY <4>1
    <3> DEFINE l == Prefix * BaseLog  n == (Prefix + 1) * BaseLog
    <3>5. PICK z \in Int : Mod(z) # 0 /\ ladder.R[0] = At(l, z) /\ ladder.R[1] = At(n, z)
      <4>1. Regularly(ladder.R, Prefix, BaseLog)
        BY <2>1, <3>1, <3>3 DEF Rungs
      <4> QED
        BY <4>1 DEF Regularly
    <3>6. l \in Int /\ n \in Int
      BY <3>2, <3>4
    <3> HIDE DEF l, n
    <3>7. Mod(z) \in 1 .. P - 1 /\ Mod(z) \in Int /\ z \cong Mod(z)
      BY <3>5, ModIs DEF \cong
    <3>8. ASSUME NEW m \in Int PROVE At(m, z) = ApplyZ(Multiple(m), Mod(z))
      <4>1. PICK x \in Int, y \in Int : Multiple(m) = <<x, y>>
        <5>1. Multiple(m) = <<0, 0>> \/ Multiple(m) \in (1 .. P - 1) \X (1 .. P - 1)
          BY MultipleZero, MultipleIs
        <5> QED
          BY <5>1
      <4>2. ApplyZ(<<x, y>>, z) = ApplyZ(<<x, y>>, Mod(z))
        BY <3>7, ApplyZSame
      <4> QED
        BY <4>1, <4>2 DEF At
    <3>9. ladder.R[0] = ApplyZ(Multiple(l), Mod(z)) /\ ladder.R[1] = ApplyZ(Multiple(n), Mod(z))
      BY <3>5, <3>6, <3>8
    <3> QED
      BY <3>7, <3>9 DEF l, n
  <2> QED
    BY <1>1, <2>1 DEF LadderIsMultiple, LadderInv
<1> QED
  BY <1>1, LadderInvariance, PTL

-----------------------------------------------------------------------------
(* uECC_verify. The sum of the bits above i of its two scalars, by the     *)
(* private key d of the public key; where the loop meets a point or its    *)
(* opposite; and where it has, before bit i.                               *)
SumOf(u1, u2, d, i) == u1 \div TwoTo[i + 1] + (u2 \div TwoTo[i + 1]) * d
SizeOf(u1, u2) == Max({NumBits(u1), NumBits(u2)})
CollidesAt(u1, u2, d, j) ==
  LET index == Index(u1, u2, j)
      added == Multiple((index % 2) + (index \div 2) * d)
  IN j >= 0 /\ index # 0 /\ Multiple(2 * SumOf(u1, u2, d, j))[1] = added[1]
Collided(u1, u2, d, i) == \E j \in i .. SizeOf(u1, u2) - 2 : CollidesAt(u1, u2, d, j)

(* The greater of two numbers.                                             *)
LEMMA MaxIs ==
  ASSUME NEW a \in Nat, NEW b \in Nat
  PROVE  LET m == Max({a, b}) IN (m = a \/ m = b) /\ m >= a /\ m >= b /\ m \in Nat
<1>1. \E x \in {a, b} : \A y \in {a, b} : x >= y
  <2>1. a >= b \/ b >= a
    OBVIOUS
  <2> QED
    BY <2>1
<1> DEFINE m == Max({a, b})
<1>2. m \in {a, b} /\ \A y \in {a, b} : m >= y
  BY <1>1 DEF Max
<1> QED
  BY <1>2

(* The scalars.                                                            *)
Scalars(u1, u2) == u1 \in 0 .. N - 1 /\ u2 \in 1 .. N - 1

(* The number of bits of the longer scalar, which is not zero.             *)
LEMMA SizeIs ==
  ASSUME NEW u1, NEW u2, Scalars(u1, u2)
  PROVE  LET l == SizeOf(u1, u2)
         IN /\ l \in Nat /\ l >= 1 /\ u1 < TwoTo[l] /\ u2 < TwoTo[l]
            /\ TwoTo[l - 1] <= u1 \/ TwoTo[l - 1] <= u2
<1> DEFINE l == SizeOf(u1, u2)
           n1 == NumBits(u1)
           n2 == NumBits(u2)
<1>1. u1 \in Nat /\ u2 \in Nat /\ u2 >= 1 /\ NBits \in Nat
      /\ \A u \in 1 .. N - 1 : u \in 1 .. TwoTo[NBits + 2] - 1
  <2>1. N \in Nat /\ N < TwoTo[NBits] /\ NBits \in Nat /\ TwoTo[NBits] \in Nat
    <3> DEFINE h == TwoTo[NBits - 1]
    <3>1. NBits \in Nat /\ h \in Nat /\ TwoTo[NBits] = 2 * h /\ N < P /\ P < 2 * h
      BY SizesAre
    <3>2. N \in Nat /\ P \in Nat
      BY FieldIs
    <3> HIDE DEF h
    <3> QED
      BY <3>1, <3>2
  <2>2. NBits + 2 \in Nat /\ NBits <= NBits + 2
    BY <2>1
  <2>3. TwoTo[NBits] <= TwoTo[NBits + 2] /\ TwoTo[NBits + 2] \in Nat
    BY <2>1, <2>2, TwoToGrows, TwoToDef
  <2> QED
    BY <2>1, <2>3 DEF Scalars
<1>2. n2 \in 1 .. NBits + 2 /\ TwoTo[n2 - 1] <= u2 /\ u2 < TwoTo[n2]
  BY <1>1, NumBitsIs DEF Scalars
<1>3. /\ n1 \in Nat /\ u1 < TwoTo[n1] /\ (n1 # 0 => TwoTo[n1 - 1] <= u1)
  <2>1. CASE u1 = 0
    <3>1. n1 = 0 /\ TwoTo[0] = 1
      BY <2>1, TwoToDef DEF NumBits
    <3> HIDE DEF n1
    <3> QED
      BY <2>1, <3>1
  <2>2. CASE u1 # 0
    <3>1. u1 \in 1 .. N - 1
      BY <1>1, <2>2 DEF Scalars
    <3>2. n1 \in 1 .. NBits + 2 /\ TwoTo[n1 - 1] <= u1 /\ u1 < TwoTo[n1]
      BY <1>1, <3>1, NumBitsIs
    <3> HIDE DEF n1
    <3> QED
      BY <1>1, <3>2
  <2> QED
    BY <2>1, <2>2
<1> HIDE DEF n1, n2
<1>4. n2 \in Nat /\ n2 >= 1
  BY <1>1, <1>2
<1>5. (l = n1 \/ l = n2) /\ l >= n1 /\ l >= n2 /\ l \in Nat
  BY <1>3, <1>4, MaxIs DEF SizeOf, n1, n2
<1> HIDE DEF l
<1>6. TwoTo[n1] <= TwoTo[l] /\ TwoTo[n2] <= TwoTo[l] /\ TwoTo[l] \in Nat
      /\ TwoTo[n1] \in Nat /\ TwoTo[n2] \in Nat
  BY <1>3, <1>4, <1>5, TwoToGrows, TwoToDef
<1>7. u1 < TwoTo[l] /\ u2 < TwoTo[l]
  BY <1>1, <1>2, <1>3, <1>6
<1>8. TwoTo[l - 1] <= u1 \/ TwoTo[l - 1] <= u2
  <2>1. CASE l = n2
    BY <1>2, <2>1
  <2>2. CASE l = n1
    BY <1>3, <1>4, <1>5, <2>2
  <2> QED
    BY <1>5, <2>1, <2>2
<1> QED
  BY <1>4, <1>5, <1>7, <1>8 DEF l

(* The point a pair of bits stands for.                                    *)
Added(index, d) == (index % 2) + (index \div 2) * d

(* The index of the point to add has the two bits.                         *)
LEMMA IndexIs ==
  ASSUME NEW u1 \in Nat, NEW u2 \in Nat, NEW d \in Int, NEW i \in Nat
  PROVE  LET b1 == TestBit(u1, i)  b2 == TestBit(u2, i)
             index == Index(u1, u2, i)
         IN /\ b1 \in {0, 1} /\ b2 \in {0, 1} /\ index \in 0 .. 3
            /\ index = 0 <=> b1 = 0 /\ b2 = 0
            /\ Added(index, d) = b1 + b2 * d
            /\ \/ index = 0 /\ Added(index, d) = 0
               \/ index = 1 /\ Added(index, d) = 1
               \/ index = 2 /\ Added(index, d) = d
               \/ index = 3 /\ Added(index, d) = 1 + d
<1> DEFINE b1 == TestBit(u1, i)
           b2 == TestBit(u2, i)
           index == Index(u1, u2, i)
<1>1. b1 \in {0, 1} /\ b2 \in {0, 1} /\ index = b1 + 2 * b2
  BY BitsIs DEF Index
<1> HIDE DEF b1, b2, index
<1>2. /\ 0 % 2 = 0 /\ 0 \div 2 = 0 /\ 1 % 2 = 1 /\ 1 \div 2 = 0
      /\ 2 % 2 = 0 /\ 2 \div 2 = 1 /\ 3 % 2 = 1 /\ 3 \div 2 = 1
  OBVIOUS
<1>3. /\ 0 * d = 0 /\ 1 * d = d /\ 0 + 0 = 0 /\ 1 + 0 = 1 /\ 0 + d = d
  OBVIOUS
<1>4. CASE b1 = 0 /\ b2 = 0
  <2>1. index = 0
    BY <1>1, <1>4
  <2> QED
    BY <1>1, <1>2, <1>3, <1>4, <2>1 DEF Added, b1, b2, index
<1>5. CASE b1 = 1 /\ b2 = 0
  <2>1. index = 1
    BY <1>1, <1>5
  <2> QED
    BY <1>1, <1>2, <1>3, <1>5, <2>1 DEF Added, b1, b2, index
<1>6. CASE b1 = 0 /\ b2 = 1
  <2>1. index = 2
    BY <1>1, <1>6
  <2> QED
    BY <1>1, <1>2, <1>3, <1>6, <2>1 DEF Added, b1, b2, index
<1>7. CASE b1 = 1 /\ b2 = 1
  <2>1. index = 3
    BY <1>1, <1>7
  <2> QED
    BY <1>1, <1>2, <1>3, <1>7, <2>1 DEF Added, b1, b2, index
<1> QED
  BY <1>1, <1>4, <1>5, <1>6, <1>7

(* The multiple that is added is that of the two bits.                     *)
LEMMA AddedBits ==
  ASSUME NEW u1 \in Nat, NEW u2 \in Nat, NEW d \in Nat, NEW i \in Nat
  PROVE  Added(Index(u1, u2, i), d) = TestBit(u1, i) + TestBit(u2, i) * d
<1> DEFINE b1 == TestBit(u1, i)
           b2 == TestBit(u2, i)
           index == Index(u1, u2, i)
<1>1. d \in Int
  OBVIOUS
<1>2. Added(index, d) = b1 + b2 * d
  BY <1>1, IndexIs
<1> QED
  BY <1>2

(* The sum grows by the bits.                                              *)
LEMMA SumGrows ==
  ASSUME NEW u1 \in Nat, NEW u2 \in Nat, NEW d \in Nat, NEW i \in Nat
  PROVE  /\ SumOf(u1, u2, d, i) \in Nat /\ SumOf(u1, u2, d, i - 1) \in Nat
         /\ SumOf(u1, u2, d, i - 1)
              = 2 * SumOf(u1, u2, d, i) + Added(Index(u1, u2, i), d)
<1> DEFINE q1 == u1 \div TwoTo[i + 1]
           q2 == u2 \div TwoTo[i + 1]
           r1 == u1 \div TwoTo[i]
           r2 == u2 \div TwoTo[i]
           b1 == TestBit(u1, i)
           b2 == TestBit(u2, i)
           a == Added(Index(u1, u2, i), d)
<1>1. /\ q1 \in Nat /\ q2 \in Nat /\ r1 \in Nat /\ r2 \in Nat
      /\ b1 \in {0, 1} /\ b2 \in {0, 1}
      /\ r1 = 2 * q1 + b1 /\ r2 = 2 * q2 + b2
  BY BitsIs
<1>2. a = b1 + b2 * d
  BY IndexIs
<1>3. SumOf(u1, u2, d, i) = q1 + q2 * d /\ SumOf(u1, u2, d, i - 1) = r1 + r2 * d
  <2>1. (i - 1) + 1 = i
    OBVIOUS
  <2> QED
    BY <2>1 DEF SumOf
<1> HIDE DEF q1, q2, r1, r2, b1, b2, a
<1>4. q1 + q2 * d \in Nat /\ r1 + r2 * d \in Nat
      /\ r1 + r2 * d = 2 * (q1 + q2 * d) + (b1 + b2 * d)
  <2>1. (2 * q2 + b2) * d = 2 * (q2 * d) + b2 * d
    BY <1>1
  <2>2. q2 * d \in Nat /\ r2 * d \in Nat /\ b2 * d \in Nat
    BY <1>1
  <2> QED
    BY <1>1, <2>1, <2>2
<1> QED
  BY <1>2, <1>3, <1>4 DEF a

(* The first bits.                                                         *)
LEMMA SumStarts ==
  ASSUME NEW u1, NEW u2, Scalars(u1, u2), NEW d \in Nat
  PROVE  LET l == SizeOf(u1, u2)
         IN /\ l - 1 \in Nat
            /\ Index(u1, u2, l - 1) # 0
            /\ SumOf(u1, u2, d, l - 2) = Added(Index(u1, u2, l - 1), d)
<1> DEFINE l == SizeOf(u1, u2)
           t == TwoTo[l]
           h == TwoTo[l - 1]
           i == l - 1
<1>1. /\ l \in Nat /\ l >= 1 /\ u1 < t /\ u2 < t /\ (h <= u1 \/ h <= u2)
      /\ u1 \in Nat /\ u2 \in Nat
  BY SizeIs, FieldIs DEF Scalars
<1> HIDE DEF l
<1>2. i \in Nat /\ i + 1 = l /\ i - 1 = l - 2 /\ (l - 2) + 1 = i
  BY <1>1
<1>3. t \in Nat \ {0} /\ h \in Nat \ {0}
  BY <1>1, <1>2, TwoToDef
<1> HIDE DEF h, t
<1>4. ASSUME NEW u \in Nat, u < t
      PROVE  u \div TwoTo[l] = 0 /\ u \div TwoTo[i] = TestBit(u, i)
             /\ (h <= u => TestBit(u, i) # 0)
  <2> DEFINE o == 0
  <2>1. u \in 0 .. t - 1 /\ o \in Nat /\ u = t * o + u
    BY <1>3, <1>4
  <2> HIDE DEF o
  <2>2. (t * o + u) \div t = o
    BY <1>3, <2>1, DivUnique
  <2>3. u \div t = 0
    BY <2>1, <2>2 DEF o
  <2>4. /\ TestBit(u, i) \in {0, 1} /\ u \div TwoTo[i] \in Nat
        /\ u \div TwoTo[i] = 2 * (u \div TwoTo[i + 1]) + TestBit(u, i)
    BY <1>2, BitsIs
  <2> DEFINE q == u \div TwoTo[i]
             b == TestBit(u, i)
  <2>5. q \in Nat /\ b \in {0, 1} /\ q = 2 * 0 + b
    BY <1>2, <2>3, <2>4 DEF t
  <2>6. q = u \div h
    BY DEF h
  <2> HIDE DEF b, q
  <2>7. q = b
    BY <2>5
  <2>8. ASSUME h <= u, b = 0 PROVE FALSE
    <3> DEFINE e == u % h
    <3>1. h * q + e = u /\ e \in 0 .. h - 1
      BY <1>3, <2>6, Parts
    <3> HIDE DEF e
    <3>2. q = 0
      BY <2>7, <2>8
    <3>3. h * 0 = 0
      BY <1>3
    <3> QED
      BY <1>3, <2>8, <3>1, <3>2, <3>3
  <2> QED
    BY <2>3, <2>7, <2>8 DEF t, b, q
<1>5. Index(u1, u2, i) # 0
  <2>1. TestBit(u1, i) # 0 \/ TestBit(u2, i) # 0
    BY <1>1, <1>4
  <2>2. 0 \in Int /\ (Index(u1, u2, i) = 0 <=> TestBit(u1, i) = 0 /\ TestBit(u2, i) = 0)
    BY <1>1, <1>2, IndexIs
  <2> QED
    BY <2>1, <2>2
<1>6. SumOf(u1, u2, d, l - 2) = Added(Index(u1, u2, i), d)
  <2>1. SumOf(u1, u2, d, l - 2) = u1 \div TwoTo[i] + (u2 \div TwoTo[i]) * d
    BY <1>2 DEF SumOf
  <2>2. u1 \div TwoTo[i] = TestBit(u1, i) /\ u2 \div TwoTo[i] = TestBit(u2, i)
    BY <1>1, <1>4
  <2>3. d \in Int
    OBVIOUS
  <2> HIDE DEF i
  <2>5. u1 \in Nat /\ u2 \in Nat /\ i \in Nat
    BY <1>1, <1>2
  <2>4. Added(Index(u1, u2, i), d) = TestBit(u1, i) + TestBit(u2, i) * d
    BY <2>5, AddedBits
  <2> QED
    BY <2>1, <2>2, <2>4
<1> QED
  BY <1>2, <1>5, <1>6 DEF l

(* XYcZ_add gives pairs of field elements.                                 *)
LEMMA XYcZAddIn ==
  ASSUME NEW one \in Places, NEW two \in Places
  PROVE  XYcZAdd(one, two)[2] \in Places
<1> DEFINE sq == (two[1] - one[1]) * (two[1] - one[1])
           square == Mod(sq)
           x1 == Mod(one[1] * square)
           x2 == Mod(two[1] * square)
           dy == Mod(two[2] - one[2])
           x3 == Mod(dy * dy - x1 - x2)
           y1 == Mod(one[2] * Mod(x2 - x1))
           y3 == Mod(dy * Mod(x1 - x3) - y1)
<1>1. one[1] \in Int /\ one[2] \in Int /\ two[1] \in Int /\ two[2] \in Int
  BY DEF Places
<1>2. \A a \in Int : Mod(a) \in Int
  BY ModIs
<1>3. sq \in Int /\ two[2] - one[2] \in Int
  BY <1>1
<1>4. square \in Int /\ dy \in Int
  <2> HIDE DEF sq
  <2> QED
    BY <1>2, <1>3
<1> HIDE DEF square
<1>5. x1 \in Int /\ x2 \in Int
  BY <1>1, <1>2, <1>4
<1> HIDE DEF x1, x2, dy
<1>6. x3 \in Int /\ Mod(x2 - x1) \in Int
  BY <1>2, <1>4, <1>5
<1>7. y1 \in Int
  <2> DEFINE a == Mod(x2 - x1)
  <2>1. a \in Int
    BY <1>6
  <2> HIDE DEF a
  <2> QED
    BY <1>1, <1>2, <2>1 DEF a
<1> HIDE DEF x3, y1
<1>8. Mod(x1 - x3) \in Int
  BY <1>2, <1>5, <1>6
<1>9. y3 \in Int
  <2> DEFINE a == Mod(x1 - x3)
  <2>1. a \in Int
    BY <1>8
  <2> HIDE DEF a
  <2> QED
    BY <1>2, <1>4, <1>7, <2>1 DEF a
<1>10. XYcZAdd(one, two)[2] = <<x3, y3>>
  BY DEF XYcZAdd, x3, y3, y1, x1, x2, dy, square
<1> HIDE DEF y3
<1> QED
  BY <1>6, <1>9, <1>10 DEF Places

(* The x of multiples over one Z: the same exactly when those of the       *)
(* multiples are.                                                          *)
LEMMA AtSameX ==
  ASSUME NEW l \in Int, NEW m \in Int, NotZero(l), NotZero(m), NEW z \in Int, Mod(z) # 0,
         Multiple(l)[1] = Multiple(m)[1]
  PROVE  At(l, z)[1] = At(m, z)[1]
BY DEF At, ApplyZ

(* The sum of the two public points, computed before the loop.             *)
LEMMA FirstSum ==
  ASSUME NEW d \in 2 .. N - 2
  PROVE  LET dz == ModInv(Mod(Multiple(d)[1] - G[1]), InverseModP)
         IN ApplyZ(XYcZAdd(G, Multiple(d))[2], dz) = Multiple(1 + d)
<1> DEFINE one == 1
           t == At(d, one)[1] - At(one, one)[1]
           dz == ModInv(Mod(t), InverseModP)
<1>1. /\ one \in 1 .. N - 1 /\ d \in 1 .. N - 1 /\ one + d \in 1 .. N - 1 /\ d \in Int /\ one \in Int
      /\ N \in Nat \ {0}
  BY FieldIs
<1>2. NotZero(one) /\ NotZero(d) /\ NotZero(one + d)
  BY <1>1, NotZeroSmall
<1>3. ~Same(one, d, N)
  <2>1. one % N = one /\ d % N = d
    <3>1. one \in 0 .. N - 1 /\ d \in 0 .. N - 1
      BY <1>1
    <3> HIDE DEF one
    <3> QED
      BY <1>1, <3>1, SameSmall
  <2>2. one # d
    OBVIOUS
  <2> QED
    BY <2>1, <2>2 DEF Same
<1>4. Mod(one) # 0 /\ one \cong 1
  BY FieldIs DEF \cong
<1>5. At(one, one) = G /\ At(d, one) = Multiple(d)
  <2>1. Multiple(one) = G
    BY MultiplesIs
  <2> HIDE DEF one
  <2> QED
    BY <1>1, <1>4, <2>1, AtOne
<1> DEFINE n == one + d  v == one * t
<1> HIDE DEF one
<1>6. t \in Int /\ Mod(t) # 0
      /\ XYcZAdd(At(one, one), At(d, one)) = <<At(one, v), At(n, v)>>
  BY <1>1, <1>2, <1>3, <1>4, AtPlus
<1>7. XYcZAdd(G, Multiple(d))[2] = At(n, v)
  <2> HIDE DEF t, n, v
  <2> QED
    BY <1>5, <1>6
<1>8. Multiple(d)[1] - G[1] = t
  BY <1>5
<1> HIDE DEF t
<1>9. dz \in Int /\ t * dz \cong 1
  BY <1>6, ModInvIs, ModInvIn
<1> HIDE DEF dz
<1>10. v \in Int /\ v * dz \in Int /\ v * dz = t * dz /\ n \in Int
  BY <1>1, <1>6, <1>9 DEF one
<1> HIDE DEF v, n
<1>11. ApplyZ(At(n, v), dz) = Multiple(n)
  <2>1. ApplyZ(At(n, v), dz) = At(n, v * dz)
    BY <1>9, <1>10, AtTwice
  <2> DEFINE vd == v * dz
  <2>2. vd \in Int /\ vd \cong 1
    BY <1>9, <1>10
  <2> HIDE DEF vd
  <2>3. At(n, vd) = Multiple(n)
    BY <1>10, <2>2, AtOne
  <2> QED
    BY <2>1, <2>3 DEF vd
<1> QED
  BY <1>7, <1>8, <1>11 DEF dz, n, one

(* The state of the loop, with the private key d of the public key.        *)
Adding(u1, u2, d, i, point, z) ==
  /\ point \in Places /\ z \in 0 .. P - 1
  /\ IF z = 0 THEN Collided(u1, u2, d, i + 1)
     ELSE /\ ~Collided(u1, u2, d, i + 1)
          /\ NotZero(SumOf(u1, u2, d, i)) /\ point = At(SumOf(u1, u2, d, i), z)

(* A key that the ladder can reach gives three points and no infinity.     *)
LEMMA AddedIs ==
  ASSUME NEW d \in 2 .. N - 2, NEW index \in 1 .. 3,
         NEW sum, sum = Multiple(1 + d), NEW point,
         point = (IF index = 1 THEN G ELSE IF index = 2 THEN Multiple(d) ELSE sum)
  PROVE  /\ Added(index, d) \in 1 .. N - 1 /\ Added(index, d) \in Int /\ NotZero(Added(index, d))
         /\ point = Multiple(Added(index, d))
<1>1. d \in Int /\ N \in Nat /\ 1 \in 1 .. N - 1 /\ d \in 1 .. N - 1 /\ 1 + d \in 1 .. N - 1
  BY FieldIs
<1>2. /\ 1 % 2 = 1 /\ 1 \div 2 = 0 /\ 2 % 2 = 0 /\ 2 \div 2 = 1 /\ 3 % 2 = 1 /\ 3 \div 2 = 1
      /\ 0 * d = 0 /\ 1 * d = d /\ 1 + 0 = 1 /\ 0 + d = d
  BY <1>1
<1>3. G = Multiple(1)
  BY MultiplesIs
<1>4. CASE index = 1
  <2>1. Added(index, d) = 1 /\ point = G
    BY <1>2, <1>4 DEF Added
  <2> QED
    BY <1>1, <1>3, <2>1, NotZeroSmall
<1>5. CASE index = 2
  <2>1. Added(index, d) = d /\ point = Multiple(d)
    BY <1>2, <1>5 DEF Added
  <2> QED
    BY <1>1, <2>1, NotZeroSmall
<1>6. CASE index = 3
  <2>1. Added(index, d) = 1 + d /\ point = Multiple(1 + d)
    BY <1>2, <1>6 DEF Added
  <2> QED
    BY <1>1, <2>1, NotZeroSmall
<1> QED
  BY <1>4, <1>5, <1>6

(* A collision before bit i is one before bit i + 1, or one at bit i.      *)
LEMMA CollidedIs ==
  ASSUME NEW u1, NEW u2, NEW d, SizeOf(u1, u2) \in Nat, NEW i \in Nat, i <= SizeOf(u1, u2) - 2
  PROVE  Collided(u1, u2, d, i) <=> Collided(u1, u2, d, i + 1) \/ CollidesAt(u1, u2, d, i)
<1> DEFINE l == SizeOf(u1, u2) - 2
<1>1. i .. l = {i} \cup ((i + 1) .. l)
  <2>1. l \in Int /\ i <= l
    OBVIOUS
  <2> HIDE DEF l
  <2> QED
    BY <2>1
<1> HIDE DEF l
<1> QED
  BY <1>1 DEF Collided, l

(* One turn of the loop.                                                   *)
AddTurn(index, point, z, first, second, sum) ==
  LET double == DoubleJacobian(point, z)
      added == ApplyZ(IF index = 1 THEN first ELSE IF index = 2 THEN second ELSE sum, double.z)
  IN IF index = 0 THEN [point |-> double.point, z |-> double.z]
     ELSE [point |-> XYcZAdd(added, double.point)[2],
           z |-> Mod(double.z * Mod(double.point[1] - added[1]))]

(* While Z is zero it stays zero.                                          *)
LEMMA ZeroTurn ==
  ASSUME NEW index \in 0 .. 3, NEW point \in Places, NEW first \in Places,
         NEW second \in Places, NEW sum \in Places
  PROVE  LET turn == AddTurn(index, point, 0, first, second, sum)
         IN turn.point \in Places /\ turn.z = 0
<1> DEFINE double == DoubleJacobian(point, 0)
           q == IF index = 1 THEN first ELSE IF index = 2 THEN second ELSE sum
           added == ApplyZ(q, double.z)
<1>1. double = [point |-> point, z |-> 0]
  BY DEF DoubleJacobian
<1>2. double.point = point /\ double.z = 0
  BY <1>1
<1>3. q \in Places
  OBVIOUS
<1> HIDE DEF double, q
<1>4. added \in Places
  <2>1. PICK x \in Int, y \in Int : q = <<x, y>>
    BY <1>3 DEF Places
  <2>2. ApplyZ(<<x, y>>, 0) \in (0 .. P - 1) \X (0 .. P - 1)
    BY ApplyZTwice
  <2> QED
    BY <1>2, <2>1, <2>2 DEF Places
<1> HIDE DEF added
<1>5. XYcZAdd(added, point)[2] \in Places
  BY <1>4, XYcZAddIn
<1>6. Mod(0 * Mod(point[1] - added[1])) = 0
  <2> DEFINE t == point[1] - added[1]
  <2>1. t \in Int
    BY <1>4 DEF Places
  <2> HIDE DEF t
  <2>2. Mod(t) \in Int
    BY <2>1, ModIs
  <2>3. 0 * Mod(t) = 0
    BY <2>2, ZerosAre
  <2> QED
    BY <2>3, FieldIs DEF t
<1> QED
  BY <1>2, <1>5, <1>6 DEF AddTurn, double, added, q

(* Otherwise the point is doubled, and the point of the two bits is added, *)
(* unless they have the same x: then Z becomes zero.                       *)
LEMMA DoubleTurn ==
  ASSUME NEW m \in Int, NotZero(m), NEW z \in 1 .. P - 1
  PROVE  LET double == DoubleJacobian(At(m, z), z)
         IN /\ double.z \in 1 .. P - 1 /\ Mod(double.z) # 0
            /\ double.point = At(2 * m, double.z) /\ NotZero(2 * m) /\ 2 * m \in Int
<1> DEFINE y == At(m, z)[2]
           yz == y * z
           double == DoubleJacobian(At(m, z), z)
           n == 2 * m
<1>1. z \in Int /\ z # 0 /\ Mod(z) # 0
  <2>1. z \in 0 .. P - 1 /\ z \in Int /\ z # 0
    BY FieldIs
  <2> QED
    BY <2>1, ModSmall
<1>2. y \in 1 .. P - 1 /\ double = [point |-> At(2 * m, z * y), z |-> Mod(y * z)]
  BY <1>1, AtDouble
<1>3. y \in Int /\ Mod(y) # 0
  <2> HIDE DEF y
  <2>1. y \in 0 .. P - 1 /\ y \in Int /\ y # 0
    BY <1>2, FieldIs
  <2> QED
    BY <2>1, ModSmall
<1>4. double.point = At(n, z * y) /\ double.z = Mod(yz)
  <2> HIDE DEF double
  <2> QED
    BY <1>2
<1> HIDE DEF y, double
<1>5. yz \in Int /\ Mod(yz) # 0 /\ z * y = yz
  BY <1>1, <1>3, ZTimes
<1> HIDE DEF yz
<1>6. Mod(yz) \in 1 .. P - 1 /\ Mod(yz) \in Int /\ Mod(yz) \cong yz
  BY <1>5, ModIs
<1>7. Mod(Mod(yz)) # 0
  BY <1>5, <1>6 DEF \cong
<1>8. n \in Int /\ NotZero(n)
  <2> DEFINE two == 2
  <2>1. two \in Int /\ NotZero(two)
    BY NotZeroTwo
  <2> HIDE DEF two
  <2>2. NotZero(two * m) /\ two * m \in Int
    BY <2>1, NotZeroTimes
  <2> QED
    BY <2>2 DEF two
<1>9. At(n, yz) = At(n, Mod(yz))
  <2> HIDE DEF n
  <2>1. PICK x0 \in Int, y0 \in Int : Multiple(n) = <<x0, y0>>
    <3>1. Multiple(n) \in (1 .. P - 1) \X (1 .. P - 1)
      BY <1>8, MultipleIs
    <3> QED
      BY <3>1
  <2>2. yz \cong Mod(yz)
    BY <1>6 DEF \cong
  <2>3. ApplyZ(<<x0, y0>>, yz) = ApplyZ(<<x0, y0>>, Mod(yz))
    BY <1>5, <1>6, <2>2, ApplyZSame
  <2> QED
    BY <2>1, <2>3 DEF At
<1> QED
  BY <1>4, <1>5, <1>6, <1>7, <1>8, <1>9 DEF double

(* The sum with the point that is added: Z becomes zero when they meet.    *)
LEMMA SumTurn ==
  ASSUME NEW n \in Int, NotZero(n), NEW a \in Int, NotZero(a), NEW z \in 1 .. P - 1,
         Mod(z) # 0
  PROVE  LET next == Mod(z * Mod(At(n, z)[1] - At(a, z)[1]))
         IN /\ next \in 0 .. P - 1 /\ XYcZAdd(At(a, z), At(n, z))[2] \in Places
            /\ next = 0 <=> Multiple(n)[1] = Multiple(a)[1]
            /\ next # 0 => /\ NotZero(n + a)
                           /\ XYcZAdd(At(a, z), At(n, z))[2] = At(n + a, next)
<1> DEFINE t == At(n, z)[1] - At(a, z)[1]
           next == Mod(z * Mod(t))
<1>1. z \in Int
  OBVIOUS
<1>2. At(n, z) \in Places /\ At(a, z) \in Places
  BY <1>1, AtIn
<1>3. t \in Int
  BY <1>2 DEF Places
<1>4. XYcZAdd(At(a, z), At(n, z))[2] \in Places
  BY <1>2, XYcZAddIn
<1> DEFINE o == Mod(t)
<1> HIDE DEF t
<1>5. o \in Int /\ o \cong t
  BY <1>3, ModIs
<1> HIDE DEF o
<1>6. next \in 0 .. P - 1 /\ z * o \in Int
  <2>1. z * o \in Int
    BY <1>1, <1>5
  <2> QED
    BY <2>1, ModIs DEF o
<1>7. CASE Multiple(n)[1] = Multiple(a)[1]
  <2>1. At(n, z)[1] = At(a, z)[1]
    BY <1>1, <1>7, AtSameX
  <2>2. t = 0
    <3>1. At(n, z)[1] \in Int
      BY <1>2 DEF Places
    <3> QED
      BY <2>1, <3>1 DEF t
  <2>3. next = 0
    <3>1. o = 0 /\ z * 0 = 0
      BY <1>1, <2>2, FieldIs DEF o
    <3> QED
      BY <3>1, FieldIs DEF o
  <2> QED
    BY <1>4, <1>6, <1>7, <2>3 DEF t
<1>8. CASE Multiple(n)[1] # Multiple(a)[1]
  <2>1. ~Same(a, n, N) /\ NotZero(a + n)
    <3>1. ~Same(n, a, N) /\ NotZero(n + a)
      BY <1>8, SameX
    <3>2. n + a = a + n
      OBVIOUS
    <3> QED
      BY <3>1, <3>2 DEF Same
  <2>2. Mod(t) # 0 /\ XYcZAdd(At(a, z), At(n, z)) = <<At(a, z * t), At(a + n, z * t)>>
    BY <1>1, <2>1, AtPlus DEF t
  <2> DEFINE zt == z * t  l == n + a
  <2>3. XYcZAdd(At(a, z), At(n, z))[2] = At(l, zt)
    <3>1. n + a = a + n
      OBVIOUS
    <3> QED
      BY <2>2, <3>1
  <2>4. zt \in Int /\ Mod(zt) # 0 /\ l \in Int /\ NotZero(l)
    <3>1. n + a = a + n /\ n + a \in Int
      OBVIOUS
    <3> QED
      BY <1>1, <1>3, <2>1, <2>2, <3>1, ZTimes
  <2>5. z * o \cong zt
    BY <1>1, <1>3, <1>5, CongSelf, CongTimes
  <2>6. next = Mod(zt)
    BY <2>5 DEF \cong, o
  <2> HIDE DEF zt, l, next
  <2>7. next # 0 /\ next \in Int /\ zt \cong next
    <3>1. Mod(zt) \cong zt /\ Mod(zt) \in Int
      BY <2>4, ModIs
    <3> QED
      BY <2>4, <2>6, <3>1 DEF \cong
  <2>8. At(l, zt) = At(l, next)
    <3>1. PICK x0 \in Int, y0 \in Int : Multiple(l) = <<x0, y0>>
      <4>1. Multiple(l) \in (1 .. P - 1) \X (1 .. P - 1)
        BY <2>4, MultipleIs
      <4> QED
        BY <4>1
    <3>2. ApplyZ(<<x0, y0>>, zt) = ApplyZ(<<x0, y0>>, next)
      BY <2>4, <2>7, ApplyZSame
    <3> QED
      BY <3>1, <3>2 DEF At
  <2> QED
    BY <1>4, <1>6, <1>8, <2>3, <2>4, <2>7, <2>8 DEF next, t, l
<1> QED
  BY <1>7, <1>8

Selected(index, d) ==
  IF index = 1 THEN G ELSE IF index = 2 THEN Multiple(d) ELSE Multiple(1 + d)

(* The point that is added, at the multiple of the two bits.               *)
LEMMA SelectedIs ==
  ASSUME NEW d \in 2 .. N - 2, NEW index \in 1 .. 3
  PROVE  /\ Added(index, d) \in Int /\ NotZero(Added(index, d))
         /\ Selected(index, d) = Multiple(Added(index, d))
<1> DEFINE sum == Multiple(1 + d)  point == Selected(index, d)
<1>1. point = (IF index = 1 THEN G ELSE IF index = 2 THEN Multiple(d) ELSE sum)
  BY DEF Selected
<1> HIDE DEF point
<1> QED
  BY <1>1, AddedIs DEF point

(* A multiple of G has Z = 1.                                              *)
LEMMA MultipleAt ==
  ASSUME NEW m \in Int, NotZero(m)
  PROVE  Multiple(m) \in Places /\ At(m, 1) = Multiple(m)
<1> DEFINE one == 1
<1>1. one \in Int /\ one \cong 1
  BY CongSelf
<1> HIDE DEF one
<1>2. At(m, one) = Multiple(m)
  BY <1>1, AtOne
<1>3. At(m, one) \in Places
  BY <1>1, AtIn
<1> QED
  BY <1>2, <1>3 DEF one

(* The loop begins with the point of the first bits.                       *)
LEMMA AddingStarts ==
  ASSUME NEW u1, NEW u2, Scalars(u1, u2), NEW d \in 2 .. N - 2
  PROVE  LET l == SizeOf(u1, u2)
         IN /\ l \in Nat /\ l - 2 \in Int /\ l - 2 >= -1
            /\ Adding(u1, u2, d, l - 2, Selected(Index(u1, u2, l - 1), d), 1)
<1> DEFINE l == SizeOf(u1, u2)
           i == l - 1
           index == Index(u1, u2, i)
           a == Added(index, d)
           point == Selected(index, d)
<1>1. l \in Nat /\ l >= 1 /\ u1 \in Nat /\ u2 \in Nat
  BY SizeIs, FieldIs DEF Scalars
<1>2. d \in Nat
  BY FieldIs
<1>3. i \in Nat /\ index # 0 /\ SumOf(u1, u2, d, l - 2) = a
  BY <1>2, SumStarts
<1>4. index \in 1 .. 3
  <2> HIDE DEF i
  <2>1. index \in 0 .. 3
    <3>1. d \in Int
      BY <1>2
    <3> QED
      BY <1>1, <1>3, <3>1, IndexIs
  <2> HIDE DEF index
  <2> QED
    BY <1>3, <2>1
<1> HIDE DEF l, i, index
<1>5. a \in Int /\ NotZero(a) /\ point = Multiple(a)
  BY <1>4, SelectedIs
<1> HIDE DEF a, point
<1>6. point \in Places /\ At(a, 1) = point
  BY <1>5, MultipleAt
<1>7. ~Collided(u1, u2, d, (l - 2) + 1)
  <2>1. ((l - 2) + 1) .. l - 2 = {}
    BY <1>1
  <2> QED
    BY <2>1 DEF Collided, l
<1>8. 1 \in 0 .. P - 1 /\ 1 # 0
  BY FieldIs
<1>9. l - 2 \in Int /\ l - 2 >= -1
  BY <1>1
<1> QED
  BY <1>1, <1>3, <1>5, <1>6, <1>7, <1>8, <1>9 DEF Adding, l, i, index, a, point

Turn(u1, u2, d, i, point, z) ==
  AddTurn(Index(u1, u2, i), point, z, G, Multiple(d), Multiple(1 + d))

(* A turn in which Z is zero, or becomes it.                               *)
LEMMA CollidedTurn ==
  ASSUME NEW u1, NEW u2, Scalars(u1, u2), NEW d \in 2 .. N - 2, NEW i \in Nat,
         i <= SizeOf(u1, u2) - 2, NEW point, Adding(u1, u2, d, i, point, 0)
  PROVE  Adding(u1, u2, d, i - 1, Turn(u1, u2, d, i, point, 0).point,
                Turn(u1, u2, d, i, point, 0).z)
<1> DEFINE index == Index(u1, u2, i)
           first == G
           second == Multiple(d)
           sum == Multiple(1 + d)
           turn == AddTurn(index, point, 0, first, second, sum)
<1>1. u1 \in Nat /\ u2 \in Nat /\ d \in Nat /\ SizeOf(u1, u2) \in Nat /\ d \in Int
  BY SizeIs, FieldIs DEF Scalars
<1>2. index \in 0 .. 3
  BY <1>1, IndexIs
<1>3. first \in Places /\ second \in Places /\ sum \in Places
  <2> DEFINE n == 1 + d
  <2>1. 1 \in 1 .. N - 1 /\ d \in 1 .. N - 1 /\ n \in 1 .. N - 1
    BY FieldIs
  <2>2. G = Multiple(1)
    BY MultiplesIs
  <2> HIDE DEF n
  <2> QED
    BY <2>1, <2>2, NotZeroSmall, MultipleAt DEF n
<1>4. point \in Places /\ Collided(u1, u2, d, i + 1)
  BY DEF Adding
<1> HIDE DEF index, first, second, sum
<1>5. turn.point \in Places /\ turn.z = 0
  BY <1>2, <1>3, <1>4, ZeroTurn
<1>6. Collided(u1, u2, d, (i - 1) + 1)
  <2>1. (i - 1) + 1 = i
    OBVIOUS
  <2>2. Collided(u1, u2, d, i)
    BY <1>1, <1>4, CollidedIs
  <2> QED
    BY <2>1, <2>2
<1> HIDE DEF turn
<1>7. Adding(u1, u2, d, i - 1, turn.point, turn.z)
  <2>1. 0 \in 0 .. P - 1
    BY FieldIs
  <2> QED
    BY <1>5, <1>6, <2>1 DEF Adding
<1> QED
  BY <1>7 DEF Turn, turn, index, first, second, sum

(* Whether the sum meets the point that is added.                          *)
LEMMA CollidesIs ==
  ASSUME NEW u1, NEW u2, NEW d, NEW i \in Nat
  PROVE  CollidesAt(u1, u2, d, i)
           <=> /\ Index(u1, u2, i) # 0
               /\ Multiple(2 * SumOf(u1, u2, d, i))[1]
                    = Multiple(Added(Index(u1, u2, i), d))[1]
<1>1. i >= 0
  OBVIOUS
<1> QED
  BY <1>1 DEF CollidesAt, Added

(* A turn in which Z is not zero when it begins.                           *)
LEMMA ApartTurn ==
  ASSUME NEW u1, NEW u2, Scalars(u1, u2), NEW d \in 2 .. N - 2, NEW i \in Nat,
         i <= SizeOf(u1, u2) - 2, NEW point, NEW z, z # 0, Adding(u1, u2, d, i, point, z)
  PROVE  Adding(u1, u2, d, i - 1, Turn(u1, u2, d, i, point, z).point,
                Turn(u1, u2, d, i, point, z).z)
<1> DEFINE index == Index(u1, u2, i)
           second == Multiple(d)
           sum == Multiple(1 + d)
           turn == AddTurn(index, point, z, G, second, sum)
           m == SumOf(u1, u2, d, i)
           n == 2 * m
           a == Added(index, d)
           next == SumOf(u1, u2, d, i - 1)
           double == DoubleJacobian(point, z)
<1>1. u1 \in Nat /\ u2 \in Nat /\ d \in Nat /\ SizeOf(u1, u2) \in Nat /\ d \in Int
  BY SizeIs, FieldIs DEF Scalars
<1>2. index \in 0 .. 3 /\ (index = 0 => a = 0)
  <2>1. index \in 0 .. 3
    BY <1>1, IndexIs
  <2>2. 0 % 2 = 0 /\ 0 \div 2 = 0 /\ 0 + 0 * d = 0
    BY <1>1
  <2> HIDE DEF index
  <2>3. ASSUME index = 0 PROVE a = 0
    BY <2>2, <2>3 DEF Added
  <2> QED
    BY <2>1, <2>3
<1>3. m \in Nat /\ next \in Nat /\ next = n + a
  BY <1>1, SumGrows
<1>4. z \in 1 .. P - 1 /\ z \in Int /\ ~Collided(u1, u2, d, i + 1)
      /\ NotZero(m) /\ point = At(m, z) /\ point \in Places
  <2>1. z \in 0 .. P - 1 /\ ~Collided(u1, u2, d, i + 1) /\ NotZero(m) /\ point = At(m, z)
        /\ point \in Places
    BY DEF Adding
  <2> QED
    BY <2>1, FieldIs
<1>5. Collided(u1, u2, d, (i - 1) + 1)
        <=> index # 0 /\ Multiple(n)[1] = Multiple(a)[1]
  <2>1. (i - 1) + 1 = i
    OBVIOUS
  <2>2. Collided(u1, u2, d, i) <=> CollidesAt(u1, u2, d, i)
    BY <1>1, <1>4, CollidedIs
  <2> QED
    BY <2>1, <2>2, CollidesIs
<1>6. m \in Int
  BY <1>3
<1> HIDE DEF m
<1>7. double.z \in 1 .. P - 1 /\ Mod(double.z) # 0 /\ double.point = At(n, double.z)
      /\ NotZero(n) /\ n \in Int
  BY <1>4, <1>6, DoubleTurn
<1> HIDE DEF n, a, next, double
<1> DEFINE y == double.z
<1>8. y \in 1 .. P - 1 /\ y \in 0 .. P - 1 /\ y \in Int /\ y # 0
  BY <1>7, FieldIs
<1>9. CASE index = 0
  <2>1. turn = [point |-> double.point, z |-> y]
    BY <1>9 DEF AddTurn, double
  <2>2. turn.point = At(n, y) /\ turn.z = y
    BY <1>7, <2>1
  <2>3. next = n
    BY <1>2, <1>3, <1>7, <1>9
  <2>4. At(n, y) \in Places
    BY <1>7, <1>8, AtIn
  <2>5. ~Collided(u1, u2, d, (i - 1) + 1)
    BY <1>5, <1>9
  <2> HIDE DEF turn, y
  <2>6. Adding(u1, u2, d, i - 1, turn.point, turn.z)
    BY <1>7, <1>8, <2>2, <2>3, <2>4, <2>5 DEF Adding, next
  <2> QED
    BY <2>6 DEF Turn, turn, index, second, sum
<1>10. CASE index # 0
  <2> DEFINE q == IF index = 1 THEN G ELSE IF index = 2 THEN second ELSE sum
             w == Mod(y * Mod(At(n, y)[1] - At(a, y)[1]))
  <2>1. a \in Int /\ NotZero(a) /\ q = Multiple(a)
    <3>1. index \in 1 .. 3
      <4> HIDE DEF index
      <4> QED
        BY <1>2, <1>10
    <3> QED
      BY <3>1, SelectedIs DEF Selected, a
  <2>2. ApplyZ(q, y) = At(a, y)
    BY <2>1 DEF At
  <2>3. turn = [point |-> XYcZAdd(At(a, y), At(n, y))[2], z |-> w]
    <3>1. turn = [point |-> XYcZAdd(ApplyZ(q, double.z), double.point)[2],
                  z |-> Mod(double.z * Mod(double.point[1] - ApplyZ(q, double.z)[1]))]
      BY <1>10 DEF AddTurn, double
    <3> HIDE DEF turn, q
    <3> QED
      BY <1>7, <2>2, <3>1
  <2>4. /\ w \in 0 .. P - 1 /\ XYcZAdd(At(a, y), At(n, y))[2] \in Places
        /\ w = 0 <=> Multiple(n)[1] = Multiple(a)[1]
        /\ w # 0 => /\ NotZero(n + a)
                    /\ XYcZAdd(At(a, y), At(n, y))[2] = At(n + a, w)
    <3> HIDE DEF y
    <3> QED
      BY <1>7, <1>8, <2>1, SumTurn DEF y
  <2>5. turn.point = XYcZAdd(At(a, y), At(n, y))[2] /\ turn.z = w
    BY <2>3
  <2> HIDE DEF turn, w, y
  <2>6. Collided(u1, u2, d, (i - 1) + 1) <=> w = 0
    BY <1>5, <1>10, <2>4
  <2>7. Adding(u1, u2, d, i - 1, turn.point, turn.z)
    <3>1. CASE w = 0
      BY <2>4, <2>5, <2>6, <3>1 DEF Adding
    <3>2. CASE w # 0
      <4>1. NotZero(next) /\ turn.point = At(next, w)
        BY <1>3, <2>4, <2>5, <3>2
      <4> QED
        BY <2>4, <2>5, <2>6, <3>2, <4>1 DEF Adding, next
    <3> QED
      BY <3>1, <3>2
  <2> QED
    BY <2>7 DEF Turn, turn, index, second, sum
<1> QED
  BY <1>9, <1>10

(* One turn keeps what the loop promises.                                  *)
LEMMA AddingTurn ==
  ASSUME NEW u1, NEW u2, Scalars(u1, u2), NEW d \in 2 .. N - 2, NEW i \in Nat,
         i <= SizeOf(u1, u2) - 2, NEW point, NEW z, Adding(u1, u2, d, i, point, z)
  PROVE  Adding(u1, u2, d, i - 1, Turn(u1, u2, d, i, point, z).point,
                Turn(u1, u2, d, i, point, z).z)
<1>1. CASE z = 0
  BY <1>1, CollidedTurn
<1>2. CASE z # 0
  BY <1>2, ApartTurn
<1> QED
  BY <1>1, <1>2

(* What uECC_verify compares with r, below n, once the loop has ended.     *)
Last(point, z) ==
  LET rx == ApplyZ(point, ModInv(z, InverseModP))[1] IN IF rx >= N THEN rx - N ELSE rx

(* What is compared with r: the x of u1 * G + u2 * Q, modulo n.            *)
LEMMA AddingEnds ==
  ASSUME NEW u1, NEW u2, Scalars(u1, u2), NEW d \in 2 .. N - 2, NEW point, NEW z,
         Adding(u1, u2, d, -1, point, z), NEW r \in 1 .. N - 1
  PROVE  LET sum == Multiple(u1 + u2 * d)
         IN Last(point, z) = r
              <=> ~Collided(u1, u2, d, 0) /\ ~IsZero(sum) /\ sum[1] % N = r
<1> DEFINE m == u1 + u2 * d
           sum == Multiple(m)
           inverse == ModInv(z, InverseModP)
<1>1. u1 \in Nat /\ u2 \in Nat /\ d \in Nat /\ N \in Nat /\ N > 2 /\ N < P /\ P \in Nat
  BY FieldIs DEF Scalars
<1>2. m \in Nat /\ m \in Int
  BY <1>1
<1>3. SumOf(u1, u2, d, -1) = m /\ -1 + 1 = 0
  <2>1. -1 + 1 = 0
    OBVIOUS
  <2>2. TwoTo[0] = 1
    BY TwoToDef
  <2>3. u1 \div 1 = u1 /\ u2 \div 1 = u2
    BY <1>1
  <2> QED
    BY <2>1, <2>2, <2>3 DEF SumOf
<1>4. z \in 0 .. P - 1 /\ point \in Places /\ z \in Int
  BY FieldIs DEF Adding
<1>5. CASE z = 0
  <2>1. inverse = 0
    BY <1>5, ZerosAre
  <2>2. Collided(u1, u2, d, 0)
    BY <1>3, <1>5 DEF Adding
  <2>3. ApplyZ(point, 0)[1] = 0
    <3>1. point[1] \in Int
      BY <1>4 DEF Places
    <3>2. point[1] * 0 = 0 /\ 0 * 0 = 0
      BY <3>1
    <3>3. Mod(point[1] * 0 * 0) = 0
      BY <3>2, FieldIs
    <3> QED
      BY <3>3 DEF ApplyZ
  <2>4. Last(point, z) = 0
    <3>1. ~(0 >= N)
      BY <1>1
    <3> QED
      BY <2>1, <2>3, <3>1 DEF Last
  <2>5. r # 0
    OBVIOUS
  <2> QED
    BY <2>2, <2>4, <2>5
<1>6. CASE z # 0
  <2>1. ~Collided(u1, u2, d, 0) /\ NotZero(m) /\ point = At(m, z)
    BY <1>3, <1>6 DEF Adding
  <2>2. Mod(z) = z /\ Mod(z) # 0
    BY <1>4, <1>6, ModSmall
  <2> HIDE DEF m
  <2>3. inverse \in Int /\ z * inverse \cong 1
    BY <1>4, <2>2, ModInvIs, ModInvIn
  <2> HIDE DEF inverse
  <2>4. ApplyZ(point, inverse) = sum
    <3> DEFINE o == z * inverse
    <3>1. o \in Int /\ o \cong 1
      BY <1>4, <2>3
    <3>2. ApplyZ(At(m, z), inverse) = At(m, o)
      BY <1>2, <1>4, <2>3, AtTwice
    <3> HIDE DEF o
    <3>3. At(m, o) = Multiple(m)
      BY <1>2, <3>1, AtOne
    <3> QED
      BY <2>1, <3>2, <3>3
  <2>5. sum \in (1 .. P - 1) \X (1 .. P - 1)
    BY <1>2, <2>1, MultipleIs
  <2> DEFINE x == sum[1]
  <2>6. x \in 1 .. P - 1 /\ ~IsZero(sum)
    <3> HIDE DEF sum
    <3>1. sum[1] # 0
      BY <2>5
    <3> QED
      BY <2>5, <3>1 DEF IsZero
  <2>7. P < 2 * N
    <3> DEFINE h == TwoTo[NBits - 1]
    <3>1. h \in Nat /\ h < N /\ P < 2 * h
      BY SizesAre
    <3> HIDE DEF h
    <3> QED
      BY <1>1, <3>1
  <2>8. Last(point, z) = IF x >= N THEN x - N ELSE x
    BY <2>4 DEF Last, inverse
  <2> HIDE DEF sum, x
  <2>9. (IF x >= N THEN x - N ELSE x) = x % N
    <3>1. CASE x >= N
      <4>1. x - N \in 0 .. N - 1 /\ x - N \in Int /\ x \in Int /\ N \in Nat \ {0}
        BY <1>1, <2>6, <2>7, <3>1
      <4>2. (x - N) % N = x - N
        BY <4>1, SameSmall
      <4>3. Same(x, x - N, N)
        <5>1. x = (x - N) + N * 1 /\ 1 \in Int
          BY <4>1
        <5> QED
          BY <4>1, <5>1, SameIs
      <4> QED
        BY <3>1, <4>2, <4>3 DEF Same
    <3>2. CASE ~(x >= N)
      <4>1. x \in 0 .. N - 1 /\ N \in Nat \ {0}
        BY <1>1, <2>6, <3>2
      <4> QED
        BY <3>2, <4>1, SameSmall
    <3> QED
      BY <3>1, <3>2
  <2> QED
    BY <2>1, <2>6, <2>8, <2>9 DEF sum, m, x
<1> QED
  BY <1>4, <1>5, <1>6

(* Multiples of numbers that leave the same rest modulo n.                 *)
LEMMA SameTimes ==
  ASSUME NEW a \in Int, NEW b \in Int, NEW c \in Int, Same(a, b, N)
  PROVE  Same(a * c, b * c, N) /\ Same(c * a, c * b, N) /\ a * c \in Int /\ b * c \in Int
<1>1. Same(c, c, N) /\ N \in Nat \ {0}
  BY FieldIs DEF Same
<1> QED
  BY <1>1, SameOps

(* Sums with numbers that leave the same rest modulo n.                    *)
LEMMA SameSum ==
  ASSUME NEW a \in Int, NEW b \in Int, NEW c \in Int, Same(a, b, N)
  PROVE  Same(c + a, c + b, N) /\ Same(a + c, b + c, N)
<1>1. Same(c, c, N) /\ N \in Nat \ {0}
  BY FieldIs DEF Same
<1> QED
  BY <1>1, SameOps

(* A remainder modulo n.                                                   *)
LEMMA RestIs ==
  ASSUME NEW a \in Int
  PROVE  a % N \in 0 .. N - 1 /\ a % N \in Int /\ Same(a % N, a, N)
<1>1. N \in Nat \ {0}
  BY FieldIs
<1>2. a % N \in 0 .. N - 1 /\ Same(a % N, a, N)
  BY <1>1, SameRest
<1> QED
  BY <1>2

(* The s that uECC_sign_with_k_internal computes.                          *)
LEMMA SignedNumbers ==
  ASSUME NEW m \in 1 .. N - 1, NEW tmp \in 1 .. N - 1, NEW e \in Nat, NEW d \in Nat, NEW r \in Nat
  PROVE  LET inverse == (ModInv((m * tmp) % N, InverseModN) * tmp) % N
             s == (ModAddN(e, (d * r) % N) * inverse) % N
         IN s \in 0 .. N - 1 /\ Same(s * m, e + d * r, N)
<1> DEFINE mt == m * tmp
           o == mt % N
           v == InverseModN[o]
           inverse == (ModInv(o, InverseModN) * tmp) % N
           dr == d * r
           q == dr % N
           f == ModAddN(e, q)
           s == (f * inverse) % N
<1>1. m \in Int /\ tmp \in Int /\ NotZero(m) /\ NotZero(tmp) /\ N \in Nat \ {0}
      /\ N \in Int /\ N > 2
  BY FieldIs, NotZeroSmall
<1>2. mt \in Int /\ NotZero(mt)
  BY <1>1, NotZeroTimes
<1> HIDE DEF mt
<1>3. o \in 1 .. N - 1
  BY <1>2, NotZeroRest
<1>4. Same(o, mt, N) /\ o \in Int
  BY <1>2, RestIs
<1> HIDE DEF o
<1>5. v \in Int /\ (o * v) % N = 1 /\ 1 % N = 1
  <2>1. v \in 1 .. N - 1 /\ (o * v) % N = 1
    BY <1>3, InverseIs
  <2> HIDE DEF v
  <2>2. 1 \in 0 .. N - 1
    BY <1>1
  <2> QED
    BY <1>1, <2>1, <2>2, SameSmall
<1> DEFINE vt == v * tmp
<1>6. inverse = vt % N
  BY <1>3 DEF ModInv
<1> HIDE DEF v, inverse
<1>7. vt \in Int /\ vt * m = mt * v
  <2>1. vt \in Int
    BY <1>1, <1>5
  <2>2. (v * tmp) * m = (m * tmp) * v
    BY <1>1, <1>5
  <2> QED
    BY <2>1, <2>2 DEF mt
<1>8. Same(mt * v, o * v, N) /\ mt * v \in Int
  <2>1. Same(mt, o, N)
    BY <1>4 DEF Same
  <2> QED
    BY <1>2, <1>4, <1>5, <2>1, SameTimes
<1> HIDE DEF vt
<1>9. inverse \in Int /\ Same(inverse * m, vt * m, N)
  BY <1>1, <1>6, <1>7, RestIs, SameTimes
<1>10. Same(inverse * m, 1, N)
  BY <1>5, <1>7, <1>8, <1>9 DEF Same
<1>11. dr \in Int /\ dr \in Nat
  OBVIOUS
<1> HIDE DEF dr
<1>12. q \in Nat /\ q \in Int /\ Same(q, dr, N)
  BY <1>11, FieldIs, RestIs
<1> HIDE DEF q
<1>13. f \in Int /\ Same(f, e + q, N)
  <2>1. CASE e + q >= N
    <3>1. f = e + q - N
      BY <2>1 DEF ModAddN
    <3>2. e + q = f + N * 1 /\ f \in Int /\ e + q \in Int /\ 1 \in Int
      BY <1>1, <1>12, <3>1
    <3>3. Same(e + q, f, N)
      BY <1>1, <3>2, SameIs
    <3> QED
      BY <3>2, <3>3 DEF Same
  <2>2. CASE ~(e + q >= N)
    BY <1>12, <2>2 DEF ModAddN, Same
  <2> QED
    BY <2>1, <2>2
<1>14. Same(f, e + dr, N) /\ e + dr \in Int
  <2>1. Same(e + q, e + dr, N) /\ e + dr \in Int
    BY <1>11, <1>12, SameSum
  <2> QED
    BY <1>13, <2>1 DEF Same
<1> HIDE DEF f
<1> DEFINE fi == f * inverse
<1>15. fi \in Int /\ fi * m = f * (inverse * m) /\ inverse * m \in Int
  BY <1>1, <1>9, <1>13
<1>16. Same(f * (inverse * m), f * 1, N) /\ f * 1 = f
  <2> DEFINE im == inverse * m  one == 1
  <2>1. im \in Int /\ one \in Int /\ Same(im, one, N)
    BY <1>10, <1>15
  <2>2. f * 1 = f
    BY <1>13
  <2> HIDE DEF im, one
  <2>3. Same(f * im, f * one, N)
    BY <1>13, <2>1, SameTimes
  <2> QED
    BY <2>2, <2>3 DEF im, one
<1> HIDE DEF fi
<1>17. s \in 0 .. N - 1 /\ s \in Int /\ Same(s, fi, N)
  BY <1>15, RestIs DEF fi
<1> HIDE DEF s
<1>18. Same(s * m, fi * m, N)
  BY <1>1, <1>15, <1>17, SameTimes
<1>19. Same(s * m, e + dr, N)
  BY <1>14, <1>15, <1>16, <1>18 DEF Same
<1> QED
  BY <1>17, <1>19 DEF s, f, q, dr, inverse, o, mt

(* The multiple that uECC_verify computes from them.                       *)
LEMMA VerifiedNumbers ==
  ASSUME NEW m \in Nat, NEW e \in Nat, NEW d \in Nat, NEW r \in Nat, NEW s \in 1 .. N - 1,
         Same(s * m, e + d * r, N)
  PROVE  LET w == InverseModN[s] IN Same(((e * w) % N) + ((r * w) % N) * d, m, N)
<1> DEFINE w == InverseModN[s]
           ew == e * w
           rw == r * w
           u1 == ew % N
           u2 == rw % N
           sum == e + d * r
<1>1. w \in 1 .. N - 1 /\ (s * w) % N = 1
  BY InverseIs
<1> HIDE DEF w
<1>2. w \in Int /\ s \in Int /\ m \in Int /\ e \in Int /\ d \in Int /\ r \in Int /\ N \in Nat \ {0}
      /\ 1 % N = 1
  <2>1. N \in Nat \ {0} /\ N > 2
    BY FieldIs
  <2>2. 1 \in 0 .. N - 1
    BY <2>1
  <2> QED
    BY <1>1, <2>1, <2>2, SameSmall
<1>3. ew \in Int /\ rw \in Int /\ sum \in Int
  BY <1>2
<1>4. ew + rw * d = w * sum
  BY <1>2
<1> HIDE DEF ew, rw
<1>5. u1 \in Int /\ u2 \in Int /\ Same(u1, ew, N) /\ Same(u2, rw, N)
  BY <1>3, RestIs
<1> HIDE DEF u1, u2
<1>6. Same(u1 + u2 * d, ew + rw * d, N)
  <2>1. u2 * d \in Int /\ rw * d \in Int /\ Same(u2 * d, rw * d, N)
    BY <1>2, <1>3, <1>5, SameTimes
  <2> QED
    BY <1>2, <1>3, <1>5, <2>1, SameOps
<1> DEFINE sm == s * m
<1>7. sm \in Int /\ Same(sum, sm, N)
  BY <1>2 DEF Same
<1>8. w * sm = (s * w) * m
  BY <1>2
<1> HIDE DEF sm, sum
<1>9. Same(w * sum, w * sm, N)
  BY <1>2, <1>3, <1>7, SameTimes
<1>10. Same((s * w) * m, m, N)
  <2> DEFINE sw == s * w  one == 1
  <2>1. sw \in Int /\ one \in Int /\ Same(sw, one, N)
    BY <1>1, <1>2 DEF Same
  <2>2. 1 * m = m
    BY <1>2
  <2> HIDE DEF sw, one
  <2>3. Same(sw * m, one * m, N)
    BY <1>2, <2>1, SameTimes
  <2> QED
    BY <2>2, <2>3 DEF sw, one
<1> QED
  BY <1>4, <1>6, <1>8, <1>9, <1>10 DEF Same, u1, u2, ew, rw, w

(* A signature by the private key, whose nonce is k.                       *)
IsSigned ==
  /\ k \in 1 .. N - 1 /\ signature[1] = Multiple(k)[1] /\ signature[1] \in 1 .. P - 1
  /\ signature[2] \in 0 .. N - 1
  /\ Same(signature[2] * k, hash + private * signature[1], N)

(* The scalars that uECC_verify derives.                                   *)
ScalarOf(x) == (x * InverseModN[signature[2]]) % N

Verifying ==
  /\ signature[1] \in 1 .. N - 1 /\ signature[2] \in 1 .. N - 1
  /\ shamir \in [own : BOOLEAN, u1 : {ScalarOf(hash)}, u2 : {ScalarOf(signature[1])},
                 sum : {Multiple(1 + private)}, i : Int, point : Places, z : 0 .. P - 1]
  /\ shamir.i \in -1 .. SizeOf(shamir.u1, shamir.u2) - 2
  /\ Adding(shamir.u1, shamir.u2, private, shamir.i, shamir.point, shamir.z)

(* The inductive invariant of signatures.                                  *)
VerifyInv ==
  /\ hash \in Nat
  /\ pc = "signed" => IsSigned
  /\ pc = "verify" => Verifying
  /\ pc \in {"verify", "verified"} =>
       shamir.own \in BOOLEAN /\ (shamir.own = TRUE => IsSigned)
  /\ pc = "verified" => (verdict = 1 <=> Genuine /\ ~CollidedBefore(0))

(* What comes in.                                                          *)
LEMMA InputsAre ==
  /\ \A e \in Hashes \cup Rs \cup Ss : e \in Nat
  /\ \A tmp \in InitialZs : tmp < N => tmp \in 1 .. N - 1
  /\ \A x \in Nat : InRange(x) <=> x \in 1 .. N - 1
  /\ KeyPair => private \in 2 .. N - 2 /\ private \in Nat
<1>1. N \in Nat /\ P \in Nat /\ N > 2
  BY FieldIs
<1>2. \A e \in Hashes \cup Rs \cup Ss : e \in Nat
  BY EcdsaAssumption
<1>3. \A tmp \in InitialZs : tmp < N => tmp \in 1 .. N - 1
  <2>1. InitialZs \subseteq 1 .. P - 1
    BY EcdsaAssumption
  <2> QED
    BY <1>1, <2>1
<1>4. \A x \in Nat : InRange(x) <=> x \in 1 .. N - 1
  BY <1>1 DEF InRange
<1>5. KeyPair => private \in 2 .. N - 2 /\ private \in Nat
  BY <1>1 DEF KeyPair, Unreachable
<1> QED
  BY <1>2, <1>3, <1>4, <1>5

(* The rest of uECC_sign_with_k_internal.                                  *)
LEMMA MadeIsSigned ==
  ASSUME LadderInv, VerifyInv, SignatureIsMade
  PROVE  IsSigned'
<1>1. pc = "multiplied" /\ ladder.caller = "sign" /\ product[1] # 0 /\ UNCHANGED <<private, hash, k>>
  BY DEF SignatureIsMade, keyVars
<1>2. Calling /\ product = IF k \in Unreachable THEN <<0, 0>> ELSE Multiple(k * BaseLog)
  BY <1>1 DEF LadderInv
<1>3. KeyPair /\ k \in 1 .. N - 1 /\ BaseLog = 1
  BY <1>1, <1>2 DEF Calling, BaseLog
<1>4. product = Multiple(k)
  <2>1. k * 1 = k
    BY <1>3, FieldIs
  <2> QED
    BY <1>1, <1>2, <1>3, <2>1
<1> DEFINE r == product[1]
<1>5. r \in 1 .. P - 1 /\ r \in Nat
  <2>1. NotZero(k) /\ k \in Int
    BY <1>3, NotZeroSmall
  <2>2. product \in (1 .. P - 1) \X (1 .. P - 1)
    BY <1>4, <2>1, MultipleIs
  <2>3. r \in 1 .. P - 1
    BY <2>2
  <2> QED
    BY <2>3, FieldIs
<1>6. PICK tmp \in InitialZs :
        tmp < N
        /\ signature' = <<r, (ModAddN(hash, (private * r) % N)
                              * ((ModInv((k * tmp) % N, InverseModN) * tmp) % N)) % N>>
  BY DEF SignatureIsMade
<1>7. tmp \in 1 .. N - 1 /\ hash \in Nat /\ private \in Nat
  BY <1>3, <1>6, InputsAre DEF VerifyInv
<1> HIDE DEF r
<1> DEFINE s == (ModAddN(hash, (private * r) % N)
                 * ((ModInv((k * tmp) % N, InverseModN) * tmp) % N)) % N
<1>8. s \in 0 .. N - 1 /\ Same(s * k, hash + private * r, N)
  BY <1>3, <1>5, <1>7, SignedNumbers
<1> HIDE DEF s
<1>9. signature' = <<r, s>>
  BY <1>6 DEF s
<1>10. signature'[1] = r /\ signature'[2] = s
  BY <1>9
<1>11. r = Multiple(k)[1]
  BY <1>4 DEF r
<1> QED
  BY <1>1, <1>3, <1>5, <1>8, <1>10, <1>11 DEF IsSigned

(* The standard's test, in the terms of the loop.                          *)
LEMMA GenuineIs ==
  ASSUME signature[1] \in 1 .. N - 1, signature[2] \in 1 .. N - 1
  PROVE  LET sum == Multiple(ScalarOf(hash) + ScalarOf(signature[1]) * private)
         IN Genuine <=> ~IsZero(sum) /\ sum[1] % N = signature[1]
<1>1. InRange(signature[1]) /\ InRange(signature[2])
  <2>1. signature[1] \in Nat /\ signature[2] \in Nat
    BY FieldIs
  <2> QED
    BY <2>1, InputsAre
<1> QED
  BY <1>1 DEF Genuine, ScalarOf

(* Where the loop has met a point, in the terms of the lemmas above.       *)
LEMMA CollidedBeforeIs ==
  ASSUME NEW i
  PROVE  CollidedBefore(i) <=> Collided(shamir.u1, shamir.u2, private, i)
BY DEF CollidedBefore, Collided, CollidesAt, SizeOf, SumAbove, SumOf

(* The scalars of uECC_verify: u2 is not zero.                             *)
LEMMA ScalarsIn ==
  ASSUME NEW e \in Nat, NEW r \in 1 .. N - 1, NEW s \in 1 .. N - 1
  PROVE  LET w == InverseModN[s] IN Scalars((e * w) % N, (r * w) % N)
<1> DEFINE w == InverseModN[s]
<1>1. w \in 1 .. N - 1
  BY InverseIs
<1>2. (s * w) % N = 1
  BY InverseIs
<1> HIDE DEF w
<1>3. w \in Int /\ NotZero(w) /\ NotZero(r) /\ r \in Int /\ e \in Int
  BY <1>1, NotZeroSmall
<1>4. e * w \in Int /\ r * w \in Int /\ NotZero(r * w)
  <2>1. e * w \in Int
    BY <1>3
  <2> QED
    BY <1>3, <2>1, NotZeroTimes
<1>5. (e * w) % N \in 0 .. N - 1
  <2> DEFINE hw == e * w
  <2>1. hw \in Int
    BY <1>4
  <2> HIDE DEF hw
  <2> QED
    BY <2>1, RestIs DEF hw
<1>6. (r * w) % N \in 1 .. N - 1
  <2> DEFINE rw == r * w
  <2>1. rw \in Int /\ NotZero(rw)
    BY <1>4
  <2> HIDE DEF rw
  <2> QED
    BY <2>1, NotZeroRest DEF rw
<1> QED
  BY <1>5, <1>6 DEF Scalars, w
(* The scalars of the signature at hand.                                   *)
LEMMA ScalarsAre ==
  ASSUME hash \in Nat, signature[1] \in 1 .. N - 1, signature[2] \in 1 .. N - 1
  PROVE  Scalars(ScalarOf(hash), ScalarOf(signature[1]))
BY ScalarsIn DEF ScalarOf

(* uECC_verify, up to the loop.                                            *)
LEMMA VerifyStarts ==
  ASSUME KeyPair, NEW e \in Nat, NEW r \in Nat, NEW s \in Nat, NEW own \in BOOLEAN,
         Verify(e, r, s, own),
         own = TRUE => /\ k \in 1 .. N - 1 /\ r = Multiple(k)[1] /\ r \in 1 .. P - 1
                       /\ s \in 0 .. N - 1 /\ Same(s * k, e + private * r, N)
  PROVE  VerifyInv'
<1>1. /\ hash' = e /\ signature' = <<r, s>> /\ UNCHANGED keyVars
      /\ private' = private /\ public' = public /\ k' = k
  BY DEF Verify, keyVars
<1>2. signature'[1] = r /\ signature'[2] = s
  BY <1>1
<1>3. own = TRUE => IsSigned'
  BY <1>1, <1>2 DEF IsSigned
<1>4. CASE ~Acceptable(r, s)
  <2>1. pc' = "verified" /\ verdict' = 0 /\ shamir' = [own |-> own, i |-> -1]
    BY <1>4 DEF Verify
  <2>2. shamir'.own = own
    BY <2>1
  <2>3. ~Genuine'
    BY <1>2, <1>4 DEF Genuine, Acceptable, InRange
  <2> QED
    BY <1>1, <1>3, <2>1, <2>2, <2>3 DEF VerifyInv
<1>5. CASE Acceptable(r, s)
  <2>1. pc' = "verify" /\ StartVerify(e, r, s, own)
    BY <1>5 DEF Verify
  <2>2. r \in 1 .. N - 1 /\ s \in 1 .. N - 1
    BY <1>5, InputsAre DEF Acceptable
  <2>3. private \in 2 .. N - 2
    BY InputsAre
  <2> DEFINE d == private
             w == InverseModN[s]
             u1 == (e * w) % N
             u2 == (r * w) % N
             dz == ModInv(Mod(public[1] - G[1]), InverseModP)
             sum == ApplyZ(XYcZAdd(G, public)[2], dz)
             l == SizeOf(u1, u2)
             point == PointOf(Index(u1, u2, l - 1), sum)
  <2>4. s % N = s
    <3>1. s \in 0 .. N - 1 /\ N \in Nat \ {0}
      BY <2>2, FieldIs
    <3> QED
      BY <3>1, SameSmall
  <2>5. shamir' = [own |-> own, u1 |-> u1, u2 |-> u2, sum |-> sum, i |-> l - 2,
                   point |-> point, z |-> 1]
    BY <2>1, <2>4 DEF StartVerify, SizeOf
  <2>6. u1 = ScalarOf(hash)' /\ u2 = ScalarOf(signature[1])'
    BY <1>1, <1>2 DEF ScalarOf
  <2>7. Scalars(u1, u2)
    BY <2>2, ScalarsIn
  <2>8. sum = Multiple(1 + d) /\ public = Multiple(d)
    BY <2>3, FirstSum DEF KeyPair
  <2> HIDE DEF u1, u2, sum, l
  <2>9. point = Selected(Index(u1, u2, l - 1), d)
    BY <2>8 DEF PointOf, Selected
  <2>10. l \in Nat /\ l - 2 \in Int /\ l - 2 >= -1
         /\ Adding(u1, u2, d, l - 2, point, 1)
    BY <2>3, <2>7, <2>9, AddingStarts DEF l
  <2> HIDE DEF point
  <2>11. point \in Places /\ 1 \in 0 .. P - 1
    BY <2>10, FieldIs DEF Adding
  <2>12. /\ shamir'.own = own /\ shamir'.u1 = u1 /\ shamir'.u2 = u2 /\ shamir'.i = l - 2
         /\ shamir'.point = point /\ shamir'.z = 1
    BY <2>5
  <2>13. shamir' \in [own : BOOLEAN, u1 : {ScalarOf(hash)'}, u2 : {ScalarOf(signature[1])'},
                      sum : {Multiple(1 + d)}, i : Int, point : Places, z : 0 .. P - 1]
    BY <2>5, <2>6, <2>8, <2>10, <2>11
  <2>14. shamir'.i \in -1 .. SizeOf(shamir'.u1, shamir'.u2) - 2
    BY <2>10, <2>12 DEF l
  <2>15. Adding(shamir'.u1, shamir'.u2, d, shamir'.i, shamir'.point, shamir'.z)
    BY <2>10, <2>12
  <2>16. Verifying'
    BY <1>1, <1>2, <2>2, <2>13, <2>14, <2>15 DEF Verifying
  <2> QED
    BY <1>1, <1>3, <2>1, <2>12, <2>16 DEF VerifyInv
<1> QED
  BY <1>4, <1>5

(* A turn of its loop.                                                     *)
LEMMA StepKeepsVerify ==
  ASSUME LadderInv, VerifyInv, VerifyStep
  PROVE  VerifyInv'
<1> DEFINE u1 == shamir.u1
           u2 == shamir.u2
           d == private
           i == shamir.i
           point == shamir.point
           z == shamir.z
           index == Index(u1, u2, i)
           turn == Turn(u1, u2, d, i, point, z)
<1>1. /\ pc = "verify" /\ pc' = "verify" /\ i >= 0
      /\ hash' = hash /\ signature' = signature /\ private' = private /\ k' = k
  BY DEF VerifyStep, keyVars
<1>2. Verifying /\ KeyPair /\ hash \in Nat
  BY <1>1 DEF VerifyInv, LadderInv
<1>3. d \in 2 .. N - 2 /\ public = Multiple(d)
  BY <1>2, InputsAre DEF KeyPair
<1>4. /\ shamir \in [own : BOOLEAN, u1 : {u1}, u2 : {u2}, sum : {Multiple(1 + d)},
                     i : Int, point : Places, z : 0 .. P - 1]
      /\ u1 = ScalarOf(hash) /\ u2 = ScalarOf(signature[1]) /\ shamir.sum = Multiple(1 + d)
      /\ i \in Int /\ i <= SizeOf(u1, u2) - 2 /\ SizeOf(u1, u2) \in Nat
      /\ Adding(u1, u2, d, i, point, z) /\ Scalars(u1, u2)
  <2>1. /\ shamir \in [own : BOOLEAN, u1 : {ScalarOf(hash)}, u2 : {ScalarOf(signature[1])},
                       sum : {Multiple(1 + d)}, i : Int, point : Places, z : 0 .. P - 1]
        /\ i \in -1 .. SizeOf(u1, u2) - 2 /\ Adding(u1, u2, d, i, point, z)
        /\ signature[1] \in 1 .. N - 1 /\ signature[2] \in 1 .. N - 1
    BY <1>2 DEF Verifying
  <2>2. u1 = ScalarOf(hash) /\ u2 = ScalarOf(signature[1]) /\ shamir.sum = Multiple(1 + d)
        /\ i \in Int
    BY <2>1
  <2>3. Scalars(u1, u2)
    BY <1>2, <2>1, <2>2, ScalarsAre
  <2>4. SizeOf(u1, u2) \in Nat
    BY <2>3, SizeIs
  <2> HIDE DEF u1, u2, i, point, z
  <2>5. i <= SizeOf(u1, u2) - 2
    BY <2>1, <2>2, <2>4
  <2> QED
    BY <2>1, <2>2, <2>3, <2>4, <2>5
<1>5. i \in Nat
  BY <1>1, <1>4
<1>6. shamir' = [shamir EXCEPT !.i = i - 1, !.point = turn.point, !.z = turn.z]
  <2> DEFINE double == DoubleJacobian(point, z)
             added == ApplyZ(PointOf(index, shamir.sum), double.z)
  <2>1. shamir' = IF index = 0
                  THEN [shamir EXCEPT !.i = i - 1, !.point = double.point, !.z = double.z]
                  ELSE [shamir EXCEPT !.i = i - 1, !.point = XYcZAdd(added, double.point)[2],
                                      !.z = Mod(double.z * Mod(double.point[1] - added[1]))]
    BY DEF VerifyStep
  <2>2. PointOf(index, shamir.sum)
          = IF index = 1 THEN G ELSE IF index = 2 THEN Multiple(d) ELSE Multiple(1 + d)
    BY <1>3, <1>4 DEF PointOf
  <2>3. turn = IF index = 0 THEN [point |-> double.point, z |-> double.z]
               ELSE [point |-> XYcZAdd(added, double.point)[2],
                     z |-> Mod(double.z * Mod(double.point[1] - added[1]))]
    BY <2>2 DEF Turn, AddTurn
  <2> HIDE DEF turn, double, added, index
  <2>4. CASE index = 0
    <3>1. turn.point = double.point /\ turn.z = double.z
      BY <2>3, <2>4
    <3> QED
      BY <2>1, <2>4, <3>1
  <2>5. CASE index # 0
    <3>1. turn.point = XYcZAdd(added, double.point)[2]
          /\ turn.z = Mod(double.z * Mod(double.point[1] - added[1]))
      BY <2>3, <2>5
    <3> QED
      BY <2>1, <2>5, <3>1
  <2> QED
    BY <2>4, <2>5
<1>7. Adding(u1, u2, d, i - 1, turn.point, turn.z)
  <2> HIDE DEF u1, u2, i, point, z, d
  <2> QED
    BY <1>3, <1>4, <1>5, AddingTurn
<1> HIDE DEF turn
<1>8. turn.point \in Places /\ turn.z \in 0 .. P - 1
  BY <1>7 DEF Adding
<1>9. /\ shamir' \in [own : BOOLEAN, u1 : {u1}, u2 : {u2}, sum : {Multiple(1 + d)},
                      i : Int, point : Places, z : 0 .. P - 1]
      /\ shamir'.u1 = u1 /\ shamir'.u2 = u2 /\ shamir'.i = i - 1
      /\ shamir'.point = turn.point /\ shamir'.z = turn.z /\ shamir'.own = shamir.own
  <2> DEFINE newi == i - 1  newpoint == turn.point  newz == turn.z
  <2>1. newi \in Int /\ newpoint \in Places /\ newz \in 0 .. P - 1
    BY <1>4, <1>8
  <2> HIDE DEF newi, newpoint, newz
  <2>2. shamir' = [shamir EXCEPT !.i = newi, !.point = newpoint, !.z = newz]
    BY <1>6 DEF newi, newpoint, newz
  <2> QED
    BY <1>4, <2>1, <2>2 DEF newi, newpoint, newz
<1>10. shamir'.i \in -1 .. SizeOf(shamir'.u1, shamir'.u2) - 2
  <2> HIDE DEF i, u1, u2
  <2> QED
    BY <1>4, <1>5, <1>9
<1>11. ScalarOf(hash)' = u1 /\ ScalarOf(signature[1])' = u2
  BY <1>1, <1>4 DEF ScalarOf
<1>12. Verifying'
  <2>1. signature[1] \in 1 .. N - 1 /\ signature[2] \in 1 .. N - 1
    BY <1>2 DEF Verifying
  <2>2. Adding(shamir'.u1, shamir'.u2, private', shamir'.i, shamir'.point, shamir'.z)
    BY <1>1, <1>7, <1>9
  <2>3. Multiple(1 + private)' = Multiple(1 + d)
    BY <1>1
  <2> QED
    BY <1>1, <1>9, <1>10, <1>11, <2>1, <2>2, <2>3 DEF Verifying
<1>13. shamir.own \in BOOLEAN /\ (shamir.own = TRUE => IsSigned)
  BY <1>1 DEF VerifyInv
<1>14. IsSigned => IsSigned'
  BY <1>1 DEF IsSigned
<1> QED
  BY <1>1, <1>2, <1>9, <1>12, <1>13, <1>14 DEF VerifyInv

(* Its end: the verdict.                                                   *)
LEMMA EndKeepsVerify ==
  ASSUME LadderInv, VerifyInv, VerifyEnds
  PROVE  VerifyInv'
<1> DEFINE u1 == ScalarOf(hash)
           u2 == ScalarOf(signature[1])
           r == signature[1]
           sum == Multiple(u1 + u2 * private)
<1>1. /\ pc = "verify" /\ pc' = "verified" /\ shamir.i < 0
      /\ hash' = hash /\ signature' = signature /\ private' = private /\ k' = k
      /\ shamir' = shamir
      /\ verdict' = IF Last(shamir.point, shamir.z) = r THEN 1 ELSE 0
  BY DEF VerifyEnds, keyVars, Last
<1>2. Verifying /\ KeyPair /\ hash \in Nat
      /\ shamir.own \in BOOLEAN /\ (shamir.own = TRUE => IsSigned)
  BY <1>1 DEF VerifyInv, LadderInv
<1>3. /\ r \in 1 .. N - 1 /\ signature[2] \in 1 .. N - 1
      /\ shamir.u1 = u1 /\ shamir.u2 = u2 /\ shamir.i \in Int /\ shamir.i >= -1
      /\ Adding(shamir.u1, shamir.u2, private, shamir.i, shamir.point, shamir.z)
  <2>1. /\ shamir \in [own : BOOLEAN, u1 : {u1}, u2 : {u2}, sum : {Multiple(1 + private)},
                       i : Int, point : Places, z : 0 .. P - 1]
        /\ shamir.i \in -1 .. SizeOf(shamir.u1, shamir.u2) - 2
        /\ Adding(shamir.u1, shamir.u2, private, shamir.i, shamir.point, shamir.z)
        /\ r \in 1 .. N - 1 /\ signature[2] \in 1 .. N - 1
    BY <1>2 DEF Verifying
  <2> HIDE DEF u1, u2, r
  <2> QED
    BY <2>1
<1>4. shamir.i = -1
  BY <1>1, <1>3
<1>5. Scalars(u1, u2) /\ private \in 2 .. N - 2
  BY <1>2, <1>3, ScalarsAre, InputsAre
<1>6. Genuine <=> ~IsZero(sum) /\ sum[1] % N = r
  BY <1>3, GenuineIs
<1> HIDE DEF u1, u2, r
<1>7. Last(shamir.point, shamir.z) = r
        <=> ~Collided(u1, u2, private, 0) /\ ~IsZero(sum) /\ sum[1] % N = r
  BY <1>3, <1>4, <1>5, AddingEnds
<1>8. CollidedBefore(0) <=> Collided(u1, u2, private, 0)
  BY <1>3, CollidedBeforeIs
<1>9. verdict' = 1 <=> Genuine /\ ~CollidedBefore(0)
  BY <1>1, <1>6, <1>7, <1>8
<1>10. Genuine' <=> Genuine
  BY <1>1 DEF Genuine
<1>11. CollidedBefore(0)' <=> CollidedBefore(0)
  BY <1>1 DEF CollidedBefore, SumAbove
<1>12. IsSigned => IsSigned'
  BY <1>1 DEF IsSigned
<1> QED
  BY <1>1, <1>2, <1>9, <1>10, <1>11, <1>12 DEF VerifyInv

(* Every step keeps the invariant.                                         *)
LEMMA NextKeepsVerify ==
  ASSUME LadderInv, VerifyInv, EcdsaNext
  PROVE  VerifyInv'
<1>1. ASSUME pc' \in {"idle", "ladder", "multiplied", "key"}, hash' \in Nat PROVE VerifyInv'
  BY <1>1 DEF VerifyInv
<1>2. hash \in Nat /\ 0 \in Nat
  BY DEF VerifyInv
<1>3. ASSUME NEW d, ComputePublicKey(d) \/ MakeKey(d) \/ SharedSecret(d)
      PROVE  VerifyInv'
  <2>1. pc' = "ladder" /\ hash' = hash
    BY <1>3 DEF ComputePublicKey, MakeKey, SharedSecret, StartLadder
  <2> QED
    BY <1>1, <1>2, <2>1
<1>4. ASSUME NEW e \in Hashes, NEW m \in Nonces, Sign(e, m) \/ SignWithK(e, m) PROVE VerifyInv'
  <2>1. pc' = "ladder" /\ hash' = e
    BY <1>4 DEF Sign, SignWithK, StartSigning, StartLadder
  <2> QED
    BY <1>1, <2>1, InputsAre
<1>5. ASSUME NEW m \in Nonces, SignAgain(m) PROVE VerifyInv'
  <2>1. pc' = "ladder" /\ hash' = hash
    BY <1>5 DEF SignAgain, StartSigning, StartLadder
  <2> QED
    BY <1>1, <1>2, <2>1
<1>6. ASSUME NEW e \in Hashes, NEW r \in Rs, NEW s \in Ss, VerifyOther(e, r, s) PROVE VerifyInv'
  <2>1. pc = "key" /\ Verify(e, r, s, FALSE)
    BY <1>6 DEF VerifyOther
  <2>2. KeyPair /\ e \in Nat /\ r \in Nat /\ s \in Nat
    BY <2>1, InputsAre DEF LadderInv
  <2> DEFINE own == FALSE
  <2>3. own \in BOOLEAN /\ own # TRUE /\ Verify(e, r, s, own)
    BY <2>1
  <2> HIDE DEF own
  <2> QED
    BY <2>2, <2>3, VerifyStarts
<1>7. CASE LadderStep \/ LadderEnds \/ KeyIsComputed \/ CompressKey
  <2>1. pc' \in {"ladder", "multiplied", "key"} /\ hash' = hash
    BY <1>7 DEF LadderStep, LadderEnds, KeyIsComputed, CompressKey
  <2> QED
    BY <1>1, <1>2, <2>1
<1>8. CASE SignatureIsMade
  <2>1. pc' = "signed" /\ hash' = hash
    BY <1>8 DEF SignatureIsMade
  <2> QED
    BY <1>2, <1>8, <2>1, MadeIsSigned DEF VerifyInv
<1>9. CASE VerifyOwn
  <2> DEFINE r == signature[1]  s == signature[2]  own == TRUE
  <2>1. pc = "signed" /\ Verify(hash, r, s, own) /\ own \in BOOLEAN
    BY <1>9 DEF VerifyOwn
  <2>2. KeyPair /\ IsSigned
    BY <2>1 DEF LadderInv, VerifyInv
  <2>3. /\ k \in 1 .. N - 1 /\ r = Multiple(k)[1] /\ r \in 1 .. P - 1
        /\ s \in 0 .. N - 1 /\ Same(s * k, hash + private * r, N)
    BY <2>2 DEF IsSigned
  <2>4. r \in Nat /\ s \in Nat
    BY <2>3, FieldIs
  <2> HIDE DEF r, s, own
  <2> QED
    BY <1>2, <2>1, <2>2, <2>3, <2>4, VerifyStarts
<1>10. CASE Forget
  <2>1. pc' = "idle" /\ hash' = 0
    BY <1>10 DEF Forget
  <2> QED
    BY <1>1, <1>2, <2>1
<1> QED
  BY <1>3, <1>4, <1>5, <1>6, <1>7, <1>8, <1>9, <1>10,
     StepKeepsVerify, EndKeepsVerify DEF EcdsaNext

(* The invariant holds of the specification.                               *)
LEMMA VerifyInvariance == Spec => []VerifyInv
<1>1. EcdsaInit => VerifyInv
  BY DEF EcdsaInit, VerifyInv
<1>2. LadderInv /\ VerifyInv /\ [EcdsaNext]_ecdsaVars => VerifyInv'
  <2>1. CASE EcdsaNext
    BY <2>1, NextKeepsVerify
  <2>2. CASE UNCHANGED ecdsaVars
    <3>1. (IsSigned => IsSigned') /\ (Verifying => Verifying')
      BY <2>2 DEF IsSigned, Verifying, ScalarOf, ecdsaVars
    <3>2. (Genuine' <=> Genuine) /\ (CollidedBefore(0)' <=> CollidedBefore(0))
      BY <2>2 DEF Genuine, CollidedBefore, SumAbove, ecdsaVars
    <3> QED
      BY <2>2, <3>1, <3>2 DEF VerifyInv, ecdsaVars
  <2> QED
    BY <2>1, <2>2
<1> QED
  BY <1>1, <1>2, LadderInvariance, PTL DEF Spec

(* Property VerifyIsEcdsa.                                                 *)
THEOREM VerifyAgreesWithEcdsa == Spec => []VerifyIsEcdsa
<1>1. ASSUME VerifyInv PROVE VerifyIsEcdsa
  <2>1. ASSUME pc = "verify"
        PROVE  IF shamir.z = 0 THEN CollidedBefore(shamir.i + 1)
               ELSE shamir.point = ApplyZ(Multiple(SumAbove(shamir.i)), shamir.z)
    <3>1. Adding(shamir.u1, shamir.u2, private, shamir.i, shamir.point, shamir.z)
      BY <1>1, <2>1 DEF VerifyInv, Verifying
    <3>2. SumAbove(shamir.i) = SumOf(shamir.u1, shamir.u2, private, shamir.i)
      BY DEF SumAbove, SumOf
    <3> QED
      BY <3>1, <3>2, CollidedBeforeIs DEF Adding, At
  <2> QED
    BY <1>1, <2>1 DEF VerifyInv, VerifyIsEcdsa
<1> QED
  BY <1>1, VerifyInvariance, PTL

(* Property SignedIsAccepted.                                              *)
THEOREM SignaturesAreAccepted == Spec => []SignedIsAccepted
<1>1. ASSUME LadderInv, VerifyInv, pc = "verified", shamir.own = TRUE, signature[1] < N,
             signature[2] # 0
      PROVE  Genuine
  <2> DEFINE r == signature[1]
             s == signature[2]
             m == ScalarOf(hash) + ScalarOf(r) * private
  <2>1. KeyPair /\ IsSigned /\ hash \in Nat
    BY <1>1 DEF VerifyInv, LadderInv
  <2>2. /\ k \in 1 .. N - 1 /\ r = Multiple(k)[1] /\ r \in 1 .. P - 1
        /\ s \in 0 .. N - 1 /\ Same(s * k, hash + private * r, N)
    BY <2>1 DEF IsSigned
  <2>3. /\ r \in 1 .. N - 1 /\ r \in Nat /\ s \in 1 .. N - 1 /\ private \in Nat
        /\ k \in Nat /\ k \in Int /\ NotZero(k)
    <3>1. N \in Nat /\ P \in Nat
      BY FieldIs
    <3>2. private \in Nat /\ k \in Int /\ NotZero(k)
      BY <2>1, <2>2, InputsAre, NotZeroSmall
    <3> HIDE DEF r, s
    <3>3. r < N /\ s # 0
      BY <1>1 DEF r, s
    <3> QED
      BY <2>2, <3>1, <3>2, <3>3
  <2>4. Same(m, k, N)
    <3> HIDE DEF r
    <3> QED
      BY <2>1, <2>2, <2>3, VerifiedNumbers DEF ScalarOf
  <2>5. m \in Int
    <3> DEFINE a == ScalarOf(hash)  b == ScalarOf(r)
    <3>1. Scalars(a, b)
      BY <2>1, <2>3, ScalarsAre
    <3> HIDE DEF a, b
    <3>2. a \in Int /\ b \in Int
      BY <3>1, FieldIs DEF Scalars
    <3> QED
      BY <2>3, <3>2 DEF a, b
  <2> HIDE DEF m
  <2>6. Multiple(m) = Multiple(k)
    BY <2>3, <2>4, <2>5, MultipleSame
  <2>7. ~IsZero(Multiple(k))
    <3>1. Multiple(k) # <<0, 0>>
      BY <2>3, MultipleZero
    <3> QED
      BY <3>1 DEF IsZero
  <2>8. Multiple(k)[1] % N = r
    <3>1. r \in 0 .. N - 1 /\ N \in Nat \ {0}
      BY <2>3, FieldIs
    <3> HIDE DEF r
    <3>2. r % N = r
      BY <3>1, SameSmall
    <3> QED
      BY <2>2, <3>2
  <2> QED
    BY <2>3, <2>6, <2>7, <2>8, GenuineIs DEF m, r, s
<1>2. ASSUME LadderInv, VerifyInv PROVE SignedIsAccepted
  <2> SUFFICES ASSUME pc = "verified", shamir.own, signature[1] < N, signature[2] # 0,
                      ~CollidedBefore(0)
               PROVE  verdict = 1
    <3>1. ASSUME pc = "verified", shamir.own, ~(signature[1] < N) PROVE signature[1] >= N
      <4>1. shamir.own = TRUE
        BY <1>2, <3>1 DEF VerifyInv
      <4>2. signature[1] \in Int /\ N \in Int
        BY <1>2, <3>1, <4>1, FieldIs DEF VerifyInv, IsSigned
      <4> QED
        BY <3>1, <4>2
    <3> QED
      BY <3>1 DEF SignedIsAccepted
  <2>1. shamir.own = TRUE
    BY <1>2 DEF VerifyInv
  <2> QED
    BY <1>1, <1>2, <2>1 DEF VerifyInv
<1> QED
  BY <1>2, LadderInvariance, VerifyInvariance, PTL
=============================================================================
