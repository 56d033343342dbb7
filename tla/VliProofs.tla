----------------------------- MODULE VliProofs -----------------------------
(***************************************************************************)
(* The multi-word integers of util/uECC.c compute what they say, for every *)
(* number of words, width of a word, modulus of the form of secp256k1's    *)
(* and order, and all operands.                                            *)
(*                                                                         *)
(* What words stand for is the sum of the words at their places (Sums), so *)
(* that a loop over words is exact when each of its turns keeps one        *)
(* equation between sums and carries. Sums, differences and shifts come    *)
(* first; then the loop of uECC_vli_modInv, which keeps both numbers       *)
(* multiples of the input and their common divisors; then the product,     *)
(* column by column; the fold of vli_mmod_fast_secp256k1; the remainder of *)
(* uECC_vli_mmod; and the conversions to bits and bytes.                   *)
(***************************************************************************)
EXTENDS Vli, Numbers

(* What a word can be, and n words, the lowest first.                      *)
Word == 0 .. Base - 1
WordsOf(n) == [1 .. n -> Word]
(* The equation of Power.                                                  *)
PowerOf(base, f) == f = [k \in Nat |-> IF k = 0 THEN 1 ELSE base * f[k - 1]]

(* The powers of a number: the function exists and has its equations.      *)
LEMMA PowerDef ==
  ASSUME NEW base \in Nat
  PROVE  /\ Power(base) \in [Nat -> Nat] /\ Power(base)[0] = 1
         /\ \A k \in Nat : Power(base)[k + 1] = base * Power(base)[k]
<1> DEFINE step == [k \in Nat |-> [s \in Nat |-> base * s]]
           S == Nat
           one == 1
<1>1. step \in [Nat -> [S -> S]] /\ one \in S
  OBVIOUS
<1>2. ASSUME NEW f \in [Nat -> S], Follows(f, one, step)
      PROVE  PowerOf(base, f)
  <2>1. ASSUME NEW k \in Nat PROVE f[k] = IF k = 0 THEN 1 ELSE base * f[k - 1]
    <3>1. CASE k = 0
      BY <1>2, <3>1 DEF Follows
    <3>2. CASE k # 0
      <4>1. k - 1 \in Nat /\ k = (k - 1) + 1
        BY <3>2
      <4>2. f[(k - 1) + 1] = step[k - 1][f[k - 1]]
        BY <1>2, <4>1 DEF Follows
      <4> QED
        BY <3>2, <4>1, <4>2
    <3> QED
      BY <3>1, <3>2
  <2> QED
    BY <2>1 DEF PowerOf
<1> HIDE DEF step, S, one
<1>3. \E f : PowerOf(base, f)
  BY <1>1, <1>2, Recursion
<1>4. PowerOf(base, CHOOSE f : PowerOf(base, f))
  BY <1>3
<1> DEFINE p == Power(base)
<1>5. p = CHOOSE f : PowerOf(base, f)
  BY DEF Power, PowerOf
<1> HIDE DEF p
<1>6. p = [k \in Nat |-> IF k = 0 THEN 1 ELSE base * p[k - 1]]
  <2>1. PowerOf(base, p)
    BY <1>4, <1>5
  <2> QED
    BY <2>1 DEF PowerOf
<1>7. p[0] = 1 /\ \A k \in Nat : p[k + 1] = base * p[k]
  BY <1>6
<1> DEFINE T == {k \in Nat : p[k] \in Nat}
<1>8. 0 \in T /\ (\A k \in T : k + 1 \in T) /\ T \in SUBSET Nat
  BY <1>7
<1> HIDE DEF T
<1>9. T = Nat
  BY <1>8, Induct
<1>10. \A k \in Nat : p[k] \in Nat
  BY <1>9 DEF T
<1>11. p = [k \in Nat |-> p[k]]
  BY <1>6
<1>12. p \in [Nat -> Nat]
  BY <1>10, <1>11
<1> QED
  BY <1>7, <1>12 DEF p

(* No power of a positive number is zero.                                  *)
LEMMA PowerPositive ==
  ASSUME NEW base \in Nat \ {0}
  PROVE  \A k \in Nat : Power(base)[k] \in Nat \ {0}
<1> DEFINE T == {k \in Nat : Power(base)[k] \in Nat \ {0}}
<1>0. base \in Nat
  OBVIOUS
<1>1. 0 \in T
  <2>1. Power(base)[0] = 1
    BY <1>0, PowerDef
  <2> QED
    BY <2>1
<1>2. ASSUME NEW k \in T PROVE k + 1 \in T
  <2>1. Power(base)[k + 1] = base * Power(base)[k]
    BY <1>0, PowerDef
  <2> DEFINE p == Power(base)[k]
             q == Power(base)[k + 1]
  <2>2. p \in Nat \ {0} /\ q = base * p
    BY <2>1
  <2> HIDE DEF p, q
  <2>3. q \in Nat \ {0}
    BY <2>2
  <2> QED
    BY <2>3 DEF q
<1>3. T \in SUBSET Nat
  OBVIOUS
<1> HIDE DEF T
<1>4. T = Nat
  BY <1>1, <1>2, <1>3, Induct
<1> QED
  BY <1>4 DEF T

(* The exponents add up.                                                   *)
LEMMA PowerPlus ==
  ASSUME NEW base \in Nat, NEW j \in Nat
  PROVE  \A k \in Nat : Power(base)[j + k] = Power(base)[j] * Power(base)[k]
<1> DEFINE p == Power(base)
<1>1. p \in [Nat -> Nat] /\ p[0] = 1 /\ \A k \in Nat : p[k + 1] = base * p[k]
  BY PowerDef
<1> HIDE DEF p
<1> DEFINE T == {k \in Nat : p[j + k] = p[j] * p[k]}
<1>2. 0 \in T
  BY <1>1
<1>3. ASSUME NEW k \in T PROVE k + 1 \in T
  <2>1. k \in Nat /\ j + k \in Nat /\ (j + k) + 1 = j + (k + 1)
    OBVIOUS
  <2>2. p[(j + k) + 1] = base * p[j + k] /\ p[k + 1] = base * p[k]
    BY <1>1, <2>1
  <2>3. p[j + k] = p[j] * p[k]
    OBVIOUS
  <2>4. ASSUME NEW x \in Nat, NEW y \in Nat PROVE base * (x * y) = x * (base * y)
    OBVIOUS
  <2>5. p[j] \in Nat /\ p[k] \in Nat
    BY <1>1
  <2>6. p[j + (k + 1)] = p[j] * p[k + 1]
    BY <2>1, <2>2, <2>3, <2>4, <2>5
  <2> QED
    BY <2>6
<1>4. T \in SUBSET Nat
  OBVIOUS
<1> HIDE DEF T
<1>5. T = Nat
  BY <1>2, <1>3, <1>4, Induct
<1> QED
  BY <1>5 DEF T, p

(* The base is even.                                                       *)
LEMMA BaseEven ==
  /\ Base \in Nat /\ Base >= 2
  /\ Base \div 2 \in Nat \ {0} /\ Base = 2 * (Base \div 2)
<1> DEFINE p == Power(2)
<1>1. WordBits - 1 \in Nat /\ (WordBits - 1) + 1 = WordBits
  BY VliAssumption
<1>2. p[(WordBits - 1) + 1] = 2 * p[WordBits - 1]
  BY <1>1, PowerDef
<1>3. p[WordBits - 1] \in Nat \ {0}
  BY <1>1, PowerPositive
<1> DEFINE h == p[WordBits - 1]
<1>4. Base = 2 * h /\ h \in Nat \ {0}
  BY <1>1, <1>2, <1>3 DEF Base
<1> HIDE DEF p, h
<1>5. (2 * h) \div 2 = h /\ 2 * h \in Nat /\ 2 * h >= 2
  BY <1>4
<1> QED
  BY <1>4, <1>5

(* The places of the words.                                                *)
LEMMA BasePowers ==
  /\ Base \in Nat \ {0}
  /\ Power(Base) \in [Nat -> Nat] /\ Power(Base)[0] = 1
  /\ \A k \in Nat : /\ Power(Base)[k + 1] = Base * Power(Base)[k]
                    /\ Power(Base)[k] \in Nat \ {0}
<1>1. Base \in Nat /\ Base \in Nat \ {0}
  BY BaseEven
<1> QED
  BY <1>1, PowerDef, PowerPositive

-----------------------------------------------------------------------------
(* The number a sequence of words stands for.                              *)

(* A function on 1 .. n is a sequence of length n.                         *)
LEMMA Lengths ==
  ASSUME NEW n \in Nat, NEW S, NEW w \in [1 .. n -> S]
  PROVE  Len(w) = n /\ DOMAIN w = 1 .. n
OBVIOUS

(* The equation of Sums.                                                   *)
SumsOf(w, n, f) ==
  f = [k \in 0 .. n |-> IF k = 0 THEN 0 ELSE f[k - 1] + w[k] * Power(Base)[k - 1]]

(* The value of the first words of a number, of one more word at a time.   *)
LEMMA SumsDef ==
  ASSUME NEW n \in Nat, NEW w \in WordsOf(n)
  PROVE  /\ Sums(w) \in [0 .. n -> Nat] /\ Sums(w)[0] = 0
         /\ \A k \in 1 .. n : Sums(w)[k] = Sums(w)[k - 1] + w[k] * Power(Base)[k - 1]
         /\ Value(w) = Sums(w)[n] /\ Value(w) \in Nat
<1> DEFINE S == Nat
           zero == 0
           pow == Power(Base)
           step == [k \in 1 .. n |-> [s \in S |-> s + w[k] * pow[k - 1]]]
<1>1. Len(w) = n
  BY Lengths DEF WordsOf
<1>2. \A k \in 1 .. n : w[k] * pow[k - 1] \in Nat
  <2>1. ASSUME NEW k \in 1 .. n PROVE w[k] * pow[k - 1] \in Nat
    <3>1. w[k] \in Nat
      BY BaseEven DEF WordsOf, Word
    <3>2. pow[k - 1] \in Nat
      <4>1. k - 1 \in Nat
        OBVIOUS
      <4> QED
        BY <4>1, BasePowers
    <3> DEFINE x == w[k]
               y == pow[k - 1]
    <3> HIDE DEF x, y, pow
    <3>3. x \in Nat /\ y \in Nat
      BY <3>1, <3>2 DEF x, y
    <3>4. x * y \in Nat
      BY <3>3
    <3> QED
      BY <3>4 DEF x, y
  <2> QED
    BY <2>1
<1> HIDE DEF pow
<1>3. step \in [1 .. n -> [S -> S]] /\ zero \in S
  BY <1>2
<1>4. ASSUME NEW f \in [0 .. n -> S], Loops(f, n, zero, step)
      PROVE  SumsOf(w, n, f)
  <2>1. ASSUME NEW k \in 1 .. n PROVE f[k] = f[k - 1] + w[k] * pow[k - 1]
    <3>1. f[k] = step[k][f[k - 1]] /\ f[k - 1] \in S
      <4> HIDE DEF step, S, zero
      <4>1. k - 1 \in 0 .. n
        OBVIOUS
      <4> QED
        BY <1>4, <4>1 DEF Loops
    <3> HIDE DEF S
    <3> QED
      BY <3>1
  <2>2. f[0] = 0
    BY <1>4 DEF Loops
  <2> QED
    BY <2>1, <2>2 DEF SumsOf, pow
<1> HIDE DEF step, S, zero
<1>5. \E f : SumsOf(w, n, f)
  BY <1>3, <1>4, LoopExists
<1>6. SumsOf(w, n, CHOOSE f : SumsOf(w, n, f))
  BY <1>5
<1> DEFINE s == Sums(w)
<1>7. s = CHOOSE f : SumsOf(w, n, f)
  BY <1>1 DEF Sums, SumsOf
<1> HIDE DEF s
<1>8. SumsOf(w, n, s)
  BY <1>6, <1>7
<1>9. s = [k \in 0 .. n |-> s[k]] /\ s[0] = 0
  BY <1>8 DEF SumsOf
<1>10. \A k \in 1 .. n : s[k] = s[k - 1] + w[k] * pow[k - 1]
  BY <1>8 DEF SumsOf, pow
<1>11. \A k \in 1 .. n : s[k - 1] \in Nat => s[k] \in Nat
  BY <1>2, <1>10
<1>12. s \in [0 .. n -> Nat]
  <2> DEFINE N == Nat
  <2>1. s[0] \in N /\ \A k \in 1 .. n : s[k - 1] \in N => s[k] \in N
    <3>1. s[0] = 0
      BY <1>9
    <3>2. s[0] \in N
      BY <3>1
    <3> QED
      BY <1>11, <3>2, Zenon
  <2> HIDE DEF N
  <2>2. s \in [0 .. n -> N]
    BY <1>9, <2>1, LoopTyped
  <2> QED
    BY <2>2 DEF N
<1>13. Value(w) = s[n] /\ s[n] \in Nat
  BY <1>1, <1>12 DEF Value, s
<1> QED
  BY <1>9, <1>10, <1>12, <1>13 DEF s, pow

(* k words are less than the k-th power of the base.                       *)
LEMMA SumsBound ==
  ASSUME NEW n \in Nat, NEW w \in WordsOf(n)
  PROVE  \A k \in 0 .. n : Sums(w)[k] \in 0 .. Power(Base)[k] - 1
<1> DEFINE s == Sums(w)
           p == Power(Base)
           T == {k \in Nat : k <= n => s[k] \in 0 .. p[k] - 1}
<1>1. s[0] = 0 /\ \A k \in 1 .. n : s[k] = s[k - 1] + w[k] * p[k - 1]
  BY SumsDef
<1>2. Base \in Nat \ {0} /\ p[0] = 1 /\ \A k \in Nat : p[k + 1] = Base * p[k] /\ p[k] \in Nat \ {0}
  BY BasePowers
<1>3. \A k \in 1 .. n : w[k] \in 0 .. Base - 1
  BY DEF WordsOf, Word
<1> HIDE DEF s, p
<1>4. 0 \in T
  BY <1>1, <1>2
<1>5. ASSUME NEW k \in T PROVE k + 1 \in T
  <2>1. SUFFICES ASSUME k + 1 <= n PROVE s[k + 1] \in 0 .. p[k + 1] - 1
    OBVIOUS
  <2>2. k \in Nat /\ k + 1 \in 1 .. n /\ (k + 1) - 1 = k /\ s[k] \in 0 .. p[k] - 1
    BY <2>1
  <2>3. w[k + 1] \in 0 .. Base - 1 /\ p[k] \in Nat \ {0} /\ p[k + 1] = Base * p[k]
    BY <1>2, <1>3, <2>2
  <2>4. s[k + 1] = s[k] + w[k + 1] * p[k]
    <3>1. s[k + 1] = s[(k + 1) - 1] + w[k + 1] * p[(k + 1) - 1]
      BY <1>1, <2>2
    <3> QED
      BY <2>2, <3>1
  <2>5. p[k] * w[k + 1] + s[k] \in 0 .. Base * p[k] - 1
    BY <1>2, <2>2, <2>3, TwoDigits
  <2>6. p[k] * w[k + 1] = w[k + 1] * p[k] /\ w[k + 1] * p[k] \in Nat
    BY <2>3
  <2>7. p[k] * w[k + 1] + s[k] = s[k + 1]
    BY <2>2, <2>4, <2>6
  <2> QED
    BY <2>3, <2>5, <2>7
<1>6. T \in SUBSET Nat
  OBVIOUS
<1> HIDE DEF T
<1>7. \A k \in Nat : k \in T
  BY <1>4, <1>5, <1>6, Induct
<1> QED
  BY <1>7 DEF T, s, p

(* The first words of two sequences that agree on them make the same.      *)
LEMMA SumsAgree ==
  ASSUME NEW n \in Nat, NEW m \in Nat, NEW j \in Nat, j <= n, j <= m,
         NEW w \in WordsOf(n), NEW z \in WordsOf(m), \A k \in 1 .. j : w[k] = z[k]
  PROVE  \A k \in 0 .. j : Sums(w)[k] = Sums(z)[k]
<1> DEFINE s == Sums(w)
           t == Sums(z)
           T == {k \in Nat : k <= j => s[k] = t[k]}
<1>1. s[0] = 0 /\ \A k \in 1 .. n : s[k] = s[k - 1] + w[k] * Power(Base)[k - 1]
  BY SumsDef
<1>2. t[0] = 0 /\ \A k \in 1 .. m : t[k] = t[k - 1] + z[k] * Power(Base)[k - 1]
  BY SumsDef
<1> HIDE DEF s, t
<1>3. 0 \in T
  BY <1>1, <1>2
<1>4. ASSUME NEW k \in T PROVE k + 1 \in T
  <2>1. SUFFICES ASSUME k + 1 <= j PROVE s[k + 1] = t[k + 1]
    OBVIOUS
  <2>2. k + 1 \in 1 .. j /\ k + 1 \in 1 .. n /\ k + 1 \in 1 .. m /\ (k + 1) - 1 = k /\ s[k] = t[k]
    BY <2>1
  <2>3. s[k + 1] = s[(k + 1) - 1] + w[k + 1] * Power(Base)[(k + 1) - 1]
    BY <1>1, <2>2
  <2>4. t[k + 1] = t[(k + 1) - 1] + z[k + 1] * Power(Base)[(k + 1) - 1]
    BY <1>2, <2>2
  <2> QED
    BY <2>2, <2>3, <2>4
<1>5. T \in SUBSET Nat
  OBVIOUS
<1> HIDE DEF T
<1>6. \A k \in Nat : k \in T
  BY <1>3, <1>4, <1>5, Induct
<1> QED
  BY <1>6 DEF T, s, t

(* The words of a number.                                                  *)
Digits(x, n) == [k \in 1 .. n |-> (x \div Power(Base)[k - 1]) % Base]

(* Digits are words.                                                       *)
LEMMA DigitsWords ==
  ASSUME NEW n \in Nat, NEW x \in Nat
  PROVE  Digits(x, n) \in WordsOf(n)
<1>1. ASSUME NEW k \in 1 .. n PROVE (x \div Power(Base)[k - 1]) % Base \in Word
  <2> DEFINE p == Power(Base)[k - 1]
  <2>1. p \in Nat \ {0} /\ Base \in Nat \ {0}
    <3>1. k - 1 \in Nat
      OBVIOUS
    <3> QED
      BY <3>1, BasePowers
  <2> HIDE DEF p
  <2>2. x \div p \in Int
    BY <2>1
  <2> DEFINE y == x \div p
  <2> HIDE DEF y
  <2>3. y % Base \in 0 .. Base - 1
    BY <2>1, <2>2 DEF y
  <2> QED
    BY <2>3 DEF y, p, Word
<1> QED
  BY <1>1 DEF Digits, WordsOf

(* The first k digits of a number are what is left of it modulo the k-th   *)
(* power of the base.                                                      *)
LEMMA DigitsSums ==
  ASSUME NEW n \in Nat, NEW x \in Nat
  PROVE  \A k \in 0 .. n : Sums(Digits(x, n))[k] = x % Power(Base)[k]
<1> DEFINE w == Digits(x, n)
           s == Sums(w)
           p == Power(Base)
           T == {k \in Nat : k <= n => s[k] = x % p[k]}
<1>1. w \in WordsOf(n)
  BY DigitsWords
<1>2. \A k \in 1 .. n : w[k] = (x \div p[k - 1]) % Base
  BY DEF Digits
<1> HIDE DEF w
<1>3. s[0] = 0 /\ \A k \in 1 .. n : s[k] = s[k - 1] + w[k] * p[k - 1]
  BY <1>1, SumsDef
<1>4. Base \in Nat \ {0} /\ p[0] = 1 /\ \A k \in Nat : p[k + 1] = Base * p[k] /\ p[k] \in Nat \ {0}
  BY BasePowers
<1> HIDE DEF s, p
<1>5. 0 \in T
  BY <1>3, <1>4
<1>6. ASSUME NEW k \in T PROVE k + 1 \in T
  <2>1. SUFFICES ASSUME k + 1 <= n PROVE s[k + 1] = x % p[k + 1]
    OBVIOUS
  <2>2. k \in Nat /\ k + 1 \in 1 .. n /\ (k + 1) - 1 = k /\ s[k] = x % p[k]
    BY <2>1
  <2> DEFINE M == p[k]
             q == x \div M
             r == x % M
             h == q \div Base
             l == q % Base
  <2>3. M \in Nat \ {0} /\ p[k + 1] = Base * M
    BY <1>4, <2>2
  <2>4. s[k + 1] = r + l * M
    <3>1. s[k + 1] = s[(k + 1) - 1] + w[k + 1] * p[(k + 1) - 1]
      BY <1>3, <2>2
    <3>2. w[k + 1] = (x \div p[(k + 1) - 1]) % Base
      BY <1>2, <2>2
    <3> QED
      BY <2>2, <3>1, <3>2
  <2> HIDE DEF M
  <2>5. q \in Nat /\ r \in 0 .. M - 1 /\ M * q + r = x
    BY <2>3, Parts
  <2> HIDE DEF q, r
  <2>6. h \in Nat /\ l \in 0 .. Base - 1 /\ Base * h + l = q
    BY <1>4, <2>5, Parts
  <2> HIDE DEF h, l
  <2>7. M * l + r \in 0 .. Base * M - 1
    BY <1>4, <2>3, <2>5, <2>6, TwoDigits
  <2>8. M * (Base * h + l) = (Base * M) * h + M * l /\ M * l = l * M /\ l * M \in Nat /\ Base * M \in Nat \ {0}
    BY <1>4, <2>3, <2>6
  <2>9. (Base * M) * h \in Int
    BY <2>3, <2>6, <1>4
  <2>10. x = (Base * M) * h + (M * l + r)
    BY <2>5, <2>6, <2>8, <2>9
  <2>11. x % (Base * M) = M * l + r
    BY <2>6, <2>7, <2>8, <2>10, ModUnique
  <2> QED
    BY <2>3, <2>4, <2>5, <2>8, <2>11
<1>7. T \in SUBSET Nat
  OBVIOUS
<1> HIDE DEF T
<1>8. \A k \in Nat : k \in T
  BY <1>5, <1>6, <1>7, Induct
<1> QED
  BY <1>8 DEF T, s, p, w

(* A number that has its k words is what its words stand for.              *)
LEMMA DigitsValue ==
  ASSUME NEW n \in Nat, NEW x \in 0 .. Power(Base)[n] - 1
  PROVE  Value(Digits(x, n)) = x
<1>1. Digits(x, n) \in WordsOf(n) /\ Power(Base)[n] \in Nat \ {0} /\ x \in Nat
  BY DigitsWords, BasePowers
<1>2. Value(Digits(x, n)) = Sums(Digits(x, n))[n]
  BY <1>1, SumsDef
<1>3. Sums(Digits(x, n))[n] = x % Power(Base)[n]
  BY <1>1, DigitsSums
<1> DEFINE M == Power(Base)[n]
<1>4. M \in Nat \ {0} /\ x \in 0 .. M - 1
  BY <1>1
<1> HIDE DEF M
<1>5. x % M = x
  BY <1>4
<1> QED
  BY <1>2, <1>3, <1>5 DEF M

(* Each word can be told from the number.                                  *)
LEMMA WordsAreDigits ==
  ASSUME NEW n \in Nat, NEW w \in WordsOf(n)
  PROVE  \A k \in 1 .. n : w[k] = (Value(w) \div Power(Base)[k - 1]) % Base
<1> DEFINE s == Sums(w)
           p == Power(Base)
           T == {k \in Nat : k <= n => \E h \in Nat : s[n] = s[n - k] + p[n - k] * h}
<1>1. s[0] = 0 /\ s \in [0 .. n -> Nat] /\ Value(w) = s[n]
      /\ \A k \in 1 .. n : s[k] = s[k - 1] + w[k] * p[k - 1]
  BY SumsDef
<1>2. Base \in Nat \ {0} /\ p[0] = 1 /\ \A k \in Nat : p[k + 1] = Base * p[k] /\ p[k] \in Nat \ {0}
  BY BasePowers
<1>3. \A k \in 1 .. n : w[k] \in 0 .. Base - 1
  BY DEF WordsOf, Word
<1>4. \A k \in 0 .. n : s[k] \in 0 .. p[k] - 1
  BY SumsBound
<1> HIDE DEF s, p
<1>5. 0 \in T
  <2>1. n - 0 = n /\ n \in 0 .. n /\ p[n] \in Nat \ {0} /\ s[n] \in Nat
    <3>1. n - 0 = n /\ n \in 0 .. n
      OBVIOUS
    <3>2. p[n] \in Nat \ {0}
      BY <1>2
    <3>3. s[n] \in Nat
      BY <1>1, <3>1
    <3> QED
      BY <3>1, <3>2, <3>3
  <2>2. p[n] * 0 = 0
    BY <2>1
  <2>3. s[n] = s[n - 0] + p[n - 0] * 0
    BY <2>1, <2>2
  <2> QED
    BY <2>3
<1>6. ASSUME NEW k \in T PROVE k + 1 \in T
  <2>1. SUFFICES ASSUME k + 1 <= n PROVE \E h \in Nat : s[n] = s[n - (k + 1)] + p[n - (k + 1)] * h
    OBVIOUS
  <2>2. PICK h \in Nat : s[n] = s[n - k] + p[n - k] * h
    BY <2>1
  <2> DEFINE j == n - (k + 1)
  <2>3. j \in 0 .. n - 1 /\ n - k = j + 1 /\ j + 1 \in 1 .. n /\ (j + 1) - 1 = j
    BY <2>1
  <2> HIDE DEF j
  <2>4. s[j + 1] = s[j] + w[j + 1] * p[j] /\ s[j] \in Nat /\ w[j + 1] \in Nat
    <3>1. s[j + 1] = s[(j + 1) - 1] + w[j + 1] * p[(j + 1) - 1]
      BY <1>1, <2>3
    <3> QED
      BY <1>1, <1>3, <2>3, <3>1
  <2>5. p[j + 1] = Base * p[j] /\ p[j] \in Nat
    BY <1>2, <2>3
  <2>7. s[n] = s[j] + p[j] * (Base * h + w[j + 1]) /\ Base * h + w[j + 1] \in Nat
    <3> DEFINE x == p[j]
               y == w[j + 1]
    <3>1. x \in Nat /\ y \in Nat /\ s[n] = (s[j] + y * x) + (Base * x) * h
      BY <2>2, <2>3, <2>4, <2>5
    <3> HIDE DEF x, y
    <3>2. /\ (Base * x) * h + y * x = x * (Base * h + y)
          /\ Base * h + y \in Nat /\ (Base * x) * h \in Nat /\ y * x \in Nat
      <4>1. Base \in Nat /\ x \in Nat /\ y \in Nat /\ h \in Nat
        BY <1>2, <3>1
      <4> QED
        BY <4>1, Regroup, SMT
    <3>3. s[n] = s[j] + x * (Base * h + y) /\ Base * h + y \in Nat
      BY <2>4, <3>1, <3>2
    <3> QED
      BY <3>3 DEF x, y
  <2> QED
    BY <2>7 DEF j
<1>7. T \in SUBSET Nat
  OBVIOUS
<1> HIDE DEF T
<1>8. \A k \in Nat : k \in T
  BY <1>5, <1>6, <1>7, Induct
<1>9. ASSUME NEW k \in 1 .. n PROVE w[k] = (s[n] \div p[k - 1]) % Base
  <2>1. n - k \in T /\ n - k \in Nat /\ n - k <= n /\ n - (n - k) = k
    BY <1>8
  <2>2. PICK h \in Nat : s[n] = s[k] + p[k] * h
    BY <2>1 DEF T
  <2> DEFINE M == p[k - 1]
             r == s[k - 1]
             y == w[k]
  <2>3. M \in Nat \ {0} /\ p[k] = Base * M /\ r \in 0 .. M - 1 /\ y \in 0 .. Base - 1
    <3>1. k - 1 \in Nat /\ (k - 1) + 1 = k /\ k - 1 \in 0 .. n
      OBVIOUS
    <3> QED
      BY <1>2, <1>3, <1>4, <3>1
  <2>4. s[n] = (r + y * M) + (Base * M) * h
    BY <1>1, <2>2, <2>3
  <2> HIDE DEF M, r, y
  <2>5. (Base * M) * h + y * M = M * (Base * h + y) /\ Base * h + y \in Nat
        /\ (Base * M) * h \in Nat /\ y * M \in Nat /\ M * (Base * h + y) \in Nat
    <3>1. Base \in Nat /\ M \in Nat /\ y \in Nat /\ h \in Nat
      BY <1>2, <2>3
    <3> QED
      BY <3>1, Regroup, SMT
  <2>6. s[n] = M * (Base * h + y) + r
    BY <2>3, <2>4, <2>5
  <2>7. s[n] \div M = Base * h + y
    BY <2>3, <2>5, <2>6, DivUnique
  <2>8. (Base * h + y) % Base = y
    BY <1>2, <2>3, DivUnique
  <2> QED
    BY <2>7, <2>8 DEF M, y
<1> QED
  BY <1>1, <1>9 DEF s, p

(* Sequences of words are equal if they stand for the same number.         *)
LEMMA ValueInjective ==
  ASSUME NEW n \in Nat, NEW w \in WordsOf(n), NEW z \in WordsOf(n), Value(w) = Value(z)
  PROVE  w = z
<1>1. \A k \in 1 .. n : w[k] = z[k]
  BY WordsAreDigits
<1> QED
  BY <1>1 DEF WordsOf

-----------------------------------------------------------------------------
(* Sums and differences.                                                   *)

(* One turn of the loops of uECC_vli_add and uECC_vli_sub: the carry and   *)
(* the borrow are told from the result, and stay as they were when the     *)
(* result is the word it began with.                                       *)
CarryOut(x, y, before) ==
  LET sum == (x + y + before) % Base
  IN IF sum # x THEN Bit(sum < x) ELSE before

BorrowOut(x, y, before) ==
  LET diff == (x - y - before) % Base
  IN IF diff # x THEN Bit(diff > x) ELSE before

(* The carry that is told from the sum of two words is its carry.          *)
LEMMA WordSum ==
  ASSUME NEW x \in Word, NEW y \in Word, NEW c \in 0 .. 1
  PROVE  /\ CarryOut(x, y, c) \in 0 .. 1 /\ (x + y + c) % Base \in Word
         /\ ((x + y + c) % Base) + CarryOut(x, y, c) * Base = x + y + c
<1> DEFINE M == Base
           z == (x + y + c) % M
<1>1. M \in Nat /\ M >= 2 /\ x \in 0 .. M - 1 /\ y \in 0 .. M - 1 /\ x + y + c \in Int
  BY BaseEven DEF Word
<1> HIDE DEF M
<1>2. x + y + c < M => z = x + y + c
  BY <1>1
<1>3. x + y + c >= M => z = x + y + c - M
  <2>1. SUFFICES ASSUME x + y + c >= M PROVE z = x + y + c - M
    OBVIOUS
  <2>2. x + y + c - M \in 0 .. M - 1 /\ x + y + c = M * 1 + (x + y + c - M)
    BY <1>1, <2>1
  <2> QED
    BY <1>1, <2>2, ModUnique
<1> HIDE DEF z
<1>4. z \in 0 .. M - 1
  BY <1>1, <1>2, <1>3
<1> DEFINE d == IF z # x THEN Bit(z < x) ELSE c
<1>5. d = IF x + y + c < M THEN 0 ELSE 1
  BY <1>1, <1>2, <1>3 DEF Bit
<1>6. d \in 0 .. 1 /\ z + d * M = x + y + c
  BY <1>1, <1>2, <1>3, <1>5
<1> HIDE DEF d
<1>7. CarryOut(x, y, c) = d
  BY DEF CarryOut, d, z, M
<1> QED
  BY <1>4, <1>6, <1>7 DEF M, z, Word

(* So is the borrow.                                                       *)
LEMMA WordDifference ==
  ASSUME NEW x \in Word, NEW y \in Word, NEW c \in 0 .. 1
  PROVE  /\ BorrowOut(x, y, c) \in 0 .. 1 /\ (x - y - c) % Base \in Word
         /\ ((x - y - c) % Base) - BorrowOut(x, y, c) * Base = x - y - c
<1> DEFINE M == Base
           z == (x - y - c) % M
<1>1. M \in Nat /\ M >= 2 /\ x \in 0 .. M - 1 /\ y \in 0 .. M - 1 /\ x - y - c \in Int
  BY BaseEven DEF Word
<1> HIDE DEF M
<1>2. x - y - c >= 0 => z = x - y - c
  BY <1>1
<1>3. x - y - c < 0 => z = x - y - c + M
  <2>1. SUFFICES ASSUME x - y - c < 0 PROVE z = x - y - c + M
    OBVIOUS
  <2>2. x - y - c + M \in 0 .. M - 1 /\ M * (-1) = -M
    BY <1>1, <2>1
  <2>3. x - y - c = M * (-1) + (x - y - c + M) /\ -1 \in Int
    BY <1>1, <2>2
  <2> QED
    BY <1>1, <2>2, <2>3, ModUnique
<1> HIDE DEF z
<1>4. z \in 0 .. M - 1
  BY <1>1, <1>2, <1>3
<1> DEFINE d == IF z # x THEN Bit(z > x) ELSE c
<1>5. d = IF x - y - c >= 0 THEN 0 ELSE 1
  BY <1>1, <1>2, <1>3 DEF Bit
<1>6. d \in 0 .. 1 /\ z - d * M = x - y - c
  BY <1>1, <1>2, <1>3, <1>5
<1> HIDE DEF d
<1>7. BorrowOut(x, y, c) = d
  BY DEF BorrowOut, d, z, M
<1> QED
  BY <1>4, <1>6, <1>7 DEF M, z, Word

(* The equation of Carries.                                                *)
CarriesOf(l, r, n, f) ==
  f = [k \in 0 .. n |-> IF k = 0 THEN 0 ELSE CarryOut(l[k], r[k], f[k - 1])]

(* Carries has its equations, and a carry is a bit.                        *)
LEMMA CarriesDef ==
  ASSUME NEW n \in Nat, NEW l \in WordsOf(n), NEW r \in WordsOf(n)
  PROVE  /\ Carries(l, r) \in [0 .. n -> 0 .. 1] /\ Carries(l, r)[0] = 0
         /\ \A k \in 1 .. n : Carries(l, r)[k] = CarryOut(l[k], r[k], Carries(l, r)[k - 1])
<1> DEFINE S == 0 .. 1
           zero == 0
           step == [k \in 1 .. n |-> [s \in S |-> CarryOut(l[k], r[k], s)]]
<1>1. Len(l) = n
  BY Lengths DEF WordsOf
<1>2. \A k \in 1 .. n : l[k] \in Word /\ r[k] \in Word
  BY DEF WordsOf
<1>3. \A k \in 1 .. n : \A s \in S : CarryOut(l[k], r[k], s) \in S
  BY <1>2, WordSum
<1> HIDE DEF S
<1>4. step \in [1 .. n -> [S -> S]]
  BY <1>3
<1>5. zero \in S
  BY DEF S
<1>6. ASSUME NEW f \in [0 .. n -> S], Loops(f, n, zero, step)
      PROVE  CarriesOf(l, r, n, f)
  <2>1. ASSUME NEW k \in 1 .. n PROVE f[k] = CarryOut(l[k], r[k], f[k - 1])
    <3>1. f[k] = step[k][f[k - 1]] /\ f[k - 1] \in S
      BY <1>6 DEF Loops
    <3> QED
      BY <3>1
  <2>2. f[0] = 0
    BY <1>6 DEF Loops
  <2> QED
    BY <2>1, <2>2 DEF CarriesOf
<1> HIDE DEF step, zero
<1>7. \E f : CarriesOf(l, r, n, f)
  BY <1>4, <1>5, <1>6, LoopExists
<1>8. CarriesOf(l, r, n, CHOOSE f : CarriesOf(l, r, n, f))
  BY <1>7
<1> DEFINE c == Carries(l, r)
<1>9. c = CHOOSE f : CarriesOf(l, r, n, f)
  BY <1>1 DEF Carries, CarriesOf, CarryOut
<1> HIDE DEF c
<1>10. CarriesOf(l, r, n, c)
  BY <1>8, <1>9
<1>11. c = [k \in 0 .. n |-> c[k]] /\ c[0] = 0
       /\ \A k \in 1 .. n : c[k] = CarryOut(l[k], r[k], c[k - 1])
  <2>1. c = [k \in 0 .. n |-> c[k]] /\ c[0] = 0
    BY <1>10 DEF CarriesOf
  <2>2. ASSUME NEW k \in 1 .. n PROVE c[k] = CarryOut(l[k], r[k], c[k - 1])
    <3>1. k \in 0 .. n /\ k # 0
      OBVIOUS
    <3> QED
      BY <1>10, <3>1, Zenon DEF CarriesOf
  <2> QED
    BY <2>1, <2>2
<1>12. c[0] \in S /\ \A k \in 1 .. n : c[k - 1] \in S => c[k] \in S
  BY <1>3, <1>5, <1>11 DEF zero
<1>13. c \in [0 .. n -> S]
  BY <1>11, <1>12, LoopTyped
<1> QED
  BY <1>11, <1>13 DEF c, S

(* The equation of Borrows.                                                *)
BorrowsOf(l, r, n, f) ==
  f = [k \in 0 .. n |-> IF k = 0 THEN 0 ELSE BorrowOut(l[k], r[k], f[k - 1])]

(* Borrows has its equations, and a borrow is a bit.                       *)
LEMMA BorrowsDef ==
  ASSUME NEW n \in Nat, NEW l \in WordsOf(n), NEW r \in WordsOf(n)
  PROVE  /\ Borrows(l, r) \in [0 .. n -> 0 .. 1] /\ Borrows(l, r)[0] = 0
         /\ \A k \in 1 .. n : Borrows(l, r)[k] = BorrowOut(l[k], r[k], Borrows(l, r)[k - 1])
<1> DEFINE S == 0 .. 1
           zero == 0
           step == [k \in 1 .. n |-> [s \in S |-> BorrowOut(l[k], r[k], s)]]
<1>1. Len(l) = n
  BY Lengths DEF WordsOf
<1>2. \A k \in 1 .. n : l[k] \in Word /\ r[k] \in Word
  BY DEF WordsOf
<1>3. \A k \in 1 .. n : \A s \in S : BorrowOut(l[k], r[k], s) \in S
  BY <1>2, WordDifference
<1> HIDE DEF S
<1>4. step \in [1 .. n -> [S -> S]]
  BY <1>3
<1>5. zero \in S
  BY DEF S
<1>6. ASSUME NEW f \in [0 .. n -> S], Loops(f, n, zero, step)
      PROVE  BorrowsOf(l, r, n, f)
  <2>1. ASSUME NEW k \in 1 .. n PROVE f[k] = BorrowOut(l[k], r[k], f[k - 1])
    <3>1. f[k] = step[k][f[k - 1]] /\ f[k - 1] \in S
      BY <1>6 DEF Loops
    <3> QED
      BY <3>1
  <2>2. f[0] = 0
    BY <1>6 DEF Loops
  <2> QED
    BY <2>1, <2>2 DEF BorrowsOf
<1> HIDE DEF step, zero
<1>7. \E f : BorrowsOf(l, r, n, f)
  BY <1>4, <1>5, <1>6, LoopExists
<1>8. BorrowsOf(l, r, n, CHOOSE f : BorrowsOf(l, r, n, f))
  BY <1>7
<1> DEFINE c == Borrows(l, r)
<1>9. c = CHOOSE f : BorrowsOf(l, r, n, f)
  BY <1>1 DEF Borrows, BorrowsOf, BorrowOut
<1> HIDE DEF c
<1>10. BorrowsOf(l, r, n, c)
  BY <1>8, <1>9
<1>11. c = [k \in 0 .. n |-> c[k]] /\ c[0] = 0
       /\ \A k \in 1 .. n : c[k] = BorrowOut(l[k], r[k], c[k - 1])
  BY <1>10 DEF BorrowsOf
<1>12. c[0] \in S /\ \A k \in 1 .. n : c[k - 1] \in S => c[k] \in S
  BY <1>3, <1>5, <1>11 DEF zero
<1>13. c \in [0 .. n -> S]
  BY <1>11, <1>12, LoopTyped
<1> QED
  BY <1>11, <1>13 DEF c, S

(* One more word: if s and a carry are the sum of x and y, with p for the  *)
(* place of the next word, then with this word they are as well.           *)
WordAdded(s, x, y, c, p, w, l, r, d, B) ==
  s + c * p = x + y /\ w + d * B = l + r + c
    => (s + w * p) + d * (B * p) = (x + l * p) + (y + r * p)

(* So it is, for all integers.                                             *)
LEMMA OneMoreWord ==
  \A s, x, y, c, p, w, l, r, d, B \in Int : WordAdded(s, x, y, c, p, w, l, r, d, B)
<1> SUFFICES ASSUME NEW s \in Int, NEW x \in Int, NEW y \in Int, NEW c \in Int,
                    NEW p \in Int, NEW w \in Int, NEW l \in Int, NEW r \in Int,
                    NEW d \in Int, NEW B \in Int,
                    s + c * p = x + y, w + d * B = l + r + c
             PROVE  (s + w * p) + d * (B * p) = (x + l * p) + (y + r * p)
  BY DEF WordAdded
<1>1. d * B \in Int /\ w * p \in Int /\ l * p \in Int /\ r * p \in Int /\ c * p \in Int
  OBVIOUS
<1>2. (w + d * B) * p = w * p + (d * B) * p
  BY <1>1
<1>3. (d * B) * p = d * (B * p) /\ (d * B) * p \in Int
  BY <1>1
<1>4. (l + r + c) * p = l * p + r * p + c * p
  OBVIOUS
<1> QED
  BY <1>1, <1>2, <1>3, <1>4

(* uECC_vli_add: the words and the carry it returns are the sum.           *)
LEMMA AddExact ==
  ASSUME NEW n \in Nat, NEW l \in WordsOf(n), NEW r \in WordsOf(n)
  PROVE  /\ Add(l, r).words \in WordsOf(n) /\ Add(l, r).carry \in 0 .. 1
         /\ Value(Add(l, r).words) + Add(l, r).carry * Power(Base)[n] = Value(l) + Value(r)
<1> DEFINE c == Carries(l, r)
           w == [k \in 1 .. n |-> (l[k] + r[k] + c[k - 1]) % Base]
           p == Power(Base)
<1>1. c \in [0 .. n -> 0 .. 1] /\ c[0] = 0
      /\ \A k \in 1 .. n : c[k] = CarryOut(l[k], r[k], c[k - 1])
  BY CarriesDef
<1>2. Add(l, r) = [words |-> w, carry |-> c[n]]
  <2>1. Len(l) = n
    BY Lengths DEF WordsOf
  <2> QED
    BY <2>1 DEF Add
<1> HIDE DEF c
<1>3. ASSUME NEW k \in 1 .. n
      PROVE  w[k] \in Word /\ w[k] + c[k] * Base = l[k] + r[k] + c[k - 1]
  <2>1. l[k] \in Word /\ r[k] \in Word /\ c[k - 1] \in 0 .. 1
    BY <1>1 DEF WordsOf
  <2>2. c[k] = CarryOut(l[k], r[k], c[k - 1]) /\ w[k] = (l[k] + r[k] + c[k - 1]) % Base
    BY <1>1
  <2> QED
    BY <2>1, <2>2, WordSum
<1>4. w \in WordsOf(n)
  BY <1>3 DEF WordsOf
<1> HIDE DEF w
<1> DEFINE s == Sums(w)
           x == Sums(l)
           y == Sums(r)
           T == {k \in Nat : k <= n => s[k] + c[k] * p[k] = x[k] + y[k]}
<1>5. /\ s \in [0 .. n -> Nat] /\ s[0] = 0 /\ Value(w) = s[n]
      /\ \A k \in 1 .. n : s[k] = s[k - 1] + w[k] * p[k - 1]
  BY <1>4, SumsDef
<1>6. /\ x \in [0 .. n -> Nat] /\ x[0] = 0 /\ Value(l) = x[n]
      /\ \A k \in 1 .. n : x[k] = x[k - 1] + l[k] * p[k - 1]
  BY SumsDef
<1>7. /\ y \in [0 .. n -> Nat] /\ y[0] = 0 /\ Value(r) = y[n]
      /\ \A k \in 1 .. n : y[k] = y[k - 1] + r[k] * p[k - 1]
  BY SumsDef
<1>8. Base \in Nat /\ p[0] = 1 /\ \A k \in Nat : p[k + 1] = Base * p[k] /\ p[k] \in Nat
  BY BasePowers
<1> HIDE DEF s, x, y, p
<1>9. 0 \in T
  <2>1. s[0] = 0 /\ x[0] = 0 /\ y[0] = 0 /\ c[0] = 0 /\ p[0] = 1
    BY <1>1, <1>5, <1>6, <1>7, <1>8
  <2> QED
    BY <2>1
<1>10. ASSUME NEW k \in T PROVE k + 1 \in T
  <2>1. SUFFICES ASSUME k + 1 <= n PROVE s[k + 1] + c[k + 1] * p[k + 1] = x[k + 1] + y[k + 1]
    OBVIOUS
  <2>2. k \in 0 .. n /\ k + 1 \in 1 .. n /\ (k + 1) - 1 = k /\ s[k] + c[k] * p[k] = x[k] + y[k]
    BY <2>1
  <2>3. w[k + 1] + c[k + 1] * Base = l[k + 1] + r[k + 1] + c[(k + 1) - 1]
    BY <1>3, <2>2
  <2>4. s[k + 1] = s[(k + 1) - 1] + w[k + 1] * p[(k + 1) - 1]
    BY <1>5, <2>2
  <2>5. x[k + 1] = x[(k + 1) - 1] + l[k + 1] * p[(k + 1) - 1]
    BY <1>6, <2>2
  <2>6. y[k + 1] = y[(k + 1) - 1] + r[k + 1] * p[(k + 1) - 1]
    BY <1>7, <2>2
  <2>7. p[k + 1] = Base * p[k] /\ p[k] \in Int
    BY <1>8, <2>2
  <2>8. w[k + 1] \in Int /\ l[k + 1] \in Int /\ r[k + 1] \in Int /\ Base \in Int
    BY <1>4, <1>8, <2>2 DEF WordsOf, Word
  <2>9. c[k + 1] \in Int /\ c[k] \in Int
    BY <1>1, <2>2
  <2>10. s[k] \in Int /\ x[k] \in Int /\ y[k] \in Int
    BY <1>5, <1>6, <1>7, <2>2
  <2>11. WordAdded(s[k], x[k], y[k], c[k], p[k], w[k + 1], l[k + 1], r[k + 1], c[k + 1], Base)
    BY <2>7, <2>8, <2>9, <2>10, OneMoreWord
  <2>12. w[k + 1] + c[k + 1] * Base = l[k + 1] + r[k + 1] + c[k]
    BY <2>2, <2>3
  <2>13. (s[k] + w[k + 1] * p[k]) + c[k + 1] * (Base * p[k])
           = (x[k] + l[k + 1] * p[k]) + (y[k] + r[k + 1] * p[k])
    BY <2>2, <2>11, <2>12 DEF WordAdded
  <2> QED
    BY <2>2, <2>4, <2>5, <2>6, <2>7, <2>13
<1>11. T \in SUBSET Nat
  OBVIOUS
<1> HIDE DEF T
<1>12. T = Nat
  BY <1>9, <1>10, <1>11, Induct
<1>13. s[n] + c[n] * p[n] = x[n] + y[n]
  BY <1>12 DEF T
<1>14. c[n] \in 0 .. 1
  BY <1>1
<1> QED
  BY <1>2, <1>4, <1>5, <1>6, <1>7, <1>13, <1>14 DEF p

(* uECC_vli_sub: the words less the borrow it returns are the difference.  *)
LEMMA SubExact ==
  ASSUME NEW n \in Nat, NEW l \in WordsOf(n), NEW r \in WordsOf(n)
  PROVE  /\ Sub(l, r).words \in WordsOf(n) /\ Sub(l, r).carry \in 0 .. 1
         /\ Value(Sub(l, r).words) - Sub(l, r).carry * Power(Base)[n] = Value(l) - Value(r)
<1> DEFINE c == Borrows(l, r)
           w == [k \in 1 .. n |-> (l[k] - r[k] - c[k - 1]) % Base]
           p == Power(Base)
<1>1. c \in [0 .. n -> 0 .. 1] /\ c[0] = 0
      /\ \A k \in 1 .. n : c[k] = BorrowOut(l[k], r[k], c[k - 1])
  BY BorrowsDef
<1>2. Sub(l, r) = [words |-> w, carry |-> c[n]]
  <2>1. Len(l) = n
    BY Lengths DEF WordsOf
  <2> QED
    BY <2>1 DEF Sub
<1> HIDE DEF c
<1>3. ASSUME NEW k \in 1 .. n
      PROVE  w[k] \in Word /\ w[k] - c[k] * Base = l[k] - r[k] - c[k - 1]
  <2>1. l[k] \in Word /\ r[k] \in Word /\ c[k - 1] \in 0 .. 1
    BY <1>1 DEF WordsOf
  <2>2. c[k] = BorrowOut(l[k], r[k], c[k - 1]) /\ w[k] = (l[k] - r[k] - c[k - 1]) % Base
    BY <1>1
  <2> QED
    BY <2>1, <2>2, WordDifference
<1>4. w \in WordsOf(n)
  BY <1>3 DEF WordsOf
<1> HIDE DEF w
<1> DEFINE s == Sums(w)
           x == Sums(l)
           y == Sums(r)
           T == {k \in Nat : k <= n => s[k] + y[k] = x[k] + c[k] * p[k]}
<1>5. /\ s \in [0 .. n -> Nat] /\ s[0] = 0 /\ Value(w) = s[n]
      /\ \A k \in 1 .. n : s[k] = s[k - 1] + w[k] * p[k - 1]
  BY <1>4, SumsDef
<1>6. /\ x \in [0 .. n -> Nat] /\ x[0] = 0 /\ Value(l) = x[n]
      /\ \A k \in 1 .. n : x[k] = x[k - 1] + l[k] * p[k - 1]
  BY SumsDef
<1>7. /\ y \in [0 .. n -> Nat] /\ y[0] = 0 /\ Value(r) = y[n]
      /\ \A k \in 1 .. n : y[k] = y[k - 1] + r[k] * p[k - 1]
  BY SumsDef
<1>8. Base \in Nat /\ p[0] = 1 /\ \A k \in Nat : p[k + 1] = Base * p[k] /\ p[k] \in Nat
  BY BasePowers
<1> HIDE DEF s, x, y, p
<1>9. 0 \in T
  <2>1. s[0] = 0 /\ x[0] = 0 /\ y[0] = 0 /\ c[0] = 0 /\ p[0] = 1
    BY <1>1, <1>5, <1>6, <1>7, <1>8
  <2> QED
    BY <2>1
<1>10. ASSUME NEW k \in T PROVE k + 1 \in T
  <2>1. SUFFICES ASSUME k + 1 <= n PROVE s[k + 1] + y[k + 1] = x[k + 1] + c[k + 1] * p[k + 1]
    OBVIOUS
  <2>2. k \in 0 .. n /\ k + 1 \in 1 .. n /\ (k + 1) - 1 = k /\ s[k] + y[k] = x[k] + c[k] * p[k]
    BY <2>1
  <2>3. w[k + 1] - c[k + 1] * Base = l[k + 1] - r[k + 1] - c[(k + 1) - 1]
    BY <1>3, <2>2
  <2>4. s[k + 1] = s[(k + 1) - 1] + w[k + 1] * p[(k + 1) - 1]
    BY <1>5, <2>2
  <2>5. x[k + 1] = x[(k + 1) - 1] + l[k + 1] * p[(k + 1) - 1]
    BY <1>6, <2>2
  <2>6. y[k + 1] = y[(k + 1) - 1] + r[k + 1] * p[(k + 1) - 1]
    BY <1>7, <2>2
  <2>7. p[k + 1] = Base * p[k] /\ p[k] \in Int
    BY <1>8, <2>2
  <2>8. w[k + 1] \in Int /\ l[k + 1] \in Int /\ r[k + 1] \in Int /\ Base \in Int
    BY <1>4, <1>8, <2>2 DEF WordsOf, Word
  <2>9. c[k + 1] \in Int /\ c[k] \in Int
    BY <1>1, <2>2
  <2>10. s[k] \in Int /\ x[k] \in Int /\ y[k] \in Int
    BY <1>5, <1>6, <1>7, <2>2
  <2>11. l[k + 1] + c[k + 1] * Base = w[k + 1] + r[k + 1] + c[k]
    BY <2>2, <2>3, <2>8, <2>9
  <2>12. WordAdded(x[k], s[k], y[k], c[k], p[k], l[k + 1], w[k + 1], r[k + 1], c[k + 1], Base)
    BY <2>7, <2>8, <2>9, <2>10, OneMoreWord
  <2>13. (x[k] + l[k + 1] * p[k]) + c[k + 1] * (Base * p[k])
           = (s[k] + w[k + 1] * p[k]) + (y[k] + r[k + 1] * p[k])
    BY <2>2, <2>11, <2>12 DEF WordAdded
  <2> QED
    BY <2>2, <2>4, <2>5, <2>6, <2>7, <2>13
<1>11. T \in SUBSET Nat
  OBVIOUS
<1> HIDE DEF T
<1>12. T = Nat
  BY <1>9, <1>10, <1>11, Induct
<1>13. s[n] + y[n] = x[n] + c[n] * p[n]
  BY <1>12 DEF T
<1>14. c[n] \in 0 .. 1 /\ p[n] \in Nat /\ s[n] \in Nat /\ x[n] \in Nat /\ y[n] \in Nat
  BY <1>1, <1>5, <1>6, <1>7, <1>8
<1>15. s[n] - c[n] * p[n] = x[n] - y[n]
  BY <1>13, <1>14
<1> QED
  BY <1>2, <1>4, <1>5, <1>6, <1>7, <1>14, <1>15 DEF p

(* Shifted right by less than a word, D standing for the power of two.     *)
ShiftedBy(w, D, n) ==
  [k \in 1 .. n |-> w[k] \div D + (IF k < n THEN (w[k + 1] % D) * (Base \div D) ELSE 0)]

(* One more word, with the bits e that come into it and those that go out. *)
WordShifted(D, H, z, s, x, e, f, p, q, w) ==
  D * z + x = s + e * p /\ w = D * q + e
    => D * (z + (q + f * H) * p) + x = (s + w * p) + f * ((D * H) * p)

(* So it is, for all integers.                                             *)
LEMMA OneWordShifted ==
  \A D, H, z, s, x, e, f, p, q, w \in Int : WordShifted(D, H, z, s, x, e, f, p, q, w)
<1> SUFFICES ASSUME NEW D \in Int, NEW H \in Int, NEW z \in Int, NEW s \in Int,
                    NEW x \in Int, NEW e \in Int, NEW f \in Int, NEW p \in Int,
                    NEW q \in Int, NEW w \in Int,
                    D * z + x = s + e * p, w = D * q + e
             PROVE  D * (z + (q + f * H) * p) + x = (s + w * p) + f * ((D * H) * p)
  BY DEF WordShifted
<1>1. /\ D * q \in Int /\ f * H \in Int /\ D * z \in Int /\ e * p \in Int /\ q * p \in Int
      /\ D * H \in Int
  OBVIOUS
<1> DEFINE g == f * H
<1>2. g \in Int
  BY <1>1
<1>3. D * g = f * (D * H)
  OBVIOUS
<1>4. (D * g) * p = f * ((D * H) * p)
  <2> DEFINE m == D * H
  <2>1. m \in Int /\ D * g = f * m
    BY <1>1, <1>3
  <2> HIDE DEF m
  <2>2. (f * m) * p = f * (m * p)
    BY <2>1
  <2> QED
    BY <2>1, <2>2 DEF m
<1> HIDE DEF g
<1>5. (q + g) * p = q * p + g * p /\ g * p \in Int
  BY <1>2
<1>6. D * (z + (q * p + g * p)) = D * z + D * (q * p) + D * (g * p)
      /\ D * (q * p) \in Int /\ D * (g * p) \in Int
  BY <1>1, <1>5
<1>7. D * (g * p) = (D * g) * p /\ D * (q * p) = (D * q) * p
  BY <1>2
<1>8. (D * q + e) * p = (D * q) * p + e * p
  BY <1>1
<1>9. D * (z + (q + g) * p) + x = (s + w * p) + (D * g) * p
  BY <1>1, <1>5, <1>6, <1>7, <1>8
<1> QED
  BY <1>4, <1>9 DEF g

(* A shift is a quotient, and the bits that go out at the bottom are the   *)
(* remainder.                                                              *)
LEMMA ShiftExact ==
  ASSUME NEW n \in Nat \ {0}, NEW w \in WordsOf(n), NEW D \in Nat \ {0}, NEW H \in Nat \ {0},
         Base = D * H
  PROVE  /\ ShiftedBy(w, D, n) \in WordsOf(n)
         /\ Value(ShiftedBy(w, D, n)) = Value(w) \div D
         /\ Value(w) % D = w[1] % D
<1> DEFINE z == ShiftedBy(w, D, n)
           e == [k \in 0 .. n |-> IF k < n THEN w[k + 1] % D ELSE 0]
           p == Power(Base)
<1>1. Base \div D = H
  <2>1. H * D = D * H
    OBVIOUS
  <2>2. D * H + 0 = D * H
    OBVIOUS
  <2>3. (D * H + 0) \div D = H
    BY 0 \in 0 .. D - 1, DivUnique
  <2> QED
    BY <2>2, <2>3
<1>2. ASSUME NEW k \in 1 .. n
      PROVE  /\ w[k] \div D \in 0 .. H - 1 /\ w[k] % D \in 0 .. D - 1
             /\ w[k] = D * (w[k] \div D) + (w[k] % D) /\ w[k] \in Nat
  <2> DEFINE y == w[k]
  <2>1. y \in 0 .. D * H - 1
    BY BaseEven DEF WordsOf, Word
  <2> HIDE DEF y
  <2> DEFINE q == y \div D
             r == y % D
  <2>2. q \in Nat /\ r \in 0 .. D - 1 /\ D * q + r = y
    <3>1. D * H \in Nat
      OBVIOUS
    <3>2. y \in Nat
      BY <2>1, <3>1
    <3> QED
      BY <3>2, Parts
  <2> HIDE DEF q, r
  <2>3. q < H
    <3>1. SUFFICES ASSUME q >= H PROVE FALSE
      BY <2>2
    <3>2. D * q >= D * H /\ D * q \in Nat /\ D * H \in Nat
      BY <2>2, <3>1, TimesMonotone
    <3> QED
      BY <2>1, <2>2, <3>2
  <2> QED
    BY <2>1, <2>2, <2>3 DEF q, r, y
<1>3. \A k \in 0 .. n : e[k] \in 0 .. D - 1
  <2>1. ASSUME NEW k \in 0 .. n PROVE e[k] \in 0 .. D - 1
    <3>1. k < n => k + 1 \in 1 .. n
      OBVIOUS
    <3> QED
      BY <1>2, <3>1
  <2> QED
    BY <2>1
<1>4. ASSUME NEW k \in 1 .. n
      PROVE  z[k] = w[k] \div D + e[k] * H /\ e[k - 1] = w[k] % D
  <2>1. k - 1 \in 0 .. n /\ k - 1 < n /\ (k - 1) + 1 = k /\ k \in 0 .. n
    OBVIOUS
  <2>2. e[k - 1] = w[k] % D
    BY <2>1
  <2>3. z[k] = w[k] \div D + (IF k < n THEN (w[k + 1] % D) * H ELSE 0)
    BY <1>1 DEF ShiftedBy
  <2>4. CASE k < n
    BY <2>1, <2>2, <2>3, <2>4
  <2>5. CASE ~(k < n)
    <3>1. e[k] = 0 /\ 0 * H = 0
      BY <2>1, <2>5
    <3> QED
      BY <2>2, <2>3, <2>5, <3>1
  <2> QED
    BY <2>4, <2>5
<1>5. e[n] = 0 /\ e[0] = w[1] % D
  OBVIOUS
<1> HIDE DEF e
<1>6. ASSUME NEW k \in 1 .. n PROVE z[k] \in Word
  <2> DEFINE q == w[k] \div D
             f == e[k]
  <2>1. q \in 0 .. H - 1 /\ f \in 0 .. D - 1 /\ z[k] = q + f * H
    BY <1>2, <1>3, <1>4
  <2> HIDE DEF q, f
  <2>2. H * f + q \in 0 .. D * H - 1
    BY <2>1, TwoDigits
  <2>3. H * f = f * H /\ f * H \in Int
    BY <2>1
  <2> QED
    BY <2>1, <2>2, <2>3 DEF Word
<1>7. z \in WordsOf(n)
  BY <1>6 DEF ShiftedBy, WordsOf
<1> HIDE DEF z
<1> DEFINE s == Sums(w)
           t == Sums(z)
           T == {k \in Nat : k <= n => D * t[k] + e[0] = s[k] + e[k] * p[k]}
<1>8. /\ s \in [0 .. n -> Nat] /\ s[0] = 0 /\ Value(w) = s[n] /\ Value(w) \in Nat
      /\ \A k \in 1 .. n : s[k] = s[k - 1] + w[k] * p[k - 1]
  BY SumsDef
<1>9. /\ t \in [0 .. n -> Nat] /\ t[0] = 0 /\ Value(z) = t[n] /\ Value(z) \in Nat
      /\ \A k \in 1 .. n : t[k] = t[k - 1] + z[k] * p[k - 1]
  BY <1>7, SumsDef
<1>10. p[0] = 1 /\ \A k \in Nat : p[k + 1] = Base * p[k] /\ p[k] \in Nat
  BY BasePowers
<1> HIDE DEF s, t, p
<1>11. 0 \in T
  <2>0. e[0] \in 0 .. D - 1
    BY <1>3
  <2>1. s[0] = 0 /\ t[0] = 0 /\ p[0] = 1 /\ e[0] \in Int
    <3>1. e[0] \in Int
      BY <2>0
    <3>2. s[0] = 0 /\ t[0] = 0
      BY <1>8, <1>9
    <3>3. p[0] = 1
      BY <1>10
    <3> QED
      BY <3>1, <3>2, <3>3
  <2>2. D * 0 = 0 /\ e[0] * 1 = e[0]
    BY <2>1
  <2> QED
    BY <2>1, <2>2
<1>12. ASSUME NEW k \in T PROVE k + 1 \in T
  <2>1. SUFFICES ASSUME k + 1 <= n PROVE D * t[k + 1] + e[0] = s[k + 1] + e[k + 1] * p[k + 1]
    OBVIOUS
  <2>2. k \in 0 .. n /\ k + 1 \in 1 .. n /\ k + 1 \in 0 .. n /\ (k + 1) - 1 = k
        /\ D * t[k] + e[0] = s[k] + e[k] * p[k]
    BY <2>1
  <2>3. s[k + 1] = s[(k + 1) - 1] + w[k + 1] * p[(k + 1) - 1]
    BY <1>8, <2>2
  <2>4. t[k + 1] = t[(k + 1) - 1] + z[k + 1] * p[(k + 1) - 1]
    BY <1>9, <2>2
  <2>5. p[k + 1] = (D * H) * p[k] /\ p[k] \in Int
    BY <1>10, <2>2
  <2> DEFINE q == w[k + 1] \div D
  <2>6. z[k + 1] = q + e[k + 1] * H /\ w[k + 1] = D * q + e[k] /\ q \in Int /\ w[k + 1] \in Int
    <3>1. z[k + 1] = q + e[k + 1] * H /\ e[(k + 1) - 1] = w[k + 1] % D
      BY <1>4, <2>2
    <3>2. w[k + 1] = D * q + (w[k + 1] % D) /\ q \in 0 .. H - 1 /\ w[k + 1] \in Nat
      BY <1>2, <2>2
    <3> QED
      BY <2>2, <3>1, <3>2
  <2> HIDE DEF q
  <2>7. /\ e[0] \in Int /\ e[k] \in Int /\ e[k + 1] \in Int
        /\ s[k] \in Int /\ t[k] \in Int /\ D \in Int /\ H \in Int
    <3>1. e[0] \in 0 .. D - 1 /\ e[k] \in 0 .. D - 1 /\ e[k + 1] \in 0 .. D - 1
      BY <1>3, <2>2
    <3>2. s[k] \in Nat
      BY <1>8, <2>2
    <3>3. t[k] \in Nat
      BY <1>9, <2>2
    <3> QED
      BY <3>1, <3>2, <3>3
  <2>8. WordShifted(D, H, t[k], s[k], e[0], e[k], e[k + 1], p[k], q, w[k + 1])
    BY <2>5, <2>6, <2>7, OneWordShifted
  <2>9. D * (t[k] + (q + e[k + 1] * H) * p[k]) + e[0]
          = (s[k] + w[k + 1] * p[k]) + e[k + 1] * ((D * H) * p[k])
    BY <2>2, <2>6, <2>8 DEF WordShifted
  <2> QED
    BY <2>2, <2>3, <2>4, <2>5, <2>6, <2>9
<1>13. T \in SUBSET Nat
  OBVIOUS
<1> HIDE DEF T
<1>14. T = Nat
  BY <1>11, <1>12, <1>13, Induct
<1>15. D * t[n] + e[0] = s[n]
  <2>1. D * t[n] + e[0] = s[n] + e[n] * p[n]
    BY <1>14 DEF T
  <2>2. p[n] \in Nat /\ 0 * p[n] = 0 /\ s[n] \in Nat
    <3>1. p[n] \in Nat /\ n \in 0 .. n
      BY <1>10
    <3>2. s[n] \in Nat
      BY <1>8, <3>1
    <3>3. 0 * p[n] = 0
      BY <3>1
    <3> QED
      BY <3>1, <3>2, <3>3
  <2> QED
    BY <1>5, <2>1, <2>2
<1>16. e[0] \in 0 .. D - 1 /\ t[n] \in Nat
  BY <1>3, <1>9
<1>17. s[n] \div D = t[n] /\ s[n] % D = e[0]
  <2> DEFINE x == s[n]  y == t[n]  r == e[0]
  <2>1. x = D * y + r /\ y \in Nat /\ r \in 0 .. D - 1
    BY <1>15, <1>16
  <2> HIDE DEF x, y, r
  <2>2. x \div D = y /\ x % D = r
    BY <2>1, DivUnique
  <2> QED
    BY <2>2 DEF x, y, r
<1> QED
  BY <1>5, <1>7, <1>8, <1>9, <1>17 DEF z

(* uECC_vli_rshift1 halves, and the lowest bit tells an even number.       *)
LEMMA Rshift1Exact ==
  ASSUME NEW n \in Nat \ {0}, NEW w \in WordsOf(n)
  PROVE  /\ Rshift1(w) \in WordsOf(n) /\ Value(Rshift1(w)) = Value(w) \div 2
         /\ Even(w) <=> Value(w) % 2 = 0
<1>1. Base = 2 * (Base \div 2) /\ Base \div 2 \in Nat \ {0} /\ 2 \in Nat \ {0}
  BY BaseEven
<1>2. Len(w) = n
  BY Lengths DEF WordsOf
<1>3. Rshift1(w) = ShiftedBy(w, 2, n)
  BY <1>2 DEF Rshift1, ShiftedBy
<1>4. /\ ShiftedBy(w, 2, n) \in WordsOf(n)
      /\ Value(ShiftedBy(w, 2, n)) = Value(w) \div 2
      /\ Value(w) % 2 = w[1] % 2
  BY <1>1, ShiftExact
<1> QED
  BY <1>3, <1>4 DEF Even

-----------------------------------------------------------------------------
(* Comparisons.                                                            *)

(* uECC_vli_isZero, which ors all words.                                   *)
LEMMA ZeroValue ==
  ASSUME NEW n \in Nat, NEW w \in WordsOf(n)
  PROVE  IsZero(w) <=> Value(w) = 0
<1> DEFINE z == [k \in 1 .. n |-> 0]
<1>1. z \in WordsOf(n)
  BY BaseEven DEF WordsOf, Word
<1>2. \A k \in 1 .. n : z[k] = 0
  OBVIOUS
<1> HIDE DEF z
<1> DEFINE s == Sums(z)
           T == {k \in Nat : k <= n => s[k] = 0}
<1>3. s[0] = 0 /\ Value(z) = s[n] /\ \A k \in 1 .. n : s[k] = s[k - 1] + z[k] * Power(Base)[k - 1]
  BY <1>1, SumsDef
<1> HIDE DEF s
<1>4. 0 \in T
  BY <1>3
<1>5. ASSUME NEW k \in T PROVE k + 1 \in T
  <2>1. SUFFICES ASSUME k + 1 <= n PROVE s[k + 1] = 0
    OBVIOUS
  <2>2. k + 1 \in 1 .. n /\ (k + 1) - 1 = k /\ s[k] = 0 /\ k \in Nat
    BY <2>1
  <2>3. s[k + 1] = s[(k + 1) - 1] + z[k + 1] * Power(Base)[(k + 1) - 1]
    BY <1>3, <2>2
  <2>4. z[k + 1] = 0 /\ Power(Base)[k] \in Nat
    BY <1>2, <2>2, BasePowers
  <2>5. 0 * Power(Base)[k] = 0
    BY <2>4
  <2> QED
    BY <2>2, <2>3, <2>4, <2>5
<1>6. T \in SUBSET Nat
  OBVIOUS
<1> HIDE DEF T
<1>7. T = Nat
  BY <1>4, <1>5, <1>6, Induct
<1>8. Value(z) = 0
  BY <1>3, <1>7 DEF T
<1>9. Value(w) = 0 => w = z
  BY <1>1, <1>8, ValueInjective
<1>10. DOMAIN w = 1 .. n /\ w = [k \in 1 .. n |-> w[k]]
  BY DEF WordsOf
<1>11. IsZero(w) => w = z
  BY <1>10 DEF IsZero, z
<1>12. w = z => IsZero(w)
  BY <1>2, <1>10 DEF IsZero
<1> QED
  BY <1>8, <1>9, <1>11, <1>12

(* Of two sequences the one with the greater word is the greater, if all   *)
(* words above are the same.                                               *)
LEMMA TopWordDecides ==
  ASSUME NEW n \in Nat, NEW l \in WordsOf(n), NEW r \in WordsOf(n), NEW j \in 1 .. n,
         l[j] > r[j], \A k \in j + 1 .. n : l[k] = r[k]
  PROVE  Value(l) > Value(r)
<1> DEFINE x == Sums(l)
           y == Sums(r)
           p == Power(Base)
           T == {k \in Nat : j + k <= n => x[j + k] > y[j + k]}
<1>1. /\ x \in [0 .. n -> Nat] /\ Value(l) = x[n]
      /\ \A k \in 1 .. n : x[k] = x[k - 1] + l[k] * p[k - 1]
  BY SumsDef
<1>2. /\ y \in [0 .. n -> Nat] /\ Value(r) = y[n]
      /\ \A k \in 1 .. n : y[k] = y[k - 1] + r[k] * p[k - 1]
  BY SumsDef
<1>3. \A k \in 0 .. n : y[k] \in 0 .. p[k] - 1
  BY SumsBound
<1>4. \A k \in Nat : p[k] \in Nat \ {0}
  BY BasePowers
<1>5. \A k \in 1 .. n : l[k] \in Nat /\ r[k] \in Nat
  BY BaseEven DEF WordsOf, Word
<1> HIDE DEF x, y, p
<1>6. 0 \in T
  <2> DEFINE M == p[j - 1]
             f == l[j]
             g == r[j]
  <2>1. j - 1 \in Nat /\ j - 1 \in 0 .. n
    OBVIOUS
  <2>2. M \in Nat \ {0} /\ f \in Nat /\ g \in Nat /\ f > g
    BY <1>4, <1>5, <2>1
  <2>3. x[j] = x[j - 1] + f * M /\ y[j] = y[j - 1] + g * M
    BY <1>1, <1>2
  <2>4. x[j - 1] \in Nat /\ y[j - 1] \in 0 .. M - 1
    BY <1>1, <1>3, <2>1
  <2> HIDE DEF M, f, g
  <2>5. M * f >= M * (g + 1) /\ M * (g + 1) = M * g + M /\ M * f = f * M /\ M * g = g * M
        /\ f * M \in Nat /\ g * M \in Nat
    <3>1. f >= g + 1 /\ g + 1 \in Nat /\ M \in Nat
      BY <2>2
    <3>2. M * f >= M * (g + 1)
      BY <2>2, <3>1, TimesMonotone
    <3>3. M * (g + 1) = M * g + M /\ M * f = f * M /\ M * g = g * M /\ f * M \in Nat /\ g * M \in Nat
      BY <2>2
    <3> QED
      BY <3>2, <3>3
  <2>6. x[j] > y[j]
    BY <2>2, <2>3, <2>4, <2>5
  <2> QED
    BY <2>6
<1>7. ASSUME NEW k \in T PROVE k + 1 \in T
  <2>1. SUFFICES ASSUME j + (k + 1) <= n PROVE x[j + (k + 1)] > y[j + (k + 1)]
    OBVIOUS
  <2> DEFINE i == j + (k + 1)
  <2>2. i \in j + 1 .. n /\ i \in 1 .. n /\ i - 1 = j + k /\ i - 1 \in 0 .. n /\ i - 1 \in Nat
        /\ x[j + k] > y[j + k]
    BY <2>1
  <2> HIDE DEF i
  <2>3. x[i] = x[i - 1] + l[i] * p[i - 1] /\ y[i] = y[i - 1] + r[i] * p[i - 1] /\ l[i] = r[i]
    BY <1>1, <1>2, <2>2
  <2>4. l[i] * p[i - 1] \in Nat
    <3> DEFINE f == l[i]
               g == p[i - 1]
    <3>1. f \in Nat /\ g \in Nat
      BY <1>4, <1>5, <2>2
    <3> HIDE DEF f, g
    <3>2. f * g \in Nat
      BY <3>1
    <3> QED
      BY <3>2 DEF f, g
  <2>5. x[i - 1] \in Nat /\ y[i - 1] \in Nat
    BY <1>1, <1>2, <2>2
  <2>6. x[i] > y[i]
    BY <2>2, <2>3, <2>4, <2>5
  <2> QED
    BY <2>6 DEF i
<1>8. T \in SUBSET Nat
  OBVIOUS
<1> HIDE DEF T
<1>9. T = Nat
  BY <1>6, <1>7, <1>8, Induct
<1>10. n - j \in T /\ j + (n - j) = n
  BY <1>9
<1> QED
  BY <1>1, <1>2, <1>10 DEF T

(* uECC_vli_cmp_unsafe                                                     *)
LEMMA CmpUnsafeExact ==
  ASSUME NEW n \in Nat, NEW l \in WordsOf(n), NEW r \in WordsOf(n)
  PROVE  CmpUnsafe(l, r) = IF Value(l) = Value(r) THEN 0
                           ELSE IF Value(l) > Value(r) THEN 1 ELSE -1
<1> DEFINE differ == {k \in DOMAIN l : l[k] # r[k]}
           j == Max(differ)
<1>1. DOMAIN l = 1 .. n /\ Value(l) \in Nat /\ Value(r) \in Nat
  BY SumsDef DEF WordsOf
<1>2. CmpUnsafe(l, r) = IF differ = {} THEN 0 ELSE IF l[j] > r[j] THEN 1 ELSE -1
  BY DEF CmpUnsafe
<1>3. differ = {} => l = r
  BY <1>1 DEF WordsOf
<1>4. ASSUME differ # {}
      PROVE  /\ j \in 1 .. n /\ l[j] # r[j] /\ l[j] \in Nat /\ r[j] \in Nat
             /\ \A k \in j + 1 .. n : l[k] = r[k]
  <2>1. differ \in SUBSET (0 .. n)
    BY <1>1
  <2> HIDE DEF differ
  <2>2. \E x \in differ : \A y \in differ : x >= y
    BY <1>4, <2>1, Greatest
  <2>3. j \in differ /\ \A y \in differ : j >= y
    BY <2>2 DEF Max
  <2>4. j \in 1 .. n /\ l[j] # r[j]
    BY <1>1, <2>3 DEF differ
  <2> HIDE DEF j
  <2>5. l[j] \in Nat /\ r[j] \in Nat
    BY <2>4, BaseEven DEF WordsOf, Word
  <2>6. ASSUME NEW k \in j + 1 .. n PROVE l[k] = r[k]
    <3>1. k \in 1 .. n /\ ~(j >= k)
      BY <2>4
    <3> QED
      BY <1>1, <2>3, <3>1 DEF differ
  <2> QED
    BY <2>4, <2>5, <2>6
<1> HIDE DEF differ, j
<1>5. CASE differ = {}
  BY <1>2, <1>3, <1>5
<1>6. CASE differ # {}
  <2>1. l[j] > r[j] => Value(l) > Value(r)
    BY <1>4, <1>6, TopWordDecides
  <2>2. r[j] > l[j] => Value(r) > Value(l)
    BY <1>4, <1>6, TopWordDecides
  <2> QED
    BY <1>1, <1>2, <1>4, <1>6, <2>1, <2>2
<1> QED
  BY <1>5, <1>6

(* uECC_vli_equal                                                          *)
LEMMA EqualExact ==
  ASSUME NEW n \in Nat, NEW l \in WordsOf(n), NEW r \in WordsOf(n)
  PROVE  Equal(l, r) <=> Value(l) = Value(r)
<1>1. DOMAIN l = 1 .. n
  BY DEF WordsOf
<1>2. Equal(l, r) => l = r
  BY <1>1 DEF Equal, WordsOf
<1>3. l = r => Equal(l, r)
  BY DEF Equal
<1> QED
  BY <1>2, <1>3, ValueInjective

(* uECC_vli_cmp                                                            *)
LEMMA CmpExact ==
  ASSUME NEW n \in Nat, NEW l \in WordsOf(n), NEW r \in WordsOf(n)
  PROVE  Cmp(l, r) = IF Value(l) = Value(r) THEN 0
                     ELSE IF Value(l) > Value(r) THEN 1 ELSE -1
<1> DEFINE w == Sub(l, r).words
           c == Sub(l, r).carry
           M == Power(Base)[n]
           x == Value(l)
           y == Value(r)
           z == Value(w)
<1>1. w \in WordsOf(n) /\ c \in 0 .. 1 /\ z - c * M = x - y
  BY SubExact
<1>2. Cmp(l, r) = Bit(~IsZero(w)) - 2 * c
  BY DEF Cmp
<1> HIDE DEF w, c
<1>3. IsZero(w) <=> z = 0
  BY <1>1, ZeroValue
<1>4. M \in Nat \ {0}
  BY BasePowers
<1>5. /\ z = Sums(w)[n] /\ x = Sums(l)[n] /\ y = Sums(r)[n]
      /\ z \in Nat /\ x \in Nat /\ y \in Nat
  BY <1>1, SumsDef
<1>6. n \in 0 .. n
  OBVIOUS
<1>7. z < M /\ x < M /\ y < M
  BY <1>1, <1>4, <1>5, <1>6, SumsBound
<1> HIDE DEF x, y, z, M
<1>8. CASE c = 0
  <2>1. z = x - y
    BY <1>1, <1>4, <1>5, <1>8
  <2> QED
    BY <1>2, <1>3, <1>5, <1>8, <2>1 DEF Bit, x, y
<1>9. CASE c = 1
  <2>1. z = x - y + M
    BY <1>1, <1>4, <1>5, <1>9
  <2> QED
    BY <1>2, <1>3, <1>4, <1>5, <1>7, <1>9, <2>1 DEF Bit, x, y
<1> QED
  BY <1>1, <1>8, <1>9

(* The numbers of the curve: 256 bits, in NumWords words.                  *)
Numbers256 == WordsOf(NumWords)

(* A number that fits has its words, and a sequence of them its number.    *)
LEMMA NumberExact ==
  /\ Full \in Nat \ {0}
  /\ \A x \in 0 .. Full - 1 : Number(x) \in Numbers256 /\ Value(Number(x)) = x
  /\ \A w \in Numbers256 : Value(w) \in 0 .. Full - 1
<1>1. NumWords \in Nat \ {0}
  BY VliAssumption, BaseEven
<1>2. Full \in Nat \ {0}
  BY <1>1, BasePowers DEF Full
<1>3. ASSUME NEW x \in 0 .. Full - 1 PROVE Number(x) \in Numbers256 /\ Value(Number(x)) = x
  <2>1. Number(x) = Digits(x, NumWords)
    BY DEF Number, Digits
  <2>2. x \in Nat /\ NumWords \in Nat
    BY <1>1, <1>2
  <2>3. Value(Digits(x, NumWords)) = x
    BY <2>2, DigitsValue DEF Full
  <2>4. Digits(x, NumWords) \in WordsOf(NumWords)
    BY <2>2, DigitsWords
  <2> QED
    BY <2>1, <2>3, <2>4 DEF Numbers256
<1>4. ASSUME NEW w \in Numbers256 PROVE Value(w) \in 0 .. Full - 1
  <2>1. NumWords \in 0 .. NumWords /\ NumWords \in Nat
    BY <1>1
  <2>2. w \in WordsOf(NumWords)
    BY DEF Numbers256
  <2>3. Value(w) = Sums(w)[NumWords]
    BY <2>1, <2>2, SumsDef
  <2>4. Sums(w)[NumWords] \in 0 .. Power(Base)[NumWords] - 1
    BY <2>1, <2>2, SumsBound
  <2> QED
    BY <2>3, <2>4 DEF Full
<1> QED
  BY <1>2, <1>3, <1>4

(* The two moduli are odd numbers of all the words.                        *)
LEMMA Moduli ==
  ASSUME NEW m \in {P, Order}
  PROVE  m \in 3 .. Full - 1 /\ m % 2 = 1
<1>1. Full \in Nat /\ Base \in Nat /\ Base >= 2
  BY NumberExact, BaseEven
<1> DEFINE S == Base + Omega
<1>2. S \in Nat /\ S >= 3 /\ S * S < Full /\ P = Full - S
  BY <1>1, VliAssumption DEF P
<1> HIDE DEF S
<1>3. S * S >= S * 3 /\ S * S \in Nat
  BY <1>2, TimesMonotone
<1>4. Full > 3 * S
  BY <1>1, <1>2, <1>3
<1>5. P \in 3 .. Full - 1
  BY <1>1, <1>2, <1>4
<1>6. Order \in 3 .. Full - 1
  BY <1>1, <1>2, <1>4, VliAssumption
<1>7. m \in 3 .. Full - 1
  BY <1>5, <1>6
<1>8. 2 \in 2 .. m - 1
  BY <1>7
<1>9. m % 2 # 0
  BY <1>8, ModuliPrime
<1> QED
  BY <1>7, <1>9

-----------------------------------------------------------------------------
(* What the loop of the inverse computes with.                             *)

(* A word added to the top word adds its number times the top power.       *)
LEMMA TopWordAdded ==
  ASSUME NEW n \in Nat \ {0}, NEW w \in WordsOf(n), NEW y \in Nat, w[n] + y \in Word
  PROVE  /\ [w EXCEPT ![n] = @ + y] \in WordsOf(n)
         /\ Value([w EXCEPT ![n] = @ + y]) = Value(w) + y * Power(Base)[n - 1]
<1> DEFINE z == [w EXCEPT ![n] = @ + y]
           s == Sums(w)
           t == Sums(z)
           f == w[n]
           p == Power(Base)[n - 1]
<1>1. n \in Nat /\ n - 1 \in Nat /\ n - 1 <= n /\ n \in 1 .. n /\ n - 1 \in 0 .. n
  OBVIOUS
<1>2. z \in WordsOf(n) /\ z[n] = f + y /\ \A k \in 1 .. n - 1 : w[k] = z[k]
  BY <1>1 DEF WordsOf
<1> HIDE DEF z
<1>3. s[n] = s[n - 1] + f * p /\ Value(w) = s[n] /\ s[n - 1] \in Nat
  BY <1>1, SumsDef
<1>4. t[n] = t[n - 1] + z[n] * p /\ Value(z) = t[n]
  BY <1>1, <1>2, SumsDef
<1>5. n - 1 \in 0 .. n - 1
  BY <1>1
<1>6. t[n - 1] = s[n - 1]
  BY <1>1, <1>2, <1>5, SumsAgree
<1>7. f \in Nat /\ p \in Nat
  <2>1. f \in Nat
    BY <1>1, BaseEven DEF WordsOf, Word
  <2> QED
    BY <1>1, <2>1, BasePowers
<1> HIDE DEF f, p, s, t
<1>8. (f + y) * p = f * p + y * p /\ f * p \in Nat /\ y * p \in Nat
  BY <1>7
<1>9. Value(z) = Value(w) + y * p
  BY <1>2, <1>3, <1>4, <1>6, <1>8
<1> QED
  BY <1>2, <1>9 DEF z, p

(* vli_modInv_update halves modulo m, the carry of the sum included.       *)
LEMMA InvUpdateExact ==
  ASSUME NEW uv \in Numbers256, NEW w \in Numbers256,
         Value(w) % 2 = 1, Value(uv) < Value(w)
  PROVE  /\ InvUpdate(uv, w) \in Numbers256 /\ Value(InvUpdate(uv, w)) < Value(w)
         /\ \/ 2 * Value(InvUpdate(uv, w)) = Value(uv)
            \/ 2 * Value(InvUpdate(uv, w)) = Value(uv) + Value(w)
<1> DEFINE n == NumWords
           x == Value(uv)
           m == Value(w)
           sum == Add(uv, w)
           s == sum.words
           c == sum.carry
           S == Value(s)
           h == Rshift1(s)
           H == Base \div 2
           p == Power(Base)[n - 1]
<1>1. n \in Nat \ {0} /\ n \in Nat /\ n - 1 \in Nat
  BY VliAssumption, BaseEven
<1>2. x \in Nat /\ m \in Nat
  BY NumberExact
<1>3. CASE Even(uv)
  <2>1. InvUpdate(uv, w) = Rshift1(uv)
    BY <1>3 DEF InvUpdate
  <2>2. Rshift1(uv) \in WordsOf(n) /\ Value(Rshift1(uv)) = x \div 2 /\ x % 2 = 0
    BY <1>1, <1>3, Rshift1Exact DEF Numbers256
  <2>3. 2 * (x \div 2) = x /\ x \div 2 \in Nat
    BY <1>2, <2>2
  <2> HIDE DEF x, m
  <2>4. x \div 2 < m
    BY <1>2, <2>3 DEF x, m
  <2> QED
    BY <2>1, <2>2, <2>3, <2>4 DEF x, m, Numbers256
<1>4. CASE ~Even(uv)
  <2>1. InvUpdate(uv, w) = [h EXCEPT ![n] = @ + c * H]
    BY <1>4 DEF InvUpdate
  <2>2. x % 2 = 1
    BY <1>1, <1>2, <1>4, Rshift1Exact DEF Numbers256
  <2>3. s \in WordsOf(n) /\ c \in 0 .. 1 /\ S + c * Full = x + m
    BY <1>1, AddExact DEF Numbers256, Full
  <2> HIDE DEF s, c, sum
  <2>4. h \in WordsOf(n) /\ Value(h) = S \div 2
    BY <1>1, <2>3, Rshift1Exact
  <2>5. Full = Base * p /\ p \in Nat /\ H \in Nat /\ Base = 2 * H
    <3>1. Power(Base)[(n - 1) + 1] = Base * p /\ (n - 1) + 1 = n /\ p \in Nat
      BY <1>1, BasePowers
    <3> QED
      BY <3>1, BaseEven DEF Full
  <2>6. h[n] + c * H \in Word
    <3>1. Len(s) = n
      BY <1>1, <2>3, Lengths DEF WordsOf
    <3>2. n \in 1 .. n /\ ~(n < n)
      BY <1>1
    <3>3. h[n] = s[n] \div 2 + 0
      BY <3>1, <3>2 DEF Rshift1
    <3>4. s[n] \in 0 .. Base - 1
      BY <2>3, <3>2 DEF WordsOf, Word
    <3> DEFINE y == s[n]
    <3> HIDE DEF y, H, h
    <3>5. y \div 2 \in 0 .. H - 1
      BY <2>5, <3>4 DEF y
    <3>6. c * H = 0 \/ c * H = H
      BY <2>3, <2>5
    <3>7. h[n] = y \div 2
      BY <3>3, <3>5 DEF y
    <3> QED
      BY <2>5, <3>5, <3>6, <3>7 DEF Word
  <2>7. c * H \in Nat
    <3> HIDE DEF H
    <3> QED
      BY <2>3, <2>5
  <2> DEFINE z == [h EXCEPT ![n] = @ + c * H]
  <2>8. z \in WordsOf(n) /\ Value(z) = Value(h) + (c * H) * p
    <3> HIDE DEF h, H
    <3> DEFINE y == c * H
    <3>1. y \in Nat /\ h[n] + y \in Word /\ h \in WordsOf(n)
      BY <2>4, <2>6, <2>7
    <3> HIDE DEF y
    <3>2. /\ [h EXCEPT ![n] = @ + y] \in WordsOf(n)
          /\ Value([h EXCEPT ![n] = @ + y]) = Value(h) + y * p
      BY <1>1, <3>1, TopWordAdded
    <3> QED
      BY <3>2 DEF y
  <2> HIDE DEF z, h, H, p
  <2>9. 2 * ((c * H) * p) = c * Full
    <3>1. (c * H) * p = c * (H * p)
      BY <2>3, <2>5
    <3>2. (2 * H) * p = 2 * (H * p) /\ H * p \in Nat
      BY <2>5
    <3> QED
      BY <2>3, <2>5, <3>1, <3>2
  <2>10. S \in Nat
    BY <1>1, <2>3, SumsDef
  <2> HIDE DEF x, m, S
  <2>11. 2 * (S \div 2) = S
    <3>1. Full \in Nat /\ Full % 2 = 0
      <4>1. (2 * H) * p = 2 * (H * p) /\ H * p \in Nat
        BY <2>5
      <4> QED
        BY <2>5, <4>1
    <3>2. c = 0 \/ c = 1
      BY <2>3
    <3>3. (x + m) % 2 = 0
      BY <1>2, <2>2 DEF m
    <3>4. S % 2 = 0
      BY <2>3, <2>10, <3>1, <3>2, <3>3, <1>2
    <3> QED
      BY <2>10, <3>4
  <2>12. (c * H) * p \in Nat
    <3> DEFINE y == c * H
    <3>1. y \in Nat
      BY <2>7
    <3> HIDE DEF y
    <3>2. y * p \in Nat
      BY <2>5, <3>1
    <3> QED
      BY <3>2 DEF y
  <2>13. 2 * Value(z) = x + m /\ Value(z) \in Nat
    <3> DEFINE y == (c * H) * p
               g == S \div 2
    <3>1. Value(z) = g + y /\ y \in Nat /\ 2 * y = c * Full /\ 2 * g = S /\ g \in Nat
      BY <2>4, <2>8, <2>9, <2>10, <2>11, <2>12
    <3> HIDE DEF y, g
    <3>2. 2 * Value(z) = S + c * Full /\ Value(z) \in Nat
      BY <3>1
    <3> QED
      BY <2>3, <3>2 DEF S
  <2>14. Value(z) < m
    BY <1>2, <2>13 DEF x, m
  <2> QED
    BY <2>1, <2>8, <2>13, <2>14 DEF z, x, m, Numbers256
<1> QED
  BY <1>3, <1>4

(* The difference of two numbers below m, modulo m.                        *)
LEMMA InvMinusExact ==
  ASSUME NEW x \in Numbers256, NEW y \in Numbers256, NEW w \in Numbers256,
         Value(x) < Value(w), Value(y) < Value(w)
  PROVE  /\ InvMinus(x, y, w) \in Numbers256 /\ Value(InvMinus(x, y, w)) < Value(w)
         /\ \/ Value(InvMinus(x, y, w)) = Value(x) - Value(y)
            \/ Value(InvMinus(x, y, w)) = Value(x) - Value(y) + Value(w)
<1> DEFINE n == NumWords
           X == Value(x)
           Y == Value(y)
           M == Value(w)
           sum == Add(x, w)
           s == IF CmpUnsafe(x, y) < 0 THEN sum.words ELSE x
           z == Sub(s, y).words
           d == Sub(s, y).carry
<1>1. n \in Nat
  BY VliAssumption, BaseEven
<1>2. X \in 0 .. Full - 1 /\ Y \in 0 .. Full - 1 /\ M \in 0 .. Full - 1 /\ Full \in Nat
  BY NumberExact
<1>3. CmpUnsafe(x, y) < 0 <=> X < Y
  BY <1>1, <1>2, CmpUnsafeExact DEF Numbers256
<1>4. InvMinus(x, y, w) = z
  BY DEF InvMinus
<1>5. sum.words \in WordsOf(n) /\ sum.carry \in 0 .. 1
      /\ Value(sum.words) + sum.carry * Full = X + M
  BY <1>1, AddExact DEF Numbers256, Full
<1>6. s \in WordsOf(n)
  BY <1>5 DEF Numbers256
<1>7. z \in WordsOf(n) /\ d \in 0 .. 1 /\ Value(z) - d * Full = Value(s) - Y
  BY <1>1, <1>6, SubExact DEF Numbers256, Full
<1>8. Value(z) \in 0 .. Full - 1 /\ Value(s) \in 0 .. Full - 1
  BY <1>6, <1>7, NumberExact DEF Numbers256
<1>9. d = 0 \/ d = 1
  BY <1>7
<1>10. sum.carry = 0 \/ sum.carry = 1
  BY <1>5
<1>11. CASE X < Y
  <2>1. s = sum.words
    BY <1>3, <1>11
  <2> DEFINE S == Value(s)
             Z == Value(z)
             e == sum.carry
  <2>2. /\ S + e * Full = X + M /\ Z - d * Full = S - Y /\ S \in 0 .. Full - 1
        /\ Z \in 0 .. Full - 1 /\ d \in 0 .. 1 /\ e \in 0 .. 1 /\ X < M /\ Y < M
    BY <1>5, <1>7, <1>8, <2>1
  <2> HIDE DEF X, Y, M, S, Z, d, e
  <2>3. Z = X - Y + M
    <3>1. e * Full = 0 \/ e * Full = Full
      BY <1>2, <2>2
    <3>2. d * Full = 0 \/ d * Full = Full
      BY <1>2, <2>2
    <3> QED
      BY <1>2, <1>11, <2>2, <3>1, <3>2
  <2>4. Z < M
    BY <1>2, <1>11, <2>3
  <2> QED
    BY <1>4, <1>7, <2>3, <2>4 DEF X, Y, M, Z, Numbers256
<1>12. CASE ~(X < Y)
  <2>1. s = x
    BY <1>3, <1>12
  <2> DEFINE Z == Value(z)
  <2>2. Z - d * Full = X - Y /\ Z \in 0 .. Full - 1 /\ d \in 0 .. 1 /\ X < M
    BY <1>7, <1>8, <2>1
  <2> HIDE DEF X, Y, M, Z, d
  <2>3. d * Full = 0 \/ d * Full = Full
    BY <1>2, <2>2
  <2>4. Z = X - Y /\ Z < M
    BY <1>2, <1>12, <2>2, <2>3
  <2> QED
    BY <1>4, <1>7, <2>4 DEF X, Y, M, Z, Numbers256
<1> QED
  BY <1>11, <1>12

-----------------------------------------------------------------------------
(* The inverse.                                                            *)

(* y differs from x by a multiple of m.                                    *)
Congruent(x, y, m) == \E q \in Int : x = y + m * q
Divides(d, x) == \E q \in Int : x = d * q

(* A product that is known of twice a number modulo an odd m is known of   *)
(* the number.                                                             *)
LEMMA HalfCongruent ==
  ASSUME NEW m \in Int, m % 2 = 1, NEW h \in Int, NEW x \in Int, NEW y \in Int, NEW q \in Int,
         2 * (h * x) = 2 * y + m * q
  PROVE  Congruent(h * x, y, m)
<1> DEFINE k == m \div 2
           z == h * x
<1>1. k \in Int /\ m = 2 * k + 1 /\ z \in Int
  OBVIOUS
<1> HIDE DEF k, z
<1>2. m * q = 2 * (k * q) + q /\ k * q \in Int
  <2>1. (2 * k + 1) * q = 2 * (k * q) + q
    BY <1>1
  <2> QED
    BY <1>1, <2>1
<1> DEFINE j == z - y - k * q
<1>3. j \in Int /\ q = 2 * j
  BY <1>1, <1>2 DEF z
<1> HIDE DEF j
<1>4. m * (2 * j) = 2 * (m * j) /\ m * j \in Int
  BY <1>3
<1>5. 2 * z = 2 * y + 2 * (m * j)
  BY <1>3, <1>4 DEF z
<1>6. z = y + m * j
  <2> DEFINE g == m * j
  <2>1. g \in Int /\ 2 * z = 2 * y + 2 * g
    BY <1>4, <1>5
  <2> HIDE DEF g
  <2>2. z = y + g
    BY <1>1, <2>1
  <2> QED
    BY <2>2 DEF g
<1> QED
  BY <1>3, <1>6 DEF Congruent, z

(* vli_modInv_update keeps what is known of the products of its argument.  *)
LEMMA UpdateCongruent ==
  ASSUME NEW m \in Int, m % 2 = 1, NEW h \in Int, NEW x \in Int, NEW y \in Int, NEW z \in Int,
         2 * h = y \/ 2 * h = y + m, Congruent(y * x, 2 * z, m)
  PROVE  Congruent(h * x, z, m)
<1>1. PICK q \in Int : y * x = 2 * z + m * q
  BY DEF Congruent
<1>2. (2 * h) * x = 2 * (h * x)
  OBVIOUS
<1>3. CASE 2 * h = y
  <2>1. 2 * (h * x) = 2 * z + m * q
    BY <1>1, <1>2, <1>3
  <2> QED
    BY <2>1, HalfCongruent
<1>4. CASE 2 * h = y + m
  <2>1. (y + m) * x = y * x + m * x /\ m * (q + x) = m * q + m * x /\ q + x \in Int
    OBVIOUS
  <2>2. y * x \in Int /\ m * q \in Int /\ m * x \in Int /\ 2 * z \in Int
    OBVIOUS
  <2>3. 2 * (h * x) = 2 * z + m * (q + x)
    BY <1>1, <1>2, <1>4, <2>1, <2>2
  <2> QED
    BY <2>1, <2>3, HalfCongruent
<1> QED
  BY <1>3, <1>4

(* So does the difference.                                                 *)
LEMMA MinusCongruent ==
  ASSUME NEW m \in Int, NEW x \in Int, NEW y \in Int, NEW z \in Int,
         NEW f \in Int, NEW g \in Int, NEW h \in Int,
         h = y - z \/ h = y - z + m, Congruent(y * x, f, m), Congruent(z * x, g, m)
  PROVE  Congruent(h * x, f - g, m)
<1>1. PICK q \in Int : y * x = f + m * q
  BY DEF Congruent
<1>2. PICK r \in Int : z * x = g + m * r
  BY DEF Congruent
<1>3. (y - z) * x = y * x - z * x /\ (y - z + m) * x = y * x - z * x + m * x
  OBVIOUS
<1>4. m * (q - r) = m * q - m * r /\ m * (q - r + x) = m * q - m * r + m * x
  OBVIOUS
<1>5. q - r \in Int /\ q - r + x \in Int
  OBVIOUS
<1>6. /\ m * q \in Int /\ m * r \in Int /\ m * x \in Int
      /\ y * x \in Int /\ z * x \in Int
  OBVIOUS
<1>7. (y - z) * x = (f - g) + m * (q - r)
  BY <1>1, <1>2, <1>3, <1>4, <1>6
<1>8. (y - z + m) * x = (f - g) + m * (q - r + x)
  BY <1>1, <1>2, <1>3, <1>4, <1>6
<1>9. CASE h = y - z
  BY <1>5, <1>7, <1>9 DEF Congruent
<1>10. CASE h = y - z + m
  BY <1>5, <1>8, <1>10 DEF Congruent
<1> QED
  BY <1>9, <1>10

(* A divisor of half a number, or of half a difference and of the number   *)
(* taken away, divides the number.                                         *)
LEMMA DividesTwice ==
  ASSUME NEW d \in Int, NEW x \in Int, NEW y \in Int, NEW z \in Int,
         x = 2 * y + z, Divides(d, y), Divides(d, z)
  PROVE  Divides(d, x)
<1>1. PICK q \in Int : y = d * q
  BY DEF Divides
<1>2. PICK r \in Int : z = d * r
  BY DEF Divides
<1>3. d * (2 * q + r) = 2 * (d * q) + d * r /\ 2 * q + r \in Int
  OBVIOUS
<1>4. x = d * (2 * q + r)
  BY <1>1, <1>2, <1>3
<1> QED
  BY <1>3, <1>4 DEF Divides

(* Every number divides zero.                                              *)
LEMMA DividesZero ==
  ASSUME NEW d \in Int
  PROVE  Divides(d, 0)
<1>1. 0 = d * 0 /\ 0 \in Int
  OBVIOUS
<1> QED
  BY <1>1 DEF Divides

(* Numbers x, y with cofactors f, g, of the input z and the modulus m: the *)
(* greatest common divisor of x and y is the one z and m began with.       *)
Cofactors(x, y, f, g, z, m) ==
  /\ x \in 1 .. m - 1 /\ y \in 1 .. m /\ f \in 0 .. m - 1 /\ g \in 0 .. m - 1
  /\ Congruent(f * z, x, m) /\ Congruent(g * z, y, m)
  /\ \A d \in Nat \ {0} : Divides(d, x) /\ Divides(d, y) => Divides(d, m)

(* One of the two is halved.                                               *)
LEMMA HalveFirst ==
  ASSUME NEW m \in Nat, m % 2 = 1, NEW x, NEW y, NEW f, NEW g, NEW z \in Nat,
         Cofactors(x, y, f, g, z, m), NEW h \in Nat, h < m, 2 * h = f \/ 2 * h = f + m,
         x % 2 = 0
  PROVE  Cofactors(x \div 2, y, h, g, z, m) /\ x \div 2 < x
<1> DEFINE k == x \div 2
<1>1. x \in 1 .. m - 1 /\ y \in 1 .. m /\ f \in 0 .. m - 1 /\ g \in 0 .. m - 1
  BY DEF Cofactors
<1>2. k \in 1 .. m - 1 /\ x = 2 * k /\ k < x
  BY <1>1
<1> HIDE DEF k
<1>3. Congruent(h * z, k, m)
  <2>1. Congruent(f * z, 2 * k, m) /\ f \in Int /\ k \in Int /\ m \in Int
    BY <1>1, <1>2 DEF Cofactors
  <2>2. h \in Int /\ z \in Int
    OBVIOUS
  <2> QED
    BY <2>1, <2>2, UpdateCongruent, Zenon
<1>4. ASSUME NEW d \in Nat \ {0}, Divides(d, k), Divides(d, y) PROVE Divides(d, m)
  <2>1. d \in Int /\ x \in Int /\ k \in Int /\ x = 2 * k + 0
    BY <1>1, <1>2
  <2>2. Divides(d, x)
    BY <1>4, <2>1, DividesZero, DividesTwice
  <2> QED
    BY <1>4, <2>2 DEF Cofactors
<1>5. Cofactors(k, y, h, g, z, m)
  BY <1>1, <1>2, <1>3, <1>4 DEF Cofactors
<1> QED
  BY <1>2, <1>5 DEF k

(* The other of the two is halved.                                         *)
LEMMA HalveSecond ==
  ASSUME NEW m \in Nat, m % 2 = 1, NEW x, NEW y, NEW f, NEW g, NEW z \in Nat,
         Cofactors(x, y, f, g, z, m), NEW h \in Nat, h < m, 2 * h = g \/ 2 * h = g + m,
         y % 2 = 0
  PROVE  Cofactors(x, y \div 2, f, h, z, m) /\ y \div 2 < y
<1> DEFINE k == y \div 2
<1>1. x \in 1 .. m - 1 /\ y \in 1 .. m /\ f \in 0 .. m - 1 /\ g \in 0 .. m - 1
  BY DEF Cofactors
<1>2. k \in 1 .. m /\ y = 2 * k /\ k < y
  BY <1>1
<1> HIDE DEF k
<1>3. Congruent(h * z, k, m)
  <2>1. Congruent(g * z, 2 * k, m) /\ g \in Int /\ k \in Int /\ m \in Int
    BY <1>1, <1>2 DEF Cofactors
  <2>2. h \in Int /\ z \in Int
    OBVIOUS
  <2> QED
    BY <2>1, <2>2, UpdateCongruent, Zenon
<1>4. ASSUME NEW d \in Nat \ {0}, Divides(d, x), Divides(d, k) PROVE Divides(d, m)
  <2>1. d \in Int /\ y \in Int /\ k \in Int /\ y = 2 * k + 0
    BY <1>1, <1>2
  <2>2. Divides(d, y)
    BY <1>4, <2>1, DividesZero, DividesTwice
  <2> QED
    BY <1>4, <2>2 DEF Cofactors
<1>5. Cofactors(x, k, f, h, z, m)
  BY <1>1, <1>2, <1>3, <1>4 DEF Cofactors
<1> QED
  BY <1>2, <1>5 DEF k

(* The difference of the two replaces the greater one, e its cofactor, and *)
(* is halved: it is even.                                                  *)
LEMMA MinusFirst ==
  ASSUME NEW m \in Nat, m % 2 = 1, NEW x, NEW y, NEW f, NEW g, NEW z \in Nat,
         Cofactors(x, y, f, g, z, m), x % 2 = 1, y % 2 = 1, x > y,
         NEW e \in Nat, e < m, e = f - g \/ e = f - g + m,
         NEW h \in Nat, h < m, 2 * h = e \/ 2 * h = e + m
  PROVE  Cofactors((x - y) \div 2, y, h, g, z, m) /\ (x - y) \div 2 < x
<1> DEFINE k == (x - y) \div 2
<1>1. x \in 1 .. m - 1 /\ y \in 1 .. m /\ f \in 0 .. m - 1 /\ g \in 0 .. m - 1
  BY DEF Cofactors
<1>2. k \in 1 .. m - 1 /\ x = 2 * k + y /\ k < x
  BY <1>1
<1> HIDE DEF k
<1>3. Congruent(h * z, k, m)
  <2>1. Congruent(f * z, x, m) /\ Congruent(g * z, y, m) /\ f \in Int /\ g \in Int
        /\ x \in Int /\ y \in Int /\ m \in Int /\ e \in Int /\ z \in Int
    BY <1>1 DEF Cofactors
  <2>2. Congruent(e * z, x - y, m)
    BY <2>1, MinusCongruent
  <2>3. x - y = 2 * k /\ k \in Int
    BY <1>1, <1>2
  <2>4. h \in Int /\ Congruent(e * z, 2 * k, m)
    BY <2>2, <2>3
  <2> QED
    BY <2>1, <2>3, <2>4, UpdateCongruent, Zenon
<1>4. ASSUME NEW d \in Nat \ {0}, Divides(d, k), Divides(d, y) PROVE Divides(d, m)
  <2>1. d \in Int /\ x \in Int /\ k \in Int /\ y \in Int
    BY <1>1, <1>2
  <2>2. Divides(d, x)
    BY <1>2, <1>4, <2>1, DividesTwice
  <2> QED
    BY <1>4, <2>2 DEF Cofactors
<1>5. Cofactors(k, y, h, g, z, m)
  BY <1>1, <1>2, <1>3, <1>4 DEF Cofactors
<1> QED
  BY <1>2, <1>5 DEF k

(* The first is taken from the second, and the difference halved.          *)
LEMMA MinusSecond ==
  ASSUME NEW m \in Nat, m % 2 = 1, NEW x, NEW y, NEW f, NEW g, NEW z \in Nat,
         Cofactors(x, y, f, g, z, m), x % 2 = 1, y % 2 = 1, y > x,
         NEW e \in Nat, e < m, e = g - f \/ e = g - f + m,
         NEW h \in Nat, h < m, 2 * h = e \/ 2 * h = e + m
  PROVE  Cofactors(x, (y - x) \div 2, f, h, z, m) /\ (y - x) \div 2 < y
<1> DEFINE k == (y - x) \div 2
<1>1. x \in 1 .. m - 1 /\ y \in 1 .. m /\ f \in 0 .. m - 1 /\ g \in 0 .. m - 1
  BY DEF Cofactors
<1>2. k \in 1 .. m /\ y = 2 * k + x /\ k < y
  BY <1>1
<1> HIDE DEF k
<1>3. Congruent(h * z, k, m)
  <2>1. Congruent(f * z, x, m) /\ Congruent(g * z, y, m) /\ f \in Int /\ g \in Int
        /\ x \in Int /\ y \in Int /\ m \in Int /\ e \in Int /\ z \in Int
    BY <1>1 DEF Cofactors
  <2>2. Congruent(e * z, y - x, m)
    BY <2>1, MinusCongruent
  <2>3. y - x = 2 * k /\ k \in Int
    BY <1>1, <1>2
  <2>4. h \in Int /\ Congruent(e * z, 2 * k, m)
    BY <2>2, <2>3
  <2> QED
    BY <2>1, <2>3, <2>4, UpdateCongruent, Zenon
<1>4. ASSUME NEW d \in Nat \ {0}, Divides(d, x), Divides(d, k) PROVE Divides(d, m)
  <2>1. d \in Int /\ x \in Int /\ k \in Int /\ y \in Int
    BY <1>1, <1>2
  <2>2. Divides(d, y)
    BY <1>2, <1>4, <2>1, DividesTwice
  <2> QED
    BY <1>4, <2>2 DEF Cofactors
<1>5. Cofactors(x, k, f, h, z, m)
  BY <1>1, <1>2, <1>3, <1>4 DEF Cofactors
<1> QED
  BY <1>2, <1>5 DEF k

(* Equal numbers are their own common divisor, and one is the only one     *)
(* below a prime.                                                          *)
LEMMA EqualIsOne ==
  ASSUME NEW m \in {P, Order}, NEW x, NEW f, NEW g, NEW z \in Nat, Cofactors(x, x, f, g, z, m)
  PROVE  x = 1
<1>1. x \in 1 .. m - 1 /\ m \in Nat
  BY Moduli DEF Cofactors
<1>2. Divides(x, x)
  <2>1. x = x * 1 /\ 1 \in Int
    BY <1>1
  <2> QED
    BY <2>1 DEF Divides
<1>3. x \in Nat \ {0}
  BY <1>1
<1>4. PICK q \in Int : m = x * q
  BY <1>2, <1>3 DEF Cofactors, Divides
<1>5. m = x * q + 0 /\ 0 \in 0 .. x - 1 /\ m \in Int
  BY <1>1, <1>3, <1>4
<1>6. m % x = 0
  BY <1>3, <1>5, ModUnique
<1>7. x \in 2 .. m - 1 => m % x # 0
  BY ModuliPrime
<1> QED
  BY <1>1, <1>6, <1>7

(* The locals hold words; in the loop a and b are u and v times the input, *)
(* and have the divisors that the input and the modulus began with.        *)
InverseInvariant ==
  /\ ipc \in {"idle", "loop", "done"}
  /\ a \in Numbers256 /\ b \in Numbers256 /\ u \in Numbers256 /\ v \in Numbers256
  /\ input \in Numbers256 /\ mod \in Numbers256
  /\ ipc # "idle" => Value(mod) \in {P, Order} /\ Value(input) < Value(mod)
  /\ ipc = "loop" =>
       Cofactors(Value(a), Value(b), Value(u), Value(v), Value(input), Value(mod))
  /\ ipc = "done" =>
       IF Value(input) = 0 THEN Value(u) = 0
       ELSE Value(u) < Value(mod) /\ Congruent(Value(u) * Value(input), 1, Value(mod))

(* The words that are all zero.                                            *)
LEMMA ZeroNumber == Zero \in Numbers256 /\ Value(Zero) = 0
<1>1. 0 \in 0 .. Full - 1
  BY NumberExact
<1> QED
  BY <1>1, NumberExact DEF Zero

(* The operations on the words of the locals.                              *)
LEMMA LocalOperations ==
  ASSUME NEW x \in Numbers256, NEW y \in Numbers256
  PROVE  /\ Value(x) \in Nat /\ Value(y) \in Nat
         /\ Equal(x, y) <=> Value(x) = Value(y)
         /\ CmpUnsafe(x, y) > 0 <=> Value(x) > Value(y)
         /\ CmpUnsafe(x, y) < 0 <=> Value(x) < Value(y)
         /\ Even(x) <=> Value(x) % 2 = 0
         /\ Rshift1(x) \in Numbers256 /\ Value(Rshift1(x)) = Value(x) \div 2
         /\ Value(x) >= Value(y) => /\ Sub(x, y).words \in Numbers256
                                    /\ Value(Sub(x, y).words) = Value(x) - Value(y)
<1>1. NumWords \in Nat \ {0} /\ NumWords \in Nat
  BY VliAssumption, BaseEven
<1>2. Value(x) \in 0 .. Full - 1 /\ Value(y) \in 0 .. Full - 1 /\ Full \in Nat
  BY NumberExact
<1>3. Equal(x, y) <=> Value(x) = Value(y)
  BY <1>1, EqualExact DEF Numbers256
<1>4. (CmpUnsafe(x, y) > 0 <=> Value(x) > Value(y)) /\ (CmpUnsafe(x, y) < 0 <=> Value(x) < Value(y))
  BY <1>1, <1>2, CmpUnsafeExact DEF Numbers256
<1>5. /\ Even(x) <=> Value(x) % 2 = 0
      /\ Rshift1(x) \in Numbers256 /\ Value(Rshift1(x)) = Value(x) \div 2
  BY <1>1, Rshift1Exact DEF Numbers256
<1>6. ASSUME Value(x) >= Value(y)
      PROVE  Sub(x, y).words \in Numbers256 /\ Value(Sub(x, y).words) = Value(x) - Value(y)
  <2> DEFINE X == Value(x)
             Y == Value(y)
             z == Sub(x, y).words
             d == Sub(x, y).carry
             Z == Value(z)
  <2>1. z \in Numbers256 /\ d \in 0 .. 1 /\ Z - d * Full = X - Y
    BY <1>1, SubExact DEF Numbers256, Full
  <2>2. Z \in 0 .. Full - 1
    BY <2>1, NumberExact
  <2>3. X \in Nat /\ Y \in Nat /\ X >= Y
    BY <1>2, <1>6
  <2> HIDE DEF z, d, Z, X, Y
  <2>4. d = 0 \/ d * Full = Full
    BY <1>2, <2>1
  <2>5. Z = X - Y
    BY <1>2, <2>1, <2>2, <2>3, <2>4
  <2> QED
    BY <2>1, <2>5 DEF z, Z, X, Y
<1> QED
  BY <1>2, <1>3, <1>4, <1>5, <1>6

(* The loop begins with the input and the modulus themselves.              *)
LEMMA InverseCalled ==
  ASSUME NEW x \in Operands, NEW m \in {P, Order}, x < m, ModInvCall(Number(x), Number(m))
  PROVE  InverseInvariant'
<1>1. x \in 0 .. Full - 1 /\ m \in 3 .. Full - 1 /\ m \in 0 .. Full - 1 /\ 1 \in 0 .. Full - 1
      /\ x \in Nat /\ m \in Nat
  BY VliAssumption, Moduli, NumberExact
<1>2. /\ Number(x) \in Numbers256 /\ Value(Number(x)) = x
      /\ Number(m) \in Numbers256 /\ Value(Number(m)) = m
      /\ Number(1) \in Numbers256 /\ Value(Number(1)) = 1
      /\ Zero \in Numbers256 /\ Value(Zero) = 0
  BY <1>1, NumberExact, ZeroNumber
<1>3. input' = Number(x) /\ mod' = Number(m)
  BY DEF ModInvCall
<1>4. IsZero(Number(x)) <=> x = 0
  <2>1. NumWords \in Nat
    BY VliAssumption, BaseEven
  <2> QED
    BY <1>2, <2>1, ZeroValue DEF Numbers256
<1>5. CASE x = 0
  <2>1. ipc' = "done" /\ a' = Zero /\ b' = Zero /\ u' = Zero /\ v' = Zero
    BY <1>4, <1>5 DEF ModInvCall
  <2> QED
    BY <1>1, <1>2, <1>3, <1>5, <2>1 DEF InverseInvariant
<1>6. CASE x # 0
  <2>1. ipc' = "loop" /\ a' = Number(x) /\ b' = Number(m) /\ u' = Number(1) /\ v' = Zero
    BY <1>4, <1>6 DEF ModInvCall
  <2>2. Congruent(1 * x, x, m)
    <3>1. 1 * x = x + m * 0 /\ 0 \in Int
      BY <1>1
    <3> QED
      BY <3>1 DEF Congruent
  <2>3. Congruent(0 * x, m, m)
    <3>1. 0 * x = m + m * (-1) /\ -1 \in Int
      BY <1>1
    <3> QED
      BY <3>1 DEF Congruent
  <2>4. x \in 1 .. m - 1 /\ m \in 1 .. m /\ 1 \in 0 .. m - 1 /\ 0 \in 0 .. m - 1
    BY <1>1, <1>6
  <2>5. Cofactors(x, m, 1, 0, x, m)
    BY <2>2, <2>3, <2>4 DEF Cofactors
  <2> QED
    BY <1>2, <1>3, <2>1, <2>5 DEF InverseInvariant
<1> QED
  BY <1>5, <1>6

(* What every round of the loop starts from.                               *)
LEMMA InLoopFacts ==
  ASSUME InverseInvariant, ipc = "loop"
  PROVE  /\ a \in Numbers256 /\ b \in Numbers256 /\ u \in Numbers256 /\ v \in Numbers256
         /\ mod \in Numbers256 /\ input \in Numbers256
         /\ Value(mod) \in Nat /\ Value(mod) % 2 = 1 /\ Value(input) \in Nat
         /\ Value(mod) \in {P, Order} /\ Value(input) < Value(mod)
         /\ Cofactors(Value(a), Value(b), Value(u), Value(v), Value(input), Value(mod))
         /\ Value(u) < Value(mod) /\ Value(v) < Value(mod)
         /\ Value(a) \in Nat \ {0} /\ Value(b) \in Nat \ {0}
<1>1. /\ a \in Numbers256 /\ b \in Numbers256 /\ u \in Numbers256 /\ v \in Numbers256
      /\ mod \in Numbers256 /\ input \in Numbers256
      /\ Value(mod) \in {P, Order} /\ Value(input) < Value(mod)
      /\ Cofactors(Value(a), Value(b), Value(u), Value(v), Value(input), Value(mod))
  BY DEF InverseInvariant
<1>2. Value(mod) \in Nat /\ Value(mod) % 2 = 1
  BY <1>1, Moduli
<1>3. Value(input) \in Nat
  BY <1>1, NumberExact
<1>4. /\ Value(u) < Value(mod) /\ Value(v) < Value(mod)
      /\ Value(a) \in Nat \ {0} /\ Value(b) \in Nat \ {0}
  BY <1>1, <1>2 DEF Cofactors
<1> QED
  BY <1>1, <1>2, <1>3, <1>4

(* Every round keeps the invariant and makes a or b smaller.               *)
LEMMA RoundOfLoop ==
  ASSUME InverseInvariant, HalveA \/ HalveB \/ SubtractA \/ SubtractB
  PROVE  /\ InverseInvariant' /\ ipc' = "loop"
         /\ Value(a') + Value(b') < Value(a) + Value(b)
<1> DEFINE A == Value(a)
           B == Value(b)
           U == Value(u)
           V == Value(v)
           x == Value(input)
           m == Value(mod)
<1>1. ipc = "loop" /\ ipc' = "loop" /\ input' = input /\ mod' = mod /\ ~Equal(a, b)
  BY DEF HalveA, HalveB, SubtractA, SubtractB, InLoop
<1>2. /\ a \in Numbers256 /\ b \in Numbers256 /\ u \in Numbers256 /\ v \in Numbers256
      /\ mod \in Numbers256 /\ input \in Numbers256
      /\ m \in Nat /\ m % 2 = 1 /\ x \in Nat /\ m \in {P, Order} /\ x < m
      /\ Cofactors(A, B, U, V, x, m) /\ U < m /\ V < m
      /\ A \in Nat \ {0} /\ B \in Nat \ {0}
  BY <1>1, InLoopFacts
<1>3. A # B /\ (Even(a) <=> A % 2 = 0) /\ (Even(b) <=> B % 2 = 0)
  BY <1>1, <1>2, LocalOperations
<1>4. CASE HalveA
  <2>1. Even(a) /\ a' = Rshift1(a) /\ u' = InvUpdate(u, mod) /\ b' = b /\ v' = v
    BY <1>4 DEF HalveA
  <2> DEFINE h == Value(u')
  <2>2. a' \in Numbers256 /\ Value(a') = A \div 2 /\ A % 2 = 0
    BY <1>2, <1>3, <2>1, LocalOperations
  <2>3. u' \in Numbers256 /\ h < m /\ (2 * h = U \/ 2 * h = U + m) /\ h \in Nat
    <3>1. /\ InvUpdate(u, mod) \in Numbers256 /\ Value(InvUpdate(u, mod)) < m
          /\ \/ 2 * Value(InvUpdate(u, mod)) = U
             \/ 2 * Value(InvUpdate(u, mod)) = U + m
      BY <1>2, InvUpdateExact
    <3> QED
      BY <2>1, <3>1, NumberExact
  <2> HIDE DEF A, B, U, V, x, m, h
  <2>4. Cofactors(A \div 2, B, h, V, x, m) /\ A \div 2 < A
    BY <1>2, <2>2, <2>3, HalveFirst
  <2>5. A \div 2 + B < A + B
    BY <1>2, <2>4
  <2> QED
    BY <1>1, <1>2, <2>1, <2>2, <2>3, <2>4, <2>5 DEF InverseInvariant, A, B, U, V, x, m, h
<1>5. CASE HalveB
  <2>1. Even(b) /\ b' = Rshift1(b) /\ v' = InvUpdate(v, mod) /\ a' = a /\ u' = u
    BY <1>5 DEF HalveB
  <2> DEFINE h == Value(v')
  <2>2. b' \in Numbers256 /\ Value(b') = B \div 2 /\ B % 2 = 0
    BY <1>2, <1>3, <2>1, LocalOperations
  <2>3. v' \in Numbers256 /\ h < m /\ (2 * h = V \/ 2 * h = V + m) /\ h \in Nat
    <3>1. /\ InvUpdate(v, mod) \in Numbers256 /\ Value(InvUpdate(v, mod)) < m
          /\ \/ 2 * Value(InvUpdate(v, mod)) = V
             \/ 2 * Value(InvUpdate(v, mod)) = V + m
      BY <1>2, InvUpdateExact
    <3> QED
      BY <2>1, <3>1, NumberExact
  <2> HIDE DEF A, B, U, V, x, m, h
  <2>4. Cofactors(A, B \div 2, U, h, x, m) /\ B \div 2 < B
    BY <1>2, <2>2, <2>3, HalveSecond
  <2>5. A + B \div 2 < A + B
    BY <1>2, <2>4
  <2> QED
    BY <1>1, <1>2, <2>1, <2>2, <2>3, <2>4, <2>5 DEF InverseInvariant, A, B, U, V, x, m, h
<1>6. CASE SubtractB
  <2> DEFINE d == Sub(a, b).words
             w == InvMinus(u, v, mod)
             e == Value(w)
             h == Value(u')
  <2>1. /\ ~Even(a) /\ ~Even(b) /\ CmpUnsafe(a, b) > 0 /\ b' = b /\ v' = v
        /\ a' = Rshift1(d) /\ u' = InvUpdate(w, mod)
    BY <1>6 DEF SubtractB
  <2>2. A > B /\ A % 2 = 1 /\ B % 2 = 1
    <3>1. CmpUnsafe(a, b) > 0 <=> A > B
      BY <1>2, LocalOperations
    <3>2. A \in Nat /\ B \in Nat /\ A % 2 # 0 /\ B % 2 # 0
      BY <1>2, <1>3, <2>1
    <3> HIDE DEF A, B
    <3>3. A % 2 = 1 /\ B % 2 = 1
      BY <3>2
    <3> QED
      BY <2>1, <3>1, <3>2, <3>3
  <2>3. d \in Numbers256 /\ Value(d) = A - B
    BY <1>2, <2>2, LocalOperations
  <2>4. a' \in Numbers256 /\ Value(a') = (A - B) \div 2
    BY <2>1, <2>3, LocalOperations
  <2>5. w \in Numbers256 /\ e < m /\ (e = U - V \/ e = U - V + m) /\ e \in Nat
    BY <1>2, InvMinusExact, NumberExact
  <2>6. u' \in Numbers256 /\ h < m /\ (2 * h = e \/ 2 * h = e + m) /\ h \in Nat
    <3>1. /\ InvUpdate(w, mod) \in Numbers256 /\ Value(InvUpdate(w, mod)) < m
          /\ \/ 2 * Value(InvUpdate(w, mod)) = e
             \/ 2 * Value(InvUpdate(w, mod)) = e + m
      BY <1>2, <2>5, InvUpdateExact
    <3> QED
      BY <2>1, <3>1, NumberExact
  <2> HIDE DEF A, B, U, V, x, m, h, e, w, d
  <2>7. Cofactors((A - B) \div 2, B, h, V, x, m) /\ (A - B) \div 2 < A
    BY <1>2, <2>2, <2>5, <2>6, MinusFirst
  <2>8. (A - B) \div 2 + B < A + B
    BY <1>2, <2>2, <2>7
  <2> QED
    BY <1>1, <1>2, <2>1, <2>4, <2>6, <2>7, <2>8 DEF InverseInvariant, A, B, U, V, x, m, h
<1>7. CASE SubtractA
  <2> DEFINE d == Sub(b, a).words
             w == InvMinus(v, u, mod)
             e == Value(w)
             h == Value(v')
  <2>1. /\ ~Even(a) /\ ~Even(b) /\ CmpUnsafe(a, b) < 0 /\ a' = a /\ u' = u
        /\ b' = Rshift1(d) /\ v' = InvUpdate(w, mod)
    BY <1>7 DEF SubtractA
  <2>2. B > A /\ A % 2 = 1 /\ B % 2 = 1
    <3>1. CmpUnsafe(a, b) < 0 <=> A < B
      BY <1>2, LocalOperations
    <3>2. A \in Nat /\ B \in Nat /\ A % 2 # 0 /\ B % 2 # 0
      BY <1>2, <1>3, <2>1
    <3> HIDE DEF A, B
    <3>3. A % 2 = 1 /\ B % 2 = 1
      BY <3>2
    <3> QED
      BY <2>1, <3>1, <3>2, <3>3
  <2>3. d \in Numbers256 /\ Value(d) = B - A
    BY <1>2, <2>2, LocalOperations
  <2>4. b' \in Numbers256 /\ Value(b') = (B - A) \div 2
    BY <2>1, <2>3, LocalOperations
  <2>5. w \in Numbers256 /\ e < m /\ (e = V - U \/ e = V - U + m) /\ e \in Nat
    BY <1>2, InvMinusExact, NumberExact
  <2>6. v' \in Numbers256 /\ h < m /\ (2 * h = e \/ 2 * h = e + m) /\ h \in Nat
    <3>1. /\ InvUpdate(w, mod) \in Numbers256 /\ Value(InvUpdate(w, mod)) < m
          /\ \/ 2 * Value(InvUpdate(w, mod)) = e
             \/ 2 * Value(InvUpdate(w, mod)) = e + m
      BY <1>2, <2>5, InvUpdateExact
    <3> QED
      BY <2>1, <3>1, NumberExact
  <2> HIDE DEF A, B, U, V, x, m, h, e, w, d
  <2>7. Cofactors(A, (B - A) \div 2, U, h, x, m) /\ (B - A) \div 2 < B
    BY <1>2, <2>2, <2>5, <2>6, MinusSecond
  <2>8. A + (B - A) \div 2 < A + B
    BY <1>2, <2>2, <2>7
  <2> QED
    BY <1>1, <1>2, <2>1, <2>4, <2>6, <2>7, <2>8 DEF InverseInvariant, A, B, U, V, x, m, h
<1> QED
  BY <1>4, <1>5, <1>6, <1>7

(* The loop ends with a = b = 1, and u is the inverse.                     *)
LEMMA EndOfLoop ==
  ASSUME InverseInvariant, LoopEnds
  PROVE  InverseInvariant' /\ ipc' = "done" /\ Value(a) = 1
<1> DEFINE A == Value(a)
           B == Value(b)
           U == Value(u)
           V == Value(v)
           x == Value(input)
           m == Value(mod)
<1>1. /\ ipc = "loop" /\ ipc' = "done" /\ input' = input /\ mod' = mod /\ Equal(a, b)
      /\ a' = a /\ b' = b /\ u' = u /\ v' = v
  BY DEF LoopEnds
<1>2. /\ a \in Numbers256 /\ b \in Numbers256 /\ u \in Numbers256 /\ v \in Numbers256
      /\ mod \in Numbers256 /\ input \in Numbers256
      /\ m \in Nat /\ x \in Nat /\ m \in {P, Order} /\ x < m
      /\ Cofactors(A, B, U, V, x, m) /\ U < m /\ A \in Nat
  BY <1>1, InLoopFacts
<1>3. A = B
  BY <1>1, <1>2, LocalOperations
<1> HIDE DEF A, B, U, V, x, m
<1>4. A = 1
  BY <1>2, <1>3, EqualIsOne
<1>5. Congruent(U * x, 1, m)
  BY <1>2, <1>4 DEF Cofactors
<1>6. x # 0
  <2>1. SUFFICES ASSUME x = 0 PROVE FALSE
    OBVIOUS
  <2>2. PICK q \in Int : U * 0 = 1 + m * q
    BY <1>5, <2>1 DEF Congruent
  <2>3. U \in Nat
    BY <1>2 DEF Cofactors
  <2>4. m * q = -1 /\ m >= 3
    <3>1. U * 0 = 0 /\ m * q \in Int
      BY <1>2, <2>3
    <3> QED
      BY <1>2, <2>2, <3>1, Moduli
  <2>5. m * q + 1 = 0 /\ 0 \in 0 .. m - 1 /\ m - 1 \in 0 .. m - 1 /\ m \in Nat \ {0}
    BY <1>2, <2>4
  <2>6. (m * q + 1) % m = 1
    BY <1>2, <2>4, ModUnique
  <2>7. 0 % m = 0
    BY <2>5
  <2> QED
    BY <2>5, <2>6, <2>7
<1> QED
  BY <1>1, <1>2, <1>4, <1>5, <1>6 DEF InverseInvariant, A, B, U, V, x, m

(* Every step keeps the invariant of the inverse.                          *)
LEMMA InverseInvariance == VliSpec => []InverseInvariant
<1>1. VliInit => InverseInvariant
  BY ZeroNumber DEF VliInit, InverseInvariant
<1>2. InverseInvariant /\ [VliNext]_vliVars => InverseInvariant'
  <2> SUFFICES ASSUME InverseInvariant, [VliNext]_vliVars PROVE InverseInvariant'
    OBVIOUS
  <2>1. CASE UNCHANGED inverseVars
    BY <2>1 DEF InverseInvariant, inverseVars
  <2>2. CASE UNCHANGED vliVars
    BY <2>1, <2>2 DEF vliVars, inverseVars
  <2>3. ASSUME NEW l \in Operands, NEW r \in Operands,
               CallArithmetic(Number(l), Number(r)) \/ CallModular(Number(l), Number(r))
        PROVE  InverseInvariant'
    BY <2>1, <2>3 DEF CallArithmetic, CallModular, Call
  <2>4. ASSUME NEW x \in Operands, CallBits(Number(x))
        PROVE  InverseInvariant'
    BY <2>1, <2>4 DEF CallBits, Call
  <2>5. ASSUME NEW x \in Operands, NEW m \in {P, Order}, x < m, ModInvCall(Number(x), Number(m))
        PROVE  InverseInvariant'
    BY <2>5, InverseCalled
  <2>6. CASE CallReturns
    BY <2>1, <2>6 DEF CallReturns
  <2>7. CASE HalveA \/ HalveB \/ SubtractA \/ SubtractB
    BY <2>7, RoundOfLoop
  <2>8. CASE LoopEnds
    BY <2>8, EndOfLoop
  <2>9. CASE ModInvReturns
    BY <2>9, ZeroNumber DEF ModInvReturns, InverseInvariant
  <2> QED
    BY <2>2, <2>3, <2>4, <2>5, <2>6, <2>7, <2>8, <2>9 DEF VliNext, InverseStep
<1> QED
  BY <1>1, <1>2, PTL DEF VliSpec

(* The loop keeps u * input = a and v * input = b modulo the modulus, with *)
(* u and v below it, and what it ends with is the inverse.                 *)
THEOREM InverseIsRight == VliSpec => []InverseLoop
<1>1. ASSUME InverseInvariant PROVE InverseLoop
  <2> DEFINE A == Value(a)
             B == Value(b)
             U == Value(u)
             V == Value(v)
             x == Value(input)
             m == Value(mod)
  <2>1. ASSUME ipc = "loop"
        PROVE  U < m /\ V < m /\ (U * x) % m = A /\ (V * x) % m = B % m
    <3>1. m \in Nat \ {0} /\ Cofactors(A, B, U, V, x, m) /\ U < m /\ V < m
      BY <1>1, <2>1, InLoopFacts, Moduli
    <3> HIDE DEF A, B, U, V, x, m
    <3>2. A \in 0 .. m - 1 /\ B \in 1 .. m
      BY <3>1 DEF Cofactors
    <3>3. PICK q \in Int : U * x = A + m * q
      BY <3>1 DEF Cofactors, Congruent
    <3>4. PICK r \in Int : V * x = B + m * r
      BY <3>1 DEF Cofactors, Congruent
    <3>5. (A + m * q) % m = A % m /\ (B + m * r) % m = B % m
      <4>1. A \in Int /\ B \in Int /\ m \in Nat \ {0}
        BY <3>1, <3>2
      <4> QED
        BY <4>1, ModTurns, Zenon
    <3>6. A % m = A
      BY <3>1, <3>2
    <3> QED
      BY <3>1, <3>3, <3>4, <3>5, <3>6
  <2>2. ASSUME ipc = "done"
        PROVE  IF x = 0 THEN IsZero(u) ELSE U < m /\ (U * x) % m = 1
    <3>1. CASE x = 0
      <4>1. U = 0 /\ u \in WordsOf(NumWords) /\ NumWords \in Nat
        BY <1>1, <2>2, <3>1, VliAssumption, BaseEven DEF InverseInvariant, Numbers256
      <4> QED
        BY <3>1, <4>1, ZeroValue
    <3>2. CASE x # 0
      <4>1. m \in {P, Order} /\ U < m /\ Congruent(U * x, 1, m)
        BY <1>1, <2>2, <3>2 DEF InverseInvariant
      <4>2. m \in Nat \ {0} /\ m >= 3
        BY <4>1, Moduli
      <4> HIDE DEF U, x, m
      <4>3. PICK q \in Int : U * x = 1 + m * q
        BY <4>1 DEF Congruent
      <4>4. (1 + m * q) % m = 1 % m
        <5>1. 1 \in Int /\ m \in Nat \ {0}
          BY <4>2
        <5> QED
          BY <5>1, ModTurns, Zenon
      <4>5. 1 % m = 1
        BY <4>2
      <4> QED
        BY <3>2, <4>1, <4>3, <4>4, <4>5
    <3> QED
      BY <3>1, <3>2
  <2> QED
    BY <2>1, <2>2 DEF InverseLoop
<1> QED
  BY <1>1, InverseInvariance, PTL

(* Every round makes one of a and b smaller and leaves both positive, so   *)
(* that the loop ends, and it ends with one.                               *)
THEOREM InverseEnds == VliSpec => InverseShrinks
<1>1. InverseInvariant /\ [VliNext]_vliVars
        => [ipc = "loop" =>
              IF ipc' = "loop"
              THEN /\ Value(a') + Value(b') < Value(a) + Value(b)
                   /\ Value(a') > 0 /\ Value(b') > 0
              ELSE Value(a) = 1]_inverseVars
  <2> DEFINE Shrinks ==
        IF ipc' = "loop"
        THEN /\ Value(a') + Value(b') < Value(a) + Value(b)
             /\ Value(a') > 0 /\ Value(b') > 0
        ELSE Value(a) = 1
  <2> SUFFICES ASSUME InverseInvariant, [VliNext]_vliVars, ipc = "loop"
               PROVE  Shrinks \/ UNCHANGED inverseVars
    OBVIOUS
  <2>1. CASE UNCHANGED vliVars
    BY <2>1 DEF vliVars, inverseVars
  <2>2. CASE CallReturns
    BY <2>2 DEF CallReturns
  <2>3. CASE HalveA \/ HalveB \/ SubtractA \/ SubtractB
    <3>1. InverseInvariant' /\ ipc' = "loop" /\ Value(a') + Value(b') < Value(a) + Value(b)
      BY <2>3, RoundOfLoop
    <3>2. Cofactors(Value(a'), Value(b'), Value(u'), Value(v'), Value(input'), Value(mod'))
      BY <3>1 DEF InverseInvariant
    <3>3. Value(a') > 0 /\ Value(b') > 0
      BY <3>2 DEF Cofactors
    <3> QED
      BY <3>1, <3>3
  <2>4. CASE LoopEnds
    <3>1. ipc' = "done" /\ Value(a) = 1
      BY <2>4, EndOfLoop
    <3> QED
      BY <3>1
  <2>5. ~ModInvReturns
    BY DEF ModInvReturns
  <2> QED
    BY <2>1, <2>2, <2>3, <2>4, <2>5 DEF VliNext, InverseStep
<1> QED
  BY <1>1, InverseInvariance, PTL DEF VliSpec, InverseShrinks

-----------------------------------------------------------------------------
(* The product.                                                            *)

(* The sums of the first members of f, of which there are n.               *)
Totals(f, n) ==
  LET total[k \in 0 .. n] == IF k = 0 THEN 0 ELSE total[k - 1] + f[k] IN total
(* The equation of Totals.                                                 *)
TotalsOf(f, n, t) == t = [k \in 0 .. n |-> IF k = 0 THEN 0 ELSE t[k - 1] + f[k]]

(* The sums exist and have their equations.                                *)
LEMMA TotalsDef ==
  ASSUME NEW n \in Nat, NEW f, \A k \in 1 .. n : f[k] \in Nat
  PROVE  /\ Totals(f, n) \in [0 .. n -> Nat] /\ Totals(f, n)[0] = 0
         /\ \A k \in 1 .. n : Totals(f, n)[k] = Totals(f, n)[k - 1] + f[k]
<1> DEFINE S == Nat
           zero == 0
           step == [k \in 1 .. n |-> [s \in S |-> s + f[k]]]
<1>1. step \in [1 .. n -> [S -> S]] /\ zero \in S
  OBVIOUS
<1>2. ASSUME NEW t \in [0 .. n -> S], Loops(t, n, zero, step)
      PROVE  TotalsOf(f, n, t)
  <2>1. ASSUME NEW k \in 1 .. n PROVE t[k] = t[k - 1] + f[k]
    <3>1. t[k - 1] \in S
      OBVIOUS
    <3>2. step[k] = [s \in S |-> s + f[k]]
      OBVIOUS
    <3> HIDE DEF step, S, zero
    <3>3. t[k] = step[k][t[k - 1]]
      BY <1>2 DEF Loops
    <3> QED
      BY <3>1, <3>2, <3>3
  <2>2. t[0] = 0
    BY <1>2 DEF Loops
  <2> QED
    BY <2>1, <2>2 DEF TotalsOf
<1> HIDE DEF step, S, zero
<1>3. \E t : TotalsOf(f, n, t)
  BY <1>1, <1>2, LoopExists
<1>4. TotalsOf(f, n, CHOOSE t : TotalsOf(f, n, t))
  BY <1>3
<1> DEFINE t == Totals(f, n)
<1>5. t = CHOOSE x : TotalsOf(f, n, x)
  BY DEF Totals, TotalsOf
<1> HIDE DEF t
<1>6. TotalsOf(f, n, t)
  BY <1>4, <1>5
<1>7. t = [k \in 0 .. n |-> t[k]] /\ t[0] = 0
  BY <1>6 DEF TotalsOf
<1>8. \A k \in 1 .. n : t[k] = t[k - 1] + f[k]
  BY <1>6 DEF TotalsOf
<1>9. \A k \in 1 .. n : t[k - 1] \in Nat => t[k] \in Nat
  BY <1>8
<1>10. t \in [0 .. n -> Nat]
  <2> DEFINE N == Nat
  <2>1. t[0] \in N /\ \A k \in 1 .. n : t[k - 1] \in N => t[k] \in N
    BY <1>7, <1>9
  <2> HIDE DEF N
  <2>2. t \in [0 .. n -> N]
    BY <1>7, <2>1, LoopTyped
  <2> QED
    BY <2>2 DEF N
<1> QED
  BY <1>7, <1>8, <1>10 DEF t

(* The three words of the accumulator.                                     *)
Accumulator == Word \X Word \X Word
AccValue(r) == r[1] + Base * (r[2] + Base * r[3])

(* muladd: a sum of two words that wrapped is less than what was added.    *)
LEMMA MuladdExact ==
  ASSUME NEW x \in Word, NEW y \in Word, NEW r \in Accumulator
  PROVE  /\ Muladd(x, y, r) \in Accumulator
         /\ AccValue(r) + x * y < Base * (Base * Base) =>
              AccValue(Muladd(x, y, r)) = AccValue(r) + x * y
<1> DEFINE B == Base
           M == B * B
           T == r[2] * B + r[1]
           Q == x * y
           r01 == (T + Q) % M
           c == IF r01 < Q THEN 1 ELSE 0
           h == r01 \div B
           l == r01 % B
           top == (r[3] + c) % B
<1>1. B \in Nat \ {0} /\ B >= 2
  BY BaseEven
<1>2. r[1] \in 0 .. B - 1 /\ r[2] \in 0 .. B - 1 /\ r[3] \in 0 .. B - 1
  BY DEF Accumulator, Word
<1>3. x \in 0 .. B - 1 /\ y \in 0 .. B - 1
  BY DEF Word
<1>4. Muladd(x, y, r) = <<l, h, top>>
  BY DEF Muladd, Bit
<1> DEFINE r1 == r[1]
           r2 == r[2]
           r3 == r[3]
<1>5. /\ r1 \in 0 .. B - 1 /\ r2 \in 0 .. B - 1 /\ r3 \in 0 .. B - 1 /\ T = r2 * B + r1
      /\ AccValue(r) = r1 + B * (r2 + B * r3) /\ top = (r3 + c) % B
  BY <1>2 DEF AccValue
<1> HIDE DEF B, r1, r2, r3
<1>6. M \in Nat \ {0}
  BY <1>1
<1>7. T \in 0 .. M - 1
  <2>1. B * r2 + r1 \in 0 .. B * B - 1
    BY <1>1, <1>5, TwoDigits
  <2>2. B * r2 = r2 * B
    BY <1>1, <1>5
  <2> QED
    BY <1>5, <2>1, <2>2
<1>8. Q \in 0 .. M - 1
  <2>1. x \in Nat /\ y \in Nat /\ B \in Nat /\ B >= y /\ B >= x + 1 /\ x + 1 \in Nat
    BY <1>1, <1>3
  <2>2. x * B >= x * y /\ x * y \in Nat
    BY <2>1, TimesMonotone
  <2>3. B * B >= B * (x + 1) /\ B * (x + 1) = x * B + B
    <3>1. B * (x + 1) = x * B + B
      BY <2>1
    <3> QED
      BY <2>1, <3>1, TimesMonotone
  <2>4. x * B \in Nat
    BY <2>1
  <2> QED
    BY <1>1, <1>6, <2>2, <2>3, <2>4
<1> HIDE DEF T, Q
<1>9. r01 \in 0 .. M - 1 /\ r01 + M * c = T + Q /\ c \in 0 .. 1
  <2> HIDE DEF M
  <2>1. CASE T + Q < M
    <3>1. r01 = T + Q
      BY <1>6, <1>7, <1>8, <2>1
    <3> HIDE DEF r01
    <3>2. c = 0 /\ M * 0 = 0
      BY <1>6, <1>7, <1>8, <3>1
    <3> QED
      BY <1>6, <1>7, <1>8, <2>1, <3>1, <3>2
  <2>2. CASE ~(T + Q < M)
    <3>1. T + Q = M * 1 + (T + Q - M) /\ T + Q - M \in 0 .. M - 1 /\ T + Q \in Int
      BY <1>6, <1>7, <1>8, <2>2
    <3>2. r01 = T + Q - M
      BY <1>6, <3>1, ModUnique
    <3> HIDE DEF r01
    <3>3. c = 1 /\ M * 1 = M
      BY <1>6, <1>7, <1>8, <3>2
    <3> QED
      BY <1>6, <1>7, <1>8, <3>1, <3>2, <3>3
  <2> QED
    BY <2>1, <2>2
<1> HIDE DEF r01, c
<1>10. h \in 0 .. B - 1 /\ l \in 0 .. B - 1 /\ B * h + l = r01
  <2>1. r01 \in Nat
    BY <1>6, <1>9
  <2>2. h \in Nat /\ l \in 0 .. B - 1 /\ B * h + l = r01
    BY <1>1, <2>1, Parts
  <2> HIDE DEF h, l
  <2>3. h < B
    <3>1. SUFFICES ASSUME h >= B PROVE FALSE
      BY <1>1, <2>2
    <3>2. B * h >= B * B /\ B * h \in Nat
      BY <1>1, <2>2, <3>1, TimesMonotone
    <3> QED
      BY <1>6, <1>9, <2>2, <3>2
  <2> QED
    BY <1>1, <2>2, <2>3
<1> HIDE DEF h, l
<1>11. AccValue(r) + Q = r01 + M * (r3 + c)
  <2>1. B * (r2 + B * r3) = r2 * B + M * r3 /\ r2 * B \in Nat /\ M * r3 \in Nat
    <3>1. B * (B * r3) = (B * B) * r3 /\ B * r3 \in Nat /\ (B * B) * r3 \in Nat
      BY <1>1, <1>5
    <3>2. B * (r2 + B * r3) = B * r2 + B * (B * r3) /\ B * r2 = r2 * B /\ r2 * B \in Nat
      BY <1>1, <1>5
    <3> QED
      BY <3>1, <3>2
  <2>2. M * (r3 + c) = M * r3 + M * c /\ M * c \in Nat
    <3>1. r3 \in Nat /\ c \in Nat /\ M \in Nat
      BY <1>5, <1>6, <1>9
    <3> HIDE DEF M
    <3> QED
      BY <3>1
  <2> HIDE DEF M
  <2>3. T = r2 * B + r1
    BY <1>5
  <2> QED
    BY <1>5, <1>6, <1>7, <1>8, <1>9, <2>1, <2>2, <2>3
<1>12. ASSUME AccValue(r) + Q < B * M PROVE r3 + c < B
  <2>1. SUFFICES ASSUME r3 + c >= B PROVE FALSE
    BY <1>1, <1>5, <1>9
  <2>2. r3 + c \in Nat /\ B \in Nat /\ M \in Nat
    BY <1>1, <1>5, <1>6, <1>9
  <2>3. M * (r3 + c) >= M * B /\ M * (r3 + c) \in Nat /\ M * B = B * M /\ M * B \in Nat
    <3>1. M * (r3 + c) >= M * B /\ M * (r3 + c) \in Nat /\ M * B \in Nat
      BY <2>1, <2>2, TimesMonotone
    <3>2. M * B = B * M
      BY <1>1
    <3> QED
      BY <3>1, <3>2
  <2> HIDE DEF M
  <2> QED
    BY <1>5, <1>9, <1>11, <1>12, <2>3, <1>6
<1>13. ASSUME AccValue(r) + Q < B * M PROVE top = r3 + c
  <2>1. r3 + c \in 0 .. B - 1
    BY <1>1, <1>5, <1>9, <1>12, <1>13
  <2> QED
    BY <1>1, <1>5, <2>1
<1>14. ASSUME AccValue(r) + Q < B * M PROVE l + B * (h + B * top) = r01 + M * (r3 + c)
  <2>1. r3 + c \in Nat
    BY <1>5, <1>9
  <2> DEFINE y3 == r3 + c
  <2>2. y3 \in Nat /\ top = y3
    BY <1>13, <1>14, <2>1
  <2> HIDE DEF y3, top
  <2>3. B * (h + B * y3) = B * h + (B * B) * y3 /\ B * h \in Nat /\ (B * B) * y3 \in Nat
    BY <1>1, <1>10, <2>2
  <2> QED
    BY <1>10, <2>2, <2>3 DEF y3
<1>15. top \in 0 .. B - 1
  <2>1. r3 + c \in Int
    BY <1>5, <1>9
  <2> QED
    BY <1>1, <1>5, <2>1
<1> HIDE DEF top
<1>16. <<l, h, top>> \in Accumulator
  BY <1>10, <1>15 DEF Accumulator, Word, B
<1>17. AccValue(<<l, h, top>>) = l + B * (h + B * top)
  BY DEF AccValue, B
<1> QED
  BY <1>4, <1>11, <1>14, <1>16, <1>17 DEF Q, B

(* The products of column k.                                               *)
Cells(l, r, n, k) ==
  [x \in 1 .. n |-> IF k + 1 - x \in 1 .. n THEN l[x] * r[k + 1 - x] ELSE 0]

(* A product of two words.                                                 *)
LEMMA CellBound ==
  ASSUME NEW x \in Word, NEW y \in Word
  PROVE  x * y \in Nat /\ x * y <= (Base - 1) * (Base - 1)
<1>1. x \in Nat /\ y \in Nat /\ Base - 1 \in Nat /\ Base - 1 >= x /\ Base - 1 >= y
  BY BaseEven DEF Word
<1>2. x * (Base - 1) >= x * y /\ x * y \in Nat
  BY <1>1, TimesMonotone
<1>3. (Base - 1) * (Base - 1) >= (Base - 1) * x /\ (Base - 1) * x = x * (Base - 1)
  <2>1. (Base - 1) * x = x * (Base - 1)
    BY <1>1
  <2> QED
    BY <1>1, <2>1, TimesMonotone
<1> DEFINE E == (Base - 1) * (Base - 1)
           F == x * (Base - 1)
           Q == x * y
<1>4. E \in Nat /\ F \in Nat /\ Q \in Nat /\ E >= F /\ F >= Q
  BY <1>1, <1>2, <1>3
<1> HIDE DEF E, F, Q
<1>5. E >= Q
  BY <1>4
<1> QED
  BY <1>2, <1>5 DEF E, Q

(* So are all products of a column.                                        *)
LEMMA CellsBound ==
  ASSUME NEW n \in Nat, NEW l \in WordsOf(n), NEW r \in WordsOf(n), NEW k \in Nat
  PROVE  \A x \in 1 .. n : /\ Cells(l, r, n, k)[x] \in Nat
                           /\ Cells(l, r, n, k)[x] <= (Base - 1) * (Base - 1)
<1>1. ASSUME NEW x \in 1 .. n
      PROVE  /\ Cells(l, r, n, k)[x] \in Nat
             /\ Cells(l, r, n, k)[x] <= (Base - 1) * (Base - 1)
  <2>1. CASE k + 1 - x \in 1 .. n
    <3>1. Cells(l, r, n, k)[x] = l[x] * r[k + 1 - x]
      BY <2>1 DEF Cells
    <3>2. l[x] \in Word /\ r[k + 1 - x] \in Word
      BY <2>1 DEF WordsOf
    <3> QED
      BY <3>1, <3>2, CellBound
  <2>2. CASE ~(k + 1 - x \in 1 .. n)
    <3>1. Cells(l, r, n, k)[x] = 0
      BY <2>2 DEF Cells
    <3>2. 0 \in Word /\ 0 * 0 = 0
      BY BaseEven DEF Word
    <3> QED
      BY <3>1, <3>2, CellBound
  <2> QED
    BY <2>1, <2>2
<1> QED
  BY <1>1

(* As many products as there are words leave room in the accumulator.      *)
LEMMA ColumnRoom ==
  ASSUME NEW n \in 0 .. Base
  PROVE  /\ n * (Base - 1) + n * ((Base - 1) * (Base - 1)) = Base * (n * (Base - 1))
         /\ Base * (n * (Base - 1)) < Base * (Base * Base)
         /\ n * (Base - 1) \in Nat /\ n * ((Base - 1) * (Base - 1)) \in Nat
<1> DEFINE B == Base
           D == B - 1
<1>1. B \in Nat /\ B >= 2 /\ D \in Nat /\ B = D + 1 /\ n \in Nat /\ B >= n
  BY BaseEven
<1> HIDE DEF B, D
<1> DEFINE G == n * D
<1>2. G \in Nat /\ n * (D * D) = G * D /\ n * (D * D) \in Nat
  BY <1>1
<1> HIDE DEF G
<1>3. G + G * D = B * G
  BY <1>1, <1>2
<1>4. B * B > G
  <2>1. D * B >= D * n /\ D * n = G /\ D * B \in Nat
    <3>1. D * n = G
      BY <1>1 DEF G
    <3> QED
      BY <1>1, <3>1, TimesMonotone
  <2>2. B * B = D * B + B
    BY <1>1
  <2> QED
    BY <1>1, <1>2, <2>1, <2>2
<1>5. B * (B * B) > B * G
  <2>1. B * B >= G + 1 /\ B * B \in Nat /\ G + 1 \in Nat
    BY <1>1, <1>2, <1>4
  <2>2. B * (B * B) >= B * (G + 1) /\ B * (B * B) \in Nat
    BY <1>1, <2>1, TimesMonotone
  <2>3. B * (G + 1) = B * G + B /\ B * G \in Nat
    BY <1>1, <1>2
  <2> QED
    BY <1>1, <2>2, <2>3
<1> QED
  BY <1>2, <1>3, <1>5 DEF B, D, G

(* The turns of the inner loop of uECC_vli_mult, and the equation of       *)
(* Column.                                                                 *)
ColumnSteps(l, r, n, k, f) ==
  \A x \in 1 .. n :
    f[x] = IF k + 1 - x \in 1 .. n THEN Muladd(l[x], r[k + 1 - x], f[x - 1]) ELSE f[x - 1]
ColumnOf(l, r, n, k, start, f) ==
  f = [x \in 0 .. n |->
         IF x = 0 THEN start
         ELSE IF k + 1 - x \in 1 .. n THEN Muladd(l[x], r[k + 1 - x], f[x - 1])
         ELSE f[x - 1]]

(* The accumulator of a column, after each product.                        *)
LEMMA ColumnDef ==
  ASSUME NEW n \in Nat, NEW l \in WordsOf(n), NEW r \in WordsOf(n), NEW k \in Nat,
         NEW start \in Accumulator
  PROVE  \E f \in [0 .. n -> Accumulator] :
           f[0] = start /\ Column(l, r, k, start) = f[n] /\ ColumnSteps(l, r, n, k, f)
<1> DEFINE S == Accumulator
           step == [x \in 1 .. n |-> [s \in S |->
                      IF k + 1 - x \in 1 .. n THEN Muladd(l[x], r[k + 1 - x], s) ELSE s]]
<1>1. step \in [1 .. n -> [S -> S]]
  <2>1. ASSUME NEW x \in 1 .. n, NEW s \in S, k + 1 - x \in 1 .. n
        PROVE  Muladd(l[x], r[k + 1 - x], s) \in S
    <3>1. l[x] \in Word /\ r[k + 1 - x] \in Word
      BY <2>1 DEF WordsOf
    <3> QED
      BY <3>1, MuladdExact
  <2> QED
    BY <2>1
<1>2. ASSUME NEW f \in [0 .. n -> S], Loops(f, n, start, step)
      PROVE  ColumnOf(l, r, n, k, start, f)
  <2>1. ASSUME NEW x \in 1 .. n
        PROVE  f[x] = IF k + 1 - x \in 1 .. n THEN Muladd(l[x], r[k + 1 - x], f[x - 1])
                      ELSE f[x - 1]
    <3>1. f[x - 1] \in S
      OBVIOUS
    <3>2. step[x] = [s \in S |->
                      IF k + 1 - x \in 1 .. n THEN Muladd(l[x], r[k + 1 - x], s) ELSE s]
      OBVIOUS
    <3> HIDE DEF step, S
    <3>3. f[x] = step[x][f[x - 1]]
      BY <1>2 DEF Loops
    <3> QED
      BY <3>1, <3>2, <3>3
  <2>2. f[0] = start
    BY <1>2 DEF Loops
  <2> HIDE DEF step
  <2> QED
    BY <2>1, <2>2 DEF ColumnOf
<1> HIDE DEF step, S
<1>3. \E f : ColumnOf(l, r, n, k, start, f)
  BY <1>1, <1>2, LoopExists DEF S
<1>4. ColumnOf(l, r, n, k, start, CHOOSE f : ColumnOf(l, r, n, k, start, f))
  BY <1>3
<1> DEFINE g == CHOOSE f : ColumnOf(l, r, n, k, start, f)
<1>5. Column(l, r, k, start) = g[n]
  <2>1. Len(l) = n
    BY Lengths DEF WordsOf
  <2> QED
    BY <2>1 DEF Column, ColumnOf
<1> HIDE DEF g
<1>6. ColumnOf(l, r, n, k, start, g)
  BY <1>4 DEF g
<1>7. g = [x \in 0 .. n |-> g[x]] /\ g[0] = start
  BY <1>6 DEF ColumnOf
<1>8. \A x \in 1 .. n : g[x] = IF k + 1 - x \in 1 .. n THEN Muladd(l[x], r[k + 1 - x], g[x - 1])
                               ELSE g[x - 1]
  BY <1>6 DEF ColumnOf
<1>9. ASSUME NEW x \in 1 .. n, g[x - 1] \in S PROVE g[x] \in S
  <2>1. CASE k + 1 - x \in 1 .. n
    <3>1. l[x] \in Word /\ r[k + 1 - x] \in Word
      BY <2>1 DEF WordsOf
    <3>2. g[x] = Muladd(l[x], r[k + 1 - x], g[x - 1])
      BY <1>8, <2>1
    <3> QED
      BY <1>9, <3>1, <3>2, MuladdExact DEF S
  <2> QED
    BY <1>8, <1>9, <2>1
<1>10. g[0] \in S
  BY <1>7 DEF S
<1>11. g \in [0 .. n -> S]
  BY <1>7, <1>9, <1>10, LoopTyped
<1> QED
  BY <1>5, <1>7, <1>8, <1>11 DEF S, ColumnSteps

(* A column adds its products to the accumulator, which has the room.      *)
LEMMA ColumnExact ==
  ASSUME NEW n \in 0 .. Base, NEW l \in WordsOf(n), NEW r \in WordsOf(n), NEW k \in Nat,
         NEW start \in Accumulator, AccValue(start) <= n * (Base - 1)
  PROVE  /\ Column(l, r, k, start) \in Accumulator
         /\ AccValue(Column(l, r, k, start)) = AccValue(start) + Totals(Cells(l, r, n, k), n)[n]
         /\ AccValue(Column(l, r, k, start)) <= Base * (n * (Base - 1))
<1> DEFINE c == Cells(l, r, n, k)
           t == Totals(c, n)
           E == (Base - 1) * (Base - 1)
           s == AccValue(start)
           top == Base * (n * (Base - 1))
<1>1. n \in Nat /\ E \in Nat /\ E >= 0
  BY BaseEven
<1>2. \A x \in 1 .. n : c[x] \in Nat /\ c[x] <= E
  BY <1>1, CellsBound
<1>3. t \in [0 .. n -> Nat] /\ t[0] = 0 /\ \A x \in 1 .. n : t[x] = t[x - 1] + c[x]
  BY <1>1, <1>2, TotalsDef
<1>4. PICK f \in [0 .. n -> Accumulator] :
           f[0] = start /\ Column(l, r, k, start) = f[n] /\ ColumnSteps(l, r, n, k, f)
  BY <1>1, ColumnDef
<1>5. s \in Nat
  <2>1. start[1] \in Nat /\ start[2] \in Nat /\ start[3] \in Nat /\ Base \in Nat
    BY BaseEven DEF Accumulator, Word
  <2> DEFINE p == start[1]
             q == start[2]
             w == start[3]
  <2>2. s = p + Base * (q + Base * w) /\ p \in Nat /\ q \in Nat /\ w \in Nat /\ Base \in Nat
    BY <2>1 DEF AccValue
  <2> HIDE DEF p, q, w, s
  <2> QED
    BY <2>2
<1>6. s + n * E <= top /\ top < Base * (Base * Base) /\ top \in Nat /\ n * E \in Nat
  <2>1. n * (Base - 1) + n * E = top /\ top < Base * (Base * Base)
        /\ n * (Base - 1) \in Nat /\ n * E \in Nat
    BY ColumnRoom
  <2> DEFINE G == n * (Base - 1)
  <2>2. G + n * E = top /\ s <= G /\ G \in Nat /\ n * E \in Nat
    BY <2>1
  <2> DEFINE H == n * E
  <2> HIDE DEF G, s, top, H
  <2>3. s + H <= top /\ top \in Nat
    BY <1>5, <2>2 DEF H
  <2> QED
    BY <2>1, <2>3 DEF H
<1> HIDE DEF c, t, E, s, top
<1> DEFINE T == {x \in Nat : x <= n => AccValue(f[x]) = s + t[x] /\ t[x] <= x * E}
<1>7. 0 \in T
  <2>1. AccValue(f[0]) = s /\ t[0] = 0 /\ 0 * E = 0
    BY <1>1, <1>3, <1>4 DEF s
  <2> QED
    BY <1>5, <2>1
<1>8. ASSUME NEW x \in T PROVE x + 1 \in T
  <2>1. SUFFICES ASSUME x + 1 <= n
                 PROVE  AccValue(f[x + 1]) = s + t[x + 1] /\ t[x + 1] <= (x + 1) * E
    OBVIOUS
  <2>2. /\ x \in Nat /\ x \in 0 .. n /\ x + 1 \in 1 .. n /\ (x + 1) - 1 = x /\ x + 1 \in Nat
        /\ AccValue(f[x]) = s + t[x] /\ t[x] <= x * E
    BY <1>1, <2>1
  <2>3. t[x + 1] = t[x] + c[x + 1] /\ c[x + 1] \in Nat /\ c[x + 1] <= E /\ t[x] \in Nat
    <3>1. t[x + 1] = t[(x + 1) - 1] + c[x + 1]
      BY <1>3, <2>2
    <3> QED
      BY <1>2, <1>3, <2>2, <3>1
  <2>4. t[x + 1] <= (x + 1) * E /\ t[x + 1] \in Nat /\ (x + 1) * E \in Nat
    <3>1. (x + 1) * E = x * E + E /\ x * E \in Nat
      BY <1>1, <2>2
    <3> QED
      BY <1>1, <2>2, <2>3, <3>1
  <2>5. s + t[x + 1] < Base * (Base * Base)
    <3>1. E * n >= E * (x + 1) /\ E * n = n * E /\ E * (x + 1) = (x + 1) * E
      <4>1. E * n = n * E /\ E * (x + 1) = (x + 1) * E
        BY <1>1, <2>2
      <4>2. n >= x + 1
        BY <2>1
      <4> QED
        BY <1>1, <2>2, <4>1, <4>2, TimesMonotone
    <3> DEFINE G == n * E
               H == (x + 1) * E
               K == Base * (Base * Base)
    <3>2. G >= H /\ H >= t[x + 1] /\ s + G <= top /\ top < K /\ G \in Nat /\ H \in Nat /\ K \in Nat
      BY <1>6, <2>4, <3>1, BaseEven
    <3> HIDE DEF G, H, K
    <3>3. s + t[x + 1] < K
      BY <1>5, <1>6, <2>4, <3>2
    <3> QED
      BY <3>3 DEF K
  <2>6. f[x] \in Accumulator
    BY <1>4, <2>2
  <2>7. AccValue(f[x + 1]) = AccValue(f[x]) + c[x + 1]
    <3>1. f[x + 1] = IF k + 1 - (x + 1) \in 1 .. n THEN Muladd(l[x + 1], r[k + 1 - (x + 1)], f[(x + 1) - 1])
                     ELSE f[(x + 1) - 1]
      BY <1>4, <2>2 DEF ColumnSteps
    <3>2. c[x + 1] = IF k + 1 - (x + 1) \in 1 .. n THEN l[x + 1] * r[k + 1 - (x + 1)] ELSE 0
      BY <2>2 DEF c, Cells
    <3>3. CASE k + 1 - (x + 1) \in 1 .. n
      <4>1. f[x + 1] = Muladd(l[x + 1], r[k + 1 - (x + 1)], f[x])
        BY <2>2, <3>1, <3>3
      <4>2. c[x + 1] = l[x + 1] * r[k + 1 - (x + 1)]
        BY <3>2, <3>3
      <4>3. l[x + 1] \in Word /\ r[k + 1 - (x + 1)] \in Word
        BY <2>2, <3>3 DEF WordsOf
      <4>4. AccValue(f[x]) + c[x + 1] = s + t[x + 1]
        BY <1>5, <2>2, <2>3
      <4>5. AccValue(f[x]) + l[x + 1] * r[k + 1 - (x + 1)] < Base * (Base * Base)
        BY <2>5, <4>2, <4>4
      <4> QED
        BY <2>6, <4>1, <4>2, <4>3, <4>5, MuladdExact
    <3>4. CASE ~(k + 1 - (x + 1) \in 1 .. n)
      <4>1. f[x + 1] = f[x] /\ c[x + 1] = 0
        BY <2>2, <3>1, <3>2, <3>4
      <4>2. AccValue(f[x]) \in Int
        BY <1>5, <2>2, <2>3
      <4> QED
        BY <4>1, <4>2
    <3> QED
      BY <3>3, <3>4
  <2>8. AccValue(f[x + 1]) = s + t[x + 1]
    BY <1>5, <2>2, <2>3, <2>7
  <2> QED
    BY <2>4, <2>8
<1>9. T \in SUBSET Nat
  OBVIOUS
<1> HIDE DEF T
<1>10. T = Nat
  BY <1>7, <1>8, <1>9, Induct
<1>11. AccValue(f[n]) = s + t[n] /\ t[n] <= n * E
  BY <1>1, <1>10 DEF T
<1>12. t[n] \in Nat
  BY <1>1, <1>3
<1>13. AccValue(f[n]) <= top
  <2> DEFINE H == n * E
  <2>1. s + H <= top /\ t[n] <= H /\ H \in Nat
    BY <1>6, <1>11
  <2> HIDE DEF H
  <2> QED
    BY <1>5, <1>6, <1>11, <1>12, <2>1
<1>14. f[n] \in Accumulator
  BY <1>1, <1>4
<1> QED
  BY <1>4, <1>11, <1>13, <1>14 DEF t, c, s, top

(* Column k as far as the first j words of l go, and the columns up to K   *)
(* at their places.                                                        *)
ColumnSum(l, r, n, k, j) == Totals(Cells(l, r, n, k), n)[j]
Placed(l, r, n, j) == [k \in 1 .. 2 * n - 1 |-> ColumnSum(l, r, n, k, j) * Power(Base)[k - 1]]
PlacedSum(l, r, n, j, k) == Totals(Placed(l, r, n, j), 2 * n - 1)[k]

(* The part of a column grows by one product for each word of l.           *)
LEMMA ColumnSumSteps ==
  ASSUME NEW n \in Nat, NEW l \in WordsOf(n), NEW r \in WordsOf(n), NEW k \in Nat
  PROVE  /\ ColumnSum(l, r, n, k, 0) = 0
         /\ \A j \in 0 .. n : ColumnSum(l, r, n, k, j) \in Nat
         /\ \A j \in 1 .. n :
              ColumnSum(l, r, n, k, j) = ColumnSum(l, r, n, k, j - 1) + Cells(l, r, n, k)[j]
<1>1. \A x \in 1 .. n : Cells(l, r, n, k)[x] \in Nat
  BY CellsBound
<1> QED
  BY <1>1, TotalsDef DEF ColumnSum

(* The columns are added up one by one.                                    *)
LEMMA PlacedSumSteps ==
  ASSUME NEW n \in Nat \ {0}, NEW l \in WordsOf(n), NEW r \in WordsOf(n), NEW j \in 0 .. n
  PROVE  /\ PlacedSum(l, r, n, j, 0) = 0
         /\ \A k \in 0 .. 2 * n - 1 : PlacedSum(l, r, n, j, k) \in Nat
         /\ \A k \in 1 .. 2 * n - 1 :
              PlacedSum(l, r, n, j, k)
                = PlacedSum(l, r, n, j, k - 1) + ColumnSum(l, r, n, k, j) * Power(Base)[k - 1]
<1> DEFINE f == Placed(l, r, n, j)
           N == 2 * n - 1
<1>1. n \in Nat /\ N \in Nat
  OBVIOUS
<1>2. ASSUME NEW k \in 1 .. N
      PROVE  f[k] = ColumnSum(l, r, n, k, j) * Power(Base)[k - 1] /\ f[k] \in Nat
  <2> DEFINE x == ColumnSum(l, r, n, k, j)
             y == Power(Base)[k - 1]
  <2>1. k \in Nat /\ k - 1 \in Nat
    BY <1>1
  <2>2. x \in Nat
    BY <1>1, <2>1, ColumnSumSteps
  <2>3. y \in Nat
    BY <2>1, BasePowers
  <2>4. f[k] = x * y
    BY DEF Placed
  <2> HIDE DEF x, y, f
  <2>5. x * y \in Nat
    BY <2>2, <2>3
  <2> QED
    BY <2>4, <2>5 DEF x, y
<1> HIDE DEF f, N
<1>3. /\ Totals(f, N) \in [0 .. N -> Nat] /\ Totals(f, N)[0] = 0
      /\ \A k \in 1 .. N : Totals(f, N)[k] = Totals(f, N)[k - 1] + f[k]
  BY <1>1, <1>2, TotalsDef
<1>4. \A k : PlacedSum(l, r, n, j, k) = Totals(f, N)[k]
  BY DEF PlacedSum, f, N
<1>5. \A k \in 1 .. N : PlacedSum(l, r, n, j, k)
                = PlacedSum(l, r, n, j, k - 1) + ColumnSum(l, r, n, k, j) * Power(Base)[k - 1]
  BY <1>2, <1>3, <1>4
<1>6. PlacedSum(l, r, n, j, 0) = 0
  BY <1>3, <1>4
<1>7. ASSUME NEW k \in 0 .. N PROVE PlacedSum(l, r, n, j, k) \in Nat
  <2>1. Totals(f, N)[k] \in Nat
    BY <1>3
  <2> QED
    BY <1>4, <2>1
<1> QED
  BY <1>5, <1>6, <1>7 DEF N

(* The nearest number from 0 to n.                                         *)
Clipped(x, n) == IF x < 0 THEN 0 ELSE IF x > n THEN n ELSE x

(* What one word of l adds to the places: its product with r.              *)
LEMMA OneMoreRow ==
  ASSUME NEW n \in Nat \ {0}, NEW l \in WordsOf(n), NEW r \in WordsOf(n), NEW j \in 0 .. n - 1
  PROVE  \A k \in 0 .. 2 * n - 1 :
           PlacedSum(l, r, n, j + 1, k)
             = PlacedSum(l, r, n, j, k)
                 + l[j + 1] * (Power(Base)[j] * Sums(r)[Clipped(k - j, n)])
<1> DEFINE N == 2 * n - 1
           p == Power(Base)
           s == Sums(r)
           f == l[j + 1]
           PJ == p[j]
           A(k) == PlacedSum(l, r, n, j + 1, k)
           B(k) == PlacedSum(l, r, n, j, k)
           R(k) == s[Clipped(k - j, n)]
           C(k) == ColumnSum(l, r, n, k, j)
           T == {k \in Nat : k <= N => A(k) = B(k) + f * (PJ * R(k))}
<1>1. n \in Nat /\ N \in Nat /\ j \in Nat /\ j + 1 \in 1 .. n /\ j + 1 \in 0 .. n /\ j \in 0 .. n
      /\ (j + 1) - 1 = j
  OBVIOUS
<1>2. s \in [0 .. n -> Nat] /\ s[0] = 0 /\ \A k \in 1 .. n : s[k] = s[k - 1] + r[k] * p[k - 1]
  BY <1>1, SumsDef
<1>3. \A k \in Nat : p[k] \in Nat /\ PJ \in Nat /\ p[j + k] = PJ * p[k]
  <2>1. \A k \in Nat : p[k] \in Nat
    BY BasePowers
  <2>2. Base \in Nat
    BY BaseEven
  <2>3. \A k \in Nat : p[j + k] = p[j] * p[k]
    BY <1>1, <2>2, PowerPlus
  <2> QED
    BY <1>1, <2>1, <2>3
<1>4. f \in Nat /\ \A k \in 1 .. n : r[k] \in Nat
  BY <1>1, BaseEven DEF WordsOf, Word
<1>5. A(0) = 0 /\ B(0) = 0
  BY <1>1, PlacedSumSteps
<1>6. \A k \in 0 .. N : A(k) \in Nat /\ B(k) \in Nat
  BY <1>1, PlacedSumSteps
<1>7. ASSUME NEW k \in 0 .. N, k + 1 <= N
      PROVE  /\ A(k + 1) = A(k) + (C(k + 1) + Cells(l, r, n, k + 1)[j + 1]) * p[k]
             /\ B(k + 1) = B(k) + C(k + 1) * p[k] /\ C(k + 1) \in Nat
  <2>1. k + 1 \in 1 .. N /\ (k + 1) - 1 = k /\ k + 1 \in Nat
    BY <1>7
  <2>2. A(k + 1) = A((k + 1) - 1) + ColumnSum(l, r, n, k + 1, j + 1) * p[(k + 1) - 1]
    BY <1>1, <2>1, PlacedSumSteps
  <2>3. B(k + 1) = B((k + 1) - 1) + C(k + 1) * p[(k + 1) - 1]
    BY <1>1, <2>1, PlacedSumSteps
  <2>4. ColumnSum(l, r, n, k + 1, j + 1)
          = ColumnSum(l, r, n, k + 1, (j + 1) - 1) + Cells(l, r, n, k + 1)[j + 1]
    <3>1. \A x \in 1 .. n :
            ColumnSum(l, r, n, k + 1, x) = ColumnSum(l, r, n, k + 1, x - 1) + Cells(l, r, n, k + 1)[x]
      <4> DEFINE m == k + 1
      <4>1. m \in Nat
        BY <2>1
      <4> HIDE DEF m
      <4>2. \A x \in 1 .. n : ColumnSum(l, r, n, m, x) = ColumnSum(l, r, n, m, x - 1) + Cells(l, r, n, m)[x]
        BY <1>1, <4>1, ColumnSumSteps
      <4> QED
        BY <4>2 DEF m
    <3> QED
      BY <1>1, <3>1
  <2>5. C(k + 1) \in Nat
    BY <1>1, <2>1, ColumnSumSteps
  <2> QED
    BY <1>1, <2>1, <2>2, <2>3, <2>4, <2>5
<1>8. \A k \in Nat : Clipped(k - j, n) \in 0 .. n
  BY <1>1 DEF Clipped
<1> HIDE DEF N, p, s, f, PJ, A, B, R, C
<1>9. 0 \in T
  <2>1. Clipped(0 - j, n) = 0
    BY <1>1 DEF Clipped
  <2>2. R(0) = 0 /\ PJ \in Nat
    BY <1>2, <1>3, <2>1 DEF R
  <2>3. PJ * 0 = 0 /\ f * 0 = 0
    BY <1>4, <2>2
  <2> QED
    BY <1>5, <2>2, <2>3
<1>10. ASSUME NEW k \in T PROVE k + 1 \in T
  <2>1. SUFFICES ASSUME k + 1 <= N PROVE A(k + 1) = B(k + 1) + f * (PJ * R(k + 1))
    OBVIOUS
  <2>2. k \in Nat /\ k \in 0 .. N /\ A(k) = B(k) + f * (PJ * R(k))
    BY <1>1, <2>1
  <2> DEFINE x == k + 1 - j
             c == C(k + 1)
             d == p[k]
             cell == Cells(l, r, n, k + 1)[j + 1]
  <2>3. A(k + 1) = A(k) + (c + cell) * d /\ B(k + 1) = B(k) + c * d /\ c \in Nat
    BY <1>7, <2>1, <2>2
  <2>4. d \in Nat /\ R(k) \in Nat /\ A(k) \in Nat /\ B(k) \in Nat /\ PJ \in Nat
    <3>1. R(k) \in Nat
      BY <1>2, <1>8, <2>2 DEF R
    <3> QED
      BY <1>3, <1>6, <2>2, <3>1
  <2>5. cell = IF x \in 1 .. n THEN f * r[x] ELSE 0
    <3>1. (k + 1) + 1 - (j + 1) = x
      BY <1>1, <2>2
    <3>2. cell = IF (k + 1) + 1 - (j + 1) \in 1 .. n THEN l[j + 1] * r[(k + 1) + 1 - (j + 1)] ELSE 0
      BY <1>1 DEF Cells
    <3> HIDE DEF cell, x
    <3> QED
      BY <3>1, <3>2 DEF f
  <2> HIDE DEF c, cell
  <2>6. CASE x \in 1 .. n
    <3>1. x - 1 = k - j /\ x - 1 \in Nat /\ x = (k + 1) - j /\ j + (x - 1) = k
      BY <1>1, <2>2, <2>6
    <3>2. Clipped(k - j, n) = x - 1 /\ Clipped((k + 1) - j, n) = x
      BY <1>1, <2>6, <3>1 DEF Clipped
    <3> DEFINE q == p[x - 1]
               w == r[x]
               g == R(k)
               a0 == A(k)
               b0 == B(k)
    <3>3. R(k + 1) = g + w * q
      BY <1>2, <2>6, <3>1, <3>2 DEF R
    <3>4. d = PJ * q /\ q \in Nat /\ w \in Nat
      <4>1. p[j + (x - 1)] = PJ * q /\ q \in Nat
        BY <1>3, <3>1
      <4> QED
        BY <1>4, <2>6, <3>1, <4>1
    <3>5. cell = f * w
      BY <2>5, <2>6
    <3>6. g \in Nat /\ a0 \in Nat /\ b0 \in Nat /\ a0 = b0 + f * (PJ * g)
      BY <2>2, <2>4
    <3> HIDE DEF q, w, g, x, d, a0, b0
    <3>7. (f * w) * d = f * (PJ * (w * q))
      <4>1. (f * w) * (PJ * q) = f * (PJ * (w * q))
        BY <1>4, <2>4, <3>4
      <4> QED
        BY <3>4, <4>1
    <3>8. (c + f * w) * d = c * d + (f * w) * d /\ c * d \in Nat /\ (f * w) * d \in Nat
      BY <1>4, <2>3, <2>4, <3>4
    <3>9. f * (PJ * (g + w * q)) = f * (PJ * g) + f * (PJ * (w * q))
          /\ f * (PJ * g) \in Nat /\ f * (PJ * (w * q)) \in Nat
      <4> DEFINE y == w * q
      <4>1. y \in Nat
        BY <3>4
      <4> HIDE DEF y
      <4>2. PJ * (g + y) = PJ * g + PJ * y /\ PJ * g \in Nat /\ PJ * y \in Nat
        BY <2>4, <3>6, <4>1
      <4> DEFINE y1 == PJ * g
                 y2 == PJ * y
      <4> HIDE DEF y1, y2
      <4>3. f * (y1 + y2) = f * y1 + f * y2 /\ f * y1 \in Nat /\ f * y2 \in Nat
        BY <1>4, <4>2 DEF y1, y2
      <4> QED
        BY <4>2, <4>3 DEF y1, y2, y
    <3> DEFINE z1 == c * d
               z2 == f * (PJ * g)
               z3 == (f * w) * d
    <3>10. A(k + 1) = a0 + (z1 + z3)
      BY <2>3, <3>5, <3>8 DEF a0
    <3>11. B(k + 1) = b0 + z1
      BY <2>3 DEF b0
    <3>12. f * (PJ * R(k + 1)) = z2 + z3
      BY <3>3, <3>7, <3>9
    <3>13. z1 \in Nat /\ z2 \in Nat /\ z3 \in Nat /\ a0 = b0 + z2
      BY <3>6, <3>8, <3>9
    <3> DEFINE z4 == f * (PJ * R(k + 1))
               a1 == A(k + 1)
               b1 == B(k + 1)
    <3>14. z4 = z2 + z3 /\ a1 = a0 + (z1 + z3) /\ b1 = b0 + z1
      BY <3>10, <3>11, <3>12
    <3> HIDE DEF z1, z2, z3, z4, a1, b1
    <3>15. a1 = b1 + z4
      BY <3>6, <3>13, <3>14
    <3> QED
      BY <3>15 DEF z4, a1, b1
  <2>7. CASE ~(x \in 1 .. n)
    <3>1. Clipped(k - j, n) = Clipped((k + 1) - j, n)
      BY <1>1, <2>2, <2>7 DEF Clipped
    <3>2. R(k + 1) = R(k)
      BY <3>1 DEF R
    <3>3. cell = 0
      BY <2>5, <2>7
    <3> DEFINE a0 == A(k)
               b0 == B(k)
               z1 == c * d
               z2 == f * (PJ * R(k))
    <3>4. z1 \in Nat /\ z2 \in Nat /\ a0 \in Nat /\ b0 \in Nat /\ a0 = b0 + z2
      <4> DEFINE g == R(k)
      <4>1. g \in Nat /\ f \in Nat /\ PJ \in Nat /\ c \in Nat /\ d \in Nat
        BY <1>4, <2>3, <2>4
      <4>2. a0 \in Nat /\ b0 \in Nat /\ a0 = b0 + z2
        BY <2>2, <2>4
      <4> HIDE DEF g, d, a0, b0
      <4>3. c * d \in Nat /\ f * (PJ * g) \in Nat
        BY <4>1
      <4> QED
        BY <4>2, <4>3 DEF g
    <3>5. A(k + 1) = a0 + z1
      <4>1. c + 0 = c
        BY <2>3
      <4> QED
        BY <2>3, <3>3, <4>1
    <3>6. B(k + 1) = b0 + z1 /\ f * (PJ * R(k + 1)) = z2
      BY <2>3, <3>2
    <3> HIDE DEF z1, z2, a0, b0
    <3> QED
      BY <3>4, <3>5, <3>6
  <2> QED
    BY <2>6, <2>7
<1>11. T \in SUBSET Nat
  OBVIOUS
<1> HIDE DEF T
<1>12. T = Nat
  BY <1>9, <1>10, <1>11, Induct
<1>13. \A k \in 0 .. N : A(k) = B(k) + f * (PJ * R(k))
  BY <1>1, <1>12 DEF T
<1> QED
  BY <1>13 DEF N, A, B, f, PJ, R, s, p

(* Nothing is placed before the first word of l.                           *)
LEMMA NoRow ==
  ASSUME NEW n \in Nat \ {0}, NEW l \in WordsOf(n), NEW r \in WordsOf(n)
  PROVE  \A k \in 0 .. 2 * n - 1 : PlacedSum(l, r, n, 0, k) = 0
<1> DEFINE N == 2 * n - 1
           A(k) == PlacedSum(l, r, n, 0, k)
           T == {k \in Nat : k <= N => A(k) = 0}
<1>1. n \in Nat /\ N \in Nat /\ 0 \in 0 .. n
  OBVIOUS
<1>2. A(0) = 0
  BY <1>1, PlacedSumSteps
<1>3. ASSUME NEW k \in 1 .. N PROVE A(k) = A(k - 1) + ColumnSum(l, r, n, k, 0) * Power(Base)[k - 1]
  BY <1>1, PlacedSumSteps
<1>4. ASSUME NEW k \in 1 .. N, A(k - 1) = 0 PROVE A(k) = 0
  <2>1. k \in Nat /\ k - 1 \in Nat
    BY <1>1
  <2>2. ColumnSum(l, r, n, k, 0) = 0 /\ Power(Base)[k - 1] \in Nat
    <3>1. ColumnSum(l, r, n, k, 0) = 0
      BY <1>1, <2>1, ColumnSumSteps
    <3> QED
      BY <2>1, <3>1, BasePowers
  <2>3. 0 * Power(Base)[k - 1] = 0
    BY <2>2
  <2> HIDE DEF A
  <2> QED
    BY <1>3, <1>4, <2>2, <2>3
<1> HIDE DEF N, A
<1>5. 0 \in T
  BY <1>2
<1>6. ASSUME NEW k \in T PROVE k + 1 \in T
  <2>1. SUFFICES ASSUME k + 1 <= N PROVE A(k + 1) = 0
    OBVIOUS
  <2>2. k + 1 \in 1 .. N /\ (k + 1) - 1 = k /\ A(k) = 0
    BY <1>1, <2>1
  <2> QED
    BY <1>4, <2>2
<1>7. T \in SUBSET Nat
  OBVIOUS
<1> HIDE DEF T
<1>8. T = Nat
  BY <1>5, <1>6, <1>7, Induct
<1>9. \A k \in 0 .. N : A(k) = 0
  BY <1>1, <1>8 DEF T
<1> QED
  BY <1>9 DEF N, A

(* All the columns at their places make the product.                       *)
LEMMA PlacedProduct ==
  ASSUME NEW n \in Nat \ {0}, NEW l \in WordsOf(n), NEW r \in WordsOf(n)
  PROVE  PlacedSum(l, r, n, n, 2 * n - 1) = Value(l) * Value(r)
<1> DEFINE N == 2 * n - 1
           p == Power(Base)
           s == Sums(l)
           Y == Value(r)
           A(j) == PlacedSum(l, r, n, j, N)
           T == {j \in Nat : j <= n => A(j) = s[j] * Y}
<1>1. n \in Nat /\ N \in Nat /\ N \in 0 .. N
  OBVIOUS
<1>2. s \in [0 .. n -> Nat] /\ s[0] = 0 /\ Value(l) = s[n]
      /\ \A k \in 1 .. n : s[k] = s[k - 1] + l[k] * p[k - 1]
  BY <1>1, SumsDef
<1>3. Y = Sums(r)[n] /\ Y \in Nat
  BY <1>1, SumsDef
<1>4. A(0) = 0
  BY <1>1, NoRow
<1>5. ASSUME NEW j \in 0 .. n - 1 PROVE A(j + 1) = A(j) + l[j + 1] * (p[j] * Y)
  <2>1. Clipped(N - j, n) = n
    BY <1>1 DEF Clipped
  <2>2. A(j + 1) = A(j) + l[j + 1] * (p[j] * Sums(r)[Clipped(N - j, n)])
    BY <1>1, OneMoreRow
  <2> QED
    BY <1>3, <2>1, <2>2
<1>6. \A k \in 1 .. n : l[k] \in Nat
  BY BaseEven DEF WordsOf, Word
<1>7. \A k \in Nat : p[k] \in Nat
  BY BasePowers
<1> HIDE DEF N, p, s, Y, A
<1>8. 0 \in T
  <2>1. 0 * Y = 0
    BY <1>3
  <2> QED
    BY <1>2, <1>4, <2>1
<1>9. ASSUME NEW j \in T PROVE j + 1 \in T
  <2>1. SUFFICES ASSUME j + 1 <= n PROVE A(j + 1) = s[j + 1] * Y
    OBVIOUS
  <2>2. /\ j \in Nat /\ j \in 0 .. n - 1 /\ j \in 0 .. n /\ j + 1 \in 1 .. n /\ (j + 1) - 1 = j
        /\ A(j) = s[j] * Y
    BY <1>1, <2>1
  <2> DEFINE f == l[j + 1]
             q == p[j]
             x == s[j]
  <2>3. f \in Nat /\ q \in Nat /\ x \in Nat
    BY <1>2, <1>6, <1>7, <2>2
  <2>4. A(j + 1) = x * Y + f * (q * Y)
    BY <1>5, <2>2
  <2>5. s[j + 1] = s[(j + 1) - 1] + l[j + 1] * p[(j + 1) - 1]
    BY <1>2, <2>2
  <2>6. s[j + 1] = x + f * q
    BY <2>2, <2>5
  <2> HIDE DEF f, q, x
  <2>7. (x + f * q) * Y = x * Y + (f * q) * Y /\ (f * q) * Y = f * (q * Y)
    <3> DEFINE y == f * q
    <3>1. y \in Nat /\ y * Y = f * (q * Y)
      BY <1>3, <2>3
    <3> HIDE DEF y
    <3>2. (x + y) * Y = x * Y + y * Y
      BY <1>3, <2>3, <3>1
    <3> QED
      BY <3>1, <3>2 DEF y
  <2> QED
    BY <2>4, <2>6, <2>7
<1>10. T \in SUBSET Nat
  OBVIOUS
<1> HIDE DEF T
<1>11. T = Nat
  BY <1>8, <1>9, <1>10, Induct
<1>12. A(n) = s[n] * Y
  BY <1>1, <1>11 DEF T
<1> QED
  BY <1>2, <1>12 DEF A, N, s, Y

(* A column leaves the three words of the accumulator.                     *)
LEMMA ColumnTyped ==
  ASSUME NEW n \in Nat, NEW l \in WordsOf(n), NEW r \in WordsOf(n), NEW k \in Nat,
         NEW start \in Accumulator
  PROVE  Column(l, r, k, start) \in Accumulator
<1>1. PICK f \in [0 .. n -> Accumulator] :
           f[0] = start /\ Column(l, r, k, start) = f[n] /\ ColumnSteps(l, r, n, k, f)
  BY ColumnDef
<1>2. n \in 0 .. n
  OBVIOUS
<1> QED
  BY <1>1, <1>2

(* The turns of the outer loop, and the equation of Columns.               *)
ColumnsSteps(l, r, n, f) ==
  \A k \in 1 .. 2 * n - 1 : f[k] = Column(l, r, k, <<f[k - 1][2], f[k - 1][3], 0>>)
ColumnsOf(l, r, n, f) ==
  f = [k \in 0 .. 2 * n - 1 |->
         IF k = 0 THEN <<0, 0, 0>> ELSE Column(l, r, k, <<f[k - 1][2], f[k - 1][3], 0>>)]

(* The accumulator after each column.                                      *)
LEMMA ColumnsDef ==
  ASSUME NEW n \in Nat \ {0}, NEW l \in WordsOf(n), NEW r \in WordsOf(n)
  PROVE  /\ Columns(l, r) \in [0 .. 2 * n - 1 -> Accumulator]
         /\ Columns(l, r)[0] = <<0, 0, 0>> /\ ColumnsSteps(l, r, n, Columns(l, r))
<1> DEFINE S == Accumulator
           N == 2 * n - 1
           start == <<0, 0, 0>>
           step == [k \in 1 .. N |-> [s \in S |-> Column(l, r, k, <<s[2], s[3], 0>>)]]
<1>1. n \in Nat /\ N \in Nat
  OBVIOUS
<1>2. start \in S
  BY BaseEven DEF Accumulator, Word
<1>3. ASSUME NEW k \in 1 .. N, NEW s \in S PROVE Column(l, r, k, <<s[2], s[3], 0>>) \in S
  <2> DEFINE w == <<s[2], s[3], 0>>
  <2>1. w \in Accumulator
    BY BaseEven DEF Accumulator, Word
  <2>2. k \in Nat
    BY <1>1
  <2> HIDE DEF w
  <2>3. Column(l, r, k, w) \in Accumulator
    BY <1>1, <2>1, <2>2, ColumnTyped
  <2> QED
    BY <2>3 DEF w
<1>4. step \in [1 .. N -> [S -> S]]
  BY <1>3
<1>5. ASSUME NEW f \in [0 .. N -> S], Loops(f, N, start, step)
      PROVE  ColumnsOf(l, r, n, f)
  <2>1. ASSUME NEW k \in 1 .. N
        PROVE  f[k] = Column(l, r, k, <<f[k - 1][2], f[k - 1][3], 0>>)
    <3>1. f[k - 1] \in S
      BY <1>1
    <3>2. step[k] = [s \in S |-> Column(l, r, k, <<s[2], s[3], 0>>)]
      OBVIOUS
    <3> HIDE DEF step, S
    <3>3. f[k] = step[k][f[k - 1]]
      BY <1>5 DEF Loops
    <3> QED
      BY <3>1, <3>2, <3>3
  <2>2. f[0] = start
    BY <1>5 DEF Loops
  <2>3. f = [k \in 0 .. N |-> f[k]]
    OBVIOUS
  <2> HIDE DEF step, S, N
  <2>4. ASSUME NEW k \in 0 .. N
        PROVE  f[k] = IF k = 0 THEN <<0, 0, 0>>
                      ELSE Column(l, r, k, <<f[k - 1][2], f[k - 1][3], 0>>)
    <3>1. CASE k = 0
      BY <2>2, <3>1 DEF start
    <3>2. CASE k # 0
      <4>1. k \in 1 .. N
        BY <1>1, <3>2
      <4> QED
        BY <2>1, <3>2, <4>1
    <3> QED
      BY <3>1, <3>2
  <2> QED
    BY <2>3, <2>4 DEF ColumnsOf, N
<1> HIDE DEF step, S, start
<1>6. \E f : ColumnsOf(l, r, n, f)
  BY <1>1, <1>2, <1>4, <1>5, LoopExists
<1>7. ColumnsOf(l, r, n, CHOOSE f : ColumnsOf(l, r, n, f))
  BY <1>6
<1> DEFINE g == CHOOSE f : ColumnsOf(l, r, n, f)
<1>8. Columns(l, r) = g
  <2>1. Len(l) = n
    BY <1>1, Lengths DEF WordsOf
  <2> QED
    BY <2>1 DEF Columns, ColumnsOf
<1> HIDE DEF g
<1>9. ColumnsOf(l, r, n, g)
  BY <1>7 DEF g
<1>10. g = [k \in 0 .. N |-> g[k]] /\ g[0] = start
  BY <1>1, <1>9 DEF ColumnsOf, start
<1>11. \A k \in 1 .. N : g[k] = Column(l, r, k, <<g[k - 1][2], g[k - 1][3], 0>>)
  BY <1>9 DEF ColumnsOf
<1>12. \A k \in 1 .. N : g[k - 1] \in S => g[k] \in S
  BY <1>3, <1>11
<1>13. g \in [0 .. N -> S]
  BY <1>1, <1>2, <1>10, <1>12, LoopTyped
<1> QED
  BY <1>8, <1>10, <1>11, <1>13 DEF S, start, ColumnsSteps

(* What a column hands on.                                                 *)
Rest(r) == r[2] + Base * r[3]

(* The lowest word goes out as a word of the product, the others stay.     *)
LEMMA RestExact ==
  ASSUME NEW r \in Accumulator
  PROVE  /\ r[1] \in Word /\ r[2] \in Word /\ r[3] \in Word
         /\ Rest(r) \in Nat /\ AccValue(r) = r[1] + Base * Rest(r) /\ AccValue(r) \in Nat
         /\ <<r[2], r[3], 0>> \in Accumulator /\ AccValue(<<r[2], r[3], 0>>) = Rest(r)
<1> DEFINE x == r[1]
           y == r[2]
           z == r[3]
<1>1. x \in Word /\ y \in Word /\ z \in Word /\ 0 \in Word
  BY BaseEven DEF Accumulator, Word
<1>2. <<y, z, 0>> \in Accumulator
  BY <1>1 DEF Accumulator
<1>3. AccValue(<<y, z, 0>>) = y + Base * (z + Base * 0)
  BY DEF AccValue
<1>4. AccValue(r) = x + Base * Rest(r) /\ Rest(r) = y + Base * z
  BY DEF AccValue, Rest
<1> HIDE DEF x, y, z
<1>5. x \in Nat /\ y \in Nat /\ z \in Nat /\ Base \in Nat
  BY <1>1, BaseEven DEF Word
<1>6. Base * 0 = 0 /\ Base * z \in Nat /\ z + 0 = z
  BY <1>5
<1>7. Rest(r) \in Nat
  BY <1>4, <1>5, <1>6
<1>8. Base * Rest(r) \in Nat
  BY <1>5, <1>7
<1>9. AccValue(<<y, z, 0>>) = Rest(r)
  BY <1>3, <1>4, <1>6
<1> QED
  BY <1>1, <1>2, <1>4, <1>5, <1>7, <1>8, <1>9 DEF x, y, z

(* uECC_vli_mult: each column hands on what its lowest word does not hold. *)
LEMMA MultExact ==
  ASSUME NEW n \in 1 .. Base, NEW l \in WordsOf(n), NEW r \in WordsOf(n)
  PROVE  Mult(l, r) \in WordsOf(2 * n) /\ Value(Mult(l, r)) = Value(l) * Value(r)
<1> DEFINE N == 2 * n - 1
           f == Columns(l, r)
           w == Mult(l, r)
           s == Sums(w)
           p == Power(Base)
           G == n * (Base - 1)
           A(k) == AccValue(f[k])
           R(k) == Rest(f[k])
           C(k) == ColumnSum(l, r, n, k, n)
           Z(k) == PlacedSum(l, r, n, n, k)
<1>1. /\ n \in Nat /\ n \in Nat \ {0} /\ N \in Nat /\ 2 * n \in Nat /\ N + 1 = 2 * n
      /\ 2 * n \in 1 .. 2 * n /\ 2 * n - 1 = N /\ N >= 1
      /\ Base \in Nat \ {0} /\ n \in 0 .. Base /\ n \in 0 .. n
  BY BaseEven
<1>2. /\ f \in [0 .. N -> Accumulator] /\ f[0] = <<0, 0, 0>>
      /\ \A k \in 1 .. N : f[k] = Column(l, r, k, <<f[k - 1][2], f[k - 1][3], 0>>)
  BY <1>1, ColumnsDef DEF ColumnsSteps
<1>3. w = [k \in 1 .. 2 * n |-> IF k < 2 * n THEN f[k][1] ELSE f[k - 1][2]]
  <2>1. Len(l) = n
    BY <1>1, Lengths DEF WordsOf
  <2> QED
    BY <2>1 DEF Mult
<1> HIDE DEF f
<1>4. ASSUME NEW k \in 0 .. N
      PROVE  /\ f[k][1] \in Word /\ f[k][2] \in Word /\ f[k][3] \in Word
             /\ R(k) \in Nat /\ A(k) = f[k][1] + Base * R(k) /\ A(k) \in Nat
             /\ R(k) = f[k][2] + Base * f[k][3]
             /\ <<f[k][2], f[k][3], 0>> \in Accumulator
             /\ AccValue(<<f[k][2], f[k][3], 0>>) = R(k)
  <2>1. f[k] \in Accumulator
    BY <1>2
  <2> QED
    BY <2>1, RestExact DEF Rest
<1>5. w \in WordsOf(2 * n)
  <2>1. ASSUME NEW k \in 1 .. 2 * n
        PROVE  (IF k < 2 * n THEN f[k][1] ELSE f[k - 1][2]) \in Word
    <3>1. k < 2 * n => k \in 0 .. N
      BY <1>1
    <3>2. k - 1 \in 0 .. N
      BY <1>1
    <3> QED
      BY <1>4, <3>1, <3>2
  <2> QED
    BY <1>3, <2>1 DEF WordsOf
<1>6. (\A k \in 1 .. N : w[k] = f[k][1]) /\ w[2 * n] = f[N][2]
  <2>1. \A k \in 1 .. N : k \in 1 .. 2 * n /\ k < 2 * n
    BY <1>1
  <2>2. ~(2 * n < 2 * n)
    BY <1>1
  <2> QED
    BY <1>1, <1>3, <2>1, <2>2
<1> HIDE DEF w
<1>7. /\ s \in [0 .. 2 * n -> Nat] /\ s[0] = 0 /\ Value(w) = s[2 * n]
      /\ \A k \in 1 .. 2 * n : s[k] = s[k - 1] + w[k] * p[k - 1]
  BY <1>1, <1>5, SumsDef
<1>8. p[0] = 1 /\ \A k \in Nat : p[k + 1] = Base * p[k] /\ p[k] \in Nat \ {0}
  BY BasePowers
<1>9. Z(0) = 0 /\ \A k \in 0 .. N : Z(k) \in Nat
  BY <1>1, PlacedSumSteps
<1>10. ASSUME NEW k \in 1 .. N PROVE Z(k) = Z(k - 1) + C(k) * p[k - 1] /\ C(k) \in Nat
  <2>1. Z(k) = Z(k - 1) + C(k) * p[k - 1]
    BY <1>1, PlacedSumSteps
  <2>2. k \in Nat
    BY <1>1
  <2> QED
    BY <1>1, <2>1, <2>2, ColumnSumSteps
<1>11. ASSUME NEW k \in 1 .. N, R(k - 1) <= G
       PROVE  A(k) = R(k - 1) + C(k) /\ A(k) <= Base * G
  <2> DEFINE start == <<f[k - 1][2], f[k - 1][3], 0>>
  <2>1. k - 1 \in 0 .. N /\ k \in Nat
    BY <1>1
  <2>2. start \in Accumulator /\ AccValue(start) = R(k - 1) /\ f[k] = Column(l, r, k, start)
    BY <1>2, <1>4, <2>1
  <2> HIDE DEF start
  <2>3. AccValue(start) <= n * (Base - 1)
    BY <1>11, <2>2
  <2>4. /\ AccValue(Column(l, r, k, start)) = AccValue(start) + Totals(Cells(l, r, n, k), n)[n]
        /\ AccValue(Column(l, r, k, start)) <= Base * (n * (Base - 1))
    BY <1>1, <2>1, <2>2, <2>3, ColumnExact
  <2> QED
    BY <2>2, <2>4 DEF ColumnSum
<1>12. G \in Nat
  BY <1>1
<1> HIDE DEF s, p, G, N, A, R, C, Z
<1> DEFINE T == {k \in Nat : k <= N => R(k) <= G /\ s[k] + R(k) * p[k] = Z(k)}
<1>13. 0 \in T
  <2>1. f[0][2] = 0 /\ f[0][3] = 0 /\ 0 \in 0 .. N
    BY <1>1, <1>2
  <2>2. R(0) = 0
    <3>1. R(0) = f[0][2] + Base * f[0][3]
      BY <1>4, <2>1
    <3>2. Base * 0 = 0
      BY <1>1
    <3> QED
      BY <2>1, <3>1, <3>2
  <2>3. s[0] = 0 /\ Z(0) = 0 /\ p[0] = 1
    BY <1>7, <1>8, <1>9
  <2>4. s[0] + R(0) * p[0] = Z(0) /\ R(0) <= G
    BY <1>12, <2>2, <2>3
  <2> QED
    BY <2>4
<1>14. ASSUME NEW k \in T PROVE k + 1 \in T
  <2>1. SUFFICES ASSUME k + 1 <= N
                 PROVE  R(k + 1) <= G /\ s[k + 1] + R(k + 1) * p[k + 1] = Z(k + 1)
    OBVIOUS
  <2>2. /\ k \in Nat /\ k \in 0 .. N /\ k + 1 \in 1 .. N /\ k + 1 \in 0 .. N /\ (k + 1) - 1 = k
        /\ k + 1 \in 1 .. 2 * n /\ k \in 0 .. 2 * n
        /\ R(k) <= G /\ s[k] + R(k) * p[k] = Z(k)
    BY <1>1, <2>1
  <2> DEFINE x == f[k + 1][1]
             y == R(k + 1)
             z == A(k + 1)
             c == C(k + 1)
             q == p[k]
             R0 == R(k)
             s0 == s[k]
  <2>3. z = x + Base * y /\ x \in Nat /\ y \in Nat /\ z \in Nat
    <3>1. x \in Word
      BY <1>4, <2>2
    <3>2. x \in Nat
      BY <3>1, BaseEven DEF Word
    <3> QED
      BY <1>4, <2>2, <3>2
  <2>4. z = R0 + c /\ z <= Base * G
    <3>1. R((k + 1) - 1) <= G
      BY <2>2
    <3>2. z = R((k + 1) - 1) + c /\ z <= Base * G
      BY <1>11, <2>2, <3>1
    <3> QED
      BY <2>2, <3>2
  <2>5. Z(k + 1) = Z(k) + c * q /\ c \in Nat
    <3>1. Z(k + 1) = Z((k + 1) - 1) + c * p[(k + 1) - 1] /\ c \in Nat
      BY <1>10, <2>2
    <3> QED
      BY <2>2, <3>1
  <2>6. s[k + 1] = s0 + x * q
    <3>1. s[k + 1] = s[(k + 1) - 1] + w[k + 1] * p[(k + 1) - 1]
      BY <1>7, <2>2
    <3>2. w[k + 1] = x
      BY <1>6, <2>2
    <3> QED
      BY <2>2, <3>1, <3>2
  <2>7. p[k + 1] = Base * q /\ q \in Nat /\ s0 \in Nat /\ R0 \in Nat /\ Z(k) = s0 + R0 * q
    BY <1>4, <1>7, <1>8, <2>2
  <2> HIDE DEF x, y, z, c, q, R0, s0
  <2>8. y <= G
    <3>1. SUFFICES ASSUME y >= G + 1 PROVE FALSE
      BY <1>12, <2>3
    <3>2. Base * y >= Base * (G + 1) /\ Base * (G + 1) = Base * G + Base /\ Base * y \in Nat
          /\ Base * G \in Nat
      <4>1. G + 1 \in Nat /\ Base \in Nat /\ Base * (G + 1) = Base * G + Base /\ Base * G \in Nat
        BY <1>1, <1>12
      <4> QED
        BY <2>3, <3>1, <4>1, TimesMonotone
    <3> QED
      BY <1>1, <2>3, <2>4, <3>2
  <2>9. (s0 + x * q) + y * (Base * q) = (s0 + R0 * q) + c * q
    <3>1. (x + Base * y) * q = x * q + y * (Base * q) /\ x * q \in Nat /\ y * (Base * q) \in Nat
      <4>1. (Base * y) * q = y * (Base * q)
        BY <1>1, <2>3, <2>7
      <4> DEFINE h == Base * y
      <4>2. h \in Nat /\ h * q = y * (Base * q)
        BY <1>1, <2>3, <4>1
      <4> HIDE DEF h
      <4>3. (x + h) * q = x * q + h * q /\ x * q \in Nat /\ h * q \in Nat
        BY <2>3, <2>7, <4>2
      <4> QED
        BY <4>2, <4>3 DEF h
    <3>2. (R0 + c) * q = R0 * q + c * q /\ R0 * q \in Nat /\ c * q \in Nat
      BY <2>5, <2>7
    <3>3. x * q + y * (Base * q) = R0 * q + c * q
      BY <2>3, <2>4, <3>1, <3>2
    <3> DEFINE z1 == x * q
               z2 == y * (Base * q)
               z3 == R0 * q
               z4 == c * q
    <3>4. z1 \in Nat /\ z2 \in Nat /\ z3 \in Nat /\ z4 \in Nat /\ z1 + z2 = z3 + z4
      BY <3>1, <3>2, <3>3
    <3> HIDE DEF z1, z2, z3, z4
    <3>5. (s0 + z1) + z2 = (s0 + z3) + z4
      BY <2>7, <3>4
    <3> QED
      BY <3>5 DEF z1, z2, z3, z4
  <2> QED
    BY <2>5, <2>6, <2>7, <2>8, <2>9 DEF y
<1>15. T \in SUBSET Nat
  OBVIOUS
<1> HIDE DEF T
<1>16. T = Nat
  BY <1>13, <1>14, <1>15, Induct
<1>17. s[N] + R(N) * p[N] = Z(N)
  BY <1>1, <1>16 DEF T
<1>18. Z(N) = Value(l) * Value(r)
  BY <1>1, PlacedProduct DEF Z, N
<1> DEFINE X == Value(l)
           Y == Value(r)
           M == p[n]
           q == p[N]
           y == f[N][2]
           z == f[N][3]
           s0 == s[N]
<1>19. X \in 0 .. M - 1 /\ Y \in 0 .. M - 1 /\ M \in Nat \ {0}
  <2>1. M \in Nat \ {0}
    BY <1>1, <1>8
  <2>2. X = Sums(l)[n] /\ Y = Sums(r)[n]
    BY <1>1, SumsDef
  <2> QED
    BY <1>1, <2>1, <2>2, SumsBound DEF p
<1>20. M * M = Base * q /\ q \in Nat \ {0}
  <2>1. p[n + n] = M * M
    BY <1>1, PowerPlus DEF p
  <2>2. n + n = N + 1
    BY <1>1
  <2>3. p[N + 1] = Base * q /\ q \in Nat \ {0}
    BY <1>1, <1>8
  <2> QED
    BY <2>1, <2>2, <2>3
<1>21. R(N) = y + Base * z /\ y \in 0 .. Base - 1 /\ z \in 0 .. Base - 1 /\ s0 \in Nat
  <2>1. N \in 0 .. N /\ N \in 0 .. 2 * n
    BY <1>1
  <2> QED
    BY <1>4, <1>7, <2>1 DEF Word
<1>22. s[2 * n] = s0 + y * q
  <2>1. s[2 * n] = s[2 * n - 1] + w[2 * n] * p[2 * n - 1]
    BY <1>1, <1>7
  <2>2. 2 * n - 1 = N
    BY <1>1
  <2> QED
    BY <1>6, <2>1, <2>2
<1> DEFINE R1 == R(N)
<1>23. s0 + R1 * q = X * Y
  BY <1>17, <1>18
<1> HIDE DEF X, Y, M, q, y, z, s0, R1
<1>24. X * Y < Base * q
  <2>1. X \in Nat /\ Y \in Nat /\ M \in Nat /\ M >= Y /\ M >= X + 1 /\ X + 1 \in Nat
    BY <1>19
  <2>2. X * M >= X * Y /\ X * Y \in Nat /\ X * M \in Nat
    BY <2>1, TimesMonotone
  <2>3. M * M >= M * (X + 1) /\ M * (X + 1) = X * M + M /\ M * M \in Nat
    <3>1. M * (X + 1) = X * M + M
      BY <2>1
    <3> QED
      BY <2>1, <3>1, TimesMonotone
  <2> DEFINE z1 == X * M
             z2 == X * Y
             z3 == M * M
  <2>4. z1 >= z2 /\ z3 >= z1 + M /\ M > 0 /\ z1 \in Nat /\ z2 \in Nat /\ z3 \in Nat /\ M \in Nat
    BY <1>19, <2>2, <2>3
  <2> HIDE DEF z1, z2, z3
  <2>5. z3 > z2
    BY <2>4
  <2> QED
    BY <1>20, <2>5 DEF z2, z3
<1>25. R1 < Base
  <2>1. R1 \in Nat /\ R1 * q \in Nat
    <3>1. R1 \in Nat
      BY <1>1, <1>21 DEF R1
    <3> QED
      BY <1>20, <3>1
  <2>2. SUFFICES ASSUME R1 >= Base PROVE FALSE
    BY <1>1, <2>1
  <2>3. q * R1 >= q * Base /\ q * R1 = R1 * q /\ q * Base = Base * q /\ Base * q \in Nat
    <3>1. q * R1 = R1 * q /\ q * Base = Base * q /\ Base * q \in Nat /\ Base \in Nat /\ q \in Nat
      BY <1>1, <1>20, <2>1
    <3> QED
      BY <2>1, <2>2, <3>1, TimesMonotone
  <2> DEFINE z1 == R1 * q
             z2 == Base * q
             z3 == X * Y
  <2>4. z1 >= z2 /\ s0 + z1 = z3 /\ z3 < z2 /\ s0 \in Nat /\ z1 \in Nat /\ z2 \in Nat
    BY <1>21, <1>23, <1>24, <2>1, <2>3
  <2> HIDE DEF z1, z2, z3
  <2> QED
    BY <2>4
<1>26. z = 0
  <2>1. SUFFICES ASSUME z >= 1 PROVE FALSE
    BY <1>21
  <2>2. Base * z >= Base * 1 /\ Base * z \in Nat
    <3>1. z \in Nat /\ 1 \in Nat /\ Base \in Nat
      BY <1>1, <1>21
    <3> QED
      BY <2>1, <3>1, TimesMonotone
  <2> QED
    BY <1>1, <1>21, <1>25, <2>2 DEF R1
<1>27. R1 = y
  <2>1. Base * 0 = 0
    BY <1>1
  <2> QED
    BY <1>21, <1>26, <2>1 DEF R1
<1>28. Value(w) = X * Y
  BY <1>7, <1>22, <1>23, <1>27
<1> QED
  BY <1>5, <1>28 DEF w, X, Y

-----------------------------------------------------------------------------
(* Sequences cut in two, and the arithmetic modulo p.                      *)

(* The words above count as often as their place says.                     *)
LEMMA SplitValue ==
  ASSUME NEW i \in Nat, NEW j \in Nat, NEW w \in WordsOf(i + j),
         NEW x \in WordsOf(i), NEW y \in WordsOf(j),
         \A k \in 1 .. i : x[k] = w[k], \A k \in 1 .. j : y[k] = w[i + k]
  PROVE  Value(w) = Value(x) + Power(Base)[i] * Value(y)
<1> DEFINE s == Sums(w)
           t == Sums(y)
           p == Power(Base)
           M == p[i]
           X == Value(x)
           T == {k \in Nat : k <= j => s[i + k] = X + M * t[k]}
<1>1. i + j \in Nat /\ i <= i + j /\ i \in 0 .. i /\ j \in 0 .. j
  OBVIOUS
<1>2. /\ s \in [0 .. i + j -> Nat] /\ Value(w) = s[i + j]
      /\ \A k \in 1 .. i + j : s[k] = s[k - 1] + w[k] * p[k - 1]
  BY <1>1, SumsDef
<1>3. /\ t \in [0 .. j -> Nat] /\ t[0] = 0 /\ Value(y) = t[j]
      /\ \A k \in 1 .. j : t[k] = t[k - 1] + y[k] * p[k - 1]
  BY SumsDef
<1>4. s[i] = X /\ X \in Nat
  <2>1. X = Sums(x)[i] /\ X \in Nat
    BY SumsDef
  <2>2. Sums(x)[i] = s[i]
    BY <1>1, SumsAgree
  <2> QED
    BY <2>1, <2>2
<1>5. M \in Nat
  BY BasePowers
<1>6. ASSUME NEW k \in Nat PROVE p[i + k] = M * p[k] /\ p[k] \in Nat
  <2>1. Base \in Nat
    BY BaseEven
  <2>2. p[i + k] = M * p[k]
    BY <2>1, PowerPlus
  <2> QED
    BY <2>2, BasePowers
<1>7. ASSUME NEW k \in 1 .. j PROVE y[k] \in Nat /\ y[k] = w[i + k]
  BY BaseEven DEF WordsOf, Word
<1> HIDE DEF s, t, p, M, X
<1>8. 0 \in T
  <2>1. i + 0 = i /\ M * 0 = 0
    BY <1>5
  <2> QED
    BY <1>3, <1>4, <2>1
<1>9. ASSUME NEW k \in T PROVE k + 1 \in T
  <2>1. SUFFICES ASSUME k + 1 <= j PROVE s[i + (k + 1)] = X + M * t[k + 1]
    OBVIOUS
  <2>2. /\ k \in Nat /\ k + 1 \in 1 .. j /\ (k + 1) - 1 = k /\ k \in 0 .. j
        /\ i + (k + 1) \in 1 .. i + j /\ (i + (k + 1)) - 1 = i + k
        /\ s[i + k] = X + M * t[k]
    BY <2>1
  <2> DEFINE f == y[k + 1]
             q == p[k]
             g == t[k]
  <2>3. s[i + (k + 1)] = s[i + k] + f * (M * q)
    <3>1. s[i + (k + 1)] = s[(i + (k + 1)) - 1] + w[i + (k + 1)] * p[(i + (k + 1)) - 1]
      BY <1>2, <2>2
    <3>2. w[i + (k + 1)] = f /\ p[i + k] = M * q
      BY <1>6, <1>7, <2>2
    <3> QED
      BY <2>2, <3>1, <3>2
  <2>4. t[k + 1] = g + f * q
    <3>1. t[k + 1] = t[(k + 1) - 1] + y[k + 1] * p[(k + 1) - 1]
      BY <1>3, <2>2
    <3> QED
      BY <2>2, <3>1
  <2>5. f \in Nat /\ q \in Nat /\ g \in Nat
    BY <1>3, <1>6, <1>7, <2>2
  <2>6. s[i + k] = X + M * g
    BY <2>2
  <2> HIDE DEF f, q, g
  <2>7. M * (g + f * q) = M * g + f * (M * q) /\ M * g \in Nat /\ f * (M * q) \in Nat
    <3>1. M * (f * q) = f * (M * q) /\ f * q \in Nat
      BY <1>5, <2>5
    <3> DEFINE h == f * q
    <3>2. h \in Nat /\ M * h = f * (M * q)
      BY <3>1
    <3> HIDE DEF h
    <3>3. M * (g + h) = M * g + M * h /\ M * g \in Nat /\ M * h \in Nat
      BY <1>5, <2>5, <3>2
    <3> QED
      BY <3>2, <3>3 DEF h
  <2> QED
    BY <1>4, <2>3, <2>4, <2>6, <2>7
<1>10. T \in SUBSET Nat
  OBVIOUS
<1> HIDE DEF T
<1>11. T = Nat
  BY <1>8, <1>9, <1>10, Induct
<1>12. s[i + j] = X + M * t[j]
  BY <1>11 DEF T
<1> QED
  BY <1>2, <1>3, <1>12 DEF X, M, p

(* A sequence of zeros.                                                    *)
LEMMA ZerosValue ==
  ASSUME NEW n \in Nat, NEW w \in WordsOf(n), \A k \in 1 .. n : w[k] = 0
  PROVE  Value(w) = 0
<1>1. IsZero(w)
  BY DEF IsZero, WordsOf
<1> QED
  BY <1>1, ZeroValue

(* One word.                                                               *)
LEMMA OneWordValue ==
  ASSUME NEW w \in WordsOf(1)
  PROVE  Value(w) = w[1]
<1>1. Sums(w)[1] = Sums(w)[1 - 1] + w[1] * Power(Base)[1 - 1] /\ Sums(w)[0] = 0
      /\ Value(w) = Sums(w)[1]
  BY SumsDef
<1>2. 1 - 1 = 0 /\ Power(Base)[0] = 1
  BY BasePowers
<1>3. w[1] \in Nat
  BY BaseEven DEF WordsOf, Word
<1> DEFINE x == w[1]
<1>4. Value(w) = 0 + x * 1 /\ x \in Nat
  BY <1>1, <1>2, <1>3
<1> HIDE DEF x
<1>5. Value(w) = x
  BY <1>4
<1> QED
  BY <1>5 DEF x

(* The halves of a product.                                                *)
LEMMA HalvesValue ==
  ASSUME NEW w \in WordsOf(2 * NumWords)
  PROVE  /\ Low(w) \in Numbers256 /\ High(w) \in Numbers256
         /\ Value(w) = Value(Low(w)) + Full * Value(High(w))
         /\ Value(Low(w)) = Value(w) % Full /\ Value(High(w)) = Value(w) \div Full
<1> DEFINE n == NumWords
           x == [k \in 1 .. n |-> w[k]]
           y == [k \in 1 .. n |-> w[n + k]]
<1>1. n \in Nat \ {0} /\ n \in Nat /\ 2 * n = n + n /\ n + n \in Nat
  BY VliAssumption, BaseEven
<1>2. w \in WordsOf(n + n)
  BY <1>1
<1>3. x \in WordsOf(n) /\ y \in WordsOf(n)
  BY <1>1, <1>2 DEF WordsOf
<1>4. Low(w) = x
  <2>1. Low(w) = [k \in 1 .. (n - 1) + 1 |-> w[(1 + k) - 1]]
    BY <1>1 DEF Low
  <2>2. (n - 1) + 1 = n /\ \A k \in 1 .. n : (1 + k) - 1 = k
    BY <1>1
  <2> QED
    BY <2>1, <2>2
<1>5. High(w) = y
  <2>1. High(w) = [k \in 1 .. (2 * n - (n + 1)) + 1 |-> w[((n + 1) + k) - 1]]
    BY <1>1 DEF High
  <2>2. (2 * n - (n + 1)) + 1 = n /\ \A k \in 1 .. n : ((n + 1) + k) - 1 = n + k
    BY <1>1
  <2> QED
    BY <2>1, <2>2
<1>6. Value(w) = Value(x) + Power(Base)[n] * Value(y)
  <2>1. \A k \in 1 .. n : x[k] = w[k]
    OBVIOUS
  <2>2. \A k \in 1 .. n : y[k] = w[n + k]
    OBVIOUS
  <2> HIDE DEF x, y
  <2> QED
    BY <1>1, <1>2, <1>3, <2>1, <2>2, SplitValue
<1>7. Value(x) \in 0 .. Full - 1 /\ Value(y) \in 0 .. Full - 1 /\ Full \in Nat \ {0}
  BY <1>3, NumberExact DEF Numbers256
<1> DEFINE X == Value(x)
           Y == Value(y)
<1>8. Value(w) = Full * Y + X
  <2>1. X \in Nat /\ Full * Y \in Nat /\ Value(w) = X + Full * Y
    <3>1. X \in Nat /\ Y \in Nat /\ Full \in Nat
      BY <1>7
    <3>2. Value(w) = X + Full * Y
      BY <1>6 DEF Full
    <3> HIDE DEF X, Y
    <3> QED
      BY <3>1, <3>2
  <2> QED
    BY <2>1
<1>9. Y \in Nat /\ X \in 0 .. Full - 1
  BY <1>7
<1> HIDE DEF X, Y, x, y
<1>10. (Full * Y + X) \div Full = Y /\ (Full * Y + X) % Full = X
  BY <1>7, <1>9, DivUnique
<1> QED
  BY <1>3, <1>4, <1>5, <1>6, <1>8, <1>10 DEF X, Y, Numbers256, Full

(* A number that fits and differs by as much as a carry is the number.     *)
LEMMA SameWords ==
  ASSUME NEW z \in 0 .. Full - 1, NEW e \in 0 .. Full - 1, NEW c \in -1 .. 1,
         z = e + c * Full
  PROVE  z = e
<1>1. Full \in Nat
  BY NumberExact
<1>2. c = -1 \/ c = 0 \/ c = 1
  OBVIOUS
<1>3. c * Full = -Full \/ c * Full = 0 \/ c * Full = Full
  BY <1>1, <1>2
<1> QED
  BY <1>1, <1>3

(* One operation on words of the field.                                    *)
LEMMA WordOperations ==
  ASSUME NEW x \in Numbers256, NEW y \in Numbers256
  PROVE  /\ Add(x, y).words \in Numbers256 /\ Sub(x, y).words \in Numbers256
         /\ Add(x, y).carry \in 0 .. 1 /\ Sub(x, y).carry \in 0 .. 1
         /\ Value(Add(x, y).words) + Add(x, y).carry * Full = Value(x) + Value(y)
         /\ Value(Sub(x, y).words) - Sub(x, y).carry * Full = Value(x) - Value(y)
         /\ Value(Add(x, y).words) \in 0 .. Full - 1 /\ Value(Sub(x, y).words) \in 0 .. Full - 1
         /\ Value(x) \in 0 .. Full - 1 /\ Value(y) \in 0 .. Full - 1
<1>1. NumWords \in Nat
  BY VliAssumption, BaseEven
<1>2. /\ Add(x, y).words \in Numbers256 /\ Add(x, y).carry \in 0 .. 1
      /\ Value(Add(x, y).words) + Add(x, y).carry * Full = Value(x) + Value(y)
  BY <1>1, AddExact DEF Numbers256, Full
<1>3. /\ Sub(x, y).words \in Numbers256 /\ Sub(x, y).carry \in 0 .. 1
      /\ Value(Sub(x, y).words) - Sub(x, y).carry * Full = Value(x) - Value(y)
  BY <1>1, SubExact DEF Numbers256, Full
<1> QED
  BY <1>2, <1>3, NumberExact

(* uECC_vli_modAdd: the sum modulo m, and less than m if the first operand *)
(* was.                                                                    *)
LEMMA ModAddExact ==
  ASSUME NEW x \in Numbers256, NEW y \in Numbers256, NEW m \in Numbers256, Value(y) < Value(m)
  PROVE  /\ Value(ModAdd(x, y, m)) % Value(m) = (Value(x) + Value(y)) % Value(m)
         /\ Value(x) < Value(m) => Value(ModAdd(x, y, m)) < Value(m)
<1> DEFINE X == Value(x)
           Y == Value(y)
           M == Value(m)
           sum == Add(x, y)
           S == Value(sum.words)
           c == sum.carry
           z == Sub(sum.words, m).words
           Z == Value(z)
           d == Sub(sum.words, m).carry
<1>1. /\ X \in 0 .. Full - 1 /\ Y \in 0 .. Full - 1 /\ S \in 0 .. Full - 1 /\ c \in 0 .. 1
      /\ S + c * Full = X + Y /\ sum.words \in Numbers256
  BY WordOperations
<1>2. M \in 0 .. Full - 1 /\ Z \in 0 .. Full - 1 /\ d \in 0 .. 1 /\ Z - d * Full = S - M
  BY <1>1, WordOperations
<1>3. Full \in Nat
  BY NumberExact
<1>4. CmpUnsafe(m, sum.words) # 1 <=> S >= M
  <2>1. CmpUnsafe(m, sum.words) > 0 <=> M > S
    BY <1>1, LocalOperations
  <2>2. CmpUnsafe(m, sum.words) = IF M = S THEN 0 ELSE IF M > S THEN 1 ELSE -1
    <3>1. NumWords \in Nat
      BY VliAssumption, BaseEven
    <3> QED
      BY <1>1, <3>1, CmpUnsafeExact DEF Numbers256
  <2> QED
    BY <1>1, <1>2, <2>2
<1>5. ModAdd(x, y, m) = IF c = 1 \/ S >= M THEN z ELSE sum.words
  BY <1>4 DEF ModAdd
<1>6. Y < M
  OBVIOUS
<1> DEFINE r == Value(ModAdd(x, y, m))
<1>7. r = IF c = 1 \/ S >= M THEN Z ELSE S
  BY <1>5
<1> HIDE DEF X, Y, M, S, c, Z, d, r
<1>8. CASE c = 1 \/ S >= M
  <2>1. Z = X + Y - M
    <3> DEFINE e == X + Y - M
               i == d - c
    <3>1. c = 0 \/ c * Full = Full
      BY <1>1, <1>3
    <3>2. e \in 0 .. Full - 1
      <4>1. CASE c = 1
        <5>1. S + Full = X + Y
          BY <1>1, <1>3, <4>1
        <5> QED
          BY <1>1, <1>2, <1>3, <1>6, <5>1
      <4>2. CASE c = 0
        <5>1. S = X + Y /\ S >= M
          BY <1>1, <1>3, <1>8, <4>2
        <5> QED
          BY <1>1, <1>2, <1>3, <1>6, <5>1
      <4> QED
        BY <1>1, <4>1, <4>2
    <3>3. i \in -1 .. 1 /\ Z = e + i * Full
      <4>1. (d - c) * Full = d * Full - c * Full /\ d * Full \in Int /\ c * Full \in Int
        BY <1>1, <1>2, <1>3
      <4> QED
        BY <1>1, <1>2, <1>3, <4>1
    <3> HIDE DEF e, i
    <3>4. Z = e
      BY <1>2, <3>2, <3>3, SameWords
    <3> QED
      BY <3>4 DEF e
  <2>2. M \in Nat \ {0} /\ X + Y \in Int /\ Z = (X + Y) + M * (-1) /\ -1 \in Int
    BY <1>1, <1>2, <1>6, <2>1
  <2>3. ((X + Y) + M * (-1)) % M = (X + Y) % M
    <3> DEFINE g == X + Y
    <3>1. g \in Int
      BY <2>2
    <3> HIDE DEF g
    <3>2. (g + M * (-1)) % M = g % M
      BY <2>2, <3>1, ModTurns
    <3> QED
      BY <3>2 DEF g
  <2>4. r % M = (X + Y) % M
    BY <1>7, <1>8, <2>2, <2>3
  <2>5. X < M => r < M
    BY <1>1, <1>2, <1>6, <1>7, <1>8, <2>1
  <2> QED
    BY <2>4, <2>5 DEF r, X, Y, M
<1>9. CASE ~(c = 1 \/ S >= M)
  <2>1. S = X + Y /\ r = S /\ S < M
    <3>1. c = 0
      BY <1>1, <1>9
    <3> QED
      BY <1>1, <1>2, <1>3, <1>7, <1>9, <3>1
  <2> QED
    BY <2>1 DEF r, X, Y, M
<1> QED
  BY <1>8, <1>9

(* uECC_vli_modSub: the difference modulo m.                               *)
LEMMA ModSubExact ==
  ASSUME NEW x \in Numbers256, NEW y \in Numbers256, NEW m \in Numbers256,
         Value(x) < Value(m), Value(y) < Value(m)
  PROVE  Value(ModSub(x, y, m)) = (Value(x) - Value(y)) % Value(m)
<1> DEFINE X == Value(x)
           Y == Value(y)
           M == Value(m)
           diff == Sub(x, y)
           D == Value(diff.words)
           c == diff.carry
           z == Add(diff.words, m).words
           Z == Value(z)
           d == Add(diff.words, m).carry
<1>1. /\ X \in 0 .. Full - 1 /\ Y \in 0 .. Full - 1 /\ D \in 0 .. Full - 1 /\ c \in 0 .. 1
      /\ D - c * Full = X - Y /\ diff.words \in Numbers256
  BY WordOperations
<1>2. M \in 0 .. Full - 1 /\ Z \in 0 .. Full - 1 /\ d \in 0 .. 1 /\ Z + d * Full = D + M
  BY <1>1, WordOperations
<1>3. Full \in Nat /\ X < M /\ Y < M
  BY NumberExact
<1> DEFINE r == Value(ModSub(x, y, m))
<1>4. r = IF c = 1 THEN Z ELSE D
  BY DEF ModSub
<1> HIDE DEF X, Y, M, D, c, Z, d, r
<1>5. M \in Nat \ {0} /\ X - Y \in Int
  BY <1>1, <1>2, <1>3
<1>6. CASE c = 1
  <2>1. D - Full = X - Y
    BY <1>1, <1>3, <1>6
  <2> DEFINE e == X - Y + M
             i == 1 - d
  <2>2. e \in 0 .. Full - 1 /\ e \in 0 .. M - 1
    BY <1>1, <1>2, <1>3, <2>1
  <2>3. i \in -1 .. 1 /\ Z = e + i * Full
    <3>1. (1 - d) * Full = Full - d * Full /\ d * Full \in Int
      BY <1>2, <1>3
    <3> QED
      BY <1>1, <1>2, <1>3, <2>1, <3>1
  <2>4. X - Y = M * (-1) + e
    BY <1>1, <1>5
  <2> HIDE DEF e, i
  <2>5. Z = e
    BY <1>2, <2>2, <2>3, SameWords
  <2>6. (X - Y) % M = e
    <3> DEFINE g == X - Y
    <3>1. g \in Int /\ g = M * (-1) + e /\ -1 \in Int
      BY <1>5, <2>4
    <3> HIDE DEF g
    <3>2. g % M = e
      BY <1>5, <2>2, <3>1, ModUnique
    <3> QED
      BY <3>2 DEF g
  <2> QED
    BY <1>4, <1>6, <2>5, <2>6 DEF r, X, Y, M
<1>7. CASE c = 0
  <2>1. D = X - Y /\ r = D
    BY <1>1, <1>3, <1>4, <1>7
  <2>2. D \in 0 .. M - 1
    BY <1>1, <1>2, <1>3, <2>1
  <2>3. D % M = D
    BY <1>5, <2>2
  <2> QED
    BY <2>1, <2>3 DEF r, X, Y, M
<1> QED
  BY <1>1, <1>6, <1>7

-----------------------------------------------------------------------------
(* omega_mult_secp256k1.                                                   *)

(* A word times Omega, with a carry, is two words.                         *)
LEMMA WordTimesOmega ==
  ASSUME NEW x \in Word, NEW c \in Word
  PROVE  /\ (Omega * x + c) \div Base \in Word /\ (Omega * x + c) % Base \in Word
         /\ ((Omega * x + c) % Base) + ((Omega * x + c) \div Base) * Base = Omega * x + c
<1> DEFINE B == Base
           M == B - 1
           f == Omega * x
<1>1. B \in Nat \ {0} /\ M \in Nat /\ x \in 0 .. M /\ c \in 0 .. M /\ Omega \in 0 .. M
  BY BaseEven, VliAssumption DEF Word
<1>2. M * M >= M * x /\ M * x \in Nat /\ M * M \in Nat
  <2>1. x \in Nat /\ M >= x
    BY <1>1
  <2> HIDE DEF M
  <2> QED
    BY <1>1, <2>1, TimesMonotone
<1>3. x * M >= f /\ f \in Nat
  <2>1. x \in Nat /\ Omega \in Nat /\ M >= Omega
    BY <1>1
  <2> HIDE DEF M
  <2>2. x * M >= x * Omega /\ x * Omega \in Nat
    BY <1>1, <2>1, TimesMonotone
  <2>3. x * Omega = Omega * x
    BY <2>1
  <2> QED
    BY <2>2, <2>3
<1>4. M * x = x * M
  BY <1>1
<1>5. M * M + M = M * B /\ M * B \in Nat
  <2>1. M * (M + 1) = M * M + M
    BY <1>1
  <2>2. M + 1 = B
    BY <1>1
  <2> QED
    BY <1>1, <2>1, <2>2
<1>6. f + c \in Nat /\ f + c <= M * B
  <2> DEFINE g == M * M
             h == M * B
             i == M * x
  <2>1. g \in Nat /\ h \in Nat /\ i \in Nat /\ g >= i /\ i >= f /\ g + M = h
    BY <1>2, <1>3, <1>4, <1>5
  <2> HIDE DEF f, g, h, i, M
  <2> QED
    BY <1>1, <1>3, <2>1 DEF h
<1> DEFINE y == f + c
<1>7. y \in Nat /\ y <= M * B
  BY <1>6
<1> HIDE DEF f, y
<1>8. y \div B \in Nat /\ y % B \in 0 .. B - 1 /\ B * (y \div B) + (y % B) = y
  <2> HIDE DEF B
  <2> QED
    BY <1>1, <1>7, Parts
<1> DEFINE q == y \div B
           r == y % B
<1>9. q \in Nat /\ r \in Nat /\ B * q + r = y
  BY <1>8
<1> HIDE DEF q, r
<1>10. q <= M
  <2>1. SUFFICES ASSUME q >= B PROVE FALSE
    BY <1>1, <1>9
  <2>2. B * q >= B * B
    <3> HIDE DEF B
    <3> QED
      BY <1>1, <1>9, <2>1, TimesMonotone
  <2>3. M * B = B * B - B /\ B * B \in Nat
    BY <1>1
  <2>4. B * q \in Nat
    BY <1>1, <1>9
  <2> DEFINE g == B * q
             h == B * B
             i == M * B
  <2>5. g \in Nat /\ h \in Nat /\ g >= h /\ i = h - B /\ y <= i /\ g + r = y
    BY <1>7, <1>9, <2>2, <2>3, <2>4
  <2> HIDE DEF g, h, i
  <2> QED
    BY <1>1, <1>7, <1>9, <2>5
<1>11. q * B = B * q /\ B * q \in Nat
  BY <1>1, <1>9
<1>12. r + q * B = y
  BY <1>9, <1>11
<1> QED
  BY <1>8, <1>9, <1>10, <1>12 DEF Word, q, r, y, f

(* The equation of OmegaCarries.                                           *)
OmegaCarriesOf(w, f) ==
  f = [k \in 0 .. NumWords |-> IF k = 0 THEN 0 ELSE (Omega * w[k] + f[k - 1]) \div Base]

(* The carries are words.                                                  *)
LEMMA OmegaCarriesDef ==
  ASSUME NEW w \in Numbers256
  PROVE  /\ OmegaCarries(w) \in [0 .. NumWords -> Word] /\ OmegaCarries(w)[0] = 0
         /\ \A k \in 1 .. NumWords :
              OmegaCarries(w)[k] = (Omega * w[k] + OmegaCarries(w)[k - 1]) \div Base
<1> DEFINE n == NumWords
           S == Word
           zero == 0
           step == [k \in 1 .. n |-> [s \in S |-> (Omega * w[k] + s) \div Base]]
<1>1. n \in Nat
  BY VliAssumption, BaseEven
<1>2. \A k \in 1 .. n : w[k] \in Word
  BY DEF Numbers256, WordsOf
<1>3. \A k \in 1 .. n : \A s \in S : (Omega * w[k] + s) \div Base \in S
  BY <1>2, WordTimesOmega
<1>4. zero \in S
  BY BaseEven DEF Word
<1> HIDE DEF S
<1>5. step \in [1 .. n -> [S -> S]]
  BY <1>3
<1>6. ASSUME NEW f \in [0 .. n -> S], Loops(f, n, zero, step)
      PROVE  OmegaCarriesOf(w, f)
  <2>1. ASSUME NEW k \in 1 .. n PROVE f[k] = (Omega * w[k] + f[k - 1]) \div Base
    <3>1. f[k - 1] \in S
      BY <1>1
    <3>2. step[k] = [s \in S |-> (Omega * w[k] + s) \div Base]
      OBVIOUS
    <3> HIDE DEF step
    <3>3. f[k] = step[k][f[k - 1]]
      BY <1>6 DEF Loops
    <3> QED
      BY <3>1, <3>2, <3>3
  <2>2. f[0] = 0
    BY <1>6 DEF Loops
  <2> QED
    BY <2>1, <2>2 DEF OmegaCarriesOf
<1> HIDE DEF step, zero
<1>7. \E f : OmegaCarriesOf(w, f)
  <2> HIDE DEF n
  <2> QED
    BY <1>1, <1>4, <1>5, <1>6, LoopExists
<1>8. OmegaCarriesOf(w, CHOOSE f : OmegaCarriesOf(w, f))
  BY <1>7
<1> DEFINE c == OmegaCarries(w)
<1>9. c = CHOOSE f : OmegaCarriesOf(w, f)
  BY DEF OmegaCarries, OmegaCarriesOf
<1> HIDE DEF c
<1>10. OmegaCarriesOf(w, c)
  BY <1>8, <1>9
<1>11. c = [k \in 0 .. n |-> c[k]] /\ c[0] = 0
       /\ \A k \in 1 .. n : c[k] = (Omega * w[k] + c[k - 1]) \div Base
  BY <1>1, <1>10 DEF OmegaCarriesOf
<1>12. c[0] \in S /\ \A k \in 1 .. n : c[k - 1] \in S => c[k] \in S
  BY <1>3, <1>4, <1>11 DEF zero
<1>13. c \in [0 .. n -> S]
  <2> HIDE DEF n
  <2> QED
    BY <1>1, <1>11, <1>12, LoopTyped
<1> QED
  BY <1>11, <1>13 DEF c, S

(* If s and a carry are m times x, with p for the place of the next word,  *)
(* then with this word they are as well.                                   *)
WordScaled(s, x, c, p, w, l, d, B, m) ==
  s + c * p = m * x /\ w + d * B = m * l + c
    => (s + w * p) + d * (B * p) = m * (x + l * p)

(* One more word of a product by a word.                                   *)
LEMMA OneWordScaled ==
  \A s, x, c, p, w, l, d, B, m \in Int : WordScaled(s, x, c, p, w, l, d, B, m)
<1> SUFFICES ASSUME NEW s \in Int, NEW x \in Int, NEW c \in Int,
                    NEW p \in Int, NEW w \in Int, NEW l \in Int,
                    NEW d \in Int, NEW B \in Int, NEW m \in Int,
                    s + c * p = m * x, w + d * B = m * l + c
             PROVE  (s + w * p) + d * (B * p) = m * (x + l * p)
  BY DEF WordScaled
<1>1. d * B \in Int /\ w * p \in Int /\ l * p \in Int /\ c * p \in Int /\ m * l \in Int
  OBVIOUS
<1>2. (w + d * B) * p = w * p + (d * B) * p
  BY <1>1
<1>3. (d * B) * p = d * (B * p) /\ (d * B) * p \in Int
  BY <1>1
<1>4. (m * l + c) * p = (m * l) * p + c * p
  BY <1>1
<1>5. m * (x + l * p) = m * x + m * (l * p) /\ m * (l * p) = (m * l) * p
  BY <1>1
<1>6. (m * l) * p \in Int /\ m * x \in Int
  BY <1>1
<1> QED
  BY <1>1, <1>2, <1>3, <1>4, <1>5, <1>6

(* What the first loop of omega_mult_secp256k1 leaves: Omega times w.      *)
OmegaLow(w) == [k \in 1 .. NumWords |-> (Omega * w[k] + OmegaCarries(w)[k - 1]) % Base]

(* The first loop multiplies by Omega.                                     *)
LEMMA OmegaLowExact ==
  ASSUME NEW w \in Numbers256
  PROVE  /\ OmegaLow(w) \in Numbers256 /\ OmegaCarries(w)[NumWords] \in Word
         /\ Value(OmegaLow(w)) + OmegaCarries(w)[NumWords] * Full = Omega * Value(w)
<1> DEFINE n == NumWords
           c == OmegaCarries(w)
           z == OmegaLow(w)
           p == Power(Base)
<1>1. c \in [0 .. n -> Word] /\ c[0] = 0
      /\ \A k \in 1 .. n : c[k] = (Omega * w[k] + c[k - 1]) \div Base
  BY OmegaCarriesDef
<1>2. n \in Nat
  BY VliAssumption, BaseEven
<1>3. ASSUME NEW k \in 1 .. n
      PROVE  z[k] \in Word /\ z[k] + c[k] * Base = Omega * w[k] + c[k - 1]
  <2>1. w[k] \in Word /\ c[k - 1] \in Word
    BY <1>1, <1>2 DEF Numbers256, WordsOf
  <2>2. c[k] = (Omega * w[k] + c[k - 1]) \div Base /\ z[k] = (Omega * w[k] + c[k - 1]) % Base
    BY <1>1 DEF OmegaLow
  <2> QED
    BY <2>1, <2>2, WordTimesOmega
<1>4. z \in WordsOf(n)
  BY <1>3 DEF WordsOf, OmegaLow
<1> HIDE DEF z, c
<1> DEFINE s == Sums(z)
           x == Sums(w)
           T == {k \in Nat : k <= n => s[k] + c[k] * p[k] = Omega * x[k]}
<1>5. /\ s \in [0 .. n -> Nat] /\ s[0] = 0 /\ Value(z) = s[n]
      /\ \A k \in 1 .. n : s[k] = s[k - 1] + z[k] * p[k - 1]
  <2> HIDE DEF n
  <2> QED
    BY <1>2, <1>4, SumsDef
<1>6. /\ x \in [0 .. n -> Nat] /\ x[0] = 0 /\ Value(w) = x[n]
      /\ \A k \in 1 .. n : x[k] = x[k - 1] + w[k] * p[k - 1]
  BY <1>2, SumsDef DEF Numbers256
<1>7. Base \in Nat /\ p[0] = 1 /\ \A k \in Nat : p[k + 1] = Base * p[k] /\ p[k] \in Nat
  BY BasePowers
<1>8. Omega \in Int /\ Base \in Int
  BY VliAssumption, BaseEven
<1> HIDE DEF s, x, p
<1>9. 0 \in T
  <2>1. s[0] = 0 /\ x[0] = 0 /\ c[0] = 0 /\ p[0] = 1 /\ Omega * 0 = 0
    BY <1>1, <1>5, <1>6, <1>7, <1>8
  <2> QED
    BY <2>1
<1>10. ASSUME NEW k \in T PROVE k + 1 \in T
  <2>1. SUFFICES ASSUME k + 1 <= n PROVE s[k + 1] + c[k + 1] * p[k + 1] = Omega * x[k + 1]
    OBVIOUS
  <2>2. k \in 0 .. n /\ k + 1 \in 1 .. n /\ (k + 1) - 1 = k /\ s[k] + c[k] * p[k] = Omega * x[k]
    BY <1>2, <2>1
  <2>3. z[k + 1] + c[k + 1] * Base = Omega * w[k + 1] + c[(k + 1) - 1]
    BY <1>3, <2>2
  <2>4. s[k + 1] = s[(k + 1) - 1] + z[k + 1] * p[(k + 1) - 1]
    BY <1>5, <2>2
  <2>5. x[k + 1] = x[(k + 1) - 1] + w[k + 1] * p[(k + 1) - 1]
    BY <1>6, <2>2
  <2>6. p[k + 1] = Base * p[k] /\ p[k] \in Int
    BY <1>7, <2>2
  <2>7. z[k + 1] \in Int /\ w[k + 1] \in Int
    BY <1>4, <1>8, <2>2 DEF WordsOf, Word, Numbers256
  <2>8. c[k + 1] \in Int /\ c[k] \in Int
    BY <1>1, <1>8, <2>2 DEF Word
  <2>9. s[k] \in Int /\ x[k] \in Int
    BY <1>5, <1>6, <2>2
  <2>10. WordScaled(s[k], x[k], c[k], p[k], z[k + 1], w[k + 1], c[k + 1], Base, Omega)
    BY <1>8, <2>6, <2>7, <2>8, <2>9, OneWordScaled
  <2>11. z[k + 1] + c[k + 1] * Base = Omega * w[k + 1] + c[k]
    BY <2>2, <2>3
  <2>12. (s[k] + z[k + 1] * p[k]) + c[k + 1] * (Base * p[k]) = Omega * (x[k] + w[k + 1] * p[k])
    BY <2>2, <2>10, <2>11 DEF WordScaled
  <2> QED
    BY <2>2, <2>4, <2>5, <2>6, <2>12
<1>11. T \in SUBSET Nat
  OBVIOUS
<1> HIDE DEF T
<1>12. T = Nat
  BY <1>9, <1>10, <1>11, Induct
<1>13. s[n] + c[n] * p[n] = Omega * x[n]
  BY <1>2, <1>12 DEF T
<1>14. c[n] \in Word
  BY <1>1, <1>2
<1> QED
  BY <1>4, <1>5, <1>6, <1>13, <1>14 DEF p, z, c, Numbers256, Full

(* A word on top of the others.                                            *)
LEMMA TopValue ==
  ASSUME NEW i \in Nat, NEW w \in WordsOf(i + 1), NEW x \in WordsOf(i),
         \A k \in 1 .. i : x[k] = w[k]
  PROVE  Value(w) = Value(x) + Power(Base)[i] * w[i + 1]
<1> DEFINE y == [k \in 1 .. 1 |-> w[i + k]]
<1>1. i + 1 \in 1 .. i + 1 /\ w[i + 1] \in Word
  BY DEF WordsOf
<1>2. y \in WordsOf(1) /\ y[1] = w[i + 1] /\ \A k \in 1 .. 1 : y[k] = w[i + k]
  BY <1>1 DEF WordsOf
<1> HIDE DEF y
<1>3. Value(w) = Value(x) + Power(Base)[i] * Value(y)
  BY <1>2, SplitValue
<1>4. Value(y) = y[1]
  BY <1>2, OneWordValue
<1> QED
  BY <1>2, <1>3, <1>4

(* A word below the others.                                                *)
LEMMA BottomValue ==
  ASSUME NEW i \in Nat, NEW w \in WordsOf(1 + i), NEW y \in WordsOf(i),
         \A k \in 1 .. i : y[k] = w[1 + k]
  PROVE  Value(w) = w[1] + Base * Value(y)
<1> DEFINE x == [k \in 1 .. 1 |-> w[k]]
<1>1. 1 \in 1 .. 1 + i /\ w[1] \in Word
  BY DEF WordsOf
<1>2. x \in WordsOf(1) /\ x[1] = w[1] /\ \A k \in 1 .. 1 : x[k] = w[k]
  BY <1>1 DEF WordsOf
<1> HIDE DEF x
<1>3. Value(w) = Value(x) + Power(Base)[1] * Value(y)
  BY <1>2, SplitValue
<1>4. Value(x) = x[1]
  BY <1>2, OneWordValue
<1>5. Power(Base)[1] = Base
  <2>1. Power(Base)[0 + 1] = Base * Power(Base)[0] /\ Power(Base)[0] = 1 /\ Base \in Nat
    BY BasePowers
  <2>2. Base * 1 = Base /\ 0 + 1 = 1
    BY <2>1
  <2> QED
    BY <2>1, <2>2
<1> QED
  BY <1>2, <1>3, <1>4, <1>5

(* One word and zeros above it.                                            *)
LEMMA LoneValue ==
  ASSUME NEW i \in Nat, NEW w \in WordsOf(1 + i), \A k \in 2 .. 1 + i : w[k] = 0
  PROVE  Value(w) = w[1]
<1> DEFINE y == [k \in 1 .. i |-> w[1 + k]]
<1>1. y \in WordsOf(i) /\ (\A k \in 1 .. i : y[k] = w[1 + k]) /\ \A k \in 1 .. i : y[k] = 0
  BY DEF WordsOf
<1> HIDE DEF y
<1>2. Value(y) = 0
  BY <1>1, ZerosValue
<1>3. Value(w) = w[1] + Base * Value(y)
  BY <1>1, BottomValue
<1>4. w[1] \in Nat /\ Base \in Nat
  BY BaseEven DEF WordsOf, Word
<1>5. Base * 0 = 0
  BY <1>4
<1> QED
  BY <1>2, <1>3, <1>4, <1>5

(* The words above the lowest one of it.                                   *)
OmegaHigh(w) ==
  [k \in 1 .. NumWords |->
     IF k < NumWords THEN OmegaLow(w)[k + 1] ELSE OmegaCarries(w)[k]]

(* What the second loop adds to: the first result less its low word.       *)
LEMMA OmegaHighExact ==
  ASSUME NEW w \in Numbers256
  PROVE  /\ OmegaHigh(w) \in Numbers256 /\ OmegaLow(w)[1] \in Word
         /\ OmegaLow(w)[1] + Base * Value(OmegaHigh(w)) = Omega * Value(w)
<1> DEFINE n == NumWords
           low == OmegaLow(w)
           c == OmegaCarries(w)[n]
           h == OmegaHigh(w)
           t == [k \in 1 .. n + 1 |-> IF k <= n THEN low[k] ELSE c]
<1>1. n \in Nat /\ n >= 2
  BY VliAssumption, BaseEven
<1>2. /\ low \in WordsOf(n) /\ c \in Word
      /\ Value(low) + c * Full = Omega * Value(w)
  BY OmegaLowExact DEF Numbers256
<1>3. h = [k \in 1 .. n |-> IF k < n THEN low[k + 1] ELSE c]
  BY <1>1 DEF OmegaHigh
<1> HIDE DEF low, c, h
<1>4. h \in WordsOf(n)
  BY <1>1, <1>2, <1>3 DEF WordsOf
<1>5. t \in WordsOf(n + 1)
  BY <1>1, <1>2 DEF WordsOf
<1>6. (\A k \in 1 .. n : low[k] = t[k]) /\ t[n + 1] = c /\ t[1] = low[1] /\ low[1] \in Word
  BY <1>1, <1>2 DEF WordsOf
<1>7. \A k \in 1 .. n : h[k] = t[1 + k]
  BY <1>1, <1>3
<1> HIDE DEF t
<1>8. Value(t) = Value(low) + Full * c
  <2> HIDE DEF n
  <2>1. Value(t) = Value(low) + Power(Base)[n] * t[n + 1]
    BY <1>1, <1>2, <1>5, <1>6, TopValue
  <2> QED
    BY <1>6, <2>1 DEF Full, n
<1>9. Value(t) = low[1] + Base * Value(h)
  <2>1. n + 1 = 1 + n
    BY <1>1
  <2> HIDE DEF n
  <2>2. t \in WordsOf(1 + n)
    BY <1>5, <2>1
  <2>3. Value(t) = t[1] + Base * Value(h)
    BY <1>1, <1>4, <1>7, <2>2, BottomValue
  <2> QED
    BY <1>6, <2>3
<1>10. c * Full = Full * c
  BY <1>2, NumberExact, BaseEven DEF Word
<1> QED
  BY <1>2, <1>4, <1>6, <1>8, <1>9, <1>10 DEF low, c, h, Numbers256

(* omega_mult_secp256k1 multiplies by 2^256 - p.                           *)
LEMMA OmegaMultExact ==
  ASSUME NEW w \in Numbers256
  PROVE  /\ OmegaMult(w) \in WordsOf(2 * NumWords)
         /\ Value(OmegaMult(w)) = (Base + Omega) * Value(w)
<1> DEFINE n == NumWords
           low == OmegaLow(w)[1]
           h == OmegaHigh(w)
           high == Add(h, w)
           g == high.words
           d == high.carry
           r == OmegaMult(w)
           t == [k \in 1 .. n + (n - 1) |-> r[1 + k]]
           z == [k \in 1 .. 1 + (n - 2) |-> t[n + k]]
<1>1. n \in Nat /\ n >= 2
  BY VliAssumption, BaseEven
<1>2. h \in Numbers256 /\ low \in Word /\ low + Base * Value(h) = Omega * Value(w)
  BY OmegaHighExact
<1>3. r = [k \in 1 .. 2 * n |->
             IF k = 1 THEN low ELSE IF k <= n + 1 THEN g[k - 1]
             ELSE IF k = n + 2 THEN d ELSE 0]
  <2>1. h = [k \in 1 .. n |-> IF k < n THEN (Omega * w[k + 1] + OmegaCarries(w)[(k + 1) - 1]) % Base
                              ELSE OmegaCarries(w)[k]]
    BY <1>1 DEF OmegaHigh, OmegaLow
  <2>2. low = (Omega * w[1] + OmegaCarries(w)[1 - 1]) % Base
    BY <1>1 DEF OmegaLow
  <2> QED
    BY <1>1, <2>1, <2>2 DEF OmegaMult, OmegaHigh, OmegaLow
<1>4. /\ g \in WordsOf(n) /\ d \in 0 .. 1
      /\ Value(g) + d * Full = Value(h) + Value(w)
  BY <1>2, WordOperations DEF Numbers256
<1>5. d \in Word /\ 0 \in Word
  BY <1>4, BaseEven DEF Word
<1> HIDE DEF low, h, g, d, r
<1>6. ASSUME NEW k \in 1 .. 2 * n PROVE r[k] \in Word
  <2>1. CASE k = 1
    BY <1>2, <1>3, <2>1
  <2>2. CASE k # 1 /\ k <= n + 1
    <3>1. k - 1 \in 1 .. n /\ r[k] = g[k - 1]
      BY <1>1, <1>3, <2>2
    <3> QED
      BY <1>4, <3>1 DEF WordsOf
  <2>3. CASE k = n + 2
    BY <1>1, <1>3, <1>5, <2>3
  <2>4. CASE k > n + 2
    BY <1>1, <1>3, <1>5, <2>4
  <2> QED
    BY <1>1, <2>1, <2>2, <2>3, <2>4
<1>7. r \in WordsOf(2 * n)
  BY <1>3, <1>6 DEF WordsOf
<1>8. 2 * n = 1 + (n + (n - 1)) /\ n + (n - 1) \in Nat /\ n - 1 = 1 + (n - 2) /\ n - 2 \in Nat
  BY <1>1
<1>9. t \in WordsOf(n + (n - 1))
  BY <1>1, <1>6 DEF WordsOf
<1>10. z \in WordsOf(1 + (n - 2))
  <2>1. ASSUME NEW k \in 1 .. 1 + (n - 2) PROVE t[n + k] \in Word
    <3>1. n + k \in 1 .. n + (n - 1)
      BY <1>1
    <3> HIDE DEF t
    <3> QED
      BY <1>9, <3>1 DEF WordsOf
  <2> QED
    BY <2>1 DEF WordsOf
<1>11. \A k \in 1 .. n + (n - 1) : t[k] = r[1 + k]
  OBVIOUS
<1>12. \A k \in 1 .. 1 + (n - 2) : z[k] = t[n + k]
  BY DEF z
<1> HIDE DEF t, z
<1>13. Value(r) = low + Base * Value(t)
  <2>1. r \in WordsOf(1 + (n + (n - 1))) /\ r[1] = low
    BY <1>1, <1>3, <1>7, <1>8
  <2> HIDE DEF n
  <2>2. Value(r) = r[1] + Base * Value(t)
    BY <1>8, <1>9, <1>11, <2>1, BottomValue
  <2> QED
    BY <2>1, <2>2
<1>14. Value(t) = Value(g) + Full * Value(z)
  <2>1. ASSUME NEW k \in 1 .. n PROVE g[k] = t[k]
    <3>1. 1 + k \in 1 .. 2 * n /\ (1 + k) - 1 = k /\ k \in 1 .. n + (n - 1) /\ 1 + k # 1
          /\ 1 + k <= n + 1
      BY <1>1
    <3>2. r[1 + k] = g[(1 + k) - 1]
      BY <1>3, <3>1
    <3>3. t[k] = r[1 + k]
      BY <1>11, <3>1
    <3> QED
      BY <3>1, <3>2, <3>3
  <2>2. n - 1 \in Nat /\ z \in WordsOf(n - 1) /\ \A k \in 1 .. n - 1 : z[k] = t[n + k]
    BY <1>1, <1>8, <1>10, <1>12
  <2> HIDE DEF n
  <2>3. Value(t) = Value(g) + Power(Base)[n] * Value(z)
    BY <1>1, <1>4, <1>9, <2>1, <2>2, SplitValue
  <2> QED
    BY <2>3 DEF Full, n
<1>15. Value(z) = d
  <2>1. z[1] = d
    <3>1. 1 \in 1 .. 1 + (n - 2) /\ n + 1 \in 1 .. n + (n - 1) /\ 1 + (n + 1) \in 1 .. 2 * n
          /\ 1 + (n + 1) = n + 2 /\ 1 + (n + 1) # 1 /\ ~(1 + (n + 1) <= n + 1)
      BY <1>1
    <3>2. z[1] = t[n + 1] /\ t[n + 1] = r[1 + (n + 1)] /\ r[1 + (n + 1)] = d
      BY <1>3, <1>11, <1>12, <3>1
    <3> QED
      BY <3>2
  <2>2. ASSUME NEW k \in 2 .. 1 + (n - 2) PROVE z[k] = 0
    <3>1. k \in 1 .. 1 + (n - 2) /\ n + k \in 1 .. n + (n - 1) /\ 1 + (n + k) \in 1 .. 2 * n
          /\ 1 + (n + k) # n + 2 /\ 1 + (n + k) # 1 /\ ~(1 + (n + k) <= n + 1)
      BY <1>1
    <3>2. z[k] = t[n + k] /\ t[n + k] = r[1 + (n + k)] /\ r[1 + (n + k)] = 0
      BY <1>3, <1>11, <1>12, <3>1
    <3> QED
      BY <3>2
  <2> HIDE DEF n
  <2> QED
    BY <1>8, <1>10, <2>1, <2>2, LoneValue
<1>16. /\ Value(g) \in Nat /\ Value(h) \in Nat /\ Value(w) \in Nat /\ Full \in Nat /\ Base \in Nat
       /\ low \in Nat /\ d \in Nat /\ Omega \in Nat
  <2>1. Value(g) \in Nat /\ Value(h) \in Nat /\ Value(w) \in Nat
    BY <1>1, <1>2, <1>4, SumsDef DEF Numbers256
  <2> QED
    BY <1>2, <1>4, <2>1, NumberExact, BaseEven, VliAssumption DEF Word
<1> DEFINE G == Value(g)
           H == Value(h)
           W == Value(w)
<1>17. /\ Value(r) = low + Base * (G + Full * d) /\ G + d * Full = H + W
       /\ low + Base * H = Omega * W
       /\ G \in Nat /\ H \in Nat /\ W \in Nat
  BY <1>2, <1>4, <1>13, <1>14, <1>15, <1>16
<1> HIDE DEF G, H, W
<1>18. Value(r) = (Base + Omega) * W
  <2>1. Full * d = d * Full
    BY <1>16
  <2>2. Value(r) = low + Base * (H + W)
    BY <1>17, <2>1
  <2>3. Base * (H + W) = Base * H + Base * W /\ (Base + Omega) * W = Base * W + Omega * W
    BY <1>16, <1>17
  <2>4. Base * H \in Nat /\ Base * W \in Nat /\ Omega * W \in Nat
    BY <1>16, <1>17
  <2> QED
    BY <1>16, <1>17, <2>2, <2>3, <2>4
<1> QED
  BY <1>7, <1>18 DEF r, W

-----------------------------------------------------------------------------
(* vli_mmod_fast_secp256k1.                                                *)

(* A prime divides no product of two numbers below it.                     *)
LEMMA PrimeProduct ==
  ASSUME NEW m \in Nat, \A d \in 2 .. m - 1 : m % d # 0, NEW x \in 1 .. m - 1, NEW y \in 1 .. m - 1
  PROVE  (x * y) % m # 0
<1> DEFINE T == {d \in Nat : d > 0 /\ Divides(m, d * y)}
<1>1. m \in Nat \ {0} /\ x \in Nat /\ y \in Nat /\ x * y \in Nat
  OBVIOUS
<1>2. SUFFICES ASSUME (x * y) % m = 0 PROVE FALSE
  OBVIOUS
<1>3. x \in T
  <2> DEFINE N == x * y
             q == N \div m
  <2>1. N \in Nat /\ N % m = 0
    BY <1>1, <1>2
  <2> HIDE DEF N
  <2>2. q \in Nat /\ m * q + (N % m) = N
    BY <1>1, <2>1, Parts
  <2> HIDE DEF q
  <2>3. m * q \in Nat
    BY <1>1, <2>2
  <2>4. N = m * q /\ q \in Int
    BY <2>1, <2>2, <2>3
  <2>5. Divides(m, x * y)
    BY <2>4 DEF Divides, N
  <2> QED
    BY <1>1, <2>5
<1>4. T \in SUBSET Nat /\ T # {}
  BY <1>3
<1>5. PICK d \in T : \A e \in T : d <= e
  <2> HIDE DEF T
  <2> QED
    BY <1>4, Least
<1>6. d \in Nat /\ d > 0 /\ d <= x /\ d < m
  BY <1>3, <1>5
<1>7. PICK k \in Int : d * y = m * k
  BY <1>5 DEF Divides
<1>8. d # 1
  <2>1. SUFFICES ASSUME d = 1 PROVE FALSE
    OBVIOUS
  <2>2. y = m * k
    BY <1>1, <1>7, <2>1
  <2>3. y = m * k + 0 /\ 0 \in 0 .. m - 1
    BY <1>1, <2>2
  <2>4. y % m = 0
    BY <1>1, <2>3, ModUnique
  <2>5. y % m = y
    BY <1>1
  <2> QED
    BY <2>4, <2>5
<1> DEFINE q == m \div d
           r == m % d
<1>9. q \in Nat /\ r \in 0 .. d - 1 /\ d * q + r = m
  <2>1. d \in Nat \ {0} /\ m \in Nat
    BY <1>1, <1>6
  <2>2. q \in Nat /\ r \in 0 .. d - 1 /\ d * (m \div d) + (m % d) = m
    BY <2>1, Parts
  <2> QED
    BY <2>2
<1>10. r # 0
  <2>1. d \in 2 .. m - 1
    BY <1>6, <1>8
  <2> QED
    BY <2>1
<1> HIDE DEF q, r
<1>11. Divides(m, r * y)
  <2> DEFINE f == d * q
             i == y - q * k
  <2>1. f \in Nat /\ r = m - f /\ i \in Int /\ r \in Nat
    BY <1>6, <1>9
  <2>2. f * y = q * (m * k)
    <3>1. (d * q) * y = q * (d * y)
      BY <1>1, <1>6, <1>9
    <3> QED
      BY <1>7, <3>1
  <2> HIDE DEF f
  <2>3. r * y = m * y - f * y
    BY <1>1, <2>1
  <2>4. m * i = m * y - q * (m * k)
    <3>1. m * (y - q * k) = m * y - m * (q * k) /\ m * (q * k) = q * (m * k)
      BY <1>1, <1>9
    <3> QED
      BY <3>1
  <2>5. r * y = m * i /\ i \in Int
    BY <2>1, <2>2, <2>3, <2>4
  <2> QED
    BY <2>5 DEF Divides
<1>12. r \in T
  BY <1>6, <1>9, <1>10, <1>11
<1>13. d <= r /\ r < d
  <2>1. d <= r
    BY <1>5, <1>12
  <2> QED
    BY <1>6, <1>9, <2>1
<1>14. r \in Nat
  BY <1>6, <1>9
<1> QED
  BY <1>6, <1>13, <1>14

(* What the reduction multiplies by, how small it is, and p.               *)
LEMMA FoldSizes ==
  /\ Base + Omega \in Nat /\ Base + Omega >= 3
  /\ (Base + Omega) * (Base + Omega) \in Nat
  /\ (Base + Omega) * (Base + Omega) + (Base + Omega) < Full
  /\ 3 * (Base + Omega) < Full
  /\ Full = P + (Base + Omega) /\ P \in Nat /\ P < Full
  /\ Number(P) \in Numbers256 /\ Value(Number(P)) = P
<1> DEFINE S == Base + Omega
           K == S * S
<1>1. S \in Nat /\ S >= 3
  BY BaseEven, VliAssumption
<1>2. S * (S + 1) < Full /\ Full \in Nat
  BY VliAssumption, NumberExact
<1>3. P \in 3 .. Full - 1
  BY Moduli
<1>4. Full = P + S /\ P \in Nat /\ P < Full
  BY <1>1, <1>2, <1>3, BaseEven, VliAssumption DEF P
<1>5. Number(P) \in Numbers256 /\ Value(Number(P)) = P
  <2>1. P \in 0 .. Full - 1
    BY <1>3
  <2> QED
    BY <2>1, NumberExact
<1> HIDE DEF S
<1>6. S * (S + 1) = S * S + S /\ K \in Nat
  BY <1>1
<1>7. S * S >= S * 3
  BY <1>1, TimesMonotone
<1>8. K + S < Full /\ 3 * S < Full
  <2>1. S * 3 = 3 * S /\ K >= S * 3 /\ K + S < Full
    BY <1>1, <1>2, <1>6, <1>7
  <2> HIDE DEF K
  <2> QED
    BY <1>1, <1>2, <1>6, <2>1
<1> QED
  BY <1>1, <1>4, <1>5, <1>6, <1>8 DEF S, K

(* One subtraction of p, as the words come out of it.                      *)
LEMMA LessOnce ==
  ASSUME NEW w \in Numbers256
  PROVE  /\ Sub(w, Number(P)).words \in Numbers256
         /\ Value(Sub(w, Number(P)).words)
              = IF Value(w) >= P THEN Value(w) - P ELSE Value(w) + (Base + Omega)
<1> DEFINE z == Sub(w, Number(P)).words
           d == Sub(w, Number(P)).carry
           W == Value(w)
           Z == Value(z)
           S == Base + Omega
<1>1. z \in Numbers256 /\ d \in 0 .. 1 /\ Z - d * Full = W - P
      /\ Z \in 0 .. Full - 1 /\ W \in 0 .. Full - 1
  BY FoldSizes, WordOperations
<1>2. Full = P + S /\ P \in Nat /\ S \in Nat /\ Full \in Nat
  BY FoldSizes, NumberExact
<1> HIDE DEF z, d, W, Z, S
<1>3. Z = IF W >= P THEN W - P ELSE W + S
  <2>1. d = 0 \/ d = 1
    BY <1>1
  <2>2. CASE d = 0
    <3>1. Z = W - P
      BY <1>1, <1>2, <2>2
    <3> QED
      BY <1>1, <1>2, <3>1
  <2>3. CASE d = 1
    <3>1. Z - Full = W - P
      BY <1>1, <1>2, <2>3
    <3> QED
      BY <1>1, <1>2, <3>1
  <2> QED
    BY <2>1, <2>2, <2>3
<1> QED
  BY <1>1, <1>3 DEF z, W, Z, S

(* The turns of the loop that subtracts p for every carry.                 *)
LessPOf(w, count, f) ==
  f = [k \in 0 .. count |-> IF k = 0 THEN w ELSE Sub(f[k - 1], Number(P)).words]

(* The loop that subtracts p for every carry.                              *)
LEMMA LessPDef ==
  ASSUME NEW w \in Numbers256, NEW count \in Nat
  PROVE  \E f : LessPOf(w, count, f) /\ LessP(w, count) = f[count]
<1> DEFINE S == Numbers256
           step == [k \in 1 .. count |-> [s \in S |-> Sub(s, Number(P)).words]]
<1>1. \A s \in S : Sub(s, Number(P)).words \in S
  BY LessOnce
<1> HIDE DEF S
<1>2. step \in [1 .. count -> [S -> S]]
  BY <1>1
<1>3. w \in S
  BY DEF S
<1>4. ASSUME NEW f \in [0 .. count -> S], Loops(f, count, w, step)
      PROVE  LessPOf(w, count, f)
  <2>1. ASSUME NEW k \in 1 .. count PROVE f[k] = Sub(f[k - 1], Number(P)).words
    <3>1. f[k - 1] \in S
      OBVIOUS
    <3>2. step[k] = [s \in S |-> Sub(s, Number(P)).words]
      OBVIOUS
    <3> HIDE DEF step
    <3>3. f[k] = step[k][f[k - 1]]
      BY <1>4 DEF Loops
    <3> QED
      BY <3>1, <3>2, <3>3
  <2>2. f[0] = w
    BY <1>4 DEF Loops
  <2> QED
    BY <2>1, <2>2 DEF LessPOf
<1> HIDE DEF step
<1>5. \E f : LessPOf(w, count, f)
  BY <1>2, <1>3, <1>4, LoopExists
<1> DEFINE c == CHOOSE f : LessPOf(w, count, f)
<1>6. LessPOf(w, count, c)
  BY <1>5
<1>7. LessP(w, count) = c[count]
  BY DEF LessP, LessPOf
<1> QED
  BY <1>6, <1>7

(* No carry, one, or two.                                                  *)
LEMMA LessPExact ==
  ASSUME NEW w \in Numbers256
  PROVE  /\ LessP(w, 0) = w
         /\ LessP(w, 1) = Sub(w, Number(P)).words
         /\ LessP(w, 2) = Sub(Sub(w, Number(P)).words, Number(P)).words
<1>1. LessP(w, 0) = w
  <2>1. PICK f : LessPOf(w, 0, f) /\ LessP(w, 0) = f[0]
    BY LessPDef
  <2>2. f[0] = w
    BY <2>1 DEF LessPOf
  <2> QED
    BY <2>1, <2>2
<1>2. LessP(w, 1) = Sub(w, Number(P)).words
  <2>1. PICK f : LessPOf(w, 1, f) /\ LessP(w, 1) = f[1]
    BY LessPDef
  <2>2. f[0] = w /\ f[1] = Sub(f[1 - 1], Number(P)).words /\ 1 - 1 = 0
    BY <2>1 DEF LessPOf
  <2> QED
    BY <2>1, <2>2
<1>3. LessP(w, 2) = Sub(Sub(w, Number(P)).words, Number(P)).words
  <2>1. PICK f : LessPOf(w, 2, f) /\ LessP(w, 2) = f[2]
    BY LessPDef
  <2>2. f[0] = w /\ f[1] = Sub(f[1 - 1], Number(P)).words /\ 1 - 1 = 0
        /\ f[2] = Sub(f[2 - 1], Number(P)).words /\ 2 - 1 = 1
    BY <2>1 DEF LessPOf
  <2> QED
    BY <2>1, <2>2
<1> QED
  BY <1>1, <1>2, <1>3

(* h is what vli_mmod_fast_secp256k1 makes of a number N: g is N without   *)
(* its carry c, and once and twice are g less one p and less two, in       *)
(* NumWords words. It is the remainder of N, or short by S.                *)
FastResult(F, S, p, g, h, c, N) ==
  LET once == IF g >= p THEN g - p ELSE g + S
      twice == IF once >= p THEN once - p ELSE once + S
      carried == IF c = 0 THEN g ELSE IF c = 1 THEN once ELSE twice
      r == IF N \in F + p .. 2 * F - 1 THEN h + S ELSE h
  IN h = (IF carried > p THEN carried - p ELSE carried)
       => r \in 0 .. p - 1 /\ \E t \in {0, 1, 2, 3} : N = t * p + r

(* The carries are taken off, but for the sum that is p or more with its   *)
(* carry gone: that one comes out short.                                   *)
LEMMA FastCarries ==
  ASSUME NEW F \in Nat, NEW S \in Nat, NEW K \in Nat, NEW p \in Nat,
         S >= 3, K + S < F, 3 * S < F, F = p + S,
         NEW g \in 0 .. F - 1, NEW c \in 0 .. 2, NEW N \in Nat, NEW h,
         N = g + c * F, N <= 2 * (F - 1) + (K - S), N % p = 0 => N = 0
  PROVE  FastResult(F, S, p, g, h, c, N)
<1> DEFINE once == IF g >= p THEN g - p ELSE g + S
           twice == IF once >= p THEN once - p ELSE once + S
           carried == IF c = 0 THEN g ELSE IF c = 1 THEN once ELSE twice
           r == IF N \in F + p .. 2 * F - 1 THEN h + S ELSE h
<1>1. SUFFICES ASSUME h = (IF carried > p THEN carried - p ELSE carried)
               PROVE  r \in 0 .. p - 1 /\ \E t \in {0, 1, 2, 3} : N = t * p + r
  BY DEF FastResult
<1>2. p \in Nat \ {0}
  OBVIOUS
<1>3. ASSUME NEW t \in {1, 2, 3} PROVE N # t * p
  <2>1. SUFFICES ASSUME N = t * p PROVE FALSE
    OBVIOUS
  <2>2. N = p * t + 0 /\ t \in Int /\ 0 \in 0 .. p - 1
    BY <1>2, <2>1
  <2>3. N % p = 0
    BY <1>2, <2>2, ModUnique
  <2>4. N = 0
    BY <2>3
  <2>5. t * p > 0
    BY <1>2
  <2> QED
    BY <2>1, <2>4, <2>5
<1>4. CASE c = 0
  <2>1. N = g
    BY <1>4
  <2>2. N # p
    BY <1>2, <1>3
  <2>3. r = h
    BY <2>1
  <2>4. CASE g > p
    <3>1. h = g - p
      BY <1>1, <1>4, <2>4
    <3>2. h \in 0 .. p - 1 /\ N = 1 * p + h
      BY <2>1, <2>4, <3>1
    <3> QED
      BY <2>3, <3>2
  <2>5. CASE g < p
    <3>1. h = g
      BY <1>1, <1>4, <2>5
    <3>2. h \in 0 .. p - 1 /\ N = 0 * p + h
      BY <2>1, <2>5, <3>1
    <3> QED
      BY <2>3, <3>2
  <2> QED
    BY <2>1, <2>2, <2>4, <2>5
<1>5. CASE c = 1
  <2>1. N = g + F
    BY <1>5
  <2>2. N # 2 * p /\ N # p /\ N # 3 * p
    BY <1>3
  <2>3. CASE g >= p
    <3>1. carried = g - p /\ ~(carried > p)
      BY <1>5, <2>3
    <3>2. h = g - p /\ r = h + S
      BY <1>1, <2>1, <2>3, <3>1
    <3>3. r \in 0 .. p - 1 /\ N = 2 * p + r
      BY <2>1, <2>3, <3>2
    <3> QED
      BY <3>3
  <2>4. CASE g < p
    <3>1. carried = g + S /\ r = h
      BY <1>5, <2>1, <2>4
    <3>2. carried = N - p /\ carried # p
      BY <2>1, <2>2, <3>1
    <3>3. CASE carried > p
      <4>1. h = N - 2 * p
        BY <1>1, <3>2, <3>3
      <4>2. h \in 0 .. p - 1 /\ N = 2 * p + h
        BY <2>1, <2>4, <3>1, <3>3, <4>1
      <4> QED
        BY <3>1, <4>2
    <3>4. CASE carried < p
      <4>1. h = N - p
        BY <1>1, <3>2, <3>4
      <4>2. h \in 0 .. p - 1 /\ N = 1 * p + h
        BY <2>1, <2>4, <3>1, <3>4, <4>1
      <4> QED
        BY <3>1, <4>2
    <3> QED
      BY <2>1, <3>1, <3>2, <3>3, <3>4
  <2> QED
    BY <2>3, <2>4
<1>6. CASE c = 2
  <2>1. N = g + 2 * F
    BY <1>6
  <2>2. g <= K - S - 2 /\ g < p /\ g + S < p /\ g + 2 * S < F
    BY <2>1
  <2>3. carried = g + 2 * S /\ r = h
    BY <1>6, <2>1, <2>2
  <2>4. N # 3 * p /\ carried = N - 2 * p /\ carried # p
    BY <1>3, <2>1, <2>3
  <2>5. CASE carried > p
    <3>1. h = N - 3 * p
      BY <1>1, <2>4, <2>5
    <3>2. h \in 0 .. p - 1 /\ N = 3 * p + h
      BY <2>1, <2>2, <2>3, <2>5, <3>1
    <3> QED
      BY <2>3, <3>2
  <2>6. CASE carried < p
    <3>1. h = N - 2 * p
      BY <1>1, <2>4, <2>6
    <3>2. h \in 0 .. p - 1 /\ N = 2 * p + h
      BY <2>1, <2>3, <2>6, <3>1
    <3> QED
      BY <2>3, <3>2
  <2> QED
    BY <2>1, <2>3, <2>4, <2>5, <2>6
<1> QED
  BY <1>4, <1>5, <1>6

(* The halves fold onto each other: what is left is the same modulo p.     *)
LEMMA FoldedCongruent ==
  ASSUME NEW N \in 0 .. (Full * Full) - 1
  PROVE  /\ Folded(N) \in Nat /\ Folded(N) % P = N % P
         /\ N = 0 => Folded(N) = 0
         /\ N \div Full \in 0 .. Full - 1 /\ N % Full \in 0 .. Full - 1
         /\ ((Base + Omega) * (N \div Full)) % Full \in 0 .. Full - 1
         /\ ((Base + Omega) * (N \div Full)) \div Full \in 0 .. (Base + Omega) - 1
         /\ Folded(N) <= 2 * (Full - 1) + ((Base + Omega) * (Base + Omega) - (Base + Omega))
         /\ (Base + Omega) * (((Base + Omega) * (N \div Full)) \div Full) \in 0 .. Full - 1
<1> DEFINE F == Full
           S == Base + Omega
           L == N % F
           H == N \div F
           q == S * H
           M == q % F
           G == q \div F
           K == S * S
<1>1. /\ F \in Nat \ {0} /\ F \in Nat /\ S \in Nat /\ S >= 3 /\ K \in Nat /\ K + S < F
      /\ F = P + S /\ P \in Nat /\ P # 0
  BY FoldSizes, NumberExact, Moduli
<1>2. N \in Nat /\ N <= F * F - 1 /\ F * F \in Nat
  BY <1>1
<1> HIDE DEF F, S, K
<1>3. L \in 0 .. F - 1 /\ H \in Nat /\ F * H + L = N
  BY <1>1, <1>2, Parts
<1> HIDE DEF L, H
<1>4. H <= F - 1
  <2>1. SUFFICES ASSUME H >= F PROVE FALSE
    BY <1>1, <1>3
  <2>2. F * H >= F * F /\ F * H \in Nat
    BY <1>1, <1>3, <2>1, TimesMonotone
  <2> DEFINE g == F * H
             h == F * F
  <2>3. g >= h /\ g \in Nat /\ h \in Nat /\ g + L = N /\ N <= h - 1
    BY <1>2, <1>3, <2>2
  <2> HIDE DEF g, h
  <2> QED
    BY <1>1, <1>3, <2>3
<1>5. q \in Nat
  BY <1>1, <1>3
<1> HIDE DEF q
<1>6. M \in 0 .. F - 1 /\ G \in Nat /\ F * G + M = q
  BY <1>1, <1>5, Parts
<1> HIDE DEF M, G
<1>7. G <= S - 1
  <2>1. SUFFICES ASSUME G >= S PROVE FALSE
    BY <1>1, <1>6
  <2>2. F * G >= F * S /\ F * G \in Nat /\ F * S \in Nat
    BY <1>1, <1>6, <2>1, TimesMonotone
  <2>3. S * (F - 1) >= S * H
    <3> DEFINE f == F - 1
    <3>1. f \in Nat /\ f >= H
      BY <1>1, <1>4
    <3> HIDE DEF f
    <3>2. S * f >= S * H
      BY <1>1, <1>3, <3>1, TimesMonotone
    <3> QED
      BY <3>2 DEF f
  <2>4. S * (F - 1) = F * S - S
    BY <1>1
  <2> DEFINE g == F * G
             h == F * S
             i == S * (F - 1)
  <2>5. g >= h /\ g \in Nat /\ h \in Nat /\ g + M = q /\ i = h - S /\ i >= q
    BY <1>6, <2>2, <2>3, <2>4 DEF q
  <2> HIDE DEF g, h, i
  <2> QED
    BY <1>1, <1>5, <1>6, <2>5
<1>8. S * G <= K - S /\ S * G \in Nat
  <2> DEFINE f == S - 1
  <2>1. f \in Nat /\ f >= G
    BY <1>1, <1>6, <1>7
  <2> HIDE DEF f
  <2>2. S * f >= S * G /\ S * G \in Nat /\ S * f \in Nat
    BY <1>1, <1>6, <2>1, TimesMonotone
  <2>3. S * f = K - S
    BY <1>1 DEF f, K
  <2> QED
    BY <2>2, <2>3
<1>9. Folded(N) = L + M + S * G
  <2>1. Folded(N) = L + M + S * G
    BY DEF Folded, S, L, M, G, q, H, F
  <2> QED
    BY <2>1
<1> DEFINE g == S * G
           R == L + M + g
<1>10. g \in Nat /\ g <= K - S /\ Folded(N) = R
  BY <1>8, <1>9
<1>11. N = R + P * (H + G)
  <2>1. F * H = P * H + S * H
    <3>1. (P + S) * H = P * H + S * H
      BY <1>1, <1>3
    <3> QED
      BY <1>1, <3>1
  <2>2. F * G = P * G + S * G
    <3>1. (P + S) * G = P * G + S * G
      BY <1>1, <1>6
    <3> QED
      BY <1>1, <3>1
  <2>3. P * (H + G) = P * H + P * G /\ P * H \in Nat /\ P * G \in Nat /\ S * H \in Nat
    BY <1>1, <1>3, <1>6
  <2> DEFINE i == F * H
             j == P * H
             k == F * G
             f == P * G
             e == P * (H + G)
  <2>4. i = j + q /\ k = f + g /\ e = j + f /\ i + L = N /\ k + M = q
        /\ j \in Nat /\ f \in Nat /\ q \in Nat
    BY <1>3, <1>5, <1>6, <2>1, <2>2, <2>3 DEF q
  <2> HIDE DEF i, j, k, f, e, g
  <2>5. N = R + e
    BY <1>1, <1>3, <1>6, <1>10, <2>4
  <2> QED
    BY <2>5 DEF e
<1> HIDE DEF g
<1>12. R \in Nat /\ R <= 2 * (F - 1) + (K - S)
  BY <1>1, <1>3, <1>6, <1>10
<1>13. R % P = N % P
  <2> DEFINE e == H + G
             Q == R
  <2>1. Q \in Int /\ e \in Int /\ N = Q + P * e /\ P \in Nat \ {0}
    BY <1>1, <1>3, <1>6, <1>11, <1>12
  <2> HIDE DEF e, Q
  <2>2. (Q + P * e) % P = Q % P
    BY <2>1, ModTurns
  <2>3. Q % P = N % P
    BY <2>1, <2>2
  <2> QED
    BY <2>3 DEF Q
<1>14. N = 0 => R = 0
  <2>1. P * (H + G) \in Nat
    BY <1>1, <1>3, <1>6
  <2> DEFINE e == P * (H + G)
             Q == R
  <2>2. e \in Nat /\ N = Q + e /\ Q \in Nat
    BY <1>11, <1>12, <2>1
  <2> HIDE DEF e, Q
  <2>3. N = 0 => Q = 0
    BY <2>2
  <2> QED
    BY <2>3 DEF Q
<1>15. g \in 0 .. F - 1
  BY <1>1, <1>10
<1>16. Folded(N) \in Nat /\ Folded(N) % P = N % P /\ (N = 0 => Folded(N) = 0)
  BY <1>10, <1>12, <1>13, <1>14
<1>17. Folded(N) <= 2 * (F - 1) + (K - S)
  BY <1>10, <1>12
<1>18. H \in 0 .. F - 1 /\ G \in 0 .. S - 1
  BY <1>1, <1>3, <1>4, <1>6, <1>7
<1> HIDE DEF R
<1> QED
  BY <1>3, <1>6, <1>15, <1>16, <1>17, <1>18 DEF F, S, K, L, H, q, M, G, g

(* A product has twice the words.                                          *)
LEMMA ProductValue ==
  ASSUME NEW w \in WordsOf(2 * NumWords)
  PROVE  Value(w) \in 0 .. (Full * Full) - 1
<1> DEFINE n == NumWords
<1>1. n \in Nat /\ 2 * n = n + n /\ n + n \in Nat /\ n + n \in 0 .. n + n
  BY VliAssumption, BaseEven
<1>2. w \in WordsOf(n + n)
  BY <1>1
<1>3. Power(Base)[n + n] = Power(Base)[n] * Power(Base)[n]
  <2>1. Base \in Nat
    BY BaseEven
  <2> HIDE DEF n
  <2> QED
    BY <1>1, <2>1, PowerPlus
<1>4. Value(w) \in 0 .. Power(Base)[n + n] - 1
  <2> HIDE DEF n
  <2>1. Sums(w)[n + n] \in 0 .. Power(Base)[n + n] - 1
    BY <1>1, <1>2, SumsBound
  <2>2. Value(w) = Sums(w)[n + n]
    BY <1>1, <1>2, SumsDef
  <2> QED
    BY <2>1, <2>2
<1> QED
  BY <1>3, <1>4 DEF Full

(* The fast reduction of a product that p divides only when it is zero:    *)
(* the remainder, and short of 2^256 - p where its sum, less the carry, is *)
(* still p or more.                                                        *)
LEMMA MmodFastExact ==
  ASSUME NEW w \in WordsOf(2 * NumWords), Value(w) % P = 0 => Value(w) = 0
  PROVE  /\ MmodFast(w) \in Numbers256
         /\ Value(MmodFast(w)) = IF Folded(Value(w)) \in Full + P .. 2 * Full - 1
                                 THEN (Value(w) % P) - (Full - P) ELSE Value(w) % P
<1> DEFINE F == Full
           S == Base + Omega
           K == S * S
           V == Value(w)
           N == Folded(V)
           L == V % F
           H == V \div F
           q == OmegaMult(High(w))
           M == (S * H) % F
           G == (S * H) \div F
           j == OmegaMult(High(q))
           first == Add(Low(w), Low(q))
           second == Add(first.words, Low(j))
           c == first.carry + second.carry
           g == Value(second.words)
           carried == LessP(second.words, c)
           result == MmodFast(w)
<1>1. /\ F \in Nat \ {0} /\ F \in Nat /\ S \in Nat /\ S >= 3 /\ K \in Nat /\ K + S < F
      /\ 3 * S < F /\ F = P + S /\ P \in Nat /\ P # 0
      /\ Number(P) \in Numbers256 /\ Value(Number(P)) = P
  BY FoldSizes, NumberExact, Moduli
<1>2. V \in 0 .. (F * F) - 1
  BY ProductValue
<1>3. /\ N \in Nat /\ N % P = V % P /\ (V = 0 => N = 0)
      /\ H \in 0 .. F - 1 /\ L \in 0 .. F - 1 /\ M \in 0 .. F - 1 /\ G \in 0 .. S - 1
      /\ N <= 2 * (F - 1) + (K - S) /\ S * G \in 0 .. F - 1
  <2>1. V \in 0 .. (Full * Full) - 1
    BY <1>2
  <2> HIDE DEF V
  <2> QED
    BY <2>1, FoldedCongruent
<1>4. N = L + M + S * G
  BY DEF Folded
<1>5. /\ Low(w) \in Numbers256 /\ High(w) \in Numbers256
      /\ Value(Low(w)) = L /\ Value(High(w)) = H
  BY HalvesValue
<1>6. q \in WordsOf(2 * NumWords) /\ Value(q) = S * H
  <2>1. q \in WordsOf(2 * NumWords) /\ Value(q) = S * Value(High(w))
    BY <1>5, OmegaMultExact
  <2> QED
    BY <1>5, <2>1
<1> HIDE DEF q
<1>7. /\ Low(q) \in Numbers256 /\ High(q) \in Numbers256
      /\ Value(Low(q)) = M /\ Value(High(q)) = G
  <2>1. /\ Low(q) \in Numbers256 /\ High(q) \in Numbers256
        /\ Value(Low(q)) = Value(q) % Full /\ Value(High(q)) = Value(q) \div Full
    BY <1>6, HalvesValue
  <2> QED
    BY <1>6, <2>1
<1>8. j \in WordsOf(2 * NumWords) /\ Value(j) = S * G
  <2>1. j \in WordsOf(2 * NumWords) /\ Value(j) = S * Value(High(q))
    BY <1>7, OmegaMultExact
  <2> QED
    BY <1>7, <2>1
<1> HIDE DEF j
<1>9. Low(j) \in Numbers256 /\ Value(Low(j)) = S * G
  <2>1. Low(j) \in Numbers256 /\ Value(Low(j)) = Value(j) % Full
    BY <1>8, HalvesValue
  <2> DEFINE e == S * G
  <2>2. e \in 0 .. F - 1
    BY <1>3
  <2> HIDE DEF e
  <2>3. e % F = e
    BY <1>1, <2>2
  <2>4. Value(Low(j)) = e % F
    BY <1>8, <2>1 DEF e
  <2> QED
    BY <2>1, <2>3, <2>4 DEF e
<1>10. /\ first.words \in Numbers256 /\ first.carry \in 0 .. 1
       /\ Value(first.words) \in 0 .. F - 1
       /\ Value(first.words) + first.carry * F = L + M
  <2>1. /\ first.words \in Numbers256 /\ first.carry \in 0 .. 1
        /\ Value(first.words) \in 0 .. Full - 1
        /\ Value(first.words) + first.carry * Full = Value(Low(w)) + Value(Low(q))
    BY <1>5, <1>7, WordOperations
  <2> QED
    BY <1>5, <1>7, <2>1
<1>11. /\ second.words \in Numbers256 /\ second.carry \in 0 .. 1 /\ g \in 0 .. F - 1
       /\ g + second.carry * F = Value(first.words) + S * G
  <2>1. /\ second.words \in Numbers256 /\ second.carry \in 0 .. 1
        /\ Value(second.words) \in 0 .. Full - 1
        /\ Value(second.words) + second.carry * Full = Value(first.words) + Value(Low(j))
    BY <1>9, <1>10, WordOperations
  <2> QED
    BY <1>9, <2>1
<1>12. result = IF CmpUnsafe(carried, Number(P)) > 0 THEN Sub(carried, Number(P)).words ELSE carried
  BY DEF MmodFast, q, j
<1> HIDE DEF N, L, M, G, H, F, S, K, V, g, result, second
<1> DEFINE f == Value(first.words)
           d == first.carry
           e == second.carry
           i == S * G
<1>13. c \in 0 .. 2 /\ N = g + c * F
  <2>1. f \in Nat /\ d \in Nat /\ e \in Nat /\ i \in Nat /\ f + d * F = L + M /\ g + e * F = f + i
        /\ N = L + M + i /\ c = d + e /\ d <= 1 /\ e <= 1
    BY <1>3, <1>4, <1>10, <1>11
  <2> HIDE DEF f, d, e, i, c
  <2>2. c * F = d * F + e * F /\ d * F \in Nat /\ e * F \in Nat
    BY <1>1, <2>1
  <2> DEFINE x == d * F
             y == e * F
  <2>3. x \in Nat /\ y \in Nat /\ c * F = x + y /\ f + x = L + M /\ g + y = f + i
    BY <2>1, <2>2
  <2> HIDE DEF x, y
  <2>4. c \in 0 .. 2
    <3>1. d \in 0 .. 1 /\ e \in 0 .. 1 /\ c = d + e
      BY <2>1
    <3> QED
      BY <3>1
  <2>5. g + (x + y) = L + M + i /\ g \in Nat /\ L \in Nat /\ M \in Nat
    <3>1. g \in Nat /\ L \in Nat /\ M \in Nat
      BY <1>1, <1>3, <1>11
    <3> QED
      BY <2>1, <2>3, <3>1
  <2> QED
    BY <2>1, <2>3, <2>4, <2>5
<1> DEFINE once == IF g >= P THEN g - P ELSE g + S
           twice == IF once >= P THEN once - P ELSE once + S
           left1 == Sub(second.words, Number(P)).words
           left2 == Sub(left1, Number(P)).words
           less == IF c = 0 THEN g ELSE IF c = 1 THEN once ELSE twice
<1>14. left1 \in Numbers256 /\ Value(left1) = once
  BY <1>11, LessOnce DEF g, S
<1>15. left2 \in Numbers256 /\ Value(left2) = twice
  <2> HIDE DEF left1, once
  <2>1. /\ left2 \in Numbers256
        /\ Value(left2) = IF Value(left1) >= P THEN Value(left1) - P ELSE Value(left1) + (Base + Omega)
    BY <1>14, LessOnce
  <2> QED
    BY <1>14, <2>1 DEF S
<1>16. carried \in Numbers256 /\ Value(carried) = less
  <2> HIDE DEF once, twice, c
  <2>1. LessP(second.words, 0) = second.words /\ LessP(second.words, 1) = left1
        /\ LessP(second.words, 2) = left2
    BY <1>11, LessPExact
  <2> HIDE DEF left1, left2
  <2>2. c = 0 \/ c = 1 \/ c = 2
    BY <1>13
  <2> QED
    BY <1>11, <1>14, <1>15, <2>1, <2>2 DEF g
<1> DEFINE h == Value(result)
           left3 == Sub(carried, Number(P)).words
<1>17. result \in Numbers256 /\ h = IF less > P THEN less - P ELSE less
  <2> HIDE DEF less, carried, left3
  <2>1. CmpUnsafe(carried, Number(P)) > 0 <=> less > P
    BY <1>1, <1>16, LocalOperations
  <2>2. /\ left3 \in Numbers256
        /\ Value(left3) = IF less >= P THEN less - P ELSE less + (Base + Omega)
    BY <1>16, LessOnce DEF left3
  <2>3. less \in Nat
    BY <1>1, <1>16, LocalOperations
  <2>4. result = IF less > P THEN left3 ELSE carried
    BY <1>12, <2>1 DEF left3
  <2> QED
    BY <1>1, <1>16, <2>2, <2>3, <2>4
<1> HIDE DEF h, c
<1>18. FastResult(F, S, P, g, h, c, N)
  <2>1. N % P = 0 => N = 0
    BY <1>3 DEF V
  <2> QED
    BY <1>1, <1>3, <1>11, <1>13, <2>1, FastCarries
<1> DEFINE r == IF N \in F + P .. 2 * F - 1 THEN h + S ELSE h
<1>19. r \in 0 .. P - 1 /\ \E t \in {0, 1, 2, 3} : N = t * P + r
  BY <1>17, <1>18 DEF FastResult
<1> HIDE DEF r
<1>20. N % P = r
  <2>1. PICK t \in {0, 1, 2, 3} : N = t * P + r
    BY <1>19
  <2>2. t \in Int /\ N = P * t + r /\ P \in Nat \ {0}
    BY <1>1, <2>1
  <2> QED
    BY <1>3, <1>19, <2>2, ModUnique
<1>21. h \in Int
  BY <1>17, LocalOperations DEF h
<1>22. h = IF N \in F + P .. 2 * F - 1 THEN (V % P) - (F - P) ELSE V % P
  <2>1. CASE N \in F + P .. 2 * F - 1
    <3>1. r = h + S /\ F - P = S /\ r = V % P /\ r \in Int
      BY <1>1, <1>3, <1>19, <1>20, <2>1 DEF r
    <3> QED
      BY <1>1, <1>21, <2>1, <3>1
  <2>2. CASE N \notin F + P .. 2 * F - 1
    <3>1. r = h /\ r = V % P
      BY <1>3, <1>20, <2>2 DEF r
    <3> QED
      BY <2>2, <3>1
  <2> QED
    BY <2>1, <2>2
<1> QED
  BY <1>17, <1>22 DEF h, result, N, V, F

-----------------------------------------------------------------------------
(* uECC_vli_numBits.                                                       *)

(* Powers of two are in the order of their exponents.                      *)
LEMMA PowersOfTwo ==
  /\ Power(2) \in [Nat -> Nat] /\ Power(2)[0] = 1
  /\ \A k \in Nat : Power(2)[k + 1] = 2 * Power(2)[k] /\ Power(2)[k] \in Nat \ {0}
  /\ \A j, k \in Nat : Power(2)[j + k] = Power(2)[j] * Power(2)[k]
  /\ \A j, k \in Nat : j >= k => Power(2)[j] >= Power(2)[k]
<1> DEFINE p == Power(2)
<1>1. p \in [Nat -> Nat] /\ p[0] = 1 /\ \A k \in Nat : p[k + 1] = 2 * p[k]
  BY PowerDef
<1>2. \A k \in Nat : p[k] \in Nat \ {0}
  <2>1. 2 \in Nat \ {0}
    OBVIOUS
  <2> QED
    BY <2>1, PowerPositive
<1>3. \A j, k \in Nat : p[j + k] = p[j] * p[k]
  BY PowerPlus
<1> HIDE DEF p
<1>4. ASSUME NEW j \in Nat, NEW k \in Nat, j >= k PROVE p[j] >= p[k]
  <2> DEFINE d == j - k
  <2>1. d \in Nat /\ j = k + d
    BY <1>4
  <2> HIDE DEF d
  <2>2. p[j] = p[k] * p[d] /\ p[k] \in Nat /\ p[d] \in Nat /\ p[d] >= 1
    <3>1. p[k + d] = p[k] * p[d]
      BY <1>3, <2>1
    <3>2. p[k] \in Nat \ {0} /\ p[d] \in Nat \ {0}
      BY <1>2, <2>1
    <3> QED
      BY <2>1, <3>1, <3>2
  <2> DEFINE x == p[k]
             y == p[d]
  <2>3. x \in Nat /\ y \in Nat /\ y >= 1 /\ 1 \in Nat /\ p[j] = x * y
    BY <2>2
  <2> HIDE DEF x, y
  <2>4. x * y >= x * 1
    BY <2>3, TimesMonotone
  <2> QED
    BY <2>3, <2>4 DEF x
<1> QED
  BY <1>1, <1>2, <1>3, <1>4 DEF p

(* A power of a power of two.                                              *)
LEMMA PowerBits ==
  ASSUME NEW bits \in Nat, NEW k \in Nat
  PROVE  k * bits \in Nat /\ Power(Power(2)[bits])[k] = Power(2)[k * bits]
<1> DEFINE t == Power(2)
           c == t[bits]
           p == Power(c)
           T == {j \in Nat : p[j] = t[j * bits]}
<1>1. bits \in Nat
  OBVIOUS
<1>2. p[0] = 1 /\ t[0] = 1 /\ c = t[bits] /\ c \in Nat
      /\ \A j \in Nat : p[j + 1] = c * p[j] /\ p[j] \in Nat
  <2>1. c \in Nat /\ t[0] = 1
    BY PowersOfTwo
  <2> HIDE DEF c
  <2>2. p \in [Nat -> Nat] /\ p[0] = 1 /\ \A j \in Nat : p[j + 1] = c * p[j]
    BY <2>1, PowerDef
  <2> QED
    BY <2>1, <2>2 DEF c
<1>3. \A i, j \in Nat : t[i + j] = t[i] * t[j]
  BY PowersOfTwo
<1> HIDE DEF p, t, c
<1>4. 0 \in T
  <2>1. 0 * bits = 0
    BY <1>1
  <2> QED
    BY <1>2, <2>1
<1>5. ASSUME NEW j \in T PROVE j + 1 \in T
  <2>1. j \in Nat /\ p[j] = t[j * bits] /\ j * bits \in Nat
    BY <1>1
  <2>2. (j + 1) * bits = bits + j * bits
    BY <1>1
  <2>3. t[bits + j * bits] = t[bits] * t[j * bits]
    BY <1>1, <1>3, <2>1
  <2>4. p[j + 1] = t[(j + 1) * bits]
    BY <1>2, <2>1, <2>2, <2>3
  <2> QED
    BY <2>1, <2>4
<1>6. T \in SUBSET Nat
  OBVIOUS
<1> HIDE DEF T
<1>7. T = Nat
  BY <1>4, <1>5, <1>6, Induct
<1>8. p[k] = t[k * bits]
  BY <1>7 DEF T
<1>9. k * bits \in Nat
  BY <1>1
<1> QED
  BY <1>8, <1>9 DEF p, t, c

(* A power of the base is a power of two.                                  *)
LEMMA BaseBits ==
  ASSUME NEW k \in Nat
  PROVE  k * WordBits \in Nat /\ Power(Base)[k] = Power(2)[k * WordBits]
<1>1. WordBits \in Nat
  BY VliAssumption
<1> QED
  BY <1>1, PowerBits DEF Base

(* A word that is not zero lies between two powers of two.                 *)
LEMMA WordBitsExist ==
  ASSUME NEW x \in Word, x # 0
  PROVE  \E n \in 1 .. WordBits : x \in Power(2)[n - 1] .. Power(2)[n] - 1
<1> DEFINE t == Power(2)
           T == {k \in Nat : x < t[k]}
<1>1. WordBits \in Nat /\ x \in Nat /\ x < t[WordBits]
  BY VliAssumption, BaseEven DEF Word, Base
<1>2. t[0] = 1 /\ \A k \in Nat : t[k] \in Nat
  BY PowersOfTwo
<1> HIDE DEF t
<1>3. T \in SUBSET Nat /\ WordBits \in T
  BY <1>1
<1>4. PICK n \in T : \A k \in T : n <= k
  <2> HIDE DEF T
  <2> QED
    BY <1>3, Least
<1>5. n \in Nat /\ x < t[n] /\ n <= WordBits
  BY <1>3, <1>4
<1>6. n # 0
  BY <1>1, <1>2, <1>5
<1>7. n - 1 \in Nat /\ n - 1 \notin T
  <2>1. n - 1 \in Nat /\ ~(n <= n - 1)
    BY <1>5, <1>6
  <2> QED
    BY <1>4, <2>1
<1>8. x >= t[n - 1]
  BY <1>1, <1>2, <1>7
<1>9. n \in 1 .. WordBits /\ x \in t[n - 1] .. t[n] - 1
  BY <1>1, <1>2, <1>5, <1>6, <1>7, <1>8
<1> QED
  BY <1>9 DEF t

(* The highest word that is not zero.                                      *)
LEMMA TopDigit ==
  ASSUME NEW n \in Nat, NEW w \in WordsOf(n), Value(w) # 0
  PROVE  /\ NumDigits(w) \in 1 .. n /\ w[NumDigits(w)] \in Word /\ w[NumDigits(w)] # 0
         /\ \A k \in 1 .. n : k > NumDigits(w) => w[k] = 0
<1> DEFINE D == {k \in 1 .. n : w[k] # 0}
<1>1. DOMAIN w = 1 .. n
  BY DEF WordsOf
<1>2. ~IsZero(w)
  BY ZeroValue
<1>3. D # {} /\ D \in SUBSET (0 .. n)
  BY <1>1, <1>2 DEF IsZero
<1>4. NumDigits(w) = Max(D)
  BY <1>1, <1>2 DEF NumDigits
<1> HIDE DEF D
<1>5. \E x \in D : \A y \in D : x >= y
  BY <1>3, Greatest
<1>6. Max(D) \in D /\ \A y \in D : Max(D) >= y
  BY <1>5 DEF Max
<1> DEFINE d == NumDigits(w)
<1>7. d \in D /\ \A y \in D : d >= y
  BY <1>4, <1>6
<1> HIDE DEF d
<1>8. d \in 1 .. n /\ w[d] # 0 /\ w[d] \in Word
  BY <1>7 DEF D, WordsOf
<1>9. ASSUME NEW k \in 1 .. n, k > d PROVE w[k] = 0
  <2>1. SUFFICES ASSUME w[k] # 0 PROVE FALSE
    OBVIOUS
  <2>2. k \in D
    BY <2>1 DEF D
  <2>3. d >= k
    BY <1>7, <2>2
  <2> QED
    BY <1>8, <1>9, <2>3
<1> QED
  BY <1>8, <1>9 DEF d

(* A number lies between what its highest word makes of it.                *)
LEMMA TopDigitValue ==
  ASSUME NEW n \in Nat, NEW w \in WordsOf(n), NEW d \in 1 .. n,
         \A k \in 1 .. n : k > d => w[k] = 0
  PROVE  /\ Power(Base)[d - 1] * w[d] <= Value(w)
         /\ Value(w) < Power(Base)[d - 1] * (w[d] + 1)
<1> DEFINE x == [k \in 1 .. d |-> w[k]]
           y == [k \in 1 .. n - d |-> w[d + k]]
           z == [k \in 1 .. d - 1 |-> w[k]]
           M == Power(Base)[d - 1]
           Z == Value(z)
           t == w[d]
<1>1. d \in Nat /\ n - d \in Nat /\ n = d + (n - d) /\ d - 1 \in Nat /\ d = (d - 1) + 1
  OBVIOUS
<1>2. \A k \in 1 .. n : w[k] \in Word
  BY DEF WordsOf
<1>3. x \in WordsOf(d) /\ y \in WordsOf(n - d) /\ z \in WordsOf(d - 1)
  BY <1>2 DEF WordsOf
<1>4. /\ \A k \in 1 .. d : x[k] = w[k]
      /\ \A k \in 1 .. n - d : y[k] = w[d + k] /\ y[k] = 0
      /\ \A k \in 1 .. d - 1 : z[k] = x[k]
      /\ x[d] = w[d]
  OBVIOUS
<1> HIDE DEF x, y, z
<1>5. Value(y) = 0
  BY <1>1, <1>3, <1>4, ZerosValue
<1>6. Value(w) = Value(x) + Power(Base)[d] * Value(y)
  <2> DEFINE j == n - d
  <2>1. j \in Nat /\ w \in WordsOf(d + j) /\ y \in WordsOf(j) /\ \A k \in 1 .. j : y[k] = w[d + k]
    BY <1>1, <1>3, <1>4
  <2> HIDE DEF j
  <2> QED
    BY <1>1, <1>3, <1>4, <2>1, SplitValue
<1>7. Value(x) = Z + M * t
  <2> DEFINE j == d - 1
  <2>1. j \in Nat /\ x \in WordsOf(j + 1) /\ z \in WordsOf(j) /\ (\A k \in 1 .. j : z[k] = x[k])
        /\ j + 1 = d
    BY <1>1, <1>3, <1>4
  <2> HIDE DEF j
  <2>2. Value(x) = Value(z) + Power(Base)[j] * x[j + 1]
    BY <2>1, TopValue
  <2> QED
    BY <1>4, <2>1, <2>2 DEF j
<1>8. Z \in 0 .. M - 1
  <2> DEFINE j == d - 1
  <2>1. j \in Nat /\ z \in WordsOf(j) /\ j \in 0 .. j
    BY <1>1, <1>3
  <2> HIDE DEF j
  <2>2. Sums(z)[j] \in 0 .. Power(Base)[j] - 1 /\ Value(z) = Sums(z)[j]
    BY <2>1, SumsBound, SumsDef
  <2> QED
    BY <2>2 DEF j
<1>9. M \in Nat /\ t \in Nat /\ Power(Base)[d] \in Nat /\ Value(x) \in Nat
  <2>1. M \in Nat /\ Power(Base)[d] \in Nat
    BY <1>1, BasePowers
  <2>2. t \in Nat
    BY <1>2, BaseEven DEF Word
  <2>3. Value(x) \in Nat
    BY <1>1, <1>3, SumsDef
  <2> QED
    BY <2>1, <2>2, <2>3
<1>10. Value(w) = Z + M * t
  <2>1. Power(Base)[d] * 0 = 0
    BY <1>9
  <2> QED
    BY <1>5, <1>6, <1>7, <1>9, <2>1
<1> HIDE DEF M, t, Z
<1>11. M * (t + 1) = M * t + M /\ M * t \in Nat
  BY <1>9
<1> DEFINE e == M * t
<1>12. e \in Nat /\ M * (t + 1) = e + M /\ Value(w) = Z + e
  BY <1>10, <1>11
<1> HIDE DEF e
<1>13. e <= Value(w) /\ Value(w) < M * (t + 1)
  BY <1>8, <1>9, <1>12
<1> QED
  BY <1>13 DEF e, M, t

(* uECC_vli_numBits counts the bits up to the highest that is set.         *)
LEMMA NumBitsExact ==
  ASSUME NEW n \in Nat, NEW w \in WordsOf(n)
  PROVE  /\ NumBits(w) \in Nat /\ Value(w) < Power(2)[NumBits(w)]
         /\ Value(w) > 0 => NumBits(w) >= 1 /\ Value(w) >= Power(2)[NumBits(w) - 1]
<1>1. Value(w) \in Nat
  BY SumsDef
<1>2. CASE Value(w) = 0
  <2>1. IsZero(w)
    BY <1>2, ZeroValue
  <2>2. NumDigits(w) = 0
    BY <2>1 DEF NumDigits
  <2>3. NumBits(w) = 0
    BY <2>2 DEF NumBits
  <2>4. Power(2)[0] = 1
    BY PowersOfTwo
  <2> QED
    BY <1>2, <2>3, <2>4
<1>3. CASE Value(w) # 0
  <2> DEFINE d == NumDigits(w)
             x == w[d]
             b0 == CHOOSE i \in 1 .. WordBits : x \in Power(2)[i - 1] .. Power(2)[i] - 1
             s == (d - 1) * WordBits
             M == Power(Base)[d - 1]
             t == Power(2)
             V == Value(w)
  <2>1. d \in 1 .. n /\ x \in Word /\ x # 0 /\ \A k \in 1 .. n : k > d => w[k] = 0
    BY <1>3, TopDigit
  <2>2. NumBits(w) = s + b0
    <3>1. d # 0
      BY <2>1
    <3> QED
      BY <3>1 DEF NumBits
  <2>3. M * x <= V /\ V < M * (x + 1)
    BY <2>1, TopDigitValue
  <2>4. b0 \in 1 .. WordBits /\ x \in t[b0 - 1] .. t[b0] - 1
    <3> HIDE DEF x
    <3>1. \E i \in 1 .. WordBits : x \in Power(2)[i - 1] .. Power(2)[i] - 1
      BY <2>1, WordBitsExist
    <3> QED
      BY <3>1
  <2> HIDE DEF d, x, b0
  <2>5. d - 1 \in Nat /\ b0 \in Nat /\ b0 - 1 \in Nat
    BY <2>1, <2>4, VliAssumption
  <2>6. s \in Nat /\ M = t[s]
    <3> DEFINE j == d - 1
    <3>1. j \in Nat
      BY <2>5
    <3> HIDE DEF j
    <3>2. j * WordBits \in Nat /\ Power(Base)[j] = Power(2)[j * WordBits]
      BY <3>1, BaseBits
    <3> QED
      BY <3>2 DEF j
  <2> HIDE DEF M, s
  <2>7. t[s + (b0 - 1)] = t[s] * t[b0 - 1] /\ t[s + b0] = t[s] * t[b0]
        /\ t[s] \in Nat /\ t[b0] \in Nat /\ t[b0 - 1] \in Nat
    BY <2>5, <2>6, PowersOfTwo
  <2> HIDE DEF t
  <2>8. M \in Nat /\ x \in Nat /\ x + 1 \in Nat /\ t[b0] >= x + 1 /\ x >= t[b0 - 1]
    BY <2>4, <2>6, <2>7
  <2> DEFINE y == t[b0]
             z == t[b0 - 1]
             x1 == x + 1
  <2>9. M * y >= M * x1 /\ M * x1 \in Nat /\ M * y \in Nat
    <3>1. y \in Nat /\ x1 \in Nat /\ y >= x1
      BY <2>7, <2>8
    <3> HIDE DEF y, x1
    <3> QED
      BY <2>8, <3>1, TimesMonotone
  <2>10. M * x >= M * z /\ M * x \in Nat /\ M * z \in Nat
    <3>1. z \in Nat /\ x >= z
      BY <2>7, <2>8
    <3> HIDE DEF z
    <3> QED
      BY <2>8, <3>1, TimesMonotone
  <2> DEFINE e == M * x
             f == M * x1
             g == M * y
             h == M * z
  <2>11. /\ e \in Nat /\ f \in Nat /\ g \in Nat /\ h \in Nat /\ g >= f /\ e >= h
         /\ t[s + b0] = g /\ t[s + (b0 - 1)] = h /\ e <= V /\ V < f
    BY <2>3, <2>6, <2>7, <2>9, <2>10
  <2>12. V \in Nat
    BY <1>1
  <2> HIDE DEF e, f, g, h, V
  <2>13. V < t[s + b0] /\ V >= t[s + (b0 - 1)]
    BY <2>11, <2>12
  <2>14. s + b0 \in Nat /\ s + b0 >= 1 /\ (s + b0) - 1 = s + (b0 - 1)
    BY <2>5, <2>6
  <2> QED
    BY <2>2, <2>13, <2>14 DEF V, t
<1> QED
  BY <1>2, <1>3

-----------------------------------------------------------------------------
(* uECC_vli_mmod.                                                          *)

(* n has as many bits as its words: it is moved up by as many.             *)
LEMMA OrderBits ==
  /\ NumWords * WordBits \in Nat /\ Full = Power(2)[NumWords * WordBits]
  /\ Number(Order) \in Numbers256 /\ Value(Number(Order)) = Order
  /\ Order \in Nat \ {0} /\ Order < Full /\ Full <= 2 * Order
  /\ NumBits(Number(Order)) = NumWords * WordBits
<1> DEFINE s == NumWords * WordBits
           t == Power(2)
           w == Number(Order)
           b0 == NumBits(w)
<1>1. NumWords \in Nat
  BY VliAssumption, BaseEven
<1>2. s \in Nat /\ Full = t[s]
  BY <1>1, BaseBits DEF Full
<1>3. Order \in 3 .. Full - 1
  BY Moduli
<1>4. w \in Numbers256 /\ Value(w) = Order
  BY <1>3, NumberExact
<1>5. Order >= Full \div 2 /\ Full \in Nat
  BY VliAssumption, NumberExact
<1>6. /\ b0 \in Nat /\ Order < t[b0] /\ b0 >= 1 /\ Order >= t[b0 - 1]
  <2> HIDE DEF w
  <2>1. /\ NumBits(w) \in Nat /\ Value(w) < Power(2)[NumBits(w)]
        /\ Value(w) > 0 => NumBits(w) >= 1 /\ Value(w) >= Power(2)[NumBits(w) - 1]
    BY <1>1, <1>4, NumBitsExact DEF Numbers256
  <2> QED
    BY <1>3, <1>4, <2>1
<1>7. \A j, k \in Nat : j >= k => t[j] >= t[k]
  BY PowersOfTwo
<1>8. \A k \in Nat : t[k + 1] = 2 * t[k] /\ t[k] \in Nat
  BY PowersOfTwo
<1>9. t[0] = 1
  BY PowersOfTwo
<1> HIDE DEF s, t, b0
<1>10. s # 0
  BY <1>2, <1>3, <1>9
<1>11. s - 1 \in Nat /\ Full = 2 * t[s - 1] /\ t[s - 1] \in Nat
  <2>1. s - 1 \in Nat /\ (s - 1) + 1 = s
    BY <1>2, <1>10
  <2>2. t[(s - 1) + 1] = 2 * t[s - 1] /\ t[s - 1] \in Nat
    BY <1>8, <2>1
  <2> QED
    BY <1>2, <2>1, <2>2
<1> DEFINE h == t[s - 1]
<1>12. h \in Nat /\ Full = 2 * h
  BY <1>11
<1> HIDE DEF h
<1>13. Order >= h /\ Full <= 2 * Order
  BY <1>3, <1>5, <1>12
<1>14. b0 - 1 \in Nat /\ t[b0 - 1] \in Nat /\ t[b0] \in Nat
  BY <1>6, <1>8
<1>15. b0 <= s
  <2>1. SUFFICES ASSUME b0 - 1 >= s PROVE FALSE
    BY <1>2, <1>6
  <2>2. t[b0 - 1] >= t[s]
    BY <1>2, <1>7, <1>14, <2>1
  <2> QED
    BY <1>2, <1>3, <1>5, <1>6, <1>14, <2>2
<1>16. b0 >= s
  <2>1. SUFFICES ASSUME s - 1 >= b0 PROVE FALSE
    BY <1>2, <1>6
  <2>2. h >= t[b0]
    BY <1>6, <1>7, <1>11, <2>1 DEF h
  <2> QED
    BY <1>3, <1>6, <1>12, <1>13, <1>14, <2>2
<1>17. b0 = s
  BY <1>2, <1>6, <1>15, <1>16
<1> QED
  BY <1>2, <1>3, <1>4, <1>5, <1>13, <1>17 DEF s, t, b0

(* Moved up by all its words.                                              *)
LEMMA ModMultipleExact ==
  ASSUME NEW m \in Numbers256
  PROVE  /\ ModMultiple(m, NumWords * WordBits) \in WordsOf(2 * NumWords)
         /\ Value(ModMultiple(m, NumWords * WordBits)) = Full * Value(m)
<1> DEFINE n == NumWords
           s == n * WordBits
           At(k) == IF k \in 1 .. n THEN m[k] ELSE 0
           w == ModMultiple(m, s)
           x == [k \in 1 .. n |-> 0]
<1>1. n \in Nat \ {0} /\ n \in Nat /\ WordBits \in Nat \ {0} /\ 2 * n = n + n
  BY VliAssumption, BaseEven
<1>2. s \div WordBits = n /\ s % WordBits = 0
  <2>1. s = WordBits * n + 0 /\ 0 \in 0 .. WordBits - 1
    BY <1>1
  <2> HIDE DEF s, n
  <2> QED
    BY <1>1, <2>1, DivUnique
<1>3. Power(2)[0] = 1
  BY PowersOfTwo
<1>4. Len(m) = n
  BY <1>1, Lengths DEF Numbers256, WordsOf
<1>5. w = [k \in 1 .. 2 * n |->
             ((At(k - n) * 1) % Base) + (At(k - n - 1) * 1) \div Base]
  <2> HIDE DEF s
  <2> QED
    BY <1>2, <1>3, <1>4 DEF ModMultiple
<1>6. \A k \in 1 .. n : m[k] \in Word
  BY DEF Numbers256, WordsOf
<1>7. Base \in Nat /\ Base >= 2
  BY BaseEven
<1>8. ASSUME NEW k \in Int PROVE (At(k) * 1) % Base = At(k) /\ (At(k) * 1) \div Base = 0 /\ At(k) \in Word
  <2>1. At(k) \in Word
    BY <1>6, <1>7 DEF Word
  <2> DEFINE e == At(k)
  <2>2. e \in 0 .. Base - 1
    BY <2>1 DEF Word
  <2> HIDE DEF e
  <2>3. e * 1 = e /\ e % Base = e /\ e \div Base = 0
    <3>1. Base \in Nat \ {0} /\ e = Base * 0 + e /\ 0 \in Nat /\ e * 1 = e
      BY <1>7, <2>2
    <3>2. (Base * 0 + e) \div Base = 0 /\ (Base * 0 + e) % Base = e
      BY <2>2, <3>1, DivUnique
    <3> QED
      BY <3>1, <3>2
  <2> QED
    BY <2>1, <2>3 DEF e
<1> HIDE DEF w
<1>9. ASSUME NEW k \in 1 .. 2 * n PROVE w[k] = At(k - n) /\ w[k] \in Word
  <2>1. k - n \in Int /\ k - n - 1 \in Int
    BY <1>1
  <2>2. w[k] = ((At(k - n) * 1) % Base) + (At(k - n - 1) * 1) \div Base
    BY <1>5
  <2> HIDE DEF At, n
  <2>3. (At(k - n) * 1) % Base = At(k - n) /\ At(k - n) \in Word
    BY <1>8, <2>1
  <2>4. (At(k - n - 1) * 1) \div Base = 0
    BY <1>8, <2>1
  <2>5. At(k - n) \in Nat
    BY <1>7, <2>3 DEF Word
  <2> QED
    BY <2>2, <2>3, <2>4, <2>5
<1>10. w \in WordsOf(2 * n)
  BY <1>5, <1>9 DEF WordsOf
<1>11. x \in WordsOf(n) /\ \A k \in 1 .. n : x[k] = 0
  BY <1>7 DEF WordsOf, Word
<1>12. ASSUME NEW k \in 1 .. n PROVE x[k] = w[k] /\ m[k] = w[n + k]
  <2>1. k \in 1 .. 2 * n /\ n + k \in 1 .. 2 * n /\ k - n \notin 1 .. n /\ (n + k) - n = k
    BY <1>1
  <2>2. w[k] = 0
    BY <1>9, <2>1
  <2>3. w[n + k] = m[k]
    <3>1. w[n + k] = At((n + k) - n)
      BY <1>9, <2>1
    <3> QED
      BY <2>1, <3>1
  <2> QED
    BY <1>11, <2>2, <2>3
<1> HIDE DEF x, At
<1>13. Value(w) = Value(x) + Full * Value(m)
  <2>1. w \in WordsOf(n + n) /\ m \in WordsOf(n)
    BY <1>1, <1>10 DEF Numbers256
  <2> HIDE DEF n
  <2>2. Value(w) = Value(x) + Power(Base)[n] * Value(m)
    BY <1>1, <1>11, <1>12, <2>1, SplitValue
  <2> QED
    BY <2>2 DEF Full, n
<1>14. Value(x) = 0
  <2> HIDE DEF n
  <2> QED
    BY <1>1, <1>11, ZerosValue
<1>15. Full * Value(m) \in Nat
  <2>1. Full \in Nat /\ Value(m) \in Nat
    BY <1>1, NumberExact, SumsDef DEF Numbers256
  <2> QED
    BY <2>1
<1> QED
  BY <1>10, <1>13, <1>14, <1>15 DEF w

(* One turn of the loop of uECC_vli_mmod, and the equation of Rounds.      *)
Round(s) ==
  LET diff == Sub(s.v, s.mod_multiple)
  IN [v |-> IF diff.carry = 1 THEN s.v ELSE diff.words,
      mod_multiple |-> Rshift1(s.mod_multiple)]
Products == [v : WordsOf(2 * NumWords), mod_multiple : WordsOf(2 * NumWords)]
RoundsOf(w, m, shift, f) ==
  f = [k \in 0 .. shift + 1 |->
         IF k = 0 THEN [v |-> w, mod_multiple |-> ModMultiple(m, shift)] ELSE Round(f[k - 1])]

(* One round subtracts the multiple if it can, and halves it.              *)
LEMMA RoundExact ==
  ASSUME NEW s \in Products
  PROVE  /\ Round(s) \in Products
         /\ Value(s.v) \in Nat /\ Value(s.mod_multiple) \in Nat
         /\ Value(Round(s).mod_multiple) = Value(s.mod_multiple) \div 2
         /\ Value(Round(s).v) = IF Value(s.v) >= Value(s.mod_multiple)
                                THEN Value(s.v) - Value(s.mod_multiple) ELSE Value(s.v)
<1> DEFINE n == 2 * NumWords
           x == s.v
           m == s.mod_multiple
           d == Sub(x, m)
           X == Value(x)
           M == Value(m)
           Z == Value(d.words)
           p == Power(Base)[n]
<1>1. n \in Nat \ {0} /\ n \in Nat
  BY VliAssumption, BaseEven
<1>2. x \in WordsOf(n) /\ m \in WordsOf(n)
  BY DEF Products
<1> HIDE DEF n, x, m
<1>3. Rshift1(m) \in WordsOf(n) /\ Value(Rshift1(m)) = M \div 2
  BY <1>1, <1>2, Rshift1Exact
<1>4. d.words \in WordsOf(n) /\ d.carry \in 0 .. 1 /\ Z - d.carry * p = X - M
  BY <1>1, <1>2, SubExact
<1>5. \A w \in WordsOf(n) : Value(w) \in 0 .. p - 1
  <2>1. SUFFICES ASSUME NEW w \in WordsOf(n) PROVE Value(w) \in 0 .. p - 1
    OBVIOUS
  <2>2. n \in 0 .. n
    BY <1>1
  <2>3. Sums(w)[n] \in 0 .. Power(Base)[n] - 1
    BY <1>1, <2>2, SumsBound
  <2>4. Value(w) = Sums(w)[n]
    BY <1>1, SumsDef
  <2> QED
    BY <2>3, <2>4
<1>6. X \in 0 .. p - 1 /\ M \in 0 .. p - 1 /\ Z \in 0 .. p - 1 /\ p \in Nat
  <2>1. p \in Nat
    BY <1>1, BasePowers
  <2> QED
    BY <1>2, <1>4, <1>5, <2>1
<1> HIDE DEF d, X, M, Z, p
<1>7. (d.carry = 1 <=> X < M) /\ (X >= M => Z = X - M)
  <2>1. d.carry = 0 \/ d.carry = 1
    BY <1>4
  <2>2. CASE d.carry = 0
    <3>1. Z = X - M
      BY <1>4, <1>6, <2>2
    <3> QED
      BY <1>6, <2>2, <3>1
  <2>3. CASE d.carry = 1
    <3>1. Z - p = X - M
      BY <1>4, <1>6, <2>3
    <3> QED
      BY <1>6, <2>3, <3>1
  <2> QED
    BY <2>1, <2>2, <2>3
<1>8. Round(s) = [v |-> IF d.carry = 1 THEN x ELSE d.words, mod_multiple |-> Rshift1(m)]
  BY DEF Round, d, x, m
<1>9. Round(s) \in Products
  <2>1. Round(s) \in [v : WordsOf(n), mod_multiple : WordsOf(n)]
    BY <1>2, <1>3, <1>4, <1>8
  <2> QED
    BY <2>1 DEF Products, n
<1>10. Value(Round(s).mod_multiple) = M \div 2
  BY <1>3, <1>8
<1>11. Value(Round(s).v) = IF X >= M THEN X - M ELSE X
  BY <1>6, <1>7, <1>8 DEF X, Z
<1>12. X \in Nat /\ M \in Nat
  BY <1>6
<1> QED
  BY <1>9, <1>10, <1>11, <1>12 DEF X, M, x, m

(* The rounds of the loop.                                                 *)
LEMMA RoundsDef ==
  ASSUME NEW w \in WordsOf(2 * NumWords), NEW m \in Numbers256, NEW shift \in Nat,
         ModMultiple(m, shift) \in WordsOf(2 * NumWords)
  PROVE  /\ Rounds(w, m, shift) \in [0 .. shift + 1 -> Products]
         /\ Rounds(w, m, shift)[0] = [v |-> w, mod_multiple |-> ModMultiple(m, shift)]
         /\ \A k \in 1 .. shift + 1 : Rounds(w, m, shift)[k] = Round(Rounds(w, m, shift)[k - 1])
<1> DEFINE n == shift + 1
           S == Products
           zero == [v |-> w, mod_multiple |-> ModMultiple(m, shift)]
           step == [k \in 1 .. n |-> [s \in S |-> Round(s)]]
<1>1. n \in Nat
  OBVIOUS
<1>2. \A s \in S : Round(s) \in S
  BY RoundExact
<1>3. zero \in S
  BY DEF Products
<1> HIDE DEF S
<1>4. step \in [1 .. n -> [S -> S]]
  BY <1>2
<1>5. ASSUME NEW f \in [0 .. n -> S], Loops(f, n, zero, step)
      PROVE  RoundsOf(w, m, shift, f)
  <2>1. ASSUME NEW k \in 1 .. n PROVE f[k] = Round(f[k - 1])
    <3>1. f[k - 1] \in S
      BY <1>1
    <3>2. step[k] = [s \in S |-> Round(s)]
      OBVIOUS
    <3> HIDE DEF step
    <3>3. f[k] = step[k][f[k - 1]]
      BY <1>5 DEF Loops
    <3> QED
      BY <3>1, <3>2, <3>3
  <2>2. f[0] = zero
    BY <1>5 DEF Loops
  <2> QED
    BY <2>1, <2>2 DEF RoundsOf
<1> HIDE DEF step
<1>6. \E f : RoundsOf(w, m, shift, f)
  <2> HIDE DEF zero, n
  <2> QED
    BY <1>1, <1>3, <1>4, <1>5, LoopExists
<1>7. RoundsOf(w, m, shift, CHOOSE f : RoundsOf(w, m, shift, f))
  BY <1>6
<1> DEFINE c == Rounds(w, m, shift)
<1>8. c = CHOOSE f : RoundsOf(w, m, shift, f)
  BY DEF Rounds, RoundsOf, Round
<1> HIDE DEF c
<1>9. RoundsOf(w, m, shift, c)
  BY <1>7, <1>8
<1>10. c = [k \in 0 .. n |-> c[k]] /\ c[0] = zero /\ \A k \in 1 .. n : c[k] = Round(c[k - 1])
  BY <1>1, <1>9 DEF RoundsOf
<1>11. c[0] \in S /\ \A k \in 1 .. n : c[k - 1] \in S => c[k] \in S
  BY <1>2, <1>3, <1>10
<1>12. c \in [0 .. n -> S]
  <2> HIDE DEF n
  <2> QED
    BY <1>1, <1>10, <1>11, LoopTyped
<1> QED
  BY <1>10, <1>12 DEF c, S

(* uECC_vli_mmod: the remainder modulo n.                                  *)
LEMMA MmodExact ==
  ASSUME NEW w \in WordsOf(2 * NumWords)
  PROVE  Value(Mmod(w, Number(Order))) = Value(w) % Order
<1> DEFINE n == NumWords
           m == Number(Order)
           shift == n * WordBits
           t == Power(2)
           N == Value(w)
           r == Rounds(w, m, shift)
           V(k) == Value(r[k].v)
           M(k) == Value(r[k].mod_multiple)
           T == {k \in Nat : k <= shift =>
                   /\ M(k) = Order * t[shift - k] /\ V(k) < 2 * M(k)
                   /\ V(k) % Order = N % Order}
<1>1. /\ shift \in Nat /\ Full = t[shift] /\ m \in Numbers256 /\ Value(m) = Order
      /\ Order \in Nat \ {0} /\ Order \in Nat /\ Order < Full /\ Full <= 2 * Order
      /\ NumBits(m) = shift
  BY OrderBits
<1>2. N \in 0 .. (Full * Full) - 1 /\ Full \in Nat
  BY ProductValue, NumberExact
<1>3. n \in Nat /\ WordBits \in Nat
  BY VliAssumption, BaseEven
<1>4. Mmod(w, m) = Low(r[shift + 1].v)
  <2>1. Len(m) = n
    BY <1>1, <1>3, Lengths DEF Numbers256, WordsOf
  <2>2. 2 * n * WordBits - n * WordBits = n * WordBits
    <3>1. (2 * n) * WordBits = 2 * (n * WordBits) /\ n * WordBits \in Nat
      BY <1>3
    <3> DEFINE e == n * WordBits
    <3>2. e \in Nat /\ (2 * n) * WordBits = 2 * e
      BY <3>1
    <3> HIDE DEF e
    <3>3. 2 * e - e = e
      BY <3>2
    <3> QED
      BY <3>2, <3>3 DEF e
  <2>3. 2 * Len(m) * WordBits - NumBits(m) = shift
    BY <1>1, <2>1, <2>2
  <2> HIDE DEF m, shift
  <2> QED
    BY <2>3 DEF Mmod
<1>5. ModMultiple(m, shift) \in WordsOf(2 * n) /\ Value(ModMultiple(m, shift)) = Full * Order
  BY <1>1, ModMultipleExact
<1>6. /\ r \in [0 .. shift + 1 -> Products]
      /\ r[0] = [v |-> w, mod_multiple |-> ModMultiple(m, shift)]
      /\ \A k \in 1 .. shift + 1 : r[k] = Round(r[k - 1])
  <2> HIDE DEF m, shift
  <2> QED
    BY <1>1, <1>5, RoundsDef
<1> HIDE DEF m, r, N, shift
<1>7. /\ t[0] = 1 /\ \A k \in Nat : t[k + 1] = 2 * t[k] /\ t[k] \in Nat
  BY PowersOfTwo
<1> HIDE DEF t
<1>8. ASSUME NEW k \in 0 .. shift
      PROVE  /\ V(k) \in Nat /\ M(k) \in Nat /\ V(k + 1) \in Nat
             /\ M(k + 1) = M(k) \div 2
             /\ V(k + 1) = IF V(k) >= M(k) THEN V(k) - M(k) ELSE V(k)
  <2>1. k + 1 \in 1 .. shift + 1 /\ (k + 1) - 1 = k /\ k \in 0 .. shift + 1
    BY <1>1
  <2>2. r[k + 1] = Round(r[k]) /\ r[k] \in Products
    <3>1. r[k + 1] = Round(r[(k + 1) - 1])
      BY <1>6, <2>1
    <3> QED
      BY <1>6, <2>1, <3>1
  <2> DEFINE s == r[k]
  <2>3. s \in Products /\ r[k + 1] = Round(s)
    BY <2>2
  <2> HIDE DEF s
  <2>4. /\ Value(s.v) \in Nat /\ Value(s.mod_multiple) \in Nat
        /\ Value(Round(s).mod_multiple) = Value(s.mod_multiple) \div 2
        /\ Value(Round(s).v) = IF Value(s.v) >= Value(s.mod_multiple)
                               THEN Value(s.v) - Value(s.mod_multiple) ELSE Value(s.v)
    BY <2>3, RoundExact
  <2>5. V(k) = Value(s.v) /\ M(k) = Value(s.mod_multiple)
        /\ V(k + 1) = Value(Round(s).v) /\ M(k + 1) = Value(Round(s).mod_multiple)
    BY <2>3 DEF s
  <2> HIDE DEF V, M
  <2> QED
    BY <2>4, <2>5
<1>9. V(0) = N /\ M(0) = Full * Order
  BY <1>5, <1>6 DEF N
<1> HIDE DEF V, M
<1>10. 0 \in T
  <2>1. shift - 0 = shift /\ Full * Order = Order * Full /\ Full * Order \in Nat
    BY <1>1, <1>2
  <2>2. N < 2 * (Full * Order)
    <3>1. Full * (2 * Order) >= Full * Full /\ Full * Full \in Nat
      <4> DEFINE e == 2 * Order
      <4>1. e \in Nat /\ e >= Full
        BY <1>1
      <4> HIDE DEF e
      <4>2. Full * e >= Full * Full
        BY <1>2, <4>1, TimesMonotone
      <4> QED
        BY <1>2, <4>2 DEF e
    <3>2. Full * (2 * Order) = 2 * (Full * Order)
      BY <1>1, <1>2
    <3> DEFINE e == Full * Full
               f == Full * Order
    <3>3. e \in Nat /\ f \in Nat /\ 2 * f >= e /\ N <= e - 1 /\ N \in Nat
      BY <1>2, <2>1, <3>1, <3>2
    <3> HIDE DEF e, f
    <3>4. N < 2 * f
      BY <3>3
    <3> QED
      BY <3>4 DEF f
  <2> QED
    BY <1>1, <1>9, <2>1, <2>2
<1>11. ASSUME NEW k \in Nat, k <= shift, M(k) = Order * t[shift - k], V(k) < 2 * M(k),
              V(k) % Order = N % Order
       PROVE  V(k + 1) < M(k) /\ V(k + 1) % Order = N % Order /\ V(k + 1) \in Nat
  <2>1. k \in 0 .. shift
    BY <1>1, <1>11
  <2>2. /\ V(k) \in Nat /\ M(k) \in Nat /\ V(k + 1) \in Nat
        /\ V(k + 1) = IF V(k) >= M(k) THEN V(k) - M(k) ELSE V(k)
    BY <1>8, <2>1
  <2>3. V(k + 1) < M(k)
    BY <1>11, <2>2
  <2>4. V(k + 1) % Order = V(k) % Order
    <3>1. CASE V(k) < M(k)
      BY <2>2, <3>1
    <3>2. CASE V(k) >= M(k)
      <4> DEFINE e == t[shift - k]
                 x == V(k)
                 y == V(k + 1)
      <4>1. e \in Nat /\ x \in Nat /\ y \in Nat /\ y = x - Order * e
        <5>1. shift - k \in Nat
          BY <1>1, <2>1
        <5>2. e \in Nat
          BY <1>7, <5>1
        <5> QED
          BY <1>11, <2>2, <3>2, <5>2
      <4> HIDE DEF e, x, y
      <4> DEFINE q == -e
      <4>2. q \in Int /\ x + Order * q = y /\ x \in Int
        <5>1. Order * (-e) = -(Order * e) /\ Order * e \in Nat
          BY <1>1, <4>1
        <5> QED
          BY <4>1, <5>1
      <4> HIDE DEF q
      <4>3. (x + Order * q) % Order = x % Order
        BY <1>1, <4>1, <4>2, ModTurns
      <4>4. y % Order = x % Order
        BY <4>2, <4>3
      <4> QED
        BY <4>4 DEF x, y
    <3> QED
      BY <2>2, <3>1, <3>2
  <2> QED
    BY <1>11, <2>2, <2>3, <2>4
<1>12. ASSUME NEW k \in T PROVE k + 1 \in T
  <2>1. SUFFICES ASSUME k + 1 <= shift
                 PROVE  /\ M(k + 1) = Order * t[shift - (k + 1)] /\ V(k + 1) < 2 * M(k + 1)
                        /\ V(k + 1) % Order = N % Order
    OBVIOUS
  <2>2. /\ k \in Nat /\ k <= shift /\ k \in 0 .. shift
        /\ M(k) = Order * t[shift - k] /\ V(k) < 2 * M(k) /\ V(k) % Order = N % Order
    BY <1>1, <2>1
  <2>3. V(k + 1) < M(k) /\ V(k + 1) % Order = N % Order
    BY <1>11, <2>2
  <2> DEFINE j == shift - (k + 1)
  <2>4. j \in Nat /\ shift - k = j + 1
    BY <1>1, <2>1, <2>2
  <2> HIDE DEF j
  <2> DEFINE e == t[j]
             f == Order * e
  <2>5. e \in Nat /\ t[shift - k] = 2 * e
    BY <1>7, <2>4
  <2>6. M(k) = 2 * f /\ f \in Nat
    <3> HIDE DEF e
    <3>1. Order * (2 * e) = 2 * (Order * e) /\ Order * e \in Nat
      BY <1>1, <2>5
    <3> QED
      BY <2>2, <2>5, <3>1
  <2> HIDE DEF f
  <2>7. M(k + 1) = f
    <3>1. M(k + 1) = M(k) \div 2
      BY <1>8, <2>2
    <3>2. (2 * f) \div 2 = f
      BY <2>6
    <3> QED
      BY <2>6, <3>1, <3>2
  <2>8. V(k + 1) < 2 * M(k + 1)
    BY <2>3, <2>6, <2>7
  <2>9. M(k + 1) = Order * t[shift - (k + 1)]
    BY <2>7 DEF f, e, j
  <2> QED
    BY <2>3, <2>8, <2>9
<1>13. T \in SUBSET Nat
  OBVIOUS
<1> HIDE DEF T
<1>14. T = Nat
  BY <1>10, <1>12, <1>13, Induct
<1>15. /\ shift <= shift /\ M(shift) = Order * t[shift - shift] /\ V(shift) < 2 * M(shift)
       /\ V(shift) % Order = N % Order
  BY <1>1, <1>14 DEF T
<1>16. V(shift + 1) < M(shift) /\ V(shift + 1) % Order = N % Order /\ V(shift + 1) \in Nat
  BY <1>1, <1>11, <1>15
<1>17. M(shift) = Order
  <2>1. shift - shift = 0 /\ Order * 1 = Order
    BY <1>1
  <2> QED
    BY <1>7, <1>15, <2>1
<1> DEFINE x == V(shift + 1)
<1>18. x \in 0 .. Order - 1 /\ x % Order = N % Order
  BY <1>1, <1>16, <1>17
<1> HIDE DEF x
<1>19. x = N % Order /\ x % Full = x
  <2>1. x % Order = x /\ x \in 0 .. Full - 1
    BY <1>1, <1>2, <1>18
  <2>2. x % Full = x
    BY <1>2, <2>1
  <2> QED
    BY <1>18, <2>1, <2>2
<1>20. Value(Low(r[shift + 1].v)) = x % Full
  <2>1. shift + 1 \in 0 .. shift + 1
    BY <1>1
  <2>2. r[shift + 1].v \in WordsOf(2 * NumWords)
    BY <1>6, <2>1 DEF Products
  <2>3. Value(Low(r[shift + 1].v)) = Value(r[shift + 1].v) % Full
    BY <2>2, HalvesValue
  <2> QED
    BY <2>3 DEF x, V
<1> QED
  BY <1>4, <1>19, <1>20 DEF m, N

-----------------------------------------------------------------------------
(* Byte strings.                                                           *)

(* A word has a whole number of bytes.                                     *)
LEMMA ByteFacts ==
  /\ BytesPerWord \in Nat \ {0} /\ ByteModulus \in Nat \ {0}
  /\ \A k \in Nat : /\ Power(ByteModulus)[k] \in Nat \ {0}
                    /\ Power(ByteModulus)[k + 1] = ByteModulus * Power(ByteModulus)[k]
  /\ Power(ByteModulus)[0] = 1
  /\ Base = Power(ByteModulus)[BytesPerWord]
  /\ NumBytes = NumWords * BytesPerWord /\ NumBytes \in Nat /\ NumWords \in Nat
<1> DEFINE q == BytesPerWord
           D == ByteModulus
<1>1. ByteBits \in Nat \ {0} /\ WordBits \in Nat \ {0} /\ WordBits % ByteBits = 0
      /\ NumWords \in Nat
  BY VliAssumption, BaseEven
<1>2. q \in Nat /\ WordBits = ByteBits * q
  <2>1. WordBits \div ByteBits \in Nat
        /\ ByteBits * (WordBits \div ByteBits) + (WordBits % ByteBits) = WordBits
    BY <1>1, Parts
  <2>2. ByteBits * q \in Nat
    BY <1>1, <2>1 DEF BytesPerWord
  <2> DEFINE e == ByteBits * q
  <2>3. e \in Nat /\ e + 0 = WordBits
    BY <1>1, <2>1, <2>2 DEF BytesPerWord
  <2> HIDE DEF e
  <2>4. e = WordBits
    BY <2>3
  <2> QED
    BY <2>1, <2>4 DEF e, BytesPerWord
<1> HIDE DEF q
<1>3. q # 0
  <2>1. SUFFICES ASSUME q = 0 PROVE FALSE
    OBVIOUS
  <2>2. ByteBits * 0 = 0
    BY <1>1
  <2> QED
    BY <1>1, <1>2, <2>1, <2>2
<1>4. D \in Nat \ {0}
  BY <1>1, PowersOfTwo DEF ByteModulus
<1>5. Power(D)[q] = Base
  <2>1. ByteBits \in Nat
    BY <1>1
  <2>2. Power(Power(2)[ByteBits])[q] = Power(2)[q * ByteBits]
    BY <1>2, <2>1, PowerBits
  <2>3. q * ByteBits = WordBits
    BY <1>2, <2>1
  <2> QED
    BY <2>2, <2>3 DEF ByteModulus, Base
<1> HIDE DEF D
<1>6. Power(D)[0] = 1 /\ \A k \in Nat : Power(D)[k + 1] = D * Power(D)[k]
  <2>1. D \in Nat
    BY <1>4
  <2> QED
    BY <2>1, PowerDef
<1>7. \A k \in Nat : Power(D)[k] \in Nat \ {0}
  BY <1>4, PowerPositive
<1>8. NumBytes = NumWords * q /\ NumBytes \in Nat
  <2>1. NumWords * q \in Nat
    BY <1>1, <1>2
  <2> QED
    BY <2>1 DEF NumBytes, q
<1> QED
  BY <1>1, <1>2, <1>3, <1>4, <1>5, <1>6, <1>7, <1>8 DEF q, D

(* A number is read off its digits, the high one first.                    *)
LEMMA Horner ==
  ASSUME NEW D \in Nat \ {0}, NEW n \in Nat, NEW y \in Nat, NEW c \in Nat,
         y < Power(D)[n], NEW h, h[0] = c,
         \A j \in 1 .. n : h[j] = h[j - 1] * D + ((y \div Power(D)[n - j]) % D)
  PROVE  h[n] = c * Power(D)[n] + y
<1> DEFINE p == Power(D)
           T == {j \in Nat : j <= n => h[j] = c * p[j] + (y \div p[n - j])}
<1>1. D \in Nat /\ p[0] = 1 /\ \A k \in Nat : p[k + 1] = D * p[k] /\ p[k] \in Nat \ {0}
  <2>1. D \in Nat
    OBVIOUS
  <2>2. p[0] = 1 /\ \A k \in Nat : p[k + 1] = D * p[k]
    BY <2>1, PowerDef
  <2>3. \A k \in Nat : p[k] \in Nat \ {0}
    BY PowerPositive
  <2> QED
    BY <2>1, <2>2, <2>3
<1>2. y < p[n] /\ \A j \in 1 .. n : h[j] = h[j - 1] * D + ((y \div p[n - j]) % D)
  OBVIOUS
<1> HIDE DEF p
<1>3. 0 \in T
  <2>1. n - 0 = n /\ c * 1 = c /\ p[n] \in Nat \ {0}
    BY <1>1
  <2> DEFINE m == p[n]
  <2>2. m \in Nat \ {0} /\ y \in 0 .. m - 1
    BY <1>2, <2>1
  <2> HIDE DEF m
  <2>3. (m * 0 + y) \div m = 0 /\ m * 0 + y = y
    <3>1. (m * 0 + y) \div m = 0
      BY <2>2, DivUnique
    <3> QED
      BY <2>2, <3>1
  <2>4. y \div p[n - 0] = 0
    BY <2>1, <2>3 DEF m
  <2> QED
    BY <1>1, <2>1, <2>4
<1>4. ASSUME NEW j \in T PROVE j + 1 \in T
  <2>1. SUFFICES ASSUME j + 1 <= n
                 PROVE  h[j + 1] = c * p[j + 1] + (y \div p[n - (j + 1)])
    OBVIOUS
  <2>2. j \in Nat /\ j + 1 \in 1 .. n /\ (j + 1) - 1 = j /\ h[j] = c * p[j] + (y \div p[n - j])
    BY <2>1
  <2> DEFINE i == n - (j + 1)
  <2>3. i \in Nat /\ n - j = i + 1
    BY <2>1, <2>2
  <2> HIDE DEF i
  <2> DEFINE m == p[i]
             x == y \div m
             k == p[j]
  <2>4. m \in Nat \ {0} /\ p[n - j] = D * m /\ k \in Nat /\ p[j + 1] = D * k
    BY <1>1, <2>2, <2>3
  <2> HIDE DEF m, k
  <2>5. x \in Nat /\ y \div (D * m) = x \div D
    BY <2>4, Parts, DivDiv
  <2>6. h[j + 1] = h[j] * D + (x % D)
    <3>1. h[j + 1] = h[(j + 1) - 1] * D + ((y \div p[n - (j + 1)]) % D)
      BY <1>2, <2>2
    <3> QED
      BY <2>2, <3>1 DEF m, i
  <2>7. h[j] = c * k + (x \div D)
    BY <2>2, <2>4, <2>5 DEF k
  <2> HIDE DEF x
  <2> DEFINE z == x \div D
             r == x % D
             f == c * k
  <2>8. z \in Nat /\ r \in Nat /\ D * z + r = x
    <3>1. z \in Nat /\ r \in 0 .. D - 1 /\ D * z + r = x
      BY <2>5, Parts
    <3> QED
      BY <1>1, <3>1
  <2>9. f \in Nat /\ c * (D * k) = D * f
    BY <1>1, <2>4
  <2>10. h[j + 1] = (f + z) * D + r
    BY <2>6, <2>7
  <2> HIDE DEF z, r, f
  <2>11. (f + z) * D = D * f + D * z /\ D * f \in Nat /\ D * z \in Nat
    BY <1>1, <2>8, <2>9
  <2>12. h[j + 1] = D * f + x
    <3> DEFINE g == D * f
               l == D * z
    <3>1. g \in Nat /\ l \in Nat /\ h[j + 1] = (g + l) + r /\ l + r = x
      BY <2>8, <2>10, <2>11
    <3> HIDE DEF g, l
    <3>2. h[j + 1] = g + x
      BY <2>8, <3>1
    <3> QED
      BY <3>2 DEF g
  <2>13. c * p[j + 1] = D * f
    BY <2>4, <2>9
  <2> QED
    BY <2>12, <2>13 DEF x, m, i
<1>5. T \in SUBSET Nat
  OBVIOUS
<1> HIDE DEF T
<1>6. T = Nat
  BY <1>3, <1>4, <1>5, Induct
<1>7. h[n] = c * p[n] + (y \div p[n - n])
  BY <1>6 DEF T
<1>8. y \div p[n - n] = y
  <2>1. n - n = 0 /\ y \div 1 = y
    OBVIOUS
  <2> QED
    BY <1>1, <2>1
<1> QED
  BY <1>7, <1>8 DEF p

(* The byte at a place, the lowest first, and the value of the bytes of    *)
(* word k from the highest on.                                             *)
ByteAt(bytes, place) == IF place < Len(bytes) THEN bytes[Len(bytes) - place] ELSE 0
HornerOf(bytes, k, h) ==
  h = [j \in 0 .. BytesPerWord |->
         IF j = 0 THEN 0 ELSE h[j - 1] * ByteModulus + ByteAt(bytes, k * BytesPerWord - j)]

(* A word is read off its bytes.                                           *)
LEMMA NativeWord ==
  ASSUME NEW bytes, NEW k \in 1 .. NumWords,
         \A j \in 1 .. BytesPerWord : ByteAt(bytes, k * BytesPerWord - j) \in Nat
  PROVE  \E h : /\ h[0] = 0
                /\ \A j \in 1 .. BytesPerWord :
                     h[j] = h[j - 1] * ByteModulus + ByteAt(bytes, k * BytesPerWord - j)
                /\ BytesToNative(bytes)[k] = h[BytesPerWord]
<1> DEFINE n == BytesPerWord
           D == ByteModulus
           f(j) == ByteAt(bytes, k * n - j)
           S == Nat
           zero == 0
           step == [j \in 1 .. n |-> [s \in S |-> s * D + f(j)]]
<1>1. n \in Nat /\ D \in Nat
  BY ByteFacts
<1>2. \A j \in 1 .. n : f(j) \in Nat
  OBVIOUS
<1> HIDE DEF f
<1>3. \A j \in 1 .. n : \A s \in S : s * D + f(j) \in S
  BY <1>1, <1>2
<1>4. zero \in S
  OBVIOUS
<1> HIDE DEF S, D
<1>5. step \in [1 .. n -> [S -> S]]
  BY <1>3
<1>6. ASSUME NEW g \in [0 .. n -> S], Loops(g, n, zero, step)
      PROVE  HornerOf(bytes, k, g)
  <2>1. ASSUME NEW j \in 1 .. n PROVE g[j] = g[j - 1] * D + f(j)
    <3>1. g[j - 1] \in S
      BY <1>1
    <3>2. step[j] = [s \in S |-> s * D + f(j)]
      OBVIOUS
    <3> HIDE DEF step
    <3>3. g[j] = step[j][g[j - 1]]
      BY <1>6 DEF Loops
    <3> QED
      BY <3>1, <3>2, <3>3
  <2>2. g[0] = 0
    BY <1>6 DEF Loops
  <2>3. g = [j \in 0 .. n |-> IF j = 0 THEN 0 ELSE g[j - 1] * D + f(j)]
    <3>1. \A j \in 0 .. n : j # 0 => j \in 1 .. n
      BY <1>1
    <3> QED
      BY <2>1, <2>2, <3>1
  <2> QED
    BY <2>3 DEF HornerOf, f, D
<1> HIDE DEF step, zero
<1>7. \E g : HornerOf(bytes, k, g)
  <2> HIDE DEF n
  <2> QED
    BY <1>1, <1>4, <1>5, <1>6, LoopExists
<1> DEFINE h == CHOOSE g : HornerOf(bytes, k, g)
<1>8. HornerOf(bytes, k, h)
  BY <1>7
<1>9. BytesToNative(bytes)[k] = h[n]
  BY DEF BytesToNative, HornerOf, ByteAt
<1> HIDE DEF h
<1>10. h[0] = 0 /\ \A j \in 1 .. n : h[j] = h[j - 1] * D + f(j)
  BY <1>1, <1>8 DEF HornerOf, f, D
<1> QED
  BY <1>9, <1>10 DEF f, D

(* The places of the bytes of a word.                                      *)
LEMMA Places ==
  ASSUME NEW k \in 1 .. NumWords, NEW i \in 0 .. BytesPerWord - 1
  PROVE  /\ (k - 1) * BytesPerWord + i \in 0 .. NumBytes - 1
         /\ ((k - 1) * BytesPerWord + i) \div BytesPerWord = k - 1
         /\ ((k - 1) * BytesPerWord + i) % BytesPerWord = i
         /\ k * BytesPerWord = (k - 1) * BytesPerWord + BytesPerWord
         /\ (k - 1) * BytesPerWord \in Nat /\ k * BytesPerWord \in Nat
         /\ k < NumWords => k * BytesPerWord < NumBytes
<1> DEFINE q == BytesPerWord
           n == NumWords
           e == k - 1
           f == e * q
<1>1. q \in Nat \ {0} /\ q \in Nat /\ n \in Nat /\ NumBytes = n * q /\ NumBytes \in Nat
  BY ByteFacts
<1>2. e \in Nat /\ k = e + 1 /\ k <= n /\ i \in 0 .. q - 1
  BY <1>1
<1> HIDE DEF q, n, e
<1>3. f \in Nat /\ f = q * e /\ k * q = f + q
  <2>1. (e + 1) * q = e * q + q
    BY <1>1, <1>2
  <2> QED
    BY <1>1, <1>2, <2>1
<1>4. q * n >= q * k /\ q * n = n * q /\ q * k = k * q /\ k * q \in Nat
  <2>1. k \in Nat /\ n >= k
    BY <1>2
  <2>2. q * n >= q * k
    BY <1>1, <2>1, TimesMonotone
  <2> QED
    BY <1>1, <2>1, <2>2
<1>5. NumBytes >= f + q
  BY <1>1, <1>3, <1>4
<1>6. (q * e + i) \div q = e /\ (q * e + i) % q = i
  BY <1>1, <1>2, DivUnique
<1>7. k < n => k * q < NumBytes
  <2>1. SUFFICES ASSUME k < n PROVE k * q < NumBytes
    OBVIOUS
  <2> DEFINE k1 == k + 1
  <2>2. k1 \in Nat /\ n >= k1
    BY <1>1, <1>2, <2>1
  <2> HIDE DEF k1
  <2>3. q * n >= q * k1 /\ q * k1 \in Nat
    BY <1>1, <2>2, TimesMonotone
  <2>4. q * k1 = q * k + q
    BY <1>1, <1>2 DEF k1
  <2> DEFINE g == q * n
             h == q * k1
             j == q * k
  <2>5. g >= h /\ h = j + q /\ j = k * q /\ NumBytes = g /\ j \in Nat
    BY <1>1, <1>4, <2>3, <2>4
  <2> HIDE DEF g, h, j
  <2> QED
    BY <1>1, <2>5
<1> HIDE DEF f
<1>8. f + i \in 0 .. NumBytes - 1
  BY <1>1, <1>2, <1>3, <1>5
<1> QED
  BY <1>3, <1>4, <1>6, <1>7, <1>8 DEF f, e, q, n

(* A byte of a word.                                                       *)
LEMMA ByteOfExact ==
  ASSUME NEW w \in Numbers256, NEW k \in 1 .. NumWords, NEW i \in 0 .. BytesPerWord - 1
  PROVE  /\ ByteOf(w, (k - 1) * BytesPerWord + i)
              = (w[k] \div Power(ByteModulus)[i]) % ByteModulus
         /\ (w[k] \div Power(ByteModulus)[i]) % ByteModulus \in Nat
         /\ w[k] \in Nat /\ w[k] < Power(ByteModulus)[BytesPerWord]
<1> DEFINE c == (k - 1) * BytesPerWord + i
<1>1. c \div BytesPerWord = k - 1 /\ c % BytesPerWord = i
  BY Places
<1>2. 1 + (k - 1) = k
  BY ByteFacts
<1> HIDE DEF c
<1>3. ByteOf(w, c) = (w[k] \div Power(ByteModulus)[i]) % ByteModulus
  BY <1>1, <1>2 DEF ByteOf
<1>4. w[k] \in Word
  BY DEF Numbers256, WordsOf
<1>5. w[k] \in Nat /\ w[k] < Power(ByteModulus)[BytesPerWord]
  BY <1>4, ByteFacts, BaseEven DEF Word
<1>6. (w[k] \div Power(ByteModulus)[i]) % ByteModulus \in Nat
  <2> DEFINE x == w[k]
             m == Power(ByteModulus)[i]
             D == ByteModulus
  <2>1. x \in Nat /\ m \in Nat \ {0} /\ D \in Nat \ {0}
    <3>1. i \in Nat
      BY ByteFacts
    <3> QED
      BY <1>5, <3>1, ByteFacts
  <2> HIDE DEF x, m, D
  <2>2. x \div m \in Nat
    BY <2>1, Parts
  <2>3. (x \div m) % D \in 0 .. D - 1
    BY <2>1, <2>2, Parts
  <2>4. D \in Nat
    BY <2>1
  <2>5. (x \div m) % D \in Nat
    BY <2>3, <2>4
  <2> QED
    BY <2>5 DEF x, m, D
<1> QED
  BY <1>3, <1>5, <1>6 DEF c

(* What comes out has the words of a number.                               *)
LEMMA NativeWords ==
  ASSUME NEW bytes
  PROVE  BytesToNative(bytes) = [k \in 1 .. NumWords |-> BytesToNative(bytes)[k]]
BY DEF BytesToNative

(* The bytes of a number are read back as the number.                      *)
LEMMA BytesExact ==
  ASSUME NEW w \in Numbers256, NEW bytes, bytes = NativeToBytes(w)
  PROVE  BytesToNative(bytes) = w
<1> DEFINE q == BytesPerWord
           n == NumWords
           D == ByteModulus
           p == Power(D)
<1>1. q \in Nat \ {0} /\ q \in Nat /\ n \in Nat /\ NumBytes \in Nat /\ D \in Nat \ {0}
  BY ByteFacts
<1>2. bytes = [k \in 1 .. NumBytes |-> ByteOf(w, NumBytes - k)]
  BY DEF NativeToBytes
<1>3. Len(bytes) = NumBytes
  BY <1>1, <1>2
<1>4. ASSUME NEW place \in 0 .. NumBytes - 1 PROVE ByteAt(bytes, place) = ByteOf(w, place)
  <2>1. place < NumBytes /\ NumBytes - place \in 1 .. NumBytes
        /\ NumBytes - (NumBytes - place) = place
    BY <1>1
  <2> QED
    BY <1>2, <1>3, <2>1 DEF ByteAt
<1>5. ASSUME NEW k \in 1 .. n, NEW j \in 1 .. q
      PROVE  /\ ByteAt(bytes, k * q - j) = (w[k] \div p[q - j]) % D
             /\ (w[k] \div p[q - j]) % D \in Nat
  <2> DEFINE i == q - j
             c == (k - 1) * q
  <2>1. i \in 0 .. q - 1
    BY <1>1
  <2> HIDE DEF i
  <2>2. c + i \in 0 .. NumBytes - 1 /\ k * q = c + q /\ c \in Nat
    BY <2>1, Places
  <2>3. ByteOf(w, c + i) = (w[k] \div p[i]) % D /\ (w[k] \div p[i]) % D \in Nat
    BY <2>1, ByteOfExact
  <2>4. k * q - j = c + i
    BY <1>1, <2>2 DEF i
  <2> HIDE DEF c
  <2>5. ByteAt(bytes, k * q - j) = (w[k] \div p[i]) % D
    BY <1>4, <2>2, <2>3, <2>4
  <2> QED
    BY <2>3, <2>5 DEF i
<1>6. ASSUME NEW k \in 1 .. n PROVE BytesToNative(bytes)[k] = w[k]
  <2>1. \A j \in 1 .. q : ByteAt(bytes, k * q - j) \in Nat
    <3>1. SUFFICES ASSUME NEW j \in 1 .. q PROVE ByteAt(bytes, k * q - j) \in Nat
      OBVIOUS
    <3>2. ByteAt(bytes, k * q - j) = (w[k] \div p[q - j]) % D /\ (w[k] \div p[q - j]) % D \in Nat
      BY <1>5
    <3> QED
      BY <3>2
  <2>2. PICK h : /\ h[0] = 0
                 /\ \A j \in 1 .. q : h[j] = h[j - 1] * D + ByteAt(bytes, k * q - j)
                 /\ BytesToNative(bytes)[k] = h[q]
    BY <2>1, NativeWord
  <2> DEFINE y == w[k]
  <2>3. y \in Nat /\ y < p[q]
    <3>1. 0 \in 0 .. q - 1
      BY <1>1
    <3> QED
      BY <3>1, ByteOfExact
  <2>4. \A j \in 1 .. q : h[j] = h[j - 1] * D + ((y \div p[q - j]) % D)
    <3>1. SUFFICES ASSUME NEW j \in 1 .. q
                   PROVE  h[j] = h[j - 1] * D + ((y \div p[q - j]) % D)
      OBVIOUS
    <3>2. ByteAt(bytes, k * q - j) = (y \div p[q - j]) % D
      BY <1>5
    <3> QED
      BY <2>2, <3>2
  <2> HIDE DEF y
  <2>5. h[q] = 0 * p[q] + y
    <3> HIDE DEF q, D
    <3> QED
      BY <1>1, <2>2, <2>3, <2>4, Horner
  <2>6. 0 * p[q] = 0
    <3>1. p[q] \in Nat
      BY <1>1, ByteFacts
    <3> QED
      BY <3>1
  <2> QED
    BY <2>2, <2>3, <2>5, <2>6 DEF y
<1>7. BytesToNative(bytes) = [k \in 1 .. n |-> BytesToNative(bytes)[k]]
  BY NativeWords
<1>8. w = [k \in 1 .. n |-> w[k]]
  BY DEF Numbers256, WordsOf
<1> QED
  BY <1>6, <1>7, <1>8

(* One byte fewer is read as the number without its low byte.              *)
LEMMA FewerBytesExact ==
  ASSUME NEW w \in Numbers256, NEW bytes,
         bytes = [k \in 1 .. NumBytes - 1 |-> NativeToBytes(w)[k]]
  PROVE  BytesToNative(bytes) = ShiftedBy(w, ByteModulus, NumWords)
<1> DEFINE q == BytesPerWord
           n == NumWords
           D == ByteModulus
           p == Power(D)
           top(k) == IF k < n THEN w[k + 1] % D ELSE 0
<1>1. /\ q \in Nat \ {0} /\ q \in Nat /\ n \in Nat /\ NumBytes \in Nat /\ D \in Nat \ {0}
      /\ D \in Nat /\ NumBytes = n * q
  BY ByteFacts
<1>2. bytes = [k \in 1 .. NumBytes - 1 |-> ByteOf(w, NumBytes - k)]
  <2>1. ASSUME NEW k \in 1 .. NumBytes - 1 PROVE NativeToBytes(w)[k] = ByteOf(w, NumBytes - k)
    <3>1. k \in 1 .. NumBytes
      BY <1>1
    <3> QED
      BY <3>1 DEF NativeToBytes
  <2> QED
    BY <2>1
<1>3. Len(bytes) = NumBytes - 1
  <2>1. NumBytes - 1 \in Nat
    <3>1. NumBytes # 0
      <4>1. 1 \in 1 .. n /\ 0 \in 0 .. q - 1
        BY <1>1, VliAssumption
      <4>2. (1 - 1) * q + 0 \in 0 .. NumBytes - 1
        BY <4>1, Places
      <4> QED
        BY <1>1, <4>2
    <3> QED
      BY <1>1, <3>1
  <2> QED
    BY <1>2, <2>1
<1>4. ASSUME NEW place \in 0 .. NumBytes - 1
      PROVE  ByteAt(bytes, place) = IF place < NumBytes - 1 THEN ByteOf(w, place + 1) ELSE 0
  <2>1. CASE place < NumBytes - 1
    <3>1. (NumBytes - 1) - place \in 1 .. NumBytes - 1
          /\ NumBytes - ((NumBytes - 1) - place) = place + 1
      BY <1>1, <2>1
    <3> QED
      BY <1>2, <1>3, <2>1, <3>1 DEF ByteAt
  <2>2. CASE ~(place < NumBytes - 1)
    BY <1>3, <2>2 DEF ByteAt
  <2> QED
    BY <2>1, <2>2
<1>5. ASSUME NEW k \in 1 .. n, NEW j \in 2 .. q
      PROVE  /\ ByteAt(bytes, k * q - j) = (w[k] \div p[q - j + 1]) % D
             /\ (w[k] \div p[q - j + 1]) % D \in Nat
  <2> DEFINE i == q - j + 1
             c == (k - 1) * q
             last == q - 1
  <2>1. i \in 0 .. q - 1 /\ last \in 0 .. q - 1 /\ i >= 1 /\ i <= last
    BY <1>1
  <2> HIDE DEF i
  <2>2. c + i \in 0 .. NumBytes - 1 /\ k * q = c + q /\ c \in Nat
    BY <2>1, Places
  <2>3. ByteOf(w, c + i) = (w[k] \div p[i]) % D /\ (w[k] \div p[i]) % D \in Nat
    BY <2>1, ByteOfExact
  <2>4. (k * q - j) + 1 = c + i
    BY <1>1, <2>2 DEF i
  <2> HIDE DEF c
  <2>5. k * q - j \in 0 .. NumBytes - 1 /\ k * q - j < NumBytes - 1
    <3>1. k * q - j = c + i - 1
      BY <1>1, <2>1, <2>2, <2>4
    <3>2. c + i - 1 \in 0 .. NumBytes - 1 /\ c + i - 1 < NumBytes - 1
      BY <1>1, <2>1, <2>2
    <3> QED
      BY <3>1, <3>2
  <2>6. ByteAt(bytes, k * q - j) = ByteOf(w, (k * q - j) + 1)
    BY <1>4, <2>5
  <2>7. ByteAt(bytes, k * q - j) = (w[k] \div p[i]) % D
    BY <2>3, <2>4, <2>6
  <2> QED
    BY <2>3, <2>7 DEF i
<1>6. ASSUME NEW k \in 1 .. n PROVE ByteAt(bytes, k * q - 1) = top(k) /\ top(k) \in Nat
  <2> DEFINE c == (k - 1) * q
             last == q - 1
  <2>1. last \in 0 .. q - 1 /\ 0 \in 0 .. q - 1 /\ k \in Nat
    BY <1>1
  <2> HIDE DEF last
  <2>2. /\ c + last \in 0 .. NumBytes - 1 /\ k * q = c + q /\ c \in Nat
        /\ k < n => k * q < NumBytes
    BY <2>1, Places
  <2> HIDE DEF c
  <2>3. k * q - 1 = c + last
    BY <1>1, <2>2 DEF last
  <2>4. k * q \in Nat /\ k * q - 1 \in 0 .. NumBytes - 1 /\ (k * q - 1) + 1 = k * q
    BY <1>1, <2>2, <2>3
  <2>5. CASE k < n
    <3>1. k + 1 \in 1 .. n /\ (k + 1) - 1 = k
      BY <1>1, <2>1, <2>5
    <3>2. ByteOf(w, ((k + 1) - 1) * q + 0) = (w[k + 1] \div p[0]) % D
          /\ (w[k + 1] \div p[0]) % D \in Nat /\ w[k + 1] \in Nat
      BY <2>1, <3>1, ByteOfExact
    <3>3. p[0] = 1 /\ w[k + 1] \div 1 = w[k + 1] /\ k * q + 0 = k * q
      <4> DEFINE x == w[k + 1]
                 e == k * q
      <4>1. x \in Nat /\ e \in Nat
        BY <2>4, <3>2
      <4> HIDE DEF x, e
      <4>2. x \div 1 = x /\ e + 0 = e
        BY <4>1
      <4> QED
        BY <4>2, ByteFacts DEF x, e
    <3>4. ByteOf(w, k * q) = w[k + 1] % D /\ w[k + 1] % D \in Nat
      BY <3>1, <3>2, <3>3
    <3>5. k * q - 1 < NumBytes - 1
      <4> DEFINE e == k * q
      <4>1. e \in Nat /\ e < NumBytes
        BY <2>2, <2>4, <2>5
      <4> HIDE DEF e
      <4>2. e - 1 < NumBytes - 1
        BY <1>1, <4>1
      <4> QED
        BY <4>2 DEF e
    <3>6. ByteAt(bytes, k * q - 1) = ByteOf(w, (k * q - 1) + 1)
      BY <1>4, <2>4, <3>5
    <3> QED
      BY <2>4, <2>5, <3>4, <3>6
  <2>6. CASE ~(k < n)
    <3>1. k = n
      BY <1>1, <2>1, <2>6
    <3>2. k * q = NumBytes /\ ~(k * q - 1 < NumBytes - 1)
      BY <1>1, <3>1
    <3>3. ByteAt(bytes, k * q - 1) = 0
      BY <1>4, <2>4, <3>2
    <3> QED
      BY <2>6, <3>3
  <2> QED
    BY <2>5, <2>6
<1>7. ASSUME NEW k \in 1 .. n
      PROVE  BytesToNative(bytes)[k] = w[k] \div D + top(k) * (Base \div D)
  <2>1. \A j \in 1 .. q : ByteAt(bytes, k * q - j) \in Nat
    <3>1. SUFFICES ASSUME NEW j \in 1 .. q PROVE ByteAt(bytes, k * q - j) \in Nat
      OBVIOUS
    <3>2. CASE j = 1
      <4>1. ByteAt(bytes, k * q - 1) = top(k) /\ top(k) \in Nat
        BY <1>6
      <4> QED
        BY <3>2, <4>1
    <3>3. CASE j # 1
      <4>1. j \in 2 .. q
        BY <1>1, <3>3
      <4>2. /\ ByteAt(bytes, k * q - j) = (w[k] \div p[q - j + 1]) % D
            /\ (w[k] \div p[q - j + 1]) % D \in Nat
        BY <1>5, <4>1
      <4> QED
        BY <4>2
    <3> QED
      BY <3>2, <3>3
  <2>2. PICK h : /\ h[0] = 0
                 /\ \A j \in 1 .. q : h[j] = h[j - 1] * D + ByteAt(bytes, k * q - j)
                 /\ BytesToNative(bytes)[k] = h[q]
    BY <2>1, NativeWord
  <2> DEFINE x == w[k]
             y == x \div D
             t == top(k)
             r == q - 1
             g == [j \in 0 .. r |-> h[j + 1]]
  <2>3. x \in Nat /\ x < p[q]
    <3>1. 0 \in 0 .. q - 1
      BY <1>1
    <3> QED
      BY <3>1, ByteOfExact
  <2>4. t \in Nat /\ ByteAt(bytes, k * q - 1) = t
    BY <1>6
  <2>5. r \in Nat /\ q = r + 1
    BY <1>1
  <2>6. h[1] = t
    <3>1. 1 \in 1 .. q
      BY <1>1
    <3>2. h[1] = h[1 - 1] * D + ByteAt(bytes, k * q - 1)
      BY <2>2, <3>1
    <3>3. 1 - 1 = 0 /\ 0 * D = 0
      BY <1>1
    <3> HIDE DEF t
    <3> QED
      BY <2>2, <2>4, <3>2, <3>3
  <2> HIDE DEF r, t
  <2>7. g[0] = t /\ g[r] = h[q]
    <3>1. 0 \in 0 .. r /\ r \in 0 .. r /\ 0 + 1 = 1
      BY <2>5
    <3> QED
      BY <2>5, <2>6, <3>1
  <2>8. /\ p[q] = D * p[r] /\ Base = D * p[r] /\ p[r] \in Nat \ {0}
        /\ \A j \in Nat : p[j] \in Nat \ {0} /\ p[j + 1] = D * p[j]
    BY <2>5, ByteFacts
  <2>9. y \in Nat /\ y < p[r]
    <3> DEFINE m == p[r]
               z == x % D
    <3> HIDE DEF x
    <3>1. y \in Nat /\ z \in 0 .. D - 1 /\ D * y + z = x
      BY <1>1, <2>3, Parts
    <3>2. m \in Nat /\ x < D * m /\ D * m \in Nat
      BY <1>1, <2>3, <2>8
    <3> HIDE DEF y, z, m
    <3>3. y < m
      <4>1. SUFFICES ASSUME y >= m PROVE FALSE
        BY <3>1, <3>2
      <4>2. D * y >= D * m /\ D * y \in Nat
        BY <1>1, <3>1, <3>2, <4>1, TimesMonotone
      <4> DEFINE e == D * y
                 f == D * m
      <4>3. e >= f /\ e \in Nat /\ f \in Nat /\ x < f /\ e + z = x
        BY <3>1, <3>2, <4>2
      <4> HIDE DEF e, f
      <4> QED
        BY <1>1, <3>1, <4>3
    <3> QED
      BY <3>1, <3>3 DEF m
  <2>10. \A j \in 1 .. r : g[j] = g[j - 1] * D + ((y \div p[r - j]) % D)
    <3>1. SUFFICES ASSUME NEW j \in 1 .. r
                   PROVE  g[j] = g[j - 1] * D + ((y \div p[r - j]) % D)
      OBVIOUS
    <3>2. j + 1 \in 2 .. q /\ j + 1 \in 1 .. q /\ (j + 1) - 1 = j /\ (j - 1) + 1 = j
          /\ j \in 0 .. r /\ j - 1 \in 0 .. r /\ q - (j + 1) + 1 = (r - j) + 1 /\ r - j \in Nat
      BY <2>5
    <3>3. g[j] = h[j + 1] /\ g[j - 1] = h[j]
      BY <3>2
    <3> HIDE DEF g
    <3>4. h[j + 1] = h[j] * D + ByteAt(bytes, k * q - (j + 1))
      BY <2>2, <3>2
    <3>5. ByteAt(bytes, k * q - (j + 1)) = (x \div p[(r - j) + 1]) % D
      <4>1. ByteAt(bytes, k * q - (j + 1)) = (w[k] \div p[q - (j + 1) + 1]) % D
        BY <1>5, <3>2
      <4> QED
        BY <3>2, <4>1
    <3>6. x \div p[(r - j) + 1] = y \div p[r - j]
      <4> DEFINE m == p[r - j]
      <4>1. m \in Nat \ {0} /\ p[(r - j) + 1] = m * D
        <5>1. m \in Nat \ {0} /\ p[(r - j) + 1] = D * m
          BY <2>8, <3>2
        <5>2. D * m = m * D
          BY <1>1, <5>1
        <5> QED
          BY <5>1, <5>2
      <4> HIDE DEF m, x
      <4>2. x \div (m * D) = (x \div D) \div m
        BY <1>1, <2>3, <4>1, DivDiv
      <4> QED
        BY <4>1, <4>2 DEF m
    <3> QED
      BY <3>3, <3>4, <3>5, <3>6
  <2> HIDE DEF g, y
  <2>11. g[r] = t * p[r] + y
    <3> HIDE DEF D
    <3> QED
      BY <1>1, <2>4, <2>5, <2>7, <2>9, <2>10, Horner
  <2>12. Base \div D = p[r]
    <3> DEFINE m == p[r]
    <3>1. m \in Nat /\ Base = D * m
      BY <2>8
    <3> HIDE DEF m, D
    <3>3. Base = D * m + 0 /\ 0 \in 0 .. D - 1
      BY <1>1, <3>1
    <3>2. (D * m + 0) \div D = m
      BY <1>1, <3>1, <3>3, DivUnique
    <3> QED
      BY <3>2, <3>3 DEF m
  <2>13. t * p[r] \in Nat
    <3> DEFINE m == p[r]
    <3>1. m \in Nat
      BY <2>8
    <3> HIDE DEF m
    <3>2. t * m \in Nat
      BY <2>4, <3>1
    <3> QED
      BY <3>2 DEF m
  <2>14. t * p[r] + y = y + t * p[r]
    BY <2>9, <2>13
  <2> QED
    BY <2>2, <2>7, <2>11, <2>12, <2>14 DEF y, t
<1>8. BytesToNative(bytes) = [k \in 1 .. n |-> BytesToNative(bytes)[k]]
  BY NativeWords
<1>9. ASSUME NEW k \in 1 .. n
      PROVE  ShiftedBy(w, D, n)[k] = w[k] \div D + top(k) * (Base \div D)
  <2>1. Base \div D \in Nat
    BY <1>1, BaseEven, Parts
  <2>2. 0 * (Base \div D) = 0
    BY <2>1
  <2> QED
    BY <2>2 DEF ShiftedBy
<1>10. ShiftedBy(w, D, n) = [k \in 1 .. n |-> ShiftedBy(w, D, n)[k]]
  BY DEF ShiftedBy
<1> QED
  BY <1>7, <1>8, <1>9, <1>10

-----------------------------------------------------------------------------
(* A call returns the number it is to return.                              *)

(* Sums, differences, products and comparisons.                            *)
LEMMA CallArithmeticExact ==
  ASSUME NEW l \in Numbers256, NEW r \in Numbers256, CallArithmetic(l, r)
  PROVE  ArithmeticExact'
<1>1. NumWords \in Nat /\ NumWords \in 1 .. Base
  BY VliAssumption, BaseEven
<1>2. CASE Call("add", l, r, Returned(Add(l, r).words, Add(l, r).carry))
  <2>1. /\ op' = "add" /\ left' = l /\ right' = r
        /\ out' = [words |-> Add(l, r).words, flag |-> Add(l, r).carry]
    BY <1>2 DEF Call, Returned
  <2>2. Value(Add(l, r).words) + Add(l, r).carry * Full = Value(l) + Value(r)
    BY WordOperations
  <2>3. out'.words = Add(l, r).words /\ out'.flag = Add(l, r).carry
    BY <2>1
  <2> QED
    BY <2>1, <2>2, <2>3 DEF ArithmeticExact
<1>3. CASE Call("sub", l, r, Returned(Sub(l, r).words, Sub(l, r).carry))
  <2>1. /\ op' = "sub" /\ left' = l /\ right' = r
        /\ out' = [words |-> Sub(l, r).words, flag |-> Sub(l, r).carry]
    BY <1>3 DEF Call, Returned
  <2>2. Value(Sub(l, r).words) - Sub(l, r).carry * Full = Value(l) - Value(r)
    BY WordOperations
  <2>3. out'.words = Sub(l, r).words /\ out'.flag = Sub(l, r).carry
    BY <2>1
  <2> QED
    BY <2>1, <2>2, <2>3 DEF ArithmeticExact
<1>4. CASE Call("mult", l, r, Returned(Mult(l, r), 0))
  <2>1. /\ op' = "mult" /\ left' = l /\ right' = r
        /\ out' = [words |-> Mult(l, r), flag |-> 0]
    BY <1>4 DEF Call, Returned
  <2>2. Value(Mult(l, r)) = Value(l) * Value(r)
    BY <1>1, MultExact DEF Numbers256
  <2>3. out'.words = Mult(l, r)
    BY <2>1
  <2> QED
    BY <2>1, <2>2, <2>3 DEF ArithmeticExact
<1>5. CASE Call("cmp", l, r, Returned(Zero, <<Cmp(l, r), CmpUnsafe(l, r), Equal(l, r)>>))
  <2> DEFINE x == Value(l)
             y == Value(r)
             order == IF x = y THEN 0 ELSE IF x > y THEN 1 ELSE -1
             e == Equal(l, r)
             f == order = 0
  <2>1. op' = "cmp" /\ left' = l /\ right' = r /\ out'.flag = <<Cmp(l, r), CmpUnsafe(l, r), e>>
    BY <1>5 DEF Call, Returned
  <2>2. Cmp(l, r) = order /\ CmpUnsafe(l, r) = order
    BY <1>1, CmpExact, CmpUnsafeExact DEF Numbers256
  <2>3. e = f
    <3>1. e <=> x = y
      BY LocalOperations
    <3>2. f <=> x = y
      OBVIOUS
    <3>3. e \in BOOLEAN /\ f \in BOOLEAN
      BY DEF Equal
    <3> QED
      BY <3>1, <3>2, <3>3
  <2> HIDE DEF e
  <2>4. out'.flag = <<order, order, f>>
    BY <2>1, <2>2, <2>3
  <2>5. <<order, order, f>> = <<order, order, order = 0>>
    OBVIOUS
  <2> QED
    BY <2>1, <2>4, <2>5 DEF ArithmeticExact
<1>6. \/ Call("add", l, r, Returned(Add(l, r).words, Add(l, r).carry))
      \/ Call("sub", l, r, Returned(Sub(l, r).words, Sub(l, r).carry))
      \/ Call("mult", l, r, Returned(Mult(l, r), 0))
      \/ Call("cmp", l, r, Returned(Zero, <<Cmp(l, r), CmpUnsafe(l, r), Equal(l, r)>>))
  BY DEF CallArithmetic
<1> QED
  BY <1>2, <1>3, <1>4, <1>5, <1>6

(* A product that p divides is zero.                                       *)
LEMMA FieldProduct ==
  ASSUME NEW l \in Numbers256, NEW r \in Numbers256, Value(l) < P, Value(r) < P,
         (Value(l) * Value(r)) % P = 0
  PROVE  Value(l) * Value(r) = 0
<1> DEFINE x == Value(l)
           y == Value(r)
<1>1. x \in Nat /\ y \in Nat /\ x < P /\ y < P /\ P \in Nat
  BY LocalOperations, Moduli
<1>2. \A d \in 2 .. P - 1 : P % d # 0
  BY ModuliPrime
<1> HIDE DEF x, y
<1>3. SUFFICES ASSUME x # 0, y # 0 PROVE (x * y) % P # 0
  <2>1. CASE x = 0
    <3>1. 0 * y = 0
      BY <1>1
    <3> QED
      BY <2>1, <3>1 DEF x, y
  <2>2. CASE y = 0
    <3>1. x * 0 = 0
      BY <1>1
    <3> QED
      BY <2>2, <3>1 DEF x, y
  <2>3. CASE x # 0 /\ y # 0
    BY <2>3 DEF x, y
  <2> QED
    BY <2>1, <2>2, <2>3
<1>4. x \in 1 .. P - 1 /\ y \in 1 .. P - 1
  BY <1>1, <1>3
<1> QED
  BY <1>1, <1>2, <1>4, PrimeProduct

(* The arithmetic modulo p and modulo n.                                   *)
LEMMA CallModularExact ==
  ASSUME NEW l \in Numbers256, NEW r \in Numbers256, CallModular(l, r)
  PROVE  ArithmeticExact'
<1> DEFINE x == Value(l)
           y == Value(r)
           m == Number(P)
           k == Number(Order)
<1>1. NumWords \in Nat /\ NumWords \in 1 .. Base
  BY VliAssumption, BaseEven
<1>2. m \in Numbers256 /\ Value(m) = P
  BY FoldSizes
<1>3. Mult(l, r) \in WordsOf(2 * NumWords) /\ Value(Mult(l, r)) = x * y
  BY <1>1, MultExact DEF Numbers256
<1> HIDE DEF m, k
<1>4. CASE y < P /\ Call("modAdd", l, r, Returned(ModAdd(l, r, m), 0))
  <2>1. op' = "modAdd" /\ left' = l /\ right' = r /\ out'.words = ModAdd(l, r, m)
    BY <1>4 DEF Call, Returned
  <2>2. /\ Value(ModAdd(l, r, m)) % P = (x + y) % P
        /\ x < P => Value(ModAdd(l, r, m)) < P
    BY <1>2, <1>4, ModAddExact
  <2> QED
    BY <2>1, <2>2 DEF ArithmeticExact
<1>5. CASE x < P /\ y < P /\ Call("modSub", l, r, Returned(ModSub(l, r, m), 0))
  <2>1. op' = "modSub" /\ left' = l /\ right' = r /\ out'.words = ModSub(l, r, m)
    BY <1>5 DEF Call, Returned
  <2>2. Value(ModSub(l, r, m)) = (x - y) % P
    BY <1>2, <1>5, ModSubExact
  <2> QED
    BY <2>1, <2>2 DEF ArithmeticExact
<1>6. CASE x < P /\ y < P /\ Call("modMultFast", l, r, Returned(ModMultFast(l, r), 0))
  <2>1. op' = "modMultFast" /\ left' = l /\ right' = r /\ out'.words = ModMultFast(l, r)
    BY <1>6 DEF Call, Returned
  <2> DEFINE w == Mult(l, r)
  <2>2. Value(w) % P = 0 => Value(w) = 0
    BY <1>3, <1>6, FieldProduct
  <2>3. w \in WordsOf(2 * NumWords) /\ Value(w) = x * y
    BY <1>3
  <2> HIDE DEF w
  <2>4. Value(MmodFast(w)) = IF Folded(Value(w)) \in Full + P .. 2 * Full - 1
                             THEN (Value(w) % P) - (Full - P) ELSE Value(w) % P
    BY <2>2, <2>3, MmodFastExact
  <2>5. Value(ModMultFast(l, r)) = IF Folded(x * y) \in Full + P .. 2 * Full - 1
                                   THEN ((x * y) % P) - (Full - P) ELSE (x * y) % P
    BY <2>3, <2>4 DEF ModMultFast, w
  <2> QED
    BY <2>1, <2>5 DEF ArithmeticExact
<1>7. CASE Call("modMult", l, r, Returned(ModMult(l, r, k), 0))
  <2>1. op' = "modMult" /\ left' = l /\ right' = r /\ out'.words = ModMult(l, r, k)
    BY <1>7 DEF Call, Returned
  <2>2. Value(ModMult(l, r, k)) = (x * y) % Order
    BY <1>3, MmodExact DEF ModMult, k
  <2> QED
    BY <2>1, <2>2 DEF ArithmeticExact
<1>8. \/ y < P /\ Call("modAdd", l, r, Returned(ModAdd(l, r, m), 0))
      \/ x < P /\ y < P /\ Call("modSub", l, r, Returned(ModSub(l, r, m), 0))
      \/ x < P /\ y < P /\ Call("modMultFast", l, r, Returned(ModMultFast(l, r), 0))
      \/ Call("modMult", l, r, Returned(ModMult(l, r, k), 0))
  BY DEF CallModular, m, k
<1> QED
  BY <1>4, <1>5, <1>6, <1>7, <1>8

(* Shifts, bit counts and byte strings.                                    *)
LEMMA CallBitsExact ==
  ASSUME NEW w \in Numbers256, CallBits(w)
  PROVE  ArithmeticExact'
<1> DEFINE x == Value(w)
           bytes == NativeToBytes(w)
           sent(size) == [k \in 1 .. size |-> IF k <= NumBytes THEN bytes[k] ELSE 1]
<1>1. NumWords \in Nat \ {0} /\ NumWords \in Nat
  BY VliAssumption, BaseEven
<1>2. CASE Call("rshift1", w, w, Returned(Rshift1(w), NumBits(w)))
  <2>1. /\ op' = "rshift1" /\ left' = w /\ right' = w
        /\ out'.words = Rshift1(w) /\ out'.flag = NumBits(w)
    BY <1>2 DEF Call, Returned
  <2>2. Value(Rshift1(w)) = x \div 2
    BY LocalOperations
  <2>3. x < Power(2)[NumBits(w)] /\ (x > 0 => x >= Power(2)[NumBits(w) - 1])
    BY <1>1, NumBitsExact DEF Numbers256
  <2> QED
    BY <2>1, <2>2, <2>3 DEF ArithmeticExact
<1>3. ASSUME NEW size \in NumBytes - 1 .. NumBytes + 1,
             Call("bytes", w, w, Returned(Bits2int(sent(size)), size))
      PROVE  ArithmeticExact'
  <2> DEFINE len == IF size > NumBytes THEN NumBytes ELSE size
             taken == [k \in 1 .. len |-> sent(size)[k]]
  <2>1. /\ op' = "bytes" /\ left' = w /\ right' = w
        /\ out'.words = Bits2int(sent(size)) /\ out'.flag = size
    BY <1>3 DEF Call, Returned
  <2>2. /\ NumBytes \in Nat /\ ByteModulus \in Nat \ {0} /\ BytesPerWord \in Nat \ {0}
        /\ \A k \in Nat : /\ Power(ByteModulus)[k] \in Nat \ {0}
                          /\ Power(ByteModulus)[k + 1] = ByteModulus * Power(ByteModulus)[k]
        /\ Base = Power(ByteModulus)[BytesPerWord]
    BY ByteFacts
  <2>3. size \in Nat \/ (NumBytes = 0 /\ size = -1)
    BY <2>2
  <2>4. NumBytes # 0
    <3>1. 1 \in 1 .. NumWords /\ 0 \in 0 .. BytesPerWord - 1
      BY <1>1, <2>2
    <3>2. (1 - 1) * BytesPerWord + 0 \in 0 .. NumBytes - 1
      BY <3>1, Places
    <3> QED
      BY <2>2, <3>2
  <2>5. size \in Nat /\ len \in Nat /\ len <= NumBytes
    BY <2>2, <2>3, <2>4
  <2>6. Bits2int(sent(size)) = BytesToNative(taken)
    <3>1. Len(sent(size)) = size
      BY <2>5
    <3> HIDE DEF sent
    <3> QED
      BY <3>1 DEF Bits2int
  <2>7. taken = [k \in 1 .. len |-> bytes[k]]
    <3>1. ASSUME NEW k \in 1 .. len PROVE sent(size)[k] = bytes[k]
      <4>1. k \in 1 .. size /\ k <= NumBytes
        BY <2>2, <2>5
      <4> QED
        BY <4>1
    <3> QED
      BY <3>1
  <2> HIDE DEF taken, sent
  <2>8. CASE size < NumBytes
    <3>1. len = NumBytes - 1
      BY <2>2, <2>5, <2>8
    <3>2. taken = [k \in 1 .. NumBytes - 1 |-> NativeToBytes(w)[k]]
      BY <2>7, <3>1
    <3>3. BytesToNative(taken) = ShiftedBy(w, ByteModulus, NumWords)
      BY <3>2, FewerBytesExact
    <3> DEFINE D == ByteModulus
               H == Power(D)[BytesPerWord - 1]
               n == NumWords
    <3>4. D \in Nat \ {0} /\ H \in Nat \ {0} /\ Base = D * H
      <4>1. BytesPerWord - 1 \in Nat /\ (BytesPerWord - 1) + 1 = BytesPerWord
        BY <2>2
      <4> QED
        BY <2>2, <4>1
    <3> HIDE DEF D, H
    <3>5. Value(ShiftedBy(w, D, n)) = x \div D
      <4>1. n \in Nat \ {0} /\ w \in WordsOf(n)
        BY <1>1 DEF Numbers256
      <4> HIDE DEF n
      <4> QED
        BY <3>4, <4>1, ShiftExact
    <3>6. Value(out'.words) = x \div ByteModulus
      BY <2>1, <2>6, <3>3, <3>5 DEF D
    <3> QED
      BY <2>1, <2>8, <3>6 DEF ArithmeticExact
  <2>9. CASE ~(size < NumBytes)
    <3>1. len = NumBytes
      BY <2>2, <2>5, <2>9
    <3>2. taken = NativeToBytes(w)
      BY <2>7, <3>1 DEF NativeToBytes
    <3>3. BytesToNative(taken) = w
      BY <3>2, BytesExact
    <3>4. Value(out'.words) = x
      BY <2>1, <2>6, <3>3
    <3> QED
      BY <2>1, <2>9, <3>4 DEF ArithmeticExact
  <2> QED
    BY <2>8, <2>9
<1>4. \/ Call("rshift1", w, w, Returned(Rshift1(w), NumBits(w)))
      \/ \E size \in NumBytes - 1 .. NumBytes + 1 :
           Call("bytes", w, w, Returned(Bits2int(sent(size)), size))
  BY DEF CallBits
<1> QED
  BY <1>2, <1>3, <1>4

(* Every operation on words returns the number it stands for: what         *)
(* ArithmeticExact says of each, for every size of the words and numbers.  *)
THEOREM ArithmeticIsExact == VliSpec => []ArithmeticExact
<1>1. VliInit => ArithmeticExact
  BY DEF VliInit, ArithmeticExact
<1>2. ArithmeticExact /\ [VliNext]_vliVars => ArithmeticExact'
  <2> SUFFICES ASSUME ArithmeticExact, [VliNext]_vliVars PROVE ArithmeticExact'
    OBVIOUS
  <2>1. \A x \in Operands : Number(x) \in Numbers256
    BY VliAssumption, NumberExact
  <2>2. ASSUME NEW l \in Operands, NEW r \in Operands,
               CallArithmetic(Number(l), Number(r)) \/ CallModular(Number(l), Number(r))
        PROVE  ArithmeticExact'
    <3>1. Number(l) \in Numbers256 /\ Number(r) \in Numbers256
      BY <2>1
    <3> QED
      BY <2>2, <3>1, CallArithmeticExact, CallModularExact
  <2>3. ASSUME NEW x \in Operands, CallBits(Number(x)) PROVE ArithmeticExact'
    <3>1. Number(x) \in Numbers256
      BY <2>1
    <3> QED
      BY <2>3, <3>1, CallBitsExact
  <2>4. CASE CallReturns
    <3>1. op' = "none"
      BY <2>4 DEF CallReturns
    <3> QED
      BY <3>1 DEF ArithmeticExact
  <2>5. CASE UNCHANGED callVars
    BY <2>5 DEF callVars, ArithmeticExact
  <2>6. ASSUME NEW x \in Operands, NEW m \in {P, Order}, ModInvCall(Number(x), Number(m))
        PROVE  UNCHANGED callVars
    BY <2>6 DEF ModInvCall
  <2>7. InverseStep \/ ModInvReturns => UNCHANGED callVars
    BY DEF InverseStep, HalveA, HalveB, SubtractA, SubtractB, LoopEnds, ModInvReturns
  <2>8. UNCHANGED vliVars => UNCHANGED callVars
    BY DEF vliVars, callVars
  <2> QED
    BY <2>2, <2>3, <2>4, <2>5, <2>6, <2>7, <2>8 DEF VliNext
<1> QED
  BY <1>1, <1>2, PTL DEF VliSpec
=============================================================================
