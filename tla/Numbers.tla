------------------------------ MODULE Numbers ------------------------------
(***************************************************************************)
(* Natural numbers, as the proofs need them: induction, functions that are *)
(* defined by recursion, quotients and remainders.                         *)
(*                                                                         *)
(* The induction theorems of the library take an operator, and no prover   *)
(* installed can instantiate it. Here a set takes its place: what holds of *)
(* a number is membership in { n \in Nat : ... }.                          *)
(***************************************************************************)
EXTENDS Integers, WellFoundedInduction, TLAPS

(* Every set of natural numbers has a least one.                           *)
LEMMA Least ==
  ASSUME NEW T \in SUBSET Nat, T # {}
  PROVE \E x \in T : \A y \in T : x <= y
<1>1. \E x \in T : \A y \in T : ~(<<y, x>> \in OpToRel(<, Nat))
  BY WFMin, NatLessThanWellFounded
<1>2. ASSUME NEW x \in Nat, NEW y \in Nat, ~(<<y, x>> \in OpToRel(<, Nat))
      PROVE  x <= y
  BY <1>2 DEF OpToRel
<1> DEFINE Below == OpToRel(<, Nat)
<1> HIDE DEF Below
<1>3. \E x \in T : \A y \in T : ~(<<y, x>> \in Below)
  BY <1>1 DEF Below
<1>4. \A x, y \in Nat : ~(<<y, x>> \in Below) => x <= y
  BY <1>2 DEF Below
<1> QED
  BY <1>3, <1>4

(* Every set that is bounded has a greatest one.                           *)
LEMMA Greatest ==
  ASSUME NEW n \in Nat, NEW T \in SUBSET (0 .. n), T # {}
  PROVE  \E x \in T : \A y \in T : x >= y
<1> DEFINE U == {k \in Nat : n - k \in T}
<1>1. PICK t \in T : TRUE
  OBVIOUS
<1>2. n - t \in U /\ U \in SUBSET Nat
  BY <1>1
<1> HIDE DEF U
<1>3. PICK k \in U : \A j \in U : k <= j
  BY <1>2, Least
<1>4. n - k \in T /\ k \in Nat
  BY DEF U
<1>5. ASSUME NEW y \in T PROVE n - k >= y
  <2>1. n - y \in U /\ y \in Nat
    BY DEF U
  <2> QED
    BY <1>3, <1>4, <2>1
<1> QED
  BY <1>4, <1>5

(* Induction.                                                              *)
LEMMA Induct ==
  ASSUME NEW T \in SUBSET Nat, 0 \in T, \A k \in T : k + 1 \in T
  PROVE  T = Nat
<1>1. SUFFICES ASSUME Nat \ T # {} PROVE FALSE
  OBVIOUS
<1>2. PICK x \in Nat \ T : \A y \in Nat \ T : x <= y
  BY <1>1, Least
<1>3. x - 1 \in T
  BY <1>2
<1> QED BY <1>2, <1>3

(* Induction up to a bound.                                                *)
LEMMA InductUpto ==
  ASSUME NEW n \in Nat, NEW T \in SUBSET Nat, 0 \in T,
         \A k \in T : k < n => k + 1 \in T
  PROVE  \A k \in 0 .. n : k \in T
<1> DEFINE U == {k \in Nat : k <= n => k \in T}
<1>1. U \in SUBSET Nat /\ 0 \in U
  OBVIOUS
<1>2. ASSUME NEW k \in U PROVE k + 1 \in U
  OBVIOUS
<1> HIDE DEF U
<1>3. U = Nat
  BY <1>1, <1>2, Induct
<1> QED
  BY <1>3 DEF U

-----------------------------------------------------------------------------
(* Functions defined by recursion.                                         *)

Follows(f, s0, step) == f[0] = s0 /\ \A k \in Nat : f[k + 1] = step[k][f[k]]

(* There is a function with a given first value and a given step.          *)
LEMMA Recursion ==
  ASSUME NEW S, NEW s0 \in S, NEW step \in [Nat -> [S -> S]]
  PROVE  \E f \in [Nat -> S] : Follows(f, s0, step)
<1> DEFINE Upto(m, g) == /\ g \in [0 .. m -> S] /\ g[0] = s0
                         /\ \A k \in 0 .. m - 1 : g[k + 1] = step[k][g[k]]
           T == {m \in Nat : \E g \in [0 .. m -> S] : Upto(m, g)}
<1>1. 0 \in T
  <2> DEFINE g == [k \in 0 .. 0 |-> s0]
  <2>1. Upto(0, g) /\ g \in [0 .. 0 -> S]
    OBVIOUS
  <2> QED BY <2>1
<1>2. ASSUME NEW m \in T PROVE m + 1 \in T
  <2>1. PICK g \in [0 .. m -> S] : Upto(m, g)
    OBVIOUS
  <2> DEFINE h == [k \in 0 .. m + 1 |-> IF k = m + 1 THEN step[m][g[m]] ELSE g[k]]
  <2>2. m \in Nat /\ step[m][g[m]] \in S
    OBVIOUS
  <2>3. h \in [0 .. m + 1 -> S] /\ h[0] = s0
    BY <2>1, <2>2
  <2>4. ASSUME NEW k \in 0 .. m + 1 - 1 PROVE h[k + 1] = step[k][h[k]]
    BY <2>1, <2>2
  <2>5. Upto(m + 1, h)
    <3> HIDE DEF h
    <3> QED BY <2>3, <2>4
  <2> HIDE DEF h, Upto
  <2> QED BY <2>2, <2>3, <2>5
<1>3. T = Nat
  <2> HIDE DEF T
  <2>1. T \in SUBSET Nat BY DEF T
  <2> QED BY <2>1, <1>1, <1>2, Induct
<1> DEFINE G == [m \in Nat |-> CHOOSE g \in [0 .. m -> S] : Upto(m, g)]
<1>4. ASSUME NEW m \in Nat PROVE G[m] \in [0 .. m -> S] /\ Upto(m, G[m])
  <2> HIDE DEF Upto
  <2>1. \E g \in [0 .. m -> S] : Upto(m, g)
    BY <1>3
  <2> QED BY <2>1
<1> DEFINE U == {m \in Nat : \A g \in [0 .. m + 1 -> S] : Upto(m + 1, g) => g[m] = G[m][m]}
<1>5. ASSUME NEW m \in Nat PROVE G[m + 1][m] = G[m][m]
  <2> DEFINE V == {k \in Nat : k <= m => G[m + 1][k] = G[m][k]}
  <2> HIDE DEF G
  <2>1. 0 \in V
    BY <1>4, m + 1 \in Nat
  <2>2. ASSUME NEW k \in V PROVE k + 1 \in V
    <3>1. k \in Nat /\ m + 1 \in Nat
      OBVIOUS
    <3>2. k + 1 <= m => G[m + 1][k + 1] = step[k][G[m + 1][k]]
      BY <1>4, <3>1
    <3>3. k + 1 <= m => G[m][k + 1] = step[k][G[m][k]]
      BY <1>4, <3>1
    <3> QED BY <3>1, <3>2, <3>3
  <2>3. V = Nat
    <3> HIDE DEF V
    <3>1. V \in SUBSET Nat BY DEF V
    <3> QED BY <3>1, <2>1, <2>2, Induct
  <2> QED BY <2>3
<1> DEFINE f == [k \in Nat |-> G[k][k]]
<1> HIDE DEF G
<1>6. f \in [Nat -> S] /\ f[0] = s0
  BY <1>4
<1>7. ASSUME NEW k \in Nat PROVE f[k + 1] = step[k][f[k]]
  <2>1. G[k + 1][k + 1] = step[k][G[k + 1][k]]
    BY <1>4, k + 1 \in Nat
  <2> QED BY <2>1, <1>5
<1> QED BY <1>6, <1>7 DEF Follows

Loops(f, n, s0, step) == f[0] = s0 /\ \A k \in 1 .. n : f[k] = step[k][f[k - 1]]

(* The same for the rounds of a loop.                                      *)
LEMMA LoopExists ==
  ASSUME NEW n \in Nat, NEW S, NEW s0 \in S, NEW step \in [1 .. n -> [S -> S]]
  PROVE  \E f \in [0 .. n -> S] : Loops(f, n, s0, step)
<1> DEFINE same == [s \in S |-> s]
           all == [k \in Nat |-> IF k < n THEN step[k + 1] ELSE same]
<1>1. all \in [Nat -> [S -> S]]
  <2>1. same \in [S -> S]
    OBVIOUS
  <2>2. ASSUME NEW k \in Nat, k < n PROVE step[k + 1] \in [S -> S]
    <3>1. k + 1 \in 1 .. n
      BY <2>2
    <3> QED
      BY <3>1
  <2> HIDE DEF same
  <2> QED
    BY <2>1, <2>2
<1>2. ASSUME NEW k \in 1 .. n PROVE k - 1 \in Nat /\ all[k - 1] = step[k] /\ (k - 1) + 1 = k
  OBVIOUS
<1> HIDE DEF all
<1>3. PICK f \in [Nat -> S] : Follows(f, s0, all)
  BY <1>1, Recursion
<1> DEFINE g == [k \in 0 .. n |-> f[k]]
<1>4. g \in [0 .. n -> S] /\ g[0] = s0
  BY <1>3 DEF Follows
<1>5. ASSUME NEW k \in 1 .. n PROVE g[k] = step[k][g[k - 1]]
  <2>1. f[(k - 1) + 1] = all[k - 1][f[k - 1]]
    BY <1>2, <1>3 DEF Follows
  <2>2. g[k] = f[k] /\ g[k - 1] = f[k - 1]
    OBVIOUS
  <2> QED
    BY <1>2, <2>1, <2>2
<1> HIDE DEF g
<1> QED
  BY <1>4, <1>5 DEF Loops

(* The values of a loop are of a type that its rounds keep.                *)
LEMMA LoopTyped ==
  ASSUME NEW n \in Nat, NEW S, NEW f, f = [k \in 0 .. n |-> f[k]], f[0] \in S,
         \A k \in 1 .. n : f[k - 1] \in S => f[k] \in S
  PROVE  f \in [0 .. n -> S]
<1> DEFINE T == {k \in Nat : k <= n => f[k] \in S}
<1>1. T \in SUBSET Nat /\ 0 \in T
  OBVIOUS
<1>2. ASSUME NEW k \in T PROVE k + 1 \in T
  <2>1. ASSUME k + 1 <= n PROVE f[k + 1] \in S
    <3>1. k + 1 \in 1 .. n /\ (k + 1) - 1 = k /\ f[k] \in S
      BY <2>1
    <3>2. f[(k + 1) - 1] \in S => f[k + 1] \in S
      BY <3>1
    <3> QED
      BY <3>1, <3>2
  <2> QED
    BY <2>1
<1> HIDE DEF T
<1>3. T = Nat
  BY <1>1, <1>2, Induct
<1>4. \A k \in 0 .. n : f[k] \in S
  BY <1>3 DEF T
<1> QED
  BY <1>4

-----------------------------------------------------------------------------
(* Quotients and remainders.                                               *)

(* A quotient and a remainder are the only ones.                           *)
LEMMA QuotientUnique ==
  ASSUME NEW M \in Nat \ {0}, NEW q \in Int, NEW r \in 0 .. M - 1
  PROVE  /\ (M * q + r) \div M = q
         /\ (M * q + r) % M = r
<1> DEFINE x == M * q + r
           d == x \div M
           e == x % M
<1>1. d \in Int /\ e \in 0 .. M - 1 /\ x = M * d + e
  OBVIOUS
<1> HIDE DEF d, e
<1>2. /\ M * (q - d) = e - r /\ M * (d - q) = r - e
      /\ q - d \in Int /\ d - q \in Int
  BY <1>1
<1>3. ASSUME NEW k \in Int, k >= 1
      PROVE  M * k >= M
  BY <1>3
<1>4. ~(q - d >= 1) /\ ~(d - q >= 1)
  BY <1>1, <1>2, <1>3
<1>5. q = d
  BY <1>1, <1>4
<1>6. d = q /\ e = r
  BY <1>1, <1>5
<1> QED
  BY <1>6 DEF d, e

(* The same for natural numbers.                                           *)
LEMMA DivUnique ==
  ASSUME NEW M \in Nat \ {0}, NEW q \in Nat, NEW r \in 0 .. M - 1
  PROVE  /\ (M * q + r) \div M = q
         /\ (M * q + r) % M = r
<1>1. q \in Int
  OBVIOUS
<1> QED
  BY <1>1, QuotientUnique

(* What is left over of whole multiples is the remainder.                  *)
LEMMA ModUnique ==
  ASSUME NEW M \in Nat \ {0}, NEW x \in Int, NEW q \in Int, NEW r \in 0 .. M - 1,
         x = M * q + r
  PROVE  x % M = r
<1>1. (M * q + r) % M = r
  BY QuotientUnique
<1> QED
  BY <1>1

(* Adding whole multiples changes no remainder.                            *)
LEMMA ModTurns ==
  ASSUME NEW M \in Nat \ {0}, NEW x \in Int, NEW q \in Int
  PROVE  (x + M * q) % M = x % M
<1> DEFINE d == x \div M
           r == x % M
<1>1. d \in Int /\ r \in 0 .. M - 1 /\ x = M * d + r
  OBVIOUS
<1> HIDE DEF d, r
<1>2. x + M * q = M * (d + q) + r /\ d + q \in Int /\ x + M * q \in Int
  BY <1>1
<1>3. (x + M * q) % M = r
  BY <1>1, <1>2, ModUnique
<1> QED
  BY <1>3 DEF r

(* A remainder may be taken before adding or after.                        *)
LEMMA ModPlus ==
  ASSUME NEW M \in Nat \ {0}, NEW x \in Int, NEW y \in Int
  PROVE  ((x % M) + y) % M = (x + y) % M
<1> DEFINE d == x \div M
<1>1. /\ d \in Int /\ -d \in Int /\ x % M = x - M * d /\ M * (-d) = -(M * d)
      /\ M * d \in Int
  OBVIOUS
<1> HIDE DEF d
<1>2. (x % M) + y = (x + y) + M * (-d)
  BY <1>1
<1>3. ASSUME NEW z \in Int
      PROVE  (z + M * (-d)) % M = z % M
  BY <1>1, ModTurns
<1> QED
  BY <1>2, <1>3

(* The same for what is subtracted.                                        *)
LEMMA ModMinus ==
  ASSUME NEW M \in Nat \ {0}, NEW x \in Int, NEW y \in Int
  PROVE  (x - (y % M)) % M = (x - y) % M
<1> DEFINE d == y \div M
<1>1. d \in Int /\ y % M = y - M * d /\ M * d \in Int
  OBVIOUS
<1> HIDE DEF d
<1>2. x - (y % M) = (x - y) + M * d
  BY <1>1
<1>3. ASSUME NEW z \in Int
      PROVE  (z + M * d) % M = z % M
  BY <1>1, ModTurns
<1> QED
  BY <1>2, <1>3

(* Two digits make a number below the square of the base, and one that is  *)
(* written with them.                                                      *)
LEMMA TwoDigits ==
  ASSUME NEW M \in Nat \ {0}, NEW N \in Nat \ {0}, NEW x \in 0 .. N - 1, NEW y \in 0 .. M - 1
  PROVE  /\ M * x + y \in 0 .. N * M - 1
         /\ (M * x + y) \div M = x
         /\ (M * x + y) % M = y
<1>1. x \in Nat /\ N - 1 - x \in Nat /\ M * (N - 1 - x) >= 0 /\ M * x >= 0
  OBVIOUS
<1>2. M * (N - 1 - x) = N * M - M - M * x
  OBVIOUS
<1>3. N * M \in Nat /\ M * x \in Nat
  OBVIOUS
<1>4. M * x + y \in 0 .. N * M - 1
  BY <1>1, <1>2, <1>3
<1> QED
  BY <1>4, DivUnique

(* The remainder and the quotient give the number back.                    *)
LEMMA Parts ==
  ASSUME NEW M \in Nat \ {0}, NEW n \in Nat
  PROVE  n \div M \in Nat /\ n % M \in 0 .. M - 1 /\ M * (n \div M) + (n % M) = n
<1> DEFINE d == n \div M
           e == n % M
<1>1. d \in Int /\ e \in 0 .. M - 1 /\ n = M * d + e
  OBVIOUS
<1> HIDE DEF d, e
<1>2. ASSUME NEW k \in Int, k >= 1
      PROVE  M * k >= M
  BY <1>2
<1>3. M * (-d) = -(M * d) /\ M * d \in Int /\ -d \in Int
  BY <1>1
<1>4. ~(-d >= 1)
  BY <1>1, <1>2, <1>3
<1>5. d \in Nat /\ e \in 0 .. M - 1 /\ M * d + e = n
  BY <1>1, <1>4
<1> QED
  BY <1>5 DEF d, e

(* Multiplying keeps the order.                                            *)
LEMMA TimesMonotone ==
  ASSUME NEW M \in Nat, NEW h \in Nat, NEW l \in Nat, h >= l
  PROVE  M * h >= M * l /\ M * h \in Nat /\ M * l \in Nat
<1>1. M * (h - l) >= 0 /\ M * (h - l) = M * h - M * l
  OBVIOUS
<1> QED
  BY <1>1

(* Dividing twice is dividing by the product.                              *)
LEMMA DivDiv ==
  ASSUME NEW M \in Nat \ {0}, NEW N \in Nat \ {0}, NEW n \in Nat
  PROVE  n \div (N * M) = (n \div M) \div N
<1> DEFINE q == n \div M
           r == n % M
           h == q \div N
           l == q % N
<1>1. q \in Nat /\ r \in 0 .. M - 1 /\ n = M * q + r
  OBVIOUS
<1> HIDE DEF q, r
<1>2. h \in Nat /\ l \in 0 .. N - 1 /\ q = N * h + l
  BY <1>1
<1> HIDE DEF h, l
<1>3. M * l + r \in 0 .. N * M - 1
  BY <1>1, <1>2, TwoDigits
<1>4. N * M \in Nat \ {0}
  OBVIOUS
<1>5. M * (N * h + l) = (N * M) * h + M * l
  BY <1>2
<1>6. n = (N * M) * h + (M * l + r)
  BY <1>1, <1>2, <1>3, <1>4, <1>5
<1>7. ((N * M) * h + (M * l + r)) \div (N * M) = h
  BY <1>2, <1>3, <1>4, DivUnique
<1> QED
  BY <1>6, <1>7 DEF h, q

(* A number on top of another one, above a digit.                          *)
LEMMA Regroup ==
  ASSUME NEW B \in Nat, NEW x \in Nat, NEW h \in Nat, NEW y \in Nat
  PROVE  /\ (B * x) * h + y * x = x * (B * h + y)
         /\ B * h + y \in Nat /\ (B * x) * h \in Nat /\ y * x \in Nat
         /\ x * (B * h + y) \in Nat
<1>1. (B * x) * h = x * (B * h)
  OBVIOUS
<1>2. y * x = x * y /\ y * x \in Nat
  OBVIOUS
<1>3. B * h \in Nat /\ B * x \in Nat
  OBVIOUS
<1>4. (B * x) * h \in Nat
  BY <1>3
<1>5. x * (B * h + y) = x * (B * h) + x * y
  BY <1>3
<1> QED
  BY <1>1, <1>2, <1>3, <1>4, <1>5
=============================================================================
