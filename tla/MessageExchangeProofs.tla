------------------------- MODULE MessageExchangeProofs -------------------------
(***************************************************************************)
(* Proofs about messages on their way, for integers of any two widths and  *)
(* for messages of any shape.                                              *)
(*                                                                         *)
(* The integers of every type and the packed lists of them are read as     *)
(* they were written.  A message takes exactly the bytes ByteSizeLong      *)
(* counts for it, which SliceIsFilled needs.  Induction is by the least    *)
(* counterexample: NatsIn for the numbers, Recursion for what is defined   *)
(* by recursion on them, and Unfold for messages in messages, by how many  *)
(* levels of messages are below.                                           *)
(***************************************************************************)
EXTENDS MessageExchange, TLAPS, FiniteSetTheorems, WellFoundedInduction

------------------------------------------------------------------------------
(* Induction and recursion over the natural numbers, from the fact that    *)
(* every set of natural numbers has a least element.                       *)

\* Every set of natural numbers has a least element.
LEMMA NatLeast ==
    ASSUME NEW T, T \subseteq Nat, T # {}
    PROVE  \E x \in T : \A y \in T : x <= y
<1> DEFINE R == OpToRel(<, Nat)
<1>1. IsWellFoundedOn(R, Nat) BY NatLessThanWellFounded
<1>2. \E x \in T : \A y \in T : ~(<<y, x>> \in R)
  <2> HIDE DEF R
  <2> QED BY <1>1, WFMin
<1>3. \A x \in Nat, y \in Nat : <<y, x>> \in R <=> y < x
  BY DEF OpToRel
<1> HIDE DEF R
<1>4. PICK x \in T : \A y \in T : ~(<<y, x>> \in R) BY <1>2
<1>5. \A y \in T : ~(y < x) BY <1>3, <1>4
<1> QED BY <1>5

\* Induction: a set with 0 and every successor of its members holds them all.
LEMMA NatsIn ==
    ASSUME NEW S, 0 \in S, \A n \in Nat : n \in S => n + 1 \in S
    PROVE  Nat \subseteq S
<1> SUFFICES ASSUME Nat \ S # {} PROVE FALSE OBVIOUS
<1>1. \E x \in Nat \ S : \A y \in Nat \ S : x <= y BY NatLeast
<1> PICK x \in Nat \ S : \A y \in Nat \ S : x <= y BY <1>1
<1>2. x # 0 /\ x - 1 \in Nat /\ (x - 1) + 1 = x OBVIOUS
<1>3. x - 1 \in S BY <1>2
<1> QED BY <1>2, <1>3

\* g computes the first n steps from a.
Good(S, a, step, n, g) ==
    g \in [0..n -> S] /\ g[0] = a /\ \A i \in 0..(n - 1) : g[i + 1] = step[i][g[i]]

\* Two computations agree as far as both go.
LEMMA GoodUnique ==
    ASSUME NEW S, NEW a \in S, NEW step \in [Nat -> [S -> S]],
           NEW n \in Nat, NEW m \in Nat, NEW g, NEW h,
           Good(S, a, step, n, g), Good(S, a, step, m, h),
           NEW k \in Nat, k <= n, k <= m
    PROVE  g[k] = h[k]
<1> DEFINE D == {i \in Nat : i <= n /\ i <= m => g[i] = h[i]}
<1>1. 0 \in D BY DEF Good
<1>2. ASSUME NEW i \in Nat, i \in D PROVE i + 1 \in D
  <2> SUFFICES ASSUME i + 1 <= n, i + 1 <= m PROVE g[i + 1] = h[i + 1] OBVIOUS
  <2>1. i \in 0..(n - 1) /\ i \in 0..(m - 1) /\ g[i] = h[i] BY <1>2
  <2> QED BY <2>1 DEF Good
<1> HIDE DEF D
<1>3. k \in D BY <1>1, <1>2, NatsIn
<1> QED BY <1>3 DEF D

\* There is a computation of every length.
LEMMA GoodExists ==
    ASSUME NEW S, NEW a \in S, NEW step \in [Nat -> [S -> S]], NEW k \in Nat
    PROVE  \E g : Good(S, a, step, k, g)
<1> DEFINE E == {n \in Nat : \E g : Good(S, a, step, n, g)}
<1>1. 0 \in E
  <2>1. Good(S, a, step, 0, [i \in 0..0 |-> a]) BY DEF Good
  <2> QED BY <2>1
<1>2. ASSUME NEW n \in Nat, n \in E PROVE n + 1 \in E
  <2> PICK g : Good(S, a, step, n, g) BY <1>2
  <2> DEFINE h == [i \in 0..(n + 1) |-> IF i <= n THEN g[i] ELSE step[n][g[n]]]
  <2>1. /\ g \in [0..n -> S]
        /\ g[0] = a
        /\ \A i \in 0..(n - 1) : g[i + 1] = step[i][g[i]]
    BY DEF Good
  <2>2. g[n] \in S /\ step[n][g[n]] \in S BY <2>1
  <2>3. h \in [0..(n + 1) -> S] BY <2>1, <2>2
  <2>4. h[0] = a BY <2>1
  <2>5. ASSUME NEW i \in 0..n PROVE h[i + 1] = step[i][h[i]]
    <3>1. CASE i = n BY <3>1
    <3>2. CASE i < n BY <3>2, <2>1
    <3> QED BY <3>1, <3>2
  <2> HIDE DEF h
  <2>6. (n + 1) - 1 = n OBVIOUS
  <2>7. Good(S, a, step, n + 1, h) BY <2>3, <2>4, <2>5, <2>6 DEF Good
  <2> QED BY <2>7
<1> HIDE DEF E
<1>3. k \in E BY <1>1, <1>2, NatsIn
<1> QED BY <1>3 DEF E

\* The functions that give the steps of a recursion with values in S, and what
\* it is to be the function they define.
Steps(S) == [Nat -> [S -> S]]
Computes(S, a, step, f) ==
    f \in [Nat -> S] /\ f[0] = a /\ \A n \in Nat : f[n + 1] = step[n][f[n]]

\* Recursion: a function with a given start and given steps exists.
LEMMA Recursion ==
    ASSUME NEW S, NEW a \in S, NEW step \in Steps(S)
    PROVE  \E f : Computes(S, a, step, f)
<1> USE DEF Steps
<1> DEFINE G(n) == CHOOSE g : Good(S, a, step, n, g)
           f == [n \in Nat |-> G(n)[n]]
<1>1. ASSUME NEW n \in Nat PROVE Good(S, a, step, n, G(n)) BY GoodExists
<1>2. f \in [Nat -> S]
  <2> SUFFICES ASSUME NEW n \in Nat PROVE G(n)[n] \in S OBVIOUS
  <2> HIDE DEF G
  <2> QED BY <1>1 DEF Good
<1> HIDE DEF G
<1>3. f[0] = a BY <1>1 DEF Good
<1>4. ASSUME NEW n \in Nat PROVE f[n + 1] = step[n][f[n]]
  <2>1. Good(S, a, step, n, G(n)) /\ Good(S, a, step, n + 1, G(n + 1)) BY <1>1
  <2>2. G(n + 1)[n] = G(n)[n] BY GoodUnique, <2>1
  <2>3. G(n + 1)[n + 1] = step[n][G(n + 1)[n]] BY <2>1 DEF Good
  <2> QED BY <2>2, <2>3
<1> HIDE DEF f
<1>5. Computes(S, a, step, f) BY <1>2, <1>3, <1>4 DEF Computes
<1> QED BY <1>5

------------------------------------------------------------------------------
(* Powers and digits.                                                      *)

\* Power(b)[n] is what its recursive definition says.
LEMMA PowerDef ==
    ASSUME NEW b \in Nat
    PROVE  /\ Power(b) \in [Nat -> Nat]
           /\ Power(b)[0] = 1
           /\ \A n \in Nat : Power(b)[n + 1] = b * Power(b)[n]
<1> DEFINE step == [n \in Nat |-> [x \in Nat |-> b * x]]
<1>1. step \in Steps(Nat) BY DEF Steps
<1>2. \E f : Computes(Nat, 1, step, f)
  <2> HIDE DEF step
  <2> QED BY <1>1, Recursion
<1> PICK f : Computes(Nat, 1, step, f)
  BY <1>2
<1> USE DEF Computes
<1>3. \A n \in Nat : f[n + 1] = b * f[n] OBVIOUS
<1> HIDE DEF step
<1>4. f = [n \in Nat |-> IF n = 0 THEN 1 ELSE b * f[n - 1]]
  <2>1. ASSUME NEW n \in Nat, n # 0 PROVE f[n] = b * f[n - 1]
    <3>1. n - 1 \in Nat /\ (n - 1) + 1 = n BY <2>1
    <3> QED BY <3>1, <1>3
  <2> QED BY <2>1
<1> DEFINE P == Power(b)
<1>5. P = [n \in Nat |-> IF n = 0 THEN 1 ELSE b * P[n - 1]]
  BY <1>4 DEF Power
<1> HIDE DEF P
<1>6. DOMAIN P = Nat /\ P[0] = 1 BY <1>5
<1>7. ASSUME NEW n \in Nat PROVE P[n + 1] = b * P[n]
  <2>1. n + 1 \in Nat /\ n + 1 # 0 /\ (n + 1) - 1 = n OBVIOUS
  <2> QED BY <2>1, <1>5
<1> DEFINE D == {n \in Nat : P[n] \in Nat}
<1>8. 0 \in D BY <1>6
<1>9. ASSUME NEW n \in Nat, n \in D PROVE n + 1 \in D BY <1>9, <1>7
<1> HIDE DEF D
<1>10. Nat \subseteq D BY <1>8, <1>9, NatsIn
<1>11. P \in [Nat -> Nat]
  <2>1. P = [n \in Nat |-> P[n]] BY <1>5
  <2>2. \A n \in Nat : P[n] \in Nat BY <1>10 DEF D
  <2> QED BY <2>1, <2>2
<1> QED BY <1>6, <1>7, <1>11 DEF P

\* Powers of a positive base are positive.
LEMMA PowerPositive ==
    ASSUME NEW b \in Nat, b > 0, NEW n \in Nat
    PROVE  Power(b)[n] \in Nat /\ Power(b)[n] > 0
<1> DEFINE P == Power(b)
           E == {j \in Nat : P[j] > 0}
<1>1. P \in [Nat -> Nat] /\ P[0] = 1 /\ \A i \in Nat : P[i + 1] = b * P[i]
  BY PowerDef
<1> HIDE DEF P
<1>2. 0 \in E BY <1>1
<1>3. ASSUME NEW j \in Nat, j \in E PROVE j + 1 \in E
  <2>1. P[j] \in Nat /\ P[j] > 0 /\ P[j + 1] = b * P[j] BY <1>1, <1>3
  <2>2. b * P[j] > 0 BY <2>1
  <2> QED BY <2>1, <2>2
<1> HIDE DEF E
<1>4. n \in E BY <1>2, <1>3, NatsIn
<1> QED BY <1>1, <1>4 DEF E, P

\* They never fall.
LEMMA PowerGrows ==
    ASSUME NEW b \in Nat, b > 0, NEW n \in Nat, NEW m \in Nat, n <= m
    PROVE  Power(b)[n] <= Power(b)[m]
<1> DEFINE P == Power(b)
           D == {j \in Nat : P[n] <= P[n + j]}
<1>1. P \in [Nat -> Nat] /\ \A i \in Nat : P[i + 1] = b * P[i]
  BY PowerDef
<1> HIDE DEF P
<1>2. 0 \in D BY <1>1
<1>3. ASSUME NEW j \in Nat, j \in D PROVE j + 1 \in D
  <2>1. P[n + j] \in Nat /\ P[n] \in Nat BY <1>1
  <2>2. n + (j + 1) = (n + j) + 1 OBVIOUS
  <2>3. P[n + (j + 1)] = b * P[n + j] BY <1>1, <2>2
  <2>4. b * P[n + j] >= P[n + j] BY <2>1
  <2> QED BY <1>3, <2>1, <2>3, <2>4
<1> HIDE DEF D
<1>4. m - n \in D BY <1>2, <1>3, NatsIn
<1> QED BY <1>4 DEF D, P

\* Quotient and remainder, and that nothing else satisfies their equation.
LEMMA DivMod ==
    ASSUME NEW u \in Nat, NEW m \in Nat, m > 0
    PROVE  /\ u \div m \in Nat /\ u % m \in Nat /\ u % m < m
           /\ u = m * (u \div m) + (u % m)
OBVIOUS

LEMMA DivModUnique ==
    ASSUME NEW m \in Nat, NEW q \in Nat, NEW r \in Nat, r < m
    PROVE  (m * q + r) \div m = q /\ (m * q + r) % m = r
OBVIOUS

LEMMA SmallMod ==
    ASSUME NEW u \in Nat, NEW m \in Nat, u < m
    PROVE  u % m = u /\ u \div m = 0
OBVIOUS

\* The remainder gains a digit when the divisor gains a factor.
LEMMA ModStep ==
    ASSUME NEW u \in Nat, NEW m \in Nat, NEW b \in Nat, m > 0, b > 0
    PROVE  u % (b * m) = (u % m) + ((u \div m) % b) * m
<1> DEFINE q == u \div m
           r == u % m
           q2 == q \div b
           d == q % b
<1>1. q \in Nat /\ r \in Nat /\ r < m /\ u = m * q + r BY DivMod
<1> HIDE DEF q, r
<1>2. q2 \in Nat /\ d \in Nat /\ d < b /\ q = b * q2 + d BY <1>1, DivMod
<1> HIDE DEF q2, d
<1>3. d * m + r \in Nat /\ d * m + r < b * m
  <2>1. d * m + m <= b * m
    <3>1. d + 1 <= b BY <1>2
    <3>2. (d + 1) * m <= b * m BY <3>1, <1>2
    <3>3. (d + 1) * m = d * m + m BY <1>2
    <3> QED BY <3>2, <3>3
  <2>2. d * m \in Nat BY <1>2
  <2> QED BY <1>1, <2>1, <2>2
<1>4. u = (b * m) * q2 + (d * m + r)
  <2>1. m * q = m * (b * q2) + m * d BY <1>2
  <2>2. m * (b * q2) = (b * m) * q2 BY <1>2
  <2> QED BY <1>1, <1>2, <2>1, <2>2
<1>5. b * m \in Nat OBVIOUS
<1>6. u % (b * m) = d * m + r BY <1>2, <1>3, <1>4, <1>5, DivModUnique
<1> QED BY <1>1, <1>2, <1>6 DEF q, r, d

\* SumOf adds from the left: any function with its equations ends in the sum.
LEMMA SumIs ==
    ASSUME NEW n \in Nat, NEW s, Len(s) = n,
           NEW S \in [0..n -> Int], S[0] = 0, \A i \in 1..n : S[i] = S[i - 1] + s[i]
    PROVE  SumOf(s) = S[n]
<1> DEFINE C == CHOOSE C : C = [i \in 0..n |-> IF i = 0 THEN 0 ELSE C[i - 1] + s[i]]
<1>1. S = [i \in 0..n |-> IF i = 0 THEN 0 ELSE S[i - 1] + s[i]] OBVIOUS
<1>2. C = [i \in 0..n |-> IF i = 0 THEN 0 ELSE C[i - 1] + s[i]] BY <1>1
<1>3. SumOf(s) = C[n] BY DEF SumOf
<1> HIDE DEF C
<1> DEFINE D == {i \in Nat : i <= n => C[i] = S[i]}
<1>4. 0 \in D BY <1>2
<1>5. ASSUME NEW i \in Nat, i \in D PROVE i + 1 \in D
  <2> SUFFICES ASSUME i + 1 <= n PROVE C[i + 1] = S[i + 1] OBVIOUS
  <2>1. i + 1 \in 0..n /\ i + 1 \in 1..n /\ (i + 1) - 1 = i /\ i + 1 # 0 OBVIOUS
  <2>2. C[i + 1] = C[i] + s[i + 1] BY <1>2, <2>1
  <2>3. S[i + 1] = S[i] + s[i + 1] BY <2>1
  <2> QED BY <1>5, <2>2, <2>3
<1> HIDE DEF D
<1>6. n \in D BY <1>4, <1>5, NatsIn
<1> QED BY <1>3, <1>6 DEF D

\* The n lowest digits of u stand for u modulo the n-th power of the base.
LEMMA DigitsOf ==
    ASSUME NEW u \in Nat, NEW b \in Nat, b > 0, NEW n \in Nat, NEW f,
           Len(f) = n, \A i \in 1..n : f[i] = Digit(u, b, i)
    PROVE  Positional(f, b) = u % Power(b)[n]
<1> DEFINE P == Power(b)
           T == [i \in 1..Len(f) |-> f[i] * P[i - 1]]
           S == [i \in 0..n |-> u % P[i]]
<1>1. P \in [Nat -> Nat] /\ P[0] = 1 /\ \A i \in Nat : P[i + 1] = b * P[i]
  BY PowerDef
<1>2. \A i \in Nat : P[i] > 0 BY PowerPositive
<1>3. Positional(f, b) = SumOf(T) BY DEF Positional
<1> HIDE DEF P
<1>4. Len(T) = n OBVIOUS
<1>5. S \in [0..n -> Int]
  <2>1. ASSUME NEW i \in 0..n PROVE u % P[i] \in Int
    <3>1. i \in Nat OBVIOUS
    <3>2. P[i] \in Nat BY <1>1, <3>1
    <3>3. P[i] > 0 BY <1>2, <3>1
    <3> QED BY <3>2, <3>3, DivMod
  <2> QED BY <2>1
<1>6. S[0] = 0 BY <1>1
<1>7. ASSUME NEW i \in 1..n PROVE S[i] = S[i - 1] + T[i]
  <2>1. i - 1 \in Nat /\ (i - 1) + 1 = i /\ i - 1 \in 0..n /\ i \in 0..n OBVIOUS
  <2>2. P[i - 1] \in Nat /\ P[i - 1] > 0 /\ P[i] = b * P[i - 1] BY <1>1, <1>2, <2>1
  <2>3. u % (b * P[i - 1]) = (u % P[i - 1]) + ((u \div P[i - 1]) % b) * P[i - 1]
    BY <2>2, ModStep
  <2>4. T[i] = ((u \div P[i - 1]) % b) * P[i - 1] BY DEF Digit, P
  <2>5. S[i] = u % P[i] /\ S[i - 1] = u % P[i - 1] BY <2>1
  <2> QED BY <2>2, <2>3, <2>4, <2>5
<1> HIDE DEF S, T
<1>8. SumOf(T) = S[n] BY <1>4, <1>5, <1>6, <1>7, SumIs
<1> QED BY <1>3, <1>8 DEF S, P

\* The power of a sum.
LEMMA PowerSum ==
    ASSUME NEW k \in Nat, NEW n \in Nat
    PROVE  Power(2)[k + n] = Power(2)[k] * Power(2)[n]
<1> DEFINE P == Power(2)
           A == {j \in Nat : P[k + j] = P[k] * P[j]}
<1>1. P \in [Nat -> Nat] /\ P[0] = 1 /\ \A i \in Nat : P[i + 1] = 2 * P[i]
  BY PowerDef
<1> HIDE DEF P
<1>2. 0 \in A BY <1>1
<1>3. ASSUME NEW j \in Nat, j \in A PROVE j + 1 \in A
  <2>1. k + (j + 1) = (k + j) + 1 OBVIOUS
  <2>2. P[k + (j + 1)] = 2 * P[k + j] /\ P[j + 1] = 2 * P[j] BY <1>1, <2>1
  <2>3. P[k + j] = P[k] * P[j] /\ P[j] \in Nat /\ P[k] \in Nat BY <1>1, <1>3
  <2>4. 2 * (P[k] * P[j]) = P[k] * (2 * P[j]) BY <2>3
  <2> QED BY <2>2, <2>3, <2>4
<1> HIDE DEF A
<1>4. n \in A BY <1>2, <1>3, NatsIn
<1> QED BY <1>4 DEF A, P

\* A power of a power of two is a power of two.
LEMMA PowerOfPower ==
    ASSUME NEW k \in Nat, NEW n \in Nat, NEW b \in Nat, b = Power(2)[k]
    PROVE  Power(b)[n] = Power(2)[k * n]
<1> DEFINE P == Power(2)
           D == {j \in Nat : Power(b)[j] = P[k * j]}
<1>1. P[0] = 1 BY PowerDef
<1>2. Power(b)[0] = 1 /\ \A i \in Nat : Power(b)[i + 1] = b * Power(b)[i]
  BY PowerDef
<1>3. \A j \in Nat : P[k + j] = b * P[j] BY PowerSum
<1> HIDE DEF P
<1>4. 0 \in D
  <2>1. k * 0 = 0 OBVIOUS
  <2> QED BY <1>1, <1>2, <2>1
<1>5. ASSUME NEW j \in Nat, j \in D PROVE j + 1 \in D
  <2>1. k * (j + 1) = k + k * j /\ k * j \in Nat OBVIOUS
  <2>2. P[k + k * j] = b * P[k * j] BY <1>3, <2>1
  <2> QED BY <1>2, <1>5, <2>1, <2>2
<1> HIDE DEF D
<1>6. n \in D BY <1>4, <1>5, NatsIn
<1> QED BY <1>6 DEF D, P

\* The bases of the wire format.
LEMMA BasesAre ==
    /\ 2 = Power(2)[1] /\ 8 = Power(2)[3]
    /\ 128 = Power(2)[7] /\ 256 = Power(2)[8]
<1> DEFINE P == Power(2)
<1>1. P[0] = 1 /\ \A i \in Nat : P[i + 1] = 2 * P[i] BY PowerDef
<1> HIDE DEF P
<1>2. P[1] = 2 /\ P[2] = 4 /\ P[3] = 8 /\ P[4] = 16
  <2>1. P[0 + 1] = 2 * P[0] /\ P[1 + 1] = 2 * P[1] /\ P[2 + 1] = 2 * P[2]
        /\ P[3 + 1] = 2 * P[3] BY <1>1
  <2> QED BY <1>1, <2>1
<1>3. P[5] = 32 /\ P[6] = 64 /\ P[7] = 128 /\ P[8] = 256
  <2>1. P[4 + 1] = 2 * P[4] /\ P[5 + 1] = 2 * P[5] /\ P[6 + 1] = 2 * P[6]
        /\ P[7 + 1] = 2 * P[7] BY <1>1
  <2> QED BY <1>2, <2>1
<1> QED BY <1>2, <1>3 DEF P

LEMMA BasesToPowers ==
    ASSUME NEW n \in Nat
    PROVE  Power(128)[n] = Power(2)[7 * n] /\ Power(256)[n] = Power(2)[8 * n]
<1>1. ASSUME NEW k \in Nat, NEW b \in Nat, b = Power(2)[k]
      PROVE  Power(b)[n] = Power(2)[k * n]
  BY <1>1, PowerOfPower
<1>2. 128 = Power(2)[7] /\ 256 = Power(2)[8] BY BasesAre
<1>3. Power(128)[n] = Power(2)[7 * n] BY <1>1, <1>2
<1>4. Power(256)[n] = Power(2)[8 * n] BY <1>1, <1>2
<1> QED BY <1>3, <1>4

------------------------------------------------------------------------------
(* Bytes in an input.                                                      *)

\* The bytes s stand in the input from p on, and no limit is in between.
Stands(in, p, s, lim) ==
    /\ Readable(in, p, Len(s), lim)
    /\ \A i \in 1..Len(s) : in[p + i - 1] = s[i]

\* f holds the n lowest digits of u in base b.
HasDigits(f, u, b, n) == Len(f) = n /\ \A i \in 1..n : f[i] = Digit(u, b, i)

\* Then f stands for u modulo the n-th power of the base.
LEMMA DigitsRead ==
    ASSUME NEW u \in Nat, NEW b \in Nat, b > 0, NEW n \in Nat, NEW f,
           HasDigits(f, u, b, n)
    PROVE  Positional(f, b) = u % Power(b)[n]
<1>1. Len(f) = n /\ \A i \in 1..n : f[i] = Digit(u, b, i) BY DEF HasDigits
<1> QED BY <1>1, DigitsOf

\* A word of w bits is read back as it was written.
LEMMA LittleEndianRoundTrip ==
    ASSUME NEW w \in Nat, w % 8 = 0, NEW u \in Nat, u < Power(2)[w],
           NEW in \in Seq(Nat), NEW p \in Nat, p > 0, NEW lim \in Nat,
           Stands(in, p, WriteLittleEndian(u, w), lim)
    PROVE  ReadLittleEndian(in, p, lim, w) = Got(u, p + Len(WriteLittleEndian(u, w)))
<1> DEFINE n == w \div 8
           f == SubSeq(in, p, p + n - 1)
           s == WriteLittleEndian(u, w)
<1>1. n \in Nat /\ 8 * n = w OBVIOUS
<1> HIDE DEF n
<1>2. Len(s) = n /\ \A i \in 1..n : s[i] = Digit(u, 256, i)
  BY <1>1 DEF WriteLittleEndian, n
<1> HIDE DEF s
<1>3. Readable(in, p, n, lim) /\ \A i \in 1..n : in[p + i - 1] = Digit(u, 256, i)
  BY <1>2 DEF Stands, s
<1>4. Len(f) = n /\ \A i \in 1..n : f[i] = in[p + i - 1]
  BY <1>1, <1>3 DEF Readable
<1> HIDE DEF f
<1>5. Positional(f, 256) = u % Power(256)[n]
  <2>1. HasDigits(f, u, 256, n) BY <1>3, <1>4 DEF HasDigits
  <2> QED BY <1>1, <2>1, DigitsRead
<1>6. Power(256)[n] = Power(2)[w]
  <2>1. Power(256)[n] = Power(2)[8 * n] BY <1>1, BasesToPowers, Zenon
  <2> QED BY <1>1, <2>1
<1>7. u % Power(2)[w] = u
  <2>1. ASSUME NEW k \in Nat PROVE Power(2)[k] \in Nat BY PowerPositive
  <2>2. Power(2)[w] \in Nat BY <2>1
  <2> QED BY <2>2, SmallMod
<1>8. Positional(f, 256) = u BY <1>5, <1>6, <1>7
<1> QED BY <1>2, <1>3, <1>8 DEF ReadLittleEndian, f, n, s

\* The longest varint has just room for W64 bits.
LEMMA MaxVarint ==
    /\ MaxVarintBytes \in Nat /\ MaxVarintBytes > 0
    /\ W64 <= 7 * MaxVarintBytes /\ 7 * (MaxVarintBytes - 1) <= W64 - 1
BY WidthsAssumption DEF MaxVarintBytes

\* VarintSize is the least number of groups that hold u, cut at the maximum.
LEMMA VarintSizeIs ==
    ASSUME NEW u \in Nat
    PROVE  /\ VarintSize(u) \in 1..MaxVarintBytes
           /\ VarintSize(u) = MaxVarintBytes \/ u < Power(128)[VarintSize(u)]
           /\ \A j \in 1..MaxVarintBytes : j < VarintSize(u) => u >= Power(128)[j]
<1> DEFINE T == {MaxVarintBytes} \cup {n \in 1..MaxVarintBytes : u < Power(128)[n]}
<1>1. T \subseteq 1..MaxVarintBytes /\ MaxVarintBytes \in T BY MaxVarint
<1>2. \E x \in T : \A y \in T : x <= y
  <2> HIDE DEF T
  <2>1. T \subseteq Nat /\ T # {} BY <1>1, MaxVarint
  <2> QED BY <2>1, NatLeast
<1>3. VarintSize(u) = CHOOSE x \in T : \A y \in T : x <= y BY DEF VarintSize, Min
<1>4. VarintSize(u) \in T /\ \A y \in T : VarintSize(u) <= y
  <2> HIDE DEF T
  <2> QED BY <1>2, <1>3
<1>5. ASSUME NEW j \in 1..MaxVarintBytes, j < VarintSize(u) PROVE u >= Power(128)[j]
  <2>1. j \notin T BY <1>1, <1>4, <1>5, MaxVarint
  <2>2. ~(u < Power(128)[j]) BY <2>1
  <2>3. Power(128)[j] \in Nat BY PowerPositive
  <2> QED BY <2>2, <2>3
<1> QED BY <1>1, <1>4, <1>5

\* Every 64-bit number fits.
LEMMA VarintFits ==
    ASSUME NEW u \in Nat, u < Power(2)[W64]
    PROVE  u < Power(128)[VarintSize(u)]
<1>1. CASE VarintSize(u) = MaxVarintBytes
  <2> DEFINE k == 7 * MaxVarintBytes - W64
  <2>1. k \in Nat /\ W64 + k = 7 * MaxVarintBytes /\ W64 \in Nat
    BY MaxVarint, WidthsAssumption
  <2>2. Power(2)[W64] <= Power(2)[W64 + k] BY <2>1, PowerGrows
  <2>3. Power(128)[MaxVarintBytes] = Power(2)[7 * MaxVarintBytes]
    BY MaxVarint, BasesToPowers
  <2>4. Power(2)[W64] \in Nat /\ Power(2)[W64 + k] \in Nat BY <2>1, PowerPositive
  <2> HIDE DEF k
  <2> QED BY <1>1, <2>1, <2>2, <2>3, <2>4
<1>2. CASE VarintSize(u) # MaxVarintBytes BY <1>2, VarintSizeIs
<1> QED BY <1>1, <1>2

\* A digit is below the base.
LEMMA DigitType ==
    ASSUME NEW u \in Nat, NEW b \in Nat, b > 0, NEW i \in Nat, i > 0
    PROVE  Digit(u, b, i) \in 0..(b - 1)
<1> DEFINE m == Power(b)[i - 1]
<1>1. i - 1 \in Nat OBVIOUS
<1>2. m \in Nat /\ m > 0 BY <1>1, PowerPositive
<1> HIDE DEF m
<1>3. u \div m \in Nat BY <1>2, DivMod
<1>4. (u \div m) % b \in Nat /\ (u \div m) % b < b BY <1>3, DivMod
<1>5. Digit(u, b, i) = (u \div m) % b BY DEF Digit, m
<1> QED BY <1>4, <1>5

\* The bytes of a varint: a digit each, marked in all but the last.
LEMMA WriteVarintIs ==
    ASSUME NEW u \in Nat
    PROVE  /\ WriteVarint(u) \in Seq(Nat)
           /\ Len(WriteVarint(u)) = VarintSize(u)
           /\ \A i \in 1..VarintSize(u) :
                /\ WriteVarint(u)[i] % 128 = Digit(u, 128, i)
                /\ WriteVarint(u)[i] < 128 <=> i = VarintSize(u)
<1> DEFINE n == VarintSize(u)
           s == WriteVarint(u)
<1>1. n \in Nat BY VarintSizeIs, MaxVarint
<1>2. s = [i \in 1..n |-> Digit(u, 128, i) + (IF i < n THEN 128 ELSE 0)]
  BY DEF WriteVarint
<1> HIDE DEF n, s
<1>3. ASSUME NEW i \in 1..n
      PROVE  s[i] \in Nat /\ s[i] % 128 = Digit(u, 128, i) /\ (s[i] < 128 <=> i = n)
  <2>1. Digit(u, 128, i) \in 0..127
    <3>1. i \in Nat /\ i > 0 BY <1>1
    <3>2. ASSUME NEW b \in Nat, b > 0 PROVE Digit(u, b, i) \in 0..(b - 1)
      BY <3>1, <3>2, DigitType
    <3>3. 128 \in Nat /\ 128 > 0 OBVIOUS
    <3>4. Digit(u, 128, i) \in 0..(128 - 1) BY <3>2, <3>3, Zenon
    <3> QED BY <3>4
  <2>2. s[i] = Digit(u, 128, i) + (IF i < n THEN 128 ELSE 0) BY <1>2
  <2>3. ASSUME NEW d \in 0..127 PROVE (d + 128) % 128 = d /\ d % 128 = d OBVIOUS
  <2>4. CASE i < n BY <1>1, <2>1, <2>2, <2>3, <2>4
  <2>5. CASE i = n BY <1>1, <2>1, <2>2, <2>3, <2>5
  <2> QED BY <1>1, <2>4, <2>5
<1>4. s \in Seq(Nat) /\ Len(s) = n BY <1>1, <1>2, <1>3
<1> QED BY <1>3, <1>4 DEF n, s

\* A varint is read back as it was written, but for the bits above the w-th.
LEMMA VarintRoundTrip ==
    ASSUME NEW u \in Nat, u < Power(2)[W64], NEW w \in Nat,
           NEW in \in Seq(Nat), NEW p \in Nat, p > 0, NEW lim \in Nat,
           Stands(in, p, WriteVarint(u), lim)
    PROVE  ReadVarint(in, p, lim, w) = Got(Unsigned(u, w), p + Len(WriteVarint(u)))
<1> DEFINE n == VarintSize(u)
           s == WriteVarint(u)
           ends == {k \in 1..MaxVarintBytes : Readable(in, p, k, lim) /\ in[p + k - 1] < 128}
           f == GroupsAt(in, p, n)
<1>1. n \in 1..MaxVarintBytes /\ MaxVarintBytes \in Nat BY VarintSizeIs, MaxVarint
<1>2. Len(s) = n /\ \A i \in 1..n : s[i] % 128 = Digit(u, 128, i) /\ (s[i] < 128 <=> i = n)
  BY WriteVarintIs
<1>3. u < Power(128)[n] BY VarintFits
<1> HIDE DEF n, s
<1>4. Readable(in, p, n, lim) /\ \A i \in 1..n : in[p + i - 1] = s[i]
  BY <1>2 DEF Stands, s
<1>5. n \in ends BY <1>1, <1>2, <1>4
<1>6. \A k \in ends : n <= k
  <2> SUFFICES ASSUME NEW k \in ends, k < n PROVE FALSE BY <1>1
  <2>1. k \in 1..n /\ in[p + k - 1] < 128 BY <1>1
  <2>2. in[p + k - 1] = s[k] BY <1>4, <2>1
  <2> QED BY <1>1, <1>2, <2>1, <2>2
<1>7. Min(ends) = n /\ ends # {}
  <2>1. ends \subseteq Nat BY <1>1
  <2> HIDE DEF ends
  <2>2. Min(ends) = CHOOSE x \in ends : \A y \in ends : x <= y BY DEF Min
  <2>3. \E x \in ends : \A y \in ends : x <= y BY <1>5, <1>6
  <2>4. Min(ends) \in ends /\ \A y \in ends : Min(ends) <= y BY <2>2, <2>3
  <2>5. Min(ends) <= n /\ n <= Min(ends) BY <1>5, <1>6, <2>4
  <2>6. n \in Nat BY <1>1
  <2>7. Min(ends) \in Nat BY <2>1, <2>4, Zenon
  <2> QED BY <1>5, <2>5, <2>6, <2>7
<1>8. Positional(f, 128) = u
  <2>1. Len(f) = n BY <1>1 DEF GroupsAt
  <2>2. \A i \in 1..n : f[i] = Digit(u, 128, i) BY <1>2, <1>4 DEF GroupsAt
  <2> HIDE DEF f
  <2>3. ASSUME NEW b \in Nat, b > 0, \A i \in 1..n : f[i] = Digit(u, b, i)
        PROVE  Positional(f, b) = u % Power(b)[n]
    BY <1>1, <2>1, <2>3, DigitsOf
  <2>4. Positional(f, 128) = u % Power(128)[n] BY <2>2, <2>3
  <2>5. ASSUME NEW b \in Nat, b > 0, NEW k \in Nat PROVE Power(b)[k] \in Nat
    BY <2>5, PowerPositive
  <2>6. Power(128)[n] \in Nat BY <1>1, <2>5
  <2> QED BY <1>3, <2>4, <2>6, SmallMod
<1>9. ReadVarint(in, p, lim, w) = VarintAt(in, p, ends, w) BY DEF ReadVarint
<1> HIDE DEF ends
<1>10. VarintAt(in, p, ends, w) = Got(Unsigned(u, w), p + n)
  BY <1>7, <1>8 DEF VarintAt
<1> QED BY <1>2, <1>9, <1>10 DEF s

------------------------------------------------------------------------------
(* Numbers.                                                                *)

\* Every numeric type is one of seven kinds.
LEMMA TraitsAre ==
    ASSUME NEW t \in NumericTypes
    PROVE  /\ Traits[t].read \in {"varint", "fixed"} /\ Traits[t].w \in {W32, W64}
           /\ Traits[t].as \in {"bool", "signed", "unsigned", "zigzag"}
           /\ Traits[t].as = "bool" <=> t = "BoolValue"
           /\ Traits[t].as \in {"bool", "zigzag"} => Traits[t].read = "varint"
           /\ t \in FixedTypes <=> Traits[t].read = "fixed"
BY DEF Traits, NumericTypes, FixedTypes

\* The widths, and the powers of two that belong to them.
LEMMA WidthsAre ==
    ASSUME NEW w \in {W32, W64}
    PROVE  /\ w \in Nat /\ w > 0 /\ w - 1 \in Nat /\ w % 8 = 0 /\ w <= W64
           /\ Power(2)[w] \in Nat /\ Power(2)[w] > 0 /\ Power(2)[w - 1] \in Nat
           /\ Power(2)[w] = 2 * Power(2)[w - 1]
           /\ Power(2)[w] <= Power(2)[W64]
           /\ \E d \in Nat : d > 0 /\ Power(2)[W64] = Power(2)[w] * d
<1>1. w \in Nat /\ w > 0 /\ w - 1 \in Nat /\ w % 8 = 0 /\ w <= W64 /\ W64 \in Nat
  BY WidthsAssumption
<1>2. ASSUME NEW k \in Nat PROVE Power(2)[k] \in Nat /\ Power(2)[k] > 0
  BY PowerPositive
<1>3. Power(2)[w] = 2 * Power(2)[w - 1]
  <2>1. \A n \in Nat : Power(2)[n + 1] = 2 * Power(2)[n] BY PowerDef
  <2>2. (w - 1) + 1 = w BY <1>1
  <2> QED BY <1>1, <2>1, <2>2
<1>4. Power(2)[w] <= Power(2)[W64] BY <1>1, PowerGrows
<1>5. Power(2)[W64] = Power(2)[w] * Power(2)[W64 - w]
  <2>1. W64 - w \in Nat /\ w + (W64 - w) = W64 BY <1>1
  <2> QED BY <1>1, <2>1, PowerSum
<1>6. W64 - w \in Nat BY <1>1
<1> QED BY <1>1, <1>2, <1>3, <1>4, <1>5, <1>6

\* A number in two's complement comes back, also through a wider word.
LEMMA SignedInverse ==
    ASSUME NEW w \in {W32, W64}, NEW v \in Int,
           -Power(2)[w - 1] <= v, v < Power(2)[w - 1]
    PROVE  /\ Unsigned(v, w) \in Nat /\ Unsigned(v, w) < Power(2)[w]
           /\ Signed(Unsigned(v, w), w) = v
           /\ Unsigned(v, W64) \in Nat /\ Unsigned(v, W64) < Power(2)[W64]
           /\ Unsigned(Unsigned(v, W64), w) = Unsigned(v, w)
           /\ v >= 0 => Unsigned(v, W64) = v
           /\ v < 0 => Unsigned(v, W64) = v + Power(2)[W64]
<1> DEFINE h == Power(2)[w - 1]
           m == Power(2)[w]
           M == Power(2)[W64]
<1>1. h \in Nat /\ m \in Nat /\ m > 0 /\ m = 2 * h /\ m <= M /\ M \in Nat
  BY WidthsAre
<1>2. PICK d \in Nat : d > 0 /\ M = m * d BY WidthsAre
<1>3. -h <= v /\ v < h OBVIOUS
<1>4. /\ Unsigned(v, w) = v % m /\ Unsigned(v, W64) = v % M
      /\ Unsigned(Unsigned(v, W64), w) = (v % M) % m
      /\ \A u : Signed(u, w) = IF u < h THEN u ELSE u - m
  BY DEF Unsigned, Signed
<1> HIDE DEF h, m, M
<1>5. CASE v >= 0
  <2>1. v \in Nat /\ v < m /\ v < M BY <1>1, <1>3, <1>5
  <2>2. v % m = v /\ v % M = v BY <1>1, <2>1, SmallMod
  <2> QED BY <1>1, <1>3, <1>4, <2>1, <2>2, <1>5 DEF M, m
<1>6. CASE v < 0
  <2>1. v + m \in Nat /\ v + m < m /\ v + M \in Nat /\ v + M < M BY <1>1, <1>3, <1>6
  <2>2. v % m = v + m BY <1>1, <2>1
  <2>3. v % M = v + M BY <1>1, <2>1
  <2>4. v + M = m * (d - 1) + (v + m)
    <3>1. m * (d - 1) = m * d - m BY <1>1
    <3> QED BY <1>1, <1>2, <3>1
  <2>5. (v + M) % m = v + m
    <3>1. d - 1 \in Nat BY <1>2
    <3>2. (m * (d - 1) + (v + m)) % m = v + m BY <1>1, <2>1, <3>1, DivModUnique
    <3> QED BY <2>4, <3>2
  <2>6. ~(v + m < h) BY <1>1, <1>3
  <2>7. /\ Unsigned(v, w) = v + m /\ Unsigned(v, W64) = v + M
        /\ Unsigned(Unsigned(v, W64), w) = v + m
    BY <1>4, <2>2, <2>3, <2>5
  <2>8. Signed(v + m, w) = v
    <3>1. Signed(v + m, w) = (v + m) - m BY <1>4, <2>6
    <3> QED BY <1>1, <3>1
  <2> QED BY <1>6, <2>1, <2>7, <2>8 DEF M, m
<1> QED BY <1>5, <1>6

\* Zigzag is undone by its inverse and stays within the width.
LEMMA ZigZagInverse ==
    ASSUME NEW w \in {W32, W64}, NEW v \in Int,
           -Power(2)[w - 1] <= v, v < Power(2)[w - 1]
    PROVE  /\ ZigZagEncode(v) \in Nat /\ ZigZagEncode(v) < Power(2)[w]
           /\ ZigZagDecode(ZigZagEncode(v)) = v
<1> DEFINE h == Power(2)[w - 1]
           m == Power(2)[w]
<1>1. h \in Nat /\ m \in Nat /\ m = 2 * h /\ -h <= v /\ v < h BY WidthsAre
<1> HIDE DEF h, m
<1>2. CASE v >= 0
  <2>1. ZigZagEncode(v) = 2 * v BY <1>2 DEF ZigZagEncode
  <2>2. (2 * v) % 2 = 0 /\ (2 * v) \div 2 = v BY <1>2
  <2> QED BY <1>1, <1>2, <2>1, <2>2 DEF ZigZagDecode, m
<1>3. CASE v < 0
  <2>1. ZigZagEncode(v) = -2 * v - 1 BY <1>3 DEF ZigZagEncode
  <2>2. (-2 * v - 1) % 2 = 1 /\ ((-2 * v - 1) + 1) \div 2 = -v BY <1>3
  <2> QED BY <1>1, <1>3, <2>1, <2>2 DEF ZigZagDecode, m
<1> QED BY <1>2, <1>3

\* Numbers below the same powers have the same size.
LEMMA VarintSizeSame ==
    ASSUME NEW u \in Nat, NEW v \in Nat,
           \A j \in 1..MaxVarintBytes : u < Power(128)[j] <=> v < Power(128)[j]
    PROVE  VarintSize(u) = VarintSize(v)
<1>1. {n \in 1..MaxVarintBytes : u < Power(128)[n]} =
      {n \in 1..MaxVarintBytes : v < Power(128)[n]}
  OBVIOUS
<1> QED BY <1>1 DEF VarintSize

\* A bool takes one byte.
LEMMA OneByte ==
    ASSUME NEW u \in Nat, u < 128
    PROVE  VarintSize(u) = 1
<1> DEFINE n == VarintSize(u)
<1>1. n \in 1..MaxVarintBytes /\ \A j \in 1..MaxVarintBytes : j < n => u >= Power(128)[j]
  BY VarintSizeIs
<1> HIDE DEF n
<1>2. Power(128)[1] = 128
  <2>1. Power(128)[0] = 1 /\ \A i \in Nat : Power(128)[i + 1] = 128 * Power(128)[i]
    BY PowerDef
  <2>2. Power(128)[0 + 1] = 128 * Power(128)[0] BY <2>1
  <2> QED BY <2>1, <2>2
<1>3. 1 \in 1..MaxVarintBytes BY MaxVarint
<1>4. 1 < n => FALSE BY <1>1, <1>2, <1>3
<1>5. n \in Nat /\ n >= 1 BY <1>1, MaxVarint
<1> QED BY <1>4, <1>5 DEF n

\* A number with the sign bit of the wide word takes the longest varint.
LEMMA LongestVarint ==
    ASSUME NEW u \in Nat, u >= Power(2)[W64 - 1]
    PROVE  VarintSize(u) = MaxVarintBytes
<1> DEFINE n == VarintSize(u)
           k == MaxVarintBytes - 1
<1>1. n \in 1..MaxVarintBytes /\ (n = MaxVarintBytes \/ u < Power(128)[n])
  BY VarintSizeIs
<1> HIDE DEF n
<1>2. SUFFICES ASSUME n < MaxVarintBytes PROVE FALSE BY <1>1, MaxVarint DEF n
<1>3. n \in Nat /\ k \in Nat /\ n <= k /\ 7 * n \in Nat /\ 7 * n <= W64 - 1 /\ W64 - 1 \in Nat
  BY <1>1, <1>2, MaxVarint, WidthsAssumption
<1>4. Power(128)[n] = Power(2)[7 * n] BY <1>3, BasesToPowers
<1>5. Power(2)[7 * n] <= Power(2)[W64 - 1] BY <1>3, PowerGrows
<1>6. ASSUME NEW i \in Nat PROVE Power(2)[i] \in Nat BY PowerPositive
<1>7. Power(2)[7 * n] \in Nat /\ Power(2)[W64 - 1] \in Nat BY <1>3, <1>6
<1> QED BY <1>1, <1>2, <1>4, <1>5, <1>7

\* The wire type in a tag does not change the tag's size.
LEMMA TagSizeIs ==
    ASSUME NEW num \in Nat, NEW wt \in 0..7
    PROVE  VarintSize(MakeTag(num, wt)) = TagSize(num)
<1>1. MakeTag(num, wt) \in Nat /\ MakeTag(num, WireVarint) \in Nat
  BY DEF MakeTag, WireVarint
<1>2. ASSUME NEW j \in 1..MaxVarintBytes
      PROVE  MakeTag(num, wt) < Power(128)[j] <=> MakeTag(num, WireVarint) < Power(128)[j]
  <2> DEFINE P == Power(128)
  <2>1. P \in [Nat -> Nat] /\ \A i \in Nat : P[i + 1] = 128 * P[i] BY PowerDef
  <2> HIDE DEF P
  <2>2. j - 1 \in Nat /\ (j - 1) + 1 = j BY MaxVarint
  <2>3. P[j] = 128 * P[j - 1] /\ P[j - 1] \in Nat BY <2>1, <2>2
  <2>4. ASSUME NEW x \in Nat PROVE num * 8 + wt < 128 * x <=> num * 8 < 128 * x
    OBVIOUS
  <2>5. num * 8 + wt < P[j] <=> num * 8 < P[j] BY <2>3, <2>4
  <2> QED BY <2>5 DEF MakeTag, WireVarint, P
<1> QED BY <1>1, <1>2, VarintSizeSame DEF TagSize

\* SizeNoTag is the number of bytes WriteNoTag writes, at least one.
LEMMA NumberSize ==
    ASSUME NEW t \in NumericTypes, NEW v, Holds(t, v)
    PROVE  /\ WriteNoTag(t, v) \in Seq(Nat)
           /\ Len(WriteNoTag(t, v)) = SizeNoTag(t, v)
           /\ SizeNoTag(t, v) \in Nat /\ SizeNoTag(t, v) > 0
<1> DEFINE w == Traits[t].w
<1>1. w \in {W32, W64} BY TraitsAre
<1>2. /\ w \in Nat /\ w > 0 /\ w % 8 = 0 /\ Power(2)[w - 1] \in Nat
      /\ Power(2)[w] \in Nat /\ Power(2)[w] > 0 /\ Power(2)[w] <= Power(2)[W64]
      /\ Power(2)[w] = 2 * Power(2)[w - 1]
  BY <1>1, WidthsAre
<1>3. /\ Power(2)[W64 - 1] \in Nat /\ Power(2)[W64] = 2 * Power(2)[W64 - 1]
      /\ Power(2)[W64] \in Nat /\ Power(2)[W64] > 0
  BY WidthsAre
<1> HIDE DEF w
<1>4. ASSUME NEW u \in Nat
      PROVE  /\ WriteVarint(u) \in Seq(Nat) /\ Len(WriteVarint(u)) = VarintSize(u)
             /\ VarintSize(u) \in Nat /\ VarintSize(u) > 0
  <2>1. VarintSize(u) \in 1..MaxVarintBytes /\ MaxVarintBytes \in Nat
    BY VarintSizeIs, MaxVarint
  <2>2. WriteVarint(u) \in Seq(Nat) /\ Len(WriteVarint(u)) = VarintSize(u)
    BY WriteVarintIs
  <2> QED BY <2>1, <2>2
<1>5. CASE t \in FixedTypes
  <2> DEFINE u == Unsigned(v, w)
  <2>1. SizeNoTag(t, v) = w \div 8 /\ WriteNoTag(t, v) = WriteLittleEndian(u, w)
    BY <1>5, TraitsAre DEF SizeNoTag, WriteNoTag, w
  <2>2. u \in Nat
    <3>1. v \in Int BY <1>5, TraitsAre DEF Holds
    <3> QED BY <1>2, <3>1 DEF Unsigned
  <2> HIDE DEF u
  <2>3. ASSUME NEW i \in 1..(w \div 8) PROVE Digit(u, 256, i) \in Nat
    <3>1. i \in Nat /\ i > 0 BY <1>2
    <3>2. ASSUME NEW b \in Nat, b > 0 PROVE Digit(u, b, i) \in 0..(b - 1)
      BY <2>2, <3>1, <3>2, DigitType
    <3>3. 256 \in Nat /\ 256 > 0 OBVIOUS
    <3>4. Digit(u, 256, i) \in 0..(256 - 1) BY <3>2, <3>3, Zenon
    <3> QED BY <3>4
  <2>4. w \div 8 \in Nat /\ w \div 8 > 0 BY <1>2
  <2>5. WriteLittleEndian(u, w) \in Seq(Nat) /\ Len(WriteLittleEndian(u, w)) = w \div 8
    BY <2>3, <2>4 DEF WriteLittleEndian
  <2> QED BY <2>1, <2>4, <2>5
<1>6. CASE t = "BoolValue"
  <2>1. SizeNoTag(t, v) = 1 /\ WriteNoTag(t, v) = WriteVarint(Unsigned(v, W64))
        /\ v \in {0, 1}
    BY <1>6, TraitsAre DEF SizeNoTag, WriteNoTag, Holds
  <2>2. Unsigned(v, W64) = v
    <3>1. v \in Nat /\ v < Power(2)[W64] 
      <4>1. Power(2)[W64] > 1 BY <1>3
      <4> QED BY <2>1, <4>1, <1>3
    <3> QED BY <1>3, <3>1, SmallMod DEF Unsigned
  <2>3. VarintSize(v) = 1 BY <2>1, OneByte
  <2> QED BY <1>4, <2>1, <2>2, <2>3
<1>7. CASE Traits[t].as = "zigzag"
  <2>1. SizeNoTag(t, v) = VarintSize(ZigZagEncode(v))
        /\ WriteNoTag(t, v) = WriteVarint(ZigZagEncode(v))
    BY <1>7, TraitsAre DEF SizeNoTag, WriteNoTag
  <2>2. ZigZagEncode(v) \in Nat
    BY <1>1, <1>7, ZigZagInverse DEF Holds, w
  <2> QED BY <1>4, <2>1, <2>2
<1>8. CASE t \notin FixedTypes /\ Traits[t].as = "signed"
  <2>1. SizeNoTag(t, v) = (IF v < 0 THEN MaxVarintBytes ELSE VarintSize(v))
        /\ WriteNoTag(t, v) = WriteVarint(Unsigned(v, W64))
    BY <1>8, TraitsAre DEF SizeNoTag, WriteNoTag
  <2>2. v \in Int /\ -Power(2)[w - 1] <= v /\ v < Power(2)[w - 1]
    BY <1>8 DEF Holds, w
  <2>3. /\ Unsigned(v, W64) \in Nat
        /\ v >= 0 => Unsigned(v, W64) = v
        /\ v < 0 => Unsigned(v, W64) = v + Power(2)[W64]
    BY <1>1, <2>2, SignedInverse
  <2>4. CASE v >= 0 BY <1>4, <2>1, <2>2, <2>3, <2>4
  <2>5. CASE v < 0
    <3>1. v + Power(2)[W64] >= Power(2)[W64 - 1] BY <1>2, <1>3, <2>2
    <3>2. VarintSize(Unsigned(v, W64)) = MaxVarintBytes
      BY <2>3, <2>5, <3>1, LongestVarint
    <3> QED BY <1>4, <2>1, <2>3, <2>5, <3>2
  <2> QED BY <2>2, <2>4, <2>5
<1>9. CASE t \notin FixedTypes /\ Traits[t].as = "unsigned"
  <2>1. SizeNoTag(t, v) = VarintSize(v) /\ WriteNoTag(t, v) = WriteVarint(Unsigned(v, W64))
    BY <1>9, TraitsAre DEF SizeNoTag, WriteNoTag
  <2>2. v \in Nat /\ v < Power(2)[w] BY <1>9 DEF Holds, w
  <2>3. Unsigned(v, W64) = v BY <1>2, <1>3, <2>2, SmallMod DEF Unsigned
  <2> QED BY <1>4, <2>1, <2>2, <2>3
<1> QED BY <1>5, <1>6, <1>7, <1>8, <1>9, TraitsAre

\* A number of any type is read back as it was written: ReadNumber after
\* WriteNoTag gives the number and stops behind its last byte.
THEOREM NumberRoundTrip ==
    ASSUME NEW t \in NumericTypes, NEW v, Holds(t, v),
           NEW in \in Seq(Nat), NEW p \in Nat, p > 0, NEW lim \in Nat,
           Stands(in, p, WriteNoTag(t, v), lim)
    PROVE  ReadNumber(t, in, p, lim) = Got(v, p + Len(WriteNoTag(t, v)))
<1> DEFINE w == Traits[t].w
           s == WriteNoTag(t, v)
           q == p + Len(s)
<1>1. w \in {W32, W64} BY TraitsAre
<1>2. /\ w \in Nat /\ w > 0 /\ w % 8 = 0 /\ Power(2)[w - 1] \in Nat
      /\ Power(2)[w] \in Nat /\ Power(2)[w] > 0 /\ Power(2)[w] <= Power(2)[W64]
      /\ Power(2)[w] = 2 * Power(2)[w - 1]
  BY <1>1, WidthsAre
<1>3. Power(2)[W64] \in Nat BY WidthsAre
<1> HIDE DEF w
<1>4. ASSUME NEW u \in Nat, u < Power(2)[W64], s = WriteVarint(u), Traits[t].read = "varint"
      PROVE  Read(t, in, p, lim) = Got(Unsigned(u, w), q)
  <2>0. Stands(in, p, WriteVarint(u), lim) BY <1>4
  <2> HIDE DEF s, q
  <2>1. ReadVarint(in, p, lim, w) = Got(Unsigned(u, w), p + Len(WriteVarint(u)))
    BY <1>2, <1>4, <2>0, VarintRoundTrip
  <2> USE DEF q
  <2> QED BY <1>4, <2>1 DEF Read, w
<1>5. ASSUME NEW x, Read(t, in, p, lim) = Got(x, q), Transform(t, x) = v
      PROVE  ReadNumber(t, in, p, lim) = Got(v, q)
  <2> HIDE DEF q, s
  <2>1. ReadNumber(t, in, p, lim) = [Got(x, q) EXCEPT !.v = Transform(t, @)]
    BY <1>5 DEF ReadNumber
  <2>2. @ = [Got(x, q) EXCEPT !.v = v] BY <1>5 DEF Got
  <2> QED BY <2>1, <2>2 DEF Got
<1> HIDE DEF q
<1>6. CASE t \in FixedTypes
  <2> DEFINE u == Unsigned(v, w)
  <2>1. s = WriteLittleEndian(u, w) /\ Traits[t].read = "fixed"
        /\ Traits[t].as \in {"signed", "unsigned"}
    BY <1>6, TraitsAre DEF WriteNoTag, w
  <2>2. u \in Nat /\ u < Power(2)[w] /\ Transform(t, u) = v
    <3>1. CASE Traits[t].as = "signed"
      <4>1. v \in Int /\ -Power(2)[w - 1] <= v /\ v < Power(2)[w - 1]
        BY <3>1 DEF Holds, w
      <4>2. u \in Nat /\ u < Power(2)[w] /\ Signed(u, w) = v
        BY <1>1, <4>1, SignedInverse
      <4> QED BY <3>1, <4>2 DEF Transform, w
    <3>2. CASE Traits[t].as = "unsigned"
      <4>1. v \in Nat /\ v < Power(2)[w] BY <3>2 DEF Holds, w
      <4>2. u = v BY <1>2, <4>1, SmallMod DEF Unsigned
      <4> QED BY <3>2, <4>1, <4>2 DEF Transform
    <3> QED BY <2>1, <3>1, <3>2
  <2> HIDE DEF u
  <2>3. ReadLittleEndian(in, p, lim, w) = Got(u, p + Len(WriteLittleEndian(u, w)))
    <3>1. Stands(in, p, WriteLittleEndian(u, w), lim) BY <2>1
    <3> HIDE DEF s
    <3> QED BY <1>2, <2>2, <3>1, LittleEndianRoundTrip
  <2>4. Read(t, in, p, lim) = Got(u, q) BY <2>1, <2>3 DEF Read, w, q
  <2> QED BY <1>5, <2>2, <2>4 DEF q
<1>7. CASE t \notin FixedTypes /\ Traits[t].as = "zigzag"
  <2> DEFINE u == ZigZagEncode(v)
  <2>1. s = WriteVarint(u) /\ Traits[t].read = "varint"
    BY <1>7, TraitsAre DEF WriteNoTag
  <2>2. v \in Int /\ -Power(2)[w - 1] <= v /\ v < Power(2)[w - 1]
    BY <1>7 DEF Holds, w
  <2>3. u \in Nat /\ u < Power(2)[w] /\ ZigZagDecode(u) = v
    BY <1>1, <2>2, ZigZagInverse
  <2> HIDE DEF u
  <2>4. Read(t, in, p, lim) = Got(Unsigned(u, w), q)
    BY <1>2, <1>3, <1>4, <2>1, <2>3
  <2>5. Unsigned(u, w) = u BY <1>2, <2>3, SmallMod DEF Unsigned
  <2>6. Transform(t, u) = v BY <1>7, <2>3 DEF Transform
  <2> QED BY <1>5, <2>4, <2>5, <2>6 DEF q
<1>8. CASE t \notin FixedTypes /\ Traits[t].as # "zigzag"
  <2> DEFINE u == Unsigned(v, W64)
  <2>1. s = WriteVarint(u) /\ Traits[t].read = "varint"
    BY <1>8, TraitsAre DEF WriteNoTag
  <2>2. u \in Nat /\ u < Power(2)[W64] /\ Transform(t, Unsigned(u, w)) = v
    <3>1. CASE Traits[t].as = "signed"
      <4>1. v \in Int /\ -Power(2)[w - 1] <= v /\ v < Power(2)[w - 1]
        BY <3>1 DEF Holds, w
      <4>2. /\ u \in Nat /\ u < Power(2)[W64] /\ Unsigned(u, w) = Unsigned(v, w)
            /\ Signed(Unsigned(v, w), w) = v
        BY <1>1, <4>1, SignedInverse
      <4> QED BY <3>1, <4>2 DEF Transform, w
    <3>2. CASE Traits[t].as \in {"bool", "unsigned"}
      <4>1. v \in Nat /\ v < Power(2)[w]
        <5>1. CASE Traits[t].as = "bool"
          <6>1. v \in {0, 1} BY <5>1 DEF Holds
          <6>2. Power(2)[w] > 1 BY <1>2
          <6> QED BY <1>2, <6>1, <6>2
        <5>2. CASE Traits[t].as = "unsigned" BY <5>2 DEF Holds, w
        <5> QED BY <3>2, <5>1, <5>2
      <4>2. v < Power(2)[W64] BY <1>2, <1>3, <4>1
      <4>3. u = v BY <1>3, <4>1, <4>2, SmallMod DEF Unsigned
      <4>4. Unsigned(v, w) = v BY <1>2, <4>1, SmallMod DEF Unsigned
      <4>5. Transform(t, v) = v
        <5>1. CASE Traits[t].as = "bool" BY <5>1 DEF Transform, Holds
        <5>2. CASE Traits[t].as = "unsigned" BY <5>2 DEF Transform
        <5> QED BY <3>2, <5>1, <5>2
      <4> QED BY <4>1, <4>2, <4>3, <4>4, <4>5
    <3> QED BY <1>8, <3>1, <3>2, TraitsAre
  <2> HIDE DEF u
  <2>3. Read(t, in, p, lim) = Got(Unsigned(u, w), q) BY <1>4, <2>1, <2>2
  <2> QED BY <1>5, <2>2, <2>3 DEF q
<1> QED BY <1>6, <1>7, <1>8

------------------------------------------------------------------------------
(* Sequences one after the other.                                          *)

\* C holds the first i of the n sequences s one after the other, for every i.
Joins(C, s, n, T) ==
    /\ C \in [0..n -> Seq(T)] /\ C[0] = <<>>
    /\ \A i \in 1..n : s[i] \in Seq(T) /\ C[i] = C[i - 1] \o s[i]

\* The sums of the first i of the n numbers s.
Adds(S, s, n) ==
    S \in [0..n -> Int] /\ S[0] = 0 /\ \A i \in 1..n : S[i] = S[i - 1] + s[i]

\* Two sequences one after the other.
LEMMA CatIs ==
    ASSUME NEW T, NEW a \in Seq(T), NEW b \in Seq(T), NEW c, c = a \o b
    PROVE  /\ c \in Seq(T) /\ Len(a) \in Nat /\ Len(b) \in Nat
           /\ Len(c) = Len(a) + Len(b)
           /\ \A k \in 1..Len(a) : c[k] = a[k]
           /\ \A k \in 1..Len(b) : c[Len(a) + k] = b[k]
OBVIOUS

\* Concat joins from the left: any function with its equations ends in the result.
LEMMA JoinsIs ==
    ASSUME NEW T, NEW n \in Nat, NEW s, Len(s) = n, NEW C, Joins(C, s, n, T)
    PROVE  Concat(s) = C[n]
<1>1. /\ DOMAIN C = 0..n /\ C = [i \in 0..n |-> C[i]] /\ C[0] = <<>>
      /\ \A i \in 1..n : C[i] = C[i - 1] \o s[i]
  BY DEF Joins
<1>2. C = [i \in 0..n |-> IF i = 0 THEN <<>> ELSE C[i - 1] \o s[i]]
  <2>1. ASSUME NEW i \in 0..n PROVE C[i] = IF i = 0 THEN <<>> ELSE C[i - 1] \o s[i]
    <3>1. CASE i = 0 BY <1>1, <3>1
    <3>2. CASE i # 0
      <4>1. i \in 1..n BY <3>2
      <4> QED BY <1>1, <3>2, <4>1
    <3> QED BY <3>1, <3>2
  <2> QED BY <1>1, <2>1, Zenon
<1> DEFINE E == CHOOSE E : E = [i \in 0..n |-> IF i = 0 THEN <<>> ELSE E[i - 1] \o s[i]]
<1>3. E = [i \in 0..n |-> IF i = 0 THEN <<>> ELSE E[i - 1] \o s[i]] BY <1>2
<1>4. Concat(s) = E[n] BY DEF Concat
<1> HIDE DEF E
<1> DEFINE D == {i \in Nat : i <= n => E[i] = C[i]}
<1>5. 0 \in D BY <1>1, <1>3
<1>6. ASSUME NEW i \in Nat, i \in D PROVE i + 1 \in D
  <2> SUFFICES ASSUME i + 1 <= n PROVE E[i + 1] = C[i + 1] OBVIOUS
  <2>1. i + 1 \in 0..n /\ i + 1 \in 1..n /\ (i + 1) - 1 = i /\ i + 1 # 0 OBVIOUS
  <2>2. E[i + 1] = E[i] \o s[i + 1] BY <1>3, <2>1
  <2>3. C[i + 1] = C[i] \o s[i + 1] BY <1>1, <2>1
  <2>4. E[i] = C[i] BY <1>6
  <2> QED BY <2>2, <2>3, <2>4, Zenon
<1> HIDE DEF D
<1>7. n \in D BY <1>5, <1>6, NatsIn
<1> QED BY <1>4, <1>7 DEF D

\* s is a list of n sequences over T.
Lists(s, n, T) == Len(s) = n /\ \A i \in 1..n : s[i] \in Seq(T)

\* Every list of sequences can be joined, and Concat is the result.
LEMMA ConcatIs ==
    ASSUME NEW T, NEW n \in Nat, NEW s, Lists(s, n, T)
    PROVE  \E C : Joins(C, s, n, T) /\ Concat(s) = C[n]
<1> USE DEF Lists
<1> DEFINE step == [k \in Nat |-> [x \in Seq(T) |->
                        IF k + 1 <= n THEN x \o s[k + 1] ELSE x]]
<1>1. step \in Steps(Seq(T))
  <2>1. ASSUME NEW k \in Nat, NEW x \in Seq(T)
        PROVE  (IF k + 1 <= n THEN x \o s[k + 1] ELSE x) \in Seq(T)
    <3>1. CASE k + 1 <= n
      <4>1. s[k + 1] \in Seq(T) BY <3>1
      <4> QED BY <3>1, <4>1
    <3>2. CASE ~(k + 1 <= n) BY <3>2
    <3> QED BY <3>1, <3>2
  <2> QED BY <2>1 DEF Steps
<1>2. <<>> \in Seq(T) OBVIOUS
<1>3. \E f : Computes(Seq(T), <<>>, step, f)
  <2> HIDE DEF step
  <2> QED BY <1>1, <1>2, Recursion
<1> PICK f : Computes(Seq(T), <<>>, step, f) BY <1>3
<1> DEFINE C == [i \in 0..n |-> f[i]]
<1>4. Joins(C, s, n, T)
  <2>1. f \in [Nat -> Seq(T)] /\ f[0] = <<>> /\ \A k \in Nat : f[k + 1] = step[k][f[k]]
    BY DEF Computes
  <2>2. C \in [0..n -> Seq(T)] /\ C[0] = <<>> BY <2>1
  <2>3. ASSUME NEW i \in 1..n PROVE s[i] \in Seq(T) /\ C[i] = C[i - 1] \o s[i]
    <3>1. i - 1 \in Nat /\ (i - 1) + 1 = i /\ i - 1 \in 0..n /\ i \in 0..n OBVIOUS
    <3>2. f[i] = step[i - 1][f[i - 1]] BY <2>1, <3>1
    <3>3. f[i - 1] \in Seq(T) BY <2>1, <3>1
    <3>4. step[i - 1][f[i - 1]] = f[i - 1] \o s[i] BY <3>1, <3>3
    <3> QED BY <3>1, <3>2, <3>4
  <2> HIDE DEF C
  <2> QED BY <2>2, <2>3 DEF Joins
<1> HIDE DEF C, step
<1>5. Concat(s) = C[n] BY <1>4, JoinsIs
<1> QED BY <1>4, <1>5

\* Every list of numbers can be added, and SumOf is the result.
LEMMA SumExists ==
    ASSUME NEW n \in Nat, NEW s, Len(s) = n, \A i \in 1..n : s[i] \in Int
    PROVE  \E S : Adds(S, s, n) /\ SumOf(s) = S[n]
<1> DEFINE step == [k \in Nat |-> [x \in Int |-> IF k + 1 <= n THEN x + s[k + 1] ELSE x]]
<1>1. step \in Steps(Int)
  <2>1. ASSUME NEW k \in Nat, NEW x \in Int
        PROVE  (IF k + 1 <= n THEN x + s[k + 1] ELSE x) \in Int
    <3>1. CASE k + 1 <= n
      <4>1. s[k + 1] \in Int BY <3>1
      <4> QED BY <3>1, <4>1
    <3>2. CASE ~(k + 1 <= n) BY <3>2
    <3> QED BY <3>1, <3>2
  <2> QED BY <2>1 DEF Steps
<1>2. 0 \in Int OBVIOUS
<1>3. \E f : Computes(Int, 0, step, f)
  <2> HIDE DEF step
  <2> QED BY <1>1, <1>2, Recursion
<1> PICK f : Computes(Int, 0, step, f) BY <1>3
<1> DEFINE S == [i \in 0..n |-> f[i]]
<1>4. S \in [0..n -> Int] /\ S[0] = 0 /\ \A i \in 1..n : S[i] = S[i - 1] + s[i]
  <2>1. f \in [Nat -> Int] /\ f[0] = 0 /\ \A k \in Nat : f[k + 1] = step[k][f[k]]
    BY DEF Computes
  <2>2. S \in [0..n -> Int] /\ S[0] = 0 BY <2>1
  <2>3. ASSUME NEW i \in 1..n PROVE S[i] = S[i - 1] + s[i]
    <3>1. i - 1 \in Nat /\ (i - 1) + 1 = i /\ i - 1 \in 0..n /\ i \in 0..n OBVIOUS
    <3>2. f[i] = step[i - 1][f[i - 1]] BY <2>1, <3>1
    <3>3. f[i - 1] \in Int BY <2>1, <3>1
    <3>4. step[i - 1][f[i - 1]] = f[i - 1] + s[i] BY <3>1, <3>3
    <3> QED BY <3>1, <3>2, <3>4
  <2> HIDE DEF S
  <2> QED BY <2>2, <2>3
<1> HIDE DEF S, step
<1>5. SumOf(s) = S[n] BY <1>4, SumIs
<1>6. Adds(S, s, n) BY <1>4 DEF Adds
<1> QED BY <1>5, <1>6

\* c starts with a.
Starts(a, c) == Len(a) <= Len(c) /\ \A k \in 1..Len(a) : c[k] = a[k]

\* What was joined first stays in front.
LEMMA JoinsPrefix ==
    ASSUME NEW T, NEW n \in Nat, NEW s, NEW C, Joins(C, s, n, T), NEW i \in 0..n, NEW m \in 0..n, i <= m
    PROVE  Starts(C[i], C[m])
<1> USE DEF Starts
<1> DEFINE D == {j \in Nat : i <= j /\ j <= n =>
                    /\ Len(C[i]) <= Len(C[j])
                    /\ \A k \in 1..Len(C[i]) : C[j][k] = C[i][k]}
<1>1. /\ C \in [0..n -> Seq(T)]
      /\ \A j \in 1..n : s[j] \in Seq(T) /\ C[j] = C[j - 1] \o s[j]
  BY DEF Joins
<1>2. 0 \in D BY <1>1
<1>3. ASSUME NEW j \in Nat, j \in D PROVE j + 1 \in D
  <2> SUFFICES ASSUME i <= j + 1, j + 1 <= n
               PROVE  /\ Len(C[i]) <= Len(C[j + 1])
                      /\ \A k \in 1..Len(C[i]) : C[j + 1][k] = C[i][k]
    OBVIOUS
  <2>1. CASE i = j + 1 BY <1>1, <2>1
  <2>2. CASE i <= j
    <3>1. j + 1 \in 1..n /\ (j + 1) - 1 = j /\ j \in 0..n BY <2>2
    <3> DEFINE a == C[j]
               b == s[j + 1]
               c == C[j + 1]
               d == C[i]
    <3>2. c = a \o b /\ a \in Seq(T) /\ b \in Seq(T) /\ d \in Seq(T) BY <1>1, <3>1
    <3>3. Len(d) <= Len(a) /\ \A k \in 1..Len(d) : a[k] = d[k]
      BY <1>3, <2>2, <3>1
    <3> HIDE DEF D
    <3> SUFFICES Len(d) <= Len(c) /\ \A k \in 1..Len(d) : c[k] = d[k]
      OBVIOUS
    <3> HIDE DEF a, b, c, d
    <3>4. /\ Len(c) = Len(a) + Len(b) /\ Len(a) \in Nat /\ Len(b) \in Nat
          /\ \A k \in 1..Len(a) : c[k] = a[k]
      BY <3>2, CatIs
    <3>5. Len(d) \in Nat BY <3>2
    <3>6. ASSUME NEW k \in 1..Len(d) PROVE c[k] = d[k]
      <4>1. k \in 1..Len(a) BY <3>3, <3>4, <3>5
      <4> QED BY <3>3, <3>4, <4>1
    <3> QED BY <3>3, <3>4, <3>5, <3>6
  <2> QED BY <2>1, <2>2
<1> HIDE DEF D
<1>4. m \in D BY <1>2, <1>3, NatsIn
<1> QED BY <1>4 DEF D

\* In the whole, b follows a and ends where c ends.
Follows(a, b, c, all, T) ==
    /\ a \in Seq(T) /\ b \in Seq(T) /\ c \in Seq(T) /\ all \in Seq(T)
    /\ Len(a) \in Nat /\ Len(b) \in Nat /\ Len(c) \in Nat /\ Len(all) \in Nat
    /\ Len(c) = Len(a) + Len(b) /\ Len(c) <= Len(all)
    /\ \A k \in 1..Len(b) : all[Len(a) + k] = b[k]

\* Each joined sequence stands where the ones before it end.
LEMMA JoinsPart ==
    ASSUME NEW T, NEW n \in Nat, NEW s, NEW C, Joins(C, s, n, T), NEW i \in 1..n
    PROVE  Follows(C[i - 1], s[i], C[i], C[n], T)
<1> DEFINE a == C[i - 1]
           b == s[i]
           c == C[i]
           all == C[n]
<1>1. C \in [0..n -> Seq(T)] /\ b \in Seq(T) /\ c = a \o b
  BY DEF Joins
<1>2. all \in Seq(T) /\ c \in Seq(T) /\ a \in Seq(T) BY <1>1
<1>3. Len(c) <= Len(all) /\ \A k \in 1..Len(c) : all[k] = c[k]
  <2>1. i \in 0..n /\ n \in 0..n /\ i <= n OBVIOUS
  <2>2. Starts(C[i], C[n]) BY <2>1, JoinsPrefix
  <2> QED BY <2>2 DEF Starts
<1> HIDE DEF a, b, c, all
<1>4. /\ Len(c) = Len(a) + Len(b) /\ Len(a) \in Nat /\ Len(b) \in Nat
      /\ \A k \in 1..Len(b) : c[Len(a) + k] = b[k]
  BY <1>1, <1>2, CatIs
<1>5. ASSUME NEW k \in 1..Len(b) PROVE all[Len(a) + k] = b[k]
  <2>1. Len(a) + k \in 1..Len(c) BY <1>4
  <2> QED BY <1>3, <1>4, <2>1
<1>6. Len(all) \in Nat BY <1>2
<1>7. Follows(a, b, c, all, T) BY <1>1, <1>2, <1>3, <1>4, <1>5, <1>6 DEF Follows
<1> QED BY <1>7 DEF a, b, c, all

\* The bytes of each number of a packed list.
Elements(t, vs) == [i \in 1..Len(vs) |-> WriteNoTag(t, vs[i])]

\* PackedSize is the number of bytes of the packed list: one after the other
\* the bytes of its numbers, each of them at least one.
LEMMA PackedIs ==
    ASSUME NEW t \in NumericTypes, NEW vs \in Seq(Int), \A i \in 1..Len(vs) : Holds(t, vs[i])
    PROVE  /\ PackedBytes(t, vs) \in Seq(Nat)
           /\ Len(PackedBytes(t, vs)) = PackedSize(t, vs) /\ PackedSize(t, vs) \in Nat
           /\ Len(vs) <= PackedSize(t, vs)
           /\ \E C : Joins(C, Elements(t, vs), Len(vs), Nat) /\ PackedBytes(t, vs) = C[Len(vs)]
<1> DEFINE n == Len(vs)
           s == Elements(t, vs)
           z == [i \in 1..n |-> SizeNoTag(t, vs[i])]
<1>1. n \in Nat /\ Len(s) = n /\ Len(z) = n /\ DOMAIN vs = 1..n BY DEF Elements
<1>2. PackedBytes(t, vs) = Concat(s) /\ PackedSize(t, vs) = SumOf(z)
  BY <1>1 DEF PackedBytes, PackedSize, MapSeq, Elements
<1>3. ASSUME NEW i \in 1..n
      PROVE  /\ s[i] \in Seq(Nat) /\ Len(s[i]) = z[i] /\ z[i] \in Nat /\ z[i] > 0
  <2>1. s[i] = WriteNoTag(t, vs[i]) /\ z[i] = SizeNoTag(t, vs[i]) BY <1>1 DEF Elements
  <2> QED BY <2>1, NumberSize
<1> HIDE DEF n, s, z
<1>31. Lists(s, n, Nat) BY <1>1, <1>3 DEF Lists
<1>4. PICK C : Joins(C, s, n, Nat) /\ Concat(s) = C[n] BY <1>1, <1>31, ConcatIs
<1> DEFINE S == [i \in 0..n |-> Len(C[i])]
<1>5. C \in [0..n -> Seq(Nat)] /\ C[0] = <<>> BY <1>4 DEF Joins
<1>6. ASSUME NEW i \in 1..n
      PROVE S[i] = S[i - 1] + z[i] /\ S[i] \in Nat /\ S[i - 1] \in Nat
  <2>1. i \in 0..n /\ i - 1 \in 0..n BY <1>1
  <2> DEFINE a == C[i - 1]
             b == s[i]
             c == C[i]
             all == C[n]
  <2>2. Follows(a, b, c, all, Nat) BY <1>1, <1>4, JoinsPart
  <2>3. S[i] = Len(c) /\ S[i - 1] = Len(a) /\ z[i] = Len(b) BY <1>3, <2>1
  <2> HIDE DEF a, b, c, all, S
  <2> QED BY <2>2, <2>3 DEF Follows
<1>7. S \in [0..n -> Int] /\ S[0] = 0 BY <1>1, <1>5
<1> HIDE DEF S
<1>8. SumOf(z) = S[n] BY <1>1, <1>6, <1>7, SumIs
<1> DEFINE D == {i \in Nat : i <= n => i <= S[i]}
<1>9. 0 \in D BY <1>7
<1>10. ASSUME NEW i \in Nat, i \in D PROVE i + 1 \in D
  <2> SUFFICES ASSUME i + 1 <= n PROVE i + 1 <= S[i + 1] OBVIOUS
  <2>1. i + 1 \in 1..n /\ (i + 1) - 1 = i BY <1>1
  <2>2. S[i + 1] = S[i] + z[i + 1] /\ S[i] \in Nat BY <1>6, <2>1
  <2>3. z[i + 1] \in Nat /\ z[i + 1] > 0 BY <1>3, <2>1
  <2> QED BY <1>1, <1>10, <2>2, <2>3
<1> HIDE DEF D
<1>11. n \in D BY <1>1, <1>9, <1>10, NatsIn
<1>12. n <= S[n] BY <1>1, <1>11 DEF D
<1>13. C[n] \in Seq(Nat) /\ S[n] = Len(C[n]) /\ Len(C[n]) \in Nat BY <1>1, <1>5 DEF S
<1> QED BY <1>2, <1>4, <1>8, <1>12, <1>13 DEF s, n

\* A part that follows stands in the input where the parts before it end.
LEMMA PartStands ==
    ASSUME NEW T, NEW a, NEW b, NEW c, NEW all, Follows(a, b, c, all, T),
           NEW in \in Seq(Nat), NEW p \in Nat, NEW lim \in Nat, Stands(in, p, all, lim)
    PROVE  Stands(in, p + Len(a), b, lim)
<1>1. /\ Len(a) \in Nat /\ Len(b) \in Nat /\ Len(c) \in Nat /\ Len(all) \in Nat
      /\ Len(c) = Len(a) + Len(b) /\ Len(c) <= Len(all)
      /\ \A k \in 1..Len(b) : all[Len(a) + k] = b[k]
  BY DEF Follows
<1>2. /\ p + Len(all) - 1 <= lim /\ p + Len(all) - 1 <= Len(in)
      /\ \A i \in 1..Len(all) : in[p + i - 1] = all[i]
  BY DEF Stands, Readable
<1>3. Len(in) \in Nat OBVIOUS
<1>4. (p + Len(a)) + Len(b) - 1 <= lim /\ (p + Len(a)) + Len(b) - 1 <= Len(in)
  BY <1>1, <1>2, <1>3
<1>5. ASSUME NEW k \in 1..Len(b) PROVE in[(p + Len(a)) + k - 1] = b[k]
  <2>1. Len(a) + k \in 1..Len(all) BY <1>1
  <2>2. in[p + (Len(a) + k) - 1] = all[Len(a) + k] BY <1>2, <2>1
  <2>3. p + (Len(a) + k) - 1 = (p + Len(a)) + k - 1 BY <1>1
  <2> QED BY <1>1, <2>2, <2>3
<1> QED BY <1>4, <1>5 DEF Stands, Readable

\* A packed list is read back as it was written: ReadPacked up to the limit at
\* the end of PackedBytes gives the list and stops behind the limit.
THEOREM PackedRoundTrip ==
    ASSUME NEW t \in NumericTypes, NEW vs \in Seq(Int), \A i \in 1..Len(vs) : Holds(t, vs[i]),
           NEW in \in Seq(Nat), NEW p \in Nat, p > 0, NEW lim \in Nat,
           lim = p + PackedSize(t, vs) - 1, Stands(in, p, PackedBytes(t, vs), lim)
    PROVE  ReadPacked(t, in, p, lim) = Got(vs, lim + 1)
<1> DEFINE n == Len(vs)
           s == Elements(t, vs)
           all == PackedBytes(t, vs)
<1>1. /\ n \in Nat /\ all \in Seq(Nat) /\ Len(all) = PackedSize(t, vs)
      /\ PackedSize(t, vs) \in Nat /\ n <= Len(all)
  BY PackedIs
<1>2. PICK C : Joins(C, s, n, Nat) /\ all = C[n] BY PackedIs
<1>3. ASSUME NEW i \in 1..n
      PROVE  /\ Holds(t, vs[i]) /\ s[i] = WriteNoTag(t, vs[i])
             /\ Len(s[i]) \in Nat /\ Len(s[i]) > 0
  <2>1. Holds(t, vs[i]) /\ s[i] = WriteNoTag(t, vs[i]) BY DEF Elements
  <2> QED BY <2>1, NumberSize
<1>4. n <= Len(in)
  <2>1. p + Len(all) - 1 <= Len(in) BY DEF Stands, Readable
  <2>2. Len(in) \in Nat OBVIOUS
  <2> QED BY <1>1, <2>1, <2>2
<1>5. vs = [j \in 1..n |-> vs[j]] OBVIOUS
<1>6. Stands(in, p, all, lim) /\ lim + 1 = p + Len(all) BY <1>1
<1> DEFINE L(i) == Len(C[i])
           G(i) == IF i < n THEN Got([j \in 1..i |-> vs[j]], p + L(i)) ELSE Got(vs, lim + 1)
           step(r) == ReadElement(t, in, lim, r)
<1>7. L(0) = 0 BY <1>2 DEF Joins
<1> HIDE DEF n, s, all
<1>8. ASSUME NEW i \in 1..n
      PROVE  /\ L(i - 1) \in Nat /\ L(i) \in Nat /\ L(i) = L(i - 1) + Len(s[i])
             /\ L(i) <= Len(all) /\ Stands(in, p + L(i - 1), s[i], lim)
  <2> DEFINE a == C[i - 1]
             b == s[i]
             c == C[i]
  <2>1. Follows(a, b, c, all, Nat) BY <1>1, <1>2, JoinsPart
  <2> HIDE DEF a, b, c
  <2>2. Stands(in, p + Len(a), b, lim) BY <1>6, <2>1, PartStands
  <2>3. /\ Len(a) \in Nat /\ Len(c) \in Nat /\ Len(c) = Len(a) + Len(b)
        /\ Len(c) <= Len(all)
    BY <2>1 DEF Follows
  <2> QED BY <2>2, <2>3 DEF a, b, c
<1>9. ASSUME NEW i \in 1..n
      PROVE G(i - 1) = Got([j \in 1..(i - 1) |-> vs[j]], p + L(i - 1))
  BY <1>1
<1>10. G(n) = Got(vs, lim + 1) BY <1>1
<1>11. ASSUME NEW i \in 1..n
       PROVE  G(i) = Got([j \in 1..i |-> vs[j]], p + L(i))
  <2>1. CASE i < n BY <2>1
  <2>2. CASE i = n
    <3>1. L(n) = Len(all) BY <1>2
    <3> QED BY <1>5, <1>6, <1>10, <2>2, <3>1
  <2> QED BY <1>1, <2>1, <2>2
<1> HIDE DEF G, L
<1>12. ASSUME NEW i \in 1..n PROVE step(G(i - 1)) = G(i)
  <2> DEFINE f == [j \in 1..(i - 1) |-> vs[j]]
             q == p + L(i - 1)
             x == vs[i]
             e == WriteNoTag(t, x)
  <2>1. q \in Nat /\ q > 0 /\ Stands(in, q, e, lim) /\ Holds(t, x)
    BY <1>3, <1>8
  <2>2. q + Len(e) = p + L(i) /\ q <= lim
    <3> DEFINE a == L(i - 1)
               b == Len(s[i])
               c == L(i)
    <3>1. e = s[i] /\ b \in Nat /\ b > 0 BY <1>3
    <3>2. a \in Nat /\ c \in Nat /\ c = a + b /\ c <= Len(all) BY <1>8
    <3>3. lim + 1 = p + Len(all) /\ Len(all) \in Nat BY <1>1, <1>6
    <3> SUFFICES (p + a) + b = p + c /\ p + a <= lim BY <3>1
    <3> HIDE DEF a, b, c, e
    <3> QED BY <3>1, <3>2, <3>3
  <2>3. Append(f, x) = [j \in 1..i |-> vs[j]]
    <3>1. Len(f) = i - 1 /\ f \in Seq(Int) BY <1>1 DEF n
    <3>2. (i - 1) + 1 = i BY <1>1
    <3>3. DOMAIN Append(f, x) = 1..i /\ \A j \in 1..i : Append(f, x)[j] = vs[j]
      BY <1>1, <3>1, <3>2
    <3>4. Append(f, x) \in Seq(Int) BY <3>1 DEF n
    <3> QED BY <3>3, <3>4
  <2> HIDE DEF f, q, x, e
  <2>4. ReadNumber(t, in, q, lim) = Got(x, q + Len(e)) BY <2>1, NumberRoundTrip DEF e
  <2>5. G(i - 1) = Got(f, q) BY <1>9 DEF f, q
  <2>6. ReadElement(t, in, lim, Got(f, q)) = Got(Append(f, x), q + Len(e))
    <3>1. Got(f, q).ok /\ Got(f, q).p = q /\ Got(f, q).v = f BY DEF Got
    <3>2. /\ Got(x, q + Len(e)).ok /\ Got(x, q + Len(e)).v = x
          /\ Got(x, q + Len(e)).p = q + Len(e)
      BY DEF Got
    <3>3. ~(q > lim) BY <2>1, <2>2
    <3> QED BY <2>2, <2>4, <3>1, <3>2, <3>3 DEF ReadElement
  <2>7. G(i) = Got([j \in 1..i |-> vs[j]], p + L(i)) BY <1>11
  <2> QED BY <2>2, <2>3, <2>5, <2>6, <2>7
<1>13. step(Got(vs, lim + 1)) = Got(vs, lim + 1)
  <2> DEFINE r == Got(vs, lim + 1)
  <2>1. r.ok /\ r.p = lim + 1 BY DEF Got
  <2> HIDE DEF r
  <2>2. r.p > lim /\ ~(r.p <= lim) BY <2>1
  <2>3. ReadElement(t, in, lim, r) = r BY <2>2 DEF ReadElement
  <2> QED BY <2>3 DEF r
<1> HIDE DEF step
<1> DEFINE g == [i \in Nat |-> G(i)]
<1>14. g = [i \in Nat |-> IF i = 0 THEN Got(<<>>, p) ELSE step(g[i - 1])]
  <2>1. g[0] = Got(<<>>, p)
    <3>1. CASE n = 0
      <4>1. vs = <<>> BY <3>1 DEF n
      <4>2. lim + 1 = p
        <5>1. all = <<>> BY <1>2, <3>1 DEF Joins
        <5> QED BY <1>6, <5>1
      <4> QED BY <1>10, <3>1, <4>1, <4>2
    <3>2. CASE n > 0
      <4>1. G(0) = Got([j \in 1..0 |-> vs[j]], p + L(0)) BY <3>2 DEF G
      <4>2. [j \in 1..0 |-> vs[j]] = <<>> OBVIOUS
      <4> QED BY <1>7, <4>1, <4>2
    <3> QED BY <1>1, <3>1, <3>2
  <2>2. ASSUME NEW i \in Nat, i # 0 PROVE g[i] = step(g[i - 1])
    <3>1. CASE i \in 1..n BY <1>12, <3>1
    <3>2. CASE i \notin 1..n
      <4>1. i > n /\ i - 1 >= n /\ i - 1 \in Nat BY <1>1, <2>2, <3>2
      <4>2. G(i) = Got(vs, lim + 1) /\ G(i - 1) = Got(vs, lim + 1) BY <1>1, <4>1 DEF G
      <4> QED BY <1>13, <4>1, <4>2
    <3> QED BY <3>1, <3>2
  <2> HIDE DEF g
  <2>3. g = [i \in Nat |-> g[i]] BY DEF g
  <2> QED BY <2>1, <2>2, <2>3
<1> DEFINE R == CHOOSE R : R = [i \in Nat |-> IF i = 0 THEN Got(<<>>, p) ELSE step(R[i - 1])]
<1>15. R = [i \in Nat |-> IF i = 0 THEN Got(<<>>, p) ELSE step(R[i - 1])]
  <2> HIDE DEF g
  <2> QED BY <1>14
<1>16. ReadPacked(t, in, p, lim) = R[Len(in) + 1] BY DEF ReadPacked, step
<1> HIDE DEF R, g
<1> DEFINE D == {i \in Nat : R[i] = g[i]}
<1>17. 0 \in D BY <1>14, <1>15
<1>18. ASSUME NEW i \in Nat, i \in D PROVE i + 1 \in D
  <2>1. i + 1 \in Nat /\ i + 1 # 0 /\ (i + 1) - 1 = i OBVIOUS
  <2>2. R[i + 1] = step(R[i]) /\ g[i + 1] = step(g[i]) BY <1>14, <1>15, <2>1
  <2> QED BY <1>18, <2>2
<1> HIDE DEF D
<1>19. Len(in) + 1 \in Nat /\ ~(Len(in) + 1 < n) BY <1>1, <1>4
<1>20. R[Len(in) + 1] = g[Len(in) + 1] BY <1>17, <1>18, <1>19, NatsIn DEF D
<1>21. g[Len(in) + 1] = Got(vs, lim + 1) BY <1>19 DEF g, G
<1> QED BY <1>16, <1>20, <1>21

------------------------------------------------------------------------------
(* The size of a field is the number of bytes it takes.                    *)

\* z holds the lengths of the n sequences s.
Measures(z, s, n) == Lists(s, n, Nat) /\ Len(z) = n /\ \A i \in 1..n : z[i] = Len(s[i])

\* The length of what is joined is the sum of the lengths.
LEMMA ConcatSize ==
    ASSUME NEW n \in Nat, NEW s, NEW z, Measures(z, s, n)
    PROVE  /\ Concat(s) \in Seq(Nat) /\ Len(Concat(s)) = SumOf(z)
           /\ SumOf(z) \in Nat /\ \A i \in 1..n : z[i] \in Nat
<1>1. Lists(s, n, Nat) /\ Len(z) = n /\ \A i \in 1..n : z[i] = Len(s[i]) BY DEF Measures
<1>2. PICK C : Joins(C, s, n, Nat) /\ Concat(s) = C[n] BY <1>1, ConcatIs
<1> DEFINE S == [i \in 0..n |-> Len(C[i])]
<1>3. C \in [0..n -> Seq(Nat)] /\ C[0] = <<>> BY <1>2 DEF Joins
<1>4. ASSUME NEW i \in 1..n PROVE S[i] = S[i - 1] + z[i] /\ z[i] \in Nat
  <2>1. i \in 0..n /\ i - 1 \in 0..n BY <1>1
  <2> DEFINE a == C[i - 1]
             b == s[i]
             c == C[i]
             all == C[n]
  <2>2. Follows(a, b, c, all, Nat) BY <1>1, <1>2, JoinsPart
  <2>3. S[i] = Len(c) /\ S[i - 1] = Len(a) /\ z[i] = Len(b) BY <1>1, <2>1
  <2> HIDE DEF a, b, c, all, S
  <2> QED BY <2>2, <2>3 DEF Follows
<1>5. S \in [0..n -> Int] /\ S[0] = 0 BY <1>1, <1>3
<1>6. S[n] = Len(C[n]) /\ Len(C[n]) \in Nat /\ C[n] \in Seq(Nat) BY <1>3
<1> HIDE DEF S
<1>7. SumOf(z) = S[n] BY <1>1, <1>4, <1>5, SumIs
<1> QED BY <1>2, <1>4, <1>6, <1>7

\* The length of two sequences one after the other.
LEMMA CatSize ==
    ASSUME NEW a \in Seq(Nat), NEW b \in Seq(Nat)
    PROVE  /\ a \o b \in Seq(Nat) /\ Len(a \o b) = Len(a) + Len(b)
           /\ Len(a) \in Nat /\ Len(b) \in Nat
OBVIOUS

\* Tag, length and payload take LenDelimSize bytes.
LEMMA LengthDelimitedSize ==
    ASSUME NEW num \in Nat, NEW b \in Seq(Nat), NEW n, n = Len(b)
    PROVE  /\ WriteTag(num, WireLengthDelimited) \o WriteVarint(n) \o b \in Seq(Nat)
           /\ Len(WriteTag(num, WireLengthDelimited) \o WriteVarint(n) \o b) = LenDelimSize(num, n)
           /\ LenDelimSize(num, n) \in Nat
<1> DEFINE t == WriteTag(num, WireLengthDelimited)
           l == WriteVarint(n)
<1>1. n \in Nat OBVIOUS
<1>2. MakeTag(num, WireLengthDelimited) \in Nat BY DEF MakeTag, WireLengthDelimited
<1>3. t \in Seq(Nat) /\ Len(t) = VarintSize(MakeTag(num, WireLengthDelimited))
  BY <1>2, WriteVarintIs DEF WriteTag
<1>4. Len(t) = TagSize(num)
  <2>1. WireLengthDelimited \in 0..7 BY DEF WireLengthDelimited
  <2> QED BY <1>3, <2>1, TagSizeIs
<1>5. l \in Seq(Nat) /\ Len(l) = VarintSize(n) BY <1>1, WriteVarintIs
<1> HIDE DEF t, l
<1>6. t \o l \in Seq(Nat) /\ Len(t \o l) = Len(t) + Len(l) /\ Len(t) \in Nat /\ Len(l) \in Nat
  BY <1>3, <1>5, CatSize
<1>7. (t \o l) \o b \in Seq(Nat) /\ Len((t \o l) \o b) = Len(t \o l) + Len(b)
  BY <1>6, CatSize
<1>8. Len((t \o l) \o b) = LenDelimSize(num, n) /\ LenDelimSize(num, n) \in Nat
  BY <1>1, <1>4, <1>5, <1>6, <1>7 DEF LenDelimSize
<1> QED BY <1>7, <1>8 DEF t, l

\* What a value that is not a message can be: a number of its type, a string, or
\* a sequence of these.
PlainValue(f) ==
    /\ f.rep \in BOOLEAN /\ f.type \in NumericTypes \cup StringTypes
    /\ f.type \in NumericTypes /\ ~f.rep => Holds(f.type, f.v)
    /\ f.type \in NumericTypes /\ f.rep =>
            f.v \in Seq(Int) /\ \A i \in 1..Len(f.v) : Holds(f.type, f.v[i])
    /\ f.type \in StringTypes /\ ~f.rep => f.v \in Seq(Nat)
    /\ f.type \in StringTypes /\ f.rep => f.v \in Seq(Seq(Nat))

\* Strings and bytes.
LEMMA StringBytes ==
    ASSUME NEW num \in Nat, NEW f, PlainValue(f), f.type \in StringTypes, f.type \notin NumericTypes
    PROVE  /\ SerializeString(num, f) \in Seq(Nat)
           /\ Len(SerializeString(num, f)) = StringSize(num, f)
           /\ StringSize(num, f) \in Nat
<1>1. CASE ~f.rep
  <2>1. f.v \in Seq(Nat) BY <1>1 DEF PlainValue
  <2> QED
    BY <1>1, <2>1, LengthDelimitedSize DEF SerializeString, StringSize, WriteLengthDelimited
<1>2. CASE f.rep
  <2> DEFINE n == Len(f.v)
             s == [i \in 1..n |-> WriteLengthDelimited(num, f.v[i])]
             z == [i \in 1..n |-> LenDelimSize(num, Len(f.v[i]))]
  <2>1. f.v \in Seq(Seq(Nat)) BY <1>2 DEF PlainValue
  <2>2. n \in Nat /\ DOMAIN f.v = 1..n /\ Len(s) = n /\ Len(z) = n BY <2>1
  <2>3. SerializeString(num, f) = Concat(s) /\ StringSize(num, f) = SumOf(z)
    BY <1>2, <2>2 DEF SerializeString, StringSize, MapSeq
  <2>4. ASSUME NEW i \in 1..n PROVE s[i] \in Seq(Nat) /\ z[i] = Len(s[i])
    <3>1. f.v[i] \in Seq(Nat) BY <2>1
    <3>2. s[i] = WriteLengthDelimited(num, f.v[i]) /\ z[i] = LenDelimSize(num, Len(f.v[i]))
      OBVIOUS
    <3> QED BY <3>1, <3>2, LengthDelimitedSize DEF WriteLengthDelimited
  <2> HIDE DEF n, s, z
  <2>5. Measures(z, s, n) BY <2>2, <2>4 DEF Measures, Lists
  <2> QED BY <2>2, <2>3, <2>5, ConcatSize
<1> QED BY <1>1, <1>2 DEF PlainValue

\* One number.
LEMMA ScalarBytes ==
    ASSUME NEW num \in Nat, NEW f, PlainValue(f), f.type \in NumericTypes, ~f.rep
    PROVE  /\ SerializeScalar(num, f) \in Seq(Nat)
           /\ Len(SerializeScalar(num, f)) = TagSize(num) + SizeNoTag(f.type, f.v)
           /\ TagSize(num) \in Nat /\ SizeNoTag(f.type, f.v) \in Nat
<1> DEFINE t == WriteTag(num, WireTypeOf(f.type))
           b == WriteNoTag(f.type, f.v)
<1>1. Holds(f.type, f.v) BY DEF PlainValue
<1>2. WireTypeOf(f.type) \in 0..7
  BY DEF WireTypeOf, WireFixed64, WireFixed32, WireVarint, WireLengthDelimited
<1>3. MakeTag(num, WireTypeOf(f.type)) \in Nat BY <1>2 DEF MakeTag
<1>4. t \in Seq(Nat) /\ Len(t) = TagSize(num)
  BY <1>2, <1>3, TagSizeIs, WriteVarintIs DEF WriteTag
<1>5. b \in Seq(Nat) /\ Len(b) = SizeNoTag(f.type, f.v) BY <1>1, NumberSize
<1>6. SerializeScalar(num, f) = t \o b BY DEF SerializeScalar
<1> HIDE DEF t, b
<1>7. t \o b \in Seq(Nat) /\ Len(t \o b) = Len(t) + Len(b) /\ Len(t) \in Nat /\ Len(b) \in Nat
  BY <1>4, <1>5, CatSize
<1> QED BY <1>4, <1>5, <1>6, <1>7

\* The sum of n times the same number.
LEMMA SumOfSame ==
    ASSUME NEW n \in Nat, NEW k \in Nat, NEW z, Len(z) = n, \A i \in 1..n : z[i] = k
    PROVE  SumOf(z) = k * n
<1> DEFINE S == [i \in 0..n |-> k * i]
<1>1. S \in [0..n -> Int] /\ S[0] = 0 /\ S[n] = k * n OBVIOUS
<1>2. ASSUME NEW i \in 1..n PROVE S[i] = S[i - 1] + z[i]
  <2>1. i - 1 \in 0..n /\ i \in 0..n OBVIOUS
  <2>2. k * i = k * (i - 1) + k OBVIOUS
  <2> QED BY <2>1, <2>2
<1> HIDE DEF S
<1>3. SumOf(z) = S[n] BY <1>1, <1>2, SumIs
<1> QED BY <1>1, <1>3

\* A packed list of numbers of one size.
LEMMA FixedPackedSize ==
    ASSUME NEW t \in NumericTypes, NEW vs \in Seq(Int), NEW k \in Nat,
           \A v : SizeNoTag(t, v) = k
    PROVE  PackedSize(t, vs) = k * Len(vs)
<1> DEFINE n == Len(vs)
           z == [i \in 1..n |-> SizeNoTag(t, vs[i])]
<1>1. n \in Nat /\ DOMAIN vs = 1..n /\ Len(z) = n OBVIOUS
<1>2. PackedSize(t, vs) = SumOf(z) BY <1>1 DEF PackedSize, MapSeq
<1>3. \A i \in 1..n : z[i] = k OBVIOUS
<1> HIDE DEF n, z
<1>4. SumOf(z) = k * n BY <1>1, <1>3, SumOfSame
<1> QED BY <1>2, <1>4 DEF n

\* Packed integers: with the size the value cached, or computed on the spot.
LEMMA RepeatedVarintBytes ==
    ASSUME NEW num \in Nat, NEW f, PlainValue(f), f.type \in NumericTypes, f.rep,
           f.cache \in {NotCached, PackedSize(f.type, f.v)}
    PROVE  /\ SerializeRepeatedVarint(num, f) \in Seq(Nat)
           /\ Len(SerializeRepeatedVarint(num, f)) = RepeatedVarintSize(num, f)
           /\ RepeatedVarintSize(num, f) \in Nat
<1> DEFINE b == PackedBytes(f.type, f.v)
           n == PackedSize(f.type, f.v)
<1>1. f.v \in Seq(Int) /\ \A i \in 1..Len(f.v) : Holds(f.type, f.v[i]) BY DEF PlainValue
<1>2. b \in Seq(Nat) /\ Len(b) = n /\ n \in Nat /\ Len(f.v) <= n BY <1>1, PackedIs
<1>3. (IF f.cache = NotCached THEN PackedSize(f.type, f.v) ELSE f.cache) = n OBVIOUS
<1>4. CASE f.v = <<>>
  <2>1. n = 0
    <3> DEFINE z == [i \in 1..0 |-> SizeNoTag(f.type, f.v[i])]
    <3>1. Len(z) = 0 OBVIOUS
    <3>2. n = SumOf(z) BY <1>4 DEF PackedSize, MapSeq
    <3> HIDE DEF z
    <3>3. SumOf(z) = 0 * 0 BY <3>1, SumOfSame
    <3> QED BY <3>2, <3>3
  <2>2. SerializeRepeatedVarint(num, f) = <<>> /\ RepeatedVarintSize(num, f) = 0
    BY <1>4, <2>1 DEF SerializeRepeatedVarint, RepeatedVarintSize
  <2> QED BY <2>2
<1>5. CASE f.v # <<>>
  <2>1. n # 0
    <3>1. Len(f.v) \in Nat /\ Len(f.v) > 0 BY <1>1, <1>5
    <3> HIDE DEF n
    <3> QED BY <1>2, <3>1
  <2>2. /\ SerializeRepeatedVarint(num, f) =
                WriteTag(num, WireLengthDelimited) \o WriteVarint(n) \o b
        /\ RepeatedVarintSize(num, f) = LenDelimSize(num, n)
    BY <1>3, <1>5, <2>1 DEF SerializeRepeatedVarint, RepeatedVarintSize
  <2> HIDE DEF b, n
  <2> QED BY <1>2, <2>2, LengthDelimitedSize
<1> QED BY <1>4, <1>5

\* Packed values of one size, a bool among them.
LEMMA RepeatedFixedBytes ==
    ASSUME NEW num \in Nat, NEW f, PlainValue(f), f.type \in FixedTypes \cup {"BoolValue"}, f.rep
    PROVE  /\ SerializeRepeatedFixed(num, f) \in Seq(Nat)
           /\ f.type \in FixedTypes => /\ Len(SerializeRepeatedFixed(num, f)) = FixedSize(num, f)
                                       /\ FixedSize(num, f) \in Nat
           /\ f.type \notin FixedTypes =>
                /\ Len(SerializeRepeatedFixed(num, f)) = RepeatedVarintSize(num, f)
                /\ RepeatedVarintSize(num, f) \in Nat
<1> DEFINE b == PackedBytes(f.type, f.v)
           n == PackedSize(f.type, f.v)
           k == IF f.type = "BoolValue" THEN 1 ELSE Traits[f.type].w \div 8
<1>1. f.type \in NumericTypes BY DEF FixedTypes, NumericTypes, Traits
<1>2. f.v \in Seq(Int) /\ \A i \in 1..Len(f.v) : Holds(f.type, f.v[i])
  BY <1>1 DEF PlainValue
<1>3. b \in Seq(Nat) /\ Len(b) = n /\ n \in Nat /\ Len(f.v) <= n BY <1>1, <1>2, PackedIs
<1>4. f.type \in FixedTypes => f.type # "BoolValue" BY <1>1, TraitsAre
<1>5. k \in Nat
  <2>1. Traits[f.type].w \in Nat BY <1>1, TraitsAre, WidthsAre
  <2> QED BY <2>1
<1>6. ASSUME NEW v PROVE SizeNoTag(f.type, v) = k
  <2>1. CASE f.type \in FixedTypes BY <1>1, <1>4, <2>1, TraitsAre DEF SizeNoTag
  <2>2. CASE f.type \notin FixedTypes
    <3>1. f.type = "BoolValue" BY <2>2
    <3>2. Traits[f.type].as = "bool" BY <1>1, <3>1, TraitsAre
    <3> QED BY <2>2, <3>1, <3>2 DEF SizeNoTag
  <2> QED BY <2>1, <2>2
<1>7. n = k * Len(f.v) BY <1>1, <1>2, <1>5, <1>6, FixedPackedSize
<1>8. Len(f.v) \in Nat /\ (f.v = <<>> <=> Len(f.v) = 0) BY <1>2
<1>9. CASE f.v = <<>>
  <2>1. SerializeRepeatedFixed(num, f) = <<>> BY <1>9 DEF SerializeRepeatedFixed
  <2>2. f.type \in FixedTypes => FixedSize(num, f) = 0 BY <1>9 DEF FixedSize
  <2>3. n = 0 BY <1>5, <1>7, <1>8, <1>9
  <2>4. RepeatedVarintSize(num, f) = 0 BY <2>3 DEF RepeatedVarintSize
  <2> QED BY <2>1, <2>2, <2>4
<1>10. CASE f.v # <<>>
  <2>1. SerializeRepeatedFixed(num, f) =
            WriteTag(num, WireLengthDelimited) \o WriteVarint(Len(f.v) * k) \o b
    BY <1>10 DEF SerializeRepeatedFixed
  <2>2. f.type \in FixedTypes => FixedSize(num, f) = LenDelimSize(num, k * Len(f.v))
    BY <1>4, <1>10 DEF FixedSize
  <2>3. Len(f.v) * k = n /\ k * Len(f.v) = n
    <3> HIDE DEF n, k
    <3> QED BY <1>5, <1>7, <1>8
  <2>4. n # 0
    <3> HIDE DEF n, k
    <3> QED BY <1>3, <1>8, <1>10
  <2>5. RepeatedVarintSize(num, f) = LenDelimSize(num, n) BY <2>4 DEF RepeatedVarintSize
  <2> HIDE DEF b, n, k
  <2>6. /\ WriteTag(num, WireLengthDelimited) \o WriteVarint(n) \o b \in Seq(Nat)
        /\ Len(WriteTag(num, WireLengthDelimited) \o WriteVarint(n) \o b) = LenDelimSize(num, n)
        /\ LenDelimSize(num, n) \in Nat
    BY <1>3, LengthDelimitedSize
  <2> QED BY <2>1, <2>2, <2>3, <2>5, <2>6
<1> QED BY <1>9, <1>10

------------------------------------------------------------------------------
(* Messages in messages, clusters in clusters.                             *)

\* x has less than k levels of parts below it.
Flat(x, k) == Messages!Levels(x)[k] = {}

\* The levels of x are what their recursive definition says.
LEMMA LevelsAre ==
    ASSUME NEW x
    PROVE  /\ Messages!Levels(x)[0] = {x}
           /\ \A n \in Nat : Messages!Levels(x)[n + 1] = UNION {Nested(y) : y \in Messages!Levels(x)[n]}
<1> DEFINE F(L, i) == IF i = 0 THEN {x} ELSE UNION {Nested(y) : y \in L[i - 1]}
           Ok(n, L) == L = [i \in 0..n |-> F(L, i)]
           E == {n \in Nat : \E L : Ok(n, L)}
<1>1. \A L, K, i : L[i - 1] = K[i - 1] => F(L, i) = F(K, i) OBVIOUS
<1>2. \A L : \A n \in Nat : F(L, 0) = {x} /\ F(L, n + 1) = UNION {Nested(y) : y \in L[n]}
  <2>1. \A n \in Nat : n + 1 # 0 /\ (n + 1) - 1 = n OBVIOUS
  <2> QED BY <2>1
<1> HIDE DEF F
<1>3. Nat \subseteq E
  <2>1. 0 \in E
    <3>1. \A L, K : F(L, 0) = F(K, 0) BY <1>2, 0 \in Nat
    <3>2. Ok(0, [i \in 0..0 |-> F(<<>>, 0)]) BY <3>1
    <3> QED BY <3>2
  <2>2. ASSUME NEW n \in Nat, n \in E PROVE n + 1 \in E
    <3> PICK L : Ok(n, L) BY <2>2
    <3> DEFINE K == [i \in 0..(n + 1) |-> F(L, i)]
    <3>1. \A i \in 0..n : K[i] = L[i] OBVIOUS
    <3>2. ASSUME NEW i \in 0..(n + 1) PROVE F(L, i) = F(K, i)
      <4>1. CASE i = 0 BY <4>1, <1>2
      <4>2. CASE i # 0
        <5>1. i - 1 \in 0..n BY <4>2
        <5> QED BY <5>1, <3>1, <1>1
      <4> QED BY <4>1, <4>2
    <3>3. Ok(n + 1, K) BY <3>2
    <3> HIDE DEF K
    <3> QED BY <3>3
  <2> HIDE DEF E
  <2> QED BY <2>1, <2>2, NatsIn
<1> DEFINE G(n) == CHOOSE L : Ok(n, L)
           f == [n \in Nat |-> G(n)[n]]
<1>4. ASSUME NEW n \in Nat PROVE Ok(n, G(n))
  <2>1. \E L : Ok(n, L) BY <1>3
  <2> HIDE DEF Ok
  <2> QED BY <2>1
<1>5. ASSUME NEW n \in Nat, NEW L, Ok(n, L)
      PROVE  L[0] = {x} /\ \A k \in Nat : k + 1 <= n => L[k + 1] = UNION {Nested(y) : y \in L[k]}
  <2>1. L[0] = F(L, 0) BY <1>5
  <2>2. \A k \in Nat : k + 1 <= n => L[k + 1] = F(L, k + 1) BY <1>5
  <2> HIDE DEF Ok
  <2> QED BY <2>1, <2>2, <1>2
<1> HIDE DEF Ok, G, E
<1>6. ASSUME NEW k \in Nat
      PROVE \A n \in Nat, m \in Nat : k <= n /\ k <= m => G(n)[k] = G(m)[k]
  <2> DEFINE Q == {j \in Nat : \A n \in Nat, m \in Nat : j <= n /\ j <= m => G(n)[j] = G(m)[j]}
  <2>1. 0 \in Q BY <1>4, <1>5
  <2>2. ASSUME NEW j \in Nat, j \in Q PROVE j + 1 \in Q
    <3> SUFFICES ASSUME NEW n \in Nat, NEW m \in Nat, j + 1 <= n, j + 1 <= m
                 PROVE  G(n)[j + 1] = G(m)[j + 1]
      OBVIOUS
    <3>1. G(n)[j] = G(m)[j] BY <2>2
    <3>2. G(n)[j + 1] = UNION {Nested(y) : y \in G(n)[j]} BY <1>4, <1>5
    <3>3. G(m)[j + 1] = UNION {Nested(y) : y \in G(m)[j]} BY <1>4, <1>5
    <3> QED BY <3>1, <3>2, <3>3
  <2> HIDE DEF Q
  <2>3. k \in Q BY <2>1, <2>2, NatsIn
  <2> QED BY <2>3 DEF Q
<1>7. ASSUME NEW n \in Nat PROVE f[0] = {x} /\ f[n + 1] = UNION {Nested(y) : y \in f[n]}
  <2>1. G(n + 1)[n + 1] = UNION {Nested(y) : y \in G(n + 1)[n]} BY <1>4, <1>5
  <2>2. G(n + 1)[n] = G(n)[n] BY <1>6
  <2>3. G(0)[0] = {x} BY <1>4, <1>5
  <2> QED BY <2>1, <2>2, <2>3
<1>8. ASSUME NEW i \in Nat PROVE f[i] = F(f, i)
  <2> HIDE DEF f
  <2>1. CASE i = 0 BY <2>1, <1>2, <1>7
  <2>2. CASE i # 0
    <3>1. i - 1 \in Nat /\ (i - 1) + 1 = i BY <2>2
    <3> QED BY <3>1, <1>2, <1>7
  <2> QED BY <2>1, <2>2
<1>9. f = [i \in Nat |-> F(f, i)] BY <1>8
<1> DEFINE D(L) == L = [i \in Nat |-> F(L, i)]
<1>10. Messages!Levels(x) = CHOOSE L : D(L) BY DEF Messages!Levels, F
<1>11. D(f) BY <1>9
<1> HIDE DEF D, f
<1>12. D(Messages!Levels(x)) BY <1>10, <1>11
<1>13. \A i \in Nat : Messages!Levels(x)[i] = F(Messages!Levels(x), i) BY <1>12 DEF D
<1> QED BY <1>13, <1>2


\* The levels of x are the levels of its parts, one further down.
LEMMA LevelsBelow ==
    ASSUME NEW x, NEW n \in Nat
    PROVE  Messages!Levels(x)[n + 1] = UNION {Messages!Levels(y)[n] : y \in Nested(x)}
<1> DEFINE E == {k \in Nat : Messages!Levels(x)[k + 1] = UNION {Messages!Levels(y)[k] : y \in Nested(x)}}
<1>1. 0 \in E
  <2>1. Messages!Levels(x)[0 + 1] = UNION {Nested(y) : y \in {x}} BY LevelsAre
  <2>2. \A y : Messages!Levels(y)[0] = {y} BY LevelsAre
  <2> QED BY <2>1, <2>2
<1>2. ASSUME NEW k \in Nat, k \in E PROVE k + 1 \in E
  <2>1. Messages!Levels(x)[(k + 1) + 1] = UNION {Nested(y) : y \in Messages!Levels(x)[k + 1]}
    BY LevelsAre
  <2>2. \A y : Messages!Levels(y)[k + 1] = UNION {Nested(z) : z \in Messages!Levels(y)[k]}
    BY LevelsAre
  <2>3. Messages!Levels(x)[k + 1] = UNION {Messages!Levels(y)[k] : y \in Nested(x)}
    BY <1>2
  <2> QED BY <2>1, <2>2, <2>3
<1> HIDE DEF E
<1>3. n \in E BY <1>1, <1>2, NatsIn
<1> QED BY <1>3 DEF E

\* The parts of x have fewer levels than x.
LEMMA FlatParts ==
    /\ \A x : ~Flat(x, 0)
    /\ \A x : \A k \in Nat : Flat(x, k + 1) => \A y \in Nested(x) : Flat(y, k)
    /\ \A x : \A k \in Nat : Flat(x, k) => Flat(x, k + 1)
<1>1. \A x : ~Flat(x, 0) BY LevelsAre DEF Flat
<1>2. ASSUME NEW x, NEW k \in Nat, Flat(x, k + 1), NEW y \in Nested(x) PROVE Flat(y, k)
  BY <1>2, LevelsBelow DEF Flat
<1>3. ASSUME NEW x, NEW k \in Nat, Flat(x, k) PROVE Flat(x, k + 1)
  BY <1>3, LevelsAre DEF Flat
<1> QED BY <1>1, <1>2, <1>3

\* What is within x is as bounded as x, and closed under the parts.
LEMMA WithinParts ==
    ASSUME NEW x, Messages!Bounded(x)
    PROVE  /\ x \in Messages!Within(x)
           /\ \A y \in Messages!Within(x) : Messages!Bounded(y) /\ Flat(y, MaxNesting + 1)
           /\ \A y \in Messages!Within(x) : Nested(y) \subseteq Messages!Within(x)
<1> USE MaxNestingAssumption
<1> DEFINE E == {i \in Nat : \A y \in Messages!Levels(x)[i] : Messages!Bounded(y)}
<1>1. 0 \in E BY LevelsAre
<1>2. ASSUME NEW i \in Nat, i \in E PROVE i + 1 \in E
  <2> SUFFICES ASSUME NEW y \in Messages!Levels(x)[i + 1]
               PROVE Messages!Bounded(y) OBVIOUS
  <2>1. PICK w \in Messages!Levels(x)[i] : y \in Nested(w) BY LevelsAre
  <2>2. Flat(w, MaxNesting + 1) BY <1>2 DEF Messages!Bounded, Flat
  <2>3. Flat(y, MaxNesting + 1) BY <2>1, <2>2, FlatParts
  <2> QED BY <2>3 DEF Flat, Messages!Bounded
<1> HIDE DEF E
<1>3. Nat \subseteq E BY <1>1, <1>2, NatsIn
<1>4. ASSUME NEW y \in Messages!Within(x)
      PROVE Messages!Bounded(y) BY <1>3 DEF Messages!Within, E
<1>5. ASSUME NEW y \in Messages!Within(x), NEW z \in Nested(y)
      PROVE z \in Messages!Within(x)
  <2>1. PICK i \in 0..MaxNesting : y \in Messages!Levels(x)[i] BY DEF Messages!Within
  <2>2. z \in Messages!Levels(x)[i + 1] BY <2>1, LevelsAre
  <2>3. i # MaxNesting BY <2>2 DEF Messages!Bounded
  <2>4. i + 1 \in 0..MaxNesting BY <2>3
  <2> QED BY <2>2, <2>4 DEF Messages!Within
<1>6. x \in Messages!Within(x)
  <2>1. x \in Messages!Levels(x)[0] /\ 0 \in 0..MaxNesting BY LevelsAre
  <2> QED BY <2>1 DEF Messages!Within
<1> QED BY <1>4, <1>5, <1>6 DEF Messages!Bounded, Flat

\* The result of x is made of x and the results of its parts.
LEMMA Unfold ==
    ASSUME NEW x, Messages!Bounded(x)
    PROVE  Messages!Descend(x) = Methods(x, [z \in Nested(x) |-> Messages!Descend(z)])
<1> USE MaxNestingAssumption
<1> DEFINE Of(g, y) == Methods(y, [z \in Nested(y) |-> g[z]])
           Solves(g, S) == g = [y \in S |-> Of(g, y)]
           Upto(w, k) == {y \in Messages!Within(w) : Flat(y, k)}
           R(w) == CHOOSE g : Solves(g, Messages!Within(w))
<1>1. ASSUME NEW g, NEW h, NEW y, \A z \in Nested(y) : g[z] = h[z]
      PROVE Of(g, y) = Of(h, y)
  <2>1. [z \in Nested(y) |-> g[z]] = [z \in Nested(y) |-> h[z]] BY <1>1
  <2> QED BY <2>1
<1>2. ASSUME NEW g, NEW S, Solves(g, S), NEW y \in S PROVE g[y] = Of(g, y)
  <2> HIDE DEF Of
  <2> QED BY <1>2
<1>3. \A w : Messages!Descend(w) = R(w)[w] BY DEF Messages!Descend
<1> HIDE DEF Of
<1>4. ASSUME NEW w, Messages!Bounded(w) PROVE Solves(R(w), Messages!Within(w))
  <2> DEFINE E == {k \in Nat : \E g : Solves(g, Upto(w, k))}
  <2>1. 0 \in E
    <3>1. Upto(w, 0) = {} BY FlatParts
    <3>2. \E g : g = [y \in {} |-> Of(g, y)]
      <4>1. [y \in {} |-> 0] = [y \in {} |-> Of([v \in {} |-> 0], y)] OBVIOUS
      <4> QED BY <4>1
    <3> QED BY <3>1, <3>2
  <2>2. ASSUME NEW k \in Nat, k \in E PROVE k + 1 \in E
    <3> PICK g : Solves(g, Upto(w, k)) BY <2>2
    <3> DEFINE h == [y \in Upto(w, k + 1) |-> Of(g, y)]
    <3>1. Upto(w, k) \subseteq Upto(w, k + 1) BY FlatParts
    <3>2. ASSUME NEW y \in Upto(w, k) PROVE h[y] = g[y] BY <3>1, <1>2
    <3>3. ASSUME NEW y \in Upto(w, k + 1) PROVE Of(g, y) = Of(h, y)
      <4>1. \A z \in Nested(y) : z \in Upto(w, k) BY <1>4, WithinParts, FlatParts
      <4> HIDE DEF h, Upto
      <4> QED BY <4>1, <3>2, <1>1
    <3>4. Solves(h, Upto(w, k + 1)) BY <3>3
    <3> HIDE DEF h, Solves
    <3> QED BY <3>4
  <2> HIDE DEF E
  <2>3. MaxNesting + 1 \in E BY <2>1, <2>2, NatsIn
  <2>4. Upto(w, MaxNesting + 1) = Messages!Within(w) BY <1>4, WithinParts
  <2> HIDE DEF Solves, Upto
  <2>5. \E g : Solves(g, Messages!Within(w)) BY <2>3, <2>4 DEF E
  <2> QED BY <2>5
<1> HIDE DEF R, Solves
<1>5. ASSUME NEW w, Messages!Bounded(w), NEW y \in Messages!Within(w)
      PROVE R(w)[y] = Of(R(w), y)
  BY <1>4, <1>5, <1>2
<1> DEFINE Q == {k \in Nat : \A v, w, y : /\ Messages!Bounded(v) /\ Messages!Bounded(w)
                                        /\ y \in Messages!Within(v) /\ y \in Messages!Within(w) /\ Flat(y, k)
                                        => R(v)[y] = R(w)[y]}
<1>6. 0 \in Q BY FlatParts
<1>7. ASSUME NEW k \in Nat, k \in Q PROVE k + 1 \in Q
  <2> SUFFICES ASSUME NEW v, NEW w, NEW y, Messages!Bounded(v), Messages!Bounded(w),
                      y \in Messages!Within(v), y \in Messages!Within(w), Flat(y, k + 1)
               PROVE  R(v)[y] = R(w)[y]
    OBVIOUS
  <2>1. ASSUME NEW z \in Nested(y) PROVE R(v)[z] = R(w)[z]
    <3>1. z \in Messages!Within(v) /\ z \in Messages!Within(w) BY WithinParts
    <3>2. Flat(z, k) BY FlatParts
    <3> QED BY <3>1, <3>2, <1>7
  <2>2. Of(R(v), y) = Of(R(w), y) BY <2>1, <1>1
  <2> QED BY <2>2, <1>5
<1> HIDE DEF Q
<1>8. MaxNesting + 1 \in Q BY <1>6, <1>7, NatsIn
<1>9. ASSUME NEW z \in Nested(x) PROVE R(x)[z] = Messages!Descend(z)
  <2>1. x \in Messages!Within(x) /\ z \in Messages!Within(x) BY WithinParts
  <2>2. Messages!Bounded(z) /\ Flat(z, MaxNesting + 1) /\ z \in Messages!Within(z)
    BY <2>1, WithinParts
  <2>3. R(x)[z] = R(z)[z] BY <1>8, <2>1, <2>2 DEF Q
  <2> QED BY <2>3, <1>3
<1>10. x \in Messages!Within(x) BY WithinParts
<1>11. Messages!Descend(x) = Of(R(x), x) BY <1>3, <1>5, <1>10
<1>12. [z \in Nested(x) |-> R(x)[z]] = [z \in Nested(x) |-> Messages!Descend(z)] BY <1>9
<1> QED BY <1>11, <1>12 DEF Of
\* x has less than k levels of parts below it.
FlatCluster(x, k) == Copying!Levels(x)[k] = {}

\* The levels of x are what their recursive definition says.
LEMMA LevelsAreOfClusters ==
    ASSUME NEW x
    PROVE  /\ Copying!Levels(x)[0] = {x}
           /\ \A n \in Nat : Copying!Levels(x)[n + 1] = UNION {ClustersIn(y) : y \in Copying!Levels(x)[n]}
<1> DEFINE F(L, i) == IF i = 0 THEN {x} ELSE UNION {ClustersIn(y) : y \in L[i - 1]}
           Ok(n, L) == L = [i \in 0..n |-> F(L, i)]
           E == {n \in Nat : \E L : Ok(n, L)}
<1>1. \A L, K, i : L[i - 1] = K[i - 1] => F(L, i) = F(K, i) OBVIOUS
<1>2. \A L : \A n \in Nat : F(L, 0) = {x} /\ F(L, n + 1) = UNION {ClustersIn(y) : y \in L[n]}
  <2>1. \A n \in Nat : n + 1 # 0 /\ (n + 1) - 1 = n OBVIOUS
  <2> QED BY <2>1
<1> HIDE DEF F
<1>3. Nat \subseteq E
  <2>1. 0 \in E
    <3>1. \A L, K : F(L, 0) = F(K, 0) BY <1>2, 0 \in Nat
    <3>2. Ok(0, [i \in 0..0 |-> F(<<>>, 0)]) BY <3>1
    <3> QED BY <3>2
  <2>2. ASSUME NEW n \in Nat, n \in E PROVE n + 1 \in E
    <3> PICK L : Ok(n, L) BY <2>2
    <3> DEFINE K == [i \in 0..(n + 1) |-> F(L, i)]
    <3>1. \A i \in 0..n : K[i] = L[i] OBVIOUS
    <3>2. ASSUME NEW i \in 0..(n + 1) PROVE F(L, i) = F(K, i)
      <4>1. CASE i = 0 BY <4>1, <1>2
      <4>2. CASE i # 0
        <5>1. i - 1 \in 0..n BY <4>2
        <5> QED BY <5>1, <3>1, <1>1
      <4> QED BY <4>1, <4>2
    <3>3. Ok(n + 1, K) BY <3>2
    <3> HIDE DEF K
    <3> QED BY <3>3
  <2> HIDE DEF E
  <2> QED BY <2>1, <2>2, NatsIn
<1> DEFINE G(n) == CHOOSE L : Ok(n, L)
           f == [n \in Nat |-> G(n)[n]]
<1>4. ASSUME NEW n \in Nat PROVE Ok(n, G(n))
  <2>1. \E L : Ok(n, L) BY <1>3
  <2> HIDE DEF Ok
  <2> QED BY <2>1
<1>5. ASSUME NEW n \in Nat, NEW L, Ok(n, L)
      PROVE  L[0] = {x} /\ \A k \in Nat : k + 1 <= n => L[k + 1] = UNION {ClustersIn(y) : y \in L[k]}
  <2>1. L[0] = F(L, 0) BY <1>5
  <2>2. \A k \in Nat : k + 1 <= n => L[k + 1] = F(L, k + 1) BY <1>5
  <2> HIDE DEF Ok
  <2> QED BY <2>1, <2>2, <1>2
<1> HIDE DEF Ok, G, E
<1>6. ASSUME NEW k \in Nat
      PROVE \A n \in Nat, m \in Nat : k <= n /\ k <= m => G(n)[k] = G(m)[k]
  <2> DEFINE Q == {j \in Nat : \A n \in Nat, m \in Nat : j <= n /\ j <= m => G(n)[j] = G(m)[j]}
  <2>1. 0 \in Q BY <1>4, <1>5
  <2>2. ASSUME NEW j \in Nat, j \in Q PROVE j + 1 \in Q
    <3> SUFFICES ASSUME NEW n \in Nat, NEW m \in Nat, j + 1 <= n, j + 1 <= m
                 PROVE  G(n)[j + 1] = G(m)[j + 1]
      OBVIOUS
    <3>1. G(n)[j] = G(m)[j] BY <2>2
    <3>2. G(n)[j + 1] = UNION {ClustersIn(y) : y \in G(n)[j]} BY <1>4, <1>5
    <3>3. G(m)[j + 1] = UNION {ClustersIn(y) : y \in G(m)[j]} BY <1>4, <1>5
    <3> QED BY <3>1, <3>2, <3>3
  <2> HIDE DEF Q
  <2>3. k \in Q BY <2>1, <2>2, NatsIn
  <2> QED BY <2>3 DEF Q
<1>7. ASSUME NEW n \in Nat
      PROVE f[0] = {x} /\ f[n + 1] = UNION {ClustersIn(y) : y \in f[n]}
  <2>1. G(n + 1)[n + 1] = UNION {ClustersIn(y) : y \in G(n + 1)[n]} BY <1>4, <1>5
  <2>2. G(n + 1)[n] = G(n)[n] BY <1>6
  <2>3. G(0)[0] = {x} BY <1>4, <1>5
  <2> QED BY <2>1, <2>2, <2>3
<1>8. ASSUME NEW i \in Nat PROVE f[i] = F(f, i)
  <2> HIDE DEF f
  <2>1. CASE i = 0 BY <2>1, <1>2, <1>7
  <2>2. CASE i # 0
    <3>1. i - 1 \in Nat /\ (i - 1) + 1 = i BY <2>2
    <3> QED BY <3>1, <1>2, <1>7
  <2> QED BY <2>1, <2>2
<1>9. f = [i \in Nat |-> F(f, i)] BY <1>8
<1> DEFINE D(L) == L = [i \in Nat |-> F(L, i)]
<1>10. Copying!Levels(x) = CHOOSE L : D(L) BY DEF Copying!Levels, F
<1>11. D(f) BY <1>9
<1> HIDE DEF D, f
<1>12. D(Copying!Levels(x)) BY <1>10, <1>11
<1>13. \A i \in Nat : Copying!Levels(x)[i] = F(Copying!Levels(x), i) BY <1>12 DEF D
<1> QED BY <1>13, <1>2


\* The levels of x are the levels of its parts, one further down.
LEMMA LevelsBelowOfClusters ==
    ASSUME NEW x, NEW n \in Nat
    PROVE  Copying!Levels(x)[n + 1] = UNION {Copying!Levels(y)[n] : y \in ClustersIn(x)}
<1> DEFINE E == {k \in Nat : Copying!Levels(x)[k + 1] = UNION {Copying!Levels(y)[k] : y \in ClustersIn(x)}}
<1>1. 0 \in E
  <2>1. Copying!Levels(x)[0 + 1] = UNION {ClustersIn(y) : y \in {x}}
    BY LevelsAreOfClusters
  <2>2. \A y : Copying!Levels(y)[0] = {y} BY LevelsAreOfClusters
  <2> QED BY <2>1, <2>2
<1>2. ASSUME NEW k \in Nat, k \in E PROVE k + 1 \in E
  <2>1. Copying!Levels(x)[(k + 1) + 1] = UNION {ClustersIn(y) : y \in Copying!Levels(x)[k + 1]}
    BY LevelsAreOfClusters
  <2>2. \A y : Copying!Levels(y)[k + 1] = UNION {ClustersIn(z) : z \in Copying!Levels(y)[k]}
    BY LevelsAreOfClusters
  <2>3. Copying!Levels(x)[k + 1] = UNION {Copying!Levels(y)[k] : y \in ClustersIn(x)}
    BY <1>2
  <2> QED BY <2>1, <2>2, <2>3
<1> HIDE DEF E
<1>3. n \in E BY <1>1, <1>2, NatsIn
<1> QED BY <1>3 DEF E

\* The parts of x have fewer levels than x.
LEMMA FlatPartsOfClusters ==
    /\ \A x : ~FlatCluster(x, 0)
    /\ \A x : \A k \in Nat : FlatCluster(x, k + 1) => \A y \in ClustersIn(x) : FlatCluster(y, k)
    /\ \A x : \A k \in Nat : FlatCluster(x, k) => FlatCluster(x, k + 1)
<1>1. \A x : ~FlatCluster(x, 0) BY LevelsAreOfClusters DEF FlatCluster
<1>2. ASSUME NEW x, NEW k \in Nat, FlatCluster(x, k + 1), NEW y \in ClustersIn(x)
      PROVE FlatCluster(y, k)
  BY <1>2, LevelsBelowOfClusters DEF FlatCluster
<1>3. ASSUME NEW x, NEW k \in Nat, FlatCluster(x, k) PROVE FlatCluster(x, k + 1)
  BY <1>3, LevelsAreOfClusters DEF FlatCluster
<1> QED BY <1>1, <1>2, <1>3

\* What is within x is as bounded as x, and closed under the parts.
LEMMA WithinPartsOfClusters ==
    ASSUME NEW x, Copying!Bounded(x)
    PROVE  /\ x \in Copying!Within(x)
           /\ \A y \in Copying!Within(x) : Copying!Bounded(y) /\ FlatCluster(y, MaxNesting + 1)
           /\ \A y \in Copying!Within(x) : ClustersIn(y) \subseteq Copying!Within(x)
<1> USE MaxNestingAssumption
<1> DEFINE E == {i \in Nat : \A y \in Copying!Levels(x)[i] : Copying!Bounded(y)}
<1>1. 0 \in E BY LevelsAreOfClusters
<1>2. ASSUME NEW i \in Nat, i \in E PROVE i + 1 \in E
  <2> SUFFICES ASSUME NEW y \in Copying!Levels(x)[i + 1]
               PROVE Copying!Bounded(y) OBVIOUS
  <2>1. PICK w \in Copying!Levels(x)[i] : y \in ClustersIn(w) BY LevelsAreOfClusters
  <2>2. FlatCluster(w, MaxNesting + 1) BY <1>2 DEF Copying!Bounded, FlatCluster
  <2>3. FlatCluster(y, MaxNesting + 1) BY <2>1, <2>2, FlatPartsOfClusters
  <2> QED BY <2>3 DEF FlatCluster, Copying!Bounded
<1> HIDE DEF E
<1>3. Nat \subseteq E BY <1>1, <1>2, NatsIn
<1>4. ASSUME NEW y \in Copying!Within(x)
      PROVE Copying!Bounded(y) BY <1>3 DEF Copying!Within, E
<1>5. ASSUME NEW y \in Copying!Within(x), NEW z \in ClustersIn(y)
      PROVE z \in Copying!Within(x)
  <2>1. PICK i \in 0..MaxNesting : y \in Copying!Levels(x)[i] BY DEF Copying!Within
  <2>2. z \in Copying!Levels(x)[i + 1] BY <2>1, LevelsAreOfClusters
  <2>3. i # MaxNesting BY <2>2 DEF Copying!Bounded
  <2>4. i + 1 \in 0..MaxNesting BY <2>3
  <2> QED BY <2>2, <2>4 DEF Copying!Within
<1>6. x \in Copying!Within(x)
  <2>1. x \in Copying!Levels(x)[0] /\ 0 \in 0..MaxNesting BY LevelsAreOfClusters
  <2> QED BY <2>1 DEF Copying!Within
<1> QED BY <1>4, <1>5, <1>6 DEF Copying!Bounded, FlatCluster

\* The result of x is made of x and the results of its parts.
LEMMA UnfoldOfClusters ==
    ASSUME NEW x, Copying!Bounded(x)
    PROVE  Copying!Descend(x) = MessageOf(x, [z \in ClustersIn(x) |-> Copying!Descend(z)])
<1> USE MaxNestingAssumption
<1> DEFINE Of(g, y) == MessageOf(y, [z \in ClustersIn(y) |-> g[z]])
           Solves(g, S) == g = [y \in S |-> Of(g, y)]
           Upto(w, k) == {y \in Copying!Within(w) : FlatCluster(y, k)}
           R(w) == CHOOSE g : Solves(g, Copying!Within(w))
<1>1. ASSUME NEW g, NEW h, NEW y, \A z \in ClustersIn(y) : g[z] = h[z]
      PROVE Of(g, y) = Of(h, y)
  <2>1. [z \in ClustersIn(y) |-> g[z]] = [z \in ClustersIn(y) |-> h[z]] BY <1>1
  <2> QED BY <2>1
<1>2. ASSUME NEW g, NEW S, Solves(g, S), NEW y \in S PROVE g[y] = Of(g, y)
  <2> HIDE DEF Of
  <2> QED BY <1>2
<1>3. \A w : Copying!Descend(w) = R(w)[w] BY DEF Copying!Descend
<1> HIDE DEF Of
<1>4. ASSUME NEW w, Copying!Bounded(w) PROVE Solves(R(w), Copying!Within(w))
  <2> DEFINE E == {k \in Nat : \E g : Solves(g, Upto(w, k))}
  <2>1. 0 \in E
    <3>1. Upto(w, 0) = {} BY FlatPartsOfClusters
    <3>2. \E g : g = [y \in {} |-> Of(g, y)]
      <4>1. [y \in {} |-> 0] = [y \in {} |-> Of([v \in {} |-> 0], y)] OBVIOUS
      <4> QED BY <4>1
    <3> QED BY <3>1, <3>2
  <2>2. ASSUME NEW k \in Nat, k \in E PROVE k + 1 \in E
    <3> PICK g : Solves(g, Upto(w, k)) BY <2>2
    <3> DEFINE h == [y \in Upto(w, k + 1) |-> Of(g, y)]
    <3>1. Upto(w, k) \subseteq Upto(w, k + 1) BY FlatPartsOfClusters
    <3>2. ASSUME NEW y \in Upto(w, k) PROVE h[y] = g[y] BY <3>1, <1>2
    <3>3. ASSUME NEW y \in Upto(w, k + 1) PROVE Of(g, y) = Of(h, y)
      <4>1. \A z \in ClustersIn(y) : z \in Upto(w, k)
        BY <1>4, WithinPartsOfClusters, FlatPartsOfClusters
      <4> HIDE DEF h, Upto
      <4> QED BY <4>1, <3>2, <1>1
    <3>4. Solves(h, Upto(w, k + 1)) BY <3>3
    <3> HIDE DEF h, Solves
    <3> QED BY <3>4
  <2> HIDE DEF E
  <2>3. MaxNesting + 1 \in E BY <2>1, <2>2, NatsIn
  <2>4. Upto(w, MaxNesting + 1) = Copying!Within(w) BY <1>4, WithinPartsOfClusters
  <2> HIDE DEF Solves, Upto
  <2>5. \E g : Solves(g, Copying!Within(w)) BY <2>3, <2>4 DEF E
  <2> QED BY <2>5
<1> HIDE DEF R, Solves
<1>5. ASSUME NEW w, Copying!Bounded(w), NEW y \in Copying!Within(w)
      PROVE R(w)[y] = Of(R(w), y)
  BY <1>4, <1>5, <1>2
<1> DEFINE Q == {k \in Nat : \A v, w, y : /\ Copying!Bounded(v) /\ Copying!Bounded(w)
                                        /\ y \in Copying!Within(v) /\ y \in Copying!Within(w) /\ FlatCluster(y, k)
                                        => R(v)[y] = R(w)[y]}
<1>6. 0 \in Q BY FlatPartsOfClusters
<1>7. ASSUME NEW k \in Nat, k \in Q PROVE k + 1 \in Q
  <2> SUFFICES ASSUME NEW v, NEW w, NEW y, Copying!Bounded(v), Copying!Bounded(w),
                      y \in Copying!Within(v), y \in Copying!Within(w), FlatCluster(y, k + 1)
               PROVE  R(v)[y] = R(w)[y]
    OBVIOUS
  <2>1. ASSUME NEW z \in ClustersIn(y) PROVE R(v)[z] = R(w)[z]
    <3>1. z \in Copying!Within(v) /\ z \in Copying!Within(w) BY WithinPartsOfClusters
    <3>2. FlatCluster(z, k) BY FlatPartsOfClusters
    <3> QED BY <3>1, <3>2, <1>7
  <2>2. Of(R(v), y) = Of(R(w), y) BY <2>1, <1>1
  <2> QED BY <2>2, <1>5
<1> HIDE DEF Q
<1>8. MaxNesting + 1 \in Q BY <1>6, <1>7, NatsIn
<1>9. ASSUME NEW z \in ClustersIn(x) PROVE R(x)[z] = Copying!Descend(z)
  <2>1. x \in Copying!Within(x) /\ z \in Copying!Within(x) BY WithinPartsOfClusters
  <2>2. Copying!Bounded(z) /\ FlatCluster(z, MaxNesting + 1) /\ z \in Copying!Within(z)
    BY <2>1, WithinPartsOfClusters
  <2>3. R(x)[z] = R(z)[z] BY <1>8, <2>1, <2>2 DEF Q
  <2> QED BY <2>3, <1>3
<1>10. x \in Copying!Within(x) BY WithinPartsOfClusters
<1>11. Copying!Descend(x) = Of(R(x), x) BY <1>3, <1>5, <1>10
<1>12. [z \in ClustersIn(x) |-> R(x)[z]] = [z \in ClustersIn(x) |-> Copying!Descend(z)]
  BY <1>9
<1> QED BY <1>11, <1>12 DEF Of

------------------------------------------------------------------------------
(* The fields of a message.                                                *)

\* The rank of the elements of a finite set of numbers: there is one for every
\* rank below the number of elements.
LEMMA Ranks ==
    ASSUME NEW S, S \subseteq Nat, IsFiniteSet(S), NEW j \in Nat, j < Cardinality(S)
    PROVE  \E n \in S : Cardinality({k \in S : k < n}) = j
<1> DEFINE Lower(n) == {k \in S : k < n}
           Q == {i \in Nat : i < Cardinality(S) => \E n \in S : Cardinality(Lower(n)) = i}
<1>1. Cardinality(S) \in Nat BY FS_CardinalityType
<1>2. 0 \in Q
  <2> SUFFICES ASSUME 0 < Cardinality(S)
               PROVE \E n \in S : Cardinality(Lower(n)) = 0 OBVIOUS
  <2>1. S # {} BY FS_EmptySet
  <2>2. PICK n \in S : \A k \in S : n <= k BY <2>1, NatLeast
  <2>3. Lower(n) = {}
    <3>1. ASSUME NEW k \in S PROVE ~(k < n)
      <4>1. n \in Nat /\ k \in Nat /\ n <= k BY <2>2
      <4> QED BY <4>1
    <3> QED BY <3>1
  <2> QED BY <2>3, FS_EmptySet
<1>3. ASSUME NEW i \in Nat, i \in Q PROVE i + 1 \in Q
  <2> SUFFICES ASSUME i + 1 < Cardinality(S)
               PROVE  \E n \in S : Cardinality(Lower(n)) = i + 1
    OBVIOUS
  <2>1. PICK n \in S : Cardinality(Lower(n)) = i BY <1>1, <1>3
  <2>2. IsFiniteSet(Lower(n)) /\ n \notin Lower(n)
    <3>1. n \in Nat BY <2>1
    <3> QED BY <3>1, FS_Subset
  <2>3. /\ IsFiniteSet(Lower(n) \cup {n})
        /\ Cardinality(Lower(n) \cup {n}) = i + 1
    BY <2>1, <2>2, FS_AddElement
  <2> DEFINE T == {k \in S : n < k}
  <2>4. T # {}
    <3> SUFFICES ASSUME T = {} PROVE FALSE OBVIOUS
    <3>1. ASSUME NEW k \in S PROVE k < n \/ k = n
      <4>1. n \in Nat /\ k \in Nat /\ ~(n < k) BY <2>1
      <4> QED BY <4>1
    <3>2. S = Lower(n) \cup {n} BY <2>1, <3>1
    <3> HIDE DEF Lower
    <3> QED BY <1>1, <2>3, <3>2
  <2>5. PICK l \in T : \A k \in T : l <= k
    <3>1. T \subseteq Nat OBVIOUS
    <3> HIDE DEF T
    <3> QED BY <2>4, <3>1, NatLeast
  <2>6. Lower(l) = Lower(n) \cup {n}
    <3>1. n \in S /\ l \in S /\ n \in Nat /\ l \in Nat /\ n < l BY <2>1, <2>5
    <3>2. ASSUME NEW k \in S PROVE k < l <=> (k < n \/ k = n)
      <4>1. k \in Nat /\ (n < k => l <= k) BY <2>5
      <4> QED BY <3>1, <4>1
    <3> QED BY <3>1, <3>2
  <2> QED BY <2>3, <2>5, <2>6
<1> HIDE DEF Q
<1>4. j \in Q BY <1>2, <1>3, NatsIn
<1> QED BY <1>4 DEF Q

\* FieldNumbers lists numbers of fields.
LEMMA InOrder ==
    ASSUME NEW m, DOMAIN m.vals \subseteq Nat, IsFiniteSet(DOMAIN m.vals)
    PROVE  /\ Len(FieldNumbers(m)) = Cardinality(DOMAIN m.vals)
           /\ Len(FieldNumbers(m)) \in Nat
           /\ DOMAIN FieldNumbers(m) = 1..Len(FieldNumbers(m))
           /\ \A i \in 1..Len(FieldNumbers(m)) : FieldNumbers(m)[i] \in DOMAIN m.vals
<1> DEFINE S == DOMAIN m.vals
           c == Cardinality(S)
<1>1. c \in Nat BY FS_CardinalityType
<1>2. FieldNumbers(m) =
        [i \in 1..c |-> CHOOSE n \in S : Cardinality({k \in S : k < n}) = i - 1]
  BY DEF FieldNumbers
<1> HIDE DEF S, c
<1>3. Len(FieldNumbers(m)) = c /\ DOMAIN FieldNumbers(m) = 1..c BY <1>1, <1>2
<1>4. ASSUME NEW i \in 1..c PROVE FieldNumbers(m)[i] \in S
  <2>1. i - 1 \in Nat /\ i - 1 < c BY <1>1
  <2>2. \E n \in S : Cardinality({k \in S : k < n}) = i - 1 BY <2>1, Ranks DEF S, c
  <2>3. (CHOOSE n \in S : Cardinality({k \in S : k < n}) = i - 1) \in S BY <2>2
  <2> QED BY <1>2, <2>3
<1> QED BY <1>1, <1>3, <1>4 DEF S, c

\* What a value that is a message, or a sequence of messages, can be.
NestedValue(f) ==
    /\ f.type = MessageType /\ f.rep \in BOOLEAN
    /\ f.rep => Len(f.v) \in Nat /\ DOMAIN f.v = 1..Len(f.v)

\* What the methods give for the messages of f: the size is that of the bytes, and
\* the sizes f cached are the sizes.
Agree(f, of) ==
    /\ \A m \in MessagesOf(f) : of[m].bytes \in Seq(Nat) /\ of[m].size = Len(of[m].bytes)
    /\ f.rep /\ Len(f.cache) = Len(f.v) =>
            \A i \in 1..Len(f.v) : f.cache[i] = of[f.v[i]].size
    /\ ~f.rep => f.cache \in {NotCached, of[f.v].size}

\* Messages.
LEMMA NestedBytes ==
    ASSUME NEW num \in Nat, NEW f, NEW of, NestedValue(f), Agree(f, of)
    PROVE  /\ SerializeNested(num, f, of) \in Seq(Nat)
           /\ Len(SerializeNested(num, f, of)) = NestedSize(num, f, of)
           /\ NestedSize(num, f, of) \in Nat
<1>1. CASE ~f.rep
  <2> DEFINE b == of[f.v].bytes
             n == of[f.v].size
  <2>1. b \in Seq(Nat) /\ n = Len(b) BY <1>1 DEF Agree, MessagesOf
  <2>2. (IF f.cache # NotCached THEN f.cache ELSE n) = n BY <1>1 DEF Agree
  <2>3. SerializeNested(num, f, of) = WriteTag(num, WireLengthDelimited) \o WriteVarint(n) \o b
    BY <1>1, <2>2 DEF SerializeNested, NestedByteSizes
  <2>4. NestedSize(num, f, of) = LenDelimSize(num, n)
    BY <1>1 DEF NestedSize, NestedByteSizes
  <2> HIDE DEF b, n
  <2> QED BY <2>1, <2>3, <2>4, LengthDelimitedSize
<1>2. CASE f.rep
  <2> DEFINE k == Len(f.v)
             one(n, b) == WriteTag(num, WireLengthDelimited) \o WriteVarint(n) \o b
             s == [i \in 1..k |-> one(of[f.v[i]].size, of[f.v[i]].bytes)]
             z == [i \in 1..k |-> LenDelimSize(num, of[f.v[i]].size)]
             sizes == NestedByteSizes(f, of)
             used == IF Len(f.cache) = Len(f.v) THEN f.cache ELSE sizes
  <2>1. k \in Nat /\ DOMAIN f.v = 1..k /\ Len(s) = k /\ Len(z) = k
    BY <1>2 DEF NestedValue
  <2>2. sizes = [i \in 1..k |-> of[f.v[i]].size]
    BY <1>2, <2>1 DEF NestedByteSizes, MapSeq
  <2>3. NestedSize(num, f, of) = SumOf(z)
    <3>1. MapSeq(LAMBDA n : LenDelimSize(num, n), sizes) = z BY <2>2 DEF MapSeq
    <3> QED BY <1>2, <3>1 DEF NestedSize
  <2>4. ASSUME NEW i \in 1..k PROVE used[i] = of[f.v[i]].size BY <1>2, <2>2 DEF Agree
  <2>5. SerializeNested(num, f, of) = Concat(s)
    <3>1. SerializeNested(num, f, of) = Concat([i \in 1..k |-> one(used[i], of[f.v[i]].bytes)])
      BY <1>2, <2>1 DEF SerializeNested
    <3>2. [i \in 1..k |-> one(used[i], of[f.v[i]].bytes)] = s
      <4> HIDE DEF used, one
      <4> QED BY <2>4
    <3> QED BY <3>1, <3>2
  <2>6. ASSUME NEW i \in 1..k PROVE s[i] \in Seq(Nat) /\ z[i] = Len(s[i])
    <3> DEFINE b == of[f.v[i]].bytes
               n == of[f.v[i]].size
    <3>1. f.v[i] \in MessagesOf(f) BY <1>2, <2>1 DEF MessagesOf, Range
    <3>2. b \in Seq(Nat) /\ n = Len(b) BY <3>1 DEF Agree
    <3>3. s[i] = one(n, b) /\ z[i] = LenDelimSize(num, n) OBVIOUS
    <3> HIDE DEF b, n, s, z
    <3> QED BY <3>2, <3>3, LengthDelimitedSize
  <2> HIDE DEF k, s, z, one, sizes, used
  <2>7. Measures(z, s, k) BY <2>1, <2>6 DEF Measures, Lists
  <2> QED BY <2>1, <2>3, <2>5, <2>7, ConcatSize
<1> QED BY <1>1, <1>2 DEF NestedValue

\* The types of messages, strings and numbers are different ones.
LEMMA TypesApart ==
    /\ MessageType \notin NumericTypes /\ MessageType \notin StringTypes
    /\ \A t \in StringTypes : t \notin NumericTypes /\ t \notin FixedTypes
    /\ \A t \in FixedTypes \cup {"SInt32Value", "SInt64Value", "BoolValue"} : t \in NumericTypes
    /\ {"SInt32Value", "SInt64Value", "BoolValue"} \cap FixedTypes = {}
<1>1. NumericTypes = {"Int32Value", "Int64Value", "UInt32Value", "UInt64Value",
            "FloatValue", "DoubleValue", "BoolValue", "EnumValue", "SInt32Value",
            "SInt64Value", "Fixed32Value", "Fixed64Value", "SFixed32Value", "SFixed64Value"}
  BY DEF NumericTypes, Traits
<1>2. FixedTypes \subseteq NumericTypes BY DEF FixedTypes
<1>3. {"SInt32Value", "SInt64Value", "BoolValue"} \cap FixedTypes = {}
  <2>1. /\ Traits["SInt32Value"].read = "varint" /\ Traits["SInt64Value"].read = "varint"
        /\ Traits["BoolValue"].read = "varint"
    BY DEF Traits
  <2> QED BY <2>1 DEF FixedTypes
<1> QED BY <1>1, <1>2, <1>3 DEF MessageType, StringTypes

\* The types whose repeated values cache the size of their packed form.
CachingTypes == NumericTypes \ (FixedTypes \cup {"BoolValue"})

\* A field whose value is of its type and whose caches are empty or right.
FieldIs(f, of) ==
    \/ PlainValue(f) /\ (f.type \in CachingTypes /\ f.rep =>
                            f.cache \in {NotCached, PackedSize(f.type, f.v)})
    \/ NestedValue(f) /\ Agree(f, of)

\* The bytes of a field are as many as ByteSizeLong counts for it.
LEMMA FieldBytes ==
    ASSUME NEW num \in Nat, NEW f, NEW of, FieldIs(f, of)
    PROVE  /\ SerializeField(num, f, of) \in Seq(Nat)
           /\ Len(SerializeField(num, f, of)) = FieldSize(num, f, of)
           /\ FieldSize(num, f, of) \in Nat
<1>1. CASE NestedValue(f) /\ Agree(f, of)
  <2>1. /\ f.type = MessageType /\ f.type \notin NumericTypes /\ f.type \notin StringTypes
        /\ f.type \notin FixedTypes \cup {"SInt32Value", "SInt64Value", "BoolValue"}
    BY <1>1, TypesApart DEF NestedValue
  <2>2. SerializeField(num, f, of) = SerializeNested(num, f, of)
    BY <2>1 DEF SerializeField
  <2>3. FieldSize(num, f, of) = NestedSize(num, f, of) BY <2>1 DEF FieldSize
  <2> QED BY <1>1, <2>2, <2>3, NestedBytes
<1>2. CASE PlainValue(f) /\ (f.type \in CachingTypes /\ f.rep =>
                                f.cache \in {NotCached, PackedSize(f.type, f.v)})
  <2>1. f.rep \in BOOLEAN /\ f.type \in NumericTypes \cup StringTypes
    BY <1>2 DEF PlainValue
  <2>2. CASE f.type \in StringTypes
    <3>1. /\ f.type # MessageType /\ f.type \notin NumericTypes /\ f.type \notin FixedTypes
          /\ f.type \notin {"SInt32Value", "SInt64Value", "BoolValue"}
      BY <2>2, TypesApart
    <3>2. SerializeField(num, f, of) = SerializeString(num, f)
      BY <2>2, <3>1 DEF SerializeField
    <3>3. FieldSize(num, f, of) = StringSize(num, f) BY <2>2, <3>1 DEF FieldSize
    <3> QED BY <1>2, <2>2, <3>1, <3>2, <3>3, StringBytes
  <2>3. CASE f.type \in NumericTypes
    <3>1. f.type # MessageType /\ f.type \notin StringTypes BY <2>3, TypesApart
    <3>2. CASE ~f.rep
      <4>1. SerializeField(num, f, of) = SerializeScalar(num, f)
        BY <2>3, <3>1, <3>2 DEF SerializeField
      <4>2. FieldSize(num, f, of) = TagSize(num) + SizeNoTag(f.type, f.v)
        <5>1. CASE f.type \in FixedTypes
          <6>1. f.type \notin {"SInt32Value", "SInt64Value", "BoolValue"}
            BY <5>1, TypesApart
          <6>2. FieldSize(num, f, of) = FixedSize(num, f)
            BY <3>1, <5>1, <6>1 DEF FieldSize
          <6>3. Traits[f.type].as # "zigzag" BY <2>3, <5>1, TraitsAre
          <6>4. SizeNoTag(f.type, f.v) = Traits[f.type].w \div 8
            BY <5>1, <6>1, <6>3 DEF SizeNoTag
          <6> QED BY <3>2, <6>2, <6>4 DEF FixedSize
        <5>2. CASE f.type \notin FixedTypes
          <6>1. ZigZagSize(num, f) = ScalarVarintSize(num, f) BY <3>2 DEF ZigZagSize
          <6>2. FieldSize(num, f, of) = ScalarVarintSize(num, f)
            BY <3>1, <3>2, <5>2, <6>1 DEF FieldSize
          <6> QED BY <6>2 DEF ScalarVarintSize
        <5> QED BY <5>1, <5>2
      <4>3. TagSize(num) + SizeNoTag(f.type, f.v) \in Nat
        BY <1>2, <2>3, <3>2, ScalarBytes
      <4> QED BY <1>2, <2>3, <3>2, <4>1, <4>2, <4>3, ScalarBytes
    <3>3. CASE f.rep /\ f.type \in FixedTypes \cup {"BoolValue"}
      <4>1. SerializeField(num, f, of) = SerializeRepeatedFixed(num, f)
        BY <3>1, <3>3 DEF SerializeField
      <4>2. f.type \in FixedTypes => FieldSize(num, f, of) = FixedSize(num, f)
        BY <3>1, TypesApart DEF FieldSize
      <4>3. f.type \notin FixedTypes => FieldSize(num, f, of) = RepeatedVarintSize(num, f)
        BY <3>1, <3>3 DEF FieldSize
      <4> QED BY <1>2, <3>3, <4>1, <4>2, <4>3, RepeatedFixedBytes
    <3>4. CASE f.rep /\ f.type \in CachingTypes
      <4>1. f.type \notin FixedTypes \cup {"BoolValue"} BY <3>4 DEF CachingTypes
      <4>2. SerializeField(num, f, of) = SerializeRepeatedVarint(num, f)
        BY <3>1, <3>4, <4>1 DEF SerializeField
      <4>3. FieldSize(num, f, of) = RepeatedVarintSize(num, f)
        BY <3>1, <3>4, <4>1 DEF FieldSize, ZigZagSize
      <4> QED BY <1>2, <2>3, <3>4, <4>2, <4>3, RepeatedVarintBytes
    <3> QED BY <2>1, <2>3, <3>2, <3>3, <3>4 DEF CachingTypes
  <2> QED BY <2>1, <2>2, <2>3
<1> QED BY <1>1, <1>2 DEF FieldIs

\* A finite number of fields under their numbers.
Fields(m) == DOMAIN m.vals \subseteq Nat /\ IsFiniteSet(DOMAIN m.vals)

\* The bytes of a message are as many as ByteSizeLong counts, if those of the
\* messages in it are.
LEMMA MethodsAgree ==
    ASSUME NEW m, NEW of, Fields(m), \A n \in DOMAIN m.vals : FieldIs(m.vals[n], of)
    PROVE  /\ Methods(m, of).bytes \in Seq(Nat)
           /\ Methods(m, of).size = Len(Methods(m, of).bytes)
<1> DEFINE nums == FieldNumbers(m)
           k == Len(nums)
           s == [i \in 1..k |-> SerializeField(nums[i], m.vals[nums[i]], of)]
           z == [i \in 1..k |-> FieldSize(nums[i], m.vals[nums[i]], of)]
<1>1. k \in Nat /\ DOMAIN nums = 1..k /\ \A i \in 1..k : nums[i] \in DOMAIN m.vals
  BY InOrder DEF Fields
<1>2. Methods(m, of).bytes = Concat(s) /\ Methods(m, of).size = SumOf(z)
  BY <1>1 DEF Methods, MapSeq
<1>3. ASSUME NEW i \in 1..k PROVE s[i] \in Seq(Nat) /\ z[i] = Len(s[i])
  <2>1. nums[i] \in Nat /\ FieldIs(m.vals[nums[i]], of) BY <1>1 DEF Fields
  <2>2. /\ s[i] = SerializeField(nums[i], m.vals[nums[i]], of)
        /\ z[i] = FieldSize(nums[i], m.vals[nums[i]], of)
    OBVIOUS
  <2> HIDE DEF nums, s, z
  <2> QED BY <2>1, <2>2, FieldBytes
<1>4. Len(s) = k /\ Len(z) = k BY <1>1
<1> HIDE DEF nums, k, s, z
<1>5. Measures(z, s, k) BY <1>3, <1>4 DEF Measures, Lists
<1> QED BY <1>1, <1>2, <1>5, ConcatSize
------------------------------------------------------------------------------
(* Messages in messages.                                                   *)

\* The records of values and of messages.
IsValue(f) == f = [type |-> f.type, rep |-> f.rep, v |-> f.v, cache |-> f.cache]
IsRecord(m) == m = [md |-> m.md, vals |-> m.vals, oneof |-> m.oneof, unknown |-> m.unknown]

\* A field whose caches are empty or hold what ByteSizeLong would put there.
FieldOk(f) ==
    \/ PlainValue(f) /\ (f.type \in CachingTypes /\ f.rep =>
                            f.cache \in {NotCached, PackedSize(f.type, f.v)})
    \/ /\ NestedValue(f)
       /\ f.rep /\ Len(f.cache) = Len(f.v) =>
                \A i \in 1..Len(f.v) : f.cache[i] = ByteSizeLong(f.v[i])
       /\ ~f.rep => f.cache \in {NotCached, ByteSizeLong(f.v)}
MessageOk(m) == /\ IsRecord(m) /\ Fields(m)
                /\ \A n \in DOMAIN m.vals : IsValue(m.vals[n]) /\ FieldOk(m.vals[n])

\* A message that is right down to the messages without messages.
WellFormed(m) == Messages!Bounded(m) /\ \A i \in Nat : \A x \in Messages!Levels(m)[i] : MessageOk(x)

\* A message is well-formed if it is right and the messages in it are well-formed.
LEMMA WellFormedIs ==
    /\ \A m : WellFormed(m) => MessageOk(m) /\ \A z \in Nested(m) : WellFormed(z)
    /\ \A m : /\ Messages!Bounded(m) /\ MessageOk(m) /\ \A z \in Nested(m) : WellFormed(z)
             => WellFormed(m)
<1>1. ASSUME NEW m, WellFormed(m) PROVE MessageOk(m)
  BY <1>1, LevelsAre DEF WellFormed
<1>2. ASSUME NEW m, WellFormed(m), NEW z \in Nested(m) PROVE WellFormed(z)
  <2>1. Messages!Bounded(z)
    <3>1. z \in Messages!Within(m) BY <1>2, WithinParts DEF WellFormed
    <3> QED BY <1>2, <3>1, WithinParts DEF WellFormed
  <2>2. ASSUME NEW i \in Nat, NEW x \in Messages!Levels(z)[i] PROVE MessageOk(x)
    <3>1. x \in Messages!Levels(m)[i + 1] BY <1>2, <2>2, LevelsBelow
    <3> QED BY <1>2, <3>1 DEF WellFormed
  <2> QED BY <2>1, <2>2 DEF WellFormed
<1>3. ASSUME NEW m, Messages!Bounded(m), MessageOk(m), \A z \in Nested(m) : WellFormed(z)
      PROVE  WellFormed(m)
  <2> SUFFICES ASSUME NEW i \in Nat, NEW x \in Messages!Levels(m)[i] PROVE MessageOk(x)
    BY <1>3 DEF WellFormed
  <2>1. CASE i = 0 BY <2>1, <1>3, LevelsAre
  <2>2. CASE i # 0
    <3>1. i - 1 \in Nat /\ (i - 1) + 1 = i BY <2>2
    <3>2. PICK z \in Nested(m) : x \in Messages!Levels(z)[i - 1] BY <3>1, LevelsBelow
    <3> QED BY <1>3, <3>1, <3>2 DEF WellFormed
  <2> QED BY <2>1, <2>2
<1> QED BY <1>1, <1>2, <1>3

\* The results of the messages in m.
Results(m) == [z \in Nested(m) |-> Messages!Descend(z)]

\* A message takes as many bytes as ByteSizeLong counts.
Agrees(m) == SerializeToCodedStream(m) \in Seq(Nat)
             /\ ByteSizeLong(m) = Len(SerializeToCodedStream(m))

\* The messages of a field are messages of its message.
LEMMA NestedHas ==
    ASSUME NEW m, NEW n \in DOMAIN m.vals, m.vals[n].type = MessageType
    PROVE  MessagesOf(m.vals[n]) \subseteq Nested(m)
BY DEF Nested

\* The fields of a message in terms of the results of the messages in it.
LEMMA FieldsAgree ==
    ASSUME NEW m, WellFormed(m), \A z \in Nested(m) : Agrees(z)
    PROVE  Fields(m) /\ \A n \in DOMAIN m.vals : FieldIs(m.vals[n], Results(m))
<1>1. MessageOk(m) BY WellFormedIs
<1>2. ASSUME NEW n \in DOMAIN m.vals PROVE FieldIs(m.vals[n], Results(m))
  <2> DEFINE f == m.vals[n]
             of == Results(m)
  <2>1. FieldOk(f) BY <1>1 DEF MessageOk
  <2>2. CASE NestedValue(f)
    <3>1. f.type = MessageType BY <2>2 DEF NestedValue
    <3>2. MessagesOf(f) \subseteq Nested(m) BY <3>1, NestedHas
    <3>3. f.type \notin NumericTypes \cup StringTypes BY <3>1, TypesApart
    <3>4. /\ f.rep /\ Len(f.cache) = Len(f.v) =>
                \A i \in 1..Len(f.v) : f.cache[i] = ByteSizeLong(f.v[i])
          /\ ~f.rep => f.cache \in {NotCached, ByteSizeLong(f.v)}
      BY <2>1, <3>3 DEF FieldOk, PlainValue
    <3>5. ASSUME NEW z \in MessagesOf(f)
          PROVE  of[z].bytes \in Seq(Nat) /\ of[z].size = Len(of[z].bytes) /\ of[z].size = ByteSizeLong(z)
      <4>1. of[z] = Messages!Descend(z) BY <3>2 DEF Results
      <4>2. Agrees(z) BY <3>2
      <4> QED BY <4>1, <4>2 DEF Agrees, ByteSizeLong, SerializeToCodedStream
    <3>6. ASSUME f.rep, NEW i \in 1..Len(f.v) PROVE f.v[i] \in MessagesOf(f)
      BY <2>2, <3>6 DEF NestedValue, MessagesOf, Range
    <3>7. ~f.rep => f.v \in MessagesOf(f) BY DEF MessagesOf
    <3> HIDE DEF f, of
    <3>8. Agree(f, of) BY <3>4, <3>5, <3>6, <3>7 DEF Agree
    <3> QED BY <2>2, <3>8 DEF FieldIs, f, of
  <2>3. CASE ~NestedValue(f) BY <2>1, <2>3 DEF FieldOk, FieldIs
  <2> QED BY <2>2, <2>3
<1> QED BY <1>1, <1>2 DEF MessageOk

\* Every well-formed message takes as many bytes as ByteSizeLong counts.
THEOREM SizeIsRight ==
    ASSUME NEW m, WellFormed(m)
    PROVE  Agrees(m)
<1> DEFINE E == {k \in Nat : \A x : WellFormed(x) /\ Flat(x, k) => Agrees(x)}
<1>1. 0 \in E BY FlatParts
<1>2. ASSUME NEW k \in Nat, k \in E PROVE k + 1 \in E
  <2> SUFFICES ASSUME NEW x, WellFormed(x), Flat(x, k + 1) PROVE Agrees(x) OBVIOUS
  <2>1. ASSUME NEW z \in Nested(x) PROVE Agrees(z)
    <3>1. WellFormed(z) BY WellFormedIs
    <3>2. Flat(z, k) BY FlatParts
    <3> QED BY <1>2, <3>1, <3>2
  <2>2. Fields(x) /\ \A n \in DOMAIN x.vals : FieldIs(x.vals[n], Results(x))
    BY <2>1, FieldsAgree
  <2>3. Messages!Descend(x) = Methods(x, Results(x)) BY Unfold DEF WellFormed, Results
  <2>4. /\ Methods(x, Results(x)).bytes \in Seq(Nat)
        /\ Methods(x, Results(x)).size = Len(Methods(x, Results(x)).bytes)
    BY <2>2, MethodsAgree
  <2> QED BY <2>3, <2>4 DEF Agrees, ByteSizeLong, SerializeToCodedStream
<1> HIDE DEF E
<1>3. MaxNesting + 1 \in E BY <1>1, <1>2, NatsIn, MaxNestingAssumption
<1>4. Flat(m, MaxNesting + 1) BY DEF WellFormed, Messages!Bounded, Flat
<1> QED BY <1>3, <1>4 DEF E
\* The sizes and bytes of what ByteSizeLong leaves of the messages of f are those of
\* the messages.
Keeps(f, of, next) == \A z \in MessagesOf(f) :
    next[of[z].sized].size = of[z].size /\ next[of[z].sized].bytes = of[z].bytes

\* What ByteSizeLong leaves of a field of messages.
LEMMA SizedNested ==
    ASSUME NEW f, NEW of, IsValue(f), NestedValue(f)
    PROVE  LET g == SizedField(f, of) IN
           /\ g.type = MessageType /\ g.rep = f.rep /\ IsValue(g)
           /\ ~f.rep => g.v = of[f.v].sized /\ g.cache = of[f.v].size
           /\ f.rep => /\ g.v = [i \in 1..Len(f.v) |-> of[f.v[i]].sized]
                       /\ g.cache = [i \in 1..Len(f.v) |-> of[f.v[i]].size]
<1> DEFINE v == IF f.rep THEN MapSeq(LAMBDA m : of[m].sized, f.v) ELSE of[f.v].sized
           c == NestedByteSizes(f, of)
           g == SizedField(f, of)
<1>1. f.type = MessageType /\ f.rep \in BOOLEAN /\ f.type \notin NumericTypes
  BY TypesApart DEF NestedValue
<1>2. g = [f EXCEPT !.cache = c, !.v = v] BY <1>1 DEF SizedField
<1>3. f.rep => v = [i \in 1..Len(f.v) |-> of[f.v[i]].sized] /\ c = [i \in 1..Len(f.v) |-> of[f.v[i]].size]
  BY DEF NestedValue, MapSeq, NestedByteSizes
<1>4. ~f.rep => v = of[f.v].sized /\ c = of[f.v].size BY DEF NestedByteSizes
<1> HIDE DEF v, c
<1>5. g = [type |-> f.type, rep |-> f.rep, v |-> v, cache |-> c] BY <1>2 DEF IsValue
<1> HIDE DEF g
<1>6. g.type = f.type /\ g.rep = f.rep /\ g.v = v /\ g.cache = c /\ IsValue(g)
  BY <1>5 DEF IsValue
<1> QED BY <1>1, <1>3, <1>4, <1>6 DEF g

\* What it leaves of any other field.
LEMMA SizedPlain ==
    ASSUME NEW f, NEW of, IsValue(f), PlainValue(f)
    PROVE  LET g == SizedField(f, of) IN
           /\ g.type = f.type /\ g.rep = f.rep /\ g.v = f.v /\ IsValue(g)
           /\ f.type \in CachingTypes /\ f.rep => g.cache = PackedSize(f.type, f.v)
           /\ ~(f.type \in CachingTypes /\ f.rep) => g = f
<1> DEFINE c == PackedSize(f.type, f.v)
           g == SizedField(f, of)
<1>1. f.type # MessageType /\ f.rep \in BOOLEAN BY TypesApart DEF PlainValue
<1>2. CASE f.type \in CachingTypes /\ f.rep
  <2>1. g = [f EXCEPT !.cache = c] BY <1>1, <1>2 DEF SizedField, CachingTypes
  <2> HIDE DEF c
  <2>2. g = [type |-> f.type, rep |-> f.rep, v |-> f.v, cache |-> c] BY <2>1 DEF IsValue
  <2> HIDE DEF g
  <2>3. g.type = f.type /\ g.rep = f.rep /\ g.v = f.v /\ g.cache = c /\ IsValue(g)
    BY <2>2 DEF IsValue
  <2> QED BY <1>2, <2>3 DEF g, c
<1>3. CASE ~(f.type \in CachingTypes /\ f.rep)
  <2>1. g = f BY <1>1, <1>3 DEF SizedField, CachingTypes
  <2> QED BY <1>3, <2>1
<1> QED BY <1>2, <1>3

\* The methods of a field without messages have no use for what messages give.
LEMMA PlainMethods ==
    ASSUME NEW num, NEW f, PlainValue(f), NEW of, NEW next
    PROVE  /\ FieldSize(num, f, of) = FieldSize(num, f, next)
           /\ SerializeField(num, f, of) = SerializeField(num, f, next)
<1>1. f.type # MessageType BY TypesApart DEF PlainValue
<1> QED BY <1>1 DEF FieldSize, SerializeField
\* A field of messages has the same size and bytes after ByteSizeLong.
LEMMA SizedNestedSame ==
    ASSUME NEW num \in Nat, NEW f, NEW of, NEW next,
           IsValue(f), NestedValue(f), Agree(f, of), Keeps(f, of, next)
    PROVE  /\ NestedSize(num, SizedField(f, of), next) = NestedSize(num, f, of)
           /\ SerializeNested(num, SizedField(f, of), next) = SerializeNested(num, f, of)
<1> DEFINE g == SizedField(f, of)
<1>1. /\ g.type = MessageType /\ g.rep = f.rep
      /\ ~f.rep => g.v = of[f.v].sized /\ g.cache = of[f.v].size
      /\ f.rep => /\ g.v = [i \in 1..Len(f.v) |-> of[f.v[i]].sized]
                  /\ g.cache = [i \in 1..Len(f.v) |-> of[f.v[i]].size]
  BY SizedNested
<1> HIDE DEF g
<1>2. CASE ~f.rep
  <2>1. f.v \in MessagesOf(f) BY <1>2 DEF MessagesOf
  <2>2. next[g.v].size = of[f.v].size /\ next[g.v].bytes = of[f.v].bytes
    BY <1>1, <1>2, <2>1 DEF Keeps
  <2>3. NestedByteSizes(g, next) = of[f.v].size /\ NestedByteSizes(f, of) = of[f.v].size
    BY <1>1, <1>2, <2>2 DEF NestedByteSizes
  <2>4. NestedSize(num, g, next) = NestedSize(num, f, of)
    BY <1>1, <1>2, <2>3 DEF NestedSize
  <2>5. SerializeNested(num, f, of) =
            WriteTag(num, WireLengthDelimited) \o WriteVarint(of[f.v].size) \o of[f.v].bytes
    <3>1. (IF f.cache # NotCached THEN f.cache ELSE of[f.v].size) = of[f.v].size
      BY <1>2 DEF Agree
    <3> QED BY <1>2, <2>3, <3>1 DEF SerializeNested
  <2>6. SerializeNested(num, g, next) =
            WriteTag(num, WireLengthDelimited) \o WriteVarint(of[f.v].size) \o of[f.v].bytes
    <3>1. (IF g.cache # NotCached THEN g.cache ELSE of[f.v].size) = of[f.v].size
      BY <1>1, <1>2
    <3> QED BY <1>1, <1>2, <2>2, <2>3, <3>1 DEF SerializeNested
  <2> QED BY <2>4, <2>5, <2>6 DEF g
<1>3. CASE f.rep
  <2> DEFINE k == Len(f.v)
             one(n, b) == WriteTag(num, WireLengthDelimited) \o WriteVarint(n) \o b
             sizes == [i \in 1..k |-> of[f.v[i]].size]
             all == [i \in 1..k |-> one(of[f.v[i]].size, of[f.v[i]].bytes)]
  <2>1. k \in Nat /\ DOMAIN f.v = 1..k BY <1>3 DEF NestedValue
  <2>2. DOMAIN g.v = 1..k /\ Len(g.v) = k /\ Len(g.cache) = k BY <1>1, <1>3, <2>1
  <2>3. ASSUME NEW i \in 1..k
        PROVE  /\ next[g.v[i]].size = of[f.v[i]].size /\ next[g.v[i]].bytes = of[f.v[i]].bytes
               /\ g.cache[i] = of[f.v[i]].size
    <3>1. f.v[i] \in MessagesOf(f) BY <1>3, <2>1 DEF MessagesOf, Range
    <3>2. g.v[i] = of[f.v[i]].sized /\ g.cache[i] = of[f.v[i]].size BY <1>1, <1>3
    <3> QED BY <3>1, <3>2 DEF Keeps
  <2>4. NestedByteSizes(f, of) = sizes BY <1>3, <2>1 DEF NestedByteSizes, MapSeq
  <2>5. NestedByteSizes(g, next) = sizes
    <3>1. NestedByteSizes(g, next) = [i \in 1..k |-> next[g.v[i]].size]
      BY <1>1, <1>3, <2>2 DEF NestedByteSizes, MapSeq
    <3> QED BY <2>3, <3>1
  <2>6. NestedSize(num, g, next) = NestedSize(num, f, of)
    BY <1>1, <1>3, <2>4, <2>5 DEF NestedSize
  <2> DEFINE used == IF Len(f.cache) = Len(f.v) THEN f.cache ELSE sizes
  <2>7. ASSUME NEW i \in 1..k PROVE used[i] = of[f.v[i]].size BY <1>3 DEF Agree
  <2>8. SerializeNested(num, f, of) = Concat(all)
    <3>1. SerializeNested(num, f, of) = Concat([i \in 1..k |-> one(used[i], of[f.v[i]].bytes)])
      BY <1>3, <2>1, <2>4 DEF SerializeNested
    <3>2. [i \in 1..k |-> one(used[i], of[f.v[i]].bytes)] = all
      <4> HIDE DEF used, one
      <4> QED BY <2>7
    <3> QED BY <3>1, <3>2
  <2>9. SerializeNested(num, g, next) = Concat(all)
    <3>1. SerializeNested(num, g, next) = Concat([i \in 1..k |-> one(g.cache[i], next[g.v[i]].bytes)])
      BY <1>1, <1>3, <2>2 DEF SerializeNested
    <3>2. [i \in 1..k |-> one(g.cache[i], next[g.v[i]].bytes)] = all
      <4> HIDE DEF one
      <4> QED BY <2>3
    <3> QED BY <3>1, <3>2
  <2> QED BY <2>6, <2>8, <2>9 DEF g
<1> QED BY <1>2, <1>3 DEF NestedValue

\* ByteSizeLong leaves a field as it is for the eye.
LEMMA SizedFieldSame ==
    ASSUME NEW num \in Nat, NEW f, NEW of, NEW next, IsValue(f), FieldIs(f, of),
           f.type = MessageType => Keeps(f, of, next)
    PROVE  LET g == SizedField(f, of) IN
           /\ FieldSize(num, g, next) = FieldSize(num, f, of)
           /\ SerializeField(num, g, next) = SerializeField(num, f, of)
<1> DEFINE g == SizedField(f, of)
<1>1. CASE NestedValue(f) /\ Agree(f, of)
  <2>1. f.type = MessageType BY <1>1 DEF NestedValue
  <2>2. g.type = MessageType BY <1>1, SizedNested
  <2>3. \A h, o : h.type = MessageType => /\ FieldSize(num, h, o) = NestedSize(num, h, o)
                                          /\ SerializeField(num, h, o) = SerializeNested(num, h, o)
    <3> SUFFICES ASSUME NEW h, NEW o, h.type = MessageType
                 PROVE  /\ FieldSize(num, h, o) = NestedSize(num, h, o)
                        /\ SerializeField(num, h, o) = SerializeNested(num, h, o)
      OBVIOUS
    <3>1. /\ h.type \notin NumericTypes /\ h.type \notin StringTypes
          /\ h.type \notin FixedTypes \cup {"SInt32Value", "SInt64Value", "BoolValue"}
      BY TypesApart
    <3> QED BY <3>1 DEF FieldSize, SerializeField
  <2> HIDE DEF g
  <2>4. /\ NestedSize(num, g, next) = NestedSize(num, f, of)
        /\ SerializeNested(num, g, next) = SerializeNested(num, f, of)
    BY <1>1, <2>1, SizedNestedSame DEF g
  <2> QED BY <2>1, <2>2, <2>3, <2>4 DEF g
<1>2. CASE PlainValue(f) /\ (f.type \in CachingTypes /\ f.rep =>
                                f.cache \in {NotCached, PackedSize(f.type, f.v)})
  <2>1. /\ g.type = f.type /\ g.rep = f.rep /\ g.v = f.v
        /\ f.type \in CachingTypes /\ f.rep => g.cache = PackedSize(f.type, f.v)
        /\ ~(f.type \in CachingTypes /\ f.rep) => g = f
    BY <1>2, SizedPlain
  <2> HIDE DEF g
  <2>2. CASE f.type \in CachingTypes /\ f.rep
    <3>1. /\ f.type # MessageType /\ f.type \notin StringTypes
          /\ f.type \notin FixedTypes /\ f.type \in NumericTypes
      BY <2>2, TypesApart DEF CachingTypes
    <3>2. FieldSize(num, g, next) = FieldSize(num, f, of)
      BY <2>1, <2>2, <3>1 DEF FieldSize, ZigZagSize, RepeatedVarintSize
    <3>3. SerializeRepeatedVarint(num, g) = SerializeRepeatedVarint(num, f)
      <4>1. (IF f.cache = NotCached THEN PackedSize(f.type, f.v) ELSE f.cache) = PackedSize(f.type, f.v)
        BY <1>2, <2>2
      <4>2. (IF g.cache = NotCached THEN PackedSize(g.type, g.v) ELSE g.cache) = PackedSize(f.type, f.v)
        BY <2>1, <2>2
      <4> QED BY <2>1, <4>1, <4>2 DEF SerializeRepeatedVarint
    <3>4. \A h, o : h.type = f.type /\ h.rep = f.rep =>
                        SerializeField(num, h, o) = SerializeRepeatedVarint(num, h)
      BY <2>2, <3>1 DEF SerializeField, CachingTypes
    <3> QED BY <2>1, <3>2, <3>3, <3>4 DEF g
  <2>3. CASE ~(f.type \in CachingTypes /\ f.rep)
    BY <1>2, <2>1, <2>3, PlainMethods DEF g
  <2> QED BY <2>2, <2>3
<1> QED BY <1>1, <1>2 DEF FieldIs
\* What ByteSizeLong leaves of a field: a value with the right caches, whose messages
\* are what it leaves of the messages.
LEMMA SizedFieldOk ==
    ASSUME NEW f, NEW of, IsValue(f), FieldIs(f, of),
           f.type = MessageType => \A z \in MessagesOf(f) : of[z].size = ByteSizeLong(of[z].sized)
    PROVE  LET g == SizedField(f, of) IN
           /\ IsValue(g) /\ FieldOk(g) /\ g.type = f.type
           /\ g.type = MessageType => MessagesOf(g) = {of[z].sized : z \in MessagesOf(f)}
<1> DEFINE g == SizedField(f, of)
<1>1. CASE NestedValue(f) /\ Agree(f, of)
  <2>1. /\ f.type = MessageType /\ f.rep \in BOOLEAN
        /\ f.rep => Len(f.v) \in Nat /\ DOMAIN f.v = 1..Len(f.v)
    BY <1>1 DEF NestedValue
  <2>2. /\ g.type = MessageType /\ g.rep = f.rep /\ IsValue(g)
        /\ ~f.rep => g.v = of[f.v].sized /\ g.cache = of[f.v].size
        /\ f.rep => /\ g.v = [i \in 1..Len(f.v) |-> of[f.v[i]].sized]
                    /\ g.cache = [i \in 1..Len(f.v) |-> of[f.v[i]].size]
    BY <1>1, SizedNested
  <2> HIDE DEF g
  <2>3. CASE ~f.rep
    <3>1. MessagesOf(f) = {f.v} /\ MessagesOf(g) = {of[f.v].sized}
      BY <2>2, <2>3 DEF MessagesOf
    <3>2. g.cache = ByteSizeLong(g.v) BY <2>1, <2>2, <2>3, <3>1
    <3>3. NestedValue(g) BY <2>1, <2>2, <2>3 DEF NestedValue
    <3>4. FieldOk(g) BY <2>2, <2>3, <3>2, <3>3 DEF FieldOk
    <3> QED BY <2>1, <2>2, <3>1, <3>4 DEF g
  <2>4. CASE f.rep
    <3> DEFINE k == Len(f.v)
    <3>1. k \in Nat /\ DOMAIN f.v = 1..k BY <2>1, <2>4
    <3>2. Len(g.v) = k /\ DOMAIN g.v = 1..k BY <2>2, <2>4, <3>1
    <3>3. MessagesOf(f) = {f.v[i] : i \in 1..k} /\ MessagesOf(g) = {g.v[i] : i \in 1..k}
      BY <2>2, <2>4, <3>1, <3>2 DEF MessagesOf, Range
    <3>4. ASSUME NEW i \in 1..k
          PROVE  g.v[i] = of[f.v[i]].sized /\ g.cache[i] = ByteSizeLong(g.v[i])
      <4>1. g.v[i] = of[f.v[i]].sized /\ g.cache[i] = of[f.v[i]].size BY <2>2, <2>4
      <4> QED BY <2>1, <3>3, <4>1
    <3>5. MessagesOf(g) = {of[z].sized : z \in MessagesOf(f)} BY <3>3, <3>4
    <3>6. NestedValue(g) BY <2>2, <2>4, <3>1, <3>2 DEF NestedValue
    <3>7. FieldOk(g) BY <2>2, <2>4, <3>2, <3>4, <3>6 DEF FieldOk
    <3> QED BY <2>1, <2>2, <3>5, <3>7 DEF g
  <2> QED BY <2>1, <2>3, <2>4
<1>2. CASE PlainValue(f) /\ (f.type \in CachingTypes /\ f.rep =>
                                f.cache \in {NotCached, PackedSize(f.type, f.v)})
  <2>1. /\ g.type = f.type /\ g.rep = f.rep /\ g.v = f.v /\ IsValue(g)
        /\ f.type \in CachingTypes /\ f.rep => g.cache = PackedSize(f.type, f.v)
    BY <1>2, SizedPlain
  <2>2. f.type # MessageType BY <1>2, TypesApart DEF PlainValue
  <2> HIDE DEF g
  <2>3. PlainValue(g) BY <1>2, <2>1 DEF PlainValue
  <2>4. FieldOk(g) BY <2>1, <2>3 DEF FieldOk
  <2> QED BY <2>1, <2>2, <2>4 DEF g
<1> QED BY <1>1, <1>2 DEF FieldIs

\* What ByteSizeLong leaves of a message with the results of.
LEMMA SizedMessage ==
    ASSUME NEW m, NEW of, IsRecord(m)
    PROVE  LET s == Methods(m, of).sized IN
           /\ IsRecord(s) /\ s.md = m.md /\ s.oneof = m.oneof /\ s.unknown = m.unknown
           /\ s.vals = [n \in DOMAIN m.vals |-> SizedField(m.vals[n], of)]
           /\ FieldNumbers(s) = FieldNumbers(m)
<1> DEFINE v == [n \in DOMAIN m.vals |-> SizedField(m.vals[n], of)]
           s == Methods(m, of).sized
<1>1. s = [m EXCEPT !.vals = v] BY DEF Methods
<1>2. DOMAIN v = DOMAIN m.vals OBVIOUS
<1> HIDE DEF v, s
<1>3. s = [md |-> m.md, vals |-> v, oneof |-> m.oneof, unknown |-> m.unknown]
  BY <1>1 DEF IsRecord
<1>4. s.md = m.md /\ s.vals = v /\ s.oneof = m.oneof /\ s.unknown = m.unknown /\ IsRecord(s)
  BY <1>3 DEF IsRecord
<1> DEFINE N(S) == [i \in 1..Cardinality(S) |->
                        CHOOSE n \in S : Cardinality({k \in S : k < n}) = i - 1]
<1>5. FieldNumbers(s) = FieldNumbers(m)
  <2>1. FieldNumbers(s) = N(DOMAIN s.vals) /\ FieldNumbers(m) = N(DOMAIN m.vals)
    BY DEF FieldNumbers
  <2> HIDE DEF N
  <2> QED BY <1>2, <1>4, <2>1
<1> QED BY <1>4, <1>5 DEF v, s

\* A message all of whose messages have less than k levels below them has less
\* than k + 1.
LEMMA FlatIs ==
    ASSUME NEW m, NEW k \in Nat, \A z \in Nested(m) : Flat(z, k)
    PROVE  Flat(m, k + 1)
BY LevelsBelow DEF Flat

\* ByteSizeLong leaves a well-formed message of the same size and bytes.
SizedIs(m) ==
    /\ WellFormed(Sized(m))
    /\ \A j \in Nat : Flat(m, j) => Flat(Sized(m), j)
    /\ ByteSizeLong(Sized(m)) = ByteSizeLong(m)
    /\ SerializeToCodedStream(Sized(m)) = SerializeToCodedStream(m)

\* It does if it does so for the messages in the message.
LEMMA SizedStep ==
    ASSUME NEW m, WellFormed(m), \A z \in Nested(m) : SizedIs(z)
    PROVE  SizedIs(m)
<1> DEFINE of == Results(m)
           s == Sized(m)
           next == Results(s)
           g(n) == SizedField(m.vals[n], of)
<1>1. Messages!Descend(m) = Methods(m, of) BY Unfold DEF WellFormed, Results
<1>2. IsRecord(m) /\ Fields(m) /\ \A n \in DOMAIN m.vals : IsValue(m.vals[n])
  BY WellFormedIs DEF MessageOk
<1>3. s = Methods(m, of).sized BY <1>1 DEF Sized
<1>4. /\ IsRecord(s) /\ DOMAIN s.vals = DOMAIN m.vals /\ FieldNumbers(s) = FieldNumbers(m)
      /\ \A n \in DOMAIN m.vals : s.vals[n] = g(n)
  <2> DEFINE t == Methods(m, of).sized
  <2>1. /\ IsRecord(t) /\ FieldNumbers(t) = FieldNumbers(m)
        /\ t.vals = [n \in DOMAIN m.vals |-> g(n)]
    BY <1>2, SizedMessage
  <2>2. s = t BY <1>3
  <2> HIDE DEF s, t, g
  <2> QED BY <2>1, <2>2
<1>5. ASSUME NEW z \in Nested(m)
      PROVE  of[z].sized = Sized(z) /\ of[z].size = ByteSizeLong(z) /\ of[z].bytes = SerializeToCodedStream(z)
  BY DEF Results, Sized, ByteSizeLong, SerializeToCodedStream
<1>6. \A z \in Nested(m) : Agrees(z) BY WellFormedIs, SizeIsRight
<1>7. \A n \in DOMAIN m.vals : FieldIs(m.vals[n], of) BY <1>6, FieldsAgree
<1>8. \A y : (y \in DOMAIN m.vals /\ m.vals[y].type = MessageType) =>
                MessagesOf(m.vals[y]) \subseteq Nested(m)
  BY NestedHas
<1> HIDE DEF of, s, g
<1>9. ASSUME NEW n \in DOMAIN m.vals
      PROVE  /\ IsValue(g(n)) /\ FieldOk(g(n)) /\ g(n).type = m.vals[n].type
             /\ g(n).type = MessageType => MessagesOf(g(n)) = {Sized(z) : z \in MessagesOf(m.vals[n])}
  <2> DEFINE f == m.vals[n]
  <2>1. ASSUME f.type = MessageType, NEW z \in MessagesOf(f)
        PROVE  of[z].sized = Sized(z) /\ of[z].size = ByteSizeLong(of[z].sized)
    <3>1. z \in Nested(m) BY <1>8, <2>1
    <3> QED BY <1>5, <3>1 DEF SizedIs
  <2>2. IsValue(f) /\ FieldIs(f, of) BY <1>2, <1>7
  <2> HIDE DEF f
  <2>3. /\ IsValue(SizedField(f, of)) /\ FieldOk(SizedField(f, of)) /\ SizedField(f, of).type = f.type
        /\ SizedField(f, of).type = MessageType =>
                MessagesOf(SizedField(f, of)) = {of[z].sized : z \in MessagesOf(f)}
    BY <2>1, <2>2, SizedFieldOk
  <2>4. f.type = MessageType => {of[z].sized : z \in MessagesOf(f)} = {Sized(z) : z \in MessagesOf(f)}
    BY <2>1
  <2> QED BY <2>3, <2>4 DEF f, g
<1>10. ASSUME NEW y \in Nested(s) PROVE \E z \in Nested(m) : y = Sized(z)
  <2>1. PICK n \in DOMAIN s.vals : s.vals[n].type = MessageType /\ y \in MessagesOf(s.vals[n])
    BY <1>10 DEF Nested
  <2>2. PICK z \in MessagesOf(m.vals[n]) : y = Sized(z) BY <1>4, <1>9, <2>1
  <2>3. z \in Nested(m) BY <1>4, <1>8, <1>9, <2>1
  <2> QED BY <2>2, <2>3
<1>11. ASSUME NEW j \in Nat, Flat(m, j) PROVE Flat(s, j)
  <2>1. j # 0 BY <1>11, FlatParts
  <2>2. j - 1 \in Nat /\ (j - 1) + 1 = j BY <2>1
  <2>3. ASSUME NEW y \in Nested(s) PROVE Flat(y, j - 1)
    <3>1. PICK z \in Nested(m) : y = Sized(z) BY <1>10
    <3>2. Flat(z, j - 1) BY <1>11, <2>2, FlatParts
    <3> QED BY <2>2, <3>1, <3>2 DEF SizedIs
  <2> QED BY <2>2, <2>3, FlatIs
<1>12. Messages!Bounded(s)
  <2>1. Flat(m, MaxNesting + 1) BY DEF WellFormed, Messages!Bounded, Flat
  <2>2. MaxNesting + 1 \in Nat BY MaxNestingAssumption
  <2>3. Flat(s, MaxNesting + 1) BY <1>11, <2>1, <2>2
  <2> QED BY <2>3 DEF Messages!Bounded, Flat
<1>13. WellFormed(s)
  <2>1. MessageOk(s) BY <1>2, <1>4, <1>9 DEF MessageOk, Fields
  <2>2. \A y \in Nested(s) : WellFormed(y) BY <1>10 DEF SizedIs
  <2> QED BY <1>12, <2>1, <2>2, WellFormedIs
<1>14. ASSUME NEW n \in DOMAIN m.vals
       PROVE  /\ FieldSize(n, s.vals[n], next) = FieldSize(n, m.vals[n], of)
              /\ SerializeField(n, s.vals[n], next) = SerializeField(n, m.vals[n], of)
  <2> DEFINE f == m.vals[n]
  <2>1. ASSUME f.type = MessageType PROVE Keeps(f, of, next)
    <3> SUFFICES ASSUME NEW z \in MessagesOf(f)
                 PROVE  /\ next[of[z].sized].size = of[z].size
                        /\ next[of[z].sized].bytes = of[z].bytes
      BY DEF Keeps
    <3>1. z \in Nested(m) BY <1>8, <2>1
    <3>2. Sized(z) \in MessagesOf(s.vals[n]) /\ s.vals[n].type = MessageType
      BY <1>4, <1>9, <2>1
    <3>3. Sized(z) \in Nested(s) BY <1>4, <3>2, NestedHas
    <3>4. next[Sized(z)] = Messages!Descend(Sized(z)) BY <3>3 DEF Results
    <3>5. SizedIs(z) BY <3>1
    <3> QED BY <1>5, <3>1, <3>4, <3>5 DEF SizedIs, ByteSizeLong, SerializeToCodedStream
  <2>2. n \in Nat /\ IsValue(f) /\ FieldIs(f, of) BY <1>2, <1>7 DEF Fields
  <2>3. s.vals[n] = SizedField(f, of) BY <1>4 DEF g
  <2> HIDE DEF f, next
  <2> QED BY <2>1, <2>2, <2>3, SizedFieldSame DEF f
<1>15. Messages!Descend(s) = Methods(s, next) BY <1>12, Unfold DEF Results
<1> HIDE DEF next
<1>16. Methods(s, next).size = Methods(m, of).size /\ Methods(s, next).bytes = Methods(m, of).bytes
  <2> DEFINE nums == FieldNumbers(m)
             k == Len(nums)
  <2>1. k \in Nat /\ DOMAIN nums = 1..k /\ \A i \in 1..k : nums[i] \in DOMAIN m.vals
    BY <1>2, InOrder DEF Fields
  <2>2. /\ Methods(m, of).size = SumOf([i \in 1..k |-> FieldSize(nums[i], m.vals[nums[i]], of)])
        /\ Methods(m, of).bytes = Concat([i \in 1..k |-> SerializeField(nums[i], m.vals[nums[i]], of)])
    BY <2>1 DEF Methods, MapSeq
  <2>3. /\ Methods(s, next).size = SumOf([i \in 1..k |-> FieldSize(nums[i], s.vals[nums[i]], next)])
        /\ Methods(s, next).bytes = Concat([i \in 1..k |-> SerializeField(nums[i], s.vals[nums[i]], next)])
    BY <1>4, <2>1 DEF Methods, MapSeq
  <2> HIDE DEF nums, k
  <2>4. [i \in 1..k |-> FieldSize(nums[i], s.vals[nums[i]], next)] =
        [i \in 1..k |-> FieldSize(nums[i], m.vals[nums[i]], of)]
    BY <1>14, <2>1
  <2>5. [i \in 1..k |-> SerializeField(nums[i], s.vals[nums[i]], next)] =
        [i \in 1..k |-> SerializeField(nums[i], m.vals[nums[i]], of)]
    BY <1>14, <2>1
  <2> QED BY <2>2, <2>3, <2>4, <2>5
<1>17. /\ ByteSizeLong(s) = ByteSizeLong(m)
       /\ SerializeToCodedStream(s) = SerializeToCodedStream(m)
  BY <1>1, <1>15, <1>16 DEF ByteSizeLong, SerializeToCodedStream
<1> QED BY <1>11, <1>13, <1>17 DEF SizedIs, s

\* A message that was sized is still well-formed, and writes the same bytes.
THEOREM SizedIsSame ==
    ASSUME NEW m, WellFormed(m)
    PROVE  SizedIs(m)
<1> DEFINE E == {k \in Nat : \A x : WellFormed(x) /\ Flat(x, k) => SizedIs(x)}
<1>1. 0 \in E BY FlatParts
<1>2. ASSUME NEW k \in Nat, k \in E PROVE k + 1 \in E
  <2> SUFFICES ASSUME NEW x, WellFormed(x), Flat(x, k + 1) PROVE SizedIs(x) OBVIOUS
  <2>1. ASSUME NEW z \in Nested(x) PROVE SizedIs(z)
    <3>1. WellFormed(z) BY WellFormedIs
    <3>2. Flat(z, k) BY FlatParts
    <3> QED BY <1>2, <3>1, <3>2
  <2> QED BY <2>1, SizedStep
<1> HIDE DEF E
<1>3. MaxNesting + 1 \in E BY <1>1, <1>2, NatsIn, MaxNestingAssumption
<1>4. Flat(m, MaxNesting + 1) BY DEF WellFormed, Messages!Bounded, Flat
<1> QED BY <1>3, <1>4 DEF E

\* The slice SerializeToByteBuffer allocates for ByteSizeLong bytes is filled with
\* what the message writes: no byte is dropped and none is left as it was.
THEOREM ByteBufferIsMessage ==
    ASSUME NEW m, WellFormed(m)
    PROVE  SerializeToByteBuffer(m) = SerializeToCodedStream(m)
<1> DEFINE b == SerializeToCodedStream(m)
           n == ByteSizeLong(m)
<1>1. b \in Seq(Nat) /\ n = Len(b) BY SizeIsRight DEF Agrees
<1>2. SerializeToCodedStream(Sized(m)) = b BY SizedIsSame DEF SizedIs
<1>3. SerializeToByteBuffer(m) = [i \in 1..n |-> IF i <= Len(b) THEN b[i] ELSE 0]
  BY <1>2 DEF SerializeToByteBuffer
<1> HIDE DEF b, n
<1>4. [i \in 1..n |-> IF i <= Len(b) THEN b[i] ELSE 0] = b BY <1>1
<1> QED BY <1>3, <1>4 DEF b

------------------------------------------------------------------------------
(* From a cluster to a message.                                            *)

\* An element of a sequence, and a sequence of elements of a set.
LEMMA SequenceIs ==
    ASSUME NEW v, IsSequence(v)
    PROVE  /\ Len(v) \in Nat /\ DOMAIN v = 1..Len(v) /\ Range(v) = {v[k] : k \in 1..Len(v)}
           /\ \A T : Range(v) \subseteq T => v \in Seq(T)
<1>1. v \in Seq(Range(v)) BY DEF IsSequence
<1>2. Len(v) \in Nat /\ DOMAIN v = 1..Len(v) BY <1>1
<1>3. Range(v) = {v[k] : k \in 1..Len(v)} BY <1>2 DEF Range
<1>4. ASSUME NEW T, Range(v) \subseteq T PROVE v \in Seq(T)
  <2> DEFINE R == Range(v)
  <2>1. v \in Seq(R) /\ R \subseteq T BY <1>1, <1>4
  <2> HIDE DEF R
  <2>2. \A k \in 1..Len(v) : v[k] \in T BY <2>1
  <2>3. v = [k \in 1..Len(v) |-> v[k]] BY <2>1
  <2> QED BY <1>2, <2>2, <2>3
<1> QED BY <1>2, <1>3, <1>4

\* The image of a sequence.
LEMMA MapSeqIs ==
    ASSUME NEW v, IsSequence(v), NEW w, NEW T, w = [k \in DOMAIN v |-> w[k]],
           \A k \in 1..Len(v) : w[k] \in T
    PROVE  w \in Seq(T) /\ Len(w) = Len(v)
<1>1. Len(v) \in Nat /\ DOMAIN v = 1..Len(v) BY SequenceIs
<1> DEFINE n == Len(v)
<1>2. n \in Nat /\ w = [k \in 1..n |-> w[k]] /\ \A k \in 1..n : w[k] \in T BY <1>1
<1> HIDE DEF n
<1>3. w \in Seq(T) /\ Len(w) = n BY <1>2
<1> QED BY <1>3 DEF n

\* What GetLVString makes of the characters of a string are bytes again.
LEMMA StringFits ==
    ASSUME NEW s, IsString(s), NEW t
    PROVE  s \in Seq(Nat) /\ GetLVString(s, t) \in Seq(Nat)
<1>1. s \in Seq(Nat)
  <2>1. IsSequence(s) /\ Range(s) \subseteq Nat BY DEF IsString
  <2> QED BY <2>1, SequenceIs
<1> DEFINE n == Len(s)
           w == [k \in 1..n |-> IF s[k] < 128 THEN <<s[k]>>
                                ELSE <<192 + s[k] \div 64, 128 + (s[k] % 64)>>]
<1>2. n \in Nat /\ DOMAIN s = 1..n /\ Len(w) = n BY <1>1
<1>3. ConvertSystemStringToUTF8(s) = Concat(w)
  BY <1>2 DEF ConvertSystemStringToUTF8, MapSeq
<1>4. ASSUME NEW k \in 1..n PROVE w[k] \in Seq(Nat)
  <2>1. s[k] \in Nat BY <1>1
  <2>2. 192 + s[k] \div 64 \in Nat /\ 128 + (s[k] % 64) \in Nat BY <2>1
  <2>3. <<s[k]>> \in Seq(Nat) /\ <<192 + s[k] \div 64, 128 + (s[k] % 64)>> \in Seq(Nat)
    BY <2>1, <2>2
  <2> QED BY <2>3
<1> HIDE DEF n, w
<1>5. Lists(w, n, Nat) BY <1>2, <1>4 DEF Lists
<1>6. PICK C : Joins(C, w, n, Nat) /\ Concat(w) = C[n] BY <1>2, <1>5, ConcatIs
<1>7. Concat(w) \in Seq(Nat) BY <1>2, <1>6 DEF Joins
<1> QED BY <1>1, <1>3, <1>7 DEF GetLVString
\* The type of what a value of a plain type holds.
Typed(t, x) == IF t \in NumericTypes THEN x \in Int /\ Holds(t, x) ELSE x \in Seq(Nat)

\* What AddFromCluster makes.
LEMMA AddedIs ==
    ASSUME NEW t, NEW rep, NEW v, NEW f \in AddFromCluster(t, rep, v)
    PROVE  f = IF rep THEN Repeated(t, v) ELSE Scalar(t, v)
BY DEF AddFromCluster

\* The values of a type that is no message.
LEMMA AddedPlain ==
    ASSUME NEW t \in NumericTypes \cup StringTypes, NEW rep \in BOOLEAN, NEW v,
           ~rep => Typed(t, v),
           rep => Len(v) \in Nat /\ v = [k \in 1..Len(v) |-> v[k]] /\ \A k \in 1..Len(v) : Typed(t, v[k]),
           NEW f, f = IF rep THEN Repeated(t, v) ELSE Scalar(t, v)
    PROVE  IsValue(f) /\ FieldOk(f) /\ f.type # MessageType
<1>1. t # MessageType BY TypesApart
<1>2. f = [type |-> t, rep |-> rep, v |-> v, cache |-> NotCached]
  BY <1>1 DEF Scalar, Repeated
<1>3. f.type = t /\ f.rep = rep /\ f.v = v /\ f.cache = NotCached BY <1>2
<1>4. PlainValue(f)
  <2>1. CASE t \in NumericTypes
    <3>1. t \notin StringTypes BY <2>1, TypesApart
    <3>2. rep => v \in Seq(Int) /\ \A k \in 1..Len(v) : Holds(t, v[k]) BY <2>1 DEF Typed
    <3>3. ~rep => Holds(t, v) BY <2>1 DEF Typed
    <3> QED BY <1>3, <2>1, <3>1, <3>2, <3>3 DEF PlainValue
  <2>2. CASE t \in StringTypes
    <3>1. t \notin NumericTypes BY <2>2, TypesApart
    <3>2. rep => v \in Seq(Seq(Nat))
      <4> DEFINE S == Seq(Nat)
      <4>1. rep => \A k \in 1..Len(v) : v[k] \in S BY <3>1 DEF Typed
      <4> HIDE DEF S
      <4>2. rep => v \in Seq(S) BY <4>1
      <4> QED BY <4>2 DEF S
    <3>3. ~rep => v \in Seq(Nat) BY <3>1 DEF Typed
    <3> QED BY <1>3, <2>2, <3>1, <3>2, <3>3 DEF PlainValue
  <2> QED BY <2>1, <2>2
<1>5. IsValue(f) BY <1>2, <1>3 DEF IsValue
<1> QED BY <1>1, <1>3, <1>4, <1>5 DEF FieldOk

\* The fields of messages it makes.
LEMMA AddedNested ==
    ASSUME NEW rep \in BOOLEAN, NEW v, rep => Len(v) \in Nat /\ DOMAIN v = 1..Len(v),
           NEW f, f = IF rep THEN Repeated(MessageType, v) ELSE Scalar(MessageType, v)
    PROVE  /\ IsValue(f) /\ FieldOk(f) /\ f.type = MessageType
           /\ MessagesOf(f) = IF rep THEN Range(v) ELSE {v}
<1> DEFINE c == IF rep THEN <<>> ELSE NotCached
<1>1. f = [type |-> MessageType, rep |-> rep, v |-> v, cache |-> c]
  BY DEF Scalar, Repeated
<1>2. rep /\ Len(c) = Len(v) => Len(v) = 0 OBVIOUS
<1>3. ~rep => c = NotCached OBVIOUS
<1> HIDE DEF c
<1>4. f.type = MessageType /\ f.rep = rep /\ f.v = v /\ f.cache = c BY <1>1
<1>5. NestedValue(f) BY <1>4 DEF NestedValue
<1>6. rep /\ Len(c) = Len(v) => \A i \in 1..Len(v) : c[i] = ByteSizeLong(v[i]) BY <1>2
<1>7. FieldOk(f) BY <1>3, <1>4, <1>5, <1>6 DEF FieldOk
<1>8. IsValue(f) BY <1>1, <1>4 DEF IsValue
<1>9. MessagesOf(f) = IF rep THEN Range(v) ELSE {v} BY <1>4 DEF MessagesOf
<1> QED BY <1>4, <1>7, <1>8, <1>9

\* The value of an element fits its type; a ring has the enum's name.
ElementFits(el, v) ==
    /\ el.type \in Types /\ el.rep \in BOOLEAN
    /\ IF el.rep THEN IsSequence(v) /\ \A x \in Range(v) : Fits(el, x) ELSE Fits(el, v)
    /\ el.type = "EnumValue" =>
            /\ el.nested \in DOMAIN Enums
            /\ \A lv \in (IF el.rep THEN Range(v) ELSE {v}) : IsLVEnumValue(el.nested, lv)

\* What holds for every type of number.
LEMMA HoldsInt ==
    ASSUME NEW t \in NumericTypes, NEW x, Holds(t, x)
    PROVE  x \in Int
BY TraitsAre DEF Holds

\* The number classes keep the type.
LEMMA FromClusterIs ==
    ASSUME NEW t \in NumericTypes, t # "EnumValue"
    PROVE  FromCluster(t) = t
<1>1. NumericTypes = {"Int32Value", "Int64Value", "UInt32Value", "UInt64Value",
            "FloatValue", "DoubleValue", "BoolValue", "EnumValue", "SInt32Value",
            "SInt64Value", "Fixed32Value", "Fixed64Value", "SFixed32Value", "SFixed64Value"}
  BY DEF NumericTypes, Traits
<1> QED BY <1>1 DEF FromCluster, VariableFromCluster, WideFromCluster, FixedFromCluster

\* The value made of an element that is no message.
LEMMA PlainElement ==
    ASSUME NEW el, NEW v, ElementFits(el, v), el.type # MessageType, NEW toggles_, NEW copies,
           NEW f \in ElementFromCluster(el, v, toggles_, copies)
    PROVE  IsValue(f) /\ FieldOk(f) /\ f.type # MessageType
<1>1. el.rep \in BOOLEAN /\ el.type \in NumericTypes \cup StringTypes
  BY DEF ElementFits, Types
<1>2. /\ el.rep => IsSequence(v) /\ \A x \in Range(v) : Fits(el, x)
      /\ ~el.rep => Fits(el, v)
  BY <1>1 DEF ElementFits
<1>3. el.rep => /\ Len(v) \in Nat /\ DOMAIN v = 1..Len(v) /\ v = [k \in 1..Len(v) |-> v[k]]
                /\ \A k \in 1..Len(v) : v[k] \in Range(v)
  <2>1. el.rep => v \in Seq(Range(v)) BY <1>2 DEF IsSequence
  <2> QED BY <1>2, <2>1, SequenceIs
<1>4. CASE el.type \in NumericTypes /\ el.type # "EnumValue"
  <2>1. \A x : Fits(el, x) => Typed(el.type, x)
    <3>1. el.type \notin StringTypes /\ el.type # "EnumValue" BY <1>4, TypesApart
    <3>2. \A x : Fits(el, x) => Holds(el.type, x) BY <1>4, <3>1 DEF Fits
    <3> QED BY <1>4, <3>2, HoldsInt DEF Typed
  <2>2. ElementFromCluster(el, v, toggles_, copies) = AddFromCluster(el.type, el.rep, v)
    <3>1. el.type \notin {"StringValue", "BytesValue"}
      BY <1>4, TypesApart DEF StringTypes
    <3> QED BY <1>4, <3>1, FromClusterIs DEF ElementFromCluster, NumericFromCluster
  <2>3. ~el.rep => Typed(el.type, v) BY <1>2, <2>1
  <2>4. el.rep => \A k \in 1..Len(v) : Typed(el.type, v[k]) BY <1>2, <1>3, <2>1
  <2> QED BY <1>1, <1>3, <2>2, <2>3, <2>4, AddedIs, AddedPlain
<1>5. CASE el.type = "EnumValue"
  <2> DEFINE to(lv) == GetProtoValueFromLVEnumValue(el.nested, lv)
             w == IF el.rep THEN MapSeq(to, v) ELSE to(v)
  <2>1. ElementFromCluster(el, v, toggles_, copies) = AddFromCluster("EnumValue", el.rep, w)
    BY <1>5 DEF ElementFromCluster, EnumFromCluster
  <2>2. "EnumValue" \in NumericTypes BY DEF NumericTypes, Traits
  <2>3. ASSUME NEW lv \in (IF el.rep THEN Range(v) ELSE {v})
        PROVE Typed("EnumValue", to(lv))
    <3>1. el.nested \in DOMAIN Enums /\ lv + 1 \in DOMAIN Enums[el.nested]
      BY <1>5, <2>3 DEF ElementFits, IsLVEnumValue
    <3>2. Holds("EnumValue", to(lv))
      BY <3>1, EnumsAssumption DEF GetProtoValueFromLVEnumValue
    <3> QED BY <2>2, <3>2, HoldsInt DEF Typed
  <2>4. ~el.rep => Typed("EnumValue", w) BY <2>3
  <2>5. ASSUME el.rep
        PROVE  /\ Len(w) \in Nat /\ w = [k \in 1..Len(w) |-> w[k]]
               /\ \A k \in 1..Len(w) : Typed("EnumValue", w[k])
    <3>1. w = [k \in 1..Len(v) |-> to(v[k])] BY <1>3, <2>5 DEF MapSeq
    <3>2. \A k \in 1..Len(v) : Typed("EnumValue", to(v[k])) BY <1>3, <2>3, <2>5
    <3> HIDE DEF w, to
    <3>3. Len(w) = Len(v) BY <1>3, <2>5, <3>1
    <3> QED BY <1>3, <2>5, <3>1, <3>2, <3>3
  <2> HIDE DEF w, to
  <2> QED BY <1>1, <2>1, <2>2, <2>4, <2>5, AddedIs, AddedPlain
<1>6. CASE el.type \in StringTypes
  <2> DEFINE to(s) == GetLVString(s, toggles_)
             w == IF el.rep THEN MapSeq(to, v) ELSE to(v)
  <2>1. \A x : Fits(el, x) => IsString(x)
    <3>1. el.type # "EnumValue" /\ el.type \notin NumericTypes
      BY <1>6, TypesApart DEF NumericTypes, Traits, StringTypes
    <3> QED BY <1>6, <3>1 DEF Fits
  <2>2. el.type \notin NumericTypes BY <1>6, TypesApart
  <2>3. \A x : Fits(el, x) => Typed(el.type, x) /\ Typed(el.type, to(x))
    BY <2>1, <2>2, StringFits DEF Typed
  <2>4. f \in AddFromCluster(el.type, el.rep, w) \/ f \in AddFromCluster(el.type, el.rep, v)
    BY <1>6, <2>2 DEF ElementFromCluster, StringFromCluster, BytesFromCluster, StringTypes,
                      NumericTypes, Traits
  <2>5. ~el.rep => Typed(el.type, w) /\ Typed(el.type, v) BY <1>2, <2>3
  <2>6. ASSUME el.rep
        PROVE  /\ Len(w) \in Nat /\ w = [k \in 1..Len(w) |-> w[k]]
               /\ \A k \in 1..Len(w) : Typed(el.type, w[k])
               /\ \A k \in 1..Len(v) : Typed(el.type, v[k])
    <3>1. w = [k \in 1..Len(v) |-> to(v[k])] BY <1>3, <2>6 DEF MapSeq
    <3>2. \A k \in 1..Len(v) : Typed(el.type, to(v[k])) /\ Typed(el.type, v[k])
      BY <1>2, <1>3, <2>3, <2>6
    <3> HIDE DEF w, to
    <3>3. Len(w) = Len(v) BY <1>3, <2>6, <3>1
    <3> QED BY <1>3, <2>6, <3>1, <3>2, <3>3
  <2> HIDE DEF w, to
  <2>7. CASE f \in AddFromCluster(el.type, el.rep, w)
    BY <1>1, <2>5, <2>6, <2>7, AddedIs, AddedPlain
  <2>8. CASE f \in AddFromCluster(el.type, el.rep, v)
    BY <1>1, <1>3, <2>5, <2>6, <2>8, AddedIs, AddedPlain
  <2> QED BY <2>4, <2>7, <2>8
<1> QED BY <1>1, <1>4, <1>5, <1>6
\* A message with less than one level below it has less than any number of them.
LEMMA FlatMore ==
    ASSUME NEW m, Flat(m, 1), NEW j \in Nat, j # 0
    PROVE  Flat(m, j)
<1> DEFINE E == {k \in Nat : Flat(m, k + 1)}
<1>1. 0 \in E OBVIOUS
<1>2. \A k \in Nat : k \in E => k + 1 \in E BY FlatParts
<1> HIDE DEF E
<1>3. j - 1 \in Nat /\ (j - 1) + 1 = j OBVIOUS
<1>4. j - 1 \in E BY <1>1, <1>2, <1>3, NatsIn
<1> QED BY <1>3, <1>4 DEF E

\* A message without messages.
LEMMA FlatMessage ==
    ASSUME NEW m, MessageOk(m), \A n \in DOMAIN m.vals : m.vals[n].type # MessageType
    PROVE  WellFormed(m) /\ Flat(m, 1)
<1>1. Nested(m) = {} BY DEF Nested
<1>2. \A k \in Nat : Flat(m, k + 1) BY <1>1, FlatIs
<1>3. Messages!Bounded(m) BY <1>2, MaxNestingAssumption DEF Messages!Bounded, Flat
<1>4. WellFormed(m) BY <1>1, <1>3, WellFormedIs
<1>5. Flat(m, 0 + 1) BY <1>2
<1> QED BY <1>4, <1>5

\* The message made of a 2D array.
LEMMA ArrayMessage ==
    ASSUME NEW el, NEW v, el.type = MessageType, Is2DArray(el), Fits(el, v), NEW t,
           NEW f \in Array2DFromCluster(el, v, t)
    PROVE  /\ IsValue(f) /\ FieldOk(f) /\ f.type = MessageType
           /\ \A z \in MessagesOf(f) : WellFormed(z) /\ Flat(z, 1)
<1> DEFINE data == IF el.nested = Double2DArray THEN Repeated("DoubleValue", v.data)
                   ELSE Repeated("StringValue", MapSeq(LAMBDA s : GetLVString(s, t), v.data))
           fields == [n \in {1, 2, 3} |->
                        CASE n = 1 -> Scalar("Int32Value", v.rows)
                          [] n = 2 -> Scalar("Int32Value", v.cols)
                          [] n = 3 -> data]
           m == [EmptyMessage(el.nested) EXCEPT !.vals = fields]
<1>1. f = Scalar(MessageType, m)
  BY DEF Array2DFromCluster, RowsIndex, ColumnsIndex, DataIndex
<1>2. /\ Holds("Int32Value", v.rows) /\ Holds("Int32Value", v.cols) /\ IsSequence(v.data)
      /\ \A x \in Range(v.data) :
                IF el.nested = Double2DArray THEN Holds("DoubleValue", x) ELSE IsString(x)
  <2>1. el.type # "EnumValue" /\ el.type \notin NumericTypes /\ el.type \notin StringTypes
    BY TypesApart DEF MessageType
  <2> QED BY <2>1 DEF Fits
<1>3. {"Int32Value", "DoubleValue"} \subseteq NumericTypes /\ "StringValue" \in StringTypes
  BY DEF NumericTypes, Traits, StringTypes
<1>4. ASSUME NEW x, Holds("Int32Value", x)
      PROVE  LET g == Scalar("Int32Value", x) IN IsValue(g) /\ FieldOk(g) /\ g.type # MessageType
  <2>1. Typed("Int32Value", x) BY <1>3, <1>4, HoldsInt DEF Typed
  <2> QED BY <1>3, <2>1, AddedPlain
<1>5. /\ Len(v.data) \in Nat /\ DOMAIN v.data = 1..Len(v.data)
      /\ \A k \in 1..Len(v.data) : v.data[k] \in Range(v.data)
      /\ v.data = [k \in 1..Len(v.data) |-> v.data[k]]
  <2>1. v.data \in Seq(Range(v.data)) BY <1>2 DEF IsSequence
  <2> QED BY <1>2, <2>1, SequenceIs
<1>6. IsValue(data) /\ FieldOk(data) /\ data.type # MessageType
  <2>1. CASE el.nested = Double2DArray
    <3>1. \A k \in 1..Len(v.data) : Typed("DoubleValue", v.data[k])
      BY <1>2, <1>3, <1>5, <2>1, HoldsInt DEF Typed
    <3>2. data = Repeated("DoubleValue", v.data) BY <2>1
    <3> HIDE DEF data
    <3> QED BY <1>3, <1>5, <3>1, <3>2, AddedPlain
  <2>2. CASE el.nested # Double2DArray
    <3> DEFINE w == [k \in 1..Len(v.data) |-> GetLVString(v.data[k], t)]
    <3>1. data = Repeated("StringValue", w) BY <1>5, <2>2 DEF MapSeq
    <3>2. "StringValue" \notin NumericTypes BY <1>3, TypesApart
    <3>3. \A k \in 1..Len(v.data) : Typed("StringValue", GetLVString(v.data[k], t))
      BY <1>2, <1>5, <2>2, <3>2, StringFits DEF Typed
    <3>4. Len(w) = Len(v.data) BY <1>5
    <3>5. \A k \in 1..Len(w) : Typed("StringValue", w[k]) BY <3>3, <3>4
    <3>6. w = [k \in 1..Len(w) |-> w[k]] BY <3>4
    <3> HIDE DEF data, w
    <3> QED BY <1>3, <1>5, <3>1, <3>4, <3>5, <3>6, AddedPlain
  <2> QED BY <2>1, <2>2
<1> HIDE DEF data
<1>7. DOMAIN fields = {1, 2, 3} OBVIOUS
<1>8. \A n \in {1, 2, 3} : IsValue(fields[n]) /\ FieldOk(fields[n]) /\ fields[n].type # MessageType
  <2>1. /\ fields[1] = Scalar("Int32Value", v.rows) /\ fields[2] = Scalar("Int32Value", v.cols)
        /\ fields[3] = data
    OBVIOUS
  <2> HIDE DEF fields
  <2> QED BY <1>2, <1>4, <1>6, <2>1
<1> HIDE DEF fields
<1>9. m = [md |-> el.nested, vals |-> fields, oneof |-> <<>>, unknown |-> <<>>]
  BY DEF EmptyMessage
<1> HIDE DEF m
<1>10. IsRecord(m) /\ m.vals = fields BY <1>9 DEF IsRecord
<1>11. IsFiniteSet({1, 2, 3})
  <2>1. IsFiniteSet(1..3) BY FS_Interval, 1 \in Int, 3 \in Int
  <2>2. {1, 2, 3} = 1..3 OBVIOUS
  <2> QED BY <2>1, <2>2
<1>12. MessageOk(m) BY <1>7, <1>8, <1>10, <1>11 DEF MessageOk, Fields
<1>13. WellFormed(m) /\ Flat(m, 1) BY <1>7, <1>8, <1>10, <1>12, FlatMessage
<1>14. IsValue(f) /\ FieldOk(f) /\ f.type = MessageType /\ MessagesOf(f) = {m}
  BY <1>1, AddedNested
<1> QED BY <1>13, <1>14
\* A cluster of its metadata's types without a ring value no enum has.
SourceOk(s) ==
    /\ IsCluster(s.md, s.c)
    /\ \A i \in CopiedElements(s.md, s.c) :
            LET el == Metadata[s.md][i] IN
            el.type = "EnumValue" =>
                \A lv \in (IF el.rep THEN Range(s.c[i]) ELSE {s.c[i]}) : IsLVEnumValue(el.nested, lv)

\* All the clusters in a cluster are such, and nest less than MaxNesting deep.
CanCopy(s) == FlatCluster(s, MaxNesting) /\ \A i \in Nat : \A x \in Copying!Levels(s)[i] : SourceOk(x)

\* So are those in its parts.
LEMMA CanCopyParts ==
    ASSUME NEW s, CanCopy(s)
    PROVE  /\ SourceOk(s) /\ Copying!Bounded(s) /\ \A z \in ClustersIn(s) : CanCopy(z)
<1> USE MaxNestingAssumption
<1>1. SourceOk(s) BY LevelsAreOfClusters DEF CanCopy
<1>2. Copying!Bounded(s)
  BY FlatPartsOfClusters DEF CanCopy, Copying!Bounded, FlatCluster
<1>3. ASSUME NEW z \in ClustersIn(s) PROVE CanCopy(z)
  <2>1. MaxNesting # 0 BY FlatPartsOfClusters DEF CanCopy
  <2>2. MaxNesting - 1 \in Nat /\ (MaxNesting - 1) + 1 = MaxNesting BY <2>1
  <2>3. FlatCluster(z, MaxNesting)
    <3>1. FlatCluster(z, MaxNesting - 1) BY <2>2, FlatPartsOfClusters DEF CanCopy
    <3> QED BY <2>2, <3>1, FlatPartsOfClusters
  <2>4. ASSUME NEW i \in Nat, NEW x \in Copying!Levels(z)[i] PROVE SourceOk(x)
    <3>1. x \in Copying!Levels(s)[i + 1] BY <1>3, <2>4, LevelsBelowOfClusters
    <3> QED BY <3>1 DEF CanCopy
  <2> QED BY <2>3, <2>4 DEF CanCopy
<1> QED BY <1>1, <1>2, <1>3

\* A number has one element.
LEMMA MappedIs ==
    ASSUME NEW name \in DOMAIN Metadata, NEW n, NEW i \in Mapped(name, n)
    PROVE  (CHOOSE k \in Mapped(name, n) : TRUE) = i /\ i \in DOMAIN Metadata[name]
<1> DEFINE els == Metadata[name]
<1>1. DOMAIN els \subseteq Nat /\ \A k \in DOMAIN els : k > 0
  <2>1. els \in Seq(Range(els)) BY MetadataAssumption
  <2> DEFINE R == Range(els)
  <2> HIDE DEF R
  <2> QED BY <2>1
<1>2. Mapped(name, n) = {k \in DOMAIN els : els[k].num = n /\ \A j \in 1..(k - 1) : els[j].num # n}
  BY DEF Mapped
<1> HIDE DEF els
<1>3. ASSUME NEW k \in Mapped(name, n), NEW j \in Mapped(name, n), j < k PROVE FALSE
  <2>1. j \in 1..(k - 1) BY <1>1, <1>2, <1>3
  <2> QED BY <1>2, <2>1
<1>4. ASSUME NEW k \in Mapped(name, n) PROVE k = i
  <2>1. k \in Nat /\ i \in Nat BY <1>1, <1>2
  <2>2. ~(k < i) /\ ~(i < k) BY <1>3
  <2> QED BY <2>1, <2>2
<1>5. (CHOOSE k \in Mapped(name, n) : TRUE) \in Mapped(name, n) OBVIOUS
<1> QED BY <1>2, <1>4, <1>5 DEF els

\* The message of a cluster is well-formed, and no deeper than the cluster; a 2D
\* array is one level more.
Copied(s) == /\ WellFormed(Copying!Descend(s))
             /\ \A j \in Nat : FlatCluster(s, j) => Flat(Copying!Descend(s), j + 1)

\* A message in the message of s: of a 2D array, or of a cluster in s.
Shallow(m, s) == Flat(m, 1) \/ \E z \in ClustersIn(s) : m = Copying!Descend(z)

\* The value made of an element: what is right, given that the messages of its
\* clusters are.
LEMMA CopiedElement ==
    ASSUME NEW s, SourceOk(s), \A z \in ClustersIn(s) : Copied(z), NEW copies,
           copies = [z \in ClustersIn(s) |-> Copying!Descend(z)],
           NEW i \in CopiedElements(s.md, s.c), NEW f,
           f \in ElementFromCluster(Metadata[s.md][i], s.c[i], s.toggles, copies)
    PROVE  /\ IsValue(f) /\ FieldOk(f)
           /\ f.type = MessageType => \A m \in MessagesOf(f) : WellFormed(m) /\ Shallow(m, s)
<1> DEFINE el == Metadata[s.md][i]
           v == s.c[i]
<1>1. i \in DOMAIN Metadata[s.md] /\ s.md \in DOMAIN Metadata /\ i \in DOMAIN s.c
  BY DEF CopiedElements, SourceOk, IsCluster
<1>2. el.type \in Types /\ el.rep \in BOOLEAN BY <1>1, MetadataAssumption
<1>3. IF el.rep THEN IsSequence(v) /\ \A x \in Range(v) : Fits(el, x) ELSE Fits(el, v)
  BY <1>1 DEF SourceOk, IsCluster
<1>4. el.type = "EnumValue" =>
            /\ el.nested \in DOMAIN Enums
            /\ \A lv \in (IF el.rep THEN Range(v) ELSE {v}) : IsLVEnumValue(el.nested, lv)
  BY <1>1, EnumsAssumption DEF SourceOk
<1>5. ASSUME el.type = MessageType, ~Is2DArray(el)
      PROVE  {Source(el.nested, c, s.toggles) : c \in ClustersOf(el, v)} \subseteq ClustersIn(s)
  BY <1>1, <1>5 DEF ClustersIn
<1>6. f \in ElementFromCluster(el, v, s.toggles, copies) OBVIOUS
<1> HIDE DEF el, v
<1>7. CASE el.type # MessageType
  <2>1. ElementFits(el, v) BY <1>2, <1>3, <1>4 DEF ElementFits
  <2> QED BY <1>6, <1>7, <2>1, PlainElement
<1>8. CASE el.type = MessageType
  <2>1. f \in MessageFromCluster(el, v, s.toggles, copies)
    <3>1. el.type \notin NumericTypes /\ el.type \notin {"EnumValue", "StringValue", "BytesValue"}
      BY <1>8, TypesApart DEF MessageType
    <3> QED BY <1>6, <3>1 DEF ElementFromCluster
  <2>2. CASE Is2DArray(el)
    <3>1. Fits(el, v) BY <1>3, <2>2 DEF Is2DArray
    <3>2. f \in Array2DFromCluster(el, v, s.toggles)
      BY <2>1, <2>2 DEF MessageFromCluster
    <3> QED BY <1>8, <2>2, <3>1, <3>2, ArrayMessage DEF Shallow
  <2>3. CASE ~Is2DArray(el)
    <3> DEFINE to(c) == copies[Source(el.nested, c, s.toggles)]
               w == IF el.rep THEN MapSeq(to, v) ELSE to(v)
    <3>1. f \in AddFromCluster(MessageType, el.rep, w)
      BY <1>8, <2>1, <2>3 DEF MessageFromCluster
    <3>2. ASSUME NEW c \in ClustersOf(el, v)
          PROVE  WellFormed(to(c)) /\ Shallow(to(c), s)
      <4>1. Source(el.nested, c, s.toggles) \in ClustersIn(s) BY <1>5, <1>8, <2>3
      <4>2. to(c) = Copying!Descend(Source(el.nested, c, s.toggles)) BY <4>1
      <4> HIDE DEF to
      <4> QED BY <4>1, <4>2 DEF Copied, Shallow
    <3>3. CASE ~el.rep
      <4>1. w = to(v) /\ v \in ClustersOf(el, v) BY <3>3 DEF ClustersOf
      <4> HIDE DEF w, to
      <4>2. f = IF el.rep THEN Repeated(MessageType, w) ELSE Scalar(MessageType, w)
        BY <3>1, AddedIs
      <4>3. IsValue(f) /\ FieldOk(f) /\ f.type = MessageType /\ MessagesOf(f) = {w}
        BY <1>2, <3>3, <4>2, AddedNested
      <4> QED BY <3>2, <4>1, <4>3
    <3>4. CASE el.rep
      <4>1. Len(v) \in Nat /\ DOMAIN v = 1..Len(v) BY <1>3, <3>4, SequenceIs
      <4>2. w = [k \in 1..Len(v) |-> to(v[k])] BY <3>4, <4>1 DEF MapSeq
      <4>3. \A k \in 1..Len(v) : v[k] \in ClustersOf(el, v)
        BY <3>4, <4>1 DEF ClustersOf, Range
      <4> HIDE DEF w, to
      <4>4. Len(w) = Len(v) /\ DOMAIN w = 1..Len(w) BY <4>1, <4>2
      <4>5. f = IF el.rep THEN Repeated(MessageType, w) ELSE Scalar(MessageType, w)
        BY <3>1, AddedIs
      <4>6. IsValue(f) /\ FieldOk(f) /\ f.type = MessageType /\ MessagesOf(f) = Range(w)
        BY <1>2, <3>4, <4>1, <4>4, <4>5, AddedNested
      <4>7. \A m \in Range(w) : \E c \in ClustersOf(el, v) : m = to(c)
        BY <4>2, <4>3, <4>4 DEF Range
      <4> QED BY <3>2, <4>6, <4>7
    <3> QED BY <1>2, <3>3, <3>4
  <2> QED BY <2>2, <2>3
<1> QED BY <1>7, <1>8
\* The message CopyInto fills, from the cluster s.
LEMMA CopyIntoIs ==
    ASSUME NEW s, SourceOk(s), \A z \in ClustersIn(s) : Copied(z), NEW copies,
           copies = [z \in ClustersIn(s) |-> Copying!Descend(z)]
    PROVE  LET m == MessageOf(s, copies) IN
           /\ MessageOk(m)
           /\ \A z \in Nested(m) : WellFormed(z) /\ Shallow(z, s)
<1> DEFINE els == Metadata[s.md]
           from(i) == ElementFromCluster(els[i], s.c[i], s.toggles, copies)
           present == {i \in CopiedElements(s.md, s.c) : from(i) # {}}
           value(n) == CHOOSE f \in from(CHOOSE i \in Mapped(s.md, n) : TRUE) : TRUE
           nums == {els[i].num : i \in present}
           V == [n \in nums |-> value(n)]
           o == SelectedIndices(s.md, s.c)
           m == MessageOf(s, copies)
           Right(f) == /\ IsValue(f) /\ FieldOk(f)
                       /\ f.type = MessageType => \A x \in MessagesOf(f) : WellFormed(x) /\ Shallow(x, s)
<1>1. s.md \in DOMAIN Metadata BY DEF SourceOk, IsCluster
<1>2. m = [EmptyMessage(s.md) EXCEPT !.oneof = o, !.vals = V] BY DEF MessageOf, CopyInto
<1>3. \A i \in CopiedElements(s.md, s.c) : \A f \in from(i) : Right(f) BY CopiedElement
<1>4. \A i \in CopiedElements(s.md, s.c) :
            i \in DOMAIN els /\ els[i].num >= 0 /\ i \in Mapped(s.md, els[i].num)
  BY DEF CopiedElements
<1> HIDE DEF from, Right, o, m
<1>5. ASSUME NEW n \in nums PROVE Right(V[n])
  <2>1. PICK i \in present : els[i].num = n BY <1>5
  <2>2. (CHOOSE k \in Mapped(s.md, n) : TRUE) = i BY <1>1, <1>4, <2>1, MappedIs
  <2>3. value(n) = CHOOSE f \in from(i) : TRUE BY <2>2
  <2>4. V[n] \in from(i) BY <2>1, <2>3
  <2> QED BY <1>3, <2>1, <2>4
<1>6. nums \subseteq Nat /\ IsFiniteSet(nums)
  <2>1. \A i \in present : els[i].num \in Nat BY <1>1, <1>4, MetadataAssumption
  <2>2. IsFiniteSet(DOMAIN els)
    <3>1. els \in Seq(Range(els)) BY <1>1, MetadataAssumption
    <3>2. Len(els) \in Nat /\ DOMAIN els = 1..Len(els)
      <4> DEFINE R == Range(els)
      <4> HIDE DEF R, els
      <4> QED BY <3>1 DEF R
    <3> QED BY <3>2, FS_Interval
  <2>3. present \subseteq DOMAIN els BY <1>4
  <2>4. IsFiniteSet(present) BY <2>2, <2>3, FS_Subset
  <2> HIDE DEF present, els
  <2> DEFINE N == {els[i].num : i \in present}
             g == [i \in present |-> els[i].num]
  <2>5. g \in Surjection(present, N) BY DEF Surjection
  <2>6. IsFiniteSet(N)
    <3> HIDE DEF g, N
    <3> QED BY <2>4, <2>5, FS_Surjection
  <2> QED BY <2>1, <2>6
<1>7. DOMAIN V = nums OBVIOUS
<1> HIDE DEF V, nums
<1>8. m = [md |-> s.md, vals |-> V, oneof |-> o, unknown |-> <<>>]
  BY <1>2 DEF EmptyMessage
<1>9. IsRecord(m) /\ m.vals = V BY <1>8 DEF IsRecord
<1>10. MessageOk(m) BY <1>5, <1>6, <1>7, <1>9 DEF MessageOk, Fields, Right
<1>11. ASSUME NEW x \in Nested(m)
       PROVE  WellFormed(x) /\ Shallow(x, s)
  <2>1. PICK n \in nums : V[n].type = MessageType /\ x \in MessagesOf(V[n])
    BY <1>7, <1>9 DEF Nested
  <2> QED BY <1>5, <2>1 DEF Right
<1> QED BY <1>10, <1>11 DEF m

\* The message of a cluster is right if those of the clusters in it are.
LEMMA CopyStep ==
    ASSUME NEW s, CanCopy(s), \A z \in ClustersIn(s) : Copied(z)
    PROVE  Copied(s)
<1> DEFINE copies == [z \in ClustersIn(s) |-> Copying!Descend(z)]
           m == MessageOf(s, copies)
<1>1. SourceOk(s) /\ Copying!Bounded(s) BY CanCopyParts
<1>2. Copying!Descend(s) = m BY <1>1, UnfoldOfClusters
<1>3. /\ MessageOk(m)
      /\ \A z \in Nested(m) : WellFormed(z) /\ Shallow(z, s)
  BY <1>1, CopyIntoIs
<1> HIDE DEF copies, m
<1>4. ASSUME NEW j \in Nat, FlatCluster(s, j) PROVE Flat(m, j + 1)
  <2>1. j # 0 BY <1>4, FlatPartsOfClusters
  <2>2. j - 1 \in Nat /\ (j - 1) + 1 = j BY <2>1
  <2>3. ASSUME NEW z \in Nested(m) PROVE Flat(z, j)
    <3>1. CASE Flat(z, 1) BY <2>1, <3>1, FlatMore
    <3>2. ASSUME NEW part \in ClustersIn(s), z = Copying!Descend(part) PROVE Flat(z, j)
      <4>1. FlatCluster(part, j - 1) BY <1>4, <2>2, FlatPartsOfClusters
      <4>2. Flat(Copying!Descend(part), (j - 1) + 1) BY <2>2, <4>1 DEF Copied
      <4> QED BY <2>2, <3>2, <4>2
    <3> QED BY <1>3, <3>1, <3>2 DEF Shallow
  <2> QED BY <2>3, FlatIs
<1>5. WellFormed(m)
  <2>1. Flat(m, MaxNesting + 1) BY <1>4, MaxNestingAssumption DEF CanCopy
  <2>2. Messages!Bounded(m) BY <2>1 DEF Messages!Bounded, Flat
  <2>3. ASSUME NEW z \in Nested(m) PROVE WellFormed(z) BY <1>3
  <2> QED BY <1>3, <2>2, <2>3, WellFormedIs
<1> QED BY <1>2, <1>4, <1>5 DEF Copied

\* CopyFromCluster makes a well-formed message of every cluster it does not throw for.
LEMMA CopyIsWellFormed ==
    ASSUME NEW s, CanCopy(s)
    PROVE  Copied(s)
<1> DEFINE E == {k \in Nat : \A x : CanCopy(x) /\ FlatCluster(x, k) => Copied(x)}
<1>1. 0 \in E BY FlatPartsOfClusters
<1>2. ASSUME NEW k \in Nat, k \in E PROVE k + 1 \in E
  <2> SUFFICES ASSUME NEW x, CanCopy(x), FlatCluster(x, k + 1) PROVE Copied(x) OBVIOUS
  <2>1. ASSUME NEW z \in ClustersIn(x) PROVE Copied(z)
    <3>1. CanCopy(z) BY CanCopyParts
    <3>2. FlatCluster(z, k) BY FlatPartsOfClusters
    <3> QED BY <1>2, <3>1, <3>2
  <2> QED BY <2>1, CopyStep
<1> HIDE DEF E
<1>3. MaxNesting \in E BY <1>1, <1>2, NatsIn, MaxNestingAssumption
<1> QED BY <1>3 DEF E, CanCopy

\* What LabVIEW sends, if CopyFromCluster does not throw.
LEMMA ClustersCanBeCopied ==
    ASSUME NEW name \in Exchanged, NEW c \in Clusters[name], NEW t \in TogglesSet,
           ~CopyFromClusterThrows(name, c, t)
    PROVE  CanCopy(Source(name, c, t))
<1> USE MaxNestingAssumption
<1> DEFINE s == Source(name, c, t)
<1>1. /\ Copying!Levels(s)[MaxNesting] = {}
      /\ \A part \in Copying!Within(s) : IsCluster(part.md, part.c)
  BY ClustersAssumption
<1>2. \A x \in Copying!Within(s) : SourceOk(x)
  BY <1>1 DEF CopyFromClusterThrows, SourceOk
<1> HIDE DEF s
<1>3. ASSUME NEW i \in Nat, NEW x \in Copying!Levels(s)[i] PROVE x \in Copying!Within(s)
  <2> DEFINE E == {k \in Nat : Copying!Levels(s)[MaxNesting + k] = {}}
  <2>1. 0 \in E BY <1>1
  <2>2. ASSUME NEW k \in Nat, k \in E PROVE k + 1 \in E
    <3>1. MaxNesting + k \in Nat /\ (MaxNesting + k) + 1 = MaxNesting + (k + 1) OBVIOUS
    <3>2. Copying!Levels(s)[(MaxNesting + k) + 1] =
                UNION {ClustersIn(y) : y \in Copying!Levels(s)[MaxNesting + k]}
      BY <3>1, LevelsAreOfClusters
    <3>3. Copying!Levels(s)[MaxNesting + k] = {} BY <2>2
    <3> QED BY <3>1, <3>2, <3>3
  <2> HIDE DEF E
  <2>3. Nat \subseteq E BY <2>1, <2>2, NatsIn
  <2>4. i < MaxNesting
    <3> SUFFICES ASSUME i >= MaxNesting PROVE FALSE OBVIOUS
    <3>1. i - MaxNesting \in Nat /\ MaxNesting + (i - MaxNesting) = i OBVIOUS
    <3>2. Copying!Levels(s)[MaxNesting + (i - MaxNesting)] = {} BY <2>3, <3>1 DEF E
    <3> QED BY <1>3, <3>1, <3>2
  <2>5. i \in 0..MaxNesting BY <2>4
  <2> QED BY <1>3, <2>5 DEF Copying!Within
<1> QED BY <1>1, <1>2, <1>3 DEF CanCopy, FlatCluster, s

\* The message CopyFromCluster makes of it, whatever m held before.
THEOREM CopyFromClusterIsWellFormed ==
    ASSUME NEW name \in Exchanged, NEW c \in Clusters[name], NEW t \in TogglesSet,
           ~CopyFromClusterThrows(name, c, t), NEW m, m.md = name
    PROVE  WellFormed(CopyFromCluster(m, c, t)) /\ CopyFromCluster(m, c, t).md = name
<1> DEFINE s == Source(name, c, t)
           copies == [part \in ClustersIn(s) |-> Copying!Descend(part)]
<1>1. CanCopy(s) BY ClustersCanBeCopied
<1>2. CopyFromCluster(m, c, t) = MessageOf(s, copies)
  BY DEF CopyFromCluster, MessageOf, Clear, Source
<1>3. Copying!Descend(s) = MessageOf(s, copies) BY <1>1, CanCopyParts, UnfoldOfClusters
<1>4. MessageOf(s, copies).md = name
  BY DEF MessageOf, CopyInto, EmptyMessage, Source
<1>5. Copied(s) BY <1>1, CopyIsWellFormed
<1> HIDE DEF s, copies
<1> QED BY <1>2, <1>3, <1>4, <1>5 DEF Copied

------------------------------------------------------------------------------
(* The exchange.                                                           *)

\* What makes SliceIsFilled inductive: the request object is of the message
\* exchanged, and it changes only when nothing is in flight.
SliceInv ==
    /\ md \in Exchanged /\ toggles \in TogglesSet
    /\ request.md = md
    /\ status = "idle" => flight = Nothing
    /\ SliceIsFilled

\* It holds at the start.
LEMMA SliceInit == Init => SliceInv
<1> SUFFICES ASSUME Init PROVE SliceInv OBVIOUS
<1> USE DEF Init
<1>1. request.md = md BY DEF EmptyMessage
<1> QED BY <1>1 DEF SliceInv, SliceIsFilled

\* The clusters that are sent are clusters of md.
LEMMA SliceWrite ==
    ASSUME SliceInv, NEW c \in Clusters[md], ClientWriteToStream(c)
    PROVE  SliceInv'
<1> DEFINE m == CopyFromCluster(request, c, toggles)
           b == SerializeToByteBuffer(m)
           s == Sized(m)
<1>1. /\ md' = md /\ toggles' = toggles /\ request' = s /\ status' = "sent"
      /\ flight' = [via |-> "stream", bytes |-> b, meant |-> c]
  BY DEF ClientWriteToStream, Send
<1>2. WellFormed(m) /\ m.md = md
  BY CopyFromClusterIsWellFormed DEF SliceInv, ClientWriteToStream
<1>3. SizedIs(m) BY <1>2, SizedIsSame
<1>4. s.md = md
  <2>1. Messages!Descend(m) = Methods(m, Results(m))
    BY <1>2, Unfold DEF WellFormed, Results
  <2>2. IsRecord(m) BY <1>2, WellFormedIs DEF MessageOk
  <2> HIDE DEF m
  <2>3. Methods(m, Results(m)).sized.md = m.md BY <2>2, SizedMessage
  <2> QED BY <1>2, <2>1, <2>3 DEF Sized
<1>5. b = SerializeToCodedStream(m) BY <1>2, ByteBufferIsMessage
<1> HIDE DEF m, b, s
<1>6. Agrees(m) BY <1>2, SizeIsRight
<1>7. /\ Len(SerializeToCodedStream(s)) = ByteSizeLong(s)
      /\ Len(b) = ByteSizeLong(s)
  BY <1>3, <1>5, <1>6 DEF SizedIs, Agrees, s
<1>8. SliceIsFilled'
  <2>1. /\ Len(SerializeToCodedStream(request')) = ByteSizeLong(request')
        /\ Len(flight'.bytes) = ByteSizeLong(request')
    BY <1>1, <1>7
  <2> QED BY <2>1 DEF SliceIsFilled
<1>9. status' # "idle" BY <1>1
<1> QED BY <1>1, <1>4, <1>8, <1>9 DEF SliceInv

\* Every step preserves it.
LEMMA SliceNext == SliceInv /\ [Next]_vars => SliceInv'
<1> SUFFICES ASSUME SliceInv, [Next]_vars PROVE SliceInv' OBVIOUS
<1>1. ASSUME UNCHANGED <<md, toggles, request, flight>>,
             status' = "idle" => status = "idle" PROVE SliceInv'
  <2>1. SliceIsFilled'
    <3>1. SliceIsFilled BY DEF SliceInv
    <3> QED BY <1>1, <3>1 DEF SliceIsFilled
  <2> QED BY <1>1, <2>1 DEF SliceInv
<1>2. ASSUME UNCHANGED <<md, toggles, request>>, flight'.via # "stream", status' = "idle" => flight' = Nothing
      PROVE  SliceInv'
  BY <1>2 DEF SliceInv, SliceIsFilled
<1>3. ASSUME NEW via, NEW bytes, NEW meant, via # "stream", Send(via, bytes, meant),
             UNCHANGED <<md, toggles, request>>
      PROVE  SliceInv'
  BY <1>2, <1>3 DEF Send, Idle
<1>4. CASE UNCHANGED vars BY <1>1, <1>4 DEF vars
<1>5. ASSUME NEW c \in Clusters[md], ClientWriteToStream(c)
      PROVE SliceInv' BY <1>5, SliceWrite
<1>6. ASSUME NEW c \in Clusters[md], ClientWriteThrows(c) PROVE SliceInv'
  <2>1. flight' = flight /\ flight = Nothing /\ md' = md /\ toggles' = toggles
    BY <1>6 DEF ClientWriteThrows, Idle, SliceInv
  <2>2. request'.md = md BY <1>6 DEF ClientWriteThrows, Clear, EmptyMessage, SliceInv
  <2> QED BY <2>1, <2>2 DEF SliceInv, SliceIsFilled
<1>7. ASSUME NEW c \in Clusters[md], PackToAny(c) PROVE SliceInv'
  BY <1>3, <1>7 DEF PackToAny
<1>8. ASSUME NEW c \in Clusters[md], AnyBuilderBegin(c) PROVE SliceInv'
  BY <1>1, <1>8 DEF AnyBuilderBegin, Idle, Nothing
<1>9. ASSUME NEW fields \in PeerMessages[md], PeerWrites(fields) PROVE SliceInv'
  BY <1>3, <1>9 DEF PeerWrites
<1>10. CASE ReadFromStream BY <1>1, <1>10 DEF ReadFromStream, Idle
<1>11. CASE ClientCompleteReadFromStream
  BY <1>1, <1>11 DEF ClientCompleteReadFromStream, CopyResult, Idle
<1>12. CASE UnpackFromAny BY <1>1, <1>12 DEF UnpackFromAny, CopyResult, Idle
<1>13. ASSUME NEW i \in 1..Len(Metadata[md]), AnyBuilderAdd(i) PROVE SliceInv'
  BY <1>1, <1>13 DEF AnyBuilderAdd, Idle, Nothing
<1>14. CASE AnyBuilderBuild BY <1>2, <1>14 DEF AnyBuilderBuild, Idle
<1>15. CASE UnpackFields BY <1>1, <1>15 DEF UnpackFields, Idle
<1>16. CASE NextExchange BY <1>2, <1>16 DEF NextExchange, Nothing
<1> QED
  BY <1>4, <1>5, <1>6, <1>7, <1>8, <1>9, <1>10, <1>11, <1>12, <1>13, <1>14, <1>15, <1>16
    DEF Next

\* In every run of every program on every message, the slice ByteSizeLong sized is
\* the slice Serialize fills.
THEOREM SliceAlwaysFilled == Spec => []SliceIsFilled
<1>1. SliceInv => SliceIsFilled BY DEF SliceInv
<1> QED BY <1>1, SliceInit, SliceNext, PTL DEF Spec
=============================================================================
