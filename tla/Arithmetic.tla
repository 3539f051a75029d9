------------------------------ MODULE Arithmetic ------------------------------
(***************************************************************************)
(* Lemmas about the natural numbers: induction and recursion, for sets and *)
(* functions and not for operators, from the principle of the least        *)
(* number; equality modulo a number; powers and the sums of powers; and    *)
(* the halves of a number, from which its bits are read.                   *)
(***************************************************************************)
EXTENDS Integers, WellFoundedInduction, TLAPS

\* Each set of natural numbers has a least one.
LEMMA LeastNumber ==
  ASSUME NEW T \in SUBSET Nat, T # {}
  PROVE  \E m \in T : \A n \in T : m <= n
<1> DEFINE R == OpToRel(<, Nat)
<1>1. IsWellFoundedOn(R, Nat)
  BY NatLessThanWellFounded
<1>2. \A m, n \in Nat : n < m => <<n, m>> \in R
  BY DEF OpToRel
<1> HIDE DEF R
<1>3. PICK m \in T : \A n \in T : ~(<<n, m>> \in R)
  BY <1>1, WFMin
<1>4. \A n \in T : n \in Nat /\ ~(n < m)
  BY <1>2, <1>3
<1>5. m \in Nat
  BY <1>3
<1>6. \A n \in T : m <= n
  BY <1>4, <1>5
<1> QED
  BY <1>3, <1>6

LEMMA Induct ==
  ASSUME NEW S, 0 \in S, \A n \in Nat : n \in S => n + 1 \in S
  PROVE  Nat \subseteq S
<1> DEFINE T == Nat \ S
<1>1. SUFFICES ASSUME T # {} PROVE FALSE
  OBVIOUS
<1>2. PICK m \in T : \A n \in T : m <= n
  BY <1>1, LeastNumber
<1>3. m \in Nat /\ m # 0 /\ m \notin S
  BY <1>2
<1>4. m - 1 \in Nat /\ (m - 1) + 1 = m /\ ~(m <= m - 1)
  BY <1>3
<1>5. m - 1 \in S
  BY <1>2, <1>4
<1> QED
  BY <1>3, <1>4, <1>5

\* A function is defined by where it begins and how it goes on.
Begun(h, n, x0, g) == h[0] = x0 /\ \A i \in 0..(n - 1) : h[i + 1] = g[i][h[i]]

LEMMA BegunSame ==
  ASSUME NEW x0, NEW g, NEW m \in Nat, NEW n \in Nat, m <= n, NEW h, NEW k,
         Begun(h, m, x0, g), Begun(k, n, x0, g)
  PROVE  h[m] = k[m]
<1> DEFINE S == {i \in Nat : i <= m => h[i] = k[i]}
<1>1. 0 \in S
  BY DEF Begun
<1>2. ASSUME NEW i \in Nat, i \in S PROVE i + 1 \in S
  <2>1. SUFFICES ASSUME i + 1 <= m PROVE h[i + 1] = k[i + 1]
    OBVIOUS
  <2>2. i \in 0..(m - 1) /\ i \in 0..(n - 1) /\ i <= m
    BY <2>1
  <2> QED
    BY <1>2, <2>2 DEF Begun
<1> HIDE DEF S
<1>3. m \in S
  BY <1>1, <1>2, Induct
<1> QED
  BY <1>3 DEF S

\* g[n] takes the n-th value to the next one.
Stays(g, X) == \A i \in Nat : \A x \in X : g[i][x] \in X

LEMMA Iterated ==
  ASSUME NEW X, NEW x0 \in X, NEW g, Stays(g, X)
  PROVE  \E f \in [Nat -> X] : f[0] = x0 /\ \A n \in Nat : f[n + 1] = g[n][f[n]]
<1> DEFINE H(n) == {h \in [Nat -> X] : Begun(h, n, x0, g)}
           S == {n \in Nat : H(n) # {}}
<1>1. 0 \in S
  <2>1. [i \in Nat |-> x0] \in H(0)
    BY DEF Begun
  <2> QED
    BY <2>1
<1>2. ASSUME NEW n \in Nat, n \in S PROVE n + 1 \in S
  <2>1. PICK h \in [Nat -> X] : Begun(h, n, x0, g)
    BY <1>2
  <2> DEFINE k == [h EXCEPT ![n + 1] = g[n][h[n]]]
  <2>2. k \in [Nat -> X]
    BY <2>1 DEF Stays
  <2>3. k[0] = x0
    BY <2>1 DEF Begun
  <2>4. ASSUME NEW i \in 0..n PROVE k[i + 1] = g[i][k[i]]
    <3>1. i \in Nat /\ i # n + 1 /\ k[i] = h[i]
      BY <2>1
    <3>2. CASE i = n
      BY <2>1, <3>1, <3>2
    <3>3. CASE i # n
      <4>1. i \in 0..(n - 1) /\ i + 1 # n + 1 /\ i + 1 \in Nat
        BY <3>3
      <4>2. k[i + 1] = h[i + 1]
        BY <2>1, <4>1
      <4> QED
        BY <2>1, <3>1, <4>1, <4>2 DEF Begun
    <3> QED
      BY <3>2, <3>3
  <2> HIDE DEF k
  <2>5. Begun(k, n + 1, x0, g)
    <3>1. (n + 1) - 1 = n
      OBVIOUS
    <3> QED
      BY <2>3, <2>4, <3>1 DEF Begun
  <2>6. k \in H(n + 1)
    BY <2>2, <2>5
  <2> QED
    BY <2>6
<1>3. \A n \in Nat : H(n) # {}
  <2> HIDE DEF S
  <2>1. Nat \subseteq S
    BY <1>1, <1>2, Induct
  <2> QED
    BY <2>1 DEF S
<1> DEFINE c(n) == CHOOSE h \in H(n) : TRUE
           f == [n \in Nat |-> c(n)[n]]
<1>4. \A n \in Nat : c(n) \in [Nat -> X] /\ Begun(c(n), n, x0, g)
  BY <1>3
<1> HIDE DEF c
<1>5. f \in [Nat -> X]
  BY <1>4
<1>6. f[0] = x0
  BY <1>4 DEF Begun
<1>7. ASSUME NEW n \in Nat PROVE f[n + 1] = g[n][f[n]]
  <2>1. n + 1 \in Nat /\ n <= n + 1 /\ n \in 0..((n + 1) - 1)
    OBVIOUS
  <2>2. c(n)[n] = c(n + 1)[n]
    BY <1>4, <2>1, BegunSame
  <2>3. c(n + 1)[n + 1] = g[n][c(n + 1)[n]]
    BY <1>4, <2>1 DEF Begun
  <2> QED
    BY <2>1, <2>2, <2>3
<1> HIDE DEF f
<1> QED
  BY <1>5, <1>6, <1>7


Recurs(f, x0, g) == f = [n \in Nat |-> IF n = 0 THEN x0 ELSE g[n - 1][f[n - 1]]]

LEMMA Recursion ==
  ASSUME NEW X, NEW x0 \in X, NEW g, Stays(g, X)
  PROVE  \E f \in [Nat -> X] : Recurs(f, x0, g)
<1>1. PICK f \in [Nat -> X] : f[0] = x0 /\ \A n \in Nat : f[n + 1] = g[n][f[n]]
  BY Iterated
<1>2. ASSUME NEW n \in Nat PROVE f[n] = IF n = 0 THEN x0 ELSE g[n - 1][f[n - 1]]
  <2>1. CASE n = 0
    BY <1>1, <2>1
  <2>2. CASE n # 0
    <3>1. n - 1 \in Nat /\ (n - 1) + 1 = n
      BY <2>2
    <3>2. f[n] = g[n - 1][f[n - 1]]
      BY <1>1, <3>1
    <3> QED
      BY <2>2, <3>2
  <2> QED
    BY <2>1, <2>2
<1>3. Recurs(f, x0, g)
  BY <1>2 DEF Recurs
<1> QED
  BY <1>3

\* The same for a function that ends.
StaysUpTo(g, m, X) == \A i \in 0..(m - 1) : \A x \in X : g[i][x] \in X
RecursUpTo(f, m, x0, g) == f = [n \in 0..m |-> IF n = 0 THEN x0 ELSE g[n - 1][f[n - 1]]]

LEMMA RecursionUpTo ==
  ASSUME NEW X, NEW x0 \in X, NEW m \in Nat, NEW g, StaysUpTo(g, m, X)
  PROVE  \E f \in [0..m -> X] : RecursUpTo(f, m, x0, g)
<1> DEFINE h == [i \in Nat |-> IF i < m THEN g[i] ELSE [x \in X |-> x]]
<1>1. Stays(h, X)
  BY DEF Stays, StaysUpTo
<1>2. \A i \in 0..(m - 1) : h[i] = g[i]
  OBVIOUS
<1> HIDE DEF h
<1>3. PICK e \in [Nat -> X] : Recurs(e, x0, h)
  BY <1>1, Recursion
<1> DEFINE f == [n \in 0..m |-> e[n]]
<1>4. f \in [0..m -> X]
  BY <1>3
<1>5. ASSUME NEW n \in 0..m PROVE f[n] = IF n = 0 THEN x0 ELSE g[n - 1][f[n - 1]]
  <2>1. CASE n = 0
    BY <1>3, <2>1 DEF Recurs
  <2>2. CASE n # 0
    <3>1. n - 1 \in 0..(m - 1) /\ n - 1 \in 0..m /\ n \in Nat
      BY <2>2
    <3>2. e[n] = h[n - 1][e[n - 1]]
      BY <1>3, <2>2, <3>1 DEF Recurs
    <3> QED
      BY <1>2, <2>2, <3>1, <3>2
  <2> QED
    BY <2>1, <2>2
<1>6. RecursUpTo(f, m, x0, g)
  BY <1>5 DEF RecursUpTo
<1> QED
  BY <1>4, <1>6

-----------------------------------------------------------------------------
\* Congruence.
Cong(a, b, m) == \E k \in Int : a = b + k * m

LEMMA CongSame == ASSUME NEW a \in Int, NEW m \in Int PROVE Cong(a, a, m)
<1>1. a = a + 0 * m
  OBVIOUS
<1> QED
  BY <1>1 DEF Cong

LEMMA CongSym ==
  ASSUME NEW a \in Int, NEW b \in Int, NEW m \in Int, Cong(a, b, m)
  PROVE  Cong(b, a, m)
<1>1. PICK k \in Int : a = b + k * m
  BY DEF Cong
<1>2. b = a + (-k) * m /\ -k \in Int
  BY <1>1
<1> QED
  BY <1>2 DEF Cong

LEMMA CongTrans ==
  ASSUME NEW a \in Int, NEW b \in Int, NEW c \in Int, NEW m \in Int, Cong(a, b, m), Cong(b, c, m)
  PROVE  Cong(a, c, m)
<1>1. PICK k \in Int : a = b + k * m
  BY DEF Cong
<1>2. PICK l \in Int : b = c + l * m
  BY DEF Cong
<1>3. a = c + (k + l) * m /\ k + l \in Int
  BY <1>1, <1>2
<1> QED
  BY <1>3 DEF Cong

LEMMA CongAdd ==
  ASSUME NEW a \in Int, NEW b \in Int, NEW c \in Int, NEW d \in Int, NEW m \in Int,
         Cong(a, b, m), Cong(c, d, m)
  PROVE  Cong(a + c, b + d, m)
<1>1. PICK k \in Int : a = b + k * m
  BY DEF Cong
<1>2. PICK l \in Int : c = d + l * m
  BY DEF Cong
<1>3. a + c = (b + d) + (k + l) * m /\ k + l \in Int
  BY <1>1, <1>2
<1> QED
  BY <1>3 DEF Cong

LEMMA CongTimes ==
  ASSUME NEW a \in Int, NEW b \in Int, NEW c \in Int, NEW m \in Int, Cong(a, b, m)
  PROVE  Cong(a * c, b * c, m) /\ Cong(c * a, c * b, m)
<1>1. PICK k \in Int : a = b + k * m
  BY DEF Cong
<1>2. a * c = b * c + (k * c) * m /\ k * c \in Int /\ a * c = c * a /\ b * c = c * b
  BY <1>1
<1> QED
  BY <1>2 DEF Cong

LEMMA CongMul ==
  ASSUME NEW a \in Int, NEW b \in Int, NEW c \in Int, NEW d \in Int, NEW m \in Int,
         Cong(a, b, m), Cong(c, d, m)
  PROVE  Cong(a * c, b * d, m)
<1>1. Cong(a * c, b * c, m) /\ Cong(b * c, b * d, m)
  BY CongTimes
<1>2. a * c \in Int /\ b * c \in Int /\ b * d \in Int
  OBVIOUS
<1> QED
  BY <1>1, <1>2, CongTrans

LEMMA ModRange ==
  ASSUME NEW a \in Int, NEW m \in Nat \ {0}
  PROVE  /\ a % m \in 0..(m - 1) /\ a \div m \in Int
         /\ a = m * (a \div m) + (a % m)
OBVIOUS

LEMMA CongMod ==
  ASSUME NEW a \in Int, NEW m \in Nat \ {0}
  PROVE  Cong(a, a % m, m) /\ Cong(a % m, a, m) /\ a % m \in Int
<1> DEFINE q == a \div m
           r == a % m
<1>1. r \in Int /\ q \in Int /\ a = m * q + r
  BY ModRange
<1> HIDE DEF q, r
<1>2. m * q = q * m /\ q * m \in Int
  BY <1>1
<1>3. a = r + q * m
  BY <1>1, <1>2
<1>4. Cong(a, r, m)
  BY <1>1, <1>3 DEF Cong
<1>5. Cong(r, a, m)
  BY <1>1, <1>4, CongSym
<1> QED
  BY <1>1, <1>4, <1>5 DEF r

LEMMA CongIs ==
  ASSUME NEW m \in Nat \ {0}, NEW a \in 0..(m - 1), NEW b \in 0..(m - 1), Cong(a, b, m)
  PROVE  a = b
<1>1. PICK k \in Int : a = b + k * m
  BY DEF Cong
<1>2. CASE k = 0
  BY <1>1, <1>2
<1>3. CASE k > 0
  <2>1. k - 1 \in Nat /\ (k - 1) * m \in Nat /\ k * m = (k - 1) * m + m
    BY <1>3
  <2>2. a < m /\ b >= 0
    OBVIOUS
  <2> QED
    BY <1>1, <2>1, <2>2
<1>4. CASE k < 0
  <2>1. -k - 1 \in Nat /\ (-k - 1) * m \in Nat /\ k * m = -((-k - 1) * m) - m
    BY <1>4
  <2>2. b < m /\ a >= 0
    OBVIOUS
  <2> QED
    BY <1>1, <2>1, <2>2
<1> QED
  BY <1>2, <1>3, <1>4

LEMMA CongModIs ==
  ASSUME NEW m \in Nat \ {0}, NEW a \in 0..(m - 1), NEW b \in Int, Cong(a, b, m)
  PROVE  a = b % m
<1>1. Cong(b, b % m, m) /\ b % m \in 0..(m - 1)
  BY CongMod, ModRange
<1>2. Cong(a, b % m, m)
  BY <1>1, CongTrans
<1> QED
  BY <1>1, <1>2, CongIs

-----------------------------------------------------------------------------
\* Powers, and the sums of powers.
PowerOf(b) == CHOOSE f \in [Nat -> Int] : f[0] = 1 /\ \A n \in Nat : f[n + 1] = f[n] * b
Sums(b) ==
  CHOOSE f \in [Nat -> Int] : f[0] = 0 /\ \A n \in Nat : f[n + 1] = f[n] * b + 1

LEMMA PowerIs ==
  ASSUME NEW b \in Int
  PROVE  /\ PowerOf(b) \in [Nat -> Int] /\ PowerOf(b)[0] = 1
         /\ \A n \in Nat : PowerOf(b)[n + 1] = PowerOf(b)[n] * b
<1> DEFINE g == [i \in Nat |-> [x \in Int |-> x * b]]
<1>1. \A i \in Nat : \A x \in Int : g[i][x] \in Int
  OBVIOUS
<1>2. \E f \in [Nat -> Int] : f[0] = 1 /\ \A n \in Nat : f[n + 1] = g[n][f[n]]
  <2> DEFINE X == Int
             x0 == 1
  <2>1. Stays(g, X) /\ x0 \in X
    BY <1>1 DEF Stays
  <2> HIDE DEF g, X, x0
  <2>2. \E f \in [Nat -> X] : f[0] = x0 /\ \A n \in Nat : f[n + 1] = g[n][f[n]]
    BY <2>1, Iterated
  <2> QED
    BY <2>2 DEF X, x0
<1>3. \E f \in [Nat -> Int] : f[0] = 1 /\ \A n \in Nat : f[n + 1] = f[n] * b
  BY <1>2
<1> QED
  BY <1>3 DEF PowerOf

LEMMA SumsIs ==
  ASSUME NEW b \in Int
  PROVE  /\ Sums(b) \in [Nat -> Int] /\ Sums(b)[0] = 0
         /\ \A n \in Nat : Sums(b)[n + 1] = Sums(b)[n] * b + 1
<1> DEFINE g == [i \in Nat |-> [x \in Int |-> x * b + 1]]
<1>1. \A i \in Nat : \A x \in Int : g[i][x] \in Int
  OBVIOUS
<1>2. \E f \in [Nat -> Int] : f[0] = 0 /\ \A n \in Nat : f[n + 1] = g[n][f[n]]
  <2> DEFINE X == Int
             x0 == 0
  <2>1. Stays(g, X) /\ x0 \in X
    BY <1>1 DEF Stays
  <2> HIDE DEF g, X, x0
  <2>2. \E f \in [Nat -> X] : f[0] = x0 /\ \A n \in Nat : f[n + 1] = g[n][f[n]]
    BY <2>1, Iterated
  <2> QED
    BY <2>2 DEF X, x0
<1>3. \E f \in [Nat -> Int] : f[0] = 0 /\ \A n \in Nat : f[n + 1] = f[n] * b + 1
  BY <1>2
<1> QED
  BY <1>3 DEF Sums

LEMMA PowerAdd ==
  ASSUME NEW b \in Int, NEW m \in Nat, NEW n \in Nat
  PROVE  PowerOf(b)[m + n] = PowerOf(b)[m] * PowerOf(b)[n]
<1> DEFINE p == PowerOf(b)
           S == {i \in Nat : p[m + i] = p[m] * p[i]}
<1>1. p \in [Nat -> Int] /\ p[0] = 1 /\ \A i \in Nat : p[i + 1] = p[i] * b
  BY PowerIs
<1> HIDE DEF p
<1>2. 0 \in S
  BY <1>1
<1>3. ASSUME NEW i \in Nat, i \in S PROVE i + 1 \in S
  <2>1. m + (i + 1) = (m + i) + 1 /\ m + i \in Nat /\ p[m] \in Int /\ p[i] \in Int
    BY <1>1
  <2>2. p[m + (i + 1)] = (p[m] * p[i]) * b /\ p[i + 1] = p[i] * b
    BY <1>1, <1>3, <2>1
  <2>3. (p[m] * p[i]) * b = p[m] * (p[i] * b)
    BY <2>1
  <2> QED
    BY <2>2, <2>3
<1> HIDE DEF S
<1>4. n \in S
  BY <1>2, <1>3, Induct
<1> QED
  BY <1>4 DEF S, p

LEMMA SumsAdd ==
  ASSUME NEW b \in Int, NEW m \in Nat, NEW n \in Nat
  PROVE  Sums(b)[m + n] = Sums(b)[m] * PowerOf(b)[n] + Sums(b)[n]
<1> DEFINE p == PowerOf(b)
           s == Sums(b)
           S == {i \in Nat : s[m + i] = s[m] * p[i] + s[i]}
<1>1. /\ p \in [Nat -> Int] /\ p[0] = 1 /\ \A i \in Nat : p[i + 1] = p[i] * b
      /\ s \in [Nat -> Int] /\ s[0] = 0 /\ \A i \in Nat : s[i + 1] = s[i] * b + 1
  BY PowerIs, SumsIs
<1> HIDE DEF p, s
<1>2. 0 \in S
  BY <1>1
<1>3. ASSUME NEW i \in Nat, i \in S PROVE i + 1 \in S
  <2>0. m + (i + 1) = (m + i) + 1 /\ m + i \in Nat
    OBVIOUS
  <2>1. s[m] \in Int /\ p[i] \in Int /\ s[i] \in Int
    BY <1>1
  <2>2. s[m + (i + 1)] = (s[m] * p[i] + s[i]) * b + 1 /\ p[i + 1] = p[i] * b
        /\ s[i + 1] = s[i] * b + 1
    BY <1>1, <1>3, <2>0
  <2>3. (s[m] * p[i] + s[i]) * b + 1 = s[m] * (p[i] * b) + (s[i] * b + 1)
    BY <2>1
  <2> QED
    BY <2>2, <2>3
<1> HIDE DEF S
<1>4. n \in S
  BY <1>2, <1>3, Induct
<1> QED
  BY <1>4 DEF S, p, s

LEMMA PowerSquare ==
  ASSUME NEW b \in Int, NEW n \in Nat
  PROVE  PowerOf(b * b)[n] = PowerOf(b)[2 * n]
<1> DEFINE p == PowerOf(b)
           q == PowerOf(b * b)
           S == {i \in Nat : q[i] = p[2 * i]}
<1>0. b * b \in Int
  OBVIOUS
<1>1. /\ p \in [Nat -> Int] /\ p[0] = 1 /\ \A i \in Nat : p[i + 1] = p[i] * b
      /\ q \in [Nat -> Int] /\ q[0] = 1 /\ \A i \in Nat : q[i + 1] = q[i] * (b * b)
  BY <1>0, PowerIs
<1> HIDE DEF p, q
<1>2. 0 \in S
  BY <1>1
<1>3. ASSUME NEW i \in Nat, i \in S PROVE i + 1 \in S
  <2>1. 2 * (i + 1) = (2 * i + 1) + 1 /\ 2 * i \in Nat /\ 2 * i + 1 \in Nat /\ p[2 * i] \in Int
    BY <1>1
  <2>2. p[2 * (i + 1)] = (p[2 * i] * b) * b /\ q[i + 1] = p[2 * i] * (b * b)
    BY <1>1, <1>3, <2>1
  <2>3. (p[2 * i] * b) * b = p[2 * i] * (b * b)
    BY <2>1
  <2> QED
    BY <2>2, <2>3
<1> HIDE DEF S
<1>4. n \in S
  BY <1>2, <1>3, Induct
<1> QED
  BY <1>4 DEF S, p, q

LEMMA PowerCong ==
  ASSUME NEW a \in Int, NEW b \in Int, NEW m \in Int, Cong(a, b, m), NEW n \in Nat
  PROVE  Cong(PowerOf(a)[n], PowerOf(b)[n], m)
<1> DEFINE p == PowerOf(a)
           q == PowerOf(b)
           S == {i \in Nat : Cong(p[i], q[i], m)}
<1>1. /\ p \in [Nat -> Int] /\ p[0] = 1 /\ \A i \in Nat : p[i + 1] = p[i] * a
      /\ q \in [Nat -> Int] /\ q[0] = 1 /\ \A i \in Nat : q[i + 1] = q[i] * b
  BY PowerIs
<1> HIDE DEF p, q
<1>2. 0 \in S
  BY <1>1, CongSame
<1>3. ASSUME NEW i \in Nat, i \in S PROVE i + 1 \in S
  <2>1. p[i] \in Int /\ q[i] \in Int /\ Cong(p[i], q[i], m)
    BY <1>1, <1>3
  <2>2. Cong(p[i] * a, q[i] * b, m)
    BY <2>1, CongMul
  <2> QED
    BY <1>1, <2>2
<1> HIDE DEF S
<1>4. n \in S
  BY <1>2, <1>3, Induct
<1> QED
  BY <1>4 DEF S, p, q

-----------------------------------------------------------------------------
\* Division.

\* A quotient is what lies between two multiples.
LEMMA DivIs ==
  ASSUME NEW a \in Nat, NEW d \in Nat \ {0}, NEW q \in Nat, NEW r \in 0..(d - 1),
         a = q * d + r
  PROVE  a \div d = q /\ a % d = r
<1> DEFINE p == a \div d
           s == a % d
<1>1. s \in 0..(d - 1) /\ p \in Int /\ a = d * p + s
  BY ModRange
<1> HIDE DEF p, s
<1>2. r = s + (p - q) * d /\ p - q \in Int
  <2>1. (p - q) * d = p * d - q * d /\ p * d = d * p
    BY <1>1
  <2> QED
    BY <1>1, <2>1
<1>3. Cong(r, s, d)
  BY <1>1, <1>2 DEF Cong
<1>4. r = s
  BY <1>1, <1>3, CongIs
<1>5. p = q
  <2>1. (p - q) * d = 0 /\ p - q \in Int
    <3>1. (p - q) * d \in Int
      BY <1>2
    <3> QED
      BY <1>1, <1>2, <1>4, <3>1
  <2> QED
    BY <1>1, <2>1
<1> QED
  BY <1>4, <1>5 DEF p, s

\* A half of a quotient is the quotient by the double.
LEMMA HalfDiv ==
  ASSUME NEW a \in Nat, NEW d \in Nat \ {0}
  PROVE  /\ a \div d \in Nat /\ a \div (2 * d) \in Nat
         /\ (a \div d) % 2 \in {0, 1}
         /\ a \div d = 2 * (a \div (2 * d)) + ((a \div d) % 2)
<1> DEFINE p == a \div d
           s == a % d
           u == p \div 2
           v == p % 2
<1>1. s \in 0..(d - 1) /\ p \in Nat /\ a = d * p + s
  <2>1. s \in 0..(d - 1) /\ p \in Int /\ a = d * p + s
    BY ModRange
  <2> QED
    BY <2>1
<1> HIDE DEF p, s
<1>2. v \in {0, 1} /\ u \in Nat /\ p = 2 * u + v
  BY <1>1
<1> HIDE DEF u, v
<1>3. /\ 2 * d \in Nat \ {0} /\ v * d + s \in 0..(2 * d - 1)
  BY <1>1, <1>2
<1>4. a = u * (2 * d) + (v * d + s)
  <2>1. d * p = u * (2 * d) + v * d
    BY <1>1, <1>2
  <2>2. u * (2 * d) \in Nat /\ v * d \in Nat
    BY <1>2
  <2> QED
    BY <1>1, <2>1, <2>2
<1>5. a \div (2 * d) = u
  <2> DEFINE e == 2 * d
             t == v * d + s
  <2>1. e \in Nat \ {0} /\ t \in 0..(e - 1) /\ a = u * e + t
    BY <1>3, <1>4
  <2> HIDE DEF e, t
  <2>2. a \div e = u
    BY <1>2, <2>1, DivIs
  <2> QED
    BY <2>2 DEF e
<1> QED
  BY <1>1, <1>2, <1>5 DEF p, v

LEMMA SmallDiv ==
  ASSUME NEW a \in Nat, NEW d \in Nat, a < d
  PROVE  a \div d = 0
<1>1. d \in Nat \ {0} /\ a \in 0..(d - 1) /\ a = 0 * d + a
  OBVIOUS
<1> QED
  BY <1>1, DivIs

-----------------------------------------------------------------------------
\* Powers and their sums, for an exponent that grows by one bit.

LEMMA PowerDouble ==
  ASSUME NEW b \in Int, NEW n \in Nat
  PROVE  /\ PowerOf(b)[n] \in Int
         /\ PowerOf(b)[2 * n] = PowerOf(b)[n] * PowerOf(b)[n]
         /\ PowerOf(b)[2 * n + 1] = (PowerOf(b)[n] * PowerOf(b)[n]) * b
<1>1. 2 * n = n + n /\ 2 * n \in Nat
  OBVIOUS
<1>2. PowerOf(b)[n + n] = PowerOf(b)[n] * PowerOf(b)[n]
  BY PowerAdd
<1> QED
  BY <1>1, <1>2, PowerIs

\* A factor r that stands for a power stands for the one of a bit more.
LEMMA PowerBit ==
  ASSUME NEW a \in Int, NEW m \in Nat \ {0}, NEW n \in Nat, NEW r \in Int,
         Cong(r, PowerOf(a)[n], m)
  PROVE  LET square == (r * r) % m
         IN  /\ square \in Int /\ Cong(square, PowerOf(a)[2 * n], m)
             /\ (square * a) % m \in Int /\ Cong((square * a) % m, PowerOf(a)[2 * n + 1], m)
<1> DEFINE p == PowerOf(a)[n]
           square == (r * r) % m
           next == (square * a) % m
<1>1. p \in Int /\ PowerOf(a)[2 * n] = p * p /\ PowerOf(a)[2 * n + 1] = (p * p) * a
  BY PowerDouble
<1> HIDE DEF p
<1>2. square \in Int /\ Cong(square, r * r, m)
  BY CongMod, r * r \in Int
<1>3. Cong(r * r, p * p, m)
  BY <1>1, CongMul DEF p
<1>4. Cong(square, p * p, m)
  <2>1. r * r \in Int /\ p * p \in Int
    BY <1>1
  <2> QED
    BY <1>2, <1>3, <2>1, CongTrans
<1> HIDE DEF square
<1>5. next \in Int /\ Cong(next, square * a, m)
  BY <1>2, CongMod, square * a \in Int
<1>6. p * p \in Int /\ square * a \in Int /\ (p * p) * a \in Int
  BY <1>1, <1>2
<1>7. Cong(square * a, (p * p) * a, m)
  BY <1>2, <1>4, <1>6, CongTimes
<1>8. next \in Int /\ Cong(next, (p * p) * a, m)
  <2> HIDE DEF next
  <2> QED
    BY <1>5, <1>6, <1>7, CongTrans
<1> QED
  BY <1>1, <1>2, <1>4, <1>8 DEF square

\* The same for the sum of the powers below it.
LEMMA SumBit ==
  ASSUME NEW a \in Int, NEW m \in Nat \ {0}, NEW n \in Nat, NEW r \in Int, NEW d \in Int,
         Cong(r, PowerOf(a)[n], m), Cong(d, Sums(a)[n], m)
  PROVE  LET sum == (d * (r + 1)) % m
             pow == (r * r) % m
         IN  /\ sum \in Int /\ Cong(sum, Sums(a)[2 * n], m)
             /\ (sum + pow) % m \in Int /\ Cong((sum + pow) % m, Sums(a)[2 * n + 1], m)
<1> DEFINE p == PowerOf(a)[n]
           s == Sums(a)[n]
           sum == (d * (r + 1)) % m
           pow == (r * r) % m
           next == (sum + pow) % m
<1>1. /\ p \in Int /\ s \in Int
      /\ Sums(a)[2 * n] = s * p + s
      /\ Sums(a)[2 * n + 1] = Sums(a)[2 * n] + PowerOf(a)[2 * n]
      /\ Sums(a)[2 * n] \in Int /\ PowerOf(a)[2 * n] \in Int
  <2>1. 2 * n = n + n /\ 2 * n \in Nat /\ 1 \in Nat /\ 1 + 2 * n = 2 * n + 1
    OBVIOUS
  <2>2. p \in Int /\ s \in Int /\ Sums(a)[2 * n] \in Int /\ PowerOf(a)[2 * n] \in Int
    BY <2>1, PowerIs, SumsIs
  <2>3. Sums(a)[n + n] = s * p + s
    BY SumsAdd
  <2>4. Sums(a)[1 + 2 * n] = Sums(a)[1] * PowerOf(a)[2 * n] + Sums(a)[2 * n]
    BY <2>1, SumsAdd
  <2>5. Sums(a)[1] = 1
    <3>1. Sums(a)[0 + 1] = 0 * a + 1
      BY SumsIs
    <3> QED
      BY <3>1
  <2>6. Sums(a)[1 + 2 * n] = Sums(a)[2 * n] + PowerOf(a)[2 * n]
    BY <2>2, <2>4, <2>5
  <2>7. Sums(a)[2 * n] = s * p + s
    BY <2>1, <2>3
  <2>8. Sums(a)[2 * n + 1] = Sums(a)[2 * n] + PowerOf(a)[2 * n]
    BY <2>1, <2>6
  <2> HIDE DEF p, s
  <2> QED
    BY <2>2, <2>7, <2>8
<1> HIDE DEF p, s
<1>2. Cong(r + 1, p + 1, m)
  <2>1. Cong(r, p, m) /\ Cong(1, 1, m) /\ 1 \in Int
    BY CongSame DEF p
  <2> QED
    BY <1>1, <2>1, CongAdd
<1>3. Cong(d * (r + 1), s * (p + 1), m)
  <2>1. r + 1 \in Int /\ p + 1 \in Int /\ Cong(d, s, m)
    BY <1>1 DEF s
  <2> QED
    BY <1>1, <1>2, <2>1, CongMul
<1>4. s * (p + 1) = s * p + s
  BY <1>1
<1>5. sum \in Int /\ Cong(sum, Sums(a)[2 * n], m)
  <2>1. d * (r + 1) \in Int
    OBVIOUS
  <2>2. sum \in Int /\ Cong(sum, d * (r + 1), m)
    BY <2>1, CongMod
  <2>3. Cong(d * (r + 1), Sums(a)[2 * n], m)
    BY <1>1, <1>3, <1>4
  <2> HIDE DEF sum
  <2> QED
    BY <1>1, <2>1, <2>2, <2>3, CongTrans
<1>6. pow \in Int /\ Cong(pow, PowerOf(a)[2 * n], m)
  BY PowerBit
<1> HIDE DEF sum, pow
<1>7. sum + pow \in Int /\ Cong(sum + pow, Sums(a)[2 * n + 1], m)
  <2>1. Cong(sum + pow, Sums(a)[2 * n] + PowerOf(a)[2 * n], m)
    <3> DEFINE s2 == Sums(a)[2 * n]
               p2 == PowerOf(a)[2 * n]
    <3>1. s2 \in Int /\ p2 \in Int /\ Cong(sum, s2, m) /\ Cong(pow, p2, m)
      BY <1>1, <1>5, <1>6
    <3> HIDE DEF s2, p2
    <3>2. Cong(sum + pow, s2 + p2, m)
      BY <1>5, <1>6, <3>1, CongAdd
    <3> QED
      BY <3>2 DEF s2, p2
  <2> QED
    BY <1>1, <1>5, <1>6, <2>1
<1>8. next \in Int /\ Cong(next, Sums(a)[2 * n + 1], m)
  <2>1. next \in Int /\ Cong(next, sum + pow, m)
    BY <1>7, CongMod
  <2>2. Sums(a)[2 * n + 1] \in Int
    BY <1>1
  <2> HIDE DEF next
  <2> QED
    BY <1>7, <2>1, <2>2, CongTrans
<1> QED
  BY <1>5, <1>8 DEF sum, pow

\* NthElement: z times the n-th power of f stays what it is when n is halved.
LEMMA HalfPower ==
  ASSUME NEW m \in Nat \ {0}, NEW n \in Nat, NEW f \in Int, NEW z \in Int
  PROVE  LET g == (f * f) % m
             y == IF n % 2 # 0 THEN (f * z) % m ELSE z
         IN  /\ g \in Int /\ y \in Int /\ n \div 2 \in Nat
             /\ Cong(y * PowerOf(g)[n \div 2], z * PowerOf(f)[n], m)
<1> DEFINE g == (f * f) % m
           y == IF n % 2 # 0 THEN (f * z) % m ELSE z
           h == n \div 2
           b == n % 2
           p == PowerOf(f)[2 * h]
           q == PowerOf(g)[h]
<1>1. h \in Nat /\ b \in {0, 1} /\ n = 2 * h + b /\ 2 * h \in Nat
  OBVIOUS
<1> HIDE DEF h, b
<1>2. g \in Int /\ Cong(g, f * f, m) /\ f * f \in Int
  BY CongMod, f * f \in Int
<1> HIDE DEF g
<1>3. p \in Int /\ q \in Int /\ Cong(q, p, m)
  <2>1. Cong(q, PowerOf(f * f)[h], m)
    BY <1>1, <1>2, PowerCong
  <2>2. PowerOf(f * f)[h] = p
    BY <1>1, PowerSquare
  <2>3. q \in Int /\ p \in Int
    BY <1>1, <1>2, PowerIs
  <2> QED
    BY <2>1, <2>2, <2>3
<1>4. CASE b = 0
  <2>1. y = z /\ n = 2 * h
    BY <1>1, <1>4 DEF b
  <2>2. Cong(z * q, z * p, m)
    BY <1>3, CongTimes
  <2> QED
    BY <1>1, <1>2, <2>1, <2>2 DEF g, h
<1>5. CASE b = 1
  <2>1. y = (f * z) % m /\ n = 2 * h + 1
    BY <1>1, <1>5 DEF b
  <2>2. y \in Int /\ Cong(y, f * z, m) /\ f * z \in Int
    <3>1. f * z \in Int
      OBVIOUS
    <3>2. (f * z) % m \in Int /\ Cong((f * z) % m, f * z, m)
      BY <3>1, CongMod
    <3> QED
      BY <2>1, <3>1, <3>2
  <2> HIDE DEF y
  <2>3. PowerOf(f)[n] = p * f
    BY <1>1, <2>1, PowerIs
  <2> HIDE DEF p, q
  <2>4. Cong(y * q, (f * z) * p, m)
    BY <1>3, <2>2, CongMul
  <2>5. (f * z) * p = z * (p * f)
    BY <1>3
  <2>6. Cong(y * q, z * PowerOf(f)[n], m)
    BY <2>3, <2>4, <2>5
  <2> QED
    BY <1>1, <1>2, <2>2, <2>6 DEF g, h, y, q
<1> QED
  BY <1>1, <1>4, <1>5
=============================================================================
