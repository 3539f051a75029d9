----------------------------- MODULE Query_proofs ----------------------------
(***************************************************************************)
(* From the parameters of a query to its statements: qgen's parameters are *)
(* the query's own and differ where the query compares them, what qsub     *)
(* writes of a template is the template, and the statements that           *)
(* parse_query writes are those of its input, each between the records of  *)
(* its query's times. For any generator, any seeds, any templates of the   *)
(* shapes in queries/ and any workload.                                    *)
(***************************************************************************)
EXTENDS Qgen, Template, ParseQuery, Arithmetic, SequenceTheorems

-----------------------------------------------------------------------------
\* Qgen: the n-th number of a stream.

Residue == 0..(QM - 1)

LEMMA QConstants ==
  /\ QM \in Nat \ {0} /\ QM > 1 /\ QA \in Nat \ {0} /\ QA < QM
  /\ nQ \in Nat \ {0} /\ nR \in Nat /\ nR < nQ /\ QM = QA * nQ + nR
<1>1. /\ QA \in Nat \ {0} /\ QM \in Nat /\ QM > QA /\ nR < nQ
  BY QgenAssumption
<1>2. QM % QA \in 0..(QA - 1) /\ QM \div QA \in Int /\ QM = QA * (QM \div QA) + (QM % QA)
  BY <1>1, ModRange
<1>3. nR \in Nat /\ nQ \in Int /\ QM = QA * nQ + nR
  BY <1>2 DEF nQ, nR
<1> QED
  BY <1>1, <1>3

\* Schrage's form of the generator: its products are less than the modulus, and the difference of
\* them is the product of seed and multiplier, less a multiple of the modulus.
LEMMA Schrage ==
  ASSUME NEW x \in Residue
  PROVE  /\ QA * (x % nQ) \in Residue /\ nR * (x \div nQ) \in Residue
         /\ NextRand(x) \in Residue /\ Cong(NextRand(x), x * QA, QM)
<1> DEFINE u == x \div nQ
           v == x % nQ
<1>1. /\ QM \in Nat \ {0} /\ QA \in Nat \ {0} /\ nQ \in Nat \ {0} /\ nR \in Nat
      /\ nR < nQ /\ QM = QA * nQ + nR /\ x \in Nat /\ x < QM
  BY QConstants DEF Residue
<1>2. v \in 0..(nQ - 1) /\ u \in Int /\ x = nQ * u + v
  BY <1>1, ModRange
<1> HIDE DEF u, v
<1>3. u \in Nat
  BY <1>1, <1>2
<1>4. u <= QA
  <2>1. SUFFICES ASSUME u >= QA + 1 PROVE FALSE
    BY <1>1, <1>3
  <2>2. nQ * u >= nQ * (QA + 1) /\ nQ * (QA + 1) = QA * nQ + nQ
    <3>1. nQ * u = nQ * (QA + 1) + nQ * (u - (QA + 1)) /\ nQ * (u - (QA + 1)) \in Nat
      <4>1. u - (QA + 1) \in Nat
        BY <1>1, <1>3, <2>1
      <4> QED
        BY <1>1, <1>3, <4>1
    <3>2. nQ * (QA + 1) = QA * nQ + nQ
      BY <1>1
    <3>3. nQ * (QA + 1) \in Int
      BY <1>1
    <3> QED
      BY <3>1, <3>2, <3>3
  <2>3. QA * nQ \in Nat /\ nQ * u \in Nat
    BY <1>1, <1>3
  <2> QED
    BY <1>1, <1>2, <2>2, <2>3
<1> DEFINE p == QA * v
           r == nR * u
<1>5. p \in Nat /\ p < QM
  <2>1. p + QA <= QA * nQ
    <3>1. nQ - 1 - v \in Nat /\ v \in Nat
      BY <1>1, <1>2
    <3>2. QA * nQ = p + QA + QA * (nQ - 1 - v) /\ QA * (nQ - 1 - v) \in Nat /\ p \in Nat
      BY <1>1, <3>1
    <3> QED
      BY <1>1, <3>2
  <2>2. p \in Nat /\ QA * nQ \in Nat
    BY <1>1, <1>2
  <2> QED
    BY <1>1, <2>1, <2>2
<1>6. r \in Nat /\ r < QM
  <2>1. nR * QA + QA <= QA * nQ
    <3>1. nQ - 1 - nR \in Nat
      BY <1>1
    <3>2. QA * nQ = nR * QA + QA + QA * (nQ - 1 - nR) /\ QA * (nQ - 1 - nR) \in Nat
      BY <1>1, <3>1
    <3>3. nR * QA \in Nat
      BY <1>1
    <3> QED
      BY <1>1, <3>2, <3>3
  <2>2. r <= nR * QA
    <3>1. QA - u \in Nat
      BY <1>1, <1>3, <1>4
    <3>2. nR * QA = r + nR * (QA - u) /\ nR * (QA - u) \in Nat /\ r \in Nat
      BY <1>1, <1>3, <3>1
    <3> QED
      BY <3>2
  <2>3. r \in Nat /\ QA * nQ \in Nat /\ nR * QA \in Nat
    BY <1>1, <1>3
  <2> QED
    BY <1>1, <2>1, <2>2, <2>3
<1>7. x * QA = u * QM + (p - r)
  <2>1. x * QA = QA * nQ * u + p
    BY <1>1, <1>2, <1>3
  <2>2. u * QM = QA * nQ * u + r
    BY <1>1, <1>3
  <2>3. QA * nQ * u \in Int
    BY <1>1, <1>3
  <2> QED
    BY <1>5, <1>6, <2>1, <2>2, <2>3
<1>8. NextRand(x) = IF p - r < 0 THEN (p - r) + QM ELSE p - r
  BY DEF NextRand, u, v
<1> HIDE DEF p, r
<1>9. NextRand(x) \in Residue
  BY <1>1, <1>5, <1>6, <1>8 DEF Residue
<1>10. Cong(NextRand(x), x * QA, QM)
  <2>1. -u \in Int /\ 1 - u \in Int /\ x * QA \in Int /\ u * QM \in Int
    BY <1>1, <1>3
  <2>2. (-u) * QM = -(u * QM) /\ (1 - u) * QM = QM - u * QM
    BY <1>1, <1>3
  <2>3. CASE p - r < 0
    <3>1. NextRand(x) = x * QA + (1 - u) * QM
      BY <1>1, <1>5, <1>6, <1>7, <1>8, <2>1, <2>2, <2>3
    <3> QED
      BY <2>1, <3>1 DEF Cong
  <2>4. CASE ~(p - r < 0)
    <3>1. NextRand(x) = x * QA + (-u) * QM
      BY <1>1, <1>5, <1>6, <1>7, <1>8, <2>1, <2>2, <2>4
    <3> QED
      BY <2>1, <3>1 DEF Cong
  <2> QED
    BY <2>3, <2>4
<1>11. p \in Residue /\ r \in Residue
  BY <1>1, <1>5, <1>6 DEF Residue
<1>12. QA * (x % nQ) = p /\ nR * (x \div nQ) = r
  BY DEF p, r, u, v
<1> QED
  BY <1>9, <1>10, <1>11, <1>12

LEMMA PowerResidue ==
  /\ Power[0] = 1 /\ \A n \in Nat : Power[n] \in Residue
  /\ \A n \in Nat : Power[n + 1] = (Power[n] * QA) % QM
<1> DEFINE X == Residue
           g == [i \in Nat |-> [x \in X |-> (x * QA) % QM]]
           x0 == 1
<1>1. \A x \in Residue : (x * QA) % QM \in Residue
  <2> TAKE x \in Residue
  <2>1. x * QA \in Int /\ QM \in Nat \ {0}
    BY QConstants DEF Residue
  <2> QED
    BY <2>1, ModRange DEF Residue
<1>2. Stays(g, X) /\ x0 \in X
  BY <1>1, QConstants DEF Stays, Residue
<1>3. PICK f \in [Nat -> X] : f = [n \in Nat |-> IF n = 0 THEN x0 ELSE g[n - 1][f[n - 1]]]
  <2> HIDE DEF g, X, x0
  <2>1. \E f \in [Nat -> X] : Recurs(f, x0, g)
    BY <1>2, Recursion
  <2> QED
    BY <2>1 DEF Recurs
<1>4. ASSUME NEW n \in Nat, n # 0 PROVE g[n - 1][f[n - 1]] = (f[n - 1] * QA) % QM
  <2>1. n - 1 \in Nat
    BY <1>4
  <2> QED
    BY <1>3, <2>1
<1>5. f = [n \in Nat |-> IF n = 0 THEN 1 ELSE (f[n - 1] * QA) % QM]
  BY <1>3, <1>4
<1>6. Power = [n \in Nat |-> IF n = 0 THEN 1 ELSE (Power[n - 1] * QA) % QM]
  BY <1>5 DEF Power
<1>7. Power[0] = 1
  BY <1>6
<1>8. \A n \in Nat : Power[n + 1] = (Power[n] * QA) % QM
  <2> TAKE n \in Nat
  <2>1. n + 1 \in Nat /\ n + 1 # 0 /\ (n + 1) - 1 = n
    OBVIOUS
  <2> QED
    BY <1>6, <2>1
<1> DEFINE S == {n \in Nat : Power[n] \in Residue}
<1>9. 0 \in S /\ \A n \in Nat : n \in S => n + 1 \in S
  BY <1>1, <1>7, <1>8, QConstants DEF Residue
<1> HIDE DEF S
<1>10. Nat \subseteq S
  BY <1>9, Induct
<1> QED
  BY <1>7, <1>8, <1>10 DEF S

\* The n-th number from a seed.
NthNumber(s, n) == (s * Power[n]) % QM

LEMMA NumberIs ==
  ASSUME NEW s \in Residue
  PROVE  /\ NthNumber(s, 0) = s /\ \A n \in Nat : NthNumber(s, n) \in Residue
         /\ \A n \in Nat : NthNumber(s, n + 1) = NextRand(NthNumber(s, n))
<1>1. QM \in Nat \ {0} /\ QA \in Int /\ s \in Int
  BY QConstants DEF Residue
<1>2. NthNumber(s, 0) = s
  <2>1. s * 1 = s /\ s \in 0..(QM - 1)
    BY <1>1 DEF Residue
  <2>2. s % QM = s
    BY <1>1, <2>1, CongSame, CongModIs
  <2> QED
    BY <2>1, <2>2, PowerResidue DEF NthNumber
<1>3. ASSUME NEW n \in Nat
      PROVE  /\ Power[n] \in Int /\ s * Power[n] \in Int
             /\ NthNumber(s, n) \in Residue /\ NthNumber(s, n) \in Int
             /\ Cong(NthNumber(s, n), s * Power[n], QM)
  <2>1. Power[n] \in Int
    BY PowerResidue DEF Residue
  <2>2. s * Power[n] \in Int
    BY <1>1, <2>1
  <2>3. (s * Power[n]) % QM \in 0..(QM - 1)
    BY <1>1, <2>2, ModRange
  <2>4. Cong((s * Power[n]) % QM, s * Power[n], QM)
    BY <1>1, <2>2, CongMod
  <2>5. NthNumber(s, n) \in Residue /\ NthNumber(s, n) \in Int
    BY <1>1, <2>3 DEF NthNumber, Residue
  <2> QED
    BY <2>1, <2>2, <2>4, <2>5 DEF NthNumber
<1>4. ASSUME NEW n \in Nat PROVE NthNumber(s, n + 1) = NextRand(NthNumber(s, n))
  <2> DEFINE a == Power[n]
             b == Power[n + 1]
             x == NthNumber(s, n)
             y == NthNumber(s, n + 1)
             z == NextRand(x)
  <2>1. n + 1 \in Nat /\ b = (a * QA) % QM
    BY PowerResidue
  <2>2. a \in Int /\ s * a \in Int /\ x \in Residue /\ x \in Int /\ Cong(x, s * a, QM)
    BY <1>3
  <2>3. b \in Int /\ s * b \in Int /\ y \in Residue /\ y \in Int /\ Cong(y, s * b, QM)
    BY <1>3, <2>1
  <2>4. z \in Residue /\ Cong(z, x * QA, QM)
    BY <2>2, Schrage
  <2> HIDE DEF a, b, x, y, z
  <2>5. a * QA \in Int /\ x * QA \in Int /\ (s * a) * QA \in Int /\ s * (a * QA) \in Int
    BY <1>1, <2>2
  <2>6. Cong(b, a * QA, QM)
    BY <1>1, <2>1, <2>5, CongMod
  <2>7. Cong(s * b, s * (a * QA), QM)
    BY <1>1, <2>3, <2>5, <2>6, CongTimes
  <2>8. Cong(y, s * (a * QA), QM)
    BY <1>1, <2>3, <2>5, <2>7, CongTrans
  <2>9. Cong(x * QA, s * (a * QA), QM)
    <3> DEFINE w == s * a
    <3>1. w \in Int /\ Cong(x, w, QM)
      BY <2>2
    <3>2. w * QA = s * (a * QA)
      BY <1>1, <2>2
    <3> HIDE DEF w
    <3>3. QM \in Int
      BY <1>1
    <3>4. Cong(x * QA, w * QA, QM)
      BY <1>1, <2>2, <3>1, <3>3, CongTimes
    <3> QED
      BY <3>2, <3>4
  <2>10. z \in Int
    BY <1>1, <2>4 DEF Residue
  <2>11. Cong(z, s * (a * QA), QM)
    BY <1>1, <2>4, <2>5, <2>9, <2>10, CongTrans
  <2>12. Cong(s * (a * QA), z, QM)
    BY <1>1, <2>5, <2>10, <2>11, CongSym
  <2>13. Cong(y, z, QM)
    BY <1>1, <2>3, <2>5, <2>8, <2>10, <2>12, CongTrans
  <2>14. y = z
    BY <1>1, <2>3, <2>4, <2>13, CongIs DEF Residue
  <2> QED
    BY <2>14 DEF y, z, x
<1> QED
  BY <1>2, <1>3, <1>4

\* What n steps make of it is the number n places further.
LEMMA StepsAre ==
  ASSUME NEW s \in Residue, NEW m \in Nat, NEW n \in Nat
  PROVE  Steps(n, NthNumber(s, m)) = NthNumber(s, m + n)
<1> DEFINE seed == NthNumber(s, m)
           X == Residue
           g == [i \in Nat |-> [x \in X |-> NextRand(x)]]
<1>1. seed \in X
  BY NumberIs
<1>2. Stays(g, X)
  BY Schrage DEF Stays
<1>3. PICK f \in [Nat -> X] : f = [k \in Nat |-> IF k = 0 THEN seed ELSE g[k - 1][f[k - 1]]]
  <2> HIDE DEF g, X, seed
  <2>1. \E f \in [Nat -> X] : Recurs(f, seed, g)
    BY <1>1, <1>2, Recursion
  <2> QED
    BY <2>1 DEF Recurs
<1> HIDE DEF seed
<1>4. ASSUME NEW k \in Nat, k # 0 PROVE g[k - 1][f[k - 1]] = NextRand(f[k - 1])
  <2>1. k - 1 \in Nat
    BY <1>4
  <2> QED
    BY <1>3, <2>1
<1> DEFINE next == [x \in 0..(QM - 1) |-> NextRand(x)]
<1>5. f = [k \in Nat |-> IF k = 0 THEN seed ELSE next[f[k - 1]]]
  <2>1. ASSUME NEW k \in Nat, k # 0 PROVE g[k - 1][f[k - 1]] = next[f[k - 1]]
    <3>1. k - 1 \in Nat
      BY <2>1
    <3>2. f[k - 1] \in 0..(QM - 1)
      BY <1>3, <3>1 DEF Residue
    <3> QED
      BY <1>4, <2>1, <3>2
  <2> QED
    BY <1>3, <2>1
<1> DEFINE h == CHOOSE u : u = [k \in Nat |-> IF k = 0 THEN seed ELSE next[u[k - 1]]]
<1>6. h = [k \in Nat |-> IF k = 0 THEN seed ELSE next[h[k - 1]]]
  BY <1>5
<1>7. Steps(n, seed) = h[n]
  BY DEF Steps
<1> HIDE DEF h, g, X
<1>8. h[0] = seed
  BY <1>6
<1> HIDE DEF next
<1>9. \A k \in Nat : h[k + 1] = next[h[k]]
  <2> TAKE k \in Nat
  <2>1. k + 1 \in Nat /\ k + 1 # 0 /\ (k + 1) - 1 = k
    OBVIOUS
  <2> QED
    BY <1>6, <2>1
<1> DEFINE S == {k \in Nat : h[k] = NthNumber(s, m + k)}
<1>10. 0 \in S
  BY <1>8 DEF seed
<1>11. ASSUME NEW k \in Nat, k \in S PROVE k + 1 \in S
  <2>1. m + k \in Nat /\ (m + k) + 1 = m + (k + 1)
    OBVIOUS
  <2>2. NthNumber(s, (m + k) + 1) = NextRand(NthNumber(s, m + k)) /\ NthNumber(s, m + k) \in Residue
    BY <2>1, NumberIs
  <2>3. next[NthNumber(s, m + k)] = NextRand(NthNumber(s, m + k))
    BY <2>2 DEF next, Residue
  <2> QED
    BY <1>9, <1>11, <2>1, <2>2, <2>3
<1> HIDE DEF S
<1>12. n \in S
  BY <1>10, <1>11, Induct
<1> QED
  BY <1>7, <1>12 DEF S, seed

LEMMA DrawInRange ==
  ASSUME NEW x \in Residue, NEW n \in Nat \ {0}
  PROVE  (x * n) \div QM \in 0..(n - 1)
<1>1. QM \in Nat \ {0} /\ x \in Nat /\ x < QM
  BY QConstants DEF Residue
<1> DEFINE a == x * n
           u == a \div QM
           v == a % QM
<1>2. a \in Nat /\ a < QM * n
  <2>1. QM - x - 1 \in Nat
    BY <1>1
  <2>2. QM * n = a + n + (QM - x - 1) * n /\ (QM - x - 1) * n \in Nat /\ a \in Nat
    BY <1>1, <2>1
  <2> QED
    BY <2>2
<1>3. u \in Int /\ v \in 0..(QM - 1) /\ a = QM * u + v
  <2>1. a \in Int
    BY <1>2
  <2> HIDE DEF a
  <2> QED
    BY <1>1, <2>1, ModRange
<1> HIDE DEF a, u, v
<1>4. u >= 0
  <2>1. SUFFICES ASSUME u <= -1 PROVE FALSE
    BY <1>3
  <2>2. QM * u = -QM - QM * (-1 - u) /\ QM * (-1 - u) \in Nat
    <3>1. -1 - u \in Nat
      BY <1>3, <2>1
    <3> QED
      BY <1>1, <1>3, <3>1
  <2> QED
    BY <1>1, <1>2, <1>3, <2>2
<1>5. u <= n - 1
  <2>1. SUFFICES ASSUME u >= n PROVE FALSE
    BY <1>3
  <2>2. QM * u = QM * n + QM * (u - n) /\ QM * (u - n) \in Nat
    <3>1. u - n \in Nat
      BY <1>3, <2>1
    <3> QED
      BY <1>1, <1>3, <3>1
  <2>3. QM * n \in Nat
    BY <1>1
  <2> QED
    BY <1>1, <1>2, <1>3, <2>2, <2>3
<1> QED
  BY <1>3, <1>4, <1>5 DEF u, a

LEMMA UnifIntIs ==
  ASSUME NEW r, r.lo \in Int, r.size \in Nat \ {0}, NEW x \in Residue
  PROVE  UnifInt(r, x) \in Int
<1>1. (x * r.size) \div QM \in 0..(r.size - 1)
  BY DrawInRange
<1> QED
  BY <1>1 DEF UnifInt

\* permute exchanges two places at a time, so that every member stays in one of them.
LEMMA ExchangeInjective ==
  ASSUME NEW n \in Nat, NEW a \in [1..n -> 1..n], IsInjective(a), NEW i \in 1..n, NEW j \in 1..n
  PROVE  /\ [a EXCEPT ![i] = a[j], ![j] = a[i]] \in [1..n -> 1..n]
         /\ IsInjective([a EXCEPT ![i] = a[j], ![j] = a[i]])
<1> DEFINE b == [a EXCEPT ![i] = a[j], ![j] = a[i]]
<1>1. b \in [1..n -> 1..n]
  OBVIOUS
<1>2. \A k \in 1..n : b[k] = IF k = j THEN a[i] ELSE IF k = i THEN a[j] ELSE a[k]
  OBVIOUS
<1> HIDE DEF b
<1>3. IsInjective(b)
  BY <1>1, <1>2 DEF IsInjective
<1> QED
  BY <1>1, <1>3 DEF b

LEMMA PermutedInjective ==
  ASSUME NEW r, r.size \in Nat, r.rest \in BOOLEAN,
         NEW seeds, \A i \in 1..r.size : seeds[i] \in Residue
  PROVE  Permuted(r, seeds) \in [1..r.size -> 1..r.size] /\ IsInjective(Permuted(r, seeds))
<1> DEFINE m == r.size
           X == {a \in [1..m -> 1..m] : IsInjective(a)}
           x0 == [k \in 1..m |-> k]
           first(i) == IF r.rest THEN i ELSE 1
           D(i) == first(i) + (seeds[i] * (m - first(i) + 1)) \div QM
           g == [i \in 0..(m - 1) |-> [a \in X |-> [a EXCEPT ![i + 1] = a[D(i + 1)], ![D(i + 1)] = a[i + 1]]]]
<1>1. m \in Nat /\ x0 \in X
  BY DEF IsInjective
<1>2. ASSUME NEW i \in 1..m PROVE D(i) \in 1..m
  <2> DEFINE f == first(i)
             n == m - f + 1
             x == seeds[i]
  <2>1. f \in 1..m /\ x \in Residue
    OBVIOUS
  <2> HIDE DEF f, x
  <2>2. n \in Nat \ {0}
    BY <1>1, <2>1
  <2> HIDE DEF m
  <2>3. (x * n) \div QM \in 0..(n - 1)
    <3> HIDE DEF n
    <3> QED
      BY <2>1, <2>2, DrawInRange
  <2>4. f + (x * n) \div QM \in 1..m
    BY <1>1, <2>1, <2>3
  <2> QED
    BY <2>4 DEF f, x
<1> HIDE DEF D
<1>3. StaysUpTo(g, m, X)
  <2> SUFFICES ASSUME NEW i \in 0..(m - 1), NEW a \in X PROVE g[i][a] \in X
    BY DEF StaysUpTo
  <2>1. i + 1 \in 1..m /\ D(i + 1) \in 1..m
    BY <1>1, <1>2
  <2> QED
    BY <1>1, <2>1, ExchangeInjective
<1>4. PICK f \in [0..m -> X] : f = [n \in 0..m |-> IF n = 0 THEN x0 ELSE g[n - 1][f[n - 1]]]
  <2> HIDE DEF g, X, x0, m
  <2>1. \E f \in [0..m -> X] : RecursUpTo(f, m, x0, g)
    BY <1>1, <1>3, RecursionUpTo
  <2> QED
    BY <2>1 DEF RecursUpTo
<1> DEFINE E(i) == [a \in [1..m -> 1..m] |-> [a EXCEPT ![i] = a[D(i)], ![D(i)] = a[i]]]
<1>5. ASSUME NEW n \in 0..m, n # 0 PROVE g[n - 1][f[n - 1]] = E(n)[f[n - 1]]
  <2>1. n - 1 \in 0..(m - 1) /\ n - 1 \in 0..m /\ (n - 1) + 1 = n
    BY <1>1, <1>5
  <2>2. f[n - 1] \in X
    BY <1>4, <2>1
  <2> QED
    BY <2>1, <2>2
<1> HIDE DEF E, g
<1>6. f = [n \in 0..m |-> IF n = 0 THEN x0 ELSE E(n)[f[n - 1]]]
  BY <1>4, <1>5
<1> DEFINE set == CHOOSE u : u = [n \in 0..m |-> IF n = 0 THEN x0 ELSE E(n)[u[n - 1]]]
<1>7. set = [n \in 0..m |-> IF n = 0 THEN x0 ELSE E(n)[set[n - 1]]]
  BY <1>6
<1>8. Permuted(r, seeds) = set[m]
  BY DEF Permuted, E, D
<1> HIDE DEF set, x0
<1> DEFINE S == {n \in Nat : n <= m => set[n] \in X}
<1>9. 0 \in S
  BY <1>1, <1>7
<1>10. ASSUME NEW n \in Nat, n \in S PROVE n + 1 \in S
  <2>1. SUFFICES ASSUME n + 1 <= m PROVE set[n + 1] \in X
    OBVIOUS
  <2>2. n + 1 \in 0..m /\ n + 1 \in 1..m /\ n + 1 # 0 /\ (n + 1) - 1 = n /\ n <= m
    BY <1>1, <2>1
  <2>3. set[n] \in X /\ set[n + 1] = E(n + 1)[set[n]]
    BY <1>7, <1>10, <2>2
  <2> DEFINE a == set[n]
             i == n + 1
             j == D(i)
  <2>4. j \in 1..m /\ i \in 1..m /\ a \in X /\ set[i] = [a EXCEPT ![i] = a[j], ![j] = a[i]]
    BY <1>2, <2>2, <2>3 DEF E
  <2> HIDE DEF a, i, j
  <2>5. [a EXCEPT ![i] = a[j], ![j] = a[i]] \in X
    BY <1>1, <2>4, ExchangeInjective
  <2> QED
    BY <2>4, <2>5 DEF i
<1> HIDE DEF S
<1>11. m \in S
  BY <1>1, <1>9, <1>10, Induct
<1> QED
  BY <1>1, <1>8, <1>11 DEF S

-----------------------------------------------------------------------------
\* Qgen: the table of parameters.

\* A parameter that is drawn for itself, whatever was drawn before.
Simple(r) == r.rule \in {"int", "brand", "region"}

\* What holds of the k-th parameter of n.
ProperRule(r, k, n) ==
  /\ r.rule \in {"int", "other", "brand", "region", "fraction", "permute"}
  /\ r.rule \in {"int", "other", "brand"} => r.lo \in Int /\ r.size \in Nat \ {0}
  /\ r.rule \in {"other", "region"} => k > 1
  /\ r.rule = "permute" =>
       /\ k = n /\ r.n \in 1..10 /\ k + r.n <= 11 /\ r.spare \in {0, 1}
       /\ r.size \in Nat \ {0} /\ r.spare < r.n /\ r.n <= r.size /\ r.rest \in BOOLEAN

Proper(R) ==
  /\ Len(R) \in 1..9
  /\ \A k \in 1..Len(R) : ProperRule(R[k], k, Len(R))

LEMMA ProperRules ==
  ASSUME NEW k \in 1..9, NEW n \in 1..9
  PROVE  /\ \A lo, hi \in Nat : lo <= hi => ProperRule(Num(lo, hi), k, n)
         /\ \A m \in Nat \ {0} : ProperRule(Pick(m), k, n)
         /\ \A m \in Nat \ {0} : k > 1 => ProperRule(Other(m), k, n)
         /\ ProperRule(Brand, k, n)
         /\ k > 1 => ProperRule(Region, k, n)
         /\ ProperRule(Fraction, k, n)
         /\ ProperRule(Year, k, n) /\ ProperRule(Pick(Types), k, n) /\ ProperRule(Pick(Colors), k, n)
<1>1. \A lo, hi \in Nat : lo <= hi => ProperRule(Num(lo, hi), k, n)
  <2> TAKE lo, hi \in Nat
  <2> HAVE lo <= hi
  <2>1. hi - lo + 1 \in Nat \ {0}
    OBVIOUS
  <2> QED
    BY <2>1 DEF ProperRule, Num
<1>2. \A m \in Nat \ {0} : ProperRule(Pick(m), k, n)
  BY <1>1 DEF Pick
<1> QED
  BY <1>1, <1>2 DEF ProperRule, Other, Brand, Region, Fraction, Year, Types, Colors

LEMMA ProperOf1 ==
  ASSUME NEW a,
         ProperRule(a, 1, 1)
  PROVE  Proper(<<a>>)
BY DEF Proper

LEMMA ProperOf2 ==
  ASSUME NEW a, NEW b,
         ProperRule(a, 1, 2),
         ProperRule(b, 2, 2)
  PROVE  Proper(<<a, b>>)
BY DEF Proper

LEMMA ProperOf3 ==
  ASSUME NEW a, NEW b, NEW c,
         ProperRule(a, 1, 3),
         ProperRule(b, 2, 3),
         ProperRule(c, 3, 3)
  PROVE  Proper(<<a, b, c>>)
BY DEF Proper

LEMMA ProperOf6 ==
  ASSUME NEW a, NEW b, NEW c, NEW d, NEW e, NEW f,
         ProperRule(a, 1, 6),
         ProperRule(b, 2, 6),
         ProperRule(c, 3, 6),
         ProperRule(d, 4, 6),
         ProperRule(e, 5, 6),
         ProperRule(f, 6, 6)
  PROVE  Proper(<<a, b, c, d, e, f>>)
BY DEF Proper

\* Each row of both tables.
LEMMA RulesProper ==
  /\ \A q \in 1..QUERIES : Proper(Rules[q]) /\ Proper(ToolsRules[q])
  /\ \A q \in 1..QUERIES \ {16, 22} : Len(Rules[q]) = defaults[q] /\ Len(ToolsRules[q]) = defaults[q]
<1>1. Rules[1] = <<Num(60, 120)>>
  BY DEF Rules
<1>2. Rules[2] = <<Num(1, 50), Pick(Types), Pick(5)>>
  BY DEF Rules
<1>3. Rules[3] = <<Pick(5), Num(0, 30)>>
  BY DEF Rules
<1>4. Rules[4] = <<Num(1, 58)>>
  BY DEF Rules
<1>5. Rules[5] = <<Pick(5), Year>>
  BY DEF Rules
<1>6. Rules[6] = <<Year, Num(2, 9), Num(24, 25)>>
  BY DEF Rules
<1>7. Rules[7] = <<Pick(25), Other(25)>>
  BY DEF Rules
<1>8. Rules[8] = <<Pick(25), Region, Pick(Types)>>
  BY DEF Rules
<1>9. Rules[9] = <<Pick(Colors)>>
  BY DEF Rules
<1>10. Rules[10] = <<Num(1, 24)>>
  BY DEF Rules
<1>11. Rules[11] = <<Pick(25), Fraction>>
  BY DEF Rules
<1>12. Rules[12] = <<Pick(7), Other(7), Year>>
  BY DEF Rules
<1>13. Rules[13] = <<Pick(80), Pick(160)>>
  BY DEF Rules
<1>14. Rules[14] = <<Num(1, 60)>>
  BY DEF Rules
<1>15. Rules[15] = <<Num(1, 58)>>
  BY DEF Rules
<1>16. Rules[16] = <<Brand, Pick(Types), Permute(8, 50, 0, FALSE)>>
  BY DEF Rules
<1>17. Rules[17] = <<Brand, Pick(40)>>
  BY DEF Rules
<1>18. Rules[18] = <<Num(312, 315)>>
  BY DEF Rules
<1>19. Rules[19] = <<Brand, Brand, Brand, Num(1, 10), Num(10, 20), Num(20, 30)>>
  BY DEF Rules
<1>20. Rules[20] = <<Pick(Colors), Year, Pick(25)>>
  BY DEF Rules
<1>21. Rules[21] = <<Pick(25)>>
  BY DEF Rules
<1>22. Rules[22] = <<Permute(8, 25, 1, FALSE)>>
  BY DEF Rules
<1>23. DOMAIN Rules = 1..22
  BY DEF Rules
<1> HIDE DEF Rules
<1>24. ToolsRules[14] = <<Num(0, 59)>> /\ ToolsRules[15] = <<Num(0, 57)>>
  BY <1>23 DEF ToolsRules
<1> DEFINE r16 == <<Brand, Pick(Types), Permute(8, 50, 0, TRUE)>>
           r22 == <<Permute(8, 25, 1, TRUE)>>
           r14 == <<Num(0, 59)>>
           r15 == <<Num(0, 57)>>
<1>25. ToolsRules[16] = r16 /\ ToolsRules[22] = r22
  <2>1. ToolsRules = [Rules EXCEPT ![14] = r14, ![15] = r15, ![16] = r16, ![22] = r22]
    BY DEF ToolsRules
  <2> HIDE DEF r14, r15, r16, r22
  <2> QED
    BY <1>23, <2>1
<1>26. \A q \in 1..22 \ {14, 15, 16, 22} : ToolsRules[q] = Rules[q]
  BY <1>23 DEF ToolsRules
<1>27. \A b \in BOOLEAN : /\ ProperRule(Permute(8, 50, 0, b), 3, 3)
                          /\ ProperRule(Permute(8, 25, 1, b), 1, 1)
  BY DEF ProperRule, Permute
<1> DEFINE Both(q) == Proper(Rules[q]) /\ Proper(ToolsRules[q])
<1>40. Both(1) /\ Both(4) /\ Both(9) /\ Both(10) /\ Both(18) /\ Both(21)
  BY <1>1, <1>4, <1>9, <1>10, <1>18, <1>21, <1>26, ProperRules, ProperOf1
<1>41. Both(3) /\ Both(5) /\ Both(7) /\ Both(11) /\ Both(13) /\ Both(17)
  BY <1>3, <1>5, <1>7, <1>11, <1>13, <1>17, <1>26, ProperRules, ProperOf2
<1>42. Both(2) /\ Both(6) /\ Both(8) /\ Both(12) /\ Both(20)
  BY <1>2, <1>6, <1>8, <1>12, <1>20, <1>26, ProperRules, ProperOf3
<1>43. Both(19)
  <2>1. ProperRule(Brand, 1, 6) /\ ProperRule(Brand, 2, 6) /\ ProperRule(Brand, 3, 6)
    BY ProperRules
  <2>2. ProperRule(Num(1, 10), 4, 6)
    BY ProperRules
  <2>3. ProperRule(Num(10, 20), 5, 6)
    BY ProperRules
  <2>4. ProperRule(Num(20, 30), 6, 6)
    BY ProperRules
  <2>5. Proper(<<Brand, Brand, Brand, Num(1, 10), Num(10, 20), Num(20, 30)>>)
    BY <2>1, <2>2, <2>3, <2>4, ProperOf6
  <2> QED
    BY <1>19, <1>26, <2>5
<1>44. Both(14) /\ Both(15)
  <2>1. ProperRule(Num(1, 60), 1, 1) /\ ProperRule(Num(0, 59), 1, 1)
    BY ProperRules
  <2>2. ProperRule(Num(1, 58), 1, 1) /\ ProperRule(Num(0, 57), 1, 1)
    BY ProperRules
  <2>3. Proper(<<Num(1, 60)>>) /\ Proper(<<Num(0, 59)>>)
    BY <2>1, ProperOf1
  <2>4. Proper(<<Num(1, 58)>>) /\ Proper(<<Num(0, 57)>>)
    BY <2>2, ProperOf1
  <2> QED
    BY <1>14, <1>15, <1>24, <2>3, <2>4
<1>45. Both(16)
  <2>1. ProperRule(Brand, 1, 3) /\ ProperRule(Pick(Types), 2, 3)
    BY ProperRules
  <2>2. Proper(Rules[16])
    BY <1>16, <1>27, <2>1, ProperOf3
  <2>3. Proper(r16)
    BY <1>27, <2>1, ProperOf3
  <2> QED
    BY <1>25, <2>2, <2>3
<1>46. Both(22)
  <2>1. Proper(Rules[22])
    BY <1>22, <1>27, ProperOf1
  <2>2. Proper(r22)
    BY <1>27, ProperOf1
  <2> QED
    BY <1>25, <2>1, <2>2
<1> DEFINE Length(q, n) == Len(Rules[q]) = n /\ Len(ToolsRules[q]) = n /\ defaults[q] = n
<1>47. Length(1, 1) /\ Length(4, 1) /\ Length(9, 1) /\ Length(10, 1) /\ Length(18, 1) /\ Length(21, 1)
  BY <1>1, <1>4, <1>9, <1>10, <1>18, <1>21, <1>26 DEF defaults
<1>48. Length(3, 2) /\ Length(5, 2) /\ Length(7, 2) /\ Length(11, 2) /\ Length(13, 2) /\ Length(17, 2)
  BY <1>3, <1>5, <1>7, <1>11, <1>13, <1>17, <1>26 DEF defaults
<1>49. Length(2, 3) /\ Length(6, 3) /\ Length(8, 3) /\ Length(12, 3) /\ Length(20, 3)
  BY <1>2, <1>6, <1>8, <1>12, <1>20, <1>26 DEF defaults
<1>50. Length(19, 6)
  BY <1>19, <1>26 DEF defaults
<1>51. Length(14, 1) /\ Length(15, 1)
  BY <1>14, <1>15, <1>24 DEF defaults
<1> QED
  <2> HIDE DEF Both, Length
  <2>1. \A q \in 1..22 : Both(q)
    BY <1>40, <1>41, <1>42, <1>43, <1>44, <1>45, <1>46
  <2>2. \A q \in 1..22 \ {16, 22} : \E n \in 1..10 : Length(q, n)
    BY <1>47, <1>48, <1>49, <1>50, <1>51
  <2> QED
    BY <2>1, <2>2 DEF Both, Length, QUERIES

\* The tags of a query are of parameters it has.
LEMMA TagsNamed ==
  \A q \in 1..QUERIES :
    /\ \A i \in DOMAIN Tags[q] : Tags[q][i] \in 1..defaults[q]
    /\ DOMAIN Tags[q] = 1..Len(Tags[q]) /\ Len(Tags[q]) \in Nat
<1> DEFINE Within(q, n) == /\ defaults[q] = n /\ \A i \in DOMAIN Tags[q] : Tags[q][i] \in 1..n
                          /\ DOMAIN Tags[q] = 1..Len(Tags[q]) /\ Len(Tags[q]) \in Nat
<1>1. Within(1, 1)
  <2>1. Tags[1] = <<1>>
    BY DEF Tags
  <2> QED
    BY <2>1 DEF defaults
<1>2. Within(2, 3)
  <2>1. Tags[2] = <<1, 2, 3, 3>>
    BY DEF Tags
  <2> QED
    BY <2>1 DEF defaults
<1>3. Within(3, 2)
  <2>1. Tags[3] = <<1, 2, 2>>
    BY DEF Tags
  <2> QED
    BY <2>1 DEF defaults
<1>4. Within(4, 1)
  <2>1. Tags[4] = <<1, 1>>
    BY DEF Tags
  <2> QED
    BY <2>1 DEF defaults
<1>5. Within(5, 2)
  <2>1. Tags[5] = <<1, 2, 2>>
    BY DEF Tags
  <2> QED
    BY <2>1 DEF defaults
<1>6. Within(6, 3)
  <2>1. Tags[6] = <<1, 1, 2, 2, 3>>
    BY DEF Tags
  <2> QED
    BY <2>1 DEF defaults
<1>7. Within(7, 2)
  <2>1. Tags[7] = <<1, 2, 2, 1>>
    BY DEF Tags
  <2> QED
    BY <2>1 DEF defaults
<1>8. Within(8, 3)
  <2>1. Tags[8] = <<1, 2, 3>>
    BY DEF Tags
  <2> QED
    BY <2>1 DEF defaults
<1>9. Within(9, 1)
  <2>1. Tags[9] = <<1>>
    BY DEF Tags
  <2> QED
    BY <2>1 DEF defaults
<1>10. Within(10, 1)
  <2>1. Tags[10] = <<1, 1>>
    BY DEF Tags
  <2> QED
    BY <2>1 DEF defaults
<1>11. Within(11, 2)
  <2>1. Tags[11] = <<1, 2, 1>>
    BY DEF Tags
  <2> QED
    BY <2>1 DEF defaults
<1>12. Within(12, 3)
  <2>1. Tags[12] = <<1, 2, 3, 3>>
    BY DEF Tags
  <2> QED
    BY <2>1 DEF defaults
<1>13. Within(13, 2)
  <2>1. Tags[13] = <<1, 2>>
    BY DEF Tags
  <2> QED
    BY <2>1 DEF defaults
<1>14. Within(14, 1)
  <2>1. Tags[14] = <<1, 1>>
    BY DEF Tags
  <2> QED
    BY <2>1 DEF defaults
<1>15. Within(15, 1)
  <2>1. Tags[15] = <<1, 1>>
    BY DEF Tags
  <2> QED
    BY <2>1 DEF defaults
<1>16. Within(16, 10)
  <2>1. Tags[16] = <<1, 2, 3, 4, 5, 6, 7, 8, 9, 10>>
    BY DEF Tags
  <2> QED
    BY <2>1 DEF defaults
<1>17. Within(17, 2)
  <2>1. Tags[17] = <<1, 2>>
    BY DEF Tags
  <2> QED
    BY <2>1 DEF defaults
<1>18. Within(18, 1)
  <2>1. Tags[18] = <<1>>
    BY DEF Tags
  <2> QED
    BY <2>1 DEF defaults
<1>19. Within(19, 6)
  <2>1. Tags[19] = <<1, 4, 4, 2, 5, 5, 3, 6, 6>>
    BY DEF Tags
  <2> QED
    BY <2>1 DEF defaults
<1>20. Within(20, 3)
  <2>1. Tags[20] = <<1, 2, 2, 3>>
    BY DEF Tags
  <2> QED
    BY <2>1 DEF defaults
<1>21. Within(21, 1)
  <2>1. Tags[21] = <<>>
    BY DEF Tags
  <2> QED
    BY <2>1 DEF defaults
<1>22. Within(22, 7)
  <2>1. Tags[22] = <<1, 2, 3, 4, 5, 6, 7, 1, 2, 3, 4, 5, 6, 7>>
    BY DEF Tags
  <2> QED
    BY <2>1 DEF defaults
<1> QED
  <2> HIDE DEF Within
  <2>1. \A q \in 1..22 : \E n \in 1..10 : Within(q, n)
    BY <1>1, <1>2, <1>3, <1>4, <1>5, <1>6, <1>7, <1>8, <1>9, <1>10, <1>11, <1>12, <1>13, <1>14,
       <1>15, <1>16, <1>17, <1>18, <1>19, <1>20, <1>21, <1>22
  <2> QED
    BY <2>1 DEF Within, QUERIES

\* The parameters that are compared.
Eight(r, spare) == r.rule = "permute" /\ r.n = 8 /\ r.spare = spare

LEMMA RowsCompared ==
  /\ Rules[7][2].rule = "other" /\ ToolsRules[7][2].rule = "other"
  /\ Rules[12][2].rule = "other" /\ ToolsRules[12][2].rule = "other"
  /\ Len(Rules[16]) = 3 /\ Eight(Rules[16][3], 0) /\ Len(Rules[22]) = 1 /\ Eight(Rules[22][1], 1)
  /\ Len(ToolsRules[16]) = 3 /\ Eight(ToolsRules[16][3], 0)
  /\ Len(ToolsRules[22]) = 1 /\ Eight(ToolsRules[22][1], 1)
<1>1. /\ Rules[7] = <<Pick(25), Other(25)>> /\ Rules[12] = <<Pick(7), Other(7), Year>>
      /\ Rules[16] = <<Brand, Pick(Types), Permute(8, 50, 0, FALSE)>>
      /\ Rules[22] = <<Permute(8, 25, 1, FALSE)>> /\ DOMAIN Rules = 1..22
  <2>1. Rules[7] = <<Pick(25), Other(25)>>
    BY DEF Rules
  <2>2. Rules[12] = <<Pick(7), Other(7), Year>>
    BY DEF Rules
  <2>3. Rules[16] = <<Brand, Pick(Types), Permute(8, 50, 0, FALSE)>>
    BY DEF Rules
  <2>4. Rules[22] = <<Permute(8, 25, 1, FALSE)>>
    BY DEF Rules
  <2>5. DOMAIN Rules = 1..22
    BY DEF Rules
  <2> QED
    BY <2>1, <2>2, <2>3, <2>4, <2>5
<1> DEFINE r16 == <<Brand, Pick(Types), Permute(8, 50, 0, TRUE)>>
           r22 == <<Permute(8, 25, 1, TRUE)>>
           r14 == <<Num(0, 59)>>
           r15 == <<Num(0, 57)>>
<1> HIDE DEF Rules
<1>2. /\ ToolsRules[16] = r16 /\ ToolsRules[22] = r22
      /\ ToolsRules[7] = Rules[7] /\ ToolsRules[12] = Rules[12]
  <2>1. ToolsRules = [Rules EXCEPT ![14] = r14, ![15] = r15, ![16] = r16, ![22] = r22]
    BY DEF ToolsRules
  <2> HIDE DEF r14, r15, r16, r22
  <2> QED
    BY <1>1, <2>1
<1>3. \A b \in BOOLEAN : Eight(Permute(8, 50, 0, b), 0) /\ Eight(Permute(8, 25, 1, b), 1)
  BY DEF Eight, Permute
<1>4. Other(25).rule = "other" /\ Other(7).rule = "other"
  BY DEF Other
<1>5. Rules[7][2] = Other(25) /\ Rules[12][2] = Other(7)
  BY <1>1
<1>6. /\ Len(Rules[16]) = 3 /\ Rules[16][3] = Permute(8, 50, 0, FALSE)
      /\ Len(r16) = 3 /\ r16[3] = Permute(8, 50, 0, TRUE)
  BY <1>1
<1>7. /\ Len(Rules[22]) = 1 /\ Rules[22][1] = Permute(8, 25, 1, FALSE)
      /\ Len(r22) = 1 /\ r22[1] = Permute(8, 25, 1, TRUE)
  BY <1>1
<1> HIDE DEF r16, r22
<1>8. Rules[7][2].rule = "other" /\ Rules[12][2].rule = "other"
  BY <1>4, <1>5
<1>9. /\ Eight(Rules[16][3], 0) /\ Eight(Rules[22][1], 1)
      /\ Eight(r16[3], 0) /\ Eight(r22[1], 1)
  BY <1>3, <1>6, <1>7
<1> QED
  BY <1>2, <1>6, <1>7, <1>8, <1>9

\* A row of either table.
Row(newer_, q) == IF newer_ THEN ToolsRules[q] ELSE Rules[q]

LEMMA RowsAre ==
  ASSUME NEW q \in 1..QUERIES, NEW newer_ \in BOOLEAN
  PROVE  /\ Proper(Row(newer_, q))
         /\ q \notin {16, 22} => Len(Row(newer_, q)) = defaults[q]
         /\ q \in {7, 12} => Row(newer_, q)[2].rule = "other"
         /\ q = 16 => Len(Row(newer_, q)) = 3 /\ Eight(Row(newer_, q)[3], 0)
         /\ q = 22 => Len(Row(newer_, q)) = 1 /\ Eight(Row(newer_, q)[1], 1)
BY RulesProper, RowsCompared DEF Row

LEMMA DrawsAre ==
  ASSUME NEW r, NEW k, NEW n, ProperRule(r, k, n)
  PROVE  Draws(r) \in Nat
BY DEF Draws, ProperRule

\* DrawsBefore for a row.
DrawnIn(R, k) ==
  LET f[j \in 0..Len(R)] == IF j = 0 THEN 0 ELSE f[j - 1] + Draws(R[j]) IN f[k - 1]

LEMMA DrawnInIs ==
  ASSUME NEW R, Proper(R)
  PROVE  /\ DrawnIn(R, 1) = 0
         /\ \A k \in 1..Len(R) :
              /\ DrawnIn(R, k) \in Nat
              /\ DrawnIn(R, k + 1) = DrawnIn(R, k) + Draws(R[k])
<1> DEFINE m == Len(R)
           X == Nat
           x0 == 0
           g == [i \in 0..(m - 1) |-> [x \in X |-> x + Draws(R[i + 1])]]
<1>1. m \in Nat /\ \A i \in 1..m : Draws(R[i]) \in Nat
  BY DrawsAre DEF Proper
<1> HIDE DEF m
<1>2. StaysUpTo(g, m, X) /\ x0 \in X
  <2> SUFFICES ASSUME NEW i \in 0..(m - 1), NEW x \in X PROVE g[i][x] \in X
    BY DEF StaysUpTo
  <2>1. i + 1 \in 1..m
    BY <1>1
  <2> QED
    BY <1>1, <2>1
<1>3. PICK e \in [0..m -> X] : e = [j \in 0..m |-> IF j = 0 THEN x0 ELSE g[j - 1][e[j - 1]]]
  <2> HIDE DEF g, X, x0
  <2>1. \E e \in [0..m -> X] : RecursUpTo(e, m, x0, g)
    BY <1>1, <1>2, RecursionUpTo
  <2> QED
    BY <2>1 DEF RecursUpTo
<1>4. ASSUME NEW j \in 0..m, j # 0 PROVE g[j - 1][e[j - 1]] = e[j - 1] + Draws(R[j])
  <2>1. j - 1 \in 0..(m - 1) /\ j - 1 \in 0..m /\ (j - 1) + 1 = j
    BY <1>1, <1>4
  <2>2. e[j - 1] \in X
    BY <1>3, <2>1
  <2> QED
    BY <2>1, <2>2
<1> HIDE DEF g
<1>5. e = [j \in 0..m |-> IF j = 0 THEN 0 ELSE e[j - 1] + Draws(R[j])]
  BY <1>3, <1>4
<1> DEFINE f == CHOOSE u : u = [j \in 0..m |-> IF j = 0 THEN 0 ELSE u[j - 1] + Draws(R[j])]
<1>6. f = [j \in 0..m |-> IF j = 0 THEN 0 ELSE f[j - 1] + Draws(R[j])]
  BY <1>5
<1>7. \A k \in Int : DrawnIn(R, k) = f[k - 1]
  BY DEF DrawnIn, m
<1> HIDE DEF f
<1>8. f[0] = 0
  BY <1>1, <1>6
<1>9. \A k \in 1..m : f[k] = f[k - 1] + Draws(R[k])
  <2> TAKE k \in 1..m
  <2>1. k \in 0..m /\ k # 0
    BY <1>1
  <2> QED
    BY <1>6, <2>1
<1> DEFINE S == {i \in Nat : i <= m => f[i] \in Nat}
<1>10. 0 \in S
  BY <1>8
<1>11. ASSUME NEW i \in Nat, i \in S PROVE i + 1 \in S
  <2>1. SUFFICES ASSUME i + 1 <= m PROVE f[i + 1] \in Nat
    OBVIOUS
  <2>2. i + 1 \in 1..m /\ (i + 1) - 1 = i /\ i <= m
    BY <1>1, <2>1
  <2> QED
    BY <1>1, <1>9, <1>11, <2>2
<1> HIDE DEF S
<1>12. Nat \subseteq S
  BY <1>10, <1>11, Induct
<1>13. \A i \in 0..m : f[i] \in Nat
  BY <1>12 DEF S
<1>14. \A k \in 1..m : k - 1 \in 0..m /\ (k + 1) - 1 = k /\ k + 1 \in Int /\ k \in Int
  BY <1>1
<1>15. \A k \in 1..m : DrawnIn(R, k) \in Nat /\ DrawnIn(R, k + 1) = DrawnIn(R, k) + Draws(R[k])
  BY <1>7, <1>9, <1>13, <1>14
<1>16. DrawnIn(R, 1) = 0
  BY <1>7, <1>8
<1> QED
  BY <1>15, <1>16 DEF m

-----------------------------------------------------------------------------
\* Qgen: what the array of parameters holds.

Arrays == [1..10 -> Seq(Int)]

\* No parameter before the k-th one depends on a draw that is repeated or on a permutation.
Sole(R, k) == \A j \in 1..k : Simple(R[j])

\* What the k-th rule has made: something, and different from what it is compared with.
Made(a, R, k) ==
  IF R[k].rule = "permute"
  THEN /\ \A j \in k..(k + R[k].n - R[k].spare - 1) : a[j] # Empty
       /\ \A i, j \in k..(k + R[k].n - R[k].spare - 1) : a[i] = a[j] => i = j
  ELSE /\ a[k] # Empty
       /\ R[k].rule = "other" => a[k] # a[k - 1]

\* ... from the numbers that query q gets with seed s.
Exact(a, R, q, s, k) ==
  R[k].rule = "int" /\ Sole(R, k) =>
    a[k] = <<UnifInt(R[k], NthNumber(s, q + (DrawnIn(R, k) + 1)))>>

\* Later parameters leave earlier ones alone.
LEMMA MadeStays ==
  ASSUME NEW a, NEW b, NEW R, Proper(R), NEW n \in 1..(Len(R) + 1), NEW q, NEW s,
         n = Len(R) + 1 => R[Len(R)].rule # "permute",
         \A j \in 1..(n - 1) : a[j] = b[j],
         NEW k \in 1..(n - 1), Made(a, R, k), Exact(a, R, q, s, k)
  PROVE  Made(b, R, k) /\ Exact(b, R, q, s, k)
<1>1. Len(R) \in 1..9 /\ k \in 1..Len(R) /\ ProperRule(R[k], k, Len(R)) /\ a[k] = b[k]
  BY DEF Proper
<1>2. R[k].rule # "permute"
  BY <1>1 DEF ProperRule
<1>3. R[k].rule = "other" => a[k - 1] = b[k - 1]
  BY <1>1 DEF ProperRule
<1> QED
  BY <1>1, <1>2, <1>3 DEF Made, Exact

LEMMA Constants == Empty = <<>> /\ Empty \in Seq(Int) /\ Constant \in Seq(Int) /\ Constant # Empty
BY DEF Empty, Constant

LEMMA ProperAt ==
  ASSUME NEW R, Proper(R), NEW k \in 1..Len(R)
  PROVE  /\ k \in 1..9 /\ k <= Len(R) /\ Len(R) \in 1..9
         /\ ProperRule(R[k], k, Len(R))
<1>1. Len(R) \in 1..9
  BY DEF Proper
<1>2. ProperRule(R[k], k, Len(R))
  BY DEF Proper
<1> QED
  BY <1>1, <1>2

\* varsub: one parameter that is not permuted,
LEMMA OneWritten ==
  ASSUME param \in Arrays, NEW R, NEW k \in 1..9, R[k].rule # "permute",
         NEW t \in Seq(Int), t # <<>>, NEW a, a = [param EXCEPT ![k] = t]
  PROVE  /\ a \in Arrays
         /\ \A j \in 1..(k - 1) : a[j] = param[j]
         /\ (R[k].rule = "other" => a[k] # a[k - 1]) => Made(a, R, k)
<1>1. param \in [1..10 -> Seq(Int)] /\ k \in 1..10
  BY DEF Arrays
<1>2. a \in Arrays
  BY <1>1 DEF Arrays
<1>3. a[k] = t
  BY <1>1
<1>4. \A j \in 1..(k - 1) : a[j] = param[j]
  BY <1>1
<1>5. (R[k].rule = "other" => a[k] # a[k - 1]) => Made(a, R, k)
  BY <1>3 DEF Made, Empty
<1> QED
  BY <1>2, <1>4, <1>5

\* ... and the members of a permuted array.
PermutedFrom(a, k, n, spare, set) ==
  \A j \in 1..10 : a[j] = IF j \notin k..(k + n - 1) THEN param[j]
                          ELSE IF j >= k + n - spare THEN Empty
                          ELSE <<set[j - k + 1]>>

PermutedInto(a, k, n, spare) ==
  /\ \A j \in 1..10 : a[j] \in Seq(Int)
  /\ \A j \in 1..(k - 1) : a[j] = param[j]
  /\ \A j \in k..(k + n - spare - 1) : a[j] # Empty
  /\ \A i, j \in k..(k + n - spare - 1) : a[i] = a[j] => i = j

LEMMA PermutedWritten ==
  ASSUME param \in Arrays, NEW k \in 1..9, NEW n \in 1..10, NEW m \in Nat, n <= m,
         k + n <= 11, NEW spare \in {0, 1}, spare < n,
         NEW set \in [1..m -> 1..m], IsInjective(set),
         NEW a, PermutedFrom(a, k, n, spare, set)
  PROVE  PermutedInto(a, k, n, spare)
<1> DEFINE last == k + n - spare - 1
<1>1. param \in [1..10 -> Seq(Int)]
  BY DEF Arrays
<1>2. \A j \in k..last : /\ j - k + 1 \in 1..m /\ j \in k..(k + n - 1) /\ j \in 1..10
                         /\ ~(j >= k + n - spare)
  OBVIOUS
<1>3. \A j \in k..last : a[j] = <<set[j - k + 1]>>
  BY <1>2 DEF PermutedFrom
<1>4. \A j \in k..last : a[j] # Empty
  <2> TAKE j \in k..last
  <2>1. a[j] = <<set[j - k + 1]>>
    BY <1>3
  <2> QED
    BY <2>1 DEF Empty
<1>5. \A i, j \in k..last : a[i] = a[j] => i = j
  <2> TAKE i, j \in k..last
  <2> HAVE a[i] = a[j]
  <2> DEFINE x == set[i - k + 1]
             y == set[j - k + 1]
  <2>1. x = y
    <3>1. <<x>> = <<y>>
      BY <1>3
    <3> HIDE DEF x, y
    <3> QED
      BY <3>1
  <2>2. i - k + 1 = j - k + 1
    BY <1>2, <2>1 DEF IsInjective
  <2> QED
    BY <2>2
<1>6. ASSUME NEW j \in 1..10 PROVE a[j] \in Seq(Int)
  <2>1. CASE j \notin k..(k + n - 1)
    BY <1>1, <2>1 DEF PermutedFrom
  <2>2. CASE j \in k..(k + n - 1) /\ j >= k + n - spare
    <3>1. a[j] = Empty
      BY <2>2 DEF PermutedFrom
    <3> QED
      BY <3>1, Constants
  <2>3. CASE j \in k..(k + n - 1) /\ ~(j >= k + n - spare)
    <3>1. j \in k..last
      BY <2>3
    <3> DEFINE x == set[j - k + 1]
    <3>2. x \in Int
      BY <1>2, <3>1
    <3>3. a[j] = <<x>>
      BY <1>3, <3>1
    <3> HIDE DEF x
    <3> QED
      BY <3>2, <3>3
  <2> QED
    BY <2>1, <2>2, <2>3
<1>7. ASSUME NEW j \in 1..(k - 1) PROVE a[j] = param[j]
  <2>1. j \in 1..10 /\ j \notin k..(k + n - 1)
    OBVIOUS
  <2> QED
    BY <2>1 DEF PermutedFrom
<1> QED
  BY <1>4, <1>5, <1>6, <1>7 DEF PermutedInto

\* A number is drawn for each draw of a rule,
NumbersFor(r, d) == \A i \in 1..Draws(r) : d[i] \in Residue

\* ... and this is what the k-th rule makes of them.
WrittenWell(a, R, k, d) ==
  /\ a \in Arrays
  /\ \A j \in 1..(k - 1) : a[j] = param[j]
  /\ (R[k].rule = "other" => a[k] # a[k - 1]) => Made(a, R, k)
  /\ R[k].rule = "int" => a[k] = <<UnifInt(R[k], d[1])>>

LEMMA WrittenIs ==
  ASSUME param \in Arrays, NEW R, Proper(R), NEW k \in 1..Len(R),
         NEW d, NumbersFor(R[k], d),
         NEW a, a = Written(R[k], k, d)
  PROVE  WrittenWell(a, R, k, d)
<1> SUFFICES /\ a \in Arrays
             /\ \A j \in 1..(k - 1) : a[j] = param[j]
             /\ (R[k].rule = "other" => a[k] # a[k - 1]) => Made(a, R, k)
             /\ R[k].rule = "int" => a[k] = <<UnifInt(R[k], d[1])>>
  BY DEF WrittenWell
<1> DEFINE r == R[k]
<1>1. k \in 1..9 /\ k <= Len(R) /\ Len(R) \in 1..9 /\ ProperRule(r, k, Len(R))
  BY ProperAt
<1>2. \A i \in 1..Draws(r) : d[i] \in Residue
  BY DEF NumbersFor
<1>3. a = Written(r, k, d)
  OBVIOUS
<1> DEFINE Goal == /\ a \in Arrays
                   /\ \A j \in 1..(k - 1) : a[j] = param[j]
                   /\ (R[k].rule = "other" => a[k] # a[k - 1]) => Made(a, R, k)
<1>4. CASE r.rule \in {"int", "other"}
  <2>1. Draws(r) = 1
    BY <1>4 DEF Draws
  <2> DEFINE t == <<UnifInt(r, d[1])>>
  <2>2. t \in Seq(Int) /\ t # <<>>
    <3>1. UnifInt(r, d[1]) \in Int
      BY <1>1, <1>2, <1>4, <2>1, UnifIntIs DEF ProperRule
    <3> QED
      BY <3>1
  <2>3. a = [param EXCEPT ![k] = t]
    BY <1>3, <1>4 DEF Written
  <2> HIDE DEF t
  <2>4. Goal
    BY <1>1, <1>3, <1>4, <2>2, <2>3, OneWritten
  <2>5. a[k] = t
    BY <1>1, <2>3 DEF Arrays
  <2> QED
    BY <2>4, <2>5 DEF t
<1>5. CASE r.rule = "brand"
  <2>1. Draws(r) = 2
    BY <1>5 DEF Draws
  <2> DEFINE t == <<UnifInt(r, d[1]), UnifInt(r, d[2])>>
  <2>2. t \in Seq(Int) /\ t # <<>>
    <3>1. UnifInt(r, d[1]) \in Int /\ UnifInt(r, d[2]) \in Int
      BY <1>1, <1>2, <1>5, <2>1, UnifIntIs DEF ProperRule
    <3> QED
      BY <3>1
  <2>3. a = [param EXCEPT ![k] = t]
    BY <1>3, <1>5 DEF Written
  <2> HIDE DEF t
  <2>4. Goal
    BY <1>1, <1>3, <1>5, <2>2, <2>3, OneWritten
  <2> QED
    BY <1>5, <2>4
<1>6. CASE r.rule = "region"
  <2> DEFINE t == RegionOf(param[k - 1])
  <2>1. t \in Seq(Int) /\ t # <<>>
    <3> DEFINE s == param[k - 1]
    <3>1. s \in Seq(Int)
      <4>1. k - 1 \in 1..10
        BY <1>1, <1>6 DEF ProperRule
      <4> QED
        BY <4>1 DEF Arrays
    <3> HIDE DEF s
    <3>2. <<0>> \in Seq(Int) /\ Len(<<0>>) = 1
      OBVIOUS
    <3>3. s \o <<0>> \in Seq(Int) /\ Len(s \o <<0>>) = Len(s) + 1 /\ Len(s) \in Nat
      BY <3>1, <3>2
    <3>4. s \o <<0>> # <<>>
      BY <3>3
    <3> QED
      BY <3>3, <3>4 DEF RegionOf, s
  <2>2. a = [param EXCEPT ![k] = t]
    BY <1>3, <1>6 DEF Written
  <2> HIDE DEF t
  <2>3. Goal
    BY <1>1, <1>3, <1>6, <2>1, <2>2, OneWritten
  <2> QED
    BY <1>6, <2>3
<1>7. CASE r.rule = "fraction"
  <2>1. a = [param EXCEPT ![k] = Constant]
    BY <1>3, <1>7 DEF Written
  <2>2. Goal
    BY <1>1, <1>3, <1>7, <2>1, Constants, OneWritten
  <2> QED
    BY <1>7, <2>2
<1>8. CASE r.rule = "permute"
  <2> DEFINE set == Permuted(r, d)
             m == r.size
             n == r.n
             spare == r.spare
  <2>1. /\ m \in Nat \ {0} /\ n \in 1..10 /\ n <= m /\ spare \in {0, 1} /\ spare < n
        /\ k + n <= 11 /\ r.rest \in BOOLEAN
    BY <1>1, <1>8 DEF ProperRule
  <2>2. Draws(r) = m
    BY <1>8 DEF Draws
  <2>3. set \in [1..m -> 1..m] /\ IsInjective(set)
    BY <1>2, <2>1, <2>2, PermutedInjective
  <2>4. a = [j \in 1..10 |-> IF j \notin k..(k + n - 1) THEN param[j]
                             ELSE IF j >= k + n - spare THEN Empty
                             ELSE <<set[j - k + 1]>>]
    BY <1>3, <1>8 DEF Written
  <2>5. PermutedInto(a, k, n, spare)
    <3>1. PermutedFrom(a, k, n, spare, set)
      BY <2>4 DEF PermutedFrom
    <3>2. /\ k \in 1..9 /\ n \in 1..10 /\ m \in Nat /\ n <= m /\ k + n <= 11
          /\ spare \in {0, 1} /\ spare < n
      BY <1>1, <2>1
    <3> HIDE DEF set, m, n, spare, r
    <3>3. param \in Arrays
      OBVIOUS
    <3> QED
      BY <2>3, <3>1, <3>2, <3>3, PermutedWritten
  <2>6. Made(a, R, k)
    BY <1>8, <2>5 DEF Made, PermutedInto
  <2>7. a \in Arrays
    BY <2>4, <2>5 DEF Arrays, PermutedInto
  <2> QED
    BY <1>8, <2>5, <2>6, <2>7 DEF PermutedInto
<1>9. r.rule \in {"int", "other", "brand", "region", "fraction", "permute"}
  BY <1>1 DEF ProperRule
<1> HIDE DEF r
<1> QED
  BY <1>4, <1>5, <1>6, <1>7, <1>8, <1>9 DEF r

LEMMA SeqIs ==
  ASSUME NEW X, NEW s \in Seq(X)
  PROVE  /\ Len(s) \in Nat /\ DOMAIN s = 1..Len(s) /\ \A i \in 1..Len(s) : s[i] \in X
         /\ s # <<>> => Len(s) \in Nat \ {0} /\ Head(s) = s[1] /\ Head(s) \in X
<1>1. Len(s) \in Nat /\ DOMAIN s = 1..Len(s) /\ \A i \in 1..Len(s) : s[i] \in X
  OBVIOUS
<1>2. s # <<>> => Len(s) \in Nat \ {0} /\ Head(s) = s[1]
  OBVIOUS
<1> QED
  BY <1>1, <1>2

LEMMA SeqFrom ==
  ASSUME NEW X, NEW n \in Nat, NEW t \in [1..n -> X]
  PROVE  t \in Seq(X) /\ Len(t) = n /\ DOMAIN t = 1..n
OBVIOUS

\* What is written where a parameter stands in a template.
Value(q, d, a, k) ==
  IF ~d THEN a[k] ELSE IF k <= defaults[q] THEN Constant ELSE Empty

\* The parameters made so far for the query in work, and its stream.
MadeSoFar(a, R, q, s, n) ==
  /\ n \in 1..(Len(R) + 1)
  /\ \A k \in 1..(n - 1) : Made(a, R, k) /\ Exact(a, R, q, s, k)
StreamAt(seed, R, q, s, n) ==
  n <= Len(R) /\ Sole(R, n) => seed[q] = NthNumber(s, q + DrawnIn(R, n))
\* The streams of the queries to come have not been used.
OthersUntouched(seed, queries, s) ==
  \A i \in 2..Len(queries) : seed[queries[i]] = NthNumber(s, queries[i])

\* qgen's state,
QTypes ==
  /\ qgen_pc \in {"main", "varsub", "qsub", "end"}
  /\ newer_qgen \in BOOLEAN /\ default \in BOOLEAN /\ rndm \in Residue
  /\ Seed \in [1..QUERIES -> Residue]
  /\ param \in Arrays
  /\ todo \in Seq(1..QUERIES) /\ IsInjective(todo)
  /\ rule \in Nat /\ at_tag \in Nat \ {0}
  /\ qgen_pc = "main" => rule = 1
  /\ qgen_pc \in {"varsub", "qsub"} => todo # <<>>

\* The rules of the query in work.
AtRow == Row(newer_qgen, qnum)

\* ... and what holds in all of its states: the streams of the queries to come are as the seed
\* left them, that of the query in work has given the numbers of the rules before, and those
\* rules have made their parameters; what the template got is what they made.
QInv ==
  /\ QTypes
  /\ qgen_pc \in {"main", "varsub"} => asked = {}
  /\ qgen_pc \in {"varsub", "qsub"} /\ ~default =>
       /\ OthersUntouched(Seed, todo, rndm)
       /\ MadeSoFar(param, AtRow, qnum, rndm, rule)
  /\ qgen_pc = "varsub" /\ ~default => StreamAt(Seed, AtRow, qnum, rndm, rule)
  /\ qgen_pc = "qsub" /\ ~default => rule = Len(AtRow) + 1
  /\ qgen_pc = "qsub" =>
       \A p \in asked : \E i \in DOMAIN Tags[qnum] :
         p = <<Tags[qnum][i], Value(qnum, default, param, Tags[qnum][i])>>

LEMMA QnumIs ==
  ASSUME QTypes, qgen_pc \in {"varsub", "qsub"}
  PROVE  /\ qnum \in 1..QUERIES /\ qnum = todo[1] /\ Len(todo) \in Nat \ {0}
         /\ RulesOf(qnum) = AtRow /\ Proper(AtRow)
<1>1. todo \in Seq(1..QUERIES) /\ todo # <<>> /\ newer_qgen \in BOOLEAN
  BY DEF QTypes
<1>2. qnum = todo[1] /\ Len(todo) \in Nat \ {0} /\ qnum \in 1..QUERIES
  BY <1>1, SeqIs DEF qnum
<1>3. RulesOf(qnum) = AtRow
  BY DEF RulesOf, AtRow, Row
<1>4. Proper(AtRow)
  BY <1>1, <1>2, RowsAre DEF AtRow
<1> QED
  BY <1>2, <1>3, <1>4

LEMMA QInitInv == QgenInit => QInv
<1> SUFFICES ASSUME QgenInit PROVE QInv
  OBVIOUS
<1>1. param \in Arrays
  BY Constants DEF QgenInit, Arrays
<1>2. Seed \in [1..QUERIES -> Residue] /\ rndm \in Residue
  BY QConstants DEF QgenInit, Residue
<1>3. todo \in Seq(1..QUERIES) /\ IsInjective(todo)
  <2>1. todo = <<>> /\ Len(todo) = 0
    BY DEF QgenInit
  <2>2. todo \in Seq(1..QUERIES) /\ DOMAIN todo = {}
    BY <2>1
  <2> QED
    BY <2>2 DEF IsInjective
<1>4. QTypes
  <2>1. /\ qgen_pc = "main" /\ rule = 1 /\ at_tag = 1
        /\ newer_qgen \in BOOLEAN /\ default \in BOOLEAN
    BY DEF QgenInit
  <2> QED
    BY <1>1, <1>2, <1>3, <2>1 DEF QTypes
<1> QED
  BY <1>4 DEF QgenInit, QInv

\* The queries to make are different ones.
LEMMA QueriesAre ==
  ASSUME NEW s \in Snums, NEW args \in QueryArgs, NEW t, t = Queries(s, args)
  PROVE  t \in Seq(1..QUERIES) /\ IsInjective(t) /\ t # <<>>
<1> DEFINE queries == IF args = <<>> THEN [i \in 1..QUERIES |-> i] ELSE args
           n == Len(queries)
<1>1. queries \in Seq(1..QUERIES) /\ IsInjective(queries) /\ n \in Nat \ {0}
  <2>1. args \in Seq(1..QUERIES) /\ IsInjective(args)
    BY QgenAssumption
  <2>2. CASE args = <<>>
    <3>1. queries = [i \in 1..QUERIES |-> i] /\ QUERIES \in Nat \ {0}
      BY <2>2 DEF QUERIES
    <3> HIDE DEF queries
    <3>2. queries \in [1..QUERIES -> 1..QUERIES]
      BY <3>1
    <3>3. queries \in Seq(1..QUERIES) /\ Len(queries) = QUERIES
      BY <3>1, <3>2, SeqFrom
    <3>4. IsInjective(queries)
      BY <3>1 DEF IsInjective
    <3> QED
      BY <3>1, <3>3, <3>4
  <2>3. CASE args # <<>>
    <3>1. queries = args
      BY <2>3
    <3> QED
      BY <2>1, <2>3, <3>1, SeqIs
  <2> QED
    BY <2>2, <2>3
<1>2. s # -1 => Permutation[s] \in [1..QUERIES -> 1..QUERIES] /\ IsInjective(Permutation[s])
  BY QgenAssumption
<1>3. t = [i \in DOMAIN queries |-> IF s = -1 THEN queries[i] ELSE Permutation[s][queries[i]]]
  BY DEF Queries
<1> HIDE DEF queries
<1>4. DOMAIN queries = 1..n /\ \A i \in 1..n : queries[i] \in 1..QUERIES
  BY <1>1, SeqIs
<1> HIDE DEF n
<1>5. \A i \in 1..n : t[i] \in 1..QUERIES
  BY <1>2, <1>3, <1>4
<1>6. t \in Seq(1..QUERIES) /\ Len(t) = n /\ DOMAIN t = 1..n
  <2>1. t \in [1..n -> 1..QUERIES]
    BY <1>3, <1>4, <1>5
  <2>2. n \in Nat
    BY <1>1
  <2> QED
    BY <2>1, <2>2, SeqFrom
<1>7. IsInjective(t)
  <2> SUFFICES ASSUME NEW i \in 1..n, NEW j \in 1..n, t[i] = t[j] PROVE i = j
    BY <1>6 DEF IsInjective
  <2> DEFINE x == queries[i]
             y == queries[j]
  <2>1. x \in 1..QUERIES /\ y \in 1..QUERIES
    BY <1>4
  <2>2. /\ t[i] = IF s = -1 THEN x ELSE Permutation[s][x]
        /\ t[j] = IF s = -1 THEN y ELSE Permutation[s][y]
    BY <1>3, <1>4
  <2> HIDE DEF x, y
  <2>3. x = y
    BY <1>2, <2>1, <2>2 DEF IsInjective
  <2> QED
    BY <1>1, <1>4, <2>3 DEF IsInjective, x, y
<1> QED
  BY <1>1, <1>6, <1>7, SeqIs

LEMMA StepsZero ==
  ASSUME NEW x \in Residue
  PROVE  \A n \in Nat : Steps(n, x) = NthNumber(x, n) /\ Steps(n, x) \in Residue
<1> TAKE n \in Nat
<1>1. NthNumber(x, 0) = x /\ NthNumber(x, n) \in Residue
  BY NumberIs
<1>2. Steps(n, NthNumber(x, 0)) = NthNumber(x, 0 + n)
  BY StepsAre
<1> QED
  BY <1>1, <1>2

LEMMA SetupStep == ASSUME QInv, Setup PROVE QInv'
<1>1. /\ newer_qgen' \in BOOLEAN /\ default' \in BOOLEAN /\ rndm' \in Residue
      /\ qgen_pc' = "varsub" /\ asked' = {} /\ rule' = 1 /\ param' = param /\ at_tag' = at_tag
  BY QgenAssumption DEF Setup, process_options, QInv, QTypes, Residue
<1>2. todo' \in Seq(1..QUERIES) /\ IsInjective(todo') /\ todo' # <<>>
  <2>1. PICK s \in Snums, args \in QueryArgs : todo' = Queries(s, args)
    BY DEF Setup
  <2> QED
    BY <2>1, QueriesAre
<1>3. Seed' \in [1..QUERIES -> Residue]
      /\ (~default' => \A q \in 1..QUERIES : Seed'[q] = NthNumber(rndm', q))
  <2>1. CASE default'
    BY <2>1 DEF Setup, QInv, QTypes
  <2>2. CASE ~default'
    <3>1. Seed' = [q \in 1..QUERIES |-> Steps(q, rndm')]
      BY <2>2 DEF Setup
    <3>2. \A q \in 1..QUERIES : Steps(q, rndm') = NthNumber(rndm', q) /\ Steps(q, rndm') \in Residue
      BY <1>1, StepsZero DEF QUERIES
    <3> QED
      BY <3>1, <3>2
  <2> QED
    BY <2>1, <2>2
<1>4. QTypes'
  BY <1>1, <1>2, <1>3 DEF QInv, QTypes
<1>5. ASSUME ~default'
      PROVE  /\ OthersUntouched(Seed, todo, rndm)'
             /\ MadeSoFar(param, AtRow, qnum, rndm, rule)'
             /\ StreamAt(Seed, AtRow, qnum, rndm, rule)'
  <2> DEFINE R == AtRow'
             q == qnum'
  <2>1. q = todo'[1] /\ q \in 1..QUERIES
    BY <1>2, SeqIs DEF qnum
  <2>2. R = Row(newer_qgen', q)
    BY DEF AtRow, Row
  <2>3. Proper(R)
    BY <1>1, <2>1, <2>2, RowsAre
  <2>4. OthersUntouched(Seed, todo, rndm)'
    <3>1. \A i \in 2..Len(todo') : todo'[i] \in 1..QUERIES
      <4>1. Len(todo') \in Nat /\ \A i \in 1..Len(todo') : todo'[i] \in 1..QUERIES
        BY <1>2, SeqIs
      <4> QED
        BY <4>1
    <3>2. OthersUntouched(Seed', todo', rndm')
      BY <1>3, <1>5, <3>1 DEF OthersUntouched
    <3> QED
      BY <3>2 DEF OthersUntouched
  <2> HIDE DEF R, q
  <2>5. MadeSoFar(param', R, q, rndm', rule')
    <3>1. Len(R) \in 1..9
      BY <2>3 DEF Proper
    <3> QED
      BY <1>1, <3>1 DEF MadeSoFar
  <2>6. StreamAt(Seed', R, q, rndm', rule')
    <3>1. DrawnIn(R, 1) = 0 /\ q + 0 = q
      BY <2>1, <2>3, DrawnInIs DEF QUERIES
    <3>2. Seed'[q] = NthNumber(rndm', q)
      BY <1>3, <1>5, <2>1
    <3> QED
      BY <1>1, <3>1, <3>2 DEF StreamAt
  <2>7. MadeSoFar(param, AtRow, qnum, rndm, rule)'
    BY <2>5 DEF MadeSoFar, Made, Exact, Sole, NthNumber, DrawnIn, R, q
  <2>8. StreamAt(Seed, AtRow, qnum, rndm, rule)'
    BY <2>6 DEF StreamAt, Sole, NthNumber, R, q
  <2> QED
    BY <2>4, <2>7, <2>8
<1> QED
  BY <1>1, <1>4, <1>5 DEF QInv

LEMMA QPrimed ==
  /\ OthersUntouched(Seed, todo, rndm)' <=> OthersUntouched(Seed', todo', rndm')
  /\ MadeSoFar(param, AtRow, qnum, rndm, rule)' <=>
       MadeSoFar(param', AtRow', qnum', rndm', rule')
  /\ StreamAt(Seed, AtRow, qnum, rndm, rule)' <=>
       StreamAt(Seed', AtRow', qnum', rndm', rule')
<1>1. OthersUntouched(Seed, todo, rndm)' <=> OthersUntouched(Seed', todo', rndm')
  BY DEF OthersUntouched
<1> DEFINE R == AtRow'
           q == qnum'
<1>2. MadeSoFar(param, AtRow, qnum, rndm, rule)' <=> MadeSoFar(param', R, q, rndm', rule')
  BY DEF MadeSoFar, Made, Exact, Sole, NthNumber, DrawnIn, R, q
<1>3. StreamAt(Seed, AtRow, qnum, rndm, rule)' <=> StreamAt(Seed', R, q, rndm', rule')
  BY DEF StreamAt, Sole, NthNumber, DrawnIn, R, q
<1> QED
  BY <1>1, <1>2, <1>3

LEMMA SubstituteStep == ASSUME QInv, Substitute PROVE QInv'
<1> DEFINE R == AtRow
           q == qnum
           k == rule
           r == R[k]
           d == [i \in 1..Draws(r) |-> Steps(i, Seed[q])]
           a == param'
           s == rndm
           m == Draws(r)
           here == q + DrawnIn(R, k)
<1>1. QTypes /\ qgen_pc = "varsub" /\ ~default /\ asked = {}
  BY DEF QInv, Substitute
<1>2. q \in 1..QUERIES /\ q = todo[1] /\ Len(todo) \in Nat \ {0} /\ RulesOf(q) = R /\ Proper(R)
  BY <1>1, QnumIs
<1>3. k \in 1..Len(R) /\ k \in 1..9 /\ Len(R) \in 1..9 /\ ProperRule(r, k, Len(R))
  <2>1. k \in 1..(Len(R) + 1) /\ k <= Len(R)
    BY <1>1, <1>2 DEF QInv, MadeSoFar, Substitute
  <2>2. Len(R) \in 1..9
    BY <1>2 DEF Proper
  <2>3. k \in 1..Len(R)
    BY <2>1, <2>2
  <2>4. k \in 1..9 /\ ProperRule(r, k, Len(R))
    BY <1>2, <2>3, ProperAt
  <2> QED
    BY <2>2, <2>3, <2>4
<1>4. /\ a = Written(r, k, d)
      /\ Seed' = IF d = <<>> THEN Seed ELSE [Seed EXCEPT ![q] = d[Len(d)]]
      /\ rule' = IF Again(r, k) THEN k ELSE k + 1
      /\ qgen_pc' = qgen_pc /\ newer_qgen' = newer_qgen /\ rndm' = rndm /\ default' = default
      /\ todo' = todo /\ at_tag' = at_tag /\ asked' = asked
  BY <1>2 DEF Substitute, Own
<1>5. m \in Nat
  BY <1>3, DrawsAre
<1>6. Seed \in [1..QUERIES -> Residue] /\ s \in Residue /\ param \in Arrays
  BY <1>1 DEF QTypes
<1> DEFINE x == Seed[q]
<1>7. x \in Residue
  BY <1>2, <1>6
<1>8. \A i \in Nat : Steps(i, x) \in Residue /\ Steps(i, x) = NthNumber(x, i)
  BY <1>7, StepsZero
<1>9. /\ \A i \in 1..m : d[i] = Steps(i, x) /\ d[i] \in Residue
      /\ Len(d) = m /\ (d = <<>> => m = 0) /\ (m = 0 => d = <<>>)
  <2>1. \A i \in 1..m : d[i] = Steps(i, x) /\ d[i] \in Residue
    BY <1>5, <1>8
  <2>2. d \in [1..m -> Residue]
    BY <2>1
  <2>3. d \in Seq(Residue) /\ Len(d) = m
    <3> HIDE DEF d, m
    <3> QED
      BY <1>5, <2>2, SeqFrom
  <2> HIDE DEF d
  <2> QED
    BY <2>1, <2>3
<1>10. AtRow' = R /\ qnum' = q
  BY <1>4 DEF AtRow, qnum, Row
<1> HIDE DEF R, q, r, d, a, m, here, x
<1>11. Seed' = [Seed EXCEPT ![q] = Steps(m, x)]
  <2>1. CASE m = 0
    <3>1. Steps(0, x) = x
      <4>1. NthNumber(x, 0) = x
        BY <1>7, NumberIs
      <4> QED
        BY <1>8, <4>1
    <3> QED
      BY <1>2, <1>4, <1>6, <1>9, <2>1, <3>1 DEF x
  <2>2. CASE m # 0
    <3>1. m \in 1..m
      BY <1>5, <2>2
    <3> QED
      BY <1>4, <1>9, <2>2, <3>1
  <2> QED
    BY <2>1, <2>2
<1>12. /\ Seed' \in [1..QUERIES -> Residue] /\ Seed'[q] = Steps(m, x)
       /\ \A p \in 1..QUERIES \ {q} : Seed'[p] = Seed[p]
  BY <1>2, <1>5, <1>6, <1>8, <1>11
<1>13. OthersUntouched(Seed', todo, s)
  <2> SUFFICES ASSUME NEW i \in 2..Len(todo) PROVE Seed'[todo[i]] = NthNumber(s, todo[i])
    BY DEF OthersUntouched
  <2>1. i \in 1..Len(todo) /\ 1 \in 1..Len(todo) /\ i # 1
    BY <1>2
  <2>2. todo[i] \in 1..QUERIES /\ todo[i] # todo[1]
    <3>1. todo \in Seq(1..QUERIES) /\ IsInjective(todo)
      BY <1>1 DEF QTypes
    <3>2. DOMAIN todo = 1..Len(todo) /\ todo[i] \in 1..QUERIES
      BY <2>1, <3>1, SeqIs
    <3> QED
      BY <2>1, <3>1, <3>2 DEF IsInjective
  <2>3. Seed[todo[i]] = NthNumber(s, todo[i])
    BY <1>1 DEF QInv, OthersUntouched
  <2> QED
    BY <1>2, <1>12, <2>2, <2>3
<1>14. MadeSoFar(param, R, q, s, k) /\ StreamAt(Seed, R, q, s, k)
  BY <1>1 DEF QInv, R, q
<1>15. Sole(R, k) => x = NthNumber(s, here) /\ here \in Nat /\ DrawnIn(R, k) \in Nat
  <2>1. DrawnIn(R, k) \in Nat
    BY <1>2, <1>3, DrawnInIs
  <2>2. here \in Nat
    <3>1. q \in Nat
      BY <1>2 DEF QUERIES
    <3> QED
      BY <2>1, <3>1 DEF here
  <2>3. k <= Len(R)
    BY <1>3
  <2> QED
    BY <1>14, <2>1, <2>2, <2>3 DEF StreamAt, x, here
<1>16. Sole(R, k) => \A i \in Nat : Steps(i, x) = NthNumber(s, here + i)
  BY <1>6, <1>15, StepsAre
<1>17. r.rule = "other" /\ ~Again(r, k) => a[k] # a[k - 1]
  <2>1. SUFFICES ASSUME r.rule = "other", a[k] = a[k - 1] PROVE Again(r, k)
    OBVIOUS
  <2>2. k - 1 \in 1..9 /\ k \in 1..10 /\ k - 1 # k
    <3>1. k > 1
      BY <1>3, <2>1 DEF ProperRule
    <3>2. k \in 1..9
      BY <1>3
    <3> QED
      BY <3>1, <3>2
  <2>3. a[k - 1] = param[k - 1]
    <3>1. a = [param EXCEPT ![k] = <<UnifInt(r, d[1])>>]
      BY <1>4, <2>1 DEF Written
    <3> QED
      BY <1>6, <2>2, <3>1 DEF Arrays
  <2> QED
    BY <2>1, <2>3 DEF Again, a
<1>18. /\ a \in Arrays /\ \A j \in 1..(k - 1) : a[j] = param[j]
       /\ r.rule = "int" => a[k] = <<UnifInt(r, d[1])>>
       /\ ~Again(r, k) => Made(a, R, k)
  <2>1. NumbersFor(R[k], d)
    BY <1>9 DEF m, r, NumbersFor
  <2>2. k \in 1..Len(R)
    BY <1>3
  <2>3. /\ a \in Arrays /\ \A j \in 1..(k - 1) : a[j] = param[j]
        /\ (r.rule = "other" => a[k] # a[k - 1]) => Made(a, R, k)
        /\ r.rule = "int" => a[k] = <<UnifInt(r, d[1])>>
    <3>1. a = Written(R[k], k, d) /\ Proper(R) /\ param \in Arrays
      BY <1>2, <1>4, <1>6 DEF r
    <3>2. WrittenWell(a, R, k, d)
      BY <2>1, <2>2, <3>1, WrittenIs
    <3> QED
      BY <3>2 DEF WrittenWell, r
  <2> QED
    BY <1>17, <2>3
<1>19. \A j \in 1..(k - 1) : Made(a, R, j) /\ Exact(a, R, q, s, j)
  <2> SUFFICES ASSUME NEW j \in 1..(k - 1) PROVE Made(a, R, j) /\ Exact(a, R, q, s, j)
    OBVIOUS
  <2>1. Made(param, R, j) /\ Exact(param, R, q, s, j)
    BY <1>14 DEF MadeSoFar
  <2>2. \A i \in 1..(k - 1) : param[i] = a[i]
    BY <1>18
  <2>3. k \in 1..(Len(R) + 1) /\ k # Len(R) + 1
    BY <1>3
  <2> QED
    BY <1>2, <2>1, <2>2, <2>3, MadeStays
<1>20. Exact(a, R, q, s, k)
  <2> SUFFICES ASSUME r.rule = "int", Sole(R, k)
      PROVE  a[k] = <<UnifInt(r, NthNumber(s, q + (DrawnIn(R, k) + 1)))>>
    BY DEF Exact, r
  <2>1. m = 1
    BY DEF m, Draws
  <2>2. d[1] = Steps(1, x)
    BY <1>9, <2>1
  <2>3. Steps(1, x) = NthNumber(s, here + 1)
    BY <1>16
  <2>4. here + 1 = q + (DrawnIn(R, k) + 1)
    <3>1. q \in Nat
      BY <1>2 DEF QUERIES
    <3> QED
      BY <1>15, <3>1 DEF here
  <2> QED
    BY <1>18, <2>2, <2>3, <2>4
<1>21. QTypes'
  <2>1. rule' \in Nat
    BY <1>3, <1>4
  <2> QED
    BY <1>1, <1>4, <1>12, <1>18, <2>1 DEF QTypes, a
<1>22. CASE Again(r, k)
  <2>1. rule' = k /\ r.rule = "other"
    BY <1>4, <1>22 DEF Again
  <2>2. MadeSoFar(a, R, q, s, rule')
    BY <1>14, <1>19, <2>1 DEF MadeSoFar
  <2>3. ~Sole(R, k)
    <3>1. k \in 1..k
      BY <1>3
    <3> QED
      BY <2>1, <3>1 DEF Sole, Simple, r
  <2>4. StreamAt(Seed', R, q, s, rule')
    BY <2>1, <2>3 DEF StreamAt
  <2> QED
    BY <1>1, <1>4, <1>10, <1>13, <1>21, <2>2, <2>4, QPrimed DEF QInv, a
<1>23. CASE ~Again(r, k)
  <2>1. rule' = k + 1
    BY <1>4, <1>23
  <2>2. MadeSoFar(a, R, q, s, k + 1)
    <3>1. k + 1 \in 1..(Len(R) + 1) /\ (k + 1) - 1 = k
      BY <1>3
    <3>2. \A j \in 1..k : Made(a, R, j) /\ Exact(a, R, q, s, j)
      <4> SUFFICES ASSUME NEW j \in 1..k PROVE Made(a, R, j) /\ Exact(a, R, q, s, j)
        OBVIOUS
      <4>1. CASE j = k
        BY <1>18, <1>20, <1>23, <4>1
      <4>2. CASE j # k
        <5>1. j \in 1..(k - 1)
          BY <1>3, <4>2
        <5> QED
          BY <1>19, <5>1
      <4> QED
        BY <4>1, <4>2
    <3> QED
      BY <3>1, <3>2 DEF MadeSoFar
  <2>3. StreamAt(Seed', R, q, s, k + 1)
    <3> SUFFICES ASSUME Sole(R, k + 1) PROVE Seed'[q] = NthNumber(s, q + DrawnIn(R, k + 1))
      BY DEF StreamAt
    <3>1. Sole(R, k)
      <4>1. \A j \in 1..k : j \in 1..(k + 1)
        BY <1>3
      <4> QED
        BY <4>1 DEF Sole
    <3>2. DrawnIn(R, k + 1) = DrawnIn(R, k) + m
      BY <1>2, <1>3, DrawnInIs DEF m, r
    <3>3. here + m = q + DrawnIn(R, k + 1)
      <4> DEFINE u == DrawnIn(R, k)
                 v == DrawnIn(R, k + 1)
      <4>1. q \in Nat
        BY <1>2 DEF QUERIES
      <4>2. u \in Nat
        BY <1>15, <3>1
      <4>3. v = u + m
        BY <3>2
      <4>4. here = q + u
        BY DEF here
      <4> HIDE DEF u, v
      <4>5. here + m = q + v
        BY <1>5, <4>1, <4>2, <4>3, <4>4
      <4> QED
        BY <4>5 DEF v
    <3>4. Steps(m, x) = NthNumber(s, here + m)
      BY <1>5, <1>16, <3>1
    <3> QED
      BY <1>12, <3>3, <3>4
  <2> QED
    BY <1>1, <1>4, <1>10, <1>13, <1>21, <2>1, <2>2, <2>3, QPrimed DEF QInv, a
<1> QED
  BY <1>22, <1>23

LEMMA EndSubstituteStep == ASSUME QInv, EndSubstitute PROVE QInv'
<1> DEFINE R == AtRow
           q == qnum
           a == param'
           s == rndm
           n == rule
<1>1. QTypes /\ qgen_pc = "varsub" /\ asked = {}
  BY DEF QInv, EndSubstitute
<1>2. q \in 1..QUERIES /\ RulesOf(q) = R /\ Proper(R) /\ Len(R) \in 1..9
  BY <1>1, QnumIs DEF Proper
<1>3. /\ qgen_pc' = "qsub" /\ newer_qgen' = newer_qgen /\ rndm' = rndm /\ default' = default
      /\ Seed' = Seed /\ todo' = todo /\ rule' = rule /\ at_tag' = at_tag /\ asked' = asked
      /\ default \/ rule > Len(R)
      /\ a = IF default \/ n > 10 \/ R[n - 1].rule = "permute" THEN param
             ELSE [param EXCEPT ![n] = Empty]
  BY <1>2 DEF EndSubstitute
<1>4. AtRow' = R /\ qnum' = q
  BY <1>3 DEF AtRow, qnum, Row
<1>5. n \in Nat /\ param \in Arrays
  BY <1>1 DEF QTypes
<1>6. a \in Arrays
  BY <1>3, <1>5, Constants DEF Arrays
<1>7. QTypes'
  BY <1>1, <1>3, <1>6 DEF QTypes
<1>8. ASSUME ~default
      PROVE  /\ n = Len(R) + 1
             /\ OthersUntouched(Seed', todo', rndm')
             /\ MadeSoFar(a, AtRow', qnum', rndm', rule')
  <2>1. OthersUntouched(Seed, todo, s) /\ MadeSoFar(param, R, q, s, n)
    BY <1>1, <1>8 DEF QInv
  <2>2. n \in 1..(Len(R) + 1) /\ n > Len(R)
    BY <1>3, <1>8, <2>1 DEF MadeSoFar
  <2>3. n = Len(R) + 1
    BY <1>2, <2>2
  <2> HIDE DEF R, q, a, n
  <2>4. MadeSoFar(a, R, q, s, n)
    <3>1. CASE R[n - 1].rule = "permute"
      <4>1. a = param
        BY <1>3, <3>1
      <4> QED
        BY <2>1, <4>1
    <3>2. CASE R[n - 1].rule # "permute"
      <4>1. a = [param EXCEPT ![n] = Empty]
        BY <1>2, <1>3, <1>8, <2>3, <3>2
      <4>2. \A j \in 1..(n - 1) : param[j] = a[j]
        BY <1>2, <1>5, <2>3, <4>1 DEF Arrays
      <4>3. R[Len(R)].rule # "permute"
        <5>1. n - 1 = Len(R)
          BY <1>2, <2>3
        <5> QED
          BY <3>2, <5>1
      <4>4. ASSUME NEW j \in 1..(n - 1) PROVE Made(a, R, j) /\ Exact(a, R, q, s, j)
        <5>1. Made(param, R, j) /\ Exact(param, R, q, s, j)
          BY <2>1 DEF MadeSoFar
        <5> QED
          BY <1>2, <2>2, <4>2, <4>3, <5>1, MadeStays
      <4> QED
        BY <2>2, <4>4 DEF MadeSoFar
    <3> QED
      BY <3>1, <3>2
  <2> QED
    BY <1>3, <1>4, <2>1, <2>3, <2>4 DEF n
<1> HIDE DEF R, q, a, n
<1> QED
  BY <1>1, <1>3, <1>4, <1>7, <1>8, QPrimed DEF QInv, a, n, R

LEMMA ParameterStep == ASSUME QInv, Parameter PROVE QInv'
<1>1. QTypes /\ qgen_pc = "qsub"
  BY DEF QInv, Parameter
<1>2. qnum \in 1..QUERIES
  BY <1>1, QnumIs
<1> DEFINE k == Tags[qnum][at_tag]
           v == Value(qnum, default, param, k)
<1>3. /\ qgen_pc' = qgen_pc /\ newer_qgen' = newer_qgen /\ rndm' = rndm /\ default' = default
      /\ Seed' = Seed /\ todo' = todo /\ param' = param /\ rule' = rule
      /\ at_tag' = at_tag + 1 /\ at_tag <= Len(Tags[qnum])
      /\ asked' = asked \cup {<<k, v>>}
  BY DEF Parameter, Value
<1>4. AtRow' = AtRow /\ qnum' = qnum
  BY <1>3 DEF AtRow, qnum, Row
<1>5. at_tag \in Nat \ {0}
  BY <1>1 DEF QTypes
<1>6. QTypes'
  BY <1>1, <1>3, <1>5 DEF QTypes
<1>7. at_tag \in DOMAIN Tags[qnum]
  <2>2. DOMAIN Tags[qnum] = 1..Len(Tags[qnum]) /\ Len(Tags[qnum]) \in Nat
    BY <1>2, TagsNamed
  <2> QED
    BY <1>3, <1>5, <2>2
<1>8. ASSUME NEW p \in asked'
      PROVE  \E i \in DOMAIN Tags[qnum] :
               p = <<Tags[qnum][i], Value(qnum, default, param, Tags[qnum][i])>>
  <2>1. CASE p \in asked
    BY <1>1, <2>1 DEF QInv
  <2>2. CASE p = <<k, v>>
    BY <1>7, <2>2
  <2> QED
    BY <1>3, <2>1, <2>2
<1>9. \A p \in asked' : \E i \in DOMAIN Tags[qnum'] :
        p = <<Tags[qnum'][i], Value(qnum', default', param', Tags[qnum'][i])>>
  BY <1>3, <1>4, <1>8
<1>10. (\A p \in asked : \E i \in DOMAIN Tags[qnum] :
          p = <<Tags[qnum][i], Value(qnum, default, param, Tags[qnum][i])>>)'
  BY <1>9 DEF Value
<1>11. ~default' =>
         /\ OthersUntouched(Seed, todo, rndm)'
         /\ MadeSoFar(param, AtRow, qnum, rndm, rule)'
         /\ rule' = Len(AtRow') + 1
  BY <1>1, <1>3, <1>4, QPrimed DEF QInv
<1> HIDE DEF k, v
<1> QED
  BY <1>1, <1>3, <1>6, <1>10, <1>11 DEF QInv

LEMMA TailIs ==
  ASSUME NEW X, NEW t \in Seq(X), t # <<>>
  PROVE  /\ Tail(t) \in Seq(X) /\ Len(Tail(t)) = Len(t) - 1
         /\ \A i \in 1..(Len(t) - 1) : Tail(t)[i] = t[i + 1]
OBVIOUS

LEMMA EndQueryStep == ASSUME QInv, EndQuery PROVE QInv'
<1>1. QTypes /\ qgen_pc = "qsub"
  BY DEF QInv, EndQuery
<1>2. /\ newer_qgen' = newer_qgen /\ rndm' = rndm /\ default' = default
      /\ Seed' = Seed /\ param' = param /\ todo' = Tail(todo)
      /\ rule' = 1 /\ at_tag' = 1 /\ asked' = {}
      /\ qgen_pc' = IF Len(todo) = 1 THEN "end" ELSE "varsub"
  BY DEF EndQuery
<1> DEFINE t == Tail(todo)
           n == Len(todo)
<1>3. /\ todo \in Seq(1..QUERIES) /\ todo # <<>> /\ IsInjective(todo)
      /\ n \in Nat \ {0} /\ DOMAIN todo = 1..n
  <2>1. todo \in Seq(1..QUERIES) /\ todo # <<>> /\ IsInjective(todo)
    BY <1>1 DEF QTypes
  <2> QED
    BY <2>1, SeqIs
<1>4. /\ t \in Seq(1..QUERIES) /\ Len(t) = n - 1 /\ \A i \in 1..(n - 1) : t[i] = todo[i + 1]
  BY <1>3, TailIs
<1> HIDE DEF t, n
<1>5. IsInjective(t)
  <2>1. DOMAIN t = 1..(n - 1)
    BY <1>4, SeqIs
  <2> SUFFICES ASSUME NEW i \in 1..(n - 1), NEW j \in 1..(n - 1), t[i] = t[j] PROVE i = j
    BY <2>1 DEF IsInjective
  <2>2. i + 1 \in 1..n /\ j + 1 \in 1..n
    BY <1>3
  <2>3. todo[i + 1] = todo[j + 1]
    BY <1>4
  <2>4. i + 1 = j + 1
    BY <1>3, <2>2, <2>3 DEF IsInjective
  <2> QED
    BY <2>4
<1>6. n # 1 => t # <<>>
  BY <1>3, <1>4
<1>7. QTypes'
  BY <1>1, <1>2, <1>4, <1>5, <1>6 DEF QTypes, t, n
<1>8. ASSUME qgen_pc' = "varsub", ~default'
      PROVE  /\ OthersUntouched(Seed', todo', rndm')
             /\ MadeSoFar(param', AtRow', qnum', rndm', rule')
             /\ StreamAt(Seed', AtRow', qnum', rndm', rule')
  <2> DEFINE R == AtRow'
             q == qnum'
  <2>1. n # 1 /\ n - 1 \in Nat \ {0} /\ t # <<>> /\ todo' = t
    BY <1>2, <1>3, <1>6, <1>8 DEF n, t
  <2>2. q = t[1] /\ q \in 1..QUERIES /\ q = todo[2]
    <3>1. q = t[1] /\ q \in 1..QUERIES
      BY <1>4, <2>1, SeqIs DEF qnum
    <3>2. 1 \in 1..(n - 1)
      <4> DEFINE m == n - 1
      <4>1. m \in Nat \ {0}
        BY <2>1
      <4> HIDE DEF m
      <4>2. 1 \in 1..m
        BY <4>1
      <4> QED
        BY <4>2 DEF m
    <3>3. t[1] = todo[1 + 1]
      BY <1>4, <3>2
    <3> QED
      BY <3>1, <3>3
  <2>3. R = Row(newer_qgen', q)
    BY DEF AtRow, Row
  <2>4. Proper(R)
    BY <1>1, <1>2, <2>2, <2>3, RowsAre DEF QTypes
  <2>5. OthersUntouched(Seed, todo, rndm)
    BY <1>1, <1>2, <1>8 DEF QInv
  <2>6. \A i \in 2..n : Seed[todo[i]] = NthNumber(rndm, todo[i])
    BY <2>5 DEF OthersUntouched, n
  <2>7. OthersUntouched(Seed', todo', rndm')
    <3> SUFFICES ASSUME NEW i \in 2..(n - 1) PROVE Seed[t[i]] = NthNumber(rndm, t[i])
      BY <1>2, <1>4, <2>1 DEF OthersUntouched
    <3>1. i \in 1..(n - 1) /\ i + 1 \in 2..n
      BY <1>3
    <3> QED
      BY <1>4, <2>6, <3>1
  <2> HIDE DEF R, q
  <2>8. MadeSoFar(param', R, q, rndm', rule')
    <3>1. Len(R) \in 1..9
      BY <2>4 DEF Proper
    <3> QED
      BY <1>2, <3>1 DEF MadeSoFar
  <2>9. StreamAt(Seed', R, q, rndm', rule')
    <3>1. DrawnIn(R, 1) = 0 /\ q + 0 = q
      BY <2>2, <2>4, DrawnInIs DEF QUERIES
    <3>2. 2 \in 2..n
      BY <1>3, <2>1
    <3>3. Seed[q] = NthNumber(rndm, q)
      BY <2>2, <2>6, <3>2
    <3> QED
      BY <1>2, <3>1, <3>3 DEF StreamAt
  <2> QED
    BY <2>7, <2>8, <2>9 DEF R, q
<1>9. qgen_pc' \in {"varsub", "end"}
  BY <1>2
<1> QED
  BY <1>2, <1>7, <1>8, <1>9, QPrimed DEF QInv

LEMMA QStutter == ASSUME QInv, UNCHANGED qgen_vars PROVE QInv'
<1>1. /\ qgen_pc' = qgen_pc /\ newer_qgen' = newer_qgen /\ rndm' = rndm /\ default' = default
      /\ Seed' = Seed /\ todo' = todo /\ param' = param /\ rule' = rule
      /\ at_tag' = at_tag /\ asked' = asked
  BY DEF qgen_vars
<1>2. AtRow' = AtRow /\ qnum' = qnum
  BY <1>1 DEF AtRow, qnum, Row
<1>3. QTypes'
  BY <1>1 DEF QInv, QTypes
<1>4. (qgen_pc = "qsub" => \A p \in asked : \E i \in DOMAIN Tags[qnum] :
          p = <<Tags[qnum][i], Value(qnum, default, param, Tags[qnum][i])>>)'
  <2>1. qgen_pc' = "qsub" => \A p \in asked' : \E i \in DOMAIN Tags[qnum'] :
          p = <<Tags[qnum'][i], Value(qnum', default', param', Tags[qnum'][i])>>
    BY <1>1, <1>2 DEF QInv
  <2> QED
    BY <2>1 DEF Value
<1> QED
  BY <1>1, <1>2, <1>3, <1>4, QPrimed DEF QInv

LEMMA QInvariant == QgenSpec => []QInv
<1>1. QgenInit => QInv
  BY QInitInv
<1>2. QInv /\ [QgenNext]_qgen_vars => QInv'
  BY SetupStep, SubstituteStep, EndSubstituteStep, ParameterStep, EndQueryStep, QStutter
     DEF QgenNext
<1> QED
  BY <1>1, <1>2, PTL DEF QgenSpec

\* The parameters there are when a query is written.
QDone(a, R, q, s) == \A k \in 1..Len(R) : Made(a, R, k) /\ Exact(a, R, q, s, k)

LEMMA DoneIs ==
  ASSUME QInv, qgen_pc = "qsub", ~default
  PROVE  QDone(param, AtRow, qnum, rndm)
<1> DEFINE R == AtRow
<1>1. MadeSoFar(param, R, qnum, rndm, rule) /\ rule = Len(R) + 1 /\ Proper(R)
  BY QnumIs DEF QInv
<1>2. rule - 1 = Len(R)
  BY <1>1 DEF Proper
<1> HIDE DEF R
<1>3. QDone(param, R, qnum, rndm)
  BY <1>1, <1>2 DEF MadeSoFar, QDone
<1> QED
  BY <1>3 DEF R

\* Queries 16 and 22 fill the parameters that they name from a permutation.
LEMMA EightMade ==
  ASSUME QInv, qgen_pc = "qsub", ~default
  PROVE  /\ qnum = 16 => /\ \A j \in 3..10 : param[j] # Empty
                         /\ \A i, j \in 3..10 : param[i] = param[j] => i = j
         /\ qnum = 22 => /\ \A j \in 1..7 : param[j] # Empty
                         /\ \A i, j \in 1..7 : param[i] = param[j] => i = j
<1>1. QDone(param, AtRow, qnum, rndm)
  BY DoneIs
<1>2. newer_qgen \in BOOLEAN /\ qnum \in 1..QUERIES
  BY QnumIs DEF QInv, QTypes
<1> DEFINE R == AtRow
<1>3. /\ qnum = 16 => Len(R) = 3 /\ Eight(R[3], 0)
      /\ qnum = 22 => Len(R) = 1 /\ Eight(R[1], 1)
  BY <1>2, RowsAre DEF AtRow
<1> HIDE DEF R
<1>4. ASSUME qnum = 16
      PROVE  /\ \A j \in 3..10 : param[j] # Empty
             /\ \A i, j \in 3..10 : param[i] = param[j] => i = j
  <2>1. Made(param, R, 3)
    BY <1>1, <1>3, <1>4 DEF QDone, R
  <2>2. R[3].rule = "permute" /\ R[3].n = 8 /\ R[3].spare = 0
    BY <1>3, <1>4 DEF Eight
  <2>3. 3 + 8 - 0 - 1 = 10
    OBVIOUS
  <2> QED
    BY <2>1, <2>2, <2>3 DEF Made
<1>5. ASSUME qnum = 22
      PROVE  /\ \A j \in 1..7 : param[j] # Empty
             /\ \A i, j \in 1..7 : param[i] = param[j] => i = j
  <2>1. Made(param, R, 1)
    BY <1>1, <1>3, <1>5 DEF QDone, R
  <2>2. R[1].rule = "permute" /\ R[1].n = 8 /\ R[1].spare = 1
    BY <1>3, <1>5 DEF Eight
  <2>3. 1 + 8 - 1 - 1 = 7
    OBVIOUS
  <2> QED
    BY <2>1, <2>2, <2>3 DEF Made
<1> QED
  BY <1>4, <1>5

LEMMA NamedIsMade ==
  ASSUME QInv, qgen_pc = "qsub", ~default, NEW k \in 1..defaults[qnum]
  PROVE  param[k] # Empty
<1> DEFINE R == AtRow
<1>1. QDone(param, R, qnum, rndm) /\ Proper(R)
  <2>1. QDone(param, R, qnum, rndm)
    BY DoneIs
  <2>2. Proper(R)
    BY QnumIs DEF QInv
  <2> QED
    BY <2>1, <2>2
<1>2. newer_qgen \in BOOLEAN /\ qnum \in 1..QUERIES
  BY QnumIs DEF QInv, QTypes
<1>3. /\ qnum \notin {16, 22} => Len(R) = defaults[qnum]
      /\ qnum = 16 => Len(R) = 3
  BY <1>2, RowsAre DEF AtRow
<1> HIDE DEF R
<1>4. ASSUME k \in 1..Len(R) PROVE param[k] # Empty
  <2>1. Made(param, R, k) /\ k \in 1..9 /\ ProperRule(R[k], k, Len(R))
    BY <1>1, <1>4, ProperAt DEF QDone
  <2>2. CASE R[k].rule = "permute"
    <3>1. R[k].n \in 1..10 /\ R[k].spare \in {0, 1} /\ R[k].spare < R[k].n
      BY <2>1, <2>2 DEF ProperRule
    <3>2. k \in k..(k + R[k].n - R[k].spare - 1)
      <4> DEFINE x == R[k].n
                 y == R[k].spare
      <4>1. x \in Int /\ y \in Int /\ y < x /\ k \in Int
        BY <2>1, <3>1
      <4> HIDE DEF x, y
      <4>2. k <= k + x - y - 1
        BY <4>1
      <4>3. k \in k..(k + x - y - 1)
        BY <4>1, <4>2
      <4> QED
        BY <4>3 DEF x, y
    <3> QED
      BY <2>1, <2>2, <3>2 DEF Made
  <2>3. CASE R[k].rule # "permute"
    BY <2>1, <2>3 DEF Made
  <2> QED
    BY <2>2, <2>3
<1>5. CASE qnum = 16
  <2>1. defaults[qnum] = 10
    BY <1>5 DEF defaults
  <2>2. k \in 1..3 \/ k \in 3..10
    BY <2>1
  <2> QED
    BY <1>3, <1>4, <1>5, <2>2, EightMade
<1>6. CASE qnum = 22
  <2>1. defaults[qnum] = 7
    BY <1>6 DEF defaults
  <2> QED
    BY <1>6, <2>1, EightMade
<1>7. CASE qnum \notin {16, 22}
  BY <1>3, <1>4, <1>7
<1> QED
  BY <1>5, <1>6, <1>7

\* The n-th number of a query.
LEMMA NthIs ==
  ASSUME QInv, qgen_pc = "qsub", NEW k
  PROVE  /\ DrawsBefore(qnum, k) = DrawnIn(AtRow, k)
         /\ Nth(qnum, DrawsBefore(qnum, k) + 1) = NthNumber(rndm, qnum + (DrawnIn(AtRow, k) + 1))
<1>1. RulesOf(qnum) = AtRow
  BY QnumIs DEF QInv
<1>2. DrawsBefore(qnum, k) = DrawnIn(AtRow, k)
  BY <1>1 DEF DrawsBefore, DrawnIn
<1> QED
  BY <1>2 DEF Nth, NthNumber

LEMMA OwnHolds == QInv => OwnParameters
<1> SUFFICES ASSUME QInv, qgen_pc = "qsub", NEW p \in asked
    PROVE  /\ p[2] # Empty
           /\ ~default /\ p[1] <= Len(RulesOf(qnum)) /\ RulesOf(qnum)[p[1]].rule = "int"
                /\ (\A j \in 1..(p[1] - 1) :
                      RulesOf(qnum)[j].rule \in {"int", "brand", "region"}) =>
                p[2] = <<UnifInt(RulesOf(qnum)[p[1]],
                                 Nth(qnum, DrawsBefore(qnum, p[1]) + 1))>>
  BY DEF OwnParameters
<1> DEFINE R == AtRow
<1>1. qnum \in 1..QUERIES /\ RulesOf(qnum) = R /\ Proper(R)
  BY QnumIs DEF QInv
<1>2. PICK i \in DOMAIN Tags[qnum] :
        p = <<Tags[qnum][i], Value(qnum, default, param, Tags[qnum][i])>>
  BY DEF QInv
<1> DEFINE k == Tags[qnum][i]
<1>3. k \in 1..defaults[qnum]
  BY <1>1, TagsNamed
<1> HIDE DEF k, R
<1>4. p[1] = k /\ p[2] = Value(qnum, default, param, k)
  BY <1>2 DEF k
<1>5. defaults[qnum] \in Nat
  <2>1. \A q \in 1..22 : defaults[q] \in Nat
    BY DEF defaults
  <2> QED
    BY <1>1, <2>1 DEF QUERIES
<1>6. p[2] # Empty
  <2>1. CASE default
    <3>1. k <= defaults[qnum]
      BY <1>3, <1>5
    <3> QED
      BY <1>4, <2>1, <3>1, Constants DEF Value
  <2>2. CASE ~default
    BY <1>3, <1>4, <2>2, NamedIsMade DEF Value
  <2> QED
    BY <2>1, <2>2
<1>7. ASSUME ~default, k <= Len(R), R[k].rule = "int",
             \A j \in 1..(k - 1) : R[j].rule \in {"int", "brand", "region"}
      PROVE  p[2] = <<UnifInt(R[k], Nth(qnum, DrawsBefore(qnum, k) + 1))>>
  <2>1. k \in 1..Len(R)
    BY <1>1, <1>3, <1>5, <1>7 DEF Proper
  <2>2. Exact(param, R, qnum, rndm, k)
    BY <1>7, <2>1, DoneIs DEF QDone, R
  <2>3. Sole(R, k)
    <3> SUFFICES ASSUME NEW j \in 1..k PROVE Simple(R[j])
      BY DEF Sole
    <3>1. k \in 1..9
      BY <1>1, <2>1, ProperAt
    <3>2. j \in 1..(k - 1) \/ j = k
      BY <3>1
    <3> QED
      BY <1>7, <3>2 DEF Simple
  <2>4. param[k] = <<UnifInt(R[k], NthNumber(rndm, qnum + (DrawnIn(R, k) + 1)))>>
    BY <1>7, <2>2, <2>3 DEF Exact
  <2>5. Nth(qnum, DrawsBefore(qnum, k) + 1) = NthNumber(rndm, qnum + (DrawnIn(R, k) + 1))
    BY NthIs DEF R
  <2> QED
    BY <1>4, <1>7, <2>4, <2>5 DEF Value
<1> QED
  BY <1>1, <1>4, <1>6, <1>7

\* What a query gets where its template names a parameter was made for it: a range's number is
\* the one its stream gives from the seed, whatever queries came before.
THEOREM ParametersOwn == QgenSpec => []OwnParameters
<1>1. QgenSpec => []QInv
  BY QInvariant
<1>2. QInv => OwnParameters
  BY OwnHolds
<1> QED
  BY <1>1, <1>2, PTL

LEMMA DifferHolds == QInv => ParametersDiffer
<1> SUFFICES ASSUME QInv, qgen_pc = "qsub", ~default,
                    NEW p \in asked, p[1] \in Compared(qnum),
                    NEW o \in asked, o[1] \in Compared(qnum), p[2] = o[2]
    PROVE  p[1] = o[1]
  BY DEF ParametersDiffer
<1>1. qnum \in 1..QUERIES /\ newer_qgen \in BOOLEAN
  BY QnumIs DEF QInv, QTypes
<1>2. PICK i \in DOMAIN Tags[qnum] :
        p = <<Tags[qnum][i], Value(qnum, default, param, Tags[qnum][i])>>
  BY DEF QInv
<1>3. PICK j \in DOMAIN Tags[qnum] :
        o = <<Tags[qnum][j], Value(qnum, default, param, Tags[qnum][j])>>
  BY DEF QInv
<1>4. p[2] = param[p[1]] /\ o[2] = param[o[1]]
  BY <1>2, <1>3 DEF Value
<1>5. param[p[1]] = param[o[1]]
  BY <1>4
<1>6. CASE qnum = 16
  BY <1>5, <1>6, EightMade DEF Compared
<1>7. CASE qnum = 22
  BY <1>5, <1>7, EightMade DEF Compared
<1>8. CASE qnum \in {7, 12}
  <2> DEFINE R == AtRow
  <2>1. Len(R) = defaults[qnum] /\ R[2].rule = "other" /\ QDone(param, R, qnum, rndm)
    BY <1>1, <1>8, RowsAre, DoneIs DEF AtRow
  <2>2. defaults[qnum] \in {2, 3}
    BY <1>8 DEF defaults
  <2> HIDE DEF R
  <2>3. Made(param, R, 2)
    <3>1. 2 \in 1..Len(R)
      BY <2>1, <2>2
    <3> QED
      BY <2>1, <3>1 DEF QDone
  <2>4. param[2] # param[1]
    <3>1. 2 - 1 = 1
      OBVIOUS
    <3> QED
      BY <2>1, <2>3, <3>1 DEF Made
  <2>5. Compared(qnum) = {1, 2}
    BY <1>8 DEF Compared
  <2> QED
    BY <1>5, <2>4, <2>5
<1>9. CASE qnum \notin {7, 12, 16, 22}
  BY <1>9 DEF Compared
<1> QED
  BY <1>6, <1>7, <1>8, <1>9

\* What a query compares differs: two nations or ship modes, eight sizes, seven country codes.
THEOREM ParametersApart == QgenSpec => []ParametersDiffer
<1>1. QgenSpec => []QInv
  BY QInvariant
<1>2. QInv => ParametersDiffer
  BY DifferHolds
<1> QED
  BY <1>1, <1>2, PTL

-----------------------------------------------------------------------------
\* ParseQuery: sequences put together.

\* A function with the first elements put together.
Flattens(f, s) ==
  f[0] = <<>> /\ \A i \in 0..(Len(s) - 1) : f[i + 1] = f[i] \o s[i + 1]

LEMMA Flattening ==
  ASSUME NEW E, NEW s \in Seq(Seq(E))
  PROVE  \E f \in [0..Len(s) -> Seq(E)] : Flattens(f, s)
<1> DEFINE m == Len(s)
           X == Seq(E)
           x0 == <<>>
           g == [i \in 0..(m - 1) |-> [x \in X |-> x \o s[i + 1]]]
<1>1. m \in Nat /\ x0 \in X /\ \A i \in 1..m : s[i] \in X
  OBVIOUS
<1> HIDE DEF m
<1>2. StaysUpTo(g, m, X)
  <2> SUFFICES ASSUME NEW i \in 0..(m - 1), NEW x \in X PROVE g[i][x] \in X
    BY DEF StaysUpTo
  <2>1. i + 1 \in 1..m
    BY <1>1
  <2>2. s[i + 1] \in X
    BY <1>1, <2>1
  <2>3. x \o s[i + 1] \in X
    BY <2>2
  <2> QED
    BY <2>3
<1>3. \A i \in 0..(m - 1) : \A x \in X : g[i][x] = x \o s[i + 1]
  OBVIOUS
<1> HIDE DEF g, X, x0
<1>4. PICK f \in [0..m -> X] : RecursUpTo(f, m, x0, g)
  BY <1>1, <1>2, RecursionUpTo
<1>5. f[0] = x0 /\ \A i \in 0..(m - 1) : f[i + 1] = g[i][f[i]]
  <2>1. \A i \in 0..(m - 1) : i + 1 \in 0..m /\ i + 1 # 0 /\ (i + 1) - 1 = i
    BY <1>1
  <2>2. 0 \in 0..m
    BY <1>1
  <2>3. \A n \in 0..m : f[n] = IF n = 0 THEN x0 ELSE g[n - 1][f[n - 1]]
    BY <1>4 DEF RecursUpTo
  <2> QED
    BY <2>1, <2>2, <2>3
<1>6. \A i \in 0..(m - 1) : f[i + 1] = f[i] \o s[i + 1]
  <2> TAKE i \in 0..(m - 1)
  <2>1. i \in 0..m
    BY <1>1
  <2>2. f[i] \in X
    BY <2>1
  <2> QED
    BY <1>3, <1>5, <2>2
<1> QED
  BY <1>5, <1>6 DEF Flattens, m, X, x0

LEMMA FlattenIs ==
  ASSUME NEW E, NEW s \in Seq(Seq(E)), NEW f \in [0..Len(s) -> Seq(E)], Flattens(f, s)
  PROVE  FlattenSeq(s) = f[Len(s)]
<1> DEFINE m == Len(s)
<1>1. m \in Nat
  OBVIOUS
<1>2. CASE m = 0
  <2>1. s = <<>>
    BY <1>2
  <2>2. f[m] = <<>>
    BY <1>2 DEF Flattens
  <2> QED
    BY <1>2, <2>1, <2>2 DEF FlattenSeq
<1>3. CASE m # 0
  <2> DEFINE F(u) == u = [i \in 1..m |-> IF i = 1 THEN s[i] ELSE u[i - 1] \o s[i]]
             e == [i \in 1..m |-> f[i]]
             c == CHOOSE u : F(u)
  <2>1. FlattenSeq(s) = c[m]
    BY <1>3 DEF FlattenSeq
  <2>2. \A i \in 1..m : s[i] \in Seq(E)
    OBVIOUS
  <2>3. ASSUME NEW i \in 1..m PROVE f[i] = IF i = 1 THEN s[i] ELSE f[i - 1] \o s[i]
    <3>1. i - 1 \in 0..(m - 1) /\ (i - 1) + 1 = i
      BY <1>1
    <3>2. f[i] = f[i - 1] \o s[i]
      BY <3>1 DEF Flattens
    <3>3. CASE i = 1
      <4>1. f[0] = <<>>
        BY DEF Flattens
      <4>2. s[i] \in Seq(E) /\ i - 1 = 0
        BY <2>2, <3>3
      <4>3. <<>> \o s[i] = s[i]
        BY <4>2, ConcatEmptySeq
      <4> QED
        BY <3>2, <3>3, <4>1, <4>2, <4>3
    <3> QED
      BY <3>2, <3>3
  <2>4. F(e)
    <3>1. \A i \in 1..m : i # 1 => i - 1 \in 1..m
      BY <1>1
    <3>2. ASSUME NEW i \in 1..m PROVE e[i] = IF i = 1 THEN s[i] ELSE e[i - 1] \o s[i]
      BY <2>3, <3>1
    <3> HIDE DEF m
    <3> QED
      BY <3>2
  <2>5. F(c)
    <3> HIDE DEF F, e
    <3> QED
      BY <2>4
  <2>6. \A i \in 1..m : c[i] = IF i = 1 THEN s[i] ELSE c[i - 1] \o s[i]
    <3> HIDE DEF c, m
    <3> QED
      BY <2>5
  <2> HIDE DEF c, F, e, m
  <2> DEFINE S == {i \in Nat : i \in 1..m => c[i] = f[i]}
  <2>7. 0 \in S
    OBVIOUS
  <2>8. ASSUME NEW i \in Nat, i \in S PROVE i + 1 \in S
    <3>1. SUFFICES ASSUME i + 1 \in 1..m PROVE c[i + 1] = f[i + 1]
      OBVIOUS
    <3>2. (i + 1) - 1 = i
      OBVIOUS
    <3>3. c[i + 1] = IF i + 1 = 1 THEN s[i + 1] ELSE c[i] \o s[i + 1]
      BY <2>6, <3>1, <3>2
    <3>4. f[i + 1] = IF i + 1 = 1 THEN s[i + 1] ELSE f[i] \o s[i + 1]
      BY <2>3, <3>1, <3>2
    <3>5. i + 1 # 1 => c[i] = f[i]
      <4>1. i + 1 # 1 => i \in 1..m
        BY <1>1, <3>1
      <4> QED
        BY <2>8, <4>1
    <3> QED
      BY <3>3, <3>4, <3>5
  <2> HIDE DEF S
  <2>9. m \in S
    BY <1>1, <2>7, <2>8, Induct
  <2>10. c[m] = f[m]
    BY <1>1, <1>3, <2>9 DEF S
  <2> QED
    BY <2>1, <2>10 DEF m
<1> QED
  BY <1>2, <1>3

\* The first i elements put together.
UpTo(s, i) == FlattenSeq(SubSeq(s, 1, i))

LEMMA UpToIs ==
  ASSUME NEW E, NEW s \in Seq(Seq(E))
  PROVE  /\ \A i \in 0..Len(s) : UpTo(s, i) \in Seq(E)
         /\ UpTo(s, 0) = <<>>
         /\ \A i \in 0..(Len(s) - 1) : UpTo(s, i + 1) = UpTo(s, i) \o s[i + 1]
         /\ UpTo(s, Len(s)) = FlattenSeq(s)
<1> DEFINE m == Len(s)
<1>1. m \in Nat
  OBVIOUS
<1>2. PICK f \in [0..m -> Seq(E)] : Flattens(f, s)
  BY Flattening
<1>3. ASSUME NEW i \in 0..m PROVE UpTo(s, i) = f[i]
  <2> DEFINE t == SubSeq(s, 1, i)
             h == [k \in 0..i |-> f[k]]
  <2>1. t \in Seq(Seq(E)) /\ Len(t) = i /\ \A k \in 1..i : t[k] = s[k]
    BY <1>1
  <2>2. h \in [0..i -> Seq(E)]
    BY <1>1
  <2>3. Flattens(h, t)
    <3>1. h[0] = <<>>
      BY <1>1, <1>2 DEF Flattens
    <3>2. ASSUME NEW k \in 0..(i - 1) PROVE h[k + 1] = h[k] \o t[k + 1]
      <4>1. k + 1 \in 1..i /\ k + 1 \in 0..i /\ k \in 0..i /\ k \in 0..(m - 1)
        BY <1>1
      <4>2. f[k + 1] = f[k] \o s[k + 1]
        BY <1>2, <4>1 DEF Flattens
      <4> HIDE DEF t
      <4> QED
        BY <2>1, <4>1, <4>2
    <3> HIDE DEF t, h
    <3> QED
      BY <2>1, <3>1, <3>2 DEF Flattens
  <2> HIDE DEF t, h
  <2>4. FlattenSeq(t) = h[i]
    BY <2>1, <2>2, <2>3, FlattenIs
  <2> QED
    BY <2>4 DEF UpTo, t, h
<1>4. SubSeq(s, 1, m) = s
  BY SubSeqFull
<1>5. UpTo(s, m) = FlattenSeq(s)
  BY <1>4 DEF UpTo
<1> HIDE DEF m
<1>6. UpTo(s, 0) = <<>>
  BY <1>1, <1>2, <1>3 DEF Flattens
<1>7. ASSUME NEW i \in 0..(m - 1) PROVE UpTo(s, i + 1) = UpTo(s, i) \o s[i + 1]
  <2>1. i \in 0..m /\ i + 1 \in 0..m
    BY <1>1
  <2>2. f[i + 1] = f[i] \o s[i + 1]
    BY <1>2 DEF Flattens, m
  <2> QED
    BY <1>3, <2>1, <2>2
<1> QED
  BY <1>3, <1>5, <1>6, <1>7 DEF m

\* Two sequences put together.
LEMMA Joined ==
  ASSUME NEW E, NEW s \in Seq(E), NEW t \in Seq(E), NEW u, u = s \o t
  PROVE  /\ u \in Seq(E) /\ Len(s) \in Nat /\ Len(t) \in Nat /\ Len(u) = Len(s) + Len(t)
         /\ \A i \in 1..Len(s) : u[i] = s[i]
         /\ \A i \in 1..Len(t) : u[Len(s) + i] = t[i]
<1>1. Len(s) \in Nat /\ Len(t) \in Nat /\ u \in Seq(E) /\ Len(u) = Len(s) + Len(t)
  BY ConcatProperties
<1>2. \A i \in 1..Len(s) + Len(t) : (s \o t)[i] = IF i <= Len(s) THEN s[i] ELSE t[i - Len(s)]
  BY ConcatProperties
<1>3. ASSUME NEW i \in 1..Len(t) PROVE u[Len(s) + i] = t[i]
  <2>1. Len(s) + i \in 1..Len(s) + Len(t) /\ ~(Len(s) + i <= Len(s)) /\ (Len(s) + i) - Len(s) = i
    BY <1>1
  <2> QED
    BY <1>2, <2>1
<1>4. ASSUME NEW i \in 1..Len(s) PROVE u[i] = s[i]
  <2>1. i \in 1..Len(s) + Len(t)
    BY <1>1
  <2> QED
    BY <1>2, <2>1
<1> QED
  BY <1>1, <1>3, <1>4

\* What is put together later leaves it as it is.
LEMMA UpToPrefix ==
  ASSUME NEW E, NEW s \in Seq(Seq(E)), NEW j \in 0..Len(s), NEW k \in 0..Len(s), j <= k
  PROVE  /\ Len(UpTo(s, j)) \in Nat /\ Len(UpTo(s, k)) \in Nat
         /\ Len(UpTo(s, j)) <= Len(UpTo(s, k))
         /\ \A i \in 1..Len(UpTo(s, j)) : UpTo(s, k)[i] = UpTo(s, j)[i]
<1> DEFINE m == Len(s)
           u(n) == UpTo(s, n)
           P(n) == /\ Len(u(j)) <= Len(u(n))
                   /\ \A i \in 1..Len(u(j)) : u(n)[i] = u(j)[i]
           S == {n \in Nat : n >= j /\ n <= m => P(n)}
<1>1. m \in Nat /\ \A i \in 1..m : s[i] \in Seq(E)
  OBVIOUS
<1>2. /\ \A n \in 0..m : u(n) \in Seq(E)
      /\ \A n \in 0..(m - 1) : u(n + 1) = u(n) \o s[n + 1]
  BY UpToIs
<1> HIDE DEF m, u
<1>3. \A n \in 0..m : Len(u(n)) \in Nat
  BY <1>2
<1>4. j \in 0..m /\ k \in 0..m
  BY DEF m
<1>5. P(j)
  BY <1>3, <1>4
<1>6. 0 \in S
  <2>1. 0 >= j => j = 0
    BY <1>1, <1>4
  <2> QED
    BY <1>5, <2>1
<1>7. ASSUME NEW n \in Nat, n \in S PROVE n + 1 \in S
  <2>1. SUFFICES ASSUME n + 1 >= j, n + 1 <= m PROVE P(n + 1)
    OBVIOUS
  <2>2. CASE n + 1 = j
    BY <1>5, <2>2
  <2>3. CASE n + 1 # j
    <3>1. n >= j /\ n <= m /\ n \in 0..m /\ n \in 0..(m - 1) /\ n + 1 \in 1..m
      BY <1>1, <1>4, <2>1, <2>3
    <3>2. P(n)
      BY <1>7, <3>1
    <3> DEFINE a == u(n)
               b == s[n + 1]
               c == u(n + 1)
    <3>3. a \in Seq(E) /\ b \in Seq(E) /\ c = a \o b
      BY <1>1, <1>2, <3>1
    <3> HIDE DEF a, b, c
    <3>4. Len(c) = Len(a) + Len(b) /\ Len(a) \in Nat /\ Len(b) \in Nat
          /\ \A i \in 1..Len(a) : c[i] = a[i]
      BY <3>3
    <3>5. Len(u(j)) <= Len(a) /\ \A i \in 1..Len(u(j)) : a[i] = u(j)[i]
      BY <3>2 DEF a
    <3>6. Len(u(j)) \in Nat
      BY <1>3, <1>4
    <3>7. Len(u(j)) <= Len(c) /\ \A i \in 1..Len(u(j)) : c[i] = u(j)[i]
      <4>1. Len(u(j)) <= Len(c)
        BY <3>4, <3>5, <3>6
      <4>2. \A i \in 1..Len(u(j)) : i \in 1..Len(a)
        BY <3>4, <3>5, <3>6
      <4> QED
        BY <3>4, <3>5, <4>1, <4>2
    <3> QED
      BY <3>7 DEF c
  <2> QED
    BY <2>2, <2>3
<1> HIDE DEF S
<1>8. k \in S /\ k \in Nat /\ k >= j /\ k <= m
  <2>1. Nat \subseteq S
    BY <1>6, <1>7, Induct
  <2> QED
    BY <1>1, <1>4, <2>1
<1>9. P(k)
  BY <1>8 DEF S
<1> QED
  BY <1>3, <1>4, <1>9 DEF u

-----------------------------------------------------------------------------
\* parse_query: what a workload is.

Word == {w[i].statements[k][p] : w \in Workloads, i \in Nat, k \in Nat, p \in Nat}

ProperQuery(query) ==
  /\ query.id \in Nat \ {0}
  /\ query.statements \in Seq(Seq(Word))
  /\ \A k \in 1..Len(query.statements) : query.statements[k] # <<>>

ProperLoad(w) ==
  /\ Len(w) \in Nat /\ DOMAIN w = 1..Len(w)
  /\ \A i \in 1..Len(w) : ProperQuery(w[i])

LEMMA WorkloadIs == \A w \in Workloads : ProperLoad(w)
<1> SUFFICES ASSUME NEW w \in Workloads PROVE ProperLoad(w)
  OBVIOUS
<1>1. w \in Seq(Range(w))
  BY ParseAssumption
<1>2. Len(w) \in Nat /\ DOMAIN w = 1..Len(w)
  BY <1>1, LenProperties
<1>3. ASSUME NEW i \in 1..Len(w) PROVE ProperQuery(w[i])
  <2> DEFINE st == w[i].statements
  <2>1. /\ w[i].id \in Nat \ {0} /\ st \in Seq(Range(st))
        /\ \A k \in DOMAIN st : st[k] \in Seq(Range(st[k])) /\ st[k] # <<>>
    BY <1>2, ParseAssumption
  <2>2. i \in Nat /\ \A k, p \in Nat : st[k][p] \in Word
    BY DEF Word
  <2> HIDE DEF st
  <2>3. Len(st) \in Nat /\ DOMAIN st = 1..Len(st) /\ st \in [1..Len(st) -> Range(st)]
    BY <2>1, LenProperties
  <2>4. ASSUME NEW k \in 1..Len(st) PROVE st[k] \in Seq(Word)
    <3> DEFINE t == st[k]
    <3>1. t \in Seq(Range(t)) /\ k \in Nat
      BY <2>1, <2>3
    <3>2. \A p \in Nat : t[p] \in Word
      BY <2>2, <3>1
    <3> HIDE DEF t
    <3>3. Len(t) \in Nat /\ DOMAIN t = 1..Len(t) /\ t \in [1..Len(t) -> Range(t)]
      BY <3>1, LenProperties
    <3>4. t \in [1..Len(t) -> Word]
      BY <3>2, <3>3
    <3>5. t \in Seq(Word)
      BY <3>3, <3>4, SeqDef
    <3> QED
      BY <3>5 DEF t
  <2>5. st \in [1..Len(st) -> Seq(Word)]
    BY <2>3, <2>4
  <2>6. st \in Seq(Seq(Word))
    BY <2>3, <2>5, SeqDef
  <2> QED
    BY <2>1, <2>3, <2>6 DEF ProperQuery, st
<1> QED
  BY <1>2, <1>3 DEF ProperLoad

\* Its lines.
LineOf ==
  {CommentLine(i) : i \in Nat} \cup {Blank, START_TRAN, END_TRAN} \cup
  {Piece(t, b) : t \in Word, b \in BOOLEAN}

Pieces(query) == [s \in DOMAIN query.statements |-> Shown(query.statements[s])]
LinesTo(query, s) == Len(UpTo(Pieces(query), s))

LEMMA PiecesAre ==
  ASSUME NEW query, ProperQuery(query)
  PROVE  /\ Pieces(query) \in Seq(Seq(LineOf))
         /\ Len(Pieces(query)) = Len(query.statements)
         /\ \A s \in 1..Len(query.statements) :
              /\ Pieces(query)[s] = Shown(query.statements[s])
              /\ Len(Pieces(query)[s]) = Len(query.statements[s])
              /\ Len(query.statements[s]) \in Nat \ {0}
              /\ \A p \in 1..Len(query.statements[s]) :
                   Pieces(query)[s][p] =
                     Piece(query.statements[s][p], p = Len(query.statements[s]))
<1> DEFINE st == query.statements
<1>1. st \in Seq(Seq(Word)) /\ \A s \in 1..Len(st) : st[s] # <<>>
  BY DEF ProperQuery
<1>2. Len(st) \in Nat /\ DOMAIN st = 1..Len(st) /\ \A s \in 1..Len(st) : st[s] \in Seq(Word)
  BY <1>1
<1>3. Pieces(query) = [s \in 1..Len(st) |-> Shown(st[s])]
  BY <1>2 DEF Pieces
<1> HIDE DEF st
<1>4. ASSUME NEW t \in Seq(Word), t # <<>>
      PROVE  /\ Shown(t) \in Seq(LineOf) /\ Len(Shown(t)) = Len(t) /\ Len(t) \in Nat \ {0}
             /\ \A p \in 1..Len(t) : Shown(t)[p] = Piece(t[p], p = Len(t))
  <2>1. Len(t) \in Nat /\ DOMAIN t = 1..Len(t) /\ \A p \in 1..Len(t) : t[p] \in Word
    OBVIOUS
  <2>2. Len(t) # 0
    BY <1>4
  <2>3. Shown(t) = [p \in 1..Len(t) |-> Piece(t[p], p = Len(t))]
    BY <2>1 DEF Shown
  <2>4. \A p \in 1..Len(t) : Piece(t[p], p = Len(t)) \in LineOf
    <3> TAKE p \in 1..Len(t)
    <3> DEFINE last == (p = Len(t))
    <3>1. t[p] \in Word /\ last \in BOOLEAN
      BY <2>1
    <3> HIDE DEF last
    <3>2. Piece(t[p], last) \in LineOf
      BY <3>1 DEF LineOf
    <3> QED
      BY <3>2 DEF last
  <2>5. \A p \in 1..Len(t) : Shown(t)[p] = Piece(t[p], p = Len(t))
    BY <2>3
  <2>6. Shown(t) \in [1..Len(t) -> LineOf]
    BY <2>3, <2>4
  <2>7. Shown(t) \in Seq(LineOf) /\ Len(Shown(t)) = Len(t)
    BY <2>1, <2>6, SeqDef
  <2> QED
    BY <2>1, <2>2, <2>5, <2>7
<1>5. \A s \in 1..Len(st) :
        /\ Shown(st[s]) \in Seq(LineOf) /\ Len(Shown(st[s])) = Len(st[s])
        /\ Len(st[s]) \in Nat \ {0}
        /\ \A p \in 1..Len(st[s]) : Shown(st[s])[p] = Piece(st[s][p], p = Len(st[s]))
  BY <1>1, <1>2, <1>4
<1>6. Pieces(query) \in [1..Len(st) -> Seq(LineOf)]
  BY <1>3, <1>5
<1>7. Pieces(query) \in Seq(Seq(LineOf)) /\ Len(Pieces(query)) = Len(st)
  BY <1>2, <1>6, SeqDef
<1>8. \A s \in 1..Len(st) : Pieces(query)[s] = Shown(st[s])
  BY <1>3
<1> QED
  BY <1>5, <1>7, <1>8 DEF st

LEMMA LinesToIs ==
  ASSUME NEW query, ProperQuery(query)
  PROVE  /\ Len(query.statements) \in Nat
         /\ \A s \in 0..Len(query.statements) : LinesTo(query, s) \in Nat
         /\ LinesTo(query, 0) = 0
         /\ \A s \in 0..(Len(query.statements) - 1) :
              LinesTo(query, s + 1) = LinesTo(query, s) + Len(query.statements[s + 1])
<1> DEFINE n == Len(query.statements)
           P == Pieces(query)
<1>1. n \in Nat
  BY DEF ProperQuery
<1>2. /\ P \in Seq(Seq(LineOf)) /\ Len(P) = n
      /\ \A s \in 1..n : Len(P[s]) = Len(query.statements[s])
  BY PiecesAre
<1> HIDE DEF n, P
<1>3. /\ \A i \in 0..n : UpTo(P, i) \in Seq(LineOf)
      /\ UpTo(P, 0) = <<>>
      /\ \A i \in 0..(n - 1) : UpTo(P, i + 1) = UpTo(P, i) \o P[i + 1]
  BY <1>2, UpToIs
<1>4. ASSUME NEW s \in 0..(n - 1)
      PROVE  Len(UpTo(P, s + 1)) = Len(UpTo(P, s)) + Len(query.statements[s + 1])
  <2>1. s \in 0..n /\ s + 1 \in 1..n
    BY <1>1
  <2>2. UpTo(P, s) \in Seq(LineOf) /\ P[s + 1] \in Seq(LineOf)
    BY <1>2, <1>3, <2>1
  <2>3. UpTo(P, s + 1) = UpTo(P, s) \o P[s + 1]
    BY <1>3
  <2>4. Len(UpTo(P, s + 1)) = Len(UpTo(P, s)) + Len(P[s + 1])
    BY <2>2, <2>3, Joined
  <2> QED
    BY <1>2, <2>1, <2>4
<1>5. \A s \in 0..n : Len(UpTo(P, s)) \in Nat
  BY <1>3
<1>6. Len(UpTo(P, 0)) = 0
  BY <1>3
<1> QED
  BY <1>1, <1>4, <1>5, <1>6 DEF LinesTo, n, P

LEMMA BlockIs ==
  ASSUME NEW query, ProperQuery(query)
  PROVE  LET n == Len(query.statements)
             l == LinesTo(query, n)
             b == Block(query)
         IN  /\ b \in Seq(LineOf) /\ Len(b) = l + 8
             /\ b[1] = CommentLine(0) /\ b[2] = CommentLine(query.id) /\ b[3] = CommentLine(0)
             /\ b[4] = START_TRAN /\ b[5] = Blank
             /\ b[l + 6] = Blank /\ b[l + 7] = END_TRAN /\ b[l + 8] = Blank
             /\ \A s \in 0..(n - 1) : \A p \in 1..Len(query.statements[s + 1]) :
                  b[5 + LinesTo(query, s) + p] =
                    Piece(query.statements[s + 1][p], p = Len(query.statements[s + 1]))
<1> DEFINE n == Len(query.statements)
           l == LinesTo(query, n)
           b == Block(query)
           P == Pieces(query)
           h == <<CommentLine(0), CommentLine(query.id), CommentLine(0), START_TRAN, Blank>>
           m == UpTo(P, n)
           e == <<Blank, END_TRAN, Blank>>
<1>1. n \in Nat /\ l \in Nat /\ query.id \in Nat
  BY LinesToIs DEF ProperQuery
<1>2. P \in Seq(Seq(LineOf)) /\ Len(P) = n
  BY PiecesAre
<1>3. m \in Seq(LineOf) /\ Len(m) = l /\ m = FlattenSeq(P)
  BY <1>1, <1>2, UpToIs DEF LinesTo
<1>4. b = (h \o m) \o e
  BY <1>3 DEF Block, Pieces
<1>5. /\ h \in Seq(LineOf) /\ Len(h) = 5
      /\ h[1] = CommentLine(0) /\ h[2] = CommentLine(query.id) /\ h[3] = CommentLine(0)
      /\ h[4] = START_TRAN /\ h[5] = Blank
  <2>1. /\ CommentLine(0) \in LineOf /\ CommentLine(query.id) \in LineOf
        /\ START_TRAN \in LineOf /\ Blank \in LineOf
    BY <1>1 DEF LineOf
  <2> QED
    BY <2>1
<1>6. e \in Seq(LineOf) /\ Len(e) = 3 /\ e[1] = Blank /\ e[2] = END_TRAN /\ e[3] = Blank
  <2>1. Blank \in LineOf /\ END_TRAN \in LineOf
    BY DEF LineOf
  <2> QED
    BY <2>1
<1> HIDE DEF h, e, b, m, l, n, P
<1>7. /\ b \in Seq(LineOf) /\ Len(b) = l + 8
      /\ \A i \in 1..5 : b[i] = h[i]
      /\ \A i \in 1..l : b[5 + i] = m[i]
      /\ \A i \in 1..3 : b[5 + l + i] = e[i]
  <2> DEFINE c == h \o m
  <2>1. /\ c \in Seq(LineOf) /\ Len(c) = 5 + l
        /\ \A i \in 1..5 : c[i] = h[i]
        /\ \A i \in 1..l : c[5 + i] = m[i]
    <3> HIDE DEF c
    <3>1. c = h \o m
      BY DEF c
    <3>2. h \in Seq(LineOf) /\ m \in Seq(LineOf)
      BY <1>3, <1>5
    <3>3. /\ c \in Seq(LineOf) /\ Len(c) = Len(h) + Len(m)
          /\ \A i \in 1..Len(h) : c[i] = h[i]
          /\ \A i \in 1..Len(m) : c[Len(h) + i] = m[i]
      BY <3>1, <3>2, Joined
    <3> QED
      BY <1>3, <1>5, <3>3
  <2> HIDE DEF c
  <2>2. b = c \o e
    BY <1>4 DEF c
  <2>3. /\ b \in Seq(LineOf) /\ Len(b) = Len(c) + Len(e)
        /\ \A i \in 1..Len(c) : b[i] = c[i]
        /\ \A i \in 1..Len(e) : b[Len(c) + i] = e[i]
    <3>1. c \in Seq(LineOf) /\ e \in Seq(LineOf)
      BY <1>6, <2>1
    <3> QED
      BY <2>2, <3>1, Joined
  <2>4. Len(b) = l + 8 /\ \A i \in 1..3 : b[5 + l + i] = e[i]
    BY <1>1, <1>6, <2>1, <2>3
  <2>5. /\ \A i \in 1..5 : i \in 1..(5 + l)
        /\ \A i \in 1..l : 5 + i \in 1..(5 + l)
    BY <1>1
  <2> QED
    BY <2>1, <2>3, <2>4, <2>5
<1>8. /\ b[1] = CommentLine(0) /\ b[2] = CommentLine(query.id) /\ b[3] = CommentLine(0)
      /\ b[4] = START_TRAN /\ b[5] = Blank
  BY <1>5, <1>7
<1>9. b[l + 6] = Blank /\ b[l + 7] = END_TRAN /\ b[l + 8] = Blank
  <2>1. 5 + l + 1 = l + 6 /\ 5 + l + 2 = l + 7 /\ 5 + l + 3 = l + 8
    BY <1>1
  <2>2. b[5 + l + 1] = e[1] /\ b[5 + l + 2] = e[2] /\ b[5 + l + 3] = e[3]
    BY <1>7
  <2> QED
    BY <1>6, <2>1, <2>2
<1>10. ASSUME NEW s \in 0..(n - 1), NEW p \in 1..Len(query.statements[s + 1])
       PROVE  b[5 + LinesTo(query, s) + p] =
                Piece(query.statements[s + 1][p], p = Len(query.statements[s + 1]))
  <2> DEFINE a == UpTo(P, s)
             x == P[s + 1]
             z == UpTo(P, s + 1)
             k == LinesTo(query, s)
             t == query.statements[s + 1]
  <2>1. s \in 0..n /\ s + 1 \in 0..n /\ s + 1 \in 1..n
    BY <1>1
  <2>2. /\ Len(x) = Len(t) /\ Len(t) \in Nat \ {0}
        /\ \A i \in 1..Len(t) : x[i] = Piece(t[i], i = Len(t))
    BY <2>1, PiecesAre DEF n, P
  <2>3. a \in Seq(LineOf) /\ z = a \o x /\ Len(a) = k
    BY <1>2, <2>1, UpToIs DEF LinesTo, P
  <2>4. x \in Seq(LineOf)
    BY <1>2, <2>1
  <2>5. Len(z) <= Len(m) /\ \A i \in 1..Len(z) : m[i] = z[i]
    <3>1. s + 1 \in 0..Len(P) /\ n \in 0..Len(P) /\ s + 1 <= n
      BY <1>1, <1>2, <2>1
    <3> QED
      BY <1>2, <3>1, UpToPrefix DEF m
  <2> HIDE DEF a, x, z, k, t
  <2>6. k \in Nat /\ p \in 1..Len(t)
    BY <2>3 DEF t
  <2>7. Len(z) = k + Len(t) /\ z[k + p] = x[p]
    <3>1. Len(z) = Len(a) + Len(x) /\ \A i \in 1..Len(x) : z[Len(a) + i] = x[i]
      BY <2>3, <2>4, Joined
    <3> QED
      BY <2>2, <2>3, <2>6, <3>1
  <2>8. m[k + p] = x[p] /\ k + p <= l
    BY <1>3, <2>2, <2>5, <2>6, <2>7
  <2>9. k + p \in 1..l /\ 5 + (k + p) = 5 + k + p
    BY <1>1, <2>6, <2>8
  <2>10. b[5 + k + p] = m[k + p]
    BY <1>7, <2>9
  <2> QED
    BY <2>2, <2>6, <2>8, <2>10 DEF k, t
<1> QED
  BY <1>7, <1>8, <1>9, <1>10 DEF b, l, n

-----------------------------------------------------------------------------
\* What is written of a query.
OutOf ==
  {<<"isolation">>, <<"empty">>} \cup {<<what, i>> : what \in {"insert", "update"}, i \in Nat} \cup
  {<<"exec", t>> : t \in Seq(Word)}

Unplanned(query) == run_type = "E" /\ query.id = 15

\* Its first s statements.
Done(query, s) ==
  IF Unplanned(query) THEN <<>> ELSE [i \in 1..s |-> <<"exec", query.statements[i]>>]

LEMMA TimesAre ==
  ASSUME NEW query, ProperQuery(query), NEW what \in {"insert", "update"}
  PROVE  Times(what, query) \in Seq(OutOf)
<1>1. query.id \in Nat
  BY DEF ProperQuery
<1>2. <<what, query.id>> \in OutOf /\ <<"empty">> \in OutOf
  BY <1>1 DEF OutOf
<1> DEFINE a == <<what, query.id>>
           b == <<"empty">>
<1>3. a \in OutOf /\ b \in OutOf
  BY <1>2
<1>4. Times(what, query) = IF Timed THEN <<a, b>> ELSE <<b>>
  BY DEF Times
<1> HIDE DEF a, b
<1>5. <<a, b>> \in Seq(OutOf) /\ <<b>> \in Seq(OutOf)
  BY <1>3
<1> QED
  BY <1>4, <1>5

LEMMA OpenedIs == Opened \in Seq(OutOf)
<1> DEFINE a == <<"isolation">>
<1>1. a \in OutOf
  BY DEF OutOf
<1>2. Opened = IF Timed THEN <<a>> ELSE <<>>
  BY DEF Opened
<1> HIDE DEF a
<1>3. <<a>> \in Seq(OutOf) /\ <<>> \in Seq(OutOf)
  BY <1>1
<1> QED
  BY <1>2, <1>3

LEMMA DoneWritten ==
  ASSUME NEW query, ProperQuery(query)
  PROVE  /\ \A s \in 0..Len(query.statements) : Done(query, s) \in Seq(OutOf)
         /\ Done(query, 0) = <<>>
         /\ Done(query, Len(query.statements)) = Statements(query)
         /\ \A s \in 0..(Len(query.statements) - 1) :
              Done(query, s + 1) =
                Done(query, s) \o (IF Unplanned(query) THEN <<>>
                                   ELSE <<<<"exec", query.statements[s + 1]>>>>)
<1> DEFINE st == query.statements
           n == Len(st)
           e(i) == <<"exec", st[i]>>
<1>1. /\ n \in Nat /\ DOMAIN st = 1..n /\ \A i \in 1..n : st[i] \in Seq(Word)
  BY DEF ProperQuery
<1>2. \A i \in 1..n : e(i) \in OutOf
  BY <1>1 DEF OutOf
<1> HIDE DEF e
<1>3. \A s : Done(query, s) = IF Unplanned(query) THEN <<>> ELSE [i \in 1..s |-> e(i)]
  BY DEF Done, e
<1>4. Statements(query) = IF Unplanned(query) THEN <<>> ELSE [i \in 1..n |-> e(i)]
  BY <1>1 DEF Statements, Unplanned, e
<1> HIDE DEF n, st
<1>5. ASSUME NEW s \in 0..n
      PROVE  [i \in 1..s |-> e(i)] \in Seq(OutOf)
  <2> DEFINE f == [i \in 1..s |-> e(i)]
  <2>1. \A i \in 1..s : i \in 1..n
    BY <1>1
  <2>2. f \in [1..s -> OutOf]
    BY <1>2, <2>1
  <2>3. s \in Nat
    BY <1>1
  <2> HIDE DEF f
  <2>4. f \in Seq(OutOf)
    BY <2>2, <2>3, SeqDef
  <2> QED
    BY <2>4 DEF f
<1>6. ASSUME NEW s \in 0..n PROVE Done(query, s) \in Seq(OutOf)
  <2>1. <<>> \in Seq(OutOf)
    OBVIOUS
  <2> QED
    BY <1>3, <1>5, <2>1
<1>7. Done(query, 0) = <<>>
  <2>1. [i \in 1..0 |-> e(i)] = <<>>
    OBVIOUS
  <2> QED
    BY <1>3, <2>1
<1>8. ASSUME NEW s \in 0..(n - 1)
      PROVE  Done(query, s + 1) =
               Done(query, s) \o (IF Unplanned(query) THEN <<>> ELSE <<e(s + 1)>>)
  <2>1. s \in 0..n /\ s + 1 \in 0..n /\ s + 1 \in 1..n /\ s \in Nat
    BY <1>1
  <2>2. CASE Unplanned(query)
    <3>1. <<>> \o <<>> = <<>>
      OBVIOUS
    <3> QED
      BY <1>3, <2>2, <3>1
  <2>3. CASE ~Unplanned(query)
    <3> DEFINE f == [i \in 1..s |-> e(i)]
               g == [i \in 1..(s + 1) |-> e(i)]
               x == e(s + 1)
               h == f \o <<x>>
    <3>1. f \in Seq(OutOf) /\ g \in Seq(OutOf) /\ x \in OutOf
      BY <1>2, <1>5, <2>1
    <3>2. Len(f) = s /\ Len(g) = s + 1 /\ \A i \in 1..s : f[i] = e(i)
      BY <2>1
    <3>3. \A i \in 1..(s + 1) : g[i] = e(i)
      OBVIOUS
    <3> HIDE DEF f, g, x
    <3>4. <<x>> \in Seq(OutOf) /\ Len(<<x>>) = 1 /\ <<x>>[1] = x
      BY <3>1
    <3> DEFINE y == <<x>>
    <3>5. y \in Seq(OutOf) /\ Len(y) = 1 /\ y[1] = x /\ h = f \o y
      BY <3>4
    <3> HIDE DEF y, h
    <3>6. /\ h \in Seq(OutOf) /\ Len(h) = Len(f) + Len(y)
          /\ \A i \in 1..Len(f) : h[i] = f[i]
          /\ \A i \in 1..Len(y) : h[Len(f) + i] = y[i]
      <4>1. f \in Seq(OutOf) /\ y \in Seq(OutOf) /\ h = f \o y
        BY <3>1, <3>5
      <4> QED
        BY <4>1, Joined
    <3>7. Len(h) = s + 1 /\ h[s + 1] = x /\ \A i \in 1..s : h[i] = e(i)
      BY <2>1, <3>2, <3>5, <3>6
    <3>8. \A i \in 1..Len(g) : g[i] = h[i]
      <4>1. \A i \in 1..(s + 1) : i \in 1..s \/ i = s + 1
        BY <2>1
      <4> QED
        BY <3>2, <3>3, <3>7, <4>1 DEF x
    <3>9. Len(g) = Len(h)
      BY <3>2, <3>7
    <3>10. g = h
      BY <3>1, <3>6, <3>8, <3>9, SeqEqual
    <3> QED
      BY <1>3, <2>3, <3>10 DEF f, g, h, y, x
  <2> QED
    BY <2>2, <2>3
<1> QED
  BY <1>1, <1>3, <1>4, <1>6, <1>7, <1>8 DEF n, st, e

LEMMA RecordedIs ==
  ASSUME NEW query, ProperQuery(query)
  PROVE  Recorded(query) \in Seq(OutOf)
<1>1. Times("insert", query) \in Seq(OutOf) /\ Times("update", query) \in Seq(OutOf)
  BY TimesAre
<1>2. Statements(query) \in Seq(OutOf)
  <2>1. Len(query.statements) \in Nat
    BY DEF ProperQuery
  <2>2. Len(query.statements) \in 0..Len(query.statements)
    BY <2>1
  <2> QED
    BY <2>2, DoneWritten
<1> QED
  BY <1>1, <1>2 DEF Recorded

-----------------------------------------------------------------------------
\* The lines of the workload, and what is written of its queries.
Blocks  == [q \in DOMAIN workload |-> Block(workload[q])]
Records == [i \in DOMAIN workload |-> Recorded(workload[i])]

\* The lines of the first q queries, and what is written of them.
LinesOf(q) == Len(UpTo(Blocks, q))
Before(q)  == Opened \o UpTo(Records, q)

LEMMA LoadIs ==
  ASSUME ProperLoad(workload)
  PROVE  /\ Len(workload) \in Nat
         /\ Blocks \in Seq(Seq(LineOf)) /\ Len(Blocks) = Len(workload)
         /\ Records \in Seq(Seq(OutOf)) /\ Len(Records) = Len(workload)
         /\ \A q \in 1..Len(workload) :
              Blocks[q] = Block(workload[q]) /\ Records[q] = Recorded(workload[q])
<1> DEFINE n == Len(workload)
<1>1. n \in Nat /\ DOMAIN workload = 1..n /\ \A q \in 1..n : ProperQuery(workload[q])
  BY DEF ProperLoad
<1>2. \A q \in 1..n : Block(workload[q]) \in Seq(LineOf)
  BY <1>1, BlockIs
<1>3. \A q \in 1..n : Recorded(workload[q]) \in Seq(OutOf)
  BY <1>1, RecordedIs
<1> HIDE DEF n
<1>4. /\ Blocks \in [1..n -> Seq(LineOf)]
      /\ \A q \in 1..n : Blocks[q] = Block(workload[q])
  BY <1>1, <1>2 DEF Blocks
<1>5. /\ Records \in [1..n -> Seq(OutOf)]
      /\ \A q \in 1..n : Records[q] = Recorded(workload[q])
  BY <1>1, <1>3 DEF Records
<1>6. Blocks \in Seq(Seq(LineOf)) /\ Len(Blocks) = n
  BY <1>1, <1>4, SeqDef
<1>7. Records \in Seq(Seq(OutOf)) /\ Len(Records) = n
  BY <1>1, <1>5, SeqDef
<1> QED
  BY <1>1, <1>4, <1>5, <1>6, <1>7 DEF n

LEMMA LinesOfIs ==
  ASSUME ProperLoad(workload), NEW q \in 0..(Len(workload) - 1)
  PROVE  LET b == Block(workload[q + 1])
             R == Rendered(workload)
         IN  /\ R \in Seq(LineOf) /\ LinesOf(Len(workload)) = Len(R)
             /\ LinesOf(q) \in Nat /\ Len(b) \in Nat
             /\ LinesOf(q + 1) = LinesOf(q) + Len(b) /\ LinesOf(q + 1) <= Len(R)
             /\ \A k \in 1..Len(b) : R[LinesOf(q) + k] = b[k]
<1> DEFINE n == Len(workload)
           b == Block(workload[q + 1])
           R == Rendered(workload)
           u == UpTo(Blocks, q)
           v == UpTo(Blocks, q + 1)
<1>1. n \in Nat /\ Blocks \in Seq(Seq(LineOf)) /\ Len(Blocks) = n
  BY LoadIs
<1>2. /\ q \in 0..Len(Blocks) /\ q + 1 \in 0..Len(Blocks) /\ n \in 0..Len(Blocks)
      /\ q + 1 <= n /\ q \in 0..(Len(Blocks) - 1) /\ q + 1 \in 1..n
  BY <1>1
<1>3. Blocks[q + 1] = b /\ b \in Seq(LineOf)
  BY <1>1, <1>2, LoadIs
<1>4. R = UpTo(Blocks, n)
  BY <1>1, UpToIs DEF Rendered, Blocks
<1>5. u \in Seq(LineOf) /\ v = u \o b /\ R \in Seq(LineOf)
  BY <1>1, <1>2, <1>3, <1>4, UpToIs
<1>6. Len(v) <= Len(R) /\ \A i \in 1..Len(v) : R[i] = v[i]
  BY <1>1, <1>2, <1>4, UpToPrefix
<1>7. LinesOf(q) = Len(u) /\ LinesOf(q + 1) = Len(v) /\ LinesOf(n) = Len(R)
  BY <1>4 DEF LinesOf
<1> HIDE DEF b, R, u, v, n
<1>8. /\ Len(u) \in Nat /\ Len(b) \in Nat /\ Len(v) = Len(u) + Len(b)
      /\ \A i \in 1..Len(b) : v[Len(u) + i] = b[i]
  BY <1>3, <1>5, Joined
<1>9. ASSUME NEW k \in 1..Len(b) PROVE R[Len(u) + k] = b[k]
  <2>1. Len(u) + k \in 1..Len(v)
    BY <1>8
  <2> QED
    BY <1>6, <1>8, <2>1
<1> QED
  BY <1>5, <1>6, <1>7, <1>8, <1>9 DEF b, R, n

\* All but the first d lines are still to come.
Remaining(d) ==
  /\ lines \in Seq(LineOf) /\ Len(lines) = Len(Rendered(workload)) - d
  /\ \A i \in 1..Len(lines) : lines[i] = Rendered(workload)[d + i]

LEMMA NextInput ==
  ASSUME ProperLoad(workload), NEW q \in 0..(Len(workload) - 1),
         NEW k \in 0..(Len(Block(workload[q + 1])) - 1), Remaining(LinesOf(q) + k)
  PROVE  /\ lines # <<>> /\ Head(lines) = Block(workload[q + 1])[k + 1]
         /\ lines' = Tail(lines) /\ workload' = workload =>
              Remaining(LinesOf(q) + (k + 1))'
<1> DEFINE b == Block(workload[q + 1])
           R == Rendered(workload)
           d == LinesOf(q) + k
<1>1. /\ R \in Seq(LineOf) /\ LinesOf(q) \in Nat /\ Len(b) \in Nat
      /\ LinesOf(q + 1) = LinesOf(q) + Len(b) /\ LinesOf(q + 1) <= Len(R)
      /\ \A i \in 1..Len(b) : R[LinesOf(q) + i] = b[i]
  BY LinesOfIs
<1>2. k \in 0..(Len(b) - 1)
  OBVIOUS
<1>3. /\ lines \in Seq(LineOf) /\ Len(lines) = Len(R) - d
      /\ \A i \in 1..Len(lines) : lines[i] = R[d + i]
  BY DEF Remaining
<1> HIDE DEF b, R, d
<1>4. Len(R) \in Nat /\ d \in Nat /\ d + 1 <= Len(R) /\ R[d + 1] = b[k + 1]
  <2>1. k + 1 \in 1..Len(b) /\ LinesOf(q) + (k + 1) = d + 1 /\ d \in Nat
    BY <1>1, <1>2 DEF d
  <2>2. d + 1 <= Len(R)
    BY <1>1, <1>2, <2>1
  <2> QED
    BY <1>1, <2>1, <2>2
<1>5. Len(lines) \in Nat \ {0} /\ lines[1] = b[k + 1]
  <2>1. Len(lines) \in Nat /\ Len(lines) >= 1
    BY <1>3, <1>4
  <2>2. 1 \in 1..Len(lines)
    BY <2>1
  <2> QED
    BY <1>3, <1>4, <2>1, <2>2
<1>6. lines # <<>> /\ Head(lines) = b[k + 1]
  BY <1>3, <1>5
<1>7. ASSUME lines' = Tail(lines), workload' = workload
      PROVE  Remaining(LinesOf(q) + (k + 1))'
  <2>1. /\ lines' \in Seq(LineOf) /\ Len(lines') = Len(lines) - 1
        /\ \A i \in 1..Len(lines') : lines'[i] = lines[i + 1]
    BY <1>3, <1>6, <1>7, HeadTailProperties
  <2>2. LinesOf(q)' = LinesOf(q) /\ Rendered(workload)' = R
    BY <1>7 DEF LinesOf, Blocks, R
  <2>3. LinesOf(q) + (k + 1) = d + 1
    BY <1>1, <1>2 DEF d
  <2>4. Len(lines') = Len(R) - (d + 1)
    BY <1>3, <1>4, <2>1
  <2>5. ASSUME NEW i \in 1..Len(lines') PROVE lines'[i] = R[(d + 1) + i]
    <3>1. i + 1 \in 1..Len(lines) /\ d + (i + 1) = (d + 1) + i
      BY <1>4, <1>5, <2>1
    <3>2. lines[i + 1] = R[d + (i + 1)]
      BY <1>3, <3>1
    <3> QED
      BY <2>1, <3>1, <3>2
  <2> QED
    BY <2>1, <2>2, <2>3, <2>4, <2>5 DEF Remaining
<1> QED
  BY <1>6, <1>7 DEF b

\* What is written when a query's transaction has begun.
Opening(q) == Before(q) \o Times("insert", workload[q + 1])

LEMMA BeforeIs ==
  ASSUME ProperLoad(workload)
  PROVE  /\ \A q \in 0..Len(workload) : Before(q) \in Seq(OutOf)
         /\ Before(0) = Opened
         /\ Before(Len(workload)) =
              Opened \o FlattenSeq([i \in DOMAIN workload |-> Recorded(workload[i])])
         /\ \A q \in 0..(Len(workload) - 1) :
              /\ Before(q + 1) = Before(q) \o Recorded(workload[q + 1])
              /\ Opening(q) \in Seq(OutOf)
<1> DEFINE n == Len(workload)
           u(q) == UpTo(Records, q)
           o == Opened
<1>1. n \in Nat /\ Records \in Seq(Seq(OutOf)) /\ Len(Records) = n
  BY LoadIs
<1>2. /\ \A q \in 0..n : u(q) \in Seq(OutOf)
      /\ u(0) = <<>>
      /\ \A q \in 0..(n - 1) : u(q + 1) = u(q) \o Records[q + 1]
      /\ u(n) = FlattenSeq(Records)
  BY <1>1, UpToIs
<1>3. o \in Seq(OutOf)
  BY OpenedIs
<1> HIDE DEF u, o
<1>4. \A q \in 0..n : o \o u(q) \in Seq(OutOf)
  BY <1>2, <1>3, ConcatProperties
<1>5. o \o u(0) = o
  BY <1>2, <1>3, ConcatEmptySeq
<1>6. ASSUME NEW q \in 0..(n - 1)
      PROVE  /\ Before(q + 1) = Before(q) \o Recorded(workload[q + 1])
             /\ Opening(q) \in Seq(OutOf)
  <2> DEFINE r == Recorded(workload[q + 1])
             t == Times("insert", workload[q + 1])
  <2>1. q \in 0..n /\ q + 1 \in 1..n
    BY <1>1
  <2>2. ProperQuery(workload[q + 1])
    BY <2>1 DEF ProperLoad, n
  <2>3. r \in Seq(OutOf) /\ t \in Seq(OutOf) /\ Records[q + 1] = r
    BY <2>1, <2>2, RecordedIs, TimesAre, LoadIs DEF n
  <2> HIDE DEF r, t
  <2>4. u(q) \in Seq(OutOf) /\ u(q + 1) = u(q) \o r
    BY <1>2, <2>1, <2>3
  <2>5. o \o (u(q) \o r) = (o \o u(q)) \o r
    <3> DEFINE a == u(q)
    <3>1. a \in Seq(OutOf)
      BY <2>4
    <3> HIDE DEF a
    <3>2. (o \o a) \o r = o \o (a \o r)
      <4>1. o \in Seq(OutOf) /\ a \in Seq(OutOf) /\ r \in Seq(OutOf)
        BY <1>3, <2>3, <3>1
      <4> QED
        BY <4>1, ConcatAssociative
    <3> QED
      BY <3>2 DEF a
  <2>6. o \o u(q) \in Seq(OutOf)
    BY <1>4, <2>1
  <2>7. (o \o u(q)) \o t \in Seq(OutOf)
    BY <2>3, <2>6, ConcatProperties
  <2> QED
    BY <2>4, <2>5, <2>7 DEF Before, Opening, o, u, r, t
<1> QED
  BY <1>2, <1>4, <1>5, <1>6 DEF Before, o, u, n, Records

-----------------------------------------------------------------------------
\* Where parse_query is between two queries,
Arrived(q) ==
  /\ parse_pc = "read" /\ Remaining(LinesOf(q))
  /\ statement = <<>> /\ out = Before(q)

\* in the lines before the statements of one, k of its lines read,
InHead(q, k) ==
  /\ k \in 1..4 /\ statement = <<>>
  /\ k >= 2 => query_id = workload[q + 1].id
  /\ \/ parse_pc = "read" /\ k <= 3 /\ out = Before(q)
     \/ parse_pc = "begin" /\ k = 4 /\ out = Before(q)
     \/ parse_pc = "read" /\ k = 4 /\ out = Opening(q)

\* in its statements, of which s are written, p lines read of the next one, or all of them,
InLines(q, k, query, s, p) ==
  /\ parse_pc = "read" /\ k = 5 + LinesTo(query, s) + p
  /\ statement = SubSeq(query.statements[s + 1], 1, p)
  /\ out = Opening(q) \o Done(query, s)
AtEnd(q, k, query, s) ==
  /\ parse_pc = "statement" /\ k = 5 + LinesTo(query, s + 1)
  /\ statement = query.statements[s + 1]
  /\ out = Opening(q) \o Done(query, s)

InBody(q, k) ==
  LET query == workload[q + 1]
  IN  /\ query_id = query.id
      /\ \E s \in 0..(Len(query.statements) - 1) :
           \/ \E p \in 0..(Len(query.statements[s + 1]) - 1) : InLines(q, k, query, s, p)
           \/ AtEnd(q, k, query, s)

\* and in those after them.
InTail(q, k) ==
  LET query == workload[q + 1]
      n == Len(query.statements)
      l == LinesTo(query, n)
  IN  /\ query_id = query.id /\ statement = <<>>
      /\ \/ /\ parse_pc = "read" /\ k \in {l + 5, l + 6}
            /\ out = Opening(q) \o Done(query, n)
         \/ parse_pc = "block" /\ k = l + 7 /\ out = Opening(q) \o Done(query, n)
         \/ parse_pc = "read" /\ k = l + 7 /\ out = Before(q + 1)

Within(q) ==
  \E k \in 0..Len(Block(workload[q + 1])) :
    Remaining(LinesOf(q) + k) /\ (InHead(q, k) \/ InBody(q, k) \/ InTail(q, k))

Parsing ==
  \/ \E q \in 0..Len(workload) : Arrived(q)
  \/ \E q \in 0..(Len(workload) - 1) : Within(q)

ParseInv ==
  /\ parse_pc \in {"open", "read", "begin", "statement", "block", "eof"}
  /\ parse_pc = "open" => statement = <<>>
  /\ parse_pc \in {"read", "begin", "statement", "block"} => workload \in Workloads /\ Parsing
  /\ parse_pc = "eof" => Executed

\* The line that is next says which step is.
LEMMA OneRead ==
  ASSUME NEW x, parse_pc = "read", lines # <<>>, Head(lines) = x, ParseNext
  PROVE  /\ lines' = Tail(lines) /\ run_type' = run_type /\ workload' = workload /\ out' = out
         /\ x.kind = "comment" => parse_pc' = "read" /\ query_id' = Number(x) /\ statement' = statement
         /\ x.kind = "blank" => parse_pc' = "read" /\ query_id' = query_id /\ statement' = statement
         /\ x = START_TRAN => parse_pc' = "begin" /\ query_id' = query_id /\ statement' = statement
         /\ x = END_TRAN => parse_pc' = "block" /\ query_id' = query_id /\ statement' = statement
         /\ x.kind = "sql" => /\ parse_pc' = (IF x.ends THEN "statement" ELSE "read")
                              /\ query_id' = query_id /\ statement' = Append(statement, x.text)
<1>1. SkipBlank \/ ReadComment \/ ReadTransaction \/ ReadSql
  BY DEF ParseNext, OpenFiles, ReadEof, WriteBegin, WriteStatement, WriteEnd
<1>2. START_TRAN.kind = "start" /\ END_TRAN.kind = "commit" /\ START_TRAN # END_TRAN
  <2>1. START_TRAN.kind = "start" /\ END_TRAN.kind = "commit"
    BY DEF START_TRAN, END_TRAN
  <2> QED
    BY <2>1
<1> HIDE DEF START_TRAN, END_TRAN
<1>3. CASE SkipBlank
  BY <1>2, <1>3 DEF SkipBlank, Line_, Consume
<1>4. CASE ReadComment
  BY <1>2, <1>4 DEF ReadComment, Line_, Consume
<1>5. CASE ReadTransaction
  BY <1>2, <1>5 DEF ReadTransaction, Line_, Consume
<1>6. CASE ReadSql
  BY <1>2, <1>6 DEF ReadSql, Line_, Consume
<1> QED
  BY <1>1, <1>3, <1>4, <1>5, <1>6

\* The workload stays what it is.
LEMMA LoadSame ==
  ASSUME run_type' = run_type, workload' = workload
  PROVE  /\ \A q : Before(q)' = Before(q) /\ Opening(q)' = Opening(q) /\ LinesOf(q)' = LinesOf(q)
         /\ \A query, s : Done(query, s)' = Done(query, s)
<1>1. Timed' <=> Timed
  BY DEF Timed
<1>2. Opened' = Opened
  BY <1>1 DEF Opened
<1>3. \A what, query : Times(what, query)' = Times(what, query)
  BY <1>1 DEF Times
<1>4. \A query : Statements(query)' = Statements(query)
  BY DEF Statements
<1>5. \A query : Recorded(query)' = Recorded(query)
  BY <1>3, <1>4 DEF Recorded
<1>6. Records' = Records /\ Blocks' = Blocks
  BY <1>5 DEF Records, Blocks
<1>7. \A query, s : Done(query, s)' = Done(query, s)
  BY DEF Done, Unplanned
<1> QED
  BY <1>2, <1>3, <1>6, <1>7 DEF Before, Opening, LinesOf

LEMMA BlockAt ==
  ASSUME NEW query, ProperQuery(query)
  PROVE  /\ Len(query.statements) \in Nat /\ LinesTo(query, Len(query.statements)) \in Nat
         /\ Len(Block(query)) \in Nat /\ Len(Block(query)) >= 8
         /\ Len(Block(query)) = LinesTo(query, Len(query.statements)) + 8
         /\ Block(query)[1] = CommentLine(0) /\ Block(query)[2] = CommentLine(query.id)
         /\ Block(query)[3] = CommentLine(0) /\ Block(query)[4] = START_TRAN
         /\ Block(query)[5] = Blank
<1> DEFINE n == Len(query.statements)
           l == LinesTo(query, n)
           b == Block(query)
<1>1. n \in Nat /\ l \in Nat
  <2>1. n \in Nat /\ \A s \in 0..n : LinesTo(query, s) \in Nat
    BY LinesToIs
  <2> QED
    BY <2>1
<1>2. /\ Len(b) = l + 8
      /\ b[1] = CommentLine(0) /\ b[2] = CommentLine(query.id) /\ b[3] = CommentLine(0)
      /\ b[4] = START_TRAN /\ b[5] = Blank
  BY BlockIs
<1> HIDE DEF n, l, b
<1>3. Len(b) \in Nat /\ Len(b) >= 8
  BY <1>1, <1>2
<1> QED
  BY <1>1, <1>2, <1>3 DEF n, l, b

\* The step from a place between two queries.
LEMMA FromArrived ==
  ASSUME ProperLoad(workload), NEW q \in 0..(Len(workload) - 1), Arrived(q), ParseNext
  PROVE  Within(q)' /\ parse_pc' = "read" /\ workload' = workload
<1> DEFINE b == Block(workload[q + 1])
           x == CommentLine(0)
<1>1. ProperQuery(workload[q + 1])
  BY DEF ProperLoad
<1>2. Len(b) \in Nat /\ Len(b) >= 8 /\ b[1] = x
  BY <1>1, BlockAt
<1>3. x.kind = "comment"
  BY DEF CommentLine
<1> HIDE DEF x
<1>4. parse_pc = "read" /\ Remaining(LinesOf(q)) /\ statement = <<>> /\ out = Before(q)
  BY DEF Arrived
<1>5. LinesOf(q) + 0 = LinesOf(q) /\ 0 \in 0..(Len(b) - 1)
  BY <1>2, LinesOfIs
<1>6. /\ lines # <<>> /\ Head(lines) = x
      /\ lines' = Tail(lines) /\ workload' = workload => Remaining(LinesOf(q) + 1)'
  BY <1>2, <1>4, <1>5, NextInput
<1>7. /\ lines' = Tail(lines) /\ run_type' = run_type /\ workload' = workload /\ out' = out
      /\ parse_pc' = "read" /\ statement' = statement
  BY <1>3, <1>4, <1>6, OneRead
<1>8. Before(q)' = Before(q)
  BY <1>7, LoadSame
<1>9. InHead(q, 1)'
  BY <1>4, <1>7, <1>8 DEF InHead
<1>10. 1 \in 0..Len(b)
  BY <1>2
<1>11. Block(workload[q + 1])' = b
  BY <1>7
<1> QED
  BY <1>6, <1>7, <1>9, <1>10, <1>11 DEF Within

\* The steps in the lines before the statements.
LEMMA FromHead ==
  ASSUME ProperLoad(workload), NEW q \in 0..(Len(workload) - 1),
         NEW k \in 0..Len(Block(workload[q + 1])), Remaining(LinesOf(q) + k), InHead(q, k), ParseNext
  PROVE  Within(q)' /\ parse_pc' \in {"read", "begin"} /\ workload' = workload
<1> DEFINE query == workload[q + 1]
           b == Block(query)
           n == Len(query.statements)
<1>1. ProperQuery(query) /\ query.id \in Nat \ {0}
  BY DEF ProperLoad, ProperQuery
<1>2. /\ Len(b) \in Nat /\ Len(b) >= 8 /\ n \in Nat
      /\ b[2] = CommentLine(query.id) /\ b[3] = CommentLine(0) /\ b[4] = START_TRAN /\ b[5] = Blank
  BY <1>1, BlockAt
<1>3. k \in 1..4 /\ k \in 0..(Len(b) - 1) /\ k + 1 \in 0..Len(b)
  BY <1>2 DEF InHead
<1>4. /\ lines # <<>> /\ Head(lines) = b[k + 1]
      /\ lines' = Tail(lines) /\ workload' = workload => Remaining(LinesOf(q) + (k + 1))'
  BY <1>3, NextInput
<1>5. \A i : CommentLine(i).kind = "comment" /\ CommentLine(i).id = i
  BY DEF CommentLine
<1>6. Blank.kind = "blank"
  BY DEF Blank
<1>7. statement = <<>> /\ (k >= 2 => query_id = query.id)
  BY DEF InHead
<1> HIDE DEF b
<1>8. ASSUME run_type' = run_type, workload' = workload
      PROVE  /\ Before(q)' = Before(q) /\ Opening(q)' = Opening(q) /\ LinesOf(q)' = LinesOf(q)
             /\ Done(query, 0)' = Done(query, 0) /\ Block(workload[q + 1])' = b
  BY <1>8, LoadSame DEF b
<1>9. CASE parse_pc = "read" /\ k \in {1, 2} /\ out = Before(q)
  <2>1. b[k + 1].kind = "comment" /\ b[k + 1].id = (IF k = 1 THEN query.id ELSE 0)
    BY <1>2, <1>5, <1>9
  <2>2. /\ lines' = Tail(lines) /\ run_type' = run_type /\ workload' = workload /\ out' = out
        /\ parse_pc' = "read" /\ query_id' = Number(b[k + 1]) /\ statement' = statement
    BY <1>4, <1>9, <2>1, OneRead
  <2>3. query_id' = query.id
    BY <1>1, <1>7, <1>9, <2>1, <2>2 DEF Number
  <2>4. InHead(q, k + 1)'
    BY <1>3, <1>7, <1>8, <1>9, <2>2, <2>3 DEF InHead
  <2> QED
    BY <1>3, <1>4, <1>8, <2>2, <2>4 DEF Within
<1>10. CASE parse_pc = "read" /\ k = 3 /\ out = Before(q)
  <2>1. b[k + 1] = START_TRAN
    BY <1>2, <1>10
  <2>2. /\ lines' = Tail(lines) /\ run_type' = run_type /\ workload' = workload /\ out' = out
        /\ parse_pc' = "begin" /\ query_id' = query_id /\ statement' = statement
    BY <1>4, <1>10, <2>1, OneRead
  <2>3. InHead(q, k + 1)'
    BY <1>3, <1>7, <1>8, <1>10, <2>2 DEF InHead
  <2> QED
    BY <1>3, <1>4, <1>8, <2>2, <2>3 DEF Within
<1>11. CASE parse_pc = "begin" /\ k = 4 /\ out = Before(q)
  <2>1. WriteBegin
    BY <1>11 DEF ParseNext, OpenFiles, SkipBlank, ReadComment, ReadTransaction, ReadSql, Line_,
                 ReadEof, WriteStatement, WriteEnd
  <2>2. /\ statement' = <<>> /\ parse_pc' = "read" /\ run_type' = run_type
        /\ workload' = workload /\ lines' = lines /\ query_id' = query_id
    BY <2>1 DEF WriteBegin, Written_
  <2>3. out' = Opening(q)
    <3>1. query_id = query.id
      BY <1>7, <1>11
    <3>2. out' = out \o Times("insert", query)
      BY <2>1, <3>1 DEF WriteBegin, Written_, Times
    <3> QED
      BY <1>11, <3>2 DEF Opening
  <2>4. InHead(q, 4)'
    BY <1>7, <1>8, <1>11, <2>2, <2>3 DEF InHead
  <2>5. Remaining(LinesOf(q) + 4)'
    BY <1>8, <1>11, <2>2 DEF Remaining
  <2>6. 4 \in 0..Len(b)
    BY <1>2
  <2> QED
    BY <1>8, <2>2, <2>4, <2>5, <2>6 DEF Within
<1>12. CASE parse_pc = "read" /\ k = 4 /\ out = Opening(q)
  <2>1. b[k + 1].kind = "blank"
    BY <1>2, <1>6, <1>12
  <2>2. /\ lines' = Tail(lines) /\ run_type' = run_type /\ workload' = workload /\ out' = out
        /\ parse_pc' = "read" /\ query_id' = query_id /\ statement' = statement
    BY <1>4, <1>12, <2>1, OneRead
  <2>3. out' = Opening(q) \o Done(query, 0)
    <3>1. Done(query, 0) = <<>> /\ Opening(q) \in Seq(OutOf)
      BY <1>1, DoneWritten, BeforeIs
    <3>2. Opening(q) \o <<>> = Opening(q)
      BY <3>1, ConcatEmptySeq
    <3> QED
      BY <1>12, <2>2, <3>1, <3>2
  <2>4. LinesTo(query, 0) = 0
    BY <1>1, LinesToIs
  <2>5. (InBody(q, 5) \/ InTail(q, 5))'
    <3>1. CASE n = 0
      <4>1. InTail(q, 5)'
        BY <1>7, <1>8, <1>12, <2>2, <2>3, <2>4, <3>1 DEF InTail
      <4> QED
        BY <4>1
    <3>2. CASE n # 0
      <4> DEFINE t == query.statements[1]
      <4>1. 0 \in 0..(n - 1) /\ Len(t) \in Nat \ {0} /\ t \in Seq(Word)
        <5>1. 1 \in 1..n /\ 0 \in 0..(n - 1)
          BY <1>2, <3>2
        <5>2. query.statements \in Seq(Seq(Word)) /\ query.statements[1] # <<>>
          BY <1>1, <5>1 DEF ProperQuery
        <5>3. t \in Seq(Word)
          BY <5>1, <5>2
        <5> HIDE DEF t
        <5>4. t # <<>>
          BY <5>2 DEF t
        <5> QED
          BY <5>1, <5>3, <5>4
      <4>2. SubSeq(t, 1, 0) = <<>> /\ 0 \in 0..(Len(t) - 1)
        BY <4>1
      <4>3. InBody(q, 5)'
        <5>1. query_id' = query.id /\ statement' = SubSeq(t, 1, 0) /\ parse_pc' = "read"
          BY <1>7, <1>12, <2>2, <4>2
        <5>2. out' = (Opening(q) \o Done(query, 0))' /\ workload' = workload
          BY <1>8, <2>2, <2>3
        <5>3. 5 = 5 + LinesTo(query, 0) + 0 /\ 0 + 1 = 1
          BY <2>4
        <5> HIDE DEF t
        <5> QED
          BY <1>8, <4>1, <4>2, <5>1, <5>2, <5>3 DEF InBody, InLines, t
      <4> QED
        BY <4>3
    <3> QED
      BY <3>1, <3>2
  <2>6. k + 1 = 5
    BY <1>12
  <2> QED
    BY <1>3, <1>4, <1>8, <2>2, <2>5, <2>6 DEF Within
<1> QED
  BY <1>3, <1>9, <1>10, <1>11, <1>12 DEF InHead

\* A statement's lines in the block.
LEMMA StatementAt ==
  ASSUME NEW query, ProperQuery(query), NEW s \in 0..(Len(query.statements) - 1)
  PROVE  /\ query.statements[s + 1] \in Seq(Word) /\ Len(query.statements[s + 1]) \in Nat \ {0}
         /\ LinesTo(query, s) \in Nat
         /\ LinesTo(query, s + 1) = LinesTo(query, s) + Len(query.statements[s + 1])
         /\ 5 + LinesTo(query, s) + Len(query.statements[s + 1]) <= Len(Block(query)) - 3
         /\ \A p \in 1..Len(query.statements[s + 1]) :
              Block(query)[5 + LinesTo(query, s) + p] =
                Piece(query.statements[s + 1][p], p = Len(query.statements[s + 1]))
<1> DEFINE n == Len(query.statements)
           t == query.statements[s + 1]
           l(i) == LinesTo(query, i)
           b == Block(query)
<1>1. n \in Nat /\ s \in 0..n /\ s + 1 \in 1..n /\ s + 1 \in 0..n /\ n \in 0..n /\ s + 1 <= n
  BY LinesToIs
<1>2. t \in Seq(Word) /\ Len(t) \in Nat \ {0}
  <2>1. query.statements \in Seq(Seq(Word)) /\ t # <<>>
    BY <1>1 DEF ProperQuery
  <2>2. t \in Seq(Word)
    BY <1>1, <2>1
  <2> HIDE DEF t
  <2> QED
    BY <2>1, <2>2
<1>3. l(s) \in Nat /\ l(s + 1) = l(s) + Len(t) /\ l(n) \in Nat
  BY <1>1, LinesToIs
<1>4. l(s + 1) <= l(n)
  <2> DEFINE P == Pieces(query)
  <2>1. P \in Seq(Seq(LineOf)) /\ Len(P) = n
    BY PiecesAre
  <2>2. s + 1 \in 0..Len(P) /\ n \in 0..Len(P)
    BY <1>1, <2>1
  <2> HIDE DEF P, n
  <2>3. Len(UpTo(P, s + 1)) <= Len(UpTo(P, n))
    BY <1>1, <2>1, <2>2, UpToPrefix
  <2> QED
    BY <2>3 DEF LinesTo, P
<1>5. Len(b) = l(n) + 8
  BY BlockAt
<1>6. \A p \in 1..Len(t) : b[5 + l(s) + p] = Piece(t[p], p = Len(t))
  BY BlockIs
<1>7. 5 + l(s) + Len(t) <= Len(b) - 3
  <2> HIDE DEF t, l, b, n
  <2> QED
    BY <1>2, <1>3, <1>4, <1>5
<1> QED
  BY <1>2, <1>3, <1>6, <1>7

LEMMA OneMore ==
  ASSUME NEW E, NEW t \in Seq(E), NEW p \in 0..(Len(t) - 1)
  PROVE  Append(SubSeq(t, 1, p), t[p + 1]) = SubSeq(t, 1, p + 1)
<1> DEFINE a == SubSeq(t, 1, p)
           c == Append(a, t[p + 1])
           d == SubSeq(t, 1, p + 1)
<1>1. Len(t) \in Nat /\ p \in Nat /\ p + 1 \in 1..Len(t) /\ \A i \in 1..Len(t) : t[i] \in E
  OBVIOUS
<1>2. a \in Seq(E) /\ Len(a) = p /\ \A i \in 1..p : a[i] = t[i]
  <2>1. \A i \in 1..p : t[i] \in E
    BY <1>1
  <2> QED
    BY <1>1, <2>1
<1>3. d \in Seq(E) /\ Len(d) = p + 1 /\ \A i \in 1..(p + 1) : d[i] = t[i]
  <2>1. \A i \in 1..(p + 1) : t[i] \in E
    BY <1>1
  <2> QED
    BY <1>1, <2>1
<1>4. t[p + 1] \in E
  BY <1>1
<1> HIDE DEF a, d
<1>5. c \in Seq(E) /\ Len(c) = p + 1 /\ c[p + 1] = t[p + 1] /\ \A i \in 1..p : c[i] = a[i]
  BY <1>2, <1>4, AppendProperties
<1> HIDE DEF c
<1>6. \A i \in 1..Len(c) : c[i] = d[i]
  <2>1. \A i \in 1..(p + 1) : i \in 1..p \/ i = p + 1
    BY <1>1
  <2> QED
    BY <1>1, <1>2, <1>3, <1>5, <2>1
<1>7. c = d
  BY <1>3, <1>5, <1>6, SeqEqual
<1> QED
  BY <1>7 DEF a, c, d

\* A line of a statement.
LineIs(query, s, t, p, k) ==
  /\ k \in 0..(Len(Block(query)) - 1) /\ k + 1 \in 0..Len(Block(query))
  /\ Block(query)[k + 1] = Piece(t[p + 1], p + 1 = Len(t))
  /\ Append(SubSeq(t, 1, p), t[p + 1]) = SubSeq(t, 1, p + 1)
  /\ k + 1 = 5 + LinesTo(query, s) + (p + 1)
  /\ p + 1 = Len(t) => SubSeq(t, 1, p + 1) = t /\ k + 1 = 5 + LinesTo(query, s + 1)
  /\ p + 1 # Len(t) => p + 1 \in 0..(Len(t) - 1)

LEMMA LineAt ==
  ASSUME NEW query, ProperQuery(query), NEW s \in 0..(Len(query.statements) - 1),
         NEW p \in 0..(Len(query.statements[s + 1]) - 1)
  PROVE  LineIs(query, s, query.statements[s + 1], p, 5 + LinesTo(query, s) + p)
<1> DEFINE t == query.statements[s + 1]
           l == LinesTo(query, s)
           k == 5 + l + p
           b == Block(query)
           m == Len(t)
           c == Len(b)
<1>1. /\ t \in Seq(Word) /\ m \in Nat \ {0} /\ l \in Nat
      /\ LinesTo(query, s + 1) = l + m /\ 5 + l + m <= c - 3
      /\ \A i \in 1..m : b[5 + l + i] = Piece(t[i], i = m)
  <2>1. t \in Seq(Word) /\ m \in Nat \ {0} /\ l \in Nat
    BY StatementAt
  <2>2. LinesTo(query, s + 1) = l + m
    BY StatementAt
  <2>3. 5 + l + m <= c - 3
    BY StatementAt
  <2>4. \A i \in 1..m : b[5 + l + i] = Piece(t[i], i = m)
    BY StatementAt
  <2> HIDE DEF t, l, b, m, c
  <2> QED
    BY <2>1, <2>2, <2>3, <2>4
<1>2. c \in Nat
  BY BlockAt
<1>3. p \in 0..(m - 1)
  OBVIOUS
<1> HIDE DEF t, l, b, m, c
<1>4. /\ p + 1 \in 1..m /\ k + 1 = 5 + l + (p + 1)
      /\ k \in 0..(c - 1) /\ k + 1 \in 0..c
      /\ p + 1 = m => k + 1 = 5 + (l + m)
      /\ p + 1 # m => p + 1 \in 0..(m - 1)
  BY <1>1, <1>2, <1>3
<1>5. b[k + 1] = Piece(t[p + 1], p + 1 = m)
  BY <1>1, <1>4
<1>6. Append(SubSeq(t, 1, p), t[p + 1]) = SubSeq(t, 1, p + 1)
  BY <1>1, <1>3, OneMore DEF m
<1>7. p + 1 = m => SubSeq(t, 1, p + 1) = t
  BY <1>1, SubSeqFull DEF m
<1>8. p + 1 = m => k + 1 = 5 + LinesTo(query, s + 1)
  <2>1. 5 + (l + m) = 5 + LinesTo(query, s + 1)
    BY <1>1
  <2> QED
    BY <1>4, <2>1
<1> QED
  BY <1>4, <1>5, <1>6, <1>7, <1>8 DEF LineIs, t, l, b, m, c

\* What is written of one more statement.
LEMMA WrittenMore ==
  ASSUME NEW query, ProperQuery(query), NEW s \in 0..(Len(query.statements) - 1),
         NEW o \in Seq(OutOf)
  PROVE  (o \o Done(query, s)) \o
           (IF Unplanned(query) THEN <<>> ELSE <<<<"exec", query.statements[s + 1]>>>>) =
             o \o Done(query, s + 1)
<1> DEFINE t == query.statements[s + 1]
           d == Done(query, s)
           e == Done(query, s + 1)
           y == IF Unplanned(query) THEN <<>> ELSE <<<<"exec", t>>>>
           z == <<"exec", t>>
<1>1. Len(query.statements) \in Nat /\ s \in 0..Len(query.statements)
  BY LinesToIs
<1>2. d \in Seq(OutOf) /\ e = d \o y
  BY <1>1, DoneWritten
<1>3. z \in OutOf
  <2>1. t \in Seq(Word)
    BY StatementAt
  <2> HIDE DEF t
  <2> QED
    BY <2>1 DEF OutOf
<1>4. y \in Seq(OutOf)
  <2> HIDE DEF z
  <2>1. <<z>> \in Seq(OutOf) /\ <<>> \in Seq(OutOf)
    BY <1>3
  <2> QED
    BY <2>1 DEF z
<1> HIDE DEF d, e, y
<1>5. (o \o d) \o y = o \o (d \o y)
  BY <1>2, <1>4, ConcatAssociative
<1> QED
  BY <1>2, <1>5 DEF d, e, y

\* The steps in the statements: a line of one,
LEMMA FromLine ==
  ASSUME ProperLoad(workload), NEW q \in 0..(Len(workload) - 1), NEW k, Remaining(LinesOf(q) + k),
         NEW query, query = workload[q + 1], query_id = query.id,
         NEW s \in 0..(Len(query.statements) - 1),
         NEW p \in 0..(Len(query.statements[s + 1]) - 1), InLines(q, k, query, s, p), ParseNext
  PROVE  Within(q)' /\ parse_pc' \in {"read", "statement"} /\ workload' = workload
<1> DEFINE t == query.statements[s + 1]
           b == Block(query)
           last == (p + 1 = Len(t))
           x == Piece(t[p + 1], last)
<1>1. ProperQuery(query)
  <2>1. Len(workload) \in Nat /\ q + 1 \in 1..Len(workload)
    BY DEF ProperLoad
  <2> QED
    BY <2>1 DEF ProperLoad
<1>2. /\ parse_pc = "read" /\ k = 5 + LinesTo(query, s) + p /\ statement = SubSeq(t, 1, p)
      /\ out = Opening(q) \o Done(query, s)
  BY DEF InLines
<1>3. /\ k \in 0..(Len(b) - 1) /\ k + 1 \in 0..Len(b)
      /\ b[k + 1] = x
      /\ Append(SubSeq(t, 1, p), t[p + 1]) = SubSeq(t, 1, p + 1)
      /\ k + 1 = 5 + LinesTo(query, s) + (p + 1)
      /\ last => SubSeq(t, 1, p + 1) = t /\ k + 1 = 5 + LinesTo(query, s + 1)
      /\ ~last => p + 1 \in 0..(Len(t) - 1)
  <2>1. LineIs(query, s, t, p, k)
    BY <1>1, <1>2, LineAt
  <2> HIDE DEF t
  <2> QED
    BY <2>1 DEF LineIs
<1>4. x.kind = "sql" /\ x.text = t[p + 1] /\ x.ends = last
  BY DEF Piece
<1> HIDE DEF b, x, last, t
<1>5. /\ lines # <<>> /\ Head(lines) = x
      /\ lines' = Tail(lines) /\ workload' = workload => Remaining(LinesOf(q) + (k + 1))'
  BY <1>3, NextInput DEF b
<1>6. /\ lines' = Tail(lines) /\ run_type' = run_type /\ workload' = workload /\ out' = out
      /\ parse_pc' = (IF x.ends THEN "statement" ELSE "read")
      /\ query_id' = query_id /\ statement' = Append(statement, x.text)
  BY <1>2, <1>4, <1>5, OneRead
<1>7. Opening(q)' = Opening(q) /\ Done(query, s)' = Done(query, s)
  BY <1>6, LoadSame
<1>8. statement' = SubSeq(t, 1, p + 1)
  BY <1>2, <1>3, <1>4, <1>6
<1>9. workload'[q + 1] = query
  BY <1>6
<1>10. InBody(q, k + 1)'
  <2>1. CASE last
    <3>1. AtEnd(q, k + 1, query, s)'
      BY <1>2, <1>3, <1>4, <1>6, <1>7, <1>8, <2>1 DEF AtEnd, t
    <3> QED
      BY <1>6, <1>9, <3>1 DEF InBody
  <2>2. CASE ~last
    <3>1. InLines(q, k + 1, query, s, p + 1)'
      BY <1>2, <1>3, <1>4, <1>6, <1>7, <1>8, <2>2 DEF InLines, t
    <3> QED
      BY <1>3, <1>6, <1>9, <2>2, <3>1 DEF InBody, t
  <2> QED
    BY <2>1, <2>2
<1>11. LinesOf(q)' = LinesOf(q) /\ Block(workload[q + 1])' = b
  BY <1>6, <1>9, LoadSame DEF b
<1>12. Within(q)'
  BY <1>3, <1>5, <1>6, <1>10, <1>11 DEF Within
<1> QED
  BY <1>6, <1>12

\* ... and the statement is written.
LEMMA FromStatement ==
  ASSUME ProperLoad(workload), NEW q \in 0..(Len(workload) - 1), NEW k, Remaining(LinesOf(q) + k),
         NEW query, query = workload[q + 1], query_id = query.id,
         NEW s \in 0..(Len(query.statements) - 1),
         AtEnd(q, k, query, s), ParseNext
  PROVE  Within(q)' /\ parse_pc' = "read" /\ workload' = workload
<1> DEFINE t == query.statements[s + 1]
           b == Block(query)
           n == Len(query.statements)
           y == IF Unplanned(query) THEN <<>> ELSE <<<<"exec", t>>>>
<1>1. ProperQuery(query)
  <2>1. Len(workload) \in Nat /\ q + 1 \in 1..Len(workload)
    BY DEF ProperLoad
  <2> QED
    BY <2>1 DEF ProperLoad
<1>14. /\ parse_pc = "statement" /\ k = 5 + LinesTo(query, s + 1) /\ statement = t
       /\ out = Opening(q) \o Done(query, s)
  BY DEF AtEnd
<1>2. /\ t \in Seq(Word) /\ Len(t) \in Nat \ {0} /\ LinesTo(query, s) \in Nat
      /\ LinesTo(query, s + 1) = LinesTo(query, s) + Len(t)
      /\ 5 + LinesTo(query, s) + Len(t) <= Len(b) - 3
  BY <1>1, StatementAt
<1>3. Len(b) \in Nat /\ Len(b) = LinesTo(query, n) + 8 /\ n \in Nat
  BY <1>1, BlockAt
<1>4. k \in 0..Len(b)
  <2> DEFINE m == Len(t)
             c == Len(b)
             l == LinesTo(query, s)
  <2>1. m \in Nat /\ l \in Nat /\ c \in Nat /\ 5 + l + m <= c - 3 /\ k = 5 + (l + m)
    BY <1>2, <1>3, <1>14
  <2> HIDE DEF m, c, l
  <2>2. k \in 0..c
    BY <2>1
  <2> QED
    BY <2>2 DEF c
<1>5. WriteStatement
  BY <1>14 DEF ParseNext, OpenFiles, SkipBlank, ReadComment, ReadTransaction, ReadSql, Line_,
         ReadEof, WriteBegin, WriteEnd
<1>6. /\ statement' = <<>> /\ parse_pc' = "read" /\ run_type' = run_type
      /\ workload' = workload /\ lines' = lines /\ query_id' = query_id
  BY <1>5 DEF WriteStatement, Written_
<1>7. out' = out \o y
  BY <1>5, <1>14 DEF WriteStatement, Written_, Unplanned
<1>8. /\ Opening(q)' = Opening(q) /\ LinesOf(q)' = LinesOf(q)
      /\ Done(query, s + 1)' = Done(query, s + 1) /\ Block(workload[q + 1])' = b
  BY <1>6, LoadSame
<1>9. out' = Opening(q) \o Done(query, s + 1)
  <2>1. Opening(q) \in Seq(OutOf)
    BY BeforeIs
  <2>2. out' = (Opening(q) \o Done(query, s)) \o y
    BY <1>7, <1>14
  <2> QED
    BY <1>1, <2>1, <2>2, WrittenMore
<1>10. workload'[q + 1] = query
  BY <1>6
<1>11. (InBody(q, k) \/ InTail(q, k))'
  <2>1. CASE s + 1 = n
    <3>1. InTail(q, k)'
      <4>1. k \in {LinesTo(query, n) + 5, LinesTo(query, n) + 6}
        <5>1. LinesTo(query, n) \in Nat /\ k = 5 + LinesTo(query, n)
          BY <1>1, <1>14, <2>1, BlockAt
        <5> QED
          BY <5>1
      <4>2. out' = (Opening(q) \o Done(query, n))'
        BY <1>8, <1>9, <2>1
      <4> QED
        BY <1>6, <1>10, <4>1, <4>2 DEF InTail
    <3> QED
      BY <3>1
  <2>2. CASE s + 1 # n
    <3>1. s + 1 \in 0..(n - 1)
      BY <1>3, <2>2
    <3> DEFINE u == query.statements[(s + 1) + 1]
    <3>2. u \in Seq(Word) /\ Len(u) \in Nat \ {0} /\ LinesTo(query, s + 1) \in Nat
      BY <1>1, <3>1, StatementAt
    <3> HIDE DEF u
    <3>3. SubSeq(u, 1, 0) = <<>> /\ 0 \in 0..(Len(u) - 1) /\ k = 5 + LinesTo(query, s + 1) + 0
      BY <1>14, <3>2
    <3>4. InBody(q, k)'
      <4>1. out' = (Opening(q) \o Done(query, s + 1))'
        BY <1>8, <1>9
      <4> QED
        BY <1>6, <1>10, <3>1, <3>3, <4>1 DEF InBody, InLines, u
    <3> QED
      BY <3>4
  <2> QED
    BY <2>1, <2>2
<1>12. Remaining(LinesOf(q) + k)'
  BY <1>6, <1>8 DEF Remaining
<1>13. Within(q)'
  BY <1>4, <1>6, <1>8, <1>11, <1>12 DEF Within
<1> QED
  BY <1>6, <1>13

\* The lines after the statements.
LEMMA TailAt ==
  ASSUME NEW query, ProperQuery(query)
  PROVE  /\ Block(query)[LinesTo(query, Len(query.statements)) + 6] = Blank
         /\ Block(query)[LinesTo(query, Len(query.statements)) + 7] = END_TRAN
         /\ Block(query)[LinesTo(query, Len(query.statements)) + 8] = Blank
BY BlockIs

Regroup(b, i, d, u) == b \o ((i \o d) \o u) = ((b \o i) \o d) \o u

LEMMA Regrouped ==
  ASSUME NEW E, NEW b \in Seq(E), NEW i \in Seq(E), NEW d \in Seq(E), NEW u \in Seq(E)
  PROVE  Regroup(b, i, d, u)
<1> DEFINE x == i \o d
<1>1. x \in Seq(E)
  BY ConcatProperties
<1>2. (b \o i) \o d = b \o x
  BY ConcatAssociative
<1> HIDE DEF x
<1>3. (b \o x) \o u = b \o (x \o u)
  <2>1. \A y \in Seq(E) : (b \o y) \o u = b \o (y \o u)
    <3> TAKE y \in Seq(E)
    <3> QED
      BY ConcatAssociative
  <2> QED
    BY <1>1, <2>1, Zenon
<1> QED
  BY <1>2, <1>3 DEF Regroup, x

\* What is written when the transaction has ended.
LEMMA Closed ==
  ASSUME ProperLoad(workload), NEW q \in 0..(Len(workload) - 1),
         NEW query, query = workload[q + 1]
  PROVE  (Opening(q) \o Done(query, Len(query.statements))) \o Times("update", query) = Before(q + 1)
<1> DEFINE b == Before(q)
           i == Times("insert", query)
           d == Done(query, Len(query.statements))
           u == Times("update", query)
<1>1. ProperQuery(query)
  <2>1. Len(workload) \in Nat /\ q + 1 \in 1..Len(workload)
    BY DEF ProperLoad
  <2> QED
    BY <2>1 DEF ProperLoad
<1>2. i \in Seq(OutOf) /\ u \in Seq(OutOf)
  BY <1>1, TimesAre
<1>3. d \in Seq(OutOf) /\ d = Statements(query)
  <2>1. Len(query.statements) \in Nat
    BY <1>1, BlockAt
  <2>2. Len(query.statements) \in 0..Len(query.statements)
    BY <2>1
  <2> QED
    BY <1>1, <2>2, DoneWritten
<1>4. b \in Seq(OutOf)
  <2>1. q \in 0..Len(workload)
    BY DEF ProperLoad
  <2> QED
    BY <2>1, BeforeIs
<1>5. Before(q + 1) = b \o ((i \o d) \o u)
  <2>1. Recorded(query) = (i \o d) \o u
    BY <1>3 DEF Recorded
  <2> QED
    BY <2>1, BeforeIs
<1>6. Opening(q) = b \o i
  BY DEF Opening
<1> HIDE DEF b, i, d, u
<1>7. Regroup(b, i, d, u)
  BY <1>2, <1>3, <1>4, Regrouped
<1>8. b \o ((i \o d) \o u) = ((b \o i) \o d) \o u
  BY <1>7 DEF Regroup
<1> QED
  BY <1>5, <1>6, <1>8 DEF d, u

\* The steps in the lines after the statements.
LEMMA FromTail ==
  ASSUME ProperLoad(workload), NEW q \in 0..(Len(workload) - 1), NEW k,
         Remaining(LinesOf(q) + k), InTail(q, k), ParseNext
  PROVE  /\ Within(q)' \/ Arrived(q + 1)'
         /\ parse_pc' \in {"read", "block"} /\ workload' = workload
<1> DEFINE query == workload[q + 1]
           b == Block(query)
           n == Len(query.statements)
           l == LinesTo(query, n)
           c == Len(b)
<1>1. ProperQuery(query)
  <2>1. Len(workload) \in Nat /\ q + 1 \in 1..Len(workload)
    BY DEF ProperLoad
  <2> QED
    BY <2>1 DEF ProperLoad
<1>2. n \in Nat /\ l \in Nat /\ c = l + 8
  BY <1>1, BlockAt
<1>3. b[l + 6] = Blank /\ b[l + 7] = END_TRAN /\ b[l + 8] = Blank
  BY <1>1, TailAt
<1>4. Blank.kind = "blank"
  BY DEF Blank
<1>5. /\ query_id = query.id /\ statement = <<>>
      /\ \/ /\ parse_pc = "read" /\ k \in {l + 5, l + 6}
            /\ out = Opening(q) \o Done(query, n)
         \/ parse_pc = "block" /\ k = l + 7 /\ out = Opening(q) \o Done(query, n)
         \/ parse_pc = "read" /\ k = l + 7 /\ out = Before(q + 1)
  BY DEF InTail
<1>6. LinesOf(q) \in Nat /\ LinesOf(q + 1) = LinesOf(q) + c
  <2> HIDE DEF n
  <2>1. LinesOf(q) \in Nat
    BY LinesOfIs
  <2>2. LinesOf(q + 1) = LinesOf(q) + Len(Block(workload[q + 1]))
    BY LinesOfIs
  <2> QED
    BY <2>1, <2>2
<1>7. ASSUME k \in 0..(c - 1)
      PROVE  /\ lines # <<>> /\ Head(lines) = b[k + 1]
             /\ lines' = Tail(lines) /\ workload' = workload => Remaining(LinesOf(q) + (k + 1))'
  BY <1>7, NextInput
<1>8. ASSUME run_type' = run_type, workload' = workload
      PROVE  /\ Opening(q)' = Opening(q) /\ LinesOf(q)' = LinesOf(q)
             /\ Before(q + 1)' = Before(q + 1) /\ LinesOf(q + 1)' = LinesOf(q + 1)
             /\ Done(query, n)' = Done(query, n) /\ Block(workload[q + 1])' = b
             /\ workload'[q + 1] = query
  BY <1>8, LoadSame
<1>9. ASSUME workload' = workload, run_type' = run_type,
             query_id' = query.id, statement' = <<>>,
             \/ /\ parse_pc' = "read" /\ k + 1 \in {l + 5, l + 6}
                /\ out' = Opening(q) \o Done(query, n)
             \/ parse_pc' = "block" /\ k + 1 = l + 7 /\ out' = Opening(q) \o Done(query, n)
      PROVE  InTail(q, k + 1)'
  BY <1>8, <1>9 DEF InTail
<1> HIDE DEF b, c, n, l, query
<1>10. CASE parse_pc = "read" /\ k = l + 5 /\ out = Opening(q) \o Done(query, n)
  <2>1. k \in 0..(c - 1) /\ k + 1 = l + 6 /\ k + 1 \in 0..c
    BY <1>2, <1>10
  <2>2. /\ lines' = Tail(lines) /\ run_type' = run_type /\ workload' = workload /\ out' = out
        /\ parse_pc' = "read" /\ query_id' = query_id /\ statement' = statement
    <3>1. lines # <<>> /\ Head(lines) = Blank
      BY <1>3, <1>7, <2>1
    <3> QED
      BY <1>4, <1>10, <3>1, OneRead
  <2>3. InTail(q, k + 1)'
    BY <1>5, <1>9, <1>10, <2>1, <2>2
  <2>4. Remaining(LinesOf(q) + (k + 1))'
    BY <1>7, <2>1, <2>2
  <2>5. k + 1 \in 0..Len(Block(workload[q + 1]))'
    BY <1>8, <2>1, <2>2 DEF c
  <2>6. LinesOf(q)' = LinesOf(q)
    BY <1>8, <2>2
  <2> QED
    BY <2>2, <2>3, <2>4, <2>5, <2>6 DEF Within
<1>11. CASE parse_pc = "read" /\ k = l + 6 /\ out = Opening(q) \o Done(query, n)
  <2>1. k \in 0..(c - 1) /\ k + 1 = l + 7 /\ k + 1 \in 0..c
    BY <1>2, <1>11
  <2>2. /\ lines' = Tail(lines) /\ run_type' = run_type /\ workload' = workload /\ out' = out
        /\ parse_pc' = "block" /\ query_id' = query_id /\ statement' = statement
    <3>1. lines # <<>> /\ Head(lines) = END_TRAN
      BY <1>3, <1>7, <2>1
    <3> QED
      BY <1>11, <3>1, OneRead
  <2>3. InTail(q, k + 1)'
    BY <1>5, <1>9, <1>11, <2>1, <2>2
  <2>4. Remaining(LinesOf(q) + (k + 1))'
    BY <1>7, <2>1, <2>2
  <2>5. k + 1 \in 0..Len(Block(workload[q + 1]))'
    BY <1>8, <2>1, <2>2 DEF c
  <2>6. LinesOf(q)' = LinesOf(q)
    BY <1>8, <2>2
  <2> QED
    BY <2>2, <2>3, <2>4, <2>5, <2>6 DEF Within
<1>12. CASE parse_pc = "block" /\ k = l + 7 /\ out = Opening(q) \o Done(query, n)
  <2>1. WriteEnd
    BY <1>12 DEF ParseNext, OpenFiles, SkipBlank, ReadComment, ReadTransaction, ReadSql, Line_,
                 ReadEof, WriteBegin, WriteStatement
  <2>2. /\ statement' = <<>> /\ parse_pc' = "read" /\ run_type' = run_type
        /\ workload' = workload /\ lines' = lines /\ query_id' = query_id
    BY <2>1 DEF WriteEnd, Written_
  <2>3. out' = out \o Times("update", query)
    BY <1>5, <2>1 DEF WriteEnd, Written_, Times
  <2>4. out' = Before(q + 1)
    <3>1. out' = (Opening(q) \o Done(query, Len(query.statements))) \o Times("update", query)
      BY <1>12, <2>3 DEF n
    <3>2. query = workload[q + 1]
      BY DEF query
    <3> QED
      BY <3>1, <3>2, Closed
  <2>5. InTail(q, k)'
    <3>1. query_id' = workload'[q + 1].id
      BY <1>5, <1>8, <2>2
    <3>2. parse_pc' = "read" /\ out' = Before(q + 1)'
      BY <1>8, <2>2, <2>4
    <3>3. k = LinesTo(workload'[q + 1], Len(workload'[q + 1].statements)) + 7
      BY <1>8, <1>12, <2>2 DEF l, n
    <3> QED
      BY <2>2, <3>1, <3>2, <3>3 DEF InTail
  <2>6. Remaining(LinesOf(q) + k)'
    BY <1>8, <2>2 DEF Remaining
  <2>7. k \in 0..Len(Block(workload[q + 1]))'
    <3>1. k \in 0..c
      BY <1>2, <1>12
    <3> QED
      BY <1>8, <2>2, <3>1 DEF c
  <2>8. Within(q)'
    BY <2>2, <2>5, <2>6, <2>7 DEF Within
  <2> QED
    BY <2>2, <2>8
<1>13. CASE parse_pc = "read" /\ k = l + 7 /\ out = Before(q + 1)
  <2>1. k \in 0..(c - 1) /\ k + 1 = l + 8 /\ k + 1 = c
    BY <1>2, <1>13
  <2>2. /\ lines' = Tail(lines) /\ run_type' = run_type /\ workload' = workload /\ out' = out
        /\ parse_pc' = "read" /\ query_id' = query_id /\ statement' = statement
    <3>1. lines # <<>> /\ Head(lines) = Blank
      BY <1>3, <1>7, <2>1
    <3> QED
      BY <1>4, <1>13, <3>1, OneRead
  <2>3. Remaining(LinesOf(q) + (k + 1))'
    BY <1>7, <2>1, <2>2
  <2>4. LinesOf(q) + (k + 1) = LinesOf(q + 1)
    BY <1>6, <2>1
  <2>5. LinesOf(q)' = LinesOf(q) /\ LinesOf(q + 1)' = LinesOf(q + 1) /\ Before(q + 1)' = Before(q + 1)
    BY <1>8, <2>2
  <2>6. Remaining(LinesOf(q + 1))'
    BY <2>3, <2>4, <2>5
  <2>7. Arrived(q + 1)'
    BY <1>5, <1>13, <2>2, <2>5, <2>6 DEF Arrived
  <2> QED
    BY <2>2, <2>7
<1> QED
  BY <1>5, <1>10, <1>11, <1>12, <1>13

\* The files are opened: nothing is read, and only the isolation level is written.
Ready ==
  /\ parse_pc = "read" /\ ProperLoad(workload) /\ statement = <<>>
  /\ lines = Rendered(workload) /\ out = Opened

LEMMA ReadyIs == Ready => Len(workload) \in Nat /\ Arrived(0)
<1> SUFFICES ASSUME Ready PROVE Len(workload) \in Nat /\ Arrived(0)
  OBVIOUS
<1>1. /\ parse_pc = "read" /\ statement = <<>> /\ lines = Rendered(workload) /\ out = Opened
      /\ ProperLoad(workload)
  BY DEF Ready
<1>2. /\ Len(workload) \in Nat /\ Blocks \in Seq(Seq(LineOf)) /\ Len(Blocks) = Len(workload)
  BY <1>1, LoadIs
<1>3. Before(0) = Opened
  BY <1>1, BeforeIs
<1>4. LinesOf(0) = 0
  <2>1. 0 \in 0..Len(Blocks)
    BY <1>2
  <2>2. UpTo(Blocks, 0) = <<>>
    BY <1>2, <2>1, UpToIs
  <2> QED
    BY <2>2 DEF LinesOf
<1> DEFINE R == Rendered(workload)
<1>5. R \in Seq(LineOf)
  <2>1. Len(workload) \in 0..Len(Blocks)
    BY <1>2
  <2>2. UpTo(Blocks, Len(workload)) \in Seq(LineOf) /\ UpTo(Blocks, Len(workload)) = FlattenSeq(Blocks)
    BY <1>2, <2>1, UpToIs
  <2> QED
    BY <2>2 DEF Rendered, Blocks
<1> HIDE DEF R
<1>6. R \in Seq(LineOf) /\ Len(R) = Len(R) - 0 /\ \A i \in 1..Len(R) : R[i] = R[0 + i]
  <2>1. Len(R) \in Nat
    BY <1>5
  <2> QED
    BY <1>5, <2>1
<1>7. Remaining(LinesOf(0))
  BY <1>1, <1>4, <1>6 DEF Remaining, R
<1> QED
  BY <1>1, <1>2, <1>3, <1>7 DEF Arrived

LEMMA ReadyThen == Ready' => (Len(workload) \in Nat /\ Arrived(0))'
BY ReadyIs, PTL

LEMMA FromOpen ==
  ASSUME OpenFiles, statement = <<>>
  PROVE  /\ parse_pc' = "read" /\ workload' \in Workloads
         /\ (\E q \in 0..Len(workload) : Arrived(q))'
<1>1. /\ parse_pc' = "read" /\ workload' \in Workloads /\ statement' = <<>>
      /\ lines' = Rendered(workload')
  BY DEF OpenFiles
<1>2. out' = Opened'
  BY DEF OpenFiles, Opened
<1>3. ProperLoad(workload)'
  BY <1>1, WorkloadIs
<1>4. Ready'
  BY <1>1, <1>2, <1>3 DEF Ready
<1>5. Len(workload') \in Nat /\ Arrived(0)'
  BY <1>4, ReadyThen
<1>6. 0 \in 0..Len(workload')
  BY <1>5
<1> QED
  BY <1>1, <1>5, <1>6

\* All is read.
LEMMA AtTheEnd ==
  ASSUME ProperLoad(workload), Arrived(Len(workload))
  PROVE  lines = <<>> /\ (out' = out /\ workload' = workload /\ run_type' = run_type => Executed')
<1>1. Len(workload) \in Nat
  BY DEF ProperLoad
<1>2. lines = <<>>
  <2> DEFINE R == Rendered(workload)
             n == Len(workload)
  <2>1. lines \in Seq(LineOf) /\ Len(lines) = Len(R) - LinesOf(n)
    BY DEF Arrived, Remaining
  <2>2. LinesOf(n) = Len(R) /\ R \in Seq(LineOf)
    <3>1. Blocks \in Seq(Seq(LineOf)) /\ Len(Blocks) = n
      BY LoadIs
    <3>2. n \in 0..Len(Blocks)
      BY <1>1, <3>1
    <3>3. UpTo(Blocks, n) = FlattenSeq(Blocks) /\ UpTo(Blocks, n) \in Seq(LineOf)
      BY <3>1, <3>2, UpToIs
    <3>4. R = FlattenSeq(Blocks)
      BY DEF Rendered, Blocks
    <3> QED
      BY <3>3, <3>4 DEF LinesOf
  <2> HIDE DEF R, n
  <2>3. Len(lines) = 0
    BY <2>1, <2>2
  <2> QED
    BY <2>1, <2>3
<1>3. out = Opened \o FlattenSeq([i \in DOMAIN workload |-> Recorded(workload[i])])
  BY BeforeIs DEF Arrived
<1>4. ASSUME out' = out, workload' = workload, run_type' = run_type PROVE Executed'
  <2>1. Opened' = Opened
    BY <1>4 DEF Opened, Timed
  <2>2. \A query : Recorded(query)' = Recorded(query)
    BY <1>4 DEF Recorded, Times, Statements, Timed
  <2>3. [i \in DOMAIN workload |-> Recorded(workload[i])]' =
          [i \in DOMAIN workload |-> Recorded(workload[i])]
    BY <1>4, <2>2
  <2>4. out' = Opened' \o FlattenSeq([i \in DOMAIN workload |-> Recorded(workload[i])]')
    BY <1>3, <1>4, <2>1, <2>3
  <2> QED
    BY <2>4 DEF Executed
<1> QED
  BY <1>2, <1>4

LEMMA ParseStarts == ParseInit => ParseInv
BY DEF ParseInit, ParseInv

\* A step among the lines of a query stays there, or comes to the next one.
LEMMA FromWithin ==
  ASSUME ProperLoad(workload), NEW q \in 0..(Len(workload) - 1), Within(q), ParseNext
  PROVE  /\ Within(q)' \/ Arrived(q + 1)'
         /\ parse_pc' \in {"read", "begin", "statement", "block"} /\ workload' = workload
<1>1. PICK k \in 0..Len(Block(workload[q + 1])) :
        Remaining(LinesOf(q) + k) /\ (InHead(q, k) \/ InBody(q, k) \/ InTail(q, k))
  BY DEF Within
<1>2. CASE InHead(q, k)
  <2>1. Within(q)' /\ parse_pc' \in {"read", "begin"} /\ workload' = workload
    BY <1>1, <1>2, FromHead
  <2> QED
    BY <2>1
<1>3. CASE InBody(q, k)
  <2> DEFINE query == workload[q + 1]
  <2>1. query_id = query.id
    BY <1>3 DEF InBody
  <2>2. PICK s \in 0..(Len(query.statements) - 1) :
          \/ \E p \in 0..(Len(query.statements[s + 1]) - 1) : InLines(q, k, query, s, p)
          \/ AtEnd(q, k, query, s)
    BY <1>3 DEF InBody
  <2>3. CASE AtEnd(q, k, query, s)
    <3>1. Within(q)' /\ parse_pc' = "read" /\ workload' = workload
      BY <1>1, <2>1, <2>3, FromStatement
    <3> QED
      BY <3>1
  <2>4. CASE \E p \in 0..(Len(query.statements[s + 1]) - 1) : InLines(q, k, query, s, p)
    <3>1. PICK p \in 0..(Len(query.statements[s + 1]) - 1) : InLines(q, k, query, s, p)
      BY <2>4
    <3>2. Within(q)' /\ parse_pc' \in {"read", "statement"} /\ workload' = workload
      BY <1>1, <2>1, <3>1, FromLine
    <3> QED
      BY <3>2
  <2> QED
    BY <2>2, <2>3, <2>4
<1>4. CASE InTail(q, k)
  <2>1. /\ Within(q)' \/ Arrived(q + 1)'
        /\ parse_pc' \in {"read", "block"} /\ workload' = workload
    BY <1>1, <1>4, FromTail
  <2> QED
    BY <2>1
<1> QED
  BY <1>1, <1>2, <1>3, <1>4

LEMMA ParseStays ==
  ASSUME ParseInv, [ParseNext]_parse_vars
  PROVE  ParseInv'
<1>1. CASE UNCHANGED parse_vars
  <2>1. /\ parse_pc' = parse_pc /\ run_type' = run_type /\ workload' = workload /\ lines' = lines
        /\ query_id' = query_id /\ statement' = statement /\ out' = out
    BY <1>1 DEF parse_vars
  <2>2. ASSUME Parsing PROVE Parsing'
    <3>1. /\ \A q : Before(q)' = Before(q) /\ Opening(q)' = Opening(q) /\ LinesOf(q)' = LinesOf(q)
          /\ \A query, t : Done(query, t)' = Done(query, t)
      BY <2>1, LoadSame
    <3>2. ASSUME NEW d PROVE Remaining(d)' <=> Remaining(d)
      BY <2>1 DEF Remaining
    <3>3. ASSUME NEW q PROVE Arrived(q)' <=> Arrived(q)
      BY <2>1, <3>1, <3>2 DEF Arrived
    <3>4. ASSUME NEW q, NEW k
          PROVE  (InHead(q, k) \/ InBody(q, k) \/ InTail(q, k))' <=>
                   (InHead(q, k) \/ InBody(q, k) \/ InTail(q, k))
      <4>1. InHead(q, k)' <=> InHead(q, k)
        BY <2>1, <3>1 DEF InHead
      <4>2. InBody(q, k)' <=> InBody(q, k)
        BY <2>1, <3>1 DEF InBody, InLines, AtEnd
      <4>3. InTail(q, k)' <=> InTail(q, k)
        BY <2>1, <3>1 DEF InTail
      <4> QED
        BY <4>1, <4>2, <4>3
    <3>5. ASSUME NEW q PROVE Within(q)' <=> Within(q)
      BY <2>1, <3>1, <3>2, <3>4 DEF Within
    <3> QED
      BY <2>1, <2>2, <3>3, <3>5 DEF Parsing
  <2>3. ASSUME Executed PROVE Executed'
    BY <2>1, <2>3 DEF Executed, Recorded, Times, Statements, Opened, Timed
  <2> QED
    BY <2>1, <2>2, <2>3 DEF ParseInv
<1>2. CASE ParseNext /\ parse_pc = "open"
  <2>1. OpenFiles
    BY <1>2 DEF ParseNext, SkipBlank, ReadComment, ReadTransaction, ReadSql, Line_, ReadEof,
         WriteBegin, WriteStatement, WriteEnd
  <2>2. /\ parse_pc' = "read" /\ workload' \in Workloads
        /\ (\E q \in 0..Len(workload) : Arrived(q))'
    BY <1>2, <2>1, FromOpen DEF ParseInv
  <2>3. Parsing'
    BY <2>2 DEF Parsing
  <2> QED
    BY <2>2, <2>3 DEF ParseInv
<1>3. CASE ParseNext /\ parse_pc = "eof"
  BY <1>3 DEF ParseNext, OpenFiles, SkipBlank, ReadComment, ReadTransaction, ReadSql, Line_, ReadEof,
       WriteBegin, WriteStatement, WriteEnd
<1>4. CASE ParseNext /\ parse_pc \in {"read", "begin", "statement", "block"}
  <2>1. workload \in Workloads /\ Parsing
    BY <1>4 DEF ParseInv
  <2>2. ProperLoad(workload) /\ Len(workload) \in Nat
    BY <2>1, WorkloadIs DEF ProperLoad
  <2>3. ASSUME NEW q \in 0..(Len(workload) - 1), Within(q)' \/ Arrived(q + 1)',
               parse_pc' \in {"read", "begin", "statement", "block"}, workload' = workload
        PROVE  ParseInv'
    <3>1. q + 1 \in 0..Len(workload)
      BY <2>2
    <3>2. Parsing'
      BY <2>3, <3>1 DEF Parsing
    <3> QED
      BY <2>1, <2>3, <3>2 DEF ParseInv
  <2>4. ASSUME NEW q \in 0..(Len(workload) - 1), Within(q) PROVE ParseInv'
    BY <1>4, <2>2, <2>3, <2>4, FromWithin
  <2>5. ASSUME NEW q \in 0..(Len(workload) - 1), Arrived(q) PROVE ParseInv'
    BY <1>4, <2>2, <2>3, <2>5, FromArrived
  <2>6. ASSUME Arrived(Len(workload)) PROVE ParseInv'
    <3>1. lines = <<>> /\ (out' = out /\ workload' = workload /\ run_type' = run_type => Executed')
      BY <2>2, <2>6, AtTheEnd
    <3>2. parse_pc = "read"
      BY <2>6 DEF Arrived
    <3>3. ReadEof
      BY <1>4, <3>1, <3>2 DEF ParseNext, OpenFiles, SkipBlank, ReadComment, ReadTransaction,
           ReadSql, Line_, WriteBegin, WriteStatement, WriteEnd
    <3>4. parse_pc' = "eof" /\ out' = out /\ workload' = workload /\ run_type' = run_type
      BY <3>3 DEF ReadEof
    <3> QED
      BY <3>1, <3>4 DEF ParseInv
  <2>7. \A q \in 0..Len(workload) : q \in 0..(Len(workload) - 1) \/ q = Len(workload)
    BY <2>2
  <2> QED
    BY <2>1, <2>4, <2>5, <2>6, <2>7 DEF Parsing
<1> QED
  BY <1>1, <1>2, <1>3, <1>4 DEF ParseInv

\* ParseQuery!Executed, of every workload: the output is what the queries' statements are, each
\* between the records of its own query's times (main.c, get_statement.c).
THEOREM Replayed == ParseSpec => []Executed
<1>1. ParseInit => ParseInv
  BY ParseStarts
<1>2. ParseInv /\ [ParseNext]_parse_vars => ParseInv'
  BY ParseStays
<1>3. ParseInv => Executed
  <2>1. parse_pc # "eof" => Executed
    BY DEF Executed
  <2>2. ASSUME ParseInv, parse_pc = "eof" PROVE Executed
    BY <2>2 DEF ParseInv
  <2> QED
    BY <2>1, <2>2
<1> QED
  BY <1>1, <1>2, <1>3, PTL DEF ParseSpec

-----------------------------------------------------------------------------
\* Template: the first place of an item in a line.

LEMMA LeastIs ==
  ASSUME NEW I \in SUBSET Nat, I # {}
  PROVE  Min(I) \in I /\ \A i \in I : Min(I) <= i
<1>1. \E x \in I : \A y \in I : x <= y
  BY LeastNumber
<1> QED
  BY <1>1 DEF Min

\* The first place of an item, 0 if there is none.
LEMMA FirstIs ==
  ASSUME NEW E, NEW s \in Seq(E), NEW item
  PROVE  /\ First(item, s) \in 0..Len(s)
         /\ First(item, s) = 0 => \A i \in 1..Len(s) : s[i] # item
         /\ First(item, s) # 0 => s[First(item, s)] = item
         /\ \A i \in 1..(First(item, s) - 1) : s[i] # item
<1> DEFINE I == {i \in 1..Len(s) : s[i] = item}
<1>1. First(item, s) = IF I # {} THEN Min(I) ELSE 0
  BY DEF First, SelectInSeq
<1>2. I \in SUBSET Nat /\ Len(s) \in Nat
  OBVIOUS
<1>3. CASE I = {}
  BY <1>1, <1>2, <1>3
<1>4. CASE I # {}
  <2>1. First(item, s) \in I /\ \A i \in I : First(item, s) <= i
    BY <1>1, <1>2, <1>4, LeastIs
  <2>2. ASSUME NEW i \in 1..(First(item, s) - 1) PROVE s[i] # item
    BY <1>2, <2>1
  <2> QED
    BY <1>2, <2>1, <2>2
<1> QED
  BY <1>3, <1>4

-----------------------------------------------------------------------------
\* Template: what is in braces.

\* A brace that opens, one that closes and a dash are different items.
LEMMA BraceIs ==
  /\ Open # Close /\ Open # Dash /\ Close # Dash
  /\ \A n : Words(n) # Open /\ Words(n) # Close /\ Words(n) # Dash
  /\ Open \in Items /\ Close \in Items /\ Dash \in Items /\ Words(0) \in Items
<1>1. Open.kind = "open" /\ Close.kind = "close" /\ Dash.kind = "dash"
  BY DEF Open, Close, Dash, Item
<1>2. \A n : Words(n).kind = "text"
  BY DEF Words, Item
<1>3. Open \in Items /\ Close \in Items /\ Dash \in Items /\ Words(0) \in Items
  BY DEF Item, Items, Open, Close, Dash, Words
<1>4. Open # Close /\ Open # Dash /\ Close # Dash
  BY <1>1
<1>5. \A n : Words(n) # Open /\ Words(n) # Close /\ Words(n) # Dash
  BY <1>1, <1>2
<1> QED
  BY <1>3, <1>4, <1>5

\* A brace has closed before item i.
ClosedBefore(s, i) == \E h \in 1..(i - 1) : s[h] = Close

\* The line begins in braces, or with one that opens.
Entered(template, l) == InBraces(template, l, 0) \/ template[l][1] = Open

LEMMA TemplateLineIs ==
  ASSUME NEW template \in Seq(Seq(Items)), NEW l \in 1..Len(template)
  PROVE  /\ template[l] \in Seq(Items) /\ DOMAIN template = 1..Len(template)
         /\ DOMAIN template[l] = 1..Len(template[l]) /\ Len(template[l]) \in Nat
         /\ Len(template) \in Nat /\ l \in Nat
<1>1. template[l] \in Seq(Items)
  OBVIOUS
<1> QED
  BY <1>1

LEMMA OpenIs ==
  ASSUME NEW template \in Seq(Seq(Items)), Shaped(template), NEW l \in 1..Len(template),
         NEW i \in 1..Len(template[l]), template[l][i] = Open
  PROVE  /\ i = 1 /\ ~InBraces(template, l, 0)
         /\ \E m \in l..Len(template) : First(Close, template[m]) > 0
<1>1. l \in DOMAIN template /\ i \in DOMAIN template[l]
  BY TemplateLineIs
<1> QED
  BY <1>1 DEF Shaped

LEMMA LineBegins ==
  ASSUME NEW template \in Seq(Seq(Items)), Shaped(template), NEW l \in 1..Len(template)
  PROVE  Len(template[l]) > 0 /\ 1 \in 1..Len(template[l])
<1>1. template[l] # <<>>
  BY TemplateLineIs DEF Shaped
<1>2. template[l] \in Seq(Items)
  BY TemplateLineIs
<1> QED
  BY <1>1, <1>2

\* A witness of InBraces.
OpenedAt(template, l, i, m, j) ==
  /\ template[m][j] = Open /\ (m < l \/ j <= i)
  /\ \A k \in m..l : \A h \in 1..Len(template[k]) :
       template[k][h] = Close => (k = m /\ h < j) \/ (k = l /\ h >= i)

LEMMA InBracesIs ==
  ASSUME NEW template \in Seq(Seq(Items)), NEW l \in 1..Len(template), NEW i
  PROVE  InBraces(template, l, i) <=>
           \E m \in 1..l : \E j \in 1..Len(template[m]) : OpenedAt(template, l, i, m, j)
<1>1. \A m \in 1..l : m \in 1..Len(template)
  BY TemplateLineIs
<1>2. \A m \in 1..l : DOMAIN template[m] = 1..Len(template[m])
  BY <1>1, TemplateLineIs
<1>3. \A m \in 1..l : \A k \in m..l : k \in 1..l
  BY TemplateLineIs
<1>4. ASSUME NEW m \in 1..l
      PROVE  \A k \in m..l : DOMAIN template[k] = 1..Len(template[k])
  BY <1>2, <1>3
<1> DEFINE Raw(m, j) == /\ template[m][j] = Open /\ (m < l \/ j <= i)
                        /\ \A k \in m..l : \A h \in DOMAIN template[k] :
                             template[k][h] = Close => (k = m /\ h < j) \/ (k = l /\ h >= i)
<1>5. ASSUME NEW m \in 1..l, NEW j \in 1..Len(template[m])
      PROVE  Raw(m, j) <=> OpenedAt(template, l, i, m, j)
  BY <1>4 DEF OpenedAt
<1>6. InBraces(template, l, i) <=> \E m \in 1..l : \E j \in DOMAIN template[m] : Raw(m, j)
  BY Zenon DEF InBraces
<1> HIDE DEF Raw
<1> QED
  BY <1>2, <1>5, <1>6

\* Whether an item is in braces is known from the beginning of its line.
LEMMA BracesIs ==
  ASSUME NEW template \in Seq(Seq(Items)), Shaped(template), NEW l \in 1..Len(template),
         NEW i \in 1..(Len(template[l]) + 1)
  PROVE  InBraces(template, l, i) <=> Entered(template, l) /\ ~ClosedBefore(template[l], i)
<1>1. Len(template[l]) \in Nat /\ l \in Nat /\ i \in Nat /\ i >= 1
  BY TemplateLineIs
<1>2. ASSUME InBraces(template, l, i) PROVE Entered(template, l) /\ ~ClosedBefore(template[l], i)
  <2>1. PICK m \in 1..l : \E j \in 1..Len(template[m]) : OpenedAt(template, l, i, m, j)
    BY <1>2, InBracesIs
  <2>2. PICK j \in 1..Len(template[m]) : OpenedAt(template, l, i, m, j)
    BY <2>1
  <2>3. m \in 1..Len(template) /\ m \in Nat /\ m <= l
    BY <1>1, TemplateLineIs
  <2>4. j = 1 /\ template[m][j] = Open
    BY <2>2, <2>3, OpenIs DEF OpenedAt
  <2>5. \A h \in 1..Len(template[l]) : template[l][h] = Close => (l = m /\ h < 1) \/ h >= i
    <3>1. l \in m..l
      BY <1>1, <2>3
    <3> QED
      BY <2>2, <2>4, <3>1 DEF OpenedAt
  <2>6. ~ClosedBefore(template[l], i)
    <3> SUFFICES ASSUME NEW h \in 1..(i - 1), template[l][h] = Close PROVE FALSE
      BY DEF ClosedBefore
    <3>1. h \in 1..Len(template[l]) /\ ~(h < 1) /\ ~(h >= i)
      BY <1>1
    <3> QED
      BY <2>5, <3>1
  <2>7. CASE m = l
    BY <2>4, <2>6, <2>7 DEF Entered
  <2>8. CASE m # l
    <3>1. m < l
      BY <1>1, <2>3, <2>8
    <3>2. OpenedAt(template, l, 0, m, j)
      <4>1. ASSUME NEW k \in m..l, NEW h \in 1..Len(template[k]), template[k][h] = Close
            PROVE  (k = m /\ h < j) \/ (k = l /\ h >= 0)
        <5>1. (k = m /\ h < j) \/ (k = l /\ h >= i)
          BY <2>2, <4>1 DEF OpenedAt
        <5> QED
          BY <1>1, <5>1
      <4> QED
        BY <2>4, <3>1, <4>1 DEF OpenedAt
    <3>3. InBraces(template, l, 0)
      BY <3>2, InBracesIs
    <3> QED
      BY <2>6, <3>3 DEF Entered
  <2> QED
    BY <2>7, <2>8
<1>3. ASSUME Entered(template, l), ~ClosedBefore(template[l], i) PROVE InBraces(template, l, i)
  <2>0. \A h \in 1..Len(template[l]) : template[l][h] = Close => h >= i
    BY <1>1, <1>3 DEF ClosedBefore
  <2>1. CASE template[l][1] = Open
    <3>1. 1 \in 1..Len(template[l])
      BY LineBegins
    <3>2. OpenedAt(template, l, i, l, 1)
      <4>1. ASSUME NEW k \in l..l, NEW h \in 1..Len(template[k]), template[k][h] = Close
            PROVE  (k = l /\ h < 1) \/ (k = l /\ h >= i)
        <5>1. k = l
          BY <1>1
        <5> QED
          BY <2>0, <4>1, <5>1
      <4> QED
        BY <1>1, <2>1, <4>1 DEF OpenedAt
    <3>3. l \in 1..l
      BY <1>1
    <3> QED
      BY <3>1, <3>2, <3>3, InBracesIs
  <2>2. CASE InBraces(template, l, 0)
    <3>1. PICK m \in 1..l : \E j \in 1..Len(template[m]) : OpenedAt(template, l, 0, m, j)
      BY <2>2, InBracesIs
    <3>2. PICK j \in 1..Len(template[m]) : OpenedAt(template, l, 0, m, j)
      BY <3>1
    <3>3. m < l /\ template[m][j] = Open
      BY <3>2 DEF OpenedAt
    <3>4. OpenedAt(template, l, i, m, j)
      <4>1. ASSUME NEW k \in m..l, NEW h \in 1..Len(template[k]), template[k][h] = Close
            PROVE  (k = m /\ h < j) \/ (k = l /\ h >= i)
        <5>1. (k = m /\ h < j) \/ (k = l /\ h >= 0)
          BY <3>2, <4>1 DEF OpenedAt
        <5>2. CASE k = l
          BY <2>0, <4>1, <5>2
        <5> QED
          BY <5>1, <5>2
      <4> QED
        BY <3>3, <4>1 DEF OpenedAt
    <3> QED
      BY <3>4, InBracesIs
  <2> QED
    BY <1>3, <2>1, <2>2 DEF Entered
<1> QED
  BY <1>2, <1>3

\* A line begins in braces if the one before ends in them.
LEMMA BracesOn ==
  ASSUME NEW template \in Seq(Seq(Items)), NEW l \in 1..Len(template), l + 1 \in 1..Len(template)
  PROVE  InBraces(template, l + 1, 0) <=> InBraces(template, l, Len(template[l]) + 1)
<1>1. l \in Nat /\ Len(template[l]) \in Nat
  BY TemplateLineIs
<1>2. ASSUME NEW m \in 1..l, NEW j \in 1..Len(template[m])
      PROVE  OpenedAt(template, l + 1, 0, m, j) <=> OpenedAt(template, l, Len(template[l]) + 1, m, j)
  <2>0. m \in Nat /\ m <= l /\ m < l + 1 /\ j \in Nat
    BY <1>1
  <2>1. m < l \/ j <= Len(template[l]) + 1
    BY <1>1, <2>0
  <2>2. ASSUME NEW k \in m..l, NEW h \in 1..Len(template[k])
        PROVE  ((k = m /\ h < j) \/ (k = l + 1 /\ h >= 0)) <=>
               ((k = m /\ h < j) \/ (k = l /\ h >= Len(template[l]) + 1))
    <3>1. k # l + 1 /\ (k = l => ~(h >= Len(template[l]) + 1))
      BY <1>1, <2>0
    <3> QED
      BY <3>1
  <2>3. \A h \in 1..Len(template[l + 1]) : l + 1 = l + 1 /\ h >= 0
    OBVIOUS
  <2>4. \A k \in m..(l + 1) : k \in m..l \/ k = l + 1
    BY <1>1, <2>0
  <2>5. \A k \in m..l : k \in m..(l + 1)
    BY <1>1, <2>0
  <2>6. ASSUME OpenedAt(template, l + 1, 0, m, j)
        PROVE  OpenedAt(template, l, Len(template[l]) + 1, m, j)
    <3>1. template[m][j] = Open
      BY <2>6 DEF OpenedAt
    <3>2. ASSUME NEW k \in m..l, NEW h \in 1..Len(template[k]), template[k][h] = Close
          PROVE  (k = m /\ h < j) \/ (k = l /\ h >= Len(template[l]) + 1)
      <4>1. (k = m /\ h < j) \/ (k = l + 1 /\ h >= 0)
        BY <2>5, <2>6, <3>2 DEF OpenedAt
      <4> QED
        BY <2>2, <4>1
    <3> QED
      BY <2>1, <3>1, <3>2 DEF OpenedAt
  <2>7. ASSUME OpenedAt(template, l, Len(template[l]) + 1, m, j)
        PROVE  OpenedAt(template, l + 1, 0, m, j)
    <3>1. template[m][j] = Open
      BY <2>7 DEF OpenedAt
    <3>2. ASSUME NEW k \in m..(l + 1), NEW h \in 1..Len(template[k]), template[k][h] = Close
          PROVE  (k = m /\ h < j) \/ (k = l + 1 /\ h >= 0)
      <4>1. CASE k \in m..l
        <5>1. (k = m /\ h < j) \/ (k = l /\ h >= Len(template[l]) + 1)
          BY <2>7, <3>2, <4>1 DEF OpenedAt
        <5> QED
          BY <2>2, <4>1, <5>1
      <4>2. CASE k = l + 1
        BY <2>3, <4>2
      <4> QED
        BY <2>4, <4>1, <4>2
    <3> QED
      BY <2>0, <3>1, <3>2 DEF OpenedAt
  <2> QED
    BY <2>6, <2>7
<1>3. ASSUME InBraces(template, l + 1, 0) PROVE InBraces(template, l, Len(template[l]) + 1)
  <2>1. PICK m \in 1..(l + 1) : \E j \in 1..Len(template[m]) : OpenedAt(template, l + 1, 0, m, j)
    BY <1>3, InBracesIs
  <2>2. PICK j \in 1..Len(template[m]) : OpenedAt(template, l + 1, 0, m, j)
    BY <2>1
  <2>3. m \in 1..l
    BY <1>1, <2>2 DEF OpenedAt
  <2>4. OpenedAt(template, l, Len(template[l]) + 1, m, j)
    BY <1>2, <2>2, <2>3
  <2> QED
    BY <2>3, <2>4, InBracesIs
<1>4. ASSUME InBraces(template, l, Len(template[l]) + 1) PROVE InBraces(template, l + 1, 0)
  <2>1. PICK m \in 1..l : \E j \in 1..Len(template[m]) :
                            OpenedAt(template, l, Len(template[l]) + 1, m, j)
    BY <1>4, InBracesIs
  <2>2. PICK j \in 1..Len(template[m]) : OpenedAt(template, l, Len(template[l]) + 1, m, j)
    BY <2>1
  <2>3. OpenedAt(template, l + 1, 0, m, j) /\ m \in 1..(l + 1)
    BY <1>1, <1>2, <2>2
  <2> QED
    BY <2>3, InBracesIs
<1> QED
  BY <1>3, <1>4

\* A template begins and ends outside of braces.
LEMMA BracesBegin ==
  ASSUME NEW template \in Seq(Seq(Items)), 1 \in 1..Len(template)
  PROVE  ~InBraces(template, 1, 0)
<1> SUFFICES ASSUME InBraces(template, 1, 0) PROVE FALSE
  OBVIOUS
<1>1. PICK m \in 1..1 : \E j \in 1..Len(template[m]) : OpenedAt(template, 1, 0, m, j)
  BY InBracesIs
<1>2. PICK j \in 1..Len(template[m]) : OpenedAt(template, 1, 0, m, j)
  BY <1>1
<1> QED
  BY <1>2 DEF OpenedAt

LEMMA BracesEnd ==
  ASSUME NEW template \in Seq(Seq(Items)), Shaped(template), NEW l, l = Len(template), l > 0
  PROVE  ~InBraces(template, l, Len(template[l]) + 1)
<1> SUFFICES ASSUME InBraces(template, l, Len(template[l]) + 1) PROVE FALSE
  OBVIOUS
<1>0. l \in 1..Len(template) /\ l \in Nat
  OBVIOUS
<1>1. PICK m \in 1..l : \E j \in 1..Len(template[m]) : OpenedAt(template, l, Len(template[l]) + 1, m, j)
  BY <1>0, InBracesIs
<1>2. PICK j \in 1..Len(template[m]) : OpenedAt(template, l, Len(template[l]) + 1, m, j)
  BY <1>1
<1>3. m \in 1..Len(template) /\ template[m][j] = Open
  BY <1>0, <1>2 DEF OpenedAt
<1>4. j = 1 /\ \E k \in m..l : First(Close, template[k]) > 0
  BY <1>0, <1>3, OpenIs
<1>5. PICK k \in m..l : First(Close, template[k]) > 0
  BY <1>4
<1>6. k \in 1..Len(template) /\ template[k] \in Seq(Items)
  BY <1>0, <1>3, TemplateLineIs
<1> DEFINE h == First(Close, template[k])
<1>7. h \in 1..Len(template[k]) /\ template[k][h] = Close
  BY <1>5, <1>6, FirstIs
<1>8. (k = m /\ h < 1) \/ (k = l /\ h >= Len(template[l]) + 1)
  BY <1>2, <1>4, <1>7 DEF OpenedAt
<1>9. Len(template[k]) \in Nat
  BY <1>6
<1> QED
  BY <1>7, <1>8, <1>9

-----------------------------------------------------------------------------
\* Template: what is kept of a line.

\* A comment in dashes begins at the first of them, outside of braces, in a line that opens none.
LEMMA DashesAre ==
  ASSUME NEW template \in Seq(Seq(Items)), Shaped(template), NEW l \in 1..Len(template),
         NEW j \in 1..Len(template[l]), BeginsDashes(template[l], j)
  PROVE  /\ Dashes(template[l]) /\ First(Open, template[l]) = 0 /\ ~InBraces(template, l, j)
         /\ First(Dash, template[l]) <= j
<1>1. template[l] \in Seq(Items) /\ l \in DOMAIN template /\ j \in DOMAIN template[l] /\ j \in Nat
  BY TemplateLineIs
<1>2. AfterDashes(template[l], j + 1)
  <2>1. j \in 1..((j + 1) - 1)
    BY <1>1
  <2> QED
    BY <2>1 DEF AfterDashes
<1>3. Dashes(template[l]) /\ First(Open, template[l]) = 0 /\ ~InBraces(template, l, j)
  BY <1>1, <1>2 DEF Shaped
<1>4. template[l][j] = Dash
  BY DEF BeginsDashes
<1>5. /\ First(Dash, template[l]) \in 0..Len(template[l])
      /\ \A i \in 1..(First(Dash, template[l]) - 1) : template[l][i] # Dash
  BY <1>1, FirstIs
<1>6. First(Dash, template[l]) <= j
  BY <1>1, <1>4, <1>5
<1> QED
  BY <1>3, <1>6

\* A line with dashes begins a comment at the first.
LEMMA DashesBegin ==
  ASSUME NEW s \in Seq(Items), Dashes(s)
  PROVE  First(Dash, s) \in 1..(Len(s) - 1) /\ BeginsDashes(s, First(Dash, s))
<1>1. /\ First(Dash, s) \in 0..Len(s) /\ First(Dash, s) > 0 /\ First(Dash, s) < Len(s)
      /\ s[First(Dash, s) + 1] = Dash
  BY FirstIs DEF Dashes
<1>2. s[First(Dash, s)] = Dash
  BY <1>1, FirstIs
<1> QED
  BY <1>1, <1>2 DEF BeginsDashes

\* The part of a line that is in no comment.
Lo(template, l) ==
  IF Entered(template, l)
    THEN IF First(Close, template[l]) > 0 THEN First(Close, template[l]) + 1
                                          ELSE Len(template[l]) + 1
    ELSE 1
Hi(s) == IF Dashes(s) THEN First(Dash, s) - 1 ELSE Len(s)

LEMMA ClosedBeforeIs ==
  ASSUME NEW s \in Seq(Items), NEW i \in Nat, i <= Len(s) + 1
  PROVE  ClosedBefore(s, i) <=> First(Close, s) > 0 /\ First(Close, s) < i
<1> DEFINE c == First(Close, s)
<1>1. /\ c \in 0..Len(s) /\ Len(s) \in Nat
      /\ c = 0 => \A h \in 1..Len(s) : s[h] # Close
      /\ c # 0 => s[c] = Close
      /\ \A h \in 1..(c - 1) : s[h] # Close
  BY FirstIs
<1> HIDE DEF c
<1>2. ASSUME c > 0, c < i PROVE ClosedBefore(s, i)
  <2>1. c \in 1..(i - 1) /\ s[c] = Close
    BY <1>1, <1>2
  <2> QED
    BY <2>1 DEF ClosedBefore
<1>3. ASSUME NEW h \in 1..(i - 1), s[h] = Close PROVE c > 0 /\ c < i
  <2>1. h \in 1..Len(s) /\ c # 0
    BY <1>1, <1>3
  <2>2. ~(h \in 1..(c - 1))
    BY <1>1, <1>3
  <2> QED
    BY <1>1, <2>1, <2>2
<1> QED
  BY <1>2, <1>3 DEF ClosedBefore, c

LEMMA RangeIs ==
  ASSUME NEW template \in Seq(Seq(Items)), Shaped(template), NEW l \in 1..Len(template)
  PROVE  /\ Lo(template, l) \in 1..(Len(template[l]) + 1) /\ Hi(template[l]) \in 0..Len(template[l])
         /\ Lo(template, l) <= Hi(template[l]) + 1
         /\ \A i \in 1..Len(template[l]) : ~InBraces(template, l, i) <=> i >= Lo(template, l)
<1> DEFINE S == template[l]
           c == First(Close, S)
           d == First(Dash, S)
           lo == Lo(template, l)
           hi == Hi(S)
<1>1. S \in Seq(Items) /\ Len(S) \in Nat
  BY TemplateLineIs
<1>2. c \in 0..Len(S) /\ d \in 0..Len(S)
  BY <1>1, FirstIs
<1>3. lo = IF Entered(template, l) THEN IF c > 0 THEN c + 1 ELSE Len(S) + 1 ELSE 1
  BY DEF Lo
<1>4. hi = IF Dashes(S) THEN d - 1 ELSE Len(S)
  BY DEF Hi
<1>5. Dashes(S) => d \in 1..(Len(S) - 1) /\ BeginsDashes(S, d)
  BY <1>1, DashesBegin
<1>6. ASSUME NEW i \in 1..Len(S)
      PROVE  InBraces(template, l, i) <=> Entered(template, l) /\ ~(c > 0 /\ c < i)
  <2>1. i \in Nat /\ i <= Len(S) + 1 /\ i \in 1..(Len(S) + 1)
    BY <1>1
  <2>2. ClosedBefore(S, i) <=> c > 0 /\ c < i
    BY <1>1, <2>1, ClosedBeforeIs
  <2> QED
    BY <2>1, <2>2, BracesIs
<1>7. Dashes(S) => ~InBraces(template, l, d)
  BY <1>1, <1>5, DashesAre
<1> HIDE DEF S, c, d, lo, hi
<1>8. lo \in 1..(Len(S) + 1) /\ hi \in 0..Len(S)
  BY <1>1, <1>2, <1>3, <1>4, <1>5
<1>9. \A i \in 1..Len(S) : ~InBraces(template, l, i) <=> i >= lo
  <2> TAKE i \in 1..Len(S)
  <2>1. InBraces(template, l, i) <=> Entered(template, l) /\ ~(c > 0 /\ c < i)
    BY <1>6
  <2>2. CASE Entered(template, l)
    BY <1>1, <1>2, <1>3, <2>1, <2>2
  <2>3. CASE ~Entered(template, l)
    BY <1>1, <1>3, <2>1, <2>3
  <2> QED
    BY <2>2, <2>3
<1>10. lo <= hi + 1
  <2>1. CASE Dashes(S)
    <3>1. d \in 1..Len(S) /\ hi = d - 1
      BY <1>1, <1>4, <1>5, <2>1
    <3>2. d >= lo
      BY <1>7, <1>9, <2>1, <3>1
    <3> QED
      BY <1>2, <1>8, <3>1, <3>2
  <2>2. CASE ~Dashes(S)
    BY <1>1, <1>4, <1>8, <2>2
  <2> QED
    BY <2>1, <2>2
<1> QED
  BY <1>8, <1>9, <1>10 DEF S, lo, hi

\* What is kept without -c.
LEMMA KeptIs ==
  ASSUME NEW template \in Seq(Seq(Items)), Shaped(template), NEW l \in 1..Len(template),
         NEW f, ~("COMMENT" \in f), NEW i \in 1..Len(template[l])
  PROVE  Kept(f, template, l, i) <=> i >= Lo(template, l) /\ i <= Hi(template[l])
<1> DEFINE S == template[l]
           d == First(Dash, S)
<1>1. S \in Seq(Items) /\ Len(S) \in Nat /\ i \in Nat
  BY TemplateLineIs
<1>2. ~InBraces(template, l, i) <=> i >= Lo(template, l)
  BY <1>1, RangeIs
<1>3. \A j \in 1..Len(S) : BeginsDashes(S, j) => Dashes(S) /\ d <= j
  BY DashesAre
<1>4. Dashes(S) => d \in 1..(Len(S) - 1) /\ BeginsDashes(S, d)
  BY <1>1, DashesBegin
<1>5. Hi(S) = IF Dashes(S) THEN d - 1 ELSE Len(S)
  BY DEF Hi
<1>6. d \in 0..Len(S)
  BY <1>1, FirstIs
<1>7. AfterDashes(S, i) <=> \E j \in 1..(i - 1) : BeginsDashes(S, j)
  BY DEF AfterDashes
<1>8. i \in 1..Len(S)
  OBVIOUS
<1> HIDE DEF S, d
<1>9. (AfterDashes(S, i) \/ BeginsDashes(S, i)) <=> Dashes(S) /\ d <= i
  <2>1. ASSUME AfterDashes(S, i) \/ BeginsDashes(S, i) PROVE Dashes(S) /\ d <= i
    <3>1. PICK j \in 1..Len(S) : j <= i /\ BeginsDashes(S, j)
      BY <1>1, <1>7, <1>8, <2>1
    <3>2. Dashes(S) /\ d <= j
      BY <1>3, <3>1
    <3> QED
      BY <1>1, <1>6, <3>1, <3>2
  <2>2. ASSUME Dashes(S), d <= i PROVE AfterDashes(S, i) \/ BeginsDashes(S, i)
    <3>1. d \in Nat /\ d >= 1 /\ BeginsDashes(S, d)
      BY <1>1, <1>4, <2>2
    <3>2. CASE d = i
      BY <3>1, <3>2
    <3>3. CASE d # i
      <4>1. d \in 1..(i - 1)
        BY <1>1, <2>2, <3>1, <3>3
      <4> QED
        BY <1>7, <3>1, <4>1
    <3> QED
      BY <3>2, <3>3
  <2> QED
    BY <2>1, <2>2
<1>10. i <= Hi(S) <=> ~(Dashes(S) /\ d <= i)
  BY <1>1, <1>5, <1>6, <1>8
<1> QED
  BY <1>2, <1>9, <1>10 DEF Kept, S

-----------------------------------------------------------------------------
\* Template: parts of lines.

\* Two sequences that have an item at the same places have it first at the same place.
LEMMA FirstSame ==
  ASSUME NEW E, NEW s \in Seq(E), NEW t \in Seq(E), NEW item, Len(s) = Len(t),
         \A i \in 1..Len(s) : s[i] = item <=> t[i] = item
  PROVE  First(item, s) = First(item, t)
<1> DEFINE a == First(item, s)
           b == First(item, t)
<1>1. /\ Len(s) \in Nat /\ a \in 0..Len(s) /\ b \in 0..Len(s)
      /\ a = 0 => \A i \in 1..Len(s) : s[i] # item
      /\ b = 0 => \A i \in 1..Len(s) : t[i] # item
      /\ a # 0 => s[a] = item
      /\ b # 0 => t[b] = item
      /\ \A i \in 1..(a - 1) : s[i] # item
      /\ \A i \in 1..(b - 1) : t[i] # item
  BY FirstIs
<1> HIDE DEF a, b
<1> QED
  BY <1>1 DEF a, b

\* Items of a part of a sequence.
LEMMA PartIs ==
  ASSUME NEW E, NEW s \in Seq(E), NEW m \in 1..(Len(s) + 1), NEW n \in 0..Len(s), m <= n + 1
  PROVE  /\ SubSeq(s, m, n) \in Seq(E) /\ Len(SubSeq(s, m, n)) = n - m + 1
         /\ \A i \in 1..(n - m + 1) : SubSeq(s, m, n)[i] = s[m + i - 1]
<1>1. m \in Int /\ n \in Int /\ Len(s) \in Nat
  OBVIOUS
<1> QED
  BY <1>1, SubSeqProperties

\* Part of a part.
LEMMA PartOfPart ==
  ASSUME NEW E, NEW s \in Seq(E), NEW m \in 1..(Len(s) + 1), NEW n \in 0..Len(s), m <= n + 1,
         NEW a \in 1..(n - m + 2), NEW b \in 0..(n - m + 1), a <= b + 1
  PROVE  SubSeq(SubSeq(s, m, n), a, b) = SubSeq(s, m + a - 1, m + b - 1)
<1> DEFINE t == SubSeq(s, m, n)
           u == SubSeq(t, a, b)
           v == SubSeq(s, m + a - 1, m + b - 1)
<1>1. Len(s) \in Nat /\ m \in Int /\ n \in Int /\ a \in Int /\ b \in Int
  OBVIOUS
<1>2. t \in Seq(E) /\ Len(t) = n - m + 1 /\ \A i \in 1..(n - m + 1) : t[i] = s[m + i - 1]
  BY PartIs
<1> HIDE DEF t
<1>3. u \in Seq(E) /\ Len(u) = b - a + 1 /\ \A i \in 1..(b - a + 1) : u[i] = t[a + i - 1]
  <2>1. a \in 1..(Len(t) + 1) /\ b \in 0..Len(t)
    BY <1>1, <1>2
  <2> QED
    BY <1>2, <2>1, PartIs
<1>4. v \in Seq(E) /\ Len(v) = b - a + 1
      /\ \A i \in 1..(b - a + 1) : v[i] = s[m + a - 1 + i - 1]
  <2>1. m + a - 1 \in 1..(Len(s) + 1) /\ m + b - 1 \in 0..Len(s) /\ m + a - 1 <= m + b - 1 + 1
    BY <1>1
  <2>2. m + b - 1 - (m + a - 1) + 1 = b - a + 1
    BY <1>1
  <2> QED
    BY <2>1, <2>2, PartIs
<1> HIDE DEF u, v
<1>5. ASSUME NEW i \in 1..(b - a + 1) PROVE u[i] = v[i]
  <2>1. a + i - 1 \in 1..(n - m + 1) /\ m + (a + i - 1) - 1 = m + a - 1 + i - 1
    BY <1>1
  <2> QED
    BY <1>2, <1>3, <1>4, <2>1
<1>6. u = v
  BY <1>1, <1>3, <1>4, <1>5, SeqEqual
<1> QED
  BY <1>6 DEF t, u, v

\* The rest of a line from a place, and the dashes of it.
LEMMA RestIs ==
  ASSUME NEW s \in Seq(Items), NEW m \in 1..(Len(s) + 1)
  PROVE  /\ From(s, m) \in Seq(Items) /\ Len(From(s, m)) = Len(s) - m + 1
         /\ \A i \in 1..(Len(s) - m + 1) : From(s, m)[i] = s[m + i - 1]
<1>1. Len(s) \in Nat /\ Len(s) \in 0..Len(s) /\ m <= Len(s) + 1
  OBVIOUS
<1> QED
  BY <1>1, PartIs DEF From

\* The item at the end of braces, in the line and in what strip_comments has made of it.
LEMMA RestSame ==
  ASSUME NEW s \in Seq(Items), NEW u \in Seq(Items), Len(u) = Len(s), NEW m \in 1..(Len(s) + 1),
         \A i \in m..Len(s) : u[i] = s[i]
  PROVE  From(u, m) = From(s, m)
<1>1. Len(s) \in Nat /\ m \in Nat
  OBVIOUS
<1>2. /\ From(s, m) \in Seq(Items) /\ Len(From(s, m)) = Len(s) - m + 1
      /\ \A i \in 1..(Len(s) - m + 1) : From(s, m)[i] = s[m + i - 1]
      /\ From(u, m) \in Seq(Items) /\ Len(From(u, m)) = Len(s) - m + 1
      /\ \A i \in 1..(Len(s) - m + 1) : From(u, m)[i] = u[m + i - 1]
  BY RestIs
<1>3. ASSUME NEW i \in 1..(Len(s) - m + 1) PROVE From(u, m)[i] = From(s, m)[i]
  <2>1. m + i - 1 \in m..Len(s)
    BY <1>1
  <2> QED
    BY <1>2, <2>1
<1> QED
  BY <1>2, <1>3, SeqEqual

-----------------------------------------------------------------------------
\* Template: strip_comments.

\* A line that ends in braces is one that no brace closes.
LEMMA EndsInBraces ==
  ASSUME NEW template \in Seq(Seq(Items)), Shaped(template), NEW l \in 1..Len(template)
  PROVE  InBraces(template, l, Len(template[l]) + 1) <=>
           Entered(template, l) /\ First(Close, template[l]) = 0
<1>1. template[l] \in Seq(Items) /\ Len(template[l]) \in Nat
  BY TemplateLineIs
<1>2. First(Close, template[l]) \in 0..Len(template[l])
  BY <1>1, FirstIs
<1>3. /\ Len(template[l]) + 1 \in Nat /\ Len(template[l]) + 1 <= Len(template[l]) + 1
      /\ Len(template[l]) + 1 \in 1..(Len(template[l]) + 1)
  BY <1>1
<1>4. ClosedBefore(template[l], Len(template[l]) + 1) <=>
        First(Close, template[l]) > 0 /\ First(Close, template[l]) < Len(template[l]) + 1
  BY <1>1, <1>3, ClosedBeforeIs
<1>5. ClosedBefore(template[l], Len(template[l]) + 1) <=> ~(First(Close, template[l]) = 0)
  BY <1>1, <1>2, <1>4
<1> QED
  BY <1>3, <1>5, BracesIs

\* After the braces a comment in dashes begins where it does in the whole line.
LEMMA DashesRest ==
  ASSUME NEW template \in Seq(Seq(Items)), Shaped(template), NEW l \in 1..Len(template),
         NEW u, u = From(template[l], Lo(template, l))
  PROVE  /\ Dashes(u) <=> Dashes(template[l])
         /\ Dashes(u) => First(Dash, u) = First(Dash, template[l]) - Lo(template, l) + 1
<1> DEFINE S == template[l]
           m == Lo(template, l)
           d == First(Dash, S)
           e == First(Dash, u)
<1>1. S \in Seq(Items) /\ Len(S) \in Nat
  BY TemplateLineIs
<1>2. m \in 1..(Len(S) + 1) /\ m <= Hi(S) + 1
  BY RangeIs
<1>3. u \in Seq(Items) /\ Len(u) = Len(S) - m + 1 /\ \A i \in 1..(Len(S) - m + 1) : u[i] = S[m + i - 1]
  BY <1>1, <1>2, RestIs
<1>4. /\ d \in 0..Len(S) /\ \A i \in 1..(d - 1) : S[i] # Dash
      /\ e \in 0..Len(u) /\ \A i \in 1..(e - 1) : u[i] # Dash
      /\ e = 0 => \A i \in 1..Len(u) : u[i] # Dash
  BY <1>1, <1>3, FirstIs
<1>5. Hi(S) = IF Dashes(S) THEN d - 1 ELSE Len(S)
  BY DEF Hi
<1>6. \A j \in 1..Len(S) : BeginsDashes(S, j) => Dashes(S) /\ d <= j
  BY DashesAre
<1>7. Dashes(S) => d \in 1..(Len(S) - 1) /\ BeginsDashes(S, d)
  BY <1>1, DashesBegin
<1>8. Dashes(u) => e \in 1..(Len(u) - 1) /\ BeginsDashes(u, e)
  BY <1>3, DashesBegin
<1>9. Dashes(u) <=> e > 0 /\ e < Len(u) /\ u[e + 1] = Dash
  BY DEF Dashes
<1>10. \A j : BeginsDashes(S, j) <=> j < Len(S) /\ S[j] = Dash /\ S[j + 1] = Dash
  BY DEF BeginsDashes
<1>11. \A j : BeginsDashes(u, j) <=> j < Len(u) /\ u[j] = Dash /\ u[j + 1] = Dash
  BY DEF BeginsDashes
<1> HIDE DEF S, m, d, e
<1>12. ASSUME Dashes(S) PROVE Dashes(u) /\ e = d - m + 1
  <2>1. d \in 1..(Len(S) - 1) /\ S[d] = Dash /\ S[d + 1] = Dash
    BY <1>7, <1>10, <1>12
  <2>2. m <= d
    BY <1>1, <1>2, <1>5, <1>12, <2>1
  <2>3. /\ d - m + 1 \in 1..(Len(S) - m + 1) /\ d - m + 2 \in 1..(Len(S) - m + 1)
        /\ m + (d - m + 1) - 1 = d /\ m + (d - m + 2) - 1 = d + 1 /\ (d - m + 1) + 1 = d - m + 2
    BY <1>1, <1>2, <2>1, <2>2
  <2>4. u[d - m + 1] = S[m + (d - m + 1) - 1] /\ u[d - m + 2] = S[m + (d - m + 2) - 1]
    BY <1>3, <2>3
  <2>5. u[d - m + 1] = Dash /\ u[d - m + 2] = Dash
    BY <2>1, <2>3, <2>4
  <2>6. e \in 1..Len(u) /\ e <= d - m + 1
    <3>1. d - m + 1 \in 1..Len(u) /\ Len(u) \in Nat
      BY <1>1, <1>2, <1>3, <2>3
    <3>2. e # 0 /\ ~(d - m + 1 \in 1..(e - 1))
      BY <1>4, <2>5, <3>1
    <3>3. e \in 0..Len(u)
      BY <1>4
    <3> QED
      BY <3>1, <3>2, <3>3
  <2>7. e >= d - m + 1
    <3>1. SUFFICES ASSUME e < d - m + 1 PROVE FALSE
      BY <1>2, <2>1, <2>6
    <3>2. e # 0 /\ e \in 1..(Len(S) - m + 1) /\ m + e - 1 \in 1..(d - 1)
      BY <1>1, <1>2, <1>3, <2>1, <2>6, <3>1
    <3>3. S[m + e - 1] # Dash
      BY <1>4, <3>2
    <3>4. u[e] = Dash
      BY <1>3, <3>2, FirstIs DEF e
    <3> QED
      BY <1>3, <3>2, <3>3, <3>4
  <2>8. e = d - m + 1
    BY <1>2, <2>1, <2>6, <2>7
  <2>9. e > 0 /\ e < Len(u) /\ u[e + 1] = Dash
    BY <1>1, <1>2, <1>3, <2>1, <2>2, <2>3, <2>5, <2>8
  <2> QED
    BY <1>9, <2>8, <2>9
<1>13. ASSUME Dashes(u) PROVE Dashes(S)
  <2>1. e \in 1..(Len(u) - 1) /\ u[e] = Dash /\ u[e + 1] = Dash
    BY <1>8, <1>11, <1>13
  <2>2. /\ e \in 1..(Len(S) - m + 1) /\ e + 1 \in 1..(Len(S) - m + 1)
        /\ m + (e + 1) - 1 = (m + e - 1) + 1 /\ m + e - 1 \in 1..Len(S) /\ m + e - 1 < Len(S)
    BY <1>1, <1>2, <1>3, <2>1
  <2>3. S[m + e - 1] = Dash /\ S[m + (e + 1) - 1] = Dash
    BY <1>3, <2>1, <2>2
  <2>4. BeginsDashes(S, m + e - 1)
    BY <1>10, <2>2, <2>3
  <2> QED
    BY <1>6, <2>2, <2>4
<1> QED
  BY <1>12, <1>13 DEF S, m, d, e

-----------------------------------------------------------------------------
\* What strip_comments has made of line l while it is at work, in a comment or not.
InComment(template, l, u) ==
  /\ Entered(template, l) /\ u \in Seq(Items) /\ Len(u) = Len(template[l])
  /\ \A i \in 1..Len(template[l]) :
       u[i] = template[l][i] \/ (i = 1 /\ template[l][1] = Open /\ u[1] = Words(0))
OutOfComment(template, l, u) ==
  \/ u = template[l] /\ ~InBraces(template, l, 0)
  \/ /\ Entered(template, l) /\ First(Close, template[l]) > 0
     /\ u = From(template[l], Lo(template, l))
\* And when it is done.
Stripped(template, l, u) == u = SubSeq(template[l], Lo(template, l), Hi(template[l]))

\* In a comment, a brace closes where it does in the line.
LEMMA ClosesSame ==
  ASSUME NEW template \in Seq(Seq(Items)), NEW l \in 1..Len(template), NEW u,
         InComment(template, l, u)
  PROVE  First(Close, u) = First(Close, template[l])
<1>1. template[l] \in Seq(Items) /\ u \in Seq(Items) /\ Len(u) = Len(template[l])
  BY TemplateLineIs DEF InComment
<1>2. ASSUME NEW i \in 1..Len(template[l]) PROVE template[l][i] = Close <=> u[i] = Close
  <2>1. u[i] = template[l][i] \/ (i = 1 /\ template[l][1] = Open /\ u[1] = Words(0))
    BY DEF InComment
  <2> QED
    BY <2>1, BraceIs
<1> QED
  BY <1>1, <1>2, FirstSame

LEMMA StripEnds ==
  ASSUME NEW template \in Seq(Seq(Items)), Shaped(template), NEW l \in 1..Len(template), NEW u,
         InComment(template, l, u), First(Close, u) > 0
  PROVE  OutOfComment(template, l, From(u, First(Close, u) + 1))
<1> DEFINE S == template[l]
           c == First(Close, S)
<1>1. S \in Seq(Items) /\ u \in Seq(Items) /\ Len(u) = Len(S) /\ Entered(template, l)
  BY TemplateLineIs DEF InComment
<1>2. First(Close, u) = c /\ c \in 1..Len(S) /\ Len(S) \in Nat
  BY <1>1, ClosesSame, FirstIs
<1>3. Lo(template, l) = c + 1
  BY <1>1, <1>2 DEF Lo
<1>4. ASSUME NEW i \in (c + 1)..Len(S) PROVE u[i] = S[i]
  <2>1. i \in 1..Len(S) /\ i # 1
    BY <1>2
  <2> QED
    BY <2>1 DEF InComment
<1>5. c + 1 \in 1..(Len(S) + 1)
  BY <1>2
<1>6. From(u, c + 1) = From(S, c + 1)
  BY <1>1, <1>4, <1>5, RestSame
<1>7. c > 0
  BY <1>2
<1> QED
  BY <1>1, <1>2, <1>3, <1>6, <1>7 DEF OutOfComment

LEMMA StripGoesOn ==
  ASSUME NEW template \in Seq(Seq(Items)), Shaped(template), NEW l \in 1..Len(template), NEW u,
         InComment(template, l, u), First(Close, u) = 0
  PROVE  Stripped(template, l, <<>>) /\ InBraces(template, l, Len(template[l]) + 1)
<1> DEFINE S == template[l]
<1>1. S \in Seq(Items) /\ Len(S) \in Nat /\ Entered(template, l)
  BY TemplateLineIs DEF InComment
<1>2. First(Close, S) = 0
  BY ClosesSame
<1>3. Lo(template, l) = Len(S) + 1
  BY <1>1, <1>2 DEF Lo
<1>4. Hi(S) \in 0..Len(S)
  BY RangeIs
<1>5. SubSeq(S, Lo(template, l), Hi(S)) = <<>>
  <2>1. Lo(template, l) \in Int /\ Hi(S) \in Int /\ Hi(S) < Lo(template, l)
    BY <1>1, <1>3, <1>4
  <2> QED
    BY <2>1, SubSeqEmpty
<1>6. InBraces(template, l, Len(S) + 1)
  BY <1>1, <1>2, EndsInBraces
<1> QED
  BY <1>5, <1>6 DEF Stripped

\* Out of a comment, the rest of a line that opens no brace and begins no comment in dashes, or
\* the part of it before the dashes, is what is kept of the line.
LEMMA StripDashes ==
  ASSUME NEW template \in Seq(Seq(Items)), Shaped(template), NEW l \in 1..Len(template), NEW u,
         OutOfComment(template, l, u), Dashes(u)
  PROVE  /\ Stripped(template, l, SubSeq(u, 1, First(Dash, u) - 1))
         /\ ~InBraces(template, l, Len(template[l]) + 1)
<1> DEFINE S == template[l]
           m == Lo(template, l)
           d == First(Dash, S)
<1>1. S \in Seq(Items) /\ Len(S) \in Nat /\ 1 \in 1..Len(S)
  BY TemplateLineIs, LineBegins
<1>2. m \in 1..(Len(S) + 1) /\ m <= Hi(S) + 1
  BY RangeIs
<1>3. Hi(S) = IF Dashes(S) THEN d - 1 ELSE Len(S)
  BY DEF Hi
<1>4. Dashes(S) => d \in 1..(Len(S) - 1) /\ BeginsDashes(S, d)
  BY <1>1, DashesBegin
<1>5. CASE u = S /\ ~InBraces(template, l, 0)
  <2>1. d \in 1..Len(S) /\ BeginsDashes(S, d)
    BY <1>1, <1>4, <1>5
  <2>2. First(Open, S) = 0
    BY <2>1, DashesAre
  <2>3. S[1] # Open
    BY <1>1, <2>2, FirstIs
  <2>4. ~Entered(template, l)
    BY <1>5, <2>3 DEF Entered
  <2>5. m = 1
    BY <2>4 DEF Lo
  <2>6. ~InBraces(template, l, Len(S) + 1)
    BY <2>4, EndsInBraces
  <2> QED
    BY <1>3, <1>5, <2>5, <2>6 DEF Stripped
<1>6. CASE Entered(template, l) /\ First(Close, S) > 0 /\ u = From(S, m)
  <2>1. Dashes(S) /\ First(Dash, u) = d - m + 1
    BY <1>6, DashesRest
  <2>2. ~InBraces(template, l, Len(S) + 1)
    <3>1. First(Close, S) # 0
      BY <1>6
    <3> QED
      BY <3>1, EndsInBraces
  <2>3. d \in 1..(Len(S) - 1) /\ Hi(S) = d - 1
    BY <1>3, <1>4, <2>1
  <2>4. SubSeq(u, 1, First(Dash, u) - 1) = SubSeq(S, m, d - 1)
    <3> DEFINE n == Len(S)
    <3> HIDE DEF S, m, d
    <3>1. /\ n \in 0..Len(S) /\ m <= n + 1 /\ 1 \in 1..(n - m + 2) /\ d - m \in 0..(n - m + 1)
          /\ 1 <= (d - m) + 1 /\ m + 1 - 1 = m /\ m + (d - m) - 1 = d - 1 /\ d - m + 1 - 1 = d - m
      BY <1>1, <1>2, <2>3
    <3>2. u = SubSeq(S, m, n)
      BY <1>6 DEF From, m, S
    <3> HIDE DEF n
    <3>3. SubSeq(SubSeq(S, m, n), 1, d - m) = SubSeq(S, m + 1 - 1, m + (d - m) - 1)
      <4>1. S \in Seq(Items) /\ m \in 1..(Len(S) + 1) /\ n \in 0..Len(S) /\ m <= n + 1
        BY <1>1, <1>2, <3>1
      <4>2. 1 \in 1..(n - m + 2) /\ d - m \in 0..(n - m + 1) /\ 1 <= (d - m) + 1
        BY <3>1
      <4> DEFINE a == 1
                 b == d - m
      <4> HIDE DEF a, b
      <4>3. SubSeq(SubSeq(S, m, n), a, b) = SubSeq(S, m + a - 1, m + b - 1)
        <5>1. a \in 1..(n - m + 2) /\ b \in 0..(n - m + 1) /\ a <= b + 1
          BY <4>2 DEF a, b
        <5> QED
          BY <4>1, <5>1, PartOfPart
      <4> QED
        BY <4>3 DEF a, b
    <3>4. First(Dash, u) - 1 = d - m
      BY <2>1, <3>1
    <3> QED
      BY <3>1, <3>2, <3>3, <3>4
  <2> QED
    BY <2>2, <2>3, <2>4 DEF Stripped
<1> QED
  BY <1>5, <1>6 DEF OutOfComment

LEMMA StripBegins ==
  ASSUME NEW template \in Seq(Seq(Items)), Shaped(template), NEW l \in 1..Len(template), NEW u,
         OutOfComment(template, l, u), First(Open, u) > 0
  PROVE  InComment(template, l, [u EXCEPT ![First(Open, u)] = Words(0)])
<1> DEFINE S == template[l]
           m == Lo(template, l)
           o == First(Open, u)
<1>1. S \in Seq(Items) /\ Len(S) \in Nat
  BY TemplateLineIs
<1>2. m \in 1..(Len(S) + 1)
  BY RangeIs
<1>3. CASE u = S /\ ~InBraces(template, l, 0)
  <2>1. o \in 1..Len(S) /\ S[o] = Open
    BY <1>1, <1>3, FirstIs
  <2>2. o = 1
    BY <2>1, OpenIs
  <2>3. Entered(template, l)
    BY <2>1, <2>2 DEF Entered
  <2>4. [u EXCEPT ![o] = Words(0)] = [u EXCEPT ![1] = Words(0)]
    BY <2>2
  <2>5. [u EXCEPT ![1] = Words(0)] \in Seq(Items) /\ Len([u EXCEPT ![1] = Words(0)]) = Len(S)
    <3>1. u \in Seq(Items) /\ Words(0) \in Items /\ 1 \in 1..Len(u)
      BY <1>1, <1>3, <2>1, <2>2, BraceIs
    <3> QED
      BY <1>3, <3>1, ExceptSeq
  <2>6. ASSUME NEW i \in 1..Len(S)
        PROVE  \/ [u EXCEPT ![1] = Words(0)][i] = S[i]
               \/ i = 1 /\ S[1] = Open /\ [u EXCEPT ![1] = Words(0)][1] = Words(0)
    BY <1>1, <1>3, <2>1, <2>2
  <2> QED
    BY <2>3, <2>4, <2>5, <2>6 DEF InComment
<1>4. CASE Entered(template, l) /\ First(Close, S) > 0 /\ u = From(S, m)
  <2>1. u \in Seq(Items) /\ Len(u) = Len(S) - m + 1
        /\ \A i \in 1..(Len(S) - m + 1) : u[i] = S[m + i - 1]
    BY <1>1, <1>2, <1>4, RestIs
  <2>2. o \in 1..Len(u) /\ u[o] = Open
    BY <2>1, FirstIs
  <2>3. First(Close, S) \in 0..Len(S)
    BY <1>1, FirstIs
  <2>4. m = First(Close, S) + 1
    BY <1>4 DEF Lo
  <2> HIDE DEF S, m, o
  <2>5. m + o - 1 \in 1..Len(S) /\ m + o - 1 # 1 /\ S[m + o - 1] = Open
    <3>1. o \in 1..(Len(S) - m + 1) /\ m \in Nat /\ m > 1 /\ o \in Nat
      BY <1>1, <1>2, <1>4, <2>1, <2>2, <2>3, <2>4 DEF S
    <3>2. u[o] = S[m + o - 1]
      BY <2>1, <3>1
    <3> QED
      BY <1>1, <2>2, <3>1, <3>2
  <2> QED
    BY <2>5, OpenIs DEF S
<1> QED
  BY <1>3, <1>4 DEF OutOfComment

LEMMA StripNothing ==
  ASSUME NEW template \in Seq(Seq(Items)), Shaped(template), NEW l \in 1..Len(template), NEW u,
         OutOfComment(template, l, u), ~Dashes(u), First(Open, u) = 0
  PROVE  Stripped(template, l, u) /\ ~InBraces(template, l, Len(template[l]) + 1)
<1> DEFINE S == template[l]
           m == Lo(template, l)
<1>1. S \in Seq(Items) /\ Len(S) \in Nat /\ 1 \in 1..Len(S)
  BY TemplateLineIs, LineBegins
<1>2. CASE u = S /\ ~InBraces(template, l, 0)
  <2>1. S[1] # Open
    BY <1>1, <1>2, FirstIs
  <2>2. ~Entered(template, l)
    BY <1>2, <2>1 DEF Entered
  <2>3. m = 1
    BY <2>2 DEF Lo
  <2>4. ~InBraces(template, l, Len(S) + 1)
    BY <2>2, EndsInBraces
  <2>5. Hi(S) = Len(S)
    BY <1>2 DEF Hi
  <2>6. SubSeq(S, 1, Len(S)) = S
    BY <1>1, SubSeqFull
  <2> QED
    BY <1>2, <2>3, <2>4, <2>5, <2>6 DEF Stripped
<1>3. CASE Entered(template, l) /\ First(Close, S) > 0 /\ u = From(S, m)
  <2>1. ~Dashes(S)
    BY <1>3, DashesRest
  <2>2. Hi(S) = Len(S)
    BY <2>1 DEF Hi
  <2>3. ~InBraces(template, l, Len(S) + 1)
    <3>1. First(Close, S) # 0
      BY <1>3
    <3> QED
      BY <3>1, EndsInBraces
  <2> QED
    BY <1>3, <2>2, <2>3 DEF Stripped, From
<1> QED
  BY <1>2, <1>3 DEF OutOfComment

-----------------------------------------------------------------------------
\* Template: what a line becomes.

\* The templates are those that are assumed.
LEMMA TemplateIs ==
  ASSUME NEW q \in DOMAIN Templates
  PROVE  /\ Templates[q] \in Seq(Seq(Items)) /\ Shaped(Templates[q]) /\ q \in Nat
         /\ DOMAIN Templates[q] = 1..Len(Templates[q])
<1>1. Templates \in Seq(Seq(Seq(Items))) /\ Shaped(Templates[q])
  BY TemplateAssumption
<1>2. Templates[q] \in Seq(Seq(Items)) /\ q \in Nat
  BY <1>1
<1> QED
  BY <1>1, <1>2

\* A tag has a meaning, and what is no tag means itself.
LEMMA MeaningIs ==
  ASSUME NEW f, NEW q \in Nat, NEW item \in Items
  PROVE  /\ Meaning(f, q, item) \in Seq(Items)
         /\ ~VTAG(item) => Meaning(f, q, item) = <<item>>
<1>1. <<item>> \in Seq(Items) /\ <<>> \in Seq(Items)
  OBVIOUS
<1>2. <<Item("q", q)>> \in Seq(Items)
  <2>1. Item("q", q) \in Items
    BY DEF Item, Items, TagKinds
  <2> QED
    BY <2>1
<1>3. <<Item("s", IF SNUM < 0 THEN 0 ELSE SNUM)>> \in Seq(Items)
  <2>1. (IF SNUM < 0 THEN 0 ELSE SNUM) \in Int
    BY TemplateAssumption
  <2>2. Item("s", IF SNUM < 0 THEN 0 ELSE SNUM) \in Items
    BY <2>1 DEF Item, Items, TagKinds
  <2> QED
    BY <2>2
<1>4. Meaning(f, q, item) \in Seq(Items)
  <2> DEFINE iq == <<Item("q", q)>>
             is == <<Item("s", IF SNUM < 0 THEN 0 ELSE SNUM)>>
             X == Seq(Items)
  <2>1. iq \in X /\ is \in X /\ <<item>> \in X /\ <<>> \in X
    BY <1>1, <1>2, <1>3
  <2>2. Meaning(f, q, item) =
          CASE item.kind \in {"b", "e"} -> IF "ANSI" \in f THEN <<>> ELSE <<item>>
            [] item.kind = "c" -> IF "DBASE" \in f THEN <<item>> ELSE <<>>
            [] item.kind = "n" -> IF "DFLT_NUM" \in f THEN <<>> ELSE <<item>>
            [] item.kind = "o" -> IF "OUTPUT" \in f THEN <<item>> ELSE <<>>
            [] item.kind = "q" -> iq
            [] item.kind = "s" -> is
            [] item.kind = "x" -> IF "EXPLAIN" \in f THEN <<item>> ELSE <<>>
            [] item.kind = "unknown" -> <<>>
            [] OTHER -> <<item>>
    BY DEF Meaning
  <2> HIDE DEF X, iq, is
  <2>3. Meaning(f, q, item) \in X
    BY <2>1, <2>2
  <2> QED
    BY <2>3 DEF X
<1>5. ASSUME ~VTAG(item) PROVE Meaning(f, q, item) = <<item>>
  <2>1. /\ ~(item.kind \in {"b", "e"}) /\ item.kind # "c" /\ item.kind # "n" /\ item.kind # "o"
        /\ item.kind # "q" /\ item.kind # "s" /\ item.kind # "x" /\ item.kind # "unknown"
    BY <1>5 DEF VTAG, TagKinds
  <2> QED
    BY <2>1 DEF Meaning
<1> QED
  BY <1>4, <1>5

\* What the items of a line become.
Becoming(f, q, l) == [i \in DOMAIN Templates[q][l] |-> Becomes(f, q, l, i)]

LEMMA BecomingIs ==
  ASSUME NEW f, NEW q \in DOMAIN Templates, NEW l \in 1..Len(Templates[q])
  PROVE  /\ Becoming(f, q, l) \in Seq(Seq(Items))
         /\ Len(Becoming(f, q, l)) = Len(Templates[q][l])
         /\ \A i \in 1..Len(Templates[q][l]) : Becoming(f, q, l)[i] = Becomes(f, q, l, i)
<1> DEFINE S == Templates[q][l]
<1>1. /\ S \in Seq(Items) /\ DOMAIN S = 1..Len(S) /\ Len(S) \in Nat
      /\ \A i \in 1..Len(S) : S[i] \in Items
  BY TemplateIs, TemplateLineIs
<1>2. ASSUME NEW i \in 1..Len(S) PROVE Becomes(f, q, l, i) \in Seq(Items)
  <2>1. Meaning(f, q, S[i]) \in Seq(Items)
    BY <1>1, TemplateIs, MeaningIs
  <2>2. <<>> \in Seq(Items)
    OBVIOUS
  <2> QED
    BY <2>1, <2>2 DEF Becomes
<1> DEFINE X == Seq(Items)
           n == Len(S)
           B(i) == Becomes(f, q, l, i)
<1>3. Becoming(f, q, l) = [i \in 1..n |-> B(i)]
  BY <1>1 DEF Becoming
<1>4. n \in Nat /\ \A i \in 1..n : B(i) \in X
  BY <1>1, <1>2
<1> HIDE DEF X, n, B
<1>5. [i \in 1..n |-> B(i)] \in Seq(X) /\ Len([i \in 1..n |-> B(i)]) = n
  BY <1>4
<1>6. \A i \in 1..n : [j \in 1..n |-> B(j)][i] = B(i)
  OBVIOUS
<1> QED
  BY <1>3, <1>5, <1>6 DEF X, n, B

\* The items that are kept of a line.
KeptFrom(f, q, l) == IF "COMMENT" \in f THEN 1 ELSE Lo(Templates[q], l)
KeptTo(f, q, l)   == IF "COMMENT" \in f THEN Len(Templates[q][l]) ELSE Hi(Templates[q][l])

LEMMA KeptRange ==
  ASSUME NEW f, NEW q \in DOMAIN Templates, NEW l \in 1..Len(Templates[q])
  PROVE  /\ KeptFrom(f, q, l) \in 1..(Len(Templates[q][l]) + 1)
         /\ KeptTo(f, q, l) \in 0..Len(Templates[q][l])
         /\ KeptFrom(f, q, l) <= KeptTo(f, q, l) + 1
         /\ \A i \in 1..Len(Templates[q][l]) :
              Kept(f, Templates[q], l, i) <=> i >= KeptFrom(f, q, l) /\ i <= KeptTo(f, q, l)
<1> DEFINE S == Templates[q][l]
<1>1. Templates[q] \in Seq(Seq(Items)) /\ Shaped(Templates[q]) /\ Len(S) \in Nat
  BY TemplateIs, TemplateLineIs
<1>2. CASE "COMMENT" \in f
  <2>1. KeptFrom(f, q, l) = 1 /\ KeptTo(f, q, l) = Len(S)
    BY <1>2 DEF KeptFrom, KeptTo
  <2>2. \A i \in 1..Len(S) : Kept(f, Templates[q], l, i)
    BY <1>2 DEF Kept
  <2> QED
    BY <1>1, <2>1, <2>2
<1>3. CASE ~("COMMENT" \in f)
  <2>1. KeptFrom(f, q, l) = Lo(Templates[q], l) /\ KeptTo(f, q, l) = Hi(S)
    BY <1>3 DEF KeptFrom, KeptTo
  <2>2. \A i \in 1..Len(S) :
          Kept(f, Templates[q], l, i) <=> i >= Lo(Templates[q], l) /\ i <= Hi(S)
    BY <1>1, <1>3, KeptIs
  <2>3. /\ Lo(Templates[q], l) \in 1..(Len(S) + 1) /\ Hi(S) \in 0..Len(S)
        /\ Lo(Templates[q], l) <= Hi(S) + 1
    BY <1>1, RangeIs
  <2> QED
    BY <2>1, <2>2, <2>3
<1> QED
  BY <1>2, <1>3

\* What is put together of elements that are empty, or of one item each.
LEMMA EmptyUpTo ==
  ASSUME NEW E, NEW s \in Seq(Seq(E)), NEW a \in 0..Len(s), NEW b \in 0..Len(s), a <= b,
         \A i \in (a + 1)..b : s[i] = <<>>
  PROVE  UpTo(s, b) = UpTo(s, a)
<1>1. /\ Len(s) \in Nat /\ a \in Nat /\ b \in Nat
      /\ \A i \in 0..Len(s) : UpTo(s, i) \in Seq(E)
      /\ \A i \in 0..(Len(s) - 1) : UpTo(s, i + 1) = UpTo(s, i) \o s[i + 1]
  BY UpToIs
<1> DEFINE R == {k \in Nat : a + k <= b => UpTo(s, a + k) = UpTo(s, a)}
<1>2. 0 \in R
  BY <1>1
<1>3. ASSUME NEW k \in Nat, k \in R PROVE k + 1 \in R
  <2> SUFFICES ASSUME a + (k + 1) <= b PROVE UpTo(s, a + (k + 1)) = UpTo(s, a)
    OBVIOUS
  <2>1. /\ a + k <= b /\ a + k \in 0..(Len(s) - 1) /\ (a + k) + 1 = a + (k + 1)
        /\ a + (k + 1) \in (a + 1)..b /\ a + k \in 0..Len(s)
    BY <1>1
  <2>2. UpTo(s, a + (k + 1)) = UpTo(s, a + k) \o s[a + (k + 1)]
    BY <1>1, <2>1
  <2>3. s[a + (k + 1)] = <<>>
    BY <2>1
  <2>4. UpTo(s, a + k) \o <<>> = UpTo(s, a + k)
    BY <1>1, <2>1, ConcatEmptySeq
  <2>5. UpTo(s, a + k) = UpTo(s, a)
    BY <1>3, <2>1
  <2> QED
    BY <2>2, <2>3, <2>4, <2>5
<1> HIDE DEF R
<1>4. b - a \in Nat /\ a + (b - a) = b
  BY <1>1
<1>5. b - a \in R
  BY <1>2, <1>3, <1>4, Induct
<1> QED
  BY <1>4, <1>5 DEF R

LEMMA PlainUpTo ==
  ASSUME NEW E, NEW s \in Seq(Seq(E)), NEW t \in Seq(E), Len(t) = Len(s),
         NEW a \in 0..Len(s), NEW b \in 0..Len(s), a <= b,
         \A i \in (a + 1)..b : s[i] = <<t[i]>>
  PROVE  UpTo(s, b) = UpTo(s, a) \o SubSeq(t, a + 1, b)
<1> DEFINE m == Len(s)
           X == Seq(E)
           U(i) == UpTo(s, i)
           V(i) == SubSeq(t, a + 1, i)
<1>1. m \in Nat /\ a \in 0..m /\ b \in 0..m /\ a \in Nat /\ b \in Nat
  OBVIOUS
<1>2. (\A i \in 0..m : U(i) \in X) /\ \A i \in 0..(m - 1) : U(i + 1) = U(i) \o s[i + 1]
  BY UpToIs
<1>3. \A x \in X, y \in X, z \in X : (x \o y) \o z = x \o (y \o z)
  BY ConcatAssociative
<1>4. \A x \in X : x \o <<>> = x
  BY ConcatEmptySeq
<1>5. V(a) = <<>>
  BY <1>1, SubSeqEmpty
<1>6. ASSUME NEW i \in a..(m - 1)
      PROVE  V(i) \in X /\ <<t[i + 1]>> \in X /\ V(i + 1) = V(i) \o <<t[i + 1]>>
  <2>1. i + 1 \in 1..Len(t) /\ a + 1 \in 1..Len(t) /\ i + 1 \in (a + 1)..Len(t) /\ (i + 1) - 1 = i
    BY <1>1
  <2>2. a + 1 \in 1..(Len(t) + 1) /\ i \in 0..Len(t) /\ a + 1 <= i + 1
    BY <1>1
  <2>3. V(i) \in X
    BY <2>2, PartIs
  <2>4. SubSeq(t, a + 1, i + 1) = SubSeq(t, a + 1, (i + 1) - 1) \o <<t[i + 1]>>
    BY <2>1, SubSeqRecursiveSecond
  <2>5. <<t[i + 1]>> \in X
    BY <2>1
  <2> QED
    BY <2>1, <2>3, <2>4, <2>5
<1>7. \A i \in a..(b - 1) : s[i + 1] = <<t[i + 1]>>
  <2> TAKE i \in a..(b - 1)
  <2>1. i + 1 \in (a + 1)..b
    BY <1>1
  <2> QED
    BY <2>1
<1> HIDE DEF m, X, U, V
<1> DEFINE R == {k \in Nat : a + k <= b => U(a + k) = U(a) \o V(a + k)}
<1>8. 0 \in R
  <2>1. a + 0 = a /\ U(a) \in X
    BY <1>1, <1>2
  <2> QED
    BY <1>4, <1>5, <2>1
<1>9. ASSUME NEW k \in Nat, k \in R PROVE k + 1 \in R
  <2>1. ASSUME a + (k + 1) <= b PROVE U(a + (k + 1)) = U(a) \o V(a + (k + 1))
    <3> DEFINE n == a + k
    <3>1. /\ n <= b /\ n \in 0..(m - 1) /\ n \in a..(m - 1) /\ n \in a..(b - 1)
          /\ n + 1 = a + (k + 1) /\ n \in Nat
      BY <1>1, <2>1
    <3>2. U(n) = U(a) \o V(n)
      BY <1>9, <3>1
    <3> HIDE DEF n
    <3>3. U(n + 1) = U(n) \o s[n + 1] /\ U(a) \in X
      BY <1>1, <1>2, <3>1
    <3>4. s[n + 1] = <<t[n + 1]>>
      BY <1>7, <3>1
    <3>5. V(n) \in X /\ <<t[n + 1]>> \in X /\ V(n + 1) = V(n) \o <<t[n + 1]>>
      BY <1>6, <3>1
    <3>6. (U(a) \o V(n)) \o <<t[n + 1]>> = U(a) \o (V(n) \o <<t[n + 1]>>)
      BY <1>3, <3>3, <3>5
    <3>7. U(n + 1) = U(a) \o V(n + 1)
      BY <3>2, <3>3, <3>4, <3>5, <3>6
    <3> QED
      BY <3>1, <3>7
  <2> QED
    BY <2>1
<1> HIDE DEF R
<1>10. b - a \in Nat /\ a + (b - a) = b
  BY <1>1
<1>11. b - a \in R
  BY <1>8, <1>9, <1>10, Induct
<1>12. U(b) = U(a) \o V(b)
  BY <1>10, <1>11 DEF R
<1> QED
  BY <1>12 DEF U, V

-----------------------------------------------------------------------------
\* Template: where qsub is in a line.

\* The first tag of a line.
LEMMA FirstTag ==
  ASSUME NEW u \in Seq(Items), NEW j \in DOMAIN u, VTAG(u[j])
  PROVE  /\ SelectInSeq(u, VTAG) \in 1..Len(u) /\ VTAG(u[SelectInSeq(u, VTAG)])
         /\ \A i \in 1..(SelectInSeq(u, VTAG) - 1) : ~VTAG(u[i])
<1> DEFINE I == {i \in 1..Len(u) : VTAG(u[i])}
           a == SelectInSeq(u, VTAG)
<1>1. a = IF I # {} THEN Min(I) ELSE 0
  BY DEF SelectInSeq
<1>2. I \in SUBSET Nat /\ Len(u) \in Nat /\ j \in I
  OBVIOUS
<1>3. a \in I /\ \A i \in I : a <= i
  <2>1. Min(I) \in I /\ \A i \in I : Min(I) <= i
    BY <1>2, LeastIs
  <2> QED
    BY <1>1, <1>2, <2>1
<1>4. ASSUME NEW i \in 1..(a - 1) PROVE ~VTAG(u[i])
  <2>1. i \in 1..Len(u) /\ ~(a <= i)
    BY <1>2, <1>3
  <2> QED
    BY <1>3, <2>1
<1> QED
  BY <1>3, <1>4

\* The line begins with a :n that is kept.
KeptCount(f, q, l) == Templates[q][l][1].kind = "n" /\ Kept(f, Templates[q], l, 1)

\* Where qsub is in a line: what is unread of it, and what it has become up to there.
Tagged(f, q, l, p, u, w) ==
  /\ u = SubSeq(Templates[q][l], p, KeptTo(f, q, l))
  /\ w = UpTo(Becoming(f, q, l), p - 1)
  /\ KeptCount(f, q, l) => p = 1
Tagging(f, q, l, u, w) ==
  \/ \E p \in KeptFrom(f, q, l)..(KeptTo(f, q, l) + 1) : Tagged(f, q, l, p, u, w)
  \/ u = <<>> /\ w = LineBecomes(f, q, l)

\* What a line becomes.
LEMMA LineBecomesIs ==
  ASSUME NEW f, NEW q \in DOMAIN Templates, NEW l \in 1..Len(Templates[q])
  PROVE  /\ LineBecomes(f, q, l) \in Seq(Items)
         /\ KeptCount(f, q, l) => LineBecomes(f, q, l) = UpTo(Becoming(f, q, l), 1)
         /\ ~KeptCount(f, q, l) =>
              LineBecomes(f, q, l) = UpTo(Becoming(f, q, l), KeptTo(f, q, l))
<1> DEFINE S == Templates[q][l]
           W == Becoming(f, q, l)
           n == Len(S)
<1>1. W \in Seq(Seq(Items)) /\ Len(W) = n /\ \A i \in 1..n : W[i] = Becomes(f, q, l, i)
  BY BecomingIs
<1>2. n \in Nat /\ 1 \in 1..n
  BY TemplateIs, TemplateLineIs, LineBegins
<1>3. /\ \A i \in 0..Len(W) : UpTo(W, i) \in Seq(Items)
      /\ UpTo(W, 0) = <<>>
      /\ \A i \in 0..(Len(W) - 1) : UpTo(W, i + 1) = UpTo(W, i) \o W[i + 1]
      /\ UpTo(W, Len(W)) = FlattenSeq(W)
  BY <1>1, UpToIs
<1>4. LineBecomes(f, q, l) = IF KeptCount(f, q, l) THEN Becomes(f, q, l, 1) ELSE FlattenSeq(W)
  BY DEF LineBecomes, KeptCount, Becoming
<1>5. W[1] \in Seq(Items)
  BY <1>1, <1>2
<1>6. UpTo(W, 1) = W[1]
  <2>1. UpTo(W, 0 + 1) = UpTo(W, 0) \o W[0 + 1]
    <3>1. 0 \in 0..(Len(W) - 1)
      BY <1>1, <1>2
    <3> QED
      BY <1>3, <3>1
  <2>2. <<>> \o W[1] = W[1]
    BY <1>5, ConcatEmptySeq
  <2>3. 0 + 1 = 1
    OBVIOUS
  <2> QED
    BY <1>3, <2>1, <2>2, <2>3
<1>7. UpTo(W, KeptTo(f, q, l)) = FlattenSeq(W)
  <2> DEFINE h == KeptTo(f, q, l)
  <2>1. /\ h \in 0..n
        /\ \A i \in 1..n : Kept(f, Templates[q], l, i) => i <= h
    BY KeptRange
  <2> HIDE DEF h
  <2>2. ASSUME NEW i \in (h + 1)..n PROVE W[i] = <<>>
    <3>1. i \in 1..n /\ ~(i <= h)
      BY <1>2, <2>1
    <3>2. ~Kept(f, Templates[q], l, i)
      BY <2>1, <3>1
    <3>3. Becomes(f, q, l, i) = <<>>
      BY <3>2 DEF Becomes
    <3> QED
      BY <1>1, <3>1, <3>3
  <2>3. h \in 0..Len(W) /\ Len(W) \in 0..Len(W) /\ h <= Len(W)
    BY <1>1, <1>2, <2>1
  <2>4. UpTo(W, Len(W)) = UpTo(W, h)
    <3> HIDE DEF W, n, S
    <3> QED
      BY <1>1, <2>2, <2>3, EmptyUpTo
  <2> QED
    BY <1>3, <2>4 DEF h
<1>8. FlattenSeq(W) \in Seq(Items)
  <2>1. Len(W) \in 0..Len(W)
    BY <1>1, <1>2
  <2> QED
    BY <1>3, <2>1
<1>9. Becomes(f, q, l, 1) = W[1]
  BY <1>1, <1>2
<1> HIDE DEF W, n, S
<1> QED
  BY <1>4, <1>5, <1>6, <1>7, <1>8, <1>9 DEF W

\* Of a :n at the head of a line nothing was stripped.
LEMMA CountKept ==
  ASSUME NEW f, NEW q \in DOMAIN Templates, NEW l \in 1..Len(Templates[q])
  PROVE  /\ KeptCount(f, q, l) => KeptFrom(f, q, l) = 1 /\ KeptTo(f, q, l) >= 1
         /\ \A i \in 1..Len(Templates[q][l]) : Templates[q][l][i].kind = "n" => i = 1
<1>1. Templates[q] \in Seq(Seq(Items)) /\ Shaped(Templates[q])
  BY TemplateIs
<1>2. Len(Templates[q][l]) \in Nat /\ 1 \in 1..Len(Templates[q][l])
  BY <1>1, TemplateLineIs, LineBegins
<1>3. ASSUME KeptCount(f, q, l) PROVE KeptFrom(f, q, l) = 1 /\ KeptTo(f, q, l) >= 1
  <2>1. Kept(f, Templates[q], l, 1)
    BY <1>3 DEF KeptCount
  <2>2. 1 >= KeptFrom(f, q, l) /\ 1 <= KeptTo(f, q, l)
    BY <1>2, <2>1, KeptRange
  <2>3. KeptFrom(f, q, l) \in 1..(Len(Templates[q][l]) + 1)
    BY KeptRange
  <2>4. KeptTo(f, q, l) \in 0..Len(Templates[q][l])
    BY KeptRange
  <2> QED
    BY <1>2, <2>2, <2>3, <2>4
<1>4. ASSUME NEW i \in 1..Len(Templates[q][l]), Templates[q][l][i].kind = "n" PROVE i = 1
  <2>1. l \in DOMAIN Templates[q] /\ i \in DOMAIN Templates[q][l]
    BY <1>1, TemplateLineIs
  <2> QED
    BY <1>1, <1>4, <2>1 DEF Shaped
<1> QED
  BY <1>3, <1>4

LEMMA TagBegins ==
  ASSUME NEW f, NEW q \in DOMAIN Templates, NEW l \in 1..Len(Templates[q]), NEW u,
         u = SubSeq(Templates[q][l], KeptFrom(f, q, l), KeptTo(f, q, l))
  PROVE  Tagging(f, q, l, u, <<>>)
<1> DEFINE W == Becoming(f, q, l)
           n == Len(Templates[q][l])
           p == KeptFrom(f, q, l)
<1>1. W \in Seq(Seq(Items)) /\ Len(W) = n /\ \A i \in 1..n : W[i] = Becomes(f, q, l, i)
  BY BecomingIs
<1>2. n \in Nat
  BY TemplateIs, TemplateLineIs
<1>3. /\ p \in 1..(n + 1) /\ KeptTo(f, q, l) \in 0..n /\ p <= KeptTo(f, q, l) + 1
      /\ \A i \in 1..n : Kept(f, Templates[q], l, i) => i >= p
  BY KeptRange
<1> HIDE DEF p
<1>4. ASSUME NEW i \in (0 + 1)..(p - 1) PROVE W[i] = <<>>
  <2>1. i \in 1..n /\ ~(i >= p)
    BY <1>2, <1>3
  <2>2. ~Kept(f, Templates[q], l, i)
    BY <1>3, <2>1
  <2>3. Becomes(f, q, l, i) = <<>>
    BY <2>2 DEF Becomes
  <2> QED
    BY <1>1, <2>1, <2>3
<1>5. UpTo(W, p - 1) = <<>>
  <2>1. UpTo(W, 0) = <<>>
    BY <1>1, UpToIs
  <2>2. 0 \in 0..Len(W) /\ p - 1 \in 0..Len(W) /\ 0 <= p - 1
    BY <1>1, <1>2, <1>3
  <2>3. UpTo(W, p - 1) = UpTo(W, 0)
    <3> HIDE DEF W, n
    <3> QED
      BY <1>1, <1>4, <2>2, EmptyUpTo
  <2> QED
    BY <2>1, <2>3
<1>6. KeptCount(f, q, l) => p = 1
  BY CountKept DEF p
<1>7. Tagged(f, q, l, p, u, <<>>)
  BY <1>5, <1>6 DEF Tagged, p
<1>8. p \in p..(KeptTo(f, q, l) + 1)
  BY <1>2, <1>3
<1> QED
  BY <1>7, <1>8 DEF Tagging, p

\* The items that qsub has not read yet.
UnreadOf(f, q, l, p, u, w) ==
  /\ Templates[q][l] \in Seq(Items) /\ Len(Templates[q][l]) \in Nat
  /\ p \in 1..(Len(Templates[q][l]) + 1) /\ KeptTo(f, q, l) \in 0..Len(Templates[q][l])
  /\ p <= KeptTo(f, q, l) + 1
  /\ u \in Seq(Items) /\ Len(u) = KeptTo(f, q, l) - p + 1
  /\ \A i \in 1..Len(u) : u[i] = Templates[q][l][p + i - 1]
  /\ \A k \in p..KeptTo(f, q, l) : Becoming(f, q, l)[k] = Meaning(f, q, Templates[q][l][k])
  /\ w \in Seq(Items)

LEMMA UnreadIs ==
  ASSUME NEW f, NEW q \in DOMAIN Templates, NEW l \in 1..Len(Templates[q]),
         NEW p \in KeptFrom(f, q, l)..(KeptTo(f, q, l) + 1), NEW u, NEW w,
         Tagged(f, q, l, p, u, w)
  PROVE  UnreadOf(f, q, l, p, u, w)
<1> DEFINE S == Templates[q][l]
           h == KeptTo(f, q, l)
           W == Becoming(f, q, l)
<1>1. S \in Seq(Items) /\ Len(S) \in Nat
  BY TemplateIs, TemplateLineIs
<1>2. /\ KeptFrom(f, q, l) \in 1..(Len(S) + 1) /\ h \in 0..Len(S)
      /\ \A i \in 1..Len(S) : Kept(f, Templates[q], l, i) <=> i >= KeptFrom(f, q, l) /\ i <= h
  BY KeptRange
<1>3. p \in 1..(Len(S) + 1) /\ p <= h + 1 /\ p \in Nat /\ p >= KeptFrom(f, q, l)
  BY <1>1, <1>2
<1>4. u = SubSeq(S, p, h)
  BY DEF Tagged
<1>5. u \in Seq(Items) /\ Len(u) = h - p + 1 /\ \A i \in 1..(h - p + 1) : u[i] = S[p + i - 1]
  BY <1>1, <1>2, <1>3, <1>4, PartIs
<1>6. \A i \in 1..Len(S) : W[i] = Becomes(f, q, l, i)
  BY BecomingIs
<1>7. ASSUME NEW k \in p..h PROVE W[k] = Meaning(f, q, S[k])
  <2>1. k \in 1..Len(S) /\ k >= KeptFrom(f, q, l) /\ k <= h
    BY <1>1, <1>2, <1>3
  <2>2. Kept(f, Templates[q], l, k)
    BY <1>2, <2>1
  <2> QED
    BY <1>6, <2>1, <2>2 DEF Becomes
<1>8. w \in Seq(Items)
  <2>1. W \in Seq(Seq(Items)) /\ Len(W) = Len(S)
    BY BecomingIs
  <2>2. p - 1 \in 0..Len(W)
    BY <1>1, <1>3, <2>1
  <2>3. UpTo(W, p - 1) \in Seq(Items)
    BY <2>1, <2>2, UpToIs
  <2> QED
    BY <2>3 DEF Tagged
<1> QED
  BY <1>1, <1>2, <1>3, <1>5, <1>7, <1>8 DEF UnreadOf

\* What stands before a tag is written as it is.
PlainTo(f, q, l, p, u, w, b) ==
  /\ SubSeq(u, 1, b) = SubSeq(Templates[q][l], p, p + b - 1)
  /\ w \o SubSeq(u, 1, b) = UpTo(Becoming(f, q, l), p + b - 1)

LEMMA PlainIs ==
  ASSUME NEW f, NEW q \in DOMAIN Templates, NEW l \in 1..Len(Templates[q]),
         NEW p \in KeptFrom(f, q, l)..(KeptTo(f, q, l) + 1), NEW u, NEW w,
         Tagged(f, q, l, p, u, w),
         NEW b \in 0..Len(u), \A i \in 1..b : ~VTAG(u[i])
  PROVE  PlainTo(f, q, l, p, u, w, b)
<1> DEFINE S == Templates[q][l]
           h == KeptTo(f, q, l)
           W == Becoming(f, q, l)
<1>1. /\ S \in Seq(Items) /\ Len(S) \in Nat /\ p \in 1..(Len(S) + 1) /\ h \in 0..Len(S)
      /\ p <= h + 1 /\ u \in Seq(Items) /\ Len(u) = h - p + 1
      /\ \A i \in 1..Len(u) : u[i] = S[p + i - 1]
      /\ \A k \in p..h : W[k] = Meaning(f, q, S[k])
  <2>1. UnreadOf(f, q, l, p, u, w)
    BY UnreadIs
  <2> QED
    BY <2>1 DEF UnreadOf
<1>2. W \in Seq(Seq(Items)) /\ Len(W) = Len(S)
  BY BecomingIs
<1>3. u = SubSeq(S, p, h) /\ w = UpTo(W, p - 1)
  BY DEF Tagged
<1> HIDE DEF S, h, W
<1>4. b \in 0..(h - p + 1) /\ b \in Nat /\ p \in Nat /\ h \in Nat
  BY <1>1
<1>5. SubSeq(u, 1, b) = SubSeq(S, p, p + b - 1)
  <2> DEFINE a == 1
  <2>1. a \in 1..(h - p + 2) /\ a <= b + 1 /\ p + a - 1 = p
    BY <1>1, <1>4
  <2> HIDE DEF a
  <2>2. SubSeq(SubSeq(S, p, h), a, b) = SubSeq(S, p + a - 1, p + b - 1)
    BY <1>1, <1>4, <2>1, PartOfPart
  <2> QED
    BY <1>3, <2>1, <2>2 DEF a
<1>6. ASSUME NEW k \in ((p - 1) + 1)..(p + b - 1) PROVE W[k] = <<S[k]>>
  <2>1. k - p + 1 \in 1..b /\ k - p + 1 \in 1..Len(u) /\ p + (k - p + 1) - 1 = k /\ k \in p..h
    BY <1>1, <1>4
  <2>2. u[k - p + 1] = S[k]
    BY <1>1, <2>1
  <2>3. ~VTAG(S[k])
    BY <2>1, <2>2
  <2>4. S[k] \in Items /\ q \in Nat
    <3>1. k \in 1..Len(S)
      BY <1>1, <1>4, <2>1
    <3> QED
      BY <1>1, <3>1, TemplateIs
  <2>5. Meaning(f, q, S[k]) = <<S[k]>>
    BY <2>3, <2>4, MeaningIs
  <2> QED
    BY <1>1, <2>1, <2>5
<1>7. UpTo(W, p + b - 1) = UpTo(W, p - 1) \o SubSeq(S, (p - 1) + 1, p + b - 1)
  <2> DEFINE x == p - 1
             y == p + b - 1
  <2>1. x \in 0..Len(W) /\ y \in 0..Len(W) /\ x <= y
    BY <1>1, <1>2, <1>4
  <2>2. \A i \in (x + 1)..y : W[i] = <<S[i]>>
    BY <1>6
  <2> HIDE DEF x, y
  <2>3. UpTo(W, y) = UpTo(W, x) \o SubSeq(S, x + 1, y)
    BY <1>1, <1>2, <2>1, <2>2, PlainUpTo
  <2> QED
    BY <2>3 DEF x, y
<1>8. (p - 1) + 1 = p
  BY <1>4
<1>9. w \o SubSeq(u, 1, b) = UpTo(W, p + b - 1)
  BY <1>3, <1>5, <1>7, <1>8
<1> QED
  BY <1>5, <1>9 DEF PlainTo, S, W

\* When no tag is left the line is complete.
LEMMA TagEnds ==
  ASSUME NEW f, NEW q \in DOMAIN Templates, NEW l \in 1..Len(Templates[q]), NEW u, NEW w,
         Tagging(f, q, l, u, w), \A i \in DOMAIN u : ~VTAG(u[i])
  PROVE  w \in Seq(Items) /\ w \o u = LineBecomes(f, q, l)
<1>1. CASE u = <<>> /\ w = LineBecomes(f, q, l)
  <2>1. w \in Seq(Items)
    BY <1>1, LineBecomesIs
  <2>2. w \o <<>> = w
    BY <2>1, ConcatEmptySeq
  <2> QED
    BY <1>1, <2>1, <2>2
<1>2. CASE \E p \in KeptFrom(f, q, l)..(KeptTo(f, q, l) + 1) : Tagged(f, q, l, p, u, w)
  <2>1. PICK p \in KeptFrom(f, q, l)..(KeptTo(f, q, l) + 1) : Tagged(f, q, l, p, u, w)
    BY <1>2
  <2> DEFINE S == Templates[q][l]
             h == KeptTo(f, q, l)
             n == Len(u)
  <2>2. /\ S \in Seq(Items) /\ Len(S) \in Nat /\ p \in 1..(Len(S) + 1) /\ h \in 0..Len(S)
        /\ p <= h + 1 /\ u \in Seq(Items) /\ n = h - p + 1 /\ w \in Seq(Items)
        /\ \A i \in 1..n : u[i] = S[p + i - 1]
    <3>1. UnreadOf(f, q, l, p, u, w)
      BY <2>1, UnreadIs
    <3> QED
      BY <3>1 DEF UnreadOf
  <2>3. \A i \in 1..n : ~VTAG(u[i])
    BY <2>2
  <2>4. n \in 0..Len(u) /\ p + n - 1 = h /\ n \in Nat
    BY <2>2
  <2>5. SubSeq(u, 1, n) = u
    BY <2>2, SubSeqFull
  <2>6. w \o u = UpTo(Becoming(f, q, l), h)
    <3>1. w \o SubSeq(u, 1, n) = UpTo(Becoming(f, q, l), p + n - 1)
      <4>1. PlainTo(f, q, l, p, u, w, n)
        BY <2>1, <2>3, <2>4, PlainIs
      <4> QED
        BY <4>1 DEF PlainTo
    <3> QED
      BY <2>4, <2>5, <3>1
  <2>7. ~KeptCount(f, q, l)
    <3> SUFFICES ASSUME KeptCount(f, q, l) PROVE FALSE
      OBVIOUS
    <3>1. p = 1 /\ h >= 1 /\ S[1].kind = "n"
      BY <2>1, CountKept DEF Tagged, KeptCount
    <3>2. 1 \in 1..n /\ p + 1 - 1 = 1
      BY <2>2, <3>1
    <3>3. u[1] = S[1]
      BY <2>2, <3>2
    <3> QED
      BY <2>3, <3>1, <3>2, <3>3 DEF VTAG, TagKinds
  <2> QED
    BY <2>2, <2>6, <2>7, LineBecomesIs
<1> QED
  BY <1>1, <1>2 DEF Tagging

\* A tag is written as its meaning.
LEMMA TagOn ==
  ASSUME NEW f, NEW q \in DOMAIN Templates, NEW l \in 1..Len(Templates[q]), NEW u, NEW w,
         Tagging(f, q, l, u, w), NEW j \in DOMAIN u, VTAG(u[j]),
         NEW i, i = SelectInSeq(u, VTAG)
  PROVE  /\ w \in Seq(Items) /\ SubSeq(u, 1, i - 1) \in Seq(Items)
         /\ Meaning(f, q, u[i]) \in Seq(Items)
         /\ Tagging(f, q, l, IF u[i].kind = "n" THEN SubSeq(u, 1, i - 1) ELSE From(u, i + 1),
                    w \o SubSeq(u, 1, i - 1) \o Meaning(f, q, u[i]))
<1>1. u # <<>>
  OBVIOUS
<1>2. PICK p \in KeptFrom(f, q, l)..(KeptTo(f, q, l) + 1) : Tagged(f, q, l, p, u, w)
  BY <1>1 DEF Tagging
<1> DEFINE S == Templates[q][l]
           h == KeptTo(f, q, l)
           W == Becoming(f, q, l)
           k == p + i - 1
           before == SubSeq(u, 1, i - 1)
<1>3. /\ S \in Seq(Items) /\ Len(S) \in Nat /\ p \in 1..(Len(S) + 1) /\ h \in 0..Len(S)
      /\ p <= h + 1 /\ u \in Seq(Items) /\ Len(u) = h - p + 1 /\ w \in Seq(Items)
      /\ \A x \in 1..Len(u) : u[x] = S[p + x - 1]
      /\ \A x \in p..h : W[x] = Meaning(f, q, S[x])
  <2>1. UnreadOf(f, q, l, p, u, w)
    BY <1>2, UnreadIs
  <2> QED
    BY <2>1 DEF UnreadOf
<1>4. W \in Seq(Seq(Items)) /\ Len(W) = Len(S)
  BY BecomingIs
<1>5. i \in 1..Len(u) /\ VTAG(u[i]) /\ \A x \in 1..(i - 1) : ~VTAG(u[x])
  BY <1>3, FirstTag
<1>6. p \in KeptFrom(f, q, l)..(h + 1) /\ KeptFrom(f, q, l) \in Nat
  BY KeptRange
<1>7. KeptCount(f, q, l) => p = 1
  BY <1>2 DEF Tagged
<1>8. u = SubSeq(S, p, h)
  BY <1>2 DEF Tagged
<1>9. i - 1 \in 0..Len(u) /\ p + (i - 1) - 1 = k - 1
  <2>1. p \in Nat /\ Len(u) \in Nat /\ i \in 1..Len(u)
    BY <1>3, <1>5
  <2> HIDE DEF S, h, W, before
  <2> QED
    BY <2>1
<1>10. before = SubSeq(S, p, k - 1) /\ w \o before = UpTo(W, k - 1)
  <2>1. SubSeq(u, 1, i - 1) = SubSeq(S, p, p + (i - 1) - 1)
        /\ w \o SubSeq(u, 1, i - 1) = UpTo(W, p + (i - 1) - 1)
    <3>1. PlainTo(f, q, l, p, u, w, i - 1)
      BY <1>2, <1>5, <1>9, PlainIs
    <3> QED
      BY <3>1 DEF PlainTo
  <2> QED
    BY <1>9, <2>1
<1>11. q \in Nat
  BY TemplateIs
<1>12. before \in Seq(Items)
  <2>1. 1 \in 1..(Len(u) + 1) /\ 1 <= (i - 1) + 1
    BY <1>3, <1>5
  <2> QED
    BY <1>3, <1>9, <2>1, PartIs
<1> HIDE DEF S, h, W, before
<1>13. k \in p..h /\ k \in 1..Len(S) /\ k \in Nat /\ k - 1 \in 0..(Len(W) - 1) /\ (k - 1) + 1 = k
       /\ u[i] = S[k]
  <2>1. u[i] = S[p + i - 1]
    BY <1>3, <1>5
  <2>2. i \in Nat /\ i >= 1 /\ i <= h - p + 1 /\ p \in Nat /\ p >= 1 /\ h \in Nat /\ h <= Len(S)
        /\ Len(S) \in Nat
    BY <1>3, <1>5
  <2>3. Len(W) = Len(S)
    BY <1>4
  <2>4. k \in p..h /\ k \in 1..Len(S) /\ k \in Nat
    BY <2>2
  <2>5. k - 1 \in 0..(Len(W) - 1) /\ (k - 1) + 1 = k
    BY <2>2, <2>3, <2>4
  <2> QED
    BY <2>1, <2>4, <2>5
<1> HIDE DEF k
<1>14. S[k] \in Items
  BY <1>3, <1>13
<1>15. Meaning(f, q, u[i]) \in Seq(Items)
  BY <1>11, <1>13, <1>14, MeaningIs
<1>16. w \o before \o Meaning(f, q, u[i]) = UpTo(W, k)
  <2>1. UpTo(W, (k - 1) + 1) = UpTo(W, k - 1) \o W[(k - 1) + 1]
    BY <1>4, <1>13, UpToIs
  <2> QED
    BY <1>3, <1>10, <1>13, <2>1
<1>17. ASSUME u[i].kind = "n"
       PROVE  Tagging(f, q, l, before, UpTo(W, k))
  <2>1. k = 1
    BY <1>13, <1>17, CountKept DEF S
  <2>2. p = 1
    BY <1>3, <1>13, <2>1
  <2>3. Kept(f, Templates[q], l, 1)
    <3>1. 1 >= KeptFrom(f, q, l) /\ 1 <= h /\ 1 \in 1..Len(S)
      BY <1>6, <1>13, <2>1, <2>2
    <3> QED
      BY <3>1, KeptRange DEF S, h
  <2>4. KeptCount(f, q, l)
    BY <1>13, <1>17, <2>1, <2>3 DEF KeptCount, S
  <2>5. LineBecomes(f, q, l) = UpTo(W, 1)
    BY <2>4, LineBecomesIs DEF W
  <2>6. before = <<>>
    <3>1. before = SubSeq(S, 1, 0)
      BY <1>10, <1>13, <2>1, <2>2
    <3>2. SubSeq(S, 1, 0) = <<>>
      BY SubSeqEmpty
    <3> QED
      BY <3>1, <3>2
  <2> QED
    BY <2>1, <2>5, <2>6 DEF Tagging
<1>18. ASSUME u[i].kind # "n"
       PROVE  Tagging(f, q, l, From(u, i + 1), UpTo(W, k))
  <2>1. ~KeptCount(f, q, l)
    <3> SUFFICES ASSUME KeptCount(f, q, l) PROVE FALSE
      OBVIOUS
    <3>1. p = 1 /\ S[1].kind = "n"
      BY <1>7 DEF KeptCount, S
    <3>2. 1 \in 1..Len(u) /\ p + 1 - 1 = 1
      BY <1>3, <1>5, <3>1
    <3>3. u[1] = S[1]
      BY <1>3, <3>2
    <3>4. VTAG(u[1])
      BY <3>1, <3>3 DEF VTAG, TagKinds
    <3>5. i = 1
      <4>1. i \in Nat /\ i >= 1
        BY <1>3, <1>5
      <4>2. ~(1 \in 1..(i - 1))
        BY <1>5, <3>4
      <4> QED
        BY <4>1, <4>2
    <3> QED
      BY <1>18, <3>1, <3>3, <3>5
  <2>2. From(u, i + 1) = SubSeq(S, k + 1, h)
    <3> DEFINE a == i + 1
               b == Len(u)
    <3>1. /\ a \in 1..(h - p + 2) /\ b \in 0..(h - p + 1) /\ a <= b + 1
          /\ p + a - 1 = k + 1 /\ p + b - 1 = h
      <4>1. i \in Nat /\ i >= 1 /\ i <= h - p + 1 /\ Len(u) = h - p + 1 /\ p \in Nat /\ h \in Nat
        BY <1>3, <1>5
      <4> QED
        BY <4>1 DEF k
    <3>2. From(u, i + 1) = SubSeq(u, a, b)
      BY DEF From
    <3> HIDE DEF a, b
    <3>3. SubSeq(SubSeq(S, p, h), a, b) = SubSeq(S, p + a - 1, p + b - 1)
      <4>1. S \in Seq(Items) /\ p \in 1..(Len(S) + 1) /\ h \in 0..Len(S) /\ p <= h + 1
        BY <1>3
      <4>2. a \in 1..(h - p + 2) /\ b \in 0..(h - p + 1) /\ a <= b + 1
        BY <3>1
      <4> QED
        BY <4>1, <4>2, PartOfPart
    <3> QED
      BY <1>8, <3>1, <3>2, <3>3
  <2>3. k + 1 \in KeptFrom(f, q, l)..(h + 1) /\ (k + 1) - 1 = k
    BY <1>3, <1>6, <1>13
  <2>4. Tagged(f, q, l, k + 1, From(u, i + 1), UpTo(W, k))
    BY <2>1, <2>2, <2>3 DEF Tagged, S, h, W
  <2> QED
    BY <2>3, <2>4 DEF Tagging, h
<1> QED
  BY <1>3, <1>12, <1>15, <1>16, <1>17, <1>18 DEF before

-----------------------------------------------------------------------------
\* Template: the lines of a query.

\* What the lines of a query become, and the query when it has k of them.
QueryLines(f, q) == [l \in DOMAIN Templates[q] |-> LineBecomes(f, q, l)]
OutTo(f, q, k)   == Beginning(f, q) \o UpTo(QueryLines(f, q), k)

LEMMA QueryLinesIs ==
  ASSUME NEW f, NEW q \in DOMAIN Templates
  PROVE  /\ QueryLines(f, q) \in Seq(Seq(Items)) /\ Len(QueryLines(f, q)) = Len(Templates[q])
         /\ \A l \in 1..Len(Templates[q]) : QueryLines(f, q)[l] = LineBecomes(f, q, l)
<1> DEFINE X == Seq(Items)
           n == Len(Templates[q])
           B(l) == LineBecomes(f, q, l)
<1>1. DOMAIN Templates[q] = 1..n /\ n \in Nat
  BY TemplateIs
<1>2. \A l \in 1..n : B(l) \in X
  BY LineBecomesIs
<1>3. QueryLines(f, q) = [l \in 1..n |-> B(l)]
  BY <1>1 DEF QueryLines
<1> HIDE DEF X, n, B
<1>4. [l \in 1..n |-> B(l)] \in Seq(X) /\ Len([l \in 1..n |-> B(l)]) = n
  BY <1>1, <1>2
<1>5. \A l \in 1..n : [i \in 1..n |-> B(i)][l] = B(l)
  OBVIOUS
<1> QED
  BY <1>3, <1>4, <1>5 DEF X, n, B

LEMMA BeginningIs ==
  ASSUME NEW f, NEW q \in DOMAIN Templates
  PROVE  Beginning(f, q) \in Seq(Items)
<1>1. Item("rowcnt_dflt", q) \in Items
  BY TemplateIs DEF Item, Items
<1>2. <<Item("rowcnt_dflt", q)>> \in Seq(Items) /\ <<>> \in Seq(Items)
  BY <1>1
<1> QED
  BY <1>2 DEF Beginning

LEMMA OutToIs ==
  ASSUME NEW f, NEW q \in DOMAIN Templates
  PROVE  /\ \A k \in 0..Len(Templates[q]) : OutTo(f, q, k) \in Seq(Items)
         /\ OutTo(f, q, 0) = Beginning(f, q)
         /\ \A k \in 1..Len(Templates[q]) :
              OutTo(f, q, k) = OutTo(f, q, k - 1) \o LineBecomes(f, q, k)
         /\ OutTo(f, q, Len(Templates[q])) = Beginning(f, q) \o FlattenSeq(QueryLines(f, q))
<1> DEFINE L == QueryLines(f, q)
           n == Len(Templates[q])
           X == Seq(Items)
           b == Beginning(f, q)
<1>1. L \in Seq(X) /\ Len(L) = n /\ n \in Nat /\ \A l \in 1..n : L[l] = LineBecomes(f, q, l)
  BY QueryLinesIs, TemplateIs
<1>2. b \in X
  BY BeginningIs
<1>3. /\ \A i \in 0..n : UpTo(L, i) \in X
      /\ UpTo(L, 0) = <<>>
      /\ \A i \in 0..(n - 1) : UpTo(L, i + 1) = UpTo(L, i) \o L[i + 1]
      /\ UpTo(L, n) = FlattenSeq(L)
  BY <1>1, UpToIs
<1>4. \A k \in 0..n : b \o UpTo(L, k) \in X
  BY <1>2, <1>3, ConcatProperties
<1>5. b \o UpTo(L, 0) = b
  BY <1>2, <1>3, ConcatEmptySeq
<1>6. ASSUME NEW k \in 1..n
      PROVE  b \o UpTo(L, k) = (b \o UpTo(L, k - 1)) \o LineBecomes(f, q, k)
  <2>1. k - 1 \in 0..(n - 1) /\ (k - 1) + 1 = k /\ k - 1 \in 0..n
    BY <1>1
  <2>2. UpTo(L, k) = UpTo(L, k - 1) \o L[k]
    BY <1>3, <2>1
  <2>3. L[k] \in X /\ L[k] = LineBecomes(f, q, k)
    BY <1>1
  <2>4. UpTo(L, k - 1) \in X
    BY <1>3, <2>1
  <2>5. (b \o UpTo(L, k - 1)) \o L[k] = b \o (UpTo(L, k - 1) \o L[k])
    BY <1>2, <2>3, <2>4, ConcatAssociative
  <2> QED
    BY <2>2, <2>3, <2>5
<1> QED
  BY <1>3, <1>4, <1>5, <1>6 DEF OutTo, X, b, L, n

-----------------------------------------------------------------------------
\* The first k lines of a query end in a comment.
EndsInComment(f, q, k) ==
  "COMMENT" \notin f /\ k > 0 /\ InBraces(Templates[q], k, Len(Templates[q][k]) + 1)

\* Between two lines, with k of them made; in strip_comments and in qsub with line k.
AtLines(f, q, k, w) == k \in 0..Len(Templates[q]) /\ w = OutTo(f, q, k)
AtStrip(f, q, k, w) ==
  k \in 1..Len(Templates[q]) /\ "COMMENT" \notin f /\ w = OutTo(f, q, k - 1)
AtTags(f, q, k, u, w) ==
  /\ k \in 1..Len(Templates[q])
  /\ \E x : w = OutTo(f, q, k - 1) \o x /\ Tagging(f, q, k, u, x)

LEMMA LinesBegin ==
  ASSUME NEW f, NEW q \in DOMAIN Templates
  PROVE  AtLines(f, q, 0, Beginning(f, q)) /\ ~EndsInComment(f, q, 0)
<1>1. 0 \in 0..Len(Templates[q])
  BY TemplateIs
<1>2. ~EndsInComment(f, q, 0)
  BY DEF EndsInComment
<1> QED
  BY <1>1, <1>2, OutToIs DEF AtLines

LEMMA LinesNext ==
  ASSUME NEW f, NEW q \in DOMAIN Templates, NEW k, NEW w,
         AtLines(f, q, k, w), k + 1 <= Len(Templates[q])
  PROVE  /\ "COMMENT" \in f => /\ AtTags(f, q, k + 1, Templates[q][k + 1], w)
                               /\ ~EndsInComment(f, q, k) /\ ~EndsInComment(f, q, k + 1)
         /\ "COMMENT" \notin f =>
              /\ AtStrip(f, q, k + 1, w)
              /\ EndsInComment(f, q, k) => InComment(Templates[q], k + 1, Templates[q][k + 1])
              /\ ~EndsInComment(f, q, k) => OutOfComment(Templates[q], k + 1, Templates[q][k + 1])
<1> DEFINE T == Templates[q]
<1>1. T \in Seq(Seq(Items)) /\ Shaped(T) /\ Len(T) \in Nat
  BY TemplateIs
<1>2. k \in 0..Len(T) /\ k \in Nat /\ k + 1 \in 1..Len(T) /\ (k + 1) - 1 = k /\ k + 1 > 0
  BY <1>1 DEF AtLines
<1>3. w = OutTo(f, q, k) /\ OutTo(f, q, k) \in Seq(Items)
  BY <1>2, OutToIs DEF AtLines
<1>4. T[k + 1] \in Seq(Items) /\ Len(T[k + 1]) \in Nat
  BY <1>1, <1>2, TemplateLineIs
<1>5. CASE "COMMENT" \in f
  <2>1. ~EndsInComment(f, q, k) /\ ~EndsInComment(f, q, k + 1)
    BY <1>5 DEF EndsInComment
  <2>2. T[k + 1] = SubSeq(T[k + 1], KeptFrom(f, q, k + 1), KeptTo(f, q, k + 1))
    <3>1. KeptFrom(f, q, k + 1) = 1 /\ KeptTo(f, q, k + 1) = Len(T[k + 1])
      BY <1>5 DEF KeptFrom, KeptTo
    <3>2. SubSeq(T[k + 1], 1, Len(T[k + 1])) = T[k + 1]
      BY <1>4, SubSeqFull
    <3> QED
      BY <3>1, <3>2
  <2>3. Tagging(f, q, k + 1, T[k + 1], <<>>)
    BY <1>2, <2>2, TagBegins
  <2>4. w = OutTo(f, q, (k + 1) - 1) \o <<>>
    BY <1>2, <1>3, ConcatEmptySeq
  <2> QED
    BY <1>2, <1>5, <2>1, <2>3, <2>4 DEF AtTags
<1>6. CASE "COMMENT" \notin f
  <2>1. InBraces(T, k + 1, 0) <=> EndsInComment(f, q, k)
    <3>1. CASE k = 0
      <4>1. ~EndsInComment(f, q, k)
        BY <3>1 DEF EndsInComment
      <4>2. ~InBraces(T, 1, 0)
        <5>1. 1 \in 1..Len(T)
          BY <1>2, <3>1
        <5> QED
          BY <1>1, <5>1, BracesBegin
      <4>3. k + 1 = 1
        BY <3>1
      <4> QED
        BY <4>1, <4>2, <4>3
    <3>2. CASE k # 0
      <4>1. k \in 1..Len(T) /\ k > 0
        BY <1>1, <1>2, <3>2
      <4>2. InBraces(T, k + 1, 0) <=> InBraces(T, k, Len(T[k]) + 1)
        BY <1>1, <1>2, <4>1, BracesOn
      <4> QED
        BY <1>6, <4>1, <4>2 DEF EndsInComment
    <3> QED
      BY <3>1, <3>2
  <2>2. ASSUME EndsInComment(f, q, k) PROVE InComment(T, k + 1, T[k + 1])
    <3>1. Entered(T, k + 1)
      BY <2>1, <2>2 DEF Entered
    <3> QED
      BY <1>4, <3>1 DEF InComment
  <2>3. ASSUME ~EndsInComment(f, q, k) PROVE OutOfComment(T, k + 1, T[k + 1])
    BY <2>1, <2>3 DEF OutOfComment
  <2>4. w = OutTo(f, q, (k + 1) - 1)
    BY <1>2, <1>3
  <2>5. AtStrip(f, q, k + 1, w)
    BY <1>2, <1>6, <2>4 DEF AtStrip
  <2> QED
    BY <1>6, <2>2, <2>3, <2>5
<1> QED
  BY <1>5, <1>6

\* When strip_comments is done with a line, qsub begins with it.
LEMMA StripDone ==
  ASSUME NEW f, NEW q \in DOMAIN Templates, NEW k, NEW w,
         NEW v, AtStrip(f, q, k, w), Stripped(Templates[q], k, v)
  PROVE  /\ AtTags(f, q, k, v, w)
         /\ EndsInComment(f, q, k) <=> InBraces(Templates[q], k, Len(Templates[q][k]) + 1)
<1> DEFINE T == Templates[q]
<1>1. T \in Seq(Seq(Items)) /\ Shaped(T) /\ Len(T) \in Nat
  BY TemplateIs
<1>2. k \in 1..Len(T) /\ "COMMENT" \notin f /\ w = OutTo(f, q, k - 1)
  BY DEF AtStrip
<1>3. EndsInComment(f, q, k) <=> InBraces(T, k, Len(T[k]) + 1)
  <2>1. k > 0
    BY <1>1, <1>2
  <2> QED
    BY <1>2, <2>1 DEF EndsInComment
<1>4. v = SubSeq(T[k], KeptFrom(f, q, k), KeptTo(f, q, k))
  BY <1>2 DEF Stripped, KeptFrom, KeptTo
<1>5. Tagging(f, q, k, v, <<>>)
  BY <1>2, <1>4, TagBegins
<1>6. w = OutTo(f, q, k - 1) \o <<>>
  <2>1. k - 1 \in 0..Len(T)
    BY <1>1, <1>2
  <2>2. OutTo(f, q, k - 1) \in Seq(Items)
    BY <2>1, OutToIs
  <2> QED
    BY <1>2, <2>2, ConcatEmptySeq
<1> QED
  BY <1>2, <1>3, <1>5, <1>6 DEF AtTags

LEMMA TagsNext ==
  ASSUME NEW f, NEW q \in DOMAIN Templates, NEW k, NEW u, NEW w,
         AtTags(f, q, k, u, w), NEW j \in DOMAIN u, VTAG(u[j]), NEW i, i = SelectInSeq(u, VTAG)
  PROVE  AtTags(f, q, k, IF u[i].kind = "n" THEN SubSeq(u, 1, i - 1) ELSE From(u, i + 1),
                w \o SubSeq(u, 1, i - 1) \o Meaning(f, q, u[i]))
<1> DEFINE o == OutTo(f, q, k - 1)
           before == SubSeq(u, 1, i - 1)
           m == Meaning(f, q, u[i])
           X == Seq(Items)
           rest == IF u[i].kind = "n" THEN SubSeq(u, 1, i - 1) ELSE From(u, i + 1)
<1>1. k \in 1..Len(Templates[q]) /\ Len(Templates[q]) \in Nat
  BY TemplateIs DEF AtTags
<1>2. PICK x : w = o \o x /\ Tagging(f, q, k, u, x)
  BY DEF AtTags
<1>3. x \in X /\ before \in X /\ m \in X /\ Tagging(f, q, k, rest, x \o before \o m)
  BY <1>1, <1>2, TagOn
<1>4. o \in X
  <2>1. k - 1 \in 0..Len(Templates[q])
    BY <1>1
  <2> QED
    BY <2>1, OutToIs
<1>5. \A y \in X, z \in X : y \o z \in X
  BY ConcatProperties
<1>10. \A y \in X, z \in X, t \in X : (y \o z) \o t = y \o (z \o t)
  BY ConcatAssociative
<1> HIDE DEF o, before, m, rest, X
<1>6. (o \o x) \o before = o \o (x \o before)
  BY <1>3, <1>4, <1>10
<1>7. (o \o (x \o before)) \o m = o \o ((x \o before) \o m)
  <2> DEFINE z == x \o before
  <2>1. z \in X
    BY <1>3, <1>5
  <2> HIDE DEF z
  <2>2. (o \o z) \o m = o \o (z \o m)
    BY <1>3, <1>4, <1>10, <2>1
  <2> QED
    BY <2>2 DEF z
<1>8. w \o before \o m = o \o (x \o before \o m)
  BY <1>2, <1>6, <1>7
<1>9. AtTags(f, q, k, rest, w \o before \o m)
  BY <1>1, <1>3, <1>8 DEF AtTags, o
<1> QED
  BY <1>9 DEF rest, before, m

LEMMA TagsEnd ==
  ASSUME NEW f, NEW q \in DOMAIN Templates, NEW k, NEW u, NEW w,
         AtTags(f, q, k, u, w), \A i \in DOMAIN u : ~VTAG(u[i])
  PROVE  AtLines(f, q, k, w \o u)
<1> DEFINE o == OutTo(f, q, k - 1)
           X == Seq(Items)
<1>1. k \in 1..Len(Templates[q]) /\ Len(Templates[q]) \in Nat
  BY TemplateIs DEF AtTags
<1>2. PICK x : w = o \o x /\ Tagging(f, q, k, u, x)
  BY DEF AtTags
<1>3. x \in X /\ x \o u = LineBecomes(f, q, k)
  BY <1>1, <1>2, TagEnds
<1>4. o \in X /\ OutTo(f, q, k) = o \o LineBecomes(f, q, k)
  <2>1. k - 1 \in 0..Len(Templates[q])
    BY <1>1
  <2> QED
    BY <1>1, <2>1, OutToIs
<1>5. u \in X
  <2>1. CASE u = <<>>
    BY <2>1
  <2>2. CASE u # <<>>
    <3>1. PICK p \in KeptFrom(f, q, k)..(KeptTo(f, q, k) + 1) : Tagged(f, q, k, p, u, x)
      BY <1>2, <2>2 DEF Tagging
    <3>2. UnreadOf(f, q, k, p, u, x)
      BY <1>1, <3>1, UnreadIs
    <3> QED
      BY <3>2 DEF UnreadOf
  <2> QED
    BY <2>1, <2>2
<1>9. \A y \in X, z \in X, t \in X : (y \o z) \o t = y \o (z \o t)
  BY ConcatAssociative
<1> HIDE DEF o, X
<1>6. (o \o x) \o u = o \o (x \o u)
  BY <1>3, <1>4, <1>5, <1>9
<1>7. w \o u = OutTo(f, q, k)
  BY <1>2, <1>3, <1>4, <1>6
<1>8. k \in 0..Len(Templates[q])
  BY <1>1
<1> QED
  BY <1>1, <1>7, <1>8 DEF AtLines

\* The query is complete, and not in a comment.
LEMMA LinesEnd ==
  ASSUME NEW f, NEW q \in DOMAIN Templates, NEW k, NEW w,
         AtLines(f, q, k, w), k + 1 > Len(Templates[q])
  PROVE  /\ ~EndsInComment(f, q, k)
         /\ w = Beginning(f, q)
                \o FlattenSeq([l \in DOMAIN Templates[q] |-> LineBecomes(f, q, l)])
<1>1. Templates[q] \in Seq(Seq(Items)) /\ Shaped(Templates[q]) /\ Len(Templates[q]) \in Nat
  BY TemplateIs
<1>2. k = Len(Templates[q]) /\ w = OutTo(f, q, k)
  BY <1>1 DEF AtLines
<1>3. ~EndsInComment(f, q, k)
  BY <1>1, <1>2, BracesEnd DEF EndsInComment
<1>4. OutTo(f, q, k) = Beginning(f, q) \o FlattenSeq(QueryLines(f, q))
  BY <1>2, OutToIs
<1> QED
  BY <1>2, <1>3, <1>4 DEF QueryLines

-----------------------------------------------------------------------------
\* Template: every step keeps the invariant.

\* The inductive invariant: between two lines the query is what its lines so far become, in a
\* line what was read of it; in_comment says in what kind of part of the template it is.
TemplateIInv ==
  /\ templates \in Seq(DOMAIN Templates) /\ tpl_line \in Nat \ {0}
  /\ tpl_pc \in {"main", "query", "lines", "strip", "tags"}
  /\ tpl_pc \in {"main", "query"} => ~in_comment
  /\ tpl_pc \in {"lines", "strip", "tags"} => templates # <<>>
  /\ tpl_pc \in {"lines", "tags"} => (in_comment <=> EndsInComment(tpl_flags, qtag, tpl_line - 1))
  /\ tpl_pc = "lines" => AtLines(tpl_flags, qtag, tpl_line - 1, tpl_out)
  /\ tpl_pc = "tags" => AtTags(tpl_flags, qtag, tpl_line - 1, unread, tpl_out)
  /\ tpl_pc = "strip" =>
       /\ AtStrip(tpl_flags, qtag, tpl_line - 1, tpl_out)
       /\ in_comment => InComment(sql_lines, tpl_line - 1, unread)
       /\ ~in_comment => OutOfComment(sql_lines, tpl_line - 1, unread)

LEMMA TemplateInitInv == TemplateInit => TemplateIInv
<1> SUFFICES ASSUME TemplateInit PROVE TemplateIInv
  OBVIOUS
<1>1. templates \in Seq(DOMAIN Templates)
  BY DEF TemplateInit
<1> QED
  BY <1>1 DEF TemplateInit, TemplateIInv

\* The template in work.
LEMMA QtagIs ==
  ASSUME templates \in Seq(DOMAIN Templates), templates # <<>>
  PROVE  /\ qtag \in DOMAIN Templates /\ sql_lines = Templates[qtag]
         /\ Templates[qtag] \in Seq(Seq(Items)) /\ Shaped(Templates[qtag])
<1>1. qtag \in DOMAIN Templates
  BY DEF qtag
<1> QED
  BY <1>1, TemplateIs DEF sql_lines

LEMMA StartOutputIs == TemplateIInv /\ StartOutput => TemplateIInv'
<1> SUFFICES ASSUME TemplateIInv, StartOutput PROVE TemplateIInv'
  OBVIOUS
<1>1. templates' \in Seq(DOMAIN Templates)
  BY TemplateAssumption DEF StartOutput
<1> QED
  BY <1>1 DEF TemplateIInv, StartOutput

LEMMA StartQueryIs == TemplateIInv /\ StartQuery => TemplateIInv'
<1> SUFFICES ASSUME TemplateIInv, StartQuery PROVE TemplateIInv'
  OBVIOUS
<1>1. templates' = templates /\ templates # <<>> /\ tpl_flags' = tpl_flags /\ tpl_line' = 1
      /\ tpl_pc' = "lines" /\ tpl_out' = Beginning(tpl_flags, qtag) /\ tpl_pc = "query"
  BY DEF StartQuery
<1>2. templates \in Seq(DOMAIN Templates)
  BY DEF TemplateIInv
<1>3. qtag' = qtag /\ qtag \in DOMAIN Templates
  BY <1>1, <1>2, QtagIs DEF qtag
<1>4. AtLines(tpl_flags, qtag, 0, Beginning(tpl_flags, qtag)) /\ ~EndsInComment(tpl_flags, qtag, 0)
  BY <1>3, LinesBegin
<1>5. AtLines(tpl_flags', qtag', tpl_line' - 1, tpl_out')
      /\ ~EndsInComment(tpl_flags', qtag', tpl_line' - 1)
  BY <1>1, <1>3, <1>4
<1>6. ~in_comment'
  BY <1>1 DEF TemplateIInv, StartQuery
<1> QED
  BY <1>1, <1>2, <1>5, <1>6 DEF TemplateIInv

LEMMA NextLineIs == TemplateIInv /\ NextLine => TemplateIInv'
<1> SUFFICES ASSUME TemplateIInv, NextLine PROVE TemplateIInv'
  OBVIOUS
<1>1. /\ templates' = templates /\ tpl_flags' = tpl_flags /\ tpl_line' = tpl_line + 1
      /\ tpl_out' = tpl_out /\ tpl_line <= Len(sql_lines) /\ unread' = sql_lines[tpl_line]
      /\ tpl_pc' = IF "COMMENT" \in tpl_flags THEN "tags" ELSE "strip"
  BY DEF NextLine
<1>2. /\ templates \in Seq(DOMAIN Templates) /\ templates # <<>> /\ tpl_line \in Nat \ {0}
      /\ AtLines(tpl_flags, qtag, tpl_line - 1, tpl_out)
  BY DEF TemplateIInv, NextLine
<1>3. (in_comment <=> EndsInComment(tpl_flags, qtag, tpl_line - 1)) /\ (in_comment' <=> in_comment)
  BY DEF TemplateIInv, NextLine
<1>4. qtag' = qtag /\ qtag \in DOMAIN Templates /\ sql_lines = Templates[qtag]
      /\ sql_lines' = sql_lines
  BY <1>1, <1>2, QtagIs DEF qtag, sql_lines
<1> DEFINE k == tpl_line - 1
<1>5. k + 1 = tpl_line /\ tpl_line' - 1 = tpl_line /\ tpl_line' \in Nat \ {0}
  BY <1>1, <1>2
<1>6. /\ "COMMENT" \in tpl_flags => /\ AtTags(tpl_flags, qtag, tpl_line, sql_lines[tpl_line], tpl_out)
                                    /\ ~EndsInComment(tpl_flags, qtag, tpl_line - 1)
                                    /\ ~EndsInComment(tpl_flags, qtag, tpl_line)
      /\ "COMMENT" \notin tpl_flags =>
           /\ AtStrip(tpl_flags, qtag, tpl_line, tpl_out)
           /\ EndsInComment(tpl_flags, qtag, tpl_line - 1) =>
                InComment(sql_lines, tpl_line, sql_lines[tpl_line])
           /\ ~EndsInComment(tpl_flags, qtag, tpl_line - 1) =>
                OutOfComment(sql_lines, tpl_line, sql_lines[tpl_line])
  <2>1. k + 1 <= Len(Templates[qtag]) /\ AtLines(tpl_flags, qtag, k, tpl_out)
    BY <1>1, <1>2, <1>4, <1>5
  <2> HIDE DEF k
  <2>2. /\ "COMMENT" \in tpl_flags =>
             /\ AtTags(tpl_flags, qtag, k + 1, Templates[qtag][k + 1], tpl_out)
             /\ ~EndsInComment(tpl_flags, qtag, k) /\ ~EndsInComment(tpl_flags, qtag, k + 1)
        /\ "COMMENT" \notin tpl_flags =>
             /\ AtStrip(tpl_flags, qtag, k + 1, tpl_out)
             /\ EndsInComment(tpl_flags, qtag, k) =>
                  InComment(Templates[qtag], k + 1, Templates[qtag][k + 1])
             /\ ~EndsInComment(tpl_flags, qtag, k) =>
                  OutOfComment(Templates[qtag], k + 1, Templates[qtag][k + 1])
    BY <1>4, <2>1, LinesNext
  <2> QED
    BY <1>4, <1>5, <2>2 DEF k
<1>7. CASE "COMMENT" \in tpl_flags
  <2>1. AtTags(tpl_flags', qtag', tpl_line' - 1, unread', tpl_out')
    BY <1>1, <1>4, <1>5, <1>6, <1>7
  <2>2. ~EndsInComment(tpl_flags', qtag', tpl_line' - 1) /\ ~in_comment'
    <3>1. ~in_comment'
      BY <1>3, <1>6, <1>7
    <3>2. ~EndsInComment(tpl_flags', qtag', tpl_line' - 1)
      BY <1>1, <1>4, <1>5, <1>6, <1>7
    <3> QED
      BY <3>1, <3>2
  <2>3. tpl_pc' = "tags"
    BY <1>1, <1>7
  <2> QED
    BY <1>1, <1>2, <1>5, <2>1, <2>2, <2>3 DEF TemplateIInv
<1>8. CASE "COMMENT" \notin tpl_flags
  <2>1. AtStrip(tpl_flags', qtag', tpl_line' - 1, tpl_out')
    BY <1>1, <1>4, <1>5, <1>6, <1>8
  <2>2. EndsInComment(tpl_flags, qtag, tpl_line - 1) =>
          InComment(sql_lines', tpl_line' - 1, unread')
    BY <1>1, <1>4, <1>5, <1>6, <1>8
  <2>3. ~EndsInComment(tpl_flags, qtag, tpl_line - 1) =>
          OutOfComment(sql_lines', tpl_line' - 1, unread')
    BY <1>1, <1>4, <1>5, <1>6, <1>8
  <2>4. in_comment' => InComment(sql_lines', tpl_line' - 1, unread')
    BY <1>3, <2>2, Zenon
  <2>5. ~in_comment' => OutOfComment(sql_lines', tpl_line' - 1, unread')
    BY <1>3, <2>3, Zenon
  <2>6. tpl_pc' = "strip"
    BY <1>1, <1>8
  <2> QED
    BY <1>1, <1>2, <1>5, <2>1, <2>4, <2>5, <2>6 DEF TemplateIInv
<1> QED
  BY <1>7, <1>8

\* What holds in strip_comments, and what its steps leave alone.
Inside ==
  /\ templates \in Seq(DOMAIN Templates) /\ templates # <<>> /\ tpl_line \in Nat \ {0}
  /\ qtag \in DOMAIN Templates /\ sql_lines = Templates[qtag]
  /\ sql_lines \in Seq(Seq(Items)) /\ Shaped(sql_lines)
QueryStays ==
  /\ templates' = templates /\ tpl_flags' = tpl_flags /\ tpl_line' = tpl_line
  /\ tpl_line' - 1 = tpl_line - 1 /\ qtag' = qtag /\ sql_lines' = sql_lines

LEMMA InsideIs ==
  ASSUME TemplateIInv, tpl_pc \in {"lines", "strip", "tags"}
  PROVE  Inside
<1>1. templates \in Seq(DOMAIN Templates) /\ templates # <<>> /\ tpl_line \in Nat \ {0}
  BY DEF TemplateIInv
<1> QED
  BY <1>1, QtagIs DEF Inside

LEMMA QueryStaysIs ==
  ASSUME templates' = templates, tpl_flags' = tpl_flags, tpl_line' = tpl_line
  PROVE  QueryStays
BY DEF QueryStays, qtag, sql_lines

LEMMA AtStripIs ==
  ASSUME TemplateIInv, tpl_pc = "strip"
  PROVE  /\ AtStrip(tpl_flags, qtag, tpl_line - 1, tpl_out) /\ tpl_line - 1 \in 1..Len(sql_lines)
         /\ in_comment => InComment(sql_lines, tpl_line - 1, unread)
         /\ ~in_comment => OutOfComment(sql_lines, tpl_line - 1, unread)
<1>1. AtStrip(tpl_flags, qtag, tpl_line - 1, tpl_out)
  BY DEF TemplateIInv
<1>2. in_comment => InComment(sql_lines, tpl_line - 1, unread)
  BY Zenon DEF TemplateIInv
<1>3. ~in_comment => OutOfComment(sql_lines, tpl_line - 1, unread)
  BY Zenon DEF TemplateIInv
<1>4. tpl_line - 1 \in 1..Len(sql_lines)
  BY <1>1 DEF AtStrip, sql_lines
<1> QED
  BY <1>1, <1>2, <1>3, <1>4

\* A step from strip_comments to qsub.
LEMMA StripToTags ==
  ASSUME TemplateIInv, tpl_pc = "strip", tpl_pc' = "tags", templates' = templates,
         tpl_flags' = tpl_flags, tpl_line' = tpl_line, tpl_out' = tpl_out,
         Stripped(sql_lines, tpl_line - 1, unread'),
         in_comment' <=> InBraces(sql_lines, tpl_line - 1, Len(sql_lines[tpl_line - 1]) + 1)
  PROVE  TemplateIInv'
<1>1. Inside /\ QueryStays
  BY InsideIs, QueryStaysIs
<1>2. AtStrip(tpl_flags, qtag, tpl_line - 1, tpl_out)
  BY AtStripIs
<1>3. /\ AtTags(tpl_flags, qtag, tpl_line - 1, unread', tpl_out)
      /\ EndsInComment(tpl_flags, qtag, tpl_line - 1) <=>
           InBraces(sql_lines, tpl_line - 1, Len(sql_lines[tpl_line - 1]) + 1)
  <2>1. qtag \in DOMAIN Templates /\ sql_lines = Templates[qtag]
    BY <1>1 DEF Inside
  <2> DEFINE k == tpl_line - 1
             v == unread'
  <2>2. AtStrip(tpl_flags, qtag, k, tpl_out) /\ Stripped(Templates[qtag], k, v)
    BY <1>2, <2>1
  <2> HIDE DEF k, v
  <2>3. /\ AtTags(tpl_flags, qtag, k, v, tpl_out)
        /\ EndsInComment(tpl_flags, qtag, k) <=>
             InBraces(Templates[qtag], k, Len(Templates[qtag][k]) + 1)
    BY <2>1, <2>2, StripDone
  <2> QED
    BY <2>1, <2>3 DEF k, v
<1>4. in_comment' <=> EndsInComment(tpl_flags, qtag, tpl_line - 1)
  BY <1>3, Zenon
<1>5. AtTags(tpl_flags', qtag', tpl_line' - 1, unread', tpl_out')
  BY <1>1, <1>3 DEF QueryStays
<1>6. EndsInComment(tpl_flags', qtag', tpl_line' - 1) <=>
        EndsInComment(tpl_flags, qtag, tpl_line - 1)
  BY <1>1 DEF QueryStays
<1>7. in_comment' <=> EndsInComment(tpl_flags', qtag', tpl_line' - 1)
  BY <1>4, <1>6, Zenon
<1>8. templates' \in Seq(DOMAIN Templates) /\ templates' # <<>> /\ tpl_line' \in Nat \ {0}
  BY <1>1 DEF Inside, QueryStays
<1> QED
  BY <1>5, <1>7, <1>8 DEF TemplateIInv

\* A step inside strip_comments.
LEMMA StripToStrip ==
  ASSUME TemplateIInv, tpl_pc = "strip", tpl_pc' = "strip", templates' = templates,
         tpl_flags' = tpl_flags, tpl_line' = tpl_line, tpl_out' = tpl_out,
         in_comment' => InComment(sql_lines, tpl_line - 1, unread'),
         ~in_comment' => OutOfComment(sql_lines, tpl_line - 1, unread')
  PROVE  TemplateIInv'
<1>1. Inside /\ QueryStays
  BY InsideIs, QueryStaysIs
<1>2. AtStrip(tpl_flags', qtag', tpl_line' - 1, tpl_out')
  <2>1. AtStrip(tpl_flags, qtag, tpl_line - 1, tpl_out)
    BY AtStripIs
  <2> QED
    BY <1>1, <2>1 DEF QueryStays
<1>3. InComment(sql_lines', tpl_line' - 1, unread') <=> InComment(sql_lines, tpl_line - 1, unread')
  BY <1>1 DEF QueryStays
<1>4. OutOfComment(sql_lines', tpl_line' - 1, unread')
        <=> OutOfComment(sql_lines, tpl_line - 1, unread')
  BY <1>1 DEF QueryStays
<1>5. in_comment' => InComment(sql_lines', tpl_line' - 1, unread')
  BY <1>3, Zenon
<1>6. ~in_comment' => OutOfComment(sql_lines', tpl_line' - 1, unread')
  BY <1>4, Zenon
<1>7. templates' \in Seq(DOMAIN Templates) /\ templates' # <<>> /\ tpl_line' \in Nat \ {0}
  BY <1>1 DEF Inside, QueryStays
<1> QED
  BY <1>2, <1>5, <1>6, <1>7 DEF TemplateIInv

LEMMA CommentEndsIs == TemplateIInv /\ CommentEnds => TemplateIInv'
<1> SUFFICES ASSUME TemplateIInv, CommentEnds PROVE TemplateIInv'
  OBVIOUS
<1>1. tpl_pc = "strip" /\ tpl_pc' = "strip" /\ templates' = templates /\ tpl_flags' = tpl_flags
      /\ tpl_line' = tpl_line /\ tpl_out' = tpl_out
      /\ unread' = From(unread, First(Close, unread) + 1) /\ First(Close, unread) > 0
  BY DEF CommentEnds
<1>2. in_comment /\ ~in_comment'
  BY DEF CommentEnds
<1>3. Inside
  BY <1>1, InsideIs
<1>4. InComment(sql_lines, tpl_line - 1, unread) /\ tpl_line - 1 \in 1..Len(sql_lines)
  BY <1>1, <1>2, AtStripIs
<1>5. OutOfComment(sql_lines, tpl_line - 1, unread')
  BY <1>1, <1>3, <1>4, StripEnds DEF Inside
<1> QED
  BY <1>1, <1>2, <1>5, StripToStrip

LEMMA CommentGoesOnIs == TemplateIInv /\ CommentGoesOn => TemplateIInv'
<1> SUFFICES ASSUME TemplateIInv, CommentGoesOn PROVE TemplateIInv'
  OBVIOUS
<1>1. tpl_pc = "strip" /\ tpl_pc' = "tags" /\ templates' = templates /\ tpl_flags' = tpl_flags
      /\ tpl_line' = tpl_line /\ tpl_out' = tpl_out
      /\ unread' = <<>> /\ First(Close, unread) = 0
  BY DEF CommentGoesOn
<1>2. in_comment /\ in_comment'
  BY DEF CommentGoesOn
<1>3. Inside
  BY <1>1, InsideIs
<1>4. InComment(sql_lines, tpl_line - 1, unread) /\ tpl_line - 1 \in 1..Len(sql_lines)
  BY <1>1, <1>2, AtStripIs
<1>5. Stripped(sql_lines, tpl_line - 1, <<>>)
      /\ InBraces(sql_lines, tpl_line - 1, Len(sql_lines[tpl_line - 1]) + 1)
  BY <1>1, <1>3, <1>4, StripGoesOn DEF Inside
<1>6. Stripped(sql_lines, tpl_line - 1, unread')
  BY <1>1, <1>5
<1>7. in_comment' <=> InBraces(sql_lines, tpl_line - 1, Len(sql_lines[tpl_line - 1]) + 1)
  BY <1>2, <1>5
<1> QED
  BY <1>1, <1>6, <1>7, StripToTags

LEMMA CommentDashesIs == TemplateIInv /\ CommentDashes => TemplateIInv'
<1> SUFFICES ASSUME TemplateIInv, CommentDashes PROVE TemplateIInv'
  OBVIOUS
<1>1. tpl_pc = "strip" /\ tpl_pc' = "tags" /\ templates' = templates /\ tpl_flags' = tpl_flags
      /\ tpl_line' = tpl_line /\ tpl_out' = tpl_out
      /\ unread' = SubSeq(unread, 1, First(Dash, unread) - 1) /\ Dashes(unread)
  BY DEF CommentDashes
<1>2. ~in_comment /\ ~in_comment'
  BY DEF CommentDashes
<1>3. Inside
  BY <1>1, InsideIs
<1>4. OutOfComment(sql_lines, tpl_line - 1, unread) /\ tpl_line - 1 \in 1..Len(sql_lines)
  BY <1>1, <1>2, AtStripIs
<1>5. Stripped(sql_lines, tpl_line - 1, SubSeq(unread, 1, First(Dash, unread) - 1))
      /\ ~InBraces(sql_lines, tpl_line - 1, Len(sql_lines[tpl_line - 1]) + 1)
  BY <1>1, <1>3, <1>4, StripDashes DEF Inside
<1>6. Stripped(sql_lines, tpl_line - 1, unread')
  BY <1>1, <1>5
<1>7. in_comment' <=> InBraces(sql_lines, tpl_line - 1, Len(sql_lines[tpl_line - 1]) + 1)
  BY <1>2, <1>5
<1> QED
  BY <1>1, <1>6, <1>7, StripToTags

LEMMA CommentBeginsIs == TemplateIInv /\ CommentBegins => TemplateIInv'
<1> SUFFICES ASSUME TemplateIInv, CommentBegins PROVE TemplateIInv'
  OBVIOUS
<1>1. tpl_pc = "strip" /\ tpl_pc' = "strip" /\ templates' = templates /\ tpl_flags' = tpl_flags
      /\ tpl_line' = tpl_line /\ tpl_out' = tpl_out
      /\ unread' = [unread EXCEPT ![First(Open, unread)] = Words(0)] /\ First(Open, unread) > 0
  BY DEF CommentBegins
<1>2. ~in_comment /\ in_comment'
  BY DEF CommentBegins
<1>3. Inside
  BY <1>1, InsideIs
<1>4. OutOfComment(sql_lines, tpl_line - 1, unread) /\ tpl_line - 1 \in 1..Len(sql_lines)
  BY <1>1, <1>2, AtStripIs
<1>5. InComment(sql_lines, tpl_line - 1, [unread EXCEPT ![First(Open, unread)] = Words(0)])
  BY <1>1, <1>3, <1>4, StripBegins DEF Inside
<1>6. InComment(sql_lines, tpl_line - 1, unread')
  BY <1>1, <1>5
<1> QED
  BY <1>1, <1>2, <1>6, StripToStrip

LEMMA NoCommentIs == TemplateIInv /\ NoComment => TemplateIInv'
<1> SUFFICES ASSUME TemplateIInv, NoComment PROVE TemplateIInv'
  OBVIOUS
<1>1. tpl_pc = "strip" /\ tpl_pc' = "tags" /\ templates' = templates /\ tpl_flags' = tpl_flags
      /\ tpl_line' = tpl_line /\ tpl_out' = tpl_out
      /\ unread' = unread /\ ~Dashes(unread) /\ First(Open, unread) = 0
  BY DEF NoComment
<1>2. ~in_comment /\ ~in_comment'
  BY DEF NoComment
<1>3. Inside
  BY <1>1, InsideIs
<1>4. OutOfComment(sql_lines, tpl_line - 1, unread) /\ tpl_line - 1 \in 1..Len(sql_lines)
  BY <1>1, <1>2, AtStripIs
<1>5. Stripped(sql_lines, tpl_line - 1, unread)
      /\ ~InBraces(sql_lines, tpl_line - 1, Len(sql_lines[tpl_line - 1]) + 1)
  BY <1>1, <1>3, <1>4, StripNothing DEF Inside
<1>6. Stripped(sql_lines, tpl_line - 1, unread')
  BY <1>1, <1>5
<1>7. in_comment' <=> InBraces(sql_lines, tpl_line - 1, Len(sql_lines[tpl_line - 1]) + 1)
  BY <1>2, <1>5
<1> QED
  BY <1>1, <1>6, <1>7, StripToTags

LEMMA SubstitutionIs == TemplateIInv /\ Substitution => TemplateIInv'
<1> SUFFICES ASSUME TemplateIInv, Substitution PROVE TemplateIInv'
  OBVIOUS
<1> DEFINE i == SelectInSeq(unread, VTAG)
           before == SubSeq(unread, 1, i - 1)
           rest == IF unread[i].kind = "n" THEN before ELSE From(unread, i + 1)
           written == tpl_out \o before \o Meaning(tpl_flags, qtag, unread[i])
           k == tpl_line - 1
<1>1. tpl_pc = "tags" /\ tpl_pc' = "tags" /\ templates' = templates /\ tpl_flags' = tpl_flags
      /\ tpl_line' = tpl_line /\ unread' = rest /\ tpl_out' = written
  BY DEF Substitution
<1>2. PICK j \in DOMAIN unread : VTAG(unread[j])
  BY DEF Substitution
<1>3. Inside /\ QueryStays
  BY <1>1, InsideIs, QueryStaysIs
<1>4. AtTags(tpl_flags, qtag, k, unread, tpl_out) /\ qtag \in DOMAIN Templates
  BY <1>1, <1>3 DEF TemplateIInv, Inside
<1>5. AtTags(tpl_flags, qtag, k, rest, written)
  <2> HIDE DEF k
  <2> QED
    BY <1>2, <1>4, TagsNext
<1> HIDE DEF rest, written
<1>6. AtTags(tpl_flags', qtag', tpl_line' - 1, unread', tpl_out')
  BY <1>1, <1>3, <1>5 DEF QueryStays
<1>7. in_comment' <=> EndsInComment(tpl_flags', qtag', tpl_line' - 1)
  <2>1. in_comment <=> EndsInComment(tpl_flags, qtag, tpl_line - 1)
    BY <1>1 DEF TemplateIInv
  <2>2. in_comment' <=> in_comment
    BY DEF Substitution
  <2>3. EndsInComment(tpl_flags', qtag', tpl_line' - 1) <=>
          EndsInComment(tpl_flags, qtag, tpl_line - 1)
    BY <1>3 DEF QueryStays
  <2> QED
    BY <2>1, <2>2, <2>3, Zenon
<1>8. templates' \in Seq(DOMAIN Templates) /\ templates' # <<>> /\ tpl_line' \in Nat \ {0}
  BY <1>3 DEF Inside, QueryStays
<1> QED
  BY <1>1, <1>6, <1>7, <1>8 DEF TemplateIInv

LEMMA EndLineIs == TemplateIInv /\ EndLine_ => TemplateIInv'
<1> SUFFICES ASSUME TemplateIInv, EndLine_ PROVE TemplateIInv'
  OBVIOUS
<1> DEFINE k == tpl_line - 1
<1>1. tpl_pc = "tags" /\ tpl_pc' = "lines" /\ templates' = templates /\ tpl_flags' = tpl_flags
      /\ tpl_line' = tpl_line /\ tpl_out' = tpl_out \o unread
      /\ \A i \in DOMAIN unread : ~VTAG(unread[i])
  BY DEF EndLine_
<1>2. Inside /\ QueryStays
  BY <1>1, InsideIs, QueryStaysIs
<1>3. AtTags(tpl_flags, qtag, k, unread, tpl_out) /\ qtag \in DOMAIN Templates
  BY <1>1, <1>2 DEF TemplateIInv, Inside
<1>4. AtLines(tpl_flags, qtag, k, tpl_out \o unread)
  <2> HIDE DEF k
  <2> QED
    BY <1>1, <1>3, TagsEnd
<1>5. AtLines(tpl_flags', qtag', tpl_line' - 1, tpl_out')
  BY <1>1, <1>2, <1>4 DEF QueryStays
<1>6. in_comment' <=> EndsInComment(tpl_flags', qtag', tpl_line' - 1)
  <2>1. in_comment <=> EndsInComment(tpl_flags, qtag, tpl_line - 1)
    BY <1>1 DEF TemplateIInv
  <2>2. in_comment' <=> in_comment
    BY DEF EndLine_
  <2>3. EndsInComment(tpl_flags', qtag', tpl_line' - 1) <=>
          EndsInComment(tpl_flags, qtag, tpl_line - 1)
    BY <1>2 DEF QueryStays
  <2> QED
    BY <2>1, <2>2, <2>3, Zenon
<1>7. templates' \in Seq(DOMAIN Templates) /\ templates' # <<>> /\ tpl_line' \in Nat \ {0}
  BY <1>2 DEF Inside, QueryStays
<1> QED
  BY <1>1, <1>5, <1>6, <1>7 DEF TemplateIInv

\* A query is complete when its lines are.
LEMMA QueryComplete ==
  ASSUME TemplateIInv, tpl_pc = "lines", tpl_line > Len(sql_lines)
  PROVE  /\ ~in_comment
         /\ tpl_out = Beginning(tpl_flags, qtag)
                      \o FlattenSeq([l \in DOMAIN sql_lines |-> LineBecomes(tpl_flags, qtag, l)])
<1> DEFINE k == tpl_line - 1
<1>1. Inside
  BY InsideIs
<1>2. AtLines(tpl_flags, qtag, k, tpl_out)
  BY DEF TemplateIInv
<1>3. k + 1 > Len(Templates[qtag]) /\ qtag \in DOMAIN Templates /\ sql_lines = Templates[qtag]
  BY <1>1 DEF Inside
<1>4. in_comment <=> EndsInComment(tpl_flags, qtag, k)
  BY DEF TemplateIInv
<1> HIDE DEF k
<1>5. /\ ~EndsInComment(tpl_flags, qtag, k)
      /\ tpl_out = Beginning(tpl_flags, qtag)
                   \o FlattenSeq([l \in DOMAIN Templates[qtag] |-> LineBecomes(tpl_flags, qtag, l)])
  BY <1>2, <1>3, LinesEnd
<1>6. ~in_comment
  BY <1>4, <1>5, Zenon
<1> QED
  BY <1>3, <1>5, <1>6

LEMMA EndTemplateIs == TemplateIInv /\ EndTemplate => TemplateIInv'
<1> SUFFICES ASSUME TemplateIInv, EndTemplate PROVE TemplateIInv'
  OBVIOUS
<1>1. tpl_pc = "lines" /\ tpl_line > Len(sql_lines) /\ templates' = Tail(templates)
      /\ tpl_pc' = "query" /\ tpl_line' = tpl_line
  BY DEF EndTemplate
<1>2. templates \in Seq(DOMAIN Templates) /\ templates # <<>> /\ tpl_line \in Nat \ {0}
  BY <1>1 DEF TemplateIInv
<1>3. templates' \in Seq(DOMAIN Templates)
  BY <1>1, <1>2
<1>4. ~in_comment'
  <2>1. ~in_comment
    BY <1>1, QueryComplete
  <2> QED
    BY <2>1, Zenon DEF EndTemplate
<1> QED
  BY <1>1, <1>2, <1>3, <1>4 DEF TemplateIInv

LEMMA TemplateStutters == TemplateIInv /\ UNCHANGED tpl_vars => TemplateIInv'
<1> SUFFICES ASSUME TemplateIInv, UNCHANGED tpl_vars PROVE TemplateIInv'
  OBVIOUS
<1>1. /\ tpl_pc' = tpl_pc /\ tpl_flags' = tpl_flags /\ templates' = templates
      /\ tpl_line' = tpl_line /\ unread' = unread /\ tpl_out' = tpl_out
  BY DEF tpl_vars
<1>2. in_comment' <=> in_comment
  BY DEF tpl_vars
<1>3. QueryStays
  BY <1>1, QueryStaysIs
<1> QED
  BY <1>1, <1>2, <1>3 DEF TemplateIInv, QueryStays

\* A query is its template alone, whatever was made before it: for any templates of the shapes
\* in queries/, any options and any queries in any order, what qsub has written of a template at
\* its end is what is in no comment, or with -c all of it, in its order, with a meaning for each
\* tag, and of a line that begins with :n that alone.
THEOREM QueriesAreTemplates == TemplateSpec => []QueryIsTemplate
<1>1. TemplateInit => TemplateIInv
  BY TemplateInitInv
<1>2. TemplateIInv /\ [TemplateNext]_tpl_vars => TemplateIInv'
  <2> SUFFICES ASSUME TemplateIInv, [TemplateNext]_tpl_vars PROVE TemplateIInv'
    OBVIOUS
  <2>1. CASE UNCHANGED tpl_vars
    BY <2>1, TemplateStutters
  <2>2. CASE StartOutput
    BY <2>2, StartOutputIs
  <2>3. CASE StartQuery
    BY <2>3, StartQueryIs
  <2>4. CASE NextLine
    BY <2>4, NextLineIs
  <2>5. CASE CommentEnds
    BY <2>5, CommentEndsIs
  <2>6. CASE CommentGoesOn
    BY <2>6, CommentGoesOnIs
  <2>7. CASE CommentDashes
    BY <2>7, CommentDashesIs
  <2>8. CASE CommentBegins
    BY <2>8, CommentBeginsIs
  <2>9. CASE NoComment
    BY <2>9, NoCommentIs
  <2>10. CASE Substitution
    BY <2>10, SubstitutionIs
  <2>11. CASE EndLine_
    BY <2>11, EndLineIs
  <2>12. CASE EndTemplate
    BY <2>12, EndTemplateIs
  <2> QED
    BY <2>1, <2>2, <2>3, <2>4, <2>5, <2>6, <2>7, <2>8, <2>9, <2>10, <2>11, <2>12 DEF TemplateNext
<1>3. TemplateIInv => QueryIsTemplate
  BY QueryComplete DEF QueryIsTemplate
<1> QED
  BY <1>1, <1>2, <1>3, PTL DEF TemplateSpec
=============================================================================
