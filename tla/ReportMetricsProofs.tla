------------------------- MODULE ReportMetricsProofs -------------------------
(***************************************************************************)
(* Proofs about the figures of a report, for sheets of any number of        *)
(* answers.  The loops over a sheet are folds, about which ServicesProofs   *)
(* has a lemma with a set in place of a predicate; the sorts are rankings,  *)
(* each element at the place of its number of predecessors, and medians and *)
(* terciles follow from counting places.  Each part of FiguresHold is a     *)
(* lemma "... Always ..." about a sheet of the right type, and the last     *)
(* theorem has them together of every behaviour.                            *)
(***************************************************************************)
EXTENDS ServicesProofs

-----------------------------------------------------------------------------
(* Rounding, sums, averages and rankings                                   *)

\* The loops, orders and numbers of the instance are those of the lemmas.
LEMMA MetricsSame ==
    /\ \A s, S : Metrics!Only(s, S) = Only(s, S)
    /\ \A body, base, s : Metrics!Fold(body, base, s) = Fold(body, base, s)
    /\ \A S : Metrics!Cardinality(S) = Cardinality(S)
    /\ \A a, b \in Int : Metrics!Min({a, b}) = IF a <= b THEN a ELSE b
    /\ \A a, b \in Int : Metrics!Max({a, b}) = IF a <= b THEN b ELSE a
  <1>1. \A body, base, s : Metrics!Fold(body, base, s) = Fold(body, base, s)
    BY DEF Metrics!Fold, Fold
  <1>2. \A s, S : Metrics!Only(s, S) = Only(s, S)
    BY DEF Metrics!Only, Only
  <1>3. \A S : Metrics!Cardinality(S) = Cardinality(S)
    BY DEF Metrics!Cardinality, Cardinality, Metrics!IsFiniteSet, IsFiniteSet
  <1>6. ASSUME NEW a \in Int, NEW b \in Int
        PROVE  Metrics!Min({a, b}) = IF a <= b THEN a ELSE b
    BY <1>6 DEF Metrics!Min
  <1>7. ASSUME NEW a \in Int, NEW b \in Int
        PROVE  Metrics!Max({a, b}) = IF a <= b THEN b ELSE a
    BY <1>7 DEF Metrics!Max
  <1> QED BY <1>1, <1>2, <1>3, <1>6, <1>7

\* An order of all elements of a set, given by its pairs.
IsOrderOf(R, S) ==
    /\ \A x \in S : <<x, x>> \notin R
    /\ \A x, y \in S : x # y => <<x, y>> \in R \/ <<y, x>> \in R
    /\ \A x, y, z \in S : <<x, y>> \in R /\ <<y, z>> \in R => <<x, z>> \in R

\* The elements ranked: each at one place, and in their order.
LEMMA RankedInOrder ==
    ASSUME NEW S, IsFiniteSet(S), NEW R, IsOrderOf(R, S)
    PROVE  /\ Metrics!Ranked(S, R) \in Seq(S) /\ Len(Metrics!Ranked(S, R)) = Cardinality(S)
           /\ Cardinality(S) \in Nat
           /\ \A x \in S : \E k \in 1..Cardinality(S) : Metrics!Ranked(S, R)[k] = x
           /\ \A j, k \in 1..Cardinality(S) : j < k => <<Metrics!Ranked(S, R)[j], Metrics!Ranked(S, R)[k]>> \in R
           /\ \A j, k \in 1..Cardinality(S) : Metrics!Ranked(S, R)[j] = Metrics!Ranked(S, R)[k] => j = k
  <1> DEFINE below(x) == {y \in S : <<y, x>> \in R}
             e == [x \in S |-> Metrics!Cardinality(below(x))]
             n == Cardinality(S)
             r == Metrics!Ranked(S, R)
  <1>0. \A T : Metrics!Cardinality(T) = Cardinality(T)
    BY MetricsSame
  <1>1. n \in Nat
    BY FS_CardinalityType
  <1>2. \A x \in S : below(x) \in SUBSET S /\ x \notin below(x)
    BY DEF IsOrderOf
  <1>3. \A x \in S : /\ IsFiniteSet(below(x)) /\ Cardinality(below(x)) \in Nat
                     /\ Cardinality(below(x)) <= n /\ Cardinality(below(x)) # n
    <2> TAKE x \in S
    <2>1. PICK T \in SUBSET S : T = below(x) /\ x \notin T
      BY <1>2
    <2>2. IsFiniteSet(T) /\ Cardinality(T) <= n /\ (n = Cardinality(T) => S = T)
      BY FS_Subset
    <2>3. Cardinality(T) \in Nat
      BY <2>2, FS_CardinalityType
    <2> QED BY <2>1, <2>2, <2>3
  <1>4. \A x \in S : e[x] \in 0..(n - 1)
    BY <1>0, <1>1, <1>3
  <1>5. ASSUME NEW x \in S, NEW z \in S, <<x, z>> \in R PROVE e[x] < e[z]
    <2>1. PICK T \in SUBSET S : T = below(x)
      BY <1>2
    <2>2. PICK U \in SUBSET S : U = below(z)
      BY <1>2
    <2>3. T \in SUBSET U /\ x \in U /\ x \notin T
      BY <1>2, <1>5, <2>1, <2>2 DEF IsOrderOf
    <2>4. IsFiniteSet(U) /\ IsFiniteSet(T) /\ Cardinality(T) \in Nat /\ Cardinality(U) \in Nat
      BY <1>3, <2>1, <2>2
    <2>5. Cardinality(T) <= Cardinality(U) /\ (Cardinality(U) = Cardinality(T) => U = T)
      BY <2>3, <2>4, FS_Subset
    <2> QED BY <1>0, <2>1, <2>2, <2>3, <2>4, <2>5
  <1> DEFINE D == 0..(n - 1)
  <1>6. e \in Injection(S, D)
    <2>1. e \in [S -> D]
      BY <1>4
    <2>2. ASSUME NEW x \in S, NEW z \in S, e[x] = e[z] PROVE x = z
      <3>1. e[x] \in Int /\ e[z] \in Int
        BY <1>0, <1>3
      <3>2. ~(e[x] < e[z]) /\ ~(e[z] < e[x])
        BY <2>2, <3>1
      <3> QED BY <1>5, <3>2 DEF IsOrderOf
    <2> HIDE DEF e, D
    <2> QED BY <2>1, <2>2 DEF Injection, IsInjective
  <1>7. IsFiniteSet(D) /\ Cardinality(D) = n
    <2>1. \A b \in Int : IsFiniteSet(0..b) /\ Cardinality(0..b) = IF 0 > b THEN 0 ELSE b - 0 + 1
      BY FS_Interval
    <2>2. n - 1 \in Int
      BY <1>1
    <2>3. IsFiniteSet(D) /\ Cardinality(D) = IF 0 > n - 1 THEN 0 ELSE n - 1 - 0 + 1
      BY <2>1, <2>2, Zenon
    <2> HIDE DEF D, n
    <2> QED BY <1>1, <2>3
  <1>8. e \in Surjection(S, D)
    <2> HIDE DEF e, D
    <2> QED BY <1>6, <1>7, FS_Injection
  <1>9. \A d \in D : \E x \in S : e[x] = d
    BY <1>8 DEF Surjection
  <1>10. r = [k \in 1..n |-> CHOOSE x \in S : e[x] = k - 1]
    <2>1. r = [k \in 1..Metrics!Cardinality(S) |-> CHOOSE x \in S : e[x] = k - 1]
      BY DEF Metrics!Ranked
    <2>2. Metrics!Cardinality(S) = n
      BY <1>0
    <2> HIDE DEF e, r, n
    <2> QED BY <2>1, <2>2
  <1> HIDE DEF e, r
  <1>11. \A k \in 1..n : r[k] \in S /\ e[r[k]] = k - 1
    <2> TAKE k \in 1..n
    <2>1. k - 1 \in D
      BY <1>1
    <2>2. \E x \in S : e[x] = k - 1
      BY <1>9, <2>1
    <2>3. r[k] = CHOOSE x \in S : e[x] = k - 1
      BY <1>10
    <2> QED BY <2>2, <2>3
  <1>12. r \in Seq(S) /\ Len(r) = n
    <2>1. r \in [1..n -> S]
      BY <1>10, <1>11
    <2> HIDE DEF n
    <2> QED BY <1>1, <2>1
  <1>13. ASSUME NEW x \in S PROVE \E k \in 1..n : r[k] = x
    <2> DEFINE k == e[x] + 1
    <2>1. k \in 1..n /\ k - 1 = e[x]
      <3>1. e[x] \in 0..(n - 1)
        BY <1>6 DEF Injection
      <3> HIDE DEF n
      <3> QED BY <1>1, <3>1
    <2> HIDE DEF k, n
    <2>2. r[k] \in S /\ e[r[k]] = e[x]
      BY <1>11, <2>1
    <2>3. r[k] = x
      BY <1>6, <2>2 DEF Injection, IsInjective
    <2> QED BY <2>1, <2>3
  <1>14. ASSUME NEW j \in 1..n, NEW k \in 1..n, r[j] = r[k] PROVE j = k
    <2>1. j - 1 = k - 1
      BY <1>11, <1>14
    <2> QED BY <1>1, <2>1
  <1>15. ASSUME NEW j \in 1..n, NEW k \in 1..n, j < k PROVE <<r[j], r[k]>> \in R
    <2>1. r[j] \in S /\ r[k] \in S /\ e[r[j]] = j - 1 /\ e[r[k]] = k - 1
      BY <1>11
    <2>2. r[j] # r[k]
      BY <1>1, <1>14, <1>15
    <2>3. ~(e[r[k]] < e[r[j]])
      BY <1>1, <1>15, <2>1
    <2> QED BY <1>5, <2>1, <2>2, <2>3 DEF IsOrderOf
  <1> QED BY <1>1, <1>12, <1>13, <1>14, <1>15 DEF r

\* Rounding respects the order of fractions.
LEMMA RoundMonotone ==
    ASSUME NEW a \in Nat, NEW b \in Nat \ {0}, NEW c \in Nat, NEW d \in Nat \ {0},
           a * d <= c * b
    PROVE  Metrics!Round(a, b) <= Metrics!Round(c, d) /\ Metrics!Round(a, b) \in Nat
  <1> DEFINE q == a \div b
             r == a % b
             p == c \div d
             s == c % d
  <1>1. /\ q \in Nat /\ r \in Nat /\ r < b /\ a = b * q + r
        /\ p \in Nat /\ s \in Nat /\ s < d /\ c = d * p + s
    OBVIOUS
  <1>2. /\ Metrics!Round(a, b) = IF 2 * r > b \/ (2 * r = b /\ q % 2 = 1) THEN q + 1 ELSE q
        /\ Metrics!Round(c, d) = IF 2 * s > d \/ (2 * s = d /\ p % 2 = 1) THEN p + 1 ELSE p
    BY DEF Metrics!Round
  <1> HIDE DEF q, r, p, s
  <1> DEFINE z == b * d
  <1>3. /\ z \in Nat /\ z > 0 /\ z * q \in Nat /\ z * p \in Nat /\ r * d \in Nat /\ s * b \in Nat
        /\ a * d = z * q + r * d /\ c * b = z * p + s * b
    <2>1. a * d = (b * q + r) * d /\ c * b = (d * p + s) * b
      BY <1>1
    <2>2. (b * q + r) * d = (b * d) * q + r * d /\ (d * p + s) * b = (b * d) * p + s * b
      BY <1>1
    <2>3. z \in Nat /\ z > 0
      OBVIOUS
    <2>4. z * q \in Nat /\ z * p \in Nat /\ r * d \in Nat /\ s * b \in Nat
      BY <1>1, <2>3
    <2> QED BY <2>1, <2>2, <2>3, <2>4
  <1>4. s * b < z
    BY <1>1
  <1> HIDE DEF z
  <1>5. q <= p
    <2> SUFFICES ASSUME p + 1 <= q PROVE FALSE
      BY <1>1
    <2>1. (p + 1) * z <= q * z /\ (p + 1) * z = p * z + z
      BY <1>1, <1>3, Products
    <2>2. q * z = z * q /\ p * z = z * p
      BY <1>1, <1>3
    <2> QED BY <1>3, <1>4, <2>1, <2>2
  <1>6. CASE q < p
    BY <1>1, <1>2, <1>6
  <1>7. CASE q = p
    <2>1. r * d <= s * b
      BY <1>3, <1>7
    <2>2. 2 * r >= b => 2 * (r * d) >= z
      <3> SUFFICES ASSUME b <= 2 * r PROVE b * d <= 2 * (r * d)
        BY DEF z
      <3>1. b * d <= (2 * r) * d
        BY <1>1, Products
      <3>2. (2 * r) * d = 2 * (r * d)
        BY <1>1
      <3> QED BY <3>1, <3>2
    <2>3. 2 * r > b => 2 * (r * d) > z
      <3> SUFFICES ASSUME b + 1 <= 2 * r PROVE b * d < 2 * (r * d)
        BY <1>1 DEF z
      <3>1. (b + 1) * d <= (2 * r) * d
        BY <1>1, Products
      <3>2. (2 * r) * d = 2 * (r * d) /\ (b + 1) * d = b * d + d /\ b * d \in Nat
        BY <1>1
      <3> QED BY <1>3, <3>1, <3>2
    <2>4. 2 * s < d => 2 * (s * b) < z
      <3> SUFFICES ASSUME 2 * s + 1 <= d PROVE 2 * (s * b) < b * d
        BY <1>1 DEF z
      <3>1. (2 * s + 1) * b <= d * b
        BY <1>1, Products
      <3>2. (2 * s + 1) * b = 2 * (s * b) + b /\ d * b = b * d
        BY <1>1
      <3> QED BY <1>3, <3>1, <3>2
    <2>5. 2 * s <= d => 2 * (s * b) <= z
      <3> SUFFICES ASSUME 2 * s <= d PROVE 2 * (s * b) <= b * d
        BY DEF z
      <3>1. (2 * s) * b <= d * b
        BY <1>1, Products
      <3>2. (2 * s) * b = 2 * (s * b) /\ d * b = b * d
        BY <1>1
      <3> QED BY <1>3, <3>1, <3>2
    <2>6. /\ 2 * r > b => 2 * s > d
          /\ 2 * r = b => 2 * s >= d
      BY <1>1, <1>3, <2>1, <2>2, <2>3, <2>4, <2>5
    <2> QED BY <1>1, <1>2, <1>7, <2>6
  <1>8. Metrics!Round(a, b) \in Nat
    BY <1>1, <1>2
  <1> QED BY <1>1, <1>5, <1>6, <1>7, <1>8

\* A rounded number is no more than a half away.
LEMMA RoundNear ==
    ASSUME NEW a \in Nat, NEW b \in Nat \ {0}
    PROVE  LET x == Metrics!Round(a, b)
           IN  x \in Nat /\ 2 * a <= 2 * (x * b) + b /\ 2 * (x * b) <= 2 * a + b
  <1> DEFINE q == a \div b
             r == a % b
  <1>1. q \in Nat /\ r \in Nat /\ r < b /\ a = b * q + r
    OBVIOUS
  <1>2. Metrics!Round(a, b) = IF 2 * r > b \/ (2 * r = b /\ q % 2 = 1) THEN q + 1 ELSE q
    BY DEF Metrics!Round
  <1> HIDE DEF q, r
  <1>3. q * b = b * q /\ (q + 1) * b = b * q + b /\ b * q \in Nat
    BY <1>1
  <1>4. CASE Metrics!Round(a, b) = q /\ 2 * r <= b
    BY <1>1, <1>3, <1>4
  <1>5. CASE Metrics!Round(a, b) = q + 1 /\ 2 * r >= b
    BY <1>1, <1>3, <1>5
  <1> QED BY <1>1, <1>2, <1>4, <1>5

\* Of two complementary shares of a hundred, at a tie one is rounded up and one down.
LEMMA SharesOfAll ==
    ASSUME NEW x \in Nat, NEW y \in Nat, NEW n \in Nat \ {0}, x + y = n
    PROVE  Metrics!Round(100 * x, n) + Metrics!Round(100 * y, n) = 100
  <1> DEFINE q == (100 * x) \div n
             r == (100 * x) % n
             p == (100 * y) \div n
             s == (100 * y) % n
  <1>1. /\ q \in Nat /\ r \in Nat /\ r < n /\ 100 * x = n * q + r
        /\ p \in Nat /\ s \in Nat /\ s < n /\ 100 * y = n * p + s
    OBVIOUS
  <1>2. /\ Metrics!Round(100 * x, n) = IF 2 * r > n \/ (2 * r = n /\ q % 2 = 1) THEN q + 1 ELSE q
        /\ Metrics!Round(100 * y, n) = IF 2 * s > n \/ (2 * s = n /\ p % 2 = 1) THEN p + 1 ELSE p
    BY DEF Metrics!Round
  <1> HIDE DEF q, r, p, s
  <1>3. n * (q + p) + (r + s) = n * 100
    BY <1>1
  <1> DEFINE t == q + p
  <1>4. t \in Nat /\ n * t + (r + s) = n * 100 /\ n * t \in Nat
    BY <1>1, <1>3
  <1> HIDE DEF t
  <1>5. t <= 100
    <2> SUFFICES ASSUME 101 <= t PROVE FALSE
      BY <1>4
    <2>1. 101 * n <= t * n
      BY <1>4, Products
    <2>2. t * n = n * t /\ 101 * n = n * 100 + n
      BY <1>4
    <2> QED BY <1>1, <1>4, <2>1, <2>2
  <1>6. t >= 99
    <2> SUFFICES ASSUME t <= 98 PROVE FALSE
      BY <1>4
    <2>1. t * n <= 98 * n
      BY <1>4, Products
    <2>2. t * n = n * t
      BY <1>4
    <2> QED BY <1>1, <1>4, <2>1, <2>2
  <1>7. CASE t = 100
    BY <1>1, <1>2, <1>4, <1>7 DEF t
  <1>8. CASE t = 99
    <2>1. r + s = n
      BY <1>1, <1>4, <1>8
    <2>2. p = 99 - q
      BY <1>1, <1>8 DEF t
    <2>3. (99 - q) % 2 = 1 - (q % 2) /\ q % 2 \in {0, 1}
      BY <1>1
    <2> QED BY <1>1, <1>2, <2>1, <2>2, <2>3
  <1> QED BY <1>4, <1>5, <1>6, <1>7, <1>8

-----------------------------------------------------------------------------
(* Two parts of a set                                                      *)

\* How many elements two sets without a common one have.
LEMMA TwoParts ==
    ASSUME NEW S, IsFiniteSet(S), NEW U, NEW V, S = U \cup V, U \cap V = {}
    PROVE  /\ Cardinality(S) = Cardinality(U) + Cardinality(V)
           /\ Cardinality(U) \in Nat /\ Cardinality(V) \in Nat
           /\ IsFiniteSet(U) /\ IsFiniteSet(V)
  <1>1. U \in SUBSET S /\ V \in SUBSET S
    OBVIOUS
  <1>2. IsFiniteSet(U) /\ IsFiniteSet(V)
    BY <1>1, FS_Subset
  <1>3. Cardinality(U) \in Nat /\ Cardinality(V) \in Nat
    BY <1>2, FS_CardinalityType
  <1>4. Cardinality(U \cup V) = Cardinality(U) + Cardinality(V) - Cardinality(U \cap V)
    BY <1>2, FS_Union
  <1>5. Cardinality(U \cap V) = 0
    BY FS_EmptySet
  <1> QED BY <1>2, <1>3, <1>4, <1>5

\* The counts of scores, and how many have one.
LEMMA CountsAre ==
    ASSUME NEW D, IsFiniteSet(D), NEW score \in [D -> 0..5], NEW who \in SUBSET D
    PROVE  LET c == Metrics!Counts(score, who)
               given == {n \in who : score[n] # 0}
           IN  /\ c \in [1..5 -> Nat]
               /\ \A s \in 1..5 : c[s] = Cardinality({n \in who : score[n] = s})
               /\ IsFiniteSet(given) /\ Metrics!Number(c) = Cardinality(given)
               /\ Cardinality(given) \in Nat
  <1> DEFINE At(s) == {n \in who : score[n] = s}
             c == Metrics!Counts(score, who)
             given == {n \in who : score[n] # 0}
  <1>1. c = [s \in 1..5 |-> Cardinality(At(s))]
    BY MetricsSame DEF Metrics!Counts
  <1>2. \A s \in 1..5 : IsFiniteSet(At(s)) /\ Cardinality(At(s)) \in Nat
    <2> TAKE s \in 1..5
    <2>1. PICK T \in SUBSET D : T = At(s)
      OBVIOUS
    <2>2. IsFiniteSet(T)
      BY FS_Subset
    <2>3. Cardinality(T) \in Nat
      BY <2>2, FS_CardinalityType
    <2> QED BY <2>1, <2>2, <2>3
  <1>3. IsFiniteSet(given)
    <2>1. given \in SUBSET D
      OBVIOUS
    <2> QED BY <2>1, FS_Subset
  <1> DEFINE A1 == At(1) A2 == At(2) A3 == At(3) A4 == At(4) A5 == At(5)
             S2 == A1 \cup A2 S3 == S2 \cup A3 S4 == S3 \cup A4
  <1>4. /\ given = S4 \cup A5 /\ S4 \cap A5 = {}
        /\ S3 \cap A4 = {} /\ S2 \cap A3 = {} /\ A1 \cap A2 = {}
    OBVIOUS
  <1> HIDE DEF c, A1, A2, A3, A4, A5
  <1>5. Cardinality(given) = Cardinality(S4) + Cardinality(A5) /\ IsFiniteSet(S4)
    <2> HIDE DEF given, S4
    <2> QED BY <1>3, <1>4, TwoParts
  <1>6. Cardinality(S4) = Cardinality(S3) + Cardinality(A4) /\ IsFiniteSet(S3)
    <2>1. S4 = S3 \cup A4
      OBVIOUS
    <2> HIDE DEF given, S3, S4
    <2> QED BY <1>4, <1>5, <2>1, TwoParts
  <1>7. Cardinality(S3) = Cardinality(S2) + Cardinality(A3) /\ IsFiniteSet(S2)
    <2> HIDE DEF given, S2
    <2> QED BY <1>4, <1>6, TwoParts
  <1>8. Cardinality(S2) = Cardinality(A1) + Cardinality(A2)
    <2> HIDE DEF given
    <2> QED BY <1>4, <1>7, TwoParts
  <1>9. /\ c[1] = Cardinality(A1) /\ c[2] = Cardinality(A2) /\ c[3] = Cardinality(A3)
        /\ c[4] = Cardinality(A4) /\ c[5] = Cardinality(A5)
    BY <1>1 DEF A1, A2, A3, A4, A5
  <1>10. Cardinality(given) = c[1] + c[2] + c[3] + c[4] + c[5]
    <2>1. /\ Cardinality(A1) \in Nat /\ Cardinality(A2) \in Nat /\ Cardinality(A3) \in Nat
          /\ Cardinality(A4) \in Nat /\ Cardinality(A5) \in Nat
      BY <1>2 DEF A1, A2, A3, A4, A5
    <2> HIDE DEF given, S2, S3, S4
    <2> QED BY <2>1, <1>5, <1>6, <1>7, <1>8, <1>9
  <1>11. Cardinality(given) \in Nat
    BY <1>3, FS_CardinalityType
  <1>12. c \in [1..5 -> Nat] /\ \A s \in 1..5 : c[s] = Cardinality(At(s))
    BY <1>1, <1>2
  <1> QED BY <1>3, <1>10, <1>11, <1>12 DEF Metrics!Number, c, At

\* The counts of the parts add to those of the whole.
LEMMA CountsSplit ==
    ASSUME NEW D, IsFiniteSet(D), NEW score \in [D -> 0..5],
           NEW U \in SUBSET D, NEW V \in SUBSET D, U \cap V = {}
    PROVE  \A s \in 1..5 : Metrics!Counts(score, U \cup V)[s] =
                Metrics!Counts(score, U)[s] + Metrics!Counts(score, V)[s]
  <1> TAKE s \in 1..5
  <1> DEFINE At(W) == {n \in W : score[n] = s}
  <1>1. /\ Metrics!Counts(score, U \cup V)[s] = Cardinality(At(U \cup V))
        /\ Metrics!Counts(score, U)[s] = Cardinality(At(U))
        /\ Metrics!Counts(score, V)[s] = Cardinality(At(V))
    BY MetricsSame DEF Metrics!Counts
  <1>2. At(U \cup V) = At(U) \cup At(V) /\ At(U) \cap At(V) = {} /\ At(U \cup V) \in SUBSET D
    OBVIOUS
  <1> DEFINE all == At(U \cup V)
             us == At(U)
             vs == At(V)
  <1>3. IsFiniteSet(all)
    <2>1. all \in SUBSET D
      BY <1>2
    <2> HIDE DEF all
    <2> QED BY <2>1, FS_Subset
  <1>4. Cardinality(all) = Cardinality(us) + Cardinality(vs)
    <2>1. all = us \cup vs /\ us \cap vs = {}
      BY <1>2
    <2> HIDE DEF all, us, vs
    <2> QED BY <1>3, <2>1, TwoParts
  <1> QED BY <1>1, <1>4

\* The sum of the scores, and what a mean is.
PointsOf(c) == c[1] + 2 * c[2] + 3 * c[3] + 4 * c[4] + 5 * c[5]

LEMMA MeanRange ==
    ASSUME NEW c \in [1..5 -> Nat]
    PROVE  /\ Metrics!Number(c) \in Nat /\ PointsOf(c) \in Nat /\ Metrics!Mean(c) \in Nat
           /\ Metrics!Number(c) = 0 => Metrics!Mean(c) = 0 /\ \A s \in 1..5 : c[s] = 0
           /\ Metrics!Number(c) # 0 =>
                /\ Metrics!Mean(c) = Metrics!Round(10 * PointsOf(c), Metrics!Number(c))
                /\ 10 <= Metrics!Mean(c) /\ Metrics!Mean(c) <= 50
  <1>1. /\ c[1] \in Nat /\ c[2] \in Nat /\ c[3] \in Nat /\ c[4] \in Nat /\ c[5] \in Nat
    OBVIOUS
  <1>2. Metrics!Number(c) = c[1] + c[2] + c[3] + c[4] + c[5]
    BY DEF Metrics!Number
  <1>3. /\ Metrics!Number(c) \in Nat /\ PointsOf(c) \in Nat
        /\ Metrics!Number(c) <= PointsOf(c) /\ PointsOf(c) <= 5 * Metrics!Number(c)
    BY <1>1, <1>2 DEF PointsOf
  <1>4. Metrics!Mean(c) = IF Metrics!Number(c) = 0 THEN 0
                          ELSE Metrics!Round(10 * PointsOf(c), Metrics!Number(c))
    BY DEF Metrics!Mean, PointsOf
  <1>5. CASE Metrics!Number(c) = 0
    <2>1. \A s \in 1..5 : c[s] = 0
      <3>1. c[1] = 0 /\ c[2] = 0 /\ c[3] = 0 /\ c[4] = 0 /\ c[5] = 0
        BY <1>1, <1>2, <1>5
      <3> QED BY <3>1
    <2> QED BY <1>3, <1>4, <1>5, <2>1
  <1>6. CASE Metrics!Number(c) # 0
    <2> DEFINE n == Metrics!Number(c)
               p == 10 * PointsOf(c)
    <2>0. PICK u \in Nat \ {0} : u = 1
      OBVIOUS
    <2>1. n \in Nat \ {0} /\ p \in Nat /\ 10 * n <= p * u /\ p * u <= 50 * n
      BY <1>3, <1>6, <2>0
    <2> HIDE DEF n, p
    <2>2. Metrics!Round(10, u) <= Metrics!Round(p, n) /\ Metrics!Round(p, n) \in Nat
      BY <2>1, RoundMonotone
    <2>3. Metrics!Round(p, n) <= Metrics!Round(50, u)
      BY <2>1, RoundMonotone
    <2>4. Metrics!Round(10, u) = 10 /\ Metrics!Round(50, u) = 50
      BY <2>0 DEF Metrics!Round
    <2>5. 10 <= Metrics!Round(p, n) /\ Metrics!Round(p, n) <= 50
      BY <2>2, <2>3, <2>4
    <2> QED BY <1>3, <1>4, <1>6, <2>2, <2>5 DEF n, p
  <1> QED BY <1>5, <1>6

\* The mean of two parts lies between theirs.
LEMMA MeanOfParts ==
    ASSUME NEW a \in [1..5 -> Nat], NEW b \in [1..5 -> Nat], NEW c \in [1..5 -> Nat],
           \A s \in 1..5 : c[s] = a[s] + b[s]
    PROVE  /\ Metrics!Number(c) = Metrics!Number(a) + Metrics!Number(b)
           /\ Metrics!Number(b) = 0 => Metrics!Mean(c) = Metrics!Mean(a)
           /\ Metrics!Number(a) = 0 => Metrics!Mean(c) = Metrics!Mean(b)
           /\ Metrics!Number(a) # 0 /\ Metrics!Number(b) # 0 =>
                \/ Metrics!Mean(a) <= Metrics!Mean(c) /\ Metrics!Mean(c) <= Metrics!Mean(b)
                \/ Metrics!Mean(b) <= Metrics!Mean(c) /\ Metrics!Mean(c) <= Metrics!Mean(a)
  <1>1. /\ a[1] \in Nat /\ a[2] \in Nat /\ a[3] \in Nat /\ a[4] \in Nat /\ a[5] \in Nat
        /\ b[1] \in Nat /\ b[2] \in Nat /\ b[3] \in Nat /\ b[4] \in Nat /\ b[5] \in Nat
        /\ c[1] = a[1] + b[1] /\ c[2] = a[2] + b[2] /\ c[3] = a[3] + b[3]
        /\ c[4] = a[4] + b[4] /\ c[5] = a[5] + b[5]
    OBVIOUS
  <1>2. Metrics!Number(c) = Metrics!Number(a) + Metrics!Number(b)
    BY <1>1 DEF Metrics!Number
  <1>3. PointsOf(c) = PointsOf(a) + PointsOf(b)
    BY <1>1 DEF PointsOf
  <1>4. ASSUME Metrics!Number(b) = 0 PROVE Metrics!Mean(c) = Metrics!Mean(a)
    <2>1. PointsOf(b) = 0
      BY <1>4, MeanRange DEF PointsOf
    <2>2. PointsOf(c) = PointsOf(a) /\ Metrics!Number(c) = Metrics!Number(a)
      BY <1>2, <1>3, <1>4, <2>1, MeanRange
    <2> QED BY <2>2, MeanRange
  <1>5. ASSUME Metrics!Number(a) = 0 PROVE Metrics!Mean(c) = Metrics!Mean(b)
    <2>1. PointsOf(a) = 0
      BY <1>5, MeanRange DEF PointsOf
    <2>2. PointsOf(c) = PointsOf(b) /\ Metrics!Number(c) = Metrics!Number(b)
      BY <1>2, <1>3, <1>5, <2>1, MeanRange
    <2> QED BY <2>2, MeanRange
  <1>6. ASSUME Metrics!Number(a) # 0, Metrics!Number(b) # 0
        PROVE  \/ Metrics!Mean(a) <= Metrics!Mean(c) /\ Metrics!Mean(c) <= Metrics!Mean(b)
               \/ Metrics!Mean(b) <= Metrics!Mean(c) /\ Metrics!Mean(c) <= Metrics!Mean(a)
    <2> DEFINE p == 10 * PointsOf(a)
               q == 10 * PointsOf(b)
               m == Metrics!Number(a)
               n == Metrics!Number(b)
    <2>1. p \in Nat /\ q \in Nat /\ m \in Nat \ {0} /\ n \in Nat \ {0} /\ m + n \in Nat \ {0}
      BY <1>6, MeanRange
    <2>2. /\ Metrics!Mean(a) = Metrics!Round(p, m) /\ Metrics!Mean(b) = Metrics!Round(q, n)
          /\ Metrics!Mean(c) = Metrics!Round(p + q, m + n)
      <3>1. 10 * PointsOf(c) = p + q /\ Metrics!Number(c) = m + n /\ Metrics!Number(c) # 0
        BY <1>2, <1>3, <2>1, MeanRange
      <3> QED BY <1>6, <3>1, MeanRange
    <2> HIDE DEF p, q, m, n
    <2>3. /\ p * (m + n) = p * m + p * n /\ (p + q) * m = p * m + q * m
          /\ (p + q) * n = p * n + q * n /\ q * (m + n) = q * m + q * n
          /\ p * m \in Nat /\ p * n \in Nat /\ q * m \in Nat /\ q * n \in Nat
      BY <2>1
    <2>4. p + q \in Nat
      BY <2>1
    <2>5. CASE p * n <= q * m
      <3>1. p * (m + n) <= (p + q) * m /\ (p + q) * n <= q * (m + n)
        BY <2>3, <2>5
      <3> QED BY <2>1, <2>2, <2>4, <3>1, RoundMonotone
    <2>6. CASE q * m <= p * n
      <3>1. (p + q) * m <= p * (m + n) /\ q * (m + n) <= (p + q) * n
        BY <2>3, <2>6
      <3> QED BY <2>1, <2>2, <2>4, <3>1, RoundMonotone
    <2> QED BY <2>3, <2>5, <2>6
  <1> QED BY <1>2, <1>4, <1>5, <1>6

-----------------------------------------------------------------------------
(* What is read off a sheet                                                *)

\* What a sheet of answers gives.
LEMMA SheetHas ==
    ASSUME Metrics!TypeOK
    PROVE  /\ Len(sheet) \in Nat /\ DOMAIN sheet = 1..Len(sheet) /\ IsFiniteSet(DOMAIN sheet)
           /\ \A n \in DOMAIN sheet :
                /\ sheet[n].intent \in 0..5 /\ sheet[n].scale \in 0..5
                /\ sheet[n].group \in {"A", "B"} /\ sheet[n].numbers \in Seq(Nat)
                /\ sheet[n].pros \in SUBSET (1..5) /\ sheet[n].cons \in SUBSET (1..4)
                /\ sheet[n].channels \in Seq(1..5)
                /\ sheet[n].intent = 0 => /\ sheet[n].scale = 0 /\ sheet[n].numbers = <<>>
                                          /\ sheet[n].pros = {} /\ sheet[n].cons = {}
           /\ Metrics!IntentOf(sheet) \in [DOMAIN sheet -> 0..5]
           /\ Metrics!ScaleOf(sheet) \in [DOMAIN sheet -> 0..5]
           /\ \A n \in DOMAIN sheet : /\ Metrics!IntentOf(sheet)[n] = sheet[n].intent
                                      /\ Metrics!ScaleOf(sheet)[n] = sheet[n].scale
  <1>1. sheet \in Seq(Metrics!AnswerType)
    BY DEF Metrics!TypeOK
  <1>2. Len(sheet) \in Nat /\ DOMAIN sheet = 1..Len(sheet)
    BY <1>1, LenProperties
  <1>3. IsFiniteSet(DOMAIN sheet)
    BY <1>2, FS_Interval
  <1>4. ASSUME NEW n \in DOMAIN sheet
        PROVE  /\ sheet[n].intent \in 0..5 /\ sheet[n].scale \in 0..5
               /\ sheet[n].group \in {"A", "B"} /\ sheet[n].numbers \in Seq(Nat)
               /\ sheet[n].pros \in SUBSET (1..5) /\ sheet[n].cons \in SUBSET (1..4)
               /\ sheet[n].channels \in Seq(1..5)
               /\ sheet[n].intent = 0 => /\ sheet[n].scale = 0 /\ sheet[n].numbers = <<>>
                                         /\ sheet[n].pros = {} /\ sheet[n].cons = {}
    <2>1. sheet[n] \in Metrics!AnswerType
      BY <1>1, <1>2, <1>4, ElementOfSeq
    <2> DEFINE a == sheet[n]
    <2> HIDE DEF a
    <2>2. /\ a \in [intent : 0..5, group : {"A", "B"}, scale : 0..5, numbers : Seq(Nat),
                    pros : SUBSET (1..5), cons : SUBSET (1..4), channels : Seq(1..5)]
          /\ a.intent = 0 => a.scale = 0 /\ a.numbers = <<>> /\ a.pros = {} /\ a.cons = {}
      BY <2>1 DEF Metrics!AnswerType, a
    <2>3. /\ a.intent \in 0..5 /\ a.scale \in 0..5 /\ a.group \in {"A", "B"}
          /\ a.numbers \in Seq(Nat) /\ a.pros \in SUBSET (1..5) /\ a.cons \in SUBSET (1..4)
          /\ a.channels \in Seq(1..5)
      BY <2>2
    <2> QED BY <2>2, <2>3 DEF a
  <1>5. /\ Metrics!IntentOf(sheet) = [n \in DOMAIN sheet |-> sheet[n].intent]
        /\ Metrics!ScaleOf(sheet) = [n \in DOMAIN sheet |-> sheet[n].scale]
    BY DEF Metrics!IntentOf, Metrics!ScaleOf
  <1> QED BY <1>2, <1>3, <1>4, <1>5

\* The answers of the two groups are the sheet.
LEMMA GroupParts ==
    ASSUME Metrics!TypeOK
    PROVE  /\ Metrics!Groups(sheet) \in SUBSET {"A", "B"}
           /\ \A g \in {"A", "B"} :
                /\ Metrics!GroupIntents(sheet, g) \in [1..5 -> Nat]
                /\ Metrics!GroupScales(sheet, g) \in [1..5 -> Nat]
                /\ Metrics!Number(Metrics!GroupIntents(sheet, g)) = 0
                     <=> \A n \in DOMAIN sheet : sheet[n].group = g => sheet[n].intent = 0
                /\ Metrics!Number(Metrics!GroupScales(sheet, g)) = 0
                     <=> \A n \in DOMAIN sheet : sheet[n].group = g => sheet[n].scale = 0
           /\ Metrics!Distribution(sheet) \in [1..5 -> Nat]
           /\ \A s \in 1..5 : Metrics!Distribution(sheet)[s] =
                 Metrics!GroupIntents(sheet, "A")[s] + Metrics!GroupIntents(sheet, "B")[s]
           /\ Metrics!Counts(Metrics!ScaleOf(sheet), DOMAIN sheet) \in [1..5 -> Nat]
           /\ \A s \in 1..5 : Metrics!Counts(Metrics!ScaleOf(sheet), DOMAIN sheet)[s] =
                 Metrics!GroupScales(sheet, "A")[s] + Metrics!GroupScales(sheet, "B")[s]
  <1> DEFINE D == DOMAIN sheet
             I == Metrics!IntentOf(sheet)
             S == Metrics!ScaleOf(sheet)
             Of(g) == {n \in D : sheet[n].group = g}
  <1>1. \A g : Metrics!OfGroup(sheet, g) = Of(g)
    BY DEF Metrics!OfGroup
  <1>2. \A g : /\ Metrics!GroupIntents(sheet, g) = Metrics!Counts(I, Of(g))
               /\ Metrics!GroupScales(sheet, g) = Metrics!Counts(S, Of(g))
    BY <1>1 DEF Metrics!GroupIntents, Metrics!GroupScales
  <1>3. /\ IsFiniteSet(D) /\ I \in [D -> 0..5] /\ S \in [D -> 0..5]
        /\ \A n \in D : I[n] = sheet[n].intent /\ S[n] = sheet[n].scale
        /\ \A n \in D : sheet[n].group \in {"A", "B"}
    BY SheetHas
  <1>4. Metrics!Groups(sheet) \in SUBSET {"A", "B"}
    BY <1>3 DEF Metrics!Groups
  <1>5. ASSUME NEW f \in [D -> 0..5], NEW g \in {"A", "B"}
        PROVE  /\ Metrics!Counts(f, Of(g)) \in [1..5 -> Nat]
               /\ Metrics!Number(Metrics!Counts(f, Of(g))) = 0
                    <=> \A n \in D : sheet[n].group = g => f[n] = 0
    <2>1. PICK W \in SUBSET D : W = Of(g)
      OBVIOUS
    <2> DEFINE given == {n \in W : f[n] # 0}
    <2>2. /\ Metrics!Counts(f, W) \in [1..5 -> Nat]
          /\ IsFiniteSet(given) /\ Metrics!Number(Metrics!Counts(f, W)) = Cardinality(given)
      <3>1. IsFiniteSet(D) /\ f \in [D -> 0..5] /\ W \in SUBSET D
        BY <1>3, <1>5
      <3> HIDE DEF D
      <3>2. LET c == Metrics!Counts(f, W)
                some == {n \in W : f[n] # 0}
            IN  /\ c \in [1..5 -> Nat]
                /\ \A s \in 1..5 : c[s] = Cardinality({n \in W : f[n] = s})
                /\ IsFiniteSet(some) /\ Metrics!Number(c) = Cardinality(some)
                /\ Cardinality(some) \in Nat
        BY <3>1, CountsAre, Zenon
      <3> QED BY <3>2
    <2>3. Cardinality(given) = 0 <=> given = {}
      <3> HIDE DEF given
      <3> QED BY <2>2, FS_EmptySet
    <2>4. given = {} <=> \A n \in D : sheet[n].group = g => f[n] = 0
      BY <2>1
    <2> QED BY <2>1, <2>2, <2>3, <2>4
  <1>6. ASSUME NEW f \in [D -> 0..5]
        PROVE  /\ Metrics!Counts(f, D) \in [1..5 -> Nat]
               /\ \A s \in 1..5 : Metrics!Counts(f, D)[s] =
                    Metrics!Counts(f, Of("A"))[s] + Metrics!Counts(f, Of("B"))[s]
    <2>1. PICK U \in SUBSET D : U = Of("A")
      OBVIOUS
    <2>2. PICK V \in SUBSET D : V = Of("B")
      OBVIOUS
    <2>3. U \cup V = D /\ U \cap V = {}
      BY <1>3, <2>1, <2>2
    <2>4. D \in SUBSET D
      OBVIOUS
    <2>5. Metrics!Counts(f, D) \in [1..5 -> Nat]
      BY <1>3, <1>6, <2>4, CountsAre
    <2> HIDE DEF D
    <2>6. \A s \in 1..5 : Metrics!Counts(f, U \cup V)[s] =
                Metrics!Counts(f, U)[s] + Metrics!Counts(f, V)[s]
      BY <1>3, <1>6, <2>3, CountsSplit
    <2> QED BY <2>1, <2>2, <2>3, <2>5, <2>6
  <1>7. Metrics!Distribution(sheet) = Metrics!Counts(I, D)
    BY DEF Metrics!Distribution
  <1>8. ASSUME NEW g \in {"A", "B"}
        PROVE  /\ Metrics!GroupIntents(sheet, g) \in [1..5 -> Nat]
               /\ Metrics!GroupScales(sheet, g) \in [1..5 -> Nat]
               /\ Metrics!Number(Metrics!GroupIntents(sheet, g)) = 0
                    <=> \A n \in D : sheet[n].group = g => sheet[n].intent = 0
               /\ Metrics!Number(Metrics!GroupScales(sheet, g)) = 0
                    <=> \A n \in D : sheet[n].group = g => sheet[n].scale = 0
    <2> HIDE DEF I, S, D
    <2>1. /\ Metrics!Counts(I, Of(g)) \in [1..5 -> Nat] /\ Metrics!Counts(S, Of(g)) \in [1..5 -> Nat]
          /\ Metrics!Number(Metrics!Counts(I, Of(g))) = 0
               <=> \A n \in D : sheet[n].group = g => I[n] = 0
          /\ Metrics!Number(Metrics!Counts(S, Of(g))) = 0
               <=> \A n \in D : sheet[n].group = g => S[n] = 0
      BY <1>3, <1>5, <1>8
    <2> HIDE DEF Of
    <2> QED BY <1>2, <1>3, <2>1
  <1>9. /\ Metrics!Counts(I, D) \in [1..5 -> Nat]
        /\ \A s \in 1..5 : Metrics!Counts(I, D)[s] =
                    Metrics!Counts(I, Of("A"))[s] + Metrics!Counts(I, Of("B"))[s]
    BY <1>3, <1>6
  <1>10. /\ Metrics!Counts(S, D) \in [1..5 -> Nat]
         /\ \A s \in 1..5 : Metrics!Counts(S, D)[s] =
                    Metrics!Counts(S, Of("A"))[s] + Metrics!Counts(S, Of("B"))[s]
    BY <1>3, <1>6
  <1> HIDE DEF Of
  <1>11. /\ Metrics!Distribution(sheet) \in [1..5 -> Nat]
         /\ \A s \in 1..5 : Metrics!Distribution(sheet)[s] =
               Metrics!GroupIntents(sheet, "A")[s] + Metrics!GroupIntents(sheet, "B")[s]
    BY <1>2, <1>7, <1>9
  <1>12. /\ Metrics!Counts(S, D) \in [1..5 -> Nat]
         /\ \A s \in 1..5 : Metrics!Counts(S, D)[s] =
               Metrics!GroupScales(sheet, "A")[s] + Metrics!GroupScales(sheet, "B")[s]
    BY <1>2, <1>10
  <1> QED BY <1>4, <1>8, <1>11, <1>12

\* The shares of high and low intent fit into the whole.
LEMMA SharesAlwaysFit == Metrics!TypeOK => Metrics!SharesFit
  <1> SUFFICES ASSUME Metrics!TypeOK PROVE Metrics!SharesFit
    OBVIOUS
  <1> DEFINE d == Metrics!Distribution(sheet)
             n == Metrics!Number(d)
             x == d[4] + d[5]
             y == d[1] + d[2] + d[3]
             z == d[1] + d[2]
  <1>1. d \in [1..5 -> Nat]
    BY GroupParts
  <1>2. d[1] \in Nat /\ d[2] \in Nat /\ d[3] \in Nat /\ d[4] \in Nat /\ d[5] \in Nat
    BY <1>1
  <1>3. n = d[1] + d[2] + d[3] + d[4] + d[5]
    BY DEF Metrics!Number
  <1>4. /\ Metrics!Shares(sheet).top = Metrics!Percent(d[5], n)
        /\ Metrics!Shares(sheet).top2 = Metrics!Percent(x, n)
        /\ Metrics!Shares(sheet).bottom2 = Metrics!Percent(z, n)
    BY DEF Metrics!Shares
  <1> DEFINE w == d[5]
  <1>5. x \in Nat /\ y \in Nat /\ z \in Nat /\ w \in Nat /\ n \in Nat /\ x + y = n /\ z <= y /\ w <= x
    BY <1>2, <1>3
  <1> HIDE DEF d, n, x, y, z, w
  <1>6. CASE n = 0
    BY <1>4, <1>6 DEF Metrics!Percent, Metrics!SharesFit
  <1>7. CASE n # 0
    <2>1. /\ Metrics!Percent(w, n) = Metrics!Round(100 * w, n)
          /\ Metrics!Percent(x, n) = Metrics!Round(100 * x, n)
          /\ Metrics!Percent(z, n) = Metrics!Round(100 * z, n)
      BY <1>7 DEF Metrics!Percent
    <2>2. Metrics!Round(100 * x, n) + Metrics!Round(100 * y, n) = 100
      BY <1>5, <1>7, SharesOfAll
    <2> DEFINE X == 100 * x Y == 100 * y Z == 100 * z W == 100 * w
    <2>3. X \in Nat /\ Y \in Nat /\ Z \in Nat /\ W \in Nat /\ Z <= Y /\ W <= X /\ n \in Nat \ {0}
      BY <1>5, <1>7
    <2> HIDE DEF X, Y, Z, W
    <2>4. W * n <= X * n /\ Z * n <= Y * n
      BY <2>3, Products
    <2>5. Metrics!Round(W, n) <= Metrics!Round(X, n)
      BY <2>3, <2>4, RoundMonotone
    <2>6. Metrics!Round(Z, n) <= Metrics!Round(Y, n) /\ Metrics!Round(Z, n) \in Nat
      BY <2>3, <2>4, RoundMonotone
    <2>7. Metrics!Round(X, n) \in Nat /\ Metrics!Round(Y, n) \in Nat
      BY <2>3, RoundMonotone
    <2>8. /\ Metrics!Shares(sheet).top <= Metrics!Shares(sheet).top2
          /\ Metrics!Shares(sheet).top2 + Metrics!Shares(sheet).bottom2 <= 100
      <3>1. Metrics!Round(X, n) + Metrics!Round(Y, n) = 100
        BY <2>2 DEF X, Y
      <3>2. /\ Metrics!Shares(sheet).top = Metrics!Round(W, n)
            /\ Metrics!Shares(sheet).top2 = Metrics!Round(X, n)
            /\ Metrics!Shares(sheet).bottom2 = Metrics!Round(Z, n)
        BY <1>4, <2>1 DEF X, Z, W, w
      <3> QED BY <2>5, <2>6, <2>7, <3>1, <3>2
    <2> QED BY <2>8 DEF Metrics!SharesFit
  <1> QED BY <1>6, <1>7

-----------------------------------------------------------------------------
(* The verdict, the heatmap and the grade                                  *)

\* The overall average lies between the groups', and "go" and "pause" name a group.
LEMMA VerdictAlwaysHasGroup == Metrics!TypeOK => Metrics!VerdictHasGroup
  <1> SUFFICES ASSUME Metrics!TypeOK PROVE Metrics!VerdictHasGroup
    OBVIOUS
  <1> DEFINE seg == Metrics!SegmentIntent(sheet)
             avg == Metrics!Overall(sheet)
             c == Metrics!Distribution(sheet)
             m(g) == Metrics!Mean(Metrics!GroupIntents(sheet, g))
             n(g) == Metrics!Number(Metrics!GroupIntents(sheet, g))
             Of(g) == IF g \in DOMAIN seg THEN seg[g].count ELSE 0
             G == {"A", "B"}
  <1>1. /\ Metrics!Groups(sheet) \in SUBSET G
        /\ \A g \in G : Metrics!GroupIntents(sheet, g) \in [1..5 -> Nat]
        /\ c \in [1..5 -> Nat]
        /\ \A s \in 1..5 : c[s] = Metrics!GroupIntents(sheet, "A")[s] + Metrics!GroupIntents(sheet, "B")[s]
    BY GroupParts
  <1>2. \A g \in G : n(g) = 0 <=> \A k \in DOMAIN sheet : sheet[k].group = g => sheet[k].intent = 0
    BY GroupParts
  <1>3. \A g \in G : n(g) # 0 => g \in Metrics!Groups(sheet)
    BY <1>2 DEF Metrics!Groups
  <1>4. DOMAIN seg = {g \in Metrics!Groups(sheet) : n(g) # 0}
    BY DEF Metrics!SegmentIntent
  <1>5. \A g \in DOMAIN seg : seg[g].count = n(g) /\ seg[g].avg = m(g)
    BY DEF Metrics!SegmentIntent
  <1>6. avg = Metrics!Mean(c)
    BY DEF Metrics!Overall
  <1>7. \A g \in G : g \in DOMAIN seg <=> n(g) # 0
    BY <1>1, <1>3, <1>4
  <1>8. DOMAIN seg \in SUBSET G
    BY <1>1, <1>4
  <1>9. /\ Metrics!Number(c) = n("A") + n("B")
        /\ n("B") = 0 => Metrics!Mean(c) = m("A")
        /\ n("A") = 0 => Metrics!Mean(c) = m("B")
        /\ n("A") # 0 /\ n("B") # 0 =>
             \/ m("A") <= Metrics!Mean(c) /\ Metrics!Mean(c) <= m("B")
             \/ m("B") <= Metrics!Mean(c) /\ Metrics!Mean(c) <= m("A")
    BY <1>1, MeanOfParts
  <1>10. avg \in Nat /\ \A g \in G : n(g) \in Nat /\ m(g) \in Nat
    BY <1>1, <1>6, MeanRange
  <1> HIDE DEF seg, avg, c, m, n
  <1>11. Of("A") = n("A") /\ Of("B") = n("B")
    BY <1>5, <1>7
  <1>12. ASSUME DOMAIN seg # {}
         PROVE  \E g, h \in DOMAIN seg : seg[g].avg <= avg /\ avg <= seg[h].avg
    <2>1. CASE n("A") = 0
      <3>1. "B" \in DOMAIN seg /\ avg = m("B")
        BY <1>6, <1>7, <1>8, <1>9, <1>12, <2>1
      <3> QED BY <1>5, <1>10, <3>1
    <2>2. CASE n("B") = 0
      <3>1. "A" \in DOMAIN seg /\ avg = m("A")
        BY <1>6, <1>7, <1>8, <1>9, <1>12, <2>2
      <3> QED BY <1>5, <1>10, <3>1
    <2>3. CASE n("A") # 0 /\ n("B") # 0
      <3>1. "A" \in DOMAIN seg /\ "B" \in DOMAIN seg
        BY <1>7, <2>3
      <3>2. seg["A"].avg = m("A") /\ seg["B"].avg = m("B")
        BY <1>5, <3>1
      <3>3. \/ m("A") <= avg /\ avg <= m("B")
            \/ m("B") <= avg /\ avg <= m("A")
        BY <1>6, <1>9, <2>3
      <3>4. CASE m("A") <= avg /\ avg <= m("B")
        BY <3>1, <3>2, <3>4
      <3>5. CASE m("B") <= avg /\ avg <= m("A")
        BY <3>1, <3>2, <3>5
      <3> QED BY <3>3, <3>4, <3>5
    <2> QED BY <2>1, <2>2, <2>3
  <1>13. ASSUME DOMAIN seg # {}, Metrics!Verdict(avg) = "go"
         PROVE  \E g \in Metrics!Audience(sheet).likely : g \in DOMAIN seg /\ seg[g].avg >= 40
    <2>1. avg >= 40
      BY <1>10, <1>13 DEF Metrics!Verdict
    <2>2. PICK h \in DOMAIN seg : avg <= seg[h].avg
      BY <1>12, <1>13
    <2>3. seg[h].avg \in Nat
      BY <1>5, <1>8, <1>10
    <2>4. seg[h].avg >= 40
      BY <1>10, <2>1, <2>2, <2>3
    <2>5. h \in Metrics!Audience(sheet).likely
      BY <2>4 DEF Metrics!Audience, seg
    <2> QED BY <2>4, <2>5
  <1>14. ASSUME DOMAIN seg # {}, Metrics!Verdict(avg) = "pause"
         PROVE  \E g \in Metrics!Audience(sheet).unlikely : g \in DOMAIN seg /\ seg[g].avg < 30
    <2>1. avg < 30
      BY <1>10, <1>14 DEF Metrics!Verdict
    <2>2. PICK h \in DOMAIN seg : seg[h].avg <= avg
      BY <1>12, <1>14
    <2>3. seg[h].avg \in Nat
      BY <1>5, <1>8, <1>10
    <2>4. seg[h].avg < 30 /\ seg[h].avg < 40
      BY <1>10, <2>1, <2>2, <2>3
    <2>5. h \in Metrics!Audience(sheet).unlikely
      BY <2>4 DEF Metrics!Audience, seg
    <2> QED BY <2>4, <2>5
  <1>15. Of("A") + Of("B") = Metrics!Number(c)
    BY <1>9, <1>11
  <1> QED BY <1>12, <1>13, <1>14, <1>15 DEF Metrics!VerdictHasGroup, seg, avg, c

\* The radar lies between the cells of the heatmap, and a cell is empty for no answers only.
LEMMA HeatmapAlwaysAgrees == Metrics!TypeOK => Metrics!HeatmapAgrees
  <1> SUFFICES ASSUME Metrics!TypeOK PROVE Metrics!HeatmapAgrees
    OBVIOUS
  <1> DEFINE G == {"A", "B"}
             cell(g) == Metrics!SegmentDimension(sheet, g)
             cells == {cell(g) : g \in Metrics!Groups(sheet)}
             c == Metrics!Counts(Metrics!ScaleOf(sheet), DOMAIN sheet)
             si(g) == Metrics!GroupIntents(sheet, g)
             ss(g) == Metrics!GroupScales(sheet, g)
  <1>1. /\ Metrics!Groups(sheet) \in SUBSET G
        /\ \A g \in G : si(g) \in [1..5 -> Nat] /\ ss(g) \in [1..5 -> Nat]
    BY GroupParts
  <1>2. \A g \in G : Metrics!Number(si(g)) = 0
                        <=> \A n \in DOMAIN sheet : sheet[n].group = g => sheet[n].intent = 0
    BY GroupParts
  <1>3. \A g \in G : Metrics!Number(ss(g)) = 0
                        <=> \A n \in DOMAIN sheet : sheet[n].group = g => sheet[n].scale = 0
    BY GroupParts
  <1>4. c \in [1..5 -> Nat] /\ \A s \in 1..5 : c[s] = ss("A")[s] + ss("B")[s]
    BY GroupParts
  <1>5. Metrics!Radar(sheet) = Metrics!Mean(c)
    BY DEF Metrics!Radar
  <1>6. \A g : cell(g) = IF Metrics!Number(ss(g)) # 0 THEN Metrics!Mean(ss(g))
                         ELSE Metrics!Mean(si(g))
    BY DEF Metrics!SegmentDimension
  <1>7. \A g \in G : g \notin Metrics!Groups(sheet) => Metrics!Number(ss(g)) = 0
    BY <1>3 DEF Metrics!Groups
  <1>8. ASSUME sheet # <<>> PROVE Metrics!Groups(sheet) # {}
    <2>1. Len(sheet) \in Nat /\ DOMAIN sheet = 1..Len(sheet) /\ sheet \in Seq(Metrics!AnswerType)
      BY SheetHas DEF Metrics!TypeOK
    <2>2. 1 \in DOMAIN sheet
      BY <1>8, <2>1, EmptySeq
    <2> QED BY <2>2 DEF Metrics!Groups
  <1> HIDE DEF cell, c, si, ss
  <1>9. ASSUME sheet # <<>>, \A g \in Metrics!Groups(sheet) : Metrics!Number(ss(g)) # 0
        PROVE  Metrics!Radar(sheet) \in Metrics!Min(cells)..Metrics!Max(cells)
    <2> DEFINE a == Metrics!Mean(ss("A"))
               b == Metrics!Mean(ss("B"))
               r == Metrics!Mean(c)
    <2>1. a \in Nat /\ b \in Nat /\ r \in Nat
      BY <1>1, <1>4, MeanRange
    <2>2. /\ Metrics!Number(ss("B")) = 0 => r = a
          /\ Metrics!Number(ss("A")) = 0 => r = b
          /\ Metrics!Number(ss("A")) # 0 /\ Metrics!Number(ss("B")) # 0 =>
                \/ a <= r /\ r <= b
                \/ b <= r /\ r <= a
      BY <1>1, <1>4, MeanOfParts
    <2> HIDE DEF a, b, r
    <2>3. \A g \in Metrics!Groups(sheet) : cell(g) = Metrics!Mean(ss(g))
      BY <1>6, <1>9
    <2>4. CASE "A" \notin Metrics!Groups(sheet)
      <3>1. Metrics!Groups(sheet) = {"B"} /\ Metrics!Number(ss("A")) = 0
        BY <1>1, <1>7, <1>8, <1>9, <2>4
      <3>2. cells = {b, b} /\ r = b
        BY <2>2, <2>3, <3>1 DEF b
      <3>3. Metrics!Min(cells) = b /\ Metrics!Max(cells) = b
        <4>1. Metrics!Min({b, b}) = b /\ Metrics!Max({b, b}) = b
          BY <2>1, MetricsSame
        <4> HIDE DEF cells
        <4> QED BY <3>2, <4>1
      <3> QED BY <1>5, <2>1, <3>2, <3>3 DEF r
    <2>5. CASE "B" \notin Metrics!Groups(sheet)
      <3>1. Metrics!Groups(sheet) = {"A"} /\ Metrics!Number(ss("B")) = 0
        BY <1>1, <1>7, <1>8, <1>9, <2>5
      <3>2. cells = {a, a} /\ r = a
        BY <2>2, <2>3, <3>1 DEF a
      <3>3. Metrics!Min(cells) = a /\ Metrics!Max(cells) = a
        <4>1. Metrics!Min({a, a}) = a /\ Metrics!Max({a, a}) = a
          BY <2>1, MetricsSame
        <4> HIDE DEF cells
        <4> QED BY <3>2, <4>1
      <3> QED BY <1>5, <2>1, <3>2, <3>3 DEF r
    <2>6. CASE Metrics!Groups(sheet) = G
      <3>1. Metrics!Number(ss("A")) # 0 /\ Metrics!Number(ss("B")) # 0
        BY <1>9, <2>6
      <3>2. cells = {a, b}
        BY <2>3, <2>6 DEF a, b
      <3>3. /\ Metrics!Min(cells) = IF a <= b THEN a ELSE b
            /\ Metrics!Max(cells) = IF a <= b THEN b ELSE a
        <4>1. /\ Metrics!Min({a, b}) = IF a <= b THEN a ELSE b
              /\ Metrics!Max({a, b}) = IF a <= b THEN b ELSE a
          BY <2>1, MetricsSame
        <4> HIDE DEF cells
        <4> QED BY <3>2, <4>1
      <3>4. Metrics!Min(cells) <= r /\ r <= Metrics!Max(cells)
        BY <2>1, <2>2, <3>1, <3>3
      <3>5. Metrics!Min(cells) \in Nat /\ Metrics!Max(cells) \in Nat
        BY <2>1, <3>3
      <3> HIDE DEF cells
      <3> QED BY <1>5, <2>1, <3>4, <3>5 DEF r
    <2> QED BY <1>1, <2>4, <2>5, <2>6
  <1>10. ASSUME NEW g \in Metrics!Groups(sheet)
         PROVE  cell(g) = 0 <=> \A n \in DOMAIN sheet :
                    sheet[n].group = g => sheet[n].intent = 0 /\ sheet[n].scale = 0
    <2>1. g \in G
      BY <1>1
    <2>2. si(g) \in [1..5 -> Nat] /\ ss(g) \in [1..5 -> Nat]
      BY <1>1, <2>1
    <2>3. /\ Metrics!Number(si(g)) = 0 <=> Metrics!Mean(si(g)) = 0
          /\ Metrics!Number(ss(g)) = 0 <=> Metrics!Mean(ss(g)) = 0
      <3>1. /\ Metrics!Mean(si(g)) \in Nat
            /\ Metrics!Number(si(g)) = 0 => Metrics!Mean(si(g)) = 0
            /\ Metrics!Number(si(g)) # 0 => 10 <= Metrics!Mean(si(g))
        BY <2>2, MeanRange
      <3>2. /\ Metrics!Mean(ss(g)) \in Nat
            /\ Metrics!Number(ss(g)) = 0 => Metrics!Mean(ss(g)) = 0
            /\ Metrics!Number(ss(g)) # 0 => 10 <= Metrics!Mean(ss(g))
        BY <2>2, MeanRange
      <3> QED BY <3>1, <3>2
    <2>4. cell(g) = 0 <=> Metrics!Number(ss(g)) = 0 /\ Metrics!Number(si(g)) = 0
      BY <1>6, <2>3
    <2>5. /\ Metrics!Number(si(g)) = 0
                <=> \A n \in DOMAIN sheet : sheet[n].group = g => sheet[n].intent = 0
          /\ Metrics!Number(ss(g)) = 0
                <=> \A n \in DOMAIN sheet : sheet[n].group = g => sheet[n].scale = 0
      BY <1>2, <1>3, <2>1
    <2> QED BY <2>4, <2>5
  <1> HIDE DEF cells
  <1>11. (sheet # <<>> /\ \A g \in Metrics!Groups(sheet) : Metrics!Number(ss(g)) # 0)
             => Metrics!Radar(sheet) \in Metrics!Min(cells)..Metrics!Max(cells)
    BY <1>9
  <1>12. \A g \in Metrics!Groups(sheet) :
            cell(g) = 0 <=> \A n \in DOMAIN sheet :
                sheet[n].group = g => sheet[n].intent = 0 /\ sheet[n].scale = 0
    BY <1>10
  <1> QED BY <1>11, <1>12, Zenon DEF Metrics!HeatmapAgrees, cell, cells, ss

\* The grade never contradicts the verdict.
LEMMA GradeAlwaysFits == Metrics!TypeOK => Metrics!GradeFitsVerdict
  <1> SUFFICES ASSUME Metrics!TypeOK, Metrics!Number(Metrics!Distribution(sheet)) # 0
               PROVE  CASE Metrics!Verdict(Metrics!Overall(sheet)) = "go" -> Metrics!Grade(sheet) \in {"S", "A"}
                        [] Metrics!Verdict(Metrics!Overall(sheet)) = "iterate" -> Metrics!Grade(sheet) \in {"A", "B"}
                        [] OTHER -> Metrics!Grade(sheet) \in {"C", "D"}
    BY DEF Metrics!GradeFitsVerdict
  <1> DEFINE avg == Metrics!Overall(sheet)
             v == Metrics!Verdict(avg)
             grade == Metrics!Grade(sheet)
  <1>1. avg \in Nat
    BY GroupParts, MeanRange DEF Metrics!Overall
  <1>2. Metrics!Composite(sheet) = 2 * avg
    BY DEF Metrics!Composite
  <1>3. grade = CASE 2 * avg >= 90 -> "S"
                  [] 2 * avg \in 75..89 -> "A"
                  [] 2 * avg \in 60..74 -> "B"
                  [] 2 * avg \in 45..59 -> "C"
                  [] OTHER -> "D"
    BY <1>2 DEF Metrics!Grade
  <1>4. v = CASE avg >= 40 -> "go" [] avg \in 30..39 -> "iterate" [] OTHER -> "pause"
    BY DEF Metrics!Verdict
  <1> HIDE DEF avg, v, grade
  <1>5. CASE avg >= 40
    <2>1. v = "go" /\ grade \in {"S", "A"}
      BY <1>1, <1>3, <1>4, <1>5
    <2> QED BY <2>1 DEF v, grade, avg
  <1>6. CASE avg \in 30..39
    <2>1. v = "iterate" /\ grade \in {"A", "B"}
      BY <1>1, <1>3, <1>4, <1>6
    <2> QED BY <2>1 DEF v, grade, avg
  <1>7. CASE avg < 30
    <2>1. v = "pause" /\ grade \in {"C", "D"}
      BY <1>1, <1>3, <1>4, <1>7
    <2> QED BY <2>1 DEF v, grade, avg
  <1> QED BY <1>1, <1>5, <1>6, <1>7

-----------------------------------------------------------------------------
(* The themes                                                              *)

\* The first three of a sequence.
LEMMA FirstThreeOf ==
    ASSUME NEW C, NEW s \in Seq(C)
    PROVE  LET t == Metrics!FirstThree(s)
           IN  /\ t \in Seq(C) /\ DOMAIN t = 1..Len(t)
               /\ Len(t) = IF Len(s) <= 3 THEN Len(s) ELSE 3
               /\ Len(t) \in Nat /\ Len(t) <= Len(s)
               /\ \A k \in 1..Len(t) : t[k] = s[k]
  <1> DEFINE n == IF Len(s) <= 3 THEN Len(s) ELSE 3
             t == Metrics!FirstThree(s)
  <1>1. Len(s) \in Nat /\ DOMAIN s = 1..Len(s)
    OBVIOUS
  <1>2. Metrics!Min({3, Len(s)}) = n
    <2>1. Metrics!Min({3, Len(s)}) = IF 3 <= Len(s) THEN 3 ELSE Len(s)
      BY <1>1, MetricsSame
    <2> QED BY <1>1, <2>1
  <1>3. t = SubSeq(s, 1, n)
    BY <1>2 DEF Metrics!FirstThree
  <1>4. n \in Nat /\ n <= Len(s)
    BY <1>1
  <1> HIDE DEF n, t
  <1>5. t = [k \in 1..n |-> s[k]]
    BY <1>1, <1>3, <1>4
  <1>6. \A k \in 1..n : s[k] \in C
    BY <1>1, <1>4
  <1>7. t \in Seq(C) /\ Len(t) = n /\ DOMAIN t = 1..n
    BY <1>4, <1>5, <1>6
  <1> QED BY <1>4, <1>5, <1>7 DEF n, t

\* An item: its support is how many answers it rests on, and it quotes the first three.
LEMMA ItemIs ==
    ASSUME Metrics!TypeOK, NEW t \in 0..5, NEW W \in SUBSET (DOMAIN sheet)
    PROVE  LET i == Metrics!Item(sheet, t, W)
           IN  /\ i \in Metrics!ItemType /\ i.theme = t /\ i.support = Cardinality(W)
               /\ Cardinality(W) \in Nat /\ IsFiniteSet(W)
               /\ Len(i.quotes) = IF Cardinality(W) <= 3 THEN Cardinality(W) ELSE 3
               /\ DOMAIN i.quotes = 1..Len(i.quotes)
               /\ \A k \in DOMAIN i.quotes : i.quotes[k] \in W
  <1> DEFINE D == DOMAIN sheet
             places == [n \in D |-> n]
             kept == Only(places, W)
             q == Metrics!FirstThree(kept)
             i == Metrics!Item(sheet, t, W)
  <1>1. Len(sheet) \in Nat /\ D = 1..Len(sheet) /\ IsFiniteSet(D)
    BY SheetHas
  <1>2. IsFiniteSet(W) /\ Cardinality(W) \in Nat
    <2> HIDE DEF D
    <2> QED BY <1>1, FS_Subset, FS_CardinalityType
  <1>3. i = [theme |-> t, support |-> Cardinality(W), quotes |-> q]
    BY MetricsSame DEF Metrics!Item
  <1>4. places \in Seq(Nat) /\ Len(places) = Len(sheet)
    BY <1>1
  <1>5. Once(places) /\ Members(places) = D
    BY DEF Once, Members
  <1> HIDE DEF places
  <1>6. kept \in Seq(Nat) /\ Once(kept) /\ Members(kept) = D \cap W
    BY <1>4, <1>5, OnlyOnce
  <1>7. Members(kept) = W
    BY <1>6
  <1> HIDE DEF kept, D
  <1>8. Len(kept) = Cardinality(W)
    BY <1>6, <1>7, OnceSize
  <1>9. /\ q \in Seq(Nat) /\ DOMAIN q = 1..Len(q)
        /\ Len(q) = IF Len(kept) <= 3 THEN Len(kept) ELSE 3
        /\ Len(q) \in Nat /\ Len(q) <= Len(kept)
        /\ \A k \in 1..Len(q) : q[k] = kept[k]
    BY <1>6, FirstThreeOf
  <1>10. \A k \in DOMAIN q : q[k] \in W
    <2>1. DOMAIN kept = 1..Len(kept) /\ Len(kept) \in Nat
      BY <1>6
    <2>2. \A k \in 1..Len(kept) : kept[k] \in Members(kept)
      BY <2>1 DEF Members
    <2> QED BY <1>7, <1>9, <2>1, <2>2
  <1> HIDE DEF q
  <1>11. i \in Metrics!ItemType
    BY <1>2, <1>3, <1>9 DEF Metrics!ItemType
  <1>12. i.theme = t /\ i.support = Cardinality(W) /\ i.quotes = q
    BY <1>3
  <1> HIDE DEF i
  <1> QED BY <1>2, <1>8, <1>9, <1>10, <1>11, <1>12 DEF i

\* The answers an item rests on.
LEMMA SupportersAre ==
    ASSUME Metrics!TypeOK, NEW p \in BOOLEAN, NEW t \in Metrics!Themes(p)
    PROVE  /\ t \in 1..5
           /\ Metrics!Supporters(sheet, p, t) \in SUBSET (DOMAIN sheet)
           /\ Metrics!Support(sheet, p, t) = Cardinality(Metrics!Supporters(sheet, p, t))
           /\ Metrics!Support(sheet, p, t) \in Nat
           /\ \A n \in Metrics!Supporters(sheet, p, t) :
                sheet[n].intent # 0 /\ t \in Metrics!Mentions(sheet[n], p)
  <1> DEFINE W == Metrics!Supporters(sheet, p, t)
  <1>1. t \in 1..5
    BY DEF Metrics!Themes
  <1>2. W \in SUBSET (DOMAIN sheet)
    BY DEF Metrics!Supporters
  <1>3. \A n \in W : t \in Metrics!Mentions(sheet[n], p)
    BY DEF Metrics!Supporters
  <1>4. \A n \in W : sheet[n].intent # 0
    BY <1>2, <1>3, SheetHas DEF Metrics!Mentions
  <1>5. Metrics!Support(sheet, p, t) = Cardinality(W)
    BY MetricsSame DEF Metrics!Support
  <1> HIDE DEF W
  <1>6. IsFiniteSet(W) /\ Cardinality(W) \in Nat
    BY <1>2, SheetHas, FS_Subset, FS_CardinalityType
  <1> QED BY <1>1, <1>2, <1>3, <1>4, <1>5, <1>6 DEF W

LEMMA FallbackIs ==
    ASSUME Metrics!TypeOK, NEW p \in BOOLEAN
    PROVE  LET W == Metrics!Fallback(sheet, p)
           IN  /\ W \in SUBSET (DOMAIN sheet)
               /\ sheet # <<>> => W # {}
               /\ (\A n \in W : sheet[n].intent # 0) \/ \E n : W = {n}
  <1> DEFINE W == Metrics!Fallback(sheet, p)
             fits == {n \in DOMAIN sheet : sheet[n].intent # 0 /\
                        IF p THEN sheet[n].intent >= 4 ELSE sheet[n].intent <= 3}
             end == IF p THEN 1 ELSE Len(sheet)
  <1>1. W = IF fits # {} \/ sheet = <<>> THEN fits ELSE {end}
    BY DEF Metrics!Fallback
  <1>2. Len(sheet) \in Nat /\ DOMAIN sheet = 1..Len(sheet) /\ sheet \in Seq(Metrics!AnswerType)
    BY SheetHas DEF Metrics!TypeOK
  <1>3. sheet # <<>> => end \in DOMAIN sheet
    BY <1>2, EmptySeq
  <1>4. fits \in SUBSET (DOMAIN sheet) /\ \A n \in fits : sheet[n].intent # 0
    OBVIOUS
  <1> HIDE DEF W, fits, end
  <1> QED BY <1>1, <1>3, <1>4 DEF W

\* The themes a report lists.
LEMMA ThemesAre ==
    ASSUME Metrics!TypeOK, NEW p \in BOOLEAN
    PROVE  LET top == Metrics!TopThemes(sheet, p)
           IN  /\ top \in Seq(Metrics!Themes(p)) /\ DOMAIN top = 1..Len(top)
               /\ Len(top) \in Nat /\ Len(top) <= 3
               /\ \A k \in DOMAIN top : Metrics!Support(sheet, p, top[k]) > 0
               /\ \A t \in Metrics!Themes(p), k \in DOMAIN top :
                    \/ Metrics!Support(sheet, p, t) <= Metrics!Support(sheet, p, top[k])
                    \/ \E j \in DOMAIN top : top[j] = t
  <1> DEFINE T == Metrics!Themes(p)
             s == [t \in T |-> Metrics!Support(sheet, p, t)]
             M == {t \in T : s[t] > 0}
             R == {x \in M \X M : s[x[1]] > s[x[2]] \/ (s[x[1]] = s[x[2]] /\ x[1] < x[2])}
             r == Metrics!Ranked(M, R)
             top == Metrics!TopThemes(sheet, p)
             c == Cardinality(M)
  <1>1. T \in SUBSET (1..5)
    BY DEF Metrics!Themes
  <1>2. \A t \in T : s[t] = Metrics!Support(sheet, p, t) /\ s[t] \in Nat
    BY SupportersAre
  <1>3. top = Metrics!FirstThree(r)
    BY DEF Metrics!TopThemes
  <1> HIDE DEF s, T
  <1>4. IsFiniteSet(M)
    <2>1. PICK h \in Int : h = 5
      OBVIOUS
    <2>2. IsFiniteSet(1..h)
      BY FS_Interval
    <2>3. M \in SUBSET (1..h)
      BY <1>1, <2>1
    <2> HIDE DEF M
    <2> QED BY <2>2, <2>3, FS_Subset
  <1>5. \A x, y \in M : <<x, y>> \in R <=> (s[x] > s[y] \/ (s[x] = s[y] /\ x < y))
    OBVIOUS
  <1>6. \A x \in M : x \in T /\ x \in Int /\ s[x] \in Nat /\ s[x] > 0
    BY <1>1, <1>2
  <1> HIDE DEF M, R
  <1>7. IsOrderOf(R, M)
    <2>1. \A x \in M : <<x, x>> \notin R
      BY <1>5, <1>6
    <2>2. \A x, y \in M : x # y => <<x, y>> \in R \/ <<y, x>> \in R
      BY <1>5, <1>6
    <2>3. \A x, y, z \in M : <<x, y>> \in R /\ <<y, z>> \in R => <<x, z>> \in R
      BY <1>5, <1>6
    <2> QED BY <2>1, <2>2, <2>3 DEF IsOrderOf
  <1>8. /\ r \in Seq(M) /\ Len(r) = c /\ c \in Nat
        /\ \A x \in M : \E k \in 1..c : r[k] = x
        /\ \A j, k \in 1..c : j < k => <<r[j], r[k]>> \in R
    BY <1>4, <1>7, RankedInOrder
  <1>9. /\ top \in Seq(M) /\ DOMAIN top = 1..Len(top)
        /\ Len(top) = IF c <= 3 THEN c ELSE 3
        /\ Len(top) \in Nat /\ Len(top) <= c
        /\ \A k \in 1..Len(top) : top[k] = r[k]
    BY <1>3, <1>8, FirstThreeOf
  <1> HIDE DEF r, top, c
  <1>10. \A k \in DOMAIN top : top[k] \in M
    BY <1>9
  <1>11. top \in Seq(T)
    BY <1>6, <1>9, <1>10
  <1>12. Len(top) <= 3
    BY <1>8, <1>9
  <1>13. \A k \in DOMAIN top : Metrics!Support(sheet, p, top[k]) > 0
    BY <1>2, <1>6, <1>10
  <1>14. ASSUME NEW t \in T, NEW k \in DOMAIN top
         PROVE  s[t] <= s[top[k]] \/ \E j \in DOMAIN top : top[j] = t
    <2>1. top[k] \in M /\ s[top[k]] \in Nat /\ s[top[k]] > 0 /\ s[t] \in Nat
      BY <1>2, <1>6, <1>10, <1>14
    <2>2. CASE t \notin M
      <3>1. ~(s[t] > 0)
        BY <2>2 DEF M
      <3> QED BY <2>1, <3>1
    <2>3. CASE t \in M
      <3>1. PICK j \in 1..c : r[j] = t
        BY <1>8, <2>3
      <3>2. CASE j <= Len(top)
        <4>1. j \in DOMAIN top /\ top[j] = t
          BY <1>8, <1>9, <3>1, <3>2
        <4> QED BY <4>1
      <3>3. CASE j > Len(top)
        <4>1. k \in 1..c /\ k < j /\ top[k] = r[k]
          BY <1>8, <1>9, <1>14, <3>3
        <4>2. <<top[k], t>> \in R
          BY <1>8, <3>1, <4>1
        <4> QED BY <1>5, <2>1, <2>3, <4>2
      <3> QED BY <1>8, <1>9, <3>2, <3>3
    <2> QED BY <2>2, <2>3
  <1>15. \A t \in T, k \in DOMAIN top :
            \/ Metrics!Support(sheet, p, t) <= Metrics!Support(sheet, p, top[k])
            \/ \E j \in DOMAIN top : top[j] = t
    <2> TAKE t \in T, k \in DOMAIN top
    <2>1. top[k] \in T
      BY <1>6, <1>10
    <2> QED BY <1>2, <1>14, <2>1
  <1> QED BY <1>9, <1>11, <1>12, <1>13, <1>15 DEF top, T

\* The items of a report: one for each theme it lists, or one that rests on the fallback.
LEMMA ThemedIs ==
    ASSUME Metrics!TypeOK, NEW p \in BOOLEAN
    PROVE  LET listed == Metrics!Themed(sheet, p)
               top == Metrics!TopThemes(sheet, p)
           IN  /\ listed \in Seq(Metrics!ItemType) /\ DOMAIN listed = 1..Len(listed)
               /\ Len(listed) \in Nat /\ Len(listed) >= 1
               /\ \A k \in DOMAIN listed :
                    \/ /\ k \in DOMAIN top /\ top[k] \in Metrics!Themes(p)
                       /\ listed[k] = Metrics!Item(sheet, top[k], Metrics!Supporters(sheet, p, top[k]))
                    \/ listed[k] = Metrics!Item(sheet, 0, Metrics!Fallback(sheet, p))
  <1> DEFINE listed == Metrics!Themed(sheet, p)
             top == Metrics!TopThemes(sheet, p)
             W(t) == Metrics!Supporters(sheet, p, t)
             last == Metrics!Item(sheet, 0, Metrics!Fallback(sheet, p))
  <1>1. top \in Seq(Metrics!Themes(p)) /\ DOMAIN top = 1..Len(top) /\ Len(top) \in Nat
    BY ThemesAre
  <1>2. listed = IF top = <<>> THEN <<last>>
                ELSE [k \in DOMAIN top |-> Metrics!Item(sheet, top[k], W(top[k]))]
    BY DEF Metrics!Themed
  <1>3. last \in Metrics!ItemType
    <2>1. 0 \in 0..5
      OBVIOUS
    <2> QED BY <2>1, FallbackIs, ItemIs
  <1>4. ASSUME NEW t \in Metrics!Themes(p)
        PROVE  Metrics!Item(sheet, t, W(t)) \in Metrics!ItemType
    <2>1. t \in 0..5 /\ W(t) \in SUBSET (DOMAIN sheet)
      BY SupportersAre
    <2> QED BY <2>1, ItemIs
  <1>5. \A k \in DOMAIN top : top[k] \in Metrics!Themes(p)
    BY <1>1, ElementOfSeq
  <1> HIDE DEF listed, top, last, W
  <1>6. CASE top = <<>>
    <2>1. listed = <<last>>
      BY <1>2, <1>6
    <2>2. listed \in Seq(Metrics!ItemType) /\ Len(listed) = 1 /\ DOMAIN listed = 1..1 /\ listed[1] = last
      BY <1>3, <2>1
    <2>3. \A k \in DOMAIN listed : listed[k] = last
      BY <2>2
    <2>4. /\ listed \in Seq(Metrics!ItemType) /\ DOMAIN listed = 1..Len(listed)
          /\ Len(listed) \in Nat /\ Len(listed) >= 1
      BY <2>2
    <2> QED BY <2>3, <2>4 DEF listed, top, last
  <1>7. CASE top # <<>>
    <2>1. listed = [k \in 1..Len(top) |-> Metrics!Item(sheet, top[k], W(top[k]))]
      BY <1>1, <1>2, <1>7
    <2>2. Len(top) >= 1
      BY <1>1, <1>7, EmptySeq
    <2>3. \A k \in 1..Len(top) : Metrics!Item(sheet, top[k], W(top[k])) \in Metrics!ItemType
      BY <1>1, <1>4, <1>5
    <2>4. /\ listed \in Seq(Metrics!ItemType) /\ Len(listed) = Len(top) /\ DOMAIN listed = 1..Len(top)
      BY <1>1, <2>1, <2>3
    <2>5. \A k \in DOMAIN listed : /\ k \in DOMAIN top /\ top[k] \in Metrics!Themes(p)
                                  /\ listed[k] = Metrics!Item(sheet, top[k], W(top[k]))
      BY <1>1, <1>5, <2>1, <2>4
    <2>6. /\ listed \in Seq(Metrics!ItemType) /\ DOMAIN listed = 1..Len(listed)
          /\ Len(listed) \in Nat /\ Len(listed) >= 1
      BY <1>1, <2>2, <2>4
    <2> QED BY <2>5, <2>6 DEF listed, top, W
  <1> QED BY <1>6, <1>7

\* What an item of them holds.
LEMMA ThemedHas ==
    ASSUME Metrics!TypeOK, NEW p \in BOOLEAN, NEW k \in DOMAIN Metrics!Themed(sheet, p)
    PROVE  LET i == Metrics!Themed(sheet, p)[k]
               top == Metrics!TopThemes(sheet, p)
           IN  \E W \in SUBSET (DOMAIN sheet) :
                 /\ i.support = Cardinality(W) /\ Cardinality(W) \in Nat /\ IsFiniteSet(W)
                 /\ i.quotes \in Seq(Nat) /\ DOMAIN i.quotes = 1..Len(i.quotes)
                 /\ Len(i.quotes) = IF i.support <= 3 THEN i.support ELSE 3
                 /\ \A j \in DOMAIN i.quotes : i.quotes[j] \in W
                 /\ (\A n \in W : sheet[n].intent # 0) \/ Cardinality(W) = 1
                 /\ sheet # <<>> => W # {}
                 /\ i.theme # 0 => /\ k \in DOMAIN top /\ i.theme = top[k]
                                   /\ i.theme \in Metrics!Themes(p)
                                   /\ W = Metrics!Supporters(sheet, p, i.theme)
  <1> DEFINE i == Metrics!Themed(sheet, p)[k]
             top == Metrics!TopThemes(sheet, p)
             F == Metrics!Fallback(sheet, p)
  <1>1. \/ /\ k \in DOMAIN top /\ top[k] \in Metrics!Themes(p)
           /\ i = Metrics!Item(sheet, top[k], Metrics!Supporters(sheet, p, top[k]))
        \/ i = Metrics!Item(sheet, 0, F)
    BY ThemedIs
  <1>2. \A x : x \in Metrics!ItemType => x.quotes \in Seq(Nat)
    BY DEF Metrics!ItemType
  <1>3. CASE /\ k \in DOMAIN top /\ top[k] \in Metrics!Themes(p)
             /\ i = Metrics!Item(sheet, top[k], Metrics!Supporters(sheet, p, top[k]))
    <2> DEFINE t == top[k]
               W == Metrics!Supporters(sheet, p, t)
    <2>1. t \in 0..5 /\ t # 0 /\ W \in SUBSET (DOMAIN sheet) /\ \A n \in W : sheet[n].intent # 0
      BY <1>3, SupportersAre
    <2>2. Metrics!Support(sheet, p, t) = Cardinality(W) /\ Metrics!Support(sheet, p, t) > 0
      BY <1>3, SupportersAre, ThemesAre
    <2>3. W # {}
      BY <2>2, FS_EmptySet
    <2>4. k \in DOMAIN top /\ t \in Metrics!Themes(p)
      BY <1>3
    <2> HIDE DEF i, t, W
    <2>5. i = Metrics!Item(sheet, t, W)
      BY <1>3 DEF t, W
    <2>6. /\ i \in Metrics!ItemType /\ i.theme = t /\ i.support = Cardinality(W)
          /\ Cardinality(W) \in Nat /\ IsFiniteSet(W)
          /\ Len(i.quotes) = IF Cardinality(W) <= 3 THEN Cardinality(W) ELSE 3
          /\ DOMAIN i.quotes = 1..Len(i.quotes)
          /\ \A j \in DOMAIN i.quotes : i.quotes[j] \in W
      BY <2>1, <2>5, ItemIs
    <2>7. i.theme # 0 => /\ k \in DOMAIN top /\ i.theme = top[k]
                         /\ i.theme \in Metrics!Themes(p)
                         /\ W = Metrics!Supporters(sheet, p, i.theme)
      BY <2>4, <2>6 DEF t, W
    <2>8. i.quotes \in Seq(Nat)
      BY <1>2, <2>6
    <2> QED BY <2>1, <2>3, <2>6, <2>7, <2>8 DEF i
  <1>4. CASE i = Metrics!Item(sheet, 0, F)
    <2>1. /\ F \in SUBSET (DOMAIN sheet) /\ (sheet # <<>> => F # {})
          /\ (\A n \in F : sheet[n].intent # 0) \/ Cardinality(F) = 1
      <3>1. /\ F \in SUBSET (DOMAIN sheet) /\ (sheet # <<>> => F # {})
            /\ (\A n \in F : sheet[n].intent # 0) \/ \E n : F = {n}
        BY FallbackIs
      <3> HIDE DEF F
      <3>2. (\E n : F = {n}) => Cardinality(F) = 1
        BY FS_Singleton
      <3> QED BY <3>1, <3>2
    <2>2. 0 \in 0..5
      OBVIOUS
    <2> HIDE DEF i, F
    <2>3. /\ i \in Metrics!ItemType /\ i.theme = 0 /\ i.support = Cardinality(F)
          /\ Cardinality(F) \in Nat /\ IsFiniteSet(F)
          /\ Len(i.quotes) = IF Cardinality(F) <= 3 THEN Cardinality(F) ELSE 3
          /\ DOMAIN i.quotes = 1..Len(i.quotes)
          /\ \A j \in DOMAIN i.quotes : i.quotes[j] \in F
      BY <1>4, <2>1, <2>2, ItemIs
    <2>4. i.quotes \in Seq(Nat)
      BY <1>2, <2>3
    <2> QED BY <2>1, <2>3, <2>4 DEF i
  <1> QED BY <1>1, <1>3, <1>4

\* The evidence is a number, whatever the items.
LEMMA EvidenceIs ==
    ASSUME Metrics!TypeOK
    PROVE  Metrics!Evidence(sheet) \in Nat
  <1> DEFINE I == Metrics!ItemType
             body == [i \in I |-> [total \in Nat |-> total + i.support]]
             pros == Metrics!Themed(sheet, TRUE)
             cons == Metrics!Themed(sheet, FALSE)
             all == pros \o cons
  <1>1. pros \in Seq(I) /\ cons \in Seq(I)
    BY ThemedIs
  <1>2. \A i \in I : i.support \in Nat
    BY DEF Metrics!ItemType
  <1>3. body \in [I -> [Nat -> Nat]] /\ 0 \in Nat
    <2> HIDE DEF I
    <2> QED BY <1>2
  <1>4. Metrics!Evidence(sheet) = Fold(body, 0, all)
    BY MetricsSame DEF Metrics!Evidence
  <1> HIDE DEF I, body, pros, cons
  <1>5. all \in Seq(I)
    BY <1>1
  <1> HIDE DEF all
  <1>6. IsBody(body, 0, Nat, I)
    BY <1>3 DEF IsBody
  <1>7. \A seq \in Seq(I) : Fold(body, 0, seq) \in Nat
    BY <1>6, FoldSteps
  <1> QED BY <1>4, <1>5, <1>7

\* The themes are ranked by their support, quotes stand on it, and the confidence is bounded.
LEMMA ThemesAlwaysRanked == Metrics!TypeOK => Metrics!ThemesRanked
  <1> SUFFICES ASSUME Metrics!TypeOK PROVE Metrics!ThemesRanked
    OBVIOUS
  <1>1. ASSUME NEW p \in BOOLEAN, NEW i \in Metrics!Range(Metrics!Themed(sheet, p))
        PROVE  /\ Len(i.quotes) = Metrics!Min({3, i.support})
               /\ i.theme # 0 => \A t \in Metrics!Themes(p) :
                    \/ Metrics!Support(sheet, p, t) <= i.support
                    \/ t \in Metrics!Range(Metrics!TopThemes(sheet, p))
    <2> DEFINE listed == Metrics!Themed(sheet, p)
               top == Metrics!TopThemes(sheet, p)
    <2>1. PICK k \in DOMAIN listed : i = listed[k]
      BY <1>1 DEF Metrics!Range
    <2>2. PICK W \in SUBSET (DOMAIN sheet) :
            /\ i.support = Cardinality(W) /\ Cardinality(W) \in Nat
            /\ Len(i.quotes) = IF i.support <= 3 THEN i.support ELSE 3
            /\ i.theme # 0 => /\ k \in DOMAIN top /\ i.theme = top[k]
                              /\ i.theme \in Metrics!Themes(p)
                              /\ W = Metrics!Supporters(sheet, p, i.theme)
      BY <2>1, ThemedHas
    <2>3. Len(i.quotes) = Metrics!Min({3, i.support})
      <3>1. Metrics!Min({3, i.support}) = IF 3 <= i.support THEN 3 ELSE i.support
        BY <2>2, MetricsSame
      <3> QED BY <2>2, <3>1
    <2>4. ASSUME i.theme # 0, NEW t \in Metrics!Themes(p)
          PROVE  \/ Metrics!Support(sheet, p, t) <= i.support
                 \/ t \in Metrics!Range(top)
      <3>1. k \in DOMAIN top /\ i.theme = top[k] /\ i.theme \in Metrics!Themes(p)
        BY <2>2, <2>4
      <3>2. i.support = Metrics!Support(sheet, p, top[k])
        BY <2>2, <2>4, <3>1, SupportersAre
      <3>3. \/ Metrics!Support(sheet, p, t) <= Metrics!Support(sheet, p, top[k])
            \/ \E j \in DOMAIN top : top[j] = t
        BY <2>4, <3>1, ThemesAre
      <3> HIDE DEF top
      <3> QED BY <3>2, <3>3 DEF Metrics!Range
    <2> QED BY <2>3, <2>4
  <1>2. Metrics!Confidence(sheet) \in 37..85
    <2> DEFINE n == Metrics!Number(Metrics!Distribution(sheet))
               e == Metrics!Evidence(sheet)
               sum == 45 + 6 * n + 2 * e
               base == Metrics!Min({85, sum})
               priced == IF Metrics!NamedPrices(sheet) = <<>> THEN base - 8 ELSE base
    <2>1. n \in Nat /\ e \in Nat
      BY GroupParts, MeanRange, EvidenceIs
    <2>2. Metrics!Confidence(sheet) = Metrics!Max({35, Metrics!Min({90, priced})})
      BY DEF Metrics!Confidence
    <2> HIDE DEF n, e
    <2>3. sum \in Int /\ sum >= 45
      BY <2>1
    <2> HIDE DEF sum
    <2>4. base = IF 85 <= sum THEN 85 ELSE sum
      BY <2>3, MetricsSame
    <2>5. base \in Int /\ 45 <= base /\ base <= 85
      BY <2>3, <2>4
    <2> HIDE DEF base
    <2>6. priced \in Int /\ 37 <= priced /\ priced <= 85
      BY <2>5
    <2> HIDE DEF priced
    <2>7. Metrics!Min({90, priced}) = priced
      <3>1. Metrics!Min({90, priced}) = IF 90 <= priced THEN 90 ELSE priced
        BY <2>6, MetricsSame
      <3> QED BY <2>6, <3>1
    <2>8. Metrics!Max({35, priced}) = priced
      <3>1. Metrics!Max({35, priced}) = IF 35 <= priced THEN priced ELSE 35
        BY <2>6, MetricsSame
      <3> QED BY <2>6, <3>1
    <2> QED BY <2>2, <2>6, <2>7, <2>8
  <1> QED BY <1>1, <1>2 DEF Metrics!ThemesRanked

-----------------------------------------------------------------------------
(* The prices                                                              *)

\* How many elements the places of an interval can stand for.
LEMMA PlacesBound ==
    ASSUME NEW S, NEW r \in Seq(S), NEW lo \in Nat, NEW hi \in Nat, NEW U \in SUBSET S,
           lo >= 1, hi <= Len(r), lo <= hi + 1, \A x \in U : \E k \in lo..hi : r[k] = x
    PROVE  IsFiniteSet(U) /\ Cardinality(U) \in Nat /\ Cardinality(U) <= hi - lo + 1
  <1> DEFINE K == lo..hi
             V == {r[k] : k \in K}
  <1>1. IsFiniteSet(K) /\ Cardinality(K) = hi - lo + 1
    <2>1. \A a, b \in Int : IsFiniteSet(a..b) /\ Cardinality(a..b) = IF a > b THEN 0 ELSE b - a + 1
      BY FS_Interval
    <2>2. lo \in Int /\ hi \in Int
      OBVIOUS
    <2>3. IsFiniteSet(K) /\ Cardinality(K) = IF lo > hi THEN 0 ELSE hi - lo + 1
      BY <2>1, <2>2, Zenon
    <2> HIDE DEF K
    <2> QED BY <2>3
  <1>2. IsFiniteSet(V) /\ Cardinality(V) <= Cardinality(K)
    <2> DEFINE f == [k \in K |-> r[k]]
    <2>1. f \in Surjection(K, V)
      BY DEF Surjection
    <2> HIDE DEF f, K, V
    <2> QED BY <1>1, <2>1, FS_Surjection
  <1>3. U \in SUBSET V
    OBVIOUS
  <1> HIDE DEF V, K
  <1>4. IsFiniteSet(U) /\ Cardinality(U) <= Cardinality(V)
    BY <1>2, <1>3, FS_Subset
  <1>5. Cardinality(U) \in Nat /\ Cardinality(V) \in Nat
    BY <1>2, <1>4, FS_CardinalityType
  <1> QED BY <1>1, <1>2, <1>4, <1>5

\* The prices named, ranked: the people behind them, each once, by what they named.
LEMMA PricesAre ==
    ASSUME Metrics!TypeOK
    PROVE  LET P == Metrics!Priced(sheet)
               prices == Metrics!NamedPrices(sheet)
           IN  /\ IsFiniteSet(P) /\ Cardinality(P) \in Nat
               /\ \A n \in P : Metrics!PriceOf(sheet, n) \in Nat
               /\ prices \in Seq(Nat) /\ Len(prices) = Cardinality(P)
               /\ \E r \in Seq(P) :
                    /\ Len(r) = Cardinality(P)
                    /\ \A n \in P : \E k \in 1..Len(r) : r[k] = n
                    /\ \A k \in 1..Len(r) : prices[k] = Metrics!PriceOf(sheet, r[k])
                    /\ \A j, k \in 1..Len(r) : j < k => prices[j] <= prices[k]
  <1> DEFINE P == Metrics!Priced(sheet)
             price == [n \in P |-> Metrics!PriceOf(sheet, n)]
             R == {x \in P \X P : price[x[1]] < price[x[2]]
                                  \/ (price[x[1]] = price[x[2]] /\ x[1] < x[2])}
             r == Metrics!Ranked(P, R)
             c == Cardinality(P)
             prices == Metrics!NamedPrices(sheet)
  <1>1. P \in SUBSET (DOMAIN sheet) /\ \A n \in P : Metrics!Extracted(sheet[n]) # <<>>
    BY DEF Metrics!Priced
  <1>2. IsFiniteSet(P) /\ \A n \in P : n \in Int
    <2>1. DOMAIN sheet = 1..Len(sheet) /\ IsFiniteSet(DOMAIN sheet)
      BY SheetHas
    <2>2. \A n \in 1..Len(sheet) : n \in Int
      OBVIOUS
    <2> HIDE DEF P
    <2> QED BY <1>1, <2>1, <2>2, FS_Subset
  <1>3. ASSUME NEW n \in P PROVE Metrics!PriceOf(sheet, n) \in Nat
    <2> DEFINE s == sheet[n].numbers
    <2>1. s \in Seq(Nat)
      BY <1>1, SheetHas
    <2>2. PICK Z : Metrics!Extracted(sheet[n]) = Only(s, Z)
      BY MetricsSame DEF Metrics!Extracted
    <2> HIDE DEF s
    <2> DEFINE o == Only(s, Z)
    <2>3. o \in Seq(Nat)
      BY <2>1, OnlySteps
    <2>4. o # <<>>
      BY <1>1, <2>2
    <2> HIDE DEF o
    <2>5. o[1] \in Nat
      <3>1. Len(o) \in Nat /\ Len(o) # 0
        BY <2>3, <2>4, EmptySeq, LenProperties
      <3>2. 1 \in 1..Len(o)
        BY <3>1
      <3> QED BY <2>3, <3>2, ElementOfSeq
    <2>6. Metrics!PriceOf(sheet, n) = o[1]
      BY <2>2 DEF Metrics!PriceOf, o
    <2> QED BY <2>5, <2>6
  <1>4. \A n \in P : price[n] = Metrics!PriceOf(sheet, n) /\ price[n] \in Nat
    BY <1>3
  <1>5. prices = [k \in DOMAIN r |-> price[r[k]]]
    BY DEF Metrics!NamedPrices
  <1> HIDE DEF P, price, prices
  <1>6. \A x, y \in P : <<x, y>> \in R <=> (price[x] < price[y] \/ (price[x] = price[y] /\ x < y))
    OBVIOUS
  <1> HIDE DEF R
  <1>7. IsOrderOf(R, P)
    <2>1. \A x \in P : <<x, x>> \notin R
      BY <1>2, <1>4, <1>6
    <2>2. \A x, y \in P : x # y => <<x, y>> \in R \/ <<y, x>> \in R
      BY <1>2, <1>4, <1>6
    <2>3. \A x, y, z \in P : <<x, y>> \in R /\ <<y, z>> \in R => <<x, z>> \in R
      BY <1>2, <1>4, <1>6
    <2> QED BY <2>1, <2>2, <2>3 DEF IsOrderOf
  <1>8. /\ r \in Seq(P) /\ Len(r) = c /\ c \in Nat
        /\ \A x \in P : \E k \in 1..c : r[k] = x
        /\ \A j, k \in 1..c : j < k => <<r[j], r[k]>> \in R
    BY <1>2, <1>7, RankedInOrder
  <1> HIDE DEF r, c
  <1>9. DOMAIN r = 1..c /\ \A k \in 1..c : r[k] \in P
    BY <1>8
  <1>10. prices = [k \in 1..c |-> price[r[k]]] /\ \A k \in 1..c : price[r[k]] \in Nat
    BY <1>4, <1>5, <1>9
  <1>11. prices \in Seq(Nat) /\ Len(prices) = c
    BY <1>8, <1>10
  <1>12. \A k \in 1..c : prices[k] = Metrics!PriceOf(sheet, r[k]) /\ prices[k] = price[r[k]]
    BY <1>4, <1>9, <1>10
  <1>13. ASSUME NEW j \in 1..c, NEW k \in 1..c, j < k PROVE prices[j] <= prices[k]
    <2>1. <<r[j], r[k]>> \in R /\ r[j] \in P /\ r[k] \in P
      BY <1>8, <1>9, <1>13
    <2>2. price[r[j]] <= price[r[k]]
      BY <1>4, <1>6, <2>1
    <2> QED BY <1>12, <2>2
  <1>14. \A j, k \in 1..Len(r) : j < k => prices[j] <= prices[k]
    BY <1>8, <1>13
  <1>15. /\ \A n \in P : \E k \in 1..Len(r) : r[k] = n
         /\ \A k \in 1..Len(r) : prices[k] = Metrics!PriceOf(sheet, r[k])
    BY <1>8, <1>12
  <1>16. \A n \in P : Metrics!PriceOf(sheet, n) \in Nat
    BY <1>3
  <1> QED BY <1>2, <1>8, <1>11, <1>14, <1>15, <1>16 DEF P, prices, c

LEMMA BothParts ==
    ASSUME NEW U, NEW V, IsFiniteSet(U \cup V), U \cap V = {}
    PROVE  /\ Cardinality(U \cup V) = Cardinality(U) + Cardinality(V)
           /\ Cardinality(U) \in Nat /\ Cardinality(V) \in Nat
           /\ IsFiniteSet(U) /\ IsFiniteSet(V)
  <1>1. PICK S : S = U \cup V
    OBVIOUS
  <1> QED BY <1>1, TwoParts

\* Each price is in one bucket.
LEMMA BucketsAdd ==
    ASSUME NEW prices \in Seq(Nat)
    PROVE  LET b == Metrics!Buckets(prices)
           IN  /\ b \in [1..4 -> Nat]
               /\ b[1] + b[2] + b[3] + b[4] = Len(prices)
  <1> DEFINE D == DOMAIN prices
             At(s) == {k \in D : Metrics!Bucket(prices[k]) = s}
             b == Metrics!Buckets(prices)
  <1>1. b = [s \in 1..4 |-> Cardinality(At(s))]
    BY MetricsSame DEF Metrics!Buckets
  <1>2. Len(prices) \in Nat /\ D = 1..Len(prices)
    OBVIOUS
  <1>3. IsFiniteSet(D) /\ Cardinality(D) = Len(prices)
    <2>1. \A n \in Int : IsFiniteSet(1..n) /\ Cardinality(1..n) = IF 1 > n THEN 0 ELSE n - 1 + 1
      BY FS_Interval
    <2>2. Len(prices) \in Int
      BY <1>2
    <2>3. IsFiniteSet(D) /\ Cardinality(D) = IF 1 > Len(prices) THEN 0 ELSE Len(prices) - 1 + 1
      BY <1>2, <2>1, <2>2, Zenon
    <2> HIDE DEF D
    <2> QED BY <1>2, <2>3
  <1>4. \A k \in D : Metrics!Bucket(prices[k]) \in 1..4
    BY DEF Metrics!Bucket
  <1> DEFINE A1 == At(1) A2 == At(2) A3 == At(3) A4 == At(4)
             S2 == A1 \cup A2 S3 == S2 \cup A3
  <1> HIDE DEF D
  <1>5. /\ D = S3 \cup A4 /\ S3 \cap A4 = {}
        /\ S3 = S2 \cup A3 /\ S2 \cap A3 = {}
        /\ S2 = A1 \cup A2 /\ A1 \cap A2 = {}
    BY <1>4
  <1>6. b[1] = Cardinality(A1) /\ b[2] = Cardinality(A2) /\ b[3] = Cardinality(A3) /\ b[4] = Cardinality(A4)
    BY <1>1
  <1> HIDE DEF b, A1, A2, A3, A4, S2, S3
  <1>7. /\ Cardinality(D) = Cardinality(S3) + Cardinality(A4) /\ Cardinality(A4) \in Nat
        /\ IsFiniteSet(S3) /\ Cardinality(S3) \in Nat
    <2>1. IsFiniteSet(S3 \cup A4) /\ Cardinality(D) = Cardinality(S3 \cup A4) /\ S3 \cap A4 = {}
      BY <1>3, <1>5
    <2> QED BY <2>1, BothParts
  <1>8. /\ Cardinality(S3) = Cardinality(S2) + Cardinality(A3) /\ Cardinality(A3) \in Nat
        /\ IsFiniteSet(S2) /\ Cardinality(S2) \in Nat
    <2>1. IsFiniteSet(S2 \cup A3) /\ Cardinality(S3) = Cardinality(S2 \cup A3) /\ S2 \cap A3 = {}
      BY <1>5, <1>7
    <2> QED BY <2>1, BothParts
  <1>9. /\ Cardinality(S2) = Cardinality(A1) + Cardinality(A2)
        /\ Cardinality(A1) \in Nat /\ Cardinality(A2) \in Nat
    <2>1. IsFiniteSet(A1 \cup A2) /\ Cardinality(S2) = Cardinality(A1 \cup A2) /\ A1 \cap A2 = {}
      BY <1>5, <1>8
    <2> QED BY <2>1, BothParts
  <1>10. b[1] + b[2] + b[3] + b[4] = Len(prices)
    BY <1>3, <1>6, <1>7, <1>8, <1>9
  <1>11. b \in [1..4 -> Nat]
    <2>1. DOMAIN b = 1..4 /\ b = [s \in 1..4 |-> b[s]]
      BY <1>1 DEF b
    <2>2. \A s \in 1..4 : b[s] \in Nat
      <3>1. b[1] \in Nat /\ b[2] \in Nat /\ b[3] \in Nat /\ b[4] \in Nat
        BY <1>6, <1>7, <1>8, <1>9
      <3> QED BY <3>1
    <2> QED BY <2>1, <2>2
  <1> QED BY <1>10, <1>11 DEF b

\* Half of two numbers lies between them.
LEMMA HalfBetween ==
    ASSUME NEW x \in Nat, NEW y \in Nat, x <= y
    PROVE  LET h == Metrics!Round(x + y, 2) IN h \in Nat /\ x <= h /\ h <= y
  <1> DEFINE h == Metrics!Round(x + y, 2)
             q == (x + y) \div 2
             r == (x + y) % 2
  <1>1. q \in Nat /\ r \in {0, 1} /\ x + y = 2 * q + r
    OBVIOUS
  <1>2. h = IF 2 * r > 2 \/ (2 * r = 2 /\ q % 2 = 1) THEN q + 1 ELSE q
    BY DEF Metrics!Round
  <1> HIDE DEF q, r, h
  <1>3. h = q \/ (h = q + 1 /\ r = 1)
    BY <1>1, <1>2
  <1>4. h \in Nat /\ x <= h /\ h <= y
    BY <1>1, <1>3
  <1> QED BY <1>4 DEF h

\* The acceptable price is a median of those who named one, and each of them is in a bucket.
LEMMA MedianAlwaysOfPeople == Metrics!TypeOK => Metrics!MedianOfPeople
  <1> SUFFICES ASSUME Metrics!TypeOK PROVE Metrics!MedianOfPeople
    OBVIOUS
  <1> DEFINE P == Metrics!Priced(sheet)
             prices == Metrics!NamedPrices(sheet)
             c == Cardinality(P)
             m == Metrics!Median(prices)
             mid == c \div 2
             price(n) == Metrics!PriceOf(sheet, n)
             lower == {n \in P : price(n) < m}
             higher == {n \in P : price(n) > m}
  <1>1. /\ IsFiniteSet(P) /\ c \in Nat
        /\ prices \in Seq(Nat) /\ Len(prices) = c
        /\ \A n \in P : price(n) \in Nat
    BY PricesAre
  <1>2. PICK r \in Seq(P) :
            /\ Len(r) = c
            /\ \A n \in P : \E k \in 1..Len(r) : r[k] = n
            /\ \A k \in 1..Len(r) : prices[k] = price(r[k])
            /\ \A j, k \in 1..Len(r) : j < k => prices[j] <= prices[k]
    BY PricesAre
  <1>3. /\ mid \in Nat /\ c = 2 * mid + (c % 2) /\ c % 2 \in {0, 1}
    BY <1>1
  <1>4. m = CASE prices = <<>> -> 0
              [] prices # <<>> /\ c % 2 = 1 -> prices[mid + 1]
              [] OTHER -> Metrics!Round(prices[mid] + prices[mid + 1], 2)
    BY <1>1 DEF Metrics!Median
  <1> HIDE DEF P, prices, c, m, mid, price
  <1>5. \A k \in 1..c : prices[k] \in Nat
    BY <1>1, ElementOfSeq
  <1>6. ASSUME c = 0 PROVE 2 * Cardinality(lower) <= c /\ 2 * Cardinality(higher) <= c
    <2>1. P = {}
      BY <1>1, <1>6, FS_EmptySet DEF c
    <2>2. lower = {} /\ higher = {}
      BY <2>1
    <2>3. Cardinality(lower) = 0 /\ Cardinality(higher) = 0
      BY <2>2, FS_EmptySet
    <2> QED BY <1>6, <2>3
  <1>7. ASSUME c # 0 PROVE 2 * Cardinality(lower) <= c /\ 2 * Cardinality(higher) <= c
    <2>1. prices # <<>>
      <3> SUFFICES ASSUME prices = <<>> PROVE FALSE
        OBVIOUS
      <3>1. Len(prices) = 0
        OBVIOUS
      <3> QED BY <1>1, <1>7, <3>1
    <2>2. mid + 1 \in 1..c \/ c = 2 * mid
      BY <1>1, <1>3
    <2> DEFINE lo == IF c % 2 = 1 THEN mid + 1 ELSE mid
               hi == mid + 1
    <2>3. /\ lo \in 1..c /\ hi \in 1..c /\ lo <= hi /\ hi <= lo + 1
          /\ 2 * (hi - 1) <= c /\ 2 * (c - lo) <= c
      BY <1>1, <1>3, <1>7
    <2>4. m \in Nat /\ prices[lo] <= m /\ m <= prices[hi]
      <3>1. CASE c % 2 = 1
        <4>1. m = prices[mid + 1] /\ mid + 1 \in 1..c
          BY <1>4, <2>1, <2>3, <3>1
        <4> QED BY <1>5, <3>1, <4>1
      <3>2. CASE c % 2 # 1
        <4>1. m = Metrics!Round(prices[mid] + prices[mid + 1], 2)
          BY <1>4, <2>1, <3>2
        <4>2. mid \in 1..c /\ mid + 1 \in 1..c /\ mid < mid + 1
          BY <1>3, <2>3, <3>2
        <4>3. prices[mid] \in Nat /\ prices[mid + 1] \in Nat /\ prices[mid] <= prices[mid + 1]
          BY <1>2, <1>5, <4>2
        <4>4. m \in Nat /\ prices[mid] <= m /\ m <= prices[mid + 1]
          BY <4>1, <4>3, HalfBetween
        <4> QED BY <3>2, <4>4
      <3> QED BY <3>1, <3>2
    <2> HIDE DEF lo, hi
    <2>5. ASSUME NEW n \in lower PROVE \E k \in 1..(hi - 1) : r[k] = n
      <3>1. n \in P /\ price(n) < m /\ price(n) \in Nat
        BY <1>1, <2>5
      <3>2. PICK k \in 1..c : r[k] = n
        BY <1>2, <3>1
      <3>3. prices[k] = price(n) /\ prices[k] < prices[hi]
        <4>1. prices[k] = price(n)
          BY <1>2, <3>2
        <4>2. prices[hi] \in Nat
          BY <1>5, <2>3
        <4> QED BY <2>4, <3>1, <4>1, <4>2
      <3>4. ~(hi < k) /\ hi # k
        <4>1. hi < k => prices[hi] <= prices[k]
          BY <1>2, <2>3, <3>2
        <4>2. prices[k] \in Nat /\ prices[hi] \in Nat
          BY <1>5, <2>3, <3>2
        <4> QED BY <3>3, <4>1, <4>2
      <3>5. k \in 1..(hi - 1)
        BY <1>1, <2>3, <3>2, <3>4
      <3> QED BY <3>2, <3>5
    <2>6. ASSUME NEW n \in higher PROVE \E k \in (lo + 1)..c : r[k] = n
      <3>1. n \in P /\ price(n) > m /\ price(n) \in Nat
        BY <1>1, <2>6
      <3>2. PICK k \in 1..c : r[k] = n
        BY <1>2, <3>1
      <3>3. prices[k] = price(n) /\ prices[lo] < prices[k]
        <4>1. prices[k] = price(n)
          BY <1>2, <3>2
        <4>2. prices[lo] \in Nat
          BY <1>5, <2>3
        <4> QED BY <2>4, <3>1, <4>1, <4>2
      <3>4. ~(k < lo) /\ lo # k
        <4>1. k < lo => prices[k] <= prices[lo]
          BY <1>2, <2>3, <3>2
        <4>2. prices[k] \in Nat /\ prices[lo] \in Nat
          BY <1>5, <2>3, <3>2
        <4> QED BY <3>3, <4>1, <4>2
      <3>5. k \in (lo + 1)..c
        BY <1>1, <2>3, <3>2, <3>4
      <3> QED BY <3>2, <3>5
    <2>7. lower \in SUBSET P /\ higher \in SUBSET P
      OBVIOUS
    <2> HIDE DEF lower, higher
    <2>8. Cardinality(lower) \in Nat /\ Cardinality(lower) <= hi - 1
      <3> DEFINE one == 1
                 top == hi - 1
      <3>1. /\ one \in Nat /\ top \in Nat /\ one >= 1 /\ top <= Len(r) /\ one <= top + 1
            /\ \A x \in lower : \E k \in one..top : r[k] = x
        BY <1>1, <1>2, <2>3, <2>5
      <3>2. one = 1 /\ top = hi - 1
        OBVIOUS
      <3> HIDE DEF one, top
      <3>3. Cardinality(lower) \in Nat /\ Cardinality(lower) <= top - one + 1
        BY <2>7, <3>1, PlacesBound
      <3> QED BY <2>3, <3>2, <3>3
    <2>9. Cardinality(higher) \in Nat /\ Cardinality(higher) <= c - lo
      <3> DEFINE low == lo + 1
      <3>1. /\ low \in Nat /\ c \in Nat /\ low >= 1 /\ c <= Len(r) /\ low <= c + 1
            /\ \A x \in higher : \E k \in low..c : r[k] = x
        BY <1>1, <1>2, <2>3, <2>6
      <3>2. low = lo + 1
        OBVIOUS
      <3> HIDE DEF low
      <3>3. Cardinality(higher) \in Nat /\ Cardinality(higher) <= c - low + 1
        BY <2>7, <3>1, PlacesBound
      <3> QED BY <1>1, <2>3, <3>2, <3>3
    <2>10. 2 * Cardinality(lower) <= c /\ 2 * Cardinality(higher) <= c
      BY <1>1, <2>3, <2>8, <2>9
    <2> QED BY <2>10
  <1>8. 2 * Cardinality(lower) <= c /\ 2 * Cardinality(higher) <= c
    BY <1>6, <1>7
  <1>9. LET b == Metrics!Buckets(prices) IN b[1] + b[2] + b[3] + b[4] = c
    BY <1>1, BucketsAdd
  <1> HIDE DEF lower, higher
  <1>10. /\ 2 * Metrics!Cardinality(lower) <= Metrics!Cardinality(P)
         /\ 2 * Metrics!Cardinality(higher) <= Metrics!Cardinality(P)
         /\ LET b == Metrics!Buckets(prices) IN b[1] + b[2] + b[3] + b[4] = Metrics!Cardinality(P)
    <2>1. \A S : Metrics!Cardinality(S) = Cardinality(S)
      BY MetricsSame
    <2>2. c = Metrics!Cardinality(P)
      BY <2>1 DEF c
    <2> QED BY <1>8, <1>9, <2>1, <2>2
  <1> QED BY <1>10, Zenon DEF Metrics!MedianOfPeople, lower, higher, P, m, prices, price

-----------------------------------------------------------------------------
(* Shares of a whole                                                       *)

\* A rounded share is no more than a half away from the share.
LEMMA PercentNear ==
    ASSUME NEW k \in Nat, NEW n \in Nat \ {0}
    PROVE  LET x == Metrics!Percent(k, n)
           IN  x \in Nat /\ x * n \in Nat /\ 200 * k <= 2 * (x * n) + n /\ 2 * (x * n) <= 200 * k + n
  <1> DEFINE a == 100 * k
             x == Metrics!Percent(k, n)
  <1>1. a \in Nat /\ 2 * a = 200 * k
    OBVIOUS
  <1>2. x = Metrics!Round(a, n)
    BY DEF Metrics!Percent
  <1> HIDE DEF a, x
  <1>3. x \in Nat /\ 2 * a <= 2 * (x * n) + n /\ 2 * (x * n) <= 2 * a + n
    BY <1>1, <1>2, RoundNear
  <1>4. x * n \in Nat
    BY <1>3
  <1> QED BY <1>1, <1>3, <1>4 DEF x

\* The shares of up to five parts add up to about the whole.
LEMMA SharesNearWhole ==
    ASSUME NEW n \in Nat \ {0}, NEW a \in Nat, NEW b \in Nat, NEW c \in Nat, NEW d \in Nat,
           NEW e \in Nat, a + b + c + d + e = n
    PROVE  Metrics!Percent(a, n) + Metrics!Percent(b, n) + Metrics!Percent(c, n)
             + Metrics!Percent(d, n) + Metrics!Percent(e, n) \in 98..102
  <1> DEFINE A == Metrics!Percent(a, n) B == Metrics!Percent(b, n) C == Metrics!Percent(c, n)
             D == Metrics!Percent(d, n) E == Metrics!Percent(e, n)
             X == A + B + C + D + E
  <1>1. A \in Nat /\ A * n \in Nat /\ 200 * a <= 2 * (A * n) + n /\ 2 * (A * n) <= 200 * a + n
    BY PercentNear
  <1>2. B \in Nat /\ B * n \in Nat /\ 200 * b <= 2 * (B * n) + n /\ 2 * (B * n) <= 200 * b + n
    BY PercentNear
  <1>3. C \in Nat /\ C * n \in Nat /\ 200 * c <= 2 * (C * n) + n /\ 2 * (C * n) <= 200 * c + n
    BY PercentNear
  <1>4. D \in Nat /\ D * n \in Nat /\ 200 * d <= 2 * (D * n) + n /\ 2 * (D * n) <= 200 * d + n
    BY PercentNear
  <1>5. E \in Nat /\ E * n \in Nat /\ 200 * e <= 2 * (E * n) + n /\ 2 * (E * n) <= 200 * e + n
    BY PercentNear
  <1> HIDE DEF A, B, C, D, E
  <1>6. X \in Nat /\ X * n = A * n + B * n + C * n + D * n + E * n
    BY <1>1, <1>2, <1>3, <1>4, <1>5
  <1>7. X = A + B + C + D + E
    OBVIOUS
  <1> HIDE DEF X
  <1>8. 200 * n <= 2 * (X * n) + 5 * n /\ 2 * (X * n) <= 200 * n + 5 * n
    BY <1>1, <1>2, <1>3, <1>4, <1>5, <1>6
  <1>9. X >= 98
    <2> SUFFICES ASSUME X <= 97 PROVE FALSE
      BY <1>6
    <2> DEFINE y == X * n
    <2>1. y <= 97 * n /\ y \in Nat
      BY <1>6, Products
    <2>2. 200 * n <= 2 * y + 5 * n
      BY <1>8
    <2> HIDE DEF y
    <2> QED BY <2>1, <2>2
  <1>10. X <= 102
    <2> SUFFICES ASSUME 103 <= X PROVE FALSE
      BY <1>6
    <2> DEFINE y == X * n
    <2>1. 103 * n <= y /\ y \in Nat
      BY <1>6, Products
    <2>2. 2 * y <= 200 * n + 5 * n
      BY <1>8
    <2> HIDE DEF y
    <2> QED BY <2>1, <2>2
  <1> QED BY <1>6, <1>7, <1>9, <1>10 DEF A, B, C, D, E

\* No item is mentioned by more than gave an intent.
LEMMA MentionFits ==
    ASSUME Metrics!TypeOK, NEW p \in BOOLEAN, NEW k \in DOMAIN Metrics!Themed(sheet, p)
    PROVE  Metrics!Mention(sheet, Metrics!Themed(sheet, p)[k]) \in 0..100
  <1> DEFINE i == Metrics!Themed(sheet, p)[k]
             n == Metrics!Number(Metrics!Distribution(sheet))
             s == i.support
             D == DOMAIN sheet
             given == {m \in D : Metrics!IntentOf(sheet)[m] # 0}
  <1>1. PICK W \in SUBSET D :
            /\ s = Cardinality(W) /\ Cardinality(W) \in Nat /\ IsFiniteSet(W)
            /\ (\A m \in W : sheet[m].intent # 0) \/ Cardinality(W) = 1
    BY ThemedHas
  <1>2. n = Cardinality(given) /\ n \in Nat /\ IsFiniteSet(given)
    <2>1. /\ IsFiniteSet(D) /\ Metrics!IntentOf(sheet) \in [D -> 0..5] /\ D \in SUBSET D
      BY SheetHas
    <2>2. Metrics!Distribution(sheet) = Metrics!Counts(Metrics!IntentOf(sheet), D)
      BY DEF Metrics!Distribution
    <2> HIDE DEF D
    <2>3. LET c == Metrics!Counts(Metrics!IntentOf(sheet), D)
              some == {m \in D : Metrics!IntentOf(sheet)[m] # 0}
          IN  /\ c \in [1..5 -> Nat]
              /\ \A v \in 1..5 : c[v] = Cardinality({m \in D : Metrics!IntentOf(sheet)[m] = v})
              /\ IsFiniteSet(some) /\ Metrics!Number(c) = Cardinality(some)
              /\ Cardinality(some) \in Nat
      BY <2>1, CountsAre, Zenon
    <2> QED BY <2>2, <2>3
  <1>3. Metrics!Mention(sheet, i) = Metrics!Percent(s, n)
    BY DEF Metrics!Mention
  <1>4. n = 0 \/ s <= n
    <2>1. CASE \A m \in W : sheet[m].intent # 0
      <3>1. W \in SUBSET given
        BY <2>1, SheetHas
      <3> HIDE DEF given, n, s
      <3>2. Cardinality(W) <= Cardinality(given)
        BY <1>2, <3>1, FS_Subset
      <3> QED BY <1>1, <1>2, <3>2
    <2>2. CASE Cardinality(W) = 1
      <3> HIDE DEF n, s
      <3> QED BY <1>1, <1>2, <2>2
    <2> QED BY <1>1, <2>1, <2>2
  <1> HIDE DEF n, s, i
  <1>5. s \in Nat
    BY <1>1
  <1>6. CASE n = 0
    BY <1>3, <1>6 DEF Metrics!Percent, i
  <1>7. CASE n # 0 /\ s <= n
    <2>1. Metrics!Percent(s, n) = Metrics!Round(100 * s, n)
      BY <1>7 DEF Metrics!Percent
    <2> DEFINE a == 100 * s
    <2>2. PICK u \in Nat \ {0} : u = 1
      OBVIOUS
    <2>3. a \in Nat /\ n \in Nat \ {0} /\ a * u <= 100 * n
      BY <1>2, <1>5, <1>7, <2>2
    <2> HIDE DEF a
    <2>4. Metrics!Round(a, n) <= Metrics!Round(100, u) /\ Metrics!Round(a, n) \in Nat
      BY <2>3, RoundMonotone
    <2>5. Metrics!Round(100, u) = 100
      BY <2>2 DEF Metrics!Round
    <2>6. Metrics!Percent(s, n) \in 0..100
      BY <2>1, <2>4, <2>5 DEF a
    <2> QED BY <1>3, <2>6 DEF i
  <1> QED BY <1>4, <1>6, <1>7

\* The document the whitepaper is made of adds up.
LEMMA DocumentAlwaysAddsUp == Metrics!TypeOK => Metrics!DocumentAddsUp
  <1> SUFFICES ASSUME Metrics!TypeOK PROVE Metrics!DocumentAddsUp
    OBVIOUS
  <1>1. ASSUME NEW i \in Metrics!Range(Metrics!Themed(sheet, TRUE)) \cup Metrics!Range(Metrics!Themed(sheet, FALSE))
        PROVE  Metrics!Mention(sheet, i) \in 0..100
    <2>1. PICK p \in BOOLEAN : i \in Metrics!Range(Metrics!Themed(sheet, p))
      BY <1>1
    <2>2. PICK k \in DOMAIN Metrics!Themed(sheet, p) : i = Metrics!Themed(sheet, p)[k]
      BY <2>1 DEF Metrics!Range
    <2>3. Metrics!Mention(sheet, Metrics!Themed(sheet, p)[k]) \in 0..100
      BY MentionFits
    <2> QED BY <2>2, <2>3
  <1>2. ASSUME Metrics!Number(Metrics!Distribution(sheet)) # 0
        PROVE  Metrics!Number(Metrics!IntentShares(sheet)) \in 98..102
    <2> DEFINE d == Metrics!Distribution(sheet)
               n == Metrics!Number(d)
               s == Metrics!IntentShares(sheet)
               a == d[1] b == d[2] c == d[3] e == d[4] f == d[5]
    <2>1. d \in [1..5 -> Nat]
      BY GroupParts
    <2>2. a \in Nat /\ b \in Nat /\ c \in Nat /\ e \in Nat /\ f \in Nat
      BY <2>1
    <2>3. n = a + b + c + e + f
      BY DEF Metrics!Number
    <2>4. s = [v \in 1..5 |-> Metrics!Percent(d[v], n)]
      BY DEF Metrics!IntentShares
    <2> HIDE DEF d, n, s
    <2>5. /\ s[1] = Metrics!Percent(a, n) /\ s[2] = Metrics!Percent(b, n) /\ s[3] = Metrics!Percent(c, n)
          /\ s[4] = Metrics!Percent(e, n) /\ s[5] = Metrics!Percent(f, n)
      BY <2>4
    <2> HIDE DEF a, b, c, e, f
    <2>6. n \in Nat \ {0}
      BY <1>2, <2>2, <2>3 DEF n, d
    <2>7. Metrics!Percent(a, n) + Metrics!Percent(b, n) + Metrics!Percent(c, n)
             + Metrics!Percent(e, n) + Metrics!Percent(f, n) \in 98..102
      BY <2>2, <2>3, <2>6, SharesNearWhole
    <2>8. Metrics!Number(s) = s[1] + s[2] + s[3] + s[4] + s[5]
      BY DEF Metrics!Number
    <2> QED BY <2>5, <2>7, <2>8 DEF s
  <1>3. ASSUME Metrics!NamedPrices(sheet) # <<>>
        PROVE  LET s == Metrics!PriceShares(sheet) IN s[1] + s[2] + s[3] + s[4] \in 98..102
    <2> DEFINE prices == Metrics!NamedPrices(sheet)
               n == Len(prices)
               d == Metrics!Buckets(prices)
               s == Metrics!PriceShares(sheet)
               a == d[1] b == d[2] c == d[3] e == d[4]
    <2>1. prices \in Seq(Nat)
      BY PricesAre
    <2>2. n \in Nat \ {0}
      BY <1>3, <2>1, EmptySeq
    <2>3. d \in [1..4 -> Nat] /\ a + b + c + e = n
      BY <2>1, BucketsAdd
    <2>4. s = [v \in 1..4 |-> Metrics!Percent(d[v], n)]
      BY DEF Metrics!PriceShares
    <2> HIDE DEF d, n, s, prices
    <2>5. /\ s[1] = Metrics!Percent(a, n) /\ s[2] = Metrics!Percent(b, n)
          /\ s[3] = Metrics!Percent(c, n) /\ s[4] = Metrics!Percent(e, n)
      BY <2>4
    <2>6. a \in Nat /\ b \in Nat /\ c \in Nat /\ e \in Nat
      BY <2>3
    <2> HIDE DEF a, b, c, e
    <2>7. PICK z \in Nat : z = 0
      OBVIOUS
    <2>8. a + b + c + e + z = n
      BY <2>2, <2>3, <2>6, <2>7
    <2>9. Metrics!Percent(a, n) + Metrics!Percent(b, n) + Metrics!Percent(c, n)
             + Metrics!Percent(e, n) + Metrics!Percent(z, n) \in 98..102
      BY <2>2, <2>6, <2>8, SharesNearWhole
    <2>10. Metrics!Percent(z, n) = 0
      BY <2>2, <2>7 DEF Metrics!Percent, Metrics!Round
    <2>11. \A v \in {a, b, c, e} : Metrics!Percent(v, n) \in Nat
      BY <2>2, <2>6, PercentNear
    <2> QED BY <2>5, <2>9, <2>10, <2>11 DEF s
  <1> QED BY <1>1, <1>2, <1>3 DEF Metrics!DocumentAddsUp

-----------------------------------------------------------------------------
(* The channels                                                            *)

\* The least of a set of numbers.
LEMMA MetricsMin ==
    ASSUME NEW S \in SUBSET Nat, S # {}
    PROVE  Metrics!Min(S) \in S /\ \A x \in S : Metrics!Min(S) <= x
  <1>1. \E m \in S : \A x \in S : m <= x
    BY LeastNumber
  <1> QED BY <1>1 DEF Metrics!Min

\* Whose channels count: the high intents there are.
LEMMA HighIntentIs ==
    ASSUME Metrics!TypeOK
    PROVE  LET H == Metrics!HighIntent(sheet)
           IN  /\ H \in SUBSET (DOMAIN sheet) /\ \A n \in H : sheet[n].intent >= 3
               /\ (\E n \in DOMAIN sheet : sheet[n].intent >= 4) => \A n \in H : sheet[n].intent >= 4
  <1> DEFINE H == Metrics!HighIntent(sheet)
             Four == {n \in DOMAIN sheet : sheet[n].intent >= 4}
             Three == {n \in DOMAIN sheet : sheet[n].intent >= 3}
  <1>1. H = IF Four # {} THEN Four ELSE Three
    BY DEF Metrics!HighIntent
  <1>2. \A n \in DOMAIN sheet : sheet[n].intent \in 0..5
    BY SheetHas
  <1>3. \A n \in DOMAIN sheet : sheet[n].intent >= 4 => sheet[n].intent >= 3
    BY <1>2
  <1>4. H \in SUBSET (DOMAIN sheet) /\ \A n \in H : sheet[n].intent >= 3
    BY <1>1, <1>3
  <1>5. ASSUME \E n \in DOMAIN sheet : sheet[n].intent >= 4
        PROVE  \A n \in H : sheet[n].intent >= 4
    BY <1>1, <1>5
  <1> QED BY <1>4, <1>5

\* The channels recommended: each is listened to, and there are some when any is.
LEMMA ChannelsAre ==
    ASSUME Metrics!TypeOK
    PROVE  LET top == Metrics!TopChannels(sheet)
           IN  /\ top \in Seq(1..5) /\ DOMAIN top = 1..Len(top) /\ Len(top) \in Nat
               /\ \A k \in DOMAIN top : \E n \in Metrics!HighIntent(sheet) :
                    top[k] \in Metrics!Range(sheet[n].channels)
  <1> DEFINE H == Metrics!HighIntent(sheet)
             said == UNION {Metrics!Range(sheet[n].channels) : n \in H}
             L(c) == Metrics!Listeners(sheet, c)
             heard == [c \in said |-> Metrics!Cardinality(L(c))]
             by == [c \in said |-> Metrics!Min(L(c))]
             At(c) == {k \in DOMAIN sheet[by[c]].channels : sheet[by[c]].channels[k] = c}
             place(c) == Metrics!Min(At(c))
             Before(c, d) == \/ heard[c] > heard[d]
                             \/ /\ heard[c] = heard[d]
                                /\ by[c] < by[d] \/ (by[c] = by[d] /\ place(c) < place(d))
             R == {x \in said \X said : Before(x[1], x[2])}
             r == Metrics!Ranked(said, R)
             top == Metrics!TopChannels(sheet)
  <1>1. /\ IsFiniteSet(DOMAIN sheet) /\ DOMAIN sheet = 1..Len(sheet) /\ Len(sheet) \in Nat
        /\ \A n \in DOMAIN sheet : sheet[n].channels \in Seq(1..5)
    BY SheetHas
  <1>2. H \in SUBSET (DOMAIN sheet)
    BY HighIntentIs
  <1>3. \A c : L(c) = {n \in H : c \in Metrics!Range(sheet[n].channels)}
    BY DEF Metrics!Listeners
  <1>4. top = Metrics!FirstThree(r)
    BY DEF Metrics!TopChannels
  <1> HIDE DEF H
  <1>5. \A c \in said : L(c) # {} /\ L(c) \in SUBSET (DOMAIN sheet)
    BY <1>2, <1>3
  <1>6. said \in SUBSET (1..5)
    <2> SUFFICES ASSUME NEW n \in H, NEW c \in Metrics!Range(sheet[n].channels) PROVE c \in 1..5
      OBVIOUS
    <2>1. sheet[n].channels \in Seq(1..5)
      BY <1>1, <1>2
    <2>2. PICK k \in DOMAIN sheet[n].channels : c = sheet[n].channels[k]
      BY DEF Metrics!Range
    <2> QED BY <2>1, <2>2
  <1>7. \A c \in said : \E n \in H : c \in Metrics!Range(sheet[n].channels)
    OBVIOUS
  <1>8. \A c \in said : heard[c] = Metrics!Cardinality(L(c)) /\ by[c] = Metrics!Min(L(c))
    OBVIOUS
  <1>9. \A x, y \in said : <<x, y>> \in R <=> Before(x, y)
    OBVIOUS
  <1> HIDE DEF said, L, heard, by, R, top
  <1>10. ASSUME NEW c \in said
         PROVE  /\ heard[c] \in Nat /\ by[c] \in Nat /\ place(c) \in Nat
                /\ sheet[by[c]].channels[place(c)] = c
    <2> DEFINE W == L(c)
    <2>1. W # {} /\ W \in SUBSET (DOMAIN sheet)
      BY <1>5, <1>10
    <2>2. heard[c] = Metrics!Cardinality(W) /\ by[c] = Metrics!Min(W)
      BY <1>8, <1>10
    <2>3. \A n \in W : n \in H /\ c \in Metrics!Range(sheet[n].channels)
      BY <1>3
    <2> HIDE DEF W
    <2>4. IsFiniteSet(W) /\ Cardinality(W) \in Nat
      BY <1>1, <2>1, FS_Subset, FS_CardinalityType
    <2>5. heard[c] \in Nat
      <3>1. Metrics!Cardinality(W) = Cardinality(W)
        BY MetricsSame
      <3> QED BY <2>2, <2>4, <3>1
    <2>6. by[c] \in W
      <3>1. W \in SUBSET Nat
        BY <1>1, <2>1
      <3> QED BY <2>1, <2>2, <3>1, MetricsMin
    <2>7. by[c] \in DOMAIN sheet /\ c \in Metrics!Range(sheet[by[c]].channels)
      BY <2>1, <2>3, <2>6
    <2> DEFINE s == sheet[by[c]].channels
               K == At(c)
    <2>8. s \in Seq(1..5) /\ c \in Metrics!Range(s)
      BY <1>1, <2>7
    <2> HIDE DEF s
    <2>9. K = {k \in DOMAIN s : s[k] = c}
      BY DEF s
    <2> HIDE DEF K
    <2>10. K # {} /\ K \in SUBSET Nat
      BY <2>8, <2>9 DEF Metrics!Range
    <2>11. Metrics!Min(K) \in K
      BY <2>10, MetricsMin
    <2>12. place(c) \in Nat /\ s[place(c)] = c
      BY <2>9, <2>10, <2>11 DEF K
    <2>13. by[c] \in Nat
      BY <1>1, <2>7
    <2> QED BY <2>5, <2>12, <2>13 DEF s
  <1> HIDE DEF At, place
  <1>11. IsOrderOf(R, said)
    <2>1. \A x \in said : <<x, x>> \notin R
      BY <1>9, <1>10
    <2>2. ASSUME NEW x \in said, NEW y \in said, x # y PROVE <<x, y>> \in R \/ <<y, x>> \in R
      <3>1. /\ heard[x] \in Nat /\ by[x] \in Nat /\ place(x) \in Nat
            /\ heard[y] \in Nat /\ by[y] \in Nat /\ place(y) \in Nat
            /\ sheet[by[x]].channels[place(x)] = x
            /\ sheet[by[y]].channels[place(y)] = y
        BY <1>10
      <3>2. ~(by[x] = by[y] /\ place(x) = place(y))
        BY <2>2, <3>1
      <3>3. Before(x, y) \/ Before(y, x)
        BY <3>1, <3>2
      <3> QED BY <1>9, <3>3
    <2>3. ASSUME NEW x \in said, NEW y \in said, NEW z \in said, <<x, y>> \in R, <<y, z>> \in R
          PROVE  <<x, z>> \in R
      <3>1. /\ heard[x] \in Nat /\ by[x] \in Nat /\ place(x) \in Nat
            /\ heard[y] \in Nat /\ by[y] \in Nat /\ place(y) \in Nat
            /\ heard[z] \in Nat /\ by[z] \in Nat /\ place(z) \in Nat
        BY <1>10
      <3>2. Before(x, y) /\ Before(y, z)
        BY <1>9, <2>3
      <3>3. Before(x, z)
        BY <3>1, <3>2
      <3> QED BY <1>9, <3>3
    <2> HIDE DEF Before
    <2> QED BY <2>1, <2>2, <2>3 DEF IsOrderOf
  <1>12. IsFiniteSet(said)
    <2>1. PICK h \in Int : h = 5
      OBVIOUS
    <2>2. IsFiniteSet(1..h)
      BY FS_Interval
    <2>3. said \in SUBSET (1..h)
      BY <1>6, <2>1
    <2> QED BY <2>2, <2>3, FS_Subset
  <1>13. r \in Seq(said)
    BY <1>11, <1>12, RankedInOrder
  <1> HIDE DEF r
  <1>14. top \in Seq(said) /\ DOMAIN top = 1..Len(top) /\ Len(top) \in Nat
    BY <1>4, <1>13, FirstThreeOf
  <1>15. \A k \in DOMAIN top : top[k] \in said
    BY <1>14
  <1>16. top \in Seq(1..5)
    <2>1. PICK Z : Z = 1..5
      OBVIOUS
    <2>2. said \in SUBSET Z
      BY <1>6, <2>1
    <2>3. top \in Seq(Z)
      BY <1>14, <1>15, <2>2
    <2> QED BY <2>1, <2>3
  <1>17. \A k \in DOMAIN top : \E n \in H : top[k] \in Metrics!Range(sheet[n].channels)
    BY <1>7, <1>15
  <1> QED BY <1>14, <1>16, <1>17 DEF top, H

\* Channels are recommended for people who would buy.
LEMMA ChannelsAlwaysBacked == Metrics!TypeOK => Metrics!ChannelsBacked
  <1> SUFFICES ASSUME Metrics!TypeOK PROVE Metrics!ChannelsBacked
    OBVIOUS
  <1> DEFINE H == Metrics!HighIntent(sheet)
             top == Metrics!TopChannels(sheet)
             groups == Metrics!ChannelSegments(sheet)
  <1>1. /\ H \in SUBSET (DOMAIN sheet) /\ \A n \in H : sheet[n].intent >= 3
        /\ (\E n \in DOMAIN sheet : sheet[n].intent >= 4) => \A n \in H : sheet[n].intent >= 4
    BY HighIntentIs
  <1>2. /\ top \in Seq(1..5) /\ DOMAIN top = 1..Len(top) /\ Len(top) \in Nat
        /\ \A k \in DOMAIN top : \E n \in H : top[k] \in Metrics!Range(sheet[n].channels)
    BY ChannelsAre
  <1>3. \A g : g \in groups <=> \E c \in Metrics!Range(top) : \E n \in Metrics!Listeners(sheet, c) : g = sheet[n].group
    BY DEF Metrics!ChannelSegments
  <1>4. \A c, n : n \in Metrics!Listeners(sheet, c) <=> n \in H /\ c \in Metrics!Range(sheet[n].channels)
    BY DEF Metrics!Listeners
  <1> HIDE DEF H, top, groups
  <1>5. \A c : c \in Metrics!Range(top) <=> \E k \in DOMAIN top : c = top[k]
    BY DEF Metrics!Range
  <1>6. ASSUME top # <<>> PROVE groups # {}
    <2>1. 1 \in DOMAIN top
      BY <1>2, <1>6, EmptySeq
    <2>2. PICK n \in H : top[1] \in Metrics!Range(sheet[n].channels)
      BY <1>2, <2>1
    <2>3. sheet[n].group \in groups
      BY <1>3, <1>4, <1>5, <2>1, <2>2
    <2> QED BY <2>3
  <1>7. ASSUME groups # {} PROVE top # <<>>
    <2>1. PICK k : k \in DOMAIN top
      BY <1>3, <1>5, <1>7
    <2>2. Len(top) # 0
      BY <1>2, <2>1
    <2> QED BY <2>2
  <1>8. ASSUME NEW c \in Metrics!Range(top)
        PROVE  \E n \in DOMAIN sheet : c \in Metrics!Range(sheet[n].channels) /\ sheet[n].intent >= 3
    BY <1>1, <1>2, <1>5, <1>8
  <1>9. ASSUME \E n \in DOMAIN sheet : sheet[n].intent >= 4, NEW g \in groups
        PROVE  \E n \in DOMAIN sheet : sheet[n].group = g /\ sheet[n].intent >= 4
    BY <1>1, <1>3, <1>4, <1>9
  <1> QED BY <1>6, <1>7, <1>8, <1>9 DEF Metrics!ChannelsBacked, top, groups

-----------------------------------------------------------------------------
(* The statements                                                          *)

\* A sheet with answers has a quote for the evidence chain.
LEMMA ChainIsQuoted ==
    ASSUME Metrics!TypeOK, sheet # <<>>
    PROVE  Metrics!ChainQuotes(sheet) # <<>>
  <1> DEFINE I == Metrics!ItemType
             listed == Metrics!Themed(sheet, TRUE)
             body == [i \in I |-> [quotes \in Seq(Nat) |-> quotes \o i.quotes]]
             all(s) == Fold(body, <<>>, s)
             P == {s \in Seq(I) : (\E k \in DOMAIN s : s[k].quotes # <<>>) => all(s) # <<>>}
  <1>1. listed \in Seq(I) /\ DOMAIN listed = 1..Len(listed) /\ Len(listed) \in Nat /\ Len(listed) >= 1
    BY ThemedIs
  <1>2. listed[1].quotes # <<>>
    <2>1. 1 \in DOMAIN listed
      <3> HIDE DEF listed, I
      <3> QED BY <1>1
    <2>2. PICK W \in SUBSET (DOMAIN sheet) :
            /\ listed[1].support = Cardinality(W) /\ Cardinality(W) \in Nat /\ IsFiniteSet(W)
            /\ Len(listed[1].quotes) = IF listed[1].support <= 3 THEN listed[1].support ELSE 3
            /\ sheet # <<>> => W # {}
      BY <2>1, ThemedHas
    <2> HIDE DEF listed
    <2>3. Cardinality(W) # 0
      BY <2>2, FS_EmptySet
    <2>4. Len(listed[1].quotes) # 0
      <3> DEFINE n == listed[1].support
                 m == Len(listed[1].quotes)
      <3>1. n = Cardinality(W) /\ m = IF n <= 3 THEN n ELSE 3
        BY <2>2
      <3> HIDE DEF n, m
      <3>2. m # 0
        BY <2>2, <2>3, <3>1
      <3> QED BY <3>2 DEF m
    <2> QED BY <2>4
  <1>3. \A i \in I : i.quotes \in Seq(Nat)
    BY DEF Metrics!ItemType
  <1>4. Metrics!ChainQuotes(sheet) = Metrics!FirstThree(all(listed))
    BY MetricsSame DEF Metrics!ChainQuotes
  <1> HIDE DEF I, listed
  <1>5. IsBody(body, <<>>, Seq(Nat), I)
    <2>1. \A i \in I : \A q \in Seq(Nat) : q \o i.quotes \in Seq(Nat)
      BY <1>3
    <2>2. body \in [I -> [Seq(Nat) -> Seq(Nat)]]
      BY <2>1
    <2>3. <<>> \in Seq(Nat)
      OBVIOUS
    <2> QED BY <2>2, <2>3 DEF IsBody
  <1>6. \A i \in I : \A q \in Seq(Nat) : body[i][q] = q \o i.quotes
    OBVIOUS
  <1> HIDE DEF body
  <1>7. /\ all(<<>>) = <<>> /\ \A s \in Seq(I) : all(s) \in Seq(Nat)
        /\ \A s \in Seq(I), i \in I : all(Append(s, i)) = body[i][all(s)]
    BY <1>5, FoldSteps
  <1> HIDE DEF all
  <1>8. \A s \in Seq(I), i \in I : all(Append(s, i)) = all(s) \o i.quotes
    BY <1>6, <1>7
  <1>9. <<>> \in P
    <2>1. <<>> \in Seq(I) /\ DOMAIN <<>> = {}
      OBVIOUS
    <2> QED BY <2>1
  <1>10. ASSUME NEW s \in P, NEW i \in I PROVE Append(s, i) \in P
    <2>1. s \in Seq(I) /\ ((\E k \in DOMAIN s : s[k].quotes # <<>>) => all(s) # <<>>)
      BY <1>10
    <2>2. Append(s, i) \in Seq(I) /\ Len(s) \in Nat /\ DOMAIN s = 1..Len(s)
      BY <2>1
    <2>3. all(Append(s, i)) = all(s) \o i.quotes /\ all(s) \in Seq(Nat) /\ i.quotes \in Seq(Nat)
      BY <1>3, <1>7, <1>8, <2>1
    <2>4. ASSUME NEW k \in DOMAIN Append(s, i), Append(s, i)[k].quotes # <<>>
          PROVE  all(s) # <<>> \/ i.quotes # <<>>
      <3>1. CASE k \in DOMAIN s
        <4>1. Append(s, i)[k] = s[k]
          BY <2>1, <2>2, <3>1
        <4> QED BY <2>1, <2>4, <3>1, <4>1
      <3>2. CASE k = Len(s) + 1
        <4>1. Append(s, i)[k] = i
          BY <2>1, <2>2, <3>2
        <4> QED BY <2>4, <4>1
      <3>3. k \in DOMAIN s \/ k = Len(s) + 1
        <4>1. DOMAIN Append(s, i) = 1..(Len(s) + 1)
          BY <2>1, <2>2
        <4> QED BY <2>2, <2>4, <4>1
      <3> QED BY <3>1, <3>2, <3>3
    <2>5. ASSUME all(s) # <<>> \/ i.quotes # <<>> PROVE all(Append(s, i)) # <<>>
      <3> DEFINE a == all(s) b == i.quotes
      <3>1. a \in Seq(Nat) /\ b \in Seq(Nat) /\ (a # <<>> \/ b # <<>>)
        BY <2>3, <2>5
      <3> HIDE DEF a, b
      <3>2. Len(a \o b) = Len(a) + Len(b) /\ Len(a) \in Nat /\ Len(b) \in Nat
        BY <3>1
      <3>3. Len(a) # 0 \/ Len(b) # 0
        BY <3>1, EmptySeq
      <3>4. Len(a \o b) # 0
        BY <3>2, <3>3
      <3>5. a \o b # <<>>
        BY <3>4
      <3> QED BY <2>3, <3>5 DEF a, b
    <2> QED BY <2>2, <2>4, <2>5
  <1>11. P \in SUBSET Seq(I)
    OBVIOUS
  <1> HIDE DEF P
  <1>12. P = Seq(I)
    BY <1>9, <1>10, <1>11, AllSequences
  <1>13. all(listed) # <<>> /\ all(listed) \in Seq(Nat)
    <2>1. listed \in P /\ 1 \in DOMAIN listed
      BY <1>1, <1>12
    <2> QED BY <1>1, <1>2, <1>7, <2>1 DEF P
  <1> DEFINE a == all(listed)
  <1>14. a \in Seq(Nat) /\ a # <<>> /\ Metrics!ChainQuotes(sheet) = Metrics!FirstThree(a)
    BY <1>4, <1>13
  <1> HIDE DEF a
  <1>15. Len(Metrics!FirstThree(a)) = IF Len(a) <= 3 THEN Len(a) ELSE 3
    BY <1>14, FirstThreeOf
  <1>16. Len(a) # 0 /\ Len(a) \in Nat
    BY <1>14, EmptySeq
  <1>17. Len(Metrics!FirstThree(a)) # 0
    BY <1>15, <1>16
  <1>18. Metrics!FirstThree(a) # <<>>
    BY <1>17
  <1> QED BY <1>14, <1>18

\* Every statement has a voice.
LEMMA StatementsAlwaysQuoted == Metrics!TypeOK => Metrics!StatementsQuoted
  <1> SUFFICES ASSUME Metrics!TypeOK PROVE Metrics!StatementsQuoted
    OBVIOUS
  <1>1. sheet # <<>> => Metrics!ChainQuotes(sheet) # <<>>
    BY ChainIsQuoted
  <1>2. ASSUME NEW p \in BOOLEAN, NEW i \in Metrics!Range(Metrics!Themed(sheet, p)), i.theme # 0,
               NEW n \in Metrics!Range(i.quotes)
        PROVE  i.theme \in Metrics!Mentions(sheet[n], p)
    <2> DEFINE listed == Metrics!Themed(sheet, p)
               top == Metrics!TopThemes(sheet, p)
    <2>1. PICK k \in DOMAIN listed : i = listed[k]
      BY <1>2 DEF Metrics!Range
    <2>2. PICK W \in SUBSET (DOMAIN sheet) :
            /\ DOMAIN i.quotes = 1..Len(i.quotes)
            /\ \A j \in DOMAIN i.quotes : i.quotes[j] \in W
            /\ i.theme # 0 => /\ k \in DOMAIN top /\ i.theme = top[k]
                              /\ i.theme \in Metrics!Themes(p)
                              /\ W = Metrics!Supporters(sheet, p, i.theme)
      BY <2>1, ThemedHas
    <2>3. n \in W
      BY <1>2, <2>2 DEF Metrics!Range
    <2> QED BY <1>2, <2>2, <2>3, SupportersAre
  <1>3. \A x \in Nat : Metrics!AtMostFour(x) \in Nat /\ Metrics!AtMostFour(x) > 0
    <2> TAKE x \in Nat
    <2>1. Metrics!Min({4, x}) = IF 4 <= x THEN 4 ELSE x
      BY MetricsSame
    <2> DEFINE y == Metrics!Min({4, x})
    <2>2. y \in Int
      BY <2>1
    <2> HIDE DEF y
    <2>3. Metrics!Max({1, y}) = IF 1 <= y THEN y ELSE 1
      BY <2>2, MetricsSame
    <2> QED BY <2>2, <2>3 DEF Metrics!AtMostFour, y
  <1>4. /\ Metrics!Article(sheet)[1] > 0 /\ Metrics!Article(sheet)[2] > 0 /\ Metrics!Article(sheet)[3] > 0
        /\ Len(Metrics!Article(sheet)) = 3
    <2>1. Metrics!AnglesSection(sheet) > 0
      <3> DEFINE listed == Metrics!Themed(sheet, TRUE)
                 angles == Metrics!MarketingAngles(sheet)
      <3>1. DOMAIN listed = 1..Len(listed) /\ Len(listed) \in Nat
        BY ThemedIs
      <3>2. DOMAIN angles = DOMAIN listed
        BY DEF Metrics!MarketingAngles
      <3>3. Len(angles) = Len(listed)
        <4> HIDE DEF angles, listed
        <4> QED BY <3>1, <3>2
      <3> HIDE DEF angles, listed
      <3> QED BY <1>3, <3>1, <3>3 DEF Metrics!AnglesSection, angles
    <2>2. Metrics!MarketFitSection(sheet) > 0
      <3>1. Len(Metrics!NextTests(sheet)) = 3
        BY DEF Metrics!NextTests
      <3> QED BY <1>3, <3>1 DEF Metrics!MarketFitSection
    <2>3. Metrics!ColdSection > 0
      BY DEF Metrics!ColdSection
    <2> QED BY <2>1, <2>2, <2>3 DEF Metrics!Article
  <1>5. ASSUME NEW deep \in Metrics!DeepReplies PROVE Metrics!DeepSections(sheet, deep) > 0
    <2> DEFINE full == {k \in DOMAIN deep : deep[k]}
    <2>1. IsFiniteSet(DOMAIN deep)
      <3>1. CASE deep = <<>>
        BY <3>1, FS_EmptySet
      <3>2. CASE \E n \in 1..2 : deep \in [1..n -> BOOLEAN]
        <4>1. PICK n \in 1..2 : deep \in [1..n -> BOOLEAN]
          BY <3>2
        <4>2. DOMAIN deep = 1..n /\ n \in Int
          BY <4>1
        <4> QED BY <4>2, FS_Interval
      <3> QED BY <3>1, <3>2 DEF Metrics!DeepReplies
    <2>2. IsFiniteSet(full)
      BY <2>1, FS_Subset
    <2> HIDE DEF full
    <2>3. Cardinality(full) \in Nat /\ Metrics!Cardinality(full) = Cardinality(full)
      BY <2>2, FS_CardinalityType, MetricsSame
    <2>4. Metrics!DeepSections(sheet, deep) =
            IF Metrics!Cardinality(full) = 0 THEN Len(Metrics!Article(sheet)) ELSE Metrics!Cardinality(full)
      BY Zenon DEF Metrics!DeepSections, full
    <2> QED BY <1>4, <2>3, <2>4
  <1>6. \A n \in 1..3 : Metrics!Article(sheet)[n] > 0
    BY <1>4
  <1> QED BY <1>1, <1>2, <1>5, <1>6 DEF Metrics!StatementsQuoted

\* What a reader of a report compares agrees, on every sheet of answers.
LEMMA FiguresAgreeAlways == Metrics!TypeOK => Metrics!FiguresAgree /\ Metrics!ToldAsCounted
  BY SharesAlwaysFit, VerdictAlwaysHasGroup, MedianAlwaysOfPeople, HeatmapAlwaysAgrees, ThemesAlwaysRanked,
     GradeAlwaysFits, DocumentAlwaysAddsUp, ChannelsAlwaysBacked, StatementsAlwaysQuoted
     DEF Metrics!FiguresAgree, Metrics!ToldAsCounted

-----------------------------------------------------------------------------
(* All figures                                                             *)

\* The figures of a report have nothing but their answers, which only grow.
LEMMA MetricsTyped == Spec => [](part = "metrics" => Metrics!TypeOK)
  <1> DEFINE Inv == part = "metrics" => Metrics!TypeOK
  <1>1. /\ Answers \subseteq Metrics!AnswerType /\ RunSizes \subseteq Nat /\ MaxRuns \in Nat
    BY ServicesAssumption DEF Metrics!MetricsAssumption
  <1>2. Init => Inv
    <2> SUFFICES ASSUME Metrics!Init PROVE Metrics!TypeOK
      BY DEF Init
    <2>1. <<>> \in Seq(Metrics!AnswerType)
      OBVIOUS
    <2> QED BY <1>1, <2>1 DEF Metrics!Init, Metrics!TypeOK
  <1>3. ASSUME Metrics!TypeOK, Metrics!Next \/ UNCHANGED metricsVars PROVE Metrics!TypeOK'
    <2>1. CASE UNCHANGED metricsVars
      BY <1>3, <2>1 DEF metricsVars, Metrics!TypeOK
    <2>2. ASSUME NEW T, sheet \in Seq(T), NEW a \in T, NEW n \in Nat
          PROVE  sheet \o [k \in 1..n |-> a] \in Seq(T)
      <3>1. [k \in 1..n |-> a] \in Seq(T)
        BY <2>2, IsASeq
      <3> DEFINE run == [k \in 1..n |-> a]
      <3> HIDE DEF run
      <3> QED BY <2>2, <3>1, ConcatProperties DEF run
    <2>3. CASE Metrics!Next
      <3>1. PICK a \in Answers, n \in RunSizes : Metrics!Answer(a, n)
        BY <2>3 DEF Metrics!Next
      <3>2. sheet' \in Seq(Metrics!AnswerType)
        BY <1>1, <1>3, <2>2, <3>1 DEF Metrics!Answer, Metrics!TypeOK
      <3>3. runs' \in 0..MaxRuns
        BY <1>1, <1>3, <3>1 DEF Metrics!Answer, Metrics!TypeOK
      <3> QED BY <3>2, <3>3 DEF Metrics!TypeOK
    <2> QED BY <1>3, <2>1, <2>3
  <1>4. Inv /\ [Next]_vars => Inv'
    BY <1>3, PartSteps
  <1> QED BY <1>2, <1>4, PTL DEF Spec

(* What a reader of a report compares agrees, for any sheet of answers, any  *)
(* answers, sizes of runs and number of them: the shares fit, the verdict has *)
(* a group, the price is a median of the people, the heatmap and the radar    *)
(* agree, themes and channels are backed, statements quoted and the document  *)
(* adds up.                                                                   *)
THEOREM FiguresAlwaysHold == Spec => []FiguresHold
  <1>1. (part = "metrics" => Metrics!TypeOK) => FiguresHold
    BY FiguresAgreeAlways DEF FiguresHold
  <1> QED BY <1>1, MetricsTyped, PTL
==============================================================================
