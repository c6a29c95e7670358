---------------------------- MODULE NumberLemmas ----------------------------
(***************************************************************************)
(* What the proofs need to know about numbers: quotients and remainders by *)
(* any positive number, as the round robins, the chunks of the judge and   *)
(* the groups of workers use them; least numbers, which stand in for       *)
(* induction; the positions of elements in an order; and sums of lengths,  *)
(* which are counted here as the units they consist of.                    *)
(***************************************************************************)
EXTENDS Integers, FiniteSets, FiniteSetTheorems, WellFoundedInduction, TLAPS

\* One more step of n: a multiple of n below another is n below it.
LEMMA Mono ==
  ASSUME NEW n \in Nat \ {0}, NEW a \in Int, NEW b \in Int, a < b
  PROVE  n * a + n <= n * b
<1>1. b - a - 1 >= 0
  OBVIOUS
<1>2. n * (b - a - 1) >= 0
  BY <1>1
<1>3. n * (b - a - 1) = n * b - n * a - n
  OBVIOUS
<1> QED BY <1>2, <1>3

\* What quotient and remainder are.
LEMMA DivMod ==
  ASSUME NEW n \in Nat \ {0}, NEW x \in Int
  PROVE  /\ x \div n \in Int /\ x % n \in 0..(n - 1)
         /\ x = n * (x \div n) + (x % n)
<1>1. n \in Int /\ n > 0
  OBVIOUS
<1>2. x \div n \in Int
  OBVIOUS
<1>3. x % n \in 0..(n - 1)
  OBVIOUS
<1>4. x = n * (x \div n) + (x % n)
  BY <1>1, Z3
<1> QED  BY <1>2, <1>3, <1>4

\* There is one quotient and one remainder.
LEMMA Unique ==
  ASSUME NEW n \in Nat \ {0}, NEW a \in Int, NEW b \in Int,
         NEW r \in 0..(n - 1), NEW s \in 0..(n - 1), n * a + r = n * b + s
  PROVE  a = b /\ r = s
<1>1. CASE a < b
  BY <1>1, Mono
<1>2. CASE b < a
  BY <1>2, Mono
<1>3. CASE a = b
  BY <1>3
<1> QED BY <1>1, <1>2, <1>3

\* So whatever looks like quotient and remainder is.
LEMMA DivModOf ==
  ASSUME NEW n \in Nat \ {0}, NEW q \in Int, NEW r \in 0..(n - 1)
  PROVE  (n * q + r) \div n = q /\ (n * q + r) % n = r
<1> DEFINE x == n * q + r
<1>1. x \in Int
  OBVIOUS
<1>2. /\ x \div n \in Int /\ x % n \in 0..(n - 1)
      /\ x = n * (x \div n) + (x % n)
  BY <1>1, DivMod
<1> QED BY <1>2, Unique

\* The remainder of the successor: one more, or back to zero.
LEMMA ModSuccessor ==
  ASSUME NEW n \in Nat \ {0}, NEW x \in Nat
  PROVE  (x + 1) % n = IF (x % n) + 1 = n THEN 0 ELSE (x % n) + 1
<1> DEFINE q == x \div n
<1>1. q \in Int /\ x % n \in 0..(n - 1) /\ x = n * q + (x % n)
  BY DivMod
<1> HIDE DEF q
<1>2. CASE (x % n) + 1 = n
  <2>1. x + 1 = n * (q + 1) + 0
    BY <1>1, <1>2
  <2>2. q + 1 \in Int /\ 0 \in 0..(n - 1)
    BY <1>1
  <2>3. (n * (q + 1) + 0) % n = 0
    BY <2>2, DivModOf
  <2> QED  BY <1>2, <2>1, <2>3
<1>3. CASE (x % n) + 1 # n
  <2>1. x + 1 = n * q + ((x % n) + 1) /\ (x % n) + 1 \in 0..(n - 1)
    BY <1>1, <1>3
  <2> QED  BY <1>1, <1>3, <2>1, DivModOf
<1> QED  BY <1>2, <1>3

\* Fewer than n successive numbers have different remainders.
LEMMA ModInjective ==
  ASSUME NEW n \in Nat \ {0}, NEW x \in Nat,
         NEW i \in 0..(n - 1), NEW j \in 0..(n - 1),
         (x + i) % n = (x + j) % n
  PROVE  i = j
<1> DEFINE p == (x + i) \div n
           q == (x + j) \div n
           r == (x + i) % n
<1>1. /\ p \in Int /\ q \in Int /\ r \in 0..(n - 1)
      /\ x + i = n * p + r /\ x + j = n * q + r
  <2>1. x + i \in Int /\ x + j \in Int
    OBVIOUS
  <2>2. p \in Int /\ r \in 0..(n - 1) /\ x + i = n * p + r
    BY <2>1, DivMod
  <2>3. q \in Int /\ x + j = n * q + ((x + j) % n)
    BY <2>1, DivMod
  <2> QED  BY <2>2, <2>3
<1> HIDE DEF p, q, r
<1>2. CASE p < q
  BY <1>1, <1>2, Mono
<1>3. CASE q < p
  BY <1>1, <1>3, Mono
<1>4. CASE p = q
  BY <1>1, <1>4
<1> QED  BY <1>1, <1>2, <1>3, <1>4

-----------------------------------------------------------------------------
\* Every nonempty set of numbers has a smallest one.
LEMMA SmallestNumber ==
  ASSUME NEW K \in SUBSET Nat, K # {}
  PROVE  \E j \in K : \A k \in K : j <= k
<1>1. PICK j \in K : \A k \in K : ~(<<k, j>> \in OpToRel(<, Nat))
  BY WFMin, NatLessThanWellFounded
<1>2. \A k \in K : ~(k < j)
  BY <1>1 DEF OpToRel
<1> QED  BY <1>2

\* A bounded nonempty set of numbers has a largest one.
LEMMA LargestNumber ==
  ASSUME NEW K \in SUBSET Nat, K # {}, NEW m \in Nat, \A k \in K : k <= m
  PROVE  \E j \in K : \A k \in K : k <= j
<1> DEFINE U == {b \in Nat : \A k \in K : k <= b}
<1>1. U \in SUBSET Nat /\ U # {}
  OBVIOUS
<1>2. PICK b \in U : \A c \in U : b <= c
  BY <1>1, SmallestNumber
<1>3. CASE b \in K
  BY <1>2, <1>3
<1>4. CASE b \notin K
  <2>1. PICK k \in K : TRUE
    OBVIOUS
  <2>2. \A i \in K : i < b
    BY <1>2, <1>4
  <2>3. b - 1 \in Nat /\ \A i \in K : i <= b - 1
    BY <2>1, <2>2, <1>2
  <2>4. b - 1 \in U
    BY <2>3
  <2> QED  BY <1>2, <2>4
<1> QED  BY <1>3, <1>4

-----------------------------------------------------------------------------
\* Of a finite set in a strict total order, pre[x] being what is before x,
\* the n-th element has n - 1 before it, and there is one for every n.
LEMMA Ranking ==
  ASSUME NEW S, IsFiniteSet(S), NEW pre \in [S -> SUBSET S],
         \A x \in S : x \notin pre[x],
         \A x, y \in S : x # y => x \in pre[y] \/ y \in pre[x],
         \A x, y \in S : x \in pre[y] => pre[x] \subseteq pre[y]
  PROVE  /\ \A x \in S : Cardinality(pre[x]) \in 0..(Cardinality(S) - 1)
         /\ \A x, y \in S : x \in pre[y] => Cardinality(pre[x]) < Cardinality(pre[y])
         /\ \A x, y \in S : Cardinality(pre[x]) = Cardinality(pre[y]) => x = y
         /\ \A i \in 0..(Cardinality(S) - 1) : \E x \in S : Cardinality(pre[x]) = i
<1> DEFINE n == Cardinality(S)
           rank == [x \in S |-> Cardinality(pre[x])]
<1>1. n \in Nat
  BY FS_CardinalityType
<1>2. \A x \in S : IsFiniteSet(pre[x]) /\ Cardinality(pre[x]) \in Nat
  <2> SUFFICES ASSUME NEW x \in S
               PROVE  IsFiniteSet(pre[x]) /\ Cardinality(pre[x]) \in Nat
    OBVIOUS
  <2>1. pre[x] \in SUBSET S
    OBVIOUS
  <2> QED  BY <2>1, FS_Subset, FS_CardinalityType
<1>3. \A x \in S : Cardinality(pre[x]) < n
  <2> SUFFICES ASSUME NEW x \in S PROVE Cardinality(pre[x]) < n
    OBVIOUS
  <2>1. pre[x] \in SUBSET S /\ pre[x] # S
    OBVIOUS
  <2>2. Cardinality(pre[x]) <= n /\ Cardinality(pre[x]) # n
    BY <2>1, FS_Subset
  <2> QED  BY <2>2, <1>1, <1>2
<1>4. \A x, y \in S : x \in pre[y] => Cardinality(pre[x]) < Cardinality(pre[y])
  <2> SUFFICES ASSUME NEW x \in S, NEW y \in S, x \in pre[y]
               PROVE  Cardinality(pre[x]) < Cardinality(pre[y])
    OBVIOUS
  <2>1. pre[x] \in SUBSET pre[y] /\ pre[x] # pre[y]
    OBVIOUS
  <2>2. /\ Cardinality(pre[x]) <= Cardinality(pre[y])
        /\ Cardinality(pre[x]) # Cardinality(pre[y])
    BY <2>1, <1>2, FS_Subset
  <2> QED  BY <2>2, <1>2
<1>5. \A x, y \in S : Cardinality(pre[x]) = Cardinality(pre[y]) => x = y
  <2> SUFFICES ASSUME NEW x \in S, NEW y \in S, x # y
               PROVE  Cardinality(pre[x]) # Cardinality(pre[y])
    OBVIOUS
  <2>1. x \in pre[y] \/ y \in pre[x]
    OBVIOUS
  <2>2. \/ Cardinality(pre[x]) < Cardinality(pre[y])
        \/ Cardinality(pre[y]) < Cardinality(pre[x])
    BY <2>1, <1>4
  <2> QED  BY <2>2, <1>2
<1>6. IsFiniteSet(0..(n - 1)) /\ Cardinality(0..(n - 1)) = n
  BY <1>1, FS_Interval
<1>7. \A x \in S : Cardinality(pre[x]) \in 0..(n - 1)
  BY <1>1, <1>2, <1>3
<1>8. rank \in Injection(S, 0..(n - 1))
  BY <1>5, <1>7 DEF Injection, IsInjective
<1>9. rank \in Surjection(S, 0..(n - 1))
  BY <1>6, <1>8, FS_Injection
<1>10. \A i \in 0..(n - 1) : \E x \in S : rank[x] = i
  BY <1>9 DEF Surjection
<1> QED  BY <1>4, <1>5, <1>7, <1>10

-----------------------------------------------------------------------------
\* The sum of the lengths w[x] of the members x of T, none longer than m:
\* a length is counted as that many units.
Units(m, w, T) == {u \in T \X (1..m) : u[2] <= w[u[1]]}

Total(m, w, T) == Cardinality(Units(m, w, T))

\* A sum is a number, and no sum is the sum of nothing.
LEMMA TotalType ==
  ASSUME NEW m \in Nat, NEW T, IsFiniteSet(T), NEW w
  PROVE  /\ IsFiniteSet(Units(m, w, T)) /\ Total(m, w, T) \in Nat
         /\ Total(m, w, {}) = 0
<1>1. IsFiniteSet(T \X (1..m))
  <2>1. IsFiniteSet(1..m)
    BY FS_Interval
  <2> QED  BY <2>1, FS_Product
<1>2. Units(m, w, T) \in SUBSET (T \X (1..m))
  BY DEF Units
<1>3. IsFiniteSet(Units(m, w, T))
  BY <1>1, <1>2, FS_Subset
<1>4. Units(m, w, {}) = {}
  BY DEF Units
<1> QED  BY <1>3, <1>4, FS_CardinalityType, FS_EmptySet DEF Total

\* The lengths of disjoint sets add up.
LEMMA TotalUnion ==
  ASSUME NEW m \in Nat, NEW w, NEW S, IsFiniteSet(S), NEW T, IsFiniteSet(T),
         S \cap T = {}
  PROVE  Total(m, w, S \cup T) = Total(m, w, S) + Total(m, w, T)
<1>1. /\ IsFiniteSet(Units(m, w, S)) /\ Total(m, w, S) \in Nat
      /\ IsFiniteSet(Units(m, w, T)) /\ Total(m, w, T) \in Nat
  BY TotalType
<1>2. Units(m, w, S \cup T) = Units(m, w, S) \cup Units(m, w, T)
  BY DEF Units
<1>3. Units(m, w, S) \cap Units(m, w, T) = {}
  BY DEF Units
<1>4. Cardinality(Units(m, w, S) \cap Units(m, w, T)) = 0
  BY <1>3, FS_EmptySet
<1> QED  BY <1>1, <1>2, <1>4, FS_Union DEF Total

\* The length of one member.
LEMMA TotalSingle ==
  ASSUME NEW m \in Nat, NEW w, NEW x, w[x] \in 0..m
  PROVE  Total(m, w, {x}) = w[x]
<1> DEFINE f == [c \in 1..w[x] |-> <<x, c>>]
<1>1. f \in Bijection(1..w[x], Units(m, w, {x}))
  <2>1. f \in [1..w[x] -> Units(m, w, {x})]
    <3> SUFFICES ASSUME NEW c \in 1..w[x] PROVE <<x, c>> \in Units(m, w, {x})
      OBVIOUS
    <3>1. c \in 1..m /\ c <= w[x]
      OBVIOUS
    <3> QED  BY <3>1 DEF Units
  <2>2. \A c, d \in 1..w[x] : f[c] = f[d] => c = d
    OBVIOUS
  <2>3. \A u \in Units(m, w, {x}) : u[2] \in 1..w[x] /\ f[u[2]] = u
    BY DEF Units
  <2> QED  BY <2>1, <2>2, <2>3 DEF Bijection, Injection, Surjection, IsInjective
<1>2. ExistsBijection(1..w[x], Units(m, w, {x}))
  BY <1>1 DEF ExistsBijection
<1>3. Cardinality(Units(m, w, {x})) = w[x]
  BY <1>2, FS_CountingElements
<1> QED  BY <1>3 DEF Total

\* A set and one member more.
LEMMA TotalAdd ==
  ASSUME NEW m \in Nat, NEW w, NEW T, IsFiniteSet(T), NEW x, x \notin T,
         w[x] \in 0..m
  PROVE  Total(m, w, T \cup {x}) = Total(m, w, T) + w[x]
<1>1. T \cap {x} = {} /\ IsFiniteSet({x})
  BY FS_Singleton
<1> QED  BY <1>1, TotalUnion, TotalSingle

\* A sum is at least each of its terms.
LEMMA TotalMember ==
  ASSUME NEW m \in Nat, NEW w, NEW T, IsFiniteSet(T), NEW x \in T,
         w[x] \in 0..m
  PROVE  w[x] <= Total(m, w, T)
<1>1. IsFiniteSet(T \ {x}) /\ x \notin T \ {x} /\ T = (T \ {x}) \cup {x}
  BY FS_RemoveElement
<1>2. Total(m, w, T) = Total(m, w, T \ {x}) + w[x]
  BY <1>1, TotalAdd
<1>3. Total(m, w, T \ {x}) \in Nat
  BY <1>1, TotalType
<1> QED  BY <1>2, <1>3

\* Members renumbered have the same sum.
LEMMA TotalMoved ==
  ASSUME NEW m \in Nat, NEW S, IsFiniteSet(S), NEW T, NEW v, NEW w,
         NEW f \in Bijection(S, T), \A x \in S : v[x] = w[f[x]]
  PROVE  Total(m, v, S) = Total(m, w, T)
<1> DEFINE g == [u \in Units(m, v, S) |-> <<f[u[1]], u[2]>>]
<1>1. /\ f \in [S -> T] /\ \A x, y \in S : f[x] = f[y] => x = y
      /\ \A z \in T : \E x \in S : f[x] = z
  BY DEF Bijection, Injection, Surjection, IsInjective
<1>2. g \in Bijection(Units(m, v, S), Units(m, w, T))
  <2>1. g \in [Units(m, v, S) -> Units(m, w, T)]
    BY <1>1 DEF Units
  <2>2. \A u, z \in Units(m, v, S) : g[u] = g[z] => u = z
    BY <1>1 DEF Units
  <2>3. \A z \in Units(m, w, T) : \E u \in Units(m, v, S) : g[u] = z
    <3> SUFFICES ASSUME NEW z \in Units(m, w, T)
                 PROVE  \E u \in Units(m, v, S) : g[u] = z
      OBVIOUS
    <3>1. z \in T \X (1..m) /\ z[2] <= w[z[1]]
      BY DEF Units
    <3>2. PICK x \in S : f[x] = z[1]
      BY <1>1, <3>1
    <3>3. <<x, z[2]>> \in Units(m, v, S)
      BY <3>1, <3>2 DEF Units
    <3>4. g[<<x, z[2]>>] = z
      BY <3>1, <3>2, <3>3
    <3> QED  BY <3>3, <3>4
  <2> QED  BY <2>1, <2>2, <2>3 DEF Bijection, Injection, Surjection, IsInjective
<1>3. ExistsBijection(Units(m, v, S), Units(m, w, T))
  BY <1>2 DEF ExistsBijection
<1>4. IsFiniteSet(Units(m, v, S))
  BY TotalType
<1> QED  BY <1>3, <1>4, FS_Bijection DEF Total

\* If n disjoint parts are at least b long each, all of them together are at
\* least n * b long, and longer by what one of them has more than b.
LongParts(m, w, n, b, P) ==
  /\ \A j \in 1..n : IsFiniteSet(P[j]) /\ b <= Total(m, w, P[j])
  /\ \A i, j \in 1..n : i # j => P[i] \cap P[j] = {}

LongTogether(m, w, n, b, P, h) ==
  n * b - b + Total(m, w, P[h]) <= Total(m, w, UNION {P[j] : j \in 1..n})

LEMMA TotalOfParts ==
  ASSUME NEW m \in Nat, NEW w, NEW n \in Nat, NEW b \in Nat,
         NEW P, LongParts(m, w, n, b, P), NEW h \in 1..n
  PROVE  LongTogether(m, w, n, b, P, h)
<1> USE DEF LongParts, LongTogether
<1> DEFINE U(i) == UNION {P[j] : j \in 1..i}
           L(T) == Total(m, w, T)
           Good(i) == /\ IsFiniteSet(U(i)) /\ i * b <= L(U(i))
                      /\ h <= i => i * b - b + L(P[h]) <= L(U(i))
           Bad == {i \in 0..n : ~Good(i)}
<1>1. SUFFICES ASSUME Bad # {} PROVE FALSE
  <2>1. Good(n)
    <3>1. n \in 0..n
      OBVIOUS
    <3> HIDE DEF Good
    <3> QED  BY <1>1, <3>1
  <2>2. h <= n
    OBVIOUS
  <2> QED  BY <2>1, <2>2
<1>2. PICK i \in Bad : \A j \in Bad : i <= j
  <2>1. Bad \in SUBSET Nat
    OBVIOUS
  <2> HIDE DEF Bad
  <2> QED  BY <1>1, <2>1, SmallestNumber
<1>3. i \in 0..n /\ ~Good(i)
  BY <1>2
<1>4. i # 0
  <2> SUFFICES ASSUME i = 0 PROVE FALSE
    OBVIOUS
  <2>1. U(0) = {}
    OBVIOUS
  <2>2. IsFiniteSet({}) /\ L({}) = 0
    BY FS_EmptySet, TotalType
  <2>3. 0 * b = 0 /\ ~(h <= 0)
    OBVIOUS
  <2>4. IsFiniteSet(U(0)) /\ L(U(0)) = 0
    BY <2>1, <2>2
  <2>5. Good(0)
    <3> HIDE DEF U, L
    <3> QED  BY <2>3, <2>4
  <2> HIDE DEF Good
  <2> QED  BY <1>3, <2>5
<1>5. Good(i - 1)
  <2>1. i - 1 \in 0..n /\ ~(i <= i - 1)
    BY <1>3, <1>4
  <2> QED  BY <1>2, <2>1
<1> DEFINE S == U(i - 1)
<1>6. U(i) = S \cup P[i]
  <2>1. \A j \in 1..i : j \in 1..(i - 1) \/ j = i
    BY <1>3, <1>4
  <2>2. \A j \in 1..(i - 1) : j \in 1..i
    BY <1>3
  <2>3. i \in 1..i
    BY <1>3, <1>4
  <2> QED  BY <2>1, <2>2, <2>3
<1>7. S \cap P[i] = {}
  <2>1. \A j \in 1..(i - 1) : j \in 1..n /\ i \in 1..n /\ j # i
    BY <1>3, <1>4
  <2> QED  BY <2>1
<1>8. IsFiniteSet(P[i]) /\ b <= L(P[i]) /\ IsFiniteSet(S)
  BY <1>3, <1>4, <1>5
<1>9. L(U(i)) = L(S) + L(P[i]) /\ IsFiniteSet(U(i))
  <2> HIDE DEF U, L, S
  <2>1. Total(m, w, S \cup P[i]) = Total(m, w, S) + Total(m, w, P[i])
    BY <1>7, <1>8, TotalUnion
  <2>2. IsFiniteSet(S \cup P[i])
    BY <1>8, FS_Union
  <2>3. L(S \cup P[i]) = L(S) + L(P[i])
    BY <2>1 DEF L
  <2> QED  BY <1>6, <2>2, <2>3
<1>10. L(S) \in Nat /\ L(P[i]) \in Nat /\ L(P[h]) \in Nat
  BY <1>8, TotalType
<1>11. (i - 1) * b + b = i * b /\ (i - 1) * b \in Int /\ i * b \in Int
  BY <1>3, <1>4
<1>12. Good(i)
  <2> DEFINE x == i * b
             y == (i - 1) * b
             p == L(S)
             q == L(P[i])
             z == L(P[h])
  <2>1. y <= p /\ (h <= i - 1 => y - b + z <= p)
    BY <1>5
  <2>2. /\ x \in Int /\ y \in Int /\ x = y + b /\ p \in Nat /\ q \in Nat
        /\ z \in Nat /\ b <= q /\ i \in Int /\ h \in Int /\ (h = i => z = q)
    BY <1>3, <1>8, <1>10, <1>11
  <2>3. L(U(i)) = p + q /\ IsFiniteSet(U(i))
    BY <1>9
  <2> HIDE DEF U, L, x, y, p, q, z
  <2>4. x <= p + q /\ (h <= i => x - b + z <= p + q)
    BY <2>1, <2>2
  <2>5. x <= L(U(i)) /\ (h <= i => x - b + L(P[h]) <= L(U(i)))
    BY <2>3, <2>4 DEF z
  <2> QED  BY <2>3, <2>5 DEF x
<1> QED  BY <1>3, <1>12

\* What is computed step by step from a start exists.
Computed(f, n, F, a) == f[0] = a /\ \A i \in 1..n : f[i] = F[i][f[i - 1]]

LEMMA Recursion ==
  ASSUME NEW X, NEW n \in Nat, NEW F \in [1..n -> [X -> X]], NEW a \in X
  PROVE  \E f \in [0..n -> X] : Computed(f, n, F, a)
<1> DEFINE Fits(f, c) == f[0] = a /\ \A i \in 1..c : f[i] = F[i][f[i - 1]]
           Bad == {c \in 0..n : ~(\E f \in [0..c -> X] : Fits(f, c))}
<1>1. SUFFICES ASSUME Bad # {} PROVE FALSE
  <2>1. n \in 0..n
    OBVIOUS
  <2>2. \E f \in [0..n -> X] : Fits(f, n)
    BY <1>1, <2>1
  <2> QED  BY <2>2 DEF Computed
<1>2. PICK c \in Bad : \A d \in Bad : c <= d
  <2>1. Bad \in SUBSET Nat
    OBVIOUS
  <2> HIDE DEF Bad
  <2> QED  BY <1>1, <2>1, SmallestNumber
<1>3. c \in 0..n /\ ~(\E f \in [0..c -> X] : Fits(f, c))
  BY <1>2
<1>4. c # 0
  <2> DEFINE f == [i \in 0..0 |-> a]
  <2>1. f \in [0..0 -> X] /\ f[0] = a /\ 1..0 = {}
    OBVIOUS
  <2>2. Fits(f, 0)
    <3> HIDE DEF f
    <3> QED  BY <2>1
  <2> HIDE DEF f
  <2> QED  BY <1>3, <2>1, <2>2
<1>5. c - 1 \in 0..n /\ c - 1 \notin Bad
  <2>1. c - 1 \in 0..n /\ ~(c <= c - 1)
    BY <1>3, <1>4
  <2> QED  BY <1>2, <2>1
<1>6. PICK f \in [0..(c - 1) -> X] : Fits(f, c - 1)
  BY <1>5
<1> DEFINE h == [i \in 0..c |-> IF i = c THEN F[c][f[c - 1]] ELSE f[i]]
<1>7. F[c][f[c - 1]] \in X
  <2>1. f[c - 1] \in X /\ F[c] \in [X -> X]
    BY <1>3, <1>4
  <2> QED  BY <2>1
<1>8. h \in [0..c -> X]
  <2>1. \A i \in 0..c : i # c => i \in 0..(c - 1)
    BY <1>3
  <2> QED  BY <1>7, <2>1
<1>9. Fits(h, c)
  <2>1. h[0] = a
    BY <1>3, <1>4, <1>6
  <2>2. ASSUME NEW i \in 1..c PROVE h[i] = F[i][h[i - 1]]
    <3>1. i - 1 \in 0..c /\ i - 1 # c /\ h[i - 1] = f[i - 1]
      BY <1>3
    <3>2. CASE i = c
      BY <3>1, <3>2
    <3>3. CASE i # c
      <4>1. i \in 1..(c - 1) /\ h[i] = f[i]
        BY <1>3, <3>3
      <4> QED  BY <1>6, <3>1, <4>1
    <3> QED  BY <3>2, <3>3
  <2> HIDE DEF h
  <2> QED  BY <2>1, <2>2
<1> HIDE DEF h
<1> QED  BY <1>3, <1>8, <1>9
=============================================================================
