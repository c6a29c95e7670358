------------------------- MODULE RankBatchesProofs -------------------------
(***************************************************************************)
(* RankBatches.tla, with TrainingBatch.tla and SeqlenBalancing.tla, for    *)
(* every number of trajectories, ranks and rows and for all lengths: what  *)
(* karmarkar_karp returns is a level partition of the rows; the batch is   *)
(* the collected rows and their copies, whatever order balancing gave it   *)
(* (BatchInv); and the ranks, which cut their shards by length and see one *)
(* micro-batch at a time, give every row its own log-prob and every row of *)
(* a mini-batch its one equal share of the update (RankInv).               *)
(*                                                                         *)
(* The proofs proceed from sorting, over karmarkar_karp and its heap, to   *)
(* the driver's steps and then to those of the ranks.  Sums of lengths are *)
(* Totals, counts of units (NumberLemmas), so that they need no induction. *)
(***************************************************************************)
EXTENDS RankBatches, NumberLemmas, SequenceTheorems

-----------------------------------------------------------------------------
(***************************************************************************)
(* sorted(): every member once, in the order.                              *)
(***************************************************************************)
LEMMA Enumerated ==
  ASSUME NEW S, IsFiniteSet(S), NEW pre \in [S -> SUBSET S],
         \A x \in S : x \notin pre[x],
         \A x, y \in S : x # y => x \in pre[y] \/ y \in pre[x],
         \A x, y \in S : x \in pre[y] => pre[x] \subseteq pre[y],
         NEW f, NEW g, f = << >> \o g, g = [i \in 1..Cardinality(S) |-> g[i]],
         \A i \in 1..Cardinality(S) : \A x \in S :
           Cardinality(pre[x]) = i - 1 => g[i] \in S /\ Cardinality(pre[g[i]]) = i - 1
  PROVE  /\ f \in Bijection(1..Cardinality(S), S) /\ f \in Seq(S)
         /\ \A i, j \in 1..Cardinality(S) : i < j => f[i] \in pre[f[j]]
<1> DEFINE n == Cardinality(S)
<1>1. n \in Nat
  BY FS_CardinalityType
<1>2. /\ \A x \in S : Cardinality(pre[x]) \in 0..(n - 1)
      /\ \A x, y \in S : x \in pre[y] => Cardinality(pre[x]) < Cardinality(pre[y])
      /\ \A x, y \in S : Cardinality(pre[x]) = Cardinality(pre[y]) => x = y
      /\ \A i \in 0..(n - 1) : \E x \in S : Cardinality(pre[x]) = i
  BY Ranking
<1>3. \A i \in 1..n : g[i] \in S /\ Cardinality(pre[g[i]]) = i - 1
  <2> SUFFICES ASSUME NEW i \in 1..n
               PROVE  g[i] \in S /\ Cardinality(pre[g[i]]) = i - 1
    OBVIOUS
  <2>1. i - 1 \in 0..(n - 1)
    BY <1>1
  <2>2. \E x \in S : Cardinality(pre[x]) = i - 1
    BY <1>2, <2>1
  <2> QED  BY <2>2
<1>4. g \in [1..n -> S] /\ g \in Seq(S)
  BY <1>1, <1>3
<1>5. f = g
  BY <1>4
<1>6. \A i, j \in 1..n : f[i] = f[j] => i = j
  BY <1>1, <1>3, <1>5
<1>7. \A x \in S : \E i \in 1..n : f[i] = x
  <2> SUFFICES ASSUME NEW x \in S PROVE \E i \in 1..n : f[i] = x
    OBVIOUS
  <2> DEFINE i == Cardinality(pre[x]) + 1
  <2>1. i \in 1..n /\ Cardinality(pre[x]) = i - 1
    BY <1>1, <1>2
  <2>2. f[i] = x
    <3> HIDE DEF i
    <3> QED  BY <1>2, <1>3, <1>5, <2>1
  <2> QED  BY <2>1, <2>2
<1>8. \A i, j \in 1..n : i < j => f[i] \in pre[f[j]]
  <2> SUFFICES ASSUME NEW i \in 1..n, NEW j \in 1..n, i < j
               PROVE  f[i] \in pre[f[j]]
    OBVIOUS
  <2>1. f[i] \in S /\ f[j] \in S /\ f[i] # f[j]
    BY <1>1, <1>3, <1>5, <1>6
  <2>2. f[j] \notin pre[f[i]]
    <3>1. Cardinality(pre[f[j]]) = j - 1 /\ Cardinality(pre[f[i]]) = i - 1
      BY <1>3, <1>5
    <3> QED  BY <1>1, <1>2, <2>1, <3>1
  <2> QED  BY <2>1, <2>2
<1> QED  BY <1>4, <1>5, <1>6, <1>7, <1>8
     DEF Bijection, Injection, Surjection, IsInjective

\* The numbers of a set in increasing order.
LEMMA SortedNumbers ==
  ASSUME NEW S \in SUBSET Nat, IsFiniteSet(S)
  PROVE  /\ Sorted(S, <) \in Bijection(1..Cardinality(S), S)
         /\ Sorted(S, <) \in Seq(S)
<1> DEFINE pre == [x \in S |-> {y \in S : y < x}]
           g == [i \in 1..Cardinality(S) |->
                   CHOOSE x \in S : Cardinality({y \in S : y < x}) = i - 1]
           f == Sorted(S, <)
<1>1. pre \in [S -> SUBSET S] /\ \A x \in S : x \notin pre[x]
  OBVIOUS
<1>2. \A x, y \in S : x # y => x \in pre[y] \/ y \in pre[x]
  OBVIOUS
<1>3. \A x, y \in S : x \in pre[y] => pre[x] \subseteq pre[y]
  <2> SUFFICES ASSUME NEW x \in S, NEW y \in S, x < y, NEW z \in S, z < x
               PROVE  z < y
    OBVIOUS
  <2> QED  OBVIOUS
<1>4. f = << >> \o g /\ g = [i \in 1..Cardinality(S) |-> g[i]]
  BY DEF Sorted
<1>5. \A i \in 1..Cardinality(S) : \A x \in S :
        Cardinality(pre[x]) = i - 1 => g[i] \in S /\ Cardinality(pre[g[i]]) = i - 1
  <2> SUFFICES ASSUME NEW i \in 1..Cardinality(S), NEW x \in S,
                      Cardinality(pre[x]) = i - 1
               PROVE  g[i] \in S /\ Cardinality(pre[g[i]]) = i - 1
    OBVIOUS
  <2>1. Cardinality({y \in S : y < x}) = i - 1
    OBVIOUS
  <2>2. g[i] \in S /\ Cardinality({y \in S : y < g[i]}) = i - 1
    BY <2>1
  <2> QED  BY <2>2
<1> HIDE DEF pre, f, g
<1>6. f \in Bijection(1..Cardinality(S), S) /\ f \in Seq(S)
  BY <1>1, <1>2, <1>3, <1>4, <1>5, Enumerated
<1> QED  BY <1>6 DEF f

\* The rows by length, as FirstStates takes them.
ByLength(lens) ==
  Sorted(DOMAIN lens, LAMBDA i, j : lens[i] < lens[j] \/ (lens[i] = lens[j] /\ i < j))

\* That order lists every row once.
LEMMA SortedByLength ==
  ASSUME NEW lens \in Seq(Nat)
  PROVE  ByLength(lens) \in Bijection(1..Len(lens), DOMAIN lens)
<1> DEFINE S == DOMAIN lens
           Lt(i, j) == lens[i] < lens[j] \/ (lens[i] = lens[j] /\ i < j)
           pre == [x \in S |-> {y \in S : Lt(y, x)}]
           e(i) == CHOOSE x \in S : Cardinality({y \in S : Lt(y, x)}) = i - 1
           g == [i \in 1..Cardinality(S) |-> e(i)]
           f == ByLength(lens)
<1>1. IsFiniteSet(S) /\ Cardinality(S) = Len(lens)
  <2>1. S = 1..Len(lens) /\ Len(lens) \in Nat
    OBVIOUS
  <2>2. \A n \in Nat : IsFiniteSet(1..n) /\ Cardinality(1..n) = n
    BY FS_Interval
  <2> HIDE DEF S
  <2> QED  BY <2>1, <2>2
<1>2. \A x \in S : x \in Nat /\ lens[x] \in Nat
  OBVIOUS
<1>3. pre \in [S -> SUBSET S] /\ \A x \in S : x \notin pre[x]
  BY <1>2
<1>4. \A x, y \in S : x # y => x \in pre[y] \/ y \in pre[x]
  BY <1>2
<1>5. \A x, y \in S : x \in pre[y] => pre[x] \subseteq pre[y]
  <2> SUFFICES ASSUME NEW x \in S, NEW y \in S, Lt(x, y), NEW z \in S, Lt(z, x)
               PROVE  Lt(z, y)
    OBVIOUS
  <2> QED  BY <1>2
<1>6. f = << >> \o g /\ g = [i \in 1..Cardinality(S) |-> g[i]]
  <2>1. f = << >> \o g
    BY Zenon DEF Sorted, ByLength
  <2>2. g = [i \in 1..Cardinality(S) |-> g[i]]
    <3> HIDE DEF e
    <3> QED  OBVIOUS
  <2> HIDE DEF f, g
  <2> QED  BY <2>1, <2>2
<1>7. \A i \in 1..Cardinality(S) : \A x \in S :
        Cardinality(pre[x]) = i - 1 => g[i] \in S /\ Cardinality(pre[g[i]]) = i - 1
  <2> SUFFICES ASSUME NEW i \in 1..Cardinality(S), NEW x \in S,
                      Cardinality(pre[x]) = i - 1
               PROVE  g[i] \in S /\ Cardinality(pre[g[i]]) = i - 1
    OBVIOUS
  <2>1. \A z \in S : pre[z] = {y \in S : Lt(y, z)}
    OBVIOUS
  <2> HIDE DEF Lt, pre
  <2>2. Cardinality({y \in S : Lt(y, x)}) = i - 1
    BY <2>1
  <2>3. g[i] \in S /\ Cardinality({y \in S : Lt(y, g[i])}) = i - 1
    BY <2>2
  <2> QED  BY <2>1, <2>3
<1> HIDE DEF pre, f, g, Lt
<1>8. f \in Bijection(1..Cardinality(S), S) /\ f \in Seq(S)
  BY <1>1, <1>3, <1>4, <1>5, <1>6, <1>7, Enumerated
<1> QED  BY <1>1, <1>8 DEF f

\* What a Set of the code can be.
SetRecord == [sum : Nat, items : Seq(Nat)]

\* The order of Sets: by sum, by number of items, by the first item.
LEMMA AboveIs ==
  ASSUME NEW a \in SetRecord, NEW b \in SetRecord, NEW i \in Nat, NEW j \in Nat,
         i = j => a = b,
         i # j /\ a.items # << >> /\ b.items # << >> => a.items[1] # b.items[1]
  PROVE  (Above(a, b) \/ (a = b /\ i < j)) <=>
           \/ a.sum > b.sum
           \/ a.sum = b.sum /\ Len(a.items) > Len(b.items)
           \/ /\ a.sum = b.sum /\ Len(a.items) = Len(b.items) /\ Len(a.items) # 0
              /\ a.items[1] > b.items[1]
           \/ /\ a.sum = b.sum /\ Len(a.items) = Len(b.items) /\ Len(a.items) = 0
              /\ i < j
<1>1. /\ a.sum \in Nat /\ b.sum \in Nat
      /\ a.items \in Seq(Nat) /\ b.items \in Seq(Nat)
      /\ Len(a.items) \in Nat /\ Len(b.items) \in Nat
  BY DEF SetRecord
<1>2. /\ Len(a.items) # 0 => a.items[1] \in Nat
      /\ Len(b.items) # 0 => b.items[1] \in Nat
      /\ Len(a.items) = 0 <=> a.items = << >>
      /\ Len(b.items) = 0 <=> b.items = << >>
  BY <1>1, EmptySeq
<1>3. a = [sum |-> a.sum, items |-> a.items] /\ b = [sum |-> b.sum, items |-> b.items]
  BY DEF SetRecord
<1>4. a.sum = b.sum /\ Len(a.items) = 0 /\ Len(b.items) = 0 => a = b
  BY <1>2, <1>3
<1> QED  BY <1>1, <1>2, <1>4 DEF Above

\* sorted(self.sets, reverse=True) permutes the sets so that their sums do
\* not increase.
LEMMA DecreasingIs ==
  ASSUME NEW k \in Nat, NEW sets \in [1..k -> SetRecord],
         \A i, j \in 1..k :
           i # j /\ sets[i].items # << >> /\ sets[j].items # << >> =>
             sets[i].items[1] # sets[j].items[1]
  PROVE  \E p \in Bijection(1..k, 1..k) :
           /\ Decreasing(sets) = [i \in 1..k |-> sets[p[i]]]
           /\ \A i, j \in 1..k : i < j => sets[p[i]].sum >= sets[p[j]].sum
<1> DEFINE S == DOMAIN sets
           Lt(i, j) == Above(sets[i], sets[j]) \/ (sets[i] = sets[j] /\ i < j)
           pre == [x \in S |-> {y \in S : Lt(y, x)}]
           e(i) == CHOOSE x \in S : Cardinality({y \in S : Lt(y, x)}) = i - 1
           g == [i \in 1..Cardinality(S) |-> e(i)]
           f == << >> \o g
<1>1. S = 1..k /\ IsFiniteSet(S) /\ Cardinality(S) = k
  <2>1. S = 1..k
    OBVIOUS
  <2> QED  BY <2>1, FS_Interval
<1>2. Decreasing(sets) = [i \in 1..k |-> sets[f[i]]]
  <2>1. Decreasing(sets) = [i \in S |-> sets[f[i]]]
    BY Zenon DEF Decreasing, Sorted
  <2> HIDE DEF S, f
  <2> QED  BY <1>1, <2>1
<1> DEFINE l(x) == Len(sets[x].items)
           h(x) == sets[x].items[1]
           u(x) == sets[x].sum
<1>3. \A x, y \in S : Lt(x, y) <=>
        \/ u(x) > u(y)
        \/ u(x) = u(y) /\ l(x) > l(y)
        \/ u(x) = u(y) /\ l(x) = l(y) /\ l(x) # 0 /\ h(x) > h(y)
        \/ u(x) = u(y) /\ l(x) = l(y) /\ l(x) = 0 /\ x < y
  <2> SUFFICES ASSUME NEW x \in 1..k, NEW y \in 1..k
               PROVE  Lt(x, y) <=>
                        \/ u(x) > u(y)
                        \/ u(x) = u(y) /\ l(x) > l(y)
                        \/ u(x) = u(y) /\ l(x) = l(y) /\ l(x) # 0 /\ h(x) > h(y)
                        \/ u(x) = u(y) /\ l(x) = l(y) /\ l(x) = 0 /\ x < y
    BY <1>1
  <2>1. /\ sets[x] \in SetRecord /\ sets[y] \in SetRecord /\ x \in Nat /\ y \in Nat
        /\ x = y => sets[x] = sets[y]
    OBVIOUS
  <2> QED  BY <2>1, AboveIs
<1>4. \A x \in S : x \in Nat /\ u(x) \in Nat /\ l(x) \in Nat /\ (l(x) # 0 => h(x) \in Nat)
  <2> SUFFICES ASSUME NEW x \in 1..k
               PROVE  /\ x \in Nat /\ u(x) \in Nat /\ l(x) \in Nat
                      /\ l(x) # 0 => h(x) \in Nat
    BY <1>1
  <2>1. sets[x].sum \in Nat /\ sets[x].items \in Seq(Nat)
    BY DEF SetRecord
  <2> QED  BY <2>1
<1>5. \A x, y \in S : x # y /\ l(x) # 0 /\ l(x) = l(y) => h(x) # h(y)
  <2> SUFFICES ASSUME NEW x \in 1..k, NEW y \in 1..k, x # y, l(x) # 0, l(x) = l(y)
               PROVE  h(x) # h(y)
    BY <1>1
  <2>1. sets[x].items # << >> /\ sets[y].items # << >>
    OBVIOUS
  <2> QED  BY <2>1
<1> HIDE DEF S, Lt, u, l, h
<1>6. pre \in [S -> SUBSET S] /\ \A x \in S : x \notin pre[x]
  BY <1>3, <1>4
<1>7. \A x, y \in S : x # y => x \in pre[y] \/ y \in pre[x]
  <2> SUFFICES ASSUME NEW x \in S, NEW y \in S, x # y PROVE Lt(x, y) \/ Lt(y, x)
    OBVIOUS
  <2> QED  BY <1>3, <1>4, <1>5
<1>8. \A x, y \in S : x \in pre[y] => pre[x] \subseteq pre[y]
  <2> SUFFICES ASSUME NEW x \in S, NEW y \in S, Lt(x, y), NEW z \in S, Lt(z, x)
               PROVE  Lt(z, y)
    OBVIOUS
  <2> QED  BY <1>3, <1>4
<1>9. g = [i \in 1..Cardinality(S) |-> g[i]]
  <2> HIDE DEF e
  <2> QED  OBVIOUS
<1>10. \A i \in 1..Cardinality(S) : \A x \in S :
         Cardinality(pre[x]) = i - 1 => g[i] \in S /\ Cardinality(pre[g[i]]) = i - 1
  <2> SUFFICES ASSUME NEW i \in 1..Cardinality(S), NEW x \in S,
                      Cardinality(pre[x]) = i - 1
               PROVE  g[i] \in S /\ Cardinality(pre[g[i]]) = i - 1
    OBVIOUS
  <2>1. \A z \in S : pre[z] = {y \in S : Lt(y, z)}
    OBVIOUS
  <2> HIDE DEF pre
  <2>2. Cardinality({y \in S : Lt(y, x)}) = i - 1
    BY <2>1
  <2>3. g[i] \in S /\ Cardinality({y \in S : Lt(y, g[i])}) = i - 1
    BY <2>2
  <2> QED  BY <2>1, <2>3
<1>11. /\ f \in Bijection(1..Cardinality(S), S)
       /\ \A i, j \in 1..Cardinality(S) : i < j => f[i] \in pre[f[j]]
  <2>1. f = << >> \o g
    OBVIOUS
  <2>2. IsFiniteSet(S)
    BY <1>1
  <2> HIDE DEF f, g, pre, e
  <2> QED  BY <1>6, <1>7, <1>8, <1>9, <1>10, <2>1, <2>2, Enumerated
<1>12. f \in Bijection(1..k, 1..k)
  <2> HIDE DEF f
  <2> QED  BY <1>1, <1>11
<1>13. \A i, j \in 1..k : i < j => sets[f[i]].sum >= sets[f[j]].sum
  <2> SUFFICES ASSUME NEW i \in 1..k, NEW j \in 1..k, i < j
               PROVE  sets[f[i]].sum >= sets[f[j]].sum
    OBVIOUS
  <2> HIDE DEF f
  <2>1. f[i] \in pre[f[j]]
    BY <1>1, <1>11
  <2>2. f[i] \in S /\ f[j] \in S
    BY <1>1, <1>12 DEF Bijection, Injection
  <2>3. Lt(f[i], f[j])
    BY <2>1, <2>2
  <2>4. u(f[i]) >= u(f[j])
    BY <1>3, <1>4, <2>2, <2>3
  <2> QED  BY <2>4 DEF u
<1> HIDE DEF f
<1> QED  BY <1>2, <1>12, <1>13

-----------------------------------------------------------------------------
(***************************************************************************)
(* karmarkar_karp.  A Set holds different rows and the total of their      *)
(* lengths; the sets of a State share no row, and are level: with          *)
(* equal_size they have equally many rows, and sums that differ no more    *)
(* than two rows do; without it no set is left empty while another has two *)
(* rows, and a sum exceeds another by no more than one of its rows.        *)
(***************************************************************************)
SetOf(m, lens, a) ==
  /\ a \in SetRecord
  /\ a.items \in Seq(DOMAIN lens)
  /\ \A i, j \in DOMAIN a.items : a.items[i] = a.items[j] => i = j
  /\ a.sum = Total(m, lens, ToSet(a.items))

Apart(k, s) ==
  \A i, j \in 1..k : i # j => ToSet(s[i].items) \cap ToSet(s[j].items) = {}

LevelRows(lens, k, s) ==
  \A i, j \in 1..k :
    /\ Len(s[i].items) = Len(s[j].items)
    /\ \E x, y \in DOMAIN lens : s[i].sum - s[j].sum <= lens[x] - lens[y]

LevelSums(lens, k, s) ==
  /\ \/ \A i \in 1..k : s[i].items # << >>
     \/ \A i \in 1..k : Len(s[i].items) <= 1
  /\ \A i, j \in 1..k : s[i].items # << >> =>
       \E x \in ToSet(s[i].items) : s[i].sum - s[j].sum <= lens[x]

Sets(m, lens, k, equalSize, s) ==
  /\ s \in [1..k -> SetRecord]
  /\ \A i \in 1..k : SetOf(m, lens, s[i])
  /\ Apart(k, s)
  /\ IF equalSize THEN LevelRows(lens, k, s) ELSE LevelSums(lens, k, s)
  /\ \E i \in 1..k : s[i].items # << >>

State(m, lens, k, equalSize, s) ==
  /\ Sets(m, lens, k, equalSize, s)
  /\ \A i, j \in 1..k : i < j => s[i].sum >= s[j].sum

RowsOf(k, s) == UNION {ToSet(s[i].items) : i \in 1..k}

\* A Set is empty when its total is zero.
LEMMA SetFacts ==
  ASSUME NEW m \in Nat, NEW lens \in Seq(1..m), NEW a, SetOf(m, lens, a)
  PROVE  /\ a.sum \in Nat /\ Len(a.items) \in Nat
         /\ IsFiniteSet(ToSet(a.items)) /\ ToSet(a.items) \subseteq DOMAIN lens
         /\ a.items # << >> => a.sum > 0 /\ a.items[1] \in ToSet(a.items)
         /\ a.items = << >> => a.sum = 0 /\ Len(a.items) = 0 /\ ToSet(a.items) = {}
<1>1. a.sum \in Nat /\ a.items \in Seq(DOMAIN lens) /\ Len(a.items) \in Nat
  BY DEF SetOf, SetRecord
<1>2. DOMAIN lens = 1..Len(lens) /\ Len(lens) \in Nat
  OBVIOUS
<1>3. ToSet(a.items) \subseteq DOMAIN lens
  BY <1>1 DEF ToSet
<1>4. IsFiniteSet(ToSet(a.items))
  <2>1. IsFiniteSet(DOMAIN lens)
    BY <1>2, FS_Interval
  <2> QED  BY <1>3, <2>1, FS_Subset
<1>5. CASE a.items = << >>
  <2>1. Len(a.items) = 0 /\ ToSet(a.items) = {}
    BY <1>5 DEF ToSet
  <2>2. a.sum = 0
    BY <2>1, TotalType, FS_EmptySet DEF SetOf
  <2> QED  BY <1>1, <1>3, <1>4, <1>5, <2>1, <2>2
<1>6. CASE a.items # << >>
  <2>1. 1 \in DOMAIN a.items /\ a.items[1] \in ToSet(a.items)
    BY <1>1, <1>6, EmptySeq DEF ToSet
  <2> DEFINE x == a.items[1]
  <2>2. lens[x] \in 1..m
    BY <1>3, <2>1
  <2>3. lens[x] <= Total(m, lens, ToSet(a.items))
    <3> HIDE DEF x
    <3> QED  BY <1>4, <2>1, <2>2, TotalMember DEF x
  <2>4. a.sum > 0
    BY <1>1, <2>2, <2>3 DEF SetOf
  <2> QED  BY <1>1, <1>3, <1>4, <1>6, <2>1, <2>4
<1> QED  BY <1>5, <1>6

\* Set c holds the rows of the sets a and b.
Joined(m, lens, a, b, c) ==
  /\ SetOf(m, lens, c)
  /\ c.sum = a.sum + b.sum
  /\ Len(c.items) = Len(a.items) + Len(b.items)
  /\ ToSet(c.items) = ToSet(a.items) \cup ToSet(b.items)
  /\ a.items # << >> \/ b.items # << >> => c.items # << >>

\* Set.merge of two sets that share no row.
LEMMA UnionOfSets ==
  ASSUME NEW m \in Nat, NEW lens \in Seq(1..m), NEW a, NEW b,
         SetOf(m, lens, a), SetOf(m, lens, b),
         ToSet(a.items) \cap ToSet(b.items) = {}
  PROVE  Joined(m, lens, a, b, Union(a, b))
<1> DEFINE p == a.items
           q == b.items
           r == p \o q
           u == Union(a, b)
<1>1. /\ p \in Seq(DOMAIN lens) /\ q \in Seq(DOMAIN lens)
      /\ p \in Seq(Nat) /\ q \in Seq(Nat) /\ a.sum \in Nat /\ b.sum \in Nat
      /\ \A i, j \in DOMAIN p : p[i] = p[j] => i = j
      /\ \A i, j \in DOMAIN q : q[i] = q[j] => i = j
  BY DEF SetOf, SetRecord
<1>2. u.sum = a.sum + b.sum /\ u.items = r /\ u = [sum |-> a.sum + b.sum, items |-> r]
  BY DEF Union
<1>3. IsFiniteSet(ToSet(p)) /\ IsFiniteSet(ToSet(q))
  BY SetFacts
<1> HIDE DEF p, q, u
<1>4. /\ r \in Seq(DOMAIN lens) /\ r \in Seq(Nat) /\ Len(r) = Len(p) + Len(q)
      /\ \A i \in 1..Len(p) : r[i] = p[i]
      /\ \A i \in 1..Len(q) : r[Len(p) + i] = q[i]
  BY <1>1
<1> HIDE DEF r
<1>5. /\ DOMAIN r = 1..(Len(p) + Len(q)) /\ DOMAIN p = 1..Len(p) /\ DOMAIN q = 1..Len(q)
      /\ Len(p) \in Nat /\ Len(q) \in Nat
  BY <1>1, <1>4
<1>6. \A i \in DOMAIN r : \/ i \in DOMAIN p /\ r[i] = p[i]
                          \/ /\ i - Len(p) \in DOMAIN q /\ r[i] = q[i - Len(p)]
  <2> SUFFICES ASSUME NEW i \in DOMAIN r, i \notin DOMAIN p
               PROVE  i - Len(p) \in DOMAIN q /\ r[i] = q[i - Len(p)]
    BY <1>4, <1>5
  <2>1. i - Len(p) \in 1..Len(q) /\ Len(p) + (i - Len(p)) = i
    BY <1>5
  <2> QED  BY <1>4, <1>5, <2>1
<1>7. ToSet(r) = ToSet(p) \cup ToSet(q)
  <2>1. ToSet(r) \subseteq ToSet(p) \cup ToSet(q)
    BY <1>6 DEF ToSet
  <2>2. ToSet(p) \subseteq ToSet(r)
    <3>1. \A i \in DOMAIN p : i \in DOMAIN r /\ r[i] = p[i]
      BY <1>4, <1>5
    <3> QED  BY <3>1 DEF ToSet
  <2>3. ToSet(q) \subseteq ToSet(r)
    <3>1. \A i \in DOMAIN q : Len(p) + i \in DOMAIN r /\ r[Len(p) + i] = q[i]
      <4> SUFFICES ASSUME NEW i \in 1..Len(q)
                   PROVE  Len(p) + i \in DOMAIN r /\ r[Len(p) + i] = q[i]
        BY <1>5
      <4>1. Len(p) + i \in 1..(Len(p) + Len(q))
        BY <1>5
      <4> QED  BY <1>4, <1>5, <4>1
    <3> QED  BY <3>1 DEF ToSet
  <2> QED  BY <2>1, <2>2, <2>3
<1>8. \A i, j \in DOMAIN r : r[i] = r[j] => i = j
  <2> SUFFICES ASSUME NEW i \in DOMAIN r, NEW j \in DOMAIN r, r[i] = r[j]
               PROVE  i = j
    OBVIOUS
  <2>1. \A x \in DOMAIN p : \A y \in DOMAIN q : p[x] # q[y]
    BY DEF ToSet, p, q
  <2>2. CASE i \in DOMAIN p /\ r[i] = p[i] /\ j \in DOMAIN p /\ r[j] = p[j]
    BY <1>1, <2>2
  <2>3. CASE /\ i - Len(p) \in DOMAIN q /\ r[i] = q[i - Len(p)]
             /\ j - Len(p) \in DOMAIN q /\ r[j] = q[j - Len(p)]
    <3>1. i - Len(p) = j - Len(p)
      BY <1>1, <2>3
    <3> QED  BY <1>5, <3>1
  <2> QED  BY <1>6, <2>1, <2>2, <2>3
<1>9. Total(m, lens, ToSet(r)) = a.sum + b.sum
  <2>1. a.sum = Total(m, lens, ToSet(p)) /\ b.sum = Total(m, lens, ToSet(q))
    BY DEF SetOf, p, q
  <2>2. ToSet(p) \cap ToSet(q) = {}
    BY DEF p, q
  <2> QED  BY <1>3, <1>7, <2>1, <2>2, TotalUnion
<1>10. SetOf(m, lens, u)
  <2>1. u \in SetRecord
    <3>1. a.sum + b.sum \in Nat
      BY <1>1
    <3> QED  BY <1>2, <1>4, <3>1 DEF SetRecord
  <2> QED  BY <1>2, <1>4, <1>8, <1>9, <2>1 DEF SetOf
<1>11. p # << >> \/ q # << >> => r # << >>
  <2>1. (p # << >> => Len(p) > 0) /\ (q # << >> => Len(q) > 0)
    BY <1>1, EmptySeq
  <2>2. r = << >> => Len(r) = 0
    OBVIOUS
  <2> QED  BY <1>4, <1>5, <2>1, <2>2
<1> QED  BY <1>2, <1>4, <1>7, <1>10, <1>11 DEF p, q, u, Joined

\* Sets in decreasing order are a State with the same rows.
LEMMA DecreasingState ==
  ASSUME NEW m \in Nat, NEW lens \in Seq(1..m), NEW k \in Nat \ {0},
         NEW equalSize \in BOOLEAN, NEW u, Sets(m, lens, k, equalSize, u)
  PROVE  /\ State(m, lens, k, equalSize, Decreasing(u))
         /\ RowsOf(k, Decreasing(u)) = RowsOf(k, u)
<1> DEFINE d == Decreasing(u)
<1>1. /\ u \in [1..k -> SetRecord] /\ \A i \in 1..k : SetOf(m, lens, u[i])
      /\ \A i, j \in 1..k : i # j => ToSet(u[i].items) \cap ToSet(u[j].items) = {}
  BY DEF Sets, Apart
<1>2. \A i, j \in 1..k : i # j /\ u[i].items # << >> /\ u[j].items # << >> =>
        u[i].items[1] # u[j].items[1]
  <2> SUFFICES ASSUME NEW i \in 1..k, NEW j \in 1..k, i # j,
                      u[i].items # << >>, u[j].items # << >>
               PROVE  u[i].items[1] # u[j].items[1]
    OBVIOUS
  <2>1. u[i].items[1] \in ToSet(u[i].items) /\ u[j].items[1] \in ToSet(u[j].items)
    BY <1>1, SetFacts
  <2> QED  BY <1>1, <2>1
<1>3. PICK p \in Bijection(1..k, 1..k) :
        /\ d = [i \in 1..k |-> u[p[i]]]
        /\ \A i, j \in 1..k : i < j => u[p[i]].sum >= u[p[j]].sum
  BY <1>1, <1>2, DecreasingIs
<1>4. /\ \A i \in 1..k : p[i] \in 1..k
      /\ \A i, j \in 1..k : i # j => p[i] # p[j]
      /\ \A i \in 1..k : \E j \in 1..k : p[j] = i
  BY DEF Bijection, Injection, Surjection, IsInjective
<1> HIDE DEF d
<1>5. \A i \in 1..k : d[i] = u[p[i]]
  BY <1>3
<1>6. d \in [1..k -> SetRecord] /\ \A i \in 1..k : SetOf(m, lens, d[i])
  BY <1>1, <1>3, <1>4
<1>7. Apart(k, d)
  <2> SUFFICES ASSUME NEW i \in 1..k, NEW j \in 1..k, i # j
               PROVE  ToSet(d[i].items) \cap ToSet(d[j].items) = {}
    BY DEF Apart
  <2>1. p[i] \in 1..k /\ p[j] \in 1..k /\ p[i] # p[j]
    BY <1>4
  <2>2. d[i] = u[p[i]] /\ d[j] = u[p[j]]
    BY <1>5
  <2> QED  BY <1>1, <2>1, <2>2
<1>8. equalSize => LevelRows(lens, k, d)
  <2> SUFFICES ASSUME LevelRows(lens, k, u), NEW i \in 1..k, NEW j \in 1..k
               PROVE  /\ Len(d[i].items) = Len(d[j].items)
                      /\ \E x, y \in DOMAIN lens :
                           d[i].sum - d[j].sum <= lens[x] - lens[y]
    BY DEF Sets, LevelRows
  <2>1. p[i] \in 1..k /\ p[j] \in 1..k /\ d[i] = u[p[i]] /\ d[j] = u[p[j]]
    BY <1>4, <1>5
  <2> QED  BY <2>1 DEF LevelRows
<1>9. ~equalSize => LevelSums(lens, k, d)
  <2> SUFFICES ASSUME LevelSums(lens, k, u) PROVE LevelSums(lens, k, d)
    BY DEF Sets
  <2>1. ASSUME NEW i \in 1..k, NEW j \in 1..k, d[i].items # << >>
        PROVE  \E x \in ToSet(d[i].items) : d[i].sum - d[j].sum <= lens[x]
    <3>1. p[i] \in 1..k /\ p[j] \in 1..k /\ d[i] = u[p[i]] /\ d[j] = u[p[j]]
      BY <1>4, <1>5
    <3> QED  BY <2>1, <3>1 DEF LevelSums
  <2>2. (\A i \in 1..k : u[i].items # << >>) => \A i \in 1..k : d[i].items # << >>
    <3> SUFFICES ASSUME \A i \in 1..k : u[i].items # << >>, NEW i \in 1..k
                 PROVE  d[i].items # << >>
      OBVIOUS
    <3>1. p[i] \in 1..k /\ d[i] = u[p[i]]
      BY <1>4, <1>5
    <3> QED  BY <3>1
  <2>3. (\A i \in 1..k : Len(u[i].items) <= 1) => \A i \in 1..k : Len(d[i].items) <= 1
    BY <1>4, <1>5
  <2> QED  BY <2>1, <2>2, <2>3 DEF LevelSums
<1>10. \E i \in 1..k : d[i].items # << >>
  <2>1. PICK j \in 1..k : u[j].items # << >>
    BY DEF Sets
  <2>2. PICK i \in 1..k : p[i] = j
    BY <1>4
  <2> QED  BY <1>5, <2>1, <2>2
<1>11. RowsOf(k, d) = RowsOf(k, u)
  <2>1. \A i \in 1..k : ToSet(d[i].items) = ToSet(u[p[i]].items)
    BY <1>5
  <2>2. RowsOf(k, d) \subseteq RowsOf(k, u)
    <3> SUFFICES ASSUME NEW i \in 1..k
                 PROVE  ToSet(d[i].items) \subseteq RowsOf(k, u)
      BY DEF RowsOf
    <3>1. p[i] \in 1..k /\ ToSet(d[i].items) = ToSet(u[p[i]].items)
      BY <1>4, <2>1
    <3> QED  BY <3>1 DEF RowsOf
  <2>3. RowsOf(k, u) \subseteq RowsOf(k, d)
    <3> SUFFICES ASSUME NEW j \in 1..k
                 PROVE  ToSet(u[j].items) \subseteq RowsOf(k, d)
      BY DEF RowsOf
    <3>1. PICK i \in 1..k : p[i] = j
      BY <1>4
    <3>2. ToSet(d[i].items) = ToSet(u[j].items)
      BY <2>1, <3>1
    <3> QED  BY <3>2 DEF RowsOf
  <2> QED  BY <2>2, <2>3
<1>12. Sets(m, lens, k, equalSize, d)
  BY <1>6, <1>7, <1>8, <1>9, <1>10 DEF Sets
<1>13. \A i, j \in 1..k : i < j => d[i].sum >= d[j].sum
  BY <1>3, <1>5
<1> QED  BY <1>11, <1>12, <1>13 DEF State, d

\* The largest set of one State with the smallest of another, and so on,
\* are level if both States are.
LEMMA MergeIsState ==
  ASSUME NEW m \in Nat, NEW lens \in Seq(1..m), NEW k \in Nat \ {0},
         NEW equalSize \in BOOLEAN, NEW s, NEW t,
         State(m, lens, k, equalSize, s), State(m, lens, k, equalSize, t),
         RowsOf(k, s) \cap RowsOf(k, t) = {}
  PROVE  /\ State(m, lens, k, equalSize, Merge(s, t))
         /\ RowsOf(k, Merge(s, t)) = RowsOf(k, s) \cup RowsOf(k, t)
<1> DEFINE o(i) == k + 1 - i
           u == [i \in 1..k |-> Union(s[i], t[o(i)])]
<1>1. /\ s \in [1..k -> SetRecord] /\ \A i \in 1..k : SetOf(m, lens, s[i])
      /\ t \in [1..k -> SetRecord] /\ \A i \in 1..k : SetOf(m, lens, t[i])
      /\ Apart(k, s) /\ Apart(k, t)
      /\ \E i \in 1..k : s[i].items # << >>
      /\ \A i, j \in 1..k : i < j => s[i].sum >= s[j].sum
      /\ \A i, j \in 1..k : i < j => t[i].sum >= t[j].sum
  BY DEF State, Sets
<1>2. Merge(s, t) = Decreasing(u)
  <2>1. DOMAIN s = 1..k /\ DOMAIN t = 1..k /\ Len(t) = k
    BY <1>1
  <2>2. u = [i \in DOMAIN s |-> Union(s[i], t[Len(t) + 1 - i])]
    BY <2>1
  <2> HIDE DEF u
  <2> QED  BY <2>2 DEF Merge
<1>3. \A i \in 1..k : o(i) \in 1..k /\ o(o(i)) = i
  OBVIOUS
<1>4. \A i, j \in 1..k : ToSet(s[i].items) \cap ToSet(t[j].items) = {}
  BY DEF RowsOf
<1>5. \A i \in 1..k :
        /\ s[i].sum \in Nat /\ t[i].sum \in Nat
        /\ Len(s[i].items) \in Nat /\ Len(t[i].items) \in Nat
        /\ s[i].items # << >> <=> s[i].sum > 0
        /\ t[i].items # << >> <=> t[i].sum > 0
        /\ s[i].items = << >> => s[i].sum = 0 /\ Len(s[i].items) = 0
        /\ t[i].items = << >> => t[i].sum = 0 /\ Len(t[i].items) = 0
  <2> SUFFICES ASSUME NEW i \in 1..k
               PROVE  /\ s[i].sum \in Nat /\ t[i].sum \in Nat
                      /\ Len(s[i].items) \in Nat /\ Len(t[i].items) \in Nat
                      /\ s[i].items # << >> <=> s[i].sum > 0
                      /\ t[i].items # << >> <=> t[i].sum > 0
                      /\ s[i].items = << >> => s[i].sum = 0 /\ Len(s[i].items) = 0
                      /\ t[i].items = << >> => t[i].sum = 0 /\ Len(t[i].items) = 0
    OBVIOUS
  <2>1. SetOf(m, lens, s[i]) /\ SetOf(m, lens, t[i])
    BY <1>1
  <2>2. /\ s[i].sum \in Nat /\ Len(s[i].items) \in Nat
        /\ s[i].items # << >> => s[i].sum > 0
        /\ s[i].items = << >> => s[i].sum = 0 /\ Len(s[i].items) = 0
    BY <2>1, SetFacts
  <2>3. /\ t[i].sum \in Nat /\ Len(t[i].items) \in Nat
        /\ t[i].items # << >> => t[i].sum > 0
        /\ t[i].items = << >> => t[i].sum = 0 /\ Len(t[i].items) = 0
    BY <2>1, SetFacts
  <2> QED  BY <2>2, <2>3
<1>6. \A i \in 1..k :
        /\ SetOf(m, lens, u[i])
        /\ u[i].sum = s[i].sum + t[o(i)].sum
        /\ Len(u[i].items) = Len(s[i].items) + Len(t[o(i)].items)
        /\ ToSet(u[i].items) = ToSet(s[i].items) \cup ToSet(t[o(i)].items)
        /\ s[i].items # << >> \/ t[o(i)].items # << >> => u[i].items # << >>
  <2> SUFFICES ASSUME NEW i \in 1..k
               PROVE  /\ SetOf(m, lens, u[i])
                      /\ u[i].sum = s[i].sum + t[o(i)].sum
                      /\ Len(u[i].items) = Len(s[i].items) + Len(t[o(i)].items)
                      /\ ToSet(u[i].items) =
                           ToSet(s[i].items) \cup ToSet(t[o(i)].items)
                      /\ s[i].items # << >> \/ t[o(i)].items # << >> =>
                           u[i].items # << >>
    OBVIOUS
  <2>1. u[i] = Union(s[i], t[o(i)]) /\ o(i) \in 1..k
    OBVIOUS
  <2> HIDE DEF u, o
  <2>2. SetOf(m, lens, s[i]) /\ SetOf(m, lens, t[o(i)])
    BY <1>1, <2>1
  <2>3. ToSet(s[i].items) \cap ToSet(t[o(i)].items) = {}
    BY <1>4, <2>1
  <2> DEFINE v == Union(s[i], t[o(i)])
  <2>4. /\ SetOf(m, lens, v)
        /\ v.sum = s[i].sum + t[o(i)].sum
        /\ Len(v.items) = Len(s[i].items) + Len(t[o(i)].items)
        /\ ToSet(v.items) = ToSet(s[i].items) \cup ToSet(t[o(i)].items)
        /\ s[i].items # << >> \/ t[o(i)].items # << >> => v.items # << >>
    <3> DEFINE x == s[i]
               y == t[o(i)]
    <3>1. SetOf(m, lens, x) /\ SetOf(m, lens, y) /\ ToSet(x.items) \cap ToSet(y.items) = {}
      BY <2>2, <2>3
    <3> HIDE DEF x, y
    <3>2. Joined(m, lens, x, y, Union(x, y))
      BY <3>1, UnionOfSets
    <3> QED  BY <3>2 DEF x, y, Joined
  <2>5. u[i] = v
    BY <2>1
  <2> HIDE DEF v
  <2> QED  BY <2>4, <2>5
<1>7. u \in [1..k -> SetRecord]
  <2>1. u = [i \in 1..k |-> u[i]]
    OBVIOUS
  <2> HIDE DEF u
  <2> QED  BY <1>6, <2>1 DEF SetOf
<1> HIDE DEF u
<1>8. Apart(k, u)
  <2> SUFFICES ASSUME NEW i \in 1..k, NEW j \in 1..k, i # j
               PROVE  ToSet(u[i].items) \cap ToSet(u[j].items) = {}
    BY DEF Apart
  <2>1. o(i) \in 1..k /\ o(j) \in 1..k /\ o(i) # o(j)
    OBVIOUS
  <2> HIDE DEF o
  <2>2. ToSet(s[i].items) \cap ToSet(s[j].items) = {}
    BY <1>1 DEF Apart
  <2>3. ToSet(t[o(i)].items) \cap ToSet(t[o(j)].items) = {}
    BY <1>1, <2>1 DEF Apart
  <2>4. /\ ToSet(s[i].items) \cap ToSet(t[o(j)].items) = {}
        /\ ToSet(s[j].items) \cap ToSet(t[o(i)].items) = {}
    BY <1>4, <2>1
  <2>5. /\ ToSet(u[i].items) = ToSet(s[i].items) \cup ToSet(t[o(i)].items)
        /\ ToSet(u[j].items) = ToSet(s[j].items) \cup ToSet(t[o(j)].items)
    BY <1>6
  <2> QED  BY <2>2, <2>3, <2>4, <2>5
<1> DEFINE a(i) == s[i].sum
           b(i) == t[o(i)].sum
           c(i) == u[i].sum
           la(i) == Len(s[i].items)
           lb(i) == Len(t[o(i)].items)
           lc(i) == Len(u[i].items)
<1>9. \A i \in 1..k :
         /\ a(i) \in Nat /\ b(i) \in Nat /\ c(i) = a(i) + b(i)
         /\ la(i) \in Nat /\ lb(i) \in Nat /\ lc(i) = la(i) + lb(i)
         /\ (s[i].items # << >> <=> a(i) > 0) /\ (a(i) = 0 => la(i) = 0)
         /\ (t[o(i)].items # << >> <=> b(i) > 0) /\ (b(i) = 0 => lb(i) = 0)
  <2> SUFFICES ASSUME NEW i \in 1..k
               PROVE  /\ a(i) \in Nat /\ b(i) \in Nat /\ c(i) = a(i) + b(i)
                      /\ la(i) \in Nat /\ lb(i) \in Nat /\ lc(i) = la(i) + lb(i)
                      /\ (s[i].items # << >> <=> a(i) > 0) /\ (a(i) = 0 => la(i) = 0)
                      /\ (t[o(i)].items # << >> <=> b(i) > 0) /\ (b(i) = 0 => lb(i) = 0)
    OBVIOUS
  <2>1. o(i) \in 1..k
    OBVIOUS
  <2> HIDE DEF o
  <2>2. /\ a(i) \in Nat /\ la(i) \in Nat
        /\ (s[i].items # << >> <=> a(i) > 0) /\ (a(i) = 0 => la(i) = 0)
    BY <1>5
  <2>3. /\ b(i) \in Nat /\ lb(i) \in Nat
        /\ (t[o(i)].items # << >> <=> b(i) > 0) /\ (b(i) = 0 => lb(i) = 0)
    BY <1>5, <2>1
  <2> QED  BY <1>6, <2>2, <2>3
<1>10. \A i, j \in 1..k : i < j => a(i) >= a(j) /\ b(i) <= b(j)
  <2> SUFFICES ASSUME NEW i \in 1..k, NEW j \in 1..k, i < j
               PROVE  a(i) >= a(j) /\ b(i) <= b(j)
    OBVIOUS
  <2>1. o(i) \in 1..k /\ o(j) \in 1..k /\ o(j) < o(i)
    OBVIOUS
  <2> HIDE DEF o
  <2>2. a(i) >= a(j) /\ b(j) >= b(i)
    BY <1>1, <2>1
  <2>3. b(i) \in Nat /\ b(j) \in Nat
    BY <1>5, <2>1
  <2> HIDE DEF b
  <2> QED  BY <2>2, <2>3
<1>11. equalSize => LevelRows(lens, k, u)
  <2> SUFFICES ASSUME equalSize, NEW i \in 1..k, NEW j \in 1..k
               PROVE  lc(i) = lc(j) /\ \E x, y \in DOMAIN lens : c(i) - c(j) <= lens[x] - lens[y]
    BY DEF LevelRows
  <2>1. LevelRows(lens, k, s) /\ LevelRows(lens, k, t)
    BY DEF State, Sets
  <2>2. o(i) \in 1..k /\ o(j) \in 1..k
    BY <1>3
  <2>3. la(i) = la(j) /\ lb(i) = lb(j)
    BY <2>1, <2>2 DEF LevelRows
  <2>4. PICK x \in DOMAIN lens, y \in DOMAIN lens : a(i) - a(j) <= lens[x] - lens[y]
    BY <2>1 DEF LevelRows
  <2>5. PICK z \in DOMAIN lens, w \in DOMAIN lens : b(i) - b(j) <= lens[z] - lens[w]
    BY <2>1, <2>2 DEF LevelRows
  <2>6. lens[x] \in Int /\ lens[y] \in Int /\ lens[z] \in Int /\ lens[w] \in Int
    OBVIOUS
  <2> HIDE DEF a, b, c, la, lb, lc, o
  <2>7. lc(i) = lc(j)
    BY <1>9, <2>3
  <2>8. \/ c(i) - c(j) <= lens[x] - lens[y] \/ c(i) - c(j) <= lens[z] - lens[w]
        \/ c(i) - c(j) <= lens[x] - lens[x]
    <3> DEFINE X == lens[x] - lens[y]
               Z == lens[z] - lens[w]
    <3>1. X \in Int /\ Z \in Int /\ lens[x] - lens[x] = 0
      BY <2>6
    <3>2. a(i) - a(j) <= X /\ b(i) - b(j) <= Z
      BY <2>4, <2>5
    <3> HIDE DEF X, Z
    <3>3. c(i) - c(j) <= X \/ c(i) - c(j) <= Z \/ c(i) - c(j) <= 0
      <4>1. /\ a(i) \in Nat /\ a(j) \in Nat /\ b(i) \in Nat /\ b(j) \in Nat
            /\ c(i) = a(i) + b(i) /\ c(j) = a(j) + b(j)
        BY <1>9
      <4>2. i < j => b(i) <= b(j)
        BY <1>10
      <4>3. j < i => a(i) <= a(j)
        <5>1. j < i => a(j) >= a(i)
          BY <1>10
        <5> QED  BY <4>1, <5>1
      <4>4. i = j => c(i) = c(j)
        OBVIOUS
      <4> HIDE DEF a, b, c
      <4>5. i < j \/ j < i \/ i = j
        OBVIOUS
      <4>6. CASE i < j
        BY <3>1, <3>2, <4>1, <4>2, <4>6
      <4>7. CASE j < i
        <5> DEFINE ai == a(i)
                   aj == a(j)
                   bi == b(i)
                   bj == b(j)
        <5>1. /\ ai \in Nat /\ aj \in Nat /\ bi \in Nat /\ bj \in Nat
              /\ c(i) = ai + bi /\ c(j) = aj + bj
          BY <4>1
        <5>2. ai <= aj
          BY <4>3, <4>7
        <5>3. bi - bj <= Z
          BY <3>2
        <5> HIDE DEF ai, aj, bi, bj
        <5>4. (ai + bi) - (aj + bj) <= bi - bj
          BY <5>1, <5>2
        <5>5. (ai + bi) - (aj + bj) <= Z
          BY <3>1, <5>1, <5>3, <5>4
        <5> QED  BY <5>1, <5>5
      <4>8. CASE i = j
        BY <4>1, <4>4, <4>8
      <4> QED  BY <4>5, <4>6, <4>7, <4>8
    <3> QED  BY <3>1, <3>3 DEF X, Z
  <2> QED  BY <2>7, <2>8
<1>12. ~equalSize => LevelSums(lens, k, u)
  <2> SUFFICES ASSUME ~equalSize PROVE LevelSums(lens, k, u)
    OBVIOUS
  <2>1. LevelSums(lens, k, s) /\ LevelSums(lens, k, t)
    BY DEF State, Sets
  <2>2. ASSUME NEW i \in 1..k, NEW j \in 1..k, u[i].items # << >>
        PROVE  \E x \in ToSet(u[i].items) : c(i) - c(j) <= lens[x]
    <3>1. o(i) \in 1..k /\ o(j) \in 1..k
      BY <1>3
    <3>2. /\ ToSet(u[i].items) = ToSet(s[i].items) \cup ToSet(t[o(i)].items)
          /\ ToSet(u[i].items) \subseteq DOMAIN lens
          /\ u[i].items[1] \in ToSet(u[i].items)
      <4>1. SetOf(m, lens, u[i])
        BY <1>6
      <4> QED  BY <1>6, <2>2, <4>1, SetFacts
    <3>3. \A x \in DOMAIN lens : lens[x] \in Nat
      OBVIOUS
    <3>4. a(i) > 0 => \E x \in ToSet(u[i].items) : a(i) - a(j) <= lens[x]
      <4>1. a(i) > 0 => s[i].items # << >>
        BY <1>9
      <4>2. s[i].items # << >> => \E x \in ToSet(s[i].items) : a(i) - a(j) <= lens[x]
        BY <2>1 DEF LevelSums
      <4> QED  BY <3>2, <4>1, <4>2
    <3>5. b(i) > 0 => \E x \in ToSet(u[i].items) : b(i) - b(j) <= lens[x]
      <4>1. b(i) > 0 => t[o(i)].items # << >>
        BY <1>9
      <4>2. t[o(i)].items # << >> => \E x \in ToSet(t[o(i)].items) : b(i) - b(j) <= lens[x]
        BY <2>1, <3>1 DEF LevelSums
      <4> QED  BY <3>2, <4>1, <4>2
    <3> HIDE DEF a, b, c
    <3>6. /\ a(i) \in Nat /\ a(j) \in Nat /\ b(i) \in Nat /\ b(j) \in Nat
          /\ c(i) = a(i) + b(i) /\ c(j) = a(j) + b(j)
      BY <1>9
    <3>7. CASE c(i) <= c(j)
      <4> DEFINE x == u[i].items[1]
      <4>1. x \in ToSet(u[i].items) /\ lens[x] \in Nat
        BY <3>2, <3>3
      <4> HIDE DEF x
      <4>2. c(i) - c(j) <= lens[x]
        BY <3>6, <3>7, <4>1
      <4> QED  BY <4>1, <4>2
    <3>8. CASE i < j /\ c(i) > c(j)
      <4>1. b(i) <= b(j)
        BY <1>10, <3>8
      <4>2. a(i) > 0
        BY <3>6, <3>8, <4>1
      <4>3. PICK x \in ToSet(u[i].items) : a(i) - a(j) <= lens[x]
        BY <3>4, <4>2
      <4>4. lens[x] \in Nat
        BY <3>2, <3>3
      <4>5. c(i) - c(j) <= lens[x]
        BY <3>6, <4>1, <4>3, <4>4
      <4> QED  BY <4>5
    <3>9. CASE j < i /\ c(i) > c(j)
      <4>1. a(i) <= a(j)
        BY <1>10, <3>6, <3>9
      <4>2. b(i) > 0
        BY <3>6, <3>9, <4>1
      <4>3. PICK x \in ToSet(u[i].items) : b(i) - b(j) <= lens[x]
        BY <3>5, <4>2
      <4>4. lens[x] \in Nat
        BY <3>2, <3>3
      <4>5. c(i) - c(j) <= lens[x]
        BY <3>6, <4>1, <4>3, <4>4
      <4> QED  BY <4>5
    <3>10. i \in Int /\ j \in Int /\ (i = j => c(i) <= c(j))
      BY <3>6
    <3> QED  BY <3>6, <3>7, <3>8, <3>9, <3>10
  <2>3. \/ \A i \in 1..k : u[i].items # << >>
        \/ \A i \in 1..k : lc(i) <= 1
    <3>1. CASE \A i \in 1..k : s[i].items # << >>
      BY <1>6, <3>1
    <3>2. CASE \A i \in 1..k : t[i].items # << >>
      BY <1>3, <1>6, <3>2
    <3>3. CASE /\ \A i \in 1..k : la(i) <= 1
               /\ \A i \in 1..k : Len(t[i].items) <= 1
               /\ \E h \in 1..k : u[h].items = << >>
      <4>1. PICK h \in 1..k : u[h].items = << >>
        BY <3>3
      <4>2. s[h].items = << >> /\ t[o(h)].items = << >>
        BY <1>6, <4>1
      <4> SUFFICES ASSUME NEW i \in 1..k PROVE lc(i) <= 1
        OBVIOUS
      <4>3. la(i) <= 1 /\ lb(i) <= 1
        BY <1>3, <3>3
      <4> HIDE DEF a, b, c, la, lb, lc, o
      <4>4. /\ a(h) \in Nat /\ (s[h].items # << >> <=> a(h) > 0)
            /\ b(h) \in Nat /\ (t[o(h)].items # << >> <=> b(h) > 0)
        BY <1>9
      <4>5. a(h) = 0 /\ b(h) = 0
        BY <4>2, <4>4
      <4>6. /\ a(i) \in Nat /\ b(i) \in Nat /\ la(i) \in Nat /\ lb(i) \in Nat
            /\ lc(i) = la(i) + lb(i)
            /\ (a(i) = 0 => la(i) = 0) /\ (b(i) = 0 => lb(i) = 0)
        BY <1>9
      <4>7. h < i => a(h) >= a(i)
        BY <1>10
      <4>8. i < h => b(i) <= b(h)
        BY <1>10
      <4>9. i = h \/ i < h \/ h < i
        OBVIOUS
      <4>10. a(i) = 0 \/ b(i) = 0
        BY <4>5, <4>6, <4>7, <4>8, <4>9
      <4> QED  BY <4>3, <4>6, <4>10
    <3> QED  BY <2>1, <3>1, <3>2, <3>3 DEF LevelSums
  <2> QED  BY <2>2, <2>3 DEF LevelSums
<1>13. \E i \in 1..k : u[i].items # << >>
  BY <1>1, <1>6
<1>14. Sets(m, lens, k, equalSize, u)
  BY <1>6, <1>7, <1>8, <1>11, <1>12, <1>13 DEF Sets
<1>15. RowsOf(k, u) = RowsOf(k, s) \cup RowsOf(k, t)
  <2>1. RowsOf(k, u) \subseteq RowsOf(k, s) \cup RowsOf(k, t)
    <3> SUFFICES ASSUME NEW i \in 1..k
                 PROVE  ToSet(u[i].items) \subseteq RowsOf(k, s) \cup RowsOf(k, t)
      BY DEF RowsOf
    <3>1. o(i) \in 1..k
      BY <1>3
    <3> HIDE DEF o
    <3>2. ToSet(u[i].items) = ToSet(s[i].items) \cup ToSet(t[o(i)].items)
      BY <1>6
    <3> QED  BY <3>1, <3>2 DEF RowsOf
  <2>2. RowsOf(k, s) \subseteq RowsOf(k, u)
    <3> SUFFICES ASSUME NEW i \in 1..k
                 PROVE  ToSet(s[i].items) \subseteq RowsOf(k, u)
      BY DEF RowsOf
    <3>1. ToSet(s[i].items) \subseteq ToSet(u[i].items)
      BY <1>6
    <3> QED  BY <3>1 DEF RowsOf
  <2>3. RowsOf(k, t) \subseteq RowsOf(k, u)
    <3>1. ASSUME NEW j \in 1..k
          PROVE  ToSet(t[j].items) \subseteq RowsOf(k, u)
      <4>1. o(j) \in 1..k /\ o(o(j)) = j
        BY <1>3
      <4> HIDE DEF o
      <4>2. ToSet(t[j].items) \subseteq ToSet(u[o(j)].items)
        BY <1>6, <4>1
      <4> QED  BY <4>1, <4>2 DEF RowsOf
    <3> DEFINE V == RowsOf(k, u)
    <3> HIDE DEF V
    <3>2. \A j \in 1..k : ToSet(t[j].items) \subseteq V
      BY <3>1 DEF V
    <3>3. RowsOf(k, t) \subseteq V
      BY <3>2 DEF RowsOf
    <3> QED  BY <3>3 DEF V
  <2> QED  BY <2>1, <2>2, <2>3
<1> QED  BY <1>2, <1>14, <1>15, DecreasingState

-----------------------------------------------------------------------------
(***************************************************************************)
(* The heap: States that share no row.  Its order has a first State, as    *)
(* the first rows of the largest sets of two States differ.                *)
(***************************************************************************)
Heap(m, lens, k, equalSize, H) ==
  /\ IsFiniteSet(H)
  /\ \A s \in H : State(m, lens, k, equalSize, s)
  /\ \A s, t \in H : s # t => RowsOf(k, s) \cap RowsOf(k, t) = {}

Covered(k, H) == UNION {RowsOf(k, s) : s \in H}

\* The largest set of a State has a first row, by which States are told apart.
LEMMA LargestSet ==
  ASSUME NEW m \in Nat, NEW lens \in Seq(1..m), NEW k \in Nat \ {0},
         NEW equalSize \in BOOLEAN, NEW s, State(m, lens, k, equalSize, s)
  PROVE  /\ Spread(s) \in Int /\ s[1].sum \in Nat
         /\ s[1].items # << >> /\ Len(s[1].items) \in Nat /\ Len(s[1].items) # 0
         /\ s[1].items[1] \in RowsOf(k, s) /\ s[1].items[1] \in Nat
<1>1. /\ s \in [1..k -> SetRecord] /\ \A i \in 1..k : SetOf(m, lens, s[i])
      /\ \A i, j \in 1..k : i < j => s[i].sum >= s[j].sum
  BY DEF State, Sets
<1>2. 1 \in 1..k /\ k \in 1..k /\ Len(s) = k
  BY <1>1
<1>3. s[1].sum \in Nat /\ s[k].sum \in Nat
  BY <1>1, <1>2 DEF SetRecord
<1>4. PICK i \in 1..k : s[i].items # << >>
  BY DEF State, Sets
<1>5. s[i].sum > 0 /\ s[i].sum \in Nat
  BY <1>1, <1>4, SetFacts
<1>6. s[1].sum > 0
  <2>1. 1 < i => s[1].sum >= s[i].sum
    BY <1>1, <1>2
  <2>2. i = 1 \/ 1 < i
    OBVIOUS
  <2> DEFINE a == s[1].sum
             b == s[i].sum
  <2>3. a \in Nat /\ b \in Nat /\ b > 0 /\ (1 < i => a >= b) /\ (i = 1 => a = b)
    BY <1>3, <1>5, <2>1
  <2> HIDE DEF a, b
  <2>4. a > 0
    BY <2>2, <2>3
  <2> QED  BY <2>4 DEF a
<1>7. SetOf(m, lens, s[1])
  BY <1>1, <1>2
<1>8. s[1].items # << >>
  <2>1. s[1].items = << >> => s[1].sum = 0
    BY <1>7, SetFacts
  <2> QED  BY <1>6, <2>1
<1>9. /\ Len(s[1].items) \in Nat /\ s[1].items[1] \in ToSet(s[1].items)
      /\ ToSet(s[1].items) \subseteq DOMAIN lens
  <2> DEFINE a == s[1]
  <2> HIDE DEF a
  <2>1. SetOf(m, lens, a) /\ a.items # << >>
    BY <1>7, <1>8 DEF a
  <2>2. /\ Len(a.items) \in Nat /\ a.items[1] \in ToSet(a.items)
        /\ ToSet(a.items) \subseteq DOMAIN lens
    BY <2>1, SetFacts
  <2> QED  BY <2>2 DEF a
<1>10. s[1].items[1] \in Nat /\ s[1].items[1] \in RowsOf(k, s)
  <2> DEFINE e == s[1].items[1]
  <2>1. e \in DOMAIN lens /\ e \in ToSet(s[1].items)
    BY <1>9
  <2>2. DOMAIN lens \subseteq Nat
    OBVIOUS
  <2> HIDE DEF e
  <2>3. e \in RowsOf(k, s)
    BY <1>2, <2>1 DEF RowsOf
  <2> QED  BY <2>1, <2>2, <2>3 DEF e
<1>11. Len(s[1].items) # 0
  <2>1. s[1].items \in Seq(Nat)
    BY <1>1, <1>2 DEF SetRecord
  <2> QED  BY <1>8, <2>1, EmptySeq
<1>12. Spread(s) \in Int
  BY <1>2, <1>3 DEF Spread
<1> QED  BY <1>3, <1>8, <1>9, <1>10, <1>11, <1>12

\* heappop: a nonempty heap has a first State.
LEMMA PoppedIs ==
  ASSUME NEW m \in Nat, NEW lens \in Seq(1..m), NEW k \in Nat \ {0},
         NEW equalSize \in BOOLEAN, NEW H, Heap(m, lens, k, equalSize, H), H # {}
  PROVE  Popped(H) \in H
<1> DEFINE sp(s) == Spread(s)
           u(s) == s[1].sum
           l(s) == Len(s[1].items)
           h(s) == s[1].items[1]
           Lt(s, t) == PoppedBefore(s, t)
           pre == [t \in H |-> {s \in H : Lt(s, t)}]
<1>1. /\ IsFiniteSet(H) /\ \A s \in H : State(m, lens, k, equalSize, s)
      /\ \A s, t \in H : s # t => RowsOf(k, s) \cap RowsOf(k, t) = {}
  BY DEF Heap
<1>2. \A s \in H : /\ sp(s) \in Int /\ u(s) \in Nat /\ l(s) \in Nat /\ l(s) # 0
                   /\ h(s) \in Nat /\ h(s) \in RowsOf(k, s) /\ s[1].items # << >>
  <2> SUFFICES ASSUME NEW s \in H
               PROVE  /\ sp(s) \in Int /\ u(s) \in Nat /\ l(s) \in Nat /\ l(s) # 0
                      /\ h(s) \in Nat /\ h(s) \in RowsOf(k, s) /\ s[1].items # << >>
    OBVIOUS
  <2>1. State(m, lens, k, equalSize, s)
    BY <1>1
  <2> QED  BY <2>1, LargestSet
<1>3. \A s, t \in H : Lt(s, t) <=>
        \/ sp(s) > sp(t)
        \/ sp(s) = sp(t) /\ u(s) > u(t)
        \/ sp(s) = sp(t) /\ u(s) = u(t) /\ l(s) > l(t)
        \/ sp(s) = sp(t) /\ u(s) = u(t) /\ l(s) = l(t) /\ h(s) > h(t)
  BY <1>2 DEF PoppedBefore, Above
<1>4. \A s, t \in H : s # t => h(s) # h(t)
  BY <1>1, <1>2
<1> HIDE DEF sp, u, l, h, Lt
<1>5. pre \in [H -> SUBSET H] /\ \A s \in H : s \notin pre[s]
  BY <1>2, <1>3
<1>6. \A s, t \in H : s # t => s \in pre[t] \/ t \in pre[s]
  <2> SUFFICES ASSUME NEW s \in H, NEW t \in H, s # t PROVE Lt(s, t) \/ Lt(t, s)
    OBVIOUS
  <2> QED  BY <1>2, <1>3, <1>4
<1>7. \A s, t \in H : s \in pre[t] => pre[s] \subseteq pre[t]
  <2> SUFFICES ASSUME NEW s \in H, NEW t \in H, Lt(s, t), NEW r \in H, Lt(r, s)
               PROVE  Lt(r, t)
    OBVIOUS
  <2>1. /\ sp(r) \in Int /\ u(r) \in Nat /\ l(r) \in Nat /\ h(r) \in Nat
        /\ sp(s) \in Int /\ u(s) \in Nat /\ l(s) \in Nat /\ h(s) \in Nat
        /\ sp(t) \in Int /\ u(t) \in Nat /\ l(t) \in Nat /\ h(t) \in Nat
    BY <1>2
  <2>2. \/ sp(r) > sp(s)
        \/ sp(r) = sp(s) /\ u(r) > u(s)
        \/ sp(r) = sp(s) /\ u(r) = u(s) /\ l(r) > l(s)
        \/ sp(r) = sp(s) /\ u(r) = u(s) /\ l(r) = l(s) /\ h(r) > h(s)
    BY <1>3
  <2>3. \/ sp(s) > sp(t)
        \/ sp(s) = sp(t) /\ u(s) > u(t)
        \/ sp(s) = sp(t) /\ u(s) = u(t) /\ l(s) > l(t)
        \/ sp(s) = sp(t) /\ u(s) = u(t) /\ l(s) = l(t) /\ h(s) > h(t)
    BY <1>3
  <2>4. \/ sp(r) > sp(t)
        \/ sp(r) = sp(t) /\ u(r) > u(t)
        \/ sp(r) = sp(t) /\ u(r) = u(t) /\ l(r) > l(t)
        \/ sp(r) = sp(t) /\ u(r) = u(t) /\ l(r) = l(t) /\ h(r) > h(t)
    BY <2>1, <2>2, <2>3
  <2> QED  BY <1>3, <2>4
<1>8. Cardinality(H) \in Nat /\ Cardinality(H) # 0
  BY <1>1, FS_CardinalityType, FS_EmptySet
<1>9. PICK s \in H : Cardinality(pre[s]) = 0
  <2> HIDE DEF pre
  <2>1. \A i \in 0..(Cardinality(H) - 1) : \E x \in H : Cardinality(pre[x]) = i
    BY <1>1, <1>5, <1>6, <1>7, Ranking
  <2> QED  BY <1>8, <2>1
<1>10. pre[s] = {}
  <2>1. IsFiniteSet(pre[s])
    BY <1>1, <1>5, FS_Subset
  <2> HIDE DEF pre
  <2> QED  BY <1>9, <2>1, FS_EmptySet
<1>11. \A t \in H \ {s} : Lt(s, t)
  <2> HIDE DEF pre
  <2>1. \A t \in H \ {s} : s \in pre[t]
    BY <1>6, <1>10
  <2> QED  BY <2>1 DEF pre
<1> QED  BY <1>11, Zenon DEF Popped, Lt

\* One turn of the loop: a heap of one State less, with the same rows.
LEMMA MergeTwoHeap ==
  ASSUME NEW m \in Nat, NEW lens \in Seq(1..m), NEW k \in Nat \ {0},
         NEW equalSize \in BOOLEAN, NEW H, Heap(m, lens, k, equalSize, H),
         Cardinality(H) > 1
  PROVE  /\ Heap(m, lens, k, equalSize, MergeTwo(H))
         /\ Cardinality(MergeTwo(H)) = Cardinality(H) - 1
         /\ Covered(k, MergeTwo(H)) = Covered(k, H)
<1> DEFINE s == Popped(H)
           t == Popped(H \ {s})
           r == Merge(s, t)
           G == H \ {s, t}
<1>1. /\ IsFiniteSet(H) /\ \A x \in H : State(m, lens, k, equalSize, x)
      /\ \A x, y \in H : x # y => RowsOf(k, x) \cap RowsOf(k, y) = {}
  BY DEF Heap
<1>2. Cardinality(H) \in Nat /\ Cardinality({}) = 0
  BY <1>1, FS_CardinalityType, FS_EmptySet
<1>3. s \in H
  <2>1. H # {}
    BY <1>1, <1>2, FS_EmptySet
  <2> QED  BY <2>1, PoppedIs
<1> HIDE DEF s
<1>4. /\ IsFiniteSet(H \ {s}) /\ Cardinality(H \ {s}) = Cardinality(H) - 1
      /\ H \ {s} # {}
  <2>1. IsFiniteSet(H \ {s}) /\ Cardinality(H \ {s}) = Cardinality(H) - 1
    BY <1>1, <1>3, FS_RemoveElement
  <2>2. Cardinality(H \ {s}) # 0
    BY <1>2, <2>1
  <2> QED  BY <1>2, <2>1, <2>2
<1>5. t \in H \ {s}
  <2>1. Heap(m, lens, k, equalSize, H \ {s})
    BY <1>1, <1>4 DEF Heap
  <2> QED  BY <1>4, <2>1, PoppedIs
<1> HIDE DEF t
<1>6. /\ IsFiniteSet(G) /\ Cardinality(G) = Cardinality(H) - 2
  <2> DEFINE K == H \ {s}
             L == K \ {t}
  <2>1. L = G
    OBVIOUS
  <2>2. IsFiniteSet(K) /\ Cardinality(K) = Cardinality(H) - 1 /\ t \in K
    BY <1>4, <1>5
  <2> HIDE DEF K
  <2>3. IsFiniteSet(L) /\ Cardinality(L) = Cardinality(K) - 1
    BY <2>2, FS_RemoveElement
  <2> HIDE DEF G, L
  <2> QED  BY <1>2, <2>1, <2>2, <2>3
<1>7. /\ State(m, lens, k, equalSize, r)
      /\ RowsOf(k, r) = RowsOf(k, s) \cup RowsOf(k, t)
  <2>1. /\ State(m, lens, k, equalSize, s) /\ State(m, lens, k, equalSize, t)
        /\ RowsOf(k, s) \cap RowsOf(k, t) = {}
    BY <1>1, <1>3, <1>5
  <2> QED  BY <2>1, MergeIsState
<1>8. MergeTwo(H) = G \cup {r}
  BY DEF MergeTwo, s, t
<1> HIDE DEF r
<1>9. \A x \in G : RowsOf(k, x) \cap RowsOf(k, r) = {}
  BY <1>1, <1>3, <1>5, <1>7
<1>10. r \notin G
  <2>1. r[1].items[1] \in RowsOf(k, r)
    BY <1>7, LargestSet
  <2> QED  BY <1>9, <2>1
<1>11. /\ IsFiniteSet(MergeTwo(H))
       /\ Cardinality(MergeTwo(H)) = Cardinality(H) - 1
  <2>1. IsFiniteSet(G \cup {r}) /\ Cardinality(G \cup {r}) = Cardinality(G) + 1
    BY <1>6, <1>10, FS_AddElement
  <2> HIDE DEF G
  <2> QED  BY <1>2, <1>6, <1>8, <2>1
<1>12. Heap(m, lens, k, equalSize, MergeTwo(H))
  BY <1>1, <1>7, <1>8, <1>9, <1>11 DEF Heap
<1>13. Covered(k, MergeTwo(H)) = Covered(k, H)
  <2> DEFINE R(x) == RowsOf(k, x)
  <2>1. R(r) = R(s) \cup R(t)
    BY <1>7
  <2> HIDE DEF R
  <2>2. UNION {R(x) : x \in G \cup {r}} = UNION {R(x) : x \in H}
    BY <1>3, <1>5, <2>1
  <2> QED  BY <1>8, <2>2 DEF R, Covered
<1> QED  BY <1>11, <1>12, <1>13

\* The whole loop: one State is left, with all rows.
LEMMA LastStateIs ==
  ASSUME NEW m \in Nat, NEW lens \in Seq(1..m), NEW k \in Nat \ {0},
         NEW equalSize \in BOOLEAN, NEW first,
         Heap(m, lens, k, equalSize, first), first # {}
  PROVE  /\ State(m, lens, k, equalSize, LastState(first))
         /\ RowsOf(k, LastState(first)) = Covered(k, first)
<1> DEFINE turns == Cardinality(first) - 1
           covered(H) == Covered(k, H)
           Loop(f) == f = [i \in 0..turns |->
                             IF i = 0 THEN first ELSE MergeTwo(f[i - 1])]
           Good(i, H) == /\ Heap(m, lens, k, equalSize, H)
                         /\ Cardinality(H) = Cardinality(first) - i
                         /\ covered(H) = covered(first)
           X == SUBSET [1..k -> SetRecord]
           G(H) == IF MergeTwo(H) \in X THEN MergeTwo(H) ELSE H
<1>1. turns \in Nat /\ Cardinality(first) \in Nat /\ Cardinality(first) = turns + 1
  <2>1. Cardinality(first) \in Nat /\ Cardinality(first) # 0
    BY FS_CardinalityType, FS_EmptySet DEF Heap
  <2> QED  BY <2>1
<1>2. LastState(first) = CHOOSE s \in (CHOOSE f : Loop(f))[turns] : TRUE
  BY DEF LastState
<1> HIDE DEF turns
<1>3. \A i \in 0..(turns - 1) : \A H : Good(i, H) => Good(i + 1, MergeTwo(H))
  <2> SUFFICES ASSUME NEW i \in 0..(turns - 1), NEW H, Good(i, H)
               PROVE  Good(i + 1, MergeTwo(H))
    OBVIOUS
  <2>1. Cardinality(H) > 1
    BY <1>1
  <2>2. /\ Heap(m, lens, k, equalSize, MergeTwo(H))
        /\ Cardinality(MergeTwo(H)) = Cardinality(H) - 1
        /\ covered(MergeTwo(H)) = covered(H)
    BY <2>1, MergeTwoHeap
  <2> HIDE DEF covered
  <2> QED  BY <1>1, <2>2
<1>4. Good(0, first)
  BY <1>1
<1>5. \A H : Heap(m, lens, k, equalSize, H) => H \in X
  BY DEF Heap, State, Sets
<1> HIDE DEF covered
<1>6. ASSUME NEW f, f[0] = first,
             \A i \in 1..turns : Good(i - 1, f[i - 1]) => f[i] = MergeTwo(f[i - 1])
      PROVE  \A i \in 0..turns : Good(i, f[i])
  <2> DEFINE Bad == {i \in 0..turns : ~Good(i, f[i])}
  <2>1. SUFFICES ASSUME Bad # {} PROVE FALSE
    OBVIOUS
  <2>2. PICK c \in Bad : \A d \in Bad : c <= d
    <3>1. Bad \in SUBSET Nat
      BY <1>1
    <3> HIDE DEF Bad
    <3> QED  BY <2>1, <3>1, SmallestNumber
  <2>3. c \in 0..turns /\ ~Good(c, f[c])
    BY <2>2
  <2> HIDE DEF Good
  <2>4. c # 0
    BY <1>4, <1>6, <2>3
  <2>5. c - 1 \in 0..(turns - 1) /\ c \in 1..turns /\ c - 1 \in 0..turns /\ c - 1 + 1 = c
    BY <1>1, <2>3, <2>4
  <2>6. Good(c - 1, f[c - 1])
    <3>1. ~(c <= c - 1)
      BY <2>3, <1>1
    <3> QED  BY <2>2, <2>5, <3>1
  <2>7. f[c] = MergeTwo(f[c - 1])
    BY <1>6, <2>5, <2>6
  <2>8. Good(c - 1 + 1, MergeTwo(f[c - 1]))
    BY <1>3, <2>5, <2>6
  <2> QED  BY <2>3, <2>5, <2>7, <2>8
<1>7. \E f : Loop(f)
  <2> DEFINE F == [i \in 1..turns |-> [H \in X |-> G(H)]]
  <2>1. F \in [1..turns -> [X -> X]]
    <3> HIDE DEF X
    <3>1. [H \in X |-> G(H)] \in [X -> X]
      OBVIOUS
    <3> QED  BY <3>1
  <2>2. first \in X
    BY <1>5
  <2>3. PICK f \in [0..turns -> X] :
          f[0] = first /\ \A i \in 1..turns : f[i] = F[i][f[i - 1]]
    <3> HIDE DEF F, X
    <3>1. \E f \in [0..turns -> X] : Computed(f, turns, F, first)
      BY <1>1, <2>1, <2>2, Recursion
    <3> QED  BY <3>1 DEF Computed
  <2>4. ASSUME NEW i \in 1..turns PROVE f[i] = G(f[i - 1])
    <3>1. i - 1 \in 0..turns
      BY <1>1
    <3> HIDE DEF X
    <3>2. f[i - 1] \in X
      BY <2>3, <3>1
    <3>3. f[i] = F[i][f[i - 1]]
      BY <2>3
    <3> QED  BY <3>2, <3>3
  <2>5. ASSUME NEW i \in 1..turns, Good(i - 1, f[i - 1])
        PROVE  f[i] = MergeTwo(f[i - 1])
    <3>1. i - 1 \in 0..(turns - 1) /\ i - 1 + 1 = i
      BY <1>1
    <3>2. Good(i - 1 + 1, MergeTwo(f[i - 1]))
      BY <1>3, <2>5, <3>1
    <3>3. MergeTwo(f[i - 1]) \in X
      BY <1>5, <3>2
    <3> QED  BY <2>4, <3>3
  <2>6. \A i \in 0..turns : Good(i, f[i])
    <3> HIDE DEF Good, X, F
    <3> QED  BY <1>6, <2>3, <2>5
  <2>7. ASSUME NEW i \in 1..turns PROVE f[i] = MergeTwo(f[i - 1])
    <3>1. i - 1 \in 0..turns
      BY <1>1
    <3> QED  BY <2>5, <2>6, <3>1
  <2>8. \A i \in 0..turns : f[i] = IF i = 0 THEN first ELSE MergeTwo(f[i - 1])
    <3> SUFFICES ASSUME NEW i \in 0..turns, i # 0 PROVE f[i] = MergeTwo(f[i - 1])
      BY <2>3
    <3>1. i \in 1..turns
      BY <1>1
    <3> QED  BY <2>7, <3>1
  <2>9. f = [i \in 0..turns |-> f[i]]
    BY <2>3
  <2> HIDE DEF Good, X, F
  <2>10. Loop(f)
    BY <2>8, <2>9
  <2> QED  BY <2>10
<1> DEFINE h == CHOOSE f : Loop(f)
<1>8. Loop(h)
  <2> HIDE DEF Loop
  <2> QED  BY <1>7
<1> HIDE DEF h
<1>9. h[0] = first /\ \A i \in 1..turns : h[i] = MergeTwo(h[i - 1])
  BY <1>1, <1>8
<1>10. Good(turns, h[turns])
  <2> HIDE DEF Good, Loop
  <2> QED  BY <1>1, <1>6, <1>9
<1> DEFINE s == LastState(first)
<1>11. Cardinality(h[turns]) = 1 /\ IsFiniteSet(h[turns]) /\ h[turns] # {}
  <2>1. Cardinality(h[turns]) = 1
    BY <1>1, <1>10
  <2>2. IsFiniteSet(h[turns])
    BY <1>10 DEF Heap
  <2> QED  BY <2>1, <2>2, FS_EmptySet
<1>12. s \in h[turns]
  <2>1. s = CHOOSE x \in h[turns] : TRUE
    BY <1>2 DEF h
  <2> HIDE DEF s
  <2> QED  BY <1>11, <2>1
<1> HIDE DEF s
<1>13. h[turns] = {s}
  <2>1. IsFiniteSet(h[turns] \ {s}) /\ Cardinality(h[turns] \ {s}) = 1 - 1
    BY <1>11, <1>12, FS_RemoveElement
  <2>2. h[turns] \ {s} = {}
    BY <2>1, FS_EmptySet
  <2> QED  BY <1>12, <2>2
<1>14. State(m, lens, k, equalSize, s)
  BY <1>10, <1>12 DEF Heap
<1>15. RowsOf(k, s) = covered(first)
  BY <1>10, <1>13 DEF covered, Covered
<1> QED  BY <1>14, <1>15 DEF s, covered

\* A Set of one row, a Set of none.
OneRow(m, lens, i, a) ==
  /\ SetOf(m, lens, a) /\ a \in SetRecord
  /\ a.sum = lens[i] /\ a.sum \in Nat /\ Len(a.items) = 1 /\ a.items # << >>
  /\ ToSet(a.items) = {i}

\* The Sets the algorithm starts from are Sets.
LEMMA FirstSets ==
  ASSUME NEW m \in Nat, NEW lens \in Seq(1..m)
  PROVE  /\ SetOf(m, lens, EmptySet) /\ EmptySet \in SetRecord
         /\ EmptySet.sum = 0 /\ EmptySet.items = << >> /\ ToSet(EmptySet.items) = {}
         /\ \A i \in DOMAIN lens : OneRow(m, lens, i, Single(lens, i))
<1>1. EmptySet.sum = 0 /\ EmptySet.items = << >> /\ EmptySet \in SetRecord
  BY DEF EmptySet, SetRecord
<1>2. ToSet(EmptySet.items) = {}
  BY <1>1 DEF ToSet
<1>3. SetOf(m, lens, EmptySet)
  <2>1. Total(m, lens, {}) = 0
    BY TotalType, FS_EmptySet
  <2>2. << >> \in Seq(DOMAIN lens) /\ DOMAIN << >> = {}
    OBVIOUS
  <2> QED  BY <1>1, <1>2, <2>1, <2>2 DEF SetOf
<1>4. ASSUME NEW i \in DOMAIN lens
      PROVE  OneRow(m, lens, i, Single(lens, i))
  <2> DEFINE a == Single(lens, i)
             q == <<i>>
  <2>1. lens[i] \in 1..m /\ lens[i] \in Nat /\ i \in Nat
    OBVIOUS
  <2>2. a.sum = lens[i] /\ a.items = q /\ a = [sum |-> lens[i], items |-> q]
    BY DEF Single
  <2>3. /\ q \in Seq(DOMAIN lens) /\ q \in Seq(Nat) /\ Len(q) = 1 /\ DOMAIN q = {1}
        /\ q[1] = i /\ q # << >>
    BY <2>1
  <2> HIDE DEF q, a
  <2>4. ToSet(q) = {i}
    BY <2>3 DEF ToSet
  <2>5. Total(m, lens, {i}) = lens[i]
    BY <2>1, TotalSingle
  <2>6. a \in SetRecord
    BY <2>1, <2>2, <2>3 DEF SetRecord
  <2>7. SetOf(m, lens, a)
    BY <2>2, <2>3, <2>4, <2>5, <2>6 DEF SetOf
  <2> QED  BY <2>1, <2>2, <2>3, <2>4, <2>6, <2>7 DEF a, OneRow
<1> QED  BY <1>1, <1>2, <1>3, <1>4

\* The States f[1], ..., f[n] of H hold the parts R[1], ..., R[n] of All.
Dealt(m, lens, k, equalSize, n, f, R, All, H) ==
  /\ H = {f[i] : i \in 1..n}
  /\ \A i \in 1..n : State(m, lens, k, equalSize, f[i]) /\ RowsOf(k, f[i]) = R[i]
  /\ \A i, j \in 1..n : i # j => R[i] \cap R[j] = {}
  /\ \A i \in 1..n : R[i] \subseteq All
  /\ \A x \in All : \E i \in 1..n : x \in R[i]

\* Such States make a heap.
LEMMA HeapOfStates ==
  ASSUME NEW m, NEW lens, NEW k, NEW equalSize,
         NEW n \in Nat, NEW f, NEW R, NEW All,
         NEW H, Dealt(m, lens, k, equalSize, n, f, R, All, H)
  PROVE  Heap(m, lens, k, equalSize, H) /\ Covered(k, H) = All
<1> DEFINE I == 1..n
           g == [i \in I |-> f[i]]
           rowsOf(s) == RowsOf(k, s)
<1>0. /\ \A i \in I : State(m, lens, k, equalSize, f[i]) /\ RowsOf(k, f[i]) = R[i]
      /\ \A i, j \in I : i # j => R[i] \cap R[j] = {}
      /\ \A i \in I : R[i] \subseteq All
      /\ \A x \in All : \E i \in I : x \in R[i]
      /\ H = {f[i] : i \in I}
  BY DEF Dealt
<1>1. IsFiniteSet(H)
  <2>1. IsFiniteSet(I)
    BY FS_Interval
  <2>2. g \in Surjection(I, H)
    BY <1>0 DEF Surjection
  <2> HIDE DEF g, I
  <2> QED  BY <2>1, <2>2, FS_Surjection
<1>2. Heap(m, lens, k, equalSize, H)
  <2>1. \A s \in H : State(m, lens, k, equalSize, s)
    BY <1>0
  <2>2. \A i, j \in I : f[i] # f[j] => RowsOf(k, f[i]) \cap RowsOf(k, f[j]) = {}
    BY <1>0
  <2>3. \A s, t \in H : s # t => RowsOf(k, s) \cap RowsOf(k, t) = {}
    BY <1>0, <2>2
  <2> QED  BY <1>1, <2>1, <2>3 DEF Heap
<1>3. \A i \in I : rowsOf(f[i]) = R[i]
  BY <1>0
<1> HIDE DEF rowsOf
<1>4. UNION {rowsOf(s) : s \in H} = All
  <2>1. \A s \in H : rowsOf(s) \subseteq All
    BY <1>0, <1>3
  <2>2. \A x \in All : \E s \in H : x \in rowsOf(s)
    BY <1>0, <1>3
  <2> QED  BY <2>1, <2>2
<1> QED  BY <1>2, <1>4 DEF rowsOf, Covered

\* karmarkar_karp starts with one State for each row, ...
LEMMA FirstHeapOfRows ==
  ASSUME NEW m \in Nat, NEW lens \in Seq(1..m), lens # << >>, NEW k \in Nat \ {0}
  PROVE  /\ Heap(m, lens, k, FALSE, FirstStates(lens, k, FALSE))
         /\ FirstStates(lens, k, FALSE) # {}
         /\ Covered(k, FirstStates(lens, k, FALSE)) = DOMAIN lens
<1> DEFINE one(i) == [j \in 1..k |-> IF j = 1 THEN Single(lens, i) ELSE EmptySet]
           first == {one(i) : i \in DOMAIN lens}
<1>1. FirstStates(lens, k, FALSE) = first
  BY DEF FirstStates
<1>2. DOMAIN lens = 1..Len(lens) /\ Len(lens) \in Nat /\ DOMAIN lens # {} /\ 1 \in 1..k
  BY EmptySeq
<1>3. ASSUME NEW i \in DOMAIN lens
      PROVE  /\ State(m, lens, k, FALSE, one(i))
             /\ RowsOf(k, one(i)) = {i}
  <2> DEFINE s == one(i)
             a == Single(lens, i)
  <2>1. /\ SetOf(m, lens, a) /\ a \in SetRecord
        /\ a.sum = lens[i] /\ a.sum \in Nat /\ Len(a.items) = 1 /\ a.items # << >>
        /\ ToSet(a.items) = {i}
    <3>1. OneRow(m, lens, i, Single(lens, i))
      BY FirstSets
    <3> QED  BY <3>1 DEF OneRow
  <2>2. /\ SetOf(m, lens, EmptySet) /\ EmptySet \in SetRecord
        /\ EmptySet.sum = 0 /\ EmptySet.items = << >> /\ ToSet(EmptySet.items) = {}
    BY FirstSets
  <2>3. \A j \in 1..k : s[j] = IF j = 1 THEN a ELSE EmptySet
    OBVIOUS
  <2>4. s \in [1..k -> SetRecord]
    BY <2>1, <2>2
  <2> HIDE DEF s, a
  <2>5. \A j \in 1..k : SetOf(m, lens, s[j])
    BY <2>1, <2>2, <2>3
  <2>6. Apart(k, s)
    BY <2>1, <2>2, <2>3 DEF Apart
  <2>7. s[1] = a
    BY <1>2, <2>3
  <2>8. RowsOf(k, s) = {i}
    <3>1. \A j \in 1..k : ToSet(s[j].items) = IF j = 1 THEN {i} ELSE {}
      BY <2>1, <2>2, <2>3
    <3> QED  BY <1>2, <3>1 DEF RowsOf
  <2>9. LevelSums(lens, k, s)
    <3>1. \A j \in 1..k : Len(s[j].items) <= 1
      <4>1. Len(EmptySet.items) = 0
        BY <2>2
      <4> SUFFICES ASSUME NEW j \in 1..k PROVE Len(s[j].items) <= 1
        OBVIOUS
      <4>2. s[j] = a \/ s[j] = EmptySet
        BY <2>3
      <4>3. Len(s[j].items) = 0 \/ Len(s[j].items) = 1
        BY <2>1, <4>1, <4>2
      <4> DEFINE l == Len(s[j].items)
      <4> HIDE DEF l
      <4>4. l = 0 \/ l = 1
        BY <4>3 DEF l
      <4>5. l <= 1
        BY <4>4
      <4> QED  BY <4>5 DEF l
    <3>2. ASSUME NEW p \in 1..k, NEW q \in 1..k, s[p].items # << >>
          PROVE  \E x \in ToSet(s[p].items) : s[p].sum - s[q].sum <= lens[x]
      <4>1. s[p] = a
        BY <2>2, <2>3, <3>2
      <4>2. s[q].sum \in Nat
        BY <2>1, <2>2, <2>3
      <4>3. i \in ToSet(s[p].items) /\ s[p].sum = lens[i] /\ lens[i] \in Nat
        BY <2>1, <4>1
      <4>4. s[p].sum - s[q].sum <= lens[i]
        BY <4>2, <4>3
      <4> QED  BY <4>3, <4>4
    <3> QED  BY <3>1, <3>2 DEF LevelSums
  <2>10. \A p, q \in 1..k : p < q => s[p].sum >= s[q].sum
    <3> SUFFICES ASSUME NEW p \in 1..k, NEW q \in 1..k, p < q
                 PROVE  s[p].sum >= s[q].sum
      OBVIOUS
    <3>1. s[q] = EmptySet /\ (s[p] = a \/ s[p] = EmptySet)
      BY <2>3
    <3> QED  BY <2>1, <2>2, <3>1
  <2>11. State(m, lens, k, FALSE, s)
    BY <1>2, <2>1, <2>4, <2>5, <2>6, <2>7, <2>9, <2>10 DEF State, Sets
  <2> QED  BY <2>8, <2>11 DEF s
<1> HIDE DEF one
<1> DEFINE f == [i \in DOMAIN lens |-> one(i)]
           R == [i \in DOMAIN lens |-> {i}]
<1>4. {f[i] : i \in DOMAIN lens} = first
  OBVIOUS
<1>5. \A i \in DOMAIN lens : State(m, lens, k, FALSE, f[i]) /\ RowsOf(k, f[i]) = R[i]
  BY <1>3
<1>6. /\ \A i, j \in DOMAIN lens : i # j => R[i] \cap R[j] = {}
      /\ \A i \in DOMAIN lens : R[i] \subseteq DOMAIN lens
      /\ \A x \in DOMAIN lens : \E i \in DOMAIN lens : x \in R[i]
  OBVIOUS
<1>7. first # {}
  BY <1>2
<1> HIDE DEF first, f, R
<1>8. Heap(m, lens, k, FALSE, first) /\ Covered(k, first) = DOMAIN lens
  <2>1. DOMAIN lens = 1..Len(lens) /\ Len(lens) \in Nat
    BY <1>2
  <2>2. first = {f[i] : i \in 1..Len(lens)}
    BY <1>4, <2>1
  <2>3. Dealt(m, lens, k, FALSE, Len(lens), f, R, DOMAIN lens, first)
    BY <1>5, <1>6, <2>1, <2>2 DEF Dealt
  <2> DEFINE n == Len(lens)
             All == DOMAIN lens
             equalSize == FALSE
  <2>4. n \in Nat /\ Dealt(m, lens, k, equalSize, n, f, R, All, first)
    BY <2>1, <2>3
  <2> HIDE DEF n, All, equalSize
  <2>5. Heap(m, lens, k, equalSize, first) /\ Covered(k, first) = All
    BY <2>4, HeapOfStates
  <2> QED  BY <2>5 DEF All, equalSize
<1> QED  BY <1>1, <1>7, <1>8

\* ... or with one State for each k rows in the order of their lengths.
LEMMA FirstHeapOfGroups ==
  ASSUME NEW m \in Nat, NEW lens \in Seq(1..m), lens # << >>, NEW k \in Nat \ {0},
         Len(lens) % k = 0
  PROVE  /\ Heap(m, lens, k, TRUE, FirstStates(lens, k, TRUE))
         /\ FirstStates(lens, k, TRUE) # {}
         /\ Covered(k, FirstStates(lens, k, TRUE)) = DOMAIN lens
<1> DEFINE p == ByLength(lens)
           n == Len(lens) \div k
           one(g) == [j \in 1..k |-> Single(lens, p[g * k + j])]
           first == {Decreasing(one(g)) : g \in 0..(n - 1)}
           R(g) == {p[g * k + j] : j \in 1..k}
           at(g, j) == g * k + j
<1>1. FirstStates(lens, k, TRUE) = first
  BY DEF FirstStates, ByLength
<1>2. DOMAIN lens = 1..Len(lens) /\ Len(lens) \in Nat /\ Len(lens) # 0
  BY EmptySeq
<1>3. /\ p \in [1..Len(lens) -> DOMAIN lens]
      /\ \A i, j \in 1..Len(lens) : p[i] = p[j] => i = j
      /\ \A x \in DOMAIN lens : \E i \in 1..Len(lens) : p[i] = x
  <2>1. lens \in Seq(Nat)
    OBVIOUS
  <2> QED  BY <2>1, SortedByLength DEF Bijection, Injection, Surjection, IsInjective
<1> HIDE DEF p
<1>4. n \in Nat /\ Len(lens) = k * n /\ n # 0
  <2>1. Len(lens) \div k \in Int /\ Len(lens) = k * (Len(lens) \div k) + (Len(lens) % k)
    <3> DEFINE L == Len(lens)
    <3>1. L \in Int
      BY <1>2
    <3> HIDE DEF L
    <3>2. L \div k \in Int /\ L = k * (L \div k) + (L % k)
      BY <3>1, DivMod
    <3> QED  BY <3>2 DEF L
  <2>2. n \in Int /\ Len(lens) = k * n
    BY <2>1
  <2> HIDE DEF n
  <2>3. n > 0
    <3>1. n <= 0 => k * n <= 0
      BY <2>2
    <3> QED  BY <1>2, <2>2, <3>1
  <2> QED  BY <2>2, <2>3
<1> HIDE DEF n
<1>5. ASSUME NEW g \in 0..(n - 1), NEW j \in 1..k PROVE at(g, j) \in 1..Len(lens)
  <2>1. k * g + k <= k * n
    <3>1. g < n
      BY <1>4
    <3> QED  BY <1>4, <3>1, Mono
  <2>2. k * g \in Nat /\ g * k = k * g
    OBVIOUS
  <2> DEFINE a == k * g
             b == k * n
  <2>3. a \in Nat /\ b = Len(lens) /\ a + k <= b /\ at(g, j) = a + j
    BY <1>4, <2>1, <2>2
  <2> HIDE DEF a, b, at
  <2>4. a + j \in 1..Len(lens)
    BY <1>2, <2>3
  <2> QED  BY <2>3, <2>4
<1>6. \A g, h \in 0..(n - 1) : \A i, j \in 1..k : at(g, i) = at(h, j) => g = h /\ i = j
  <2> SUFFICES ASSUME NEW g \in 0..(n - 1), NEW h \in 0..(n - 1),
                      NEW i \in 1..k, NEW j \in 1..k, at(g, i) = at(h, j)
               PROVE  g = h /\ i = j
    OBVIOUS
  <2>1. i - 1 \in 0..(k - 1) /\ j - 1 \in 0..(k - 1) /\ g \in Int /\ h \in Int
    OBVIOUS
  <2>2. k * g + (i - 1) = k * h + (j - 1)
    OBVIOUS
  <2>3. g = h /\ i - 1 = j - 1
    <3> DEFINE a == i - 1
               b == j - 1
    <3>1. /\ a \in 0..(k - 1) /\ b \in 0..(k - 1) /\ g \in Int /\ h \in Int
          /\ k * g + a = k * h + b
      BY <2>1, <2>2
    <3> HIDE DEF a, b
    <3>2. g = h /\ a = b
      BY <3>1, Unique
    <3> QED  BY <3>2 DEF a, b
  <2> QED  BY <2>3
<1>7. \A x \in 1..Len(lens) : \E g \in 0..(n - 1), j \in 1..k : at(g, j) = x
  <2> SUFFICES ASSUME NEW x \in 1..Len(lens)
               PROVE  \E g \in 0..(n - 1), j \in 1..k : at(g, j) = x
    OBVIOUS
  <2> DEFINE g == (x - 1) \div k
             r == (x - 1) % k
  <2>1. g \in Int /\ r \in 0..(k - 1) /\ x - 1 = k * g + r
    <3>1. x - 1 \in Int
      OBVIOUS
    <3> QED  BY <3>1, DivMod
  <2>2. x - 1 >= 0 /\ x - 1 < k * n
    BY <1>2, <1>4
  <2> HIDE DEF g, r
  <2>3. g >= 0
    <3>1. g < 0 => k * g + k <= k * 0
      BY <2>1, Mono
    <3>2. k * 0 = 0 /\ k * g \in Int
      BY <2>1
    <3> DEFINE a == k * g
    <3> HIDE DEF a
    <3>3. a \in Int /\ (g < 0 => a + k <= 0) /\ x - 1 = a + r
      BY <2>1, <3>1, <3>2 DEF a
    <3> QED  BY <2>1, <2>2, <3>3
  <2>4. g < n
    <3>1. n < g => k * n + k <= k * g
      BY <1>4, <2>1, Mono
    <3>2. k * g \in Int /\ k * n \in Int
      BY <1>4, <2>1
    <3> DEFINE a == k * g
               b == k * n
    <3> HIDE DEF a, b
    <3>3. /\ a \in Int /\ b \in Int /\ (n < g => b + k <= a)
          /\ (n = g => a = b) /\ x - 1 = a + r /\ x - 1 < b
      BY <2>1, <2>2, <3>1, <3>2 DEF a, b
    <3> QED  BY <1>4, <2>1, <3>3
  <2>5. g \in 0..(n - 1) /\ r + 1 \in 1..k
    BY <1>4, <2>1, <2>3, <2>4
  <2>6. at(g, r + 1) = x
    BY <2>1
  <2> HIDE DEF at
  <2> QED  BY <2>5, <2>6
<1>8. \A g : \A j \in 1..k : one(g)[j] = Single(lens, p[at(g, j)])
  OBVIOUS
<1>8a. \A g : DOMAIN one(g) = 1..k /\ one(g) = [j \in 1..k |-> one(g)[j]]
  OBVIOUS
<1>8b. \A g : R(g) = {p[at(g, j)] : j \in 1..k}
  OBVIOUS
<1> HIDE DEF at, one, R
<1>9. ASSUME NEW g \in 0..(n - 1)
      PROVE  /\ State(m, lens, k, TRUE, Decreasing(one(g)))
             /\ RowsOf(k, Decreasing(one(g))) = R(g)
  <2> DEFINE u == one(g)
             row(j) == p[at(g, j)]
  <2>1. \A j \in 1..k : row(j) \in DOMAIN lens /\ u[j] = Single(lens, row(j))
    BY <1>3, <1>5, <1>8
  <2>2. \A i, j \in 1..k : i # j => row(i) # row(j)
    BY <1>3, <1>5, <1>6
  <2>3. u = [j \in 1..k |-> u[j]] /\ R(g) = {row(j) : j \in 1..k}
    BY <1>8a, <1>8b
  <2> HIDE DEF u, row
  <2>4. \A j \in 1..k :
          /\ SetOf(m, lens, u[j]) /\ u[j] \in SetRecord
          /\ u[j].sum = lens[row(j)] /\ Len(u[j].items) = 1 /\ u[j].items # << >>
          /\ ToSet(u[j].items) = {row(j)}
    <3> SUFFICES ASSUME NEW j \in 1..k PROVE OneRow(m, lens, row(j), u[j])
      BY DEF OneRow
    <3> QED  BY <2>1, FirstSets
  <2>5. u \in [1..k -> SetRecord]
    BY <2>3, <2>4
  <2>6. Apart(k, u)
    <3> SUFFICES ASSUME NEW i \in 1..k, NEW j \in 1..k, i # j
                 PROVE  ToSet(u[i].items) \cap ToSet(u[j].items) = {}
      BY DEF Apart
    <3>1. ToSet(u[i].items) = {row(i)} /\ ToSet(u[j].items) = {row(j)}
      BY <2>4
    <3> QED  BY <2>2, <3>1
  <2>7. LevelRows(lens, k, u)
    <3> SUFFICES ASSUME NEW i \in 1..k, NEW j \in 1..k
                 PROVE  /\ Len(u[i].items) = Len(u[j].items)
                        /\ \E x, y \in DOMAIN lens : u[i].sum - u[j].sum <= lens[x] - lens[y]
      BY DEF LevelRows
    <3>1. u[i].sum = lens[row(i)] /\ u[j].sum = lens[row(j)]
      BY <2>4
    <3>2. row(i) \in DOMAIN lens /\ row(j) \in DOMAIN lens
      BY <2>1
    <3>3. lens[row(i)] \in Int /\ lens[row(j)] \in Int
      BY <3>2
    <3>4. u[i].sum - u[j].sum <= lens[row(i)] - lens[row(j)]
      BY <3>1, <3>3
    <3> QED  BY <2>4, <3>2, <3>4
  <2>8. 1 \in 1..k
    OBVIOUS
  <2> DEFINE equalSize == TRUE
  <2>9. Sets(m, lens, k, equalSize, u)
    BY <2>4, <2>5, <2>6, <2>7, <2>8 DEF Sets
  <2>10. equalSize \in BOOLEAN
    OBVIOUS
  <2> HIDE DEF equalSize
  <2>11. /\ State(m, lens, k, equalSize, Decreasing(u))
         /\ RowsOf(k, Decreasing(u)) = RowsOf(k, u)
    BY <2>9, <2>10, DecreasingState
  <2>12. RowsOf(k, u) = R(g)
    <3>1. \A j \in 1..k : ToSet(u[j].items) = {row(j)}
      BY <2>4
    <3>2. \A x : x \in RowsOf(k, u) <=> \E j \in 1..k : x \in ToSet(u[j].items)
      BY DEF RowsOf
    <3>3. \A x : x \in R(g) <=> \E j \in 1..k : x = row(j)
      BY <2>3
    <3>4. \A j \in 1..k : \A x : x \in ToSet(u[j].items) <=> x = row(j)
      BY <3>1
    <3>5. ASSUME NEW x PROVE x \in RowsOf(k, u) <=> x \in R(g)
      BY <3>2, <3>3, <3>4
    <3> QED  BY <3>5
  <2> QED  BY <2>11, <2>12 DEF u, equalSize
<1> DEFINE f == [i \in 1..n |-> Decreasing(one(i - 1))]
           P == [i \in 1..n |-> R(i - 1)]
<1>10. \A i \in 1..n : i - 1 \in 0..(n - 1)
  BY <1>4
<1>11. first = {f[i] : i \in 1..n}
  <2>1. \A g \in 0..(n - 1) : g + 1 \in 1..n /\ (g + 1) - 1 = g
    BY <1>4
  <2>2. \A g \in 0..(n - 1) : f[g + 1] = Decreasing(one(g))
    BY <2>1
  <2> QED  BY <1>10, <2>1, <2>2
<1>12. \A i \in 1..n : State(m, lens, k, TRUE, f[i]) /\ RowsOf(k, f[i]) = P[i]
  BY <1>9, <1>10
<1>13. \A i, j \in 1..n : i # j => P[i] \cap P[j] = {}
  <2> SUFFICES ASSUME NEW i \in 1..n, NEW j \in 1..n, i # j
               PROVE  R(i - 1) \cap R(j - 1) = {}
    OBVIOUS
  <2>1. i - 1 \in 0..(n - 1) /\ j - 1 \in 0..(n - 1) /\ i - 1 # j - 1
    BY <1>4
  <2>2. \A a, b \in 1..k : p[at(i - 1, a)] # p[at(j - 1, b)]
    <3> SUFFICES ASSUME NEW a \in 1..k, NEW b \in 1..k
                 PROVE  p[at(i - 1, a)] # p[at(j - 1, b)]
      OBVIOUS
    <3>1. at(i - 1, a) \in 1..Len(lens) /\ at(j - 1, b) \in 1..Len(lens)
      BY <1>5, <2>1
    <3>2. at(i - 1, a) # at(j - 1, b)
      BY <1>6, <2>1
    <3> QED  BY <1>3, <3>1, <3>2
  <2> QED  BY <1>8b, <2>2
<1>14. \A i \in 1..n : P[i] \subseteq DOMAIN lens
  <2> SUFFICES ASSUME NEW i \in 1..n PROVE R(i - 1) \subseteq DOMAIN lens
    OBVIOUS
  <2>1. \A a \in 1..k : p[at(i - 1, a)] \in DOMAIN lens
    BY <1>3, <1>5, <1>10
  <2> QED  BY <1>8b, <2>1
<1>15. \A x \in DOMAIN lens : \E i \in 1..n : x \in P[i]
  <2> SUFFICES ASSUME NEW x \in DOMAIN lens PROVE \E i \in 1..n : x \in P[i]
    OBVIOUS
  <2>1. PICK y \in 1..Len(lens) : p[y] = x
    BY <1>3
  <2>2. PICK g \in 0..(n - 1), j \in 1..k : at(g, j) = y
    BY <1>7
  <2>3. x \in R(g)
    BY <1>8b, <2>1, <2>2
  <2>4. g + 1 \in 1..n /\ (g + 1) - 1 = g
    BY <1>4
  <2>5. P[g + 1] = R(g)
    BY <2>4
  <2> HIDE DEF P
  <2> QED  BY <2>3, <2>4, <2>5
<1> DEFINE All == DOMAIN lens
           equalSize == TRUE
<1>16. first # {}
  <2>1. 0 \in 0..(n - 1)
    BY <1>4
  <2> QED  BY <2>1
<1> HIDE DEF first, f, P
<1>17. Dealt(m, lens, k, equalSize, n, f, P, All, first)
  BY <1>11, <1>12, <1>13, <1>14, <1>15 DEF Dealt
<1> HIDE DEF All, equalSize
<1>18. Heap(m, lens, k, equalSize, first) /\ Covered(k, first) = All
  BY <1>4, <1>17, HeapOfStates
<1> QED  BY <1>1, <1>16, <1>18 DEF All, equalSize

\* The parts of get_seqlen_balanced_partitions: every row in one part,
\* no part empty, all parts level.
Parts(m, lens, k, equalSize, B) ==
  /\ B \in [1..k -> Seq(DOMAIN lens)]
  /\ \A r \in 1..k : B[r] # << >> /\ IsFiniteSet(ToSet(B[r]))
  /\ \A r \in 1..k : \A i, j \in DOMAIN B[r] : B[r][i] = B[r][j] => i = j
  /\ \A r, q \in 1..k : r # q => ToSet(B[r]) \cap ToSet(B[q]) = {}
  /\ \A x \in DOMAIN lens : \E r \in 1..k : x \in ToSet(B[r])
  /\ equalSize => \A r, q \in 1..k :
       /\ Len(B[r]) = Len(B[q])
       /\ \E x, y \in DOMAIN lens :
            Total(m, lens, ToSet(B[r])) - Total(m, lens, ToSet(B[q])) <= lens[x] - lens[y]
  /\ ~equalSize => \A r, q \in 1..k : \E x \in ToSet(B[r]) :
       Total(m, lens, ToSet(B[r])) - Total(m, lens, ToSet(B[q])) <= lens[x]

\* A list of different members has as many as it is long.
LEMMA LengthIs ==
  ASSUME NEW S, NEW q \in Seq(S), \A i, j \in DOMAIN q : q[i] = q[j] => i = j
  PROVE  Cardinality(ToSet(q)) = Len(q) /\ IsFiniteSet(ToSet(q))
<1>1. Len(q) \in Nat /\ DOMAIN q = 1..Len(q) /\ q \in [1..Len(q) -> S]
  OBVIOUS
<1>2. q \in Bijection(1..Len(q), ToSet(q))
  <2>1. q \in [1..Len(q) -> ToSet(q)]
    BY <1>1 DEF ToSet
  <2>2. \A x \in ToSet(q) : \E i \in 1..Len(q) : q[i] = x
    BY <1>1 DEF ToSet
  <2> QED  BY <1>1, <2>1, <2>2 DEF Bijection, Injection, Surjection, IsInjective
<1>3. IsFiniteSet(1..Len(q)) /\ Cardinality(1..Len(q)) = Len(q)
  <2> DEFINE n == Len(q)
  <2>1. n \in Nat
    BY <1>1
  <2> HIDE DEF n
  <2>2. IsFiniteSet(1..n) /\ Cardinality(1..n) = n
    BY <2>1, FS_Interval
  <2> QED  BY <2>2 DEF n
<1> QED  BY <1>2, <1>3, FS_Bijection DEF ExistsBijection

\* No set of the last State is empty: there are as many rows as sets.
LEMMA NoneEmpty ==
  ASSUME NEW m \in Nat, NEW lens \in Seq(1..m), NEW k \in Nat \ {0}, k <= Len(lens),
         NEW equalSize \in BOOLEAN, NEW s, State(m, lens, k, equalSize, s),
         RowsOf(k, s) = DOMAIN lens
  PROVE  \A i \in 1..k : s[i].items # << >>
<1>1. /\ s \in [1..k -> SetRecord] /\ \A i \in 1..k : SetOf(m, lens, s[i])
      /\ IF equalSize THEN LevelRows(lens, k, s) ELSE LevelSums(lens, k, s)
  BY DEF State, Sets
<1>2. PICK h \in 1..k : s[h].items # << >>
  BY DEF State, Sets
<1>3. \A i \in 1..k : s[i].items \in Seq(Nat)
  BY <1>1 DEF SetRecord
<1>4. CASE equalSize
  <2> SUFFICES ASSUME NEW i \in 1..k PROVE s[i].items # << >>
    OBVIOUS
  <2>1. Len(s[i].items) = Len(s[h].items)
    BY <1>1, <1>4 DEF LevelRows
  <2>2. Len(s[h].items) # 0
    BY <1>2, <1>3, EmptySeq
  <2> QED  BY <2>1, <2>2
<1>5. CASE /\ \A i \in 1..k : Len(s[i].items) <= 1
           /\ \E i \in 1..k : s[i].items = << >>
  <2>1. PICK j \in 1..k : s[j].items = << >>
    BY <1>5
  <2> DEFINE part(x) == CHOOSE i \in 1..k : x \in ToSet(s[i].items)
             f == [x \in DOMAIN lens |-> part(x)]
             T == (1..k) \ {j}
  <2>2. \A x \in DOMAIN lens : part(x) \in 1..k /\ x \in ToSet(s[part(x)].items)
    BY DEF RowsOf
  <2> HIDE DEF part
  <2>3. ToSet(s[j].items) = {}
    BY <2>1 DEF ToSet
  <2>4. f \in [DOMAIN lens -> T]
    BY <2>2, <2>3
  <2>5. \A x, y \in DOMAIN lens : f[x] = f[y] => x = y
    <3> SUFFICES ASSUME NEW x \in DOMAIN lens, NEW y \in DOMAIN lens, part(x) = part(y)
                 PROVE  x = y
      OBVIOUS
    <3> DEFINE q == s[part(x)].items
    <3>1. /\ x \in ToSet(q) /\ y \in ToSet(q) /\ q \in Seq(Nat) /\ Len(q) <= 1
      BY <1>3, <1>5, <2>2
    <3> HIDE DEF q
    <3>2. \A c, d \in DOMAIN q : c = d
      BY <3>1
    <3> QED  BY <3>1, <3>2 DEF ToSet
  <2> HIDE DEF f
  <2>6. f \in Injection(DOMAIN lens, T)
    BY <2>4, <2>5 DEF Injection, IsInjective
  <2>7. IsFiniteSet(T) /\ Cardinality(T) = k - 1
    <3>1. IsFiniteSet(1..k) /\ Cardinality(1..k) = k
      BY FS_Interval
    <3> DEFINE K == 1..k
    <3>2. IsFiniteSet(K) /\ Cardinality(K) = k /\ j \in K
      BY <2>1, <3>1
    <3> HIDE DEF K
    <3>3. IsFiniteSet(K \ {j}) /\ Cardinality(K \ {j}) = k - 1
      BY <3>2, FS_RemoveElement
    <3> QED  BY <3>3 DEF K
  <2>8. Cardinality(DOMAIN lens) = Len(lens) /\ Len(lens) \in Nat
    <3> DEFINE n == Len(lens)
    <3>1. n \in Nat /\ DOMAIN lens = 1..n
      OBVIOUS
    <3> HIDE DEF n
    <3>2. Cardinality(1..n) = n
      BY <3>1, FS_Interval
    <3> QED  BY <3>1, <3>2 DEF n
  <2>9. Cardinality(DOMAIN lens) <= Cardinality(T)
    <3> HIDE DEF T
    <3> QED  BY <2>6, <2>7, FS_Injection
  <2> QED  BY <2>7, <2>8, <2>9
<1>6. ~equalSize => LevelSums(lens, k, s)
  BY <1>1
<1> QED  BY <1>4, <1>5, <1>6 DEF LevelSums

\* get_seqlen_balanced_partitions: the parts share out all rows, none is
\* empty, they are level, and with equal_size they have equally many rows.
THEOREM Partitions ==
  ASSUME NEW m \in Nat, NEW lens \in Seq(1..m), NEW k \in Nat \ {0}, k <= Len(lens),
         NEW equalSize \in BOOLEAN, equalSize => Len(lens) % k = 0
  PROVE  Parts(m, lens, k, equalSize, BalancedPartitions(lens, k, equalSize))
<1> DEFINE first == FirstStates(lens, k, equalSize)
           s == LastState(first)
           B == BalancedPartitions(lens, k, equalSize)
           S(r) == ToSet(s[r].items)
<1>1. lens # << >> /\ Len(lens) \in Nat
  OBVIOUS
<1>2. Heap(m, lens, k, equalSize, first) /\ first # {} /\ Covered(k, first) = DOMAIN lens
  <2>1. CASE equalSize
    BY <1>1, <2>1, FirstHeapOfGroups
  <2>2. CASE ~equalSize
    BY <1>1, <2>2, FirstHeapOfRows
  <2> QED  BY <2>1, <2>2
<1> HIDE DEF first
<1>3. State(m, lens, k, equalSize, s) /\ RowsOf(k, s) = DOMAIN lens
  BY <1>2, LastStateIs
<1>4. B = [r \in DOMAIN s |-> Sorted(S(r), <)]
  BY DEF BalancedPartitions, first
<1> HIDE DEF s, B
<1>5. /\ s \in [1..k -> SetRecord] /\ \A i \in 1..k : SetOf(m, lens, s[i])
      /\ \A i, j \in 1..k : i # j => S(i) \cap S(j) = {}
      /\ equalSize => LevelRows(lens, k, s)
      /\ ~equalSize => LevelSums(lens, k, s)
  BY <1>3 DEF State, Sets, Apart
<1>6. \A i \in 1..k : s[i].items # << >>
  BY <1>3, NoneEmpty
<1>7. ASSUME NEW r \in 1..k
      PROVE  /\ B[r] \in Seq(DOMAIN lens) /\ B[r] # << >>
             /\ IsFiniteSet(ToSet(B[r])) /\ ToSet(B[r]) = S(r)
             /\ \A i, j \in DOMAIN B[r] : B[r][i] = B[r][j] => i = j
             /\ Len(B[r]) = Len(s[r].items) /\ s[r].sum = Total(m, lens, S(r))
             /\ B[r] \in Seq(Nat)
  <2> DEFINE q == s[r].items
             T == ToSet(q)
             b == Sorted(T, <)
  <2>1. /\ q \in Seq(DOMAIN lens) /\ \A i, j \in DOMAIN q : q[i] = q[j] => i = j
        /\ s[r].sum = Total(m, lens, T)
    BY <1>5 DEF SetOf
  <2>2. B[r] = b
    BY <1>4, <1>5
  <2>3. T \subseteq DOMAIN lens /\ T \in SUBSET Nat
    <3>1. T \subseteq DOMAIN lens
      BY <1>5, SetFacts
    <3> QED  BY <3>1
  <2> HIDE DEF q
  <2>4. Cardinality(T) = Len(q) /\ IsFiniteSet(T)
    BY <2>1, LengthIs
  <2>5. q # << >> /\ Len(q) \in Nat /\ Len(q) # 0
    BY <1>6, <2>1, EmptySeq DEF q
  <2> HIDE DEF T, b
  <2>6. b \in Bijection(1..Cardinality(T), T) /\ b \in Seq(T)
    BY <2>3, <2>4, SortedNumbers DEF b
  <2>7. /\ b \in [1..Len(q) -> T] /\ \A i, j \in 1..Len(q) : b[i] = b[j] => i = j
        /\ \A x \in T : \E i \in 1..Len(q) : b[i] = x
    BY <2>4, <2>6 DEF Bijection, Injection, Surjection, IsInjective
  <2>8. Len(b) = Len(q) /\ DOMAIN b = 1..Len(q) /\ b \in Seq(DOMAIN lens) /\ b # << >>
    <3>1. Len(b) = Len(q)
      BY <2>5, <2>6, <2>7
    <3>2. b # << >>
      <4>1. Len(b) # 0
        BY <2>5, <3>1
      <4> QED  BY <4>1
    <3> QED  BY <2>3, <2>6, <2>7, <3>1, <3>2
  <2>9. ToSet(b) = T
    BY <2>7, <2>8 DEF ToSet
  <2>10. T = S(r)
    BY DEF T, q
  <2>11. b \in Seq(Nat)
    BY <2>8
  <2> QED  BY <2>1, <2>2, <2>4, <2>7, <2>8, <2>9, <2>10, <2>11 DEF q
<1>8. B \in [1..k -> Seq(DOMAIN lens)]
  <2>1. B = [r \in 1..k |-> B[r]]
    BY <1>4, <1>5
  <2> QED  BY <1>7, <2>1
<1>9. \A r, q \in 1..k : r # q => ToSet(B[r]) \cap ToSet(B[q]) = {}
  BY <1>5, <1>7
<1>10. \A x \in DOMAIN lens : \E r \in 1..k : x \in ToSet(B[r])
  <2> SUFFICES ASSUME NEW x \in DOMAIN lens PROVE \E r \in 1..k : x \in ToSet(B[r])
    OBVIOUS
  <2>1. PICK r \in 1..k : x \in S(r)
    BY <1>3 DEF RowsOf
  <2> QED  BY <1>7, <2>1
<1>11. equalSize => \A r, q \in 1..k :
         /\ Len(B[r]) = Len(B[q])
         /\ \E x, y \in DOMAIN lens :
              Total(m, lens, ToSet(B[r])) - Total(m, lens, ToSet(B[q])) <= lens[x] - lens[y]
  <2> SUFFICES ASSUME equalSize, NEW r \in 1..k, NEW q \in 1..k
               PROVE  /\ Len(B[r]) = Len(B[q])
                      /\ \E x, y \in DOMAIN lens :
                           Total(m, lens, ToSet(B[r])) - Total(m, lens, ToSet(B[q]))
                             <= lens[x] - lens[y]
    OBVIOUS
  <2>1. /\ ToSet(B[r]) = S(r) /\ Len(B[r]) = Len(s[r].items) /\ s[r].sum = Total(m, lens, S(r))
        /\ ToSet(B[q]) = S(q) /\ Len(B[q]) = Len(s[q].items) /\ s[q].sum = Total(m, lens, S(q))
    BY <1>7
  <2>2. /\ Len(s[r].items) = Len(s[q].items)
        /\ \E x, y \in DOMAIN lens : s[r].sum - s[q].sum <= lens[x] - lens[y]
    BY <1>5 DEF LevelRows
  <2> HIDE DEF S
  <2> QED  BY <2>1, <2>2
<1>12. ~equalSize => \A r, q \in 1..k : \E x \in ToSet(B[r]) :
         Total(m, lens, ToSet(B[r])) - Total(m, lens, ToSet(B[q])) <= lens[x]
  <2> SUFFICES ASSUME ~equalSize, NEW r \in 1..k, NEW q \in 1..k
               PROVE  \E x \in ToSet(B[r]) :
                        Total(m, lens, ToSet(B[r])) - Total(m, lens, ToSet(B[q])) <= lens[x]
    OBVIOUS
  <2>1. /\ ToSet(B[r]) = S(r) /\ s[r].sum = Total(m, lens, S(r))
        /\ ToSet(B[q]) = S(q) /\ s[q].sum = Total(m, lens, S(q))
    BY <1>7
  <2>2. \E x \in S(r) : s[r].sum - s[q].sum <= lens[x]
    BY <1>5, <1>6 DEF LevelSums
  <2> HIDE DEF S
  <2> QED  BY <2>1, <2>2
<1>13. Parts(m, lens, k, equalSize, B)
  BY <1>7, <1>8, <1>9, <1>10, <1>11, <1>12 DEF Parts
<1> QED  BY <1>13 DEF B

-----------------------------------------------------------------------------
(***************************************************************************)
(* Lists end to end: part j starts behind position off[j].                 *)
(***************************************************************************)
Flat(n, ss, off, f) ==
  /\ off \in [1..(n + 1) -> Nat] /\ off[1] = 0 /\ off[n + 1] = Len(f)
  /\ \A j \in 1..n : off[j + 1] = off[j] + Len(ss[j])
  /\ \A j \in 1..n : \A t \in 1..Len(ss[j]) :
       off[j] + t \in 1..Len(f) /\ f[off[j] + t] = ss[j][t]
  /\ \A p \in 1..Len(f) : \E j \in 1..n : \E t \in 1..Len(ss[j]) : p = off[j] + t
  /\ \A i, j \in 1..n : i < j => off[i + 1] <= off[j]

\* Every place of the lists is one of FlattenSeq, and the other way round.
LEMMA Flattened ==
  ASSUME NEW X, NEW n \in Nat \ {0}, NEW ss \in [1..n -> Seq(X)]
  PROVE  FlattenSeq(ss) \in Seq(X) /\ \E off : Flat(n, ss, off, FlattenSeq(ss))
<1> DEFINE F == [i \in 1..n |-> [s \in Seq(X) |-> s \o ss[i]]]
<1>1. F \in [1..n -> [Seq(X) -> Seq(X)]]
  <2> SUFFICES ASSUME NEW i \in 1..n PROVE [s \in Seq(X) |-> s \o ss[i]] \in [Seq(X) -> Seq(X)]
    OBVIOUS
  <2>1. \A s \in Seq(X) : s \o ss[i] \in Seq(X)
    OBVIOUS
  <2> QED  BY <2>1
<1>2. << >> \in Seq(X) /\ Len(<< >>) = 0
  OBVIOUS
<1>3. PICK f \in [0..n -> Seq(X)] : Computed(f, n, F, << >>)
  <2> HIDE DEF F
  <2>1. n \in Nat
    OBVIOUS
  <2> QED  BY <1>1, <1>2, <2>1, Recursion
<1>4. f[0] = << >> /\ \A i \in 1..n : f[i] = f[i - 1] \o ss[i]
  <2>1. f[0] = << >> /\ \A i \in 1..n : f[i] = F[i][f[i - 1]]
    BY <1>3 DEF Computed
  <2>2. \A i \in 1..n : f[i - 1] \in Seq(X)
    OBVIOUS
  <2> QED  BY <2>1, <2>2
<1> HIDE DEF F
<1> DEFINE off == [j \in 1..(n + 1) |-> Len(f[j - 1])]
           l(i) == Len(f[i])
<1>5. /\ \A i \in 0..n : f[i] \in Seq(X) /\ l(i) \in Nat
      /\ \A i \in 1..n : ss[i] \in Seq(X) /\ Len(ss[i]) \in Nat
      /\ \A i \in 1..n : i - 1 \in 0..n /\ i \in 0..n
  OBVIOUS
<1>6. \A i \in 1..n : l(i) = l(i - 1) + Len(ss[i])
  <2> SUFFICES ASSUME NEW i \in 1..n PROVE Len(f[i]) = Len(f[i - 1]) + Len(ss[i])
    OBVIOUS
  <2> DEFINE s == f[i - 1]
             q == ss[i]
  <2>1. s \in Seq(X) /\ q \in Seq(X) /\ f[i] = s \o q
    BY <1>4, <1>5
  <2> HIDE DEF s, q
  <2>2. Len(f[i]) = Len(s) + Len(q)
    BY <2>1
  <2> QED  BY <2>2 DEF s, q
<1>7. \A j \in 1..(n + 1) : off[j] = l(j - 1)
  OBVIOUS
<1>8. /\ off \in [1..(n + 1) -> Nat] /\ off[1] = 0 /\ off[n + 1] = l(n)
      /\ \A j \in 1..n : off[j + 1] = off[j] + Len(ss[j])
  <2>1. off \in [1..(n + 1) -> Nat]
    <3>1. \A j \in 1..(n + 1) : j - 1 \in 0..n
      OBVIOUS
    <3> QED  BY <1>5, <3>1
  <2>2. l(0) = 0
    BY <1>2, <1>4
  <2> HIDE DEF off, l
  <2>3. \A j \in 1..n : j \in 1..(n + 1) /\ j + 1 \in 1..(n + 1) /\ (j + 1) - 1 = j
    OBVIOUS
  <2>4. 1 \in 1..(n + 1) /\ n + 1 \in 1..(n + 1) /\ 1 - 1 = 0 /\ (n + 1) - 1 = n
    OBVIOUS
  <2>5. off[1] = 0 /\ off[n + 1] = l(n)
    BY <1>7, <2>2, <2>4
  <2>6. \A j \in 1..n : off[j + 1] = off[j] + Len(ss[j])
    <3> SUFFICES ASSUME NEW j \in 1..n PROVE off[j + 1] = off[j] + Len(ss[j])
      OBVIOUS
    <3>1. off[j + 1] = l(j) /\ off[j] = l(j - 1)
      BY <1>7, <2>3
    <3> QED  BY <1>6, <3>1
  <2> QED  BY <2>1, <2>5, <2>6
<1> HIDE DEF l
\* The list made so far.
<1> DEFINE Good(i) ==
             /\ \A j \in 1..i : \A t \in 1..Len(ss[j]) :
                  off[j] + t \in 1..l(i) /\ f[i][off[j] + t] = ss[j][t]
             /\ \A p \in 1..l(i) : \E j \in 1..i : \E t \in 1..Len(ss[j]) : p = off[j] + t
             /\ \A j \in 1..i : off[j + 1] <= l(i)
           Bad == {i \in 0..n : ~Good(i)}
<1>9. Good(0)
  <2>1. l(0) = 0
    BY <1>2, <1>4 DEF l
  <2>2. 1..0 = {} /\ 1..l(0) = {}
    BY <2>1
  <2> QED  BY <2>2
<1>10. ASSUME NEW i \in 1..n, Good(i - 1) PROVE Good(i)
  <2> DEFINE s == f[i - 1]
             q == ss[i]
             a == l(i - 1)
             b == Len(q)
  <2>1. /\ s \in Seq(X) /\ q \in Seq(X) /\ f[i] = s \o q /\ Len(s) = a /\ a \in Nat
        /\ b \in Nat /\ l(i) = a + b
    <3>1. i - 1 \in 0..n /\ i \in 0..n
      BY <1>5
    <3> QED  BY <1>4, <1>5, <1>6, <3>1 DEF l
  <2>2. off[i] = a /\ off[i + 1] = a + b
    <3>1. i \in 1..(n + 1)
      OBVIOUS
    <3>2. off[i] = a
      BY <1>7, <3>1
    <3> HIDE DEF off
    <3> QED  BY <1>8, <3>2
  <2>3. /\ \A j \in 1..(i - 1) : \A t \in 1..Len(ss[j]) :
             off[j] + t \in 1..a /\ s[off[j] + t] = ss[j][t]
        /\ \A p \in 1..a : \E j \in 1..(i - 1) : \E t \in 1..Len(ss[j]) : p = off[j] + t
        /\ \A j \in 1..(i - 1) : off[j + 1] <= a
    BY <1>10
  <2> HIDE DEF off, s, a, Good
  <2>4. /\ \A p \in 1..a : p \in 1..l(i) /\ f[i][p] = s[p]
        /\ \A t \in 1..b : a + t \in 1..l(i) /\ f[i][a + t] = q[t]
    <3> HIDE DEF q
    <3>1. Len(f[i]) = a + b
      <4> DEFINE r == ss[i]
      <4>1. s \in Seq(X) /\ r \in Seq(X) /\ f[i] = s \o r /\ Len(s) = a /\ b = Len(r)
        BY <2>1 DEF q
      <4> HIDE DEF r
      <4>2. Len(s \o r) = Len(s) + Len(r)
        <5>1. s \in Seq(X) /\ r \in Seq(X)
          BY <4>1
        <5> QED  BY ONLY <5>1, ConcatProperties
      <4>3. Len(f[i]) = Len(s) + Len(r)
        BY <4>1, <4>2
      <4> HIDE DEF b
      <4> QED  BY <4>1, <4>3
    <3>2. ASSUME NEW p \in 1..a PROVE p \in 1..l(i) /\ f[i][p] = s[p]
      BY <2>1 DEF q
    <3>3. ASSUME NEW t \in 1..b PROVE a + t \in 1..l(i) /\ f[i][a + t] = q[t]
      <4>1. a + t \in 1..(a + b) /\ a + t > a /\ (a + t) - a = t
        BY <2>1
      <4>2. (s \o q)[a + t] = q[(a + t) - a]
        <5> DEFINE p == a + t
        <5>1. s \in Seq(X) /\ q \in Seq(X) /\ Len(s) = a /\ p > a /\ p \in 1..(a + b) /\ b = Len(q)
          BY <2>1, <4>1 DEF q
        <5> HIDE DEF p, q, b
        <5>2. (s \o q)[p] = q[p - a]
          <6>1. \A x \in 1..(Len(s) + Len(q)) :
                  (s \o q)[x] = IF x <= Len(s) THEN s[x] ELSE q[x - Len(s)]
            <7>1. s \in Seq(X) /\ q \in Seq(X)
              BY <5>1
            <7> QED  BY ONLY <7>1, ConcatProperties
          <6>2. p \in 1..(Len(s) + Len(q)) /\ ~(p <= Len(s)) /\ Len(s) = a
            BY <2>1, <5>1
          <6> HIDE DEF b
          <6> QED  BY ONLY <6>1, <6>2
        <5> QED  BY <5>2 DEF p
      <4>3. a + t \in 1..l(i)
        BY <2>1, <4>1
      <4>4. f[i][a + t] = (s \o q)[a + t]
        BY <2>1
      <4> HIDE DEF l
      <4> QED  BY <4>1, <4>2, <4>3, <4>4
    <3> QED  BY <3>2, <3>3
  <2>5. \A j \in 1..i : j = i \/ j \in 1..(i - 1)
    OBVIOUS
  <2>6. ASSUME NEW j \in 1..i, NEW t \in 1..Len(ss[j])
        PROVE  off[j] + t \in 1..l(i) /\ f[i][off[j] + t] = ss[j][t]
    <3>1. CASE j = i
      BY <2>2, <2>4, <3>1
    <3>2. CASE j \in 1..(i - 1)
      BY <2>3, <2>4, <3>2
    <3> QED  BY <2>5, <3>1, <3>2
  <2>7. ASSUME NEW p \in 1..l(i)
        PROVE  \E j \in 1..i : \E t \in 1..Len(ss[j]) : p = off[j] + t
    <3>1. CASE p <= a
      <4>1. p \in 1..a
        BY <2>1, <3>1
      <4>2. PICK j \in 1..(i - 1) : \E t \in 1..Len(ss[j]) : p = off[j] + t
        BY <2>3, <4>1
      <4>3. j \in 1..i
        OBVIOUS
      <4> QED  BY <4>2, <4>3
    <3>2. CASE p > a
      <4> DEFINE t == p - a
      <4>1. t \in 1..b /\ p = a + t
        BY <2>1, <3>2
      <4>2. i \in 1..i
        OBVIOUS
      <4> QED  BY <2>2, <4>1, <4>2
    <3> QED  BY <2>1, <3>1, <3>2
  <2>8. ASSUME NEW j \in 1..i PROVE off[j + 1] <= l(i)
    <3>1. CASE j = i
      BY <2>1, <2>2, <3>1
    <3>2. CASE j \in 1..(i - 1)
      <4>1. off[j + 1] <= a /\ off[j + 1] \in Nat
        <5>1. j + 1 \in 1..(n + 1)
          OBVIOUS
        <5> QED  BY <1>8, <2>3, <3>2, <5>1
      <4> QED  BY <2>1, <4>1
    <3> QED  BY <2>5, <3>1, <3>2
  <2> QED  BY <2>6, <2>7, <2>8 DEF Good
<1>11. Bad = {}
  <2> SUFFICES ASSUME Bad # {} PROVE FALSE
    OBVIOUS
  <2> HIDE DEF Good
  <2>1. Bad \in SUBSET Nat
    OBVIOUS
  <2>2. PICK c \in Bad : \A d \in Bad : c <= d
    <3> HIDE DEF Bad
    <3> QED  BY <2>1, SmallestNumber
  <2>3. c \in 0..n /\ ~Good(c) /\ c # 0
    BY <1>9, <2>2
  <2>4. c \in 1..n /\ c - 1 \in 0..n /\ ~(c <= c - 1)
    BY <2>3
  <2>5. Good(c - 1)
    BY <2>2, <2>4
  <2> QED  BY <1>10, <2>3, <2>4, <2>5
<1>12. ASSUME NEW i \in 0..n PROVE Good(i)
  <2> HIDE DEF Good
  <2> QED  BY <1>11
\* What FlattenSeq computes is that list.
<1> DEFINE Loop(h) == h = [i \in 1..n |-> IF i = 1 THEN ss[i] ELSE h[i - 1] \o ss[i]]
           g == CHOOSE h : Loop(h)
<1>13. FlattenSeq(ss) = g[n]
  <2>1. Len(ss) = n /\ n # 0
    OBVIOUS
  <2> QED  BY <2>1 DEF FlattenSeq
<1>14. Loop([i \in 1..n |-> f[i]])
  <2> DEFINE h == [i \in 1..n |-> f[i]]
  <2>1. ASSUME NEW i \in 1..n PROVE h[i] = IF i = 1 THEN ss[i] ELSE h[i - 1] \o ss[i]
    <3>1. f[i] = f[i - 1] \o ss[i] /\ h[i] = f[i]
      BY <1>4
    <3>2. CASE i = 1
      <4>1. << >> \o ss[i] = ss[i]
        BY <1>5
      <4>2. i - 1 = 0
        BY <3>2
      <4>3. f[i - 1] = << >>
        BY <1>4, <4>2
      <4> HIDE DEF h
      <4> QED  BY <3>1, <3>2, <4>1, <4>3
    <3>3. CASE i # 1
      <4>1. i - 1 \in 1..n
        BY <3>3
      <4> QED  BY <3>1, <3>3, <4>1
    <3> QED  BY <3>2, <3>3
  <2>2. h = [i \in 1..n |-> h[i]]
    OBVIOUS
  <2> HIDE DEF h
  <2>3. Loop(h)
    BY <2>1, <2>2
  <2> QED  BY <2>3 DEF h
<1>15. Loop(g)
  <2> HIDE DEF Loop
  <2> QED  BY <1>14
<1> HIDE DEF g
<1>16. \A i \in 1..n : g[i] = IF i = 1 THEN ss[i] ELSE g[i - 1] \o ss[i]
  BY <1>15
<1> HIDE DEF Loop
<1>17. \A i \in 1..n : g[i] = f[i]
  <2> DEFINE Wrong == {i \in 1..n : g[i] # f[i]}
  <2> SUFFICES ASSUME Wrong # {} PROVE FALSE
    OBVIOUS
  <2>1. Wrong \in SUBSET Nat
    OBVIOUS
  <2>2. PICK c \in Wrong : \A d \in Wrong : c <= d
    <3> HIDE DEF Wrong
    <3> QED  BY <2>1, SmallestNumber
  <2>3. c \in 1..n /\ g[c] # f[c]
    BY <2>2
  <2>4. CASE c = 1
    <3>1. << >> \o ss[c] = ss[c]
      BY <1>5, <2>3
    <3>2. f[c] = f[c - 1] \o ss[c] /\ f[c - 1] = << >>
      <4>1. c - 1 = 0
        BY <2>4
      <4> QED  BY <1>4, <2>3, <4>1
    <3> QED  BY <1>16, <2>3, <2>4, <3>1, <3>2
  <2>5. CASE c # 1
    <3>1. c - 1 \in 1..n /\ ~(c <= c - 1)
      BY <2>3, <2>5
    <3>2. g[c - 1] = f[c - 1]
      BY <2>2, <3>1
    <3> QED  BY <1>4, <1>16, <2>3, <2>5, <3>2
  <2> QED  BY <2>4, <2>5
<1>18. FlattenSeq(ss) = f[n] /\ n \in 0..n
  <2>1. n \in 1..n /\ n \in 0..n
    OBVIOUS
  <2> QED  BY <1>13, <1>17, <2>1
<1>19. Flat(n, ss, off, f[n])
  <2>1. Good(n) /\ l(n) = Len(f[n])
    BY <1>12, <1>18 DEF l
  <2>2. \A i, j \in 1..n : i < j => off[i + 1] <= off[j]
    <3> SUFFICES ASSUME NEW i \in 1..n, NEW j \in 1..n, i < j PROVE off[i + 1] <= off[j]
      OBVIOUS
    <3>1. j - 1 \in 0..n /\ i \in 1..(j - 1) /\ j \in 1..(n + 1)
      OBVIOUS
    <3>2. off[j] = l(j - 1)
      BY <1>7, <3>1
    <3>3. off[i + 1] <= l(j - 1)
      BY <1>12, <3>1
    <3> QED  BY <3>2, <3>3
  <2> HIDE DEF off
  <2> QED  BY <1>8, <2>1, <2>2 DEF Flat
<1>20. f[n] \in Seq(X)
  BY <1>5, <1>18
<1> HIDE DEF off
<1> QED  BY <1>18, <1>19, <1>20

-----------------------------------------------------------------------------
(***************************************************************************)
(* A sum over a list of rows is a Total.                                   *)
(***************************************************************************)
LEMMA MaxIs ==
  ASSUME NEW n \in Nat, NEW S \in SUBSET (0..n), S # {}
  PROVE  Max(S) \in S /\ \A y \in S : y <= Max(S)
<1>1. \E x \in S : \A y \in S : y <= x
  <2>1. S \in SUBSET Nat /\ \A y \in S : y <= n
    OBVIOUS
  <2> QED  BY <2>1, LargestNumber
<1>2. \E x \in S : \A y \in S : x >= y
  BY <1>1
<1>3. Max(S) \in S /\ \A y \in S : Max(S) >= y
  BY <1>2 DEF Max
<1> QED  BY <1>3

Weighs(n, w, lens, part) == DOMAIN part = 1..n /\ \A i \in 1..n : lens[part[i]] = w[i]

SumIs(m, n, w, lens, part) == SumOver(lens, part) = Total(m, w, 1..n)

\* The code's loop over a part adds up its lengths.
LEMMA SumIsTotal ==
  ASSUME NEW m \in Nat, NEW n \in Nat, NEW w \in [1..n -> 0..m],
         NEW lens, NEW part, Weighs(n, w, lens, part)
  PROVE  SumIs(m, n, w, lens, part)
<1> USE DEF Weighs, SumIs
<1> DEFINE D == 1..n
           Loop(f) == f = [s \in SUBSET D |->
                             IF s = {} THEN 0
                             ELSE f[s \ {Max(s)}] + lens[part[Max(s)]]]
           g == CHOOSE f : Loop(f)
           h == [s \in SUBSET D |-> Total(m, w, s)]
<1>1. SumOver(lens, part) = g[D]
  BY DEF SumOver, FoldLeft, MapThenFoldSet
<1>2. \A s \in SUBSET D : IsFiniteSet(s)
  <2>1. IsFiniteSet(D)
    BY FS_Interval
  <2> HIDE DEF D
  <2> QED  BY <2>1, FS_Subset
<1>3. ASSUME NEW s \in SUBSET D, s # {}
      PROVE  /\ Max(s) \in s /\ s \ {Max(s)} \in SUBSET D
             /\ Total(m, w, s) = Total(m, w, s \ {Max(s)}) + lens[part[Max(s)]]
  <2>1. Max(s) \in s
    <3>1. s \in SUBSET (0..n)
      OBVIOUS
    <3> QED  BY <1>3, <3>1, MaxIs
  <2> DEFINE x == Max(s)
             T == s \ {x}
  <2>2. x \in D /\ x \notin T /\ s = T \cup {x} /\ IsFiniteSet(T) /\ w[x] \in 0..m
    BY <1>2, <2>1
  <2> HIDE DEF x, T
  <2>3. Total(m, w, T \cup {x}) = Total(m, w, T) + w[x]
    BY <2>2, TotalAdd
  <2>4. Total(m, w, s) = Total(m, w, T) + lens[part[x]]
    BY <2>2, <2>3
  <2> QED  BY <2>1, <2>4 DEF x, T
<1>4. Loop(h)
  <2>1. ASSUME NEW s \in SUBSET D
        PROVE  h[s] = IF s = {} THEN 0 ELSE h[s \ {Max(s)}] + lens[part[Max(s)]]
    <3>1. CASE s = {}
      <4>1. Total(m, w, {}) = 0
        BY TotalType, FS_EmptySet
      <4> QED  BY <3>1, <4>1
    <3>2. CASE s # {}
      BY <1>3, <3>2
    <3> QED  BY <3>1, <3>2
  <2>2. h = [s \in SUBSET D |-> h[s]]
    OBVIOUS
  <2> HIDE DEF h
  <2> QED  BY <2>1, <2>2
<1>5. Loop(g)
  <2> HIDE DEF Loop, h
  <2> QED  BY <1>4
<1> HIDE DEF g, h
<1>6. \A s \in SUBSET D : g[s] = IF s = {} THEN 0 ELSE g[s \ {Max(s)}] + lens[part[Max(s)]]
  BY <1>5
<1> HIDE DEF Loop
<1>7. \A s \in SUBSET D : g[s] = Total(m, w, s)
  <2> DEFINE Wrong == {s \in SUBSET D : g[s] # Total(m, w, s)}
             K == {Cardinality(s) : s \in Wrong}
  <2> SUFFICES ASSUME Wrong # {} PROVE FALSE
    OBVIOUS
  <2>1. K \in SUBSET Nat /\ K # {}
    BY <1>2, FS_CardinalityType
  <2>2. PICK c \in K : \A d \in K : c <= d
    <3> HIDE DEF K
    <3> QED  BY <2>1, SmallestNumber
  <2>3. PICK s \in Wrong : c = Cardinality(s)
    OBVIOUS
  <2>4. s \in SUBSET D /\ g[s] # Total(m, w, s)
    OBVIOUS
  <2>5. s # {}
    <3>1. Total(m, w, {}) = 0
      BY TotalType, FS_EmptySet
    <3> QED  BY <1>6, <2>4, <3>1
  <2> DEFINE x == Max(s)
             T == s \ {x}
  <2>6. x \in s /\ T \in SUBSET D /\ Total(m, w, s) = Total(m, w, T) + lens[part[x]]
    BY <1>3, <2>4, <2>5
  <2>7. g[s] = g[T] + lens[part[x]]
    BY <1>6, <2>4, <2>5
  <2> HIDE DEF x
  <2>8. Cardinality(T) = Cardinality(s) - 1 /\ Cardinality(s) \in Nat
    BY <1>2, <2>4, <2>6, FS_RemoveElement, FS_CardinalityType
  <2>9. T \notin Wrong
    <3>1. T \in Wrong => Cardinality(T) \in K
      OBVIOUS
    <3>2. Cardinality(T) \in K => c <= Cardinality(T)
      BY <2>2
    <3>3. ~(c <= Cardinality(T))
      BY <2>3, <2>8
    <3> QED  BY <3>1, <3>2, <3>3
  <2>10. g[T] = Total(m, w, T)
    BY <2>6, <2>9
  <2> QED  BY <2>4, <2>6, <2>7, <2>10
<1> QED  BY <1>1, <1>7

-----------------------------------------------------------------------------
(***************************************************************************)
(* The driver's batch: its rows are the steps of the trajectories, each    *)
(* once and at most once more as a copy; before balancing, the collected   *)
(* rows precede the copies and those of a trajectory are in time order.    *)
(***************************************************************************)
Row == [traj : 1..Trajs, at : 1..MaxLength, tokens : 1..MaxTokenLen,
        copy : BOOLEAN, sums : SUBSET Nat]

Typed(st, rs) ==
  /\ st \in [1..Trajs -> 1..MaxLength] /\ rs \in Seq(Row)
  /\ \A k \in DOMAIN rs : rs[k].at <= st[rs[k].traj]

Distinct(rs) ==
  \A k, l \in DOMAIN rs :
    k # l /\ rs[k].traj = rs[l].traj /\ rs[k].copy = rs[l].copy =>
      rs[k].at # rs[l].at

Complete(st, rs) ==
  \A j \in 1..Trajs : \A t \in 1..st[j] :
    \E k \in DOMAIN rs : rs[k].traj = j /\ rs[k].at = t /\ ~rs[k].copy

InOrder(rs) ==
  \A k, l \in DOMAIN rs : k < l /\ ~rs[l].copy =>
    ~rs[k].copy /\ (rs[k].traj = rs[l].traj => rs[k].at < rs[l].at)

BatchInv ==
  /\ balance \in BOOLEAN
  /\ phase \in {"collected", "returns", "adjusted", "balanced", "done", "failed"}
  /\ Typed(steps, rows) /\ Distinct(rows) /\ Complete(steps, rows)
  /\ phase \in {"collected", "returns", "failed"} => \A k \in DOMAIN rows : ~rows[k].copy
  /\ ~balance \/ phase \notin {"balanced", "done"} => InOrder(rows)
  /\ phase \in {"adjusted", "balanced", "done"} => Len(rows) % Divisor = 0
  /\ phase = "failed" => 2 * Len(rows) < Divisor
  /\ ReturnsOfOwnStep
  /\ phase = "done" => phi = [k \in DOMAIN rows |-> PhiAt(rows[k].traj, Rank(k))]

(***************************************************************************)
(* The ranks' micro-batches: d of them are done, and the passes' results   *)
(* are those of the rows the index map names.                              *)
(***************************************************************************)
\* The micro-batches cut of the rows part, the first d left out.
Remaining(part, cut, d) ==
  [b \in 1..(Len(cut) - d) |-> [i \in DOMAIN cut[d + b] |-> part[cut[d + b][i]]]]

LogProbCut(r) == MicroBatches([q \in Ranks |-> Shard(q)], r, LogProbMicro)

MiniParts    == [r \in Ranks |-> MiniRows(r, minis)]
UpdateCut(r) == MicroBatches(MiniParts, r, MicroBatch)

\* After d passes of a rank its results are those of the first rows of idx.
PassedBy(K, part, cut, d, idx, o, X) ==
  /\ d \in 0..K /\ o \in Seq(X)
  /\ \E off : Flat(K, cut, off, idx) /\ Len(o) = off[d + 1]
  /\ \A p \in 1..Len(o) : o[p] = part[idx[p]]

Forwarded ==
  /\ indices = [r \in Ranks |-> FlattenSeq(LogProbCut(r))]
  /\ \E d \in 0..Len(rows) :
       /\ micro = [r \in Ranks |-> Remaining(Shard(r), LogProbCut(r), d)]
       /\ \A r \in Ranks : PassedBy(Len(LogProbCut(r)), Shard(r), LogProbCut(r), d,
                                   indices[r], out[r], DOMAIN rows)

Owner(k) == (k - 1) \div ShardSize + 1

Left(batches, k) == \E b \in DOMAIN batches : k \in ToSet(batches[b])

\* Row k still waits for its backward pass.
Pending(k) ==
  \/ k > (Owner(k) - 1) * ShardSize + minis * MiniBatch
  \/ Left(micro[Owner(k)], k)

Given(rs, k) == ResponseTokens[<<rs[k].traj, rs[k].at>>]

\* What RowsWeighAlike asks of the weight w of row k.
OneShare(rs, d, k, w) ==
  LET responses == {Given(rs, j) : j \in DOMAIN rs}
  IN /\ w["seq-mean-token-sum"][1] = w["seq-mean-token-sum"][2]
     /\ Given(rs, k) * w["seq-mean-token-mean"][1] = w["seq-mean-token-mean"][2]
     /\ ~d => w["seq-mean-token-sum-norm"][1] = MicroBatch
     /\ w["token-mean"][2] <= Max(responses) * w["token-mean"][1]
     /\ w["token-mean"][2] >= Min(responses) * w["token-mean"][1]

Weighed ==
  \A k \in DOMAIN rows :
    IF Pending(k) THEN weights[k] = << >>
    ELSE Len(weights[k]) = 1 /\ OneShare(rows, dynamic, k, weights[k][1])

Updating ==
  /\ minis \in 0..NumMiniBatches
  /\ IF minis = 0 THEN micro = [r \in Ranks |-> << >>]
     ELSE \E d \in 0..Len(rows) : /\ \A r \in Ranks : d <= Len(UpdateCut(r))
                    /\ micro = [r \in Ranks |-> Remaining(MiniParts[r], UpdateCut(r), d)]
  /\ Weighed

RankInv ==
  /\ dynamic \in BOOLEAN
  /\ stage \in {"driver", "log_prob", "collected", "update", "updated"}
  /\ phase = "balanced" => stage \in {"driver", "log_prob", "collected"}
  /\ phase = "done" => stage \in {"collected", "update", "updated"}
  /\ phase \notin {"balanced", "done"} => stage = "driver"
  /\ stage \in {"driver", "collected", "updated"} => micro = [r \in Ranks |-> << >>]
  /\ stage = "driver" => out = [r \in Ranks |-> << >>]
  /\ stage \in {"driver", "log_prob", "collected"} => minis = 0
  /\ stage = "log_prob" => Forwarded
  /\ LogProbsOfOwnRow
  /\ stage = "update" => Updating
  /\ stage \in {"update", "updated"} => weights = [k \in DOMAIN rows |-> weights[k]]
  /\ RowsWeighAlike

-----------------------------------------------------------------------------
\* What the constants are.
LEMMA Sizes ==
  /\ Trajs \in Nat \ {0} /\ MaxLength \in Nat \ {0}
  /\ World \in Nat \ {0} /\ Divisor \in Nat \ {0} /\ Divisor % World = 0
  /\ Balancing \subseteq BOOLEAN
  /\ MaxTokenLen \in Nat \ {0} /\ MiniBatch \in Nat \ {0}
  /\ LogProbMicro \in Nat \ {0} /\ MicroBatch \in Nat \ {0}
  /\ MiniBatch % MicroBatch = 0
  /\ Divisor % (LogProbMicro * World) = 0 /\ Divisor % (MicroBatch * World) = 0
  /\ \A len \in RowLengths : len \in 1..MaxTokenLen
  /\ DynamicBsz \subseteq BOOLEAN
BY SizesAssumption, MicroBatchAssumption

\* What a row has.
LEMMA RowFacts ==
  ASSUME NEW st, NEW rs, Typed(st, rs)
  PROVE  /\ Len(rs) \in Nat /\ DOMAIN rs = 1..Len(rs) /\ IsFiniteSet(DOMAIN rs)
         /\ \A j \in 1..Trajs : st[j] \in 1..MaxLength /\ st[j] \in Nat
         /\ \A k \in DOMAIN rs :
              /\ k \in Nat /\ rs[k] \in Row /\ rs[k].traj \in 1..Trajs
              /\ rs[k].at \in 1..st[rs[k].traj] /\ rs[k].at \in Nat
              /\ rs[k].tokens \in 1..MaxTokenLen /\ rs[k].copy \in BOOLEAN
<1>1. /\ st \in [1..Trajs -> 1..MaxLength] /\ rs \in Seq(Row)
      /\ \A k \in DOMAIN rs : rs[k].at <= st[rs[k].traj]
  BY DEF Typed
<1>2. Len(rs) \in Nat /\ DOMAIN rs = 1..Len(rs)
  BY <1>1
<1>3. IsFiniteSet(DOMAIN rs)
  <2> DEFINE n == Len(rs)
  <2>1. n \in Nat /\ DOMAIN rs = 1..n
    BY <1>2
  <2> HIDE DEF n
  <2> QED  BY <2>1, FS_Interval
<1>4. \A j \in 1..Trajs : st[j] \in 1..MaxLength /\ st[j] \in Nat
  BY <1>1
<1>5. ASSUME NEW k \in DOMAIN rs
      PROVE  /\ k \in Nat /\ rs[k] \in Row /\ rs[k].traj \in 1..Trajs
             /\ rs[k].at \in 1..st[rs[k].traj] /\ rs[k].at \in Nat
             /\ rs[k].tokens \in 1..MaxTokenLen /\ rs[k].copy \in BOOLEAN
  <2>1. k \in Nat /\ rs[k] \in Row
    BY <1>1, <1>2
  <2>2. /\ rs[k].traj \in 1..Trajs /\ rs[k].at \in 1..MaxLength
        /\ rs[k].tokens \in 1..MaxTokenLen /\ rs[k].copy \in BOOLEAN
    BY <2>1 DEF Row
  <2> DEFINE a == rs[k].at
             b == st[rs[k].traj]
  <2>3. a \in Nat /\ a # 0 /\ b \in Nat /\ a <= b
    BY <1>1, <1>4, <2>2, Sizes
  <2> HIDE DEF a, b
  <2>4. a \in 1..b /\ a \in Nat
    BY <2>3
  <2> QED  BY <2>1, <2>2, <2>4 DEF a, b
<1> QED  BY <1>2, <1>3, <1>4, <1>5

\* The rows of a trajectory and the positions among them.
LEMMA RankFacts ==
  ASSUME Typed(steps, rows)
  PROVE  /\ \A k \in DOMAIN rows : k \in Indices(rows[k].traj) /\ Rank(k) \in Nat
         /\ \A j : IsFiniteSet(Indices(j)) /\ Indices(j) \subseteq DOMAIN rows
         /\ \A j : \A k, l \in Indices(j) : k < l => Rank(k) < Rank(l)
         /\ \A j : \A k \in Indices(j) : Rank(k) \in 1..Cardinality(Indices(j))
         /\ \A j : \A i \in 1..Cardinality(Indices(j)) : \E k \in Indices(j) : Rank(k) = i
<1>1. /\ Len(rows) \in Nat /\ DOMAIN rows = 1..Len(rows) /\ IsFiniteSet(DOMAIN rows)
      /\ \A k \in DOMAIN rows : k \in Nat
  BY RowFacts
<1>2. \A j : IsFiniteSet(Indices(j)) /\ Indices(j) \subseteq DOMAIN rows
  BY <1>1, FS_Subset DEF Indices
<1>3. \A k \in DOMAIN rows : k \in Indices(rows[k].traj)
  BY DEF Indices
<1>4. ASSUME NEW j
      PROVE  /\ \A k, l \in Indices(j) : k < l => Rank(k) < Rank(l)
             /\ \A k \in Indices(j) : Rank(k) \in 1..Cardinality(Indices(j))
             /\ \A i \in 1..Cardinality(Indices(j)) : \E k \in Indices(j) : Rank(k) = i
  <2> DEFINE S == Indices(j)
             pre == [k \in S |-> {m \in S : m < k}]
  <2>1. IsFiniteSet(S) /\ \A k \in S : k \in Nat /\ rows[k].traj = j
    BY <1>1, <1>2 DEF Indices
  <2>2. \A k \in S : Rank(k) = Cardinality({m \in S : m <= k})
    BY <2>1 DEF Rank
  <2> HIDE DEF S
  <2>3. /\ pre \in [S -> SUBSET S] /\ \A x \in S : x \notin pre[x]
        /\ \A x, y \in S : x # y => x \in pre[y] \/ y \in pre[x]
    BY <2>1
  <2>4. \A x, y \in S : x \in pre[y] => pre[x] \subseteq pre[y]
    <3> SUFFICES ASSUME NEW x \in S, NEW y \in S, x < y, NEW z \in S, z < x PROVE z < y
      OBVIOUS
    <3> QED  BY <2>1
  <2>5. \A k \in S : Rank(k) = Cardinality(pre[k]) + 1
    <3> SUFFICES ASSUME NEW k \in S PROVE Rank(k) = Cardinality(pre[k]) + 1
      OBVIOUS
    <3>1. IsFiniteSet(pre[k]) /\ k \notin pre[k]
      BY <2>1, <2>3, FS_Subset
    <3>2. {m \in S : m <= k} = pre[k] \cup {k}
      BY <2>1
    <3> HIDE DEF pre
    <3> QED  BY <2>2, <3>1, <3>2, FS_AddElement
  <2>6. \A x, y \in S : x \in pre[y] <=> x < y
    OBVIOUS
  <2> HIDE DEF pre
  <2>7. /\ \A x \in S : Cardinality(pre[x]) \in 0..(Cardinality(S) - 1)
        /\ \A x, y \in S : x \in pre[y] => Cardinality(pre[x]) < Cardinality(pre[y])
        /\ \A i \in 0..(Cardinality(S) - 1) : \E x \in S : Cardinality(pre[x]) = i
    BY <2>1, <2>3, <2>4, Ranking
  <2>8. Cardinality(S) \in Nat
    BY <2>1, FS_CardinalityType
  <2> DEFINE c(x) == Cardinality(pre[x])
             n == Cardinality(S)
  <2>9. /\ \A x \in S : c(x) \in 0..(n - 1) /\ Rank(x) = c(x) + 1
        /\ \A x, y \in S : x < y => c(x) < c(y)
        /\ \A i \in 0..(n - 1) : \E x \in S : c(x) = i
        /\ n \in Nat
    BY <2>5, <2>6, <2>7, <2>8
  <2> HIDE DEF c, n
  <2>10. \A k, l \in S : k < l => Rank(k) < Rank(l)
    BY <2>9
  <2>11. \A k \in S : Rank(k) \in 1..n
    BY <2>9
  <2>12. ASSUME NEW i \in 1..n PROVE \E k \in S : Rank(k) = i
    <3>1. i - 1 \in 0..(n - 1)
      BY <2>9
    <3>2. PICK k \in S : c(k) = i - 1
      BY <2>9, <3>1
    <3>3. Rank(k) = i
      BY <2>9, <3>2
    <3> QED  BY <3>3
  <2> QED  BY <2>10, <2>11, <2>12 DEF S, n
<1>5. \A k \in DOMAIN rows : Rank(k) \in Nat
  BY <1>3, <1>4
<1> QED  BY <1>2, <1>3, <1>4, <1>5

\* The rows as delivered are the steps in order.
LEMMA DeliveredRows ==
  ASSUME NEW st \in [1..Trajs -> 1..MaxLength],
         NEW tokens \in [(1..Trajs) \X (1..MaxLength) -> RowLengths]
  PROVE  LET rs == Delivered(st, tokens) IN
         /\ Typed(st, rs) /\ Distinct(rs) /\ Complete(st, rs) /\ InOrder(rs)
         /\ \A k \in DOMAIN rs : ~rs[k].copy
<1> DEFINE row(j, t) == [traj |-> j, at |-> t, tokens |-> tokens[<<j, t>>],
                         copy |-> FALSE, sums |-> {}]
           ss == [j \in 1..Trajs |-> [t \in 1..st[j] |-> row(j, t)]]
           rs == Delivered(st, tokens)
<1>1. rs = FlattenSeq(ss)
  BY DEF Delivered
<1>2. Trajs \in Nat \ {0} /\ \A j \in 1..Trajs : st[j] \in 1..MaxLength /\ st[j] \in Nat
  BY Sizes
<1>3. \A j \in 1..Trajs : \A t \in 1..st[j] : row(j, t) \in Row /\ t \in 1..MaxLength
  <2> SUFFICES ASSUME NEW j \in 1..Trajs, NEW t \in 1..st[j]
               PROVE  row(j, t) \in Row /\ t \in 1..MaxLength
    OBVIOUS
  <2>1. t \in 1..MaxLength
    BY <1>2, Sizes
  <2>2. <<j, t>> \in (1..Trajs) \X (1..MaxLength)
    BY <2>1
  <2>3. tokens[<<j, t>>] \in RowLengths
    BY <2>2
  <2>4. tokens[<<j, t>>] \in 1..MaxTokenLen
    BY <2>3, Sizes
  <2> QED  BY <2>1, <2>4 DEF Row
<1>4. \A j \in 1..Trajs : \A t \in 1..st[j] :
        row(j, t).traj = j /\ row(j, t).at = t /\ ~row(j, t).copy
  OBVIOUS
<1> HIDE DEF row
<1>5. /\ ss \in [1..Trajs -> Seq(Row)]
      /\ \A j \in 1..Trajs : Len(ss[j]) = st[j] /\ \A t \in 1..st[j] : ss[j][t] = row(j, t)
  <2>1. \A j \in 1..Trajs : /\ [t \in 1..st[j] |-> row(j, t)] \in Seq(Row)
                            /\ Len([t \in 1..st[j] |-> row(j, t)]) = st[j]
    BY <1>2, <1>3
  <2> QED  BY <2>1
<1> HIDE DEF ss, rs
<1>6. rs \in Seq(Row) /\ \E off : Flat(Trajs, ss, off, rs)
  BY <1>1, <1>2, <1>5, Flattened
<1>7. PICK off : Flat(Trajs, ss, off, rs)
  BY <1>6
<1>8. /\ \A j \in 1..Trajs : off[j] \in Nat
      /\ \A j \in 1..Trajs : \A t \in 1..st[j] :
           off[j] + t \in 1..Len(rs) /\ rs[off[j] + t] = row(j, t)
      /\ \A p \in 1..Len(rs) : \E j \in 1..Trajs : \E t \in 1..st[j] : p = off[j] + t
  <2>1. \A j \in 1..Trajs : j \in 1..(Trajs + 1)
    BY <1>2
  <2>2. \A j \in 1..Trajs : off[j] \in Nat
    BY <1>7, <2>1 DEF Flat
  <2>3. \A j \in 1..Trajs : \A t \in 1..st[j] :
          off[j] + t \in 1..Len(rs) /\ rs[off[j] + t] = row(j, t)
    <3> SUFFICES ASSUME NEW j \in 1..Trajs, NEW t \in 1..st[j]
                 PROVE  off[j] + t \in 1..Len(rs) /\ rs[off[j] + t] = row(j, t)
      OBVIOUS
    <3>1. t \in 1..Len(ss[j]) /\ ss[j][t] = row(j, t)
      BY <1>5
    <3> QED  BY <1>7, <3>1 DEF Flat
  <2>4. \A p \in 1..Len(rs) : \E j \in 1..Trajs : \E t \in 1..st[j] : p = off[j] + t
    <3> SUFFICES ASSUME NEW p \in 1..Len(rs)
                 PROVE  \E j \in 1..Trajs : \E t \in 1..st[j] : p = off[j] + t
      OBVIOUS
    <3>1. PICK j \in 1..Trajs : \E t \in 1..Len(ss[j]) : p = off[j] + t
      BY <1>7 DEF Flat
    <3>2. Len(ss[j]) = st[j]
      BY <1>5
    <3> QED  BY <3>1, <3>2
  <2> QED  BY <2>2, <2>3, <2>4
<1>9. DOMAIN rs = 1..Len(rs) /\ Len(rs) \in Nat
  BY <1>6
<1>10. \A k \in DOMAIN rs : \E j \in 1..Trajs : \E t \in 1..st[j] :
         k = off[j] + t /\ rs[k].traj = j /\ rs[k].at = t /\ ~rs[k].copy
  <2> SUFFICES ASSUME NEW k \in DOMAIN rs
               PROVE  \E j \in 1..Trajs : \E t \in 1..st[j] :
                        k = off[j] + t /\ rs[k].traj = j /\ rs[k].at = t /\ ~rs[k].copy
    OBVIOUS
  <2>1. PICK j \in 1..Trajs, t \in 1..MaxLength : t \in 1..st[j] /\ k = off[j] + t
    BY <1>3, <1>8, <1>9
  <2>2. rs[k] = row(j, t)
    BY <1>8, <2>1
  <2> QED  BY <1>4, <2>1, <2>2
<1>11. Typed(st, rs)
  <2> SUFFICES ASSUME NEW k \in DOMAIN rs PROVE rs[k].at <= st[rs[k].traj]
    BY <1>6 DEF Typed
  <2>1. PICK j \in 1..Trajs, t \in 1..MaxLength :
          t \in 1..st[j] /\ rs[k].traj = j /\ rs[k].at = t
    BY <1>3, <1>10
  <2> QED  BY <1>2, <2>1
<1>12. Complete(st, rs)
  <2> SUFFICES ASSUME NEW j \in 1..Trajs, NEW t \in 1..st[j]
               PROVE  \E k \in DOMAIN rs : rs[k].traj = j /\ rs[k].at = t /\ ~rs[k].copy
    BY DEF Complete
  <2>1. off[j] + t \in DOMAIN rs /\ rs[off[j] + t] = row(j, t)
    BY <1>8, <1>9
  <2> QED  BY <1>4, <2>1
<1>13. ASSUME NEW k \in DOMAIN rs, NEW l \in DOMAIN rs, k < l, rs[k].traj = rs[l].traj
       PROVE  rs[k].at < rs[l].at
  <2>1. PICK j \in 1..Trajs, t \in 1..MaxLength :
          t \in 1..st[j] /\ k = off[j] + t /\ rs[k].traj = j /\ rs[k].at = t
    BY <1>3, <1>10
  <2>2. PICK i \in 1..Trajs, u \in 1..MaxLength :
          u \in 1..st[i] /\ l = off[i] + u /\ rs[l].traj = i /\ rs[l].at = u
    BY <1>3, <1>10
  <2>3. i = j /\ off[j] \in Nat /\ t \in Nat /\ u \in Nat
    <3>1. t \in Nat /\ u \in Nat
      OBVIOUS
    <3>2. i = j
      BY <1>13, <2>1, <2>2
    <3>3. off[j] \in Nat
      BY <1>8
    <3> QED  BY <3>1, <3>2, <3>3
  <2>4. off[j] + t < off[j] + u
    BY <1>13, <2>1, <2>2, <2>3
  <2>5. t < u
    BY <2>3, <2>4
  <2> QED  BY <2>1, <2>2, <2>5
<1>14. \A k \in DOMAIN rs : ~rs[k].copy /\ rs[k].at \in Nat
  BY <1>10, <1>2
<1>15. InOrder(rs)
  BY <1>13, <1>14 DEF InOrder
<1>16. Distinct(rs)
  <2> SUFFICES ASSUME NEW k \in DOMAIN rs, NEW l \in DOMAIN rs, k # l,
                      rs[k].traj = rs[l].traj
               PROVE  rs[k].at # rs[l].at
    BY DEF Distinct
  <2>1. k < l \/ l < k
    BY <1>9
  <2> QED  BY <1>13, <1>14, <2>1
<1> QED  BY <1>11, <1>12, <1>14, <1>15, <1>16 DEF rs

\* The rollout delivers the steps of every trajectory, in time order.
LEMMA InitBatch ==
  ASSUME Init
  PROVE  BatchInv
<1>1. PICK tokens \in [(1..Trajs) \X (1..MaxLength) -> RowLengths] :
        rows = Delivered(steps, tokens)
  BY DEF Init
<1>2. balance \in BOOLEAN /\ phase = "collected" /\ steps \in [1..Trajs -> 1..MaxLength]
  BY Sizes DEF Init
<1>3. /\ Typed(steps, rows) /\ Distinct(rows) /\ Complete(steps, rows) /\ InOrder(rows)
      /\ \A k \in DOMAIN rows : ~rows[k].copy
  BY <1>1, <1>2, DeliveredRows
<1> QED  BY <1>2, <1>3 DEF BatchInv, ReturnsOfOwnStep

\* The returns computed are those of the steps from a row's own step on.
LEMMA StepReturnsBatch ==
  ASSUME BatchInv, StepReturns
  PROVE  BatchInv'
<1> DEFINE sums(k) == {rows[m].at : m \in {i \in Indices(rows[k].traj) : Rank(i) >= Rank(k)}}
<1>1. /\ phase = "collected" /\ phase' = "returns" /\ balance' = balance /\ steps' = steps
      /\ rows' = [k \in DOMAIN rows |-> [rows[k] EXCEPT !.sums = sums(k)]]
  BY DEF StepReturns
<1>2. /\ Typed(steps, rows) /\ Distinct(rows) /\ Complete(steps, rows) /\ InOrder(rows)
      /\ balance \in BOOLEAN /\ \A k \in DOMAIN rows : ~rows[k].copy
  BY <1>1 DEF BatchInv
<1>3. /\ Len(rows) \in Nat /\ DOMAIN rows = 1..Len(rows)
      /\ \A j \in 1..Trajs : steps[j] \in 1..MaxLength /\ steps[j] \in Nat
      /\ \A k \in DOMAIN rows :
           /\ k \in Nat /\ rows[k] \in Row /\ rows[k].traj \in 1..Trajs
           /\ rows[k].at \in 1..steps[rows[k].traj] /\ rows[k].at \in Nat
  BY <1>2, RowFacts
<1>4. ASSUME NEW k \in DOMAIN rows
      PROVE  sums(k) = rows[k].at..steps[rows[k].traj]
  <2> DEFINE j == rows[k].traj
             S == Indices(j)
  <2>1. /\ k \in S /\ j \in 1..Trajs /\ S \subseteq DOMAIN rows
        /\ \A m \in DOMAIN rows : m \in S <=> rows[m].traj = j
    BY <1>3 DEF Indices
  <2>2. /\ \A a \in S : Rank(a) \in Nat
        /\ \A a, b \in S : a < b => Rank(a) < Rank(b)
    <3>1. \A a \in DOMAIN rows : Rank(a) \in Nat
      BY <1>2, RankFacts
    <3>2. \A a, b \in Indices(j) : a < b => Rank(a) < Rank(b)
      BY <1>2, RankFacts
    <3> QED  BY <2>1, <3>1, <3>2
  <2>3. \A a, b \in S : a < b => rows[a].at < rows[b].at
    BY <1>2, <2>1 DEF InOrder
  <2>4. \A m \in S : m \in Nat /\ rows[m].at \in 1..steps[j] /\ rows[m].at \in Nat
    BY <1>3, <2>1
  <2>5. \A t \in 1..steps[j] : \E m \in S : rows[m].at = t
    BY <1>2, <2>1 DEF Complete
  <2> HIDE DEF S, j
  <2>6. \A m \in S : Rank(m) >= Rank(k) <=> rows[m].at >= rows[k].at
    <3> SUFFICES ASSUME NEW m \in S
                 PROVE  Rank(m) >= Rank(k) <=> rows[m].at >= rows[k].at
      OBVIOUS
    <3>1. /\ Rank(m) \in Nat /\ Rank(k) \in Nat /\ rows[m].at \in Nat /\ rows[k].at \in Nat
      BY <2>1, <2>2, <2>4
    <3>2. m < k => Rank(m) < Rank(k) /\ rows[m].at < rows[k].at
      BY <2>1, <2>2, <2>3
    <3>3. k < m => Rank(k) < Rank(m) /\ rows[k].at < rows[m].at
      BY <2>1, <2>2, <2>3
    <3>4. m \in Nat /\ k \in Nat
      BY <2>1, <2>4
    <3> DEFINE p == rows[m].at
               q == rows[k].at
    <3>5. /\ p \in Nat /\ q \in Nat /\ (m < k => p < q) /\ (k < m => q < p)
          /\ (m = k => p = q /\ Rank(m) = Rank(k))
      BY <3>1, <3>2, <3>3
    <3> HIDE DEF p, q
    <3>6. Rank(m) >= Rank(k) <=> p >= q
      BY <3>1, <3>2, <3>3, <3>4, <3>5
    <3> QED  BY <3>6 DEF p, q
  <2>7. sums(k) = {rows[m].at : m \in {i \in S : Rank(i) >= Rank(k)}}
    BY DEF S, j
  <2> HIDE DEF sums
  <2>8. ASSUME NEW x \in sums(k) PROVE x \in rows[k].at..steps[j]
    <3>1. PICK m \in S : Rank(m) >= Rank(k) /\ x = rows[m].at
      BY <2>7
    <3>2. x \in 1..steps[j] /\ x >= rows[k].at /\ rows[k].at \in Nat
      BY <2>1, <2>4, <2>6, <3>1
    <3> QED  BY <3>2
  <2>9. ASSUME NEW x \in rows[k].at..steps[j] PROVE x \in sums(k)
    <3>1. rows[k].at \in 1..steps[j]
      BY <2>1, <2>4
    <3>2. x \in 1..steps[j] /\ x >= rows[k].at
      BY <3>1
    <3>3. PICK m \in S : rows[m].at = x
      BY <2>5, <3>2
    <3>4. Rank(m) >= Rank(k)
      BY <2>6, <3>2, <3>3
    <3> QED  BY <2>7, <3>3, <3>4
  <2>10. sums(k) = rows[k].at..steps[j]
    BY <2>8, <2>9
  <2> QED  BY <2>10 DEF j
<1> HIDE DEF sums
<1>5. \A k \in DOMAIN rows : sums(k) \in SUBSET Nat
  BY <1>3, <1>4
<1>6. /\ rows' \in Seq(Row) /\ Len(rows') = Len(rows) /\ DOMAIN rows' = DOMAIN rows
      /\ \A k \in DOMAIN rows :
           /\ rows'[k].traj = rows[k].traj /\ rows'[k].at = rows[k].at
           /\ rows'[k].copy = rows[k].copy /\ rows'[k].sums = sums(k)
  <2>1. ASSUME NEW k \in DOMAIN rows PROVE rows'[k] \in Row
    BY <1>1, <1>3, <1>5 DEF Row
  <2>2. \A k \in DOMAIN rows :
           /\ rows'[k].traj = rows[k].traj /\ rows'[k].at = rows[k].at
           /\ rows'[k].copy = rows[k].copy /\ rows'[k].sums = sums(k)
    BY <1>1, <1>3 DEF Row
  <2>3. DOMAIN rows' = 1..Len(rows) /\ rows' = [k \in 1..Len(rows) |-> rows'[k]]
    BY <1>1, <1>3
  <2>4. rows' \in Seq(Row) /\ Len(rows') = Len(rows)
    BY <1>3, <2>1, <2>3
  <2> QED  BY <1>3, <2>2, <2>3, <2>4
<1>7. Typed(steps, rows')
  BY <1>2, <1>6 DEF Typed
<1>8. Distinct(rows')
  BY <1>2, <1>6 DEF Distinct
<1>9. Complete(steps, rows')
  <2> SUFFICES ASSUME NEW j \in 1..Trajs, NEW t \in 1..steps[j]
               PROVE  \E k \in DOMAIN rows' :
                        rows'[k].traj = j /\ rows'[k].at = t /\ ~rows'[k].copy
    BY DEF Complete
  <2>1. PICK k \in DOMAIN rows : rows[k].traj = j /\ rows[k].at = t /\ ~rows[k].copy
    BY <1>2 DEF Complete
  <2> QED  BY <1>6, <2>1
<1>10. InOrder(rows')
  BY <1>2, <1>6 DEF InOrder
<1>11. \A k \in DOMAIN rows' : ~rows'[k].copy
  BY <1>2, <1>6
<1>12. \A k \in DOMAIN rows' : rows'[k].sums = rows'[k].at..steps'[rows'[k].traj]
  BY <1>1, <1>4, <1>6
<1> QED  BY <1>1, <1>2, <1>7, <1>8, <1>9, <1>10, <1>11, <1>12 DEF BatchInv, ReturnsOfOwnStep

-----------------------------------------------------------------------------
(***************************************************************************)
(* Lists that share out 1..n are, end to end, an order of 1..n.            *)
(***************************************************************************)
Pieces(n, k, ss) ==
  /\ ss \in [1..k -> Seq(1..n)]
  /\ \A r \in 1..k : \A i, j \in DOMAIN ss[r] : ss[r][i] = ss[r][j] => i = j
  /\ \A r, q \in 1..k : r # q => ToSet(ss[r]) \cap ToSet(ss[q]) = {}
  /\ \A x \in 1..n : \E r \in 1..k : x \in ToSet(ss[r])

Order(n, f) ==
  /\ f \in Seq(1..n) /\ Len(f) = n /\ DOMAIN f = 1..n
  /\ \A p, q \in 1..n : f[p] = f[q] => p = q
  /\ \A x \in 1..n : \E p \in 1..n : f[p] = x

\* End to end, parts that share out 1..n list every number once.
LEMMA PiecesInOrder ==
  ASSUME NEW n \in Nat, NEW k \in Nat \ {0}, NEW ss, Pieces(n, k, ss)
  PROVE  Order(n, FlattenSeq(ss)) /\ \E off : Flat(k, ss, off, FlattenSeq(ss))
<1> DEFINE f == FlattenSeq(ss)
<1>1. /\ ss \in [1..k -> Seq(1..n)]
      /\ \A r \in 1..k : \A i, j \in DOMAIN ss[r] : ss[r][i] = ss[r][j] => i = j
      /\ \A r, q \in 1..k : r # q => ToSet(ss[r]) \cap ToSet(ss[q]) = {}
      /\ \A x \in 1..n : \E r \in 1..k : x \in ToSet(ss[r])
  BY DEF Pieces
<1>2. f \in Seq(1..n) /\ \E off : Flat(k, ss, off, f)
  BY <1>1, Flattened
<1> HIDE DEF f
<1>3. PICK off : Flat(k, ss, off, f)
  BY <1>2
<1>4. /\ Len(f) \in Nat /\ DOMAIN f = 1..Len(f) /\ f \in [1..Len(f) -> 1..n]
      /\ \A r \in 1..k : /\ DOMAIN ss[r] = 1..Len(ss[r])
                         /\ \A t \in 1..Len(ss[r]) : ss[r][t] \in ToSet(ss[r])
                         /\ \A x \in ToSet(ss[r]) : \E t \in 1..Len(ss[r]) : x = ss[r][t]
  <2>1. Len(f) \in Nat /\ DOMAIN f = 1..Len(f) /\ f \in [1..Len(f) -> 1..n]
    BY <1>2
  <2>2. ASSUME NEW r \in 1..k
        PROVE  /\ DOMAIN ss[r] = 1..Len(ss[r])
               /\ \A t \in 1..Len(ss[r]) : ss[r][t] \in ToSet(ss[r])
               /\ \A x \in ToSet(ss[r]) : \E t \in 1..Len(ss[r]) : x = ss[r][t]
    <3>1. ss[r] \in Seq(1..n)
      BY <1>1
    <3>2. DOMAIN ss[r] = 1..Len(ss[r])
      BY <3>1
    <3> QED  BY <3>2 DEF ToSet
  <2> QED  BY <2>1, <2>2
<1>5. ASSUME NEW p \in 1..Len(f), NEW q \in 1..Len(f), f[p] = f[q] PROVE p = q
  <2>1. PICK i \in 1..k : \E t \in 1..Len(ss[i]) : p = off[i] + t
    BY <1>3 DEF Flat
  <2>2. PICK t \in 1..Len(ss[i]) : p = off[i] + t
    BY <2>1
  <2>3. PICK j \in 1..k : \E u \in 1..Len(ss[j]) : q = off[j] + u
    BY <1>3 DEF Flat
  <2>4. PICK u \in 1..Len(ss[j]) : q = off[j] + u
    BY <2>3
  <2>5. f[p] = ss[i][t] /\ f[q] = ss[j][u]
    BY <1>3, <2>2, <2>4 DEF Flat
  <2>6. ss[i][t] \in ToSet(ss[i]) /\ ss[j][u] \in ToSet(ss[j])
    BY <1>4
  <2>7. i = j
    BY <1>1, <1>5, <2>5, <2>6
  <2>8. t = u
    <3>1. ss[i][t] = ss[i][u] /\ u \in 1..Len(ss[i])
      BY <1>5, <2>5, <2>7
    <3>2. t \in DOMAIN ss[i] /\ u \in DOMAIN ss[i]
      BY <1>4, <3>1
    <3> QED  BY <1>1, <3>1, <3>2
  <2> QED  BY <2>2, <2>4, <2>7, <2>8
<1>6. ASSUME NEW x \in 1..n PROVE \E p \in 1..Len(f) : f[p] = x
  <2>1. PICK r \in 1..k : x \in ToSet(ss[r])
    BY <1>1
  <2>2. PICK t \in 1..Len(ss[r]) : x = ss[r][t]
    BY <1>4, <2>1
  <2>3. off[r] + t \in 1..Len(f) /\ f[off[r] + t] = x
    BY <1>3, <2>2 DEF Flat
  <2> QED  BY <2>3
<1>7. Len(f) = n
  <2> DEFINE l == Len(f)
  <2>1. f \in Bijection(1..l, 1..n) /\ l \in Nat
    BY <1>4, <1>5, <1>6 DEF Bijection, Injection, Surjection, IsInjective
  <2> HIDE DEF l
  <2>2. IsFiniteSet(1..l) /\ Cardinality(1..l) = l /\ Cardinality(1..n) = n
    BY <2>1, FS_Interval
  <2>3. Cardinality(1..n) = Cardinality(1..l)
    BY <2>1, <2>2, FS_Bijection DEF ExistsBijection
  <2> QED  BY <2>2, <2>3 DEF l
<1>8. Order(n, f)
  BY <1>2, <1>4, <1>5, <1>6, <1>7 DEF Order
<1> QED  BY <1>3, <1>8 DEF f

\* The partitions of the rows are such lists.
LEMMA PartsArePieces ==
  ASSUME NEW m, NEW lens, NEW n \in Nat, DOMAIN lens = 1..n, NEW k, NEW equalSize, NEW B,
         Parts(m, lens, k, equalSize, B)
  PROVE  Pieces(n, k, B)
BY DEF Parts, Pieces

-----------------------------------------------------------------------------
\* What adjust_batch adds, and when it is more than there is to copy.
LEMMA ToAddIs ==
  ASSUME NEW n \in Nat
  PROVE  /\ ToAdd(n) \in Nat /\ (n + ToAdd(n)) % Divisor = 0
         /\ ToAdd(n) > n => 2 * n < Divisor
<1> DEFINE D == Divisor
           q == n \div D
           r == n % D
<1>1. D \in Nat \ {0} /\ q \in Int /\ r \in 0..(D - 1) /\ n = D * q + r
  BY Sizes, DivMod
<1>2. ToAdd(n) = IF r = 0 THEN 0 ELSE D - r
  BY DEF ToAdd
<1> HIDE DEF D, q, r
<1>3. ToAdd(n) \in Nat
  BY <1>1, <1>2
<1>4. (n + ToAdd(n)) % D = 0
  <2>1. CASE r = 0
    <3>1. n + ToAdd(n) = D * q + 0
      BY <1>1, <1>2, <2>1
    <3>2. 0 \in 0..(D - 1)
      BY <1>1
    <3>3. (D * q + 0) % D = 0
      BY <1>1, <3>2, DivModOf
    <3> QED  BY <3>1, <3>3
  <2>2. CASE r # 0
    <3>1. D * (q + 1) = D * q + D
      BY <1>1
    <3>2. n + ToAdd(n) = D * (q + 1) + 0
      BY <1>1, <1>2, <2>2, <3>1
    <3> DEFINE p == q + 1
    <3>3. p \in Int /\ 0 \in 0..(D - 1) /\ n + ToAdd(n) = D * p + 0
      BY <1>1, <3>2
    <3> HIDE DEF p
    <3>4. (D * p + 0) % D = 0
      BY <1>1, <3>3, DivModOf
    <3> QED  BY <3>3, <3>4
  <2> QED  BY <2>1, <2>2
<1>5. ASSUME ToAdd(n) > n PROVE 2 * n < D
  <2>1. r # 0 /\ D - r > n
    BY <1>1, <1>2, <1>5
  <2>2. CASE q = 0
    <3>1. D * q = 0
      BY <1>1, <2>2
    <3> QED  BY <1>1, <2>1, <3>1
  <2>3. CASE 0 < q
    <3>1. D * 0 + D <= D * q
      BY <1>1, <2>3, Mono
    <3>2. D * 0 = 0 /\ D * q \in Int
      BY <1>1
    <3> QED  BY <1>1, <2>1, <3>1, <3>2
  <2>4. CASE q < 0
    <3>1. D * q + D <= D * 0
      BY <1>1, <2>4, Mono
    <3>2. D * 0 = 0 /\ D * q \in Int
      BY <1>1
    <3> QED  BY <1>1, <2>1, <3>1, <3>2
  <2> QED  BY <1>1, <2>2, <2>3, <2>4
<1> QED  BY <1>3, <1>4, <1>5 DEF D

\* The copies follow the rows.
LEMMA AdjustBatch ==
  ASSUME BatchInv, Adjust
  PROVE  BatchInv'
<1> DEFINE n == Len(rows)
           add == ToAdd(n)
<1>1. phase = "returns" /\ balance' = balance /\ steps' = steps
  BY DEF Adjust
<1>2. /\ Typed(steps, rows) /\ Distinct(rows) /\ Complete(steps, rows) /\ InOrder(rows)
      /\ balance \in BOOLEAN /\ \A k \in DOMAIN rows : ~rows[k].copy
      /\ \A k \in DOMAIN rows : rows[k].sums = rows[k].at..steps[rows[k].traj]
  BY <1>1 DEF BatchInv, ReturnsOfOwnStep
<1>3. /\ n \in Nat /\ DOMAIN rows = 1..n /\ rows \in Seq(Row)
      /\ \A k \in DOMAIN rows : rows[k] \in Row
  BY <1>2, RowFacts DEF Typed
<1>4. /\ add \in Nat /\ (n + add) % Divisor = 0
      /\ add > n => 2 * n < Divisor
  BY <1>3, ToAddIs
<1>5. \/ add > n /\ phase' = "failed" /\ rows' = rows
      \/ /\ add <= n
         /\ \E dup \in [1..add -> 1..n] :
              /\ IsInjective(dup)
              /\ rows' = rows \o [i \in 1..add |-> [rows[dup[i]] EXCEPT !.copy = TRUE]]
         /\ phase' = "adjusted"
  BY DEF Adjust
<1>6. CASE add > n /\ phase' = "failed" /\ rows' = rows
  <2>1. 2 * Len(rows') < Divisor
    BY <1>4, <1>6
  <2> HIDE DEF n, add
  <2> QED  BY <1>1, <1>2, <1>6, <2>1 DEF BatchInv, ReturnsOfOwnStep
<1>7. CASE /\ \E dup \in [1..add -> 1..n] :
                /\ IsInjective(dup)
                /\ rows' = rows \o [i \in 1..add |-> [rows[dup[i]] EXCEPT !.copy = TRUE]]
           /\ phase' = "adjusted"
  <2>1. PICK dup \in [1..add -> 1..n] :
          /\ IsInjective(dup)
          /\ rows' = rows \o [i \in 1..add |-> [rows[dup[i]] EXCEPT !.copy = TRUE]]
    BY <1>7
  <2> DEFINE cp == [i \in 1..add |-> [rows[dup[i]] EXCEPT !.copy = TRUE]]
  <2> HIDE DEF n, add
  <2>2. ASSUME NEW i \in 1..add
        PROVE  /\ dup[i] \in DOMAIN rows /\ cp[i] \in Row /\ cp[i].copy = TRUE
               /\ cp[i].traj = rows[dup[i]].traj /\ cp[i].at = rows[dup[i]].at
               /\ cp[i].sums = rows[dup[i]].sums
    <3>1. dup[i] \in DOMAIN rows
      BY <1>3, <2>1
    <3>2. rows[dup[i]] \in Row
      BY <1>3, <3>1
    <3> QED  BY <3>1, <3>2 DEF Row
  <2>3. rows' = rows \o cp
    BY <2>1
  <2>4. cp \in Seq(Row) /\ Len(cp) = add
    <3>1. cp = [i \in 1..add |-> cp[i]]
      OBVIOUS
    <3>2. \A i \in 1..add : cp[i] \in Row
      BY <2>2
    <3> HIDE DEF cp
    <3>3. cp \in [1..add -> Row]
      BY <3>1, <3>2
    <3> QED  BY <1>4, <3>3
  <2> HIDE DEF cp
  <2>5. /\ rows' \in Seq(Row) /\ Len(rows') = n + add /\ DOMAIN rows' = 1..(n + add)
        /\ \A k \in 1..n : rows'[k] = rows[k]
        /\ \A k \in (n + 1)..(n + add) : k - n \in 1..add /\ rows'[k] = cp[k - n]
    <3>1. /\ rows' \in Seq(Row) /\ Len(rows') = Len(rows) + Len(cp)
          /\ \A k \in 1..(Len(rows) + Len(cp)) :
               rows'[k] = IF k <= Len(rows) THEN rows[k] ELSE cp[k - Len(rows)]
      BY <1>3, <2>3, <2>4
    <3>2. n = Len(rows)
      BY DEF n
    <3> QED  BY <1>3, <1>4, <2>4, <3>1, <3>2
  \* where a row comes from
  <2> DEFINE src(k) == IF k <= n THEN k ELSE dup[k - n]
  <2>6. ASSUME NEW k \in DOMAIN rows'
        PROVE  /\ src(k) \in DOMAIN rows
               /\ IF k > n THEN rows'[k].copy = TRUE ELSE rows'[k].copy = FALSE
               /\ rows'[k].traj = rows[src(k)].traj /\ rows'[k].at = rows[src(k)].at
               /\ rows'[k].sums = rows[src(k)].sums
    <3>1. CASE k <= n
      <4>1. k \in 1..n /\ src(k) = k /\ ~(k > n)
        BY <1>3, <1>4, <2>5, <3>1
      <4>2. rows'[k] = rows[k] /\ k \in DOMAIN rows
        BY <1>3, <2>5, <4>1
      <4>3. rows[k].copy = FALSE
        BY <1>2, <1>3, <4>2 DEF Row
      <4> QED  BY <4>1, <4>2, <4>3
    <3>2. CASE ~(k <= n)
      <4>1. k \in (n + 1)..(n + add) /\ src(k) = dup[k - n] /\ k > n
        BY <1>3, <1>4, <2>5, <3>2
      <4>2. rows'[k] = cp[k - n] /\ k - n \in 1..add
        BY <2>5, <4>1
      <4> QED  BY <2>2, <4>1, <4>2
    <3> QED  BY <3>1, <3>2
  <2>7. ASSUME NEW k \in DOMAIN rows', NEW l \in DOMAIN rows', k # l, k > n <=> l > n
        PROVE  src(k) # src(l)
    <3>1. CASE k > n
      <4>1. k \in (n + 1)..(n + add) /\ l \in (n + 1)..(n + add)
        BY <1>3, <1>4, <2>5, <2>7, <3>1
      <4>2. src(k) = dup[k - n] /\ src(l) = dup[l - n] /\ k - n # l - n
            /\ k - n \in 1..add /\ l - n \in 1..add
        BY <1>3, <1>4, <2>7, <4>1
      <4> QED  BY <2>1, <4>2 DEF IsInjective
    <3>2. CASE ~(k > n)
      BY <1>3, <1>4, <2>5, <2>7, <3>2
    <3> QED  BY <3>1, <3>2
  <2> HIDE DEF src
  <2>8. Typed(steps, rows')
    <3>1. \A k \in DOMAIN rows : rows[k].at <= steps[rows[k].traj]
      BY <1>2 DEF Typed
    <3>2. \A k \in DOMAIN rows' : rows'[k].at <= steps[rows'[k].traj]
      BY <2>6, <3>1
    <3> QED  BY <1>2, <2>5, <3>2 DEF Typed
  <2>9. Distinct(rows')
    <3> SUFFICES ASSUME NEW k \in DOMAIN rows', NEW l \in DOMAIN rows', k # l,
                        rows'[k].traj = rows'[l].traj, rows'[k].copy = rows'[l].copy
                 PROVE  rows'[k].at # rows'[l].at
      BY DEF Distinct
    <3>1. src(k) # src(l)
      BY <2>6, <2>7
    <3>2. rows[src(k)].traj = rows[src(l)].traj
      BY <2>6
    <3>3. rows[src(k)].copy = rows[src(l)].copy
      <4>1. rows[src(k)].copy = FALSE /\ rows[src(l)].copy = FALSE
        BY <1>2, <1>3, <2>6 DEF Row
      <4> QED  BY <4>1
    <3>4. rows[src(k)].at # rows[src(l)].at
      BY <1>2, <2>6, <3>1, <3>2, <3>3 DEF Distinct
    <3> QED  BY <2>6, <3>4
  <2>10. Complete(steps, rows')
    <3> SUFFICES ASSUME NEW j \in 1..Trajs, NEW t \in 1..steps[j]
                 PROVE  \E k \in DOMAIN rows' :
                          rows'[k].traj = j /\ rows'[k].at = t /\ ~rows'[k].copy
      BY DEF Complete
    <3>1. PICK k \in DOMAIN rows : rows[k].traj = j /\ rows[k].at = t /\ ~rows[k].copy
      BY <1>2 DEF Complete
    <3>2. k \in DOMAIN rows' /\ rows'[k] = rows[k]
      BY <1>3, <1>4, <2>5
    <3> QED  BY <3>1, <3>2
  <2>11. InOrder(rows')
    <3> SUFFICES ASSUME NEW k \in DOMAIN rows', NEW l \in DOMAIN rows', k < l, ~rows'[l].copy
                 PROVE  /\ ~rows'[k].copy
                        /\ rows'[k].traj = rows'[l].traj => rows'[k].at < rows'[l].at
      BY DEF InOrder
    <3>1. ~(l > n) /\ l \in 1..(n + add) /\ k \in 1..(n + add)
      BY <2>5, <2>6
    <3>2. k \in DOMAIN rows /\ l \in DOMAIN rows /\ rows'[k] = rows[k] /\ rows'[l] = rows[l]
      BY <1>3, <1>4, <2>5, <3>1
    <3> QED  BY <1>2, <3>2 DEF InOrder
  <2>12. \A k \in DOMAIN rows' : rows'[k].sums = rows'[k].at..steps'[rows'[k].traj]
    BY <1>1, <1>2, <2>6
  <2>13. Len(rows') % Divisor = 0
    BY <1>4, <2>5
  <2> QED  BY <1>1, <1>2, <1>7, <2>8, <2>9, <2>10, <2>11, <2>12, <2>13
           DEF BatchInv, ReturnsOfOwnStep
<1> HIDE DEF n, add
<1> QED  BY <1>5, <1>6, <1>7

\* What divides a divisor divides.
LEMMA Divides ==
  ASSUME NEW a \in Nat \ {0}, NEW b \in Nat \ {0}, NEW c \in Nat, c % b = 0, b % a = 0
  PROVE  c % a = 0
<1> DEFINE p == c \div b
           q == b \div a
<1>1. p \in Int /\ q \in Int /\ c = b * p + 0 /\ b = a * q + 0
  BY DivMod
<1> HIDE DEF p, q
<1>2. c = a * (q * p) + 0 /\ q * p \in Int /\ 0 \in 0..(a - 1)
  BY <1>1
<1> DEFINE z == q * p
<1> HIDE DEF z
<1>3. c = a * z + 0 /\ z \in Int
  BY <1>2 DEF z
<1> QED  BY <1>2, <1>3, DivModOf

\* A divisor is no more than what it divides.
LEMMA DividesLess ==
  ASSUME NEW b \in Nat \ {0}, NEW c \in Nat \ {0}, c % b = 0
  PROVE  b <= c
<1> DEFINE p == c \div b
<1>1. p \in Int /\ c = b * p + 0
  BY DivMod
<1> HIDE DEF p
<1>2. CASE p <= 0
  <2>1. b * p <= 0
    BY <1>1, <1>2
  <2> QED  BY <1>1, <2>1
<1>3. CASE 0 < p
  <2>1. b * 0 + b <= b * p
    BY <1>1, <1>3, Mono
  <2> QED  BY <1>1, <2>1
<1> QED  BY <1>1, <1>2, <1>3

\* A batch is not empty, and the ranks share it evenly once it is adjusted.
LEMMA BatchSize ==
  ASSUME NEW st, NEW rs, Typed(st, rs), Complete(st, rs)
  PROVE  /\ Len(rs) \in Nat \ {0}
         /\ Len(rs) % Divisor = 0 => Len(rs) % World = 0 /\ World <= Len(rs)
<1>1. Len(rs) \in Nat /\ DOMAIN rs = 1..Len(rs)
  BY RowFacts
<1>2. 1 \in 1..Trajs
  BY Sizes
<1>3. 1 \in 1..st[1]
  BY <1>2, RowFacts
<1>4. PICK k \in DOMAIN rs : rs[k].traj = 1
  BY <1>2, <1>3 DEF Complete
<1> DEFINE n == Len(rs)
<1>5. n \in Nat \ {0}
  BY <1>1, <1>4
<1> HIDE DEF n
<1>6. ASSUME n % Divisor = 0 PROVE n % World = 0 /\ World <= n
  <2>1. n % World = 0
    BY <1>5, <1>6, Sizes, Divides
  <2> QED  BY <1>5, <2>1, Sizes, DividesLess
<1> QED  BY <1>5, <1>6 DEF n

\* The lengths of the rows, and what the partitions of a batch are.
LEMMA TokensOfRows ==
  ASSUME Typed(steps, rows)
  PROVE  /\ RowTokens \in Seq(1..MaxTokenLen) /\ Len(RowTokens) = Len(rows)
         /\ DOMAIN RowTokens = DOMAIN rows /\ DOMAIN rows = 1..Len(rows)
         /\ \A k \in DOMAIN rows : RowTokens[k] = rows[k].tokens
<1>1. /\ Len(rows) \in Nat /\ DOMAIN rows = 1..Len(rows)
      /\ \A k \in DOMAIN rows : rows[k].tokens \in 1..MaxTokenLen
  BY RowFacts
<1>2. RowTokens = [k \in 1..Len(rows) |-> rows[k].tokens]
  BY <1>1 DEF RowTokens
<1> QED  BY <1>1, <1>2

\* Once adjusted, a batch can be dealt evenly to the ranks.
LEMMA BatchParts ==
  ASSUME Typed(steps, rows), Complete(steps, rows), Len(rows) % Divisor = 0
  PROVE  Parts(MaxTokenLen, RowTokens, World, TRUE, BalancedPartitions(RowTokens, World, TRUE))
<1> DEFINE lens == RowTokens
           e == TRUE
<1>1. lens \in Seq(1..MaxTokenLen) /\ Len(lens) = Len(rows)
  BY TokensOfRows
<1>2. Len(lens) % World = 0 /\ World <= Len(lens)
  BY <1>1, BatchSize
<1>3. MaxTokenLen \in Nat /\ World \in Nat \ {0} /\ e \in BOOLEAN /\ (e => Len(lens) % World = 0)
  BY <1>2, Sizes
<1> HIDE DEF lens, e
<1>4. Parts(MaxTokenLen, lens, World, e, BalancedPartitions(lens, World, e))
  BY <1>1, <1>2, <1>3, Partitions
<1> QED  BY <1>4 DEF lens, e

\* Balancing reorders the rows.
LEMMA BalanceBatch ==
  ASSUME BatchInv, Balance
  PROVE  BatchInv'
<1> DEFINE n == Len(rows)
           B == BalancedPartitions(RowTokens, World, TRUE)
           f == FlattenSeq(B)
<1>1. /\ phase = "adjusted" /\ phase' = "balanced" /\ balance' = balance /\ steps' = steps
      /\ rows' = IF balance THEN [k \in DOMAIN rows |-> rows[f[k]]] ELSE rows
  BY DEF Balance, Reordered
<1>2. /\ Typed(steps, rows) /\ Distinct(rows) /\ Complete(steps, rows)
      /\ balance \in BOOLEAN /\ (~balance => InOrder(rows)) /\ Len(rows) % Divisor = 0
      /\ \A k \in DOMAIN rows : rows[k].sums = rows[k].at..steps[rows[k].traj]
  BY <1>1 DEF BatchInv, ReturnsOfOwnStep
<1>3. CASE ~balance
  <2>1. rows' = rows
    BY <1>1, <1>3
  <2> QED  BY <1>1, <1>2, <1>3, <2>1 DEF BatchInv, ReturnsOfOwnStep
<1>4. CASE balance
  <2>1. n \in Nat /\ DOMAIN rows = 1..n /\ rows \in Seq(Row) /\ \A k \in 1..n : rows[k] \in Row
    BY <1>2, RowFacts DEF Typed
  <2>2. Order(n, f)
    <3>1. Parts(MaxTokenLen, RowTokens, World, TRUE, B)
      BY <1>2, BatchParts
    <3>2. DOMAIN RowTokens = 1..n
      BY <1>2, TokensOfRows
    <3> HIDE DEF n, B
    <3>3. Pieces(n, World, B)
      BY <2>1, <3>1, <3>2, PartsArePieces
    <3> QED  BY <2>1, <3>3, Sizes, PiecesInOrder DEF f
  <2>3. rows' = [k \in 1..n |-> rows[f[k]]]
    BY <1>1, <1>4, <2>1
  <2> HIDE DEF n, f
  <2>4. /\ \A p \in 1..n : f[p] \in 1..n
        /\ \A p, q \in 1..n : f[p] = f[q] => p = q
        /\ \A x \in 1..n : \E p \in 1..n : f[p] = x
    BY <2>2 DEF Order
  <2>5. /\ DOMAIN rows' = 1..n /\ rows' \in Seq(Row) /\ Len(rows') = n
        /\ \A k \in 1..n : rows'[k] = rows[f[k]]
    <3>1. \A k \in 1..n : rows[f[k]] \in Row
      BY <2>1, <2>4
    <3>2. rows' \in [1..n -> Row]
      BY <2>3, <3>1
    <3> QED  BY <2>1, <2>3, <3>2
  <2>6. Typed(steps, rows')
    <3>1. \A k \in DOMAIN rows : rows[k].at <= steps[rows[k].traj]
      BY <1>2 DEF Typed
    <3>2. ASSUME NEW k \in DOMAIN rows' PROVE rows'[k].at <= steps[rows'[k].traj]
      <4>1. f[k] \in DOMAIN rows /\ rows'[k] = rows[f[k]]
        BY <2>1, <2>4, <2>5
      <4> QED  BY <3>1, <4>1
    <3> QED  BY <1>2, <2>5, <3>2 DEF Typed
  <2>7. Distinct(rows')
    <3> SUFFICES ASSUME NEW k \in 1..n, NEW l \in 1..n, k # l,
                        rows'[k].traj = rows'[l].traj, rows'[k].copy = rows'[l].copy
                 PROVE  rows'[k].at # rows'[l].at
      BY <2>5 DEF Distinct
    <3>1. f[k] # f[l] /\ f[k] \in DOMAIN rows /\ f[l] \in DOMAIN rows
      BY <2>1, <2>4
    <3>2. rows'[k] = rows[f[k]] /\ rows'[l] = rows[f[l]]
      BY <2>5
    <3> QED  BY <1>2, <3>1, <3>2 DEF Distinct
  <2>8. Complete(steps, rows')
    <3> SUFFICES ASSUME NEW j \in 1..Trajs, NEW t \in 1..steps[j]
                 PROVE  \E k \in DOMAIN rows' :
                          rows'[k].traj = j /\ rows'[k].at = t /\ ~rows'[k].copy
      BY DEF Complete
    <3>1. PICK k \in 1..n : rows[k].traj = j /\ rows[k].at = t /\ ~rows[k].copy
      BY <1>2, <2>1 DEF Complete
    <3>2. PICK p \in 1..n : f[p] = k
      BY <2>4
    <3> QED  BY <2>5, <3>1, <3>2
  <2>9. \A k \in DOMAIN rows' : rows'[k].sums = rows'[k].at..steps'[rows'[k].traj]
    BY <1>1, <1>2, <2>1, <2>4, <2>5
  <2>10. Len(rows') % Divisor = 0
    BY <1>2, <2>5 DEF n
  <2> QED  BY <1>1, <1>2, <1>4, <2>6, <2>7, <2>8, <2>9, <2>10 DEF BatchInv, ReturnsOfOwnStep
<1> QED  BY <1>3, <1>4

\* The potentials by position.
LEMMA MilestoneGAEBatch ==
  ASSUME BatchInv, MilestoneGAE
  PROVE  BatchInv'
<1>1. /\ phase = "balanced" /\ phase' = "done"
      /\ balance' = balance /\ steps' = steps /\ rows' = rows
      /\ phi' = [k \in DOMAIN rows |-> PhiAt(rows[k].traj, Rank(k))]
  BY DEF MilestoneGAE
<1>2. \A k : Rank(k)' = Rank(k)
  BY <1>1 DEF Rank, Indices
<1>3. \A j, i : PhiAt(j, i)' = PhiAt(j, i)
  BY <1>1 DEF PhiAt
<1>4. phi' = [k \in DOMAIN rows |-> PhiAt(rows[k].traj, Rank(k))]'
  BY <1>1 DEF PhiAt, Rank, Indices
<1> QED  BY <1>1, <1>4 DEF BatchInv, ReturnsOfOwnStep

\* Nothing else touches the batch.
LEMMA SameBatch ==
  ASSUME BatchInv, UNCHANGED vars
  PROVE  BatchInv'
<1>1. /\ phase' = phase /\ balance' = balance /\ steps' = steps /\ rows' = rows /\ phi' = phi
  BY DEF vars
<1>2. [k \in DOMAIN rows |-> PhiAt(rows[k].traj, Rank(k))]'
        = [k \in DOMAIN rows |-> PhiAt(rows[k].traj, Rank(k))]
  BY <1>1 DEF PhiAt, Rank, Indices
<1> QED  BY <1>1, <1>2 DEF BatchInv, ReturnsOfOwnStep

\* No step of the driver or of a rank breaks what holds of the batch.
LEMMA BatchStep ==
  ASSUME BatchInv, [RankNext]_<<vars, rankVars>>
  PROVE  BatchInv'
<1>1. \/ StepReturns \/ Adjust \/ Balance \/ MilestoneGAE \/ UNCHANGED vars
  BY DEF RankNext, Driver, RankStep, Ended, DispatchLogProb, Forward, CollectLogProb,
         DispatchUpdate, NextMiniBatch, Backward, UpdateEnds
<1> QED  BY <1>1, StepReturnsBatch, AdjustBatch, BalanceBatch, MilestoneGAEBatch, SameBatch

\* The batch is at any time what the trajectories delivered, each row once and
\* some once more, with the return of its own step, and phi as Milestone GAE
\* counts the rows: the inductive invariant of fit()'s steps on the batch.
THEOREM BatchInvariant == RankSpec => []BatchInv
<1>1. RankInit => BatchInv
  BY InitBatch DEF RankInit
<1>2. BatchInv /\ [RankNext]_<<vars, rankVars>> => BatchInv'
  BY BatchStep
<1> QED  BY <1>1, <1>2, PTL DEF RankSpec

-----------------------------------------------------------------------------
\* The step t of trajectory j: the row collected for it and at most one copy.
LEMMA EvenOfBatch ==
  ASSUME BatchInv
  PROVE  EvenAndComplete
<1>1. /\ Typed(steps, rows) /\ Distinct(rows) /\ Complete(steps, rows)
      /\ phase = "failed" => 2 * Len(rows) < Divisor
      /\ phase \in {"adjusted", "balanced", "done"} => Len(rows) % Divisor = 0
  BY DEF BatchInv
<1>2. ASSUME NEW j \in 1..Trajs, NEW t \in 1..steps[j]
      PROVE  LET here == {k \in DOMAIN rows : rows[k].traj = j /\ rows[k].at = t}
             IN /\ Cardinality({k \in here : ~rows[k].copy}) = 1
                /\ Cardinality(here) <= 2
  <2> DEFINE here == {k \in DOMAIN rows : rows[k].traj = j /\ rows[k].at = t}
             own == {k \in here : ~rows[k].copy}
             copies == {k \in here : rows[k].copy}
  <2>1. PICK k \in DOMAIN rows : rows[k].traj = j /\ rows[k].at = t /\ ~rows[k].copy
    BY <1>1 DEF Complete
  <2>2. \A i \in DOMAIN rows : rows[i].copy = TRUE \/ rows[i].copy = FALSE
    BY <1>1, RowFacts
  <2>3. own = {k}
    <3>1. \A i \in own : i = k
      <4> SUFFICES ASSUME NEW i \in own, i # k PROVE FALSE
        OBVIOUS
      <4>1. rows[i].copy = rows[k].copy /\ rows[i].traj = rows[k].traj
            /\ rows[i].at = rows[k].at /\ i \in DOMAIN rows
        BY <2>1, <2>2
      <4> QED  BY <1>1, <2>1, <4>1 DEF Distinct
    <3> QED  BY <2>1, <3>1
  <2>4. \A i, l \in copies : i = l
    <3> SUFFICES ASSUME NEW i \in copies, NEW l \in copies, i # l PROVE FALSE
      OBVIOUS
    <3>1. rows[i].copy = rows[l].copy /\ rows[i].traj = rows[l].traj
          /\ rows[i].at = rows[l].at /\ i \in DOMAIN rows /\ l \in DOMAIN rows
      BY <2>2
    <3> QED  BY <1>1, <3>1 DEF Distinct
  <2>5. here = own \cup copies /\ own \cap copies = {}
    OBVIOUS
  <2> HIDE DEF here, own, copies
  <2>6. IsFiniteSet({k}) /\ Cardinality({k}) = 1
    BY FS_Singleton
  <2>7. Cardinality(here) <= 2
    <3>1. CASE copies = {}
      BY <2>3, <2>5, <2>6, <3>1
    <3>2. CASE copies # {}
      <4>1. PICK c \in copies : TRUE
        BY <3>2
      <4>2. here = {k} \cup {c} /\ c \notin {k}
        BY <2>3, <2>4, <2>5, <4>1
      <4>3. Cardinality({k} \cup {c}) = Cardinality({k}) + 1
        BY <2>6, <4>2, FS_AddElement
      <4> QED  BY <2>6, <4>2, <4>3
    <3> QED  BY <3>1, <3>2
  <2> QED  BY <2>3, <2>6, <2>7 DEF here, own
<1> QED  BY <1>1, <1>2 DEF EvenAndComplete

\* Without balancing, a collected row's position in its trajectory is its step.
LEMMA RankIsStep ==
  ASSUME Typed(steps, rows), Distinct(rows), Complete(steps, rows), InOrder(rows),
         NEW k \in DOMAIN rows, ~rows[k].copy
  PROVE  Rank(k) = rows[k].at
<1> DEFINE j == rows[k].traj
           n == rows[k].at
           S == {m \in Indices(j) : m <= k}
           g == [m \in S |-> rows[m].at]
<1>1. /\ Len(rows) \in Nat /\ DOMAIN rows = 1..Len(rows) /\ IsFiniteSet(DOMAIN rows)
      /\ \A i \in 1..Trajs : steps[i] \in Nat
      /\ \A m \in DOMAIN rows : m \in Nat /\ rows[m].at \in 1..steps[rows[m].traj]
                                /\ rows[m].at \in Nat /\ rows[m].traj \in 1..Trajs
  BY RowFacts
<1>2. Rank(k) = Cardinality(S)
  BY DEF Rank
<1>3. n \in 1..steps[j] /\ n \in Nat /\ j \in 1..Trajs /\ steps[j] \in Nat /\ k \in Nat
  BY <1>1
<1>4. /\ S \subseteq DOMAIN rows /\ k \in S
      /\ \A m \in S : rows[m].traj = j /\ m <= k
      /\ \A m \in DOMAIN rows : rows[m].traj = j /\ m <= k => m \in S
  BY <1>1 DEF Indices
<1> HIDE DEF S, j, n
<1>5. ASSUME NEW m \in S
      PROVE  ~rows[m].copy /\ rows[m].at \in 1..n
  <2>1. m \in DOMAIN rows /\ rows[m].traj = j /\ m \in Nat /\ rows[m].at \in 1..steps[j]
    BY <1>1, <1>4
  <2>2. CASE m = k
    BY <1>3, <2>1, <2>2 DEF n
  <2>3. CASE m < k
    <3>1. ~rows[m].copy /\ rows[m].at < rows[k].at
      BY <2>1, <2>3 DEF InOrder, j
    <3>2. rows[m].at < n
      BY <3>1 DEF n
    <3> QED  BY <1>3, <2>1, <3>1, <3>2
  <2> QED  BY <1>3, <1>4, <2>1, <2>2, <2>3
<1>6. \A x, y \in S : rows[x].at = rows[y].at => x = y
  <2> SUFFICES ASSUME NEW x \in S, NEW y \in S, x # y PROVE rows[x].at # rows[y].at
    OBVIOUS
  <2>1. rows[x].copy = rows[y].copy
    <3>1. ~rows[x].copy /\ ~rows[y].copy
      BY <1>5
    <3>2. x \in DOMAIN rows /\ y \in DOMAIN rows
      BY <1>4
    <3>3. rows[x].copy \in BOOLEAN /\ rows[y].copy \in BOOLEAN
      BY <3>2, RowFacts
    <3> QED  BY <3>1, <3>3
  <2> QED  BY <1>4, <2>1 DEF Distinct
<1>7. ASSUME NEW t \in 1..n PROVE \E m \in S : rows[m].at = t
  <2>1. t \in 1..steps[j]
    BY <1>3
  <2>2. PICK m \in DOMAIN rows : rows[m].traj = j /\ rows[m].at = t /\ ~rows[m].copy
    BY <1>3, <2>1 DEF Complete
  <2>3. ~(k < m)
    <3> SUFFICES ASSUME k < m PROVE FALSE
      OBVIOUS
    <3>1. rows[k].at < rows[m].at
      BY <2>2 DEF InOrder, j
    <3>2. n < t
      BY <2>2, <3>1 DEF n
    <3> QED  BY <1>3, <3>2
  <2>4. m <= k
    BY <1>1, <1>3, <2>2, <2>3
  <2> QED  BY <1>4, <2>2, <2>4
<1>8. g \in Bijection(S, 1..n)
  BY <1>5, <1>6, <1>7 DEF Bijection, Injection, Surjection, IsInjective
<1>9. IsFiniteSet(S)
  BY <1>1, <1>4, FS_Subset
<1>10. Cardinality(1..n) = Cardinality(S)
  <2> HIDE DEF g
  <2> QED  BY <1>8, <1>9, FS_Bijection DEF ExistsBijection
<1>11. Cardinality(1..n) = n
  BY <1>3, FS_Interval
<1> QED  BY <1>2, <1>10, <1>11 DEF n

\* The potentials of a trajectory's rows.
LEMMA SharedOfBatch ==
  ASSUME BatchInv
  PROVE  PhiSharedOut
<1> SUFFICES ASSUME phase = "done", NEW j \in 1..Trajs
             PROVE  /\ \A i \in 1..(steps[j] - 1) :
                         Cardinality({k \in Indices(j) : phi[k] = i}) = 1
                    /\ ~balance => \A k \in Indices(j) : ~rows[k].copy => phi[k] = rows[k].at
  BY DEF PhiSharedOut
<1>1. /\ Typed(steps, rows) /\ Distinct(rows) /\ Complete(steps, rows)
      /\ ~balance => InOrder(rows)
      /\ phi = [k \in DOMAIN rows |-> PhiAt(rows[k].traj, Rank(k))]
  BY DEF BatchInv
<1> DEFINE S == Indices(j)
           n == steps[j]
           c == Cardinality(S)
<1>2. /\ S \subseteq DOMAIN rows /\ IsFiniteSet(S) /\ c \in Nat
      /\ \A k \in S : Rank(k) \in 1..c
      /\ \A k, l \in S : k < l => Rank(k) < Rank(l)
      /\ \A i \in 1..c : \E k \in S : Rank(k) = i
  <2>1. IsFiniteSet(S)
    BY <1>1, RankFacts
  <2>2. c \in Nat
    BY <2>1, FS_CardinalityType
  <2> QED  BY <1>1, <2>1, <2>2, RankFacts
<1>3. /\ n \in Nat /\ \A k \in DOMAIN rows : k \in Nat
      /\ \A k \in S : rows[k].traj = j /\ rows[k].at \in 1..n
  <2>1. /\ n \in Nat /\ \A k \in DOMAIN rows : k \in Nat /\ rows[k].at \in 1..steps[rows[k].traj]
    BY <1>1, RowFacts
  <2> QED  BY <2>1 DEF Indices
<1>4. \A k \in S : phi[k] = IF Rank(k) <= n THEN Rank(k) ELSE n
  BY <1>1, <1>2, <1>3 DEF PhiAt
<1>5. \A k \in DOMAIN rows : rows[k].traj = j => k \in S
  BY DEF Indices
<1> HIDE DEF S
<1>6. n <= c
  <2> DEFINE at == [k \in S |-> rows[k].at]
  <2>1. at \in Surjection(S, 1..n)
    <3>1. at \in [S -> 1..n]
      BY <1>3
    <3>2. ASSUME NEW t \in 1..n PROVE \E k \in S : at[k] = t
      <4>1. PICK k \in DOMAIN rows : rows[k].traj = j /\ rows[k].at = t
        BY <1>1, <3>2 DEF Complete
      <4>2. k \in S
        BY <1>5, <4>1
      <4> QED  BY <4>1, <4>2
    <3> HIDE DEF at
    <3> QED  BY <3>1, <3>2 DEF Surjection
  <2> HIDE DEF at, n
  <2>2. Cardinality(1..n) <= Cardinality(S)
    BY <1>2, <2>1, FS_Surjection
  <2>3. Cardinality(1..n) = n
    BY <1>3, FS_Interval
  <2> QED  BY <2>2, <2>3
<1> HIDE DEF n, c
<1>7. ASSUME NEW i \in 1..(n - 1)
      PROVE  Cardinality({k \in S : phi[k] = i}) = 1
  <2>1. i \in 1..c /\ i \in Nat /\ i < n
    BY <1>2, <1>3, <1>6
  <2>2. PICK k \in S : Rank(k) = i
    BY <1>2, <2>1
  <2>3. ASSUME NEW l \in S PROVE phi[l] = i <=> l = k
    <3>1. Rank(l) \in Nat /\ l \in Nat /\ k \in Nat
      BY <1>2, <1>3
    <3>2. phi[l] = i <=> Rank(l) = i
      BY <1>3, <1>4, <2>1, <3>1
    <3>3. l # k => Rank(l) # Rank(k)
      <4>1. l < k => Rank(l) < Rank(k)
        BY <1>2
      <4>2. k < l => Rank(k) < Rank(l)
        BY <1>2
      <4> QED  BY <2>1, <2>2, <3>1, <4>1, <4>2
    <3> QED  BY <2>2, <3>2, <3>3
  <2>4. {l \in S : phi[l] = i} = {k}
    BY <2>3
  <2> QED  BY <2>4, FS_Singleton
<1>8. ASSUME ~balance, NEW k \in S, ~rows[k].copy
      PROVE  phi[k] = rows[k].at
  <2>1. Rank(k) = rows[k].at
    BY <1>1, <1>2, <1>8, RankIsStep
  <2> QED  BY <1>3, <1>4, <2>1
<1> QED  BY <1>7, <1>8 DEF S, n

\* Adjusting and balancing lose no step and leave a batch the ranks can
\* split evenly (EvenAndComplete).
THEOREM BatchEvenAndComplete == RankSpec => []EvenAndComplete
BY BatchInvariant, EvenOfBatch, PTL

\* GiGPO's returns stay with their rows (ReturnsOfOwnStep).
THEOREM BatchReturns == RankSpec => []ReturnsOfOwnStep
<1>1. BatchInv => ReturnsOfOwnStep
  BY DEF BatchInv
<1> QED  BY <1>1, BatchInvariant, PTL

\* Milestone GAE shares a trajectory's potentials out among its rows, and
\* gives each row its own step's unless the batch was balanced (PhiSharedOut).
THEOREM BatchPhi == RankSpec => []PhiSharedOut
BY BatchInvariant, SharedOfBatch, PTL

-----------------------------------------------------------------------------
(***************************************************************************)
(* Consecutive positions.                                                  *)
(***************************************************************************)
Run(a, size) == [i \in 1..size |-> a + i]

IsRun(n, a, size, q) ==
  /\ q \in Seq(1..n) /\ Len(q) = size /\ DOMAIN q = 1..size
  /\ \A i \in 1..size : q[i] = a + i
  /\ \A x : x \in ToSet(q) <=> x \in (a + 1)..(a + size)

\* A run of positions within 1..n.
LEMMA RunFacts ==
  ASSUME NEW n \in Nat, NEW a \in Nat, NEW size \in Nat, a + size <= n
  PROVE  IsRun(n, a, size, Run(a, size))
<1>1. \A i \in 1..size : a + i \in 1..n
  OBVIOUS
<1>2. /\ Run(a, size) \in Seq(1..n) /\ Len(Run(a, size)) = size
      /\ DOMAIN Run(a, size) = 1..size /\ \A i \in 1..size : Run(a, size)[i] = a + i
  BY <1>1 DEF Run
<1>3. ASSUME NEW x PROVE x \in ToSet(Run(a, size)) <=> x \in (a + 1)..(a + size)
  <2>1. ASSUME x \in ToSet(Run(a, size)) PROVE x \in (a + 1)..(a + size)
    <3>1. PICK i \in 1..size : x = a + i
      BY <1>2, <2>1 DEF ToSet
    <3> QED  BY <3>1
  <2>2. ASSUME x \in (a + 1)..(a + size) PROVE x \in ToSet(Run(a, size))
    <3>1. x - a \in 1..size /\ x = a + (x - a)
      BY <2>2
    <3> QED  BY <1>2, <3>1 DEF ToSet
  <2> QED  BY <2>1, <2>2
<1> QED  BY <1>2, <1>3 DEF IsRun

\* A part of consecutive positions is consecutive.
PartOfRun(c, n, a, size) == SubSeq(Run(c, n), a + 1, a + size) = Run(c + a, size)

\* Which they are.
LEMMA RunOfRun ==
  ASSUME NEW n \in Nat, NEW c \in Nat, NEW a \in Nat, NEW size \in Nat, a + size <= n
  PROVE  PartOfRun(c, n, a, size)
<1> DEFINE s == Run(c, n)
<1>1. \A i \in 1..size : i + (a + 1) - 1 \in 1..n
  OBVIOUS
<1>2. \A i \in 1..n : s[i] = c + i
  BY DEF Run
<1> HIDE DEF s
<1>3. SubSeq(s, a + 1, a + size) = [i \in 1..(1 + (a + size) - (a + 1)) |-> s[i + (a + 1) - 1]]
  OBVIOUS
<1>4. 1 + (a + size) - (a + 1) = size
  OBVIOUS
<1>5. \A i \in 1..size : s[i + (a + 1) - 1] = (c + a) + i
  BY <1>1, <1>2
<1>6. [i \in 1..size |-> s[i + (a + 1) - 1]] = [i \in 1..size |-> (c + a) + i]
  BY <1>5
<1> QED  BY <1>3, <1>4, <1>6 DEF s, Run, PartOfRun

\* The k-th of several lists of one length starts behind k - 1 of them.
AllLong(k, ss, size) == \A j \in 1..k : Len(ss[j]) = size

StartsAt(k, off, size) == \A j \in 1..(k + 1) : off[j] = (j - 1) * size

\* So FlattenSeq starts it there.
LEMMA EvenOffsets ==
  ASSUME NEW k \in Nat \ {0}, NEW ss, NEW off, NEW f, NEW size \in Nat,
         Flat(k, ss, off, f), AllLong(k, ss, size)
  PROVE  StartsAt(k, off, size)
<1> USE DEF AllLong, StartsAt
<1> DEFINE Wrong == {j \in 1..(k + 1) : off[j] # (j - 1) * size}
<1> SUFFICES ASSUME Wrong # {} PROVE FALSE
  OBVIOUS
<1>1. Wrong \in SUBSET Nat
  OBVIOUS
<1>2. PICK j \in Wrong : \A i \in Wrong : j <= i
  <2> HIDE DEF Wrong
  <2> QED  BY <1>1, SmallestNumber
<1>3. j \in 1..(k + 1) /\ off[j] # (j - 1) * size
  BY <1>2
<1>4. j # 1
  <2>1. off[1] = 0 /\ (1 - 1) * size = 0
    BY DEF Flat
  <2> QED  BY <1>3, <2>1
<1>5. j - 1 \in 1..k /\ j - 1 \in 1..(k + 1) /\ ~(j <= j - 1)
  BY <1>3, <1>4
<1>6. off[j - 1] = (j - 1 - 1) * size
  BY <1>2, <1>5
<1>7. off[j] = off[j - 1] + size
  <2>1. off[j - 1 + 1] = off[j - 1] + Len(ss[j - 1])
    BY <1>5 DEF Flat
  <2>2. j - 1 + 1 = j
    BY <1>3
  <2> QED  BY <1>5, <2>1, <2>2
<1>8. (j - 1 - 1) * size + size = (j - 1) * size
  BY <1>3
<1> QED  BY <1>3, <1>6, <1>7, <1>8

\* The shards of the ranks.
LEMMA Shards ==
  ASSUME NEW n \in Nat \ {0}, n % World = 0
  PROVE  /\ n \div World \in Nat \ {0} /\ n = World * (n \div World)
         /\ \A r \in Ranks : /\ (r - 1) * (n \div World) \in Nat
                             /\ (r - 1) * (n \div World) + (n \div World) <= n
<1> DEFINE s == n \div World
<1>1. World \in Nat \ {0} /\ s \in Int /\ n = World * s
  BY Sizes, DivMod
<1> HIDE DEF s
<1>2. s > 0
  <2> SUFFICES ASSUME s <= 0 PROVE FALSE
    BY <1>1
  <2>1. World * s <= 0
    BY <1>1
  <2> QED  BY <1>1, <2>1
<1>3. ASSUME NEW r \in Ranks
      PROVE  (r - 1) * s \in Nat /\ (r - 1) * s + s <= n
  <2>1. r - 1 \in Nat /\ r - 1 < World /\ s \in Nat \ {0}
    BY <1>1, <1>2 DEF Ranks
  <2>2. s * (r - 1) + s <= s * World
    BY <1>1, <2>1, Mono
  <2>3. s * (r - 1) = (r - 1) * s /\ s * World = World * s
    BY <1>1, <2>1
  <2>4. (r - 1) * s \in Nat
    BY <2>1
  <2> QED  BY <1>1, <2>2, <2>3, <2>4
<1> QED  BY <1>1, <1>2, <1>3 DEF s

\* DataProto.chunk: a rank's shard is a run of rows, and they fill the batch.
LEMMA ShardIs ==
  ASSUME Typed(steps, rows), Complete(steps, rows), Len(rows) % Divisor = 0
  PROVE  /\ ShardSize \in Nat \ {0} /\ Len(rows) = World * ShardSize
         /\ \A r \in Ranks : /\ Shard(r) = Run((r - 1) * ShardSize, ShardSize)
                             /\ (r - 1) * ShardSize \in Nat
                             /\ (r - 1) * ShardSize + ShardSize <= Len(rows)
<1> DEFINE n == Len(rows)
           s == ShardSize
<1>1. n \in Nat \ {0} /\ n % World = 0 /\ DOMAIN rows = 1..n
  BY BatchSize, RowFacts
<1>2. s = n \div World
  BY DEF ShardSize
<1> HIDE DEF n, s
<1>3. /\ s \in Nat \ {0} /\ n = World * s
      /\ \A r \in Ranks : (r - 1) * s \in Nat /\ (r - 1) * s + s <= n
  BY <1>1, <1>2, Shards
<1>4. ASSUME NEW r \in Ranks PROVE Shard(r) = Run((r - 1) * s, s)
  <2> DEFINE a == (r - 1) * s
  <2>1. Shard(r) = SubSeq([k \in 1..n |-> k], a + 1, r * s)
    BY <1>1 DEF Shard, s
  <2>2. r * s = a + s
    BY <1>3 DEF Ranks
  <2>3. a \in Nat /\ a + s <= n
    BY <1>3
  <2> HIDE DEF a
  <2> DEFINE z == 0
  <2>4. z \in Nat /\ n \in Nat /\ s \in Nat /\ z + a = a
    BY <1>1, <1>3, <2>3
  <2>5. Run(z, n) = [k \in 1..n |-> k]
    BY <1>1 DEF Run
  <2> HIDE DEF z
  <2>6. PartOfRun(z, n, a, s)
    BY <2>3, <2>4, RunOfRun
  <2> QED  BY <2>1, <2>2, <2>4, <2>5, <2>6 DEF a, PartOfRun
<1> QED  BY <1>3, <1>4 DEF n, s

\* What a rank gets by a partition weighs what the partition does.
AllDifferent(part) == \A i, j \in DOMAIN part : part[i] = part[j] => i = j

SameLengths(lens, part, l, q) ==
  /\ DOMAIN q = 1..Len(part)
  /\ \A i \in 1..Len(part) : l[q[i]] = lens[part[i]]

SumIsOf(m, lens, part, l, q) == SumOver(l, q) = Total(m, lens, ToSet(part))

\* The sum over a part of the rows, by whatever positions it is taken.
LEMMA TotalOfShard ==
  ASSUME NEW m \in Nat, NEW n \in Nat, NEW lens \in Seq(1..m), NEW part \in Seq(1..n),
         Len(lens) = n, AllDifferent(part), NEW l, NEW q, SameLengths(lens, part, l, q)
  PROVE  SumIsOf(m, lens, part, l, q)
<1> USE DEF AllDifferent, SameLengths, SumIsOf
<1> DEFINE s == Len(part)
           w == [i \in 1..s |-> lens[part[i]]]
<1>1. s \in Nat /\ DOMAIN part = 1..s /\ \A i \in 1..s : part[i] \in 1..n
  OBVIOUS
<1>2. \A x \in 1..n : lens[x] \in 1..m
  OBVIOUS
<1> HIDE DEF s
<1>3. w \in [1..s -> 0..m]
  <2>1. \A i \in 1..s : lens[part[i]] \in 0..m
    BY <1>1, <1>2
  <2> QED  BY <2>1
<1>4. \A i \in 1..s : l[q[i]] = w[i]
  BY DEF s
<1>5. \A i \in 1..s : w[i] = lens[part[i]]
  OBVIOUS
<1> HIDE DEF w
<1>6. SumOver(l, q) = Total(m, w, 1..s)
  <2>1. DOMAIN q = 1..s
    BY DEF s
  <2>2. Weighs(s, w, l, q) /\ s \in Nat
    BY <1>1, <1>4, <2>1 DEF Weighs
  <2>3. SumIs(m, s, w, l, q)
    BY <1>3, <2>2, SumIsTotal
  <2> QED  BY <2>3 DEF SumIs
<1>7. part \in Bijection(1..s, ToSet(part))
  <2>1. part \in [1..s -> ToSet(part)]
    BY <1>1 DEF ToSet, s
  <2>2. \A x \in ToSet(part) : \E i \in 1..s : part[i] = x
    BY <1>1 DEF ToSet
  <2> QED  BY <1>1, <2>1, <2>2 DEF Bijection, Injection, Surjection, IsInjective
<1>8. IsFiniteSet(1..s)
  BY <1>1, FS_Interval
<1>9. Total(m, w, 1..s) = Total(m, lens, ToSet(part))
  <2> DEFINE S == 1..s
             T == ToSet(part)
  <2>1. IsFiniteSet(S) /\ part \in Bijection(S, T) /\ \A i \in S : w[i] = lens[part[i]]
    <3>1. IsFiniteSet(S) /\ part \in Bijection(S, T)
      BY <1>7, <1>8
    <3>2. \A i \in S : w[i] = lens[part[i]]
      BY <1>5
    <3> QED  BY <3>1, <3>2
  <2> HIDE DEF S, T, w, s
  <2>2. Total(m, w, S) = Total(m, lens, T)
    BY <2>1, TotalMoved
  <2> QED  BY <2>2 DEF S, T
<1> QED  BY <1>6, <1>9

\* The least of some numbers.
LEMMA MinIs ==
  ASSUME NEW S \in SUBSET Nat, S # {}
  PROVE  Min(S) \in S /\ \A y \in S : Min(S) <= y
<1>1. \E x \in S : \A y \in S : x <= y
  BY SmallestNumber
<1> QED  BY <1>1 DEF Min

\* Once balanced, the shards are the parts the rows were dealt to.
LEMMA BalanceRanks ==
  ASSUME BatchInv, Balance
  PROVE  RanksBalanced'
<1> DEFINE n == Len(rows)
           m == MaxTokenLen
           lens == RowTokens
           B == BalancedPartitions(lens, World, TRUE)
           f == FlattenSeq(B)
           z == ShardSize
           q(r) == Run((r - 1) * z, z)
           T == {rows'[k].tokens : k \in DOMAIN rows'}
           e == TRUE
<1> SUFFICES ASSUME balance, NEW r \in Ranks, NEW s \in Ranks
             PROVE  SumOver(RowTokens', Shard(r)') - SumOver(RowTokens', Shard(s)')
                      <= Max(T) - Min(T)
  <2>1. balance' = balance
    BY DEF Balance
  <2> QED  BY <2>1 DEF RanksBalanced
<1>1. /\ phase = "adjusted" /\ rows' = [k \in DOMAIN rows |-> rows[f[k]]]
  BY DEF Balance, Reordered
<1>2. Typed(steps, rows) /\ Complete(steps, rows) /\ Len(rows) % Divisor = 0
  BY <1>1 DEF BatchInv
<1>3. /\ n \in Nat \ {0} /\ lens \in Seq(1..m) /\ Len(lens) = n
      /\ DOMAIN lens = 1..n /\ DOMAIN rows = 1..n
      /\ \A k \in 1..n : lens[k] = rows[k].tokens /\ lens[k] \in 1..m
  <2>1. \A k \in DOMAIN rows : rows[k].tokens \in 1..m
    BY <1>2, RowFacts
  <2> QED  BY <1>2, <2>1, BatchSize, TokensOfRows
<1>4. /\ z \in Nat \ {0} /\ n = World * z
      /\ \A p \in Ranks : /\ Shard(p) = q(p) /\ (p - 1) * z \in Nat
                          /\ (p - 1) * z + z <= n
  BY <1>2, ShardIs
<1>5. World \in Nat \ {0} /\ m \in Nat /\ Ranks = 1..World
  BY Sizes DEF Ranks
<1>6. Parts(m, lens, World, e, B)
  BY <1>2, BatchParts
<1> HIDE DEF m, lens, n, z
<1>7. Pieces(n, World, B)
  BY <1>3, <1>6, PartsArePieces
<1> HIDE DEF B
<1>8. Order(n, f) /\ \E off : Flat(World, B, off, f)
  BY <1>3, <1>5, <1>7, PiecesInOrder
<1> HIDE DEF f
<1>9. PICK off : Flat(World, B, off, f)
  BY <1>8
<1>10. /\ \A p \in 1..n : f[p] \in 1..n
       /\ \A x \in 1..n : \E p \in 1..n : f[p] = x
       /\ Len(f) = n
  BY <1>8 DEF Order
<1>11. /\ B \in [1..World -> Seq(1..n)]
       /\ \A p \in 1..World : \A i, j \in DOMAIN B[p] : B[p][i] = B[p][j] => i = j
  BY <1>7 DEF Pieces
<1>12. /\ \A p, t \in 1..World : Len(B[p]) = Len(B[t])
       /\ \A p, t \in 1..World : \E x, y \in 1..n :
            Total(m, lens, ToSet(B[p])) - Total(m, lens, ToSet(B[t])) <= lens[x] - lens[y]
  BY <1>3, <1>6 DEF Parts
\* Every part is as long as a shard, and they start where the shards do.
<1>13. \A p \in 1..World : Len(B[p]) = z
  <2> DEFINE b == Len(B[1])
  <2>1. b \in Nat /\ \A p \in 1..World : Len(B[p]) = b
    BY <1>5, <1>11, <1>12
  <2> HIDE DEF b
  <2>2. \A j \in 1..(World + 1) : off[j] = (j - 1) * b
    <3>1. AllLong(World, B, b)
      BY <2>1 DEF AllLong
    <3>2. StartsAt(World, off, b)
      BY <1>5, <1>9, <2>1, <3>1, EvenOffsets
    <3> QED  BY <3>2 DEF StartsAt
  <2>3. off[World + 1] = n /\ World + 1 \in 1..(World + 1)
    BY <1>5, <1>9, <1>10 DEF Flat
  <2>5. World * b + 0 = World * z + 0
    <3> DEFINE W1 == World + 1
    <3>1. W1 \in 1..(World + 1) /\ (W1 - 1) * b = World * b
      BY <1>5, <2>1
    <3> HIDE DEF W1
    <3>3. off[W1] = World * b
      BY <2>2, <3>1
    <3>2. World * b = World * z
      BY <1>4, <2>3, <3>3 DEF W1
    <3> QED  BY <3>2
  <2>6. 0 \in 0..(World - 1) /\ b \in Int /\ z \in Int
    BY <1>4, <1>5, <2>1
  <2>7. b = z
    BY <1>5, <2>5, <2>6, Unique
  <2> QED  BY <2>1, <2>7
<1>14. \A p \in 1..World : \A i \in 1..z : (p - 1) * z + i \in 1..n /\ f[(p - 1) * z + i] = B[p][i]
  <2>1. \A j \in 1..(World + 1) : off[j] = (j - 1) * z
    <3>1. AllLong(World, B, z)
      BY <1>13 DEF AllLong
    <3>2. StartsAt(World, off, z)
      BY <1>4, <1>5, <1>9, <3>1, EvenOffsets
    <3> QED  BY <3>2 DEF StartsAt
  <2> SUFFICES ASSUME NEW p \in 1..World, NEW i \in 1..z
               PROVE  (p - 1) * z + i \in 1..n /\ f[(p - 1) * z + i] = B[p][i]
    OBVIOUS
  <2>2. off[p] = (p - 1) * z
    BY <1>5, <2>1
  <2>3. off[p] + i \in 1..n /\ f[off[p] + i] = B[p][i]
    BY <1>9, <1>10, <1>13 DEF Flat
  <2> QED  BY <2>2, <2>3
<1>15. /\ DOMAIN rows' = 1..n /\ Len(rows') = n
       /\ \A k \in 1..n : rows'[k] = rows[f[k]]
       /\ RowTokens' = [k \in 1..n |-> lens[f[k]]]
  <2>1. n \in Nat /\ rows' = [k \in 1..n |-> rows[f[k]]]
    BY <1>1, <1>3
  <2>2. DOMAIN rows' = 1..n /\ Len(rows') = n /\ \A k \in 1..n : rows'[k] = rows[f[k]]
    BY <2>1
  <2>3. RowTokens' = [k \in 1..n |-> rows'[k].tokens]
    BY <2>2 DEF RowTokens
  <2>4. \A k \in 1..n : rows'[k].tokens = lens[f[k]]
    BY <1>3, <1>10, <2>2
  <2>5. RowTokens' = [k \in 1..n |-> lens[f[k]]]
    BY <2>3, <2>4
  <2> QED  BY <2>2, <2>5
<1>16. ASSUME NEW p \in Ranks
       PROVE  SumOver(RowTokens', Shard(p)') = Total(m, lens, ToSet(B[p]))
  <2>1. Shard(p)' = Shard(p)
    BY <1>3, <1>15 DEF Shard, ShardSize, n
  <2>2. Shard(p) = q(p)
    BY <1>4
  <2> DEFINE a == (p - 1) * z
             part == B[p]
             l == RowTokens'
             w == Run(a, z)
  <2>3. a \in Nat /\ a + z <= n
    BY <1>4
  <2>4. part \in Seq(1..n) /\ Len(part) = z /\ \A i, j \in DOMAIN part : part[i] = part[j] => i = j
    BY <1>5, <1>11, <1>13
  <2>5. \A i \in 1..z : a + i \in 1..n /\ f[a + i] = part[i]
    BY <1>5, <1>14
  <2> HIDE DEF a, part, l
  <2>6. DOMAIN w = 1..Len(part) /\ \A i \in 1..z : w[i] = a + i
    <3>1. IsRun(n, a, z, w)
      BY <1>3, <1>4, <2>3, RunFacts
    <3> QED  BY <2>4, <3>1 DEF IsRun
  <2> HIDE DEF w
  <2>7. \A i \in 1..Len(part) : l[w[i]] = lens[part[i]]
    BY <1>15, <2>4, <2>5, <2>6 DEF l
  <2>8. SumOver(l, w) = Total(m, lens, ToSet(part))
    <3>1. AllDifferent(part) /\ SameLengths(lens, part, l, w)
      BY <2>4, <2>6, <2>7 DEF AllDifferent, SameLengths
    <3>2. SumIsOf(m, lens, part, l, w)
      BY <1>3, <1>5, <2>4, <3>1, TotalOfShard
    <3> QED  BY <3>2 DEF SumIsOf
  <2> QED  BY <2>1, <2>2, <2>8 DEF l, w, a, part
\* The longest and the shortest row.
<1>17. T \in SUBSET (0..m) /\ \A x \in 1..n : lens[x] \in T
  <2>1. \A k \in 1..n : rows'[k].tokens = lens[f[k]] /\ lens[f[k]] \in 0..m
    <3> SUFFICES ASSUME NEW k \in 1..n
                 PROVE  rows'[k].tokens = lens[f[k]] /\ lens[f[k]] \in 0..m
      OBVIOUS
    <3>1. f[k] \in 1..n
      BY <1>10
    <3>2. lens[f[k]] = rows[f[k]].tokens /\ lens[f[k]] \in 1..m
      BY <1>3, <3>1
    <3>3. rows'[k] = rows[f[k]]
      BY <1>15
    <3> QED  BY <3>2, <3>3
  <2>2. T = {rows'[k].tokens : k \in 1..n}
    BY <1>15
  <2> HIDE DEF T
  <2>3. T \in SUBSET (0..m)
    BY <2>1, <2>2
  <2>4. ASSUME NEW x \in 1..n PROVE lens[x] \in T
    <3>1. PICK p \in 1..n : f[p] = x
      BY <1>10
    <3> QED  BY <2>1, <2>2, <3>1
  <2> QED  BY <2>3, <2>4
<1> HIDE DEF T
<1>18. T # {}
  BY <1>3, <1>17
<1>19. /\ Max(T) \in T /\ \A y \in T : y <= Max(T)
       /\ Min(T) \in T /\ \A y \in T : Min(T) <= y
  <2>1. T \in SUBSET Nat
    BY <1>5, <1>17
  <2> QED  BY <1>5, <1>17, <1>18, <2>1, MaxIs, MinIs
<1>20. PICK x \in 1..n, y \in 1..n :
         Total(m, lens, ToSet(B[r])) - Total(m, lens, ToSet(B[s])) <= lens[x] - lens[y]
  BY <1>5, <1>12
<1>21. lens[x] <= Max(T) /\ Min(T) <= lens[y] /\ lens[x] \in Nat /\ lens[y] \in Nat
       /\ Max(T) \in Nat /\ Min(T) \in Nat
  <2>1. lens[x] \in T /\ lens[y] \in T
    BY <1>17
  <2>2. \A t \in T : t \in Nat
    BY <1>17
  <2> QED  BY <1>19, <2>1, <2>2
<1>22. Total(m, lens, ToSet(B[r])) \in Nat /\ Total(m, lens, ToSet(B[s])) \in Nat
  <2>1. \A p \in 1..World : IsFiniteSet(ToSet(B[p]))
    BY <1>6 DEF Parts
  <2> QED  BY <1>5, <2>1, TotalType
<1> DEFINE u == Total(m, lens, ToSet(B[r]))
           v == Total(m, lens, ToSet(B[s]))
<1>23. u - v <= lens[x] - lens[y] /\ u \in Nat /\ v \in Nat
  BY <1>20, <1>22
<1>24. SumOver(RowTokens', Shard(r)') = u /\ SumOver(RowTokens', Shard(s)') = v
  BY <1>16
<1> HIDE DEF u, v
<1> QED  BY <1>21, <1>23, <1>24

\* The ranks' shards differ by no more than the rows do (RanksBalanced).
THEOREM RanksStayBalanced == RankSpec => []RanksBalanced
<1>1. RankInit => RanksBalanced
  BY DEF RankInit, Init, RanksBalanced
<1>2. BatchInv /\ RanksBalanced /\ [RankNext]_<<vars, rankVars>> => RanksBalanced'
  <2> SUFFICES ASSUME BatchInv, RanksBalanced, [RankNext]_<<vars, rankVars>>
               PROVE  RanksBalanced'
    OBVIOUS
  <2>1. \/ StepReturns \/ Adjust \/ Balance \/ MilestoneGAE \/ UNCHANGED vars
    BY DEF RankNext, Driver, RankStep, Ended, DispatchLogProb, Forward, CollectLogProb,
           DispatchUpdate, NextMiniBatch, Backward, UpdateEnds
  <2>2. CASE StepReturns \/ Adjust \/ MilestoneGAE
    <3>1. phase' # "balanced"
      BY <2>2 DEF StepReturns, Adjust, MilestoneGAE
    <3> QED  BY <3>1 DEF RanksBalanced
  <2>3. CASE Balance
    BY <2>3, BalanceRanks
  <2>4. CASE UNCHANGED vars
    <3>1. phase' = phase /\ balance' = balance /\ rows' = rows
      BY <2>4 DEF vars
    <3> QED  BY <3>1 DEF RanksBalanced, RowTokens, Shard, ShardSize
  <2> QED  BY <2>1, <2>2, <2>3, <2>4
<1> QED  BY <1>1, <1>2, BatchInvariant, PTL DEF RankSpec

-----------------------------------------------------------------------------
(***************************************************************************)
(* How a rank cuts its rows into micro-batches.                            *)
(***************************************************************************)
\* n rows of length m at most are no longer than n * m.
LEMMA TotalBound ==
  ASSUME NEW m \in Nat, NEW n \in Nat, NEW w
  PROVE  Total(m, w, 1..n) <= n * m
<1> DEFINE D == 1..n
           E == 1..m
<1>1. IsFiniteSet(D) /\ IsFiniteSet(E) /\ Cardinality(D) = n /\ Cardinality(E) = m
  BY FS_Interval
<1> HIDE DEF D, E
<1>2. IsFiniteSet(D \X E) /\ Cardinality(D \X E) = n * m
  BY <1>1, FS_Product
<1>3. Units(m, w, D) \subseteq D \X E
  BY DEF Units, E
<1>4. Cardinality(Units(m, w, D)) <= n * m
  BY <1>2, <1>3, FS_Subset
<1> QED  BY <1>4 DEF Total, D

\* Lists of one length that follow one another share out the positions.
Runs(k, size) == [b \in 1..k |-> Run((b - 1) * size, size)]

\* They do.
LEMMA RunsArePieces ==
  ASSUME NEW n \in Nat, NEW k \in Nat \ {0}, NEW size \in Nat \ {0}, n = k * size
  PROVE  /\ Pieces(n, k, Runs(k, size))
         /\ \A b \in 1..k : (b - 1) * size \in Nat /\ (b - 1) * size + size <= n
<1> DEFINE a(b) == (b - 1) * size
           ss == Runs(k, size)
<1>1. ASSUME NEW b \in 1..k, NEW c \in 1..(k + 1), b < c PROVE a(b) + size <= a(c)
  <2>1. b - 1 \in Int /\ c - 1 \in Int /\ b - 1 < c - 1
    BY <1>1
  <2>2. size * (b - 1) + size <= size * (c - 1)
    BY <2>1, Mono
  <2> QED  BY <2>1, <2>2
<1>2. \A b \in 1..k : a(b) \in Nat /\ a(b) + size <= n
  <2> SUFFICES ASSUME NEW b \in 1..k PROVE a(b) \in Nat /\ a(b) + size <= n
    OBVIOUS
  <2>1. k + 1 \in 1..(k + 1) /\ b < k + 1
    OBVIOUS
  <2>2. a(b) + size <= a(k + 1)
    BY <1>1, <2>1
  <2>3. a(k + 1) = n
    OBVIOUS
  <2>4. a(b) \in Nat
    OBVIOUS
  <2> QED  BY <2>2, <2>3, <2>4
<1>3. \A b \in 1..k : ss[b] = Run(a(b), size)
  BY DEF Runs
<1>4. ss = [b \in 1..k |-> ss[b]]
  BY DEF Runs
<1>5. \A x \in 1..n : \E b \in 1..k : x \in (a(b) + 1)..(a(b) + size)
  <2> SUFFICES ASSUME NEW x \in 1..n PROVE \E b \in 1..k : x \in (a(b) + 1)..(a(b) + size)
    OBVIOUS
  <2> DEFINE q == (x - 1) \div size
             r == (x - 1) % size
  <2>1. x - 1 \in Int /\ q \in Int /\ r \in 0..(size - 1) /\ x - 1 = size * q + r
    BY DivMod
  <2> HIDE DEF q, r
  <2>2. q >= 0
    <3> SUFFICES ASSUME q < 0 PROVE FALSE
      BY <2>1
    <3>1. size * q + size <= size * 0
      BY <2>1, Mono
    <3> QED  BY <2>1, <3>1
  <2>3. q < k
    <3> SUFFICES ASSUME k <= q PROVE FALSE
      BY <2>1
    <3>1. size * k <= size * q
      BY <2>1
    <3> QED  BY <2>1, <3>1
  <2>4. q + 1 \in 1..k /\ a(q + 1) = size * q
    BY <2>1, <2>2, <2>3
  <2>5. x \in (a(q + 1) + 1)..(a(q + 1) + size)
    <3>1. size * q \in Nat
      BY <2>1, <2>2
    <3> QED  BY <2>1, <2>4, <3>1
  <2> QED  BY <2>4, <2>5
<1> HIDE DEF a, ss
<1>6. \A b \in 1..k : IsRun(n, a(b), size, ss[b])
  <2> SUFFICES ASSUME NEW b \in 1..k PROVE IsRun(n, a(b), size, ss[b])
    OBVIOUS
  <2> DEFINE c == a(b)
  <2>1. c \in Nat /\ c + size <= n /\ ss[b] = Run(c, size)
    BY <1>2, <1>3
  <2> HIDE DEF c
  <2>2. IsRun(n, c, size, Run(c, size))
    BY <2>1, RunFacts
  <2> QED  BY <2>1, <2>2 DEF c
<1>7. ss \in [1..k -> Seq(1..n)]
  <2>1. \A b \in 1..k : ss[b] \in Seq(1..n)
    BY <1>6 DEF IsRun
  <2> QED  BY <1>4, <2>1
<1>8. \A b \in 1..k : \A i, j \in DOMAIN ss[b] : ss[b][i] = ss[b][j] => i = j
  <2> SUFFICES ASSUME NEW b \in 1..k, NEW i \in DOMAIN ss[b], NEW j \in DOMAIN ss[b],
                      ss[b][i] = ss[b][j]
               PROVE  i = j
    OBVIOUS
  <2>1. i \in 1..size /\ j \in 1..size /\ a(b) + i = a(b) + j
    BY <1>6 DEF IsRun
  <2> QED  BY <1>2, <2>1
<1>9. \A b, c \in 1..k : b # c => ToSet(ss[b]) \cap ToSet(ss[c]) = {}
  <2> SUFFICES ASSUME NEW b \in 1..k, NEW c \in 1..k, b # c,
                      NEW x, x \in ToSet(ss[b]), x \in ToSet(ss[c])
               PROVE  FALSE
    OBVIOUS
  <2>1. x \in (a(b) + 1)..(a(b) + size) /\ x \in (a(c) + 1)..(a(c) + size)
    BY <1>6 DEF IsRun
  <2>2. a(b) \in Nat /\ a(c) \in Nat
    BY <1>2
  <2>3. CASE b < c
    <3>1. a(b) + size <= a(c)
      BY <1>1, <2>3
    <3> QED  BY <2>1, <2>2, <3>1
  <2>4. CASE c < b
    <3>1. a(c) + size <= a(b)
      BY <1>1, <2>4
    <3> QED  BY <2>1, <2>2, <3>1
  <2> QED  BY <2>3, <2>4
<1>10. \A x \in 1..n : \E b \in 1..k : x \in ToSet(ss[b])
  BY <1>5, <1>6 DEF IsRun
<1>11. Pieces(n, k, ss)
  BY <1>7, <1>8, <1>9, <1>10 DEF Pieces
<1> QED  BY <1>2, <1>11 DEF a, ss

\* End to end they are the positions in order.
LEMMA FlatRuns ==
  ASSUME NEW n \in Nat, NEW k \in Nat \ {0}, NEW size \in Nat \ {0}, n = k * size
  PROVE  FlattenSeq(Runs(k, size)) = Run(0, n)
<1> DEFINE ss == Runs(k, size)
           f == FlattenSeq(ss)
<1>1. /\ Pieces(n, k, ss)
      /\ \A b \in 1..k : (b - 1) * size \in Nat /\ (b - 1) * size + size <= n
  BY RunsArePieces
<1>2. \A b \in 1..k : ss[b] = Run((b - 1) * size, size)
  BY DEF Runs
<1> HIDE DEF ss
<1>3. Order(n, f) /\ \E off : Flat(k, ss, off, f)
  BY <1>1, PiecesInOrder
<1> HIDE DEF f
<1>4. PICK off : Flat(k, ss, off, f)
  BY <1>3
<1>5. ASSUME NEW b \in 1..k
      PROVE  Len(ss[b]) = size /\ \A i \in 1..size : ss[b][i] = (b - 1) * size + i
  <2> DEFINE a == (b - 1) * size
  <2>1. a \in Nat /\ a + size <= n /\ ss[b] = Run(a, size)
    BY <1>1, <1>2
  <2> HIDE DEF a
  <2>2. IsRun(n, a, size, Run(a, size))
    BY <2>1, RunFacts
  <2> QED  BY <2>1, <2>2 DEF IsRun, a
<1>6. \A b \in 1..(k + 1) : off[b] = (b - 1) * size
  <2>1. AllLong(k, ss, size)
    BY <1>5 DEF AllLong
  <2>2. StartsAt(k, off, size)
    BY <1>4, <2>1, EvenOffsets
  <2> QED  BY <2>2 DEF StartsAt
<1>7. ASSUME NEW p \in 1..n PROVE f[p] = p
  <2>1. Len(f) = n
    BY <1>3 DEF Order
  <2>2. PICK b \in 1..k : \E t \in 1..Len(ss[b]) : p = off[b] + t
    BY <1>4, <2>1 DEF Flat
  <2>3. PICK t \in 1..size : p = off[b] + t
    BY <1>5, <2>2
  <2>4. f[off[b] + t] = ss[b][t]
    BY <1>4, <1>5 DEF Flat
  <2>5. ss[b][t] = (b - 1) * size + t /\ off[b] = (b - 1) * size
    BY <1>5, <1>6
  <2> QED  BY <2>3, <2>4, <2>5
<1>8. f = [p \in 1..n |-> f[p]]
  BY <1>3 DEF Order
<1>9. f = [p \in 1..n |-> 0 + p]
  BY <1>7, <1>8
<1> QED  BY <1>9 DEF Run, f, ss

\* split() of a multiple of the size makes parts of that size.
LEMMA SplitIs ==
  ASSUME NEW n \in Nat \ {0}, NEW size \in Nat \ {0}, n % size = 0
  PROVE  \E k \in 1..n : n = k * size /\ Split(n, size) = Runs(k, size)
<1> DEFINE k == n \div size
<1>1. k \in Int /\ n = size * k
  BY DivMod
<1>2. (n + size - 1) \div size = k
  <2>1. size - 1 \in 0..(size - 1)
    OBVIOUS
  <2> DEFINE j == size - 1
  <2>2. n + size - 1 = size * k + j /\ j \in 0..(size - 1)
    BY <1>1
  <2> HIDE DEF k, j
  <2>3. (size * k + j) \div size = k
    BY <1>1, <2>2, DivModOf
  <2> QED  BY <2>2, <2>3
<1> HIDE DEF k
<1>3. k > 0
  <2> SUFFICES ASSUME k <= 0 PROVE FALSE
    BY <1>1
  <2>1. size * k <= 0
    BY <1>1
  <2> QED  BY <1>1, <2>1
<1>4. k <= n /\ n = k * size
  <2>1. n = k * size
    BY <1>1
  <2>2. k * (size - 1) >= 0
    BY <1>1, <1>3
  <2>3. k * (size - 1) = k * size - k
    BY <1>1
  <2> QED  BY <1>1, <2>1, <2>2, <2>3
<1>5. ASSUME NEW b \in 1..k
      PROVE  [i \in 1..Min({size, n - (b - 1) * size}) |-> (b - 1) * size + i]
               = Run((b - 1) * size, size)
  <2>1. k \in Nat \ {0} /\ n \in Nat
    BY <1>1, <1>3
  <2> DEFINE a == (b - 1) * size
  <2>2. a \in Nat /\ a + size <= n
    BY <1>4, <2>1, RunsArePieces
  <2> HIDE DEF a
  <2>3. Min({size, n - a}) = size
    <3>1. \E x \in {size, n - a} : \A y \in {size, n - a} : x <= y
      BY <2>2
    <3>2. Min({size, n - a}) \in {size, n - a} /\ \A y \in {size, n - a} : Min({size, n - a}) <= y
      BY <3>1 DEF Min
    <3> QED  BY <2>2, <3>2
  <2> QED  BY <2>3 DEF Run, a
<1>6. Split(n, size) = Runs(k, size)
  BY <1>2, <1>5 DEF Split, Runs
<1>7. k \in 1..n
  BY <1>1, <1>3, <1>4
<1> QED  BY <1>4, <1>6, <1>7

\* The budget: with K micro-batches no fewer than a rank needs, its rows are
\* no longer than K times the token limit.
Needs(m, n, lens) ==
  /\ NumMicroBatches(lens, m) \in 1..n
  /\ \A K \in 1..n : NumMicroBatches(lens, m) <= K => Total(m, lens, 1..n) <= K * m

\* get_num_micro_batches: ceildiv of the tokens of a rank by the limit.
LEMMA NumberNeeded ==
  ASSUME NEW m \in Nat \ {0}, NEW n \in Nat \ {0}, NEW lens \in Seq(1..m), Len(lens) = n
  PROVE  Needs(m, n, lens)
<1> DEFINE id == [i \in DOMAIN lens |-> i]
           total == SumOver(lens, id)
           q == (total + m - 1) \div m
           num == NumMicroBatches(lens, m)
<1>1. /\ DOMAIN lens = 1..n /\ lens \in [1..n -> 0..m] /\ m \in Nat /\ n \in Nat
      /\ lens[1] \in 1..m /\ 1 \in 1..n
  OBVIOUS
<1>2. total = Total(m, lens, 1..n)
  <2>1. Weighs(n, lens, lens, id)
    BY <1>1 DEF Weighs
  <2> HIDE DEF id
  <2>2. SumIs(m, n, lens, lens, id)
    BY <1>1, <2>1, SumIsTotal
  <2> QED  BY <2>2 DEF SumIs
<1>3. num = Min({n, q})
  BY DEF NumMicroBatches
<1> HIDE DEF total, num
<1>4. total \in Nat /\ total >= 1 /\ total <= n * m
  <2> DEFINE D == 1..n
  <2>1. IsFiniteSet(D) /\ 1 \in D /\ lens[1] \in 0..m
    BY <1>1, FS_Interval
  <2>2. total = Total(m, lens, D)
    BY <1>2
  <2>3. Total(m, lens, D) <= n * m
    BY <1>1, TotalBound
  <2> HIDE DEF D
  <2>4. lens[1] <= Total(m, lens, D) /\ Total(m, lens, D) \in Nat
    BY <1>1, <2>1, TotalMember, TotalType
  <2> QED  BY <1>1, <2>2, <2>3, <2>4
<1> DEFINE r == (total + m - 1) % m
<1>5. q \in Int /\ r \in 0..(m - 1) /\ total + m - 1 = m * q + r
  <2> DEFINE x == total + m - 1
  <2>1. x \in Int
    BY <1>1, <1>4
  <2> HIDE DEF x
  <2>2. x \div m \in Int /\ x % m \in 0..(m - 1) /\ x = m * (x \div m) + (x % m)
    BY <2>1, DivMod
  <2> QED  BY <2>2 DEF x
<1> HIDE DEF q, r
<1>6. total <= m * q /\ m * q \in Int
  BY <1>1, <1>4, <1>5
<1>7. q >= 1
  <2> SUFFICES ASSUME q <= 0 PROVE FALSE
    BY <1>5
  <2>1. m * q <= 0
    BY <1>1, <1>5
  <2> QED  BY <1>4, <1>6, <2>1
<1>8. num \in {n, q} /\ num <= n /\ num <= q
  <2>1. \E x \in {n, q} : \A y \in {n, q} : x <= y
    BY <1>1, <1>5
  <2> QED  BY <1>3, <2>1 DEF Min
<1>9. num \in 1..n
  BY <1>1, <1>5, <1>7, <1>8
<1>10. ASSUME NEW K \in 1..n, num <= K PROVE total <= K * m
  <2>1. CASE num = n
    <3>1. K = n
      BY <1>1, <1>10, <2>1
    <3> QED  BY <1>4, <3>1
  <2>2. CASE num = q
    <3>1. q <= K /\ K \in Nat
      BY <1>10, <2>2
    <3>2. m * q <= m * K
      BY <1>1, <1>5, <3>1
    <3>3. m * K = K * m /\ m * K \in Int
      BY <1>1, <3>1
    <3> QED  BY <1>4, <1>6, <3>2, <3>3
  <2> QED  BY <1>8, <2>1, <2>2
<1> QED  BY <1>2, <1>9, <1>10 DEF Needs, num

\* Level parts of rows within the budget exceed it by less than a row.
NearBudget(m, lens, part) == \E x \in ToSet(part) : Total(m, lens, ToSet(part)) < m + lens[x]

\* The average part is within the budget; the longest exceeds the shortest by
\* no more than one of its rows.
LEMMA PartsNearBudget ==
  ASSUME NEW m \in Nat \ {0}, NEW n \in Nat \ {0}, NEW lens \in Seq(1..m), Len(lens) = n,
         NEW K \in 1..n, NEW B, Parts(m, lens, K, FALSE, B), Total(m, lens, 1..n) <= K * m,
         NEW b \in 1..K
  PROVE  NearBudget(m, lens, B[b])
<1> DEFINE P == [j \in 1..K |-> ToSet(B[j])]
           L(j) == Total(m, lens, P[j])
<1>1. /\ DOMAIN lens = 1..n /\ \A x \in 1..n : lens[x] \in 1..m
      /\ \A j \in 1..K : B[j] \in Seq(1..n) /\ B[j] # << >> /\ IsFiniteSet(P[j])
      /\ \A i, j \in 1..K : i # j => P[i] \cap P[j] = {}
      /\ \A x \in 1..n : \E j \in 1..K : x \in P[j]
      /\ \A i, j \in 1..K : \E x \in P[i] : L(i) - L(j) <= lens[x]
  <2>1. DOMAIN lens = 1..n /\ \A x \in 1..n : lens[x] \in 1..m
    OBVIOUS
  <2>2. \A j \in 1..K : P[j] = ToSet(B[j])
    OBVIOUS
  <2> HIDE DEF P
  <2>3. \A j \in 1..K : B[j] \in Seq(1..n) /\ B[j] # << >> /\ IsFiniteSet(P[j])
    <3> DEFINE D == DOMAIN lens
               Lists == Seq(D)
    <3>1. B \in [1..K -> Lists] /\ \A r \in 1..K : B[r] # << >> /\ IsFiniteSet(ToSet(B[r]))
      BY DEF Parts
    <3>2. Lists = Seq(1..n)
      BY <2>1
    <3> HIDE DEF Lists
    <3> QED  BY <2>2, <3>1, <3>2
  <2>4. \A i, j \in 1..K : i # j => P[i] \cap P[j] = {}
    BY <2>2 DEF Parts
  <2>5. \A x \in 1..n : \E j \in 1..K : x \in P[j]
    <3>1. \A x \in DOMAIN lens : \E r \in 1..K : x \in ToSet(B[r])
      BY DEF Parts
    <3> SUFFICES ASSUME NEW x \in 1..n PROVE \E j \in 1..K : x \in P[j]
      OBVIOUS
    <3>2. x \in DOMAIN lens
      BY <2>1
    <3>3. PICK j \in 1..K : x \in ToSet(B[j])
      BY <3>1, <3>2
    <3> QED  BY <2>2, <3>3
  <2>6. \A i, j \in 1..K : \E x \in P[i] : L(i) - L(j) <= lens[x]
    <3>1. \A r, q \in 1..K : \E x \in ToSet(B[r]) :
            Total(m, lens, ToSet(B[r])) - Total(m, lens, ToSet(B[q])) <= lens[x]
      BY DEF Parts
    <3> QED  BY <2>2, <3>1
  <2> QED  BY <2>1, <2>3, <2>4, <2>5, <2>6
<1>2. \A j \in 1..K : P[j] \subseteq 1..n /\ P[j] = ToSet(B[j])
  <2> SUFFICES ASSUME NEW j \in 1..K PROVE P[j] \subseteq 1..n
    OBVIOUS
  <2>1. B[j] \in Seq(1..n)
    BY <1>1
  <2>2. ToSet(B[j]) \subseteq 1..n
    BY <2>1 DEF ToSet
  <2> QED  BY <2>2
<1> HIDE DEF P
<1>3. \A j \in 1..K : L(j) \in Nat
  BY <1>1, TotalType
<1> SUFFICES ASSUME \A x \in P[b] : ~(L(b) < m + lens[x]) PROVE FALSE
  BY <1>2 DEF NearBudget
<1>4. \A x \in P[b] : lens[x] \in 1..m
  BY <1>1, <1>2
<1> HIDE DEF L
<1>5. \A j \in 1..K : m <= L(j)
  <2> SUFFICES ASSUME NEW j \in 1..K PROVE m <= L(j)
    OBVIOUS
  <2>1. PICK x \in P[b] : L(b) - L(j) <= lens[x]
    BY <1>1
  <2>2. L(b) >= m + lens[x] /\ lens[x] \in Nat /\ L(b) \in Nat /\ L(j) \in Nat
    BY <1>3, <1>4
  <2> QED  BY <2>1, <2>2
<1>6. m + 1 <= L(b)
  <2>1. PICK x \in P[b] : L(b) - L(b) <= lens[x]
    BY <1>1
  <2>2. L(b) >= m + lens[x] /\ lens[x] \in 1..m /\ L(b) \in Nat
    BY <1>3, <1>4
  <2> QED  BY <2>2
<1>7. UNION {P[j] : j \in 1..K} = 1..n
  <2>1. ASSUME NEW x \in UNION {P[j] : j \in 1..K} PROVE x \in 1..n
    BY <1>2
  <2>2. ASSUME NEW x \in 1..n PROVE x \in UNION {P[j] : j \in 1..K}
    <3>1. PICK j \in 1..K : x \in P[j]
      BY <1>1
    <3>2. P[j] \in {P[i] : i \in 1..K}
      OBVIOUS
    <3> QED  BY <3>1, <3>2
  <2> QED  BY <2>1, <2>2
<1>8. K * m - m + Total(m, lens, P[b]) <= Total(m, lens, UNION {P[j] : j \in 1..K})
  <2>1. K \in Nat /\ m \in Nat
    OBVIOUS
  <2>2. LongParts(m, lens, K, m, P)
    BY <1>1, <1>5 DEF L, LongParts
  <2>3. LongTogether(m, lens, K, m, P, b)
    BY <2>1, <2>2, TotalOfParts
  <2> QED  BY <2>3 DEF LongTogether
<1>9. K * m - m + L(b) <= K * m
  <2>1. Total(m, lens, 1..n) \in Nat
    <3>1. IsFiniteSet(1..n)
      BY FS_Interval
    <3> QED  BY <3>1, TotalType
  <2> DEFINE v == K * m
             D == 1..n
  <2>2. v \in Nat /\ Total(m, lens, D) <= v /\ Total(m, lens, D) \in Nat
    BY <2>1
  <2>3. v - m + L(b) <= Total(m, lens, D)
    BY <1>7, <1>8 DEF L
  <2>4. m \in Nat /\ L(b) \in Nat
    BY <1>3
  <2> HIDE DEF v, D
  <2>5. v - m + L(b) <= v
    BY <2>2, <2>3, <2>4
  <2> QED  BY <2>5 DEF v
<1>10. L(b) \in Nat /\ K * m \in Nat
  BY <1>3
<1> DEFINE v == K * m
<1>11. v - m + L(b) <= v /\ v \in Nat
  BY <1>9, <1>10
<1> HIDE DEF v
<1> QED  BY <1>6, <1>10, <1>11

\* The lengths of a part of the rows.
LEMMA TokensIs ==
  ASSUME Typed(steps, rows), NEW part \in Seq(DOMAIN rows)
  PROVE  /\ Tokens(part) \in Seq(1..MaxTokenLen) /\ Len(Tokens(part)) = Len(part)
         /\ DOMAIN Tokens(part) = 1..Len(part)
         /\ \A i \in 1..Len(part) : Tokens(part)[i] = rows[part[i]].tokens
<1>1. DOMAIN part = 1..Len(part) /\ Len(part) \in Nat /\ \A i \in 1..Len(part) : part[i] \in DOMAIN rows
  OBVIOUS
<1>2. \A i \in 1..Len(part) : rows[part[i]].tokens \in 1..MaxTokenLen
  BY <1>1, RowFacts
<1>3. Tokens(part) = [i \in 1..Len(part) |-> rows[part[i]].tokens]
  BY <1>1 DEF Tokens
<1> QED  BY <1>1, <1>2, <1>3

\* What a good cut of n rows into K micro-batches is.
CutWell(n, K, size, d, lens, cut) ==
  /\ Pieces(n, K, cut) /\ cut \in [1..K -> Seq(1..n)] /\ Len(cut) = K
  /\ \A b \in 1..K : cut[b] # << >>
  /\ d => \A b \in 1..K : NearBudget(MaxTokenLen, lens, cut[b])
  /\ ~d => cut = Runs(K, size) /\ n = K * size

GivenRows(n, parts) == \A r \in Ranks : parts[r] \in Seq(DOMAIN rows) /\ Len(parts[r]) = n

CutsWell(n, size, parts) ==
  \E K \in 1..n : \A r \in Ranks :
    CutWell(n, K, size, dynamic, Tokens(parts[r]), MicroBatches(parts, r, size))

\* All ranks make the same number of micro-batches, enough for each.
LEMMA AgreedIs ==
  ASSUME Typed(steps, rows), NEW n \in Nat \ {0}, NEW parts, GivenRows(n, parts)
  PROVE  \E K \in 1..n : \A r \in Ranks :
           /\ AgreedMicroBatches(parts, r) = K
           /\ NumMicroBatches(Tokens(parts[r]), MaxTokenLen) <= K
<1> DEFINE num(r) == NumMicroBatches(Tokens(parts[r]), MaxTokenLen)
           S == {num(r) : r \in Ranks}
           K == Max(S)
<1>1. \A r \in Ranks : num(r) \in 1..n
  <2> SUFFICES ASSUME NEW r \in Ranks PROVE num(r) \in 1..n
    OBVIOUS
  <2> DEFINE lens == Tokens(parts[r])
  <2>1. parts[r] \in Seq(DOMAIN rows) /\ Len(parts[r]) = n
    BY DEF GivenRows
  <2>2. lens \in Seq(1..MaxTokenLen) /\ Len(lens) = n
    BY <2>1, TokensIs
  <2> HIDE DEF lens
  <2>3. Needs(MaxTokenLen, n, lens)
    BY <2>2, Sizes, NumberNeeded
  <2> QED  BY <2>3 DEF Needs, lens
<1>2. \A r : AgreedMicroBatches(parts, r) = K
  BY DEF AgreedMicroBatches
<1>3. 1 \in Ranks
  BY Sizes DEF Ranks
<1> HIDE DEF num
<1>4. S \in SUBSET (0..n) /\ S # {} /\ \A r \in Ranks : num(r) \in S
  BY <1>1, <1>3
<1>5. S \in SUBSET (1..n)
  BY <1>1
<1> HIDE DEF S
<1>6. Max(S) \in S /\ \A y \in S : y <= Max(S)
  BY <1>4, MaxIs
<1>7. K \in 1..n /\ \A r \in Ranks : num(r) <= K
  BY <1>4, <1>5, <1>6
<1> QED  BY <1>2, <1>7 DEF num

\* Whatever the lengths of their n rows, the ranks cut them well.
LEMMA CutOf ==
  ASSUME Typed(steps, rows), dynamic \in BOOLEAN, NEW n \in Nat \ {0},
         NEW size \in Nat \ {0}, n % size = 0, NEW parts, GivenRows(n, parts)
  PROVE  CutsWell(n, size, parts)
<1>1. CASE dynamic
  <2>1. PICK K \in 1..n : \A r \in Ranks :
           /\ AgreedMicroBatches(parts, r) = K
           /\ NumMicroBatches(Tokens(parts[r]), MaxTokenLen) <= K
    BY AgreedIs
  <2>2. ASSUME NEW r \in Ranks
        PROVE  CutWell(n, K, size, dynamic, Tokens(parts[r]), MicroBatches(parts, r, size))
    <3> DEFINE lens == Tokens(parts[r])
               B == BalancedPartitions(lens, K, FALSE)
               e == FALSE
    <3>1. MicroBatches(parts, r, size) = B
      BY <1>1, <2>1 DEF MicroBatches
    <3>2. parts[r] \in Seq(DOMAIN rows) /\ Len(parts[r]) = n
      BY DEF GivenRows
    <3>3. lens \in Seq(1..MaxTokenLen) /\ Len(lens) = n /\ DOMAIN lens = 1..n
      BY <3>2, TokensIs
    <3>4. NumMicroBatches(lens, MaxTokenLen) <= K
      BY <2>1
    <3>5. /\ MaxTokenLen \in Nat \ {0} /\ MaxTokenLen \in Nat /\ K \in Nat \ {0}
          /\ K <= Len(lens) /\ e \in BOOLEAN /\ (e => Len(lens) % K = 0)
      BY <3>3, Sizes
    <3> HIDE DEF lens, e
    <3>6. Parts(MaxTokenLen, lens, K, e, BalancedPartitions(lens, K, e))
      BY <3>3, <3>5, Partitions
    <3>7. Parts(MaxTokenLen, lens, K, FALSE, B)
      BY <3>6 DEF e
    <3> HIDE DEF B
    <3>8. Pieces(n, K, B)
      BY <3>3, <3>7, PartsArePieces
    <3>9. Needs(MaxTokenLen, n, lens)
      BY <3>3, <3>5, NumberNeeded
    <3>10. Total(MaxTokenLen, lens, 1..n) <= K * MaxTokenLen
      BY <3>4, <3>9 DEF Needs
    <3>11. \A b \in 1..K : NearBudget(MaxTokenLen, lens, B[b])
      BY <3>3, <3>5, <3>7, <3>10, PartsNearBudget
    <3>12. /\ B \in [1..K -> Seq(1..n)] /\ \A b \in 1..K : B[b] # << >>
      BY <3>7, <3>8 DEF Pieces, Parts
    <3>13. Len(B) = K
      BY <3>5, <3>12
    <3>14. CutWell(n, K, size, dynamic, lens, B)
      BY <1>1, <3>8, <3>11, <3>12, <3>13 DEF CutWell
    <3> QED  BY <3>1, <3>14 DEF lens
  <2> QED  BY <2>2 DEF CutsWell
<1>2. CASE ~dynamic
  <2>1. PICK K \in 1..n : n = K * size /\ Split(n, size) = Runs(K, size)
    BY SplitIs
  <2>2. Pieces(n, K, Runs(K, size))
    BY <2>1, RunsArePieces
  <2>3. /\ Runs(K, size) \in [1..K -> Seq(1..n)] /\ Len(Runs(K, size)) = K
        /\ \A b \in 1..K : Runs(K, size)[b] # << >>
    <3>1. Runs(K, size) \in [1..K -> Seq(1..n)]
      BY <2>2 DEF Pieces
    <3>2. Len(Runs(K, size)) = K
      BY <3>1
    <3>3. ASSUME NEW b \in 1..K PROVE Runs(K, size)[b] # << >>
      <4>1. Runs(K, size)[b] = [i \in 1..size |-> (b - 1) * size + i]
        BY DEF Runs, Run
      <4>2. 1 \in DOMAIN Runs(K, size)[b]
        BY <4>1
      <4> QED  BY <4>2
    <3> QED  BY <3>1, <3>2, <3>3
  <2>4. ASSUME NEW r \in Ranks
        PROVE  CutWell(n, K, size, dynamic, Tokens(parts[r]), MicroBatches(parts, r, size))
    <3>1. MicroBatches(parts, r, size) = Runs(K, size)
      BY <1>2, <2>1 DEF MicroBatches, GivenRows
    <3> QED  BY <1>2, <2>1, <2>2, <2>3, <3>1 DEF CutWell
  <2> QED  BY <2>4 DEF CutsWell
<1> QED  BY <1>1, <1>2

\* Micro-batches still to do: the first of them, and the others.
RemainingIs(K, X, part, cut, d) ==
  LET M == Remaining(part, cut, d)
  IN /\ M \in Seq(Seq(X)) /\ Len(M) = K - d
     /\ \A b \in 1..(K - d) :
          /\ Len(M[b]) = Len(cut[d + b])
          /\ \A i \in 1..Len(cut[d + b]) : M[b][i] = part[cut[d + b][i]]
     /\ d < K => Tail(M) = Remaining(part, cut, d + 1)

\* The micro-batches left out are the first.
LEMMA RemainingFacts ==
  ASSUME NEW n \in Nat, NEW K \in Nat, NEW X, NEW part \in Seq(X), Len(part) = n,
         NEW cut \in [1..K -> Seq(1..n)], Len(cut) = K, NEW d \in 0..K
  PROVE  RemainingIs(K, X, part, cut, d)
<1> DEFINE g(c) == [i \in DOMAIN cut[c] |-> part[cut[c][i]]]
           M == Remaining(part, cut, d)
<1>1. ASSUME NEW c \in 1..K
      PROVE  g(c) \in Seq(X) /\ Len(g(c)) = Len(cut[c])
             /\ \A i \in 1..Len(cut[c]) : g(c)[i] = part[cut[c][i]]
  <2>1. cut[c] \in Seq(1..n)
    OBVIOUS
  <2>2. Len(cut[c]) \in Nat /\ DOMAIN cut[c] = 1..Len(cut[c])
        /\ \A i \in 1..Len(cut[c]) : cut[c][i] \in 1..n
    BY <2>1
  <2>3. \A i \in 1..Len(cut[c]) : part[cut[c][i]] \in X
    BY <2>2
  <2>4. g(c) = [i \in 1..Len(cut[c]) |-> part[cut[c][i]]]
    BY <2>2
  <2> QED  BY <2>2, <2>3, <2>4
<1>2. M = [b \in 1..(K - d) |-> g(d + b)]
  BY DEF Remaining
<1>3. d < K => Remaining(part, cut, d + 1) = [b \in 1..(K - (d + 1)) |-> g((d + 1) + b)]
  BY DEF Remaining
<1> HIDE DEF g, M
<1>4. \A b \in 1..(K - d) : d + b \in 1..K
  OBVIOUS
<1>5. M \in Seq(Seq(X)) /\ Len(M) = K - d
  <2>1. \A b \in 1..(K - d) : g(d + b) \in Seq(X)
    BY <1>1, <1>4
  <2>2. K - d \in Nat
    OBVIOUS
  <2> QED  BY <1>2, <2>1, <2>2
<1>6. \A b \in 1..(K - d) : /\ Len(M[b]) = Len(cut[d + b])
                            /\ \A i \in 1..Len(cut[d + b]) : M[b][i] = part[cut[d + b][i]]
  BY <1>1, <1>2, <1>4
<1>7. ASSUME d < K PROVE Tail(M) = Remaining(part, cut, d + 1)
  <2>1. Tail(M) = [b \in 1..(Len(M) - 1) |-> M[b + 1]]
    <3>1. M \in Seq(Seq(X)) /\ M # << >> /\ Len(M) \in Nat
      BY <1>5, <1>7
    <3> DEFINE T == Tail(M)
    <3>2. /\ T \in Seq(Seq(X)) /\ Len(T) = Len(M) - 1
          /\ \A b \in 1..Len(T) : T[b] = M[b + 1]
      BY <3>1, HeadTailProperties
    <3> HIDE DEF T
    <3>3. T = [b \in 1..Len(T) |-> T[b]]
      BY <3>2
    <3> QED  BY <3>2, <3>3 DEF T
  <2>2. Len(M) - 1 = K - (d + 1)
    BY <1>5
  <2>3. \A b \in 1..(K - (d + 1)) : M[b + 1] = g((d + 1) + b)
    <3> SUFFICES ASSUME NEW b \in 1..(K - (d + 1)) PROVE M[b + 1] = g((d + 1) + b)
      OBVIOUS
    <3>1. b + 1 \in 1..(K - d) /\ d + (b + 1) = (d + 1) + b
      OBVIOUS
    <3> QED  BY <1>2, <3>1
  <2> QED  BY <1>3, <1>7, <2>1, <2>2, <2>3
<1> QED  BY <1>5, <1>6, <1>7 DEF M, RemainingIs

\* A shard, and every mini-batch of it, is a number of full micro-batches.
LEMMA ShardDivides ==
  ASSUME Typed(steps, rows), Complete(steps, rows), Len(rows) % Divisor = 0,
         NEW M \in Nat \ {0}, Divisor % (M * World) = 0
  PROVE  ShardSize % M = 0
<1> DEFINE n == Len(rows)
           s == ShardSize
           c == M * World
<1>1. n \in Nat \ {0} /\ s \in Nat \ {0} /\ n = World * s
  BY BatchSize, ShardIs
<1>2. World \in Nat \ {0} /\ Divisor \in Nat \ {0}
  BY Sizes
<1>3. c \in Nat \ {0}
  BY <1>2
<1>4. Divisor % c = 0 /\ n % Divisor = 0
  OBVIOUS
<1> HIDE DEF n, s, c
<1>5. n % c = 0
  BY <1>1, <1>2, <1>3, <1>4, Divides
<1> DEFINE q == n \div c
<1>6. q \in Int /\ n = c * q + 0
  <2>1. n \in Int
    BY <1>1
  <2>2. n \div c \in Int /\ n = c * (n \div c) + (n % c)
    BY <1>3, <2>1, DivMod
  <2> QED  BY <1>5, <2>2
<1> HIDE DEF q
<1>7. World * s + 0 = World * (M * q) + 0
  BY <1>1, <1>2, <1>6 DEF c
<1> DEFINE t == M * q
<1>8. t \in Int /\ 0 \in 0..(World - 1) /\ s \in Int /\ 0 \in 0..(M - 1)
  BY <1>1, <1>2, <1>6
<1>9. s = t
  <2>1. World * s + 0 = World * t + 0
    BY <1>7
  <2> HIDE DEF t
  <2> QED  BY <1>2, <1>8, <2>1, Unique
<1>10. s = M * q + 0
  BY <1>6, <1>9
<1>11. (M * q + 0) % M = 0
  BY <1>6, <1>8, DivModOf
<1> QED  BY <1>10, <1>11 DEF s

\* The b-th mini-batch of a rank: where it starts and how long it is.
MiniStart(b) == (b - 1) * MiniBatch
MiniLen(b)   == Min({b * MiniBatch, ShardSize}) - MiniStart(b)

MiniFits(b) ==
  /\ MiniStart(b) \in Nat /\ MiniLen(b) \in Nat \ {0}
  /\ MiniStart(b) + MiniLen(b) <= ShardSize
  /\ MiniStart(b) + MiniLen(b) <= b * MiniBatch
  /\ \/ MiniStart(b) + MiniLen(b) = b * MiniBatch
     \/ MiniStart(b) + MiniLen(b) = ShardSize
  /\ MiniLen(b) % MicroBatch = 0
  /\ \A r \in Ranks : MiniRows(r, b) = Run((r - 1) * ShardSize + MiniStart(b), MiniLen(b))

\* The mini-batches reach the end of the shard, and the last one is needed.
LEMMA MiniCount ==
  ASSUME Typed(steps, rows), Complete(steps, rows), Len(rows) % Divisor = 0
  PROVE  /\ NumMiniBatches \in Nat /\ ShardSize <= NumMiniBatches * MiniBatch
         /\ \A b \in 1..NumMiniBatches : MiniStart(b) < ShardSize
<1> DEFINE s == ShardSize
           m == MiniBatch
           x == s + m - 1
           q == x \div m
           r == x % m
<1>1. s \in Nat \ {0} /\ m \in Nat \ {0}
  BY ShardIs, Sizes
<1> HIDE DEF s, m
<1>2. x \in Int
  BY <1>1
<1>3. q \in Int /\ r \in 0..(m - 1) /\ x = m * q + r
  <2> HIDE DEF x
  <2> QED  BY <1>1, <1>2, DivMod
<1>4. Len(Split(s, m)) = q /\ q \in Nat
  <2>1. q \in Nat
    <3> HIDE DEF q, r
    <3> SUFFICES ASSUME q < 0 PROVE FALSE
      BY <1>3
    <3>1. m * q + m <= m * 0
      BY <1>1, <1>3, Mono
    <3> QED  BY <1>1, <1>3, <3>1
  <2> DEFINE e(b) == [i \in 1..Min({m, s - (b - 1) * m}) |-> (b - 1) * m + i]
  <2>2. Split(s, m) = [b \in 1..q |-> e(b)]
    BY DEF Split
  <2> HIDE DEF e, q
  <2> QED  BY <2>1, <2>2
<1> HIDE DEF q, r
<1>5. NumMiniBatches = q
  BY <1>4 DEF NumMiniBatches, s, m
<1>6. s <= q * m
  <2>1. m * q = q * m /\ m * q \in Int
    BY <1>1, <1>3
  <2> QED  BY <1>1, <1>3, <2>1
<1>7. ASSUME NEW b \in 1..q PROVE (b - 1) * m < s
  <2>1. b - 1 \in Int /\ b - 1 < q
    BY <1>3
  <2>2. m * (b - 1) + m <= m * q
    BY <1>1, <1>3, <2>1, Mono
  <2>3. m * (b - 1) = (b - 1) * m /\ m * (b - 1) \in Int /\ m * q \in Int
    BY <1>1, <1>3, <2>1
  <2> QED  BY <1>1, <1>3, <2>2, <2>3
<1> QED  BY <1>4, <1>5, <1>6, <1>7 DEF MiniStart, s, m

\* A mini-batch is a run of rows within each shard, the last may be shorter.
LEMMA MiniIs ==
  ASSUME Typed(steps, rows), Complete(steps, rows), Len(rows) % Divisor = 0,
         NEW b \in 1..NumMiniBatches
  PROVE  MiniFits(b)
<1> DEFINE s == ShardSize
           m == MiniBatch
           c == MicroBatch
           a == MiniStart(b)
           e == Min({b * m, s})
           l == MiniLen(b)
<1>1. s \in Nat \ {0} /\ m \in Nat \ {0} /\ c \in Nat \ {0} /\ m % c = 0
  BY ShardIs, Sizes
<1>2. s % c = 0
  BY Sizes, ShardDivides
<1>3. a < s /\ NumMiniBatches \in Nat
  BY MiniCount
<1> HIDE DEF s, m, c
<1>4. b \in Nat \ {0} /\ a = (b - 1) * m
  BY <1>3 DEF MiniStart, m
<1> DEFINE f == b * m
<1>5. f = a + m /\ a \in Nat /\ f \in Nat
  <2>1. (b - 1) * m = b * m - m /\ (b - 1) * m \in Nat /\ b * m \in Nat
    BY <1>1, <1>4
  <2> QED  BY <1>1, <1>4, <2>1
<1>6. l = e - a
  BY DEF MiniLen, m, s
<1> HIDE DEF a, l, f
<1>7. e \in {f, s} /\ e <= f /\ e <= s
  <2>1. \E x \in {f, s} : \A y \in {f, s} : x <= y
    BY <1>1, <1>5
  <2>2. e = Min({f, s})
    BY DEF f
  <2> QED  BY <2>1, <2>2 DEF Min
<1> HIDE DEF e
<1>8. l \in Nat \ {0} /\ a + l = e /\ a + l <= s /\ a + l <= f
  BY <1>1, <1>3, <1>5, <1>6, <1>7
<1>9. l % c = 0
  <2> DEFINE p == m \div c
             q == s \div c
  <2>1. p \in Int /\ m = c * p + 0 /\ q \in Int /\ s = c * q + 0
    BY <1>1, <1>2, DivMod
  <2> HIDE DEF p, q
  <2>2. 0 \in 0..(c - 1)
    BY <1>1
  <2>3. CASE e = f
    <3>1. l = c * p + 0
      BY <1>1, <1>5, <1>6, <2>1, <2>3
    <3> QED  BY <1>1, <2>1, <2>2, <3>1, DivModOf
  <2>4. CASE e = s
    <3> DEFINE t == q - (b - 1) * p
    <3>1. (b - 1) * (c * p) = c * ((b - 1) * p)
      BY <1>1, <1>4, <2>1
    <3>2. l = c * q - (b - 1) * (c * p)
      BY <1>1, <1>4, <1>5, <1>6, <2>1, <2>4
    <3>3. t \in Int /\ (b - 1) * p \in Int
      BY <1>4, <2>1
    <3>4. c * t = c * q - c * ((b - 1) * p)
      BY <1>1, <2>1, <3>3
    <3>5. l = c * t + 0
      BY <1>1, <2>1, <3>1, <3>2, <3>3, <3>4
    <3> HIDE DEF t
    <3> QED  BY <1>1, <2>2, <3>3, <3>5, DivModOf
  <2> QED  BY <1>7, <2>3, <2>4
<1>10. ASSUME NEW r \in Ranks PROVE MiniRows(r, b) = Run((r - 1) * s + a, l)
  <2> DEFINE z == (r - 1) * s
  <2>1. Shard(r) = Run(z, s) /\ z \in Nat
    BY ShardIs DEF s
  <2>2. MiniRows(r, b) = SubSeq(Shard(r), a + 1, a + l)
    BY <1>4, <1>8 DEF MiniRows, m, s, e
  <2> HIDE DEF z
  <2>3. PartOfRun(z, s, a, l)
    BY <1>1, <1>5, <1>8, <2>1, RunOfRun
  <2> QED  BY <2>1, <2>2, <2>3 DEF PartOfRun, z
<1> QED  BY <1>5, <1>7, <1>8, <1>9, <1>10 DEF MiniFits, a, l, e, s, m, c, f

\* Both cuts are good.
LEMMA LogProbCuts ==
  ASSUME Typed(steps, rows), Complete(steps, rows), Len(rows) % Divisor = 0,
         dynamic \in BOOLEAN
  PROVE  /\ GivenRows(ShardSize, [q \in Ranks |-> Shard(q)])
         /\ CutsWell(ShardSize, LogProbMicro, [q \in Ranks |-> Shard(q)])
<1> DEFINE s == ShardSize
           parts == [q \in Ranks |-> Shard(q)]
<1>1. /\ s \in Nat \ {0} /\ Len(rows) \in Nat /\ DOMAIN rows = 1..Len(rows)
      /\ \A r \in Ranks : /\ Shard(r) = Run((r - 1) * s, s)
                          /\ (r - 1) * s \in Nat /\ (r - 1) * s + s <= Len(rows)
  BY ShardIs, RowFacts
<1>2. s % LogProbMicro = 0 /\ LogProbMicro \in Nat \ {0}
  BY Sizes, ShardDivides
<1>3. ASSUME NEW r \in Ranks PROVE parts[r] \in Seq(DOMAIN rows) /\ Len(parts[r]) = s
  <2> DEFINE a == (r - 1) * s
             n == Len(rows)
  <2>1. a \in Nat /\ a + s <= n /\ n \in Nat /\ parts[r] = Run(a, s) /\ DOMAIN rows = 1..n
    BY <1>1
  <2> HIDE DEF a, n, parts, s
  <2>2. IsRun(n, a, s, Run(a, s))
    BY <1>1, <2>1, RunFacts
  <2> QED  BY <2>1, <2>2 DEF IsRun
<1>4. GivenRows(s, parts)
  BY <1>3 DEF GivenRows
<1> HIDE DEF s, parts
<1>5. CutsWell(s, LogProbMicro, parts)
  BY <1>1, <1>2, <1>4, CutOf
<1> QED  BY <1>4, <1>5 DEF s, parts

\* All ranks cut their mini-batches into micro-batches, equally many.
LEMMA MiniCuts ==
  ASSUME Typed(steps, rows), Complete(steps, rows), Len(rows) % Divisor = 0,
         dynamic \in BOOLEAN, NEW b \in 1..NumMiniBatches
  PROVE  /\ GivenRows(MiniLen(b), [r \in Ranks |-> MiniRows(r, b)])
         /\ CutsWell(MiniLen(b), MicroBatch, [r \in Ranks |-> MiniRows(r, b)])
<1> DEFINE l == MiniLen(b)
           s == ShardSize
           parts == [r \in Ranks |-> MiniRows(r, b)]
<1>1. /\ s \in Nat \ {0} /\ Len(rows) \in Nat /\ DOMAIN rows = 1..Len(rows)
      /\ \A r \in Ranks : (r - 1) * s \in Nat /\ (r - 1) * s + s <= Len(rows)
  BY ShardIs, RowFacts
<1>2. /\ MiniStart(b) \in Nat /\ l \in Nat \ {0} /\ MiniStart(b) + l <= s /\ l % MicroBatch = 0
      /\ \A r \in Ranks : MiniRows(r, b) = Run((r - 1) * s + MiniStart(b), l)
  BY MiniIs DEF MiniFits
<1>3. ASSUME NEW r \in Ranks PROVE parts[r] \in Seq(DOMAIN rows) /\ Len(parts[r]) = l
  <2> DEFINE a == (r - 1) * s + MiniStart(b)
             n == Len(rows)
  <2>1. a \in Nat /\ a + l <= n /\ n \in Nat /\ parts[r] = Run(a, l) /\ DOMAIN rows = 1..n
    <3> DEFINE z == (r - 1) * s
               y == MiniStart(b)
    <3>1. z \in Nat /\ z + s <= n /\ y \in Nat /\ y + l <= s /\ l \in Nat /\ s \in Nat
          /\ n \in Nat
      BY <1>1, <1>2
    <3>2. a = z + y
      OBVIOUS
    <3>3. parts[r] = Run(a, l)
      BY <1>2
    <3> HIDE DEF z, y, n, l, s, a
    <3> QED  BY <1>1, <3>1, <3>2, <3>3 DEF n
  <2> HIDE DEF a, n, parts, l
  <2>2. IsRun(n, a, l, Run(a, l))
    BY <1>2, <2>1, RunFacts
  <2> QED  BY <2>1, <2>2 DEF IsRun
<1>4. GivenRows(l, parts)
  BY <1>3 DEF GivenRows
<1> HIDE DEF l, parts, s
<1>5. CutsWell(l, MicroBatch, parts)
  BY <1>2, <1>4, Sizes, CutOf
<1> QED  BY <1>4, <1>5 DEF l, parts

\* The cuts depend on the rows only.
LEMMA SameCuts ==
  ASSUME rows' = rows, dynamic' = dynamic
  PROVE  /\ ShardSize' = ShardSize /\ NumMiniBatches' = NumMiniBatches
         /\ \A r : Shard(r)' = Shard(r) /\ Owner(r)' = Owner(r)
         /\ \A r, b : MiniRows(r, b)' = MiniRows(r, b)
         /\ \A part : Tokens(part)' = Tokens(part)
         /\ \A parts, r, size : MicroBatches(parts, r, size)' = MicroBatches(parts, r, size)
         /\ \A r : LogProbCut(r)' = LogProbCut(r)
<1>1. ShardSize' = ShardSize /\ \A r : Shard(r)' = Shard(r) /\ Owner(r)' = Owner(r)
  BY DEF Shard, ShardSize, Owner
<1>2. \A r, b : MiniRows(r, b)' = MiniRows(r, b)
  BY <1>1 DEF MiniRows
<1>3. NumMiniBatches' = NumMiniBatches
  BY <1>1 DEF NumMiniBatches
<1>4. \A part : Tokens(part)' = Tokens(part)
  BY DEF Tokens
<1>5. \A parts, r, size : MicroBatches(parts, r, size)' = MicroBatches(parts, r, size)
  <2> SUFFICES ASSUME NEW parts, NEW r, NEW size
               PROVE  MicroBatches(parts, r, size)' = MicroBatches(parts, r, size)
    OBVIOUS
  <2>1. AgreedMicroBatches(parts, r)' = AgreedMicroBatches(parts, r)
    BY <1>4 DEF AgreedMicroBatches
  <2>2. Tokens(parts[r])' = Tokens(parts[r])
    BY <1>4
  <2> QED  BY <2>1, <2>2 DEF MicroBatches
<1>6. \A r : LogProbCut(r)' = LogProbCut(r)
  <2> DEFINE p == [q \in Ranks |-> Shard(q)]
  <2>1. p' = p
    BY <1>1
  <2> QED  BY <1>5, <2>1 DEF LogProbCut
<1> QED  BY <1>1, <1>2, <1>3, <1>4, <1>5, <1>6

-----------------------------------------------------------------------------
(***************************************************************************)
(* A pass takes the first micro-batch of every rank.                       *)
(***************************************************************************)
LEMMA PassStep ==
  ASSUME NEW n \in Nat \ {0}, NEW K \in Nat \ {0}, NEW X, NEW part \in Seq(X),
         Len(part) = n, NEW cut, Pieces(n, K, cut), Len(cut) = K,
         NEW d \in 0..(K - 1), NEW o, PassedBy(K, part, cut, d, FlattenSeq(cut), o, X)
  PROVE  PassedBy(K, part, cut, d + 1, FlattenSeq(cut),
                  o \o Head(Remaining(part, cut, d)), X)
<1> DEFINE idx == FlattenSeq(cut)
           M == Remaining(part, cut, d)
           h == Head(M)
           o2 == o \o h
<1>1. PICK off : Flat(K, cut, off, idx) /\ Len(o) = off[d + 1]
  BY DEF PassedBy
<1>2. o \in Seq(X) /\ \A p \in 1..Len(o) : o[p] = part[idx[p]]
  BY DEF PassedBy
<1>3. cut \in [1..K -> Seq(1..n)]
  BY DEF Pieces
<1>4. d \in 0..K /\ d < K /\ d + 1 \in 1..K /\ 1 \in 1..(K - d) /\ d + 1 \in 0..K /\ K \in Nat
  OBVIOUS
<1>5. /\ M \in Seq(Seq(X)) /\ Len(M) = K - d /\ Len(M[1]) = Len(cut[d + 1])
      /\ \A i \in 1..Len(cut[d + 1]) : M[1][i] = part[cut[d + 1][i]]
  <2>1. n \in Nat
    OBVIOUS
  <2>2. RemainingIs(K, X, part, cut, d)
    BY <1>3, <1>4, <2>1, RemainingFacts
  <2> QED  BY <1>4, <2>2 DEF RemainingIs
<1> HIDE DEF idx, M
<1>6. h = M[1] /\ h \in Seq(X)
  <2>1. M # << >> /\ 1 \in DOMAIN M
    BY <1>4, <1>5
  <2>2. M[1] \in Seq(X)
    BY <1>5, <2>1
  <2> QED  BY <1>5, <2>1, <2>2
<1> HIDE DEF h
<1>7. Len(h) = Len(cut[d + 1]) /\ \A i \in 1..Len(h) : h[i] = part[cut[d + 1][i]]
  BY <1>5, <1>6
<1>8. /\ o2 \in Seq(X) /\ Len(o2) = Len(o) + Len(h)
      /\ \A p \in 1..(Len(o) + Len(h)) : o2[p] = IF p <= Len(o) THEN o[p] ELSE h[p - Len(o)]
  BY <1>2, <1>6
<1> HIDE DEF o2
<1>9. Len(o2) = off[d + 1 + 1]
  BY <1>1, <1>4, <1>7, <1>8 DEF Flat
<1>10. ASSUME NEW p \in 1..Len(o2) PROVE o2[p] = part[idx[p]]
  <2>1. Len(o) \in Nat /\ Len(h) \in Nat
    BY <1>2, <1>6
  <2>2. CASE p <= Len(o)
    BY <1>2, <1>8, <2>1, <2>2
  <2>3. CASE ~(p <= Len(o))
    <3> DEFINE i == p - Len(o)
    <3>1. i \in 1..Len(h) /\ p = Len(o) + i /\ o2[p] = h[i]
      BY <1>8, <2>1, <2>3
    <3> HIDE DEF i
    <3>2. h[i] = part[cut[d + 1][i]]
      BY <1>7, <3>1
    <3>3. idx[off[d + 1] + i] = cut[d + 1][i]
      BY <1>1, <1>4, <1>7, <3>1 DEF Flat
    <3> QED  BY <1>1, <3>1, <3>2, <3>3
  <2> QED  BY <2>2, <2>3
<1>11. PassedBy(K, part, cut, d + 1, idx, o2, X)
  BY <1>1, <1>4, <1>8, <1>9, <1>10 DEF PassedBy
<1> QED  BY <1>11 DEF idx, o2, h, M

\* After the last pass they are the results of all rows.
LEMMA PassesDone ==
  ASSUME NEW n \in Nat \ {0}, NEW K \in Nat \ {0}, NEW X, NEW part, NEW cut,
         Pieces(n, K, cut), NEW o, PassedBy(K, part, cut, K, FlattenSeq(cut), o, X)
  PROVE  /\ Order(n, FlattenSeq(cut)) /\ DOMAIN o = 1..n
         /\ \A p \in 1..n : o[p] = part[FlattenSeq(cut)[p]]
<1> DEFINE idx == FlattenSeq(cut)
<1>1. PICK off : Flat(K, cut, off, idx) /\ Len(o) = off[K + 1]
  BY DEF PassedBy
<1>2. o \in Seq(X) /\ \A p \in 1..Len(o) : o[p] = part[idx[p]]
  BY DEF PassedBy
<1>3. Order(n, idx)
  BY PiecesInOrder
<1> HIDE DEF idx
<1>4. Len(o) = n
  BY <1>1, <1>3 DEF Flat, Order
<1>5. DOMAIN o = 1..n
  BY <1>2, <1>4
<1> QED  BY <1>2, <1>3, <1>4, <1>5 DEF idx

\* A row still to be done is in the first micro-batch or left after it,
\* and not both.
LEMMA LeftAfterPass ==
  ASSUME NEW n \in Nat \ {0}, NEW K \in Nat \ {0}, NEW X, NEW part \in Seq(X),
         Len(part) = n, AllDifferent(part), NEW cut, Pieces(n, K, cut), Len(cut) = K,
         NEW d \in 0..(K - 1)
  PROVE  LET M  == Remaining(part, cut, d)
             M2 == Remaining(part, cut, d + 1)
         IN /\ Tail(M) = M2 /\ M # << >> /\ Len(Head(M)) = Len(cut[d + 1])
            /\ Head(M) \in Seq(X)
            /\ \A k : Left(M, k) <=> k \in ToSet(Head(M)) \/ Left(M2, k)
            /\ \A k \in ToSet(Head(M)) : ~Left(M2, k) /\ k \in ToSet(part)
<1> DEFINE M == Remaining(part, cut, d)
           M2 == Remaining(part, cut, d + 1)
           h == Head(M)
<1>1. /\ cut \in [1..K -> Seq(1..n)]
      /\ \A r, q \in 1..K : r # q => ToSet(cut[r]) \cap ToSet(cut[q]) = {}
  BY DEF Pieces
<1>2. d \in 0..K /\ d < K /\ d + 1 \in 1..K /\ d + 1 \in 0..K /\ K \in Nat /\ d \in Nat
  OBVIOUS
<1>3. /\ M \in Seq(Seq(X)) /\ Len(M) = K - d /\ Tail(M) = M2
      /\ \A b \in 1..(K - d) : /\ Len(M[b]) = Len(cut[d + b])
                               /\ \A i \in 1..Len(cut[d + b]) : M[b][i] = part[cut[d + b][i]]
  <2>1. n \in Nat
    OBVIOUS
  <2>2. RemainingIs(K, X, part, cut, d)
    BY <1>1, <1>2, <2>1, RemainingFacts
  <2> QED  BY <1>2, <2>2 DEF RemainingIs
<1>4. M2 \in Seq(Seq(X)) /\ Len(M2) = K - (d + 1)
  <2> DEFINE e == d + 1
  <2>1. n \in Nat /\ e \in 0..K
    BY <1>2
  <2> HIDE DEF e
  <2>2. RemainingIs(K, X, part, cut, e)
    BY <1>1, <1>2, <2>1, RemainingFacts
  <2> QED  BY <2>2 DEF RemainingIs, e
<1> HIDE DEF M, M2
<1>5. /\ DOMAIN M = 1..(K - d) /\ DOMAIN M2 = 1..(K - d - 1) /\ M # << >>
      /\ \A b \in DOMAIN M : M[b] \in Seq(X)
      /\ \A b \in 1..(K - d - 1) : b + 1 \in 1..(K - d) /\ M2[b] = M[b + 1]
  <2>1. DOMAIN M = 1..(K - d) /\ DOMAIN M2 = 1..(K - d - 1) /\ M # << >>
    BY <1>2, <1>3, <1>4
  <2>2. \A b \in DOMAIN M : M[b] \in Seq(X)
    BY <1>3
  <2>3. \A b \in 1..Len(M2) : M2[b] = M[b + 1]
    <3>1. \A i \in 1..Len(Tail(M)) : Tail(M)[i] = M[i + 1]
      BY <1>3, <2>1, HeadTailProperties
    <3> QED  BY <1>3, <3>1
  <2>4. Len(M2) = K - d - 1
    BY <1>2, <1>4
  <2>5. \A b \in 1..(K - d - 1) : b + 1 \in 1..(K - d)
    BY <1>2
  <2> QED  BY <2>1, <2>2, <2>3, <2>4, <2>5
<1>6. h = M[1] /\ 1 \in 1..(K - d)
  BY <1>2, <1>3, <1>5
<1> HIDE DEF h
<1>7. Len(h) = Len(cut[d + 1])
  BY <1>3, <1>6
<1>8. ASSUME NEW k PROVE Left(M, k) <=> k \in ToSet(h) \/ Left(M2, k)
  <2>1. ASSUME Left(M, k) PROVE k \in ToSet(h) \/ Left(M2, k)
    <3>1. PICK b \in 1..(K - d) : k \in ToSet(M[b])
      BY <1>5, <2>1 DEF Left
    <3>2. CASE b = 1
      BY <1>6, <3>1, <3>2
    <3>3. CASE b # 1
      <4>1. b - 1 \in 1..(K - d - 1) /\ (b - 1) + 1 = b
        BY <1>2, <3>3
      <4>2. M2[b - 1] = M[b] /\ b - 1 \in DOMAIN M2
        BY <1>5, <4>1
      <4> QED  BY <3>1, <4>2 DEF Left
    <3> QED  BY <3>2, <3>3
  <2>2. ASSUME k \in ToSet(h) PROVE Left(M, k)
    BY <1>5, <1>6, <2>2 DEF Left
  <2>3. ASSUME Left(M2, k) PROVE Left(M, k)
    <3>1. PICK b \in 1..(K - d - 1) : k \in ToSet(M2[b])
      BY <1>5, <2>3 DEF Left
    <3>2. b + 1 \in DOMAIN M /\ M2[b] = M[b + 1]
      BY <1>5
    <3> QED  BY <3>1, <3>2 DEF Left
  <2> QED  BY <2>1, <2>2, <2>3
\* Micro-batches hold rows of part by their positions in the cut.
<1>9. ASSUME NEW b \in 1..(K - d), NEW k \in ToSet(M[b])
      PROVE  \E x \in ToSet(cut[d + b]) : x \in 1..n /\ k = part[x]
  <2>1. d + b \in 1..K
    BY <1>2
  <2>2. cut[d + b] \in Seq(1..n)
    BY <1>1, <2>1
  <2>3. M[b] \in Seq(X)
    BY <1>5
  <2>4. PICK i \in 1..Len(M[b]) : k = M[b][i]
    BY <2>3 DEF ToSet
  <2>5. i \in 1..Len(cut[d + b]) /\ k = part[cut[d + b][i]]
    BY <1>3, <2>4
  <2>6. cut[d + b][i] \in ToSet(cut[d + b]) /\ cut[d + b][i] \in 1..n
    BY <2>2, <2>5 DEF ToSet
  <2> QED  BY <2>5, <2>6
<1>10. ASSUME NEW k \in ToSet(h) PROVE ~Left(M2, k) /\ k \in ToSet(part)
  <2>1. PICK x \in ToSet(cut[d + 1]) : x \in 1..n /\ k = part[x]
    BY <1>6, <1>9
  <2>2. k \in ToSet(part)
    BY <2>1 DEF ToSet
  <2>3. ASSUME Left(M2, k) PROVE FALSE
    <3>1. PICK b \in 1..(K - d - 1) : k \in ToSet(M2[b])
      BY <1>5, <2>3 DEF Left
    <3>2. b + 1 \in 1..(K - d) /\ k \in ToSet(M[b + 1])
      BY <1>5, <3>1
    <3>3. PICK y \in ToSet(cut[d + (b + 1)]) : y \in 1..n /\ k = part[y]
      BY <1>9, <3>2
    <3>4. x = y
      <4>1. DOMAIN part = 1..n
        OBVIOUS
      <4> QED  BY <2>1, <3>3, <4>1 DEF AllDifferent
    <3>5. d + (b + 1) \in 1..K /\ d + (b + 1) # d + 1
      BY <1>2, <3>2
    <3> QED  BY <1>1, <1>2, <2>1, <3>3, <3>4, <3>5
  <2> QED  BY <2>2, <2>3
<1>11. h \in Seq(X)
  BY <1>5, <1>6
<1> QED  BY <1>3, <1>5, <1>7, <1>8, <1>10, <1>11 DEF M, M2, h

\* Before the first pass all rows are left, after the last none is.
LEMMA LeftAtFirst ==
  ASSUME NEW n \in Nat \ {0}, NEW K \in Nat \ {0}, NEW X, NEW part \in Seq(X),
         Len(part) = n, NEW cut, Pieces(n, K, cut), Len(cut) = K
  PROVE  \A k : Left(Remaining(part, cut, 0), k) <=> k \in ToSet(part)
<1> DEFINE z == 0
           M == Remaining(part, cut, z)
<1>1. /\ cut \in [1..K -> Seq(1..n)]
      /\ \A x \in 1..n : \E r \in 1..K : x \in ToSet(cut[r])
  BY DEF Pieces
<1>2. z \in 0..K /\ K - z = K /\ \A b \in 1..K : z + b = b
  OBVIOUS
<1> HIDE DEF z
<1>3. /\ M \in Seq(Seq(X)) /\ Len(M) = K - z
      /\ \A b \in 1..(K - z) : /\ Len(M[b]) = Len(cut[z + b])
                               /\ \A i \in 1..Len(cut[z + b]) : M[b][i] = part[cut[z + b][i]]
  <2>1. n \in Nat
    OBVIOUS
  <2>2. RemainingIs(K, X, part, cut, z)
    BY <1>1, <1>2, <2>1, RemainingFacts
  <2> QED  BY <2>2 DEF RemainingIs
<1> HIDE DEF M
<1>4. /\ DOMAIN M = 1..K /\ DOMAIN part = 1..n
      /\ \A b \in 1..K : /\ DOMAIN M[b] = DOMAIN cut[b]
                         /\ \A i \in DOMAIN cut[b] : /\ M[b][i] = part[cut[b][i]]
                                                     /\ cut[b][i] \in 1..n
  <2>1. DOMAIN M = 1..K /\ DOMAIN part = 1..n
    BY <1>2, <1>3
  <2>2. ASSUME NEW b \in 1..K
        PROVE  /\ DOMAIN M[b] = DOMAIN cut[b]
               /\ \A i \in DOMAIN cut[b] : M[b][i] = part[cut[b][i]] /\ cut[b][i] \in 1..n
    <3>1. cut[b] \in Seq(1..n)
      BY <1>1
    <3>2. M[b] \in Seq(X)
      BY <1>3, <2>1
    <3>3. Len(M[b]) = Len(cut[b]) /\ \A i \in 1..Len(cut[b]) : M[b][i] = part[cut[b][i]]
      BY <1>2, <1>3
    <3> QED  BY <3>1, <3>2, <3>3
  <2> QED  BY <2>1, <2>2
<1>5. ASSUME NEW k, Left(M, k) PROVE k \in ToSet(part)
  <2>1. PICK b \in 1..K : k \in ToSet(M[b])
    BY <1>4, <1>5 DEF Left
  <2>2. PICK i \in DOMAIN cut[b] : k = M[b][i]
    BY <1>4, <2>1 DEF ToSet
  <2>3. k = part[cut[b][i]] /\ cut[b][i] \in DOMAIN part
    BY <1>4, <2>2
  <2> QED  BY <2>3 DEF ToSet
<1>6. ASSUME NEW k \in ToSet(part) PROVE Left(M, k)
  <2>1. PICK x \in 1..n : k = part[x]
    BY <1>4 DEF ToSet
  <2>2. PICK b \in 1..K : x \in ToSet(cut[b])
    BY <1>1, <2>1
  <2>3. PICK i \in DOMAIN cut[b] : x = cut[b][i]
    BY <2>2 DEF ToSet
  <2>4. k = M[b][i] /\ i \in DOMAIN M[b] /\ b \in DOMAIN M
    BY <1>4, <2>1, <2>3
  <2>5. k \in ToSet(M[b])
    BY <2>4 DEF ToSet
  <2> QED  BY <2>4, <2>5 DEF Left
<1> QED  BY <1>5, <1>6 DEF M, z

\* Before the first pass all of the cut is to be done.
AllLeft(part, cut) ==
  [b \in DOMAIN cut |-> [i \in DOMAIN cut[b] |-> part[cut[b][i]]]] = Remaining(part, cut, 0)

\* That is the cut itself.
LEMMA AllLeftAtFirst ==
  ASSUME NEW n \in Nat \ {0}, NEW K \in Nat \ {0}, NEW part, NEW cut, Pieces(n, K, cut)
  PROVE  AllLeft(part, cut)
<1> DEFINE z == 0
<1>1. cut \in [1..K -> Seq(1..n)]
  BY DEF Pieces
<1>2. Len(cut) = K /\ DOMAIN cut = 1..K
  BY <1>1
<1>3. Len(cut) - z = K /\ \A b \in 1..K : z + b = b
  BY <1>2
<1> HIDE DEF z
<1>4. Remaining(part, cut, z)
        = [b \in 1..K |-> [i \in DOMAIN cut[b] |-> part[cut[b][i]]]]
  BY <1>3 DEF Remaining
<1> QED  BY <1>2, <1>4 DEF AllLeft, z

\* Nothing is left behind the last micro-batch.
LEMMA NoneLeft ==
  ASSUME NEW n \in Nat \ {0}, NEW K \in Nat \ {0}, NEW X, NEW part \in Seq(X),
         Len(part) = n, NEW cut, Pieces(n, K, cut), NEW d \in 0..K
  PROVE  Remaining(part, cut, d) = << >> <=> d = K
<1>1. cut \in [1..K -> Seq(1..n)] /\ n \in Nat /\ K \in Nat
  BY DEF Pieces
<1>2. Len(cut) = K
  BY <1>1
<1>3. RemainingIs(K, X, part, cut, d)
  BY <1>1, <1>2, RemainingFacts
<1> DEFINE M == Remaining(part, cut, d)
<1>4. M \in Seq(Seq(X)) /\ Len(M) = K - d
  BY <1>3 DEF RemainingIs
<1> HIDE DEF M
<1>5. M = << >> <=> K - d = 0
  BY <1>4
<1> QED  BY <1>5 DEF M

\* No pass has been made.
LEMMA PassedAtFirst ==
  ASSUME NEW n \in Nat \ {0}, NEW K \in Nat \ {0}, NEW X, NEW part, NEW cut,
         Pieces(n, K, cut)
  PROVE  PassedBy(K, part, cut, 0, FlattenSeq(cut), << >>, X)
<1> DEFINE z == 0
           o == << >>
<1>1. PICK off : Flat(K, cut, off, FlattenSeq(cut))
  <2>1. n \in Nat
    OBVIOUS
  <2> QED  BY <2>1, PiecesInOrder
<1>2. o \in Seq(X) /\ Len(o) = 0 /\ 1..Len(o) = {}
  OBVIOUS
<1>3. z \in 0..K /\ z + 1 = 1 /\ off[1] = 0
  BY <1>1 DEF Flat
<1> HIDE DEF z, o
<1>4. PassedBy(K, part, cut, z, FlattenSeq(cut), o, X)
  BY <1>1, <1>2, <1>3 DEF PassedBy
<1> QED  BY <1>4 DEF z, o

\* Every row is in the shard of its owner.
LEMMA OwnerIs ==
  ASSUME Typed(steps, rows), Complete(steps, rows), Len(rows) % Divisor = 0,
         NEW k \in DOMAIN rows
  PROVE  /\ Owner(k) \in Ranks /\ (Owner(k) - 1) * ShardSize \in Nat
         /\ k > (Owner(k) - 1) * ShardSize /\ k <= (Owner(k) - 1) * ShardSize + ShardSize
<1> DEFINE s == ShardSize
           q == (k - 1) \div s
           n == Len(rows)
<1>1. s \in Nat \ {0} /\ n = World * s /\ n \in Nat /\ DOMAIN rows = 1..n
  BY ShardIs, RowFacts
<1>2. World \in Nat \ {0}
  BY Sizes
<1> HIDE DEF s, n
<1>3. k \in 1..n /\ k - 1 \in Int
  BY <1>1
<1>4. q \in Int /\ k - 1 >= s * q /\ k - 1 < s * q + s
  <2> DEFINE r == (k - 1) % s
  <2>1. q \in Int /\ r \in 0..(s - 1) /\ k - 1 = s * q + r
    BY <1>1, <1>3, DivMod
  <2> HIDE DEF q, r
  <2>2. s * q \in Int
    BY <1>1, <2>1
  <2> QED  BY <1>1, <1>3, <2>1, <2>2
<1> HIDE DEF q
<1>5. q >= 0
  <2> SUFFICES ASSUME q < 0 PROVE FALSE
    BY <1>4
  <2>1. s * q + s <= s * 0
    BY <1>1, <1>4, Mono
  <2> QED  BY <1>1, <1>3, <1>4, <2>1
<1>6. q < World
  <2> SUFFICES ASSUME World <= q PROVE FALSE
    BY <1>2, <1>4
  <2>1. s * World <= s * q
    <3>1. CASE World = q
      BY <1>1, <1>2, <3>1
    <3>2. CASE World < q
      <4>1. s * World + s <= s * q
        BY <1>1, <1>2, <1>4, <3>2, Mono
      <4>2. s * World \in Int /\ s * q \in Int
        BY <1>1, <1>2, <1>4
      <4> QED  BY <1>1, <4>1, <4>2
    <3> QED  BY <1>2, <1>4, <3>1, <3>2
  <2>2. s * World = World * s /\ s * World \in Int /\ s * q \in Int
    BY <1>1, <1>2, <1>4
  <2> QED  BY <1>1, <1>3, <1>4, <2>1, <2>2
<1>7. Owner(k) = q + 1 /\ Owner(k) - 1 = q
  BY <1>4 DEF Owner, q, s
<1>8. s * q = q * s /\ q * s \in Nat
  BY <1>1, <1>4, <1>5
<1>9. Owner(k) \in Ranks
  BY <1>2, <1>4, <1>5, <1>6, <1>7 DEF Ranks
<1>10. k > q * s /\ k <= q * s + s
  BY <1>1, <1>3, <1>4, <1>8
<1> QED  BY <1>7, <1>8, <1>9, <1>10 DEF s

\* A batch that has gone to the ranks.
OnRanks == Typed(steps, rows) /\ Complete(steps, rows) /\ Len(rows) % Divisor = 0

\* No rank is called before the batch has been made to fit the ranks.
LEMMA BatchOnRanks ==
  ASSUME BatchInv, RankInv, phase \in {"balanced", "done"} \/ stage # "driver"
  PROVE  OnRanks /\ dynamic \in BOOLEAN
<1>1. phase \in {"balanced", "done"}
  BY DEF RankInv
<1> QED  BY <1>1 DEF BatchInv, OnRanks, RankInv

\* The shards, end to end, are all rows.
LEMMA FlatShards ==
  ASSUME OnRanks
  PROVE  FlattenSeq([r \in Ranks |-> Shard(r)]) = [k \in DOMAIN rows |-> k]
<1> DEFINE s == ShardSize
           n == Len(rows)
<1>1. /\ s \in Nat \ {0} /\ n = World * s /\ n \in Nat /\ DOMAIN rows = 1..n
      /\ \A r \in Ranks : Shard(r) = Run((r - 1) * s, s)
  BY ShardIs, RowFacts DEF OnRanks
<1>2. [r \in Ranks |-> Shard(r)] = Runs(World, s)
  BY <1>1 DEF Runs, Ranks
<1>3. World \in Nat \ {0}
  BY Sizes
<1> HIDE DEF s, n
<1>4. FlattenSeq(Runs(World, s)) = Run(0, n)
  BY <1>1, <1>3, FlatRuns
<1>5. Run(0, n) = [k \in 1..n |-> k]
  BY <1>1 DEF Run
<1> QED  BY <1>1, <1>2, <1>4, <1>5

\* How the ranks have cut n rows each: K micro-batches, all ranks as many.
Plan(n, K, size, parts) ==
  /\ n \in Nat \ {0} /\ n <= Len(rows) /\ K \in 1..n
  /\ \A r \in Ranks :
       /\ parts[r] \in Seq(DOMAIN rows) /\ Len(parts[r]) = n /\ AllDifferent(parts[r])
       /\ CutWell(n, K, size, dynamic, Tokens(parts[r]), MicroBatches(parts, r, size))

\* The numbers of a run differ.
LEMMA RunDiffers ==
  ASSUME NEW n \in Nat, NEW a \in Nat
  PROVE  AllDifferent(Run(a, n))
BY DEF AllDifferent, Run

\* The forward passes have a plan.
LEMMA LogProbPlan ==
  ASSUME OnRanks, dynamic \in BOOLEAN
  PROVE  \E K : Plan(ShardSize, K, LogProbMicro, [q \in Ranks |-> Shard(q)])
<1> DEFINE s == ShardSize
           parts == [q \in Ranks |-> Shard(q)]
<1>1. GivenRows(s, parts) /\ CutsWell(s, LogProbMicro, parts)
  BY LogProbCuts DEF OnRanks
<1>2. /\ s \in Nat \ {0} /\ Len(rows) = World * s
      /\ \A r \in Ranks : Shard(r) = Run((r - 1) * s, s) /\ (r - 1) * s \in Nat
  BY ShardIs DEF OnRanks
<1>3. s <= Len(rows)
  <2>1. World \in Nat \ {0}
    BY Sizes
  <2> DEFINE w == World - 1
  <2>2. w \in Nat /\ Len(rows) = w * s + s
    BY <1>2, <2>1
  <2>3. w * s \in Nat
    BY <1>2, <2>2
  <2> HIDE DEF w, s
  <2> QED  BY <1>2, <2>2, <2>3
<1>4. \A r \in Ranks : AllDifferent(parts[r])
  BY <1>2, RunDiffers
<1> HIDE DEF s, parts
<1>5. PICK K \in 1..s : \A r \in Ranks :
         CutWell(s, K, LogProbMicro, dynamic, Tokens(parts[r]),
                 MicroBatches(parts, r, LogProbMicro))
  BY <1>1 DEF CutsWell
<1>6. Plan(s, K, LogProbMicro, parts)
  BY <1>1, <1>2, <1>3, <1>4, <1>5 DEF Plan, GivenRows
<1> QED  BY <1>6 DEF s, parts

\* So has every mini-batch of the update.
LEMMA UpdatePlan ==
  ASSUME OnRanks, dynamic \in BOOLEAN, minis \in 1..NumMiniBatches
  PROVE  \E K : Plan(MiniLen(minis), K, MicroBatch, MiniParts)
<1> DEFINE b == minis
           n == MiniLen(b)
           s == ShardSize
           parts == MiniParts
<1>1. GivenRows(n, parts) /\ CutsWell(n, MicroBatch, parts)
  BY MiniCuts DEF OnRanks, MiniParts
<1>2. /\ MiniStart(b) \in Nat /\ n \in Nat \ {0} /\ MiniStart(b) + n <= s
      /\ \A r \in Ranks : MiniRows(r, b) = Run((r - 1) * s + MiniStart(b), n)
  BY MiniIs DEF OnRanks, MiniFits
<1>3. /\ s \in Nat \ {0} /\ Len(rows) = World * s
      /\ \A r \in Ranks : (r - 1) * s \in Nat
  BY ShardIs DEF OnRanks
<1>4. n <= Len(rows)
  <2>1. World \in Nat \ {0}
    BY Sizes
  <2> DEFINE w == World - 1
  <2>2. w \in Nat /\ Len(rows) = w * s + s
    BY <1>3, <2>1
  <2>3. w * s \in Nat
    BY <1>3, <2>2
  <2> HIDE DEF w, s, n
  <2> QED  BY <1>2, <1>3, <2>2, <2>3
<1>5. ASSUME NEW r \in Ranks PROVE AllDifferent(parts[r])
  <2> DEFINE a == (r - 1) * s + MiniStart(b)
  <2>1. a \in Nat /\ n \in Nat /\ parts[r] = Run(a, n)
    BY <1>2, <1>3 DEF MiniParts
  <2> HIDE DEF a, n, parts
  <2> QED  BY <2>1, RunDiffers
<1> HIDE DEF s, n, parts
<1>6. PICK K \in 1..n : \A r \in Ranks :
         CutWell(n, K, MicroBatch, dynamic, Tokens(parts[r]),
                 MicroBatches(parts, r, MicroBatch))
  BY <1>1 DEF CutsWell
<1>7. Plan(n, K, MicroBatch, parts)
  BY <1>1, <1>2, <1>4, <1>5, <1>6 DEF Plan, GivenRows
<1> QED  BY <1>7 DEF n, parts

\* What a plan gives a rank.
PlanIs(n, K, parts, r, cut) ==
  /\ n \in Nat \ {0} /\ n <= Len(rows) /\ K \in Nat \ {0} /\ K <= n
  /\ parts[r] \in Seq(DOMAIN rows) /\ Len(parts[r]) = n /\ AllDifferent(parts[r])
  /\ Pieces(n, K, cut) /\ Len(cut) = K

\* Every rank has its part of the plan.
LEMMA PlanOf ==
  ASSUME NEW n, NEW K, NEW size, NEW parts, Plan(n, K, size, parts), NEW r \in Ranks
  PROVE  PlanIs(n, K, parts, r, MicroBatches(parts, r, size))
BY DEF Plan, PlanIs, CutWell

-----------------------------------------------------------------------------
(***************************************************************************)
(* The steps of the ranks: the forward passes.                             *)
(***************************************************************************)
LEMMA ForwardedNext ==
  ASSUME rows' = rows, dynamic' = dynamic,
         indices' = [r \in Ranks |-> FlattenSeq(LogProbCut(r))],
         NEW d \in 0..Len(rows),
         micro' = [r \in Ranks |-> Remaining(Shard(r), LogProbCut(r), d)],
         \A r \in Ranks : PassedBy(Len(LogProbCut(r)), Shard(r), LogProbCut(r), d,
                                   indices'[r], out'[r], DOMAIN rows)
  PROVE  Forwarded'
<1>1. \A r : Shard(r)' = Shard(r) /\ LogProbCut(r)' = LogProbCut(r)
  BY SameCuts
<1>2. indices' = [r \in Ranks |-> FlattenSeq(LogProbCut(r)')]
  BY <1>1
<1>3. micro' = [r \in Ranks |-> Remaining(Shard(r)', LogProbCut(r)', d)]
  BY <1>1
<1>4. \A r \in Ranks : PassedBy(Len(LogProbCut(r)'), Shard(r)', LogProbCut(r)', d,
                                indices'[r], out'[r], DOMAIN rows')
  BY <1>1
<1>5. d \in 0..Len(rows')
  OBVIOUS
<1> QED  BY <1>2, <1>3, <1>4, <1>5 DEF Forwarded

\* The first forward pass is to come.
LEMMA DispatchLogProbRanks ==
  ASSUME BatchInv, RankInv, DispatchLogProb
  PROVE  RankInv'
<1>1. /\ phase = "balanced" /\ stage = "driver" /\ stage' = "log_prob"
      /\ rows' = rows /\ phase' = phase /\ dynamic' = dynamic /\ out' = out
      /\ minis' = minis
      /\ indices' = [r \in Ranks |->
           FlattenSeq(MicroBatches([q \in Ranks |-> Shard(q)], r, LogProbMicro))]
  BY DEF DispatchLogProb, vars
<1>2. indices' = [r \in Ranks |-> FlattenSeq(LogProbCut(r))]
  BY <1>1 DEF LogProbCut
<1>3. OnRanks /\ dynamic \in BOOLEAN
  BY <1>1, BatchOnRanks
<1>4. PICK K : Plan(ShardSize, K, LogProbMicro, [q \in Ranks |-> Shard(q)])
  BY <1>3, LogProbPlan
<1>5. ASSUME NEW r \in Ranks
      PROVE  /\ AllLeft(Shard(r), LogProbCut(r)) /\ Len(LogProbCut(r)) = K
             /\ PassedBy(K, Shard(r), LogProbCut(r), 0, FlattenSeq(LogProbCut(r)), << >>,
                         DOMAIN rows)
  <2> DEFINE parts == [q \in Ranks |-> Shard(q)]
             n == ShardSize
             cut == LogProbCut(r)
             X == DOMAIN rows
  <2>1. PlanIs(n, K, parts, r, MicroBatches(parts, r, LogProbMicro))
    BY <1>4, PlanOf
  <2>2. PlanIs(n, K, parts, r, cut) /\ parts[r] = Shard(r)
    BY <2>1 DEF LogProbCut
  <2> HIDE DEF parts, n, cut, X
  <2>3. n \in Nat \ {0} /\ K \in Nat \ {0} /\ Pieces(n, K, cut) /\ Len(cut) = K
    BY <2>2 DEF PlanIs
  <2>4. AllLeft(Shard(r), cut)
    BY <2>3, AllLeftAtFirst
  <2>5. PassedBy(K, Shard(r), cut, 0, FlattenSeq(cut), << >>, X)
    BY <2>3, PassedAtFirst
  <2> QED  BY <2>3, <2>4, <2>5 DEF cut, X
<1>6. micro' = [r \in Ranks |-> Remaining(Shard(r), LogProbCut(r), 0)]
  <2>1. micro' = [r \in Ranks |->
                    [b \in DOMAIN LogProbCut(r) |->
                       [i \in DOMAIN LogProbCut(r)[b] |-> Shard(r)[LogProbCut(r)[b][i]]]]]
    BY DEF DispatchLogProb, LogProbCut
  <2> QED  BY <1>5, <2>1 DEF AllLeft
<1>7. Forwarded'
  <2> DEFINE z == 0
  <2>1. z \in 0..Len(rows)
    <3>1. Len(rows) \in Nat
      BY <1>3, RowFacts DEF OnRanks
    <3> QED  BY <3>1
  <2>2. out = [r \in Ranks |-> << >>]
    BY <1>1 DEF RankInv
  <2>3. \A r \in Ranks : PassedBy(Len(LogProbCut(r)), Shard(r), LogProbCut(r), z,
                                   indices'[r], out'[r], DOMAIN rows)
    BY <1>1, <1>2, <1>5, <2>2
  <2>4. micro' = [r \in Ranks |-> Remaining(Shard(r), LogProbCut(r), z)]
    BY <1>6
  <2> HIDE DEF z
  <2> QED  BY <1>1, <1>2, <2>1, <2>3, <2>4, ForwardedNext
<1>8. /\ phase' = "balanced" /\ minis' = 0 /\ dynamic' \in BOOLEAN
  BY <1>1, <1>3 DEF RankInv
<1> QED  BY <1>1, <1>7, <1>8 DEF RankInv, LogProbsOfOwnRow, RowsWeighAlike

\* Every forward pass gives each rank's next rows their results.
LEMMA ForwardRanks ==
  ASSUME BatchInv, RankInv, Forward
  PROVE  RankInv'
<1>1. /\ stage = "log_prob" /\ stage' = "log_prob" /\ indices' = indices
      /\ rows' = rows /\ phase' = phase /\ dynamic' = dynamic /\ minis' = minis
      /\ out' = [r \in Ranks |-> out[r] \o Head(micro[r])]
      /\ micro' = [r \in Ranks |-> Tail(micro[r])]
      /\ \A r \in Ranks : micro[r] # << >>
  BY DEF Forward, vars
<1>2. OnRanks /\ dynamic \in BOOLEAN
  BY <1>1, BatchOnRanks
<1>3. PICK K : Plan(ShardSize, K, LogProbMicro, [q \in Ranks |-> Shard(q)])
  BY <1>2, LogProbPlan
<1>4. indices = [r \in Ranks |-> FlattenSeq(LogProbCut(r))]
  BY <1>1 DEF RankInv, Forwarded
<1>5. PICK d \in 0..Len(rows) :
        /\ micro = [r \in Ranks |-> Remaining(Shard(r), LogProbCut(r), d)]
        /\ \A r \in Ranks : PassedBy(Len(LogProbCut(r)), Shard(r), LogProbCut(r), d,
                                     indices[r], out[r], DOMAIN rows)
  BY <1>1 DEF RankInv, Forwarded
<1>6. ASSUME NEW r \in Ranks
      PROVE  /\ d + 1 <= Len(rows) /\ Len(LogProbCut(r)) = K
             /\ Tail(micro[r]) = Remaining(Shard(r), LogProbCut(r), d + 1)
             /\ PassedBy(K, Shard(r), LogProbCut(r), d + 1, FlattenSeq(LogProbCut(r)),
                         out[r] \o Head(micro[r]), DOMAIN rows)
  <2> DEFINE parts == [q \in Ranks |-> Shard(q)]
             n == ShardSize
             cut == LogProbCut(r)
             X == DOMAIN rows
             part == Shard(r)
             o == out[r]
  <2>1. PlanIs(n, K, parts, r, MicroBatches(parts, r, LogProbMicro))
    BY <1>3, PlanOf
  <2>2. PlanIs(n, K, parts, r, cut) /\ parts[r] = part
    BY <2>1 DEF LogProbCut
  <2>3. micro[r] = Remaining(part, cut, d) /\ indices[r] = FlattenSeq(cut)
    BY <1>4, <1>5
  <2>4. PassedBy(Len(cut), part, cut, d, indices[r], o, X)
    BY <1>5
  <2> HIDE DEF parts, n, cut, X, part, o
  <2>5. /\ n \in Nat \ {0} /\ n <= Len(rows) /\ K \in Nat \ {0} /\ K <= n
        /\ part \in Seq(X) /\ Len(part) = n /\ Pieces(n, K, cut) /\ Len(cut) = K
    BY <2>2 DEF PlanIs, X
  <2>6. PassedBy(K, part, cut, d, FlattenSeq(cut), o, X) /\ d \in 0..K
    BY <2>3, <2>4, <2>5 DEF PassedBy
  <2>7. d # K
    <3>1. Remaining(part, cut, d) # << >>
      BY <1>1, <2>3
    <3> QED  BY <2>5, <2>6, <3>1, NoneLeft
  <2>8. d \in 0..(K - 1) /\ d < K
    BY <2>5, <2>6, <2>7
  <2>9. PassedBy(K, part, cut, d + 1, FlattenSeq(cut), o \o Head(Remaining(part, cut, d)), X)
    BY <2>5, <2>6, <2>8, PassStep
  <2>10. Tail(Remaining(part, cut, d)) = Remaining(part, cut, d + 1)
    <3>1. cut \in [1..K -> Seq(1..n)] /\ n \in Nat /\ K \in Nat
      BY <2>5 DEF Pieces
    <3>2. RemainingIs(K, X, part, cut, d)
      BY <2>5, <2>6, <3>1, RemainingFacts
    <3> QED  BY <2>8, <3>2 DEF RemainingIs
  <2>11. d + 1 <= Len(rows)
    <3>1. Len(rows) \in Nat
      BY <1>2, RowFacts DEF OnRanks
    <3> QED  BY <2>5, <2>8, <3>1
  <2> QED  BY <2>3, <2>5, <2>9, <2>10, <2>11 DEF cut, X, part, o
<1>7. Forwarded'
  <2> DEFINE e == d + 1
  <2>1. e \in 0..Len(rows)
    <3>1. Len(rows) \in Nat /\ 1 \in Ranks
      BY <1>2, RowFacts, Sizes DEF OnRanks, Ranks
    <3>2. e <= Len(rows)
      BY <1>6, <3>1
    <3> QED  BY <3>1, <3>2
  <2>2. micro' = [r \in Ranks |-> Remaining(Shard(r), LogProbCut(r), e)]
    BY <1>1, <1>6
  <2>3. \A r \in Ranks : PassedBy(Len(LogProbCut(r)), Shard(r), LogProbCut(r), e,
                                   indices'[r], out'[r], DOMAIN rows)
    BY <1>1, <1>4, <1>6
  <2> HIDE DEF e
  <2> QED  BY <1>1, <1>4, <2>1, <2>2, <2>3, ForwardedNext
<1>8. /\ minis' = 0 /\ dynamic' \in BOOLEAN /\ phase' \in {"balanced", "done"}
      /\ phase' = "done" => stage' \in {"collected", "update", "updated"}
  BY <1>1, <1>2 DEF RankInv
<1> QED  BY <1>1, <1>7, <1>8 DEF RankInv, LogProbsOfOwnRow, RowsWeighAlike

\* Results in the order of idx, put back: the inverse map leads to each row.
PutBack(n, part, idx, o) == [i \in 1..n |-> o[ReverseIdx(idx)[i]]] = part

\* get_reverse_idx inverts the order of the micro-batches.
LEMMA ReverseIdxPutsBack ==
  ASSUME NEW n \in Nat, NEW X, NEW part \in Seq(X), Len(part) = n, NEW idx, Order(n, idx),
         NEW o, \A p \in 1..n : o[p] = part[idx[p]]
  PROVE  PutBack(n, part, idx, o)
<1>1. /\ DOMAIN idx = 1..n /\ \A x \in 1..n : \E p \in 1..n : idx[p] = x
  BY DEF Order
<1>2. ASSUME NEW i \in 1..n PROVE o[ReverseIdx(idx)[i]] = part[i]
  <2> DEFINE p == CHOOSE p \in 1..n : idx[p] = i
  <2>1. p \in 1..n /\ idx[p] = i
    BY <1>1
  <2>2. ReverseIdx(idx)[i] = p
    BY <1>1 DEF ReverseIdx
  <2> HIDE DEF p
  <2> QED  BY <2>1, <2>2
<1>3. part = [i \in 1..n |-> part[i]]
  OBVIOUS
<1> QED  BY <1>2, <1>3 DEF PutBack

\* The results are put back to their rows and joined in the ranks' order.
LEMMA CollectLogProbRanks ==
  ASSUME BatchInv, RankInv, CollectLogProb
  PROVE  RankInv'
<1>1. /\ stage = "log_prob" /\ stage' = "collected"
      /\ rows' = rows /\ phase' = phase /\ dynamic' = dynamic /\ minis' = minis
      /\ micro' = micro /\ \A r \in Ranks : micro[r] = << >>
      /\ logProb' = FlattenSeq([r \in Ranks |-> Reverted(r)])
  BY DEF CollectLogProb, vars
<1>2. OnRanks /\ dynamic \in BOOLEAN
  BY <1>1, BatchOnRanks
<1>3. PICK K : Plan(ShardSize, K, LogProbMicro, [q \in Ranks |-> Shard(q)])
  BY <1>2, LogProbPlan
<1>4. indices = [r \in Ranks |-> FlattenSeq(LogProbCut(r))]
  BY <1>1 DEF RankInv, Forwarded
<1>5. PICK d \in 0..Len(rows) :
        /\ micro = [r \in Ranks |-> Remaining(Shard(r), LogProbCut(r), d)]
        /\ \A r \in Ranks : PassedBy(Len(LogProbCut(r)), Shard(r), LogProbCut(r), d,
                                     indices[r], out[r], DOMAIN rows)
  BY <1>1 DEF RankInv, Forwarded
<1>6. ASSUME NEW r \in Ranks PROVE Reverted(r) = Shard(r)
  <2> DEFINE parts == [q \in Ranks |-> Shard(q)]
             n == ShardSize
             cut == LogProbCut(r)
             X == DOMAIN rows
             part == Shard(r)
             o == out[r]
             idx == indices[r]
             size == LogProbMicro
  <2>1. PlanIs(n, K, parts, r, MicroBatches(parts, r, LogProbMicro))
    BY <1>3, PlanOf
  <2>2. PlanIs(n, K, parts, r, cut) /\ parts[r] = part
    BY <2>1 DEF LogProbCut
  <2>3. micro[r] = Remaining(part, cut, d) /\ idx = FlattenSeq(cut)
    BY <1>4, <1>5
  <2>4. PassedBy(Len(cut), part, cut, d, idx, o, X)
    BY <1>5
  <2>5. ~dynamic => cut = Runs(K, size) /\ n = K * size
    BY <1>3 DEF Plan, CutWell, LogProbCut
  <2>6. size \in Nat \ {0}
    BY Sizes
  <2> HIDE DEF parts, n, cut, X, part, o, idx, size
  <2>7. /\ n \in Nat \ {0} /\ n \in Nat /\ K \in Nat \ {0}
        /\ part \in Seq(X) /\ Len(part) = n /\ Pieces(n, K, cut) /\ Len(cut) = K
    BY <2>2 DEF PlanIs, X
  <2>8. PassedBy(K, part, cut, d, FlattenSeq(cut), o, X) /\ d \in 0..K
    BY <2>3, <2>4, <2>7 DEF PassedBy
  <2>9. d = K
    <3>1. Remaining(part, cut, d) = << >>
      BY <1>1, <2>3
    <3> QED  BY <2>7, <2>8, <3>1, NoneLeft
  <2>10. PassedBy(K, part, cut, K, FlattenSeq(cut), o, X)
    BY <2>8, <2>9
  <2>11. /\ Order(n, FlattenSeq(cut)) /\ DOMAIN o = 1..n
         /\ \A p \in 1..n : o[p] = part[FlattenSeq(cut)[p]]
    BY <2>7, <2>10, PassesDone
  <2>12. Order(n, idx) /\ \A p \in 1..n : o[p] = part[idx[p]]
    BY <2>3, <2>11
  <2>13. CASE dynamic
    <3>1. PutBack(n, part, idx, o)
      BY <2>7, <2>12, ReverseIdxPutsBack
    <3>2. Reverted(r) = [i \in DOMAIN o |-> o[ReverseIdx(idx)[i]]]
      BY <2>13 DEF Reverted, o, idx
    <3> QED  BY <2>11, <3>1, <3>2 DEF PutBack, part
  <2>14. CASE ~dynamic
    <3>1. idx = Run(0, n)
      BY <2>3, <2>5, <2>6, <2>7, <2>14, FlatRuns
    <3>2. \A p \in 1..n : o[p] = part[p]
      <4>1. \A p \in 1..n : idx[p] = p
        BY <3>1 DEF Run
      <4> QED  BY <2>12, <4>1
    <3>3. o \in Seq(X)
      BY <2>8 DEF PassedBy
    <3>4. o = part
      BY <2>7, <2>11, <3>2, <3>3
    <3> QED  BY <2>14, <3>4 DEF Reverted, o, part
  <2> QED  BY <2>13, <2>14
<1>7. logProb' = [k \in DOMAIN rows |-> k]
  <2>1. [r \in Ranks |-> Reverted(r)] = [r \in Ranks |-> Shard(r)]
    BY <1>6
  <2> QED  BY <1>1, <1>2, <2>1, FlatShards
<1>8. LogProbsOfOwnRow'
  BY <1>1, <1>7 DEF LogProbsOfOwnRow
<1>9. micro' = [r \in Ranks |-> << >>]
  <2>1. micro = [r \in Ranks |-> micro[r]]
    BY <1>5
  <2> QED  BY <1>1, <2>1
<1>10. minis' = 0 /\ dynamic' \in BOOLEAN /\ phase' \in {"balanced", "done"}
  BY <1>1, <1>2 DEF RankInv
<1> QED  BY <1>1, <1>8, <1>9, <1>10 DEF RankInv, RowsWeighAlike

-----------------------------------------------------------------------------
(***************************************************************************)
(* The steps of the driver and the update.                                 *)
(***************************************************************************)
LEMMA DriverRanks ==
  ASSUME BatchInv, RankInv, Driver
  PROVE  RankInv'
<1>1. /\ dynamic' = dynamic /\ stage' = stage /\ micro' = micro /\ indices' = indices
      /\ out' = out /\ logProb' = logProb /\ minis' = minis /\ weights' = weights
  BY DEF Driver, rankVars
<1>2. CASE StepReturns \/ Adjust \/ Balance
  <2>1. phase \notin {"balanced", "done"}
    BY <1>2 DEF StepReturns, Adjust, Balance
  <2>2. stage = "driver"
    BY <2>1 DEF RankInv
  <2>3. phase' # "done"
    BY <1>2 DEF StepReturns, Adjust, Balance
  <2> QED  BY <1>1, <2>2, <2>3 DEF RankInv, LogProbsOfOwnRow, RowsWeighAlike
<1>3. CASE stage = "collected" /\ MilestoneGAE
  <2>1. phase' = "done" /\ rows' = rows
    BY <1>3 DEF MilestoneGAE
  <2>2. logProb' = [k \in DOMAIN rows |-> k]
    BY <1>1, <1>3 DEF RankInv, LogProbsOfOwnRow
  <2> QED  BY <1>1, <1>3, <2>1, <2>2 DEF RankInv, LogProbsOfOwnRow, RowsWeighAlike
<1> QED  BY <1>2, <1>3 DEF Driver

\* Which rows still wait after a step.
PendingNext(k) ==
  Pending(k)' <=> \/ k > (Owner(k) - 1) * ShardSize + minis' * MiniBatch
                  \/ Left(micro'[Owner(k)], k)

\* Rows wait for what is left of the mini-batch and for later mini-batches.
LEMMA PendingAfter ==
  ASSUME rows' = rows, dynamic' = dynamic, NEW k
  PROVE  PendingNext(k)
<1>1. Owner(k)' = Owner(k) /\ ShardSize' = ShardSize
  BY SameCuts
<1>2. Owner(k)' = Owner(k)
  BY <1>1
<1> QED  BY <1>1 DEF PendingNext, Pending, Left

\* Before the first mini-batch all rows wait.
LEMMA DispatchUpdateRanks ==
  ASSUME BatchInv, RankInv, DispatchUpdate
  PROVE  RankInv'
<1>1. /\ phase = "done" /\ stage = "collected" /\ stage' = "update"
      /\ rows' = rows /\ phase' = phase /\ dynamic' = dynamic /\ micro' = micro
      /\ out' = out /\ logProb' = logProb /\ minis' = minis
      /\ weights' = [k \in DOMAIN rows |-> << >>]
  BY DEF DispatchUpdate, vars
<1>2. OnRanks /\ dynamic \in BOOLEAN
  BY <1>1, BatchOnRanks
<1>3. minis = 0 /\ micro = [r \in Ranks |-> << >>] /\ logProb = [k \in DOMAIN rows |-> k]
  BY <1>1 DEF RankInv, LogProbsOfOwnRow
<1>4. ASSUME NEW k \in DOMAIN rows PROVE Pending(k)'
  <2>1. /\ Owner(k) \in Ranks /\ (Owner(k) - 1) * ShardSize \in Nat
        /\ k > (Owner(k) - 1) * ShardSize
    BY <1>2, OwnerIs DEF OnRanks
  <2>2. minis' * MiniBatch = 0
    BY <1>1, <1>3, Sizes
  <2>3. k > (Owner(k) - 1) * ShardSize + minis' * MiniBatch
    BY <2>1, <2>2
  <2>4. PendingNext(k)
    BY <1>1, PendingAfter
  <2> QED  BY <2>3, <2>4 DEF PendingNext
<1>5. Weighed'
  <2>1. \A k \in DOMAIN rows' : weights'[k] = << >>
    BY <1>1
  <2>2. \A k \in DOMAIN rows' : Pending(k)'
    BY <1>1, <1>4
  <2> QED  BY <2>1, <2>2 DEF Weighed
<1>6. Updating'
  <2>1. NumMiniBatches' = NumMiniBatches /\ NumMiniBatches \in Nat
    BY <1>1, <1>2, SameCuts, MiniCount DEF OnRanks
  <2>2. minis' \in 0..NumMiniBatches' /\ minis' = 0 /\ micro' = [r \in Ranks |-> << >>]
    BY <1>1, <1>3, <2>1
  <2> QED  BY <1>5, <2>2 DEF Updating
<1>7. weights' = [k \in DOMAIN rows' |-> weights'[k]]
  BY <1>1
<1>8. LogProbsOfOwnRow' /\ dynamic' \in BOOLEAN
  BY <1>1, <1>2, <1>3 DEF LogProbsOfOwnRow
<1> QED  BY <1>1, <1>6, <1>7, <1>8 DEF RankInv, RowsWeighAlike

\* A mini-batch is cut from the rows that wait, and no other row is in it.
LEMMA NextMiniBatchRanks ==
  ASSUME BatchInv, RankInv, NextMiniBatch
  PROVE  RankInv'
<1> DEFINE b == minis + 1
           s == ShardSize
           N == NumMiniBatches
<1>1. /\ stage = "update" /\ stage' = "update" /\ minis < N /\ minis' = b
      /\ rows' = rows /\ phase' = phase /\ dynamic' = dynamic
      /\ out' = out /\ logProb' = logProb /\ weights' = weights
      /\ \A r \in Ranks : micro[r] = << >>
  BY DEF NextMiniBatch, vars
<1>2. OnRanks /\ dynamic \in BOOLEAN
  BY <1>1, BatchOnRanks
<1>3. /\ minis \in 0..N /\ Weighed /\ logProb = [k \in DOMAIN rows |-> k]
      /\ weights = [k \in DOMAIN rows |-> weights[k]]
  BY <1>1 DEF RankInv, Updating, LogProbsOfOwnRow
<1>4. N \in Nat /\ minis \in Nat /\ b \in 1..N /\ b # 0 /\ b \in 0..N /\ b - 1 = minis
  <2>1. N \in Nat
    BY <1>2, MiniCount DEF OnRanks
  <2> HIDE DEF N
  <2> QED  BY <1>1, <1>3, <2>1
<1>5. MiniFits(b)
  BY <1>2, <1>4, MiniIs DEF OnRanks
<1> DEFINE parts == [r \in Ranks |-> MiniRows(r, b)]
           n == MiniLen(b)
           cut(r) == MicroBatches(parts, r, MicroBatch)
<1>6. GivenRows(n, parts) /\ CutsWell(n, MicroBatch, parts) /\ n \in Nat \ {0}
  BY <1>2, <1>4, <1>5, MiniCuts DEF OnRanks, MiniFits
<1>7. PICK K \in 1..n : \A r \in Ranks :
         CutWell(n, K, MicroBatch, dynamic, Tokens(parts[r]), cut(r))
  BY <1>6 DEF CutsWell
<1>8. ASSUME NEW r \in Ranks
      PROVE  /\ AllLeft(parts[r], cut(r))
             /\ \A k : Left(Remaining(parts[r], cut(r), 0), k) <=> k \in ToSet(parts[r])
  <2> DEFINE c == cut(r)
             part == parts[r]
             X == DOMAIN rows
  <2>1. Pieces(n, K, c) /\ Len(c) = K
    BY <1>7 DEF CutWell
  <2>2. part \in Seq(X) /\ Len(part) = n
    BY <1>6 DEF GivenRows
  <2>3. K \in Nat \ {0}
    BY <1>6
  <2> HIDE DEF c, part, X, n
  <2>4. AllLeft(part, c)
    BY <1>6, <2>1, <2>3, AllLeftAtFirst
  <2>5. \A k : Left(Remaining(part, c, 0), k) <=> k \in ToSet(part)
    BY <1>6, <2>1, <2>2, <2>3, LeftAtFirst
  <2> QED  BY <2>4, <2>5 DEF c, part
<1>9. micro' = [r \in Ranks |-> Remaining(parts[r], cut(r), 0)]
  <2>1. micro' = [r \in Ranks |->
                    [j \in DOMAIN cut(r) |-> [i \in DOMAIN cut(r)[j] |-> parts[r][cut(r)[j][i]]]]]
    BY DEF NextMiniBatch
  <2> QED  BY <1>8, <2>1 DEF AllLeft
<1>10. MiniParts' = parts /\ \A r \in Ranks : UpdateCut(r)' = cut(r)
  <2>1. MiniParts' = parts
    BY <1>1, SameCuts DEF MiniParts
  <2>2. \A r \in Ranks : UpdateCut(r)' = MicroBatches(MiniParts', r, MicroBatch)
    BY <1>1, SameCuts DEF UpdateCut
  <2> QED  BY <2>1, <2>2
<1> HIDE DEF cut, parts
<1>11. ASSUME NEW k \in DOMAIN rows PROVE Pending(k)' <=> Pending(k)
  <2> DEFINE o == Owner(k)
             a == (o - 1) * s
             x == minis * MiniBatch
             l == MiniLen(b)
             y == b * MiniBatch
  <2>1. o \in Ranks /\ a \in Nat /\ k > a /\ k <= a + s /\ k \in Nat
    BY <1>2, OwnerIs, RowFacts DEF OnRanks
  <2>2. s \in Nat \ {0}
    BY <1>2, ShardIs DEF OnRanks
  <2>3. /\ x = MiniStart(b) /\ x \in Nat /\ l \in Nat \ {0} /\ x + l <= s /\ x + l <= y
        /\ x + l = y \/ x + l = s
    BY <1>4, <1>5 DEF MiniFits, MiniStart
  <2>4. y \in Nat
    BY <1>4, Sizes
  <2>5. parts[o] = Run(a + x, l)
    BY <1>5, <2>1, <2>3 DEF MiniFits, parts
  <2>6. Pending(k) <=> k > a + x
    <3>1. micro[o] = << >>
      BY <1>1, <2>1
    <3>2. ~Left(micro[o], k)
      BY <3>1 DEF Left
    <3> QED  BY <3>2 DEF Pending
  <2>7. Left(micro'[o], k) <=> k \in ToSet(parts[o])
    BY <1>8, <1>9, <2>1
  <2>8. PendingNext(k)
    BY <1>1, PendingAfter
  <2>9. Pending(k)' <=> k > a + y \/ k \in ToSet(parts[o])
    BY <1>1, <2>7, <2>8 DEF PendingNext
  <2> HIDE DEF a, x, l, y, s, o, b
  <2>10. k \in ToSet(parts[o]) <=> k \in (a + x + 1)..(a + x + l)
    <3> DEFINE c == a + x
               t == a + s
    <3>1. c \in Nat /\ l \in Nat /\ c + l <= t /\ t \in Nat
      BY <2>1, <2>2, <2>3
    <3> HIDE DEF c, t
    <3>2. IsRun(t, c, l, Run(c, l))
      BY <3>1, RunFacts
    <3> QED  BY <2>5, <3>2 DEF IsRun, c
  <2>11. k > a + x <=> k > a + y \/ k \in (a + x + 1)..(a + x + l)
    BY <2>1, <2>2, <2>3, <2>4
  <2> QED  BY <2>6, <2>9, <2>10, <2>11
<1>12. Weighed'
  <2>1. \A k \in DOMAIN rows :
          IF Pending(k)' THEN weights[k] = << >>
          ELSE Len(weights[k]) = 1 /\ OneShare(rows, dynamic, k, weights[k][1])
    BY <1>3, <1>11 DEF Weighed
  <2>2. \A k \in DOMAIN rows' :
          IF Pending(k)' THEN weights'[k] = << >>
          ELSE Len(weights'[k]) = 1 /\ OneShare(rows', dynamic', k, weights'[k][1])
    BY <1>1, <2>1
  <2> QED  BY <2>2 DEF Weighed
<1>13. Updating'
  <2> DEFINE z == 0
  <2>1. NumMiniBatches' = N
    BY <1>1, SameCuts
  <2>2. z \in 0..Len(rows')
    BY <1>1, <1>2, RowFacts DEF OnRanks
  <2>3. \A r \in Ranks : z <= Len(UpdateCut(r)')
    <3> SUFFICES ASSUME NEW r \in Ranks PROVE z <= Len(UpdateCut(r)')
      OBVIOUS
    <3>1. Len(cut(r)) = K /\ K \in Nat
      BY <1>6, <1>7 DEF CutWell
    <3> QED  BY <1>10, <3>1
  <2>4. micro' = [r \in Ranks |-> Remaining(MiniParts'[r], UpdateCut(r)', z)]
    BY <1>9, <1>10
  <2> HIDE DEF z, N
  <2>5. minis' \in 0..NumMiniBatches' /\ minis' # 0
    BY <1>1, <1>4, <2>1
  <2> QED  BY <1>12, <2>2, <2>3, <2>4, <2>5 DEF Updating
<1>14. /\ LogProbsOfOwnRow' /\ weights' = [k \in DOMAIN rows' |-> weights'[k]]
       /\ phase' = "done" /\ dynamic' \in BOOLEAN
  BY <1>1, <1>2, <1>3 DEF LogProbsOfOwnRow, RankInv
<1> QED  BY <1>1, <1>13, <1>14 DEF RankInv, RowsWeighAlike

\* What RowsWeighAlike says of the weights, now and after a step.
LEMMA Alike ==
  /\ RowsWeighAlike <=>
       (stage = "updated" => \A k \in DOMAIN rows :
          Len(weights[k]) = 1 /\ OneShare(rows, dynamic, k, weights[k][1]))
  /\ RowsWeighAlike' <=>
       (stage' = "updated" => \A k \in DOMAIN rows' :
          Len(weights'[k]) = 1 /\ OneShare(rows', dynamic', k, weights'[k][1]))
BY DEF RowsWeighAlike, OneShare, Given, Response

\* If every response of a micro-batch has between lo and hi tokens, the
\* micro-batch has between as many times that.
LEMMA MaskBounds ==
  ASSUME NEW batch, NEW n \in Nat, DOMAIN batch = 1..n,
         NEW lo \in Nat, NEW hi \in Nat, hi <= ResponseLength,
         \A i \in 1..n : Response(batch[i]) \in lo..hi
  PROVE  LET c == Cardinality(ResponseMask(batch))
         IN c \in Nat /\ lo * n <= c /\ c <= hi * n
<1> DEFINE M == ResponseMask(batch)
           A(t) == (1..n) \X (1..t)
<1>1. ASSUME NEW t \in Nat PROVE IsFiniteSet(A(t)) /\ Cardinality(A(t)) = n * t
  <2>1. IsFiniteSet(1..n) /\ IsFiniteSet(1..t)
    BY FS_Interval
  <2>2. Cardinality(1..n) = n /\ Cardinality(1..t) = t
    BY FS_Interval
  <2> QED  BY <2>1, <2>2, FS_Product
<1>2. M = {u \in (1..n) \X (1..ResponseLength) : u[2] <= Response(batch[u[1]])}
  BY DEF ResponseMask
<1>3. ResponseLength \in Nat
  BY ResponseAssumption
<1>4. M \subseteq A(hi)
  <2> SUFFICES ASSUME NEW i \in 1..n, NEW j \in 1..ResponseLength,
                      j <= Response(batch[i])
               PROVE  j \in 1..hi
    BY <1>2
  <2> QED  BY <1>3
<1>5. A(lo) \subseteq M
  <2> SUFFICES ASSUME NEW i \in 1..n, NEW j \in 1..lo
               PROVE  j \in 1..ResponseLength /\ j <= Response(batch[i])
    BY <1>2
  <2>1. Response(batch[i]) \in lo..hi
    OBVIOUS
  <2> QED  BY <1>3, <2>1
<1> HIDE DEF M, A
<1>6. IsFiniteSet(M) /\ Cardinality(M) <= Cardinality(A(hi))
  BY <1>1, <1>4, FS_Subset
<1>7. Cardinality(A(lo)) <= Cardinality(M)
  BY <1>5, <1>6, FS_Subset
<1>8. Cardinality(M) \in Nat
  BY <1>6, FS_CardinalityType
<1>9. Cardinality(A(hi)) = hi * n /\ Cardinality(A(lo)) = lo * n
  BY <1>1
<1> QED  BY <1>6, <1>7, <1>8, <1>9 DEF M

\* The rows of a micro-batch have the share RowsWeighAlike asks for, whatever
\* their lengths and those of their responses are.
LEMMA RowWeightIs ==
  ASSUME OnRanks, NEW k \in DOMAIN rows, NEW batch \in Seq(DOMAIN rows),
         ~dynamic => Len(batch) = MicroBatch
  PROVE  OneShare(rows, dynamic, k, RowWeight(batch, k))
<1> DEFINE n == Len(batch)
           w == RowWeight(batch, k)
           R == {Given(rows, j) : j \in DOMAIN rows}
           c == Cardinality(ResponseMask(batch))
<1>1. n \in Nat /\ DOMAIN batch = 1..n /\ \A i \in 1..n : batch[i] \in DOMAIN rows
  OBVIOUS
<1>2. \A j \in DOMAIN rows : Given(rows, j) \in 1..ResponseLength
  <2> SUFFICES ASSUME NEW j \in DOMAIN rows
               PROVE  Given(rows, j) \in 1..ResponseLength
    OBVIOUS
  <2>1. /\ rows[j].traj \in 1..Trajs /\ rows[j].at \in 1..steps[rows[j].traj]
        /\ steps[rows[j].traj] \in 1..MaxLength /\ rows[j].at \in Nat
    BY RowFacts DEF OnRanks
  <2>2. rows[j].at \in 1..MaxLength
    BY <2>1, Sizes
  <2>3. <<rows[j].traj, rows[j].at>> \in (1..Trajs) \X (1..MaxLength)
    BY <2>1, <2>2
  <2> HIDE DEF Given
  <2> QED  BY <2>3, ResponseAssumption DEF Given
<1>3. ResponseLength \in Nat
  BY ResponseAssumption
<1>4. R \in SUBSET (0..ResponseLength) /\ R # {} /\ R \in SUBSET Nat
  BY <1>2, <1>3
<1> HIDE DEF R
<1>5. Max(R) \in R /\ \A y \in R : y <= Max(R)
  BY <1>3, <1>4, MaxIs
<1>6. Min(R) \in R /\ \A y \in R : Min(R) <= y
  BY <1>4, MinIs
<1>7. Max(R) \in Nat /\ Min(R) \in Nat /\ Max(R) <= ResponseLength
  <2> DEFINE x == Max(R)
             y == Min(R)
  <2>1. x \in R /\ y \in R
    BY <1>5, <1>6
  <2> HIDE DEF x, y
  <2>2. x \in Nat /\ x <= ResponseLength /\ y \in Nat
    BY <1>3, <1>4, <2>1
  <2> QED  BY <2>2 DEF x, y
<1>8. ASSUME NEW i \in 1..n PROVE Response(batch[i]) \in Min(R)..Max(R)
  <2>1. Given(rows, batch[i]) \in R
    BY <1>1 DEF R
  <2>2. Given(rows, batch[i]) \in Nat
    BY <1>4, <2>1
  <2> QED  BY <1>5, <1>6, <1>7, <2>1, <2>2 DEF Response, Given
<1>9. c \in Nat /\ Min(R) * n <= c /\ c <= Max(R) * n
  BY <1>1, <1>7, <1>8, MaskBounds
<1>10. /\ w["token-mean"] = <<n, c>>
       /\ w["seq-mean-token-sum"] = <<n, n>>
       /\ w["seq-mean-token-mean"] = <<n, Given(rows, k) * n>>
       /\ w["seq-mean-token-sum-norm"] = <<n, ResponseLength>>
  BY DEF RowWeight, Divided, LossAggModes, Response, Given
<1> HIDE DEF w, c, n
<1>11. ~dynamic => n = MicroBatch
  BY DEF n
<1> QED  BY <1>9, <1>10, <1>11 DEF OneShare, w, R

\* A pass gives the rows of a rank's first micro-batch their one weight.
LEMMA BackwardRanks ==
  ASSUME BatchInv, RankInv, Backward
  PROVE  RankInv'
<1> DEFINE N == NumMiniBatches
           parts == MiniParts
           n == MiniLen(minis)
           first(r) == Head(micro[r])
<1>1. /\ stage = "update" /\ stage' = "update" /\ minis' = minis
      /\ rows' = rows /\ phase' = phase /\ dynamic' = dynamic
      /\ out' = out /\ logProb' = logProb
      /\ \A r \in Ranks : micro[r] # << >>
      /\ micro' = [r \in Ranks |-> Tail(micro[r])]
      /\ weights' = [k \in DOMAIN rows |->
           IF k \in ToSet(first(Owner(k)))
           THEN Append(weights[k], RowWeight(first(Owner(k)), k)) ELSE weights[k]]
  BY DEF Backward, vars, Owner
<1>2. OnRanks /\ dynamic \in BOOLEAN
  BY <1>1, BatchOnRanks
<1>3. /\ minis \in 0..N /\ Weighed /\ logProb = [k \in DOMAIN rows |-> k]
      /\ weights = [k \in DOMAIN rows |-> weights[k]]
      /\ IF minis = 0 THEN micro = [r \in Ranks |-> << >>]
         ELSE \E d \in 0..Len(rows) :
                /\ \A r \in Ranks : d <= Len(UpdateCut(r))
                /\ micro = [r \in Ranks |-> Remaining(parts[r], UpdateCut(r), d)]
  BY <1>1 DEF RankInv, Updating, LogProbsOfOwnRow
<1>4. 1 \in Ranks /\ N \in Nat
  BY <1>2, Sizes, MiniCount DEF Ranks, OnRanks
<1>5. minis \in 1..N /\ minis \in Nat /\ minis # 0
  <2>1. minis # 0
    BY <1>1, <1>3, <1>4
  <2> HIDE DEF N
  <2> QED  BY <1>3, <1>4, <2>1
<1>6. PICK d \in 0..Len(rows) :
        /\ \A r \in Ranks : d <= Len(UpdateCut(r))
        /\ micro = [r \in Ranks |-> Remaining(parts[r], UpdateCut(r), d)]
  BY <1>3, <1>5
<1>7. PICK K : Plan(n, K, MicroBatch, parts)
  BY <1>2, <1>5, UpdatePlan
<1>8. MiniFits(minis)
  BY <1>2, <1>5, MiniIs DEF OnRanks
<1>9. ASSUME NEW r \in Ranks
      PROVE  /\ d + 1 <= Len(UpdateCut(r)) /\ d + 1 <= Len(rows)
             /\ micro'[r] = Remaining(parts[r], UpdateCut(r), d + 1)
             /\ \A k : Left(micro[r], k) <=> k \in ToSet(first(r)) \/ Left(micro'[r], k)
             /\ \A k \in ToSet(first(r)) : ~Left(micro'[r], k) /\ k \in ToSet(parts[r])
             /\ ~dynamic => Len(first(r)) = MicroBatch
             /\ first(r) \in Seq(DOMAIN rows)
  <2> DEFINE cut == UpdateCut(r)
             part == parts[r]
             X == DOMAIN rows
             size == MicroBatch
  <2>1. PlanIs(n, K, parts, r, cut)
    BY <1>7, PlanOf DEF UpdateCut
  <2>2. micro[r] = Remaining(part, cut, d) /\ micro'[r] = Tail(micro[r]) /\ micro[r] # << >>
        /\ d <= Len(cut)
    BY <1>1, <1>6
  <2>3. ~dynamic => cut = Runs(K, size)
    BY <1>7 DEF Plan, CutWell, UpdateCut
  <2>4. size \in Nat \ {0} /\ Len(rows) \in Nat
    BY <1>2, Sizes, RowFacts DEF OnRanks
  <2> HIDE DEF cut, X, size, n, parts
  <2>5. /\ n \in Nat \ {0} /\ n <= Len(rows) /\ K \in Nat \ {0} /\ K <= n
        /\ part \in Seq(X) /\ Len(part) = n /\ AllDifferent(part)
        /\ Pieces(n, K, cut) /\ Len(cut) = K
    BY <2>1 DEF PlanIs, X
  <2> HIDE DEF part
  <2>6. d \in 0..K
    BY <2>2, <2>5
  <2>7. d # K
    BY <2>2, <2>5, <2>6, NoneLeft
  <2>8. d \in 0..(K - 1) /\ d < K
    BY <2>5, <2>6, <2>7
  <2> DEFINE M == Remaining(part, cut, d)
             M2 == Remaining(part, cut, d + 1)
  <2>9. /\ Tail(M) = M2 /\ Len(Head(M)) = Len(cut[d + 1]) /\ Head(M) \in Seq(X)
        /\ \A k : Left(M, k) <=> k \in ToSet(Head(M)) \/ Left(M2, k)
        /\ \A k \in ToSet(Head(M)) : ~Left(M2, k) /\ k \in ToSet(part)
    BY <2>5, <2>8, LeftAfterPass
  <2>10. M = micro[r] /\ Head(M) = first(r)
    BY <2>2
  <2> HIDE DEF M, M2, first
  <2>11. M2 = micro'[r]
    BY <2>2, <2>9, <2>10
  <2>12. ~dynamic => Len(cut[d + 1]) = size
    <3>1. d + 1 \in 1..K
      BY <2>5, <2>8
    <3>2. ASSUME ~dynamic PROVE Len(cut[d + 1]) = size
      <4> DEFINE e == d + 1
      <4>1. cut[e] = [i \in 1..size |-> (e - 1) * size + i]
        BY <2>3, <3>1, <3>2 DEF Runs, Run
      <4> HIDE DEF e
      <4>2. Len(cut[e]) = size
        BY <2>4, <4>1
      <4> QED  BY <4>2 DEF e
    <3> QED  BY <3>2
  <2>13. d + 1 <= Len(cut) /\ d + 1 <= Len(rows)
    BY <2>4, <2>5, <2>8
  <2> QED  BY <2>9, <2>10, <2>11, <2>12, <2>13 DEF cut, part, size, M2, X
<1>10. ASSUME NEW k \in DOMAIN rows
       PROVE  /\ Pending(k)' <=> Pending(k) /\ k \notin ToSet(first(Owner(k)))
              /\ k \in ToSet(first(Owner(k))) => Pending(k)
  <2> DEFINE o == Owner(k)
             s == ShardSize
             a == (o - 1) * s
             l == MiniLen(minis)
             x == MiniStart(minis)
             y == minis * MiniBatch
  <2>1. o \in Ranks /\ a \in Nat /\ k \in Nat
    BY <1>2, OwnerIs, RowFacts DEF OnRanks
  <2>2. /\ x \in Nat /\ l \in Nat \ {0} /\ x + l <= y
    BY <1>8 DEF MiniFits
  <2>3. y \in Nat
    BY <1>5, Sizes
  <2>4. parts[o] = Run(a + x, l)
    BY <1>8, <2>1 DEF MiniFits, MiniParts
  <2>5. Pending(k) <=> k > a + y \/ Left(micro[o], k)
    BY DEF Pending
  <2>6. PendingNext(k)
    BY <1>1, PendingAfter
  <2>7. Pending(k)' <=> k > a + y \/ Left(micro'[o], k)
    BY <1>1, <2>6 DEF PendingNext
  <2>8. Left(micro[o], k) <=> k \in ToSet(first(o)) \/ Left(micro'[o], k)
    BY <1>9, <2>1
  <2>9. k \in ToSet(first(o)) => ~Left(micro'[o], k) /\ k \in ToSet(parts[o])
    BY <1>9, <2>1
  <2> HIDE DEF a, x, l, y, s, o, parts, first
  <2>10. k \in ToSet(parts[o]) => ~(k > a + y)
    <3> DEFINE c == a + x
               t == a + x + l
    <3>1. c \in Nat /\ l \in Nat /\ c + l <= t /\ t \in Nat
      BY <2>1, <2>2
    <3> HIDE DEF c, t
    <3>2. IsRun(t, c, l, Run(c, l))
      BY <3>1, RunFacts
    <3>3. k \in ToSet(parts[o]) => k \in (c + 1)..(c + l)
      BY <2>4, <3>2 DEF IsRun, c
    <3>4. k \in (c + 1)..(c + l) => ~(k > a + y)
      BY <2>1, <2>2, <2>3 DEF c
    <3> QED  BY <3>3, <3>4
  <2>11. Pending(k)' <=> Pending(k) /\ k \notin ToSet(first(o))
    BY <2>5, <2>7, <2>8, <2>9, <2>10
  <2>12. k \in ToSet(first(o)) => Pending(k)
    BY <2>5, <2>8
  <2> QED  BY <2>11, <2>12 DEF o
<1>11. ASSUME NEW k \in DOMAIN rows
       PROVE  IF Pending(k)' THEN weights'[k] = << >>
              ELSE Len(weights'[k]) = 1 /\ OneShare(rows, dynamic, k, weights'[k][1])
  <2> DEFINE w == RowWeight(first(Owner(k)), k)
  <2>1. IF Pending(k) THEN weights[k] = << >>
        ELSE Len(weights[k]) = 1 /\ OneShare(rows, dynamic, k, weights[k][1])
    BY <1>3 DEF Weighed
  <2>2. weights'[k] = IF k \in ToSet(first(Owner(k)))
                      THEN Append(weights[k], w) ELSE weights[k]
    BY <1>1
  <2>3. OneShare(rows, dynamic, k, w)
    <3>1. Owner(k) \in Ranks
      BY <1>2, OwnerIs DEF OnRanks
    <3>2. /\ first(Owner(k)) \in Seq(DOMAIN rows)
          /\ ~dynamic => Len(first(Owner(k))) = MicroBatch
      BY <1>9, <3>1
    <3> HIDE DEF first
    <3> QED  BY <1>2, <3>2, RowWeightIs
  <2> HIDE DEF w
  <2>4. CASE k \in ToSet(first(Owner(k)))
    <3>1. Pending(k) /\ ~Pending(k)'
      BY <1>10, <2>4
    <3>2. weights'[k] = <<w>>
      <4>1. weights'[k] = Append(<< >>, w)
        BY <2>1, <2>2, <2>4, <3>1
      <4> QED  BY <4>1
    <3>3. Len(weights'[k]) = 1 /\ weights'[k][1] = w
      BY <3>2
    <3> QED  BY <2>3, <3>1, <3>3
  <2>5. CASE k \notin ToSet(first(Owner(k)))
    <3>1. (Pending(k)' <=> Pending(k)) /\ weights'[k] = weights[k]
      BY <1>10, <2>2, <2>5
    <3> QED  BY <2>1, <3>1
  <2> QED  BY <2>4, <2>5
<1>12. Weighed'
  BY <1>1, <1>11 DEF Weighed
<1>13. Updating'
  <2> DEFINE e == d + 1
  <2>1. /\ NumMiniBatches' = N /\ MiniParts' = parts
        /\ \A r \in Ranks : UpdateCut(r)' = UpdateCut(r)
    <3>1. MiniParts' = parts
      BY <1>1, SameCuts DEF MiniParts
    <3> HIDE DEF parts
    <3>2. \A r \in Ranks : UpdateCut(r)' = MicroBatches(MiniParts', r, MicroBatch)
      BY <1>1, SameCuts DEF UpdateCut
    <3> QED  BY <1>1, <3>1, <3>2, SameCuts DEF UpdateCut, parts
  <2>2. e \in 0..Len(rows')
    <3>1. Len(rows) \in Nat
      BY <1>2, RowFacts DEF OnRanks
    <3>2. e <= Len(rows)
      BY <1>4, <1>9
    <3> QED  BY <1>1, <3>1, <3>2
  <2>3. \A r \in Ranks : e <= Len(UpdateCut(r)')
    BY <1>9, <2>1
  <2>4. micro' = [r \in Ranks |-> Remaining(MiniParts'[r], UpdateCut(r)', e)]
    <3>1. micro' = [r \in Ranks |-> micro'[r]]
      BY <1>1
    <3> QED  BY <1>9, <2>1, <3>1
  <2>5. minis' \in 0..NumMiniBatches' /\ minis' # 0
    BY <1>1, <1>3, <1>5, <2>1
  <2> HIDE DEF e
  <2> QED  BY <1>12, <2>2, <2>3, <2>4, <2>5 DEF Updating
<1>14. /\ LogProbsOfOwnRow' /\ weights' = [k \in DOMAIN rows' |-> weights'[k]]
       /\ phase' = "done" /\ dynamic' \in BOOLEAN
  BY <1>1, <1>2, <1>3 DEF LogProbsOfOwnRow, RankInv
<1> QED  BY <1>1, <1>13, <1>14 DEF RankInv, RowsWeighAlike

\* After the last mini-batch no row waits.
LEMMA UpdateEndsRanks ==
  ASSUME BatchInv, RankInv, UpdateEnds
  PROVE  RankInv'
<1>1. /\ stage = "update" /\ stage' = "updated" /\ minis' = minis /\ minis = NumMiniBatches
      /\ rows' = rows /\ phase' = phase /\ dynamic' = dynamic /\ weights' = weights
      /\ out' = out /\ logProb' = logProb /\ micro' = micro
      /\ \A r \in Ranks : micro[r] = << >>
  BY DEF UpdateEnds, vars
<1>2. OnRanks /\ dynamic \in BOOLEAN
  BY <1>1, BatchOnRanks
<1>3. /\ Weighed /\ logProb = [k \in DOMAIN rows |-> k]
      /\ weights = [k \in DOMAIN rows |-> weights[k]]
      /\ micro = [r \in Ranks |-> micro[r]]
  BY <1>1 DEF RankInv, Updating, LogProbsOfOwnRow
<1>4. ASSUME NEW k \in DOMAIN rows PROVE ~Pending(k)
  <2> DEFINE o == Owner(k)
             s == ShardSize
             a == (o - 1) * s
             y == minis * MiniBatch
  <2>1. o \in Ranks /\ a \in Nat /\ k \in Nat /\ k <= a + s /\ s \in Nat
    BY <1>2, OwnerIs, RowFacts, ShardIs DEF OnRanks
  <2>2. s <= y /\ y \in Nat
    <3>1. s <= NumMiniBatches * MiniBatch /\ NumMiniBatches \in Nat
      BY <1>2, MiniCount DEF OnRanks
    <3> QED  BY <1>1, <3>1, Sizes
  <2>3. ~Left(micro[o], k)
    BY <1>1, <2>1 DEF Left
  <2>4. Pending(k) <=> k > a + y \/ Left(micro[o], k)
    BY DEF Pending
  <2> HIDE DEF a, y, s, o
  <2> QED  BY <2>1, <2>2, <2>3, <2>4
<1>5. \A k \in DOMAIN rows :
        Len(weights[k]) = 1 /\ OneShare(rows, dynamic, k, weights[k][1])
  BY <1>3, <1>4 DEF Weighed
<1>6. RowsWeighAlike'
  BY <1>1, <1>5, Alike
<1>7. LogProbsOfOwnRow' /\ weights' = [k \in DOMAIN rows' |-> weights'[k]]
  BY <1>1, <1>3 DEF LogProbsOfOwnRow
<1>8. micro' = [r \in Ranks |-> << >>]
  BY <1>1, <1>3
<1>9. phase' = "done" /\ dynamic' \in BOOLEAN
  BY <1>1, <1>2 DEF RankInv
<1> QED  BY <1>1, <1>6, <1>7, <1>8, <1>9 DEF RankInv

\* No other step changes what the ranks have.
LEMMA SameRanks ==
  ASSUME RankInv, UNCHANGED <<vars, rankVars>>
  PROVE  RankInv'
<1>1. /\ rows' = rows /\ phase' = phase /\ dynamic' = dynamic /\ stage' = stage
      /\ micro' = micro /\ indices' = indices /\ out' = out /\ logProb' = logProb
      /\ minis' = minis /\ weights' = weights
  BY DEF vars, rankVars
<1>2. ASSUME Forwarded PROVE Forwarded'
  <2>1. indices' = [r \in Ranks |-> FlattenSeq(LogProbCut(r))]
    BY <1>1, <1>2 DEF Forwarded
  <2>2. PICK d \in 0..Len(rows) :
          /\ micro = [r \in Ranks |-> Remaining(Shard(r), LogProbCut(r), d)]
          /\ \A r \in Ranks : PassedBy(Len(LogProbCut(r)), Shard(r), LogProbCut(r), d,
                                       indices[r], out[r], DOMAIN rows)
    BY <1>2 DEF Forwarded
  <2>3. /\ micro' = [r \in Ranks |-> Remaining(Shard(r), LogProbCut(r), d)]
        /\ \A r \in Ranks : PassedBy(Len(LogProbCut(r)), Shard(r), LogProbCut(r), d,
                                     indices'[r], out'[r], DOMAIN rows)
    BY <1>1, <2>2
  <2> QED  BY <1>1, <2>1, <2>3, ForwardedNext
<1>3. ASSUME Updating PROVE Updating'
  <2>1. \A k : Pending(k)' <=> Pending(k)
    <3> SUFFICES ASSUME NEW k PROVE Pending(k)' <=> Pending(k)
      OBVIOUS
    <3>1. PendingNext(k)
      BY <1>1, PendingAfter
    <3> QED  BY <1>1, <3>1 DEF PendingNext, Pending
  <2>2. Weighed'
    <3>1. \A k \in DOMAIN rows :
            IF Pending(k)' THEN weights[k] = << >>
            ELSE Len(weights[k]) = 1 /\ OneShare(rows, dynamic, k, weights[k][1])
      BY <1>3, <2>1 DEF Weighed, Updating
    <3> QED  BY <1>1, <3>1 DEF Weighed
  <2>3. NumMiniBatches' = NumMiniBatches /\ MiniParts' = MiniParts
    BY <1>1, SameCuts DEF MiniParts
  <2>4. \A r \in Ranks : UpdateCut(r)' = UpdateCut(r)
    <3>1. \A r \in Ranks : UpdateCut(r)' = MicroBatches(MiniParts', r, MicroBatch)
      BY <1>1, SameCuts DEF UpdateCut
    <3> QED  BY <2>3, <3>1 DEF UpdateCut
  <2> QED  BY <1>1, <1>3, <2>2, <2>3, <2>4 DEF Updating
<1>4. RowsWeighAlike'
  BY <1>1, Alike DEF RankInv
<1> QED  BY <1>1, <1>2, <1>3, <1>4 DEF RankInv, LogProbsOfOwnRow

\* No step of the driver or of a rank breaks what holds of the ranks.
LEMMA RankNextInv ==
  ASSUME BatchInv, RankInv, [RankNext]_<<vars, rankVars>>
  PROVE  RankInv'
<1>1. CASE Driver
  BY <1>1, DriverRanks
<1>2. CASE DispatchLogProb
  BY <1>2, DispatchLogProbRanks
<1>3. CASE Forward
  BY <1>3, ForwardRanks
<1>4. CASE CollectLogProb
  BY <1>4, CollectLogProbRanks
<1>5. CASE DispatchUpdate
  BY <1>5, DispatchUpdateRanks
<1>6. CASE NextMiniBatch
  BY <1>6, NextMiniBatchRanks
<1>7. CASE Backward
  BY <1>7, BackwardRanks
<1>8. CASE UpdateEnds
  BY <1>8, UpdateEndsRanks
<1>9. CASE UNCHANGED <<vars, rankVars>>
  BY <1>9, SameRanks
<1> QED  BY <1>1, <1>2, <1>3, <1>4, <1>5, <1>6, <1>7, <1>8, <1>9 DEF RankNext, RankStep, Ended

\* The inductive invariant of the ranks: what each has still to do are the
\* last micro-batches of its cut, its results are those of the first ones,
\* and a row has its gradient weight as soon as its pass is done.
THEOREM RankInvariant == RankSpec => []RankInv
<1>1. RankInit => RankInv
  <2> SUFFICES ASSUME RankInit PROVE RankInv
    OBVIOUS
  <2>1. /\ phase = "collected" /\ dynamic \in DynamicBsz /\ stage = "driver"
        /\ micro = [r \in Ranks |-> << >>] /\ out = [r \in Ranks |-> << >>] /\ minis = 0
    BY DEF RankInit, Init
  <2>2. dynamic \in BOOLEAN
    BY <2>1, Sizes
  <2> QED  BY <2>1, <2>2 DEF RankInv, LogProbsOfOwnRow, RowsWeighAlike
<1>2. BatchInv /\ RankInv /\ [RankNext]_<<vars, rankVars>> => RankInv'
  BY RankNextInv
<1> QED  BY <1>1, <1>2, BatchInvariant, PTL DEF RankSpec

\* Collected log-probabilities are those of their rows (LogProbsOfOwnRow).
THEOREM LogProbsStayWithRows == RankSpec => []LogProbsOfOwnRow
<1>1. RankInv => LogProbsOfOwnRow
  BY DEF RankInv
<1> QED  BY <1>1, RankInvariant, PTL

\* After the update every row has had one weight, and all rows the same
\* (RowsWeighAlike).
THEOREM RowsStayAlike == RankSpec => []RowsWeighAlike
<1>1. RankInv => RowsWeighAlike
  BY DEF RankInv
<1> QED  BY <1>1, RankInvariant, PTL

\* What the ranks have still to do are the last micro-batches of a plan.
Working(n, K, size, parts, d) ==
  /\ OnRanks /\ dynamic \in BOOLEAN
  /\ Plan(n, K, size, parts) /\ d \in 0..K
  /\ micro = [r \in Ranks |-> Remaining(parts[r], MicroBatches(parts, r, size), d)]

\* Whatever a rank has to do was cut by all ranks together.
LEMMA WorkIsPlanned ==
  ASSUME BatchInv, RankInv, micro # [r \in Ranks |-> << >>]
  PROVE  \E n, K, size, parts, d : Working(n, K, size, parts, d)
<1>1. stage \in {"log_prob", "update"}
  BY DEF RankInv
<1>2. OnRanks /\ dynamic \in BOOLEAN
  BY <1>1, BatchOnRanks
<1>3. CASE stage = "log_prob"
  <2> DEFINE parts == [q \in Ranks |-> Shard(q)]
             n == ShardSize
             size == LogProbMicro
  <2>1. PICK K : Plan(n, K, size, parts)
    BY <1>2, LogProbPlan
  <2>2. PICK d \in 0..Len(rows) :
          /\ micro = [r \in Ranks |-> Remaining(Shard(r), LogProbCut(r), d)]
          /\ \A r \in Ranks : PassedBy(Len(LogProbCut(r)), Shard(r), LogProbCut(r), d,
                                       indices[r], out[r], DOMAIN rows)
    BY <1>3 DEF RankInv, Forwarded
  <2>3. micro = [r \in Ranks |-> Remaining(parts[r], MicroBatches(parts, r, size), d)]
    BY <2>2 DEF LogProbCut
  <2>4. d \in 0..K
    <3>1. 1 \in Ranks
      BY Sizes DEF Ranks
    <3>2. PlanIs(n, K, parts, 1, LogProbCut(1))
      BY <2>1, <3>1, PlanOf DEF LogProbCut
    <3>3. d \in 0..Len(LogProbCut(1))
      BY <2>2, <3>1 DEF PassedBy
    <3> QED  BY <3>2, <3>3 DEF PlanIs
  <2> HIDE DEF parts, n, size
  <2>5. Working(n, K, size, parts, d)
    BY <1>2, <2>1, <2>3, <2>4 DEF Working
  <2> QED  BY <2>5
<1>4. CASE stage = "update"
  <2> DEFINE parts == MiniParts
             n == MiniLen(minis)
             size == MicroBatch
  <2>1. minis \in 0..NumMiniBatches /\ minis # 0
    BY <1>4 DEF RankInv, Updating
  <2>2. minis \in 1..NumMiniBatches
    <3>1. NumMiniBatches \in Nat
      BY <1>2, MiniCount DEF OnRanks
    <3> QED  BY <2>1, <3>1
  <2>3. PICK K : Plan(n, K, size, parts)
    BY <1>2, <2>2, UpdatePlan
  <2>4. PICK d \in 0..Len(rows) :
          /\ \A r \in Ranks : d <= Len(UpdateCut(r))
          /\ micro = [r \in Ranks |-> Remaining(parts[r], UpdateCut(r), d)]
    BY <1>4, <2>1 DEF RankInv, Updating
  <2>5. micro = [r \in Ranks |-> Remaining(parts[r], MicroBatches(parts, r, size), d)]
    BY <2>4 DEF UpdateCut
  <2>6. d \in 0..K
    <3>1. 1 \in Ranks
      BY Sizes DEF Ranks
    <3>2. PlanIs(n, K, parts, 1, UpdateCut(1))
      BY <2>3, <3>1, PlanOf DEF UpdateCut
    <3>3. d <= Len(UpdateCut(1))
      BY <2>4, <3>1
    <3> QED  BY <3>2, <3>3 DEF PlanIs
  <2> HIDE DEF parts, n, size
  <2>7. Working(n, K, size, parts, d)
    BY <1>2, <2>3, <2>5, <2>6 DEF Working
  <2> QED  BY <2>7
<1> QED  BY <1>1, <1>3, <1>4

\* All ranks have equally many micro-batches left.
LEMMA InStep ==
  ASSUME BatchInv, RankInv
  PROVE  RanksInStep
<1>1. CASE micro = [r \in Ranks |-> << >>]
  BY <1>1 DEF RanksInStep
<1>2. CASE micro # [r \in Ranks |-> << >>]
  <2>1. PICK n, K, size, parts, d : Working(n, K, size, parts, d)
    BY <1>2, WorkIsPlanned
  <2>2. ASSUME NEW r \in Ranks PROVE Len(micro[r]) = K - d
    <3> DEFINE cut == MicroBatches(parts, r, size)
               X == DOMAIN rows
    <3>1. PlanIs(n, K, parts, r, cut) /\ micro[r] = Remaining(parts[r], cut, d) /\ d \in 0..K
      BY <2>1, PlanOf DEF Working
    <3> HIDE DEF cut, X
    <3>2. /\ n \in Nat /\ K \in Nat /\ parts[r] \in Seq(X) /\ Len(parts[r]) = n
          /\ cut \in [1..K -> Seq(1..n)] /\ Len(cut) = K
      BY <3>1 DEF PlanIs, Pieces, X
    <3>3. RemainingIs(K, X, parts[r], cut, d)
      BY <3>1, <3>2, RemainingFacts
    <3> QED  BY <3>1, <3>3 DEF RemainingIs
  <2> QED  BY <2>2 DEF RanksInStep
<1> QED  BY <1>1, <1>2

\* No rank waits for a rank without a micro-batch (RanksInStep).
THEOREM RanksStayInStep == RankSpec => []RanksInStep
BY BatchInvariant, RankInvariant, InStep, PTL

\* A micro-batch of a good cut is not empty and near the budget.
LEMMA WorkNearBudget ==
  ASSUME BatchInv, RankInv
  PROVE  MicroBatchesNearBudget
<1> SUFFICES ASSUME NEW r \in Ranks, NEW b \in DOMAIN micro[r]
             PROVE  LET lens == Tokens(micro[r][b])
                    IN /\ lens # << >>
                       /\ dynamic => SumOver(lens, [i \in DOMAIN lens |-> i])
                                       < MaxTokenLen + Max(ToSet(lens))
  BY DEF MicroBatchesNearBudget
<1>1. micro # [q \in Ranks |-> << >>]
  OBVIOUS
<1>2. PICK n, K, size, parts, d : Working(n, K, size, parts, d)
  BY <1>1, WorkIsPlanned
<1> DEFINE cuts == MicroBatches(parts, r, size)
           X == DOMAIN rows
           M == micro[r]
           part == parts[r]
           m == MaxTokenLen
<1>3. /\ PlanIs(n, K, parts, r, cuts) /\ M = Remaining(part, cuts, d) /\ d \in 0..K
      /\ CutWell(n, K, size, dynamic, Tokens(part), cuts)
      /\ Typed(steps, rows)
  BY <1>2, PlanOf DEF Working, Plan, OnRanks
<1> HIDE DEF cuts
<1>4. /\ n \in Nat /\ K \in Nat /\ part \in Seq(X) /\ Len(part) = n
      /\ cuts \in [1..K -> Seq(1..n)] /\ Len(cuts) = K
      /\ \A q \in 1..K : AllDifferent(cuts[q]) /\ cuts[q] # << >>
      /\ dynamic => \A q \in 1..K : NearBudget(m, Tokens(part), cuts[q])
  BY <1>3 DEF PlanIs, Pieces, CutWell, AllDifferent
<1> HIDE DEF M
<1>5. RemainingIs(K, X, part, cuts, d)
  BY <1>3, <1>4, RemainingFacts
<1>6. /\ M \in Seq(Seq(X)) /\ Len(M) = K - d
      /\ \A q \in 1..(K - d) :
           /\ Len(M[q]) = Len(cuts[d + q])
           /\ \A i \in 1..Len(cuts[d + q]) : M[q][i] = part[cuts[d + q][i]]
  BY <1>3, <1>5 DEF RemainingIs
<1> DEFINE c == cuts[d + b]
           batch == M[b]
           t == Len(c)
           lens == Tokens(batch)
           all == Tokens(part)
<1>7. b \in 1..(K - d) /\ d + b \in 1..K
  <2>1. b \in DOMAIN M
    BY DEF M
  <2>2. DOMAIN M = 1..(K - d)
    BY <1>6
  <2>3. d \in 0..K /\ K \in Nat
    BY <1>3, <1>4
  <2>4. b \in 1..(K - d)
    BY <2>1, <2>2
  <2> QED  BY <2>3, <2>4
<1>8. /\ c \in Seq(1..n) /\ AllDifferent(c) /\ c # << >>
      /\ dynamic => NearBudget(m, all, c)
      /\ batch \in Seq(X) /\ Len(batch) = t
      /\ \A i \in 1..t : batch[i] = part[c[i]]
  <2>1. /\ c \in Seq(1..n) /\ AllDifferent(c) /\ c # << >>
        /\ dynamic => NearBudget(m, all, c)
    BY <1>4, <1>7
  <2>2. Len(batch) = t /\ \A i \in 1..t : batch[i] = part[c[i]]
    BY <1>6, <1>7
  <2>3. batch \in Seq(X)
    <3> DEFINE L == Seq(X)
               k == K - d
    <3>1. M \in Seq(L) /\ Len(M) = k /\ b \in 1..k
      BY <1>6, <1>7
    <3> HIDE DEF L, k
    <3>2. M[b] \in L
      BY <3>1
    <3> QED  BY <3>2 DEF L
  <2> QED  BY <2>1, <2>2, <2>3
<1> HIDE DEF c, batch, lens, all, m, part
<1>9. t \in Nat \ {0} /\ DOMAIN c = 1..t /\ \A i \in 1..t : c[i] \in 1..n
  <2>1. c \in Seq(1..n) /\ c # << >>
    BY <1>8
  <2>2. Len(c) \in Nat /\ Len(c) # 0 /\ DOMAIN c = 1..Len(c)
    BY <2>1
  <2>3. \A i \in 1..Len(c) : c[i] \in 1..n
    <3> DEFINE D == 1..n
    <3>1. c \in Seq(D)
      BY <2>1
    <3> HIDE DEF D
    <3>2. \A i \in 1..Len(c) : c[i] \in D
      BY <3>1
    <3> QED  BY <3>2 DEF D
  <2> QED  BY <2>2, <2>3
<1> HIDE DEF t
<1>10. /\ lens \in Seq(1..m) /\ Len(lens) = t /\ DOMAIN lens = 1..t
       /\ \A i \in 1..t : lens[i] = rows[batch[i]].tokens
  BY <1>3, <1>8, TokensIs DEF lens, X, m
<1>11. /\ all \in Seq(1..m) /\ Len(all) = n
       /\ \A i \in 1..n : all[i] = rows[part[i]].tokens
  BY <1>3, <1>4, TokensIs DEF all, X, m
<1>12. \A i \in 1..t : lens[i] = all[c[i]]
  BY <1>8, <1>9, <1>10, <1>11
<1>13. lens # << >>
  BY <1>9, <1>10
<1>14. ASSUME dynamic
       PROVE  SumOver(lens, [i \in DOMAIN lens |-> i]) < m + Max(ToSet(lens))
  <2> DEFINE q == [i \in DOMAIN lens |-> i]
             L == Total(m, all, ToSet(c))
             S == ToSet(lens)
  <2>1. DOMAIN q = 1..Len(c) /\ \A i \in 1..Len(c) : lens[q[i]] = all[c[i]]
    BY <1>10, <1>12 DEF t
  <2>2. m \in Nat
    BY Sizes DEF m
  <2> HIDE DEF q
  <2>3. SameLengths(all, c, lens, q)
    BY <2>1 DEF SameLengths
  <2>4. SumIsOf(m, all, c, lens, q)
    BY <1>4, <1>8, <1>11, <2>2, <2>3, TotalOfShard
  <2>5. SumOver(lens, q) = L
    BY <2>4 DEF SumIsOf
  <2>6. PICK x \in ToSet(c) : L < m + all[x]
    BY <1>8, <1>14 DEF NearBudget
  <2>7. PICK i \in 1..t : x = c[i]
    BY <1>9 DEF ToSet
  <2>8. all[x] \in S
    BY <1>10, <1>12, <2>7 DEF ToSet
  <2>9. S \in SUBSET (1..m) /\ S \in SUBSET (0..m) /\ S # {}
    <3> DEFINE D == 1..m
    <3>1. \A j \in 1..t : lens[j] \in D
      <4>1. lens \in Seq(D) /\ Len(lens) = t
        BY <1>10
      <4> HIDE DEF D
      <4>2. \A j \in 1..Len(lens) : lens[j] \in D
        BY <4>1
      <4> QED  BY <4>1, <4>2
    <3>2. S \in SUBSET (1..m)
      BY <1>10, <3>1 DEF ToSet
    <3> QED  BY <2>8, <3>2
  <2> HIDE DEF S
  <2>10. Max(S) \in S /\ \A y \in S : y <= Max(S)
    BY <2>2, <2>9, MaxIs
  <2>11. L \in Nat
    <3>1. IsFiniteSet(ToSet(c))
      <4>1. IsFiniteSet(1..n)
        BY <1>4, FS_Interval
      <4>2. ToSet(c) \subseteq 1..n
        BY <1>9 DEF ToSet
      <4> QED  BY <4>1, <4>2, FS_Subset
    <3> QED  BY <2>2, <3>1, TotalType
  <2>12. all[x] <= Max(S) /\ all[x] \in Nat /\ Max(S) \in Nat
    <3>1. \A y \in S : y \in Nat
      BY <2>2, <2>9
    <3> HIDE DEF m
    <3> QED  BY <2>8, <2>10, <3>1
  <2> HIDE DEF L
  <2>13. L < m + Max(S)
    BY <2>2, <2>6, <2>11, <2>12
  <2> QED  BY <2>5, <2>13 DEF q, S
<1> QED  BY <1>13, <1>14 DEF lens, batch, m, M

\* No micro-batch is empty, and none is longer than the token budget by more
\* than its longest row (MicroBatchesNearBudget).
THEOREM WorkStaysNearBudget == RankSpec => []MicroBatchesNearBudget
BY BatchInvariant, RankInvariant, WorkNearBudget, PTL
=============================================================================
