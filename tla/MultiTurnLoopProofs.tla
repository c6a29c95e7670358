------------------------ MODULE MultiTurnLoopProofs ------------------------
(***************************************************************************)
(* MultiTurnLoop for every batch size, group size, number of tries and set *)
(* of rewards.                                                             *)
(*                                                                         *)
(* WholeGroups says of a list of rows that it consists of blocks of N rows *)
(* with a uid of their own and, but for the last try, with rewards that    *)
(* differ.  It holds of a whole rollout and of one group, it survives      *)
(* concatenation when the uids are different, and so it goes through the   *)
(* loop over the groups of one try and through the loop of tries.          *)
(***************************************************************************)
EXTENDS MultiTurnLoop, NumberLemmas, SequenceTheorems, WellFoundedInduction, TLAPS

Row == [traj : Nat \X Nat, uid : Nat \X Nat, game : Nat \X Nat, reward : Rewards]

\* The uid of block b.
BlockUid(s, b) == s[N * b + 1].uid

Block(s, b) ==
  /\ \A j \in 1..N : s[N * b + j].uid = BlockUid(s, b)
  /\ LastTry(BlockUid(s, b)[1]) \/
       \E j \in 1..N : s[N * b + j].reward # s[N * b + 1].reward

WholeGroups(s, B) ==
  /\ s \in Seq(Row) /\ Len(s) = N * B
  /\ \A b \in 0..(B - 1) : Block(s, b)
  /\ \A a, b \in 0..(B - 1) : BlockUid(s, a) = BlockUid(s, b) => a = b

DynamicInv ==
  mode = "dynamic" =>
    /\ tries <= MaxTries
    /\ \E B \in Nat :
         /\ WholeGroups(rows, B)
         /\ N * B < 2 * Target
         /\ tries = MaxTries /\ tries > 0 => N * B >= Target
         /\ phase \in {"build", "done"} => N * B >= Target
    /\ \A k \in DOMAIN rows : rows[k].uid[1] \in 1..tries
    /\ keys # << >> => tries > 0

VanillaInv ==
  mode = "vanilla" /\ phase \in {"build", "done"} =>
    /\ DOMAIN rows \subseteq Nat
    /\ \A k \in DOMAIN rows :
         /\ tasks[k] = rows[k].game
         /\ \A l \in DOMAIN rows :
              rows[k].uid = rows[l].uid => rows[k].game = rows[l].game

LoopInv ==
  /\ mode \in Modes
  /\ phase \in {"sample", "build", "done", "failed"}
  /\ tries \in Nat
  /\ keys \in Seq(SUBSET ({"success_rate"} \cup Types))
  /\ DynamicInv
  /\ VanillaInv
  /\ QueryOfOwnGame

-----------------------------------------------------------------------------
(* Blocks of N rows.                                                       *)

LEMMA SizeFacts ==
  /\ N \in Nat \ {0} /\ BatchSize \in Nat \ {0}
  /\ Target = N * BatchSize /\ Target \in Nat
BY BatchAssumption DEF Target

LEMMA Scale ==
  ASSUME NEW a \in Int, NEW b \in Int, a <= b
  PROVE  N * a <= N * b
<1>1. CASE a = b
  BY <1>1, SizeFacts
<1>2. CASE a < b
  <2>1. N * a + N <= N * b
    BY <1>2, SizeFacts, Mono
  <2> DEFINE p == N * a
             q == N * b
  <2>2. p \in Int /\ q \in Int /\ N \in Nat /\ p + N <= q
    BY <2>1, SizeFacts
  <2> HIDE DEF p, q
  <2>3. p <= q
    BY <2>2
  <2> QED  BY <2>3 DEF p, q
<1> QED  BY <1>1, <1>2

\* The block of a row, and where it is in the block.
LEMMA RowOfBlock ==
  ASSUME NEW B \in Nat, NEW k \in 1..(N * B)
  PROVE  /\ (k - 1) \div N \in 0..(B - 1)
         /\ ((k - 1) % N) + 1 \in 1..N
         /\ k = N * ((k - 1) \div N) + (((k - 1) % N) + 1)
<1> DEFINE q == (k - 1) \div N
           r == (k - 1) % N
<1>1. /\ k \in Int /\ N \in Nat \ {0} /\ N * B \in Nat
      /\ 1 <= k /\ k <= N * B
  BY SizeFacts
<1>2. q \in Int /\ r \in 0..(N - 1) /\ k - 1 = N * q + r
  BY <1>1, DivMod
<1> HIDE DEF q, r
<1>3. q >= 0
  <2> SUFFICES ASSUME q < 0 PROVE FALSE
    BY <1>2
  <2>1. N * q + N <= N * 0
    BY <1>1, <1>2, Mono
  <2> QED  BY <1>1, <1>2, <2>1
<1>4. q < B
  <2> SUFFICES ASSUME B <= q PROVE FALSE
    BY <1>2
  <2>1. N * B <= N * q
    BY <1>2, Scale
  <2>2. N * q \in Int
    BY <1>1, <1>2
  <2> QED  BY <1>1, <1>2, <2>1, <2>2
<1>5. r + 1 \in 1..N /\ k = N * q + (r + 1) /\ q \in 0..(B - 1)
  <2>1. N * q \in Int
    BY <1>1, <1>2
  <2> QED  BY <1>1, <1>2, <1>3, <1>4, <2>1
<1> QED  BY <1>5 DEF q, r

\* Row j of block b is a row, and its block is b.
LEMMA BlockOfRow ==
  ASSUME NEW B \in Nat, NEW b \in 0..(B - 1), NEW j \in 1..N
  PROVE  /\ N * b + j \in 1..(N * B)
         /\ N * b \in Nat
         /\ (N * b + j - 1) \div N = b
<1>1. N \in Nat \ {0} /\ N * b \in Nat /\ N * B \in Nat
  BY SizeFacts
<1>2. N * b + N <= N * B
  BY <1>1, Mono
<1>3. N * b + j \in 1..(N * B)
  BY <1>1, <1>2
<1>4. N * b + j - 1 = N * b + (j - 1) /\ j - 1 \in 0..(N - 1)
  BY <1>1
<1>5. (N * b + (j - 1)) \div N = b
  BY <1>1, <1>4, DivModOf
<1> QED  BY <1>1, <1>3, <1>4, <1>5

\* Two lists of whole groups without a common uid are one list of them.
LEMMA Concatenation ==
  ASSUME NEW s, NEW B \in Nat, WholeGroups(s, B),
         NEW u, NEW C \in Nat, WholeGroups(u, C),
         \A k \in DOMAIN s : \A l \in DOMAIN u : s[k].uid # u[l].uid
  PROVE  WholeGroups(s \o u, B + C)
<1> DEFINE w == s \o u
<1>1. /\ N \in Nat \ {0}
      /\ s \in Seq(Row) /\ Len(s) = N * B
      /\ u \in Seq(Row) /\ Len(u) = N * C
      /\ N * B \in Nat /\ N * C \in Nat
      /\ N * (B + C) = N * B + N * C
  BY SizeFacts DEF WholeGroups
<1>2. /\ w \in Seq(Row) /\ Len(w) = N * (B + C)
      /\ \A k \in 1..(N * B) : w[k] = s[k]
      /\ \A k \in 1..(N * C) : w[N * B + k] = u[k]
      /\ DOMAIN s = 1..(N * B) /\ DOMAIN u = 1..(N * C)
  <2>1. s \in Seq(Row) /\ u \in Seq(Row)
    BY <1>1
  <2>2. /\ w \in Seq(Row) /\ Len(w) = Len(s) + Len(u)
        /\ \A k \in 1..Len(s) : w[k] = s[k]
        /\ \A k \in 1..Len(u) : w[Len(s) + k] = u[k]
        /\ DOMAIN s = 1..Len(s) /\ DOMAIN u = 1..Len(u)
    BY <2>1
  <2> HIDE DEF w
  <2> QED  BY <1>1, <2>2
<1> HIDE DEF w
<1>3. ASSUME NEW b \in 0..(B - 1)
      PROVE  /\ \A j \in 1..N : w[N * b + j] = s[N * b + j]
             /\ N * b + 1 \in DOMAIN s
  <2>1. \A j \in 1..N : N * b + j \in 1..(N * B)
    BY BlockOfRow
  <2>2. \A j \in 1..N : w[N * b + j] = s[N * b + j] /\ N * b + j \in DOMAIN s
    BY <1>2, <2>1
  <2>3. 1 \in 1..N
    BY <1>1
  <2> QED  BY <2>2, <2>3
<1>4. ASSUME NEW b \in B..(B + C - 1)
      PROVE  /\ b - B \in 0..(C - 1)
             /\ \A j \in 1..N : w[N * b + j] = u[N * (b - B) + j]
             /\ N * (b - B) + 1 \in DOMAIN u
  <2>1. b - B \in 0..(C - 1)
    OBVIOUS
  <2>2. \A j \in 1..N : N * (b - B) + j \in 1..(N * C)
    BY <2>1, BlockOfRow
  <2>3. \A j \in 1..N : N * b + j = N * B + (N * (b - B) + j)
    BY <1>1
  <2>4. \A j \in 1..N : /\ w[N * b + j] = u[N * (b - B) + j]
                         /\ N * (b - B) + j \in DOMAIN u
    <3> SUFFICES ASSUME NEW j \in 1..N
                 PROVE  /\ w[N * b + j] = u[N * (b - B) + j]
                        /\ N * (b - B) + j \in DOMAIN u
      OBVIOUS
    <3> DEFINE k == N * (b - B) + j
    <3>1. k \in 1..(N * C) /\ N * b + j = N * B + k
      BY <2>2, <2>3
    <3> HIDE DEF k
    <3>2. w[N * b + j] = u[k] /\ k \in DOMAIN u
      BY <1>2, <3>1
    <3> QED  BY <3>2 DEF k
  <2>5. 1 \in 1..N
    BY <1>1
  <2> QED  BY <2>1, <2>4, <2>5
<1>5. 1 \in 1..N
  BY <1>1
<1>6. ASSUME NEW b \in 0..(B + C - 1)
      PROVE  Block(w, b)
  <2>1. CASE b < B
    <3>1. b \in 0..(B - 1)
      BY <2>1
    <3>2. Block(s, b)
      BY <3>1 DEF WholeGroups
    <3> QED  BY <1>3, <1>5, <3>1, <3>2 DEF Block, BlockUid
  <2>2. CASE b >= B
    <3>1. b \in B..(B + C - 1)
      BY <2>2
    <3>2. Block(u, b - B)
      BY <1>4, <3>1 DEF WholeGroups
    <3> QED  BY <1>4, <1>5, <3>1, <3>2 DEF Block, BlockUid
  <2> QED  BY <2>1, <2>2
<1>7. ASSUME NEW a \in 0..(B + C - 1), NEW b \in 0..(B + C - 1),
             BlockUid(w, a) = BlockUid(w, b)
      PROVE  a = b
  <2>1. ASSUME NEW c \in 0..(B + C - 1)
        PROVE  \/ c \in 0..(B - 1) /\ BlockUid(w, c) = BlockUid(s, c)
               \/ c \in B..(B + C - 1) /\ BlockUid(w, c) = BlockUid(u, c - B)
    <3>1. c \in 0..(B - 1) \/ c \in B..(B + C - 1)
      OBVIOUS
    <3> QED  BY <1>3, <1>4, <1>5, <3>1 DEF BlockUid
  <2>2. CASE a \in 0..(B - 1) /\ b \in 0..(B - 1)
    BY <1>7, <2>1, <2>2 DEF WholeGroups
  <2>3. CASE a \in B..(B + C - 1) /\ b \in B..(B + C - 1)
    <3>1. BlockUid(u, a - B) = BlockUid(u, b - B)
      BY <1>7, <2>1, <2>3
    <3>2. a - B = b - B
      BY <1>4, <2>3, <3>1 DEF WholeGroups
    <3> QED  BY <3>2
  <2>4. ASSUME NEW c \in 0..(B - 1), NEW d \in B..(B + C - 1)
        PROVE  BlockUid(s, c) # BlockUid(u, d - B)
    BY <1>3, <1>4 DEF BlockUid
  <2>5. CASE a \in 0..(B - 1) /\ b \in B..(B + C - 1)
    BY <1>7, <2>1, <2>4, <2>5
  <2>6. CASE b \in 0..(B - 1) /\ a \in B..(B + C - 1)
    BY <1>7, <2>1, <2>4, <2>6
  <2> QED  BY <2>2, <2>3, <2>5, <2>6
<1> QED  BY <1>1, <1>2, <1>6, <1>7 DEF WholeGroups, w

-----------------------------------------------------------------------------
(* One try.                                                                *)

\* What one training rollout returns.
IsRollout(r, t) ==
  /\ r \in Seq(Row) /\ Len(r) = N * BatchSize
  /\ \A g \in 0..(BatchSize - 1) : \A j \in 1..N : r[N * g + j].uid = <<t, g>>

LEMMA RolloutFacts ==
  ASSUME IsTrain, NEW t \in Nat, NEW reward \in [Index -> Rewards]
  PROVE  IsRollout(Rollout(t, reward), t)
<1> DEFINE r == Rollout(t, reward)
<1>1. Index = 1..(N * BatchSize) /\ N * BatchSize \in Nat /\ N \in Nat \ {0}
  BY SizeFacts DEF Index, Size, Target
<1>2. ASSUME NEW k \in Index
      PROVE  UidOf(k) \in Nat /\ GameOf(k) \in Nat
  BY <1>1, <1>2, SizeFacts, RowOfBlock DEF UidOf, GameOf
<1>3. \A k \in Index : r[k] \in Row
  <2>1. \A k \in Index : k \in Nat /\ reward[k] \in Rewards
    BY <1>1
  <2> QED  BY <1>2, <2>1 DEF Rollout, Row
<1>4. DOMAIN r = 1..(N * BatchSize)
  BY <1>1 DEF Rollout
<1>5. r \in [1..(N * BatchSize) -> Row]
  BY <1>1, <1>3, <1>4 DEF Rollout
<1>6. r \in Seq(Row) /\ Len(r) = N * BatchSize
  <2> HIDE DEF r
  <2> QED  BY <1>1, <1>5
<1>7. ASSUME NEW g \in 0..(BatchSize - 1), NEW j \in 1..N
      PROVE  r[N * g + j].uid = <<t, g>>
  <2>1. N * g + j \in Index /\ UidOf(N * g + j) = g
    BY <1>1, SizeFacts, BlockOfRow DEF UidOf
  <2> QED  BY <2>1 DEF Rollout
<1> QED  BY <1>6, <1>7 DEF IsRollout

\* The rows of a group, as the filter takes them.
LEMMA GroupRowsFacts ==
  ASSUME NEW r, NEW t \in Nat, IsRollout(r, t), NEW g \in 0..(BatchSize - 1)
  PROVE  /\ GroupRows(r, g) \in Seq(Row) /\ Len(GroupRows(r, g)) = N
         /\ \A j \in 1..N : GroupRows(r, g)[j] = r[N * g + j]
<1>1. N \in Nat \ {0} /\ N * g \in Nat /\ N * BatchSize \in Nat /\ g \in Nat
  BY SizeFacts
<1>2. N * g + N <= N * BatchSize
  BY SizeFacts, Mono
<1>3. g * N + 1 = N * g + 1 /\ (g + 1) * N = N * g + N
  BY <1>1
<1> DEFINE a == N * g
<1>4. GroupRows(r, g) = SubSeq(r, a + 1, a + N)
  BY <1>3 DEF GroupRows
<1>5. /\ r \in Seq(Row) /\ a \in Nat /\ a + N <= Len(r) /\ N \in Nat
  BY <1>1, <1>2 DEF IsRollout
<1> HIDE DEF a
<1>6. /\ SubSeq(r, a + 1, a + N) \in Seq(Row)
      /\ Len(SubSeq(r, a + 1, a + N)) = N
      /\ \A j \in 1..N : SubSeq(r, a + 1, a + N)[j] = r[a + j]
  BY <1>5
<1> QED  BY <1>4, <1>6 DEF a

\* A group that varies is a whole group of its own.
LEMMA GroupRowsAreWhole ==
  ASSUME NEW r, NEW t \in Nat, IsRollout(r, t), NEW g \in 0..(BatchSize - 1),
         Varies(r, g)
  PROVE  WholeGroups(GroupRows(r, g), 1)
<1> DEFINE u == GroupRows(r, g)
<1>1. /\ N \in Nat \ {0} /\ N * 1 = N /\ N * 0 = 0 /\ g \in Nat
      /\ N * g \in Nat /\ 1 \in 1..N
  BY SizeFacts
<1>2. /\ u \in Seq(Row) /\ Len(u) = N
      /\ \A j \in 1..N : u[j] = r[N * g + j] /\ u[j].uid = <<t, g>>
  BY GroupRowsFacts DEF IsRollout
<1>3. \E j \in 1..N : u[j].reward # u[1].reward
  <2>1. PICK k \in Group(g) : r[k].reward # r[g * N + 1].reward
    BY DEF Varies
  <2>2. k - N * g \in 1..N /\ k = N * g + (k - N * g) /\ g * N + 1 = N * g + 1
    BY <1>1 DEF Group
  <2> QED  BY <1>1, <1>2, <2>1, <2>2
<1> HIDE DEF u
<1>4. \A b \in 0..(1 - 1) : b = 0
  OBVIOUS
<1>5. Block(u, 0)
  <2>1. \A j \in 1..N : u[N * 0 + j] = u[j]
    BY <1>1
  <2> QED  BY <1>1, <1>2, <1>3, <2>1 DEF Block, BlockUid
<1> QED  BY <1>1, <1>2, <1>4, <1>5 DEF WholeGroups, u

\* What the filter has kept after group i, from what it had before.
Step(r, f, i) ==
  IF i = 0 THEN << >>
  ELSE IF Varies(r, i - 1)
       THEN f[i - 1] \o GroupRows(r, i - 1)
       ELSE f[i - 1]

\* The filter's loop has a result for every group.
LEMMA KeptGroupsExist ==
  ASSUME NEW r, NEW t \in Nat, IsRollout(r, t)
  PROVE  KeptGroups(r) = [i \in 0..BatchSize |-> Step(r, KeptGroups(r), i)]
<1> DEFINE Fits(f, n) == f = [i \in 0..n |-> Step(r, f, i)]
           Some(n) == \E f \in [0..n -> Seq(Row)] : Fits(f, n)
           Bad == {n \in 0..BatchSize : ~Some(n)}
<1>1. Bad = {}
  <2> SUFFICES ASSUME Bad # {} PROVE FALSE
    OBVIOUS
  <2>1. Bad \in SUBSET Nat
    BY SizeFacts
  <2>2. PICK n \in Bad : \A m \in Bad : n <= m
    <3> HIDE DEF Bad
    <3> QED  BY <2>1, SmallestNumber
  <2>3. n \in 0..BatchSize /\ ~Some(n) /\ n \in Nat
    BY SizeFacts, SMTT(20)
  <2>4. n # 0
    <3> SUFFICES ASSUME n = 0 PROVE FALSE
      OBVIOUS
    <3> DEFINE f == [i \in 0..0 |-> << >>]
    <3>1. f \in [0..0 -> Seq(Row)]
      OBVIOUS
    <3>2. \A i \in 0..0 : i = 0
      OBVIOUS
    <3>3. f = [i \in 0..0 |-> Step(r, f, i)]
      BY <3>2 DEF Step
    <3> QED  BY <2>3, <3>1, <3>3
  <2>5. n - 1 \in 0..BatchSize /\ n - 1 \notin Bad
    <3>1. n - 1 \in Nat /\ ~(n <= n - 1) /\ n - 1 \in 0..BatchSize
      BY <2>3, <2>4, SizeFacts
    <3> QED  BY <2>2, <3>1
  <2>6. PICK f \in [0..(n - 1) -> Seq(Row)] : Fits(f, n - 1)
    BY <2>5
  <2> DEFINE h == [i \in 0..n |-> IF i = n THEN Step(r, f, n) ELSE f[i]]
  <2>7. Step(r, f, n) \in Seq(Row)
    <3>1. f[n - 1] \in Seq(Row)
      BY <2>3, <2>4
    <3>2. n - 1 \in 0..(BatchSize - 1)
      BY <2>3, <2>4, SizeFacts
    <3>3. GroupRows(r, n - 1) \in Seq(Row)
      BY <3>2, GroupRowsFacts
    <3>4. f[n - 1] \o GroupRows(r, n - 1) \in Seq(Row)
      BY <3>1, <3>3
    <3> QED  BY <2>4, <3>1, <3>4 DEF Step
  <2>8. h \in [0..n -> Seq(Row)]
    <3>1. \A i \in 0..n : i # n => i \in 0..(n - 1)
      BY <2>3
    <3> QED  BY <2>7, <3>1
  <2>9. \A i \in 0..n : i # 0 => h[i - 1] = f[i - 1]
    BY <2>3
  <2>10. \A i \in 0..n : h[i] = Step(r, h, i)
    <3> SUFFICES ASSUME NEW i \in 0..n PROVE h[i] = Step(r, h, i)
      OBVIOUS
    <3>1. Step(r, h, i) = Step(r, f, i)
      BY <2>9 DEF Step
    <3>2. CASE i = n
      BY <3>1, <3>2
    <3>3. CASE i # n
      <4>1. i \in 0..(n - 1)
        BY <2>3, <3>3
      <4>2. f[i] = Step(r, f, i)
        BY <2>6, <4>1
      <4> QED  BY <3>1, <3>3, <4>2
    <3> QED  BY <3>2, <3>3
  <2>11. Fits(h, n)
    <3> HIDE DEF h
    <3> QED  BY <2>8, <2>10
  <2> HIDE DEF h
  <2> QED  BY <2>3, <2>8, <2>11
<1>2. Some(BatchSize)
  <2>1. BatchSize \in 0..BatchSize
    BY SizeFacts
  <2> HIDE DEF Some
  <2> QED  BY <1>1, <2>1
<1>3. KeptGroups(r) = CHOOSE f : Fits(f, BatchSize)
  BY DEF KeptGroups, Step
<1>4. Fits(KeptGroups(r), BatchSize)
  <2> HIDE DEF Fits
  <2> QED  BY <1>2, <1>3
<1> QED  BY <1>4

\* After i groups the filter holds whole groups, from among the first i.
KeptSoFar(s, t, i) ==
  /\ \E C \in 0..i : WholeGroups(s, C)
  /\ \A k \in DOMAIN s : s[k].uid[1] = t /\ s[k].uid[2] \in 0..(i - 1)

LEMMA FilterKeepsWholeGroups ==
  ASSUME NEW r, NEW t \in Nat, IsRollout(r, t)
  PROVE  KeptSoFar(KeptGroups(r)[BatchSize], t, BatchSize)
<1> DEFINE f == KeptGroups(r)
           Bad == {n \in 0..BatchSize : ~KeptSoFar(f[n], t, n)}
<1>1. \A i \in 0..BatchSize : f[i] = Step(r, f, i)
  BY KeptGroupsExist
<1> HIDE DEF f
<1>2. KeptSoFar(f[0], t, 0)
  <2>1. f[0] = << >>
    BY <1>1, SizeFacts DEF Step
  <2>2. WholeGroups(<< >>, 0)
    <3>1. N * 0 = 0 /\ << >> \in Seq(Row) /\ Len(<< >>) = 0
      BY SizeFacts
    <3>2. \A b \in 0..(0 - 1) : FALSE
      OBVIOUS
    <3> QED  BY <3>1, <3>2 DEF WholeGroups
  <2> QED  BY <2>1, <2>2 DEF KeptSoFar
<1>3. ASSUME NEW n \in 1..BatchSize, KeptSoFar(f[n - 1], t, n - 1)
      PROVE  KeptSoFar(f[n], t, n)
  <2>1. n \in Nat /\ n - 1 \in 0..(BatchSize - 1)
    BY SizeFacts
  <2>2. PICK C \in 0..(n - 1) : WholeGroups(f[n - 1], C)
    BY <1>3 DEF KeptSoFar
  <2>3. \A k \in DOMAIN f[n - 1] :
          /\ f[n - 1][k].uid[1] = t
          /\ f[n - 1][k].uid[2] \in 0..(n - 2)
    BY <1>3, <2>1 DEF KeptSoFar
  <2>4. CASE Varies(r, n - 1)
    <3> DEFINE s == f[n - 1]
               u == GroupRows(r, n - 1)
    <3>1. f[n] = s \o u
      <4>1. n # 0 /\ f[n] = Step(r, f, n)
        BY <1>1, <2>1, SizeFacts
      <4> QED  BY <2>4, <4>1, Zenon DEF Step
    <3>2. WholeGroups(u, 1)
      BY <2>1, <2>4, GroupRowsAreWhole
    <3>3. /\ u \in Seq(Row) /\ Len(u) = N
          /\ \A j \in 1..N : u[j] = r[N * (n - 1) + j]
      BY <2>1, GroupRowsFacts
    <3>4. \A j \in 1..N : r[N * (n - 1) + j].uid = <<t, n - 1>>
      BY <2>1 DEF IsRollout
    <3> HIDE DEF s, u
    <3>5. \A l \in DOMAIN u : u[l].uid = <<t, n - 1>>
      <4>1. DOMAIN u = 1..N
        BY <3>3
      <4> QED  BY <3>3, <3>4, <4>1
    <3>6. \A k \in DOMAIN s : s[k].uid[1] = t /\ s[k].uid[2] \in 0..(n - 2)
      BY <2>3 DEF s
    <3>7. \A k \in DOMAIN s : \A l \in DOMAIN u : s[k].uid # u[l].uid
      <4> SUFFICES ASSUME NEW k \in DOMAIN s, NEW l \in DOMAIN u,
                          s[k].uid = u[l].uid
                   PROVE  FALSE
        OBVIOUS
      <4>1. s[k].uid[2] = n - 1
        BY <3>5
      <4> QED  BY <2>1, <3>6, <4>1
    <3>8. WholeGroups(s, C) /\ C \in Nat /\ C + 1 \in 0..n
      BY <2>1, <2>2 DEF s
    <3>9. WholeGroups(s \o u, C + 1)
      BY <3>2, <3>7, <3>8, Concatenation
    <3>10. \A k \in DOMAIN (s \o u) :
             /\ (s \o u)[k].uid[1] = t
             /\ (s \o u)[k].uid[2] \in 0..(n - 1)
      <4>1. s \in Seq(Row) /\ u \in Seq(Row)
        BY <3>3, <3>8 DEF WholeGroups
      <4> SUFFICES ASSUME NEW k \in DOMAIN (s \o u)
                   PROVE  /\ (s \o u)[k].uid[1] = t
                          /\ (s \o u)[k].uid[2] \in 0..(n - 1)
        OBVIOUS
      <4>2. \/ k \in DOMAIN s /\ (s \o u)[k] = s[k]
            \/ k - Len(s) \in DOMAIN u /\ (s \o u)[k] = u[k - Len(s)]
        BY <4>1
      <4>3. n - 1 \in 0..(n - 1) /\ 0..(n - 2) \subseteq 0..(n - 1)
        BY <2>1
      <4>4. ASSUME NEW l \in DOMAIN u
            PROVE  u[l].uid[1] = t /\ u[l].uid[2] = n - 1
        BY <3>5
      <4> QED  BY <3>6, <4>2, <4>3, <4>4
    <3> QED  BY <3>1, <3>8, <3>9, <3>10 DEF KeptSoFar
  <2>5. CASE ~Varies(r, n - 1)
    <3>1. f[n] = f[n - 1]
      BY <1>1, <2>1, <2>5, SizeFacts DEF Step
    <3>2. C \in 0..n /\ 0..(n - 2) \subseteq 0..(n - 1)
      BY <2>1
    <3> QED  BY <2>2, <2>3, <3>1, <3>2 DEF KeptSoFar
  <2> QED  BY <2>4, <2>5
<1>4. Bad = {}
  <2> SUFFICES ASSUME Bad # {} PROVE FALSE
    OBVIOUS
  <2>1. Bad \in SUBSET Nat
    BY SizeFacts
  <2>2. PICK n \in Bad : \A m \in Bad : n <= m
    <3> HIDE DEF Bad
    <3> QED  BY <2>1, SmallestNumber
  <2>3. n \in 0..BatchSize /\ n # 0 /\ ~KeptSoFar(f[n], t, n)
    BY <1>2
  <2>4. n - 1 \in 0..BatchSize /\ ~(n <= n - 1) /\ n \in 1..BatchSize
    BY <2>3, SizeFacts
  <2>5. KeptSoFar(f[n - 1], t, n - 1)
    BY <2>2, <2>4
  <2> QED  BY <1>3, <2>3, <2>4, <2>5
<1>5. BatchSize \in 0..BatchSize
  BY SizeFacts
<1> QED  BY <1>4, <1>5 DEF f

\* The rollout of the last try is whole groups as it stands.
LEMMA RolloutIsWhole ==
  ASSUME NEW r, NEW t \in Nat, IsRollout(r, t), LastTry(t)
  PROVE  WholeGroups(r, BatchSize)
<1>1. 1 \in 1..N
  BY SizeFacts
<1>2. \A b \in 0..(BatchSize - 1) :
        BlockUid(r, b) = <<t, b>> /\ \A j \in 1..N : r[N * b + j].uid = <<t, b>>
  BY <1>1 DEF IsRollout, BlockUid
<1>3. \A b \in 0..(BatchSize - 1) : Block(r, b)
  BY <1>2 DEF Block
<1> QED  BY <1>2, <1>3 DEF WholeGroups, IsRollout

\* What a try adds: whole groups of its own, all of them if it is the last.
LEMMA KeptFacts ==
  ASSUME NEW r, NEW t \in Nat, IsRollout(r, t)
  PROVE  /\ \E C \in 0..BatchSize : /\ WholeGroups(Kept(r, t), C)
                                    /\ LastTry(t) => C = BatchSize
         /\ \A k \in DOMAIN Kept(r, t) : Kept(r, t)[k].uid[1] = t
<1>1. CASE LastTry(t)
  <2>1. Kept(r, t) = r /\ WholeGroups(r, BatchSize) /\ BatchSize \in 0..BatchSize
    BY <1>1, RolloutIsWhole, SizeFacts DEF Kept
  <2>2. \A k \in DOMAIN r : r[k].uid[1] = t
    <3> SUFFICES ASSUME NEW k \in DOMAIN r PROVE r[k].uid[1] = t
      OBVIOUS
    <3>1. k \in 1..(N * BatchSize)
      BY DEF IsRollout
    <3> DEFINE q == (k - 1) \div N
               j == ((k - 1) % N) + 1
    <3>2. q \in 0..(BatchSize - 1) /\ j \in 1..N /\ k = N * q + j
      BY <3>1, RowOfBlock, SizeFacts
    <3> HIDE DEF q, j
    <3>3. r[N * q + j].uid = <<t, q>>
      BY <3>2 DEF IsRollout
    <3> QED  BY <3>2, <3>3
  <2> QED  BY <2>1, <2>2
<1>2. CASE ~LastTry(t)
  <2>1. Kept(r, t) = KeptGroups(r)[BatchSize]
    BY <1>2 DEF Kept
  <2> QED  BY <1>2, <2>1, FilterKeepsWholeGroups DEF KeptSoFar
<1> QED  BY <1>1, <1>2

-----------------------------------------------------------------------------
(* The loop of tries.                                                      *)

LEMMA InitLoopInv == Init => LoopInv
<1> SUFFICES ASSUME Init PROVE LoopInv
  OBVIOUS
<1>1. /\ mode \in Modes /\ phase = "sample" /\ tries = 0
      /\ rows = << >> /\ keys = << >>
  BY DEF Init
<1>2. WholeGroups(rows, 0)
  <2>1. N * 0 = 0 /\ << >> \in Seq(Row) /\ Len(<< >>) = 0
    BY SizeFacts
  <2>2. \A b \in 0..(0 - 1) : FALSE
    OBVIOUS
  <2> QED  BY <1>1, <2>1, <2>2 DEF WholeGroups
<1>3. 0 \in Nat /\ N * 0 = 0 /\ 0 < 2 * Target /\ 0 <= MaxTries
  BY SizeFacts, BatchAssumption, TriesAssumption DEF Target
<1>4. \A k \in DOMAIN rows : FALSE
  BY <1>1
<1>5. DynamicInv
  BY <1>1, <1>2, <1>3, <1>4 DEF DynamicInv
<1> QED  BY <1>1, <1>5 DEF LoopInv, VanillaInv, QueryOfOwnGame

\* One more try with dynamic sampling.
LEMMA SampleAgainInv ==
  ASSUME LoopInv, SampleAgain
  PROVE  LoopInv'
<1>1. /\ mode = "dynamic" /\ mode' = mode /\ phase = "sample" /\ phase' = phase
      /\ tries \in Nat /\ tries' = tries + 1 /\ tries < MaxTries
      /\ Len(rows) < Target /\ IsTrain
      /\ keys' # << >>
  <2>1. \E x : keys' = Append(keys, x)
    BY DEF SampleAgain
  <2>2. keys \in Seq(SUBSET ({"success_rate"} \cup Types))
    BY DEF LoopInv
  <2>3. \A x : Append(keys, x) # << >>
    BY <2>2
  <2> QED  BY <2>1, <2>3 DEF SampleAgain, Filtering, IsTrain, LoopInv
<1>2. PICK reward \in [Index -> Rewards] :
        rows' = rows \o Kept(Rollout(tries', reward), tries')
  BY DEF SampleAgain
<1> DEFINE u == Kept(Rollout(tries', reward), tries')
<1>3. tries' \in Nat /\ IsRollout(Rollout(tries', reward), tries')
  <2>1. tries' \in Nat
    BY <1>1
  <2>2. \A t \in Nat : IsRollout(Rollout(t, reward), t)
    BY <1>1, RolloutFacts
  <2> QED  BY <2>1, <2>2
<1>4. /\ \E C \in 0..BatchSize : /\ WholeGroups(u, C)
                                 /\ LastTry(tries') => C = BatchSize
      /\ \A k \in DOMAIN u : u[k].uid[1] = tries'
  BY <1>3, KeptFacts
<1>5. PICK C \in 0..BatchSize : /\ WholeGroups(u, C)
                                /\ LastTry(tries') => C = BatchSize
  BY <1>4
<1>6. PICK B \in Nat : WholeGroups(rows, B)
  BY <1>1 DEF LoopInv, DynamicInv
<1>7. \A k \in DOMAIN rows : rows[k].uid[1] \in 1..tries
  BY <1>1 DEF LoopInv, DynamicInv
<1> HIDE DEF u
<1>8. rows' = rows \o u
  BY <1>2 DEF u
<1>9. WholeGroups(rows', B + C) /\ B + C \in Nat
  <2>1. ASSUME NEW k \in DOMAIN rows, NEW l \in DOMAIN u
        PROVE  rows[k].uid # u[l].uid
    <3>1. rows[k].uid[1] \in 1..tries /\ u[l].uid[1] = tries'
      BY <1>4, <1>7
    <3> QED  BY <1>1, <3>1
  <2>2. C \in Nat
    BY SizeFacts
  <2>3. WholeGroups(rows \o u, B + C)
    BY <1>5, <1>6, <2>1, <2>2, Concatenation
  <2> QED  BY <1>8, <2>2, <2>3
<1>10. /\ N * (B + C) < 2 * Target
       /\ tries' = MaxTries => N * (B + C) >= Target
  <2>1. /\ N \in Nat /\ N * B \in Nat /\ N * C \in Nat
        /\ N * (B + C) = N * B + N * C
        /\ Target = N * BatchSize /\ Target \in Nat
    BY SizeFacts
  <2>2. N * B < Target
    BY <1>1, <1>6 DEF WholeGroups
  <2>3. N * C <= Target
    BY <2>1, SizeFacts, Scale
  <2>4. tries' = MaxTries => N * C = Target
    BY <1>5, <2>1 DEF LastTry
  <2> DEFINE b == N * B
             c == N * C
  <2>5. /\ b \in Nat /\ c \in Nat /\ Target \in Nat /\ N * (B + C) = b + c
        /\ b < Target /\ c <= Target
        /\ tries' = MaxTries => c = Target
    BY <2>1, <2>2, <2>3, <2>4
  <2> HIDE DEF b, c
  <2> QED  BY <2>5
<1>11. \A k \in DOMAIN rows' : rows'[k].uid[1] \in 1..tries'
  <2>1. rows \in Seq(Row) /\ u \in Seq(Row)
    BY <1>5, <1>6 DEF WholeGroups
  <2> SUFFICES ASSUME NEW k \in DOMAIN (rows \o u)
               PROVE  (rows \o u)[k].uid[1] \in 1..tries'
    BY <1>8
  <2>2. \/ k \in DOMAIN rows /\ (rows \o u)[k] = rows[k]
        \/ k - Len(rows) \in DOMAIN u /\ (rows \o u)[k] = u[k - Len(rows)]
    BY <2>1
  <2>3. 1..tries \subseteq 1..tries' /\ tries' \in 1..tries'
    BY <1>1
  <2> QED  BY <1>4, <1>7, <2>2, <2>3
<1>12. /\ tries' <= MaxTries /\ tries' > 0
  BY <1>1, TriesAssumption
<1>13. DynamicInv'
  BY <1>1, <1>9, <1>10, <1>11, <1>12 DEF DynamicInv
<1>14. keys' \in Seq(SUBSET ({"success_rate"} \cup Types))
  <2>1. PICK type \in [0..(BatchSize - 1) -> Types] :
          keys' = Append(keys, IF LastTry(tries') THEN AllKeys(type)
                               ELSE FullKeys(type))
    BY DEF SampleAgain
  <2>2. /\ AllKeys(type) \in SUBSET ({"success_rate"} \cup Types)
        /\ FullKeys(type) \in SUBSET ({"success_rate"} \cup Types)
    BY DEF AllKeys, FullKeys
  <2> QED  BY <2>1, <2>2 DEF LoopInv
<1> QED
  BY <1>1, <1>3, <1>13, <1>14 DEF LoopInv, VanillaInv, QueryOfOwnGame

\* Plain rollouts: rows with one uid play one game, and their task is its.
LEMMA SampleOnceInv ==
  ASSUME LoopInv, SampleOnce
  PROVE  LoopInv'
<1>1. /\ mode' = mode /\ mode # "dynamic" /\ phase' = "build"
      /\ UNCHANGED <<tries, keys>>
      /\ tasks' = RolloutTasks(1)
  BY DEF SampleOnce, Filtering
<1>2. PICK reward \in [Index -> Rewards] : rows' = Rollout(1, reward)
  BY DEF SampleOnce
<1>3. ASSUME mode = "vanilla"
      PROVE  VanillaInv'
  <2>1. Index = 1..Target /\ Target \in Nat
    BY <1>3, SizeFacts DEF Index, Size, IsTrain, Target
  <2>2. \A k \in Index : GameOf(k) = UidOf(k)
    BY <1>3 DEF GameOf, UidOf, IsTrain
  <2>3. /\ DOMAIN rows' = Index
        /\ \A k \in Index : /\ rows'[k].uid = <<1, UidOf(k)>>
                            /\ rows'[k].game = <<1, GameOf(k)>>
                            /\ tasks'[k] = <<1, GameOf(k)>>
    BY <1>1, <1>2 DEF Rollout, RolloutTasks
  <2>4. \A k, l \in Index : rows'[k].uid = rows'[l].uid => UidOf(k) = UidOf(l)
    BY <2>3
  <2>5. \A k \in Index : tasks'[k] = rows'[k].game
    BY <2>3
  <2>6. \A k, l \in Index :
          rows'[k].uid = rows'[l].uid => rows'[k].game = rows'[l].game
    <3> SUFFICES ASSUME NEW k \in Index, NEW l \in Index,
                        rows'[k].uid = rows'[l].uid
                 PROVE  rows'[k].game = rows'[l].game
      OBVIOUS
    <3>1. GameOf(k) = GameOf(l)
      BY <2>2, <2>4
    <3> QED  BY <2>3, <3>1
  <2>7. DOMAIN rows' \subseteq Nat
    BY <2>1, <2>3
  <2> QED  BY <2>3, <2>5, <2>6, <2>7 DEF VanillaInv
<1>4. VanillaInv'
  BY <1>1, <1>3 DEF VanillaInv
<1> QED
  BY <1>1, <1>4 DEF LoopInv, DynamicInv, QueryOfOwnGame

LEMMA ConcatenateInv ==
  ASSUME LoopInv, Concatenate
  PROVE  LoopInv'
<1>1. /\ mode = "dynamic" /\ phase = "sample"
      /\ UNCHANGED <<mode, tries, rows, tasks, keys, queries>>
      /\ phase' \in {"build", "failed"}
      /\ phase' = "build" => keys # << >>
      /\ Len(rows) >= Target \/ tries >= MaxTries
  BY DEF Concatenate, Filtering
<1>2. PICK B \in Nat : /\ WholeGroups(rows, B)
                       /\ N * B < 2 * Target
                       /\ tries = MaxTries /\ tries > 0 => N * B >= Target
  BY <1>1 DEF LoopInv, DynamicInv
<1>3. /\ tries \in Nat /\ tries <= MaxTries /\ MaxTries \in Nat
      /\ keys # << >> => tries > 0
      /\ \A k \in DOMAIN rows : rows[k].uid[1] \in 1..tries
  BY <1>1, TriesAssumption DEF LoopInv, DynamicInv
<1>4. phase' = "build" => N * B >= Target
  <2>1. Len(rows) = N * B
    BY <1>2 DEF WholeGroups
  <2> QED  BY <1>1, <1>2, <1>3, <2>1
<1>5. DynamicInv'
  <2>1. WholeGroups(rows', B)
    BY <1>1, <1>2
  <2> QED  BY <1>1, <1>2, <1>3, <1>4, <2>1 DEF DynamicInv
<1> QED
  BY <1>1, <1>5 DEF LoopInv, VanillaInv, QueryOfOwnGame

\* The query of a uid has the task of one of its rows, so of all of them.
LEMMA BuildInv ==
  ASSUME LoopInv, Build
  PROVE  LoopInv'
<1>1. /\ phase = "build" /\ phase' = "done"
      /\ UNCHANGED <<mode, tries, rows, tasks, keys>>
      /\ queries' = [uid \in {rows[k].uid : k \in DOMAIN rows} |->
                       tasks[FirstRow(uid)]]
  BY DEF Build
<1>2. DynamicInv'
  BY <1>1 DEF LoopInv, DynamicInv
<1>3. ASSUME mode = "vanilla", NEW k \in DOMAIN rows
      PROVE  queries'[rows[k].uid] = rows[k].game
  <2> DEFINE uid == rows[k].uid
             K == {j \in DOMAIN rows : rows[j].uid = uid}
  <2>1. K \in SUBSET Nat /\ K # {}
    BY <1>1, <1>3 DEF LoopInv, VanillaInv
  <2>2. \E j \in K : \A l \in K : j <= l
    <3> HIDE DEF K
    <3> QED  BY <2>1, SmallestNumber
  <2>3. /\ FirstRow(uid) \in DOMAIN rows
        /\ rows[FirstRow(uid)].uid = uid
    BY <2>2 DEF FirstRow
  <2>4. queries'[uid] = tasks[FirstRow(uid)]
    BY <1>1
  <2> QED  BY <1>1, <1>3, <2>3, <2>4 DEF LoopInv, VanillaInv
<1>4. QueryOfOwnGame' /\ VanillaInv'
  BY <1>1, <1>3 DEF LoopInv, VanillaInv, QueryOfOwnGame
<1> QED  BY <1>1, <1>2, <1>4 DEF LoopInv

LEMMA NextLoopInv ==
  ASSUME LoopInv, [Next]_vars
  PROVE  LoopInv'
<1>1. CASE SampleOnce
  BY <1>1, SampleOnceInv
<1>2. CASE SampleAgain
  BY <1>2, SampleAgainInv
<1>3. CASE Concatenate
  BY <1>3, ConcatenateInv
<1>4. CASE Build
  BY <1>4, BuildInv
<1>5. CASE UNCHANGED vars
  BY <1>5 DEF vars, LoopInv, DynamicInv, VanillaInv, QueryOfOwnGame
<1> QED  BY <1>1, <1>2, <1>3, <1>4, <1>5 DEF Next, Finished

\* Whole groups are what EnoughWholeGroups asks for.
LEMMA WholeGroupsAreEnough ==
  ASSUME NEW B \in Nat, WholeGroups(rows, B), NEW k \in DOMAIN rows
  PROVE  /\ \E first \in DOMAIN rows :
              RowsOf(rows[k].uid) = first..(first + N - 1)
         /\ LastTry(rows[k].uid[1]) \/
              \E i, j \in RowsOf(rows[k].uid) : rows[i].reward # rows[j].reward
<1> DEFINE b == (k - 1) \div N
           uid == rows[k].uid
<1>1. DOMAIN rows = 1..(N * B) /\ N \in Nat \ {0} /\ 1 \in 1..N
  BY SizeFacts DEF WholeGroups
<1>2. ASSUME NEW i \in DOMAIN rows
      PROVE  /\ (i - 1) \div N \in 0..(B - 1)
             /\ \E j \in 1..N : i = N * ((i - 1) \div N) + j
             /\ rows[i].uid = BlockUid(rows, (i - 1) \div N)
  <2> DEFINE q == (i - 1) \div N
             j == ((i - 1) % N) + 1
  <2>1. q \in 0..(B - 1) /\ j \in 1..N /\ i = N * q + j
    BY <1>1, RowOfBlock
  <2> HIDE DEF q, j
  <2>2. rows[N * q + j].uid = BlockUid(rows, q)
    BY <2>1 DEF WholeGroups, Block
  <2>3. rows[i].uid = BlockUid(rows, q) /\ q \in 0..(B - 1)
        /\ \E l \in 1..N : i = N * q + l
    BY <2>1, <2>2
  <2> QED  BY <2>3 DEF q
<1>3. b \in 0..(B - 1) /\ uid = BlockUid(rows, b)
  BY <1>2
<1> HIDE DEF b, uid
<1>4. ASSUME NEW j \in 1..N
      PROVE  N * b + j \in DOMAIN rows /\ rows[N * b + j].uid = uid
  <2>1. N * b + j \in 1..(N * B)
    BY <1>3, BlockOfRow
  <2> QED  BY <1>1, <1>3, <2>1 DEF WholeGroups, Block
<1>5. \A i \in RowsOf(uid) : \E j \in 1..N : i = N * b + j
  <2> SUFFICES ASSUME NEW i \in DOMAIN rows, rows[i].uid = uid
               PROVE  \E j \in 1..N : i = N * b + j
    BY DEF RowsOf
  <2> DEFINE q == (i - 1) \div N
  <2>1. /\ q \in 0..(B - 1) /\ rows[i].uid = BlockUid(rows, q)
        /\ \E j \in 1..N : i = N * q + j
    BY <1>2
  <2> HIDE DEF q
  <2>2. q = b
    BY <1>3, <2>1 DEF WholeGroups
  <2> QED  BY <2>1, <2>2
<1>6. N * b \in Nat
  BY <1>3, SizeFacts
<1>7. RowsOf(uid) = (N * b + 1)..((N * b + 1) + N - 1)
  <2> DEFINE m == N * b
  <2>1. m \in Nat /\ N \in Nat
    BY <1>1, <1>6
  <2>2. \A i \in RowsOf(uid) : \E j \in 1..N : i = m + j
    BY <1>5
  <2>3. \A j \in 1..N : m + j \in RowsOf(uid)
    BY <1>4 DEF RowsOf
  <2> HIDE DEF m
  <2>4. \A i \in (m + 1)..((m + 1) + N - 1) : i - m \in 1..N /\ i = m + (i - m)
    BY <2>1
  <2>5. \A i \in (m + 1)..((m + 1) + N - 1) : i \in RowsOf(uid)
    BY <2>3, <2>4
  <2>6. \A j \in 1..N : m + j \in (m + 1)..((m + 1) + N - 1)
    BY <2>1
  <2>7. RowsOf(uid) = (m + 1)..((m + 1) + N - 1)
    BY <2>2, <2>5, <2>6
  <2> QED  BY <2>7 DEF m
<1>8. LastTry(uid[1]) \/
        \E i, j \in RowsOf(uid) : rows[i].reward # rows[j].reward
  <2>1. \/ LastTry(uid[1])
        \/ \E j \in 1..N : rows[N * b + j].reward # rows[N * b + 1].reward
    BY <1>3 DEF WholeGroups, Block
  <2> QED  BY <1>1, <1>4, <2>1 DEF RowsOf
<1>9. N * b + 1 \in DOMAIN rows
  BY <1>1, <1>4
<1> QED  BY <1>7, <1>8, <1>9 DEF uid

-----------------------------------------------------------------------------
LEMMA LoopInvHolds == Spec => []LoopInv
<1>1. LoopInv /\ [Next]_vars => LoopInv'
  BY NextLoopInv
<1> QED  BY InitLoopInv, <1>1, PTL DEF Spec

\* Dynamic sampling: a batch has the target number of rows and less than twice
\* as many, in whole groups that stay together and, but for the last try, have
\* something to learn from.
THEOREM DynamicSamplingSuffices == Spec => []EnoughWholeGroups
<1>1. LoopInv => EnoughWholeGroups
  <2> SUFFICES ASSUME LoopInv, mode = "dynamic" PROVE EnoughWholeGroups
    BY DEF EnoughWholeGroups
  <2>1. PICK B \in Nat : /\ WholeGroups(rows, B)
                         /\ N * B < 2 * Target
                         /\ phase \in {"build", "done"} => N * B >= Target
    BY DEF LoopInv, DynamicInv
  <2>2. Len(rows) = N * B /\ N * B \in Nat /\ Target \in Nat
    BY <2>1, SizeFacts DEF WholeGroups
  <2>3. phase \in {"build", "done"} =>
          Target <= Len(rows) /\ Len(rows) < 2 * Target
    <3> DEFINE n == N * B
    <3>1. /\ Len(rows) = n /\ n \in Nat /\ Target \in Nat /\ n < 2 * Target
          /\ phase \in {"build", "done"} => n >= Target
      BY <2>1, <2>2
    <3> HIDE DEF n
    <3> QED  BY <3>1
  <2> QED  BY <2>1, <2>3, WholeGroupsAreEnough DEF EnoughWholeGroups
<1> QED  BY LoopInvHolds, <1>1, PTL

\* Plain training rollouts: a trajectory finds the task and the expert of its
\* own game through its uid.
THEOREM QueriesMatchTheirGames == Spec => []QueryOfOwnGame
<1>1. LoopInv => QueryOfOwnGame
  BY DEF LoopInv
<1> QED  BY LoopInvHolds, <1>1, PTL
=============================================================================
