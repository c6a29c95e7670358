------------------------- MODULE EnvironmentsProofs -------------------------
(***************************************************************************)
(* WorkerGroups.tla, ExpertWorkers.tla and SciWorldEnvs.tla for every      *)
(* number of tasks, group size, episode length and number of episodes,     *)
(* every plan and gold path, and any number of workers that raise.         *)
(***************************************************************************)
EXTENDS Environments, NumberLemmas, SequenceTheorems, FiniteSetTheorems

-----------------------------------------------------------------------------
(* Workers, groups and rows.                                               *)

LEMMA Sizes ==
  /\ EnvNum \in Nat \ {0} /\ N \in Nat \ {0}
  /\ WorkersPerGroup \in Nat \ {0} /\ WorkersPerGroup = N + 1
  /\ NumProcesses \in Nat \ {0} /\ NumProcesses = WorkersPerGroup * EnvNum
  /\ NumProcesses >= EnvNum
  /\ EnvNum * N \in Nat \ {0}
<1>1. EnvNum \in Nat \ {0} /\ N \in Nat \ {0} /\ WorkersPerGroup = N + 1
  BY EnvNumAssumption, NAssumption DEF WorkersPerGroup
<1>2. EnvNum * N \in Nat \ {0}
  BY <1>1
<1>3. NumProcesses = EnvNum * N + EnvNum
  BY <1>1 DEF NumProcesses
<1>4. NumProcesses = WorkersPerGroup * EnvNum
  BY <1>1 DEF NumProcesses
<1> QED  BY <1>1, <1>2, <1>3, <1>4

\* A worker has a group and a place in it.
LEMMA WorkerFacts ==
  ASSUME NEW w \in Workers
  PROVE  /\ w \in Nat /\ GroupOf(w) \in Groups
         /\ w % WorkersPerGroup \in 0..N
         /\ w = WorkersPerGroup * GroupOf(w) + (w % WorkersPerGroup)
<1> DEFINE g == GroupOf(w)
           p == w % WorkersPerGroup
<1>1. w \in 0..(NumProcesses - 1) /\ w \in Int
  BY Sizes DEF Workers
<1>2. /\ g \in Int /\ p \in 0..(WorkersPerGroup - 1)
      /\ w = WorkersPerGroup * g + p
  BY <1>1, Sizes, DivMod DEF GroupOf
<1> HIDE DEF g, p
<1>3. CASE g < 0
  <2>1. WorkersPerGroup * g + WorkersPerGroup <= WorkersPerGroup * 0
    BY <1>2, <1>3, Sizes, Mono
  <2> QED  BY <1>1, <1>2, <2>1, Sizes
<1>4. CASE g >= EnvNum
  <2>1. WorkersPerGroup * g >= WorkersPerGroup * EnvNum
    <3>1. CASE g = EnvNum
      BY <3>1, Sizes
    <3>2. CASE EnvNum < g
      <4>1. WorkersPerGroup * EnvNum + WorkersPerGroup <= WorkersPerGroup * g
        BY <1>2, <3>2, Sizes, Mono
      <4> QED  BY <1>2, <4>1, Sizes
    <3> QED  BY <1>2, <1>4, <3>1, <3>2, Sizes
  <2> QED  BY <1>1, <1>2, <2>1, Sizes
<1>5. g \in Groups
  BY <1>2, <1>3, <1>4, Sizes DEF Groups
<1> QED  BY <1>1, <1>2, <1>5, Sizes DEF g, p

\* A group and a place in it are a worker.
LEMMA WorkerOf ==
  ASSUME NEW g \in Groups, NEW p \in 0..N, NEW w,
         w = WorkersPerGroup * g + p
  PROVE  w \in Workers /\ GroupOf(w) = g /\ w % WorkersPerGroup = p
<1>1. g \in 0..(EnvNum - 1) /\ p \in 0..(WorkersPerGroup - 1)
  BY Sizes DEF Groups
<1>2. GroupOf(w) = g /\ w % WorkersPerGroup = p
  BY <1>1, Sizes, DivModOf DEF GroupOf
<1>3. WorkersPerGroup * g + WorkersPerGroup <= WorkersPerGroup * EnvNum
  BY <1>1, Sizes, Mono
<1>4. WorkersPerGroup * g \in Nat
  BY <1>1, Sizes
<1>5. w \in Workers
  BY <1>1, <1>3, <1>4, Sizes DEF Workers
<1> QED  BY <1>2, <1>5

LEMMA ExpertFacts ==
  ASSUME NEW g \in Groups
  PROVE  Expert(g) \in Workers /\ GroupOf(Expert(g)) = g /\ IsExpert(Expert(g))
<1>1. Expert(g) = WorkersPerGroup * g + N /\ N \in 0..N
  BY Sizes DEF Expert, Groups
<1> QED  BY <1>1, WorkerOf DEF IsExpert

LEMMA ExpertIsUnique ==
  ASSUME NEW w \in Workers, IsExpert(w)
  PROVE  w = Expert(GroupOf(w))
<1>1. w = WorkersPerGroup * GroupOf(w) + N /\ GroupOf(w) \in Int
  BY WorkerFacts DEF IsExpert, Groups
<1> QED  BY <1>1, Sizes DEF Expert

LEMMA RowsAre ==
  /\ Rows = 0..(EnvNum * N - 1)
  /\ \A k \in Rows : Worker(k) = WorkersPerGroup * Uid(k) + (k % N)
<1>1. Len(PolicyIndices) = EnvNum * N
  BY Sizes DEF PolicyIndices
<1>2. Rows = 0..(EnvNum * N - 1)
  BY <1>1 DEF Rows
<1>3. ASSUME NEW k \in Rows
      PROVE  Worker(k) = WorkersPerGroup * Uid(k) + (k % N)
  <2>1. k + 1 \in 1..(EnvNum * N) /\ (k + 1) - 1 = k /\ k \in Int
    BY <1>2, <1>3, Sizes
  <2>2. Worker(k) = (k \div N) * WorkersPerGroup + (k % N)
    BY <2>1 DEF Worker, PolicyIndices
  <2>3. k \div N \in Int
    BY <2>1, Sizes, DivMod
  <2>4. (k \div N) * WorkersPerGroup = WorkersPerGroup * (k \div N)
    BY <2>3, Sizes
  <2> QED  BY <2>2, <2>4 DEF Uid
<1> QED  BY <1>2, <1>3

\* A row is one of the policy workers of the group that its uid stands for.
LEMMA RowFacts ==
  ASSUME NEW k \in Rows
  PROVE  /\ k \in Nat /\ Uid(k) \in Groups /\ k % N \in 0..(N - 1)
         /\ k = N * Uid(k) + (k % N)
         /\ Worker(k) \in Workers /\ GroupOf(Worker(k)) = Uid(k)
         /\ Worker(k) % WorkersPerGroup = k % N
         /\ ExpertGroup(k) = Uid(k) /\ ~IsExpert(Worker(k))
<1> DEFINE u == Uid(k)
           p == k % N
<1>1. k \in 0..(EnvNum * N - 1)
  BY RowsAre
<1>2. u \in Int /\ p \in 0..(N - 1) /\ k = N * u + p
  BY <1>1, Sizes, DivMod DEF Uid
<1>3. Worker(k) = WorkersPerGroup * u + p
  BY RowsAre
<1> HIDE DEF u, p
<1>4. CASE u < 0
  <2>1. N * u + N <= N * 0
    BY <1>2, <1>4, Sizes, Mono
  <2> QED  BY <1>1, <1>2, <2>1, Sizes
<1>5. CASE u >= EnvNum
  <2>1. EnvNum * N = N * EnvNum
    BY Sizes
  <2>2. N * u >= N * EnvNum
    <3>1. CASE u = EnvNum
      BY <3>1, Sizes
    <3>2. CASE EnvNum < u
      <4>1. N * EnvNum + N <= N * u
        BY <1>2, <3>2, Sizes, Mono
      <4> QED  BY <1>2, <4>1, Sizes
    <3> QED  BY <1>2, <1>5, <3>1, <3>2, Sizes
  <2> QED  BY <1>1, <1>2, <2>1, <2>2, Sizes
<1>6. u \in Groups
  BY <1>2, <1>4, <1>5, Sizes DEF Groups
<1>7. p \in 0..N
  BY <1>2, Sizes
<1>8. /\ Worker(k) \in Workers /\ GroupOf(Worker(k)) = u
      /\ Worker(k) % WorkersPerGroup = p
  BY <1>3, <1>6, <1>7, WorkerOf
<1>9. ExpertGroup(k) = u /\ ~IsExpert(Worker(k))
  BY <1>2, <1>8, Sizes DEF ExpertGroup, GroupOf, IsExpert
<1> QED  BY <1>1, <1>2, <1>6, <1>8, <1>9, Sizes DEF u, p

\* policy_indices are the workers that are no experts, each once and in order,
\* which is what the loop of __init__ appends.
THEOREM PolicyIndicesAreTheNonExperts ==
  /\ \A j, k \in Rows : j < k => Worker(j) < Worker(k)
  /\ {Worker(k) : k \in Rows} = {w \in Workers : ~IsExpert(w)}
<1>1. ASSUME NEW j \in Rows, NEW k \in Rows, j < k
      PROVE  Worker(j) < Worker(k)
  <2> DEFINE u == Uid(j)
             v == Uid(k)
  <2>1. /\ u \in Int /\ v \in Int /\ j % N \in 0..(N - 1) /\ k % N \in 0..(N - 1)
        /\ j = N * u + (j % N) /\ k = N * v + (k % N) /\ j \in Nat /\ k \in Nat
    BY RowFacts DEF Groups
  <2>2. /\ Worker(j) = WorkersPerGroup * u + (j % N)
        /\ Worker(k) = WorkersPerGroup * v + (k % N)
    BY RowsAre
  <2> HIDE DEF u, v
  <2>3. CASE v < u
    <3>1. N * v + N <= N * u
      BY <2>1, <2>3, Sizes, Mono
    <3> QED  BY <1>1, <2>1, <3>1, Sizes
  <2>4. CASE u = v
    BY <1>1, <2>1, <2>2, <2>4, Sizes
  <2>5. CASE u < v
    <3>1. WorkersPerGroup * u + WorkersPerGroup <= WorkersPerGroup * v
      BY <2>1, <2>5, Sizes, Mono
    <3> QED  BY <2>1, <2>2, <3>1, Sizes
  <2> QED  BY <2>1, <2>3, <2>4, <2>5
<1>2. ASSUME NEW w \in Workers, ~IsExpert(w)
      PROVE  \E k \in Rows : Worker(k) = w
  <2> DEFINE g == GroupOf(w)
             p == w % WorkersPerGroup
             k == N * g + p
  <2>1. /\ g \in 0..(EnvNum - 1) /\ p \in 0..(N - 1)
        /\ w = WorkersPerGroup * g + p
    BY <1>2, WorkerFacts, Sizes DEF IsExpert, Groups
  <2> HIDE DEF g, p
  <2>2. N * g + N <= N * EnvNum /\ N * g \in Nat /\ N * EnvNum = EnvNum * N
    BY <2>1, Sizes, Mono
  <2>3. k \in Rows
    <3>1. N * g + p >= 0 /\ N * g + p <= EnvNum * N - 1 /\ N * g + p \in Int
      BY <2>1, <2>2, Sizes
    <3>2. EnvNum * N - 1 \in Int
      BY Sizes
    <3> QED  BY <3>1, <3>2, RowsAre
  <2>4. Uid(k) = g /\ k % N = p
    BY <2>1, Sizes, DivModOf DEF Uid
  <2> QED  BY <2>1, <2>3, <2>4, RowsAre
<1> QED  BY <1>1, <1>2, RowFacts

LEMMA RowsAreDistinct ==
  ASSUME NEW j \in Rows, NEW k \in Rows, Worker(j) = Worker(k)
  PROVE  j = k
<1>1. j \in Nat /\ k \in Nat /\ Worker(j) \in Nat
  BY RowFacts, WorkerFacts
<1> QED  BY <1>1, PolicyIndicesAreTheNonExperts

\* What step() sends to the worker of a row is the row's action.
LEMMA PaddedFacts ==
  ASSUME NEW a, NEW dummy, NEW k \in Rows
  PROVE  Padded(a, dummy)[Worker(k)] = a[k]
<1>1. (CHOOSE j \in Rows : Worker(j) = Worker(k)) = k
  BY RowsAreDistinct
<1> QED  BY <1>1, RowFacts DEF Padded

-----------------------------------------------------------------------------
(* Truncation.                                                             *)

LEMMA FirstOne ==
  ASSUME NEW K \in SUBSET Nat, K # {}
  PROVE  \E j \in K : \A k \in K : j <= k
<1>1. PICK j \in K : \A k \in K : ~(<<k, j>> \in OpToRel(<, Nat))
  BY WFMin, NatLessThanWellFounded
<1>2. \A k \in K : ~(k < j)
  BY <1>1 DEF OpToRel
<1> QED  BY <1>2

\* A truncated trajectory is the whole one, or what comes before its first
\* padding.
LEMMA TruncateFacts ==
  ASSUME NEW S, NEW t \in Seq(S)
  PROVE  /\ Truncate(t) \in Seq(S)
         /\ Len(Truncate(t)) \in 0..Len(t)
         /\ \A i \in 1..Len(Truncate(t)) : Truncate(t)[i] = t[i]
         /\ \/ /\ Len(Truncate(t)) = Len(t)
               /\ \A i \in 2..Len(t) : ~IsPadding(t, i)
            \/ \E c \in 2..Len(t) :
                 /\ Len(Truncate(t)) = c - 1
                 /\ IsPadding(t, c)
                 /\ \A i \in 2..(c - 1) : ~IsPadding(t, i)
<1> DEFINE cuts == {i \in 2..Len(t) : IsPadding(t, i)}
           c == CHOOSE i \in cuts : \A j \in cuts : i <= j
<1>1. Len(t) \in Nat /\ \A i \in 1..Len(t) : t[i] \in S
  BY LenProperties, ElementOfSeq
<1>2. CASE cuts = {}
  <2>1. Truncate(t) = t
    BY <1>2 DEF Truncate
  <2> QED  BY <1>1, <1>2, <2>1
<1>3. CASE cuts # {}
  <2>1. cuts \in SUBSET Nat
    BY <1>1
  <2>2. c \in cuts /\ \A j \in cuts : c <= j
    <3>1. \E i \in cuts : \A j \in cuts : i <= j
      <4> HIDE DEF cuts
      <4> QED  BY <1>3, <2>1, FirstOne
    <3> QED  BY <3>1
  <2>3. Truncate(t) = SubSeq(t, 1, c - 1)
    BY <1>3 DEF Truncate
  <2>4. c \in 2..Len(t) /\ IsPadding(t, c)
    BY <2>2
  <2>5. \A i \in 2..(c - 1) : ~IsPadding(t, i)
    <3> SUFFICES ASSUME NEW i \in 2..(c - 1), IsPadding(t, i)  PROVE FALSE
      OBVIOUS
    <3>1. i \in cuts /\ ~(c <= i)
      BY <1>1, <2>4
    <3> QED  BY <2>2, <3>1
  <2> HIDE DEF c
  <2>6. /\ SubSeq(t, 1, c - 1) \in Seq(S)
        /\ Len(SubSeq(t, 1, c - 1)) = c - 1
        /\ \A i \in 1..(c - 1) : SubSeq(t, 1, c - 1)[i] = t[i]
    BY <1>1, <2>4
  <2> QED  BY <1>1, <2>3, <2>4, <2>5, <2>6
<1> QED  BY <1>2, <1>3

-----------------------------------------------------------------------------
(* ALFWorld: the experts of ExpertWorkers.                                 *)

Entries == [game : Groups \X Nat, at : Nat, action : PlanActions]

ExpertTypeInv ==
  /\ phase \in {"idle", "run", "over"}
  /\ step \in Nat
  /\ resets \in [Workers -> Nat]
  /\ \A w \in Workers : resets[w] = resets[0]
  /\ plan \in [Groups -> PlanActions \cup {"none"}]
  /\ phase # "idle" => resets[0] > 0 /\ plan \in [Groups -> PlanActions]
  /\ wonAt \in [Groups -> 0..step]
  /\ trail \in [Groups -> Seq(Entries)]
  /\ DOMAIN played = Workers

\* The expert's trajectory: an entry per step of its own game, and once it
\* has won, the action that its last plan proposes.
TrailInv ==
  \A g \in Groups :
    /\ Len(trail[g]) = step
    /\ \A t \in 1..step : /\ trail[g][t].game = Game(Expert(g))
                          /\ trail[g][t].at = t - 1
    /\ wonAt[g] > 0 =>
         \A t \in (wonAt[g] + 1)..step : trail[g][t].action = plan[g]

GivenInv ==
  Collected => \A k \in Rows : expert[k] = Truncate(trail[ExpertGroup(k)])

ExpertInv ==
  ExpertTypeInv /\ TrailInv /\ GivenInv /\ RowsDriveOwnWorker

LEMMA ZeroIsWorker == 0 \in Workers
  BY Sizes DEF Workers

LEMMA ExpertInit == Init => ExpertInv
<1> SUFFICES ASSUME Init  PROVE ExpertInv
  OBVIOUS
<1> USE DEF Init
<1>1. ExpertTypeInv
  <2>1. << >> \in Seq(Entries)
    BY EmptySeq
  <2> QED  BY <2>1, ZeroIsWorker DEF ExpertTypeInv
<1>2. TrailInv
  BY DEF TrailInv
<1>3. GivenInv
  BY ZeroIsWorker DEF GivenInv, Collected
<1>4. RowsDriveOwnWorker
  <2>1. [t \in 1..0 |-> <<0, t>>] = << >> /\ 1..0 = {}
    OBVIOUS
  <2> QED  BY <2>1, RowFacts DEF RowsDriveOwnWorker
<1> QED  BY <1>1, <1>2, <1>3, <1>4 DEF ExpertInv

LEMMA ResetStep ==
  ASSUME ExpertInv, Reset
  PROVE  ExpertInv'
<1> USE DEF Reset, TrailAfterReset
<1>1. ExpertTypeInv'
  <2>1. << >> \in Seq(Entries)
    BY EmptySeq
  <2>2. \A w \in Workers : resets'[w] = resets'[0] /\ resets'[w] \in Nat
    BY ZeroIsWorker DEF ExpertInv, ExpertTypeInv
  <2>3. resets'[0] > 0
    BY ZeroIsWorker DEF ExpertInv, ExpertTypeInv
  <2>4. resets' \in [Workers -> Nat]
    BY <2>2
  <2>5. /\ plan' \in [Groups -> PlanActions \cup {"none"}]
        /\ wonAt' \in [Groups -> 0..step'] /\ trail' \in [Groups -> Seq(Entries)]
    BY <2>1
  <2> QED  BY <2>2, <2>3, <2>4, <2>5 DEF ExpertTypeInv
<1>2. TrailInv'
  BY DEF TrailInv
<1>3. GivenInv'
  BY DEF GivenInv, Collected
<1>4. RowsDriveOwnWorker'
  <2>1. [t \in 1..0 |-> <<0, t>>] = << >> /\ 1..0 = {}
    OBVIOUS
  <2> QED  BY <2>1, RowFacts DEF RowsDriveOwnWorker, Rows, Worker
<1> QED  BY <1>1, <1>2, <1>3, <1>4 DEF ExpertInv

LEMMA StepStep ==
  ASSUME ExpertInv, Step
  PROVE  ExpertInv'
<1> DEFINE entry(g) == [game |-> Game(Expert(g)), at |-> step, action |-> plan[g]]
<1>1. /\ phase = "run" /\ step \in Nat /\ step' = step + 1
      /\ phase' \in {"run", "over"}
      /\ resets' = resets /\ expert' = expert
      /\ plan' \in [Groups -> PlanActions]
      /\ \A g \in Groups : wonAt[g] > 0 => plan'[g] = plan[g]
      /\ trail' = [g \in Groups |-> Append(trail[g], entry(g))]
  BY DEF Step, ExpertInv, ExpertTypeInv
<1>2. PICK wins \in SUBSET {g \in Groups : wonAt[g] = 0} :
        wonAt' = [g \in Groups |-> IF g \in wins THEN step + 1 ELSE wonAt[g]]
  BY DEF Step
<1>3. wonAt \in [Groups -> 0..step] /\ wonAt' \in [Groups -> 0..step']
  BY <1>1, <1>2 DEF ExpertInv, ExpertTypeInv
<1>4. ASSUME NEW g \in Groups
      PROVE  /\ entry(g) \in Entries /\ trail[g] \in Seq(Entries)
             /\ Len(trail[g]) = step
  <2>1. Expert(g) \in Workers /\ GroupOf(Expert(g)) = g
    BY ExpertFacts
  <2> QED  BY <1>1, <2>1 DEF Entries, Game, ExpertInv, ExpertTypeInv, TrailInv
<1>5. ASSUME NEW g \in Groups
      PROVE  /\ trail'[g] \in Seq(Entries) /\ Len(trail'[g]) = step + 1
             /\ trail'[g][step + 1] = entry(g)
             /\ \A t \in 1..step : trail'[g][t] = trail[g][t]
  <2>1. trail'[g] = Append(trail[g], entry(g))
    BY <1>1
  <2>2. entry(g) \in Entries /\ trail[g] \in Seq(Entries) /\ Len(trail[g]) = step
    BY <1>4
  <2> HIDE DEF entry
  <2> QED  BY <2>1, <2>2, AppendProperties
<1>6. ExpertTypeInv'
  <2>1. trail' \in [Groups -> Seq(Entries)]
    BY <1>1, <1>5
  <2>2. DOMAIN played' = Workers
    BY DEF Step
  <2> QED  BY <1>1, <1>3, <2>1, <2>2 DEF ExpertInv, ExpertTypeInv
<1>7. TrailInv'
  <2> SUFFICES ASSUME NEW g \in Groups
               PROVE  /\ Len(trail'[g]) = step + 1
                      /\ \A t \in 1..(step + 1) :
                           /\ trail'[g][t].game = Game(Expert(g))
                           /\ trail'[g][t].at = t - 1
                      /\ wonAt'[g] > 0 =>
                           \A t \in (wonAt'[g] + 1)..(step + 1) :
                             trail'[g][t].action = plan'[g]
    BY <1>1 DEF TrailInv, Game
  <2>1. ASSUME NEW t \in 1..(step + 1)
        PROVE  trail'[g][t].game = Game(Expert(g)) /\ trail'[g][t].at = t - 1
    <3>1. CASE t = step + 1
      <4>1. trail'[g][t] = entry(g)
        BY <1>5, <3>1
      <4>2. entry(g).game = Game(Expert(g)) /\ entry(g).at = step
        OBVIOUS
      <4>3. step = t - 1
        BY <1>1, <3>1
      <4> HIDE DEF entry
      <4> QED  BY <4>1, <4>2, <4>3
    <3>2. CASE t # step + 1
      <4>1. t \in 1..step
        BY <1>1, <3>2
      <4>2. trail'[g][t] = trail[g][t]
        BY <1>5, <4>1
      <4>3. trail[g][t].game = Game(Expert(g)) /\ trail[g][t].at = t - 1
        BY <4>1 DEF ExpertInv, TrailInv
      <4> QED  BY <4>2, <4>3
    <3> QED  BY <3>1, <3>2
  <2>2. ASSUME wonAt'[g] > 0, NEW t \in (wonAt'[g] + 1)..(step + 1)
        PROVE  trail'[g][t].action = plan'[g]
    <3>1. wonAt[g] > 0 /\ wonAt'[g] = wonAt[g]
      BY <1>1, <1>2, <1>3, <2>2
    <3>2. plan'[g] = plan[g] /\ wonAt[g] \in Nat
      BY <1>1, <1>3, <3>1
    <3>3. CASE t = step + 1
      <4>1. trail'[g][t] = entry(g)
        BY <1>5, <3>3
      <4> QED  BY <3>2, <4>1
    <3>4. CASE t # step + 1
      <4>1. t \in (wonAt[g] + 1)..step /\ t \in 1..step
        BY <1>1, <2>2, <3>1, <3>2, <3>4
      <4>2. trail'[g][t] = trail[g][t]
        BY <1>5, <4>1
      <4>3. trail[g][t].action = plan[g]
        BY <3>1, <4>1 DEF ExpertInv, TrailInv
      <4> QED  BY <3>2, <4>2, <4>3
    <3> QED  BY <3>3, <3>4
  <2> QED  BY <1>5, <2>1, <2>2
<1>8. GivenInv'
  BY <1>1 DEF GivenInv, Collected
<1>9. RowsDriveOwnWorker'
  <2> SUFFICES ASSUME NEW k \in Rows
               PROVE  played'[Worker(k)] = [t \in 1..(step + 1) |-> <<k, t>>]
    BY <1>1 DEF RowsDriveOwnWorker, Rows, Worker
  <2> DEFINE a == [j \in Rows |-> <<j, step + 1>>]
  <2>1. Worker(k) \in Workers /\ ~IsExpert(Worker(k))
    BY RowFacts
  <2>2. played'[Worker(k)] =
          Append(played[Worker(k)], Padded(a, "look")[Worker(k)])
    BY <2>1 DEF Step, Executed
  <2>3. Padded(a, "look")[Worker(k)] = <<k, step + 1>>
    BY PaddedFacts
  <2>4. played[Worker(k)] = [t \in 1..step |-> <<k, t>>]
    BY DEF ExpertInv, RowsDriveOwnWorker
  <2>5. Append([t \in 1..step |-> <<k, t>>], <<k, step + 1>>) =
          [t \in 1..(step + 1) |-> <<k, t>>]
    BY <1>1
  <2> QED  BY <2>2, <2>3, <2>4, <2>5
<1> QED  BY <1>6, <1>7, <1>8, <1>9 DEF ExpertInv

LEMMA CollectStep ==
  ASSUME ExpertInv, Collect
  PROVE  ExpertInv'
<1> USE DEF Collect
<1>1. ExpertTypeInv'
  BY DEF ExpertInv, ExpertTypeInv
<1>2. TrailInv' /\ RowsDriveOwnWorker'
  BY DEF ExpertInv, TrailInv, Game, RowsDriveOwnWorker
<1>3. GivenInv'
  BY DEF GivenInv
<1> QED  BY <1>1, <1>2, <1>3 DEF ExpertInv

LEMMA ExpertInvariant == EnvSpec => []ExpertInv
<1>1. EnvInit => ExpertInv
  BY ExpertInit DEF EnvInit
<1>2. ExpertInv /\ [EnvNext]_<<vars, sciVars, envName>> => ExpertInv'
  <2> SUFFICES ASSUME ExpertInv, [Next]_vars  PROVE ExpertInv'
    BY DEF EnvNext
  <2>1. CASE UNCHANGED vars
    <3> USE <2>1 DEF vars
    <3>1. ExpertTypeInv'
      BY DEF ExpertInv, ExpertTypeInv
    <3>2. TrailInv' /\ RowsDriveOwnWorker' /\ GivenInv'
      BY DEF ExpertInv, TrailInv, Game, RowsDriveOwnWorker, GivenInv, Collected
    <3> QED  BY <3>1, <3>2 DEF ExpertInv
  <2> QED  BY <2>1, ResetStep, StepStep, CollectStep DEF Next, Finished
<1> QED  BY <1>1, <1>2, PTL DEF EnvSpec

\* Every policy worker executes the actions of its own row, in order, however
\* the rows and the experts' dummies are laid out (AlfworldEnvs.step).
THEOREM RowsReachTheirWorkers == EnvSpec => []RowsDriveOwnWorker
<1>1. ExpertInv => RowsDriveOwnWorker
  BY DEF ExpertInv
<1> QED  BY <1>1, ExpertInvariant, PTL

\* What the facts about truncation say of a row's trajectory.
LEMMA GivenIsPrefix ==
  ASSUME ExpertInv, Collected, NEW k \in Rows
  PROVE  LET g == ExpertGroup(k) IN
         /\ g \in Groups /\ trail[g] \in Seq(Entries) /\ Len(trail[g]) = step
         /\ step \in Nat
         /\ expert[k] = Truncate(trail[g]) /\ Len(expert[k]) \in 0..step
         /\ DOMAIN expert[k] = 1..Len(expert[k])
         /\ \A t \in 1..Len(expert[k]) : expert[k][t] = trail[g][t]
<1> DEFINE g == ExpertGroup(k)
<1>1. g \in Groups
  BY RowFacts
<1>2. trail[g] \in Seq(Entries) /\ Len(trail[g]) = step /\ step \in Nat
  BY <1>1 DEF ExpertInv, ExpertTypeInv, TrailInv
<1>3. expert[k] = Truncate(trail[g])
  BY DEF ExpertInv, GivenInv
<1> HIDE DEF g
<1>4. /\ Truncate(trail[g]) \in Seq(Entries)
      /\ Len(Truncate(trail[g])) \in 0..Len(trail[g])
      /\ \A t \in 1..Len(Truncate(trail[g])) : Truncate(trail[g])[t] = trail[g][t]
  BY <1>2, TruncateFacts
<1>5. DOMAIN expert[k] = 1..Len(expert[k])
  BY <1>3, <1>4, LenProperties
<1> QED  BY <1>1, <1>2, <1>3, <1>4, <1>5 DEF g

\* The reference solution a row is given was played in the row's own game, in
\* this rollout, from the start, and is the same for all rows of its uid
\* (get_expert_trajectories of the environments and of the manager).
THEOREM ExpertsPlayTheGameOfTheirRows == EnvSpec => []ExpertOfOwnGame
<1>1. ExpertInv => ExpertOfOwnGame
  <2> SUFFICES ASSUME ExpertInv, Collected, NEW k \in Rows
               PROVE  /\ \A t \in DOMAIN expert[k] :
                           /\ expert[k][t].game = Game(Worker(k))
                           /\ expert[k][t].at = t - 1
                      /\ \A j \in Rows : Uid(j) = Uid(k) =>
                           /\ expert[j] = expert[k]
                           /\ Game(Worker(j)) = Game(Worker(k))
    BY DEF ExpertOfOwnGame
  <2> DEFINE g == ExpertGroup(k)
  <2>1. g = Uid(k) /\ g \in Groups /\ GroupOf(Worker(k)) = g /\ Worker(k) \in Workers
    BY RowFacts
  <2>2. Expert(g) \in Workers /\ GroupOf(Expert(g)) = g
    BY <2>1, ExpertFacts
  <2>3. \A w \in Workers : resets[w] = resets[0]
    BY DEF ExpertInv, ExpertTypeInv
  <2>4. Game(Expert(g)) = Game(Worker(k))
    <3>1. resets[Expert(g)] = resets[0] /\ resets[Worker(k)] = resets[0]
      BY <2>1, <2>2, <2>3
    <3> QED  BY <2>1, <2>2, <3>1 DEF Game
  <2>5. ASSUME NEW t \in DOMAIN expert[k]
        PROVE  expert[k][t].game = Game(Worker(k)) /\ expert[k][t].at = t - 1
    <3>1. t \in 1..step /\ expert[k][t] = trail[g][t]
      BY <2>5, GivenIsPrefix
    <3>2. trail[g][t].game = Game(Expert(g)) /\ trail[g][t].at = t - 1
      BY <2>1, <3>1 DEF ExpertInv, TrailInv
    <3> QED  BY <2>4, <3>1, <3>2
  <2>6. ASSUME NEW j \in Rows, Uid(j) = Uid(k)
        PROVE  expert[j] = expert[k] /\ Game(Worker(j)) = Game(Worker(k))
    <3>1. /\ ExpertGroup(j) = ExpertGroup(k) /\ Worker(j) \in Workers
          /\ GroupOf(Worker(j)) = GroupOf(Worker(k))
      BY <2>1, <2>6, RowFacts
    <3>2. expert[j] = expert[k]
      BY <3>1, GivenIsPrefix
    <3>3. resets[Worker(j)] = resets[0] /\ resets[Worker(k)] = resets[0]
      BY <2>1, <2>3, <3>1
    <3> QED  BY <3>1, <3>2, <3>3 DEF Game
  <2> QED  BY <2>5, <2>6
<1> QED  BY <1>1, ExpertInvariant, PTL

\* Truncation takes the padding after a win and nothing of the solution
\* (_truncate_expert_trajectory), however long the rollout goes on.
THEOREM TruncationSparesTheSolution == EnvSpec => []PaddingIsCut
<1>1. ExpertInv => PaddingIsCut
  <2> SUFFICES ASSUME ExpertInv, Collected, NEW k \in Rows,
                      wonAt[ExpertGroup(k)] > 0,
                      ~RepeatsBefore(trail[ExpertGroup(k)], wonAt[ExpertGroup(k)])
               PROVE  Len(expert[k]) \in {wonAt[ExpertGroup(k)],
                                          wonAt[ExpertGroup(k)] + 1}
    BY DEF PaddingIsCut
  <2> DEFINE g == ExpertGroup(k)
             t == trail[g]
             n == wonAt[g]
             len == Len(Truncate(t))
  <2>1. /\ g \in Groups /\ t \in Seq(Entries) /\ Len(t) = step /\ step \in Nat
        /\ expert[k] = Truncate(t)
    BY GivenIsPrefix
  <2>2. n \in 1..step
    BY <2>1 DEF ExpertInv, ExpertTypeInv
  <2>3. \A i \in (n + 1)..step : t[i].action = plan[g]
    BY <2>1 DEF ExpertInv, TrailInv
  <2>4. \A i \in 2..n : t[i].action # t[i - 1].action
    BY DEF RepeatsBefore
  <2> HIDE DEF t, n, g
  <2>5. \/ len = step /\ \A i \in 2..step : ~IsPadding(t, i)
        \/ \E c \in 2..step : /\ len = c - 1 /\ IsPadding(t, c)
                              /\ \A i \in 2..(c - 1) : ~IsPadding(t, i)
    BY <2>1, TruncateFacts
  <2> HIDE DEF len
  \* What comes after the win and a step is padding.
  <2>6. ASSUME NEW i \in (n + 2)..step
        PROVE  IsPadding(t, i)
    <3>1. i \in (n + 1)..step /\ i - 1 \in (n + 1)..step
      BY <2>1, <2>2
    <3>2. t[i].action = plan[g] /\ t[i - 1].action = plan[g]
      BY <2>3, <3>1
    <3>3. \A j \in i..(i + 2) : j <= step => j \in (n + 1)..step
      BY <2>1, <2>2, <3>1
    <3> QED  BY <2>1, <2>3, <3>2, <3>3 DEF IsPadding
  \* Nothing before it is.
  <2>7. \A i \in 2..n : ~IsPadding(t, i)
    BY <2>4 DEF IsPadding
  <2>8. CASE len = step /\ \A i \in 2..step : ~IsPadding(t, i)
    <3>1. ~(n + 2 <= step)
      <4>1. n + 2 <= step => n + 2 \in (n + 2)..step /\ n + 2 \in 2..step
        BY <2>1, <2>2
      <4> QED  BY <2>6, <2>8, <4>1
    <3> QED  BY <2>1, <2>2, <2>8, <3>1 DEF g, t, n, len
  <2>9. CASE \E c \in 2..step : /\ len = c - 1 /\ IsPadding(t, c)
                                /\ \A i \in 2..(c - 1) : ~IsPadding(t, i)
    <3>1. PICK c \in 2..step : /\ len = c - 1 /\ IsPadding(t, c)
                               /\ \A i \in 2..(c - 1) : ~IsPadding(t, i)
      BY <2>9
    <3>2. c > n
      BY <2>2, <2>7, <3>1
    <3>3. ~(n + 2 < c)
      <4>1. n + 2 < c => n + 2 \in (n + 2)..step /\ n + 2 \in 2..(c - 1)
        BY <2>1, <2>2, <3>1
      <4> QED  BY <2>6, <3>1, <4>1
    <3>4. len \in {n, n + 1}
      BY <2>1, <2>2, <3>1, <3>2, <3>3
    <3> QED  BY <2>1, <3>4 DEF g, t, n, len
  <2> QED  BY <2>5, <2>8, <2>9
<1> QED  BY <1>1, ExpertInvariant, PTL

-----------------------------------------------------------------------------
(* SciWorld: the parent and its worker processes.                          *)

\* What an expert may play; the provers know no member of STRING.
Names == STRING \cup {"look around"}
Acts  == (Rows \X Nat) \cup Names
Cmds  == {<<"reset">>, <<"get">>, <<"close">>} \cup ({"step"} \X Acts)
Steps == [task : Groups \X Nat, obs : Nat, action : Names]

States == {"start", "recv", "load", "query", "step", "dead", "closed"}

SciTypeInv ==
  /\ parent \in {"ready", "over", "reset", "step", "get", "failed", "join",
                 "leaked", "closed"}
  /\ got \in Nat
  /\ inbox \in [Workers -> Seq(Cmds)]
  /\ DOMAIN outbox = Workers
  /\ pc \in [Workers -> States]
  /\ locked \in [Jvms -> Workers \cup {Nil}]
  /\ draws \in [Workers -> Nat]
  /\ acted \in [Workers -> Seq(Acts)]
  /\ gold \in [Groups -> Seq(STRING)]
  /\ goldTrail \in [Groups -> Seq(Steps)]
  /\ DOMAIN received = Groups

\* A worker has nothing to do, or has not been told anything yet; or it has a
\* command to execute, is executing it, has answered it, or has died.
Fresh(w) ==
  inbox[w] = << >> /\ outbox[w] = << >> /\ pc[w] \in {"start", "dead"}

Idle(w) == inbox[w] = << >> /\ outbox[w] = << >> /\ pc[w] = "recv"

Told(w, cmd) ==
  /\ inbox[w] # << >> /\ Head(inbox[w])[1] = cmd /\ Tail(inbox[w]) = << >>
  /\ outbox[w] = << >>
  /\ pc[w] = "recv" \/ (cmd = "reset" /\ pc[w] = "start")

Executing(w, cmd) ==
  /\ inbox[w] = << >> /\ outbox[w] = << >>
  /\ \/ cmd = "reset" /\ pc[w] \in {"load", "query"}
     \/ cmd = "step" /\ pc[w] = "step"

Answered(w) ==
  /\ inbox[w] = << >> /\ outbox[w] # << >> /\ Tail(outbox[w]) = << >>
  /\ pc[w] = "recv"

Died(w, cmd) == outbox[w] = << >> /\ pc[w] = "dead" /\ cmd # "get"

Owes(w, cmd) == Told(w, cmd) \/ Executing(w, cmd) \/ Answered(w) \/ Died(w, cmd)

\* The parent has received the answers of the first `got` workers it awaits
\* and of no other; it sends when nobody owes an answer.
DutyOf(w) ==
  /\ parent = "ready" => Idle(w)
  /\ parent = "over" => Idle(w) \/ Fresh(w)
  /\ parent \in {"reset", "step"} =>
       IF w < got THEN Idle(w) ELSE Owes(w, parent)
  /\ parent = "get" =>
       IF IsExpert(w) /\ GroupOf(w) >= got THEN Owes(w, "get") ELSE Idle(w)

GotInv ==
  /\ parent \in {"ready", "over"} => got = 0
  /\ parent \in {"reset", "step"} => got < NumProcesses
  /\ parent = "get" => got < EnvNum

\* Only one kind of command is under way, also after an exception, when the
\* parent does not wait any more.
OnlyKind(w, cmd) ==
  /\ \A i \in 1..Len(inbox[w]) : inbox[w][i][1] \in {cmd, "close"}
  /\ pc[w] \in {"load", "query"} => cmd = "reset"
  /\ pc[w] = "step" => cmd = "step"

OneKind ==
  \E cmd \in {"reset", "step", "get"} : \A w \in Workers : OnlyKind(w, cmd)

LockInv == \A w \in Workers : pc[w] = "load" => locked[Jvm(w)] = w

\* All workers have drawn equally often, but for those with a reset to do.
Due(w) == IF inbox[w] # << >> THEN draws[w] + 1 ELSE draws[w]

DrawsInv ==
  /\ parent \in {"ready", "over", "step", "get"} =>
       \A w \in Workers : draws[w] = draws[0]
  /\ parent = "reset" => \A w \in Workers : Due(w) = Due(0)

\* The trajectory of the expert of g: what a solution has to be, and nothing
\* but digits since its last entry.
IsGold(s, g, task) ==
  \A i \in DOMAIN s :
    /\ s[i].task = task
    /\ s[i].action = GoldAction(g, s[i].obs + 1)
    /\ \A n \in (IF i = 1 THEN 0 ELSE s[i - 1].obs + 1)..(s[i].obs - 1) :
         GoldAction(g, n + 1) \in Digits

LastObs(s) == IF s = << >> THEN -1 ELSE s[Len(s)].obs

Played(w) == IF pc[w] = "step" THEN Len(acted[w]) - 1 ELSE Len(acted[w])

GoldOf(g) ==
  pc[Expert(g)] \in {"start", "recv", "query", "step"} =>
    /\ IsGold(goldTrail[g], g, Task(Expert(g)))
    /\ \A n \in (LastObs(goldTrail[g]) + 1)..(Played(Expert(g)) - 1) :
         GoldAction(g, n + 1) \in Digits
    /\ pc[Expert(g)] = "step" => acted[Expert(g)] # << >>

GoldInv == \A g \in Groups : GoldOf(g)

AnswerInv ==
  parent = "get" => \A g \in Groups :
    IF g < got THEN received[g] = goldTrail[g]
    ELSE outbox[Expert(g)] # << >> => Head(outbox[Expert(g)]) = goldTrail[g]

\* A solution that has been handed out stays true: nothing is reset or stepped
\* any more until it is taken back.
SolutionInv ==
  /\ DOMAIN solution = Rows
  /\ \A k \in Rows : IsGold(solution[k], Uid(k), Task(Worker(k)))
  /\ \A k \in Rows : solution[k] # << >> =>
       /\ parent \in {"over", "join", "leaked", "closed"}
       /\ \A w \in Workers : OnlyKind(w, "get")

SciInv ==
  /\ SciTypeInv
  /\ \A w \in Workers : DutyOf(w)
  /\ GotInv /\ OneKind /\ LockInv /\ DrawsInv /\ GoldInv /\ AnswerInv
  /\ SolutionInv

-----------------------------------------------------------------------------
(* What a step of one worker leaves alone.                                 *)

LEMMA JvmFacts ==
  ASSUME NEW w \in Workers
  PROVE  Jvm(w) \in Jvms
<1>1. GroupsPerJvm \in Nat \ {0}
  <2>1. AtLeast(WorkersPerGroup, WorkersPerJvm) \in Int
    BY Sizes, JvmAssumption DEF AtLeast
  <2>2. AtLeast(WorkersPerGroup, WorkersPerJvm) \div WorkersPerGroup \in Int
    BY <2>1, Sizes, DivMod
  <2> QED  BY <2>2 DEF GroupsPerJvm, AtLeast
<1>2. CeilDiv(EnvNum, GroupsPerJvm) \in Int
  <2>1. EnvNum + GroupsPerJvm - 1 \in Int
    BY <1>1, Sizes
  <2> QED  BY <1>1, <2>1, DivMod DEF CeilDiv
<1>3. NumJvms \in Nat \ {0}
  BY <1>2, Sizes DEF NumJvms, AtLeast, AtMost
<1>4. GroupOf(w) \in Int
  BY WorkerFacts DEF Groups
<1> QED  BY <1>3, <1>4, DivMod DEF Jvm, Jvms

OthersSame(w) ==
  \A v \in Workers \ {w} :
    inbox'[v] = inbox[v] /\ outbox'[v] = outbox[v] /\ pc'[v] = pc[v]

\* The worker goes on with what it owes, and takes up nothing else.
LEMMA WorkerFrame ==
  ASSUME SciInv, NEW w \in Workers, UNCHANGED <<parent, got>>, OthersSame(w),
         ~Idle(w), Fresh(w) => Idle(w)' \/ Fresh(w)',
         \A cmd \in {"reset", "step", "get"} :
           (Owes(w, cmd) => Owes(w, cmd)') /\ (OnlyKind(w, cmd) => OnlyKind(w, cmd)')
  PROVE  (\A v \in Workers : DutyOf(v)') /\ GotInv' /\ OneKind'
<1>1. DutyOf(w)'
  <2>1. DutyOf(w)
    BY DEF SciInv
  <2>2. parent' = parent /\ got' = got
    OBVIOUS
  <2> QED  BY <2>1, <2>2 DEF DutyOf
<1>2. ASSUME NEW v \in Workers, v # w
      PROVE  /\ DutyOf(v)'
             /\ \A cmd : OnlyKind(v, cmd) => OnlyKind(v, cmd)'
  <2>1. inbox'[v] = inbox[v] /\ outbox'[v] = outbox[v] /\ pc'[v] = pc[v]
    BY <1>2 DEF OthersSame
  <2>2. DutyOf(v)
    BY DEF SciInv
  <2> QED  BY <2>1, <2>2 DEF DutyOf, Idle, Fresh, Owes, Told, Executing,
                             Answered, Died, OnlyKind
<1>3. GotInv'
  BY DEF SciInv, GotInv
<1>4. OneKind'
  <2>1. PICK cmd \in {"reset", "step", "get"} : \A v \in Workers : OnlyKind(v, cmd)
    BY DEF SciInv, OneKind
  <2>2. \A v \in Workers : OnlyKind(v, cmd)'
    BY <1>2, <2>1
  <2> QED  BY <2>2 DEF OneKind
<1> QED  BY <1>1, <1>2, <1>3, <1>4

\* A group whose expert does not move.
LEMMA GoldFrame ==
  ASSUME SciInv, NEW g \in Groups, NEW w \in Workers,
         w # Expert(g), OthersSame(w),
         gold'[g] = gold[g], goldTrail'[g] = goldTrail[g],
         draws'[Expert(g)] = draws[Expert(g)], acted'[Expert(g)] = acted[Expert(g)]
  PROVE  GoldOf(g)'
<1>1. Expert(g) \in Workers \ {w}
  BY ExpertFacts
<1>2. pc'[Expert(g)] = pc[Expert(g)]
  BY <1>1 DEF OthersSame
<1>3. GoldOf(g)
  BY DEF SciInv, GoldInv
<1> QED  BY <1>2, <1>3 DEF GoldOf, IsGold, GoldAction, Played, Task

\* A worker that is at a reset or a step: no solution is handed out.
LEMMA NoSolution ==
  ASSUME SciInv, NEW w \in Workers, ~OnlyKind(w, "get"), solution' = solution
  PROVE  SolutionInv'
<1>1. \A k \in Rows : solution[k] = << >>
  BY DEF SciInv, SolutionInv
<1>2. DOMAIN solution = Rows
  BY DEF SciInv, SolutionInv
<1> QED  BY <1>1, <1>2 DEF SolutionInv, IsGold

LEMMA SolutionFrame ==
  ASSUME SciInv, UNCHANGED <<solution, gold, draws, parent>>,
         (\A w \in Workers : OnlyKind(w, "get")) =>
           \A w \in Workers : OnlyKind(w, "get")'
  PROVE  SolutionInv'
<1>1. \A k \in Rows : IsGold(solution[k], Uid(k), Task(Worker(k)))'
  BY DEF SciInv, SolutionInv, IsGold, GoldAction, Task, Worker
<1> QED  BY <1>1 DEF SciInv, SolutionInv

\* A command that is taken from the pipe.
Took(w, name) ==
  /\ pc[w] = "recv" /\ inbox[w] # << >> /\ Head(inbox[w])[1] = name
  /\ Head(inbox[w]) \in Cmds
  /\ inbox' \in [Workers -> Seq(Cmds)] /\ inbox'[w] = Tail(inbox[w])
  /\ \A v \in Workers \ {w} : inbox'[v] = inbox[v]
  /\ \A cmd \in {"reset", "step", "get"} :
       /\ Owes(w, cmd) => Told(w, cmd) /\ cmd = name
       /\ OnlyKind(w, cmd) =>
            /\ name \in {cmd, "close"}
            /\ \A i \in 1..Len(inbox'[w]) : inbox'[w][i][1] \in {cmd, "close"}

LEMMA CommandFacts ==
  ASSUME SciInv, NEW w \in Workers, NEW name, Command(w, name)
  PROVE  Took(w, name)
<1>1. inbox \in [Workers -> Seq(Cmds)]
  BY DEF SciInv, SciTypeInv
<1>2. /\ pc[w] = "recv" /\ inbox[w] # << >> /\ Head(inbox[w])[1] = name
      /\ inbox' = [inbox EXCEPT ![w] = Tail(@)]
  BY DEF Command
<1>3. inbox[w] \in Seq(Cmds)
  BY <1>1
<1>4. /\ Head(inbox[w]) \in Cmds /\ Head(inbox[w]) = inbox[w][1]
      /\ Tail(inbox[w]) \in Seq(Cmds)
      /\ Len(Tail(inbox[w])) = Len(inbox[w]) - 1 /\ Len(inbox[w]) \in Nat \ {0}
      /\ \A i \in 1..Len(Tail(inbox[w])) : Tail(inbox[w])[i] = inbox[w][i + 1]
  BY <1>2, <1>3, HeadTailProperties, EmptySeq, LenProperties
<1>5. inbox' \in [Workers -> Seq(Cmds)] /\ inbox'[w] = Tail(inbox[w])
  BY <1>1, <1>2, <1>4
<1>7. ASSUME NEW cmd \in {"reset", "step", "get"}, Owes(w, cmd)
      PROVE  Told(w, cmd) /\ cmd = name
  BY <1>2, <1>7 DEF Owes, Told, Executing, Answered, Died
<1>8. ASSUME NEW cmd \in {"reset", "step", "get"}, OnlyKind(w, cmd)
      PROVE  /\ name \in {cmd, "close"}
             /\ \A i \in 1..Len(inbox'[w]) : inbox'[w][i][1] \in {cmd, "close"}
  <2>1. \A i \in 1..Len(inbox[w]) : inbox[w][i][1] \in {cmd, "close"}
    BY <1>8 DEF OnlyKind
  <2>2. 1 \in 1..Len(inbox[w]) /\ \A i \in 1..Len(inbox'[w]) : i + 1 \in 1..Len(inbox[w])
    BY <1>4, <1>5
  <2> QED  BY <1>2, <1>4, <1>5, <2>1, <2>2
<1> QED  BY <1>1, <1>2, <1>4, <1>5, <1>7, <1>8 DEF Took

LEMMA TakeResetStep ==
  ASSUME SciInv, NEW w \in Workers, TakeReset(w)
  PROVE  SciInv'
<1> USE DEF TakeReset, parentVars
<1>1. Took(w, "reset")
  BY CommandFacts
<1>2. ~Idle(w) /\ ~Fresh(w)
  BY <1>1 DEF Took, Idle, Fresh
<1>3. pc' = [pc EXCEPT ![w] = "load"] /\ pc'[w] = "load"
  BY DEF SciInv, SciTypeInv
<1>4. Jvm(w) \in Jvms /\ locked' \in [Jvms -> Workers \cup {Nil}]
  BY JvmFacts DEF SciInv, SciTypeInv
<1>5. draws' \in [Workers -> Nat] /\ draws'[w] = draws[w] + 1
  BY DEF SciInv, SciTypeInv
<1>6. SciTypeInv'
  BY <1>1, <1>3, <1>4, <1>5 DEF SciInv, SciTypeInv, States, Took
<1>7. OthersSame(w)
  BY <1>1, <1>3 DEF OthersSame, SciInv, SciTypeInv, Took
<1>8. (\A v \in Workers : DutyOf(v)') /\ GotInv' /\ OneKind'
  <2>1. \A cmd \in {"reset", "step", "get"} :
          (Owes(w, cmd) => Owes(w, cmd)') /\ (OnlyKind(w, cmd) => OnlyKind(w, cmd)')
    BY <1>1, <1>3 DEF Took, Owes, Told, Executing, OnlyKind
  <2> QED  BY <1>2, <1>7, <2>1, WorkerFrame
<1>9. LockInv'
  <2> SUFFICES ASSUME NEW v \in Workers, pc'[v] = "load"
               PROVE  locked'[Jvm(v)] = v
    BY DEF LockInv, Jvm
  <2>1. CASE v = w
    BY <1>4, <2>1 DEF SciInv, SciTypeInv
  <2>2. CASE v # w
    <3>1. pc[v] = "load" /\ locked[Jvm(v)] = v
      BY <1>7, <2>2 DEF OthersSame, SciInv, LockInv
    <3>2. Jvm(v) # Jvm(w)
      BY <1>4, <3>1, Sizes DEF Nil, Workers
    <3> QED  BY <3>1, <3>2 DEF SciInv, SciTypeInv
  <2> QED  BY <2>1, <2>2
<1>10. parent \notin {"ready", "over", "step", "get"}
  <2>1. DutyOf(w)
    BY DEF SciInv
  <2> QED  BY <1>1, <1>2, <2>1 DEF DutyOf, Took
<1>11. DrawsInv'
  <2> SUFFICES ASSUME parent = "reset", NEW v \in Workers
               PROVE  Due(v)' = Due(0)'
    BY <1>10 DEF DrawsInv
  <2>1. \A u \in Workers : Due(u) = Due(0)
    BY DEF SciInv, DrawsInv
  <2>2. inbox'[w] = << >>
    <3>1. DutyOf(w)
      BY DEF SciInv
    <3> QED  BY <1>1, <1>2, <3>1 DEF DutyOf, Told, Took
  <2>3. \A u \in Workers : Due(u)' = Due(u)
    BY <1>1, <1>5, <2>2 DEF Due, SciInv, SciTypeInv, Took
  <2> QED  BY <2>1, <2>3, ZeroIsWorker
<1>12. GoldInv'
  <2> SUFFICES ASSUME NEW g \in Groups  PROVE GoldOf(g)'
    BY DEF GoldInv
  <2>1. CASE w = Expert(g)
    BY <1>3, <2>1 DEF GoldOf, Expert
  <2>2. CASE w # Expert(g)
    <3>1. draws'[Expert(g)] = draws[Expert(g)]
      BY <2>2 DEF SciInv, SciTypeInv
    <3> QED  BY <1>7, <2>2, <3>1, GoldFrame
  <2> QED  BY <2>1, <2>2
<1>13. AnswerInv'
  BY <1>10 DEF AnswerInv
<1>14. SolutionInv'
  <2>1. ~OnlyKind(w, "get")
    BY <1>1 DEF Took
  <2> QED  BY <2>1, NoSolution
<1> QED  BY <1>6, <1>8, <1>9, <1>11, <1>12, <1>13, <1>14 DEF SciInv

\* A worker that is at a command is awaited, or nobody is.
LEMMA AtWorkFacts ==
  ASSUME SciInv, NEW w \in Workers, pc[w] \in {"load", "query", "step"}
  PROVE  /\ ~Idle(w) /\ ~Fresh(w) /\ parent \notin {"ready", "over", "get"}
         /\ ~OnlyKind(w, "get")
         /\ \A cmd \in {"reset", "step", "get"} : Owes(w, cmd) => Executing(w, cmd)
<1>1. ~Idle(w) /\ ~Fresh(w) /\ ~OnlyKind(w, "get")
  BY DEF Idle, Fresh, OnlyKind
<1>2. \A cmd \in {"reset", "step", "get"} : Owes(w, cmd) => Executing(w, cmd)
  BY DEF Owes, Told, Answered, Died
<1>3. DutyOf(w)
  BY DEF SciInv
<1> QED  BY <1>1, <1>2, <1>3 DEF DutyOf, Executing

LEMMA LoadStep ==
  ASSUME SciInv, NEW w \in Workers, Load(w)
  PROVE  SciInv'
<1> USE DEF Load, parentVars
<1>1. /\ ~Idle(w) /\ ~Fresh(w) /\ parent \notin {"ready", "over", "get"} /\ ~OnlyKind(w, "get")
      /\ \A cmd \in {"reset", "step", "get"} : Owes(w, cmd) => Executing(w, cmd)
  BY AtWorkFacts
<1>3. pc' = [pc EXCEPT ![w] = "query"] /\ pc \in [Workers -> States]
  BY DEF SciInv, SciTypeInv
<1>4. Jvm(w) \in Jvms /\ locked' = [locked EXCEPT ![Jvm(w)] = Nil]
  BY JvmFacts
<1>5. acted' = [acted EXCEPT ![w] = << >>] /\ acted \in [Workers -> Seq(Acts)]
  BY DEF SciInv, SciTypeInv
<1>6. /\ gold' \in [Groups -> Seq(STRING)] /\ goldTrail' \in [Groups -> Seq(Steps)]
      /\ IsExpert(w) => goldTrail'[GroupOf(w)] = << >>
      /\ \A g \in Groups : g # GroupOf(w) \/ ~IsExpert(w) =>
           gold'[g] = gold[g] /\ goldTrail'[g] = goldTrail[g]
  <2>1. GroupOf(w) \in Groups /\ << >> \in Seq(Steps)
    BY WorkerFacts, EmptySeq
  <2>2. gold \in [Groups -> Seq(STRING)] /\ goldTrail \in [Groups -> Seq(Steps)]
    BY DEF SciInv, SciTypeInv
  <2>3. CASE IsExpert(w)
    <3>1. PICK path \in GoldPaths : gold' = [gold EXCEPT ![GroupOf(w)] = path]
      BY <2>3
    <3>2. path \in Seq(STRING)
      BY PathsAssumption
    <3>3. goldTrail' = [goldTrail EXCEPT ![GroupOf(w)] = << >>]
      BY <2>3
    <3>4. gold' \in [Groups -> Seq(STRING)] /\ goldTrail' \in [Groups -> Seq(Steps)]
      BY <2>1, <2>2, <3>1, <3>2, <3>3
    <3> QED  BY <2>1, <2>2, <2>3, <3>1, <3>3, <3>4
  <2>4. CASE ~IsExpert(w)
    BY <2>2, <2>4
  <2> QED  BY <2>3, <2>4
<1>7. SciTypeInv'
  <2>1. << >> \in Seq(Acts)
    BY EmptySeq
  <2> QED  BY <1>3, <1>4, <1>5, <1>6, <2>1 DEF SciInv, SciTypeInv, States
<1>8. OthersSame(w)
  BY <1>3 DEF OthersSame
<1>9. (\A v \in Workers : DutyOf(v)') /\ GotInv' /\ OneKind'
  <2>2. \A cmd \in {"reset", "step", "get"} :
          (Owes(w, cmd) => Owes(w, cmd)') /\ (OnlyKind(w, cmd) => OnlyKind(w, cmd)')
    BY <1>1, <1>3 DEF Owes, Executing, OnlyKind
  <2> QED  BY <1>1, <1>8, <2>2, WorkerFrame
<1>10. LockInv'
  <2> SUFFICES ASSUME NEW v \in Workers, pc'[v] = "load"
               PROVE  locked'[Jvm(v)] = v
    BY DEF LockInv, Jvm
  <2>1. v # w /\ pc[v] = "load"
    BY <1>3
  <2>2. locked[Jvm(v)] = v /\ locked[Jvm(w)] = w
    BY <2>1 DEF SciInv, LockInv
  <2> QED  BY <1>4, <2>1, <2>2 DEF SciInv, SciTypeInv
<1>11. DrawsInv'
  BY DEF SciInv, DrawsInv, Due
<1>12. GoldInv'
  <2> SUFFICES ASSUME NEW g \in Groups  PROVE GoldOf(g)'
    BY DEF GoldInv
  <2>1. CASE w = Expert(g)
    <3>1. IsExpert(w) /\ GroupOf(w) = g
      BY <2>1, ExpertFacts
    <3>2. goldTrail'[g] = << >> /\ acted'[w] = << >> /\ pc'[w] = "query"
      BY <1>3, <1>5, <1>6, <3>1
    <3>3. IsGold(goldTrail[g], g, Task(Expert(g)))'
      BY <3>2 DEF IsGold
    <3>4. (LastObs(goldTrail[g]) + 1)' = 0 /\ (Played(Expert(g)) - 1)' = -1
      BY <2>1, <3>2 DEF LastObs, Played, Expert
    <3>5. (pc[Expert(g)])' # "step" /\ \A n \in 0..(-1) : FALSE
      BY <2>1, <3>2 DEF Expert
    <3> QED  BY <3>3, <3>4, <3>5 DEF GoldOf
  <2>2. CASE w # Expert(g)
    <3>1. IsExpert(w) => GroupOf(w) # g
      BY <2>2, ExpertIsUnique
    <3>2. acted'[Expert(g)] = acted[Expert(g)] /\ draws' = draws
      BY <1>5, <2>2
    <3> QED  BY <1>6, <1>8, <2>2, <3>1, <3>2, GoldFrame
  <2> QED  BY <2>1, <2>2
<1>13. AnswerInv'
  BY <1>1 DEF AnswerInv
<1>14. SolutionInv'
  BY <1>1, NoSolution
<1> QED  BY <1>7, <1>9, <1>10, <1>11, <1>12, <1>13, <1>14 DEF SciInv

\* The worker gets ready for a command, and no expert has played.
LEMMA QuietGold ==
  ASSUME SciInv, NEW w \in Workers, pc[w] \in {"start", "query"},
         pc' = [pc EXCEPT ![w] = "recv"],
         UNCHANGED <<draws, acted, gold, goldTrail>>
  PROVE  GoldInv'
<1> SUFFICES ASSUME NEW g \in Groups  PROVE GoldOf(g)'
  BY DEF GoldInv
<1>1. GoldOf(g) /\ pc \in [Workers -> States] /\ Expert(g) \in Workers
  BY ExpertFacts DEF SciInv, GoldInv, SciTypeInv
<1>2. \/ pc'[Expert(g)] = pc[Expert(g)]
      \/ pc[Expert(g)] \in {"start", "query"} /\ pc'[Expert(g)] = "recv"
  BY <1>1
<1> QED  BY <1>1, <1>2 DEF GoldOf, IsGold, GoldAction, Played, Task, Expert

LEMMA QueryStep ==
  ASSUME SciInv, NEW w \in Workers, Query(w)
  PROVE  SciInv'
<1> USE DEF Query, parentVars
<1>1. /\ ~Idle(w) /\ ~Fresh(w) /\ parent \notin {"ready", "over", "get"}
      /\ ~OnlyKind(w, "get")
      /\ \A cmd \in {"reset", "step", "get"} : Owes(w, cmd) => Executing(w, cmd)
  BY AtWorkFacts
<1>2. /\ outbox' = [outbox EXCEPT ![w] = Append(@, <<"observation">>)]
      /\ DOMAIN outbox = Workers
  BY DEF Answer, SciInv, SciTypeInv
<1>3. pc' = [pc EXCEPT ![w] = "recv"] /\ pc \in [Workers -> States]
  BY DEF SciInv, SciTypeInv
<1>4. SciTypeInv'
  BY <1>2, <1>3 DEF SciInv, SciTypeInv, States
<1>5. OthersSame(w)
  BY <1>2, <1>3 DEF OthersSame
<1>6. (\A v \in Workers : DutyOf(v)') /\ GotInv' /\ OneKind'
  <2>1. ASSUME NEW cmd \in {"reset", "step", "get"}, Owes(w, cmd)
        PROVE  Answered(w)'
    <3>1. inbox[w] = << >> /\ outbox[w] = << >>
      BY <1>1, <2>1 DEF Executing
    <3>2. outbox'[w] = << <<"observation">> >>
      BY <1>2, <3>1
    <3> QED  BY <1>3, <3>1, <3>2 DEF Answered
  <2>2. \A cmd \in {"reset", "step", "get"} :
          (Owes(w, cmd) => Owes(w, cmd)') /\ (OnlyKind(w, cmd) => OnlyKind(w, cmd)')
    BY <1>3, <2>1 DEF Owes, OnlyKind
  <2> QED  BY <1>1, <1>5, <2>2, WorkerFrame
<1>7. LockInv'
  BY <1>3 DEF SciInv, LockInv, Jvm
<1>8. DrawsInv'
  BY DEF SciInv, DrawsInv, Due
<1>9. GoldInv'
  BY <1>3, QuietGold
<1>10. AnswerInv'
  BY <1>1 DEF AnswerInv
<1>11. SolutionInv'
  BY <1>1, NoSolution
<1> QED  BY <1>4, <1>6, <1>7, <1>8, <1>9, <1>10, <1>11 DEF SciInv

LEMMA ConnectStep ==
  ASSUME SciInv, NEW w \in Workers, Connect(w)
  PROVE  SciInv'
<1> USE DEF Connect, parentVars
<1>1. ~Idle(w)
  BY DEF Idle
<1>2. pc' = [pc EXCEPT ![w] = "recv"] /\ pc \in [Workers -> States]
  BY DEF SciInv, SciTypeInv
<1>3. SciTypeInv'
  BY <1>2 DEF SciInv, SciTypeInv, States
<1>4. OthersSame(w)
  BY <1>2 DEF OthersSame
<1>5. \A cmd \in {"reset", "step", "get"} : OnlyKind(w, cmd) => OnlyKind(w, cmd)'
  BY <1>2 DEF OnlyKind
<1>6. (\A v \in Workers : DutyOf(v)') /\ GotInv' /\ OneKind'
  <2>1. Fresh(w) => Idle(w)'
    BY <1>2 DEF Fresh, Idle
  <2>2. \A cmd \in {"reset", "step", "get"} : Owes(w, cmd) => Owes(w, cmd)'
    BY <1>2 DEF Owes, Told, Executing, Answered, Died
  <2> QED  BY <1>1, <1>4, <1>5, <2>1, <2>2, WorkerFrame
<1>7. LockInv'
  BY <1>2 DEF SciInv, LockInv, Jvm
<1>8. DrawsInv'
  BY DEF SciInv, DrawsInv, Due
<1>9. GoldInv'
  BY <1>2, QuietGold
<1>10. AnswerInv'
  BY DEF SciInv, AnswerInv
<1>11. SolutionInv'
  <2>1. \A v \in Workers : OnlyKind(v, "get") => OnlyKind(v, "get")'
    BY <1>4, <1>5 DEF OthersSame, OnlyKind
  <2> QED  BY <2>1, SolutionFrame
<1> QED  BY <1>3, <1>6, <1>7, <1>8, <1>9, <1>10, <1>11 DEF SciInv

LEMMA WorkerRaisesStep ==
  ASSUME SciInv, NEW w \in Workers, WorkerRaises(w)
  PROVE  SciInv'
<1> USE DEF WorkerRaises, parentVars
<1>1. ~Idle(w) /\ pc[w] \in {"start", "load", "query", "step"}
  BY DEF Idle, InJvm
<1>2. pc' = [pc EXCEPT ![w] = "dead"] /\ pc \in [Workers -> States]
  BY DEF SciInv, SciTypeInv
<1>3. Jvm(w) \in Jvms /\ locked \in [Jvms -> Workers \cup {Nil}]
  BY JvmFacts DEF SciInv, SciTypeInv
<1>4. locked' = IF pc[w] = "load" THEN [locked EXCEPT ![Jvm(w)] = Nil] ELSE locked
  BY DEF ReleasedOnExit
<1>5. SciTypeInv'
  BY <1>2, <1>3, <1>4 DEF SciInv, SciTypeInv, States
<1>6. OthersSame(w)
  BY <1>2 DEF OthersSame
<1>7. \A cmd \in {"reset", "step", "get"} :
        (Owes(w, cmd) => Owes(w, cmd)') /\ (OnlyKind(w, cmd) => OnlyKind(w, cmd)')
  BY <1>1, <1>2 DEF Owes, Told, Executing, Answered, Died, OnlyKind
<1>13. (\A v \in Workers : DutyOf(v)') /\ GotInv' /\ OneKind'
  <2>1. Fresh(w) => Fresh(w)'
    BY <1>2 DEF Fresh
  <2> QED  BY <1>1, <1>6, <1>7, <2>1, WorkerFrame
<1>8. LockInv'
  <2> SUFFICES ASSUME NEW v \in Workers, pc'[v] = "load"
               PROVE  locked'[Jvm(v)] = v
    BY DEF LockInv, Jvm
  <2>1. v # w /\ pc[v] = "load"
    BY <1>2
  <2>2. locked[Jvm(v)] = v /\ (pc[w] = "load" => locked[Jvm(w)] = w)
    BY <2>1 DEF SciInv, LockInv
  <2> QED  BY <1>3, <1>4, <2>1, <2>2
<1>9. DrawsInv'
  BY DEF SciInv, DrawsInv, Due
<1>10. GoldInv'
  <2> SUFFICES ASSUME NEW g \in Groups  PROVE GoldOf(g)'
    BY DEF GoldInv
  <2>1. CASE w = Expert(g)
    BY <1>2, <2>1 DEF GoldOf, Expert
  <2>2. CASE w # Expert(g)
    BY <1>6, <2>2, GoldFrame
  <2> QED  BY <2>1, <2>2
<1>11. AnswerInv'
  BY DEF SciInv, AnswerInv
<1>12. SolutionInv'
  <2>1. \A v \in Workers : OnlyKind(v, "get") => OnlyKind(v, "get")'
    BY <1>6, <1>7 DEF OthersSame, OnlyKind
  <2> QED  BY <2>1, SolutionFrame
<1> QED  BY <1>5, <1>13, <1>8, <1>9, <1>10, <1>11, <1>12 DEF SciInv

LEMMA TakeStepStep ==
  ASSUME SciInv, NEW w \in Workers, TakeStep(w)
  PROVE  SciInv'
<1> USE DEF TakeStep, parentVars
<1>1. Took(w, "step")
  BY CommandFacts
<1>2. /\ ~Idle(w) /\ ~Fresh(w) /\ ~OnlyKind(w, "get")
      /\ parent \notin {"ready", "over", "reset", "get"}
  <2>1. DutyOf(w)
    BY DEF SciInv
  <2> QED  BY <1>1, <2>1 DEF Took, Idle, Fresh, DutyOf
<1>3. pc' = [pc EXCEPT ![w] = "step"] /\ pc \in [Workers -> States]
  BY DEF SciInv, SciTypeInv
<1>4. /\ acted' \in [Workers -> Seq(Acts)]
      /\ Len(acted'[w]) = Len(acted[w]) + 1 /\ acted'[w] # << >>
      /\ \A v \in Workers \ {w} : acted'[v] = acted[v]
  <2>1. Head(inbox[w])[2] \in Acts
    BY <1>1 DEF Took, Cmds
  <2>2. acted \in [Workers -> Seq(Acts)]
    BY DEF SciInv, SciTypeInv
  <2>3. /\ Append(acted[w], Head(inbox[w])[2]) \in Seq(Acts)
        /\ Len(Append(acted[w], Head(inbox[w])[2])) = Len(acted[w]) + 1
        /\ Append(acted[w], Head(inbox[w])[2]) # << >>
    BY <2>1, <2>2, AppendProperties
  <2> QED  BY <2>2, <2>3
<1>5. SciTypeInv'
  BY <1>1, <1>3, <1>4 DEF SciInv, SciTypeInv, States, Took
<1>6. OthersSame(w)
  BY <1>1, <1>3 DEF OthersSame, Took
<1>7. (\A v \in Workers : DutyOf(v)') /\ GotInv' /\ OneKind'
  <2>1. \A cmd \in {"reset", "step", "get"} :
          (Owes(w, cmd) => Owes(w, cmd)') /\ (OnlyKind(w, cmd) => OnlyKind(w, cmd)')
    BY <1>1, <1>3 DEF Took, Owes, Told, Executing, OnlyKind
  <2> QED  BY <1>2, <1>6, <2>1, WorkerFrame
<1>8. LockInv'
  BY <1>3 DEF SciInv, LockInv, Jvm
<1>9. DrawsInv'
  BY <1>2 DEF SciInv, DrawsInv
<1>10. GoldInv'
  <2> SUFFICES ASSUME NEW g \in Groups  PROVE GoldOf(g)'
    BY DEF GoldInv
  <2>1. CASE w = Expert(g)
    <3>1. GoldOf(g)
      BY DEF SciInv, GoldInv
    <3>2. pc[w] = "recv" /\ pc'[w] = "step"
      BY <1>1, <1>3 DEF Took
    <3>3. Len(acted[w]) \in Nat
      BY DEF SciInv, SciTypeInv
    <3>4. Played(w)' = Played(w)
      BY <1>4, <3>2, <3>3 DEF Played
    <3>5. Played(Expert(g))' = Played(Expert(g))
      BY <2>1, <3>4 DEF Expert
    <3>6. IsGold(goldTrail[g], g, Task(Expert(g)))'
      BY <2>1, <3>1, <3>2 DEF GoldOf, IsGold, GoldAction, Task
    <3>7. \A n \in ((LastObs(goldTrail[g]) + 1)..(Played(Expert(g)) - 1))' :
             GoldAction(g, n + 1)' \in Digits
      BY <2>1, <3>1, <3>2, <3>5 DEF GoldOf, LastObs, GoldAction
    <3> QED  BY <1>4, <2>1, <3>6, <3>7 DEF GoldOf, Expert
  <2>2. CASE w # Expert(g)
    <3>1. acted'[Expert(g)] = acted[Expert(g)]
      BY <1>4, <2>2, ExpertFacts
    <3> QED  BY <1>6, <2>2, <3>1, GoldFrame
  <2> QED  BY <2>1, <2>2
<1>11. AnswerInv'
  BY <1>2 DEF AnswerInv
<1>12. SolutionInv'
  BY <1>2, NoSolution
<1> QED  BY <1>5, <1>7, <1>8, <1>9, <1>10, <1>11, <1>12 DEF SciInv

LEMMA AnswerTrajectoryStep ==
  ASSUME SciInv, NEW w \in Workers, AnswerTrajectory(w)
  PROVE  SciInv'
<1> USE DEF AnswerTrajectory, parentVars
<1>1. Took(w, "get")
  BY CommandFacts
<1>2. /\ ~Idle(w) /\ ~Fresh(w) /\ parent \notin {"ready", "over", "reset", "step"}
      /\ parent = "get" => IsExpert(w) /\ GroupOf(w) >= got /\ Told(w, "get")
  <2>1. DutyOf(w)
    BY DEF SciInv
  <2> QED  BY <1>1, <2>1 DEF Took, Idle, Fresh, DutyOf
<1>3. /\ outbox' = [outbox EXCEPT ![w] = Append(@, goldTrail[GroupOf(w)])]
      /\ DOMAIN outbox = Workers
  BY DEF Answer, SciInv, SciTypeInv
<1>4. SciTypeInv'
  BY <1>1, <1>3 DEF SciInv, SciTypeInv, Took
<1>5. OthersSame(w)
  BY <1>1, <1>3 DEF OthersSame, Took
<1>6. ASSUME outbox[w] = << >>
      PROVE  outbox'[w] # << >> /\ Tail(outbox'[w]) = << >>
             /\ Head(outbox'[w]) = goldTrail[GroupOf(w)]
  <2>1. outbox'[w] = << goldTrail[GroupOf(w)] >>
    BY <1>3, <1>6
  <2> QED  BY <2>1
<1>7. \A cmd \in {"reset", "step", "get"} :
        (Owes(w, cmd) => Owes(w, cmd)') /\ (OnlyKind(w, cmd) => OnlyKind(w, cmd)')
  BY <1>1, <1>6 DEF Took, Owes, Told, Answered, OnlyKind
<1>8. (\A v \in Workers : DutyOf(v)') /\ GotInv' /\ OneKind'
  BY <1>2, <1>5, <1>7, WorkerFrame
<1>9. LockInv' /\ DrawsInv'
  BY <1>2 DEF SciInv, LockInv, Jvm, DrawsInv
<1>10. GoldInv'
  BY DEF SciInv, GoldInv, GoldOf, IsGold, GoldAction, Task, LastObs, Played, Expert
<1>11. AnswerInv'
  <2> SUFFICES ASSUME parent = "get", NEW g \in Groups
               PROVE  IF g < got THEN received[g] = goldTrail[g]
                      ELSE outbox'[Expert(g)] # << >> =>
                             Head(outbox'[Expert(g)]) = goldTrail[g]
    BY DEF AnswerInv, Expert
  <2>1. IF g < got THEN received[g] = goldTrail[g]
        ELSE outbox[Expert(g)] # << >> => Head(outbox[Expert(g)]) = goldTrail[g]
    BY DEF SciInv, AnswerInv
  <2>2. CASE w = Expert(g)
    <3>1. GroupOf(w) = g
      BY <2>2, ExpertFacts
    <3>2. outbox[w] = << >>
      BY <1>2 DEF Told
    <3> QED  BY <1>6, <2>1, <2>2, <3>1, <3>2
  <2>3. CASE w # Expert(g)
    <3>1. outbox'[Expert(g)] = outbox[Expert(g)]
      BY <1>5, <2>3, ExpertFacts DEF OthersSame
    <3> QED  BY <2>1, <3>1
  <2> QED  BY <2>2, <2>3
<1>12. SolutionInv'
  <2>1. ASSUME \A v \in Workers : OnlyKind(v, "get"), NEW v \in Workers
        PROVE  OnlyKind(v, "get")'
    <3>1. OnlyKind(v, "get")
      BY <2>1
    <3>2. CASE v = w
      BY <1>7, <3>1, <3>2
    <3>3. CASE v # w
      BY <1>5, <3>1, <3>3 DEF OthersSame, OnlyKind
    <3> QED  BY <3>2, <3>3
  <2> QED  BY <2>1, SolutionFrame
<1> QED  BY <1>4, <1>8, <1>9, <1>10, <1>11, <1>12 DEF SciInv

LEMMA TakeCloseStep ==
  ASSUME SciInv, NEW w \in Workers, TakeClose(w)
  PROVE  SciInv'
<1> USE DEF TakeClose, parentVars
<1>1. Took(w, "close")
  BY CommandFacts
<1>2. ~Idle(w) /\ ~Fresh(w) /\ parent \notin {"ready", "over", "reset", "step", "get"}
  <2>1. DutyOf(w)
    BY DEF SciInv
  <2> QED  BY <1>1, <2>1 DEF Took, Idle, Fresh, DutyOf
<1>3. pc' = [pc EXCEPT ![w] = "closed"] /\ pc \in [Workers -> States]
  BY DEF SciInv, SciTypeInv
<1>4. SciTypeInv'
  BY <1>1, <1>3 DEF SciInv, SciTypeInv, States, Took
<1>5. OthersSame(w)
  BY <1>1, <1>3 DEF OthersSame, Took
<1>6. \A cmd \in {"reset", "step", "get"} :
        (Owes(w, cmd) => Owes(w, cmd)') /\ (OnlyKind(w, cmd) => OnlyKind(w, cmd)')
  BY <1>1, <1>3 DEF Took, OnlyKind
<1>7. (\A v \in Workers : DutyOf(v)') /\ GotInv' /\ OneKind'
  BY <1>2, <1>5, <1>6, WorkerFrame
<1>8. LockInv'
  BY <1>3 DEF SciInv, LockInv, Jvm
<1>9. DrawsInv' /\ AnswerInv'
  BY <1>2 DEF DrawsInv, AnswerInv
<1>10. GoldInv'
  <2> SUFFICES ASSUME NEW g \in Groups  PROVE GoldOf(g)'
    BY DEF GoldInv
  <2>1. CASE w = Expert(g)
    BY <1>3, <2>1 DEF GoldOf, Expert
  <2>2. CASE w # Expert(g)
    BY <1>5, <2>2, GoldFrame
  <2> QED  BY <2>1, <2>2
<1>11. SolutionInv'
  <2>1. ASSUME \A v \in Workers : OnlyKind(v, "get"), NEW v \in Workers
        PROVE  OnlyKind(v, "get")'
    <3>1. OnlyKind(v, "get")
      BY <2>1
    <3>2. CASE v = w
      BY <1>6, <3>1, <3>2
    <3>3. CASE v # w
      BY <1>5, <3>1, <3>3 DEF OthersSame, OnlyKind
    <3> QED  BY <3>2, <3>3
  <2> QED  BY <2>1, SolutionFrame
<1> QED  BY <1>4, <1>7, <1>8, <1>9, <1>10, <1>11 DEF SciInv

\* One entry more: what came after the last one was digits.
LEMMA GoldAppended ==
  ASSUME SciTypeInv, NEW g \in Groups, NEW s \in Seq(Steps), NEW e \in Steps, NEW task,
         IsGold(s, g, task), e.task = task, e.action = GoldAction(g, e.obs + 1),
         \A n \in (LastObs(s) + 1)..(e.obs - 1) : GoldAction(g, n + 1) \in Digits
  PROVE  IsGold(Append(s, e), g, task) /\ LastObs(Append(s, e)) = e.obs
<1> DEFINE t == Append(s, e)
<1>1. /\ t \in Seq(Steps) /\ Len(s) \in Nat /\ Len(t) = Len(s) + 1 /\ t # << >>
      /\ \A i \in 1..Len(s) : t[i] = s[i]
      /\ t[Len(s) + 1] = e
  BY AppendProperties, LenProperties
<1>2. DOMAIN t = 1..(Len(s) + 1) /\ DOMAIN s = 1..Len(s)
  BY <1>1, LenProperties
<1> HIDE DEF t
<1>3. ASSUME NEW i \in 1..(Len(s) + 1)
      PROVE  /\ t[i].task = task
             /\ t[i].action = GoldAction(g, t[i].obs + 1)
             /\ \A n \in (IF i = 1 THEN 0 ELSE t[i - 1].obs + 1)..(t[i].obs - 1) :
                  GoldAction(g, n + 1) \in Digits
  <2>1. CASE i = Len(s) + 1
    <3>1. t[i] = e
      BY <1>1, <2>1
    <3>2. (IF i = 1 THEN 0 ELSE t[i - 1].obs + 1) = LastObs(s) + 1
      <4>1. CASE Len(s) = 0
        BY <1>1, <2>1, <4>1 DEF LastObs
      <4>2. CASE Len(s) # 0
        <5>1. i # 1 /\ i - 1 = Len(s) /\ t[i - 1] = s[Len(s)] /\ s # << >>
          BY <1>1, <2>1, <4>2
        <5> QED  BY <5>1 DEF LastObs
      <4> QED  BY <4>1, <4>2
    <3> QED  BY <3>1, <3>2
  <2>2. CASE i # Len(s) + 1
    <3>1. i \in 1..Len(s) /\ t[i] = s[i] /\ (i # 1 => t[i - 1] = s[i - 1])
      BY <1>1, <2>2
    <3> QED  BY <1>2, <3>1 DEF IsGold
  <2> QED  BY <2>1, <2>2
<1>4. IsGold(t, g, task)
  BY <1>2, <1>3 DEF IsGold
<1> QED  BY <1>1, <1>4 DEF LastObs, t

LEMMA StepDoneStep ==
  ASSUME SciInv, NEW w \in Workers, StepDone(w)
  PROVE  SciInv'
<1> USE DEF parentVars
<1> DEFINE h == GroupOf(w)
           n == Len(acted[w])
           action == GoldAction(h, n)
           e == [task |-> Task(w), obs |-> n - 1, action |-> action]
<1>1. /\ pc[w] = "step"
      /\ UNCHANGED <<inbox, locked, draws, gold, parent, got, received, solution>>
      /\ pc' = [pc EXCEPT ![w] = "recv"]
      /\ pc \in [Workers -> States]
  BY DEF StepDone, SciInv, SciTypeInv
<1>2. /\ IsExpert(w) =>
           /\ acted' = [acted EXCEPT ![w][n] = action]
           /\ goldTrail' = IF action \in Digits THEN goldTrail
                           ELSE [goldTrail EXCEPT ![h] = Append(@, e)]
      /\ ~IsExpert(w) => acted' = acted /\ goldTrail' = goldTrail
  BY DEF StepDone, ObsBefore
<1>3. /\ ~Idle(w) /\ ~Fresh(w) /\ parent \notin {"ready", "over", "get"} /\ ~OnlyKind(w, "get")
      /\ \A cmd \in {"reset", "step", "get"} : Owes(w, cmd) => Executing(w, cmd)
  BY <1>1, AtWorkFacts
<1>4. /\ outbox' = [outbox EXCEPT ![w] = Append(@, <<"observation">>)]
      /\ DOMAIN outbox = Workers
  BY DEF StepDone, Answer, SciInv, SciTypeInv
<1>5. /\ h \in Groups /\ acted \in [Workers -> Seq(Acts)] /\ acted[w] \in Seq(Acts)
      /\ goldTrail \in [Groups -> Seq(Steps)] /\ gold[h] \in Seq(STRING)
      /\ draws[w] \in Nat
  BY WorkerFacts DEF SciInv, SciTypeInv
<1>6. ASSUME IsExpert(w)
      PROVE  /\ w = Expert(h) /\ n \in Nat \ {0}
             /\ action \in Names /\ e \in Steps
             /\ acted' \in [Workers -> Seq(Acts)] /\ Len(acted'[w]) = n
             /\ \A v \in Workers \ {w} : acted'[v] = acted[v]
  <2>1. w = Expert(h)
    BY <1>6, ExpertIsUnique
  <2>2. n \in Nat \ {0}
    <3>1. GoldOf(h)
      BY <1>5 DEF SciInv, GoldInv
    <3>2. acted[w] # << >>
      BY <1>1, <2>1, <3>1 DEF GoldOf
    <3> QED  BY <1>5, <3>2, EmptySeq
  <2>3. action \in Names
    <3>1. n <= Len(gold[h]) => gold[h][n] \in STRING
      BY <1>5, <2>2, ElementOfSeq, LenProperties
    <3>2. action = IF n <= Len(gold[h]) THEN gold[h][n] ELSE "look around"
      BY DEF GoldAction
    <3> HIDE DEF action, n
    <3> QED  BY <3>1, <3>2 DEF Names
  <2>4. e \in Steps
    <3>1. <<h, draws[w]>> \in Groups \X Nat /\ n - 1 \in Nat
      BY <1>5, <2>2
    <3> HIDE DEF n, action
    <3> QED  BY <2>3, <3>1 DEF Steps, Task
  <2>5. /\ [acted[w] EXCEPT ![n] = action] \in Seq(Acts)
        /\ Len([acted[w] EXCEPT ![n] = action]) = n
    <3>1. n \in 1..Len(acted[w]) /\ action \in Acts
      BY <2>2, <2>3 DEF Acts
    <3> HIDE DEF action
    <3> QED  BY <1>5, <3>1, ExceptSeq
  <2>6. acted' = [acted EXCEPT ![w] = [acted[w] EXCEPT ![n] = action]]
    BY <1>2, <1>6
  <2> HIDE DEF n, action
  <2> QED  BY <1>5, <2>1, <2>2, <2>3, <2>4, <2>5, <2>6
<1>7. /\ acted' \in [Workers -> Seq(Acts)]
      /\ \A v \in Workers \ {w} : acted'[v] = acted[v]
  BY <1>2, <1>5, <1>6
<1>8. /\ goldTrail' \in [Groups -> Seq(Steps)]
      /\ \A g \in Groups : w # Expert(g) => goldTrail'[g] = goldTrail[g]
      /\ IsExpert(w) => goldTrail'[h] =
           IF action \in Digits THEN goldTrail[h] ELSE Append(goldTrail[h], e)
  <2>1. CASE IsExpert(w)
    <3>1. w = Expert(h) /\ e \in Steps
      BY <1>6, <2>1
    <3>2. Append(goldTrail[h], e) \in Seq(Steps)
      BY <1>5, <3>1, AppendProperties
    <3> HIDE DEF e, action, n
    <3> QED  BY <1>2, <1>5, <2>1, <3>1, <3>2
  <2>2. CASE ~IsExpert(w)
    BY <1>2, <1>5, <2>2
  <2> QED  BY <2>1, <2>2
<1> HIDE DEF n, action, e
<1>9. SciTypeInv'
  BY <1>1, <1>4, <1>7, <1>8 DEF SciInv, SciTypeInv, States
<1>10. OthersSame(w)
  BY <1>1, <1>4 DEF OthersSame
<1>11. (\A v \in Workers : DutyOf(v)') /\ GotInv' /\ OneKind'
  <2>1. ASSUME NEW cmd \in {"reset", "step", "get"}, Owes(w, cmd)
        PROVE  Answered(w)'
    <3>1. inbox[w] = << >> /\ outbox[w] = << >>
      BY <1>3, <2>1 DEF Executing
    <3>2. outbox'[w] = << <<"observation">> >>
      BY <1>4, <3>1
    <3> QED  BY <1>1, <3>1, <3>2 DEF Answered
  <2>2. \A cmd \in {"reset", "step", "get"} :
          (Owes(w, cmd) => Owes(w, cmd)') /\ (OnlyKind(w, cmd) => OnlyKind(w, cmd)')
    BY <1>1, <2>1 DEF Owes, OnlyKind
  <2> QED  BY <1>1, <1>3, <1>10, <2>2, WorkerFrame
<1>12. LockInv'
  BY <1>1 DEF SciInv, LockInv, Jvm
<1>13. DrawsInv'
  BY <1>1 DEF SciInv, DrawsInv, Due
<1>14. GoldInv'
  <2> SUFFICES ASSUME NEW g \in Groups  PROVE GoldOf(g)'
    BY DEF GoldInv
  <2>1. CASE w = Expert(g)
    <3>1. IsExpert(w) /\ h = g
      BY <2>1, ExpertFacts
    <3>2. /\ n \in Nat \ {0} /\ e \in Steps /\ pc'[w] = "recv" /\ Len(acted'[w]) = n
          /\ goldTrail[g] \in Seq(Steps)
      BY <1>1, <1>5, <1>6, <3>1
    <3>3. /\ IsGold(goldTrail[g], g, Task(w))
          /\ \A m \in (LastObs(goldTrail[g]) + 1)..(n - 1 - 1) :
               GoldAction(g, m + 1) \in Digits
      <4>1. GoldOf(g)
        BY DEF SciInv, GoldInv
      <4>2. Played(w) = n - 1
        BY <1>1 DEF Played, n
      <4> QED  BY <1>1, <2>1, <4>1, <4>2 DEF GoldOf
    <3>4. /\ IsGold(goldTrail'[g], g, Task(w))
          /\ \A m \in (LastObs(goldTrail'[g]) + 1)..(n - 1) :
               GoldAction(g, m + 1) \in Digits
      <4>1. CASE action \in Digits
        <5>1. goldTrail'[g] = goldTrail[g] /\ action = GoldAction(g, n)
          BY <1>8, <3>1, <4>1 DEF action
        <5>2. LastObs(goldTrail[g]) \in Int
          <6>1. CASE goldTrail[g] = << >>
            BY <6>1 DEF LastObs
          <6>2. CASE goldTrail[g] # << >>
            <7>1. Len(goldTrail[g]) \in 1..Len(goldTrail[g])
              BY <3>2, <6>2, EmptySeq
            <7>2. goldTrail[g][Len(goldTrail[g])] \in Steps
              BY <3>2, <7>1, ElementOfSeq
            <7> QED  BY <6>2, <7>2 DEF LastObs, Steps
          <6> QED  BY <6>1, <6>2
        <5>3. ASSUME NEW m \in (LastObs(goldTrail[g]) + 1)..(n - 1)
              PROVE  GoldAction(g, m + 1) \in Digits
          <6>1. CASE m = n - 1
            BY <3>2, <4>1, <5>1, <6>1
          <6>2. CASE m # n - 1
            BY <3>2, <3>3, <5>2, <6>2
          <6> QED  BY <6>1, <6>2
        <5> QED  BY <3>3, <5>1, <5>3
      <4>2. CASE action \notin Digits
        <5>1. goldTrail'[g] = Append(goldTrail[g], e)
          BY <1>8, <3>1, <4>2
        <5>2. /\ e.task = Task(w) /\ e.obs = n - 1
              /\ e.action = GoldAction(g, e.obs + 1)
          BY <3>1, <3>2 DEF e, action
        <5>3. SciTypeInv
          BY DEF SciInv
        <5>4. IsGold(goldTrail'[g], g, Task(w)) /\ LastObs(goldTrail'[g]) = n - 1
          BY <3>2, <3>3, <5>1, <5>2, <5>3, GoldAppended
        <5> QED  BY <3>2, <5>4
      <4> QED  BY <4>1, <4>2
    <3>5. IsGold(goldTrail[g], g, Task(Expert(g)))'
      BY <1>1, <2>1, <3>4 DEF IsGold, GoldAction, Task, Expert
    <3>6. Played(Expert(g))' = n
      BY <2>1, <3>2 DEF Played, Expert
    <3>7. \A m \in ((LastObs(goldTrail[g]) + 1)..(Played(Expert(g)) - 1))' :
             GoldAction(g, m + 1)' \in Digits
      BY <1>1, <3>4, <3>6 DEF LastObs, GoldAction
    <3> QED  BY <2>1, <3>2, <3>5, <3>7 DEF GoldOf, Expert
  <2>2. CASE w # Expert(g)
    <3>1. acted'[Expert(g)] = acted[Expert(g)]
      BY <1>7, <2>2, ExpertFacts
    <3> QED  BY <1>1, <1>8, <1>10, <2>2, <3>1, GoldFrame
  <2> QED  BY <2>1, <2>2
<1>15. AnswerInv'
  BY <1>1, <1>3 DEF AnswerInv
<1>16. SolutionInv'
  BY <1>1, <1>3, NoSolution
<1> QED  BY <1>9, <1>11, <1>12, <1>13, <1>14, <1>15, <1>16 DEF SciInv

-----------------------------------------------------------------------------
(* The parent's steps.                                                     *)

\* The parent does not touch what the workers have.
LEMMA ParentFrame ==
  ASSUME SciInv, UNCHANGED <<pc, locked, draws, acted, gold, goldTrail>>
  PROVE  LockInv' /\ GoldInv'
<1>1. LockInv'
  BY DEF SciInv, LockInv, Jvm
<1>2. GoldInv'
  BY DEF SciInv, GoldInv, GoldOf, IsGold, GoldAction, Task, LastObs, Played, Expert
<1> QED  BY <1>1, <1>2

LEMMA NothingSolved ==
  ASSUME SciInv, parent \notin {"over", "join", "leaked", "closed"}
  PROVE  /\ \A k \in Rows : solution[k] = << >>
         /\ solution' = solution => SolutionInv'
<1>1. DOMAIN solution = Rows /\ \A k \in Rows : solution[k] = << >>
  BY DEF SciInv, SolutionInv
<1>2. ASSUME solution' = solution
      PROVE  SolutionInv'
  BY <1>1, <1>2 DEF SolutionInv, IsGold
<1> QED  BY <1>1, <1>2

LEMMA SciStart == SciInit => SciInv
<1> SUFFICES ASSUME SciInit  PROVE SciInv
  OBVIOUS
<1> USE DEF SciInit
<1>1. SciTypeInv
  <2>1. /\ << >> \in Seq(Cmds) /\ << >> \in Seq(Acts) /\ << >> \in Seq(STRING)
        /\ << >> \in Seq(Steps)
    BY EmptySeq
  <2>2. /\ inbox \in [Workers -> Seq(Cmds)] /\ acted \in [Workers -> Seq(Acts)]
        /\ gold \in [Groups -> Seq(STRING)] /\ goldTrail \in [Groups -> Seq(Steps)]
    BY <2>1
  <2> QED  BY <2>2 DEF SciTypeInv, States
<1>2. \A w \in Workers : DutyOf(w)
  BY DEF DutyOf, Fresh
<1>3. GotInv
  BY DEF GotInv
<1>4. OneKind
  <2>1. \A w \in Workers : OnlyKind(w, "get")
    BY DEF OnlyKind
  <2> QED  BY <2>1 DEF OneKind
<1>5. LockInv /\ DrawsInv /\ AnswerInv
  BY ZeroIsWorker DEF LockInv, DrawsInv, AnswerInv
<1>6. GoldInv
  <2> SUFFICES ASSUME NEW g \in Groups  PROVE GoldOf(g)
    BY DEF GoldInv
  <2>1. /\ goldTrail[g] = << >> /\ acted[Expert(g)] = << >>
        /\ pc[Expert(g)] = "start"
    BY ExpertFacts
  <2>2. LastObs(goldTrail[g]) + 1 = 0 /\ Played(Expert(g)) - 1 = -1
    BY <2>1 DEF LastObs, Played
  <2>3. IsGold(goldTrail[g], g, Task(Expert(g))) /\ \A n \in 0..(-1) : FALSE
    BY <2>1 DEF IsGold
  <2> QED  BY <2>1, <2>2, <2>3 DEF GoldOf
<1>7. SolutionInv
  BY DEF SolutionInv, IsGold
<1> QED  BY <1>1, <1>2, <1>3, <1>4, <1>5, <1>6, <1>7 DEF SciInv

\* A command in the pipes of workers that have nothing to do.
LEMMA SentToIdle ==
  ASSUME SciInv, NEW told \in SUBSET Workers,
         NEW cmd \in {"reset", "step", "get"},
         parent = "ready" \/ (parent = "over" /\ cmd = "reset"),
         \A w \in told : pc[w] # "dead",
         NEW STATE c, \A w \in told : c[w] \in Cmds /\ c[w][1] = cmd,
         inbox' = [w \in Workers |->
                     inbox[w] \o (IF w \in told THEN << c[w] >> ELSE << >>)],
         UNCHANGED <<outbox, pc, draws>>
  PROVE  /\ inbox' \in [Workers -> Seq(Cmds)]
         /\ \A w \in told : Told(w, cmd)' /\ Due(w)' = draws[w] + 1
         /\ \A w \in Workers \ told : Idle(w) => Idle(w)'
         /\ \A w \in Workers : outbox[w] = << >> /\ draws[w] = draws[0]
         /\ OneKind' /\ got = 0
<1>1. /\ \A w \in Workers : /\ Idle(w) \/ (cmd = "reset" /\ Fresh(w))
                            /\ draws[w] = draws[0]
      /\ got = 0
  BY DEF SciInv, DutyOf, GotInv, DrawsInv
<1>2. ASSUME NEW w \in told
      PROVE  /\ inbox'[w] = << c[w] >> /\ inbox'[w] \in Seq(Cmds)
             /\ Told(w, cmd)' /\ Due(w)' = draws[w] + 1 /\ OnlyKind(w, cmd)'
  <2>1. /\ w \in Workers /\ inbox[w] = << >> /\ outbox[w] = << >>
        /\ pc[w] = "recv" \/ (cmd = "reset" /\ pc[w] = "start")
    BY <1>1 DEF Idle, Fresh
  <2>2. c[w] \in Cmds /\ c[w][1] = cmd
    OBVIOUS
  <2>3. inbox'[w] = << >> \o << c[w] >>
    BY <2>1
  <2>4. << c[w] >> \in Seq(Cmds)
    BY <2>2
  <2>5. inbox'[w] = << c[w] >>
    BY <2>3, <2>4, ConcatEmptySeq
  <2>6. Told(w, cmd)'
    BY <2>1, <2>2, <2>5 DEF Told
  <2>7. Due(w)' = draws[w] + 1
    BY <2>5 DEF Due
  <2>8. OnlyKind(w, cmd)'
    BY <2>1, <2>2, <2>5 DEF OnlyKind
  <2> QED  BY <2>4, <2>5, <2>6, <2>7, <2>8
<1>3. ASSUME NEW w \in Workers \ told
      PROVE  /\ inbox'[w] = << >> /\ inbox'[w] \in Seq(Cmds)
             /\ (Idle(w) => Idle(w)') /\ OnlyKind(w, cmd)'
  <2>1. inbox[w] = << >> /\ outbox[w] = << >> /\ pc[w] \in {"recv", "start", "dead"}
    BY <1>1 DEF Idle, Fresh
  <2>2. << >> \in Seq(Cmds)
    BY EmptySeq
  <2>3. inbox'[w] = << >>
    <3>1. inbox'[w] = << >> \o << >>
      BY <2>1
    <3> QED  BY <2>2, <3>1, ConcatEmptySeq
  <2>4. OnlyKind(w, cmd)'
    BY <2>1, <2>3 DEF OnlyKind
  <2> QED  BY <2>1, <2>2, <2>3, <2>4 DEF Idle
<1>4. inbox' \in [Workers -> Seq(Cmds)]
  BY <1>2, <1>3
<1>5. OneKind'
  BY <1>2, <1>3 DEF OneKind
<1> QED  BY <1>1, <1>2, <1>3, <1>4, <1>5 DEF Idle, Fresh

LEMMA SciResetStep ==
  ASSUME SciInv, SciReset
  PROVE  SciInv'
<1> USE DEF SciReset, workerVars
<1> DEFINE c == [w \in Workers |-> <<"reset">>]
<1>1. /\ inbox' \in [Workers -> Seq(Cmds)] /\ OneKind' /\ got = 0
      /\ \A w \in Reached : Told(w, "reset")' /\ Due(w)' = draws[w] + 1
      /\ \A w \in Workers : draws[w] = draws[0]
  <2>1. \A w \in Reached : c[w] \in Cmds /\ c[w][1] = "reset"
    BY DEF Cmds, Reached
  <2>2. inbox' = [w \in Workers |->
                    inbox[w] \o (IF w \in Reached THEN << c[w] >> ELSE << >>)]
    BY DEF Send
  <2>3. Reached \in SUBSET Workers /\ \A w \in Reached : pc[w] # "dead"
    <3>1. \A w \in Reached : w \in 0..w
      BY DEF Reached, Workers
    <3> QED  BY <3>1 DEF Reached
  <2>4. "reset" \in {"reset", "step", "get"} /\ parent = "over"
        /\ UNCHANGED <<outbox, pc, draws>>
    OBVIOUS
  <2> HIDE DEF c, SciReset, workerVars
  <2> QED  BY <2>1, <2>2, <2>3, <2>4, SentToIdle
<1>2. \/ parent' = "failed"
      \/ parent' = "reset" /\ Reached = Workers
  OBVIOUS
<1>3. SciTypeInv'
  BY <1>1, <1>2 DEF SciInv, SciTypeInv
<1>4. \A w \in Workers : DutyOf(w)'
  BY <1>1, <1>2, Sizes DEF DutyOf, Owes, Workers
<1>5. GotInv'
  BY <1>1, <1>2, Sizes DEF GotInv
<1>6. DrawsInv'
  BY <1>1, <1>2, ZeroIsWorker DEF DrawsInv
<1>7. LockInv' /\ GoldInv'
  BY ParentFrame
<1>8. AnswerInv'
  BY <1>2 DEF AnswerInv
<1>9. SolutionInv'
  BY DEF SolutionInv, IsGold, Rows
<1> QED  BY <1>1, <1>3, <1>4, <1>5, <1>6, <1>7, <1>8, <1>9 DEF SciInv

LEMMA SciStepStep ==
  ASSUME SciInv, SciStep
  PROVE  SciInv'
<1> USE DEF SciStep, workerVars
<1> DEFINE t == Len(acted[0]) + 1
           sent == Padded([k \in Rows |-> <<k, t>>], "look around")
           c == [w \in Workers |-> <<"step", sent[w]>>]
<1>1. ASSUME NEW w \in Workers
      PROVE  sent[w] \in Acts
  <2> HIDE DEF SciStep
  <2>1. CASE IsExpert(w)
    BY <2>1 DEF Padded, Acts, Names
  <2>2. CASE ~IsExpert(w)
    <3>1. \E k \in Rows : Worker(k) = w
      BY <2>2, PolicyIndicesAreTheNonExperts
    <3>2. PICK k \in Rows : Worker(k) = w
      BY <3>1
    <3>3. sent[w] = <<k, t>>
      BY <3>2, PaddedFacts
    <3>4. t \in Nat
      <4>1. acted[0] \in Seq(Acts)
        BY ZeroIsWorker DEF SciInv, SciTypeInv
      <4>2. Len(acted[0]) \in Nat
        BY <4>1, LenProperties
      <4> QED  BY <4>2
    <3>5. <<k, t>> \in Acts
      <4> HIDE DEF t
      <4> QED  BY <3>4 DEF Acts
    <3> QED  BY <3>3, <3>5
  <2> QED  BY <2>1, <2>2
<1>2. /\ inbox' \in [Workers -> Seq(Cmds)] /\ OneKind' /\ got = 0
      /\ \A w \in Workers : Told(w, "step")' /\ draws[w] = draws[0]
  <2>1. \A w \in Workers : c[w] \in Cmds /\ c[w][1] = "step"
    <3> HIDE DEF sent
    <3> QED  BY <1>1 DEF Cmds
  <2>2. inbox' = [w \in Workers |->
                    inbox[w] \o (IF w \in Workers THEN << c[w] >> ELSE << >>)]
    BY DEF Send
  <2>3. Workers \in SUBSET Workers /\ "step" \in {"reset", "step", "get"}
        /\ parent = "ready" /\ UNCHANGED <<outbox, pc, draws>>
    OBVIOUS
  <2>4. \A w \in Workers : pc[w] # "dead"
    BY DEF SciInv, DutyOf, Idle
  <2> HIDE DEF c, SciStep, workerVars
  <2> QED  BY <2>1, <2>2, <2>3, <2>4, SentToIdle
<1>10. parent = "ready" /\ parent' = "step"
       /\ UNCHANGED <<got, received, solution, outbox, pc, locked, draws, acted,
                      gold, goldTrail>>
  OBVIOUS
<1> HIDE DEF c, sent, t, SciStep, workerVars
<1>3. SciTypeInv'
  BY <1>2, <1>10 DEF SciInv, SciTypeInv
<1>4. \A w \in Workers : DutyOf(w)'
  BY <1>2, <1>10, Sizes DEF DutyOf, Owes, Workers
<1>5. GotInv'
  BY <1>2, <1>10, Sizes DEF GotInv
<1>6. DrawsInv'
  BY <1>2, <1>10 DEF DrawsInv
<1>7. LockInv' /\ GoldInv'
  BY <1>10, ParentFrame
<1>8. AnswerInv'
  BY <1>10 DEF AnswerInv
<1>9. SolutionInv'
  BY <1>10, NothingSolved
<1> QED  BY <1>2, <1>3, <1>4, <1>5, <1>6, <1>7, <1>8, <1>9 DEF SciInv

LEMMA SciCollectStep ==
  ASSUME SciInv, SciCollect
  PROVE  SciInv'
<1> USE DEF SciCollect, workerVars
<1> DEFINE told == {w \in Workers : IsExpert(w)}
           c == [w \in Workers |-> <<"get">>]
<1>1. /\ inbox' \in [Workers -> Seq(Cmds)] /\ OneKind' /\ got = 0
      /\ \A w \in told : Told(w, "get")'
      /\ \A w \in Workers \ told : Idle(w)'
      /\ \A w \in Workers : outbox[w] = << >> /\ draws[w] = draws[0]
  <2>1. \A w \in told : c[w] \in Cmds /\ c[w][1] = "get"
    BY DEF Cmds
  <2>2. inbox' = [w \in Workers |->
                    inbox[w] \o (IF w \in told THEN << c[w] >> ELSE << >>)]
    BY DEF Send
  <2>3. told \in SUBSET Workers /\ "get" \in {"reset", "step", "get"}
        /\ parent = "ready" /\ UNCHANGED <<outbox, pc, draws>>
    OBVIOUS
  <2>4. \A w \in Workers : Idle(w) /\ pc[w] # "dead"
    BY DEF SciInv, DutyOf, Idle
  <2> HIDE DEF c, told, SciCollect, workerVars
  <2> QED  BY <2>1, <2>2, <2>3, <2>4, SentToIdle
<1>2. SciTypeInv'
  BY <1>1 DEF SciInv, SciTypeInv
<1>3. \A w \in Workers : DutyOf(w)'
  <2> SUFFICES ASSUME NEW w \in Workers  PROVE DutyOf(w)'
    OBVIOUS
  <2>1. GroupOf(w) >= 0
    BY WorkerFacts DEF Groups
  <2> QED  BY <1>1, <2>1 DEF DutyOf, Owes
<1>4. GotInv'
  BY <1>1, Sizes DEF GotInv
<1>5. DrawsInv'
  BY <1>1 DEF DrawsInv
<1>6. LockInv' /\ GoldInv'
  BY ParentFrame
<1>7. AnswerInv'
  <2>1. \A g \in Groups : ~(g < got) /\ outbox[Expert(g)] = << >>
    BY <1>1, ExpertFacts DEF Groups
  <2> QED  BY <2>1 DEF AnswerInv, Expert
<1>8. SolutionInv'
  BY NothingSolved
<1> QED  BY <1>1, <1>2, <1>3, <1>4, <1>5, <1>6, <1>7, <1>8 DEF SciInv

Waiting == parent \in {"reset", "step", "get"}

\* The worker whose answer is next owes it.
LEMMA AwaitedFacts ==
  ASSUME SciInv, Waiting
  PROVE  LET w == Awaited[got + 1] IN
         /\ w \in Workers /\ Owes(w, parent)
         /\ parent # "get" => w = got /\ Len(Awaited) = NumProcesses
         /\ parent = "get" =>
              w = Expert(got) /\ got \in Groups /\ Len(Awaited) = EnvNum
<1> DEFINE w == Awaited[got + 1]
<1>1. got \in Nat
  BY DEF SciInv, SciTypeInv
<1>2. CASE parent = "get"
  <2>1. got \in Groups
    BY <1>1, <1>2, Sizes DEF SciInv, GotInv, Groups
  <2>2. Awaited = [i \in 1..EnvNum |-> Expert(i - 1)]
    BY <1>2 DEF Awaited
  <2>3. got + 1 \in 1..EnvNum /\ (got + 1) - 1 = got
    BY <1>1, <2>1, Sizes DEF Groups
  <2>4. w = Expert(got) /\ Len(Awaited) = EnvNum
    BY <2>2, <2>3, Sizes
  <2>5. w \in Workers /\ IsExpert(w) /\ GroupOf(w) >= got
    BY <1>1, <2>1, <2>4, ExpertFacts
  <2>6. DutyOf(w)
    BY <2>5 DEF SciInv
  <2> HIDE DEF w
  <2>7. Owes(w, parent)
    BY <1>2, <2>5, <2>6 DEF DutyOf
  <2> QED  BY <1>2, <2>1, <2>4, <2>5, <2>7 DEF w
<1>3. CASE parent # "get"
  <2>1. parent \in {"reset", "step"} /\ got < NumProcesses
    BY <1>3 DEF Waiting, SciInv, GotInv
  <2>2. Awaited = [i \in 1..NumProcesses |-> i - 1]
    BY <1>3 DEF Awaited
  <2>3. got + 1 \in 1..NumProcesses /\ (got + 1) - 1 = got
    BY <1>1, <2>1, Sizes
  <2>4. w = got /\ Len(Awaited) = NumProcesses
    BY <2>2, <2>3, Sizes
  <2>5. w \in Workers
    BY <1>1, <2>1, <2>4, Sizes DEF Workers
  <2>6. DutyOf(w)
    BY <2>5 DEF SciInv
  <2> HIDE DEF w
  <2>7. Owes(w, parent)
    BY <1>1, <2>1, <2>4, <2>6 DEF DutyOf
  <2> QED  BY <1>3, <2>4, <2>5, <2>7 DEF w
<1> QED  BY <1>2, <1>3

\* An answer is received: its worker has nothing to do any more.
LEMMA ReceiveFacts ==
  ASSUME SciInv, NEW w, SciReceive, w = Awaited[got + 1]
  PROVE  /\ Answered(w) /\ Idle(w)' /\ DOMAIN outbox' = Workers
         /\ \A v \in Workers \ {w} : outbox'[v] = outbox[v]
         /\ IF got + 1 = Len(Awaited)
            THEN /\ \A v \in Workers : Idle(v)'
                 /\ got' = 0
            ELSE (\A v \in Workers : DutyOf(v)') /\ GotInv' /\ got' = got + 1
<1> USE DEF SciReceive
<1>1. Waiting
  BY DEF Waiting
<1>2. /\ w \in Workers /\ Owes(w, parent)
      /\ parent # "get" => w = got /\ Len(Awaited) = NumProcesses
      /\ parent = "get" =>
           w = Expert(got) /\ got \in Groups /\ Len(Awaited) = EnvNum
  BY <1>1, AwaitedFacts
<1>3. /\ outbox[w] # << >> /\ outbox' = [outbox EXCEPT ![w] = Tail(@)]
      /\ inbox' = inbox /\ pc' = pc
      /\ got' = IF got + 1 = Len(Awaited) THEN 0 ELSE got + 1
      /\ got + 1 # Len(Awaited) => parent' = parent
  OBVIOUS
<1>4. DOMAIN outbox = Workers /\ got \in Nat
  BY DEF SciInv, SciTypeInv
<1> HIDE DEF SciReceive
<1>5. Answered(w) /\ Idle(w)'
  <2>1. Answered(w)
    BY <1>2, <1>3 DEF Owes, Told, Executing, Died
  <2>2. outbox'[w] = << >>
    BY <1>2, <1>3, <1>4, <2>1 DEF Answered
  <2> QED  BY <1>3, <2>1, <2>2 DEF Answered, Idle
<1>6. /\ DOMAIN outbox' = Workers
      /\ \A v \in Workers \ {w} : outbox'[v] = outbox[v]
  BY <1>2, <1>3, <1>4
<1>7. ASSUME NEW v \in Workers \ {w}
      PROVE  /\ Idle(v) => Idle(v)'
             /\ \A cmd : Owes(v, cmd) => Owes(v, cmd)'
             /\ DutyOf(v)
  BY <1>3, <1>6 DEF Idle, Owes, Told, Executing, Answered, Died, SciInv
\* Which of the other workers are done.
<1>8. ASSUME NEW v \in Workers \ {w}
      PROVE  /\ parent # "get" => v # got
             /\ parent = "get" /\ IsExpert(v) => GroupOf(v) # got
  <2>1. IsExpert(v) => v = Expert(GroupOf(v))
    BY ExpertIsUnique
  <2> QED  BY <1>2, <2>1
<1>9. ASSUME NEW v \in Workers
      PROVE  v \in Nat /\ v < NumProcesses /\ GroupOf(v) \in Nat /\ GroupOf(v) < EnvNum
  <2>1. v \in Nat /\ GroupOf(v) \in 0..(EnvNum - 1)
    BY WorkerFacts DEF Groups
  <2> QED  BY <2>1, Sizes DEF Workers
<1>10. CASE got + 1 = Len(Awaited)
  <2>1. ASSUME NEW v \in Workers \ {w}
        PROVE  Idle(v)
    <3>1. CASE parent = "get"
      <4>1. ~(IsExpert(v) /\ GroupOf(v) >= got)
        BY <1>2, <1>4, <1>8, <1>9, <1>10, <3>1, Sizes
      <4> QED  BY <1>7, <3>1, <4>1 DEF DutyOf
    <3>2. CASE parent # "get"
      <4>1. v < got
        BY <1>2, <1>4, <1>8, <1>9, <1>10, <3>2, Sizes
      <4>2. parent \in {"reset", "step"}
        BY <1>1, <3>2 DEF Waiting
      <4> QED  BY <1>7, <4>1, <4>2 DEF DutyOf
    <3> QED  BY <3>1, <3>2
  <2> QED  BY <1>3, <1>5, <1>6, <1>7, <1>10, <2>1
<1>11. CASE got + 1 # Len(Awaited)
  <2>1. got' = got + 1 /\ parent' = parent
    BY <1>3, <1>11
  <2>2. GotInv'
    BY <1>1, <1>2, <1>4, <1>11, <2>1, Sizes DEF GotInv, Groups, Waiting, SciInv
  <2>3. ASSUME NEW v \in Workers
        PROVE  DutyOf(v)'
    <3>1. CASE v = w
      <4>1. parent \in {"reset", "step"} => v < got + 1
        BY <1>2, <1>4, <3>1
      <4>2. parent = "get" => ~(GroupOf(v) >= got + 1)
        <5>1. parent = "get" => GroupOf(v) = got
          BY <1>2, <3>1, ExpertFacts
        <5> QED  BY <1>4, <5>1
      <4> QED  BY <1>1, <1>5, <2>1, <3>1, <4>1, <4>2 DEF DutyOf, Waiting
    <3>2. CASE v # w
      <4>1. parent \in {"reset", "step"} => (v < got + 1 <=> v < got)
        BY <1>4, <1>8, <1>9, <3>2
      <4>2. parent = "get" /\ IsExpert(v) =>
              (GroupOf(v) >= got + 1 <=> GroupOf(v) >= got)
        BY <1>4, <1>8, <1>9, <3>2
      <4>3. /\ parent \in {"reset", "step"} =>
                 IF v < got THEN Idle(v)' ELSE Owes(v, parent)'
            /\ parent = "get" =>
                 IF IsExpert(v) /\ GroupOf(v) >= got THEN Owes(v, "get")'
                 ELSE Idle(v)'
        BY <1>7, <2>1, <3>2 DEF DutyOf
      <4> QED  BY <1>1, <2>1, <4>1, <4>2, <4>3 DEF DutyOf, Waiting
    <3> QED  BY <3>1, <3>2
  <2> QED  BY <1>5, <1>6, <1>11, <2>1, <2>2, <2>3
<1> QED  BY <1>5, <1>6, <1>10, <1>11

\* A trajectory cut short is still one of its task.
LEMMA TruncatedGold ==
  ASSUME NEW g, NEW task, NEW s \in Seq(Steps), IsGold(s, g, task)
  PROVE  IsGold(Truncate(s), g, task)
<1> DEFINE t == Truncate(s)
<1>1. /\ t \in Seq(Steps) /\ Len(t) \in 0..Len(s)
      /\ \A i \in 1..Len(t) : t[i] = s[i]
  BY TruncateFacts
<1>2. DOMAIN t = 1..Len(t) /\ DOMAIN s = 1..Len(s) /\ Len(s) \in Nat
  BY <1>1, LenProperties
<1> HIDE DEF t
<1>3. ASSUME NEW i \in 1..Len(t)
      PROVE  i \in DOMAIN s /\ t[i] = s[i] /\ (i # 1 => t[i - 1] = s[i - 1])
  BY <1>1, <1>2
<1>4. IsGold(t, g, task)
  BY <1>2, <1>3 DEF IsGold
<1> QED  BY <1>4 DEF t

LEMMA SciReceiveStep ==
  ASSUME SciInv, SciReceive
  PROVE  SciInv'
<1>1. Waiting
  BY DEF Waiting, SciReceive
<1>2. PICK w : w = Awaited[got + 1]
  OBVIOUS
<1>3. /\ w \in Workers
      /\ parent # "get" => w = got /\ Len(Awaited) = NumProcesses
      /\ parent = "get" =>
           w = Expert(got) /\ got \in Groups /\ Len(Awaited) = EnvNum
  BY <1>1, <1>2, AwaitedFacts
<1>4. /\ Answered(w) /\ Idle(w)' /\ DOMAIN outbox' = Workers
      /\ \A v \in Workers \ {w} : outbox'[v] = outbox[v]
      /\ IF got + 1 = Len(Awaited)
         THEN (\A v \in Workers : Idle(v)') /\ got' = 0
         ELSE (\A v \in Workers : DutyOf(v)') /\ GotInv' /\ got' = got + 1
  BY <1>2, ReceiveFacts
<1> DEFINE last == got + 1 = Len(Awaited)
           trajs == IF parent = "get"
                    THEN [received EXCEPT ![GroupOf(w)] = Head(outbox[w])]
                    ELSE received
<1>5. /\ UNCHANGED <<inbox, pc, locked, draws, acted, gold, goldTrail>>
      /\ received' = IF last THEN [g \in Groups |-> << >>] ELSE trajs
      /\ ~last => parent' = parent /\ solution' = solution
      /\ last /\ parent = "get" =>
           /\ parent' = "over"
           /\ solution' = [k \in Rows |-> Truncate(trajs[ExpertGroup(k)])]
      /\ last /\ parent # "get" => parent' = "ready" /\ solution' = solution
  BY <1>2 DEF SciReceive
<1> HIDE DEF last, trajs
<1>6. SciTypeInv'
  <2>1. got' \in Nat
    BY <1>4 DEF last, SciInv, SciTypeInv
  <2>2. DOMAIN received' = Groups
    BY <1>5 DEF SciInv, SciTypeInv, trajs
  <2>3. parent' \in {"ready", "over", "reset", "step", "get"}
    BY <1>1, <1>5 DEF Waiting
  <2> QED  BY <1>4, <1>5, <2>1, <2>2, <2>3 DEF SciInv, SciTypeInv
<1>7. (\A v \in Workers : DutyOf(v)') /\ GotInv'
  <2>1. CASE last
    <3>1. (\A v \in Workers : Idle(v)') /\ got' = 0
      BY <1>4, <2>1 DEF last
    <3>2. parent' \in {"ready", "over"}
      BY <1>5, <2>1
    <3> QED  BY <3>1, <3>2 DEF DutyOf, GotInv
  <2>2. CASE ~last
    BY <1>4, <2>2 DEF last
  <2> QED  BY <2>1, <2>2
<1>8. OneKind'
  BY <1>5 DEF SciInv, OneKind, OnlyKind
<1>9. LockInv' /\ GoldInv'
  BY <1>5, ParentFrame
<1>10. DrawsInv'
  <2>1. CASE parent = "reset"
    <3>1. \A v \in Workers : Due(v) = Due(0)
      BY <2>1 DEF SciInv, DrawsInv
    <3>2. CASE last
      <4>1. \A v \in Workers : inbox[v] = << >>
        BY <1>4, <1>5, <3>2 DEF last, Idle
      <4>2. \A v \in Workers : draws[v] = draws[0]
        BY <3>1, <4>1, ZeroIsWorker DEF Due
      <4> QED  BY <1>5, <2>1, <3>2, <4>2 DEF DrawsInv
    <3>3. CASE ~last
      BY <1>5, <2>1, <3>1, <3>3 DEF DrawsInv, Due
    <3> QED  BY <3>2, <3>3
  <2>2. CASE parent # "reset"
    <3>1. \A v \in Workers : draws[v] = draws[0]
      BY <1>1, <2>2 DEF SciInv, DrawsInv, Waiting
    <3>2. parent' # "reset"
      BY <1>5, <2>2
    <3> QED  BY <1>5, <3>1, <3>2 DEF DrawsInv
  <2> QED  BY <2>1, <2>2
\* The trajectories received so far.
<1>11. ASSUME parent = "get", NEW g \in Groups
       PROVE  /\ g <= got => trajs[g] = goldTrail[g]
              /\ g > got /\ outbox[Expert(g)] # << >> =>
                   Head(outbox[Expert(g)]) = goldTrail[g]
  <2>1. IF g < got THEN received[g] = goldTrail[g]
        ELSE outbox[Expert(g)] # << >> => Head(outbox[Expert(g)]) = goldTrail[g]
    BY <1>11 DEF SciInv, AnswerInv
  <2>2. w = Expert(got) /\ got \in Groups /\ GroupOf(w) = got
    BY <1>3, <1>11, ExpertFacts
  <2>3. DOMAIN received = Groups
    BY DEF SciInv, SciTypeInv
  <2>4. trajs = [received EXCEPT ![got] = Head(outbox[w])]
    BY <1>11, <2>2 DEF trajs
  <2>5. CASE g = got
    <3>1. outbox[Expert(g)] # << >>
      BY <1>4, <2>2, <2>5 DEF Answered
    <3> QED  BY <2>1, <2>2, <2>3, <2>4, <2>5, <3>1 DEF Groups
  <2>6. CASE g # got
    BY <2>1, <2>2, <2>3, <2>4, <2>6 DEF Groups
  <2> QED  BY <2>5, <2>6
<1>12. AnswerInv'
  <2> SUFFICES ASSUME parent' = "get", NEW g \in Groups
               PROVE  IF g < got' THEN received'[g] = goldTrail[g]
                      ELSE outbox'[Expert(g)] # << >> =>
                             Head(outbox'[Expert(g)]) = goldTrail[g]
    BY <1>5 DEF AnswerInv, Expert
  <2>1. parent = "get" /\ ~last /\ received' = trajs
    BY <1>5
  <2>2. got' = got + 1 /\ got \in Nat /\ g \in Nat
    BY <1>4, <2>1 DEF last, SciInv, SciTypeInv, Groups
  <2>3. CASE g <= got
    BY <1>11, <2>1, <2>2, <2>3
  <2>4. CASE g > got
    <3>1. Expert(g) \in Workers /\ Expert(g) # w
      BY <1>3, <2>1, <2>2, <2>4, ExpertFacts
    <3>2. outbox'[Expert(g)] = outbox[Expert(g)]
      BY <1>4, <3>1
    <3> QED  BY <1>11, <2>1, <2>2, <2>4, <3>2
  <2> QED  BY <2>2, <2>3, <2>4
<1>13. SolutionInv'
  <2>1. CASE last /\ parent = "get"
    <3>1. /\ solution' = [k \in Rows |-> Truncate(trajs[ExpertGroup(k)])]
          /\ parent' = "over"
      BY <1>5, <2>1
    <3>2. \A v \in Workers : OnlyKind(v, "get")'
      <4>1. \A v \in Workers : Idle(v)'
        BY <1>4, <2>1 DEF last
      <4> QED  BY <4>1 DEF Idle, OnlyKind
    <3>3. ASSUME NEW k \in Rows
          PROVE  IsGold(solution'[k], Uid(k), Task(Worker(k)))
      <4> DEFINE g == Uid(k)
      <4>1. /\ g \in Groups /\ ExpertGroup(k) = g /\ Worker(k) \in Workers
            /\ GroupOf(Worker(k)) = g
        BY RowFacts
      <4>2. g <= got
        BY <1>3, <2>1, <4>1, Sizes DEF last, Groups
      <4>3. solution'[k] = Truncate(goldTrail[g])
        BY <1>11, <2>1, <3>1, <4>1, <4>2
      <4>4. Expert(g) \in Workers /\ GroupOf(Expert(g)) = g
        BY <4>1, ExpertFacts
      <4>5. Task(Expert(g)) = Task(Worker(k))
        <5>1. draws[Expert(g)] = draws[Worker(k)]
          BY <2>1, <4>1, <4>4 DEF SciInv, DrawsInv
        <5> QED  BY <4>1, <4>4, <5>1 DEF Task
      <4>6. IsGold(goldTrail[g], g, Task(Expert(g)))
        <5>1. pc[Expert(g)] = "recv"
          BY <1>4, <1>5, <2>1, <4>4 DEF last, Idle
        <5>2. GoldOf(g)
          BY <4>1 DEF SciInv, GoldInv
        <5> QED  BY <5>1, <5>2 DEF GoldOf
      <4>7. goldTrail[g] \in Seq(Steps)
        BY <4>1 DEF SciInv, SciTypeInv
      <4> HIDE DEF g
      <4>8. IsGold(Truncate(goldTrail[g]), g, Task(Worker(k)))
        BY <4>5, <4>6, <4>7, TruncatedGold
      <4> QED  BY <4>3, <4>8 DEF g
    <3>4. \A k \in Rows : IsGold(solution[k], Uid(k), Task(Worker(k)))'
      BY <1>5, <3>3 DEF IsGold, GoldAction, Task, Worker
    <3> QED  BY <3>1, <3>2, <3>4 DEF SolutionInv
  <2>2. CASE ~(last /\ parent = "get")
    <3>1. solution' = solution
      BY <1>5, <2>2
    <3> QED  BY <1>1, <3>1, NothingSolved DEF Waiting
  <2> QED  BY <2>1, <2>2
<1> QED  BY <1>6, <1>7, <1>8, <1>9, <1>10, <1>12, <1>13 DEF SciInv

LEMMA SciReceiveFailsStep ==
  ASSUME SciInv, SciReceiveFails
  PROVE  SciInv'
<1>1. /\ Waiting /\ parent' = "failed"
      /\ UNCHANGED <<got, inbox, received, solution, outbox, pc, locked, draws,
                     acted, gold, goldTrail>>
  BY DEF SciReceiveFails, workerVars, Waiting
<1>2. SciTypeInv'
  BY <1>1 DEF SciInv, SciTypeInv
<1>3. (\A w \in Workers : DutyOf(w)') /\ GotInv' /\ DrawsInv' /\ AnswerInv'
  BY <1>1 DEF DutyOf, GotInv, DrawsInv, AnswerInv
<1>4. OneKind'
  BY <1>1 DEF SciInv, OneKind, OnlyKind
<1>5. LockInv' /\ GoldInv'
  BY <1>1, ParentFrame
<1>6. SolutionInv'
  BY <1>1, NothingSolved DEF Waiting
<1> QED  BY <1>2, <1>3, <1>4, <1>5, <1>6 DEF SciInv

LEMMA SciCloseStep ==
  ASSUME SciInv, SciClose
  PROVE  SciInv'
<1> DEFINE close(w) == IF w \in Reached THEN << <<"close">> >> ELSE << >>
<1>1. /\ parent' \in {"join", "leaked"}
      /\ UNCHANGED <<got, received, solution, outbox, pc, locked, draws, acted,
                     gold, goldTrail>>
      /\ inbox' = [w \in Workers |-> inbox[w] \o close(w)]
  BY DEF SciClose, Send, workerVars
<1>2. ASSUME NEW w \in Workers
      PROVE  /\ inbox'[w] \in Seq(Cmds)
             /\ \A cmd : OnlyKind(w, cmd) => OnlyKind(w, cmd)'
  <2>1. inbox[w] \in Seq(Cmds)
    BY DEF SciInv, SciTypeInv
  <2>2. CASE close(w) = << >>
    <3>1. inbox'[w] = inbox[w]
      BY <1>1, <2>1, <2>2, ConcatEmptySeq
    <3> QED  BY <1>1, <2>1, <3>1 DEF OnlyKind
  <2>3. CASE close(w) = << <<"close">> >>
    <3> DEFINE c == << <<"close">> >>
    <3>1. c \in Seq(Cmds) /\ Len(c) = 1 /\ c[1][1] = "close"
      BY DEF Cmds
    <3>2. inbox'[w] = inbox[w] \o c
      BY <1>1, <2>3
    <3> HIDE DEF c
    <3>5. Len(inbox[w]) \in Nat
      BY <2>1, LenProperties
    <3>6. /\ inbox[w] \o c \in Seq(Cmds)
          /\ Len(inbox[w] \o c) = Len(inbox[w]) + Len(c)
          /\ \A i \in 1..(Len(inbox[w]) + Len(c)) :
               (inbox[w] \o c)[i] = IF i <= Len(inbox[w]) THEN inbox[w][i]
                                   ELSE c[i - Len(inbox[w])]
      BY <2>1, <3>1, ConcatProperties
    <3>3. /\ inbox'[w] \in Seq(Cmds) /\ Len(inbox[w]) \in Nat
          /\ Len(inbox'[w]) = Len(inbox[w]) + 1
          /\ \A i \in 1..(Len(inbox[w]) + 1) :
               inbox'[w][i] = IF i <= Len(inbox[w]) THEN inbox[w][i]
                              ELSE c[i - Len(inbox[w])]
      BY <3>1, <3>2, <3>5, <3>6
    <3>4. ASSUME NEW cmd, OnlyKind(w, cmd)
          PROVE  OnlyKind(w, cmd)'
      <4>1. ASSUME NEW i \in 1..Len(inbox'[w])
            PROVE  inbox'[w][i][1] \in {cmd, "close"}
        <5>1. CASE i <= Len(inbox[w])
          <6>1. inbox'[w][i] = inbox[w][i] /\ i \in 1..Len(inbox[w])
            BY <3>3, <5>1
          <6> QED  BY <3>4, <6>1 DEF OnlyKind
        <5>2. CASE ~(i <= Len(inbox[w]))
          <6>1. inbox'[w][i] = c[1]
            BY <3>3, <5>2
          <6> QED  BY <3>1, <6>1
        <5> QED  BY <5>1, <5>2
      <4> QED  BY <1>1, <3>4, <4>1 DEF OnlyKind
    <3> QED  BY <3>3, <3>4
  <2> QED  BY <2>2, <2>3
<1> HIDE DEF close
<1>3. SciTypeInv'
  <2>1. inbox' \in [Workers -> Seq(Cmds)]
    BY <1>1, <1>2
  <2> QED  BY <1>1, <2>1 DEF SciInv, SciTypeInv
<1>4. (\A w \in Workers : DutyOf(w)') /\ GotInv' /\ DrawsInv' /\ AnswerInv'
  BY <1>1 DEF DutyOf, GotInv, DrawsInv, AnswerInv
<1>5. OneKind'
  BY <1>2 DEF SciInv, OneKind
<1>6. LockInv' /\ GoldInv'
  BY <1>1, ParentFrame
<1>7. SolutionInv'
  <2>1. \A k \in Rows : IsGold(solution[k], Uid(k), Task(Worker(k)))'
    BY <1>1 DEF SciInv, SolutionInv, IsGold, GoldAction, Task, Worker
  <2>2. ASSUME NEW k \in Rows, solution[k] # << >>
        PROVE  \A w \in Workers : OnlyKind(w, "get")'
    BY <1>2, <2>2 DEF SciInv, SolutionInv
  <2> QED  BY <1>1, <2>1, <2>2 DEF SciInv, SolutionInv
<1> QED  BY <1>3, <1>4, <1>5, <1>6, <1>7 DEF SciInv

LEMMA SciJoinedStep ==
  ASSUME SciInv, SciJoined
  PROVE  SciInv'
<1>1. /\ parent' = "closed"
      /\ UNCHANGED <<got, inbox, received, solution, outbox, pc, locked, draws,
                     acted, gold, goldTrail>>
  BY DEF SciJoined, workerVars
<1>2. SciTypeInv'
  BY <1>1 DEF SciInv, SciTypeInv
<1>3. (\A w \in Workers : DutyOf(w)') /\ GotInv' /\ DrawsInv' /\ AnswerInv'
  BY <1>1 DEF DutyOf, GotInv, DrawsInv, AnswerInv
<1>4. OneKind'
  BY <1>1 DEF SciInv, OneKind, OnlyKind
<1>5. LockInv' /\ GoldInv'
  BY <1>1, ParentFrame
<1>6. SolutionInv'
  <2>1. \A k \in Rows : IsGold(solution[k], Uid(k), Task(Worker(k)))'
    BY <1>1 DEF SciInv, SolutionInv, IsGold, GoldAction, Task, Worker
  <2>2. \A w \in Workers : OnlyKind(w, "get") => OnlyKind(w, "get")'
    BY <1>1 DEF OnlyKind
  <2> QED  BY <1>1, <2>1, <2>2 DEF SciInv, SolutionInv
<1> QED  BY <1>2, <1>3, <1>4, <1>5, <1>6 DEF SciInv

LEMMA SciUnchanged ==
  ASSUME SciInv, UNCHANGED sciVars
  PROVE  SciInv'
<1> USE DEF sciVars
<1>1. SciTypeInv'
  BY DEF SciInv, SciTypeInv
<1>2. (\A w \in Workers : DutyOf(w)') /\ OneKind'
  BY DEF SciInv, DutyOf, Idle, Fresh, Owes, Told, Executing, Answered, Died, OneKind,
         OnlyKind
<1>3. GotInv' /\ DrawsInv' /\ AnswerInv'
  BY DEF SciInv, GotInv, DrawsInv, Due, AnswerInv, Expert
<1>4. LockInv' /\ GoldInv'
  BY ParentFrame
<1>5. SolutionInv'
  BY DEF SciInv, SolutionInv, IsGold, GoldAction, Task, Worker, OnlyKind
<1> QED  BY <1>1, <1>2, <1>3, <1>4, <1>5 DEF SciInv

-----------------------------------------------------------------------------
LEMMA SciInvariant == EnvSpec => []SciInv
<1>1. EnvInit => SciInv
  BY SciStart DEF EnvInit
<1>2. SciInv /\ [EnvNext]_<<vars, sciVars, envName>> => SciInv'
  <2> SUFFICES ASSUME SciInv, [SciNext]_sciVars  PROVE SciInv'
    BY DEF EnvNext
  <2>1. CASE SciReset
    BY <2>1, SciResetStep
  <2>2. CASE SciStep
    BY <2>2, SciStepStep
  <2>3. CASE SciCollect
    BY <2>3, SciCollectStep
  <2>4. CASE SciReceives
    BY <2>4, SciReceiveStep, SciReceiveFailsStep, SciJoinedStep DEF SciReceives
  <2>5. CASE SciClose
    BY <2>5, SciCloseStep
  <2>6. ASSUME NEW w \in Workers, SciWork(w)
        PROVE  SciInv'
    BY <2>6, TakeResetStep, LoadStep, TakeStepStep, StepDoneStep,
       AnswerTrajectoryStep, TakeCloseStep, ConnectStep, QueryStep DEF SciWork
  <2>7. ASSUME NEW w \in Workers, WorkerRaises(w)
        PROVE  SciInv'
    BY <2>7, WorkerRaisesStep
  <2>8. CASE UNCHANGED sciVars
    BY <2>8, SciUnchanged
  <2> QED  BY <2>1, <2>2, <2>3, <2>4, <2>5, <2>6, <2>7, <2>8
           DEF SciNext, SciStops
<1> QED  BY <1>1, <1>2, PTL DEF EnvSpec

\* While a worker loads its task, no other worker of its JVM loads or steps:
\* other loads wait for the lock, and the parent sends no step while a reset
\* is under way, also after some worker has raised (_worker, reset, step).
THEOREM LoadsDoNotMeet == EnvSpec => []LoadsAlone
<1>1. SciInv => LoadsAlone
  <2> SUFFICES ASSUME SciInv, NEW w \in Workers, pc[w] = "load",
                      NEW v \in Workers \ {w}, Jvm(v) = Jvm(w)
               PROVE  pc[v] \notin {"load", "step"}
    BY DEF LoadsAlone
  <2>1. pc[v] # "load"
    BY DEF SciInv, LockInv
  <2>2. pc[v] # "step"
    <3>1. PICK cmd \in {"reset", "step", "get"} : \A u \in Workers : OnlyKind(u, cmd)
      BY DEF SciInv, OneKind
    <3> QED  BY <3>1 DEF OnlyKind
  <2> QED  BY <2>1, <2>2
<1> QED  BY <1>1, SciInvariant, PTL

\* The reference solution a row is given is the gold path of the row's own
\* task, every action with the observation before it, and nothing is missing
\* but answers to disambiguations (get_expert_trajectories).
THEOREM SolutionsAreOfTheRowsTask == EnvSpec => []SolutionOfOwnTask
<1>1. SciInv => SolutionOfOwnTask
  <2> SUFFICES ASSUME SciInv, NEW k \in Rows
               PROVE  /\ IsGold(solution[k], GroupOf(Worker(k)), Task(Worker(k)))
                      /\ parent = "ready" =>
                           \A j \in Rows : Uid(j) = Uid(k) =>
                             Task(Worker(j)) = Task(Worker(k))
    BY DEF SolutionOfOwnTask, IsGold
  <2>1. GroupOf(Worker(k)) = Uid(k)
    BY RowFacts
  <2>2. IsGold(solution[k], GroupOf(Worker(k)), Task(Worker(k)))
    BY <2>1 DEF SciInv, SolutionInv
  <2>3. ASSUME parent = "ready", NEW j \in Rows, Uid(j) = Uid(k)
        PROVE  Task(Worker(j)) = Task(Worker(k))
    <3>1. /\ Worker(j) \in Workers /\ Worker(k) \in Workers
          /\ GroupOf(Worker(j)) = GroupOf(Worker(k))
      BY <2>3, RowFacts
    <3>2. draws[Worker(j)] = draws[Worker(k)]
      BY <2>3, <3>1 DEF SciInv, DrawsInv
    <3> QED  BY <3>1, <3>2 DEF Task
  <2> QED  BY <2>2, <2>3
<1> QED  BY <1>1, SciInvariant, PTL
=============================================================================
