---------------------------- MODULE WorkerGroups ----------------------------
(***************************************************************************)
(* What the ALFWorld and the SciWorld environments have in common: with    *)
(* expert_in_group every group of N policy workers has one expert worker   *)
(* more, the last of its group.  The rollout loop sees the policy workers  *)
(* only, as the rows of its batch.                                         *)
(***************************************************************************)
EXTENDS Integers, Sequences, FiniteSets

CONSTANTS
  EnvNum,       \* env_num: tasks of a batch
  N,            \* group_n: policy workers of a group
  MaxSteps,     \* env.max_steps
  MaxEpisodes   \* bound: rollouts in one behaviour

ASSUME EnvNumAssumption == EnvNum \in Nat \ {0}
ASSUME NAssumption == N \in Nat \ {0}
ASSUME BoundsAssumption == MaxSteps \in Nat \ {0} /\ MaxEpisodes \in Nat

WorkersPerGroup == N + 1
NumProcesses    == EnvNum * WorkersPerGroup
Workers         == 0..(NumProcesses - 1)
Groups          == 0..(EnvNum - 1)

GroupOf(w)  == w \div WorkersPerGroup
IsExpert(w) == w % WorkersPerGroup = N
Expert(g)   == g * WorkersPerGroup + N

\* policy_indices: row k of the batch is the k-th worker that is no expert,
\* and every group has N of those before its expert.
PolicyIndices ==
  [i \in 1..(EnvNum * N) |->
     ((i - 1) \div N) * WorkersPerGroup + ((i - 1) % N)]

Rows      == 0..(Len(PolicyIndices) - 1)
Worker(k) == PolicyIndices[k + 1]

\* The rollout loop's uid of row k: one for N consecutive rows.
Uid(k) == k \div N

\* Mutant: the experts' dummies are put at the end.
PaddedAtTheEnd(actions, dummy) ==
  [w \in Workers |-> IF w \in Rows THEN actions[w] ELSE dummy]

\* step() pads the rows' actions with a dummy for every expert.
Padded(actions, dummy) ==
  [w \in Workers |->
     IF IsExpert(w) THEN dummy
     ELSE actions[CHOOSE k \in Rows : Worker(k) = w]]

\* Mutant: three entries are required.
IsLongPadding(t, i) ==
  /\ i + 2 <= Len(t)
  /\ \A j \in i..(i + 2) : t[j].action = t[i - 1].action

\* _truncate_expert_trajectory: cut where an action repeats the one before,
\* if the (up to) three entries from there on are all that action.
IsPadding(t, i) ==
  /\ t[i].action = t[i - 1].action
  /\ \A j \in i..(i + 2) : j <= Len(t) => t[j].action = t[i].action

Truncate(t) ==
  LET cuts == {i \in 2..Len(t) : IsPadding(t, i)}
  IN IF cuts = {} THEN t
     ELSE SubSeq(t, 1, (CHOOSE i \in cuts : \A j \in cuts : i <= j) - 1)

\* Mutant: the row is taken for the worker.
ExpertGroupByRow(k) == k \div WorkersPerGroup

\* The group whose expert a row is given.
ExpertGroup(k) == Worker(k) \div WorkersPerGroup
=============================================================================
