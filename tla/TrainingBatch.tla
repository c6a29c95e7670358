--------------------------- MODULE TrainingBatch ---------------------------
(***************************************************************************)
(* What RayPPOTrainer.fit does to the rows of a rollout before it computes *)
(* advantages: GiGPO's step returns, adjust_batch, _balance_batch and, for *)
(* Milestone GAE, compute_milestone_gae_from_batch.                        *)
(*                                                                         *)
(* A row is one step of one trajectory.  The rollout delivers the rows in  *)
(* time order.  adjust_batch makes their number divisible by copying rows, *)
(* _balance_batch permutes them, and both estimators take the n-th row of  *)
(* a trajectory in the batch for its n-th step.                            *)
(*                                                                         *)
(* Abstractions: a potential Phi is the step it was judged for, a return   *)
(* is the set of steps whose rewards it sums; the numeric recursion is     *)
(* left out.                                                               *)
(***************************************************************************)
EXTENDS SeqlenBalancing, Functions

CONSTANTS
  Trajs,       \* number of trajectories
  MaxLength,   \* their longest length
  RowLengths,  \* token counts of a row
  Divisor,     \* size_divisor: lcm of the micro batches times the world size
  World,       \* world_size of the actor's worker group
  Balancing    \* values trainer.balance_batch may have

ASSUME SizesAssumption ==
  /\ Trajs \in Nat \ {0} /\ MaxLength \in Nat \ {0}
  /\ World \in Nat \ {0} /\ Divisor \in Nat \ {0}
  /\ Divisor % World = 0
  /\ Balancing \subseteq BOOLEAN

VARIABLES
  balance, \* trainer.balance_batch
  phase,   \* "collected", "returns", "adjusted", "balanced", "done", "failed"
  steps,   \* steps[j]: the length of trajectory j
  rows,    \* the batch, in order
  phi      \* phi[k]: the judged step whose Phi row k is given

vars == <<balance, phase, steps, rows, phi>>

\* The rows as the rollout delivers them: by trajectory, in time order.
Delivered(length, tokens) ==
  FlattenSeq([j \in 1..Trajs |->
    [t \in 1..length[j] |->
       [traj |-> j, at |-> t, tokens |-> tokens[<<j, t>>], copy |-> FALSE,
        sums |-> {}]]])

Init ==
  /\ balance \in Balancing
  /\ phase = "collected"
  /\ steps \in [1..Trajs -> 1..MaxLength]
  /\ \E tokens \in [(1..Trajs) \X (1..MaxLength) -> RowLengths] :
       rows = Delivered(steps, tokens)
  /\ phi = << >>

\* np.where(traj_uids == uid): the rows of a trajectory, in batch order.
Indices(j) == {k \in DOMAIN rows : rows[k].traj = j}

\* The position of row k among them.
Rank(k) == Cardinality({m \in Indices(rows[k].traj) : m <= k})

\* Mutant: the reward of the step itself is left out.
StepReturnsLater ==
  /\ phase = "collected"
  /\ rows' = [k \in DOMAIN rows |->
       [rows[k] EXCEPT !.sums =
          {rows[m].at : m \in {i \in Indices(rows[k].traj) : Rank(i) > Rank(k)}}]]
  /\ phase' = "returns"
  /\ UNCHANGED <<balance, steps, phi>>

\* compute_step_discounted_returns: row k sums the rewards from its position
\* in the trajectory on.
StepReturns ==
  /\ phase = "collected"
  /\ rows' = [k \in DOMAIN rows |->
       [rows[k] EXCEPT !.sums =
          {rows[m].at : m \in {i \in Indices(rows[k].traj) : Rank(i) >= Rank(k)}}]]
  /\ phase' = "returns"
  /\ UNCHANGED <<balance, steps, phi>>

\* Mutant: the remainder itself is added.
ToAddRemainder(n) == n % Divisor

\* adjust_batch, mode "copy": rows chosen at random, none twice.
ToAdd(n) == IF n % Divisor = 0 THEN 0 ELSE Divisor - (n % Divisor)

Adjust ==
  /\ phase = "returns"
  /\ LET bs  == Len(rows)
         add == ToAdd(bs)
     IN \/ /\ add > bs
           /\ phase' = "failed"
           /\ UNCHANGED rows
        \/ /\ add <= bs
           /\ \E dup \in [1..add -> 1..bs] :
                /\ IsInjective(dup)
                /\ rows' = rows \o
                     [i \in 1..add |-> [rows[dup[i]] EXCEPT !.copy = TRUE]]
           /\ phase' = "adjusted"
  /\ UNCHANGED <<balance, steps, phi>>

RowTokens == [k \in DOMAIN rows |-> rows[k].tokens]

\* Mutant: the partitions deal one row each in turn.
ReorderedInTurns ==
  LET parts == BalancedPartitions(RowTokens, World, TRUE)
  IN [k \in DOMAIN rows |->
        rows[parts[((k - 1) % World) + 1][(k - 1) \div World + 1]]]

\* batch.reorder(global_idx): the rows of the first rank, of the second, ...
Reordered ==
  LET order == FlattenSeq(BalancedPartitions(RowTokens, World, TRUE))
  IN [k \in DOMAIN rows |-> rows[order[k]]]

Balance ==
  /\ phase = "adjusted"
  /\ rows' = IF balance THEN Reordered ELSE rows
  /\ phase' = "balanced"
  /\ UNCHANGED <<balance, steps, phi>>

\* Mutant: the potential of the next step.
PhiNext(j, i) == IF i < steps[j] THEN i + 1 ELSE steps[j]

\* phis padded with its last value, or cut, to the rows of the trajectory.
PhiAt(j, i) == IF i <= steps[j] THEN i ELSE steps[j]

\* compute_milestone_gae_from_batch: Phi by position in the batch.
MilestoneGAE ==
  /\ phase = "balanced"
  /\ phi' = [k \in DOMAIN rows |-> PhiAt(rows[k].traj, Rank(k))]
  /\ phase' = "done"
  /\ UNCHANGED <<balance, steps, rows>>

Finished == phase \in {"done", "failed"} /\ UNCHANGED vars

Next == StepReturns \/ Adjust \/ Balance \/ MilestoneGAE \/ Finished

Spec == Init /\ [][Next]_vars

-----------------------------------------------------------------------------
\* Copying fails only for a batch of less than half the divisor.  Otherwise
\* the dispatch to the ranks can split the batch evenly, no step of any
\* trajectory was lost on the way, and a step occurs at most twice.
EvenAndComplete ==
  /\ phase = "failed" => 2 * Len(rows) < Divisor
  /\ phase \in {"adjusted", "balanced", "done"} =>
       /\ Len(rows) % Divisor = 0
       /\ \A j \in 1..Trajs : \A t \in 1..steps[j] :
            LET here == {k \in DOMAIN rows : rows[k].traj = j /\ rows[k].at = t}
            IN /\ Cardinality({k \in here : ~rows[k].copy}) = 1
               /\ Cardinality(here) <= 2

\* GiGPO's returns stay with their steps through copies and reordering:
\* each row sums the rewards from its own step to the end of its trajectory.
ReturnsOfOwnStep ==
  phase \in {"returns", "adjusted", "balanced", "done"} =>
    \A k \in DOMAIN rows : rows[k].sums = rows[k].at..steps[rows[k].traj]

\* Phi_t is the judge's value of step t: a collected row gets the Phi of its
\* own step, whatever was copied.  It does not hold: balance_batch, on by
\* default, destroys the order the estimator takes the steps in.
PhiOfOwnStep ==
  phase = "done" =>
    \A k \in DOMAIN rows : ~rows[k].copy => phi[k] = rows[k].at

\* Without balance_batch every collected row gets the potential of its own
\* step, whatever was copied; with it, the potentials of a trajectory's rows
\* are at least shared out among them, each but the last to one row.
PhiSharedOut ==
  phase = "done" => \A j \in 1..Trajs :
    /\ \A i \in 1..(steps[j] - 1) :
         Cardinality({k \in Indices(j) : phi[k] = i}) = 1
    /\ ~balance => \A k \in Indices(j) : ~rows[k].copy => phi[k] = rows[k].at
=============================================================================
