----------------------------- MODULE AgentLoop -----------------------------
(***************************************************************************)
(* TrajectoryCollector.vanilla_multi_turn_loop, the success evaluator of   *)
(* the environment managers and gather_rollout_data.                       *)
(*                                                                         *)
(* All environments are stepped in lock-step, also those whose episode is  *)
(* over: what such an environment answers is up to the library behind it   *)
(* (a stale result, another "done", even a new reward), and the loop masks *)
(* it.  An episode may be rewarded, counted and judged by its own steps    *)
(* only.                                                                   *)
(*                                                                         *)
(* Abstractions: observations, prompts and responses are left out; a step  *)
(* of the loop is one action, because the workers share nothing and        *)
(* ray.get returns their answers in the order of the rows.                 *)
(***************************************************************************)
EXTENDS Integers, Sequences, FiniteSets, FiniteSetsExt

CONSTANTS
  Rows,           \* rows of the batch
  MaxSteps,       \* env.max_steps
  SuccessReward,  \* env.success_reward: the reward of a won step
  Scores          \* task scores an environment may report

ASSUME RowsAssumption == IsFiniteSet(Rows) /\ Rows # {}
ASSUME StepsAssumption == MaxSteps \in Nat \ {0}
ASSUME RewardAssumption == SuccessReward \in Nat \ {0}
ASSUME ScoresAssumption == Scores \subseteq Nat /\ 0 \in Scores

VARIABLES
  phase,      \* "reset", "step", "evaluate", "gather", "done"
  step,       \* _step: completed iterations of the loop
  isDone,     \* is_done[i]
  prevScore,  \* prev_task_scores[i]
  epReward,   \* episode_rewards[i]
  epLength,   \* episode_lengths[i]
  list,       \* total_batch_list[i], with what is used of total_infos[i]
  success,    \* success["success_rate"][i], once evaluated
  batch       \* effective_batch: the rows handed to training

vars == <<phase, step, isDone, prevScore, epReward, epLength, list, success,
          batch>>

NoScore == -1      \* the info has no usable task_score or score

\* What an environment answers to one action.
Answers == [done : BOOLEAN, won : BOOLEAN, score : Scores \cup {NoScore}]

\* A live environment ends the episode with the step that wins it.
LiveAnswers == {a \in Answers : a.won => a.done}

Reward(a) == IF a.won THEN SuccessReward ELSE 0

Init ==
  /\ phase = "reset"
  /\ step = 0
  /\ isDone = [i \in Rows |-> FALSE]
  /\ prevScore = [i \in Rows |-> 0]
  /\ epReward = [i \in Rows |-> 0]
  /\ epLength = [i \in Rows |-> 0]
  /\ list = [i \in Rows |-> << >>]
  /\ success = [i \in Rows |-> FALSE]
  /\ batch = {}

\* _safe_task_score: the reported score, or the default.
SafeScore(score, default) == IF score = NoScore THEN default ELSE score

\* envs.reset(): the scores the episodes start with.
Reset ==
  /\ phase = "reset"
  /\ \E first \in [Rows -> Scores \cup {NoScore}] :
       prevScore' = [i \in Rows |-> SafeScore(first[i], 0)]
  /\ phase' = "step"
  /\ UNCHANGED <<step, isDone, epReward, epLength, list, success, batch>>

Active(i) == ~isDone[i]

\* Mutant: the scores of a finished episode are not masked.
RowUnmasked(i, a) ==
  LET after == SafeScore(a.score, prevScore[i])
  IN [traj |-> i, active |-> Active(i), reward |-> Reward(a), won |-> a.won,
      before |-> prevScore[i], after |-> after,
      delta |-> after - prevScore[i]]

\* The row appended for environment i: rewards and won are the raw answer,
\* the task scores are masked for an episode that is over.
RowOf(i, a) ==
  LET after == IF Active(i) THEN SafeScore(a.score, prevScore[i])
                            ELSE prevScore[i]
  IN [traj   |-> i,
      active |-> Active(i),
      reward |-> Reward(a),
      won    |-> a.won,
      before |-> prevScore[i],
      after  |-> after,
      delta  |-> after - prevScore[i]]

\* Mutant: the environments' answer replaces is_done.
DoneNow(i, a) == a.done

\* is_done = np.logical_or(is_done, dones)
DoneAfter(i, a) == isDone[i] \/ a.done

\* Out of the loop: its range is used up, or is_done.all().
LoopEnds(s, over) == s = MaxSteps \/ \A i \in Rows : over[i]

\* One iteration of the loop; it breaks when all episodes are over.
Step ==
  /\ phase = "step"
  /\ step < MaxSteps
  /\ \E answer \in [Rows -> Answers] :
       /\ \A i \in Rows : Active(i) => answer[i] \in LiveAnswers
       /\ epReward' = [i \in Rows |->
            epReward[i] + (IF Active(i) THEN Reward(answer[i]) ELSE 0)]
       /\ epLength' = [i \in Rows |-> epLength[i] + (IF Active(i) THEN 1 ELSE 0)]
       /\ prevScore' = [i \in Rows |-> RowOf(i, answer[i]).after]
       /\ list' = [i \in Rows |-> Append(list[i], RowOf(i, answer[i]))]
       /\ isDone' = [i \in Rows |-> DoneAfter(i, answer[i])]
       /\ step' = step + 1
       /\ phase' = IF LoopEnds(step + 1, isDone') THEN "evaluate" ELSE "step"
  /\ UNCHANGED <<success, batch>>

ActiveSteps(l) == {t \in DOMAIN l : l[t].active}

\* Mutant: the last entry is looked at, active or not.
WonAtLast(l) == l # << >> /\ l[Len(l)].won

\* _process_batch: won of the last entry with an active mask.
WonAtLastActive(l) ==
  \E t \in ActiveSteps(l) :
    /\ \A u \in ActiveSteps(l) : u <= t
    /\ l[t].won

\* success_evaluator
Evaluate ==
  /\ phase = "evaluate"
  /\ success' = [i \in Rows |-> WonAtLastActive(list[i])]
  /\ phase' = "gather"
  /\ UNCHANGED <<step, isDone, prevScore, epReward, epLength, list, batch>>

\* Mutant: all rows are gathered.
EffectiveAll(i, t) == TRUE

\* if data['active_masks']
Effective(i, t) == list[i][t].active

\* A row for training, with what is known of its episode.
TrainingRow(i, t) ==
  [row     |-> list[i][t],
   at      |-> t,
   reward  |-> epReward[i],
   length  |-> epLength[i],
   success |-> success[i]]

\* gather_rollout_data: the active rows.
Gather ==
  /\ phase = "gather"
  /\ batch' = {TrainingRow(p[1], p[2]) :
                p \in {q \in Rows \X (1..step) : Effective(q[1], q[2])}}
  /\ phase' = "done"
  /\ UNCHANGED <<step, isDone, prevScore, epReward, epLength, list, success>>

Finished == phase = "done" /\ UNCHANGED vars

Next == Reset \/ Step \/ Evaluate \/ Gather \/ Finished

Spec == Init /\ [][Next]_vars

-----------------------------------------------------------------------------
\* The entries of episode i that reach training.
Gathered(i) == {b \in batch : b.row.traj = i}

Sum(S, f(_)) == MapThenSumSet(f, S)

\* As many rows of an episode reach training as it has steps, each with the
\* reward and length of the episode, and with its success, which is computed
\* at the end from the infos and agrees with the reward.
RowsCarryEpisode ==
  \A i \in Rows :
    /\ Cardinality(Gathered(i)) = epLength[i]
    /\ \A b \in Gathered(i) :
         /\ b.reward = epReward[i] /\ b.length = epLength[i]
         /\ b.at <= b.length
         /\ b.success <=> b.reward = SuccessReward

\* What training sees of an episode is the episode: as many rows as it has
\* steps, their rewards add up to the episode reward every row carries, and
\* their score gains to the gain of the episode, although rows of finished
\* environments kept coming in; and success, computed at the end from the
\* infos, agrees with the reward, accumulated under the mask of each step.
RowsAddUpToEpisode ==
  phase = "done" =>
    /\ RowsCarryEpisode
    /\ \A i \in Rows :
         /\ Sum(Gathered(i), LAMBDA b : b.row.reward) = epReward[i]
         /\ Sum(Gathered(i), LAMBDA b : b.row.delta)
              = prevScore[i] - list[i][1].before

\* The lock-step loop with its masks plays independent episodes.
E == INSTANCE Episodes WITH
       episode <- [i \in Rows |->
                     [length |-> epLength[i], reward |-> epReward[i],
                      won |-> WonAtLastActive(list[i]), over |-> isDone[i]]]

PlaysIndependentEpisodes == E!EpSpec
=============================================================================
