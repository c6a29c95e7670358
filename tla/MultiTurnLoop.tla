--------------------------- MODULE MultiTurnLoop ---------------------------
(***************************************************************************)
(* TrajectoryCollector.multi_turn_loop: one rollout (vanilla), or rollouts *)
(* repeated and filtered until enough groups with a training signal are    *)
(* there (dynamic_multi_turn_loop with filter_group_data), and the two     *)
(* level PipelineData built from the result: queries by uid, trajectories  *)
(* by traj_uid.                                                            *)
(*                                                                         *)
(* Several lists have to stay row-aligned through all of this: the batch,  *)
(* the tasks and the expert trajectories, and the success dictionary has   *)
(* to have the same keys in every try.                                     *)
(*                                                                         *)
(* Abstractions: a rollout is one action (AgentLoop has its steps); a row  *)
(* is its trajectory id, group uid, game and episode reward.  The task and *)
(* the expert trajectory of a row are cut and indexed alike and are both   *)
(* stood for by the game they belong to (ExpertWorkers: the expert of a    *)
(* row plays the row's own game).                                          *)
(***************************************************************************)
EXTENDS Integers, Sequences

CONSTANTS
  BatchSize,   \* data.train_batch_size: tasks of a batch
  N,           \* env.rollout.n: rows of a group
  Modes,       \* "vanilla", "dynamic" (filter_groups.enable), "validate"
  MaxTries,    \* filter_groups.max_num_gen_batches
  Rewards,     \* episode rewards
  Types        \* kinds of tasks, each with a success rate of its own

ASSUME BatchAssumption == BatchSize \in Nat \ {0} /\ N \in Nat \ {0}
ASSUME ModesAssumption == Modes \subseteq {"vanilla", "dynamic", "validate"}
ASSUME TriesAssumption == MaxTries \in Nat

VARIABLES
  mode,      \* how multi_turn_loop is called
  phase,     \* "sample", "build", "done", "failed"
  tries,     \* try_count
  rows,      \* total_batch_list, with rewards and uids
  tasks,     \* total_tasks (and total_expert_trajectories)
  keys,      \* per try, the keys of its success dictionary
  queries    \* PipelineData.queries: uid -> the task of the query

vars == <<mode, phase, tries, rows, tasks, keys, queries>>

IsTrain == mode # "validate"

\* Rows of one rollout: a training batch repeats each task N times.
Size   == IF IsTrain THEN BatchSize * N ELSE BatchSize
Target == BatchSize * N
Index  == 1..Size

Filtering == mode = "dynamic"

\* Row k plays the game of its environment: the environments come in groups
\* of N in training, alone in validation.
GameOf(k) == IF IsTrain THEN (k - 1) \div N ELSE k - 1

\* Mutant: the groups are shifted by one row.
UidShifted(k) == k \div N

\* uid_batch: a new uid every N rows, in training and in validation.
UidOf(k) == (k - 1) \div N

\* One rollout: rows and tasks in the order of the environments.
Rollout(t, reward) ==
  [k \in Index |-> [traj   |-> <<t, k>>,
                    uid    |-> <<t, UidOf(k)>>,
                    game   |-> <<t, GameOf(k)>>,
                    reward |-> reward[k]]]

RolloutTasks(t) == [k \in Index |-> <<t, GameOf(k)>>]

\* success_evaluator: "success_rate" for all rows, and per type of task the
\* rows of that type.
OfType(type, y) == {k \in Index : type[GameOf(k)] = y}
AllKeys(type)   == {"success_rate"} \cup
                   {y \in Types : OfType(type, y) # {}}
FullKeys(type)  == {"success_rate"} \cup
                   {y \in Types : OfType(type, y) = Index}

\* Mutant: the last try is filtered as well.
LastTryNever(t) == t = MaxTries + 1

LastTry(t) == t = MaxTries

Group(g) == (g * N + 1)..((g + 1) * N)

\* Mutant: the condition is inverted.
Agrees(r, g) == \A k \in Group(g) : r[k].reward = r[g * N + 1].reward

\* Not all rewards of the group are the same.
Varies(r, g) == \E k \in Group(g) : r[k].reward # r[g * N + 1].reward

GroupRows(r, g) == SubSeq(r, g * N + 1, (g + 1) * N)

\* filter_group_data walks through the groups; the rows of those that vary are
\* kept, in order.  After the i-th group:
KeptGroups(r) ==
  LET kept[i \in 0..BatchSize] ==
        IF i = 0 THEN << >>
        ELSE IF Varies(r, i - 1)
             THEN kept[i - 1] \o GroupRows(r, i - 1)
             ELSE kept[i - 1]
  IN kept

Kept(r, t) == IF LastTry(t) THEN r ELSE KeptGroups(r)[BatchSize]

-----------------------------------------------------------------------------
Init ==
  /\ mode \in Modes
  /\ phase = "sample"
  /\ tries = 0
  /\ rows = << >>
  /\ tasks = << >>
  /\ keys = << >>
  /\ queries = << >>

\* vanilla_multi_turn_loop, once.
SampleOnce ==
  /\ phase = "sample"
  /\ ~Filtering
  /\ \E reward \in [Index -> Rewards] : rows' = Rollout(1, reward)
  /\ tasks' = RolloutTasks(1)
  /\ phase' = "build"
  /\ UNCHANGED <<mode, tries, keys, queries>>

\* One pass of the while loop of dynamic_multi_turn_loop.  The tasks are cut
\* to the number of kept rows: tasks[:len(batch_list)].
SampleAgain ==
  /\ phase = "sample"
  /\ Filtering
  /\ Len(rows) < Target
  /\ tries < MaxTries
  /\ tries' = tries + 1
  /\ \E reward \in [Index -> Rewards], type \in [0..(BatchSize - 1) -> Types] :
       LET kept == Kept(Rollout(tries', reward), tries')
       IN /\ rows' = rows \o kept
          /\ tasks' = tasks \o SubSeq(RolloutTasks(tries'), 1, Len(kept))
          /\ keys' = Append(keys, IF LastTry(tries') THEN AllKeys(type)
                                  ELSE FullKeys(type))
  /\ UNCHANGED <<mode, phase, queries>>

\* After the loop the results are concatenated: nothing to concatenate, or a
\* try without one of the first try's keys, is an exception.
Concatenate ==
  /\ phase = "sample"
  /\ Filtering
  /\ Len(rows) >= Target \/ tries >= MaxTries
  /\ phase' = IF keys # << >> /\ \A t \in DOMAIN keys : keys[1] \subseteq keys[t]
              THEN "build" ELSE "failed"
  /\ UNCHANGED <<mode, tries, rows, tasks, keys, queries>>

FirstRow(uid) ==
  CHOOSE k \in DOMAIN rows :
    rows[k].uid = uid /\ \A j \in DOMAIN rows : rows[j].uid = uid => k <= j

\* Step D: the first row of a uid gives the query its task and expert.
Build ==
  /\ phase = "build"
  /\ queries' = [uid \in {rows[k].uid : k \in DOMAIN rows} |->
                   tasks[FirstRow(uid)]]
  /\ phase' = "done"
  /\ UNCHANGED <<mode, tries, rows, tasks, keys>>

Finished == phase \in {"done", "failed"} /\ UNCHANGED vars

Next == SampleOnce \/ SampleAgain \/ Concatenate \/ Build \/ Finished

Spec == Init /\ [][Next]_vars

-----------------------------------------------------------------------------
RowsOf(uid) == {k \in DOMAIN rows : rows[k].uid = uid}

\* However the groups turn out, a batch has at least the target number of
\* rows, and less than twice as many; groups are kept or dropped as a whole
\* and stay together; and a kept group has something to learn from, unless it
\* is from the last try, which is not filtered so that the training step is
\* not left short.
EnoughWholeGroups ==
  mode = "dynamic" =>
    /\ phase \in {"build", "done"} =>
         Target <= Len(rows) /\ Len(rows) < 2 * Target
    /\ \A k \in DOMAIN rows :
         /\ \E first \in DOMAIN rows :
              RowsOf(rows[k].uid) = first..(first + N - 1)
         /\ LastTry(rows[k].uid[1]) \/
              \E i, j \in RowsOf(rows[k].uid) : rows[i].reward # rows[j].reward

\* A trajectory finds the task and expert of its own game through its uid.  It
\* holds for plain training rollouts only: dynamic sampling shifts the tasks
\* against the rows, validation groups rows of different games.
QueryOfOwnGame ==
  mode = "vanilla" /\ phase = "done" =>
    \A k \in DOMAIN rows : queries[rows[k].uid] = rows[k].game

\* "Source alignment": row k of the tasks and of the expert trajectories
\* belongs to row k of the batch.  It does not hold with dynamic sampling.
SourcesAligned == \A k \in DOMAIN rows : tasks[k] = rows[k].game
=============================================================================
