# A verification project for World Potential Model training

The repository trains language agents with progress-aware rewards: a policy
plays household and science games, an LLM writes milestones for every task,
another judges at each step of a trajectory which milestone has been reached,
and the temporal difference of these potentials is the dense reward of PPO
("Milestone GAE").  It is built on verl and verl-agent.  This directory holds
TLA+ models of the parts whose correctness is a matter of control (what runs
in which order, what survives a crash, which row belongs to which step), the
TLC instances that check them, and TLAPS proofs that all of their safety
properties hold for every value of the parameters.

All line numbers refer to the commit in the repository; `PROJECT.json` maps
every definition to the lines it translates.

## 1. Inventory

| Component | State | Operations | Interacts with | Hard because of | Correct when |
|---|---|---|---|---|---|
| Checkpoints (`verl/utils/checkpoint`, `ray_trainer._save_checkpoint/_load_checkpoint`) | files of a checkpoint, tracker file, in-memory list of saved paths per rank | save, rotate, resume in three modes | driver calls the worker groups by RPC, ranks meet in barriers, all share a file system | crashes at any point, ranks interleaving, state lost in a restart | the tracker names a complete checkpoint of one process; a resume continues where it should; rotation keeps its limit and never what is needed |
| Training loop (`RayPPOTrainer.fit`) | `global_steps`, dataloader position, the batch | step, save, validate, balance, estimate | everything | order of the passes over one batch | rows keep their meaning through every pass |
| Rollout loop (`agent_system/multi_turn_rollout`) | masks, scores, rewards, rows per environment | lock-step, gather, dynamic sampling, PipelineData | policy workers, environment managers, trainer | finished environments keep answering; several lists must stay aligned | rows are those of independent episodes; row k of every list is row k |
| Environments (`env_package/alfworld`, `env_package/sciworld`, `env_manager.py`) | workers (Ray actors, or processes behind pipes), locks of shared JVMs, expert plans and trajectories | reset, step, collect experts, close | rollout loop by row index, workers by worker index | two index spaces; processes that share singletons; workers that raise | a row drives its own worker and is shown the expert of its own task; loads of a JVM exclude each other and the steps in it; every command ends |
| Sequence balancing (`seqlen_balancing.py`) | heap of partial partitions | Karmarkar-Karp with and without equal sizes, micro-batches by tokens, reverse index | trainer before every update, actor in every pass | ties, equal sums, ranks with different needs | each row once, near equal loads, equally many micro-batches on all ranks |
| Ranks (`fsdp_workers.py`, `dp_actor.py`, `protocol.py`) | shards, mini- and micro-batches, gradients | dispatch, compute_log_prob, update_policy, collect | driver by RPC, each other in every pass | order of rows, collective passes | results return to their rows; what a row weighs does not depend on how the batch was cut, where the loss is a mean over rows |
| Step returns and Milestone GAE (`gigpo`, `rlvmr/core_milestone_gae.py`) | none | estimate by position in the trajectory | rows after copying and permuting | order of rows | returns and potentials of the row's own step |
| Milestone generator and judge (`rlvmr/milestone`) | call counter, results; state carried between chunks | generate, judge, chunk, parse, retry, fall back | thread pools, LLM servers | threads, failing servers, arbitrary answers | one potential per step; every call answered; load shared |
| PipelineData (`rlvmr/pipeline_data.py`) | queries by uid, trajectories by traj_uid | built by the rollout, read by reward functions | | joins by position | a trajectory finds its own query |
| Async LLM servers, ChatCompletionScheduler | heap of weights, LRU cache of sessions, servers | submit, follow up, call back, restart | users' sessions, vLLM servers | sessions interleave on one cache | a session stays on its server; sessions are spread |
| SGLang rollout with tools (`sglang_rollout.py`, `schemas.py`, `tools/`) | request states, shared sampling parameters, tool instances | generate, call tools, hear answers, finalize | engine, tools by instance id | coroutines around awaits, one failure fails the batch | an instance lives as long as its request; a batch ends; parameters fall back |
| Rate limit of search and sandbox tools | semaphore, threads of the pools | acquire, execute, release | Ray concurrency groups, one limiter for both tools | calls that raise, blocking threads | at most `rate_limit` calls, no token lost or made |
| Hybrid reward, discriminator, trajectory saver, memory | per-trajectory rewards, lists | expand, gather, append | trainer | order of uids | (not modelled) |
| Sharding managers | engine awake or asleep | enter, exit | actor, engine | | (not modelled) |

Not modelled, with the reason: advantages, losses (but for what `agg_loss`
divides them by) and model code (real arithmetic, out of TLC's reach); sharding managers (a fixed sequence
of calls between two external engines); hybrid reward, discriminator and
trajectory saver (an alternative to Milestone GAE, mostly tensor arithmetic);
memories (data of the prompts); Megatron workers (an alternative
back end of the same driver protocol); the vendored simulators and vLLM
adaptations (third-party); the managers of the other
environments (same interface towards the rollout, whose answers `AgentLoop`
leaves open); recipes, fine-tuning and reward managers (variants the release
does not run, scoring of texts); prompts, logging,
metrics and configuration (no control).

## 2. Modules

| Module | Models | Uses |
|---|---|---|
| `ResumableTraining` | abstract: what checkpointing promises the job | |
| `Checkpoint` | driver and ranks: save, rotate, crash, resume | implements `ResumableTraining` |
| `Episodes` | abstract: independent episodes | |
| `AgentLoop` | lock-step loop, success evaluation, gathering | implements `Episodes` |
| `WorkerGroups` | groups of policy workers with an expert: indices, padding, truncation | |
| `ExpertWorkers` | ALFWorld workers | `WorkerGroups` |
| `SciWorldEnvs` | SciWorld processes, pipes, JVM locks | `WorkerGroups` |
| `Environments` | the choice between the two by `env_name` | `ExpertWorkers`, `SciWorldEnvs` |
| `MultiTurnLoop` | plain, dynamic and validation rollouts, PipelineData | |
| `SeqlenBalancing` | Karmarkar-Karp, number of micro-batches, reverse index | |
| `TrainingBatch` | the driver's batch: returns, copies, balancing, Milestone GAE | `SeqlenBalancing` |
| `RankBatches` | the ranks' shards, micro-batches, log-probabilities and gradients | `TrainingBatch` |
| `MilestonePipeline` | from queries to potentials: the pools of generator and judge | |
| `JudgeChunks` | one trajectory judged in chunks | |
| `MilestoneScoring` | both, as the two grains of the milestone block | `MilestonePipeline`, `JudgeChunks` |
| `ToolRollout` | SGLang requests with tools under a rate limit | |
| `ChatScheduler` | servers and sessions of the async rollout | |
| `GenerationEngines` | the choice between the two by `rollout.mode` | `ToolRollout`, `ChatScheduler` |
| `CheckpointProofs` | theorems about checkpointing | `Checkpoint`, `NumberLemmas` |
| `AgentLoopProofs` | theorems about the rollout loop | `AgentLoop`, `NumberLemmas` |
| `EnvironmentsProofs` | theorems about both kinds of environments | `Environments`, `NumberLemmas` |
| `MultiTurnLoopProofs` | theorems about sampling and queries | `MultiTurnLoop`, `NumberLemmas` |
| `RankBatchesProofs` | theorems about balancing, the batch and the ranks | `RankBatches`, `NumberLemmas` |
| `MilestoneScoringProofs` | theorems about generator, judge and chunks | `MilestoneScoring`, `NumberLemmas` |
| `EnginesProofs` | theorems about tools and sessions | `GenerationEngines` |
| `NumberLemmas` | quotients and remainders, least numbers, ranks in an order, sums of lengths | |
| `MC*` | instances for TLC: `M` extended with the sets of the cfg | |

`Environments`, `GenerationEngines` and `MilestoneScoring` put two components
under one specification because the configuration selects between them (or, in
`MilestoneScoring`, because one call of the first is the whole run of the
second).  Their first variable says which one a behaviour is about; the other
stays in its initial state.

The definitions whose comment begins with "Mutant" are not part of the model:
they are plausible mistakes in the definition that follows, and
`PROJECT.json` pairs each with the property that notices it.

### Checkpoint

File system (`shard`, `data`, `dirs`, `tracker`) and job (`phase`, `gstep`,
`pos`, `rpc`, `paths`) are separate, because a crash (`Crash`) keeps the first
and resets the second.  `phase` is where the driver is in `fit()` and
`_save_checkpoint`; `rpc[k]` is where rank k is in
`FSDPCheckpointManager.save_checkpoint`: remove old directories (`Prune`),
make the new one (`Mkdir`), first barrier, open and write the shard
(`OpenShard`, `WriteShard`), second barrier and return (`RoleSaved`).  The
driver then writes `data.pt` and the tracker, each in two steps because the
file is truncated before it is written.  `Launch` is `_load_checkpoint` in the
mode the operator chose.  The content of a shard is the number of the process
that wrote it; its three files (model, optimizer, extra) are written by one
rank between the same barriers, and any of them missing makes the load raise,
so they are one.

### AgentLoop

One action per phase: `Reset`, `Step` (an iteration: the environments share
nothing and `ray.get` keeps their order, so there is nothing to interleave),
`Evaluate` (`success_evaluator`), `Gather` (`gather_rollout_data`).  What an
environment answers after its episode is over is unconstrained; the masks have
to cope.  `TrainingRow` is what `gather_rollout_data` writes into an active row.
`Episodes` is the specification without masks and lists.

### WorkerGroups, ExpertWorkers, SciWorldEnvs

`PolicyIndices`, `GroupOf`, `IsExpert` and `ExpertGroup` are the index
computations of both `envs.py` and of `env_manager.py`; `Padded` how the rows'
actions reach the workers.  The code appends the policy indices group by group;
`PolicyIndices` has the list in closed form, and `MCEnvironments` assumes, for
TLC to evaluate, that the loop builds the same list.  `Truncate` how repeated actions are cut from an
expert's trajectory.  `Executed` (ALFWorld) is what a worker plays.  When the
policy rows are over, and which plans the text game proposes, is left open;
once won, the game repeats its last answer.

`SciWorldEnvs` has the parent and one process per worker.  `SciReset`,
`SciStep` and `SciCollect` send; `SciReceive` takes the answers in the order of
the workers and, after the last of `SciCollect`, maps them to rows.  The parent
does not wait for its workers to start, so the first reset finds them in
`"start"`.  A worker connects to its JVM without the lock (`Connect`), draws its
task and takes the lock (`TakeReset`), loads and releases it (`Load`), describes
the loaded task without the lock (`Query`), steps without it (`TakeStep`,
`StepDone`), and may raise in any of these calls (`WorkerRaises`), which the
parent sees as a closed pipe: when it receives (`SciReceiveFails`), or when it
sends (`Reached` are the workers the send loop gets to).  A worker that raises
inside `load` releases its lock on the way out.  `InJvm` is where a worker is
inside a call of its JVM.

### MultiTurnLoop

A rollout is one action, because `AgentLoop` has its steps.  `SampleAgain` is a
turn of the dynamic loop with `filter_group_data`; `Concatenate` its end, which
may raise; `Build` the construction of the queries.  Tasks and expert
trajectories are cut by the same index expression and stand in one list.
`KeptGroups` is the loop of `filter_group_data` over the groups: what is kept
after each of them.

### SeqlenBalancing, TrainingBatch, RankBatches

`SeqlenBalancing` has the data structures (`Set`, `State`, heap order, merge)
and the while loop as a recursive function of its turns (`LastState`).  `TrainingBatch` is what the driver does to the rows:
`StepReturns`, `Adjust`, `Balance`, `MilestoneGAE`.  A potential is represented
by the step it was judged for, a return by the steps whose rewards it sums,
which is all that can get mixed up by reordering.  `RankBatches` continues
between them: after `Balance` the batch is cut into `Shard`s
(`DispatchLogProb`), passes are made in step by all ranks (`Forward`),
`Reverted` and `CollectLogProb` bring the results back; after `MilestoneGAE`
the update cuts mini- and micro-batches (`NextMiniBatch`) and `Backward` adds
the weight of each row.  `Divided` is what `agg_loss` divides the loss of a
response token by in each of its four modes: the response tokens of the
micro-batch (`token-mean`, the default), its rows, its rows times the row's own
tokens, or the padded length; `RowWeight` multiplies by the scale
`update_policy` gives the micro-batch, and holds a weight as a pair of numerator
and denominator.  How many response tokens a step has is the constant
`ResponseTokens`.  `AgreedMicroBatches` is the all-reduce of
`rearrange_micro_batches`.

### MilestonePipeline, JudgeChunks

`MilestonePipeline` has the two stages of the Milestone GAE block of `fit()`:
all queries are sent to the generator, then (`StartJudging`) all trajectories,
with their query's milestones, to the judge, then (`StorePhis`) the potentials
go back into the `PipelineData`.  In both stages a thread takes a task, picks a
server (`PickLocked` for the judge; `Pick`, `LoadIndex`, `StoreIndex` for the
generator, which has no lock), and asks until an answer or `max_retries`
failures (`Answer`, `Fail`, `Finish`).  A task may also raise before it asks
(`TaskRaises`): in the generator it leaves no result, in the judge `_judge_one`
returns zeros.  A pool is done when its queue is empty and its threads are idle
(`Complete`), whether every task has a result or not; what is missing gets the
default afterwards (`Filled`).  `answered` is a history variable: the queries
for which a server wrote milestones.  Stages share no state but what is in
`fixed`: each has its own servers, counter and threads.  `JudgeChunks` is the sequential part: the
bounds of the chunks (`start` is where the next one begins, the variable the
generator of the code keeps), the repair of an answer that has too few or too many
judgements or unknown milestones, and the state carried over.

### ToolRollout, ChatScheduler

`ToolRollout` has one coroutine per request (`pc`), switching at its awaits
only: `Create`, `CallEngine`, then `EngineStops` or `EngineCallsTools`, then
`HearTools` or `HearUntilFull`, finally `Finalize`.  The threads of the tools'
pools (`Take`, `Return`) and those of the limiter (`Acquire`, `Release`) run at
any time; acquire has one thread, so its first caller blocks the rest.  The release
is registered before the acquire (`search_tool.py:91-92`); an acquire that itself
fails, because the limiter's actor is dead, is not modelled: the release goes to
the same actor.  What
fails a batch is there: a tool the row was not offered (`EngineCallsOther`), a
sandbox call without a result (`ToolRaises`), no room for a token
(`EngineRefuses`).  `saved` and `sampling` are the two halves of
`update_sampling_params`.

`ChatScheduler` treats what precedes the await in `submit_chat_completions` as
one step (`Open`, `FollowUp`, `FollowUpRaises`) and the callback as another.
The weights are a sorted sequence, a heap of which only the first entry is
read; `Replaced` inserts the raised entry behind those that are now before it.
A request id is looked up by the entry that has it (`EntryOf`).  The calls of `wake_up` and `sleep` around it are commented out in the
training loop (`ray_trainer.py:1338-1343`) and not modelled.

## 3. Runs

| Run | Shows | Bounds |
|---|---|---|
| `ckpt_auto` | In `resume_mode=auto`: the types and the inductive invariant (`IInv`, of which `TypeOK` is a part); the tracker always names a complete checkpoint of one process (`TrackerNamesCoherent`) and never goes back (`TrackerMonotone`); a launch fails only on a torn tracker (`OnlyTornTrackerFails`); step and dataloader agree (`DataloaderInStep`); rotation keeps its limit (`KeepsAtMost`); a crash costs at most `save_freq` steps (`LosesAtMost`); every launch after the end adds at most one step (`OneStepPerLaunchPastTheEnd`); refinement of `ResumableTraining` (`ResumesAsPromised`); the job gets to its end (`Finishes`) | 2 ranks, actor (limit 2) and critic (no limit), saves at 2, 4 and the last step 5, 4 launches, 47 782 states |
| `ckpt_modes` | In all modes `RotationSparesTracker` | 2 ranks, actor, limit 2, 3 launches |
| `ckpt_torn` | violation of `AutoFindsOrStartsFromScratch` | as above |
| `rollout` | `RowsAddUpToEpisode` (steps, rewards, gains and success), refinement of `Episodes` (`PlaysIndependentEpisodes`) | 2 environments, 3 steps, scores 0 and 1 or none |
| `environments` | ALFWorld: `ExpertOfOwnGame`, `RowsDriveOwnWorker`, `PaddingIsCut`; SciWorld: `SolutionOfOwnTask`, `LoadsAlone`, `CommandsEnd` | 2 groups of 2 workers and an expert, 3 steps, 2 episodes; all SciWorld workers on one JVM, one of them may raise; about 471 000 states |
| `sampling` | `EnoughWholeGroups`, `QueryOfOwnGame` (plain training) | 2 groups of 2 rows, 3 tries, 2 kinds of tasks |
| `dynamic_align` | violation of `SourcesAligned` | 2 tries |
| `batch` | driver: `EvenAndComplete`, `ReturnsOfOwnStep`, `PhiSharedOut`, `RanksBalanced`; ranks: `RanksInStep`, `LogProbsOfOwnRow`, `MicroBatchesNearBudget`, `RowsWeighAlike` | 2 trajectories of up to 3 steps of length 3 or 7 with 1 or 2 response tokens of at most 3, divisor 8, 2 ranks, budget 9, micro-batches of 2 rows; about 361 000 states |
| `batch_phi` | violation of `PhiOfOwnStep` | the driver alone |
| `scoring` | calls: `RoundRobin` (judge), `DefaultNeedsManyFailures`, `PhisOfOwnQuery`, `EveryTrajectoryIsJudged`; chunks: `OnePhiPerStep`, `FailureKeepsProgress` | 3 queries (one without an expert) of 2 trajectories, 2 threads, 2 servers per stage of which any may be down, 2 retries, 1 glitch per stage; trajectories of up to 5 steps, chunk sizes -1 to 3, overlaps 0, 1, 5, 2 milestones and an unknown one; one task per stage may raise; about 714 000 states |
| `engines` | tools: `RateKept`, `InstancesFollowRequests`, `BatchEnds`; sessions: `SessionsStay`, `SessionsSpread` | 2 batches of 2 requests of up to 3 turns with up to 2 calls, 2 threads per tool, rate limit 1; 3 sessions of up to 3 requests, 2 servers, a cache of 2; about 366 000 states |
| `sampling_params` | violation of `ParamsFallBack` | the same |

Why these are enough to meet the cases that matter: two ranks make every
order of one slow and one fast rank; a period of two with five steps has a save
on the period, a save off it (the last step), a step without one and a rotation
(the third save of a process with limit 2); four launches allow crashes in two
different saves, a finished job launched again, and that job crashed and
launched once more.  Two rows are one that is over and one that is not; three
steps leave one between the last active and the last.  Two groups have a
neighbour to be confused with, three workers in a group make row and worker
index differ from row 2 on.  Eight workers may share a JVM, so all six do; the
worker that raises may be the first, the last or the expert, before or after
its neighbours have answered.  With a divisor of 8, two or three rows are too few
to copy from (a failure that `EvenAndComplete` bounds), four are all copied,
five and six partly; the driver of `batch_phi`, with a divisor of 6, also meets
the batch that needs no copy.  A budget of 9 tokens against rows of 3 and 7
makes ranks that need two, three or four micro-batches for their four rows, so
that they have to agree.  Responses of one and two tokens make a micro-batch of equals and one of
both.  A limit of one token makes every two calls compete, and the first
caller of acquire blocks the second.  A cache of two entries for three sessions
evicts one.  Six calls of two threads on two
servers take the counter round three times, overtake each other, and leave
calls that fail at every attempt, at one, and at none.  Five steps in chunks of two or three have a remainder.

The bounds by name: `MaxStep` (never reached: `TotalSteps` plus one step per
further launch), `MaxLives` (launches), `MaxEpisodes` (rollouts), `MaxFailures`
(workers that raise), `MaxGlitches`, `MaxRaises` (tasks that raise, per stage),
`MaxSteps` of `JudgeChunks` (length of a
trajectory), `MaxBatches`, `MaxCalls` (tool calls of a message), `MaxRequests`
(of a session), `MaxRestarts` (servers that do not come up).  `ResponseLength` is no bound but
the length to which the program pads responses.  The
ranks are symmetric in the safety runs that use symmetry; `ckpt_auto` has none, as
it checks liveness.

### Fairness

`Checkpoint!Fairness`: the driver and each rank run on (weak fairness of their
steps; a rank in a barrier waits for the others and is not enabled), and
somebody launches the job again when it is down (`WF_vars(Launch)`).  The last
permitted launch is not crashed: with crashes for ever nothing is promised.
`MilestonePipeline!Fairness`: each thread goes on, because a request returns or
times out (the OpenAI client has a default timeout), and the driver, which only
waits for the pools, goes on when they are done.
`SciWorldEnvs!SciFairness`: processes run and the parent keeps receiving; it is
free to send or not, and no worker has to raise.  `ToolRollout!ToolFairness`:
the event loop and Ray's threads run, engine and tool calls return or time out
(`timeout` of the tools, the engine's length limit).  No new batch has to
start.  No other specification assumes fairness.  In a composition the fairness
of the component that is not selected demands nothing: none of the actions it
names is enabled in the initial state, in which that component stays.

## 4. Deviations

What the models show the code does otherwise than its documentation says.  The
first four have a run; the others were read off the source while modelling.

1. `ckpt_torn`.  `_save_checkpoint` opens the tracker with mode `"w"`
   (`ray_trainer.py:1203`).  A crash before the number is in it leaves an empty
   file; `int("")` then raises in every later launch, while
   `ppo_trainer.yaml:330` says "auto: find the last ckpt to resume. If can't
   find, start from scratch".
2. `dynamic_align`.  `rollout_loop.py:582` cuts tasks and expert trajectories
   to the first `len(batch_list)` entries although `filter_group_data` drops
   groups anywhere; the "Source alignment assertions" compare lengths only.
3. `batch_phi`.  `compute_milestone_gae_from_batch` takes the n-th row of a
   trajectory for its n-th step, after `_balance_batch` has permuted them
   (`balance_batch: True` by default).
4. `sampling_params`.  `update_sampling_params` (`sglang_rollout.py:388-414`)
   promises that "Parameters are automatically fall back to their original
   values upon exiting the block".  The block contains the await of the engine,
   and all coroutines of a batch share `self.sampling_params`: B enters while A
   is inside and saves A's values; A leaves and restores the original; B leaves
   and puts A's values back.  After a validation its temperature, `top_p` and
   `top_k` stay in place, and training, which overrides only `n` and
   `max_new_tokens`, samples with them.
5. `envs.py:146` says the lock of a JVM is there "to prevent
   concurrent access to Scala singletons".  It covers `load` and `reset`; the
   queries after them (`envs.py:171-178`) and those of a starting worker
   (`envs.py:46-66`) call the JVM without it, while a neighbour may be loading.
   Whether they touch the singletons is ScienceWorld's business, which is
   external.  The model has the behaviours (`Connect` and `Query` beside
   `"load"`); no property excludes them.  What the lock and the parent do keep apart is `LoadsAlone`: loads
   from each other, and from steps.
6. `recipe/dapo/README.md:129` says `token-mean` is the loss
   "across all the tokens in all the sequences in a mini-batch"; `update_policy`
   takes it over each micro-batch (`core_algos.py:410`) and scales micro-batches
   by their rows or equally (`dp_actor.py:428-432`).  A token among short
   responses weighs more than one among long ones; `RowsWeighAlike` has the
   bounds.  `seq-mean-token-sum-norm` divides by no number of rows, so with
   `use_dynamic_bsz` the rows of larger micro-batches weigh more.
7. `generator.py:108` says of `_call_index` that it is for
   round-robin load balancing ("用于轮询负载均衡").  The generator reads and
   increments it without the lock the judge has (`generator.py:200`): two threads
   may pick one server, and increments may get lost.  `RoundRobin` is about the
   judge; the generator's turns are in the model (`Pick`, `LoadIndex`,
   `StoreIndex`), its queries are answered all the same
   (`DefaultNeedsManyFailures`).
8. With `max_*_ckpt_to_keep=1` the only checkpoint is removed before the next
   one is written (`fsdp_checkpoint_manager.py:154-157`); a crash in between
   leaves nothing to resume from.  The theorems assume `KeepsTwo` for this reason.
9. The list of saved paths is not persisted: checkpoints of a former process
   are never removed.  `KeepsAtMost` counts those of the running process.
10. A resume from an earlier step (`resume_path`) or from scratch (`disable`)
    saves over directories the tracker names; a crash leaves the tracker naming a
    mixture.  `TrackerNamesCoherent` is checked and proved for `auto`.
11. A finished job that is launched again trains one more step
    (`OneStepPerLaunchPastTheEnd` has the exact bound).
12. In validation rows are not repeated but `uid`s still group `n` rows, of
    different games (`rollout_loop.py:337`), so a query has the task of the first.
13. `rollout_loop.py:587` looks up the keys of the first try in every try, and
    `filter_group_data` drops keys of kinds that do not cover the batch: the
    sampling may end in a `KeyError` (`phase = "failed"`).
14. The rollout ends with its policy rows; the expert may not have won by then
    and is still shown as the "Expert Successful Trajectory"
    (`generator.py:45`).  The truncation cuts an unfinished expert that repeats
    an action.
15. `adjust_batch` copies rows where its comment (`utils.py:99`) says it deletes
    the last ones; a copy of an earlier step then comes last in its trajectory
    and takes the episode reward (`core_milestone_gae.py:251`).
16. `rearrange_micro_batches` documents `max_token_len` as "max sum of
    attention_mask per micro-batch" (`seqlen_balancing.py:235`); it fixes only the
    number of micro-batches, and a part may exceed the budget by less than its
    longest row (`MicroBatchesNearBudget`).
17. `submit_chat_completions` sends "to the server with the least number of
    requests" (`async_server.py:142`); the weights count sessions ever started
    and never go down.
18. A follow-up whose id was evicted raises `KeyError` before the request is
    sent (`async_server.py:174`): its callback is never called.
19. One request that raises fails the whole batch: a tool the row was not
    offered (`sglang_rollout.py:647`), a sandbox call that raised, whose `None`
    has no `strip` (`sandbox_fusion_tools.py:163`), or a dialogue so close to
    `max_model_len` that `max_new_tokens` is negative (`sglang_rollout.py:755`).
20. The search and the sandbox pool get one limiter by its name
    (`search_tool.py:81`): the limit of the first to be created holds for both.
    The sandbox with `enable_global_rate_limit=False` calls a method of `None`.
21. A SciWorld process that is killed, rather than raises, while it holds the
    lock of its JVM keeps it for ever.
22. `SciWorldMultiProcessEnv.close` sends to workers in turn; a dead one makes
    it raise, the workers after it are not told and `_closed` is not set.
23. A gold path that repeats an action three times is cut there as padding.

## 5. Proofs

The theorems hold for every value of the constants that the `ASSUME`s of the
modules admit: any number of ranks, workers, threads, servers, sessions, rows,
steps, retries and crashes.  "H" marks the two hypotheses `AutoOnly` (resume
mode `auto`, the default) and `KeepsTwo` (no limit of exactly 1); they exclude
deviations 8 and 10, under which the properties are false.

| Module | Theorem | Property | Hypotheses |
|---|---|---|---|
| `CheckpointProofs` | `TypeCorrect` | `TypeOK` | |
| | `IInvHolds` | `IInv` | H |
| | `TrackerSafe` | `TrackerNamesCoherent` | H |
| | `OnlyTornFails` | `OnlyTornTrackerFails` | H |
| | `BatchesInStep` | `DataloaderInStep` | H |
| | `TrackerGoesForward` | `TrackerMonotone` | H |
| | `Refinement` | `ResumesAsPromised` | H |
| | `EndIsPassedOncePerLaunch` | `OneStepPerLaunchPastTheEnd` | H |
| | `CrashCostsAPeriod` | `LosesAtMost` | H |
| | `TrackerSurvivesRotation` | `RotationSparesTracker` | `KeepsTwo` |
| | `RotationKeepsTheLimit` | `KeepsAtMost` | |
| `AgentLoopProofs` | `EpisodesAreIndependent` | `PlaysIndependentEpisodes` | |
| | `TrainingSeesTheEpisodes` | `RowsCarryEpisode`, at the end | |
| | `RowsAddUp` | `RowsAddUpToEpisode` | |
| `RankBatchesProofs` | `Partitions` | (about `BalancedPartitions`) | |
| | `BatchInvariant` | `BatchInv` (inductive) | |
| | `BatchEvenAndComplete` | `EvenAndComplete` | |
| | `BatchReturns` | `ReturnsOfOwnStep` | |
| | `BatchPhi` | `PhiSharedOut` | |
| | `RanksStayBalanced` | `RanksBalanced` | |
| | `RankInvariant` | `RankInv` (inductive) | |
| | `LogProbsStayWithRows` | `LogProbsOfOwnRow` | |
| | `RanksStayInStep` | `RanksInStep` | |
| | `RowsStayAlike` | `RowsWeighAlike` | |
| | `WorkStaysNearBudget` | `MicroBatchesNearBudget` | |
| `EnvironmentsProofs` | `PolicyIndicesAreTheNonExperts` | (about the definitions) | |
| | `RowsReachTheirWorkers` | `RowsDriveOwnWorker` | |
| | `ExpertsPlayTheGameOfTheirRows` | `ExpertOfOwnGame` | |
| | `TruncationSparesTheSolution` | `PaddingIsCut` | |
| | `LoadsDoNotMeet` | `LoadsAlone` | |
| | `SolutionsAreOfTheRowsTask` | `SolutionOfOwnTask` | |
| `MultiTurnLoopProofs` | `DynamicSamplingSuffices` | `EnoughWholeGroups` | |
| | `QueriesMatchTheirGames` | `QueryOfOwnGame` | |
| `MilestoneScoringProofs` | `JudgeServersShareTheCalls` | `RoundRobin` | |
| | `DefaultIsEarned` | `DefaultNeedsManyFailures` | |
| | `PhisBelongToTheirQuery` | `PhisOfOwnQuery` | |
| | `EveryStepGetsItsPhi` | `OnePhiPerStep` | |
| | `ProgressSurvivesFailures` | `FailureKeepsProgress` | |
| `EnginesProofs` | `RateIsKept` | `RateKept` | |
| | `InstancesAreFollowed` | `InstancesFollowRequests` | |
| | `SessionsKeepTheirServer` | `SessionsStay` | |
| | `SessionsAreSpread` | `SessionsSpread` | |

Hardly any of these properties is inductive.  What each needs, and why:

*Checkpoint.*  Nothing in `TrackerNamesCoherent` keeps a rank from removing or
overwriting what the tracker names.  `IInv` adds that the
step being saved is above the tracker (`UpInv`), so no file of the tracker's
checkpoint is opened; that the saved paths of a role increase and, until the role
has been saved in this round, end at or below the tracker (`PathsInv`), so that a
rotation with a limit of at least two, which keeps the last path, removes only
older steps (lemma `RotationRemovesOlder`); and what has been written so far in
the current save (`ProgressInv`), from which the new checkpoint is coherent when
the tracker is rewritten.  `LaunchOutcome` says what a launch can find under the
invariant and serves both the invariant and the refinement.  Rotation is also
right without `AutoOnly`: `KeepInv` has every shard of the running process in
its role's list, and the list within the limit; `SparesInv` has the newest path
equal to the step being saved or the one the tracker names.  `DueInv` and
`EndInv` bound the distance of the job from the record and from the end.

*AgentLoop.*  An environment's episode is its length, its reward, whether the
last active row was a win, and `is_done`.  For a masked step to be a stutter of
its episode, `EpisodeInv` says that the active rows are the first ones, as many
as the episode is long, and that its reward is that of a win at the last of
them.  For the sums of `RowsAddUpToEpisode`, `GainInv` says that each active row
starts from the score the row before it led to, that its gain is the difference
of its two scores, that `prevScore` is the score after the last, and that no
row but the last is rewarded.  The library's sum over a set is a fold that takes
members out in an order nobody knows; `DifferencesAdd` shows that it is the
difference of two counts of units, whatever the order (of the sets it would be
wrong for, take one of the fewest members), and `Telescope` that the counts
differ by the last score less the first.

*SeqlenBalancing, TrainingBatch, RankBatches.*  A sum of lengths is a `Total`,
the number of units of length; so sums are added, moved and compared as
cardinalities are, without induction.  Of Karmarkar-Karp, `Heap` is the loop
invariant: the States of the heap share no row, together they have all rows,
and each is level (`State`): with `equal_size` its sets have equally many rows
and sums that differ by no more than the longest and the shortest row; without
it no set exceeds another by more than one of its own rows, and none is empty
while another has two rows.  Merging the largest set of one State with the
smallest of the other keeps that.  `Popped` is a State of the heap because the
first rows of the largest sets of two States differ, so that the heap's order
is strict.  `Partitions` follows: every row in one part, no part empty, with
which the assertions of `_check_and_sort_partitions` never fail.

`BatchInv` follows the driver's batch: every step of every trajectory once, at
most once more as a copy, in time order until it is balanced.  `PhiSharedOut`
and `EvenAndComplete` need the order, as both estimator and copying count rows.
`RankInv` says that what the ranks have yet to do are the last micro-batches of
a plan they cut together (`Remaining`), that the results so far are those of
the first rows of the index map (`Forwarded`), and that a row has its weight in
the update if and only if its micro-batch is over (`Weighed`).  That the weights
are alike (`Alike`) is a fact about each micro-batch alone: its response tokens
are at least as many as its rows times the shortest response and at most as many
as its rows times the longest (`MaskBounds`: the mask lies between two
rectangles), and without dynamic micro-batches no micro-batch is short, because
the divisor of the batch is a multiple of all sizes.  `RowsWeighAlike` claims no
more for `token-mean`, since no more is true (deviation 6).  From `Flattened`
(where each place of the lists is in their concatenation) `ReverseIdx` brings
every result back to its row; from `ceildiv` and the level parts, no
micro-batch exceeds the budget by its longest row (`PartsNearBudget`).
`BatchInv`, `RankInv` and `GainInv` were checked by TLC on the instances of
`batch` and `rollout` before they were proved.

*Environments.*  Two facts of arithmetic carry the proofs about ALFWorld: the
j-th policy row drives worker j + j div N, and the expert of a group is the
worker after its N rows (from `NumberLemmas`).  The invariant has the
expert's trajectory: a step of its own game at a time and, once it has won, its
last proposal again and again (`TrailInv`).  For SciWorld it says what may stand
in the two pipes of a worker in each of its states, and that the parent has
received the answers of the first workers and is owed those of the rest
(`DutyOf`); that only one kind of command is under way, also when a worker has
raised and the parent does not wait any more (`OneKind`); that who loads holds
the lock of its JVM (`LockInv`), which with the one kind of command gives
`LoadsAlone`, and nothing about starting workers and queries (deviation 5); that the lock-step random streams have drawn
equally often (`DrawsInv`); and that an expert's record is its gold path with
nothing but digits left out (`GoldInv`).

*MultiTurnLoop.*  `WholeGroups` (rows in blocks of N with their own uid that
vary) survives concatenation, which takes it through the loop over the groups
and the loop of tries.  The first is a recursive function; what holds after its
i-th turn is proved by the smallest i for which it would not.

*Milestones.*  `PipeInv`: threads work on different tasks taken from the queue
(`WorkInv`); before the counter's place in the round every server has been picked
once more than behind it (`TurnInv`); failed attempts add up to servers that are
down and glitches (`AskedInv`); a query has an answer in the list if and only if
a server has answered for it (`OwnInv`), so that what `Filled` makes generic is what
nobody answered.  `ChunkInv` has the start of the next chunk in
closed form, from which the chunks overlap as configured and end with the
trajectory.

*Engines.*  `ToolInv`: tokens in the bucket, held and on their way back add up
(`TokenInv`), which needs that the limiter's queue names a waiting call once and
none that has gone (`AcquireInv`); instances are those of the requests under way
(`CreatedInv`).  `ChatInv`: every session in the cache counts the sessions behind
it among those active since its own latest request (`ListInv`), so that at its
eviction it has been overtaken by as many as the cache holds; the heap is a
sorted permutation of the servers, weights are the numbers of sessions and none
exceeds the first by more than one (`HeapInv`), which the insertion of the raised
entry behind those before it keeps.

Model-checked only:

- liveness (`Finishes`, `EveryTrajectoryIsJudged`, `CommandsEnd`, `BatchEnds`):
  the provers have neither fairness nor ENABLED;
- that `PolicyIndices`, in closed form, is the list the code's loop builds (an
  assumption `MCEnvironments` evaluates).

## 6. Plan

Done: checkpoints, rollout, environments with experts (ALFWorld and SciWorld),
sampling, the batch from the driver to the ranks, milestone generation and
judging, tool-calling requests, the chat scheduler; every invariant and every
action property and refinement the passing runs check is a theorem (section 5).

Modelling stops here for these reasons.  What is left of the training path is
real arithmetic (losses, advantages), tensor code without control (hybrid
reward, sharding), the inside of external engines and simulators, or a variant
with the structure of something modelled (critic and reference passes cut
their batches as the actor does; the discriminator calls a pool as the judge
does; the Megatron workers serve the same driver).

What would come next needs another prover: the four liveness properties, with
the fairness of section 3.
