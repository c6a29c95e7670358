---------------------------- MODULE RankBatches ----------------------------
(***************************************************************************)
(* What the actor's ranks do with the batch: its dispatch to the ranks     *)
(* (DP_COMPUTE_PROTO), compute_log_prob and update_policy of               *)
(* DataParallelPPOActor with their micro-batches, and the collection of    *)
(* the log-probabilities into the driver's batch.                          *)
(*                                                                         *)
(* Every forward and backward pass of FSDP gathers parameters from all     *)
(* ranks, so a pass is one step of all ranks together, and a rank that has *)
(* a micro-batch more than another would wait for ever.                    *)
(*                                                                         *)
(* Abstractions: the log-probability of a row is the row; a gradient is    *)
(* the weight each row's tokens have in it, under every loss_agg_mode;     *)
(* ppo_epochs is 1, the default.                                           *)
(***************************************************************************)
EXTENDS TrainingBatch

CONSTANTS
  MaxTokenLen,  \* ppo_max_token_len_per_gpu, log_prob_max_token_len_per_gpu
  LogProbMicro, \* log_prob_micro_batch_size_per_gpu
  MiniBatch,    \* ppo_mini_batch_size, normalised to a rank
  MicroBatch,   \* ppo_micro_batch_size_per_gpu
  DynamicBsz,   \* values use_dynamic_bsz may have
  ResponseLength, \* the padded length of a response
  ResponseTokens  \* response tokens of step t of trajectory j, at <<j, t>>

ASSUME MicroBatchAssumption ==
  /\ MaxTokenLen \in Nat \ {0} /\ MiniBatch \in Nat \ {0}
  /\ LogProbMicro \in Nat \ {0} /\ MicroBatch \in Nat \ {0}
  /\ MiniBatch % MicroBatch = 0
  /\ Divisor % (LogProbMicro * World) = 0
  /\ Divisor % (MicroBatch * World) = 0
  /\ \A len \in RowLengths : len \in 1..MaxTokenLen
  /\ DynamicBsz \subseteq BOOLEAN
ASSUME ResponseAssumption ==
  /\ ResponseLength \in Nat \ {0}
  /\ ResponseTokens \in [(1..Trajs) \X (1..MaxLength) -> 1..ResponseLength]

VARIABLES
  dynamic,  \* use_dynamic_bsz
  stage,    \* "driver", "log_prob", "collected", "update", "updated"
  micro,    \* micro[r]: the micro-batches rank r has still to do
  indices,  \* indices[r]: the flattened index map of its micro-batches
  out,      \* out[r]: the results of its passes, concatenated
  logProb,  \* logProb[k]: the row whose old_log_probs row k was given
  minis,    \* mini-batches of the update begun so far
  weights   \* weights[k]: what its tokens weighed in gradients, over MiniBatch

rankVars == <<dynamic, stage, micro, indices, out, logProb, minis, weights>>

Ranks == 1..World

RankInit ==
  /\ Init
  /\ dynamic \in DynamicBsz
  /\ stage = "driver"
  /\ micro = [r \in Ranks |-> << >>]
  /\ indices = [r \in Ranks |-> << >>]
  /\ out = [r \in Ranks |-> << >>]
  /\ logProb = << >>
  /\ minis = 0
  /\ weights = << >>

-----------------------------------------------------------------------------
\* DataProto.chunk: consecutive rows, equally many for each rank.
ShardSize == Len(rows) \div World
Shard(r)  == SubSeq([k \in DOMAIN rows |-> k],
                    (r - 1) * ShardSize + 1, r * ShardSize)

Tokens(part) == [i \in DOMAIN part |-> rows[part[i]].tokens]

\* split(size): consecutive positions, the last part may be shorter.
Split(n, size) ==
  [b \in 1..((n + size - 1) \div size) |->
     [i \in 1..Min({size, n - (b - 1) * size}) |-> (b - 1) * size + i]]

\* Mutant: every rank keeps its own number.
OwnMicroBatches(parts, r) == NumMicroBatches(Tokens(parts[r]), MaxTokenLen)

\* dist.all_reduce(MAX): every rank makes as many as the neediest one.
AgreedMicroBatches(parts, r) ==
  Max({NumMicroBatches(Tokens(parts[s]), MaxTokenLen) : s \in Ranks})

\* The positions of each micro-batch of rank r in its part of the rows.
MicroBatches(parts, r, size) ==
  IF dynamic
  THEN BalancedPartitions(Tokens(parts[r]), AgreedMicroBatches(parts, r), FALSE)
  ELSE Split(Len(parts[r]), size)

\* compute_log_prob: the batch goes to the ranks, which cut their shards.
DispatchLogProb ==
  /\ phase = "balanced" /\ stage = "driver"
  /\ LET shards == [r \in Ranks |-> Shard(r)]
         cut    == [r \in Ranks |-> MicroBatches(shards, r, LogProbMicro)]
     IN /\ micro' = [r \in Ranks |->
                       [b \in DOMAIN cut[r] |->
                          [i \in DOMAIN cut[r][b] |-> shards[r][cut[r][b][i]]]]]
        /\ indices' = [r \in Ranks |-> FlattenSeq(cut[r])]
  /\ stage' = "log_prob"
  /\ UNCHANGED <<vars, dynamic, out, logProb, minis, weights>>

\* One forward pass of all ranks.
Forward ==
  /\ stage = "log_prob"
  /\ \A r \in Ranks : micro[r] # << >>
  /\ out' = [r \in Ranks |-> out[r] \o Head(micro[r])]
  /\ micro' = [r \in Ranks |-> Tail(micro[r])]
  /\ UNCHANGED <<vars, dynamic, stage, indices, logProb, minis, weights>>

\* Mutant: the index map is applied instead of its inverse.
RevertByTheMap(r) == [i \in DOMAIN out[r] |-> out[r][indices[r][i]]]

\* log_probs[revert_indices], for dynamic micro-batches only.
Reverted(r) ==
  IF dynamic
  THEN LET revert == ReverseIdx(indices[r])
       IN [i \in DOMAIN out[r] |-> out[r][revert[i]]]
  ELSE out[r]

\* The ranks' outputs are concatenated in the order of the ranks.
CollectLogProb ==
  /\ stage = "log_prob"
  /\ \A r \in Ranks : micro[r] = << >>
  /\ logProb' = FlattenSeq([r \in Ranks |-> Reverted(r)])
  /\ out' = [r \in Ranks |-> << >>]
  /\ indices' = [r \in Ranks |-> << >>]
  /\ stage' = "collected"
  /\ UNCHANGED <<vars, dynamic, micro, minis, weights>>

-----------------------------------------------------------------------------
\* The rows of rank r's b-th mini-batch, b > 0.
MiniRows(r, b) ==
  SubSeq(Shard(r), (b - 1) * MiniBatch + 1, Min({b * MiniBatch, ShardSize}))

NumMiniBatches == Len(Split(ShardSize, MiniBatch))

\* update_actor: after the advantages, the batch goes to the ranks again.
DispatchUpdate ==
  /\ phase = "done" /\ stage = "collected"
  /\ weights' = [k \in DOMAIN rows |-> << >>]
  /\ stage' = "update"
  /\ UNCHANGED <<vars, dynamic, micro, indices, out, logProb, minis>>

\* The next mini-batch of every rank is cut; zero_grad.
NextMiniBatch ==
  /\ stage = "update"
  /\ \A r \in Ranks : micro[r] = << >>
  /\ minis < NumMiniBatches
  /\ minis' = minis + 1
  /\ LET parts == [r \in Ranks |-> MiniRows(r, minis + 1)]
     IN micro' = [r \in Ranks |->
          LET cut == MicroBatches(parts, r, MicroBatch)
          IN [b \in DOMAIN cut |-> [i \in DOMAIN cut[b] |-> parts[r][cut[b][i]]]]]
  /\ UNCHANGED <<vars, dynamic, stage, indices, out, logProb, weights>>

LossAggModes == {"token-mean", "seq-mean-token-sum", "seq-mean-token-mean",
                 "seq-mean-token-sum-norm"}

Response(k) == ResponseTokens[<<rows[k].traj, rows[k].at>>]

\* Where the response_mask of a micro-batch is 1.
ResponseMask(batch) ==
  {u \in (DOMAIN batch) \X (1..ResponseLength) : u[2] <= Response(batch[u[1]])}

\* What agg_loss divides the loss of a token of row k by.
Divided(mode, batch, k) ==
  CASE mode = "token-mean"              -> Cardinality(ResponseMask(batch))
    [] mode = "seq-mean-token-sum"      -> Len(batch)
    [] mode = "seq-mean-token-mean"     -> Response(k) * Len(batch)
    [] mode = "seq-mean-token-sum-norm" -> ResponseLength

\* Mutant: every micro-batch counts the same.
WeightPerMicroBatch(batch, k) ==
  [mode \in LossAggModes |-> <<MicroBatch, Divided(mode, batch, k)>>]

\* What a token of row k weighs in the mini-batch's gradient, as a fraction of
\* 1 / MiniBatch: the loss of the micro-batch is multiplied by
\* len(data) / ppo_mini_batch_size or divided by gradient_accumulation.
RowWeight(batch, k) ==
  LET scale == IF dynamic THEN Len(batch) ELSE MicroBatch
  IN [mode \in LossAggModes |-> <<scale, Divided(mode, batch, k)>>]

\* One forward and backward pass of all ranks; the gradients add up.
Backward ==
  /\ stage = "update"
  /\ \A r \in Ranks : micro[r] # << >>
  /\ weights' = [k \in DOMAIN rows |->
       LET r == (k - 1) \div ShardSize + 1  \* the rank that has row k
       IN IF k \in ToSet(Head(micro[r]))
          THEN Append(weights[k], RowWeight(Head(micro[r]), k)) ELSE weights[k]]
  /\ micro' = [r \in Ranks |-> Tail(micro[r])]
  /\ UNCHANGED <<vars, dynamic, stage, indices, out, logProb, minis>>

\* The last mini-batch was the last optimizer step.
UpdateEnds ==
  /\ stage = "update"
  /\ \A r \in Ranks : micro[r] = << >>
  /\ minis = NumMiniBatches
  /\ stage' = "updated"
  /\ UNCHANGED <<vars, dynamic, micro, indices, out, logProb, minis, weights>>

Driver ==
  /\ \/ StepReturns
     \/ Adjust
     \/ Balance
     \/ stage = "collected" /\ MilestoneGAE
  /\ UNCHANGED rankVars

RankStep ==
  \/ DispatchLogProb
  \/ Forward
  \/ CollectLogProb
  \/ DispatchUpdate
  \/ NextMiniBatch
  \/ Backward
  \/ UpdateEnds

Ended == (phase = "failed" \/ stage = "updated") /\ UNCHANGED <<vars, rankVars>>

RankNext == Driver \/ RankStep \/ Ended

RankSpec == RankInit /\ [][RankNext]_<<vars, rankVars>>

-----------------------------------------------------------------------------
\* No pass of FSDP waits for a rank that has no micro-batch left: whatever
\* the lengths of their rows, all ranks do equally many passes.
RanksInStep == \A r, s \in Ranks : Len(micro[r]) = Len(micro[s])

\* Every row of the batch is given its own log-probabilities, whatever
\* micro-batches they were computed in.
LogProbsOfOwnRow ==
  stage \in {"collected", "update", "updated"} =>
    logProb = [k \in DOMAIN rows |-> k]

\* A micro-batch may be longer than the token budget, but by less than its
\* longest row (rearrange_micro_batches fixes the number of micro-batches
\* by the budget, not their contents); and no micro-batch is empty.
MicroBatchesNearBudget ==
  \A r \in Ranks : \A b \in DOMAIN micro[r] :
    LET lens == Tokens(micro[r][b])
    IN /\ lens # << >>
       /\ dynamic => SumOver(lens, [i \in DOMAIN lens |-> i])
                       < MaxTokenLen + Max(ToSet(lens))

\* Each row of the batch enters one gradient of the update.  Whatever
\* micro-batch it was in, its loss counts as one of MiniBatch in the modes
\* that average over rows, and under "seq-mean-token-sum-norm" without dynamic
\* micro-batches: adjust_batch left no short one.  Under "token-mean" a token
\* weighs no less than the reciprocal of the longest response, and no more
\* than that of the shortest.
RowsWeighAlike ==
  stage = "updated" => \A k \in DOMAIN rows :
    /\ Len(weights[k]) = 1
    /\ LET weight(mode)   == weights[k][1][mode][1]
           over(mode)     == weights[k][1][mode][2]
           responses      == {Response(j) : j \in DOMAIN rows}
       IN /\ weight("seq-mean-token-sum") = over("seq-mean-token-sum")
          /\ Response(k) * weight("seq-mean-token-mean")
               = over("seq-mean-token-mean")
          /\ ~dynamic => weight("seq-mean-token-sum-norm") = MicroBatch
          /\ over("token-mean") <= Max(responses) * weight("token-mean")
          /\ over("token-mean") >= Min(responses) * weight("token-mean")

\* balance_batch and the dispatch agree: the ranks' shards differ in tokens
\* by no more than the longest and the shortest row do.
RanksBalanced ==
  balance /\ phase = "balanced" =>
    LET load(r) == SumOver(RowTokens, Shard(r))
        lens    == {rows[k].tokens : k \in DOMAIN rows}
    IN \A r, s \in Ranks : load(r) - load(s) <= Max(lens) - Min(lens)
=============================================================================
