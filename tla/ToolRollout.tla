---------------------------- MODULE ToolRollout ----------------------------
(***************************************************************************)
(* SGLangRollout with multi_turn.enable: a batch of requests, each a       *)
(* coroutine that alternates between the engine and tool calls, on one     *)
(* event loop (_req_level_generate_sequences, _async_rollout_a_request).   *)
(* The tools are SearchTool and SandboxFusionTool: a call is executed by a *)
(* thread of the tool's pool, under a token of the rate limiter, an actor  *)
(* both pools get by the same name.                                        *)
(*                                                                         *)
(* Coroutines interleave at their awaits only; pool threads and the        *)
(* limiter's threads run at any time.                                      *)
(*                                                                         *)
(* Abstractions: a message is the list of its tool calls.  The length of a *)
(* request is how much room it leaves: "free"; "tight", when the next      *)
(* generation prompt alone would exceed max_model_len; "full".  Of the     *)
(* sampling parameters the model keeps those a validation overrides.       *)
(***************************************************************************)
EXTENDS Integers, FiniteSets, SequencesExt

CONSTANTS
  NumPrompts,  \* prompts of a batch
  GroupSize,   \* config.n, in training; 1 in validation
  Offered,     \* Offered[p]: the tools in tools_kwargs of prompt p
  MaxTurns,    \* config.multi_turn.max_turns
  MaxCalls,    \* bound: tool calls in one message
  NumThreads,  \* num_workers of a tool's pool
  RateLimit,   \* rate_limit
  MaxBatches   \* bound: batches in one behaviour

Tools == {"search", "code"}

ASSUME OfferedAssumption == Offered \in [1..NumPrompts -> SUBSET Tools]
ASSUME LimitsAssumption ==
  /\ NumPrompts \in Nat /\ MaxCalls \in Nat /\ MaxBatches \in Nat
  /\ GroupSize \in Nat \ {0} /\ MaxTurns \in Nat \ {0}
  /\ NumThreads \in Nat \ {0} /\ RateLimit \in Nat \ {0}

VARIABLES
  batch,      \* batches started
  kind,       \* "train", "validate"; "none" between batches; "raised"
  pc,         \* pc[r]: what coroutine r does next, or waits for
  turns,      \* current_turns
  calls,      \* calls[r]: the tool calls of its last assistant message
  progress,   \* progress[r][i]: how far the pool is with call i
  room,       \* room[r]: what its length leaves of max_model_len
  sampling,   \* self.sampling_params: "configured" or "validation"
  saved,      \* saved[r]: old_sampling_params_args
  instances,  \* instances[t]: _instance_dict of tool t
  tokens,     \* what the limiter's semaphore holds
  acquiring,  \* acquire tasks in the limiter's acquire group
  releasing   \* release tasks submitted and not yet executed

limiter  == <<tokens, acquiring, releasing>>
toolVars == <<batch, kind, pc, turns, calls, progress, room, sampling,
              saved, instances, limiter>>

\* A request: the prompt and which of its samples it is.
AllReqs     == (1..NumPrompts) \X (1..GroupSize)
Reqs        == IF kind = "train" THEN AllReqs ELSE (1..NumPrompts) \X {1}
ToolsOf(r)  == Offered[r[1]]
CallsOf(r)  == DOMAIN calls[r]
Goto(r, l)  == pc' = [pc EXCEPT ![r] = l]

Messages ==
  UNION {[1..n -> Tools] : n \in 1..MaxCalls}

ToolInit ==
  /\ batch = 0
  /\ kind = "none"
  /\ pc = [r \in AllReqs |-> "done"]
  /\ turns = [r \in AllReqs |-> 0]
  /\ calls = [r \in AllReqs |-> << >>]
  /\ progress = [r \in AllReqs |-> << >>]
  /\ room = [r \in AllReqs |-> "free"]
  /\ sampling = "configured"
  /\ saved = [r \in AllReqs |-> "configured"]
  /\ instances = [t \in Tools |-> {}]
  /\ tokens = RateLimit
  /\ acquiring = << >>
  /\ releasing = 0

-----------------------------------------------------------------------------
(* The batch.                                                              *)

\* _preprocess_prompt_to_async_rollout_requests, then gather.
StartBatch ==
  /\ kind = "none"
  /\ batch < MaxBatches
  /\ batch' = batch + 1
  /\ kind' \in {"train", "validate"}
  /\ pc' = [r \in AllReqs |->
              IF kind' = "train" \/ r[2] = 1 THEN "pending" ELSE "done"]
  /\ UNCHANGED <<turns, calls, progress, room, sampling, saved,
                 instances, limiter>>

\* All coroutines have returned.
ReturnBatch ==
  /\ kind \in {"train", "validate"}
  /\ \A r \in Reqs : pc[r] = "done"
  /\ kind' = "none"
  /\ UNCHANGED <<batch, pc, turns, calls, progress, room, sampling,
                 saved, instances, limiter>>

\* One coroutine raises, gather raises, and so does generate_sequences.
Raise ==
  /\ kind' = "raised"
  /\ UNCHANGED <<batch, pc, turns, calls, progress, room, instances,
                 limiter>>

-----------------------------------------------------------------------------
(* A coroutine.                                                            *)

\* _handle_pending_state: create an instance of every tool it is offered.
Create(r) ==
  /\ pc[r] = "pending"
  /\ instances' = [t \in Tools |->
                     instances[t] \cup (IF t \in ToolsOf(r) THEN {r} ELSE {})]
  /\ Goto(r, "running")
  /\ UNCHANGED <<batch, kind, turns, calls, progress, room, sampling,
                 saved, limiter>>

\* _handle_engine_call up to the await: update_sampling_params is entered.
\* Only a validation has parameters of its own here.
CallEngine(r) ==
  /\ pc[r] = "running"
  /\ room[r] = "free"
  /\ Goto(r, "engine")
  /\ saved' = [saved EXCEPT ![r] = sampling]
  /\ sampling' = IF kind = "validate" THEN "validation" ELSE sampling
  /\ UNCHANGED <<batch, kind, turns, calls, progress, room, instances,
                 limiter>>

\* A negative max_new_tokens: the engine refuses, the parameters fall back.
EngineRefuses(r) ==
  /\ pc[r] = "running"
  /\ room[r] = "tight"
  /\ Raise
  /\ UNCHANGED <<sampling, saved>>

\* Leaving update_sampling_params.
Restore(r) ==
  /\ sampling' = IF kind = "validate" THEN saved[r] ELSE sampling
  /\ saved' = [saved EXCEPT ![r] = "configured"]

\* The engine's output ends the dialogue: length, stop, or a tool call that
\* cannot be parsed.
EngineStops(r) ==
  /\ pc[r] = "engine"
  /\ Restore(r)
  /\ turns' = [turns EXCEPT ![r] = @ + 1]
  /\ calls' = [calls EXCEPT ![r] = << >>]
  /\ Goto(r, "ending")
  /\ UNCHANGED <<batch, kind, progress, room, instances, limiter>>

\* It asks for tools, which are executed if a turn is left for their answers.
EngineCallsTools(r) ==
  /\ pc[r] = "engine"
  /\ \E message \in Messages :
       /\ turns[r] + 1 < MaxTurns => Range(message) \subseteq ToolsOf(r)
       /\ calls' = [calls EXCEPT ![r] = message]
       /\ progress' = [progress EXCEPT ![r] = [i \in DOMAIN message |-> "queued"]]
  /\ Restore(r)
  /\ turns' = [turns EXCEPT ![r] = @ + 1]
  /\ Goto(r, IF turns[r] + 1 < MaxTurns THEN "tools" ELSE "ending")
  /\ UNCHANGED <<batch, kind, room, instances, limiter>>

\* It asks for a tool the row does not have: KeyError in tools_kwargs.
EngineCallsOther(r) ==
  /\ pc[r] = "engine"
  /\ turns[r] + 1 < MaxTurns
  /\ ToolsOf(r) # Tools
  /\ Restore(r)
  /\ Raise

\* SandboxFusionTool.execute: None.strip().  SearchTool turns the same None
\* into an error message.
ToolRaises(r) ==
  /\ pc[r] = "tools"
  /\ \E i \in CallsOf(r) : calls[r][i] = "code" /\ progress[r][i] = "none"
  /\ Raise
  /\ UNCHANGED <<sampling, saved>>

\* gather returns when every call has a result that is not an exception.
AllAnswered(r) ==
  \A i \in CallsOf(r) : \/ progress[r][i] = "text"
                        \/ progress[r][i] = "none" /\ calls[r][i] = "search"

\* add_tool_response_message for every result: room for all of them.
HearTools(r) ==
  /\ pc[r] = "tools"
  /\ AllAnswered(r)
  /\ room' \in {[room EXCEPT ![r] = size] : size \in {"free", "tight"}}
  /\ progress' = [progress EXCEPT ![r] = << >>]
  /\ Goto(r, "running")
  /\ UNCHANGED <<batch, kind, turns, calls, sampling, saved, instances,
                 limiter>>

\* max_model_len is reached at one of them: the others are dropped, and the
\* dialogue ends.
HearUntilFull(r) ==
  /\ pc[r] = "tools"
  /\ AllAnswered(r)
  /\ room' = [room EXCEPT ![r] = "full"]
  /\ progress' = [progress EXCEPT ![r] = << >>]
  /\ Goto(r, "ending")
  /\ UNCHANGED <<batch, kind, turns, calls, sampling, saved, instances,
                 limiter>>

\* Mutant: only the tools of the last message are released.
ToolsCalled(r) == Range(calls[r])

ToolsToRelease(r) == ToolsOf(r)

\* calc_reward and release of every tool, and finalize; the coroutine returns.
Finalize(r) ==
  /\ pc[r] = "ending"
  /\ instances' = [t \in Tools |->
                     instances[t] \ (IF t \in ToolsToRelease(r) THEN {r} ELSE {})]
  /\ Goto(r, "done")
  /\ turns' = [turns EXCEPT ![r] = 0]
  /\ calls' = [calls EXCEPT ![r] = << >>]
  /\ progress' = [progress EXCEPT ![r] = << >>]
  /\ room' = [room EXCEPT ![r] = "free"]
  /\ UNCHANGED <<batch, kind, sampling, saved, limiter>>

Coroutine(r) ==
  \/ Create(r)
  \/ CallEngine(r) \/ EngineRefuses(r)
  \/ EngineStops(r) \/ EngineCallsTools(r) \/ EngineCallsOther(r)
  \/ ToolRaises(r) \/ HearTools(r) \/ HearUntilFull(r)
  \/ Finalize(r)

-----------------------------------------------------------------------------
(* The threads of the tools' pools: SearchExecutionWorker.execute.         *)

Progress(r, i, l) == progress' = [progress EXCEPT ![r][i] = l]

\* The threads of a tool's pool that are at work.
Busy(t) ==
  {c \in AllReqs \X (1..MaxCalls) :
     /\ c[2] \in CallsOf(c[1])
     /\ pc[c[1]] = "tools"
     /\ calls[c[1]][c[2]] = t
     /\ progress[c[1]][c[2]] \in {"acquire", "execute"}}

Executing ==
  {c \in AllReqs \X (1..MaxCalls) :
     /\ c[2] \in CallsOf(c[1])
     /\ pc[c[1]] = "tools"
     /\ progress[c[1]][c[2]] = "execute"}

\* SearchTool.execute answers a call without a query_list itself.
Refuse(r, i) ==
  /\ progress[r][i] = "queued" /\ calls[r][i] = "search"
  /\ Progress(r, i, "text")
  /\ UNCHANGED limiter

\* A free thread takes a call; it is blocked in ray.get until acquire returns.
Take(r, i) ==
  /\ progress[r][i] = "queued"
  /\ Cardinality(Busy(calls[r][i])) < NumThreads
  /\ Progress(r, i, "acquire")
  /\ acquiring' = Append(acquiring, <<r, i>>)
  /\ UNCHANGED <<tokens, releasing>>

\* fn returns or raises; either way the stack's callback submits a release.
Return(r, i) ==
  /\ progress[r][i] = "execute"
  /\ \E result \in {"text", "none"} : Progress(r, i, result)
  /\ releasing' = releasing + 1
  /\ UNCHANGED <<tokens, acquiring>>

Thread(r, i) ==
  /\ pc[r] = "tools"
  /\ i \in CallsOf(r)
  /\ Refuse(r, i) \/ Take(r, i) \/ Return(r, i)
  /\ UNCHANGED <<batch, kind, pc, turns, calls, room, sampling, saved,
                 instances>>

-----------------------------------------------------------------------------
(* TokenBucketWorker: one thread for acquire, others for release.          *)

\* Mutants: acquire does not wait; both methods share the one thread.
AcquireAtOnce == acquiring # << >>

CanAcquire == acquiring # << >> /\ tokens > 0

Acquire ==
  /\ CanAcquire
  /\ tokens' = tokens - 1
  /\ acquiring' = Tail(acquiring)
  /\ LET c == Head(acquiring) IN Progress(c[1], c[2], "execute")
  /\ UNCHANGED <<batch, kind, pc, turns, calls, room, sampling, saved,
                 instances, releasing>>

ReleaseAfterAcquires == releasing > 0 /\ acquiring = << >>

CanRelease == releasing > 0

Release ==
  /\ CanRelease
  /\ tokens' = tokens + 1
  /\ releasing' = releasing - 1
  /\ UNCHANGED <<batch, kind, pc, turns, calls, progress, room,
                 sampling, saved, instances, acquiring>>

-----------------------------------------------------------------------------
Running == kind \in {"train", "validate"}

ToolOver ==
  /\ kind = "raised" \/ (kind = "none" /\ batch = MaxBatches)
  /\ UNCHANGED toolVars

ToolNext ==
  \/ StartBatch
  \/ Running /\ \E r \in Reqs : Coroutine(r)
  \/ Running /\ \E r \in Reqs, i \in 1..MaxCalls : Thread(r, i)
  \/ kind # "raised" /\ (Acquire \/ Release)
  \/ ReturnBatch
  \/ ToolOver

\* The engine answers, retrievals and sandbox calls return or time out, Ray's
\* threads and the event loop run.
ToolFairness ==
  /\ \A r \in AllReqs :
       /\ WF_toolVars(Running /\ r \in Reqs /\ Coroutine(r))
       /\ \A i \in 1..MaxCalls :
            WF_toolVars(Running /\ r \in Reqs /\ Thread(r, i))
  /\ WF_toolVars(kind # "raised" /\ Acquire)
  /\ WF_toolVars(kind # "raised" /\ Release)
  /\ WF_toolVars(ReturnBatch)

-----------------------------------------------------------------------------
\* However calls of both tools overlap, and whether they return or raise, at
\* most rate_limit of them are executed at a time, and no token is lost or
\* made: one is held, on its way back, or in the bucket.
RateKept ==
  /\ Cardinality(Executing) <= RateLimit
  /\ tokens + releasing + Cardinality(Executing) = RateLimit

\* A call finds the instance that was created for its request, until it is
\* done; a batch that returns leaves no instance behind.
InstancesFollowRequests ==
  /\ \A c \in Executing : c[1] \in instances[calls[c[1]][c[2]]]
  /\ kind = "none" => \A t \in Tools : instances[t] = {}

\* "Parameters are automatically fall back to their original values upon
\* exiting the block".  They do not: see the README, "Deviations".
ParamsFallBack == kind = "none" => sampling = "configured"

\* A batch returns or raises: no dialogue, pool thread or token is stuck.
BatchEnds == [](Running => <>~Running)
=============================================================================
