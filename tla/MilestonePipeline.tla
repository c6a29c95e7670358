------------------------- MODULE MilestonePipeline -------------------------
(***************************************************************************)
(* From the queries of a batch to the potentials of its trajectories: the  *)
(* Milestone GAE block of RayPPOTrainer.fit, with the thread pools of      *)
(* MilestoneGenerator.batch_generate and of the judging.                   *)
(*                                                                         *)
(* The generator asks an LLM for the milestones of every query; then the   *)
(* judge asks another for every trajectory, given the milestones of the    *)
(* trajectory's query.  In both stages the tasks are worked off by the     *)
(* threads of a pool.  A task takes the next server from a counter all     *)
(* threads share, asks it, and after a failure asks the next server, at    *)
(* most max_retries times; then it gets the default answer.  The judge     *)
(* takes the counter under a lock, the generator does not.  A task that    *)
(* raises before it asks leaves no result in the generator's list, which   *)
(* is then filled with the default, and zeros in the judge's.              *)
(*                                                                         *)
(* Abstractions: a trajectory is judged in one call (JudgeChunks has the   *)
(* chunks); an answer is the task it answers; one that cannot be parsed is *)
(* a failure like a refused connection.  Failures are servers that are     *)
(* down for a whole stage, single glitches, and prompts or phi maps that   *)
(* cannot be built.                                                        *)
(***************************************************************************)
EXTENDS Integers, FiniteSets

CONSTANTS
  Threads,     \* the threads of a pool
  NumQueries,  \* queries of the batch
  N,           \* trajectories of a query
  NumClients,  \* base_urls
  MaxRetries,  \* max_retries
  Unguided,    \* queries without an expert trajectory: never sent
  MaxGlitches, \* bound: single failures of servers that are up, per stage
  MaxRaises    \* bound: tasks that raise before they ask, per stage

ASSUME SizesAssumption ==
  /\ NumQueries \in Nat \ {0} /\ N \in Nat \ {0} /\ NumClients \in Nat \ {0}
  /\ MaxRetries \in Nat \ {0} /\ MaxGlitches \in Nat
  /\ MaxRaises \in Nat
ASSUME UnguidedAssumption == Unguided \subseteq 1..NumQueries

VARIABLES
  stage,      \* "generate", "judge", "done"
  down,       \* servers that are down
  glitches,   \* single failures of this stage so far
  raises,     \* tasks of this stage that raised
  next,       \* the next task of the pool's queue
  pc,         \* where a thread is: "idle", "pick", "bump", "store", "ask"
  task,       \* the task a thread works on
  client,     \* client_idx: the server a thread's task starts with
  attempt,    \* attempt: failures of that task so far
  loaded,     \* the counter as a thread read it to increment it
  callIndex,  \* self._call_index of this stage's service
  results,    \* results[i], judge_results[i]
  picks,      \* picks[c]: tasks of this stage that started with server c
  milestones, \* queries[uid].milestones: the query they were written for
  phis,       \* trajectories[traj_uid].phis: whose, by which milestones
  answered    \* history: the queries whose milestones a server has written

\* What does not change during a stage.
fixed == <<stage, down, milestones, phis>>
vars  == <<fixed, glitches, raises, next, pc, task, client, attempt, loaded,
           callIndex, results, picks, answered>>

Queries  == 1..NumQueries
Trajs    == 1..(NumQueries * N)
Clients  == 0..(NumClients - 1)

\* The foreign key of a trajectory: the uid of its query.
QueryOf(t) == (t - 1) \div N + 1

\* The tasks of a stage; those that are answered without a call.
Tasks   == IF stage = "generate" THEN Queries ELSE Trajs
Skipped == IF stage = "generate" THEN Unguided ELSE {}

\* _call_index_lock
Locked == stage = "judge"

Missing  == -1     \* None
Generic  == 0      \* the default milestones, the same for every query
NoResult == [got |-> "none", of |-> Missing]
NoPhis   == [got |-> "none", of |-> Missing, by |-> Missing]

\* In a later batch the counters start where the last one left them, which
\* only renames the servers.
Init ==
  /\ stage = "generate"
  /\ down \in SUBSET Clients
  /\ glitches = 0
  /\ raises = 0
  /\ next = 1
  /\ pc = [w \in Threads |-> "idle"]
  /\ task = [w \in Threads |-> 0]
  /\ client = [w \in Threads |-> 0]
  /\ attempt = [w \in Threads |-> 0]
  /\ loaded = [w \in Threads |-> 0]
  /\ callIndex = 0
  /\ results = [i \in Queries |-> NoResult]
  /\ picks = [c \in Clients |-> 0]
  /\ milestones = [q \in Queries |-> Missing]
  /\ phis = [t \in Trajs |-> NoPhis]
  /\ answered = {}

-----------------------------------------------------------------------------
(* A thread of a pool.                                                     *)

Goto(w, l) == pc' = [pc EXCEPT ![w] = l]

\* The thread takes the next task.
Take(w) ==
  /\ stage # "done"
  /\ pc[w] = "idle"
  /\ next \in Tasks \ Skipped
  /\ task' = [task EXCEPT ![w] = next]
  /\ next' = next + 1
  /\ attempt' = [attempt EXCEPT ![w] = 0]
  /\ Goto(w, "pick")
  /\ UNCHANGED <<fixed, glitches, raises, client, loaded, callIndex, results,
                 picks, answered>>

\* generate() without an expert trajectory: the default milestones, no call.
TakeUnguided(w) ==
  /\ stage # "done"
  /\ pc[w] = "idle"
  /\ next \in Skipped
  /\ results' = [results EXCEPT ![next] = [got |-> "default", of |-> next]]
  /\ next' = next + 1
  /\ UNCHANGED <<fixed, glitches, raises, pc, task, client, attempt, loaded,
                 callIndex, picks, answered>>

Counted(w) ==
  LET c == callIndex % NumClients
  IN /\ client' = [client EXCEPT ![w] = c]
     /\ picks' = [picks EXCEPT ![c] = @ + 1]

\* Mutant: the counter stands still.
NotBumped == callIndex

Bumped == callIndex + 1

\* _next_client_index: read and increment under the lock.
PickLocked(w) ==
  /\ Locked
  /\ pc[w] = "pick"
  /\ Counted(w)
  /\ callIndex' = Bumped
  /\ Goto(w, "ask")
  /\ UNCHANGED <<fixed, glitches, raises, next, task, attempt, loaded, results,
                 answered>>

\* The generator: three accesses, between any of which others may run.
Pick(w) ==
  /\ ~Locked
  /\ pc[w] = "pick"
  /\ Counted(w)
  /\ Goto(w, "bump")
  /\ UNCHANGED <<fixed, glitches, raises, next, task, attempt, loaded, callIndex,
                 results, answered>>

LoadIndex(w) ==
  /\ pc[w] = "bump"
  /\ loaded' = [loaded EXCEPT ![w] = callIndex]
  /\ Goto(w, "store")
  /\ UNCHANGED <<fixed, glitches, raises, next, task, client, attempt, callIndex,
                 results, picks, answered>>

StoreIndex(w) ==
  /\ pc[w] = "store"
  /\ callIndex' = loaded[w] + 1
  /\ Goto(w, "ask")
  /\ UNCHANGED <<fixed, glitches, raises, next, task, client, attempt, loaded,
                 results, picks, answered>>

\* Mutant: a retry asks the same server.
ServerAgain(w) == client[w]

\* current_client_idx: another server at every attempt.
Server(w) == (client[w] + attempt[w]) % NumClients

\* Mutant: the results are collected in the order in which the calls complete.
FinishInOrder(w, how) ==
  /\ results' = [results EXCEPT
       ![CHOOSE i \in Tasks : /\ results[i] = NoResult
                              /\ \A j \in 1..(i - 1) : results[j] # NoResult]
         = [got |-> how, of |-> task[w]]]
  /\ Goto(w, "idle")

\* The future of a task completes: its result is stored under its index.
Finish(w, how) ==
  /\ results' = [results EXCEPT ![task[w]] = [got |-> how, of |-> task[w]]]
  /\ Goto(w, "idle")

Answer(w) ==
  /\ pc[w] = "ask"
  /\ Server(w) \notin down
  /\ Finish(w, "answer")
  /\ answered' = IF stage = "generate" THEN answered \cup {task[w]} ELSE answered
  /\ UNCHANGED <<fixed, glitches, raises, next, task, client, attempt, loaded,
                 callIndex, picks>>

\* What a task does before it asks raises: its future raises, or _judge_one
\* returns zeros.
TaskRaises(w) ==
  /\ pc[w] = "pick"
  /\ raises < MaxRaises
  /\ raises' = raises + 1
  /\ \/ /\ stage = "generate"
        /\ Goto(w, "idle")
        /\ UNCHANGED results
     \/ /\ stage = "judge"
        /\ Finish(w, "zeros")
  /\ UNCHANGED <<fixed, glitches, next, task, client, attempt, loaded, callIndex,
                 picks, answered>>

\* An attempt fails: an exception or an unusable answer.
Failing(w) ==
  \/ /\ Server(w) \in down
     /\ UNCHANGED glitches
  \/ /\ Server(w) \notin down
     /\ glitches < MaxGlitches
     /\ glitches' = glitches + 1

\* Retry, or give up after max_retries attempts.
Fail(w) ==
  /\ pc[w] = "ask"
  /\ Failing(w)
  /\ attempt' = [attempt EXCEPT ![w] = @ + 1]
  /\ \/ /\ attempt[w] + 1 < MaxRetries
        /\ UNCHANGED <<pc, results>>
     \/ /\ attempt[w] + 1 >= MaxRetries
        /\ Finish(w, "default")
  /\ UNCHANGED <<fixed, raises, next, task, client, loaded, callIndex, picks,
                 answered>>

ThreadStep(w) ==
  \/ Take(w) \/ TakeUnguided(w)
  \/ PickLocked(w) \/ Pick(w) \/ LoadIndex(w) \/ StoreIndex(w)
  \/ TaskRaises(w) \/ Answer(w) \/ Fail(w)

-----------------------------------------------------------------------------
(* The driver between the stages.                                          *)

\* as_completed has yielded every future of the stage.
Complete == next \notin Tasks /\ \A w \in Threads : pc[w] = "idle"

\* Mutant: None stays in the list.
NotFilled(i) == results[i]

\* A task without a result gets the default.
Filled(i) ==
  IF results[i].got = "none" THEN [got |-> "default", of |-> i] ELSE results[i]

\* Whose milestones a result has: its own query's, or the generic ones.
MilestonesOf(result) == IF result.got = "default" THEN Generic ELSE result.of

\* The milestones of results[i] go to the i-th query; then the judge starts,
\* with its own counter, threads and servers.
StartJudging ==
  /\ stage = "generate"
  /\ Complete
  /\ milestones' = [q \in Queries |-> MilestonesOf(Filled(q))]
  /\ stage' = "judge"
  /\ down' \in SUBSET Clients
  /\ glitches' = 0
  /\ raises' = 0
  /\ next' = 1
  /\ callIndex' = 0
  /\ results' = [t \in Trajs |-> NoResult]
  /\ picks' = [c \in Clients |-> 0]
  /\ UNCHANGED <<pc, task, client, attempt, loaded, phis, answered>>

\* trajectories[traj_uid].phis: the judgement, by the milestones that were
\* looked up by the trajectory's uid when the inputs were built.
StorePhis ==
  /\ stage = "judge"
  /\ Complete
  /\ phis' = [t \in Trajs |-> [got |-> Filled(t).got, of |-> Filled(t).of,
                               by  |-> milestones[QueryOf(Filled(t).of)]]]
  /\ stage' = "done"
  /\ UNCHANGED <<down, milestones, glitches, raises, next, pc, task, client,
                 attempt, loaded, callIndex, results, picks, answered>>

Finished == stage = "done" /\ UNCHANGED vars

Next ==
  \/ \E w \in Threads : ThreadStep(w)
  \/ StartJudging
  \/ StorePhis
  \/ Finished

\* A request returns or times out, so every thread goes on, and the driver
\* only waits for them.
Fairness ==
  /\ \A w \in Threads : WF_vars(ThreadStep(w))
  /\ WF_vars(StartJudging) /\ WF_vars(StorePhis)

-----------------------------------------------------------------------------
\* The judge's servers share its calls evenly, whichever way the threads
\* interleave.
RoundRobin ==
  Locked => \A c, d \in Clients : picks[c] <= picks[d] + 1

\* A task gets the default answer only if there were enough failures for all
\* its attempts: a server that is down costs it one attempt and no more,
\* because it goes on to the next one, as long as there is one it has not
\* asked.
DefaultNeedsManyFailures ==
  stage # "done" /\ MaxRetries <= NumClients =>
    \A i \in Tasks \ Skipped : results[i].got = "default" =>
      Cardinality(down) + glitches >= MaxRetries

\* In whatever order the calls of both pools complete, a trajectory is given
\* its own potentials, judged by the milestones of its own query: those a
\* server wrote for that query if one did, and the generic ones only if the
\* query was skipped, its attempts failed or its task raised.
PhisOfOwnQuery ==
  /\ stage # "generate" => \A q \in Queries :
       milestones[q] = IF q \in answered THEN q ELSE Generic
  /\ stage = "done" => \A t \in Trajs :
       phis[t].of = t /\ phis[t].by = milestones[QueryOf(t)]
=============================================================================
