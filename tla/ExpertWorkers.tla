--------------------------- MODULE ExpertWorkers ---------------------------
(***************************************************************************)
(* The N+1 worker groups of AlfworldEnvs (expert_in_group): every group of *)
(* N policy workers has one expert worker more, which is stepped in the    *)
(* same lock-step but plays the plan its own environment proposes.  The    *)
(* rollout loop sees the policy workers only; when it ends it collects     *)
(* what the experts have played, and hands every policy row the trajectory *)
(* of its group as the reference solution of its task.                     *)
(*                                                                         *)
(* AlfworldWorker.step/reset/get_expert_trajectory, AlfworldEnvs.__init__, *)
(* step, reset, get_expert_trajectories, and the manager's mapping and     *)
(* truncation of the trajectories.                                         *)
(*                                                                         *)
(* Abstractions: an observation is the game and the number of actions      *)
(* played in it.  When the policy rows are over is left open.  The text    *)
(* environment is external: once won it repeats its last answer, plan      *)
(* included.                                                               *)
(***************************************************************************)
EXTENDS WorkerGroups

CONSTANT PlanActions  \* the actions an expert plan may propose

VARIABLES
  phase,    \* "idle", "run", "over"
  step,     \* iterations of the rollout loop
  played,   \* played[w]: the actions worker w executed since its last reset
  resets,   \* resets[w]: how often worker w was reset
  plan,     \* plan[g]: current_expert_plan of group g's expert
  trail,    \* trail[g]: expert_trajectory of group g's expert
  wonAt,    \* wonAt[g]: the step with which that expert won, 0 for not yet
  expert    \* expert[k]: what policy row k was given as expert trajectory

vars == <<phase, step, played, resets, plan, trail, wonAt, expert>>

\* All workers of a group have the same seed, and draw a game per reset.
Game(w) == <<GroupOf(w), resets[w]>>

-----------------------------------------------------------------------------
Init ==
  /\ phase = "idle"
  /\ step = 0
  /\ played = [w \in Workers |-> << >>]
  /\ resets = [w \in Workers |-> 0]
  /\ plan = [g \in Groups |-> "none"]
  /\ trail = [g \in Groups |-> << >>]
  /\ wonAt = [g \in Groups |-> 0]
  /\ expert = [k \in Rows |-> << >>]

\* Mutant: the trajectory of the episode before is kept.
TrailKept(g) == trail[g]

\* AlfworldEnvs.reset, with the worker's part: a new trajectory and plan.
TrailAfterReset(g) == << >>

Reset ==
  /\ phase = "idle"
  /\ resets[0] < MaxEpisodes
  /\ phase' = "run"
  /\ step' = 0
  /\ played' = [w \in Workers |-> << >>]
  /\ resets' = [w \in Workers |-> resets[w] + 1]
  /\ plan' \in [Groups -> PlanActions]
  /\ trail' = [g \in Groups |-> TrailAfterReset(g)]
  /\ wonAt' = [g \in Groups |-> 0]
  /\ expert' = [k \in Rows |-> << >>]

\* An expert ignores the dummy action for the head of its plan.
Executed(w, action) == IF IsExpert(w) THEN plan[GroupOf(w)] ELSE action

\* The workers' step, and what the loop then does: go on, or stop because
\* every policy row is over or the steps are used up.
Step ==
  /\ phase = "run"
  /\ LET sent == Padded([k \in Rows |-> <<k, step + 1>>], "look")
     IN played' = [w \in Workers |->
                     Append(played[w], Executed(w, sent[w]))]
  /\ trail' = [g \in Groups |->
                 Append(trail[g], [game   |-> Game(Expert(g)),
                                   at     |-> step,
                                   action |-> plan[g]])]
  /\ \E wins \in SUBSET {g \in Groups : wonAt[g] = 0} :
       wonAt' = [g \in Groups |-> IF g \in wins THEN step + 1 ELSE wonAt[g]]
  /\ plan' \in {p \in [Groups -> PlanActions] :
                  \A g \in Groups : wonAt[g] > 0 => p[g] = plan[g]}
  /\ step' = step + 1
  /\ \/ phase' = "over"
     \/ step + 1 < MaxSteps /\ phase' = "run"
  /\ UNCHANGED <<resets, expert>>

\* get_expert_trajectories of the environments and of the manager.
Collect ==
  /\ phase = "over"
  /\ expert' = [k \in Rows |-> Truncate(trail[ExpertGroup(k)])]
  /\ phase' = "idle"
  /\ UNCHANGED <<step, played, resets, plan, trail, wonAt>>

Finished ==
  /\ phase = "idle"
  /\ resets[0] = MaxEpisodes
  /\ UNCHANGED vars

Next == Reset \/ Step \/ Collect \/ Finished

Spec == Init /\ [][Next]_vars

-----------------------------------------------------------------------------
Collected == phase = "idle" /\ resets[0] > 0

\* The reference a row is given was played in the row's own game, in this
\* rollout, from its first action on; so it is the same for all rows that
\* share a uid, which the query level of the pipeline data relies on.
ExpertOfOwnGame ==
  Collected => \A k \in Rows :
    /\ \A t \in DOMAIN expert[k] :
         expert[k][t].game = Game(Worker(k)) /\ expert[k][t].at = t - 1
    /\ \A j \in Rows : Uid(j) = Uid(k) =>
         /\ expert[j] = expert[k]
         /\ Game(Worker(j)) = Game(Worker(k))

\* Every policy worker executes the actions of its own row, in order.
RowsDriveOwnWorker ==
  \A k \in Rows : played[Worker(k)] = [t \in 1..step |-> <<k, t>>]

RepeatsBefore(t, n) == \E i \in 2..n : t[i].action = t[i - 1].action

\* Truncation takes the padding after a win and nothing of the solution: an
\* expert that won without repeating an action keeps exactly its solution,
\* or its solution and one idle action.
PaddingIsCut ==
  Collected => \A k \in Rows :
    LET g == ExpertGroup(k)
    IN wonAt[g] > 0 /\ ~RepeatsBefore(trail[g], wonAt[g]) =>
         Len(expert[k]) \in {wonAt[g], wonAt[g] + 1}
=============================================================================
