-------------------------- MODULE MilestoneScoring --------------------------
(***************************************************************************)
(* The milestone block of a training step at two grains: the calls of all  *)
(* queries and trajectories in their thread pools (MilestonePipeline), and *)
(* what the calls for one trajectory make of it (JudgeChunks).  A call     *)
(* gives JudgeChunks an answer or, after its attempts are used, a failure: *)
(* the two outcomes a task of the pool can have.                           *)
(***************************************************************************)
EXTENDS MilestonePipeline, JudgeChunks

VARIABLE grain  \* "calls" or "chunks"

\* The part that is not looked at has one initial state.
ScoringInit ==
  /\ Init
  /\ JudgeInit
  /\ \/ /\ grain = "calls"
        /\ total = 0
        /\ size = CHOOSE s \in ChunkSizes : TRUE
        /\ overlap = NormalOverlap(size, CHOOSE o \in Overlaps : TRUE)
     \/ /\ grain = "chunks"
        /\ down = {}

ScoringNext ==
  /\ \/ grain = "calls" /\ Next /\ UNCHANGED judgeVars
     \/ grain = "chunks" /\ JudgeNext /\ UNCHANGED vars
  /\ UNCHANGED grain

ScoringSpec ==
  /\ ScoringInit /\ [][ScoringNext]_<<vars, judgeVars, grain>>
  /\ grain = "calls" => Fairness

\* The batch always gets its milestones and its potentials, even when every
\* server is down and tasks raise before they ask: the driver finds a result
\* of every task in both lists.
EveryTrajectoryIsJudged ==
  grain = "calls" =>
    <>(/\ stage = "done"
       /\ \A q \in Queries : milestones[q] # Missing
       /\ \A t \in Trajs : phis[t].got # "none")
=============================================================================
