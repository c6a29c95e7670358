---------------------------- MODULE AgentLoopProofs ----------------------------
(***************************************************************************)
(* AgentLoop.tla for every number of environments and steps: the loop that *)
(* steps all environments in lock-step and masks those that are over       *)
(* refines the independent episodes of Episodes.tla, training receives the *)
(* rows of the episodes and nothing else, and their rewards and gains add  *)
(* up to those of the episodes.                                            *)
(***************************************************************************)
EXTENDS AgentLoop, NumberLemmas, SequenceTheorems

Scored == [traj : Rows, active : BOOLEAN, reward : Nat, won : BOOLEAN,
           before : Int, after : Int, delta : Int]

LoopTypeInv ==
  /\ phase \in {"reset", "step", "evaluate", "gather", "done"}
  /\ step \in Nat
  /\ isDone \in [Rows -> BOOLEAN]
  /\ prevScore \in [Rows -> Int]
  /\ epReward \in [Rows -> Nat]
  /\ epLength \in [Rows -> Nat]
  /\ list \in [Rows -> Seq(Scored)]

Won(i) == epLength[i] > 0 /\ list[i][epLength[i]].won

\* The rows of an environment: one per iteration; those of the episode come
\* first, and an episode that goes on has had all of them.
EpisodeInv ==
  \A i \in Rows :
    /\ Len(list[i]) = step
    /\ epLength[i] <= step /\ (Active(i) => epLength[i] = step)
    /\ \A t \in 1..step : /\ list[i][t].traj = i
                          /\ list[i][t].active <=> t <= epLength[i]
    /\ Won(i) => isDone[i]
    /\ epReward[i] = IF Won(i) THEN SuccessReward ELSE 0

\* What the loop's evaluator and gather_rollout_data make of them.
OutcomeInv ==
  /\ phase \in {"gather", "done"} =>
       \A i \in Rows : success[i] = WonAtLastActive(list[i])
  /\ phase = "done" =>
       batch = {TrainingRow(p[1], p[2]) :
                  p \in {q \in Rows \X (1..step) : Effective(q[1], q[2])}}

LoopInv == LoopTypeInv /\ EpisodeInv /\ OutcomeInv

-----------------------------------------------------------------------------
\* The won of the last active row is that of the episode's last step.
LEMMA WonFacts ==
  ASSUME NEW l \in Seq(Scored), NEW n \in 0..Len(l),
         \A t \in 1..Len(l) : l[t].active <=> t <= n
  PROVE  WonAtLastActive(l) <=> (n > 0 /\ l[n].won)
<1>1. Len(l) \in Nat /\ DOMAIN l = 1..Len(l)
  BY LenProperties
<1>2. ActiveSteps(l) = 1..n
  BY <1>1 DEF ActiveSteps
<1>3. ASSUME n > 0, l[n].won
      PROVE  WonAtLastActive(l)
  <2>1. n \in 1..n /\ \A u \in 1..n : u <= n
    BY <1>1, <1>3
  <2> QED  BY <1>2, <1>3, <2>1 DEF WonAtLastActive
<1>4. ASSUME WonAtLastActive(l)
      PROVE  n > 0 /\ l[n].won
  <2>1. PICK t \in 1..n : (\A u \in 1..n : u <= t) /\ l[t].won
    BY <1>2, <1>4 DEF WonAtLastActive
  <2>2. n \in 1..n
    BY <1>1
  <2>3. t = n
    BY <1>1, <2>1, <2>2
  <2> QED  BY <1>1, <2>1, <2>3
<1> QED  BY <1>3, <1>4

\* So it is what the evaluator computes.
LEMMA WonIs ==
  ASSUME LoopInv, NEW i \in Rows
  PROVE  WonAtLastActive(list[i]) = Won(i)
<1>1. list[i] \in Seq(Scored) /\ epLength[i] \in 0..Len(list[i])
  BY DEF LoopInv, LoopTypeInv, EpisodeInv
<1>2. \A t \in 1..Len(list[i]) : list[i][t].active <=> t <= epLength[i]
  BY DEF LoopInv, EpisodeInv
<1>3. WonAtLastActive(list[i]) <=> (epLength[i] > 0 /\ list[i][epLength[i]].won)
  BY <1>1, <1>2, WonFacts
<1> QED  BY <1>3 DEF Won, WonAtLastActive

\* Scores and their absence are numbers.
LEMMA ScoreFacts ==
  ASSUME NEW s \in Scores \cup {NoScore}
  PROVE  s \in Int
<1>1. CASE s \in Scores
  BY <1>1, ScoresAssumption
<1>2. CASE s = NoScore
  BY <1>2 DEF NoScore
<1> QED  BY <1>1, <1>2

\* What an environment answers, and its reward.
LEMMA AnswerFacts ==
  ASSUME NEW a \in Answers
  PROVE  /\ a.done \in BOOLEAN /\ a.won \in BOOLEAN /\ a.score \in Int
         /\ Reward(a) \in Nat /\ Reward(a) = IF a.won THEN SuccessReward ELSE 0
<1>1. a.done \in BOOLEAN /\ a.won \in BOOLEAN /\ a.score \in Scores \cup {NoScore}
  BY DEF Answers
<1>2. a.score \in Int
  BY <1>1, ScoreFacts
<1>3. Reward(a) \in Nat /\ Reward(a) = IF a.won THEN SuccessReward ELSE 0
  BY RewardAssumption DEF Reward
<1> QED  BY <1>1, <1>2, <1>3

\* No step has been made.
LEMMA LoopInit == Init => LoopInv
<1> SUFFICES ASSUME Init  PROVE LoopInv
  OBVIOUS
<1>1. << >> \in Seq(Scored)
  BY EmptySeq
<1>2. LoopTypeInv
  BY <1>1 DEF Init, LoopTypeInv
<1>3. EpisodeInv
  BY DEF Init, EpisodeInv, Active, Won
<1> QED  BY <1>2, <1>3 DEF Init, LoopInv, OutcomeInv

\* Resetting only sets the scores.
LEMMA ResetKeeps ==
  ASSUME LoopInv, Reset
  PROVE  LoopInv'
<1>1. prevScore' \in [Rows -> Int]
  <2>1. PICK first \in [Rows -> Scores \cup {NoScore}] :
          prevScore' = [i \in Rows |-> SafeScore(first[i], 0)]
    BY DEF Reset
  <2>2. \A i \in Rows : first[i] \in Int
    BY ScoreFacts
  <2> QED  BY <2>1, <2>2 DEF SafeScore
<1>2. LoopTypeInv'
  BY <1>1 DEF Reset, LoopInv, LoopTypeInv
<1>3. EpisodeInv'
  BY DEF Reset, LoopInv, EpisodeInv, Active, Won
<1> QED  BY <1>2, <1>3 DEF Reset, LoopInv, OutcomeInv

\* One iteration, seen from one environment.
Iterated(i, a) ==
  /\ Active(i) /\ a.won => a.done
  /\ step' = step + 1
  /\ epReward'[i] = epReward[i] + (IF Active(i) THEN Reward(a) ELSE 0)
  /\ epLength'[i] = epLength[i] + (IF Active(i) THEN 1 ELSE 0)
  /\ list'[i] = Append(list[i], RowOf(i, a))
  /\ isDone'[i] = DoneAfter(i, a)

\* What one iteration makes of the rows of an environment.
LEMMA StepFacts ==
  ASSUME LoopInv, NEW i \in Rows, NEW a \in Answers, Iterated(i, a)
  PROVE  /\ list'[i] \in Seq(Scored) /\ Len(list'[i]) = step + 1
         /\ epLength'[i] \in Nat /\ epReward'[i] \in Nat /\ isDone'[i] \in BOOLEAN
         /\ epLength'[i] <= step + 1 /\ (~isDone'[i] => epLength'[i] = step + 1)
         /\ \A t \in 1..(step + 1) : /\ list'[i][t].traj = i
                                     /\ list'[i][t].active <=> t <= epLength'[i]
         /\ Won(i)' => isDone'[i]
         /\ epReward'[i] = IF Won(i)' THEN SuccessReward ELSE 0
         /\ IF Active(i) THEN Won(i)' = a.won /\ ~Won(i) /\ epReward[i] = 0
            ELSE Won(i)' = Won(i)
<1> DEFINE r == RowOf(i, a)
           n == epLength[i]
<1>1. /\ a.done \in BOOLEAN /\ a.won \in BOOLEAN /\ a.score \in Int
      /\ Active(i) /\ a.won => a.done
      /\ Reward(a) \in Nat /\ Reward(a) = IF a.won THEN SuccessReward ELSE 0
  BY AnswerFacts DEF Iterated
<1>2. /\ step \in Nat /\ isDone[i] \in BOOLEAN /\ prevScore[i] \in Int
      /\ n \in Nat /\ epReward[i] \in Nat /\ list[i] \in Seq(Scored)
  BY DEF LoopInv, LoopTypeInv
<1>3. /\ Len(list[i]) = step /\ n <= step /\ (Active(i) => n = step)
      /\ \A t \in 1..step : /\ list[i][t].traj = i
                            /\ list[i][t].active <=> t <= n
      /\ Won(i) => isDone[i]
      /\ epReward[i] = IF Won(i) THEN SuccessReward ELSE 0
  BY DEF LoopInv, EpisodeInv
<1>4. /\ r \in Scored /\ r.traj = i /\ r.won = a.won
      /\ r.active \in BOOLEAN /\ (r.active <=> Active(i))
  <2>1. SafeScore(a.score, prevScore[i]) \in Int
    BY <1>1, <1>2 DEF SafeScore
  <2> DEFINE after == IF Active(i) THEN SafeScore(a.score, prevScore[i])
                      ELSE prevScore[i]
  <2>2. after \in Int /\ after - prevScore[i] \in Int
    BY <1>2, <2>1
  <2>3. r = [traj |-> i, active |-> Active(i), reward |-> Reward(a),
             won |-> a.won, before |-> prevScore[i], after |-> after,
             delta |-> after - prevScore[i]]
    BY DEF RowOf
  <2>4. Active(i) \in BOOLEAN
    BY DEF Active
  <2> HIDE DEF after, r
  <2>5. r \in Scored
    BY <1>1, <1>2, <2>2, <2>3, <2>4 DEF Scored
  <2>6. r.traj = i /\ r.won = a.won /\ r.active = Active(i)
    BY <2>3
  <2> QED  BY <2>4, <2>5, <2>6
<1> HIDE DEF r
<1>5. /\ list'[i] \in Seq(Scored) /\ Len(list'[i]) = step + 1
      /\ \A t \in 1..step : list'[i][t] = list[i][t]
      /\ list'[i][step + 1] = r
  BY <1>2, <1>3, <1>4, AppendProperties DEF r, Iterated
<1>6. /\ epReward'[i] = epReward[i] + (IF Active(i) THEN Reward(a) ELSE 0)
      /\ epLength'[i] = n + (IF Active(i) THEN 1 ELSE 0)
      /\ isDone'[i] = (isDone[i] \/ a.done)
  BY DEF Iterated, DoneAfter
<1>7. Won(i)' = (epLength'[i] > 0 /\ list'[i][epLength'[i]].won)
  BY DEF Won
<1> HIDE DEF n
<1>8. CASE Active(i)
  <2>1. n = step /\ epLength'[i] = step + 1 /\ ~isDone[i] /\ ~Won(i)
        /\ epReward[i] = 0
    BY <1>2, <1>3, <1>6, <1>8 DEF Active
  <2>2. Won(i)' = a.won
    BY <1>1, <1>2, <1>4, <1>5, <1>7, <2>1
  <2>3. epReward'[i] = Reward(a) /\ isDone'[i] = a.done
    BY <1>1, <1>6, <1>8, <2>1
  <2>4. \A t \in 1..(step + 1) : /\ list'[i][t].traj = i
                                 /\ list'[i][t].active <=> t <= step + 1
    <3> TAKE t \in 1..(step + 1)
    <3>1. CASE t = step + 1
      <4>1. list'[i][t] = r
        BY <1>5, <3>1
      <4> QED  BY <1>2, <1>4, <1>8, <3>1, <4>1
    <3>2. CASE t # step + 1
      <4>1. t \in 1..step /\ list'[i][t] = list[i][t]
        BY <1>2, <1>5, <3>2
      <4> QED  BY <1>2, <1>3, <2>1, <4>1
    <3> QED  BY <3>1, <3>2
  <2> QED  BY <1>1, <1>2, <1>5, <1>8, <2>1, <2>2, <2>3, <2>4
<1>9. CASE ~Active(i)
  <2>1. epLength'[i] = n /\ epReward'[i] = epReward[i] /\ isDone[i] /\ isDone'[i]
    BY <1>1, <1>2, <1>6, <1>9 DEF Active
  <2>2. Won(i)' = Won(i)
    <3>1. n > 0 => list'[i][n] = list[i][n]
      BY <1>2, <1>3, <1>5
    <3> QED  BY <1>7, <2>1, <3>1 DEF Won, n
  <2>3. \A t \in 1..(step + 1) : /\ list'[i][t].traj = i
                                 /\ list'[i][t].active <=> t <= n
    BY <1>2, <1>3, <1>4, <1>5, <1>9
  <2> QED  BY <1>1, <1>2, <1>3, <1>5, <1>6, <1>9, <2>1, <2>2, <2>3
<1> QED  BY <1>8, <1>9

\* An iteration of the loop extends every list, and the episodes that go on.
LEMMA StepKeeps ==
  ASSUME LoopInv, Step
  PROVE  LoopInv'
<1>1. PICK answer \in [Rows -> Answers] :
        /\ \A i \in Rows : Active(i) => answer[i] \in LiveAnswers
        /\ epReward' = [i \in Rows |->
             epReward[i] + (IF Active(i) THEN Reward(answer[i]) ELSE 0)]
        /\ epLength' = [i \in Rows |-> epLength[i] + (IF Active(i) THEN 1 ELSE 0)]
        /\ prevScore' = [i \in Rows |-> RowOf(i, answer[i]).after]
        /\ list' = [i \in Rows |-> Append(list[i], RowOf(i, answer[i]))]
        /\ isDone' = [i \in Rows |-> DoneAfter(i, answer[i])]
        /\ step' = step + 1
        /\ phase' = IF LoopEnds(step + 1, isDone') THEN "evaluate" ELSE "step"
  BY DEF Step
<1>2. ASSUME NEW i \in Rows
      PROVE  /\ list'[i] \in Seq(Scored) /\ Len(list'[i]) = step + 1
             /\ epLength'[i] \in Nat /\ epReward'[i] \in Nat /\ isDone'[i] \in BOOLEAN
             /\ epLength'[i] <= step + 1 /\ (~isDone'[i] => epLength'[i] = step + 1)
             /\ \A t \in 1..(step + 1) : /\ list'[i][t].traj = i
                                         /\ list'[i][t].active <=> t <= epLength'[i]
             /\ Won(i)' => isDone'[i]
             /\ epReward'[i] = IF Won(i)' THEN SuccessReward ELSE 0
  <2>1. answer[i] \in Answers /\ Iterated(i, answer[i])
    BY <1>1 DEF Iterated, LiveAnswers
  <2> QED  BY <2>1, StepFacts
<1>3. prevScore' \in [Rows -> Int]
  <2>1. ASSUME NEW i \in Rows
        PROVE  RowOf(i, answer[i]).after \in Int
    <3>1. answer[i].score \in Int /\ prevScore[i] \in Int
      BY AnswerFacts DEF LoopInv, LoopTypeInv
    <3> QED  BY <3>1 DEF RowOf, SafeScore
  <2> QED  BY <1>1, <2>1
<1>4. LoopTypeInv'
  <2>1. /\ isDone' \in [Rows -> BOOLEAN] /\ epReward' \in [Rows -> Nat]
        /\ epLength' \in [Rows -> Nat] /\ list' \in [Rows -> Seq(Scored)]
    BY <1>1, <1>2
  <2>2. step' \in Nat /\ phase' \in {"evaluate", "step"}
    BY <1>1 DEF LoopInv, LoopTypeInv
  <2> QED  BY <1>3, <2>1, <2>2 DEF LoopTypeInv
<1>5. EpisodeInv'
  BY <1>1, <1>2 DEF EpisodeInv, Active
<1>6. OutcomeInv'
  BY <1>1 DEF OutcomeInv
<1> QED  BY <1>4, <1>5, <1>6 DEF LoopInv

\* The inductive invariant of the loop.
LEMMA LoopInvariant == Spec => []LoopInv
<1>1. LoopInv /\ [Next]_vars => LoopInv'
  <2> SUFFICES ASSUME LoopInv, [Next]_vars  PROVE LoopInv'
    OBVIOUS
  <2>1. ASSUME UNCHANGED <<step, isDone, prevScore, epReward, epLength, list>>
        PROVE  EpisodeInv' /\ (phase' \in {"reset", "step", "evaluate", "gather", "done"} => LoopTypeInv')
    BY <2>1 DEF LoopInv, LoopTypeInv, EpisodeInv, Active, Won
  <2>2. CASE Evaluate
    BY <2>1, <2>2 DEF Evaluate, LoopInv, OutcomeInv
  <2>3. CASE Gather
    <3>1. EpisodeInv' /\ LoopTypeInv'
      BY <2>1, <2>3 DEF Gather
    <3>2. OutcomeInv'
      BY <2>3 DEF Gather, LoopInv, OutcomeInv, TrainingRow, Effective
    <3> QED  BY <3>1, <3>2 DEF LoopInv
  <2>4. CASE UNCHANGED vars
    <3>1. EpisodeInv' /\ LoopTypeInv'
      BY <2>1, <2>4 DEF vars, LoopInv, LoopTypeInv
    <3>2. OutcomeInv'
      BY <2>4 DEF vars, LoopInv, OutcomeInv, TrainingRow, Effective
    <3> QED  BY <3>1, <3>2 DEF LoopInv
  <2> QED  BY <2>2, <2>3, <2>4, ResetKeeps, StepKeeps DEF Next, Finished
<1> QED  BY <1>1, LoopInit, PTL DEF Spec

-----------------------------------------------------------------------------
(* The refinement.                                                         *)

EpisodeOf(i) ==
  [length |-> epLength[i], reward |-> epReward[i],
   won |-> WonAtLastActive(list[i]), over |-> isDone[i]]

\* One iteration is a step of every episode that is not over, and no step of
\* the others.
LEMMA StepPlays ==
  ASSUME LoopInv, Step
  PROVE  \A i \in Rows :
           IF Active(i)
           THEN /\ epLength[i] < MaxSteps
                /\ \E won, over \in BOOLEAN :
                     /\ won => over
                     /\ EpisodeOf(i)' =
                          [length |-> epLength[i] + 1,
                           reward |-> epReward[i]
                                        + (IF won THEN SuccessReward ELSE 0),
                           won |-> won, over |-> over]
           ELSE EpisodeOf(i)' = EpisodeOf(i)
<1>1. PICK answer \in [Rows -> Answers] :
        /\ \A i \in Rows : Active(i) => answer[i] \in LiveAnswers
        /\ epReward' = [i \in Rows |->
             epReward[i] + (IF Active(i) THEN Reward(answer[i]) ELSE 0)]
        /\ epLength' = [i \in Rows |-> epLength[i] + (IF Active(i) THEN 1 ELSE 0)]
        /\ list' = [i \in Rows |-> Append(list[i], RowOf(i, answer[i]))]
        /\ isDone' = [i \in Rows |-> DoneAfter(i, answer[i])]
        /\ step' = step + 1
  BY DEF Step
<1>2. step < MaxSteps
  BY DEF Step
<1> HIDE DEF Step
<1>3. LoopInv'
  BY StepKeeps
<1> SUFFICES ASSUME NEW i \in Rows
             PROVE  IF Active(i)
                    THEN /\ epLength[i] < MaxSteps
                         /\ \E won, over \in BOOLEAN :
                              /\ won => over
                              /\ EpisodeOf(i)' =
                                   [length |-> epLength[i] + 1,
                                    reward |-> epReward[i]
                                      + (IF won THEN SuccessReward ELSE 0),
                                    won |-> won, over |-> over]
                    ELSE EpisodeOf(i)' = EpisodeOf(i)
  OBVIOUS
<1> DEFINE a == answer[i]
<1>4. a \in Answers /\ Iterated(i, a)
  BY <1>1 DEF Iterated, LiveAnswers
<1>5. /\ WonAtLastActive(list[i]) = Won(i)
      /\ WonAtLastActive(list'[i]) = Won(i)'
  <2>1. /\ list'[i] \in Seq(Scored) /\ epLength'[i] \in 0..Len(list'[i])
        /\ \A t \in 1..Len(list'[i]) : list'[i][t].active <=> t <= epLength'[i]
    BY <1>3 DEF LoopInv, LoopTypeInv, EpisodeInv
  <2>2. WonAtLastActive(list'[i]) <=> (epLength'[i] > 0 /\ list'[i][epLength'[i]].won)
    BY <2>1, WonFacts
  <2> QED  BY <2>2, WonIs DEF Won, WonAtLastActive
<1> HIDE DEF a
<1>6. /\ a.done \in BOOLEAN /\ a.won \in BOOLEAN
      /\ Reward(a) = IF a.won THEN SuccessReward ELSE 0
  BY <1>4, AnswerFacts
<1>7. IF Active(i) THEN Won(i)' = a.won /\ ~Won(i) /\ epReward[i] = 0
      ELSE Won(i)' = Won(i)
  BY <1>4, StepFacts
<1>8. EpisodeOf(i)' = [length |-> epLength'[i], reward |-> epReward'[i],
                       won |-> Won(i)', over |-> isDone'[i]]
  BY <1>5 DEF EpisodeOf
<1>9. CASE Active(i)
  <2>1. epLength[i] = step /\ isDone[i] = FALSE
    BY <1>9 DEF LoopInv, EpisodeInv, LoopTypeInv, Active
  <2>2. /\ epLength'[i] = epLength[i] + 1
        /\ epReward'[i] = epReward[i] + (IF a.won THEN SuccessReward ELSE 0)
        /\ a.won => a.done
    BY <1>4, <1>6, <1>9 DEF Iterated
  <2>3. isDone'[i] = a.done
    BY <1>4, <1>6, <2>1 DEF Iterated, DoneAfter
  <2>4. EpisodeOf(i)' = [length |-> epLength[i] + 1,
                         reward |-> epReward[i]
                                      + (IF a.won THEN SuccessReward ELSE 0),
                         won |-> a.won, over |-> a.done]
    BY <1>7, <1>8, <1>9, <2>2, <2>3
  <2> QED  BY <1>2, <1>6, <1>9, <2>1, <2>2, <2>4
<1>10. CASE ~Active(i)
  <2>1. epLength[i] \in Nat /\ epReward[i] \in Nat /\ isDone[i] = TRUE
    BY <1>10 DEF LoopInv, LoopTypeInv, Active
  <2>2. epLength'[i] = epLength[i] /\ epReward'[i] = epReward[i]
    BY <1>4, <1>10, <2>1 DEF Iterated
  <2>3. isDone'[i] = isDone[i]
    BY <1>4, <1>6, <2>1 DEF Iterated, DoneAfter
  <2> QED  BY <1>5, <1>7, <1>8, <1>10, <2>2, <2>3 DEF EpisodeOf
<1> QED  BY <1>9, <1>10

\* The lock-step loop plays one independent episode per environment: none is
\* touched once it is over, none goes on past MaxSteps, a win is rewarded once
\* and ends it (vanilla_multi_turn_loop and its masks).
THEOREM EpisodesAreIndependent == Spec => PlaysIndependentEpisodes
<1> DEFINE Played == [i \in Rows |->
                        [length |-> epLength[i], reward |-> epReward[i],
                         won |-> WonAtLastActive(list[i]), over |-> isDone[i]]]
<1>1. Init => E!EpInit
  <2> SUFFICES ASSUME Init  PROVE E!EpInit
    OBVIOUS
  <2>1. ASSUME NEW i \in Rows
        PROVE  WonAtLastActive(list[i]) = FALSE
    BY DEF Init, WonAtLastActive, ActiveSteps
  <2> QED  BY <2>1 DEF Init, E!EpInit, E!NewEpisode
<1>2. LoopInv /\ [Next]_vars => [E!EpNext]_Played
  <2> SUFFICES ASSUME LoopInv, [Next]_vars  PROVE E!EpNext \/ UNCHANGED Played
    OBVIOUS
  <2>1. CASE Step
    <3>1. \A i \in Rows : Played[i] = EpisodeOf(i) /\ Played'[i] = EpisodeOf(i)'
      BY DEF EpisodeOf
    <3>2. \A i \in Rows : ~Active(i) => EpisodeOf(i)' = EpisodeOf(i)
      BY <2>1, StepPlays
    <3>3. ASSUME NEW i \in Rows, Active(i)
          PROVE  E!Play(i)
      <4>1. /\ epLength[i] < MaxSteps
            /\ \E won, over \in BOOLEAN :
                 /\ won => over
                 /\ EpisodeOf(i)' =
                      [length |-> epLength[i] + 1,
                       reward |-> epReward[i] + (IF won THEN SuccessReward ELSE 0),
                       won |-> won, over |-> over]
        BY <2>1, <3>3, StepPlays
      <4> QED  BY <3>3, <4>1 DEF E!Play, EpisodeOf, Active
    <3> QED  BY <3>2, <3>3 DEF E!EpNext, EpisodeOf
  <2>2. CASE UNCHANGED <<isDone, epReward, epLength, list>>
    BY <2>2 DEF WonAtLastActive, ActiveSteps
  <2> QED  BY <2>1, <2>2 DEF Next, Reset, Evaluate, Gather, Finished, vars
<1> QED  BY <1>1, <1>2, LoopInvariant, PTL DEF Spec, PlaysIndependentEpisodes, E!EpSpec

-----------------------------------------------------------------------------
(* What reaches training.                                                  *)

\* gather_rollout_data keeps the first rows of an environment, its episode.
LEMMA GatheredIs ==
  ASSUME LoopInv, phase = "done", NEW i \in Rows
  PROVE  Gathered(i) = {TrainingRow(i, t) : t \in 1..epLength[i]}
<1>1. batch = {TrainingRow(p[1], p[2]) :
                 p \in {q \in Rows \X (1..step) : Effective(q[1], q[2])}}
  BY DEF LoopInv, OutcomeInv
<1>2. \A j \in Rows : /\ epLength[j] \in Nat /\ epLength[j] <= step
                      /\ \A t \in 1..step : /\ list[j][t].traj = j
                                            /\ Effective(j, t) <=> t <= epLength[j]
  BY DEF LoopInv, LoopTypeInv, EpisodeInv, Effective
<1>3. step \in Nat
  BY DEF LoopInv, LoopTypeInv
<1>4. \A j \in Rows : \A t \in 1..step : TrainingRow(j, t).row.traj = j
  BY <1>2 DEF TrainingRow
<1>5. ASSUME NEW b \in Gathered(i)
      PROVE  \E t \in 1..epLength[i] : b = TrainingRow(i, t)
  <2>1. b \in batch /\ b.row.traj = i
    BY DEF Gathered
  <2>2. PICK p \in Rows \X (1..step) : Effective(p[1], p[2]) /\ b = TrainingRow(p[1], p[2])
    BY <1>1, <2>1
  <2>3. p[1] \in Rows /\ p[2] \in 1..step
    BY <2>2
  <2>4. p[1] = i
    BY <1>4, <2>1, <2>2, <2>3
  <2>5. p[2] \in 1..epLength[i]
    BY <1>2, <1>3, <2>2, <2>3, <2>4
  <2> QED  BY <2>2, <2>4, <2>5
<1>6. ASSUME NEW t \in 1..epLength[i]
      PROVE  TrainingRow(i, t) \in Gathered(i)
  <2>1. t \in 1..step /\ Effective(i, t)
    BY <1>2, <1>3
  <2>2. <<i, t>> \in {q \in Rows \X (1..step) : Effective(q[1], q[2])}
    BY <2>1
  <2>3. TrainingRow(i, t) \in batch
    BY <1>1, <2>2
  <2> QED  BY <1>4, <2>1, <2>3 DEF Gathered
<1> QED  BY <1>5, <1>6

\* One row for each step of the episode.
LEMMA GatheredByStep ==
  ASSUME LoopInv, phase = "done", NEW i \in Rows
  PROVE  /\ IsFiniteSet(1..epLength[i])
         /\ [t \in 1..epLength[i] |-> TrainingRow(i, t)]
               \in Bijection(1..epLength[i], Gathered(i))
         /\ IsFiniteSet(Gathered(i))
<1> DEFINE T == 1..epLength[i]
           f == [t \in T |-> TrainingRow(i, t)]
<1>1. IsFiniteSet(T)
  BY FS_Interval DEF LoopInv, LoopTypeInv
<1>2. f \in Bijection(T, Gathered(i))
  <2>1. Gathered(i) = {TrainingRow(i, t) : t \in T}
    BY GatheredIs
  <2>2. \A t \in T : TrainingRow(i, t).at = t
    BY DEF TrainingRow
  <2>3. \A t, u \in T : f[t] = f[u] => t = u
    BY <2>2
  <2>4. f \in [T -> Gathered(i)] /\ \A b \in Gathered(i) : \E t \in T : f[t] = b
    BY <2>1
  <2> HIDE DEF f, T
  <2> QED  BY <2>3, <2>4 DEF Bijection, Injection, Surjection, IsInjective
<1> HIDE DEF f, T
<1>3. ExistsBijection(T, Gathered(i))
  BY <1>2 DEF ExistsBijection
<1>4. IsFiniteSet(Gathered(i))
  BY <1>1, <1>3, FS_Bijection
<1> QED  BY <1>1, <1>2, <1>4 DEF f, T

\* As many rows as the episode has steps.
LEMMA GatheredCount ==
  ASSUME LoopInv, phase = "done", NEW i \in Rows
  PROVE  Cardinality(Gathered(i)) = epLength[i]
<1> DEFINE T == 1..epLength[i]
<1>1. epLength[i] \in Nat
  BY DEF LoopInv, LoopTypeInv
<1>2. IsFiniteSet(T) /\ Cardinality(T) = epLength[i]
  <2>1. \A n \in Int : IsFiniteSet(1..n) /\ Cardinality(1..n) =
                        IF 1 > n THEN 0 ELSE n - 1 + 1
    BY FS_Interval
  <2> QED  BY <1>1, <2>1
<1> HIDE DEF T
<1>3. ExistsBijection(T, Gathered(i))
  BY GatheredByStep DEF ExistsBijection, T
<1> QED  BY <1>2, <1>3, FS_Bijection

\* All that reaches training of an environment is its episode, row by row,
\* with the episode's own reward, length and success (gather_rollout_data).
THEOREM TrainingSeesTheEpisodes == Spec => [](phase = "done" => RowsCarryEpisode)
<1>1. LoopInv => (phase = "done" => RowsCarryEpisode)
  <2> SUFFICES ASSUME LoopInv, phase = "done", NEW i \in Rows
               PROVE  /\ Cardinality(Gathered(i)) = epLength[i]
                      /\ \A b \in Gathered(i) :
                           /\ b.reward = epReward[i] /\ b.length = epLength[i]
                           /\ b.at <= b.length
                           /\ b.success <=> b.reward = SuccessReward
    BY DEF RowsCarryEpisode
  <2>1. epReward[i] = SuccessReward <=> Won(i)
    <3>1. epReward[i] = IF Won(i) THEN SuccessReward ELSE 0
      BY DEF LoopInv, EpisodeInv
    <3>2. SuccessReward # 0
      BY RewardAssumption
    <3> QED  BY <3>1, <3>2
  <2>2. success[i] = Won(i)
    BY WonIs DEF LoopInv, OutcomeInv
  <2>3. ASSUME NEW b \in Gathered(i)
        PROVE  /\ b.reward = epReward[i] /\ b.length = epLength[i]
               /\ b.at <= b.length
               /\ b.success <=> b.reward = SuccessReward
    <3>1. PICK t \in 1..epLength[i] : b = TrainingRow(i, t)
      BY GatheredIs
    <3>2. t <= epLength[i]
      BY <3>1 DEF LoopInv, LoopTypeInv
    <3>3. /\ b.reward = epReward[i] /\ b.length = epLength[i] /\ b.at = t
          /\ b.success = success[i]
      BY <3>1 DEF TrainingRow
    <3> QED  BY <2>1, <2>2, <3>2, <3>3
  <2> QED  BY <2>3, GatheredCount
<1> QED  BY <1>1, LoopInvariant, PTL

-----------------------------------------------------------------------------
(* What the rows of an episode add up to.                                  *)

\* The first n entries of l: each gains the difference of its scores, the
\* next starts from the score it led to, and only the last can have won.
Earns(l, n, last) ==
  /\ last \in Nat
  /\ \E m \in Nat : \A t \in 1..n : l[t].before \in 0..m /\ l[t].after \in 0..m
  /\ \A t \in 1..n : /\ l[t].delta = l[t].after - l[t].before
                     /\ l[t].reward = IF l[t].won THEN SuccessReward ELSE 0
                     /\ t < n => ~l[t].won /\ l[t + 1].before = l[t].after
  /\ n > 0 => l[n].after = last

\* What the score gains of the episodes are, at every iteration; an episode
\* that is over has had a step.
GainInv ==
  /\ phase = "reset" => step = 0
  /\ phase \in {"evaluate", "gather", "done"} => step > 0
  /\ \A i \in Rows : /\ Earns(list[i], epLength[i], prevScore[i])
                     /\ step > 0 \/ isDone[i] => epLength[i] > 0

\* An iteration adds an entry to an episode that goes on.
LEMMA EarnsMore ==
  ASSUME NEW l \in Seq(Scored), NEW last, Earns(l, Len(l), last),
         Len(l) > 0 => ~l[Len(l)].won,
         NEW r, NEW x \in Nat, NEW won \in BOOLEAN,
         r.before = last, r.after = x, r.delta = x - last, r.won = won,
         r.reward = IF won THEN SuccessReward ELSE 0
  PROVE  Earns(Append(l, r), Len(l) + 1, x)
<1> DEFINE n == Len(l)
           k == Append(l, r)
<1>1. n \in Nat /\ (\A t \in 1..n : k[t] = l[t]) /\ k[n + 1] = r
  BY AppendProperties
<1>2. /\ last \in Nat
      /\ \A t \in 1..n : /\ l[t].delta = l[t].after - l[t].before
                         /\ l[t].reward = IF l[t].won THEN SuccessReward ELSE 0
                         /\ t < n => ~l[t].won /\ l[t + 1].before = l[t].after
      /\ n > 0 => l[n].after = last
      /\ n > 0 => ~l[n].won
  BY DEF Earns
<1>3. PICK m \in Nat : \A t \in 1..n : l[t].before \in 0..m /\ l[t].after \in 0..m
  BY DEF Earns
<1> HIDE DEF n, k
<1>4. \A t \in 1..(n + 1) : t = n + 1 \/ t \in 1..n
  BY <1>1
<1>5. \E b \in Nat : \A t \in 1..(n + 1) : k[t].before \in 0..b /\ k[t].after \in 0..b
  <2> DEFINE b == m + last + x
  <2>1. b \in Nat /\ m <= b /\ last \in 0..b /\ x \in 0..b
    BY <1>2
  <2> HIDE DEF b
  <2>2. \A t \in 1..n : k[t].before \in 0..b /\ k[t].after \in 0..b
    <3> SUFFICES ASSUME NEW t \in 1..n PROVE k[t].before \in 0..b /\ k[t].after \in 0..b
      OBVIOUS
    <3>1. l[t].before \in 0..m /\ l[t].after \in 0..m /\ k[t] = l[t]
      BY <1>1, <1>3
    <3>2. \A y \in 0..m : y \in 0..b
      BY <2>1
    <3> QED  BY <3>1, <3>2
  <2>3. k[n + 1].before \in 0..b /\ k[n + 1].after \in 0..b
    BY <1>1, <2>1
  <2> QED  BY <1>4, <2>1, <2>2, <2>3
<1>6. ASSUME NEW t \in 1..(n + 1)
      PROVE  /\ k[t].delta = k[t].after - k[t].before
             /\ k[t].reward = IF k[t].won THEN SuccessReward ELSE 0
             /\ t < n + 1 => ~k[t].won /\ k[t + 1].before = k[t].after
  <2>1. CASE t = n + 1
    BY <1>1, <2>1
  <2>2. CASE t \in 1..n
    <3>1. k[t] = l[t] /\ (t # n => t + 1 \in 1..n /\ t < n)
      BY <1>1, <2>2
    <3>2. CASE t = n
      BY <1>1, <1>2, <2>2, <3>1, <3>2
    <3>3. CASE t # n
      BY <1>1, <1>2, <2>2, <3>1, <3>3
    <3> QED  BY <3>2, <3>3
  <2> QED  BY <1>4, <2>1, <2>2
<1>7. k[n + 1].after = x
  BY <1>1
<1>8. Earns(k, n + 1, x)
  BY <1>5, <1>6, <1>7 DEF Earns
<1> QED  BY <1>8 DEF n, k

\* The other entries of a list do not matter.
LEMMA EarnsStill ==
  ASSUME NEW l, NEW k, NEW n \in Nat, NEW last, Earns(l, n, last),
         \A t \in 1..n : k[t] = l[t]
  PROVE  Earns(k, n, last)
<1>1. \A t \in 1..n : t < n => t + 1 \in 1..n
  OBVIOUS
<1>2. n > 0 => n \in 1..n
  OBVIOUS
<1> QED  BY <1>1, <1>2 DEF Earns

\* An iteration of the loop keeps Earns: it extends the list of an episode
\* that goes on, and masks the score of one that is over.
LEMMA GainOfStep ==
  ASSUME LoopInv, GainInv, NEW i \in Rows, NEW a \in Answers, Iterated(i, a),
         prevScore'[i] = RowOf(i, a).after
  PROVE  Earns(list'[i], epLength'[i], prevScore'[i]) /\ epLength'[i] > 0
<1> DEFINE r == RowOf(i, a)
           n == epLength[i]
           x == r.after
           l == list[i]
<1>1. /\ n \in Nat /\ l \in Seq(Scored) /\ Len(l) = step /\ n <= step /\ step \in Nat
      /\ (Active(i) => n = step) /\ (Won(i) => isDone[i]) /\ isDone[i] \in BOOLEAN
  BY DEF LoopInv, LoopTypeInv, EpisodeInv
<1>2. Earns(l, n, prevScore[i]) /\ (step > 0 \/ isDone[i] => n > 0)
  BY DEF GainInv
<1>3. prevScore[i] \in Nat
  BY <1>2 DEF Earns
<1>4. /\ epLength'[i] = n + (IF Active(i) THEN 1 ELSE 0)
      /\ list'[i] = Append(l, r) /\ prevScore'[i] = x
  BY DEF Iterated
<1>5. CASE Active(i)
  <2>1. x = SafeScore(a.score, prevScore[i])
    BY <1>5 DEF RowOf
  <2>2. x \in Nat
    <3>1. a.score \in Scores \cup {NoScore}
      BY DEF Answers
    <3>2. a.score # NoScore => a.score \in Nat
      BY <3>1, ScoresAssumption
    <3> QED  BY <1>3, <2>1, <3>2 DEF SafeScore
  <2>3. /\ r.before = prevScore[i] /\ r.delta = x - prevScore[i] /\ r.won = a.won
        /\ r.reward = Reward(a)
    BY DEF RowOf
  <2>4. a.won \in BOOLEAN /\ Reward(a) = IF a.won THEN SuccessReward ELSE 0
    BY AnswerFacts
  <2>5. n = Len(l) /\ epLength'[i] = Len(l) + 1 /\ (Len(l) > 0 => ~l[Len(l)].won)
    BY <1>1, <1>4, <1>5 DEF Active, Won
  <2> DEFINE last == prevScore[i]
             won == a.won
  <2>6. Earns(l, Len(l), last)
    BY <1>2, <2>5
  <2>7. r.before = last /\ r.delta = x - last /\ r.won = won /\ won \in BOOLEAN
        /\ r.reward = IF won THEN SuccessReward ELSE 0
    BY <2>3, <2>4
  <2>8. r.after = x
    OBVIOUS
  <2> HIDE DEF r, x, l, last, won
  <2>9. Earns(Append(l, r), Len(l) + 1, x)
    BY <1>1, <2>2, <2>5, <2>6, <2>7, <2>8, EarnsMore
  <2> QED  BY <1>1, <1>4, <2>5, <2>9
<1>6. CASE ~Active(i)
  <2>1. x = prevScore[i]
    BY <1>6 DEF RowOf
  <2>2. epLength'[i] = n /\ n > 0
    BY <1>1, <1>2, <1>4, <1>6 DEF Active
  <2>3. \A t \in 1..n : list'[i][t] = l[t]
    <3> HIDE DEF r, l
    <3>1. \A t \in 1..Len(l) : Append(l, r)[t] = l[t]
      BY <1>1, AppendProperties
    <3>2. \A t \in 1..n : t \in 1..Len(l)
      BY <1>1
    <3> QED  BY <1>4, <3>1, <3>2
  <2>4. Earns(list'[i], n, prevScore[i])
    <3> DEFINE k == list'[i]
               last == prevScore[i]
    <3>1. /\ n \in Nat /\ Earns(l, n, last) /\ \A t \in 1..n : k[t] = l[t]
      BY <1>1, <1>2, <2>3
    <3> HIDE DEF k, last, n, l
    <3>2. Earns(k, n, last)
      BY <3>1, EarnsStill
    <3> QED  BY <3>2 DEF k, last
  <2> QED  BY <1>4, <2>1, <2>2, <2>4
<1> QED  BY <1>5, <1>6

\* No entry has been made.
LEMMA EarnsNothing ==
  ASSUME NEW l, NEW last \in Nat
  PROVE  Earns(l, 0, last)
<1>1. 1..0 = {} /\ 0 \in Nat
  OBVIOUS
<1> QED  BY <1>1 DEF Earns

\* GainInv is inductive, relative to LoopInv.
LEMMA GainInvariant == Spec => []GainInv
<1>1. Init => GainInv
  <2> SUFFICES ASSUME Init PROVE GainInv
    OBVIOUS
  <2>1. ASSUME NEW i \in Rows PROVE Earns(list[i], epLength[i], prevScore[i])
    <3>1. epLength[i] = 0 /\ prevScore[i] \in Nat
      BY DEF Init
    <3> QED  BY <3>1, EarnsNothing
  <2> QED  BY <2>1 DEF Init, GainInv
<1>2. ASSUME LoopInv, GainInv, Reset PROVE GainInv'
  <2>1. PICK first \in [Rows -> Scores \cup {NoScore}] :
          prevScore' = [i \in Rows |-> SafeScore(first[i], 0)]
    BY <1>2 DEF Reset
  <2>2. /\ step' = step /\ isDone' = isDone /\ epLength' = epLength /\ list' = list
        /\ phase' = "step" /\ phase = "reset"
    BY <1>2 DEF Reset
  <2>3. ASSUME NEW i \in Rows
        PROVE  Earns(list'[i], epLength'[i], prevScore'[i])
    <3>1. epLength[i] = 0
      BY <1>2, <2>2 DEF GainInv, LoopInv, LoopTypeInv, EpisodeInv
    <3>2. prevScore'[i] \in Nat
      <4>1. first[i] \in Scores \cup {NoScore}
        OBVIOUS
      <4>2. first[i] # NoScore => first[i] \in Nat
        BY <4>1, ScoresAssumption
      <4> QED  BY <2>1, <4>2 DEF SafeScore
    <3> QED  BY <2>2, <3>1, <3>2, EarnsNothing
  <2> QED  BY <1>2, <2>2, <2>3 DEF GainInv
<1>3. ASSUME LoopInv, GainInv, Step PROVE GainInv'
  <2>1. PICK answer \in [Rows -> Answers] :
          /\ \A i \in Rows : Active(i) => answer[i] \in LiveAnswers
          /\ epReward' = [i \in Rows |->
               epReward[i] + (IF Active(i) THEN Reward(answer[i]) ELSE 0)]
          /\ epLength' = [i \in Rows |-> epLength[i] + (IF Active(i) THEN 1 ELSE 0)]
          /\ prevScore' = [i \in Rows |-> RowOf(i, answer[i]).after]
          /\ list' = [i \in Rows |-> Append(list[i], RowOf(i, answer[i]))]
          /\ isDone' = [i \in Rows |-> DoneAfter(i, answer[i])]
          /\ step' = step + 1
          /\ phase' = IF LoopEnds(step + 1, isDone') THEN "evaluate" ELSE "step"
    BY <1>3 DEF Step
  <2>2. ASSUME NEW i \in Rows
        PROVE  Earns(list'[i], epLength'[i], prevScore'[i]) /\ epLength'[i] > 0
    <3>1. answer[i] \in Answers /\ Iterated(i, answer[i])
          /\ prevScore'[i] = RowOf(i, answer[i]).after
      BY <2>1 DEF Iterated, LiveAnswers
    <3> QED  BY <1>3, <3>1, GainOfStep
  <2>3. step' > 0 /\ phase' # "reset"
    BY <1>3, <2>1 DEF LoopInv, LoopTypeInv
  <2> QED  BY <2>2, <2>3 DEF GainInv
<1>4. ASSUME GainInv, Evaluate \/ Gather \/ UNCHANGED vars PROVE GainInv'
  <2>1. /\ step' = step /\ isDone' = isDone /\ epLength' = epLength /\ list' = list
        /\ prevScore' = prevScore
        /\ \/ phase = "evaluate" /\ phase' = "gather"
           \/ phase = "gather" /\ phase' = "done"
           \/ phase' = phase
    BY <1>4 DEF Evaluate, Gather, vars
  <2> QED  BY <1>4, <2>1 DEF GainInv
<1>5. LoopInv /\ GainInv /\ [Next]_vars => GainInv'
  BY <1>2, <1>3, <1>4 DEF Next, Finished
<1> QED  BY <1>1, <1>5, LoopInvariant, PTL DEF Spec

-----------------------------------------------------------------------------
(* The sums of RowsAddUpToEpisode: a difference of two counts of units.    *)

\* g is the sum of d over the subsets of S, taken out member by member.
Folds(d, S, g) ==
  \A s \in SUBSET S :
    g[s] = IF s = {} THEN 0
           ELSE LET x == CHOOSE x \in s : TRUE IN d[x] + g[s \ {x}]

Differences(m, S, v, w, d) ==
  \A x \in S : v[x] \in 0..m /\ w[x] \in 0..m /\ d[x] = w[x] - v[x]

\* The sum of differences is the difference of the sums, whichever member the
\* fold takes out first.
LEMMA DifferencesAdd ==
  ASSUME NEW m \in Nat, NEW S, IsFiniteSet(S), NEW v, NEW w, NEW d,
         Differences(m, S, v, w, d)
  PROVE  /\ Folds(d, S, [s \in SUBSET S |-> Total(m, w, s) - Total(m, v, s)])
         /\ \A g : Folds(d, S, g) => g[S] = Total(m, w, S) - Total(m, v, S)
<1> DEFINE h == [s \in SUBSET S |-> Total(m, w, s) - Total(m, v, s)]
           c(s) == CHOOSE x \in s : TRUE
<1>1. \A s \in SUBSET S : IsFiniteSet(s)
  BY FS_Subset
<1>2. h[{}] = 0
  <2>1. Total(m, w, {}) = 0 /\ Total(m, v, {}) = 0
    BY TotalType, FS_EmptySet
  <2> QED  BY <2>1
<1>3. ASSUME NEW s \in SUBSET S, s # {}
      PROVE  c(s) \in s /\ h[s] = d[c(s)] + h[s \ {c(s)}]
  <2> DEFINE x == c(s)
             T == s \ {x}
  <2>1. x \in s
    BY <1>3
  <2> HIDE DEF x
  <2>2. /\ x \in S /\ x \notin T /\ s = T \cup {x} /\ IsFiniteSet(T) /\ T \in SUBSET S
    BY <1>1, <2>1
  <2>3. v[x] \in 0..m /\ w[x] \in 0..m /\ d[x] = w[x] - v[x]
    BY <2>2 DEF Differences
  <2>4. /\ Total(m, w, T \cup {x}) = Total(m, w, T) + w[x]
        /\ Total(m, v, T \cup {x}) = Total(m, v, T) + v[x]
    <3> HIDE DEF T
    <3> QED  BY <2>2, <2>3, TotalAdd
  <2>5. Total(m, w, T) \in Nat /\ Total(m, v, T) \in Nat
    <3> HIDE DEF T
    <3> QED  BY <2>2, TotalType
  <2> HIDE DEF T
  <2>6. h[s] = d[x] + h[T]
    <3>1. h[s] = Total(m, w, s) - Total(m, v, s) /\ h[T] = Total(m, w, T) - Total(m, v, T)
      BY <2>2
    <3> HIDE DEF h
    <3> QED  BY <2>2, <2>3, <2>4, <2>5, <3>1
  <2> QED  BY <2>1, <2>6 DEF x, T
<1>4. Folds(d, S, h)
  <2> HIDE DEF h
  <2> QED  BY <1>2, <1>3 DEF Folds
<1>5. ASSUME NEW g, Folds(d, S, g) PROVE g[S] = h[S]
  <2> DEFINE Wrong == {s \in SUBSET S : g[s] # h[s]}
             K == {Cardinality(s) : s \in Wrong}
  <2> HIDE DEF h
  <2>1. SUFFICES ASSUME Wrong # {} PROVE FALSE
    <3>1. S \in SUBSET S
      OBVIOUS
    <3> QED  BY <2>1, <3>1
  <2>2. K \in SUBSET Nat /\ K # {}
    BY <1>1, <2>1, FS_CardinalityType
  <2>3. PICK b \in K : \A e \in K : b <= e
    <3> HIDE DEF K
    <3> QED  BY <2>2, SmallestNumber
  <2>4. PICK s \in Wrong : b = Cardinality(s)
    OBVIOUS
  <2>5. s \in SUBSET S /\ g[s] # h[s]
    OBVIOUS
  <2>6. s # {}
    BY <1>2, <1>5, <2>5 DEF Folds
  <2> DEFINE x == c(s)
             T == s \ {x}
  <2>7. x \in s /\ T \in SUBSET S /\ h[s] = d[x] + h[T]
    BY <1>3, <2>5, <2>6
  <2>8. g[s] = d[x] + g[T]
    BY <1>5, <2>5, <2>6 DEF Folds
  <2> HIDE DEF x
  <2>9. Cardinality(T) = Cardinality(s) - 1 /\ Cardinality(s) \in Nat
    BY <1>1, <2>5, <2>7, FS_RemoveElement, FS_CardinalityType
  <2>10. T \notin Wrong
    <3>1. T \in Wrong => Cardinality(T) \in K
      OBVIOUS
    <3>2. Cardinality(T) \in K => b <= Cardinality(T)
      BY <2>3
    <3>3. ~(b <= Cardinality(T))
      BY <2>4, <2>9
    <3> QED  BY <3>1, <3>2, <3>3
  <2>11. g[T] = h[T]
    BY <2>7, <2>10
  <2> QED  BY <2>5, <2>7, <2>8, <2>11
<1>6. h[S] = Total(m, w, S) - Total(m, v, S)
  OBVIOUS
<1> HIDE DEF h
<1> QED  BY <1>4, <1>5, <1>6 DEF h

\* Hence whatever folds over S gives the difference of the two totals.
LEMMA FoldOfDifferences ==
  ASSUME NEW m \in Nat, NEW S, IsFiniteSet(S), NEW v, NEW w, NEW d,
         Differences(m, S, v, w, d), NEW f, Folds(d, S, f)
  PROVE  f[S] = Total(m, w, S) - Total(m, v, S)
<1>1. \A g : Folds(d, S, g) => g[S] = Total(m, w, S) - Total(m, v, S)
  BY DifferencesAdd
<1> QED  BY <1>1

\* The sum of the score gains of a set of training rows.
LEMMA SumOfDeltas ==
  ASSUME NEW m \in Nat, NEW S, IsFiniteSet(S), NEW v, NEW w, NEW d,
         Differences(m, S, v, w, d), \A b \in S : d[b] = b.row.delta
  PROVE  Sum(S, LAMBDA b : b.row.delta) = Total(m, w, S) - Total(m, v, S)
<1> DEFINE c(s) == CHOOSE x \in s : TRUE
           F(f, s) == IF s = {} THEN 0 ELSE c(s).row.delta + f[s \ {c(s)}]
           Loop(f) == f = [s \in SUBSET S |-> F(f, s)]
           g == CHOOSE f : Loop(f)
           h == [s \in SUBSET S |-> Total(m, w, s) - Total(m, v, s)]
<1>1. Sum(S, LAMBDA b : b.row.delta) = g[S]
  BY DEF Sum, MapThenSumSet, MapThenFoldSet
<1>2. \A s \in SUBSET S : s # {} => c(s) \in s /\ c(s) \in S
  OBVIOUS
<1>3. Folds(d, S, h)
  BY DifferencesAdd
<1>4. Loop(h)
  <2>1. ASSUME NEW s \in SUBSET S PROVE h[s] = F(h, s)
    <3>1. CASE s = {}
      <4> HIDE DEF h
      <4> QED  BY <1>3, <3>1 DEF Folds
    <3>2. CASE s # {}
      <4>1. c(s) \in S /\ d[c(s)] = c(s).row.delta
        BY <1>2, <3>2
      <4>2. h[s] = d[c(s)] + h[s \ {c(s)}]
        <5> HIDE DEF h
        <5> QED  BY <1>3, <3>2 DEF Folds
      <4> QED  BY <3>2, <4>1, <4>2
    <3> QED  BY <3>1, <3>2
  <2>2. h = [s \in SUBSET S |-> h[s]]
    OBVIOUS
  <2> HIDE DEF h, F
  <2> QED  BY <2>1, <2>2
<1>5. Loop(g)
  <2> HIDE DEF Loop, h
  <2> QED  BY <1>4
<1> HIDE DEF g, h
<1>6. \A s \in SUBSET S : g[s] = F(g, s)
  <2> HIDE DEF F
  <2> QED  BY <1>5
<1> HIDE DEF Loop
<1>7. Folds(d, S, g)
  <2> SUFFICES ASSUME NEW s \in SUBSET S
               PROVE  g[s] = IF s = {} THEN 0 ELSE d[c(s)] + g[s \ {c(s)}]
    BY DEF Folds
  <2>1. CASE s = {}
    BY <1>6, <2>1
  <2>2. CASE s # {}
    <3>1. c(s) \in S /\ d[c(s)] = c(s).row.delta
      BY <1>2, <2>2
    <3> QED  BY <1>6, <2>2, <3>1
  <2> QED  BY <2>1, <2>2
<1>8. g[S] = Total(m, w, S) - Total(m, v, S)
  <2> HIDE DEF c, F
  <2> HIDE DEF Loop
  <2> QED  BY <1>7, FoldOfDifferences
<1> QED  BY <1>1, <1>8

\* The same for the rewards.
LEMMA SumOfRewards ==
  ASSUME NEW m \in Nat, NEW S, IsFiniteSet(S), NEW v, NEW w, NEW d,
         Differences(m, S, v, w, d), \A b \in S : d[b] = b.row.reward
  PROVE  Sum(S, LAMBDA b : b.row.reward) = Total(m, w, S) - Total(m, v, S)
<1> DEFINE c(s) == CHOOSE x \in s : TRUE
           F(f, s) == IF s = {} THEN 0 ELSE c(s).row.reward + f[s \ {c(s)}]
           Loop(f) == f = [s \in SUBSET S |-> F(f, s)]
           g == CHOOSE f : Loop(f)
           h == [s \in SUBSET S |-> Total(m, w, s) - Total(m, v, s)]
<1>1. Sum(S, LAMBDA b : b.row.reward) = g[S]
  BY DEF Sum, MapThenSumSet, MapThenFoldSet
<1>2. \A s \in SUBSET S : s # {} => c(s) \in s /\ c(s) \in S
  OBVIOUS
<1>3. Folds(d, S, h)
  BY DifferencesAdd
<1>4. Loop(h)
  <2>1. ASSUME NEW s \in SUBSET S PROVE h[s] = F(h, s)
    <3>1. CASE s = {}
      <4> HIDE DEF h
      <4> QED  BY <1>3, <3>1 DEF Folds
    <3>2. CASE s # {}
      <4>1. c(s) \in S /\ d[c(s)] = c(s).row.reward
        BY <1>2, <3>2
      <4>2. h[s] = d[c(s)] + h[s \ {c(s)}]
        <5> HIDE DEF h
        <5> QED  BY <1>3, <3>2 DEF Folds
      <4> QED  BY <3>2, <4>1, <4>2
    <3> QED  BY <3>1, <3>2
  <2>2. h = [s \in SUBSET S |-> h[s]]
    OBVIOUS
  <2> HIDE DEF h, F
  <2> QED  BY <2>1, <2>2
<1>5. Loop(g)
  <2> HIDE DEF Loop, h
  <2> QED  BY <1>4
<1> HIDE DEF g, h
<1>6. \A s \in SUBSET S : g[s] = F(g, s)
  <2> HIDE DEF F
  <2> QED  BY <1>5
<1> HIDE DEF Loop
<1>7. Folds(d, S, g)
  <2> SUFFICES ASSUME NEW s \in SUBSET S
               PROVE  g[s] = IF s = {} THEN 0 ELSE d[c(s)] + g[s \ {c(s)}]
    BY DEF Folds
  <2>1. CASE s = {}
    BY <1>6, <2>1
  <2>2. CASE s # {}
    <3>1. c(s) \in S /\ d[c(s)] = c(s).row.reward
      BY <1>2, <2>2
    <3> QED  BY <1>6, <2>2, <3>1
  <2> QED  BY <2>1, <2>2
<1>8. g[S] = Total(m, w, S) - Total(m, v, S)
  <2> HIDE DEF c, F
  <2> HIDE DEF Loop
  <2> QED  BY <1>7, FoldOfDifferences
<1> QED  BY <1>1, <1>8

\* What an episode gains lies between its first score and its last: of two
\* successive entries, the score after the one is the score before the other.
LEMMA Telescope ==
  ASSUME NEW m \in Nat, NEW n \in Nat \ {0}, NEW A, NEW B,
         \A t \in 1..n : A[t] \in 0..m /\ B[t] \in 0..m,
         \A t \in 1..n : t < n => B[t + 1] = A[t]
  PROVE  Total(m, A, 1..n) - Total(m, B, 1..n) = A[n] - B[1]
<1> DEFINE P == 1..(n - 1)
           Q == 2..n
           f == [t \in P |-> t + 1]
<1>1. IsFiniteSet(P) /\ IsFiniteSet(Q)
  BY FS_Interval
<1>2. /\ 1..n = P \cup {n} /\ n \notin P /\ 1..n = Q \cup {1} /\ 1 \notin Q
      /\ A[n] \in 0..m /\ B[1] \in 0..m
  OBVIOUS
<1>3. f \in Bijection(P, Q)
  <2>1. f \in [P -> Q] /\ \A t, u \in P : f[t] = f[u] => t = u
    OBVIOUS
  <2>2. \A z \in Q : z - 1 \in P /\ f[z - 1] = z
    OBVIOUS
  <2> HIDE DEF f, P, Q
  <2> QED  BY <2>1, <2>2 DEF Bijection, Injection, Surjection, IsInjective
<1>4. \A t \in P : A[t] = B[f[t]]
  OBVIOUS
<1> HIDE DEF P, Q, f
<1>5. Total(m, A, P) = Total(m, B, Q)
  BY <1>1, <1>3, <1>4, TotalMoved
<1>6. Total(m, A, P) \in Nat /\ Total(m, B, Q) \in Nat
  BY <1>1, TotalType
<1>7. Total(m, A, P \cup {n}) = Total(m, A, P) + A[n]
  BY <1>1, <1>2, TotalAdd
<1>8. Total(m, B, Q \cup {1}) = Total(m, B, Q) + B[1]
  BY <1>1, <1>2, TotalAdd
<1>9. /\ Total(m, A, 1..n) = Total(m, A, P) + A[n]
      /\ Total(m, B, 1..n) = Total(m, B, Q) + B[1]
  BY <1>2, <1>7, <1>8
<1> HIDE <1>7, <1>8
<1> QED  BY <1>2, <1>5, <1>6, <1>9

\* A sum of zeros.
LEMMA TotalOfZeros ==
  ASSUME NEW m \in Nat, NEW T, IsFiniteSet(T), NEW w, \A x \in T : w[x] = 0
  PROVE  Total(m, w, T) = 0
<1>1. Units(m, w, T) = {}
  BY DEF Units
<1> QED  BY <1>1, FS_EmptySet DEF Total

\* Only the last of the entries is rewarded.
LEMMA LastRewarded ==
  ASSUME NEW m \in Nat, NEW n \in Nat \ {0}, NEW w, w[n] \in 0..m,
         \A t \in 1..(n - 1) : w[t] = 0
  PROVE  Total(m, w, 1..n) = w[n]
<1> DEFINE P == 1..(n - 1)
<1>1. IsFiniteSet(P) /\ 1..n = P \cup {n} /\ n \notin P
  <2>1. IsFiniteSet(P)
    BY FS_Interval
  <2> QED  BY <2>1
<1> HIDE DEF P
<1>2. Total(m, w, P) = 0
  BY <1>1, TotalOfZeros DEF P
<1>3. Total(m, w, P \cup {n}) = Total(m, w, P) + w[n]
  BY <1>1, TotalAdd
<1>4. Total(m, w, 1..n) = Total(m, w, P) + w[n]
  BY <1>1, <1>3
<1> QED  BY <1>2, <1>4

\* The rows of an episode that reach training gain what the episode gained.
LEMMA GatheredGains ==
  ASSUME LoopInv, GainInv, phase = "done", NEW i \in Rows
  PROVE  Sum(Gathered(i), LAMBDA b : b.row.delta) = prevScore[i] - list[i][1].before
<1> DEFINE n == epLength[i]
           l == list[i]
           S == Gathered(i)
           T == 1..n
           f == [t \in T |-> TrainingRow(i, t)]
           A == [t \in T |-> l[t].after]
           B == [t \in T |-> l[t].before]
           w == [b \in S |-> b.row.after]
           v == [b \in S |-> b.row.before]
           d == [b \in S |-> b.row.delta]
<1>1. n \in Nat \ {0} /\ Earns(l, n, prevScore[i])
  BY DEF LoopInv, LoopTypeInv, GainInv
<1>2. PICK m \in Nat : \A t \in 1..n : l[t].before \in 0..m /\ l[t].after \in 0..m
  BY <1>1 DEF Earns
<1>3. /\ \A t \in 1..n : /\ l[t].delta = l[t].after - l[t].before
                         /\ t < n => l[t + 1].before = l[t].after
      /\ l[n].after = prevScore[i]
  BY <1>1 DEF Earns
<1>4. IsFiniteSet(T) /\ f \in Bijection(T, S) /\ IsFiniteSet(S)
  BY GatheredByStep
<1>5. S = {TrainingRow(i, t) : t \in T}
  BY GatheredIs
<1>6. \A t \in T : f[t] \in S /\ f[t].row = l[t] /\ f[t] = TrainingRow(i, t)
  BY <1>5 DEF TrainingRow
<1>7. Differences(m, S, v, w, d)
  <2> SUFFICES ASSUME NEW b \in S
               PROVE  v[b] \in 0..m /\ w[b] \in 0..m /\ d[b] = w[b] - v[b]
    BY DEF Differences
  <2>1. PICK t \in T : b.row = l[t]
    BY <1>5 DEF TrainingRow
  <2>2. v[b] = l[t].before /\ w[b] = l[t].after /\ d[b] = l[t].delta
    BY <2>1
  <2>3. t \in 1..n
    OBVIOUS
  <2> QED  BY <1>2, <1>3, <2>2, <2>3
<1>8. \A t \in T : A[t] = w[f[t]] /\ B[t] = v[f[t]]
  BY <1>6
<1>9. Total(m, A, T) - Total(m, B, T) = A[n] - B[1]
  <2>1. \A t \in 1..n : A[t] \in 0..m /\ B[t] \in 0..m
    BY <1>2
  <2>2. \A t \in 1..n : t < n => B[t + 1] = A[t]
    <3> SUFFICES ASSUME NEW t \in 1..n, t < n PROVE B[t + 1] = A[t]
      OBVIOUS
    <3>1. t + 1 \in T /\ t \in T
      BY <1>1
    <3>2. B[t + 1] = l[t + 1].before /\ A[t] = l[t].after
      BY <3>1
    <3> QED  BY <1>3, <3>2
  <2> HIDE DEF A, B, n
  <2> QED  BY <1>1, <2>1, <2>2, Telescope
<1>10. A[n] = prevScore[i] /\ B[1] = l[1].before
  <2>1. n \in T /\ 1 \in T
    BY <1>1
  <2> QED  BY <1>3, <2>1
<1>11. \A b \in S : d[b] = b.row.delta
  OBVIOUS
<1> HIDE DEF S, T, f, A, B, v, w, d
<1>12. Total(m, A, T) = Total(m, w, S) /\ Total(m, B, T) = Total(m, v, S)
  BY <1>4, <1>8, TotalMoved
<1>13. Sum(S, LAMBDA b : b.row.delta) = Total(m, w, S) - Total(m, v, S)
  BY <1>4, <1>7, <1>11, SumOfDeltas
<1>14. Sum(S, LAMBDA b : b.row.delta) = prevScore[i] - l[1].before
  BY <1>9, <1>10, <1>12, <1>13
<1> QED  BY <1>14 DEF S

\* Their rewards add up to the reward of the episode.
LEMMA GatheredRewards ==
  ASSUME LoopInv, GainInv, phase = "done", NEW i \in Rows
  PROVE  Sum(Gathered(i), LAMBDA b : b.row.reward) = epReward[i]
<1> DEFINE n == epLength[i]
           l == list[i]
           S == Gathered(i)
           T == 1..n
           m == SuccessReward
           f == [t \in T |-> TrainingRow(i, t)]
           R == [t \in T |-> l[t].reward]
           w == [b \in S |-> b.row.reward]
           v == [b \in S |-> 0]
<1>1. n \in Nat \ {0} /\ Earns(l, n, prevScore[i]) /\ m \in Nat
  BY RewardAssumption DEF LoopInv, LoopTypeInv, GainInv
<1>2. /\ \A t \in 1..n : /\ l[t].reward = IF l[t].won THEN m ELSE 0
                         /\ t < n => ~l[t].won
  BY <1>1 DEF Earns
<1>3. IsFiniteSet(T) /\ f \in Bijection(T, S) /\ IsFiniteSet(S)
  BY GatheredByStep
<1>4. S = {TrainingRow(i, t) : t \in T}
  BY GatheredIs
<1>5. \A t \in T : f[t] \in S /\ f[t].row = l[t] /\ f[t] = TrainingRow(i, t)
  BY <1>4 DEF TrainingRow
<1>6. Differences(m, S, v, w, w)
  <2> SUFFICES ASSUME NEW b \in S
               PROVE  v[b] \in 0..m /\ w[b] \in 0..m /\ w[b] = w[b] - v[b]
    BY DEF Differences
  <2>1. PICK t \in T : b.row = l[t]
    BY <1>4 DEF TrainingRow
  <2>2. v[b] = 0 /\ w[b] = l[t].reward
    BY <2>1
  <2>3. w[b] = m \/ w[b] = 0
    BY <1>2, <2>2
  <2> HIDE DEF m
  <2> QED  BY <1>1, <2>2, <2>3
<1>7. \A t \in T : R[t] = w[f[t]]
  BY <1>5
<1>8. R[n] = IF l[n].won THEN m ELSE 0
  <2>1. n \in T
    BY <1>1
  <2> QED  BY <1>2, <2>1
<1>9. Total(m, R, T) = R[n]
  <2>1. R[n] \in 0..m
    BY <1>1, <1>8
  <2>2. \A t \in 1..(n - 1) : R[t] = 0
    <3> SUFFICES ASSUME NEW t \in 1..(n - 1) PROVE R[t] = 0
      OBVIOUS
    <3>1. t \in T /\ t \in 1..n /\ t < n
      BY <1>1
    <3> QED  BY <1>2, <3>1
  <2> HIDE DEF R, n, m
  <2> QED  BY <1>1, <2>1, <2>2, LastRewarded
<1>10. epReward[i] = R[n] /\ R[n] \in Nat
  <2>1. epReward[i] = IF n > 0 /\ l[n].won THEN SuccessReward ELSE 0
    BY DEF LoopInv, EpisodeInv, Won
  <2> QED  BY <1>1, <1>8, <2>1
<1>11. (\A b \in S : w[b] = b.row.reward) /\ (\A b \in S : v[b] = 0)
  OBVIOUS
<1> HIDE DEF S, T, m, f, R, v, w
<1>12. Total(m, R, T) = Total(m, w, S)
  BY <1>1, <1>3, <1>7, TotalMoved
<1>13. Total(m, v, S) = 0
  BY <1>1, <1>3, <1>11, TotalOfZeros
<1>14. Sum(S, LAMBDA b : b.row.reward) = Total(m, w, S) - Total(m, v, S)
  BY <1>1, <1>3, <1>6, <1>11, SumOfRewards
<1>15. Sum(S, LAMBDA b : b.row.reward) = epReward[i]
  BY <1>9, <1>10, <1>12, <1>13, <1>14
<1> QED  BY <1>15 DEF S

\* What training sees of an episode is the episode: the rewards of its rows
\* add up to the episode's reward and their score gains to its gain, whatever
\* the environments of finished episodes answered meanwhile.
THEOREM RowsAddUp == Spec => []RowsAddUpToEpisode
<1>1. ASSUME LoopInv, GainInv, phase = "done" => RowsCarryEpisode
      PROVE  RowsAddUpToEpisode
  <2> SUFFICES ASSUME phase = "done"
               PROVE  \A i \in Rows :
                        /\ Sum(Gathered(i), LAMBDA b : b.row.reward) = epReward[i]
                        /\ Sum(Gathered(i), LAMBDA b : b.row.delta)
                             = prevScore[i] - list[i][1].before
    BY <1>1 DEF RowsAddUpToEpisode
  <2> QED  BY <1>1, GatheredGains, GatheredRewards
<1> QED  BY <1>1, LoopInvariant, GainInvariant, TrainingSeesTheEpisodes, PTL
=============================================================================
