------------------------------ MODULE Episodes ------------------------------
(***************************************************************************)
(* What a rollout promises: one independent episode per row of the batch.  *)
(* An episode plays against its own environment until the environment says *)
(* it is done or MaxSteps steps are played; then its length, its reward    *)
(* and its success are final, whatever happens to the other rows.          *)
(***************************************************************************)
EXTENDS Integers

CONSTANTS Rows, MaxSteps, SuccessReward

VARIABLE episode   \* episode[i]: length, reward, won so far, over

NewEpisode == [length |-> 0, reward |-> 0, won |-> FALSE, over |-> FALSE]

EpInit == episode = [i \in Rows |-> NewEpisode]

\* Episode i plays one step: a win is rewarded once, by ending the episode.
Play(i) ==
  /\ ~episode[i].over
  /\ episode[i].length < MaxSteps
  /\ \E won, over \in BOOLEAN :
       /\ won => over
       /\ episode'[i] =
            [length |-> episode[i].length + 1,
             reward |-> episode[i].reward + (IF won THEN SuccessReward ELSE 0),
             won    |-> won,
             over   |-> over]

\* The rows play in any combination; nobody else's step touches an episode.
EpNext ==
  /\ DOMAIN episode' = Rows
  /\ \A i \in Rows : Play(i) \/ episode'[i] = episode[i]

EpSpec == EpInit /\ [][EpNext]_episode
=============================================================================
