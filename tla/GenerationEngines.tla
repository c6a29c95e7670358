-------------------------- MODULE GenerationEngines --------------------------
(***************************************************************************)
(* config.actor_rollout_ref.rollout selects what generates: with mode=sync *)
(* and multi_turn.enable the SGLang requests of each worker, with          *)
(* mode=async the servers behind a chat scheduler.                         *)
(***************************************************************************)
EXTENDS ToolRollout, ChatScheduler

VARIABLE rolloutMode  \* config.actor_rollout_ref.rollout.mode

ModeInit ==
  /\ rolloutMode \in {"sync", "async"}
  /\ ToolInit
  /\ ChatInit

ModeNext ==
  /\ \/ rolloutMode = "sync" /\ ToolNext /\ UNCHANGED chatVars
     \/ rolloutMode = "async" /\ ChatNext /\ UNCHANGED toolVars
  /\ UNCHANGED rolloutMode

EnginesSpec ==
  ModeInit /\ [][ModeNext]_<<toolVars, chatVars, rolloutMode>> /\ ToolFairness
=============================================================================
