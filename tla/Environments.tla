---------------------------- MODULE Environments ----------------------------
(***************************************************************************)
(* make_envs: config.env.env_name selects the environments of a training   *)
(* run, here ALFWorld's Ray actors or SciWorld's processes.                *)
(***************************************************************************)
EXTENDS ExpertWorkers, SciWorldEnvs

VARIABLE envName  \* config.env.env_name

EnvInit ==
  /\ envName \in {"alfworld", "sciworld"}
  /\ Init
  /\ SciInit

EnvNext ==
  /\ \/ envName = "alfworld" /\ Next /\ UNCHANGED sciVars
     \/ envName = "sciworld" /\ SciNext /\ UNCHANGED vars
  /\ UNCHANGED envName

EnvSpec ==
  EnvInit /\ [][EnvNext]_<<vars, sciVars, envName>> /\ SciFairness
=============================================================================
