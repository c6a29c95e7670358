----------------------------- MODULE Checkpoint -----------------------------
(***************************************************************************)
(* Saving, rotating and resuming checkpoints: RayPPOTrainer._save_checkpoint,*)
(* _load_checkpoint and the skeleton of fit() on the driver, and           *)
(* FSDPCheckpointManager.save_checkpoint / load_checkpoint on every rank.  *)
(*                                                                         *)
(* A checkpoint of step s is the directory global_step_s with one shard    *)
(* per role and rank and the dataloader state data.pt.  The driver saves   *)
(* the actor, then the critic, then data.pt, and at last rewrites the      *)
(* tracker file latest_checkpointed_iteration.txt.  Each rank first        *)
(* removes the checkpoints its in-memory list says are too many, then      *)
(* makes the directory, waits for the others, writes, and waits again.     *)
(*                                                                         *)
(* Abstractions: a rank's model, optimizer and extra files are one shard;  *)
(* its content is the number of the process (life) that wrote it, which    *)
(* tells a coherent checkpoint from a mixture of two runs.  Any crash or   *)
(* uncaught exception takes the whole job down.  The directory is on a     *)
(* file system all ranks share; no HDFS (load from it is not implemented). *)
(***************************************************************************)
EXTENDS Integers, Sequences, FiniteSets

CONSTANTS
  Ranks,        \* ranks of a worker group (the same for both roles)
  Roles,        \* {"actor"} or {"actor", "critic"}: use_critic
  MaxKeep,      \* [Roles -> Nat]: max_actor/critic_ckpt_to_keep, 0 for null
  SaveFreq,     \* trainer.save_freq
  TotalSteps,   \* total_training_steps
  ResumeModes,  \* the resume modes an operator may launch with
  MaxStep,      \* bound: the largest step number that is trained
  MaxLives      \* bound: launches of the job in one behaviour

ASSUME RanksAssumption == IsFiniteSet(Ranks) /\ Ranks # {}
ASSUME RolesAssumption == "actor" \in Roles /\ Roles \subseteq {"actor", "critic"}
ASSUME MaxKeepAssumption == MaxKeep \in [Roles -> Nat]
ASSUME StepsAssumption ==
  /\ SaveFreq \in Nat \ {0}
  /\ TotalSteps \in Nat \ {0}
  /\ MaxStep \in Nat
  /\ MaxLives \in Nat
ASSUME ModesAssumption == ResumeModes \subseteq {"auto", "disable", "resume_path"}

VARIABLES
  \* ---- the file system: survives a crash ----
  shard,    \* shard[s][r][k]: Absent, Partial, or the life that wrote it
  data,     \* data[s].life as above; data[s].pos: dataloader position in data.pt
  dirs,     \* steps s whose directory global_step_s exists
  tracker,  \* content of the tracker file: NoTracker, Torn (empty) or a step
  \* ---- the job: lost in a crash ----
  life,     \* number of launches so far
  phase,    \* where the driver is
  gstep,    \* self.global_steps
  pos,      \* batches the dataloader has yielded
  rpc,      \* rpc[k]: where rank k is in save_checkpoint
  paths     \* paths[r][k]: previous_saved_paths of role r's manager on rank k

fsVars == <<shard, data, dirs, tracker>>
vars   == <<shard, data, dirs, tracker, life, phase, gstep, pos, rpc, paths>>

Absent    == 0
Partial   == -1
NoTracker == 0
Torn      == -1

Steps     == 1..MaxStep
RolePhase == {"actor", "critic"}
Phases    == RolePhase \cup
             {"down", "failed", "head", "data", "dumping", "open", "write"}
RankPcs   == {"idle", "prune", "mkdir", "entered", "writing", "dumped"}

Up == phase \notin {"down", "failed"}

\* Mutant: the critic is forgotten.
AfterSkipsCritic(r) == "data"

\* The driver saves the actor, then the critic if there is one, then data.pt.
After(r) == IF r = "actor" /\ "critic" \in Roles THEN "critic" ELSE "data"

AllRanks(pc)   == [k \in Ranks |-> pc]
NoSavedPaths   == [r \in Roles |-> [k \in Ranks |-> << >>]]
NoFile         == [life |-> Absent, pos |-> 0]

\* Every shard of step s can be read; who wrote them is not looked at.
Loadable(s) ==
  /\ s \in dirs
  /\ \A r \in Roles, k \in Ranks : shard[s][r][k] \notin {Absent, Partial}
  /\ data[s].life # Partial

-----------------------------------------------------------------------------
Init ==
  /\ shard = [s \in Steps |-> [r \in Roles |-> AllRanks(Absent)]]
  /\ data = [s \in Steps |-> NoFile]
  /\ dirs = {}
  /\ tracker = NoTracker
  /\ life = 0
  /\ phase = "down"
  /\ gstep = 0
  /\ pos = 0
  /\ rpc = AllRanks("idle")
  /\ paths = NoSavedPaths

\* The process is gone: only the file system is left.
Exit(how) ==
  /\ phase' = how
  /\ gstep' = 0
  /\ pos' = 0
  /\ rpc' = AllRanks("idle")
  /\ paths' = NoSavedPaths

-----------------------------------------------------------------------------
(* fit(): global_steps = 0, _load_checkpoint(), global_steps += 1.         *)

FromScratch ==
  /\ phase' = "head"
  /\ gstep' = 1
  /\ pos' = 0

\* Mutant: the checkpointed step is trained once more.
ResumeRepeatsStep(s) ==
  IF Loadable(s)
  THEN /\ phase' = "head"
       /\ gstep' = s
       /\ pos' = data[s].pos
  ELSE /\ phase' = "failed"
       /\ UNCHANGED <<gstep, pos>>

\* Load step s; a missing data.pt is a warning, a missing shard an exception.
ResumeFrom(s) ==
  IF Loadable(s)
  THEN /\ phase' = "head"
       /\ gstep' = s + 1
       /\ pos' = data[s].pos
  ELSE /\ phase' = "failed"
       /\ UNCHANGED <<gstep, pos>>

\* Mutant: the tracker is not looked for.
LaunchForgetful == "auto" \in ResumeModes /\ FromScratch

\* find_latest_ckpt_path runs first in both modes: int("") raises.
LaunchAuto ==
  /\ "auto" \in ResumeModes
  /\ \/ /\ tracker = Torn
        /\ phase' = "failed"
        /\ UNCHANGED <<gstep, pos>>
     \/ /\ tracker # Torn
        /\ tracker \notin dirs
        /\ FromScratch
     \/ /\ tracker # Torn
        /\ tracker \in dirs
        /\ ResumeFrom(tracker)

LaunchDisable ==
  /\ "disable" \in ResumeModes
  /\ FromScratch

LaunchPath(s) ==
  /\ "resume_path" \in ResumeModes
  /\ \/ /\ tracker = Torn
        /\ phase' = "failed"
        /\ UNCHANGED <<gstep, pos>>
     \/ /\ tracker # Torn
        /\ ResumeFrom(s)

Launch ==
  /\ ~Up
  /\ life < MaxLives
  /\ life' = life + 1
  /\ \/ LaunchAuto
     \/ LaunchDisable
     \/ \E s \in dirs : LaunchPath(s)
  /\ UNCHANGED <<shard, data, dirs, tracker, rpc, paths>>

-----------------------------------------------------------------------------
(* fit(): one iteration of the loop.                                       *)

\* Mutant: equality, which a job resumed behind the end never meets.
IsExactlyLastStep == gstep = TotalSteps

IsLastStep == gstep >= TotalSteps

\* Mutant: the period is ignored.
SaveAtTheEnd == IsLastStep

SaveDue    == IsLastStep \/ gstep % SaveFreq = 0

\* The end of an iteration: global_steps += 1, or the end of training.
NextStep ==
  IF IsLastStep
  THEN Exit("down")
  ELSE /\ phase' = "head"
       /\ gstep' = gstep + 1
       /\ UNCHANGED <<pos, rpc, paths>>

\* Take the next batch, update the models; then save or go on.
TrainStep ==
  /\ phase = "head"
  /\ gstep \in Steps
  /\ \/ /\ SaveDue
        /\ phase' = "actor"
        /\ pos' = pos + 1
        /\ rpc' = AllRanks("prune")
        /\ UNCHANGED <<gstep, paths>>
     \/ /\ ~SaveDue
        /\ phase' = "head"
        /\ gstep' = gstep + 1
        /\ pos' = pos + 1
        /\ UNCHANGED <<rpc, paths>>
  /\ UNCHANGED <<shard, data, dirs, tracker, life>>

\* A job resumed from the last step may find the dataloader exhausted.
DataExhausted ==
  /\ phase = "head"
  /\ gstep > TotalSteps
  /\ Exit("down")
  /\ UNCHANGED <<shard, data, dirs, tracker, life>>

-----------------------------------------------------------------------------
(* FSDPCheckpointManager.save_checkpoint on rank k, for the role the driver *)
(* is saving.                                                              *)

\* Mutants: one checkpoint too many, or too few, is removed.
KeepStartGreedy(list, m) ==
  IF m > 0 /\ Len(list) >= m THEN Len(list) - m + 2 ELSE 0

KeepStartLate(list, m) ==
  IF m > 0 /\ Len(list) > m THEN Len(list) - m + 1 ELSE 0

\* How many of the oldest saved paths a save with limit m removes.
KeepStart(list, m) ==
  IF m > 0 /\ Len(list) >= m THEN Len(list) - m + 1 ELSE 0

Doomed(list, m) == {list[i] : i \in 1..KeepStart(list, m)}

\* remove_previous_save_local_path: global_step_s/<role>, all ranks' shards.
Prune(k) ==
  /\ phase \in RolePhase
  /\ rpc[k] = "prune"
  /\ LET list == paths[phase][k]
         m    == MaxKeep[phase]
     IN /\ shard' = [s \in Steps |->
                       IF s \in Doomed(list, m)
                       THEN [shard[s] EXCEPT ![phase] = AllRanks(Absent)]
                       ELSE shard[s]]
        /\ paths' = [paths EXCEPT ![phase][k] =
                       SubSeq(list, KeepStart(list, m) + 1, Len(list))]
  /\ rpc' = [rpc EXCEPT ![k] = "mkdir"]
  /\ UNCHANGED <<data, dirs, tracker, life, phase, gstep, pos>>

\* Mutant: the directory is named after the step the period began with.
MkdirOfPeriodStart(k) ==
  /\ phase \in RolePhase
  /\ rpc[k] = "mkdir"
  /\ dirs' = dirs \cup {gstep - SaveFreq}
  /\ rpc' = [rpc EXCEPT ![k] = "entered"]
  /\ UNCHANGED <<shard, data, tracker, life, phase, gstep, pos, paths>>

Mkdir(k) ==
  /\ phase \in RolePhase
  /\ rpc[k] = "mkdir"
  /\ dirs' = dirs \cup {gstep}
  /\ rpc' = [rpc EXCEPT ![k] = "entered"]
  /\ UNCHANGED <<shard, data, tracker, life, phase, gstep, pos, paths>>

\* torch.save opens the file for writing: an old shard is gone from here on.
\* The first barrier: nobody writes before everybody has made the directory.
OpenShard(k) ==
  /\ phase \in RolePhase
  /\ rpc[k] = "entered"
  /\ \A j \in Ranks : rpc[j] \notin {"prune", "mkdir"}
  /\ shard' = [shard EXCEPT ![gstep][phase][k] = Partial]
  /\ rpc' = [rpc EXCEPT ![k] = "writing"]
  /\ UNCHANGED <<data, dirs, tracker, life, phase, gstep, pos, paths>>

WriteShard(k) ==
  /\ phase \in RolePhase
  /\ rpc[k] = "writing"
  /\ shard' = [shard EXCEPT ![gstep][phase][k] = life]
  /\ rpc' = [rpc EXCEPT ![k] = "dumped"]
  /\ UNCHANGED <<data, dirs, tracker, life, phase, gstep, pos, paths>>

\* Mutant: the RPC returns with the first rank, there is no second barrier.
RoleSavedEarly ==
  /\ phase \in RolePhase
  /\ \E k \in Ranks : rpc[k] = "dumped"
  /\ paths' = [paths EXCEPT ![phase] =
                 [k \in Ranks |-> Append(paths[phase][k], gstep)]]
  /\ phase' = After(phase)
  /\ rpc' = AllRanks(IF After(phase) = "data" THEN "idle" ELSE "prune")
  /\ UNCHANGED <<shard, data, dirs, tracker, life, gstep, pos>>

\* The second barrier; every rank appends the path and the RPC returns.
RoleSaved ==
  /\ phase \in RolePhase
  /\ \A k \in Ranks : rpc[k] = "dumped"
  /\ paths' = [paths EXCEPT ![phase] =
                 [k \in Ranks |-> Append(paths[phase][k], gstep)]]
  /\ phase' = After(phase)
  /\ rpc' = AllRanks(IF After(phase) = "data" THEN "idle" ELSE "prune")
  /\ UNCHANGED <<shard, data, dirs, tracker, life, gstep, pos>>

-----------------------------------------------------------------------------
(* _save_checkpoint: data.pt and the tracker, on the driver.               *)

OpenData ==
  /\ phase = "data"
  /\ data' = [data EXCEPT ![gstep] = [life |-> Partial, pos |-> 0]]
  /\ phase' = "dumping"
  /\ UNCHANGED <<shard, dirs, tracker, life, gstep, pos, rpc, paths>>

WriteData ==
  /\ phase = "dumping"
  /\ data' = [data EXCEPT ![gstep] = [life |-> life, pos |-> pos]]
  /\ phase' = "open"
  /\ UNCHANGED <<shard, dirs, tracker, life, gstep, pos, rpc, paths>>

\* open(tracker, "w") truncates the file ...
OpenTracker ==
  /\ phase = "open"
  /\ tracker' = Torn
  /\ phase' = "write"
  /\ UNCHANGED <<shard, data, dirs, life, gstep, pos, rpc, paths>>

\* ... and the number is in it when the file is closed.
WriteTracker ==
  /\ phase = "write"
  /\ tracker' = gstep
  /\ NextStep
  /\ UNCHANGED <<shard, data, dirs, life>>

-----------------------------------------------------------------------------
\* The bound on launches: the last one is not crashed, so that a behaviour
\* never ends because nobody could launch the job again.
Crash ==
  /\ Up
  /\ life < MaxLives
  /\ Exit("down")
  /\ UNCHANGED <<shard, data, dirs, tracker, life>>

RankStep(k) == Prune(k) \/ Mkdir(k) \/ OpenShard(k) \/ WriteShard(k)

DriverStep ==
  \/ TrainStep \/ DataExhausted
  \/ RoleSaved \/ OpenData \/ WriteData \/ OpenTracker \/ WriteTracker

\* The job is over and is not launched again.
Finished ==
  /\ ~Up
  /\ life = MaxLives
  /\ UNCHANGED vars

Next ==
  \/ Launch
  \/ DriverStep
  \/ \E k \in Ranks : RankStep(k)
  \/ Crash
  \/ Finished

Spec == Init /\ [][Next]_vars

\* The processes run (a rank blocked in a barrier waits for the others, no
\* longer), and somebody launches the job again after a crash.
Fairness ==
  /\ WF_vars(DriverStep)
  /\ \A k \in Ranks : WF_vars(RankStep(k))
  /\ WF_vars(Launch)

FairSpec == Spec /\ Fairness

-----------------------------------------------------------------------------
TypeOK ==
  /\ shard \in [Steps -> [Roles -> [Ranks -> Nat \cup {Partial}]]]
  /\ data \in [Steps -> [life : Nat \cup {Partial}, pos : Nat]]
  /\ dirs \in SUBSET Steps
  /\ tracker \in Nat \cup {Torn}
  /\ life \in Nat
  /\ phase \in {"down", "failed", "head", "data", "dumping", "open", "write"}
               \cup Roles
  /\ gstep \in IF phase \in {"down", "failed", "head"} THEN Nat ELSE Steps
  /\ pos \in Nat
  /\ rpc \in [Ranks -> RankPcs]
  /\ paths \in [Roles -> [Ranks -> Seq(Steps)]]

\* Step s can be loaded and was written by one process as a whole: every
\* shard of every role, and the dataloader state that goes with the weights.
Coherent(s) ==
  \E l \in 1..life :
    /\ \A r \in Roles, k \in Ranks : shard[s][r][k] = l
    /\ data[s] = [life |-> l, pos |-> s]

\* The tracker never names a checkpoint that is missing a file, is half
\* written, or mixes files of two processes: at every moment of a save, at
\* every interleaving of the ranks, and after every crash.
TrackerNamesCoherent ==
  tracker \in Steps => tracker \in dirs /\ Coherent(tracker)

\* A launch with resume_mode=auto fails for one reason only: the job was
\* killed while it rewrote the tracker file.
OnlyTornTrackerFails == phase = "failed" => tracker = Torn

\* The training step and the dataloader stay in step across crashes and
\* resumes: step g always trains on the g-th batch.
DataloaderInStep ==
  phase = "head" => pos = gstep - 1

\* Rotation: of the checkpoints this process has written, a role never keeps
\* more than its limit on disk, at any point of a save.
KeepsAtMost ==
  \A r \in Roles : MaxKeep[r] > 0 =>
    Cardinality({s \in Steps : \E k \in Ranks :
                   shard[s][r][k] = life /\ Up}) <= MaxKeep[r]

\* Rotation never removes a shard of the checkpoint the tracker names, whatever
\* the operator resumed from: the tracker may run behind the saved paths, the
\* removal happens before the new checkpoint exists.
RotationSparesTracker ==
  tracker \in Steps =>
    \A r \in Roles, k \in Ranks : shard[tracker][r][k] # Absent

\* The documented meaning of resume_mode=auto: find the last checkpoint or
\* start from scratch.  It does not hold: see the README, "Deviations".
AutoFindsOrStartsFromScratch == phase # "failed"

\* A finished job that is launched again resumes behind the end, where the
\* loop tests for the last step only after it has trained one: every launch
\* after the first may add one step to the training, and never a second one.
OneStepPerLaunchPastTheEnd ==
  Up => gstep < TotalSteps + life

\* The tracker never goes back: the step it names gives way only to the save
\* of a later step, by way of the empty file, and what is then written into
\* the empty file is that later step.
TrackerMonotone ==
  [][/\ tracker \in Steps /\ tracker' # tracker =>
          tracker' = Torn /\ gstep' = gstep /\ gstep > tracker
     /\ tracker' \in Steps /\ tracker' # tracker =>
          tracker = Torn /\ tracker' = gstep]_vars

\* A crash costs at most SaveFreq steps: whatever is trained right after a
\* launch is within SaveFreq steps of where the job was when it went down.
LosesAtMost ==
  [][Up /\ phase' = "down" /\ tracker' # Torn =>
       gstep - tracker' <= SaveFreq \/ gstep > TotalSteps]_vars

\* Training is driven to the last checkpoint in spite of crashes, unless the
\* job was killed in the middle of rewriting the tracker.
Finishes ==
  <>[](tracker >= TotalSteps \/ (phase = "failed" /\ tracker = Torn))

\* The detailed system implements the abstract one.
R == INSTANCE ResumableTraining WITH
       mode    <- IF Up THEN "up" ELSE IF phase = "failed" THEN "stuck"
                  ELSE "down",
       step    <- gstep,
       durable <- tracker

ResumesAsPromised == R!AbsSpec
=============================================================================
