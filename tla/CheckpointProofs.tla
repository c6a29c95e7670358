-------------------------- MODULE CheckpointProofs --------------------------
(***************************************************************************)
(* Checkpoint.tla for every number of ranks, retention limit, save         *)
(* frequency, length of training and number of crashes.                    *)
(*                                                                         *)
(* The inductive invariant IInv says, besides what the theorems state:     *)
(*  - SavingInv: while step gstep is being saved, the tracker still names  *)
(*    an older step (or is being rewritten), so no file the tracker stands *)
(*    for is written to;                                                   *)
(*  - PathsInv: a manager's list of saved paths is increasing, and until   *)
(*    its role has been saved in the current round the list ends at or     *)
(*    below the tracker.  Rotation with a limit of at least two keeps the  *)
(*    last element, so it can remove nothing the tracker names;            *)
(*  - ProgressInv: what has been saved so far in the current round.        *)
(*                                                                         *)
(* Further invariants, each for one property:                              *)
(*  - KeepInv: whatever a process has written is in the list of every rank *)
(*    of the role, and a list past its rotation has room for one more;     *)
(*  - SparesInv: the newest path of a list is the step being saved or the  *)
(*    one the tracker names, which a limit of two or more keeps;           *)
(*  - EndInv: the steps past the end are at most as many as the launches;  *)
(*  - DueInv: the tracker names a step that was due, and the job is at     *)
(*    most a period past it.                                               *)
(***************************************************************************)
EXTENDS Checkpoint, NumberLemmas, FiniteSetTheorems, TLAPS

\* The operator launches with resume_mode=auto, the default, ...
AutoOnly == ResumeModes = {"auto"}
\* ... and keeps all checkpoints or at least two of each role.
KeepsTwo == \A r \in Roles : MaxKeep[r] # 1

Tail4 == {"data", "dumping", "open", "write"}

\* The driver is inside _save_checkpoint.
Saving == phase \in Roles \cup Tail4

\* Role r has been saved in the current round.
Saved(r) == phase \in Tail4 \/ (phase = "critic" /\ r = "actor")

UpInv ==
  Up => /\ gstep > 0
        /\ life > 0
        /\ tracker < gstep
        /\ phase = "write" <=> tracker = Torn
        /\ pos = IF phase = "head" THEN gstep - 1 ELSE gstep

TrackerInv ==
  tracker > 0 =>
    /\ tracker \in dirs
    /\ \E l \in 1..life :
         /\ \A r \in Roles : \A k \in Ranks : shard[tracker][r][k] = l
         /\ data[tracker] = [life |-> l, pos |-> tracker]

Increasing(list) ==
  \A i, j \in 1..Len(list) : i < j => list[i] < list[j]

PathsInv ==
  \A r \in Roles : \A k \in Ranks :
    /\ Increasing(paths[r][k])
    /\ \A i \in 1..Len(paths[r][k]) :
         /\ Up
         /\ paths[r][k][i] <= gstep
         /\ ~Saved(r) => paths[r][k][i] <= tracker

ProgressInv ==
  Saving =>
    /\ \A k \in Ranks : (phase \in Tail4 \/ rpc[k] \notin {"prune", "mkdir"})
                          => gstep \in dirs
    /\ \A r \in Roles : \A k \in Ranks :
         (Saved(r) \/ (phase = r /\ rpc[k] = "dumped"))
           => shard[gstep][r][k] = life
    /\ phase \in {"open", "write"} => data[gstep] = [life |-> life, pos |-> gstep]

IInv ==
  /\ TypeOK
  /\ phase = "failed" => tracker = Torn
  /\ tracker \in Steps \cup {NoTracker, Torn}
  /\ UpInv
  /\ TrackerInv
  /\ PathsInv
  /\ ProgressInv

-----------------------------------------------------------------------------
(* Type correctness.                                                       *)

\* What a rotation keeps is a suffix of the list, and a sequence of steps.
LEMMA SuffixType ==
  ASSUME NEW S, NEW list \in Seq(S), NEW n \in Nat, n <= Len(list)
  PROVE  /\ SubSeq(list, n + 1, Len(list)) \in Seq(S)
         /\ Len(SubSeq(list, n + 1, Len(list))) = Len(list) - n
         /\ \A i \in 1..(Len(list) - n) :
              SubSeq(list, n + 1, Len(list))[i] = list[n + i]
  OBVIOUS

\* The number of removed paths is a number of elements of the list.
LEMMA KeepStartType ==
  ASSUME NEW S, NEW list \in Seq(S), NEW m \in Nat
  PROVE  KeepStart(list, m) \in Nat /\ KeepStart(list, m) <= Len(list)
  BY DEF KeepStart

LEMMA TypeInductive ==
  ASSUME TypeOK, [Next]_vars
  PROVE  TypeOK'
<1> USE RolesAssumption, StepsAssumption, MaxKeepAssumption
<1> USE DEF TypeOK, Steps, Partial, Torn, NoTracker, Absent, RankPcs, AllRanks
<1>1. CASE Launch
  <2>1. /\ phase' \in {"head", "failed"}
        /\ gstep' \in Nat
        /\ pos' \in Nat
    BY <1>1 DEF Launch, LaunchAuto, LaunchDisable, LaunchPath, FromScratch,
                ResumeFrom, Loadable
  <2> QED  BY <1>1, <2>1 DEF Launch
<1>2. CASE TrainStep
  BY <1>2 DEF TrainStep
<1>3. CASE DataExhausted
  BY <1>3 DEF DataExhausted, Exit, NoSavedPaths
<1>4. CASE RoleSaved
  BY <1>4 DEF RoleSaved, After, RolePhase
<1>5. CASE OpenData
  BY <1>5 DEF OpenData
<1>6. CASE WriteData
  BY <1>6 DEF WriteData
<1>7. CASE OpenTracker
  BY <1>7 DEF OpenTracker
<1>8. CASE WriteTracker
  <2>1. gstep \in Steps
    BY <1>8 DEF WriteTracker
  <2>2. CASE IsLastStep
    <3>1. Exit("down")
      BY <1>8, <2>2, Zenon DEF WriteTracker, NextStep
    <3> QED  BY <1>8, <2>1, <3>1 DEF WriteTracker, Exit, NoSavedPaths
  <2>3. CASE ~IsLastStep
    BY <1>8, <2>1, <2>3 DEF WriteTracker, NextStep
  <2> QED  BY <2>2, <2>3
<1>9. ASSUME NEW k \in Ranks, Prune(k)
      PROVE  TypeOK'
  <2>1. phase \in Roles
    BY <1>9 DEF Prune, RolePhase
  <2>2. paths[phase][k] \in Seq(Steps) /\ MaxKeep[phase] \in Nat
    BY <2>1
  <2>3. SubSeq(paths[phase][k],
               KeepStart(paths[phase][k], MaxKeep[phase]) + 1,
               Len(paths[phase][k])) \in Seq(Steps)
    BY <2>2, KeepStartType, SuffixType
  <2> QED  BY <1>9, <2>1, <2>3 DEF Prune
<1>10. ASSUME NEW k \in Ranks, Mkdir(k)
       PROVE  TypeOK'
  BY <1>10 DEF Mkdir, RolePhase
<1>11. ASSUME NEW k \in Ranks, OpenShard(k)
       PROVE  TypeOK'
  BY <1>11 DEF OpenShard
<1>12. ASSUME NEW k \in Ranks, WriteShard(k)
       PROVE  TypeOK'
  BY <1>12 DEF WriteShard
<1>13. CASE Crash
  BY <1>13 DEF Crash, Exit, NoSavedPaths
<1>14. CASE UNCHANGED vars
  BY <1>14 DEF vars
<1> QED
  BY <1>1, <1>2, <1>3, <1>4, <1>5, <1>6, <1>7, <1>8, <1>9, <1>10, <1>11,
     <1>12, <1>13, <1>14 DEF Next, DriverStep, RankStep, Finished

-----------------------------------------------------------------------------
(* The safety invariant.                                                   *)

\* With a limit other than one, rotation removes only checkpoints older than
\* the newest one in the list.
LEMMA RotationRemovesOlder ==
  ASSUME NEW list \in Seq(Steps), Increasing(list),
         NEW m \in Nat, m # 1,
         NEW t \in Int, \A i \in 1..Len(list) : list[i] <= t,
         NEW s \in Doomed(list, m)
  PROVE  s < t
<1>1. PICK i \in 1..KeepStart(list, m) : s = list[i]
  BY DEF Doomed
<1>2. i \in 1..Len(list) /\ i < Len(list)
  BY <1>1 DEF KeepStart
<1>3. list[i] < list[Len(list)] /\ list[Len(list)] <= t
  BY <1>2 DEF Increasing
<1>4. list[i] \in Int /\ list[Len(list)] \in Int
  BY <1>2, StepsAssumption DEF Steps
<1> QED  BY <1>1, <1>3, <1>4

LEMMA InitIInv == Init => IInv
<1> USE RolesAssumption, StepsAssumption, MaxKeepAssumption
<1> SUFFICES ASSUME Init PROVE IInv
  OBVIOUS
<1>1. TypeOK
  BY DEF Init, TypeOK, Steps, Partial, Torn, NoTracker, Absent, RankPcs,
         AllRanks, NoSavedPaths, NoFile
<1>2. ~Up /\ ~Saving /\ tracker = NoTracker
  BY DEF Init, Up, Saving, Tail4
<1>3. PathsInv
  BY DEF Init, PathsInv, NoSavedPaths, Increasing
<1> QED
  BY <1>1, <1>2, <1>3 DEF Init, IInv, UpInv, TrackerInv, ProgressInv, NoTracker

\* The types the arithmetic needs.
LEMMA Numbers ==
  ASSUME TypeOK
  PROVE  /\ gstep \in Nat /\ pos \in Nat /\ life \in Nat
         /\ tracker \in Int
         /\ \A r \in Roles : \A k \in Ranks :
              /\ paths[r][k] \in Seq(Steps)
              /\ \A i \in 1..Len(paths[r][k]) : paths[r][k][i] \in Nat
         /\ Saving => gstep \in Steps
<1> USE RolesAssumption, StepsAssumption
<1>1. gstep \in Nat /\ pos \in Nat /\ life \in Nat /\ tracker \in Int
  BY DEF TypeOK, Steps, Torn
<1>2. \A r \in Roles : \A k \in Ranks : paths[r][k] \in Seq(Steps)
  BY DEF TypeOK
<1>3. \A r \in Roles : \A k \in Ranks :
        \A i \in 1..Len(paths[r][k]) : paths[r][k][i] \in Nat
  BY <1>2 DEF Steps
<1>4. Saving => gstep \in Steps
  BY DEF Saving, Tail4, TypeOK
<1> QED  BY <1>1, <1>2, <1>3, <1>4

\* The tracker's checkpoint stays what it is when its files are not touched.
LEMMA TrackerInvKept ==
  ASSUME TypeOK, TrackerInv,
         tracker' = tracker, dirs \subseteq dirs',
         tracker > 0 => /\ shard'[tracker] = shard[tracker]
                        /\ data'[tracker] = data[tracker],
         life' = life \/ life' = life + 1
  PROVE  TrackerInv'
<1> SUFFICES ASSUME tracker > 0
             PROVE  /\ tracker \in dirs'
                    /\ \E l \in 1..life' :
                         /\ \A r \in Roles : \A k \in Ranks :
                              shard'[tracker][r][k] = l
                         /\ data'[tracker] = [life |-> l, pos |-> tracker]
  BY DEF TrackerInv
<1>1. tracker \in dirs
  BY DEF TrackerInv
<1>2. PICK l \in 1..life :
        /\ \A r \in Roles : \A k \in Ranks : shard[tracker][r][k] = l
        /\ data[tracker] = [life |-> l, pos |-> tracker]
  BY DEF TrackerInv
<1>3. l \in 1..life'
  BY Numbers
<1> QED  BY <1>1, <1>2, <1>3

\* A launch in mode auto fails on a torn tracker and otherwise continues with
\* the step and the batch after the tracker's.
LEMMA LaunchOutcome ==
  ASSUME AutoOnly, IInv, Launch
  PROVE  /\ ~Up
         /\ life' = life + 1
         /\ UNCHANGED <<shard, data, dirs, tracker, rpc, paths>>
         /\ \/ phase' = "failed" /\ tracker = Torn /\ gstep' = gstep
            \/ /\ phase' = "head"
               /\ tracker # Torn
               /\ gstep' = tracker + 1
               /\ pos' = tracker
<1> USE RolesAssumption DEF IInv, Torn, NoTracker
<1>1. /\ ~Up
      /\ life' = life + 1
      /\ UNCHANGED <<shard, data, dirs, tracker, rpc, paths>>
      /\ LaunchAuto
  BY DEF Launch, LaunchDisable, LaunchPath, AutoOnly
<1>2. CASE tracker = Torn
  BY <1>1, <1>2 DEF LaunchAuto
<1>3. CASE tracker = NoTracker
  BY <1>1, <1>3 DEF LaunchAuto, FromScratch, TypeOK, Steps
<1>4. CASE tracker \in Steps
  <2>1. tracker > 0 /\ tracker \in dirs
    BY <1>4 DEF TrackerInv, Steps
  <2>2. Loadable(tracker) /\ data[tracker].pos = tracker
    <3>1. PICK l \in 1..life :
            /\ \A r \in Roles : \A k \in Ranks : shard[tracker][r][k] = l
            /\ data[tracker] = [life |-> l, pos |-> tracker]
      BY <2>1 DEF TrackerInv
    <3>2. l # Absent /\ l # Partial
      BY Numbers DEF Absent, Partial
    <3> QED  BY <2>1, <3>1, <3>2 DEF Loadable
  <2>3. ResumeFrom(tracker)
    BY <1>1, <1>4, <2>1 DEF LaunchAuto, Steps
  <2> QED  BY <1>1, <1>4, <2>2, <2>3 DEF ResumeFrom, Steps
<1> QED  BY <1>2, <1>3, <1>4

LEMMA LaunchIInv ==
  ASSUME AutoOnly, IInv, TypeOK', Launch
  PROVE  IInv'
<1> USE RolesAssumption DEF IInv, Torn, NoTracker
<1>1. /\ ~Up
      /\ life' = life + 1
      /\ UNCHANGED <<shard, data, dirs, tracker, rpc, paths>>
      /\ \/ phase' = "failed" /\ tracker = Torn
         \/ /\ phase' = "head"
            /\ tracker # Torn
            /\ gstep' = tracker + 1
            /\ pos' = tracker
  BY LaunchOutcome
<1>2. \A r \in Roles : \A k \in Ranks : Len(paths[r][k]) = 0
  BY <1>1 DEF PathsInv, TypeOK
<1>3. PathsInv'
  BY <1>1, <1>2 DEF PathsInv, Increasing
<1>4. TrackerInv'
  BY <1>1, TrackerInvKept
<1>5. UpInv'
  BY <1>1, Numbers, StepsAssumption DEF UpInv, Up, Steps
<1>6. ~Saving'
  BY <1>1 DEF Saving, Tail4
<1> QED
  BY <1>1, <1>3, <1>4, <1>5, <1>6 DEF ProgressInv

\* An exit forgets the volatile state and touches no file.
LEMMA ExitIInv ==
  ASSUME IInv, TypeOK', Exit("down"), UNCHANGED <<shard, data, dirs, tracker, life>>
  PROVE  IInv'
<1> USE DEF IInv
<1>1. ~Up' /\ ~Saving' /\ phase' # "failed"
  BY RolesAssumption DEF Exit, Up, Saving, Tail4
<1>2. PathsInv'
  BY DEF Exit, PathsInv, NoSavedPaths, Increasing
<1>3. TrackerInv'
  BY DEF TrackerInv
<1> QED
  BY <1>1, <1>2, <1>3 DEF UpInv, ProgressInv

LEMMA TrainIInv ==
  ASSUME IInv, TypeOK', TrainStep
  PROVE  IInv'
<1> USE RolesAssumption DEF IInv, Torn, NoTracker
<1>1. /\ phase = "head" /\ Up /\ ~Saving
      /\ gstep \in Steps
      /\ UNCHANGED <<shard, data, dirs, tracker, life, paths>>
      /\ pos' = pos + 1
  BY DEF TrainStep, Up, Saving, Tail4
<1>2. \/ phase' = "actor" /\ gstep' = gstep /\ rpc' = AllRanks("prune")
      \/ phase' = "head" /\ gstep' = gstep + 1
  BY DEF TrainStep
<1>3. \A r \in Roles : ~Saved(r) /\ ~Saved(r)'
  BY <1>1, <1>2 DEF Saved, Tail4
<1>4. UpInv'
  BY <1>1, <1>2, Numbers DEF UpInv, Up
<1>5. TrackerInv'
  BY <1>1 DEF TrackerInv
<1>6. PathsInv'
  <2>1. Up' /\ gstep <= gstep' /\ gstep \in Nat /\ gstep' \in Nat
    BY <1>1, <1>2, Numbers DEF Up
  <2> SUFFICES ASSUME NEW r \in Roles, NEW k \in Ranks
               PROVE  /\ Increasing(paths[r][k])
                      /\ \A i \in 1..Len(paths[r][k]) :
                           paths[r][k][i] <= gstep' /\ paths[r][k][i] <= tracker
    BY <1>1, <2>1 DEF PathsInv
  <2>2. \A i \in 1..Len(paths[r][k]) :
          /\ paths[r][k][i] \in Nat
          /\ paths[r][k][i] <= gstep
          /\ paths[r][k][i] <= tracker
    BY <1>3, Numbers DEF PathsInv
  <2> QED  BY <2>1, <2>2 DEF PathsInv
<1>7. ProgressInv'
  BY <1>1, <1>2, <1>3 DEF ProgressInv, Saving, Tail4, AllRanks
<1> QED
  BY <1>1, <1>2, <1>4, <1>5, <1>6, <1>7

\* A rank inside save_checkpoint: only the shards of the role being saved and
\* the rank's own list change, the driver waits.
LEMMA PruneIInv ==
  ASSUME KeepsTwo, IInv, TypeOK', NEW k \in Ranks, Prune(k)
  PROVE  IInv'
<1> USE RolesAssumption, StepsAssumption DEF IInv
<1> DEFINE list == paths[phase][k]
           m    == MaxKeep[phase]
           n    == KeepStart(list, m)
<1>1. /\ phase \in Roles /\ Up /\ Saving /\ rpc[k] = "prune"
      /\ UNCHANGED <<data, dirs, tracker, life, phase, gstep, pos>>
  BY DEF Prune, RolePhase, TypeOK, Up, Saving
<1>2. /\ list \in Seq(Steps) /\ m \in Nat /\ m # 1
      /\ n \in Nat /\ n <= Len(list)
  <2>1. list \in Seq(Steps)
    BY <1>1 DEF TypeOK
  <2>2. m \in Nat /\ m # 1
    BY <1>1, MaxKeepAssumption DEF KeepsTwo
  <2> QED  BY <2>1, <2>2, KeepStartType
<1>3. ~Saved(phase) /\ phase \notin Tail4 /\ tracker < gstep
  BY <1>1 DEF Saved, Tail4, UpInv
<1>4. Increasing(list) /\ \A i \in 1..Len(list) : list[i] <= tracker
  BY <1>1, <1>3 DEF PathsInv
<1>5. tracker \notin Doomed(list, m) /\ gstep \notin Doomed(list, m)
  <2>1. ASSUME NEW s \in Doomed(list, m) PROVE s < tracker
    <3>1. tracker \in Int
      BY Numbers
    <3> QED  BY <1>2, <1>4, <3>1, RotationRemovesOlder
  <2> QED  BY <1>3, <2>1, Numbers
<1>6. /\ gstep \in Steps /\ shard'[gstep] = shard[gstep]
      /\ tracker > 0 => shard'[tracker] = shard[tracker]
  BY <1>1, <1>5, Numbers DEF Prune, Torn, NoTracker, TrackerInv, TypeOK
<1>7. TrackerInv'
  BY <1>1, <1>6, TrackerInvKept
<1>8. UpInv'
  BY <1>1 DEF UpInv, Up
<1>9. paths' = [paths EXCEPT ![phase][k] = SubSeq(list, n + 1, Len(list))]
  BY DEF Prune
<1>10. PathsInv'
  <2>1. SUFFICES ASSUME NEW r \in Roles, NEW j \in Ranks
                 PROVE  /\ Increasing(paths'[r][j])
                        /\ \A i \in 1..Len(paths'[r][j]) :
                             /\ paths'[r][j][i] <= gstep
                             /\ ~Saved(r) => paths'[r][j][i] <= tracker
    BY <1>1 DEF PathsInv, Up, Saved
  <2>2. CASE r = phase /\ j = k
    <3>1. paths'[r][j] = SubSeq(list, n + 1, Len(list))
      BY <1>1, <1>9, <2>2 DEF TypeOK
    <3>2. /\ Len(paths'[r][j]) = Len(list) - n
          /\ \A i \in 1..(Len(list) - n) : paths'[r][j][i] = list[n + i]
      BY <1>2, <3>1, SuffixType, SMTT(20)
    <3>3. \A i \in 1..(Len(list) - n) : n + i \in 1..Len(list)
      BY <1>2
    <3>4. \A i \in 1..Len(list) : list[i] <= gstep /\ list[i] <= tracker
      BY <1>1, <1>3 DEF PathsInv
    <3>5. Increasing(paths'[r][j])
      <4>1. SUFFICES ASSUME NEW a \in 1..(Len(list) - n),
                            NEW b \in 1..(Len(list) - n), a < b
                     PROVE  list[n + a] < list[n + b]
        BY <1>2, <3>2 DEF Increasing
      <4>2. n + a \in 1..Len(list) /\ n + b \in 1..Len(list) /\ n + a < n + b
        <5> HIDE DEF n, list
        <5> QED  BY <1>2, <3>3, <4>1
      <4> QED  BY <1>4, <4>2 DEF Increasing
    <3> QED  BY <3>2, <3>3, <3>4, <3>5
  <2>3. CASE ~(r = phase /\ j = k)
    <3>1. paths'[r][j] = paths[r][j]
      BY <1>9, <2>3 DEF TypeOK
    <3> QED  BY <3>1 DEF PathsInv
  <2> QED  BY <2>2, <2>3
<1>11. ProgressInv'
  <2>1. rpc' = [rpc EXCEPT ![k] = "mkdir"]
    BY DEF Prune
  <2>2. \A j \in Ranks : rpc'[j] \notin {"prune", "mkdir"} =>
          j # k /\ rpc'[j] = rpc[j]
    BY <2>1 DEF TypeOK
  <2> QED
    BY <1>1, <1>3, <1>6, <2>2 DEF ProgressInv, Saving, Saved, Tail4
<1> QED
  BY <1>1, <1>7, <1>8, <1>10, <1>11 DEF Torn, NoTracker

LEMMA MkdirIInv ==
  ASSUME IInv, TypeOK', NEW k \in Ranks, Mkdir(k)
  PROVE  IInv'
<1> USE RolesAssumption DEF IInv
<1>1. /\ phase \in Roles /\ Up /\ Saving
      /\ dirs' = dirs \cup {gstep}
      /\ rpc' = [rpc EXCEPT ![k] = "entered"]
      /\ UNCHANGED <<shard, data, tracker, life, phase, gstep, pos, paths>>
  BY DEF Mkdir, RolePhase, TypeOK, Up, Saving
<1>2. TrackerInv'
  BY <1>1, TrackerInvKept
<1>3. UpInv' /\ PathsInv'
  BY <1>1 DEF UpInv, Up, PathsInv, Saved
<1>4. \A j \in Ranks : rpc'[j] = "dumped" => rpc[j] = "dumped"
  BY <1>1 DEF TypeOK
<1>5. ProgressInv'
  BY <1>1, <1>4 DEF ProgressInv, Saving, Saved
<1> QED
  BY <1>1, <1>2, <1>3, <1>5

\* Opening and writing a shard of gstep: the tracker stands for another step.
LEMMA ShardIInv ==
  ASSUME IInv, TypeOK', NEW k \in Ranks, NEW v,
         phase \in RolePhase,
         shard' = [shard EXCEPT ![gstep][phase][k] = v],
         \/ rpc[k] = "entered" /\ rpc' = [rpc EXCEPT ![k] = "writing"]
         \/ rpc[k] = "writing" /\ rpc' = [rpc EXCEPT ![k] = "dumped"] /\ v = life,
         UNCHANGED <<data, dirs, tracker, life, phase, gstep, pos, paths>>
  PROVE  IInv'
<1> USE RolesAssumption DEF IInv
<1>1. /\ phase \in Roles /\ Up /\ Saving /\ phase \notin Tail4
      /\ gstep \in Steps
  BY Numbers DEF RolePhase, TypeOK, Up, Saving, Tail4
<1>2. tracker # gstep
  BY <1>1, Numbers DEF UpInv
<1>3. tracker > 0 => tracker \in Steps
  BY DEF NoTracker, Torn
<1>4. tracker > 0 => shard'[tracker] = shard[tracker]
  BY <1>2, <1>3 DEF TypeOK
<1>5. TrackerInv'
  BY <1>4, TrackerInvKept
<1>6. UpInv' /\ PathsInv'
  BY DEF UpInv, Up, PathsInv, Saved
<1>7. ProgressInv'
  <2>1. \A j \in Ranks : rpc'[j] \notin {"prune", "mkdir"} =>
                             rpc[j] \notin {"prune", "mkdir"}
    BY DEF TypeOK
  <2>2. \A r \in Roles : \A j \in Ranks :
          shard'[gstep][r][j] = IF r = phase /\ j = k THEN v ELSE shard[gstep][r][j]
    BY <1>1 DEF TypeOK
  <2>3. ~Saved(phase)
    BY <1>1 DEF Saved
  <2>4. ASSUME NEW r \in Roles, NEW j \in Ranks,
               Saved(r) \/ (phase = r /\ rpc'[j] = "dumped")
        PROVE  shard'[gstep][r][j] = life
    <3>1. CASE r = phase /\ j = k
      BY <2>2, <2>3, <2>4, <3>1 DEF TypeOK
    <3>2. CASE ~(r = phase /\ j = k)
      <4>1. Saved(r) \/ (phase = r /\ rpc[j] = "dumped")
        BY <2>4, <3>2 DEF TypeOK
      <4> QED  BY <1>1, <2>2, <3>2, <4>1 DEF ProgressInv
    <3> QED  BY <3>1, <3>2
  <2> QED
    BY <1>1, <2>1, <2>4 DEF ProgressInv, Saving, Saved, Tail4
<1> QED
  BY <1>5, <1>6, <1>7

LEMMA RoleSavedIInv ==
  ASSUME IInv, TypeOK', RoleSaved
  PROVE  IInv'
<1> USE RolesAssumption, StepsAssumption DEF IInv
<1>1. /\ phase \in Roles /\ Up /\ Saving /\ phase \notin Tail4
      /\ gstep \in Steps
      /\ \A k \in Ranks : rpc[k] = "dumped"
      /\ UNCHANGED <<shard, data, dirs, tracker, life, gstep, pos>>
  BY Numbers DEF RoleSaved, RolePhase, TypeOK, Up, Saving, Tail4
<1>2. /\ \/ phase = "actor" /\ phase' = "critic" /\ "critic" \in Roles
            /\ rpc' = AllRanks("prune")
         \/ phase = "actor" /\ phase' = "data" /\ "critic" \notin Roles
         \/ phase = "critic" /\ phase' = "data"
      /\ Up' /\ Saving' /\ phase' # "failed" /\ phase' # "head"
  BY <1>1 DEF RoleSaved, After, RolePhase, Up, Saving, Tail4
<1>3. tracker < gstep /\ phase # "write" /\ phase # "head"
  BY <1>1 DEF UpInv, Tail4
<1>4. UpInv'
  BY <1>1, <1>2, <1>3 DEF UpInv
<1>5. TrackerInv'
  BY <1>1, TrackerInvKept
<1>6. \A r \in Roles : Saved(r)' <=> Saved(r) \/ r = phase
  BY <1>1, <1>2 DEF Saved, Tail4
<1>7. PathsInv'
  <2>1. SUFFICES ASSUME NEW r \in Roles, NEW k \in Ranks
                 PROVE  /\ Increasing(paths'[r][k])
                        /\ \A i \in 1..Len(paths'[r][k]) :
                             /\ paths'[r][k][i] <= gstep
                             /\ ~Saved(r)' => paths'[r][k][i] <= tracker
    BY <1>1, <1>2 DEF PathsInv
  <2>2. CASE r # phase
    <3>1. paths'[r][k] = paths[r][k]
      BY <2>2 DEF RoleSaved, TypeOK
    <3> QED  BY <1>6, <3>1 DEF PathsInv
  <2>3. CASE r = phase
    <3> DEFINE list == paths[phase][k]
    <3>1. paths'[r][k] = Append(list, gstep) /\ list \in Seq(Steps)
      BY <1>1, <2>3 DEF RoleSaved, TypeOK
    <3>2. ~Saved(phase)
      BY <1>1 DEF Saved
    <3>3. Increasing(list) /\ \A i \in 1..Len(list) : list[i] <= tracker
      BY <1>1, <3>2 DEF PathsInv
    <3>4. \A i \in 1..Len(list) : list[i] \in Nat
      BY <1>1, Numbers
    <3>5. /\ Len(Append(list, gstep)) = Len(list) + 1
          /\ \A i \in 1..(Len(list) + 1) :
               Append(list, gstep)[i] = IF i = Len(list) + 1 THEN gstep ELSE list[i]
      BY <1>1, <3>1
    <3>6. \A i \in 1..Len(list) : list[i] < gstep
      BY <1>3, <3>3, <3>4, Numbers
    <3>7. Increasing(Append(list, gstep))
      BY <3>1, <3>3, <3>5, <3>6 DEF Increasing
    <3>8. \A i \in 1..(Len(list) + 1) : Append(list, gstep)[i] <= gstep
      <4> HIDE DEF list
      <4> QED  BY <3>1, <3>4, <3>5, <3>6, Numbers
    <3> QED  BY <1>6, <2>3, <3>1, <3>5, <3>7, <3>8
  <2> QED  BY <2>2, <2>3
<1>8. ProgressInv'
  <2>1. \A k \in Ranks : gstep \in dirs
    BY <1>1 DEF ProgressInv
  <2>2. \A r \in Roles : \A k \in Ranks :
          Saved(r)' => shard[gstep][r][k] = life
    BY <1>1, <1>6 DEF ProgressInv
  <2>3. \A r \in Roles : \A k \in Ranks : ~(phase' = r /\ rpc'[k] = "dumped")
    BY <1>2 DEF AllRanks
  <2> QED  BY <1>1, <1>2, <2>1, <2>2, <2>3 DEF ProgressInv
<1> QED
  BY <1>1, <1>2, <1>4, <1>5, <1>7, <1>8

LEMMA DataIInv ==
  ASSUME IInv, TypeOK', OpenData \/ WriteData
  PROVE  IInv'
<1> USE RolesAssumption DEF IInv
<1>1. /\ phase \in {"data", "dumping"} /\ phase' \in {"dumping", "open"}
      /\ phase = "dumping" => phase' = "open"
      /\ phase = "data" => phase' = "dumping"
      /\ UNCHANGED <<shard, dirs, tracker, life, gstep, pos, rpc, paths>>
      /\ \E d : data' = [data EXCEPT ![gstep] = d]
  BY DEF OpenData, WriteData
<1>2. Up /\ Up' /\ Saving /\ Saving' /\ gstep \in Steps
  BY <1>1, Numbers DEF Up, Saving, Tail4
<1>3. \A r \in Roles : Saved(r) /\ Saved(r)'
  BY <1>1 DEF Saved, Tail4
<1>4. tracker # gstep
  BY <1>2, Numbers DEF UpInv
<1>5. tracker > 0 => data'[tracker] = data[tracker]
  BY <1>1, <1>4 DEF TypeOK, NoTracker, Torn
<1>6. TrackerInv'
  BY <1>1, <1>5, TrackerInvKept
<1>7. UpInv' /\ PathsInv'
  BY <1>1, <1>2, <1>3 DEF UpInv, PathsInv
<1>8. phase' = "open" => data'[gstep] = [life |-> life, pos |-> gstep]
  BY <1>1, <1>2 DEF OpenData, WriteData, UpInv, TypeOK
<1>9. ProgressInv'
  BY <1>1, <1>2, <1>3, <1>8 DEF ProgressInv, Tail4
<1> QED
  BY <1>1, <1>6, <1>7, <1>9

LEMMA OpenTrackerIInv ==
  ASSUME IInv, TypeOK', OpenTracker
  PROVE  IInv'
<1> USE RolesAssumption DEF IInv
<1>1. /\ phase = "open" /\ phase' = "write" /\ tracker' = Torn
      /\ UNCHANGED <<shard, data, dirs, life, gstep, pos, rpc, paths>>
  BY DEF OpenTracker
<1>2. Up /\ Up' /\ Saving /\ Saving' /\ gstep \in Steps
  BY <1>1, Numbers DEF Up, Saving, Tail4
<1>3. \A r \in Roles : Saved(r) /\ Saved(r)'
  BY <1>1 DEF Saved, Tail4
<1>4. UpInv' /\ PathsInv' /\ TrackerInv'
  BY <1>1, <1>2, <1>3, Numbers, StepsAssumption
     DEF UpInv, PathsInv, TrackerInv, Torn, Steps
<1>5. ProgressInv'
  BY <1>1, <1>2, <1>3 DEF ProgressInv, Tail4
<1> QED
  BY <1>1, <1>4, <1>5

LEMMA WriteTrackerIInv ==
  ASSUME IInv, TypeOK', WriteTracker
  PROVE  IInv'
<1> USE RolesAssumption, StepsAssumption DEF IInv
<1>1. /\ phase = "write" /\ tracker' = gstep /\ NextStep
      /\ UNCHANGED <<shard, data, dirs, life>>
  BY DEF WriteTracker
<1>2. Up /\ Saving /\ gstep \in Steps /\ \A r \in Roles : Saved(r)
  BY <1>1, Numbers DEF Up, Saving, Saved, Tail4
<1>3. /\ \A r \in Roles : \A k \in Ranks : shard[gstep][r][k] = life
      /\ data[gstep] = [life |-> life, pos |-> gstep]
      /\ gstep \in dirs
      /\ life \in 1..life
      /\ pos = gstep
  BY <1>1, <1>2, RanksAssumption, Numbers DEF ProgressInv, Tail4, UpInv
<1>4. TrackerInv'
  BY <1>1, <1>3 DEF TrackerInv
<1>5. CASE Exit("down")
  <2>1. ~Up' /\ ~Saving' /\ phase' # "failed"
    BY <1>5 DEF Exit, Up, Saving, Tail4
  <2>2. PathsInv'
    BY <1>5 DEF Exit, PathsInv, NoSavedPaths, Increasing
  <2> QED  BY <1>1, <1>2, <1>4, <2>1, <2>2 DEF UpInv, ProgressInv
<1>6. CASE /\ phase' = "head" /\ gstep' = gstep + 1
           /\ UNCHANGED <<pos, rpc, paths>>
  <2>1. Up' /\ ~Saving' /\ gstep \in Nat
    BY <1>6, Numbers DEF Up, Saving, Tail4
  <2>2. UpInv'
    BY <1>1, <1>2, <1>3, <1>6, <2>1, Numbers DEF UpInv, Torn
  <2>3. PathsInv'
    <3>1. SUFFICES ASSUME NEW r \in Roles, NEW k \in Ranks
                   PROVE  /\ Increasing(paths[r][k])
                          /\ \A i \in 1..Len(paths[r][k]) :
                               paths[r][k][i] <= gstep + 1 /\ paths[r][k][i] <= gstep
      BY <1>1, <1>6, <2>1 DEF PathsInv
    <3>2. \A i \in 1..Len(paths[r][k]) :
            paths[r][k][i] \in Nat /\ paths[r][k][i] <= gstep
      BY Numbers DEF PathsInv
    <3>3. Increasing(paths[r][k])
      BY DEF PathsInv
    <3> QED  BY <2>1, <3>2, <3>3
  <2> QED  BY <1>1, <1>2, <1>4, <1>6, <2>1, <2>2, <2>3 DEF ProgressInv
<1> QED
  BY <1>1, <1>5, <1>6, Zenon DEF NextStep

\* IInv is inductive.
LEMMA NextIInv ==
  ASSUME AutoOnly, KeepsTwo, IInv, [Next]_vars
  PROVE  IInv'
<1>1. TypeOK'
  BY TypeInductive DEF IInv
<1>2. CASE Launch
  BY <1>1, <1>2, LaunchIInv
<1>3. CASE TrainStep
  BY <1>1, <1>3, TrainIInv
<1>4. CASE DataExhausted
  BY <1>1, <1>4, ExitIInv DEF DataExhausted
<1>5. CASE RoleSaved
  BY <1>1, <1>5, RoleSavedIInv
<1>6. CASE OpenData \/ WriteData
  BY <1>1, <1>6, DataIInv
<1>7. CASE OpenTracker
  BY <1>1, <1>7, OpenTrackerIInv
<1>8. CASE WriteTracker
  BY <1>1, <1>8, WriteTrackerIInv
<1>9. ASSUME NEW k \in Ranks, Prune(k)
      PROVE  IInv'
  BY <1>1, <1>9, PruneIInv
<1>10. ASSUME NEW k \in Ranks, Mkdir(k)
       PROVE  IInv'
  BY <1>1, <1>10, MkdirIInv
<1>11. ASSUME NEW k \in Ranks, OpenShard(k)
       PROVE  IInv'
  BY <1>1, <1>11, ShardIInv DEF OpenShard
<1>12. ASSUME NEW k \in Ranks, WriteShard(k)
       PROVE  IInv'
  BY <1>1, <1>12, ShardIInv DEF WriteShard
<1>13. CASE Crash
  BY <1>1, <1>13, ExitIInv DEF Crash
<1>14. CASE UNCHANGED vars
  BY <1>14, <1>1 DEF vars, IInv, UpInv, Up, TrackerInv, PathsInv, ProgressInv,
                     Saving, Saved
<1> QED
  BY <1>2, <1>3, <1>4, <1>5, <1>6, <1>7, <1>8, <1>9, <1>10, <1>11, <1>12,
     <1>13, <1>14 DEF Next, DriverStep, RankStep, Finished

-----------------------------------------------------------------------------
(* Theorems.                                                               *)

\* Every variable keeps its type, whatever the resume modes and the limits:
\* in particular only steps within the bound are ever saved.
THEOREM TypeCorrect == Spec => []TypeOK
<1>1. Init => TypeOK
  BY RolesAssumption, StepsAssumption
     DEF Init, TypeOK, Steps, Partial, Torn, NoTracker, Absent, RankPcs,
         AllRanks, NoSavedPaths, NoFile
<1>2. TypeOK /\ [Next]_vars => TypeOK'
  BY TypeInductive
<1> QED
  BY <1>1, <1>2, PTL DEF Spec

\* The inductive invariant holds.
THEOREM IInvHolds ==
  ASSUME AutoOnly, KeepsTwo
  PROVE  Spec => []IInv
<1>1. IInv /\ [Next]_vars => IInv'
  BY NextIInv
<1> QED
  BY InitIInv, <1>1, PTL DEF Spec

\* The tracker only ever names a complete checkpoint written by one process,
\* with the dataloader state that belongs to it.
THEOREM TrackerSafe ==
  ASSUME AutoOnly, KeepsTwo
  PROVE  Spec => []TrackerNamesCoherent
<1>1. IInv => TrackerNamesCoherent
  <2> SUFFICES ASSUME IInv, tracker \in Steps
               PROVE  tracker \in dirs /\ Coherent(tracker)
    BY DEF TrackerNamesCoherent
  <2>1. tracker > 0
    BY StepsAssumption DEF Steps
  <2> QED  BY <2>1 DEF IInv, TrackerInv, Coherent
<1> QED
  BY <1>1, IInvHolds, PTL

\* A launch fails only when the tracker file was torn by a crash.
THEOREM OnlyTornFails ==
  ASSUME AutoOnly, KeepsTwo
  PROVE  Spec => []OnlyTornTrackerFails
<1>1. IInv => OnlyTornTrackerFails
  BY DEF IInv, OnlyTornTrackerFails
<1> QED
  BY <1>1, IInvHolds, PTL

\* Step g trains on the g-th batch, across every crash and resume.
THEOREM BatchesInStep ==
  ASSUME AutoOnly, KeepsTwo
  PROVE  Spec => []DataloaderInStep
<1>1. IInv => DataloaderInStep
  BY DEF IInv, UpInv, Up, DataloaderInStep
<1> QED
  BY <1>1, IInvHolds, PTL

\* The tracker never goes back: a step it names gives way only to the save of
\* a later step.
THEOREM TrackerGoesForward ==
  ASSUME AutoOnly, KeepsTwo
  PROVE  Spec => TrackerMonotone
<1> DEFINE Forward ==
      /\ tracker \in Steps /\ tracker' # tracker =>
           tracker' = Torn /\ gstep' = gstep /\ gstep > tracker
      /\ tracker' \in Steps /\ tracker' # tracker =>
           tracker = Torn /\ tracker' = gstep
<1>1. IInv /\ [Next]_vars => [Forward]_vars
  <2> SUFFICES ASSUME IInv, Next PROVE Forward
    OBVIOUS
  <2>1. CASE WriteTracker
    <3>1. Up /\ phase = "write" /\ tracker' = gstep
      BY <2>1 DEF WriteTracker, Up
    <3>2. tracker = Torn /\ Torn \notin Steps
      BY <3>1, StepsAssumption DEF IInv, UpInv, Torn, Steps
    <3> QED  BY <3>1, <3>2
  <2>2. CASE OpenTracker
    <3>1. Up /\ tracker' = Torn /\ gstep' = gstep
      BY <2>2 DEF OpenTracker, Up
    <3>2. tracker < gstep /\ gstep \in Nat /\ tracker \in Int
      BY <3>1, Numbers DEF IInv, UpInv
    <3>3. Torn \notin Steps
      BY StepsAssumption DEF Torn, Steps
    <3> QED  BY <3>1, <3>2, <3>3
  <2>3. CASE ~WriteTracker /\ ~OpenTracker
    <3>1. tracker' = tracker
      BY <2>3 DEF Next, DriverStep, RankStep, Launch, TrainStep, DataExhausted,
                  RoleSaved, OpenData, WriteData, Prune, Mkdir, OpenShard,
                  WriteShard, Crash, Finished, vars
    <3> QED  BY <3>1
  <2> QED  BY <2>1, <2>2, <2>3
<1> QED
  BY <1>1, IInvHolds, PTL DEF Spec, TrackerMonotone

\* The detailed system implements ResumableTraining: a launch continues right
\* after the durable step, only the step just finished becomes durable, and a
\* launch is stuck only when the record itself was lost.
THEOREM Refinement ==
  ASSUME AutoOnly, KeepsTwo
  PROVE  Spec => ResumesAsPromised
<1>1. Init => R!AbsInit
  BY DEF Init, R!AbsInit, Up, NoTracker
<1>2. IInv /\ [Next]_vars => [R!AbsNext]_(R!absVars)
  <2> SUFFICES ASSUME IInv, [Next]_vars
               PROVE  R!AbsNext \/ UNCHANGED R!absVars
    OBVIOUS
  <2> USE DEF R!Lost, Torn, Up, R!absVars
  <2>1. CASE Launch
    BY <2>1, LaunchOutcome DEF R!AbsNext, R!Continue, R!GetStuck
  <2>2. CASE TrainStep
    BY <2>2 DEF TrainStep, R!AbsNext, R!Advance
  <2>3. CASE DataExhausted \/ Crash
    BY <2>3 DEF DataExhausted, Crash, Exit, R!AbsNext, R!GoDown
  <2>4. CASE RoleSaved
    BY <2>4 DEF RoleSaved, After, RolePhase
  <2>5. CASE OpenData \/ WriteData
    BY <2>5 DEF OpenData, WriteData
  <2>6. CASE OpenTracker
    BY <2>6 DEF OpenTracker, R!AbsNext, R!OpenRecord
  <2>7. CASE WriteTracker
    <3>1. phase = "write" /\ tracker = Torn /\ tracker' = gstep /\ NextStep
      BY <2>7 DEF WriteTracker, IInv, UpInv
    <3>2. CASE Exit("down")
      BY <3>1, <3>2 DEF Exit, R!AbsNext, R!Commit
    <3>3. CASE phase' = "head" /\ gstep' = gstep + 1
      BY <3>1, <3>3 DEF R!AbsNext, R!Commit
    <3> QED  BY <3>1, <3>2, <3>3, Zenon DEF NextStep
  <2>8. ASSUME NEW k \in Ranks, RankStep(k)
        PROVE  UNCHANGED R!absVars
    BY <2>8 DEF RankStep, Prune, Mkdir, OpenShard, WriteShard
  <2>9. CASE UNCHANGED vars
    BY <2>9 DEF vars
  <2> QED
    BY <2>1, <2>2, <2>3, <2>4, <2>5, <2>6, <2>7, <2>8, <2>9
       DEF Next, DriverStep, Finished
<1> QED
  BY <1>1, <1>2, IInvHolds, PTL DEF Spec, ResumesAsPromised, R!AbsSpec

-----------------------------------------------------------------------------
(* The end of the training, and rotation.  What follows on rotation holds  *)
(* for every resume mode: it follows from the lists and the shards alone,  *)
(* not from where a launch continues.                                      *)

\* Neither the job nor the record is further past the end than the number of
\* launches so far.
EndInv ==
  /\ Up => gstep < TotalSteps + life
  /\ tracker < TotalSteps + life

\* A shard is never younger than the job, and a shard this process wrote is
\* in the list of every rank, or of the step just being saved.
OwnShards ==
  /\ Up => life > 0
  /\ \A s \in Steps : \A r \in Roles : \A k \in Ranks :
       /\ shard[s][r][k] <= life
       /\ Up /\ shard[s][r][k] = life =>
            \A j \in Ranks :
              \/ s = gstep /\ phase = r /\ rpc[k] = "dumped"
              \/ \E i \in 1..Len(paths[r][j]) : paths[r][j][i] = s

\* A rank that has pruned has room for the checkpoint it is about to add.
ListRoom ==
  \A r \in Roles : \A k \in Ranks :
    MaxKeep[r] > 0 =>
      /\ Len(paths[r][k]) <= MaxKeep[r]
      /\ phase = r /\ rpc[k] # "prune" => Len(paths[r][k]) < MaxKeep[r]

KeepInv == TypeOK /\ OwnShards /\ ListRoom

\* The newest path in a list is the step being saved, once the role is saved,
\* and before that the step the tracker names.
NewestPath ==
  \A r \in Roles : \A k \in Ranks :
    /\ Increasing(paths[r][k])
    /\ Len(paths[r][k]) > 0 =>
         /\ Up
         /\ paths[r][k][Len(paths[r][k])] = IF Saved(r) THEN gstep ELSE tracker
    /\ ~Saved(r) => \A i \in 1..Len(paths[r][k]) : paths[r][k][i] < gstep

\* The shards written so far in the current round are there.
Written ==
  /\ Up => life > 0
  /\ Saving =>
       \A r \in Roles : \A k \in Ranks :
         Saved(r) \/ (phase = r /\ rpc[k] = "dumped")
           => shard[gstep][r][k] = life

SparesInv == TypeOK /\ NewestPath /\ Written /\ RotationSparesTracker

\* The steps that neither remove, write nor add a checkpoint.
LEMMA QuietKeepInv ==
  ASSUME KeepInv, TypeOK',
         UNCHANGED <<shard, life, phase, gstep, paths>>,
         \A k \in Ranks :
           /\ rpc[k] = "dumped" => rpc'[k] = "dumped"
           /\ rpc[k] # "prune" => rpc'[k] # "prune"
           /\ rpc'[k] # "prune" => rpc[k] # "prune"
  PROVE  KeepInv'
<1>1. OwnShards'
  BY DEF KeepInv, OwnShards, Up
<1>2. ListRoom'
  BY DEF KeepInv, ListRoom
<1> QED  BY <1>1, <1>2 DEF KeepInv

LEMMA ExitKeepInv ==
  ASSUME KeepInv, TypeOK', Exit("down"), UNCHANGED <<shard, life>>
  PROVE  KeepInv'
<1>1. ~Up'
  BY DEF Exit, Up
<1>2. OwnShards'
  BY <1>1 DEF KeepInv, OwnShards
<1>3. ListRoom'
  BY RolesAssumption, MaxKeepAssumption DEF Exit, NoSavedPaths, ListRoom
<1> QED  BY <1>2, <1>3 DEF KeepInv

\* Training, data.pt and the tracker: no shard and no list changes, and a
\* round of the actor begins with ranks that have not pruned.
LEMMA DriverKeepInv ==
  ASSUME KeepInv, TypeOK', phase \notin RolePhase, Up,
         UNCHANGED <<shard, life, paths>>,
         \/ phase' \notin RolePhase
         \/ phase' = "actor" /\ rpc' = AllRanks("prune")
  PROVE  KeepInv'
<1> USE RolesAssumption DEF RolePhase
<1>1. OwnShards'
  <2> SUFFICES ASSUME NEW s \in Steps, NEW r \in Roles, NEW k \in Ranks,
                      shard[s][r][k] = life, NEW j \in Ranks
               PROVE  \E i \in 1..Len(paths[r][j]) : paths[r][j][i] = s
    BY DEF KeepInv, OwnShards
  <2>1. phase # r
    OBVIOUS
  <2> QED  BY <2>1 DEF KeepInv, OwnShards
<1>2. ListRoom'
  BY DEF KeepInv, ListRoom, AllRanks
<1> QED  BY <1>1, <1>2 DEF KeepInv

LEMMA LaunchKeepInv ==
  ASSUME KeepInv, TypeOK', Launch
  PROVE  KeepInv'
<1>1. /\ life' = life + 1 /\ life \in Nat
      /\ phase' \in {"head", "failed"}
      /\ UNCHANGED <<shard, paths, rpc>>
  BY DEF Launch, LaunchAuto, LaunchDisable, LaunchPath, FromScratch, ResumeFrom,
         KeepInv, TypeOK
<1>2. \A s \in Steps : \A r \in Roles : \A k \in Ranks :
        shard[s][r][k] \in Int /\ shard[s][r][k] <= life
  BY DEF KeepInv, OwnShards, TypeOK, Partial
<1>3. OwnShards'
  BY <1>1, <1>2 DEF OwnShards
<1>4. ListRoom'
  BY <1>1, RolesAssumption DEF KeepInv, ListRoom
<1> QED  BY <1>3, <1>4 DEF KeepInv

LEMMA WriteKeepInv ==
  ASSUME KeepInv, TypeOK', NEW k \in Ranks, OpenShard(k) \/ WriteShard(k)
  PROVE  KeepInv'
<1> DEFINE v == shard'[gstep][phase][k]
<1>1. /\ phase \in Roles /\ gstep \in Steps /\ Up
      /\ UNCHANGED <<data, dirs, tracker, life, phase, gstep, pos, paths>>
  BY RolesAssumption DEF OpenShard, WriteShard, KeepInv, TypeOK, RolePhase, Up
<1>2. /\ rpc[k] \notin {"prune", "mkdir", "dumped"}
      /\ \/ v = Partial /\ rpc' = [rpc EXCEPT ![k] = "writing"]
         \/ v = life /\ rpc' = [rpc EXCEPT ![k] = "dumped"]
      /\ \A s \in Steps : \A r \in Roles : \A j \in Ranks :
           s # gstep \/ r # phase \/ j # k => shard'[s][r][j] = shard[s][r][j]
  <2>1. \A x : shard' = [shard EXCEPT ![gstep][phase][k] = x] =>
          /\ v = x
          /\ \A s \in Steps : \A r \in Roles : \A j \in Ranks :
               s # gstep \/ r # phase \/ j # k =>
                 shard'[s][r][j] = shard[s][r][j]
    BY <1>1 DEF KeepInv, TypeOK
  <2>2. CASE OpenShard(k)
    BY <2>1, <2>2 DEF OpenShard
  <2>3. CASE WriteShard(k)
    BY <2>1, <2>3 DEF WriteShard
  <2> QED  BY <2>2, <2>3
<1>3. OwnShards'
  <2>1. life \in Nat /\ life > 0
    BY <1>1 DEF KeepInv, TypeOK, OwnShards
  <2> SUFFICES ASSUME NEW s \in Steps, NEW r \in Roles, NEW j \in Ranks
               PROVE  /\ shard'[s][r][j] <= life
                      /\ shard'[s][r][j] = life =>
                           \A l \in Ranks :
                             \/ s = gstep /\ phase = r /\ rpc'[j] = "dumped"
                             \/ \E i \in 1..Len(paths[r][l]) : paths[r][l][i] = s
    BY <1>1, <2>1 DEF OwnShards, Up
  <2>2. CASE s = gstep /\ r = phase /\ j = k
    <3> HIDE DEF v
    <3>1. shard'[s][r][j] = v
      BY <2>2 DEF v
    <3>2. CASE v = Partial
      BY <2>1, <3>1, <3>2 DEF Partial
    <3>3. CASE v = life /\ rpc' = [rpc EXCEPT ![k] = "dumped"]
      <4>1. rpc'[j] = "dumped"
        BY <2>2, <3>3 DEF KeepInv, TypeOK
      <4> QED  BY <2>1, <2>2, <3>1, <3>3, <4>1
    <3> QED  BY <1>2, <3>2, <3>3
  <2>3. CASE ~(s = gstep /\ r = phase /\ j = k)
    <3>1. shard'[s][r][j] = shard[s][r][j]
      BY <1>2, <2>3
    <3>2. s = gstep /\ phase = r => j # k
      BY <2>3
    <3>3. j # k => rpc'[j] = rpc[j]
      BY <1>2 DEF KeepInv, TypeOK
    <3> QED  BY <1>1, <3>1, <3>2, <3>3 DEF KeepInv, OwnShards
  <2> QED  BY <2>2, <2>3
<1>4. ListRoom'
  <2>1. \A j \in Ranks : rpc'[j] # "prune" => rpc[j] # "prune"
    BY <1>2 DEF KeepInv, TypeOK
  <2> QED  BY <1>1, <2>1 DEF KeepInv, ListRoom
<1> QED  BY <1>3, <1>4 DEF KeepInv

LEMMA PruneKeepInv ==
  ASSUME KeepInv, TypeOK', NEW k \in Ranks, Prune(k)
  PROVE  KeepInv'
<1> DEFINE list == paths[phase][k]
           m    == MaxKeep[phase]
           n    == KeepStart(list, m)
<1>1. /\ phase \in Roles /\ gstep \in Steps /\ Up /\ rpc[k] = "prune"
      /\ UNCHANGED <<data, dirs, tracker, life, phase, gstep, pos>>
      /\ rpc' = [rpc EXCEPT ![k] = "mkdir"]
  BY RolesAssumption DEF Prune, KeepInv, TypeOK, RolePhase, Up
<1>2. /\ list \in Seq(Steps) /\ m \in Nat
      /\ n \in Nat /\ n <= Len(list)
  <2>1. list \in Seq(Steps) /\ m \in Nat
    BY <1>1, MaxKeepAssumption DEF KeepInv, TypeOK
  <2> QED  BY <2>1, KeepStartType
<1>3. /\ Len(SubSeq(list, n + 1, Len(list))) = Len(list) - n
      /\ \A i \in 1..(Len(list) - n) :
           SubSeq(list, n + 1, Len(list))[i] = list[n + i]
  BY <1>2, SuffixType
<1>4. \A r \in Roles : \A j \in Ranks :
        paths'[r][j] = IF r = phase /\ j = k
                       THEN SubSeq(list, n + 1, Len(list)) ELSE paths[r][j]
  BY <1>1 DEF Prune, KeepInv, TypeOK
<1>5. \A s \in Steps : \A r \in Roles : \A j \in Ranks :
        shard'[s][r][j] = IF r = phase /\ s \in Doomed(list, m)
                          THEN Absent ELSE shard[s][r][j]
  BY <1>1 DEF Prune, KeepInv, TypeOK, AllRanks
<1>6. \A j \in Ranks : rpc'[j] = IF j = k THEN "mkdir" ELSE rpc[j]
  BY <1>1 DEF KeepInv, TypeOK
<1> HIDE DEF list, m, n
<1>7. OwnShards'
  <2>1. life \in Nat /\ life > 0
    BY <1>1 DEF KeepInv, TypeOK, OwnShards
  <2> SUFFICES ASSUME NEW s \in Steps, NEW r \in Roles, NEW l \in Ranks
               PROVE  /\ shard'[s][r][l] <= life
                      /\ shard'[s][r][l] = life =>
                           \A j \in Ranks :
                             \/ s = gstep /\ phase = r /\ rpc'[l] = "dumped"
                             \/ \E i \in 1..Len(paths'[r][j]) : paths'[r][j][i] = s
    BY <1>1, <2>1 DEF OwnShards, Up
  <2>2. shard[s][r][l] <= life
    BY DEF KeepInv, OwnShards
  <2>3. shard'[s][r][l] <= life
    BY <1>5, <2>1, <2>2 DEF Absent
  <2>4. ASSUME shard'[s][r][l] = life, NEW j \in Ranks,
               ~(s = gstep /\ phase = r /\ rpc'[l] = "dumped")
        PROVE  \E i \in 1..Len(paths'[r][j]) : paths'[r][j][i] = s
    <3>1. shard[s][r][l] = life /\ (r = phase => s \notin Doomed(list, m))
      BY <1>5, <2>1, <2>4 DEF Absent
    <3>2. ~(s = gstep /\ phase = r /\ rpc[l] = "dumped")
      BY <1>1, <1>6, <2>4
    <3>3. PICK i \in 1..Len(paths[r][j]) : paths[r][j][i] = s
      BY <1>1, <3>1, <3>2 DEF KeepInv, OwnShards
    <3>4. CASE r = phase /\ j = k
      <4>1. i \in 1..Len(list) /\ list[i] = s
        BY <3>3, <3>4 DEF list
      <4>2. i \notin 1..n
        BY <3>1, <3>4, <4>1 DEF Doomed, n
      <4>3. i - n \in 1..(Len(list) - n) /\ n + (i - n) = i
        BY <1>2, <4>1, <4>2
      <4>4. paths'[r][j] = SubSeq(list, n + 1, Len(list))
        BY <1>4, <3>4
      <4>5. paths'[r][j][i - n] = s /\ i - n \in 1..Len(paths'[r][j])
        BY <1>3, <4>1, <4>3, <4>4
      <4> QED  BY <4>5
    <3>5. CASE ~(r = phase /\ j = k)
      BY <1>4, <3>3, <3>5
    <3> QED  BY <3>4, <3>5
  <2> QED  BY <2>3, <2>4
<1>8. ListRoom'
  <2> SUFFICES ASSUME NEW r \in Roles, NEW j \in Ranks, MaxKeep[r] > 0
               PROVE  /\ Len(paths'[r][j]) <= MaxKeep[r]
                      /\ phase = r /\ rpc'[j] # "prune" =>
                           Len(paths'[r][j]) < MaxKeep[r]
    BY <1>1 DEF ListRoom
  <2>1. CASE r = phase /\ j = k
    <3>1. Len(paths'[r][j]) = Len(list) - n /\ m > 0 /\ m = MaxKeep[r]
      BY <1>3, <1>4, <2>1 DEF m
    <3>2. Len(list) - n < m /\ Len(list) \in Nat
      BY <1>2, <3>1 DEF n, KeepStart
    <3> QED  BY <1>2, <3>1, <3>2
  <2>2. CASE ~(r = phase /\ j = k)
    BY <1>4, <1>6, <2>2 DEF KeepInv, ListRoom
  <2> QED  BY <2>1, <2>2
<1> QED  BY <1>7, <1>8 DEF KeepInv

LEMMA RoleSavedKeepInv ==
  ASSUME KeepInv, TypeOK', RoleSaved
  PROVE  KeepInv'
<1>1. /\ phase \in Roles /\ gstep \in Steps /\ Up /\ Up'
      /\ \A k \in Ranks : rpc[k] = "dumped"
      /\ UNCHANGED <<shard, data, dirs, tracker, life, gstep, pos>>
      /\ phase' # phase
      /\ phase' \in Roles => rpc' = AllRanks("prune")
  BY RolesAssumption
     DEF RoleSaved, KeepInv, TypeOK, RolePhase, Up, After, AllRanks
<1>2. \A r \in Roles : \A j \in Ranks :
        /\ paths[r][j] \in Seq(Steps)
        /\ paths'[r][j] = IF r = phase THEN Append(paths[r][j], gstep)
                          ELSE paths[r][j]
  BY <1>1 DEF RoleSaved, KeepInv, TypeOK
<1>3. \A r \in Roles : \A j \in Ranks :
        /\ Len(paths'[r][j]) = IF r = phase THEN Len(paths[r][j]) + 1
                               ELSE Len(paths[r][j])
        /\ \A i \in 1..Len(paths[r][j]) : paths'[r][j][i] = paths[r][j][i]
        /\ r = phase => paths'[r][j][Len(paths[r][j]) + 1] = gstep
        /\ Len(paths[r][j]) \in Nat
  <2> SUFFICES ASSUME NEW r \in Roles, NEW j \in Ranks
               PROVE  /\ Len(paths'[r][j]) = IF r = phase
                                             THEN Len(paths[r][j]) + 1
                                             ELSE Len(paths[r][j])
                      /\ \A i \in 1..Len(paths[r][j]) :
                           paths'[r][j][i] = paths[r][j][i]
                      /\ r = phase => paths'[r][j][Len(paths[r][j]) + 1] = gstep
                      /\ Len(paths[r][j]) \in Nat
    OBVIOUS
  <2> DEFINE list == paths[r][j]
  <2>1. list \in Seq(Steps) /\ gstep \in Steps
    BY <1>1, <1>2
  <2>2. /\ Len(Append(list, gstep)) = Len(list) + 1
        /\ \A i \in 1..Len(list) : Append(list, gstep)[i] = list[i]
        /\ Append(list, gstep)[Len(list) + 1] = gstep
        /\ Len(list) \in Nat
    <3> HIDE DEF list
    <3> QED  BY <2>1
  <2> QED  BY <1>2, <2>2
<1>4. OwnShards'
  <2> SUFFICES ASSUME NEW s \in Steps, NEW r \in Roles, NEW k \in Ranks,
                      shard[s][r][k] = life, NEW j \in Ranks
               PROVE  \E i \in 1..Len(paths'[r][j]) : paths'[r][j][i] = s
    BY <1>1 DEF KeepInv, OwnShards
  <2>1. CASE s = gstep /\ phase = r /\ rpc[k] = "dumped"
    BY <1>3, <2>1
  <2>2. CASE \E i \in 1..Len(paths[r][j]) : paths[r][j][i] = s
    BY <1>3, <2>2
  <2> QED  BY <1>1, <2>1, <2>2, SMTT(20) DEF KeepInv, OwnShards
<1>5. ListRoom'
  <2> SUFFICES ASSUME NEW r \in Roles, NEW k \in Ranks, MaxKeep[r] > 0
               PROVE  /\ Len(paths'[r][k]) <= MaxKeep[r]
                      /\ phase' = r /\ rpc'[k] # "prune" =>
                           Len(paths'[r][k]) < MaxKeep[r]
    BY DEF ListRoom
  <2>1. ~(phase' = r /\ rpc'[k] # "prune")
    BY <1>1 DEF AllRanks
  <2>2. Len(paths[r][k]) <= MaxKeep[r] /\ (r = phase => Len(paths[r][k]) < MaxKeep[r])
    BY <1>1 DEF KeepInv, ListRoom
  <2>3. MaxKeep[r] \in Nat
    BY MaxKeepAssumption
  <2> QED  BY <1>3, <2>1, <2>2, <2>3
<1> QED  BY <1>4, <1>5 DEF KeepInv

LEMMA NextKeepInv ==
  ASSUME KeepInv, [Next]_vars
  PROVE  KeepInv'
<1>1. TypeOK'
  BY TypeInductive DEF KeepInv
<1>2. CASE Launch
  BY <1>1, <1>2, LaunchKeepInv
<1>3. CASE TrainStep
  BY <1>1, <1>3, DriverKeepInv DEF TrainStep, RolePhase, Up
<1>4. CASE DataExhausted \/ Crash
  BY <1>1, <1>4, ExitKeepInv DEF DataExhausted, Crash
<1>5. CASE RoleSaved
  BY <1>1, <1>5, RoleSavedKeepInv
<1>6. CASE OpenData \/ WriteData \/ OpenTracker
  BY <1>1, <1>6, DriverKeepInv DEF OpenData, WriteData, OpenTracker, RolePhase, Up
<1>7. CASE WriteTracker
  <2>1. phase = "write" /\ NextStep /\ UNCHANGED <<shard, life>>
    BY <1>7 DEF WriteTracker
  <2>2. CASE Exit("down")
    BY <1>1, <2>1, <2>2, ExitKeepInv
  <2>3. CASE phase' = "head" /\ UNCHANGED paths
    BY <1>1, <2>1, <2>3, DriverKeepInv DEF RolePhase, Up
  <2> QED  BY <2>1, <2>2, <2>3, Zenon DEF NextStep
<1>8. ASSUME NEW k \in Ranks, Prune(k)
      PROVE  KeepInv'
  BY <1>1, <1>8, PruneKeepInv
<1>9. ASSUME NEW k \in Ranks, Mkdir(k)
      PROVE  KeepInv'
  <2>1. UNCHANGED <<shard, life, phase, gstep, paths>>
    BY <1>9 DEF Mkdir
  <2>2. \A j \in Ranks :
          /\ rpc[j] = "dumped" => rpc'[j] = "dumped"
          /\ rpc[j] # "prune" => rpc'[j] # "prune"
          /\ rpc'[j] # "prune" => rpc[j] # "prune"
    BY <1>9 DEF Mkdir, KeepInv, TypeOK
  <2> QED  BY <1>1, <2>1, <2>2, QuietKeepInv
<1>10. ASSUME NEW k \in Ranks, OpenShard(k) \/ WriteShard(k)
       PROVE  KeepInv'
  BY <1>1, <1>10, WriteKeepInv
<1>11. CASE UNCHANGED vars
  BY <1>1, <1>11, QuietKeepInv DEF vars
<1> QED
  BY <1>2, <1>3, <1>4, <1>5, <1>6, <1>7, <1>8, <1>9, <1>10, <1>11
     DEF Next, DriverStep, RankStep, Finished

\* The steps a list of saved paths names.
Listed(list) == {list[i] : i \in 1..Len(list)}

\* A list names at most as many steps as it is long.
LEMMA ListedBound ==
  ASSUME NEW list \in Seq(Steps)
  PROVE  /\ IsFiniteSet(Listed(list))
         /\ Cardinality(Listed(list)) \in Nat
         /\ Cardinality(Listed(list)) <= Len(list)
<1>1. Len(list) \in Nat
  OBVIOUS
<1>2. IsFiniteSet(1..Len(list)) /\ Cardinality(1..Len(list)) = Len(list)
  BY <1>1, FS_Interval
<1> DEFINE f == [i \in 1..Len(list) |-> list[i]]
<1>3. f \in Surjection(1..Len(list), Listed(list))
  BY DEF Surjection, Listed
<1>4. /\ IsFiniteSet(Listed(list))
      /\ Cardinality(Listed(list)) <= Cardinality(1..Len(list))
  <2> HIDE DEF f
  <2> QED  BY <1>2, <1>3, FS_Surjection
<1> QED  BY <1>2, <1>4, FS_CardinalityType

\* A process keeps at most its limit of each role's checkpoints.
LEMMA KeepInvBounds == KeepInv => KeepsAtMost
<1> SUFFICES ASSUME KeepInv, NEW r \in Roles, MaxKeep[r] > 0
             PROVE  Cardinality({s \in Steps : \E k \in Ranks :
                       shard[s][r][k] = life /\ Up}) <= MaxKeep[r]
  BY DEF KeepsAtMost
<1> DEFINE Own == {s \in Steps : \E k \in Ranks : shard[s][r][k] = life /\ Up}
           Dumped(j) == phase = r /\ rpc[j] = "dumped"
<1> SUFFICES Cardinality(Own) <= MaxKeep[r]
  OBVIOUS
<1>1. MaxKeep[r] \in Nat
  BY MaxKeepAssumption
<1>2. ASSUME NEW j \in Ranks
      PROVE  /\ IsFiniteSet(Listed(paths[r][j]))
             /\ Cardinality(Listed(paths[r][j])) \in Nat
             /\ Cardinality(Listed(paths[r][j])) <= Len(paths[r][j])
             /\ Len(paths[r][j]) \in Nat
  <2>1. paths[r][j] \in Seq(Steps)
    BY DEF KeepInv, TypeOK
  <2> QED  BY <2>1, ListedBound
<1>3. CASE \E j \in Ranks : Dumped(j)
  <2>1. PICK j \in Ranks : Dumped(j)
    BY <1>3
  <2>2. Len(paths[r][j]) < MaxKeep[r]
    BY <2>1 DEF KeepInv, ListRoom
  <2>3. Own \subseteq Listed(paths[r][j]) \cup {gstep}
    BY DEF KeepInv, OwnShards, Listed
  <2>4. /\ IsFiniteSet(Listed(paths[r][j]) \cup {gstep})
        /\ Cardinality(Listed(paths[r][j]) \cup {gstep}) <= MaxKeep[r]
        /\ Cardinality(Listed(paths[r][j]) \cup {gstep}) \in Nat
    <3> DEFINE A == Listed(paths[r][j])
    <3>1. IsFiniteSet(A) /\ Cardinality(A) \in Nat /\ Cardinality(A) < MaxKeep[r]
      BY <1>1, <1>2, <2>2
    <3> HIDE DEF A
    <3>2. IsFiniteSet(A \cup {gstep})
      BY <3>1, FS_AddElement
    <3>3. Cardinality(A \cup {gstep}) \in {Cardinality(A), Cardinality(A) + 1}
      BY <3>1, FS_AddElement
    <3>4. Cardinality(A \cup {gstep}) <= MaxKeep[r] /\ Cardinality(A \cup {gstep}) \in Nat
      BY <1>1, <3>1, <3>3
    <3> QED  BY <3>2, <3>4 DEF A
  <2>5. Cardinality(Own) <= Cardinality(Listed(paths[r][j]) \cup {gstep}) /\ IsFiniteSet(Own)
    <3> HIDE DEF Own
    <3> QED  BY <2>3, <2>4, FS_Subset
  <2>6. Cardinality(Own) \in Nat
    BY <2>5, FS_CardinalityType
  <2> HIDE DEF Own
  <2> QED  BY <1>1, <2>4, <2>5, <2>6
<1>4. CASE ~ \E j \in Ranks : Dumped(j)
  <2>1. PICK j \in Ranks : TRUE
    BY RanksAssumption
  <2>2. Len(paths[r][j]) <= MaxKeep[r]
    BY DEF KeepInv, ListRoom
  <2>3. Own \subseteq Listed(paths[r][j])
    BY <1>4, <2>1 DEF KeepInv, OwnShards, Listed
  <2>4. Cardinality(Own) <= Cardinality(Listed(paths[r][j])) /\ IsFiniteSet(Own)
    <3> HIDE DEF Own
    <3> QED  BY <1>2, <2>1, <2>3, FS_Subset
  <2>5. Cardinality(Own) \in Nat
    BY <2>4, FS_CardinalityType
  <2> HIDE DEF Own
  <2> QED  BY <1>1, <1>2, <2>1, <2>2, <2>4, <2>5
<1> QED  BY <1>3, <1>4

-----------------------------------------------------------------------------
(* The rotation and the tracker.                                           *)

\* A job that is down has no list; it exits, and is launched, without one.
LEMMA ExitSparesInv ==
  ASSUME SparesInv, TypeOK', Exit("down"), UNCHANGED shard,
         RotationSparesTracker'
  PROVE  SparesInv'
<1>1. ~Up' /\ ~Saving'
  BY RolesAssumption DEF Exit, Up, Saving, Tail4
<1>2. NewestPath'
  BY RolesAssumption DEF Exit, NoSavedPaths, NewestPath, Increasing
<1> QED  BY <1>1, <1>2 DEF SparesInv, Written

LEMMA LaunchSparesInv ==
  ASSUME SparesInv, TypeOK', Launch
  PROVE  SparesInv'
<1>1. /\ ~Up
      /\ life' = life + 1 /\ life \in Nat
      /\ phase' \in {"head", "failed"}
      /\ UNCHANGED <<shard, paths, rpc, tracker>>
  BY DEF Launch, LaunchAuto, LaunchDisable, LaunchPath, FromScratch, ResumeFrom,
         SparesInv, TypeOK
<1>2. ~Saving'
  BY <1>1, RolesAssumption DEF Saving, Tail4
<1>3. \A r \in Roles : \A k \in Ranks : Len(paths[r][k]) = 0
  BY <1>1 DEF SparesInv, TypeOK, NewestPath
<1>4. NewestPath'
  BY <1>1, <1>3 DEF NewestPath, Increasing
<1> QED
  BY <1>1, <1>2, <1>4 DEF SparesInv, Written, RotationSparesTracker

LEMMA TrainSparesInv ==
  ASSUME SparesInv, TypeOK', TrainStep
  PROVE  SparesInv'
<1>1. /\ phase = "head" /\ Up /\ Up' /\ gstep \in Nat /\ gstep' \in Nat
      /\ gstep <= gstep'
      /\ UNCHANGED <<shard, tracker, life, paths>>
      /\ \/ phase' = "actor" /\ rpc' = AllRanks("prune")
         \/ phase' = "head"
  BY DEF TrainStep, Up, SparesInv, TypeOK
<1>2. \A r \in Roles : ~Saved(r) /\ ~Saved(r)'
  BY <1>1 DEF Saved, Tail4
<1>3. NewestPath'
  <2> SUFFICES ASSUME NEW r \in Roles, NEW k \in Ranks
               PROVE  /\ Increasing(paths[r][k])
                      /\ Len(paths[r][k]) > 0 =>
                           paths[r][k][Len(paths[r][k])] = tracker
                      /\ \A i \in 1..Len(paths[r][k]) : paths[r][k][i] < gstep'
    BY <1>1, <1>2 DEF NewestPath
  <2>1. \A i \in 1..Len(paths[r][k]) : paths[r][k][i] \in Nat
    BY Numbers DEF SparesInv
  <2> QED  BY <1>1, <1>2, <2>1 DEF SparesInv, NewestPath
<1>4. Written'
  BY <1>1, <1>2, RolesAssumption DEF SparesInv, Written, Saving, Tail4, AllRanks
<1> QED
  BY <1>1, <1>3, <1>4 DEF SparesInv, RotationSparesTracker

LEMMA PruneSparesInv ==
  ASSUME KeepsTwo, SparesInv, TypeOK', NEW k \in Ranks, Prune(k)
  PROVE  SparesInv'
<1> DEFINE list == paths[phase][k]
           m    == MaxKeep[phase]
           n    == KeepStart(list, m)
<1>1. /\ phase \in Roles /\ gstep \in Steps /\ Up /\ rpc[k] = "prune"
      /\ phase \notin Tail4
      /\ UNCHANGED <<data, dirs, tracker, life, phase, gstep, pos>>
      /\ rpc' = [rpc EXCEPT ![k] = "mkdir"]
  BY RolesAssumption DEF Prune, SparesInv, TypeOK, RolePhase, Up, Tail4
<1>2. /\ list \in Seq(Steps) /\ m \in Nat /\ m # 1
      /\ n \in Nat /\ n <= Len(list) /\ (Len(list) > 0 => n < Len(list))
      /\ tracker \in Int
  <2>1. list \in Seq(Steps)
    BY <1>1 DEF SparesInv, TypeOK
  <2>2. m \in Nat /\ m # 1
    BY <1>1, MaxKeepAssumption DEF KeepsTwo
  <2>3. Len(list) > 0 => n < Len(list)
    BY <2>1, <2>2 DEF KeepStart
  <2> QED  BY <2>1, <2>2, <2>3, KeepStartType, Numbers DEF SparesInv
<1>3. /\ Len(SubSeq(list, n + 1, Len(list))) = Len(list) - n
      /\ \A i \in 1..(Len(list) - n) :
           SubSeq(list, n + 1, Len(list))[i] = list[n + i]
  BY <1>2, SuffixType
<1>4. \A r \in Roles : \A j \in Ranks :
        paths'[r][j] = IF r = phase /\ j = k
                       THEN SubSeq(list, n + 1, Len(list)) ELSE paths[r][j]
  BY <1>1 DEF Prune, SparesInv, TypeOK
<1>5. ~Saved(phase)
  BY <1>1 DEF Saved
<1>6. /\ Increasing(list)
      /\ Len(list) > 0 => list[Len(list)] = tracker
      /\ \A i \in 1..Len(list) : list[i] < gstep
  BY <1>1, <1>5 DEF SparesInv, NewestPath
<1>7. \A i \in 1..Len(list) : list[i] \in Nat
  BY <1>1, Numbers DEF SparesInv
<1>8. tracker \notin Doomed(list, m) /\ gstep \notin Doomed(list, m)
  <2> HIDE DEF list, m
  <2>1. \A i \in 1..Len(list) : list[i] <= tracker
    <3> SUFFICES ASSUME NEW i \in 1..Len(list) PROVE list[i] <= tracker
      OBVIOUS
    <3>1. CASE i = Len(list)
      BY <1>2, <1>6, <1>7, <3>1
    <3>2. CASE i # Len(list)
      <4>1. i < Len(list) /\ Len(list) \in 1..Len(list) /\ Len(list) > 0
        BY <1>2, <3>2
      <4>2. list[i] < list[Len(list)]
        BY <1>6, <4>1 DEF Increasing
      <4> QED  BY <1>2, <1>6, <1>7, <4>1, <4>2
    <3> QED  BY <3>1, <3>2
  <2>2. ASSUME NEW s \in Doomed(list, m) PROVE s < tracker
    BY <1>2, <1>6, <2>1, RotationRemovesOlder
  <2>3. gstep \notin Doomed(list, m)
    <3> SUFFICES ASSUME NEW i \in 1..n PROVE list[i] # gstep
      BY DEF Doomed, n
    <3>1. i \in 1..Len(list)
      BY <1>2
    <3> QED  BY <1>1, <1>6, <1>7, <3>1 DEF Steps
  <2> QED  BY <1>2, <2>2, <2>3
<1>9. \A s \in Steps : s \notin Doomed(list, m) => shard'[s] = shard[s]
  BY <1>1 DEF Prune
<1>10. NewestPath'
  <2> SUFFICES ASSUME NEW r \in Roles, NEW j \in Ranks
               PROVE  /\ Increasing(paths'[r][j])
                      /\ Len(paths'[r][j]) > 0 =>
                           paths'[r][j][Len(paths'[r][j])] =
                             IF Saved(r) THEN gstep ELSE tracker
                      /\ ~Saved(r) =>
                           \A i \in 1..Len(paths'[r][j]) : paths'[r][j][i] < gstep
    BY <1>1 DEF NewestPath, Up, Saved
  <2>1. CASE r = phase /\ j = k
    <3> HIDE DEF list, n
    <3>1. paths'[r][j] = SubSeq(list, n + 1, Len(list))
      BY <1>4, <2>1
    <3>2. /\ Len(paths'[r][j]) = Len(list) - n
          /\ \A i \in 1..(Len(list) - n) : paths'[r][j][i] = list[n + i]
      BY <1>3, <3>1
    <3>3. Increasing(paths'[r][j])
      BY <1>2, <1>6, <3>2 DEF Increasing
    <3>4. Len(paths'[r][j]) > 0 => paths'[r][j][Len(paths'[r][j])] = tracker
      BY <1>2, <1>6, <3>2
    <3>5. \A i \in 1..Len(paths'[r][j]) : paths'[r][j][i] < gstep
      BY <1>2, <1>6, <3>2
    <3> QED  BY <1>5, <2>1, <3>3, <3>4, <3>5
  <2>2. CASE ~(r = phase /\ j = k)
    BY <1>4, <2>2 DEF SparesInv, NewestPath
  <2> QED  BY <2>1, <2>2
<1>11. Written'
  <2>1. \A j \in Ranks : rpc'[j] = "dumped" => rpc[j] = "dumped"
    BY <1>1 DEF SparesInv, TypeOK
  <2>2. shard'[gstep] = shard[gstep]
    BY <1>1, <1>8, <1>9
  <2> QED  BY <1>1, <2>1, <2>2 DEF SparesInv, Written, Saving, Saved, Up
<1>12. RotationSparesTracker'
  BY <1>1, <1>8, <1>9 DEF SparesInv, RotationSparesTracker
<1> QED  BY <1>10, <1>11, <1>12 DEF SparesInv

LEMMA WriteSparesInv ==
  ASSUME SparesInv, TypeOK', NEW k \in Ranks, OpenShard(k) \/ WriteShard(k)
  PROVE  SparesInv'
<1>1. /\ phase \in Roles /\ gstep \in Steps /\ Up /\ Saving /\ ~Saved(phase)
      /\ UNCHANGED <<data, dirs, tracker, life, phase, gstep, pos, paths>>
      /\ life \in Nat /\ life > 0
  BY RolesAssumption
     DEF OpenShard, WriteShard, SparesInv, TypeOK, RolePhase, Up, Saving, Saved,
         Tail4, Written
<1>2. \A s \in Steps : \A r \in Roles : \A j \in Ranks :
        shard'[s][r][j] = IF s = gstep /\ r = phase /\ j = k
                          THEN shard'[gstep][phase][k] ELSE shard[s][r][j]
  <2>1. \A x : shard' = [shard EXCEPT ![gstep][phase][k] = x] =>
          \A s \in Steps : \A r \in Roles : \A j \in Ranks :
            shard'[s][r][j] = IF s = gstep /\ r = phase /\ j = k
                              THEN shard'[gstep][phase][k] ELSE shard[s][r][j]
    BY <1>1 DEF SparesInv, TypeOK
  <2> QED  BY <2>1 DEF OpenShard, WriteShard
<1>3. \/ /\ shard'[gstep][phase][k] = Partial
         /\ rpc' = [rpc EXCEPT ![k] = "writing"]
      \/ /\ shard'[gstep][phase][k] = life
         /\ rpc' = [rpc EXCEPT ![k] = "dumped"]
  BY <1>1 DEF OpenShard, WriteShard, SparesInv, TypeOK
<1>4. NewestPath'
  BY <1>1 DEF SparesInv, NewestPath, Saved, Up
<1>5. Written'
  <2> SUFFICES ASSUME NEW r \in Roles, NEW j \in Ranks,
                      Saved(r) \/ (phase = r /\ rpc'[j] = "dumped")
               PROVE  shard'[gstep][r][j] = life
    BY <1>1 DEF Written, Saved, Up
  <2>1. CASE r = phase /\ j = k
    BY <1>1, <1>3, <2>1 DEF SparesInv, TypeOK
  <2>2. CASE ~(r = phase /\ j = k)
    <3>1. phase = r => rpc'[j] = rpc[j]
      BY <1>3, <2>2 DEF SparesInv, TypeOK
    <3> QED  BY <1>1, <1>2, <2>2, <3>1 DEF SparesInv, Written
  <2> QED  BY <2>1, <2>2
<1>6. RotationSparesTracker'
  BY <1>1, <1>2, <1>3 DEF SparesInv, RotationSparesTracker, Partial, Absent
<1> QED  BY <1>4, <1>5, <1>6 DEF SparesInv

LEMMA RoleSavedSparesInv ==
  ASSUME SparesInv, TypeOK', RoleSaved
  PROVE  SparesInv'
<1>1. /\ phase \in Roles /\ gstep \in Steps /\ Up /\ Up' /\ Saving /\ Saving'
      /\ phase \notin Tail4
      /\ \A k \in Ranks : rpc[k] = "dumped"
      /\ UNCHANGED <<shard, data, dirs, tracker, life, gstep, pos>>
      /\ phase' \in Roles => rpc' = AllRanks("prune")
  BY RolesAssumption
     DEF RoleSaved, SparesInv, TypeOK, RolePhase, Up, After, AllRanks, Saving, Tail4
<1>2. \A r \in Roles : Saved(r)' <=> Saved(r) \/ r = phase
  BY <1>1, RolesAssumption DEF RoleSaved, Saved, After, RolePhase, Tail4
<1>3. ~Saved(phase)
  BY <1>1 DEF Saved
<1>4. NewestPath'
  <2> SUFFICES ASSUME NEW r \in Roles, NEW k \in Ranks
               PROVE  /\ Increasing(paths'[r][k])
                      /\ Len(paths'[r][k]) > 0 =>
                           paths'[r][k][Len(paths'[r][k])] =
                             IF Saved(r)' THEN gstep ELSE tracker
                      /\ ~Saved(r)' =>
                           \A i \in 1..Len(paths'[r][k]) : paths'[r][k][i] < gstep
    BY <1>1 DEF NewestPath
  <2>1. CASE r # phase
    <3>1. paths'[r][k] = paths[r][k]
      BY <2>1 DEF RoleSaved, SparesInv, TypeOK
    <3> QED  BY <1>2, <2>1, <3>1 DEF SparesInv, NewestPath
  <2>2. CASE r = phase
    <3> DEFINE list == paths[phase][k]
    <3>1. list \in Seq(Steps) /\ paths'[r][k] = Append(list, gstep)
      BY <1>1, <2>2 DEF RoleSaved, SparesInv, TypeOK
    <3>2. Increasing(list) /\ \A i \in 1..Len(list) : list[i] < gstep
      BY <1>1, <1>3 DEF SparesInv, NewestPath
    <3> HIDE DEF list
    <3>3. /\ Len(list) \in Nat
          /\ Len(Append(list, gstep)) = Len(list) + 1
          /\ \A i \in 1..Len(list) : Append(list, gstep)[i] = list[i]
          /\ Append(list, gstep)[Len(list) + 1] = gstep
      BY <1>1, <3>1
    <3>4. Increasing(Append(list, gstep))
      BY <3>2, <3>3 DEF Increasing
    <3> QED  BY <1>2, <2>2, <3>1, <3>3, <3>4
  <2> QED  BY <2>1, <2>2
<1>5. Written'
  BY <1>1, <1>2 DEF SparesInv, Written, AllRanks
<1> QED
  BY <1>1, <1>4, <1>5 DEF SparesInv, RotationSparesTracker

\* data.pt and the first half of rewriting the tracker.
LEMMA TailSparesInv ==
  ASSUME SparesInv, TypeOK', OpenData \/ WriteData \/ OpenTracker
  PROVE  SparesInv'
<1>1. /\ phase \in Tail4 /\ phase' \in Tail4
      /\ UNCHANGED <<shard, life, gstep, rpc, paths>>
      /\ tracker' = tracker \/ tracker' = Torn
  BY DEF OpenData, WriteData, OpenTracker, Tail4
<1>2. Up /\ Up' /\ Saving /\ Saving' /\ \A r \in Roles : Saved(r) /\ Saved(r)'
  BY <1>1 DEF Up, Saving, Saved, Tail4
<1>3. NewestPath'
  BY <1>1, <1>2 DEF SparesInv, NewestPath
<1>4. Written'
  BY <1>1, <1>2 DEF SparesInv, Written
<1>5. RotationSparesTracker'
  BY <1>1, StepsAssumption DEF SparesInv, RotationSparesTracker, Torn, Steps
<1> QED  BY <1>3, <1>4, <1>5 DEF SparesInv

LEMMA WriteTrackerSparesInv ==
  ASSUME SparesInv, TypeOK', WriteTracker
  PROVE  SparesInv'
<1>1. /\ phase = "write" /\ tracker' = gstep /\ NextStep
      /\ UNCHANGED <<shard, data, dirs, life>>
      /\ gstep \in Steps
      /\ life \in Nat
  BY DEF WriteTracker, SparesInv, TypeOK
<1>2. Up /\ Saving /\ \A r \in Roles : Saved(r)
  BY <1>1 DEF Up, Saving, Saved, Tail4
<1>3. RotationSparesTracker'
  BY <1>1, <1>2 DEF SparesInv, Written, RotationSparesTracker, Absent
<1>4. CASE Exit("down")
  BY <1>1, <1>3, <1>4, ExitSparesInv
<1>5. CASE /\ phase' = "head" /\ gstep' = gstep + 1
           /\ UNCHANGED <<pos, rpc, paths>>
  <2>1. Up' /\ ~Saving' /\ \A r \in Roles : ~Saved(r)'
    BY <1>5, RolesAssumption DEF Up, Saving, Saved, Tail4
  <2>2. NewestPath'
    <3> SUFFICES ASSUME NEW r \in Roles, NEW k \in Ranks
                 PROVE  /\ Increasing(paths[r][k])
                        /\ Len(paths[r][k]) > 0 =>
                             paths[r][k][Len(paths[r][k])] = gstep
                        /\ \A i \in 1..Len(paths[r][k]) :
                             paths[r][k][i] < gstep + 1
      BY <1>1, <1>5, <2>1 DEF NewestPath
    <3> DEFINE list == paths[r][k]
    <3>1. list \in Seq(Steps) /\ Increasing(list)
      BY DEF SparesInv, TypeOK, NewestPath
    <3>2. Len(list) > 0 => list[Len(list)] = gstep
      BY <1>2 DEF SparesInv, NewestPath
    <3>3. \A i \in 1..Len(list) : list[i] \in Nat
      BY Numbers DEF SparesInv
    <3> HIDE DEF list
    <3>4. ASSUME NEW i \in 1..Len(list)
          PROVE  list[i] < gstep + 1
      <4>1. Len(list) \in Nat /\ Len(list) > 0 /\ Len(list) \in 1..Len(list)
        BY <3>1
      <4>2. i < Len(list) => list[i] < list[Len(list)]
        BY <3>1, <4>1 DEF Increasing
      <4> QED  BY <1>1, <3>2, <3>3, <4>1, <4>2 DEF Steps
    <3> QED  BY <3>1, <3>2, <3>4 DEF list
  <2> QED  BY <1>1, <1>2, <1>3, <2>1, <2>2 DEF SparesInv, Written
<1> QED
  BY <1>1, <1>4, <1>5, Zenon DEF NextStep

LEMMA NextSparesInv ==
  ASSUME KeepsTwo, SparesInv, [Next]_vars
  PROVE  SparesInv'
<1>1. TypeOK'
  BY TypeInductive DEF SparesInv
<1>2. CASE Launch
  BY <1>1, <1>2, LaunchSparesInv
<1>3. CASE TrainStep
  BY <1>1, <1>3, TrainSparesInv
<1>4. CASE DataExhausted \/ Crash
  <2>1. Exit("down") /\ UNCHANGED <<shard, tracker>>
    BY <1>4 DEF DataExhausted, Crash
  <2>2. RotationSparesTracker'
    BY <2>1 DEF SparesInv, RotationSparesTracker
  <2> QED  BY <1>1, <2>1, <2>2, ExitSparesInv
<1>5. CASE RoleSaved
  BY <1>1, <1>5, RoleSavedSparesInv
<1>6. CASE OpenData \/ WriteData \/ OpenTracker
  BY <1>1, <1>6, TailSparesInv
<1>7. CASE WriteTracker
  BY <1>1, <1>7, WriteTrackerSparesInv
<1>8. ASSUME NEW k \in Ranks, Prune(k)
      PROVE  SparesInv'
  BY <1>1, <1>8, PruneSparesInv
<1>9. ASSUME NEW k \in Ranks, Mkdir(k)
      PROVE  SparesInv'
  <2>1. UNCHANGED <<shard, tracker, life, phase, gstep, paths>>
    BY <1>9 DEF Mkdir
  <2>2. \A j \in Ranks : rpc'[j] = "dumped" => rpc[j] = "dumped"
    BY <1>9 DEF Mkdir, SparesInv, TypeOK
  <2> QED
    BY <1>1, <2>1, <2>2
       DEF SparesInv, NewestPath, Written, RotationSparesTracker, Up, Saving, Saved
<1>10. ASSUME NEW k \in Ranks, OpenShard(k) \/ WriteShard(k)
       PROVE  SparesInv'
  BY <1>1, <1>10, WriteSparesInv
<1>11. CASE UNCHANGED vars
  BY <1>1, <1>11
     DEF vars, SparesInv, NewestPath, Written, RotationSparesTracker, Up, Saving,
         Saved
<1> QED
  BY <1>2, <1>3, <1>4, <1>5, <1>6, <1>7, <1>8, <1>9, <1>10, <1>11
     DEF Next, DriverStep, RankStep, Finished

-----------------------------------------------------------------------------
\* A job past the end trains at most one step per launch: fit() tests for the
\* last step only after training one.
THEOREM EndIsPassedOncePerLaunch ==
  ASSUME AutoOnly, KeepsTwo
  PROVE  Spec => []OneStepPerLaunchPastTheEnd
<1>1. Init => EndInv
  BY StepsAssumption DEF Init, EndInv, Up, NoTracker
<1>2. IInv /\ EndInv /\ [Next]_vars => EndInv'
  <2> SUFFICES ASSUME IInv, EndInv, [Next]_vars PROVE EndInv'
    OBVIOUS
  <2>1. /\ gstep \in Nat /\ life \in Nat /\ tracker \in Int
        /\ TotalSteps \in Nat /\ TotalSteps > 0
        /\ Up => life > 0
    BY Numbers, StepsAssumption DEF IInv, UpInv
  <2>2. CASE Launch
    BY <2>1, <2>2, LaunchOutcome, StepsAssumption DEF EndInv, Up, Torn
  <2>3. CASE TrainStep
    <3>1. /\ Up /\ UNCHANGED <<life, tracker>>
          /\ gstep' = gstep \/ (gstep' = gstep + 1 /\ gstep < TotalSteps)
      BY <2>1, <2>3 DEF TrainStep, SaveDue, IsLastStep, Up
    <3> QED  BY <2>1, <3>1 DEF EndInv
  <2>4. CASE WriteTracker
    <3>1. /\ Up /\ tracker' = gstep /\ life' = life
          /\ \/ ~Up'
             \/ gstep' = gstep + 1 /\ gstep < TotalSteps
      <4>1. Up /\ tracker' = gstep /\ life' = life /\ NextStep
        BY <2>4 DEF WriteTracker, Up
      <4>2. CASE IsLastStep
        <5>1. Exit("down")
          BY <4>1, <4>2, Zenon DEF NextStep
        <5> QED  BY <4>1, <5>1 DEF Exit, Up
      <4>3. CASE ~IsLastStep
        BY <2>1, <4>1, <4>3 DEF NextStep, IsLastStep
      <4> QED  BY <4>2, <4>3
    <3> QED  BY <2>1, <3>1 DEF EndInv
  <2>5. CASE DataExhausted \/ Crash
    BY <2>5 DEF EndInv, DataExhausted, Crash, Exit, Up
  <2>6. CASE ~(Launch \/ TrainStep \/ WriteTracker \/ DataExhausted \/ Crash)
    <3>1. /\ UNCHANGED <<gstep, life>>
          /\ tracker' = tracker \/ tracker' = Torn
          /\ Up' => Up
      BY <2>6, RolesAssumption
         DEF Next, DriverStep, RankStep, RoleSaved, OpenData, WriteData,
             OpenTracker, Prune, Mkdir, OpenShard, WriteShard, Finished, vars,
             Up, RolePhase, After
    <3> QED  BY <2>1, <3>1 DEF EndInv, Torn
  <2> QED  BY <2>2, <2>3, <2>4, <2>5, <2>6
<1>3. EndInv => OneStepPerLaunchPastTheEnd
  BY DEF EndInv, OneStepPerLaunchPastTheEnd
<1> QED
  BY <1>1, <1>2, <1>3, IInvHolds, PTL DEF Spec

\* Of the checkpoints a process has written, a role never keeps more than its
\* limit on disk, at any point of a save and whatever the job resumed from.
THEOREM RotationKeepsTheLimit == Spec => []KeepsAtMost
<1>1. Init => KeepInv
  <2> SUFFICES ASSUME Init PROVE KeepInv
    OBVIOUS
  <2>1. TypeOK
    BY RolesAssumption, StepsAssumption
       DEF Init, TypeOK, Steps, Partial, Torn, NoTracker, Absent, RankPcs,
           AllRanks, NoSavedPaths, NoFile
  <2>2. OwnShards
    BY DEF Init, OwnShards, Up, Absent, AllRanks
  <2>3. ListRoom
    BY RolesAssumption, MaxKeepAssumption DEF Init, ListRoom, NoSavedPaths
  <2> QED  BY <2>1, <2>2, <2>3 DEF KeepInv
<1>2. KeepInv /\ [Next]_vars => KeepInv'
  BY NextKeepInv
<1> QED
  BY <1>1, <1>2, KeepInvBounds, PTL DEF Spec

\* Rotation never removes a shard of the checkpoint the tracker names,
\* whatever the operator resumed from, when a role keeps at least two.
THEOREM TrackerSurvivesRotation ==
  ASSUME KeepsTwo
  PROVE  Spec => []RotationSparesTracker
<1>1. Init => SparesInv
  <2> SUFFICES ASSUME Init PROVE SparesInv
    OBVIOUS
  <2>1. TypeOK
    BY RolesAssumption, StepsAssumption
       DEF Init, TypeOK, Steps, Partial, Torn, NoTracker, Absent, RankPcs,
           AllRanks, NoSavedPaths, NoFile
  <2>2. ~Up /\ ~Saving
    BY RolesAssumption DEF Init, Up, Saving, Tail4
  <2>3. NewestPath
    BY RolesAssumption DEF Init, NewestPath, NoSavedPaths, Increasing
  <2>4. RotationSparesTracker
    BY StepsAssumption DEF Init, RotationSparesTracker, NoTracker, Steps
  <2> QED  BY <2>1, <2>2, <2>3, <2>4 DEF SparesInv, Written
<1>2. SparesInv /\ [Next]_vars => SparesInv'
  BY NextSparesInv
<1>3. SparesInv => RotationSparesTracker
  BY DEF SparesInv
<1> QED
  BY <1>1, <1>2, <1>3, PTL DEF Spec

-----------------------------------------------------------------------------
(* What a crash costs.                                                     *)

\* A step is saved when it is a multiple of the period, or at the end.
Saves(s) == s >= TotalSteps \/ s % SaveFreq = 0

\* The record names a step that is saved; the job is at most a period past
\* it, or past the end; what is being saved is due.
DueInv ==
  /\ tracker >= 0 => tracker = 0 \/ Saves(tracker)
  /\ Up /\ tracker >= 0 => gstep <= tracker + SaveFreq \/ gstep > TotalSteps
  /\ Saving => Saves(gstep)

\* The next multiple of the period is a period away.
LEMMA NextMultiple ==
  ASSUME NEW n \in Nat \ {0}, NEW x \in Nat, x % n = 0
  PROVE  (x + n) % n = 0
<1> DEFINE q == x \div n
<1>1. q \in Int /\ x = n * q
  BY DivMod
<1> HIDE DEF q
<1>2. x + n = n * (q + 1) + 0 /\ q + 1 \in Int /\ 0 \in 0..(n - 1)
  BY <1>1
<1>3. (n * (q + 1) + 0) % n = 0
  BY <1>2, DivModOf
<1> QED  BY <1>2, <1>3

LEMMA NextDueInv ==
  ASSUME AutoOnly, KeepsTwo, IInv, DueInv, [Next]_vars
  PROVE  DueInv'
<1> USE StepsAssumption
<1>1. /\ gstep \in Nat /\ life \in Nat /\ tracker \in Int
      /\ TotalSteps \in Nat /\ TotalSteps > 0
      /\ SaveFreq \in Nat \ {0}
      /\ Up => gstep > 0 /\ tracker < gstep /\ (phase = "write" <=> tracker = Torn)
  BY Numbers DEF IInv, UpInv
<1>2. CASE Launch
  <2>1. ~Saving'
    BY <1>2, LaunchOutcome, RolesAssumption DEF Saving, Tail4
  <2>2. tracker' = tracker
    BY <1>2, LaunchOutcome
  <2>3. Up' => tracker # Torn /\ gstep' = tracker + 1
    BY <1>2, LaunchOutcome DEF Up
  <2>4. Up' /\ tracker >= 0 => gstep' <= tracker + SaveFreq
    BY <1>1, <2>3
  <2> QED  BY <2>1, <2>2, <2>4 DEF DueInv, Saves
<1>3. CASE TrainStep
  <2>1. /\ phase = "head" /\ Up /\ tracker # Torn /\ tracker' = tracker
        /\ \/ SaveDue /\ gstep' = gstep
           \/ ~SaveDue /\ gstep' = gstep + 1 /\ phase' = "head"
    BY <1>1, <1>3 DEF TrainStep, Up
  <2>2. tracker \in Nat
    BY <1>1, <2>1 DEF IInv, Steps, NoTracker
  <2>3. CASE SaveDue /\ gstep' = gstep
    BY <2>1, <2>3 DEF DueInv, Saves, SaveDue, IsLastStep
  <2>4. CASE ~SaveDue /\ gstep' = gstep + 1 /\ phase' = "head"
    <3>1. gstep < TotalSteps /\ gstep % SaveFreq # 0
      BY <1>1, <2>4 DEF SaveDue, IsLastStep
    <3>2. gstep <= tracker + SaveFreq /\ tracker < TotalSteps
      BY <1>1, <2>1, <2>2, <3>1 DEF DueInv
    <3>3. tracker % SaveFreq = 0
      <4>1. CASE tracker = 0
        <5>1. (SaveFreq * 0 + 0) % SaveFreq = 0 /\ SaveFreq * 0 + 0 = 0
          BY <1>1, DivModOf
        <5> QED  BY <4>1, <5>1
      <4>2. CASE tracker # 0
        BY <1>1, <2>2, <3>2, <4>2 DEF DueInv, Saves
      <4> QED  BY <4>1, <4>2
    <3>4. gstep # tracker + SaveFreq
      BY <1>1, <2>2, <3>1, <3>3, NextMultiple
    <3>5. gstep' <= tracker + SaveFreq
      BY <1>1, <2>2, <2>4, <3>2, <3>4
    <3>6. ~Saving'
      BY <2>4, RolesAssumption DEF Saving, Tail4
    <3> QED  BY <2>1, <3>5, <3>6 DEF DueInv, Saves
  <2> QED  BY <2>1, <2>3, <2>4
<1>4. CASE WriteTracker
  <2>1. /\ Saving /\ tracker' = gstep /\ NextStep
    BY <1>4, RolesAssumption DEF WriteTracker, Saving, Tail4
  <2>2. CASE Exit("down")
    <3>1. ~Up' /\ ~Saving'
      BY <2>2, RolesAssumption DEF Exit, Up, Saving, Tail4
    <3> QED  BY <1>1, <2>1, <3>1 DEF DueInv, Saves
  <2>3. CASE phase' = "head" /\ gstep' = gstep + 1
    <3>1. ~Saving'
      BY <2>3, RolesAssumption DEF Saving, Tail4
    <3> QED  BY <1>1, <2>1, <2>3, <3>1 DEF DueInv, Saves
  <2> QED  BY <2>1, <2>2, <2>3, Zenon DEF NextStep
<1>5. CASE DataExhausted \/ Crash
  <2>1. ~Up' /\ ~Saving' /\ tracker' = tracker
    BY <1>5, RolesAssumption DEF DataExhausted, Crash, Exit, Up, Saving, Tail4
  <2> QED  BY <2>1 DEF DueInv, Saves
<1>6. CASE OpenTracker
  <2>1. /\ tracker' = Torn /\ gstep' = gstep /\ Saving
    BY <1>6 DEF OpenTracker, Saving, Tail4
  <2> QED  BY <2>1 DEF DueInv, Saves, Torn
<1>7. CASE ~(Launch \/ TrainStep \/ WriteTracker \/ DataExhausted \/ Crash
             \/ OpenTracker)
  <2>1. /\ UNCHANGED <<gstep, tracker>>
        /\ Up' => Up
        /\ Saving' => Saving
    BY <1>7, RolesAssumption
       DEF Next, DriverStep, RankStep, RoleSaved, OpenData, WriteData, Prune,
           Mkdir, OpenShard, WriteShard, Finished, vars, Up, RolePhase, After,
           Saving, Tail4, IInv, TypeOK
  <2> QED  BY <2>1 DEF DueInv, Saves
<1> QED  BY <1>2, <1>3, <1>4, <1>5, <1>6, <1>7

\* When the job goes down with the record intact, the step it was at is at
\* most a save period past the one it will continue after.
THEOREM CrashCostsAPeriod ==
  ASSUME AutoOnly, KeepsTwo
  PROVE  Spec => LosesAtMost
<1> DEFINE Near == Up /\ phase' = "down" /\ tracker' # Torn =>
                     gstep - tracker' <= SaveFreq \/ gstep > TotalSteps
<1>1. Init => DueInv
  BY RolesAssumption, StepsAssumption
     DEF Init, DueInv, Saves, Up, Saving, Tail4, NoTracker
<1>2. IInv /\ DueInv /\ [Next]_vars => DueInv'
  BY NextDueInv
<1>3. IInv /\ DueInv /\ [Next]_vars => [Near]_vars
  <2> SUFFICES ASSUME IInv, DueInv, [Next]_vars, Up, phase' = "down",
                      tracker' # Torn
               PROVE  gstep - tracker' <= SaveFreq \/ gstep > TotalSteps
    OBVIOUS
  <2>1. gstep \in Nat /\ SaveFreq \in Nat \ {0} /\ TotalSteps \in Nat
    BY Numbers, StepsAssumption DEF IInv
  <2>2. tracker' = gstep \/ tracker' = tracker
    BY DEF Next, DriverStep, RankStep, Launch, TrainStep, DataExhausted,
           RoleSaved, OpenData, WriteData, OpenTracker, WriteTracker, Prune,
           Mkdir, OpenShard, WriteShard, Crash, Finished, vars
  <2>3. CASE tracker' = gstep
    BY <2>1, <2>3
  <2>4. CASE tracker' = tracker
    <3>1. tracker \in Nat
      BY <2>4, StepsAssumption DEF IInv, Steps, NoTracker
    <3> QED  BY <2>1, <2>4, <3>1 DEF DueInv
  <2> QED  BY <2>2, <2>3, <2>4
<1> QED
  BY <1>1, <1>2, <1>3, IInvHolds, PTL DEF Spec, LosesAtMost
=============================================================================
