---------------------------- MODULE MCCheckpoint ----------------------------
(* Instances of Checkpoint for TLC. *)
EXTENDS CheckpointProofs, TLC

CONSTANTS k1, k2

MCRanks == {k1, k2}
MCSym == Permutations(MCRanks)

ActorOnly == {"actor"}
Both      == {"actor", "critic"}

\* The critic keeps all checkpoints (null), the actor two.
KeepTwoOrAll == [r \in {"actor", "critic"} |-> IF r = "actor" THEN 2 ELSE 0]
Keep2A == [r \in {"actor"} |-> 2]

AutoMode == {"auto"}
AllModes == {"auto", "disable", "resume_path"}
=============================================================================
