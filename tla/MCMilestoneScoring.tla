------------------------- MODULE MCMilestoneScoring -------------------------
(* Instances of MilestoneScoring for TLC. *)
EXTENDS MilestoneScoring, TLC

CONSTANTS t1, t2

MCThreads == {t1, t2}
MCUnguided == {2}
MCChunkSizes == {-1, 0, 1, 2, 3}
MCOverlaps == {0, 1, 5}
MCMilestones == {1, 2}
=============================================================================
