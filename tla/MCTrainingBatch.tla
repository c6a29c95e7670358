-------------------------- MODULE MCTrainingBatch --------------------------
(* Instances of TrainingBatch for TLC. *)
EXTENDS TrainingBatch

MCRowLengths == {1, 3}
EitherWay == {TRUE, FALSE}
=============================================================================
