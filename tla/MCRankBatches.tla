--------------------------- MODULE MCRankBatches ---------------------------
(* Instances of RankBatches for TLC. *)
EXTENDS RankBatches

MCRowLengths == {3, 7}
EitherWay == {TRUE, FALSE}
MCResponseTokens ==
  [step \in (1..Trajs) \X (1..MaxLength) |-> 1 + ((step[1] + step[2]) % 2)]
=============================================================================
