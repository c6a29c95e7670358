---------------------------- MODULE MCAgentLoop ----------------------------
(* Instances of AgentLoop for TLC. *)
EXTENDS AgentLoop, TLC

CONSTANTS e1, e2

MCRows == {e1, e2}
MCScores == {0, 1}
=============================================================================
