--------------------------- MODULE MCEnvironments ---------------------------
(* Instances of Environments for TLC. *)
EXTENDS Environments

MCPlanActions == {"look", "go"}
MCGoldPaths == {<<"open", "0", "mix">>, << >>}
MCDigits == {"0"}

\* The closed form is what the loop of __init__ appends, worker by worker.
ASSUME PolicyIndicesAreAppended ==
  PolicyIndices =
    SelectSeq([i \in 1..NumProcesses |-> i - 1], LAMBDA w : ~IsExpert(w))
=============================================================================
