-------------------------- MODULE MCMultiTurnLoop --------------------------
(* Instances of MultiTurnLoop for TLC. *)
EXTENDS MultiTurnLoop

AllModes == {"vanilla", "dynamic", "validate"}
MCRewards == {0, 1}
MCTypes == {"pick", "heat"}
=============================================================================
