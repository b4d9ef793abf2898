--------------------------- MODULE MCReplayBuffer ---------------------------
(* The buffer with two groups per step, windows of one version, capacities *)
(* below, at and above what two targets need.                              *)
EXTENDS ReplayBuffer
=============================================================================
