------------------------ MODULE MCCheckpointManager ------------------------
(* The checkpoint directory for TLC: the bounds are the constants in        *)
(* MCCheckpointManager.cfg.                                                 *)
EXTENDS CheckpointManager
=============================================================================
