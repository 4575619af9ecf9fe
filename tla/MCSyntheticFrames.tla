---------------------------- MODULE MCSyntheticFrames ---------------------------
(* SyntheticFrames.tla with a number space small enough to run out. *)
EXTENDS SyntheticFrames
================================================================================
