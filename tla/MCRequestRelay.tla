----------------------------- MODULE MCRequestRelay -----------------------------
(***************************************************************************)
(* RequestRelay.tla with threads as model values.                          *)
(***************************************************************************)
EXTENDS RequestRelay
================================================================================
