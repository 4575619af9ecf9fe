-------------------------------- MODULE MCHandoff -------------------------------
(***************************************************************************)
(* Handoff.tla, with the bounds not used up all at once.                   *)
(***************************************************************************)
EXTENDS Handoff

\* Bound: transfers and breakpoints together.
FourInAll == transfers + rstops + pstops <= 4
===============================================================================
