------------------------------ MODULE MC_Execution ------------------------------
(***************************************************************************)
(* Execution for TLC.  One unit is ten seconds or so; the orders between   *)
(* defaults, ceilings, floors and budgets matter, not their sizes.         *)
(***************************************************************************)
EXTENDS Execution

MCAsked == {-1, 9}
================================================================================
