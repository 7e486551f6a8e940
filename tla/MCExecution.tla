----------------------------- MODULE MCExecution -----------------------------
(***************************************************************************)
(* An instance of Execution for TLC.                                       *)
(***************************************************************************)
EXTENDS Execution, MCPrograms
==============================================================================
