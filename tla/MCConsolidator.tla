--------------------------- MODULE MCConsolidator ---------------------------
(***************************************************************************)
(* An instance of Consolidator for TLC: two processes, three episodes, two *)
(* of them at most promoted per run.                                       *)
(***************************************************************************)
EXTENDS Consolidator
=============================================================================
