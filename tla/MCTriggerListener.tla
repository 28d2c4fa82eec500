------------------------- MODULE MCTriggerListener -------------------------
(***************************************************************************)
(* Model values of TriggerListener for TLC.                                *)
(***************************************************************************)
EXTENDS TriggerListener

CONSTANTS r1, r2, h1, h2, a1, a2, o1
=============================================================================
