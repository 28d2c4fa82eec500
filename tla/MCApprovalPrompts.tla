--------------------------- MODULE MCApprovalPrompts ---------------------------
(***************************************************************************)
(* Model values of ApprovalPrompts for TLC.                                *)
(***************************************************************************)
EXTENDS ApprovalPrompts

CONSTANTS t1, t2, k1, k2, k3

\* Keys that depend on the arguments: no two tasks share one.
PrivateKeys == [t \in Task |-> IF t = t1 THEN {k1, k2} ELSE {k3}]

\* Any task may ask for any key.
SharedKeys == [t \in Task |-> Key]

\* One key of the first task is shared, the other is its own.
OverlappingKeys == [t \in Task |-> IF t = t1 THEN Key ELSE {k1}]
=============================================================================
