-------------------------- MODULE MCSandboxSessions --------------------------
(***************************************************************************)
(* An instance of SandboxSessions for TLC: two clients of one task.        *)
(***************************************************************************)
EXTENDS SandboxSessions

CONSTANTS c1, c2, t1

SameTask == [c \in Client |-> t1]
=============================================================================
