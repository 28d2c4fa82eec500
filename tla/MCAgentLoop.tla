----------------------------- MODULE MCAgentLoop -----------------------------
(***************************************************************************)
(* An instance of AgentLoop for TLC: a search whose results are untrusted  *)
(* and a post that goes outward.                                           *)
(***************************************************************************)
EXTENDS AgentLoop

CONSTANTS search, post

SameName == [c \in Call |-> c]
Requests == {<<search>>, <<post>>, <<search, post>>}
=============================================================================
