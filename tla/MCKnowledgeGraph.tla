-------------------------- MODULE MCKnowledgeGraph --------------------------
(***************************************************************************)
(* Model values of KnowledgeGraph for TLC: one fact and two topics, so     *)
(* that three rows can be live and a merge can be given two pairs that     *)
(* share a row; one worker, whose look-up races the decisions of the       *)
(* language model about the same topic.                                    *)
(***************************************************************************)
EXTENDS KnowledgeGraph
=============================================================================
