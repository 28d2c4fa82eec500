----------------------------- MODULE MCWitness -----------------------------
(***************************************************************************)
(* An instance of Witness for TLC: one user with two candidates, a digest  *)
(* takes one of them; two runners and a button handler.                    *)
(***************************************************************************)
EXTENDS Witness

CONSTANTS c1, c2, u1

MCTarget == [c \in Cand |-> u1]
=============================================================================
