---------------------------- MODULE MCTaskLifecycle ----------------------------
(***************************************************************************)
(* Model values of TaskLifecycle for TLC.                                  *)
(***************************************************************************)
EXTENDS TaskLifecycle, TLC

\* Workers and handlers are interchangeable: no property names one.
WorkerSymmetry == Permutations(Worker)
Symmetry == WorkerSymmetry \cup Permutations(Handler)
=============================================================================
