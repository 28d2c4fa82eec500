----------------------------- MODULE MCScheduler -----------------------------
(***************************************************************************)
(* Specs of Scheduler for TLC: local days of four instants, a clock that   *)
(* is set back by two.                                                     *)
(***************************************************************************)
EXTENDS Scheduler

Daily == [kind |-> "cron", n |-> 1, days |-> {0, 1}]
Every == [kind |-> "interval", n |-> 2, days |-> {}]
Once == [kind |-> "oneoff", n |-> 2, days |-> {}]
SomeSpecs == {Daily, Every, Once}
Odd == [kind |-> "unsupported", n |-> 1, days |-> {}]
OddSpecs == {Odd, Every}
=============================================================================
