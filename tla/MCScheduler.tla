---------------------------- MODULE MCScheduler ----------------------------
(* Small instances of Scheduler for TLC.                                   *)
EXTENDS Scheduler

CONSTANTS w1, w2, main, t1, t2

OneChild   == {w1}
TwoChildren == {w1, w2}
TwoTasks   == {t1, t2}
FirstTask  == {t1}
SecondTask == {t2}
NoTasks    == {}
Unbound    == {AnyThread}
=============================================================================
