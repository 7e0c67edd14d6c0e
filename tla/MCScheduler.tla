---------------------------- MODULE MCScheduler ----------------------------
(***************************************************************************)
(* Two tasks, of which "every" repeats itself.                             *)
(***************************************************************************)
EXTENDS Scheduler

CONSTANTS t1, t2, once, every

OneRepeats == [k \in {once, every} |-> IF k = every THEN 1 ELSE 0]
=============================================================================
