---------------------------- MODULE MCScheduler ----------------------------
(* Instances of the scheduler for TLC.                                     *)
EXTENDS Scheduler

Never == {}
Sometimes == {"recv", "kick1"}
WhileItWaits == {"recv"}
=============================================================================
