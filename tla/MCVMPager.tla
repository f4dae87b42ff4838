----------------------------- MODULE MCVMPager -----------------------------
(* Instances of the pager for TLC.                                         *)
EXTENDS VMPager, TLC

CONSTANT Touched    \* bound: the pages the threads touch

ASSUME TouchedAssumption == Touched \subseteq VPages

ThreadSymmetry == Permutations(Threads)

TouchedOnly == \A t \in Threads : want'[t] \in Touched \cup {NoPage}
============================================================================
