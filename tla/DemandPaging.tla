---------------------------- MODULE DemandPaging ----------------------------
(***************************************************************************)
(* What the pager promises its threads, without frames, lists, jobs or a   *)
(* TLB: a page is resident or not, resident pages may be visible to loads  *)
(* and pinned ones always are, a thread that touches an invisible page     *)
(* waits, and it is resumed only when its page is resident.  Memory is     *)
(* bounded.                                                                *)
(***************************************************************************)
EXTENDS Integers, FiniteSets

CONSTANTS
  Threads,    \* the threads
  Pages,      \* the virtual pages
  Nothing,    \* what a thread that is not waiting waits for
  Capacity,   \* how many pages can be resident
  Pinned      \* pages that have a copy of their own and never fault

VARIABLES
  waiting,    \* the page each thread waits for
  resident,   \* the pages in memory
  visible,    \* the pages a load reads without a fault
  halted      \* a touch that cannot be served ended the run

vars == <<waiting, resident, visible, halted>>

Init ==
  /\ waiting = [t \in Threads |-> Nothing]
  /\ resident = {}
  /\ visible = Pinned
  /\ halted = FALSE

(* A thread touches a page it cannot see, and stops. *)
Touch(t, p) ==
  /\ ~halted /\ waiting[t] = Nothing /\ p \notin visible
  /\ waiting' = [waiting EXCEPT ![t] = p]
  /\ UNCHANGED <<resident, visible, halted>>

(* A page makes room for another. *)
PageOut(p) ==
  /\ ~halted /\ p \in resident
  /\ resident' = resident \ {p}
  /\ visible' = visible \ {p}
  /\ UNCHANGED <<waiting, halted>>

(* A waiting thread runs again, its page being resident: brought in or     *)
(* made visible by this step, or left as it is when another thread's job   *)
(* brought it in first.                                                    *)
Serve(t) ==
  LET p == waiting[t]
  IN  /\ ~halted /\ p # Nothing
      /\ waiting' = [waiting EXCEPT ![t] = Nothing]
      /\ resident' = resident \cup {p}
      /\ Cardinality(resident') <= Capacity
      /\ \/ visible' = visible /\ p \in resident
         \/ p \in visible' /\ visible' \subseteq visible \cup {p} \cup resident
      /\ UNCHANGED halted

(* A thread touched what no region holds. *)
Halt == /\ ~halted /\ halted' = TRUE
        /\ UNCHANGED <<waiting, resident, visible>>

Next ==
  \/ \E t \in Threads, p \in Pages : Touch(t, p)
  \/ \E p \in Pages : PageOut(p)
  \/ \E t \in Threads : Serve(t)
  \/ Halt

Spec == Init /\ [][Next]_vars
============================================================================
