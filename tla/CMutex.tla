------------------------------- MODULE CMutex -------------------------------
(***************************************************************************)
(* The engine's lock: a count of the threads that hold it or want it,     *)
(* changed with interrupts off, and a queue of one message by which a      *)
(* thread that leaves lets one that wants it in.  The cache takes it in    *)
(* line and the sound manager through CAudioWorld__Lock.                   *)
(*                                                                         *)
(* A lock and an unlock are two steps each, the count and the queue, and   *)
(* any thread may run between them.  A thread that is woken by the message *)
(* looks at the queue again: another may have come and taken it.           *)
(***************************************************************************)
EXTENDS Naturals, FiniteSets

CONSTANTS
  Threads     \* the threads that use the lock

ASSUME ThreadsFinite == IsFiniteSet(Threads)

VARIABLES
  count,      \* CMutex.count
  token,      \* messages in CMutex.queue, which holds one
  pc,         \* where each thread is
  since       \* of a thread in CMutex__Wait, who held the lock when it called
              \* and has held it ever since (no such variable in the code)

vars == <<count, token, pc, since>>

\* out   : does not use the lock
\* asked : in CMutex__Wait, has read a count other than 0
\* want  : has counted itself, waits for the message
\* in    : holds the lock
\* leave : has uncounted itself, is to send the message
Places == {"out", "asked", "want", "in", "leave"}

At(place) == {t \in Threads : pc[t] = place}

Init ==
  /\ count = 0
  /\ token = 0
  /\ pc = [t \in Threads |-> "out"]
  /\ since = [t \in Threads |-> {}]

----------------------------------------------------------------------------
\* Mutant: the holder itself is forgotten.
InUse_ByTwo == count > 1

InUse == count # 0

\* CMutex__Wait looks at the count without turning interrupts off, and
\* returns at once when nobody holds or wants the lock.
Wait(t) ==
  /\ pc[t] = "out"
  /\ since' = [since EXCEPT ![t] = At("in")]
  /\ pc' = [pc EXCEPT ![t] = IF InUse THEN "asked" ELSE "out"]
  /\ UNCHANGED <<count, token>>

\* Mutant: the count is compared before it is raised.
First_OrSecond(n) == n <= 2

First(n) == n = 1

\* Only a thread that finds the count at 0 has the lock at once.
Lock(t) ==
  /\ pc[t] \in {"out", "asked"}
  /\ count' = count + 1
  /\ pc' = [pc EXCEPT ![t] = IF First(count') THEN "in" ELSE "want"]
  /\ UNCHANGED <<token, since>>

\* osRecvMesg returns in the thread that wants the lock.
Enter(t) ==
  /\ pc[t] = "want"
  /\ token > 0
  /\ token' = token - 1
  /\ pc' = [pc EXCEPT ![t] = "in"]
  /\ UNCHANGED <<count, since>>

\* Mutant: the message is not sent to the last thread that waits.
Others_MoreThanOne(n) == n > 1

Others(n) == n # 0

Unlock(t) ==
  /\ pc[t] = "in"
  /\ count' = count - 1
  /\ pc' = [pc EXCEPT ![t] = IF Others(count') THEN "leave" ELSE "out"]
  /\ since' = [u \in Threads |-> since[u] \ {t}]
  /\ UNCHANGED token

\* osSendMesg returns in the thread that left; a full queue would block it.
LetIn(t) ==
  /\ pc[t] = "leave"
  /\ token = 0
  /\ token' = 1
  /\ pc' = [pc EXCEPT ![t] = "out"]
  /\ UNCHANGED <<count, since>>

Next == \E t \in Threads : Wait(t) \/ Lock(t) \/ Enter(t) \/ Unlock(t) \/ LetIn(t)

Spec == Init /\ [][Next]_vars

----------------------------------------------------------------------------
(* Properties                                                              *)

TypeOK ==
  /\ count \in Nat
  /\ token \in {0, 1}
  /\ pc \in [Threads -> Places]
  /\ since \in [Threads -> SUBSET Threads]

\* Two threads never hold the lock at once, though the last to leave has not
\* sent its message yet when the next ones count themselves.
MutualExclusion == \A s, t \in At("in") : s = t

\* No wake-up is lost, nor kept from its queue: whenever threads want the lock,
\* one holds it, or one is about to send the message, or the message is there;
\* and who is about to send it finds room, since the one before was taken.
WakeUpOnItsWay ==
  /\ At("want") # {} => token = 1 \/ At("in") # {} \/ At("leave") # {}
  /\ At("leave") # {} => token = 0

\* CMutex__Wait is a barrier: when it returns, and when it gets the lock to
\* return after, whoever held the lock at the call has left it since.
WaitIsBarrier == \A t \in Threads : pc[t] \in {"out", "in", "leave"} => since[t] = {}
=============================================================================
