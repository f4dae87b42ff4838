---------------------------- MODULE CMutexProofs ----------------------------
(* The lock for any number of threads.                                      *)
EXTENDS CMutex, FiniteSetTheorems, TLAPS

Counted == {t \in Threads : pc[t] \in {"want", "in"}}
Holders == {t \in Threads : pc[t] \in {"in", "leave"}}

\* The count is what its name says.
CountsThreads == count = Cardinality(Counted)

\* The right to hold the lock is in one place: with the thread that holds it or
\* is about to hand it on, in the message, or nowhere when nobody wants it.
OneHolder  == \A s, t \in Holders : s = t
OneRight   == token = 1 => Holders = {}
RightKept  == count > 0 => Holders # {} \/ token = 1
RightAwaited == (token = 1 \/ At("leave") # {}) => count > 0

\* A thread in CMutex__Wait waits for a holder only, and not for itself.
SinceHolders ==
  \A t \in Threads : /\ since[t] \subseteq At("in") \ {t}
                     /\ pc[t] = "out" => since[t] = {}

IInv == /\ TypeOK /\ CountsThreads
        /\ OneHolder /\ OneRight /\ RightKept /\ RightAwaited
        /\ SinceHolders

----------------------------------------------------------------------------
\* What a count of 0 or 1 says of the threads that are counted.
LEMMA Counting ==
  ASSUME NEW S \in SUBSET Threads
  PROVE  /\ IsFiniteSet(S)
         /\ Cardinality(S) \in Nat
         /\ Cardinality(S) = 0 <=> S = {}
         /\ \A x \in Threads \ S : Cardinality(S \cup {x}) = Cardinality(S) + 1
         /\ \A x \in S : Cardinality(S \ {x}) = Cardinality(S) - 1
<1>1. IsFiniteSet(S)
  BY ThreadsFinite, FS_Subset
<1> QED
  BY <1>1, FS_CardinalityType, FS_EmptySet, FS_AddElement, FS_RemoveElement

\* What each step of a thread does to the sets of threads the invariant names.
LEMMA Moves ==
  ASSUME TypeOK, NEW t \in Threads, NEW q \in Places, pc' = [pc EXCEPT ![t] = q]
  PROVE  /\ pc' \in [Threads -> Places]
         /\ Counted' = IF q \in {"want", "in"} THEN Counted \cup {t} ELSE Counted \ {t}
         /\ Holders' = IF q \in {"in", "leave"} THEN Holders \cup {t} ELSE Holders \ {t}
         /\ \A p \in Places : At(p)' = IF q = p THEN At(p) \cup {t} ELSE At(p) \ {t}
BY DEF TypeOK, Counted, Holders, At, Places

\* The initial state satisfies the invariant.
LEMMA Initially == Init => IInv
<1> SUFFICES ASSUME Init PROVE IInv
  OBVIOUS
<1>1. Counted = {} /\ Holders = {} /\ At("leave") = {}
  BY DEF Init, Counted, Holders, At
<1>2. CountsThreads
  BY <1>1, FS_EmptySet DEF Init, CountsThreads
<1> QED
  BY <1>1, <1>2 DEF Init, IInv, TypeOK, OneHolder, OneRight, RightKept, RightAwaited,
                    SinceHolders, Places

\* With a count of 0 no thread is counted; a thread outside is none of them.
LEMMA WhoIsCounted ==
  ASSUME IInv
  PROVE  /\ count = 0 => Counted = {}
         /\ At("in") = Counted \cap Holders
         /\ At("leave") = Holders \ Counted
         /\ \A t \in Threads : /\ pc[t] \in {"out", "asked"} => t \notin Counted \cup Holders
                               /\ t \in Counted => count > 0
                               /\ t \in Counted /\ count = 1 => Counted = {t}
<1> USE DEF Counted, Holders, At, Places
<1>0. Counted \in SUBSET Threads
  OBVIOUS
<1>1. IsFiniteSet(Counted) /\ Cardinality(Counted) = count /\ count \in Nat
  BY <1>0, Counting DEF IInv, CountsThreads, TypeOK
<1>2. count = 0 <=> Counted = {}
  BY <1>0, <1>1, Counting
<1>3. ASSUME NEW t \in Counted, count = 1 PROVE Counted = {t}
  <2>1. Counted \ {t} \in SUBSET Threads /\ Cardinality(Counted \ {t}) = count - 1
    BY <1>0, <1>1, Counting
  <2>2. Counted \ {t} = {}
    BY <1>3, <2>1, Counting
  <2> QED
    BY <2>2
<1> QED
  BY <1>1, <1>2, <1>3 DEF IInv, TypeOK

----------------------------------------------------------------------------
(* Steps                                                                    *)

\* A call of CMutex__Wait keeps the invariant: at a count of 0 nobody holds the lock.
LEMMA WaitStep == ASSUME IInv, NEW t \in Threads, Wait(t) PROVE IInv'
<1> DEFINE q == IF InUse THEN "asked" ELSE "out"
<1>1. /\ TypeOK /\ q \in Places /\ pc' = [pc EXCEPT ![t] = q] /\ pc[t] = "out"
      /\ q \notin {"want", "in", "leave"}
  BY DEF IInv, Wait, Places
<1>2. /\ pc' \in [Threads -> Places] /\ Counted' = Counted \ {t} /\ Holders' = Holders \ {t}
      /\ At("in")' = At("in") \ {t} /\ At("leave")' = At("leave") \ {t}
  BY <1>1, Moves DEF Places
<1>3. /\ Counted' = Counted /\ Holders' = Holders /\ At("leave")' = At("leave")
      /\ At("in")' = At("in") /\ t \notin At("in")
  BY <1>1, <1>2, WhoIsCounted
<1>4. CountsThreads' /\ OneHolder' /\ OneRight' /\ RightKept' /\ RightAwaited'
  BY <1>3 DEF IInv, Wait, CountsThreads, OneHolder, OneRight, RightKept, RightAwaited
<1>5. TypeOK'
  BY <1>2 DEF IInv, Wait, TypeOK, At
<1>6. SinceHolders'
  <2>1. ~InUse => At("in") = {}
    BY WhoIsCounted DEF InUse
  <2>2. since' = [since EXCEPT ![t] = At("in")] /\ since \in [Threads -> SUBSET Threads]
    BY DEF IInv, TypeOK, Wait
  <2>3. ASSUME NEW u \in Threads
        PROVE  since'[u] \subseteq At("in") \ {u} /\ (pc'[u] = "out" => since'[u] = {})
    BY <1>1, <1>3, <2>1, <2>2 DEF IInv, TypeOK, SinceHolders
  <2> QED
    BY <1>3, <2>3 DEF SinceHolders
<1> QED
  BY <1>4, <1>5, <1>6 DEF IInv

\* A thread that counts itself has the lock if it is the first, and then there is
\* neither a holder nor a message.
LEMMA LockStep == ASSUME IInv, NEW t \in Threads, Lock(t) PROVE IInv'
<1> DEFINE q == IF First(count + 1) THEN "in" ELSE "want"
<1>1. /\ TypeOK /\ q \in Places /\ pc' = [pc EXCEPT ![t] = q] /\ pc[t] \in {"out", "asked"}
      /\ count' = count + 1 /\ count \in Nat /\ token' = token /\ since' = since
      /\ q \in {"in", "want"} /\ (q = "in" <=> count = 0)
  BY DEF IInv, TypeOK, Lock, Places, First
<1> HIDE DEF q
<1>2. /\ pc' \in [Threads -> Places] /\ Counted' = Counted \cup {t}
      /\ Holders' = IF q = "in" THEN Holders \cup {t} ELSE Holders \ {t}
      /\ At("in")' = IF q = "in" THEN At("in") \cup {t} ELSE At("in") \ {t}
      /\ At("leave")' = At("leave") \ {t}
  BY <1>1, Moves DEF Places
<1>3. /\ t \notin Counted /\ t \notin Holders /\ t \notin At("in") /\ t \notin At("leave")
      /\ count = 0 => Counted = {} /\ At("in") = {}
  BY <1>1, WhoIsCounted
<1>4. CountsThreads'
  <2>1. Counted \in SUBSET Threads /\ t \in Threads \ Counted
    BY <1>3 DEF Counted
  <2>2. Cardinality(Counted \cup {t}) = Cardinality(Counted) + 1
    BY <2>1, Counting
  <2> QED
    BY <1>1, <1>2, <2>2 DEF IInv, CountsThreads
<1>5. count = 0 => token = 0 /\ Holders = {}
  <2>1. count = 0 => token = 0 /\ At("leave") = {}
    BY <1>1 DEF IInv, RightAwaited, TypeOK
  <2> QED
    BY <1>3, <2>1, WhoIsCounted
<1>6. OneHolder' /\ OneRight'
  BY <1>1, <1>2, <1>3, <1>5 DEF IInv, OneHolder, OneRight
<1>7. RightKept' /\ RightAwaited'
  BY <1>1, <1>2, <1>3, <1>5 DEF IInv, RightKept, RightAwaited, TypeOK
<1>8. TypeOK'
  BY <1>1, <1>2 DEF TypeOK
<1>9. SinceHolders'
  <2>1. /\ since \in [Threads -> SUBSET Threads] /\ At("in") \subseteq At("in")'
        /\ \A u \in Threads : pc'[u] = "out" => pc[u] = "out"
    BY <1>1, <1>2, <1>3 DEF TypeOK
  <2> QED
    BY <1>1, <2>1 DEF IInv, SinceHolders
<1> QED
  BY <1>4, <1>6, <1>7, <1>8, <1>9 DEF IInv

\* The thread that takes the message has the right the message carried.
LEMMA EnterStep == ASSUME IInv, NEW t \in Threads, Enter(t) PROVE IInv'
<1>1. /\ TypeOK /\ "in" \in Places /\ pc' = [pc EXCEPT ![t] = "in"] /\ pc[t] = "want"
      /\ token = 1 /\ token' = 0 /\ count' = count /\ since' = since
  BY DEF IInv, TypeOK, Enter, Places
<1>2. /\ pc' \in [Threads -> Places] /\ Counted' = Counted \cup {t}
      /\ Holders' = Holders \cup {t}
      /\ At("in")' = At("in") \cup {t} /\ At("leave")' = At("leave") \ {t}
  BY <1>1, Moves DEF Places
<1>3. t \in Counted /\ Counted' = Counted /\ Holders = {} /\ count > 0
  BY <1>1, <1>2 DEF IInv, Counted, OneRight, RightAwaited
<1>4. CountsThreads' /\ OneHolder' /\ OneRight' /\ RightKept' /\ RightAwaited'
  BY <1>1, <1>2, <1>3 DEF IInv, CountsThreads, OneHolder, OneRight, RightKept, RightAwaited
<1>5. TypeOK'
  BY <1>1, <1>2 DEF TypeOK
<1>6. SinceHolders'
  <2>1. /\ since \in [Threads -> SUBSET Threads] /\ At("in") \subseteq At("in")'
        /\ \A u \in Threads : pc'[u] = "out" => pc[u] = "out"
    BY <1>1, <1>2 DEF TypeOK
  <2> QED
    BY <1>1, <2>1 DEF IInv, SinceHolders
<1> QED
  BY <1>4, <1>5, <1>6 DEF IInv

\* The thread that leaves keeps the right until it has sent the message, if others
\* are counted; if none is, the right goes.
LEMMA UnlockStep == ASSUME IInv, NEW t \in Threads, Unlock(t) PROVE IInv'
<1> DEFINE q == IF Others(count - 1) THEN "leave" ELSE "out"
<1>1. /\ TypeOK /\ q \in Places /\ pc' = [pc EXCEPT ![t] = q] /\ pc[t] = "in"
      /\ count' = count - 1 /\ token' = token
      /\ since' = [u \in Threads |-> since[u] \ {t}]
      /\ q \in {"leave", "out"} /\ (q = "out" <=> count - 1 = 0)
  BY DEF IInv, Unlock, Places, Others
<1> HIDE DEF q
<1>2. /\ pc' \in [Threads -> Places] /\ Counted' = Counted \ {t}
      /\ Holders' = IF q = "leave" THEN Holders \cup {t} ELSE Holders \ {t}
      /\ At("in")' = At("in") \ {t}
      /\ At("leave")' = IF q = "leave" THEN At("leave") \cup {t} ELSE At("leave") \ {t}
  BY <1>1, Moves DEF Places
<1>3. /\ t \in Counted /\ t \in Holders /\ count > 0 /\ count \in Nat /\ token \in {0, 1}
      /\ count - 1 \in Nat
  BY <1>1, WhoIsCounted DEF Counted, Holders, TypeOK
<1>4. Holders = {t} /\ token = 0 /\ At("leave") = {} /\ At("in") = {t}
  <2>1. Holders = {t} /\ token = 0
    BY <1>3 DEF IInv, OneHolder, OneRight
  <2> QED
    BY <1>3, <2>1, WhoIsCounted
<1>5. CountsThreads'
  <2>1. Counted \in SUBSET Threads
    BY DEF Counted
  <2>2. Cardinality(Counted \ {t}) = Cardinality(Counted) - 1
    BY <1>3, <2>1, Counting
  <2> QED
    BY <1>1, <1>2, <2>2 DEF IInv, CountsThreads
<1>6. OneHolder' /\ OneRight'
  BY <1>1, <1>2, <1>4 DEF OneHolder, OneRight
<1>7. RightKept' /\ RightAwaited'
  BY <1>1, <1>2, <1>3, <1>4 DEF RightKept, RightAwaited
<1>8. TypeOK'
  BY <1>1, <1>2, <1>3 DEF TypeOK
<1>9. SinceHolders'
  <2>1. ASSUME NEW u \in Threads PROVE since'[u] = {}
    <3>1. since[u] \subseteq {t}
      BY <1>4 DEF IInv, SinceHolders
    <3> QED
      BY <1>1, <3>1
  <2> QED
    BY <2>1 DEF SinceHolders
<1> QED
  BY <1>5, <1>6, <1>7, <1>8, <1>9 DEF IInv

\* Sending the message gives the right away.
LEMMA LetInStep == ASSUME IInv, NEW t \in Threads, LetIn(t) PROVE IInv'
<1>1. /\ TypeOK /\ "out" \in Places /\ pc' = [pc EXCEPT ![t] = "out"] /\ pc[t] = "leave"
      /\ token = 0 /\ token' = 1 /\ count' = count /\ since' = since
  BY DEF IInv, LetIn, Places
<1>2. /\ pc' \in [Threads -> Places] /\ Counted' = Counted \ {t} /\ Holders' = Holders \ {t}
      /\ At("in")' = At("in") \ {t} /\ At("leave")' = At("leave") \ {t}
  BY <1>1, Moves DEF Places
<1>3. /\ t \in Holders /\ t \in At("leave") /\ t \notin Counted
  BY <1>1 DEF Holders, Counted, At
<1>4. Holders = {t} /\ At("in") = {} /\ count > 0 /\ Counted' = Counted
  <2>1. Holders = {t}
    BY <1>3 DEF IInv, OneHolder
  <2> QED
    BY <1>2, <1>3, <2>1, WhoIsCounted DEF IInv, RightAwaited
<1>5. CountsThreads' /\ OneHolder' /\ OneRight' /\ RightKept' /\ RightAwaited'
  BY <1>1, <1>2, <1>4 DEF IInv, CountsThreads, OneHolder, OneRight, RightKept, RightAwaited
<1>6. TypeOK'
  BY <1>1, <1>2 DEF TypeOK
<1>7. SinceHolders'
  <2>1. ASSUME NEW u \in Threads PROVE since[u] = {}
    BY <1>4 DEF IInv, SinceHolders
  <2> QED
    BY <1>1, <2>1 DEF SinceHolders
<1> QED
  BY <1>5, <1>6, <1>7 DEF IInv

----------------------------------------------------------------------------
(* Theorems                                                                 *)

\* The invariant holds in every reachable state, whatever the number of threads.
THEOREM InvariantHolds == Spec => []IInv
<1>1. IInv /\ [Next]_vars => IInv'
  <2> SUFFICES ASSUME IInv, [Next]_vars PROVE IInv'
    OBVIOUS
  <2>1. CASE Next
    BY <2>1, WaitStep, LockStep, EnterStep, UnlockStep, LetInStep DEF Next
  <2>2. CASE UNCHANGED vars
    BY <2>2 DEF vars, IInv, TypeOK, CountsThreads, OneHolder, OneRight, RightKept,
                RightAwaited, SinceHolders, Counted, Holders, At
  <2> QED
    BY <2>1, <2>2
<1> QED
  BY Initially, <1>1, PTL DEF Spec

\* Two threads never hold the lock at once.
THEOREM LockIsExclusive == Spec => []MutualExclusion
<1>1. IInv => MutualExclusion
  BY DEF IInv, OneHolder, Holders, At, MutualExclusion
<1> QED
  BY <1>1, InvariantHolds, PTL

\* As long as a thread wants the lock, another holds it or is to send the message,
\* or the message waits to be taken; and who sends it finds room in the queue.
THEOREM NoWakeUpIsLost == Spec => []WakeUpOnItsWay
<1>1. IInv => WakeUpOnItsWay
  <2>1. ASSUME IInv, NEW t \in Threads, pc[t] = "want"
        PROVE  token = 1 \/ At("in") # {} \/ At("leave") # {}
    <3>1. count > 0
      BY <2>1, WhoIsCounted DEF Counted
    <3> QED
      BY <2>1, <3>1 DEF IInv, RightKept, Holders, At
  <2>2. IInv /\ At("leave") # {} => token = 0
    BY DEF IInv, TypeOK, OneRight, Holders, At
  <2> QED
    BY <2>1, <2>2 DEF WakeUpOnItsWay, At
<1> QED
  BY <1>1, InvariantHolds, PTL

\* CMutex__Wait outlasts whoever held the lock when it was called.
THEOREM WaitOutlastsTheHolder == Spec => []WaitIsBarrier
<1>1. IInv => WaitIsBarrier
  <2> SUFFICES ASSUME IInv, NEW t \in Threads, pc[t] \in {"out", "in", "leave"}
               PROVE  since[t] = {}
    BY DEF WaitIsBarrier
  <2>1. pc[t] = "out" => since[t] = {}
    BY DEF IInv, SinceHolders
  <2>2. pc[t] \in {"in", "leave"} => At("in") \subseteq {t}
    BY DEF IInv, OneHolder, Holders, At
  <2> QED
    BY <2>1, <2>2 DEF IInv, SinceHolders
<1> QED
  BY <1>1, InvariantHolds, PTL
=============================================================================
