---------------------------- MODULE LoaderProofs ----------------------------
(* The pool of entries suffices, for any number of threads and entries.     *)
EXTENDS Loader, FiniteSetTheorems, TLAPS

\* The types of what decides where the entries are.
PoolTypes ==
  /\ free \in Nat
  /\ queue \in Seq(CLoaderEntry) /\ Len(queue) <= QueueSize
  /\ loader \in [at : {"idle", "dma", "reply", "free"}, entry : CLoaderEntry]
  /\ pc \in [Threads -> Places]
  /\ call \in [Threads -> [load : Loads, left : Nat]]

IInv == PoolTypes /\ EntriesConserved

----------------------------------------------------------------------------
\* The threads with an entry to queue are finitely many, and fewer than all when
\* one of the threads is elsewhere.
LEMMA PuttingCounts ==
  /\ IsFiniteSet(Putting) /\ Cardinality(Putting) \in Nat
  /\ Cardinality(Threads) \in Nat
  /\ \A t \in Threads \ Putting :
       /\ Cardinality(Putting) < Cardinality(Threads)
       /\ Cardinality(Putting \cup {t}) = Cardinality(Putting) + 1
  /\ \A t \in Putting : Cardinality(Putting \ {t}) = Cardinality(Putting) - 1
<1>1. IsFiniteSet(Threads) /\ Putting \in SUBSET Threads
  BY PoolSound DEF Putting
<1>2. IsFiniteSet(Putting)
  BY <1>1, FS_Subset
<1>3. Cardinality(Putting) \in Nat /\ Cardinality(Threads) \in Nat
  BY <1>1, <1>2, FS_CardinalityType
<1>4. ASSUME NEW t \in Threads \ Putting PROVE Cardinality(Putting) < Cardinality(Threads)
  <2>1. /\ Cardinality(Putting) <= Cardinality(Threads)
        /\ Cardinality(Threads) = Cardinality(Putting) => Threads = Putting
    BY <1>1, FS_Subset
  <2> QED
    BY <1>3, <1>4, <2>1
<1> QED
  BY <1>2, <1>3, <1>4, FS_AddElement, FS_RemoveElement

\* What a step of one thread does to the set of threads with an entry to queue.
LEMMA PuttingMoves ==
  ASSUME PoolTypes, NEW t \in Threads, NEW q \in Places,
         pc' = [pc EXCEPT ![t] = q]
  PROVE  /\ pc' \in [Threads -> Places]
         /\ Putting' = IF q = "put" THEN Putting \cup {t} ELSE Putting \ {t}
         /\ pc[t] # "put" => t \notin Putting
         /\ q # "put" /\ pc[t] # "put" => Putting' = Putting
         /\ pc[t] = "put" => t \in Putting
BY DEF PoolTypes, Putting

\* The places have names.
LEMMA PlaceNames == {"out", "alloc", "put", "wait"} = Places
BY DEF Places

\* The initial state has all entries on the free list.
LEMMA Initially == Init => IInv
<1> SUFFICES ASSUME Init PROVE IInv
  OBVIOUS
<1>1. Putting = {} /\ ~InHand /\ queue = <<>> /\ Len(queue) = 0 /\ free = PoolSize
  BY DEF Init, Putting, InHand
<1>2. PoolTypes
  BY SizesSound, PoolSound DEF Init, PoolTypes, NoEntry, NoCall, CLoaderEntry, Loads, Threads, Places
<1>3. EntriesConserved
  BY <1>1, PoolSound, FS_EmptySet DEF EntriesConserved
<1> QED
  BY <1>2, <1>3 DEF IInv

----------------------------------------------------------------------------
(* Steps                                                                    *)

\* A thread that begins a load, or goes on after a reply, touches no entry.
LEMMA BeginStep ==
  ASSUME IInv, NEW t \in Threads, NEW l \in Loads, NEW n \in Nat,
         Begin(t, l, n), UNCHANGED <<free, queue, loader>>
  PROVE  IInv'
<1>1. /\ pc' = [pc EXCEPT ![t] = "alloc"] /\ pc[t] = "out" /\ PoolTypes
      /\ call' = [call EXCEPT ![t] = [load |-> l, left |-> n]]
  BY DEF Begin, IInv
<1>2. pc' \in [Threads -> Places] /\ Putting' = Putting
  BY <1>1, PuttingMoves, PlaceNames
<1>3. call' \in [Threads -> [load : Loads, left : Nat]]
  BY <1>1 DEF PoolTypes
<1> QED
  BY <1>2, <1>3 DEF IInv, PoolTypes, EntriesConserved, InHand

\* Where a thread goes after a chunk.
LEMMA ContinueFacts ==
  ASSUME PoolTypes, NEW t \in Threads, Continue(t)
  PROVE  /\ \E q \in {"alloc", "out"} : pc' = [pc EXCEPT ![t] = q]
         /\ call' \in [Threads -> [load : Loads, left : Nat]]
<1>1. NoCall \in [load : Loads, left : Nat]
  BY DEF NoCall, Loads, Threads
<1>2. CASE call[t].left > 1
  <2>1. /\ call \in [Threads -> [load : Loads, left : Nat]]
        /\ call[t].left \in Nat /\ call[t].left - 1 \in Nat
    BY <1>2 DEF PoolTypes
  <2>2. /\ pc' = [pc EXCEPT ![t] = "alloc"]
        /\ call' = [call EXCEPT ![t].left = call[t].left - 1]
    BY <1>2 DEF Continue
  <2> QED
    BY <2>1, <2>2
<1>3. CASE ~(call[t].left > 1)
  BY <1>1, <1>3 DEF Continue, PoolTypes
<1> QED
  BY <1>2, <1>3

\* The entry a thread takes off the free list is in its hand.
LEMMA AllocStep == ASSUME IInv, NEW t \in Threads, Alloc(t) PROVE IInv'
<1>1. PoolTypes /\ pc[t] = "alloc" /\ queue' = queue /\ loader' = loader
  BY DEF IInv, Alloc
<1>2. CASE free = 0
  <2>1. /\ pc' = [pc EXCEPT ![t] = "out"] /\ call' = [call EXCEPT ![t] = NoCall]
        /\ free' = free
    BY <1>2 DEF Alloc
  <2>2. pc' \in [Threads -> Places] /\ Putting' = Putting
    BY <1>1, <2>1, PuttingMoves, PlaceNames
  <2>3. call' \in [Threads -> [load : Loads, left : Nat]]
    BY <2>1 DEF IInv, PoolTypes, NoCall, Loads, Threads
  <2> QED
    BY <1>1, <2>1, <2>2, <2>3 DEF IInv, PoolTypes, EntriesConserved, InHand
<1>3. CASE free # 0
  <2>1. pc' = [pc EXCEPT ![t] = "put"] /\ call' = call /\ free' = free - 1
    BY <1>3 DEF Alloc
  <2>2. /\ pc' \in [Threads -> Places]
        /\ Putting' = Putting \cup {t} /\ t \in Threads \ Putting
    BY <1>1, <2>1, PuttingMoves, PlaceNames
  <2>3. Cardinality(Putting') = Cardinality(Putting) + 1 /\ Cardinality(Putting) \in Nat
    BY <2>2, PuttingCounts
  <2>4. free' \in Nat /\ PoolTypes'
    BY <1>1, <1>3, <2>1, <2>2 DEF PoolTypes
  <2>5. EntriesConserved'
    BY <1>1, <2>1, <2>3, <2>4 DEF IInv, PoolTypes, EntriesConserved, InHand
  <2> QED
    BY <2>4, <2>5 DEF IInv
<1> QED
  BY <1>2, <1>3

\* The entry goes from the thread's hand to one end of the queue.
LEMMA PutStep == ASSUME IInv, NEW t \in Threads, Put(t) PROVE IInv'
<1> DEFINE e == [load |-> call[t].load, reply |-> ReplyTo(t)]
<1>1. /\ PoolTypes /\ pc[t] = "put" /\ free' = free /\ loader' = loader
      /\ Len(queue) < QueueSize
      /\ queue' = IF Jams(t) THEN <<e>> \o queue ELSE Append(queue, e)
  BY DEF IInv, Put, Room
<1>2. \E q \in {"wait", "alloc", "out"} : pc' = [pc EXCEPT ![t] = q]
  <2>1. CASE Waits(t)
    BY <2>1 DEF Put
  <2>2. CASE ~Waits(t)
    BY <1>1, <2>2, ContinueFacts DEF Put
  <2> QED
    BY <2>1, <2>2
<1>3. /\ pc' \in [Threads -> Places]
      /\ Putting' = Putting \ {t} /\ t \in Putting
  <2>1. PICK q \in {"wait", "alloc", "out"} : pc' = [pc EXCEPT ![t] = q]
    BY <1>2
  <2> QED
    BY <1>1, <2>1, PuttingMoves, PlaceNames
<1>4. call' \in [Threads -> [load : Loads, left : Nat]]
  BY <1>1, ContinueFacts DEF Put, PoolTypes
<1>5. e \in CLoaderEntry
  <2>1. call[t].load \in Loads
    BY <1>1 DEF PoolTypes
  <2>2. ReplyTo(t) \in {"none", "stack", "cache", "audio"}
    BY DEF ReplyTo
  <2> QED
    BY <2>1, <2>2 DEF CLoaderEntry
<1> HIDE DEF e
<1>6. queue' \in Seq(CLoaderEntry) /\ Len(queue') = Len(queue) + 1 /\ Len(queue) \in Nat
  BY <1>1, <1>5 DEF PoolTypes
<1>7. PoolTypes'
  BY <1>1, <1>3, <1>4, <1>6, SizesSound DEF PoolTypes
<1>8. Cardinality(Putting') = Cardinality(Putting) - 1 /\ Cardinality(Putting) \in Nat
  BY <1>3, PuttingCounts
<1>9. EntriesConserved'
  <2>1. PoolSize = free + Len(queue) + (IF InHand THEN 1 ELSE 0) + Cardinality(Putting)
    BY DEF IInv, EntriesConserved
  <2>2. free' = free /\ free \in Nat /\ (InHand' <=> InHand)
    BY <1>1 DEF PoolTypes, InHand
  <2> QED
    BY <1>6, <1>8, <2>1, <2>2 DEF EntriesConserved
<1> QED
  BY <1>7, <1>9 DEF IInv

\* A call that has its reply goes on.
LEMMA ReturnStep == ASSUME IInv, NEW t \in Threads, Return(t) PROVE IInv'
<1>1. /\ PoolTypes /\ pc[t] = "wait" /\ Continue(t)
      /\ free' = free /\ queue' = queue /\ loader' = loader
  BY DEF IInv, Return
<1>2. PICK q \in {"alloc", "out"} : pc' = [pc EXCEPT ![t] = q]
  BY <1>1, ContinueFacts
<1>3. pc' \in [Threads -> Places] /\ Putting' = Putting
  BY <1>1, <1>2, PuttingMoves, PlaceNames
<1>4. call' \in [Threads -> [load : Loads, left : Nat]]
  BY <1>1, ContinueFacts
<1> QED
  BY <1>1, <1>3, <1>4 DEF IInv, PoolTypes, EntriesConserved, InHand

\* The loader thread takes an entry off the queue, keeps it while it loads and
\* replies, and puts it back on the free list.
LEMMA MainStep == ASSUME IInv, Main PROVE IInv'
<1>1. /\ PoolTypes /\ pc' = pc /\ call' = call /\ Putting' = Putting
      /\ Cardinality(Putting) \in Nat
  BY PuttingCounts DEF IInv, Main, Take, Loaded, Reply, Dealloc, Putting
<1>2. CASE Take
  <2>1. /\ queue \in Seq(CLoaderEntry) /\ queue # <<>> /\ Len(queue) <= QueueSize
        /\ queue' = Tail(queue) /\ free' = free /\ loader.at = "idle"
        /\ loader' = [at |-> "dma", entry |-> Head(queue)]
    BY <1>1, <1>2 DEF Take, PoolTypes
  <2>2. /\ Head(queue) \in CLoaderEntry /\ queue' \in Seq(CLoaderEntry)
        /\ Len(queue') = Len(queue) - 1 /\ Len(queue) \in Nat
    BY <2>1
  <2>3. PoolTypes'
    BY <1>1, <2>1, <2>2, SizesSound DEF PoolTypes
  <2>4. EntriesConserved'
    BY <1>1, <2>1, <2>2, PoolSound DEF IInv, PoolTypes, EntriesConserved, InHand
  <2> QED
    BY <2>3, <2>4 DEF IInv
<1>3. CASE Loaded \/ Reply
  <2>1. /\ free' = free /\ queue' = queue /\ InHand /\ InHand'
        /\ loader' \in [at : {"idle", "dma", "reply", "free"}, entry : CLoaderEntry]
    BY <1>1, <1>3 DEF Loaded, Reply, PoolTypes, InHand
  <2> QED
    BY <1>1, <2>1 DEF IInv, PoolTypes, EntriesConserved
<1>4. CASE Dealloc
  <2>1. /\ free' = free + 1 /\ queue' = queue /\ InHand /\ ~InHand'
        /\ loader' = [at |-> "idle", entry |-> NoEntry]
    BY <1>1, <1>4 DEF Dealloc, PoolTypes, InHand
  <2>2. NoEntry \in CLoaderEntry
    BY DEF NoEntry, CLoaderEntry, Loads, Threads
  <2>3. PoolTypes'
    BY <1>1, <2>1, <2>2 DEF PoolTypes
  <2>4. EntriesConserved'
    BY <1>1, <2>1, PoolSound DEF IInv, PoolTypes, EntriesConserved
  <2> QED
    BY <2>3, <2>4 DEF IInv
<1> QED
  BY <1>2, <1>3, <1>4 DEF Main

----------------------------------------------------------------------------
(* Theorems                                                                 *)

\* The invariant holds in every reachable state.
THEOREM InvariantHolds == Spec => []IInv
<1>1. IInv /\ [Next]_vars => IInv'
  <2> SUFFICES ASSUME IInv, [Next]_vars PROVE IInv'
    OBVIOUS
  <2>1. CASE Call
    <3>1. CASE \E t \in SyncThreads, n \in 1 .. MaxChunks : LoadSync(t, n)
      BY <3>1, BeginStep DEF LoadSync, Threads, Loads
    <3>2. CASE \E t \in AsyncThreads, r \in Requests, n \in 1 .. MaxChunks : LoadAsync(t, r, n)
      BY <3>2, BeginStep DEF LoadAsync, Threads, Loads
    <3>3. CASE LoadDirect
      BY <3>3, BeginStep DEF LoadDirect, Threads, Loads
    <3> QED
      BY <2>1, <3>1, <3>2, <3>3 DEF Call
  <2>2. CASE \E t \in Threads : Alloc(t) \/ Put(t) \/ Return(t)
    BY <2>2, AllocStep, PutStep, ReturnStep
  <2>3. CASE Main
    BY <2>3, MainStep
  <2>4. CASE CacheTakes \/ ClearAudioDMA \/ AudioTakes \/ UNCHANGED vars
    <3>1. UNCHANGED <<free, queue, loader, pc, call>>
      BY <2>4 DEF CacheTakes, ClearAudioDMA, AudioTakes, vars
    <3> QED
      BY <3>1 DEF IInv, PoolTypes, EntriesConserved, InHand, Putting
  <2> QED
    BY <2>1, <2>2, <2>3, <2>4 DEF Next
<1> QED
  BY Initially, <1>1, PTL DEF Spec

\* No entry leaks and none is freed twice.
THEOREM NoEntryLeaks == Spec => []EntriesConserved
<1>1. IInv => EntriesConserved
  BY DEF IInv
<1> QED
  BY <1>1, InvariantHolds, PTL

\* A thread with an entry to find has one to find.
LEMMA EntryToFind == IInv => PoolSuffices
<1> SUFFICES ASSUME IInv, NEW t \in Threads, pc[t] = "alloc" PROVE free > 0
  BY DEF PoolSuffices
<1>1. t \in Threads \ Putting
  BY DEF Putting
<1>2. /\ Cardinality(Putting) < Cardinality(Threads)
      /\ Cardinality(Putting) \in Nat /\ Cardinality(Threads) \in Nat
  BY <1>1, PuttingCounts
<1>3. free \in Nat /\ Len(queue) \in Nat /\ Len(queue) <= QueueSize
  BY DEF IInv, PoolTypes
<1> QED
  BY <1>2, <1>3, PoolSound, SizesSound DEF IInv, EntriesConserved

\* No load is given up for want of an entry, if the pool has more entries than the
\* queue has room and threads load together (CLoader__AllocLoaderEntry).
THEOREM PoolNeverRunsDry == Spec => []PoolSuffices
BY EntryToFind, InvariantHolds, PTL

----------------------------------------------------------------------------
(* The reply queues on the stacks of CLoader__LoadSync                      *)

\* A reply is there only for a call that waits.
StackTypes ==
  /\ stack \in [Threads -> {0, 1}]
  /\ \A t \in Threads : stack[t] = 1 => pc[t] = "wait"

StackInv == StackTypes /\ StackQueueAlive

Waiting(t) == pc[t] = "wait" /\ stack[t] = 0

\* Where the entries are that will send a reply, when the queue is jammed, when
\* it grows at the back, and when the loader takes its first entry.
LEMMA ToAnswerJams ==
  ASSUME PoolTypes, NEW e \in CLoaderEntry, NEW r, NEW l,
         queue' = <<e>> \o queue, loader' = loader
  PROVE  /\ \A i \in ToAnswer(r, l) : i \in 0 .. Len(queue)
         /\ \A i : i \in ToAnswer(r, l)' <=>
              \/ i = 0 /\ 0 \in ToAnswer(r, l)
              \/ i = 1 /\ e = [load |-> l, reply |-> r]
              \/ i \in 2 .. Len(queue) + 1 /\ i - 1 \in ToAnswer(r, l)
<1>1. queue \in Seq(CLoaderEntry)
  BY DEF PoolTypes
<1>2. /\ Len(queue) \in Nat /\ Len(queue') = Len(queue) + 1 /\ queue'[1] = e
      /\ \A i \in 2 .. Len(queue) + 1 : queue'[i] = queue[i - 1]
  BY <1>1
<1> QED
  BY <1>2 DEF ToAnswer

LEMMA ToAnswerGrows ==
  ASSUME PoolTypes, NEW e \in CLoaderEntry, NEW r, NEW l, e # [load |-> l, reply |-> r],
         queue' = Append(queue, e), loader' = loader
  PROVE  ToAnswer(r, l)' = ToAnswer(r, l)
<1>1. queue \in Seq(CLoaderEntry)
  BY DEF PoolTypes
<1>2. /\ Len(queue) \in Nat /\ Len(queue') = Len(queue) + 1 /\ queue'[Len(queue) + 1] = e
      /\ \A i \in 1 .. Len(queue) : queue'[i] = queue[i]
  BY <1>1
<1> QED
  BY <1>2 DEF ToAnswer

LEMMA ToAnswerTaken ==
  ASSUME PoolTypes, NEW r, NEW l, Take
  PROVE  /\ ToAnswer(r, l) \subseteq 1 .. Len(queue) /\ Len(queue) \in Nat
         /\ \A i : i \in ToAnswer(r, l)' <=> i \in 0 .. Len(queue) - 1 /\ i + 1 \in ToAnswer(r, l)
<1>1. /\ queue \in Seq(CLoaderEntry) /\ queue # <<>> /\ queue' = Tail(queue)
      /\ loader.at = "idle" /\ loader'.at = "dma" /\ loader'.entry = Head(queue)
  BY DEF PoolTypes, Take
<1>2. /\ Len(queue) \in Nat \ {0} /\ Len(queue') = Len(queue) - 1 /\ Head(queue) = queue[1]
      /\ \A i \in 1 .. Len(queue) - 1 : queue'[i] = queue[i + 1]
  BY <1>1
<1> QED
  BY <1>1, <1>2 DEF ToAnswer

\* A thread other than the ones that wait moves, and no entry.
LEMMA StackKept ==
  ASSUME StackInv, NEW t \in Threads, NEW q \in Places \ {"wait"}, pc[t] # "wait",
         pc \in [Threads -> Places], pc' = [pc EXCEPT ![t] = q],
         UNCHANGED <<queue, loader, stack>>
  PROVE  StackInv'
<1>1. \A u \in Threads : (pc'[u] = "wait") = (pc[u] = "wait")
  OBVIOUS
<1>2. StackTypes'
  BY <1>1 DEF StackInv, StackTypes
<1>3. ASSUME NEW u \in Threads
      PROVE  ToAnswer("stack", u)' = ToAnswer("stack", u) /\ Len(queue') = Len(queue)
  BY DEF ToAnswer
<1>4. StackQueueAlive'
  BY <1>1, <1>3 DEF StackInv, StackQueueAlive
<1> QED
  BY <1>2, <1>4 DEF StackInv

\* A thread puts an entry for its own reply in front of the queue, or one that
\* sends no reply to a stack, at either end.
LEMMA StackPut == ASSUME IInv, StackInv, NEW t \in Threads, Put(t) PROVE StackInv'
<1> DEFINE e == [load |-> call[t].load, reply |-> ReplyTo(t)]
<1>1. /\ PoolTypes /\ pc[t] = "put" /\ loader' = loader /\ stack' = stack
      /\ queue' = IF Jams(t) THEN <<e>> \o queue ELSE Append(queue, e)
      /\ pc \in [Threads -> Places] /\ stack \in [Threads -> {0, 1}] /\ stack[t] = 0
  BY DEF IInv, PoolTypes, StackInv, StackTypes, Put
<1>2. e \in CLoaderEntry
  <2>1. call[t].load \in Loads
    BY <1>1 DEF PoolTypes
  <2>2. ReplyTo(t) \in {"none", "stack", "cache", "audio"}
    BY DEF ReplyTo
  <2> QED
    BY <2>1, <2>2 DEF CLoaderEntry
<1>3. IF IsSync(t)
      THEN e = [load |-> t, reply |-> "stack"] /\ pc' = [pc EXCEPT ![t] = "wait"] /\ Jams(t)
      ELSE e.reply # "stack" /\ \E q \in {"alloc", "out"} : pc' = [pc EXCEPT ![t] = q]
  <2>1. CASE IsSync(t)
    <3>1. ReplyTo(t) = "stack" /\ Waits(t) /\ Jams(t) /\ call[t].load = t
      <4>1. t # Audio /\ call[t].load = t
        BY <2>1 DEF IsSync
      <4>2. ReplyTo(t) = "stack"
        BY <2>1, <4>1 DEF ReplyTo
      <4> QED
        BY <2>1, <4>1, <4>2 DEF Waits, Jams
    <3>2. pc' = [pc EXCEPT ![t] = "wait"]
      BY <3>1 DEF Put
    <3> QED
      BY <2>1, <3>1, <3>2
  <2>2. CASE ~IsSync(t)
    <3>1. ReplyTo(t) # "stack" /\ Continue(t)
      BY <2>2 DEF ReplyTo, Put, Waits
    <3> QED
      BY <1>1, <2>2, <3>1, ContinueFacts
  <2> QED
    BY <2>1, <2>2
<1>4. ToAnswer("stack", t) = {}
  BY <1>1 DEF StackInv, StackQueueAlive
<1> HIDE DEF e
<1>5. StackTypes'
  BY <1>1, <1>3 DEF StackInv, StackTypes
<1>6. Len(queue) \in Nat /\ Len(queue') = Len(queue) + 1
  BY <1>1, <1>2 DEF PoolTypes
<1>7. ASSUME NEW u \in Threads, u # t \/ ~IsSync(t)
      PROVE  IF Waiting(u) THEN \E i \in 0 .. Len(queue') : ToAnswer("stack", u)' = {i}
             ELSE ToAnswer("stack", u)' = {}
  <2>1. e # [load |-> u, reply |-> "stack"]
    BY <1>3, <1>7
  <2>2. CASE ~Jams(t)
    BY <1>1, <1>2, <1>6, <2>1, <2>2, ToAnswerGrows DEF StackInv, StackQueueAlive, Waiting
  <2>3. CASE Jams(t)
    <3>1. /\ \A i \in ToAnswer("stack", u) : i \in 0 .. Len(queue)
          /\ \A i : i \in ToAnswer("stack", u)' <=>
               \/ i = 0 /\ 0 \in ToAnswer("stack", u)
               \/ i \in 2 .. Len(queue) + 1 /\ i - 1 \in ToAnswer("stack", u)
      BY <1>1, <1>2, <2>1, <2>3, ToAnswerJams
    <3>2. CASE Waiting(u)
      <4>1. PICK i \in 0 .. Len(queue) : ToAnswer("stack", u) = {i}
        BY <3>2 DEF StackInv, StackQueueAlive, Waiting
      <4>2. CASE i = 0
        BY <1>6, <3>1, <3>2, <4>1, <4>2
      <4>3. CASE i # 0
        <5>1. i + 1 \in 2 .. Len(queue) + 1 /\ \A k \in 2 .. Len(queue) + 1 : k - 1 = i <=> k = i + 1
          BY <1>6, <4>1, <4>3
        <5>2. ToAnswer("stack", u)' = {i + 1}
          BY <3>1, <4>1, <4>3, <5>1
        <5> QED
          BY <1>6, <3>2, <5>1, <5>2
      <4> QED
        BY <4>2, <4>3
    <3>3. CASE ~Waiting(u)
      BY <3>1, <3>3 DEF StackInv, StackQueueAlive, Waiting
    <3> QED
      BY <3>2, <3>3
  <2> QED
    BY <2>2, <2>3
<1>8. ASSUME IsSync(t) PROVE ToAnswer("stack", t)' = {1}
  BY <1>1, <1>2, <1>3, <1>4, <1>8, ToAnswerJams
<1>9. ASSUME NEW u \in Threads, u # t \/ ~IsSync(t) PROVE Waiting(u)' <=> Waiting(u)
  BY <1>1, <1>3, <1>9 DEF Waiting
<1>10. StackQueueAlive'
  <2>1. ASSUME NEW u \in Threads
        PROVE  IF Waiting(u)' THEN \E i \in 0 .. Len(queue') : ToAnswer("stack", u)' = {i}
               ELSE ToAnswer("stack", u)' = {}
    <3>1. CASE u = t /\ IsSync(t)
      <4>1. ToAnswer("stack", u)' = {1} /\ 1 \in 0 .. Len(queue')
        BY <1>6, <1>8, <3>1
      <4>2. Waiting(u)'
        BY <1>1, <1>3, <3>1 DEF Waiting
      <4> QED
        BY <4>1, <4>2
    <3>2. CASE ~(u = t /\ IsSync(t))
      BY <1>7, <1>9, <3>2
    <3> QED
      BY <3>1, <3>2
  <2> QED
    BY <2>1 DEF StackQueueAlive, Waiting
<1> QED
  BY <1>5, <1>10 DEF StackInv

\* No call waits at first, and the queue is empty.
LEMMA StackInitially == Init => StackInv
BY DEF Init, StackInv, StackTypes, StackQueueAlive, ToAnswer

\* A call that has its reply goes on, and nobody sends it another.
LEMMA StackReturn == ASSUME IInv, StackInv, NEW t \in Threads, Return(t) PROVE StackInv'
<1>1. /\ PoolTypes /\ pc[t] = "wait" /\ stack[t] = 1 /\ Continue(t)
      /\ pc \in [Threads -> Places] /\ stack \in [Threads -> {0, 1}]
      /\ stack' = [stack EXCEPT ![t] = 0] /\ UNCHANGED <<queue, loader>>
  BY DEF IInv, PoolTypes, StackInv, StackTypes, Return
<1>2. PICK q \in {"alloc", "out"} : pc' = [pc EXCEPT ![t] = q]
  BY <1>1, ContinueFacts
<1>3. StackTypes'
  BY <1>1, <1>2 DEF StackInv, StackTypes
<1>4. ASSUME NEW u \in Threads
      PROVE  /\ ToAnswer("stack", u)' = ToAnswer("stack", u) /\ Len(queue') = Len(queue)
             /\ Waiting(u)' <=> Waiting(u)
  BY <1>1, <1>2 DEF ToAnswer, Waiting
<1>5. StackQueueAlive'
  BY <1>4 DEF StackInv, StackQueueAlive, Waiting
<1> QED
  BY <1>3, <1>5 DEF StackInv

\* The loader carries the entry from the queue to the reply.
LEMMA StackMain == ASSUME IInv, StackInv, Main PROVE StackInv'
<1>1. /\ PoolTypes /\ pc' = pc /\ pc \in [Threads -> Places] /\ stack \in [Threads -> {0, 1}]
  BY DEF IInv, PoolTypes, StackInv, StackTypes, Main, Take, Loaded, Reply, Dealloc
<1>2. CASE Take
  <2>1. stack' = stack /\ Len(queue') = Len(queue) - 1
    BY <1>1, <1>2 DEF Take, PoolTypes
  <2>2. ASSUME NEW u \in Threads
        PROVE  IF Waiting(u)' THEN \E i \in 0 .. Len(queue') : ToAnswer("stack", u)' = {i}
               ELSE ToAnswer("stack", u)' = {}
    <3>1. /\ ToAnswer("stack", u) \subseteq 1 .. Len(queue) /\ Len(queue) \in Nat
          /\ \A i : i \in ToAnswer("stack", u)' <=> i \in 0 .. Len(queue) - 1 /\ i + 1 \in ToAnswer("stack", u)
      BY <1>1, <1>2, ToAnswerTaken
    <3>2. Waiting(u)' <=> Waiting(u)
      BY <1>1, <2>1 DEF Waiting
    <3>3. CASE Waiting(u)
      <4>1. PICK i \in 0 .. Len(queue) : ToAnswer("stack", u) = {i}
        BY <3>3 DEF StackInv, StackQueueAlive, Waiting
      <4>2. i - 1 \in 0 .. Len(queue) - 1 /\ \A k \in 0 .. Len(queue) - 1 : k + 1 = i <=> k = i - 1
        BY <3>1, <4>1
      <4>3. ToAnswer("stack", u)' = {i - 1}
        BY <3>1, <4>1, <4>2
      <4> QED
        BY <2>1, <3>2, <3>3, <4>2, <4>3
    <3>4. CASE ~Waiting(u)
      BY <3>1, <3>2, <3>4 DEF StackInv, StackQueueAlive, Waiting
    <3> QED
      BY <3>3, <3>4
  <2>3. StackQueueAlive'
    BY <2>2 DEF StackQueueAlive, Waiting
  <2> QED
    BY <1>1, <2>1, <2>3 DEF StackInv, StackTypes
<1>3. CASE Loaded
  <2>1. /\ UNCHANGED <<queue, stack>> /\ loader.at = "dma"
        /\ loader'.at = IF loader.entry.reply = "none" THEN "free" ELSE "reply"
        /\ loader'.entry = loader.entry
    BY <1>1, <1>3 DEF Loaded, PoolTypes
  <2>2. ASSUME NEW u \in Threads PROVE ToAnswer("stack", u)' = ToAnswer("stack", u)
    BY <2>1 DEF ToAnswer
  <2>3. StackQueueAlive'
    BY <1>1, <2>1, <2>2 DEF StackInv, StackQueueAlive
  <2> QED
    BY <1>1, <2>1, <2>3 DEF StackInv, StackTypes
<1>4. CASE Reply
  <2> DEFINE l == loader.entry.load
  <2>1. /\ UNCHANGED queue /\ loader.at = "reply" /\ loader'.at = "free"
        /\ loader.entry \in CLoaderEntry /\ Len(queue) \in Nat
    BY <1>1, <1>4 DEF Reply, PoolTypes
  <2>2. \/ loader.entry.reply = "stack" /\ stack[l] = 0 /\ stack' = [stack EXCEPT ![l] = 1]
        \/ loader.entry.reply # "stack" /\ stack' = stack
    BY <1>4 DEF Reply
  <2>3. ASSUME NEW u \in Threads
        PROVE  /\ 0 \in ToAnswer("stack", u) <=> loader.entry = [load |-> u, reply |-> "stack"]
               /\ ToAnswer("stack", u)' = ToAnswer("stack", u) \ {0}
    BY <2>1 DEF ToAnswer
  <2>4. ASSUME NEW u \in Threads, 0 \in ToAnswer("stack", u)
        PROVE  Waiting(u) /\ ToAnswer("stack", u)' = {}
    BY <2>3, <2>4 DEF StackInv, StackQueueAlive, Waiting
  <2>5. ASSUME NEW u \in Threads
        PROVE  stack'[u] = IF 0 \in ToAnswer("stack", u) THEN 1 ELSE stack[u]
    <3>1. loader.entry = [load |-> l, reply |-> loader.entry.reply]
      BY <2>1 DEF CLoaderEntry
    <3>2. 0 \in ToAnswer("stack", u) <=> l = u /\ loader.entry.reply = "stack"
      <4>1. loader.entry = [load |-> u, reply |-> "stack"]
              => l = u /\ loader.entry.reply = "stack"
        OBVIOUS
      <4>2. l = u /\ loader.entry.reply = "stack"
              => loader.entry = [load |-> u, reply |-> "stack"]
        BY <3>1
      <4> QED
        BY <2>3, <4>1, <4>2
    <3> HIDE DEF l
    <3> QED
      BY <1>1, <2>2, <3>2
  <2>6. StackTypes'
    <3>1. stack' \in [Threads -> {0, 1}]
      BY <1>1, <2>2
    <3> QED
      BY <1>1, <2>4, <2>5, <3>1 DEF StackInv, StackTypes, Waiting
  <2>7. ASSUME NEW u \in Threads
        PROVE  IF Waiting(u)' THEN \E i \in 0 .. Len(queue') : ToAnswer("stack", u)' = {i}
               ELSE ToAnswer("stack", u)' = {}
    <3>1. CASE 0 \in ToAnswer("stack", u)
      <4>1. ~Waiting(u)'
        BY <2>5, <3>1 DEF Waiting
      <4> QED
        BY <2>4, <3>1, <4>1
    <3>2. CASE 0 \notin ToAnswer("stack", u)
      <4>1. (Waiting(u)' <=> Waiting(u)) /\ ToAnswer("stack", u)' = ToAnswer("stack", u)
        BY <1>1, <2>3, <2>5, <3>2 DEF Waiting
      <4> QED
        BY <2>1, <4>1 DEF StackInv, StackQueueAlive, Waiting
    <3> QED
      BY <3>1, <3>2
  <2>8. StackQueueAlive'
    BY <2>7 DEF StackQueueAlive, Waiting
  <2> QED
    BY <2>6, <2>8 DEF StackInv
<1>5. CASE Dealloc
  <2>1. /\ UNCHANGED <<queue, stack>> /\ loader.at = "free" /\ loader'.at = "idle"
    BY <1>5 DEF Dealloc
  <2>2. ASSUME NEW u \in Threads PROVE ToAnswer("stack", u)' = ToAnswer("stack", u)
    BY <2>1 DEF ToAnswer
  <2>3. StackQueueAlive'
    BY <1>1, <2>1, <2>2 DEF StackInv, StackQueueAlive
  <2> QED
    BY <1>1, <2>1, <2>3 DEF StackInv, StackTypes
<1> QED
  BY <1>2, <1>3, <1>4, <1>5 DEF Main

\* A reply on a stack is for a call that waits, and no other comes.
THEOREM StackHolds == Spec => []StackInv
<1>1. IInv /\ StackInv /\ [Next]_vars => StackInv'
  <2> SUFFICES ASSUME IInv, StackInv, [Next]_vars PROVE StackInv'
    OBVIOUS
  <2>1. pc \in [Threads -> Places] /\ {"alloc", "put", "out"} \subseteq Places \ {"wait"}
    BY DEF IInv, PoolTypes, Places
  <2>2. CASE Call
    <3>1. \E t \in Threads : /\ pc[t] # "wait" /\ pc' = [pc EXCEPT ![t] = "alloc"]
                            /\ UNCHANGED <<queue, loader, stack>>
      BY <2>2 DEF Call, LoadSync, LoadAsync, LoadDirect, Begin, Threads
    <3> QED
      BY <2>1, <3>1, StackKept
  <2>3. CASE \E t \in Threads : Alloc(t)
    <3>1. \E t \in Threads : /\ pc[t] # "wait" /\ UNCHANGED <<queue, loader, stack>>
                            /\ \E q \in {"out", "put"} : pc' = [pc EXCEPT ![t] = q]
      BY <2>3 DEF Alloc
    <3> QED
      BY <2>1, <3>1, StackKept
  <2>4. CASE \E t \in Threads : Put(t) \/ Return(t)
    BY <2>4, StackPut, StackReturn
  <2>5. CASE Main
    BY <2>5, StackMain
  <2>6. CASE CacheTakes \/ ClearAudioDMA \/ AudioTakes \/ UNCHANGED vars
    <3>1. UNCHANGED <<queue, loader, pc, stack>>
      BY <2>6 DEF CacheTakes, ClearAudioDMA, AudioTakes, vars
    <3> QED
      BY <3>1 DEF StackInv, StackTypes, StackQueueAlive, ToAnswer
  <2> QED
    BY <2>2, <2>3, <2>4, <2>5, <2>6 DEF Next
<1> QED
  BY StackInitially, InvariantHolds, <1>1, PTL DEF Spec

\* The loader replies to the queue on the stack of CLoader__LoadSync while that call
\* waits there, exactly once, and never blocks on it.
THEOREM StackQueuesAreAlive == Spec => []StackQueueAlive
<1>1. StackInv => StackQueueAlive
  BY DEF StackInv
<1> QED
  BY StackHolds, <1>1, PTL

----------------------------------------------------------------------------
(* Counting entries on the queue                                            *)

\* The places of sequence q that hold one of E.
Spots(q, E) == {i \in 1 .. Len(q) : q[i] \in E}

LEMMA SpotsFinite ==
  ASSUME NEW S, NEW q \in Seq(S), NEW E
  PROVE  IsFiniteSet(Spots(q, E)) /\ Cardinality(Spots(q, E)) \in Nat
<1>1. Len(q) \in Nat /\ Spots(q, E) \in SUBSET (1 .. Len(q))
  BY DEF Spots
<1>2. IsFiniteSet(1 .. Len(q))
  BY <1>1, FS_Interval
<1>3. IsFiniteSet(Spots(q, E))
  BY <1>1, <1>2, FS_Subset
<1> QED
  BY <1>3, FS_CardinalityType

LEMMA SpotsAppend ==
  ASSUME NEW S, NEW q \in Seq(S), NEW e \in S, NEW E
  PROVE  Cardinality(Spots(Append(q, e), E)) =
           Cardinality(Spots(q, E)) + (IF e \in E THEN 1 ELSE 0)
<1> DEFINE r == Append(q, e)
           n == Len(q)
<1>1. /\ r \in Seq(S) /\ n \in Nat /\ Len(r) = n + 1 /\ r[n + 1] = e
      /\ \A i \in 1 .. n : r[i] = q[i]
  OBVIOUS
<1>2. IsFiniteSet(Spots(q, E)) /\ Cardinality(Spots(q, E)) \in Nat
  BY SpotsFinite
<1> HIDE DEF r
<1>3. Spots(r, E) = IF e \in E THEN Spots(q, E) \cup {n + 1} ELSE Spots(q, E)
  BY <1>1 DEF Spots
<1>4. n + 1 \notin Spots(q, E)
  BY <1>1 DEF Spots
<1>5. Cardinality(Spots(q, E) \cup {n + 1}) = Cardinality(Spots(q, E)) + 1
  BY <1>2, <1>4, FS_AddElement
<1> QED
  BY <1>2, <1>3, <1>5 DEF r

\* Places shifted by one are as many.
LEMMA SpotsShift ==
  ASSUME NEW A \in SUBSET Int, IsFiniteSet(A)
  PROVE  IsFiniteSet({i + 1 : i \in A}) /\ Cardinality({i + 1 : i \in A}) = Cardinality(A)
<1> DEFINE B == {i + 1 : i \in A}
           f == [i \in A |-> i + 1]
<1>1. f \in Bijection(A, B)
  <2>1. f \in [A -> B] /\ \A b \in B : \E i \in A : f[i] = b
    OBVIOUS
  <2>2. \A i, j \in A : f[i] = f[j] => i = j
    OBVIOUS
  <2> QED
    BY <2>1, <2>2 DEF Bijection, Injection, Surjection, IsInjective
<1>2. ExistsBijection(A, B)
  BY <1>1 DEF ExistsBijection
<1> QED
  BY <1>2, FS_Bijection

LEMMA SpotsTail ==
  ASSUME NEW S, NEW q \in Seq(S), q # <<>>, NEW E
  PROVE  Cardinality(Spots(q, E)) =
           Cardinality(Spots(Tail(q), E)) + (IF Head(q) \in E THEN 1 ELSE 0)
<1> DEFINE r == Tail(q)
           e == Head(q)
           A == Spots(r, E)
           B == {i + 1 : i \in A}
<1>1. /\ r \in Seq(S) /\ Len(q) \in Nat /\ Len(q) >= 1 /\ Len(r) = Len(q) - 1 /\ q[1] = e
      /\ \A i \in 1 .. Len(q) - 1 : r[i] = q[i + 1]
  OBVIOUS
<1>2. IsFiniteSet(A) /\ Cardinality(A) \in Nat
  BY <1>1, SpotsFinite
<1> HIDE DEF r, e
<1>3. A \in SUBSET Int
  BY DEF Spots
<1>4. IsFiniteSet(B) /\ Cardinality(B) = Cardinality(A)
  BY <1>2, <1>3, SpotsShift
<1>5. Spots(q, E) = IF e \in E THEN B \cup {1} ELSE B
  <2>1. ASSUME NEW i \in Spots(q, E), i # 1 PROVE i \in B
    <3>1. i - 1 \in 1 .. Len(r) /\ r[i - 1] = q[(i - 1) + 1] /\ (i - 1) + 1 = i /\ q[i] \in E
      BY <1>1, <2>1 DEF Spots
    <3>2. i - 1 \in A
      BY <3>1 DEF Spots
    <3> QED
      BY <3>1, <3>2
  <2>2. ASSUME NEW i \in A PROVE i + 1 \in Spots(q, E) /\ i + 1 # 1
    BY <1>1 DEF Spots
  <2>3. 1 \in Spots(q, E) <=> e \in E
    BY <1>1 DEF Spots
  <2> QED
    BY <2>1, <2>2, <2>3
<1>6. 1 \notin B
  BY <1>3 DEF Spots
<1>7. Cardinality(B \cup {1}) = Cardinality(B) + 1
  BY <1>4, <1>6, FS_AddElement
<1> QED
  BY <1>2, <1>4, <1>5, <1>7 DEF r, e

LEMMA SpotsPush ==
  ASSUME NEW S, NEW q \in Seq(S), NEW e \in S, NEW E
  PROVE  Cardinality(Spots(<<e>> \o q, E)) =
           Cardinality(Spots(q, E)) + (IF e \in E THEN 1 ELSE 0)
<1> DEFINE r == <<e>> \o q
<1>1. r \in Seq(S) /\ r # <<>> /\ Head(r) = e /\ Tail(r) = q
  OBVIOUS
<1> HIDE DEF r
<1>2. Cardinality(Spots(r, E)) = Cardinality(Spots(Tail(r), E)) + (IF Head(r) \in E THEN 1 ELSE 0)
  BY <1>1, SpotsTail
<1> QED
  BY <1>1, <1>2 DEF r

\* The replies the loader has still to send are those of the queue and the one in its hand.
LEMMA ToAnswerCounted ==
  ASSUME PoolTypes, NEW r, NEW l
  PROVE  LET e == [load |-> l, reply |-> r]
         IN  Cardinality(ToAnswer(r, l)) =
               Cardinality(Spots(queue, {e}))
               + (IF loader.at \in {"dma", "reply"} /\ loader.entry = e THEN 1 ELSE 0)
<1> DEFINE e == [load |-> l, reply |-> r]
           A == Spots(queue, {e})
<1>1. IsFiniteSet(A) /\ Cardinality(A) \in Nat /\ Len(queue) \in Nat
  BY SpotsFinite DEF PoolTypes
<1> HIDE DEF e
<1>2. ToAnswer(r, l) = IF loader.at \in {"dma", "reply"} /\ loader.entry = e THEN A \cup {0} ELSE A
  BY <1>1 DEF ToAnswer, Spots, e
<1>3. 0 \notin A
  BY <1>1 DEF Spots
<1>4. Cardinality(A \cup {0}) = Cardinality(A) + 1
  BY <1>1, <1>3, FS_AddElement
<1> QED
  BY <1>1, <1>2, <1>4 DEF e

----------------------------------------------------------------------------
(* What the threads load, and for whom the entries are                      *)

SoundEntry == [load |-> Audio, reply |-> "audio"]

Proper(e) ==
  \/ e.load \in Requests /\ e.reply \in {"none", "cache"}
  \/ e.load \in SyncThreads /\ e.reply = "stack"
  \/ e = SoundEntry

ProperCall(t) ==
  /\ call[t].left >= 1
  /\ \/ t = Audio /\ call[t].load = Audio /\ call[t].left = 1 /\ pc[t] # "wait"
     \/ t \in SyncThreads /\ call[t].load = t
     \/ t \in AsyncThreads /\ call[t].load \in Requests /\ pc[t] # "wait"

KindInv ==
  /\ \A i \in 1 .. Len(queue) : Proper(queue[i])
  /\ loader.at # "idle" => Proper(loader.entry)
  /\ \A t \in Threads : pc[t] # "out" => ProperCall(t)

\* What Alloc does when the pool suffices.
LEMMA AllocFacts ==
  ASSUME IInv, NEW t \in Threads, Alloc(t)
  PROVE  /\ pc \in [Threads -> Places] /\ pc[t] = "alloc" /\ pc' = [pc EXCEPT ![t] = "put"]
         /\ UNCHANGED <<queue, loader, call, stack, answers, sound, asked, missing>>
<1>1. free > 0 /\ pc \in [Threads -> Places]
  BY EntryToFind DEF Alloc, PoolSuffices, IInv, PoolTypes
<1> QED
  BY <1>1 DEF Alloc

\* The three ways to put an entry on the queue.
PutsSound ==
  /\ pc[Audio] = "put" /\ pc' = [pc EXCEPT ![Audio] = "out"]
  /\ call' = [call EXCEPT ![Audio] = NoCall]
  /\ queue' = <<SoundEntry>> \o queue

PutsStack(t) ==
  /\ pc[t] = "put" /\ t \in SyncThreads /\ call[t].load = t /\ call[t].left >= 1
  /\ pc' = [pc EXCEPT ![t] = "wait"] /\ call' = call
  /\ queue' = <<[load |-> t, reply |-> "stack"]>> \o queue

PutsRequest(t) ==
  /\ pc[t] = "put" /\ t \in AsyncThreads /\ call[t].load \in Requests
  /\ \/ /\ call[t].left > 1
        /\ pc' = [pc EXCEPT ![t] = "alloc"]
        /\ call' = [call EXCEPT ![t] = [load |-> call[t].load, left |-> call[t].left - 1]]
        /\ queue' = Append(queue, [load |-> call[t].load, reply |-> "none"])
     \/ /\ call[t].left = 1
        /\ pc' = [pc EXCEPT ![t] = "out"]
        /\ call' = [call EXCEPT ![t] = NoCall]
        /\ queue' = Append(queue, [load |-> call[t].load, reply |-> "cache"])

LEMMA PutFacts ==
  ASSUME PoolTypes, KindInv, NEW t \in Threads, Put(t)
  PROVE  /\ UNCHANGED <<free, loader, stack, answers, sound, asked, missing>>
         /\ Len(queue) < QueueSize
         /\ (t = Audio /\ PutsSound) \/ PutsStack(t) \/ PutsRequest(t)
<1> DEFINE e == [load |-> call[t].load, reply |-> ReplyTo(t)]
<1>1. /\ pc[t] = "put" /\ ProperCall(t) /\ Len(queue) < QueueSize
      /\ UNCHANGED <<free, loader, stack, answers, sound, asked, missing>>
      /\ queue' = IF Jams(t) THEN <<e>> \o queue ELSE Append(queue, e)
      /\ IF Waits(t) THEN pc' = [pc EXCEPT ![t] = "wait"] /\ call' = call ELSE Continue(t)
  BY DEF Put, Room, KindInv
<1>2. call[t] \in [load : Loads, left : Nat] /\ call[t].left \in Nat
  BY DEF PoolTypes
<1>3. CASE t = Audio
  <2>1. Jams(t) /\ ~Waits(t) /\ ReplyTo(t) = "audio" /\ ~(call[t].left > 1) /\ call[t].load = Audio
    BY <1>1, <1>3, NamesSound DEF Jams, Waits, IsSync, ReplyTo, ProperCall, Threads
  <2> QED
    BY <1>1, <1>3, <2>1 DEF Continue, PutsSound, SoundEntry
<1>4. CASE t # Audio /\ t \in SyncThreads /\ call[t].load = t
  <2>1. Jams(t) /\ Waits(t) /\ ReplyTo(t) = "stack"
    BY <1>4 DEF Jams, Waits, IsSync, ReplyTo
  <2> QED
    BY <1>1, <1>4, <2>1 DEF PutsStack, ProperCall
<1>5. CASE t # Audio /\ t \in AsyncThreads /\ call[t].load \in Requests
  <2>1. call[t].load # t
    BY <1>5, NamesSound
  <2>2. ~Jams(t) /\ ~Waits(t) /\ ReplyTo(t) = IF call[t].left = 1 THEN "cache" ELSE "none"
    BY <1>5, <2>1 DEF Jams, Waits, IsSync, ReplyTo
  <2>3. Continue(t) /\ queue' = Append(queue, e)
    BY <1>1, <2>2
  <2>4. CASE call[t].left = 1
    BY <1>1, <1>5, <2>2, <2>3, <2>4 DEF Continue, PutsRequest
  <2>5. CASE call[t].left > 1
    <3>1. [call[t] EXCEPT !.left = call[t].left - 1] = [load |-> call[t].load, left |-> call[t].left - 1]
      BY <1>2
    <3>2. call' = [call EXCEPT ![t] = [call[t] EXCEPT !.left = call[t].left - 1]]
      BY <2>3, <2>5 DEF Continue
    <3>3. pc' = [pc EXCEPT ![t] = "alloc"] /\ queue' = Append(queue, [load |-> call[t].load, reply |-> "none"])
      BY <2>2, <2>3, <2>5 DEF Continue
    <3> QED
      BY <1>1, <1>5, <2>5, <3>1, <3>2, <3>3 DEF PutsRequest
  <2> QED
    BY <1>1, <1>2, <2>4, <2>5 DEF ProperCall
<1> QED
  BY <1>1, <1>3, <1>4, <1>5 DEF ProperCall

\* What a call does that has its reply.
LEMMA ReturnFacts ==
  ASSUME PoolTypes, KindInv, NEW t \in Threads, Return(t)
  PROVE  /\ UNCHANGED <<free, queue, loader, answers, sound, asked, missing>>
         /\ pc[t] = "wait" /\ t \in SyncThreads /\ call[t].load = t /\ call[t].left \in Nat
         /\ \/ /\ call[t].left > 1 /\ pc' = [pc EXCEPT ![t] = "alloc"]
               /\ call' = [call EXCEPT ![t] = [load |-> t, left |-> call[t].left - 1]]
            \/ /\ call[t].left = 1 /\ pc' = [pc EXCEPT ![t] = "out"]
               /\ call' = [call EXCEPT ![t] = NoCall]
<1>1. /\ pc[t] = "wait" /\ ProperCall(t) /\ Continue(t)
      /\ UNCHANGED <<free, queue, loader, answers, sound, asked, missing>>
      /\ call[t] \in [load : Loads, left : Nat] /\ call[t].left \in Nat
  BY DEF Return, KindInv, PoolTypes
<1>2. t \in SyncThreads /\ call[t].load = t /\ call[t].left >= 1
  BY <1>1 DEF ProperCall
<1>3. CASE call[t].left > 1
  <2>1. [call[t] EXCEPT !.left = call[t].left - 1] = [load |-> t, left |-> call[t].left - 1]
    BY <1>1, <1>2
  <2>2. call' = [call EXCEPT ![t] = [call[t] EXCEPT !.left = call[t].left - 1]]
    BY <1>1, <1>3 DEF Continue
  <2> QED
    BY <1>1, <1>2, <1>3, <2>1, <2>2 DEF Continue
<1>4. CASE call[t].left = 1
  BY <1>1, <1>2, <1>4 DEF Continue
<1> QED
  BY <1>1, <1>2, <1>3, <1>4

\* A new call is proper.
LEMMA KindBegin ==
  ASSUME PoolTypes, KindInv, NEW t \in Threads, NEW l \in Loads, NEW n \in Nat, n >= 1,
         \/ t = Audio /\ l = Audio /\ n = 1
         \/ t \in SyncThreads /\ l = t
         \/ t \in AsyncThreads /\ l \in Requests,
         Begin(t, l, n), UNCHANGED <<queue, loader>>
  PROVE  KindInv'
<1>1. /\ pc \in [Threads -> Places] /\ call \in [Threads -> [load : Loads, left : Nat]]
      /\ pc' = [pc EXCEPT ![t] = "alloc"] /\ call' = [call EXCEPT ![t] = [load |-> l, left |-> n]]
  BY DEF PoolTypes, Begin
<1> QED
  BY <1>1 DEF KindInv, Proper, ProperCall

LEMMA KindPut == ASSUME PoolTypes, KindInv, NEW t \in Threads, Put(t) PROVE KindInv'
<1>1. /\ pc \in [Threads -> Places] /\ call \in [Threads -> [load : Loads, left : Nat]]
      /\ queue \in Seq(CLoaderEntry) /\ call[t].left \in Nat
      /\ loader' = loader
  BY PutFacts DEF PoolTypes
<1>2. \A e \in CLoaderEntry :
        /\ queue' = <<e>> \o queue \/ queue' = Append(queue, e)
        /\ Proper(e)
        => \A i \in 1 .. Len(queue') : Proper(queue'[i])
  <2> SUFFICES ASSUME NEW e \in CLoaderEntry, Proper(e),
                      queue' = <<e>> \o queue \/ queue' = Append(queue, e),
                      NEW i \in 1 .. Len(queue')
               PROVE  Proper(queue'[i])
    OBVIOUS
  <2>1. /\ Len(queue) \in Nat /\ Len(queue') = Len(queue) + 1
        /\ queue'[i] = e \/ \E k \in 1 .. Len(queue) : queue'[i] = queue[k]
    <3>1. CASE queue' = <<e>> \o queue
      <4>1. queue'[1] = e /\ Len(queue') = Len(queue) + 1 /\ \A k \in 2 .. Len(queue) + 1 : queue'[k] = queue[k - 1]
        BY <1>1, <3>1
      <4> QED
        BY <1>1, <4>1
    <3>2. CASE queue' = Append(queue, e)
      <4>1. queue'[Len(queue) + 1] = e /\ Len(queue') = Len(queue) + 1 /\ \A k \in 1 .. Len(queue) : queue'[k] = queue[k]
        BY <1>1, <3>2
      <4>2. Len(queue) \in Nat /\ (i = Len(queue) + 1 \/ i \in 1 .. Len(queue))
        BY <1>1, <4>1
      <4> QED
        BY <4>1, <4>2
    <3> QED
      BY <3>1, <3>2
  <2>2. \A k \in 1 .. Len(queue) : Proper(queue[k])
    BY DEF KindInv
  <2> HIDE DEF Proper
  <2> QED
    BY <2>1, <2>2
<1>3. \A i \in 1 .. Len(queue') : Proper(queue'[i])
  <2>1. CASE t = Audio /\ PutsSound
    <3>1. SoundEntry \in CLoaderEntry /\ Proper(SoundEntry)
      BY DEF SoundEntry, CLoaderEntry, Loads, Threads, Proper
    <3> QED
      BY <1>2, <2>1, <3>1 DEF PutsSound
  <2>2. CASE PutsStack(t)
    <3> DEFINE e == [load |-> t, reply |-> "stack"]
    <3>1. e \in CLoaderEntry /\ Proper(e) /\ queue' = <<e>> \o queue
      BY <2>2 DEF PutsStack, CLoaderEntry, Loads, Threads, Proper
    <3> HIDE DEF e
    <3> QED
      BY <1>2, <3>1
  <2>3. CASE PutsRequest(t)
    <3> DEFINE e(r) == [load |-> call[t].load, reply |-> r]
    <3>1. \A r \in {"none", "cache"} : e(r) \in CLoaderEntry /\ Proper(e(r))
      BY <2>3 DEF PutsRequest, CLoaderEntry, Loads, Proper
    <3>2. \E r \in {"none", "cache"} : queue' = Append(queue, e(r))
      BY <2>3 DEF PutsRequest
    <3> HIDE DEF e
    <3> QED
      BY <1>2, <3>1, <3>2
  <2> QED
    BY <2>1, <2>2, <2>3, PutFacts
<1>4. \A u \in Threads : pc'[u] # "out" => ProperCall(u)'
  <2>1. CASE t = Audio /\ PutsSound
    BY <1>1, <2>1 DEF KindInv, ProperCall, PutsSound
  <2>2. CASE PutsStack(t)
    <3>1. t # Audio
      BY <2>2, NamesSound DEF PutsStack
    <3> QED
      BY <1>1, <2>2, <3>1 DEF KindInv, ProperCall, PutsStack
  <2>3. CASE PutsRequest(t)
    <3>1. t # Audio
      BY <2>3, NamesSound DEF PutsRequest
    <3>2. \A u \in Threads \ {t} : pc'[u] = pc[u] /\ call'[u] = call[u]
      BY <1>1, <2>3 DEF PutsRequest
    <3>3. pc'[t] # "out" => /\ pc'[t] = "alloc" /\ call[t].left > 1
                            /\ call'[t] = [load |-> call[t].load, left |-> call[t].left - 1]
      BY <1>1, <2>3 DEF PutsRequest
    <3>4. pc'[t] # "out" => ProperCall(t)'
      BY <1>1, <2>3, <3>3 DEF ProperCall, PutsRequest
    <3>5. \A u \in Threads \ {t} : pc'[u] # "out" => ProperCall(u)'
      BY <3>2 DEF KindInv, ProperCall
    <3> QED
      BY <3>4, <3>5
  <2> QED
    BY <2>1, <2>2, <2>3, PutFacts
<1> QED
  BY <1>1, <1>3, <1>4 DEF KindInv, Proper

LEMMA KindMain == ASSUME PoolTypes, KindInv, Main PROVE KindInv'
<1>1. pc' = pc /\ call' = call
  BY DEF Main, Take, Loaded, Reply, Dealloc
<1>2. \A u \in Threads : pc'[u] # "out" => ProperCall(u)'
  BY <1>1 DEF KindInv, ProperCall
<1>3. CASE Take
  <2>1. /\ queue \in Seq(CLoaderEntry) /\ queue # <<>> /\ queue' = Tail(queue)
        /\ loader'.entry = Head(queue)
    BY <1>3 DEF PoolTypes, Take
  <2>2. /\ Head(queue) = queue[1] /\ Len(queue) \in Nat \ {0} /\ Len(queue') = Len(queue) - 1
        /\ \A i \in 1 .. Len(queue) - 1 : queue'[i] = queue[i + 1]
    BY <2>1
  <2>3. \A i \in 1 .. Len(queue') : Proper(queue'[i])
    BY <2>2 DEF KindInv
  <2>4. Proper(loader'.entry)
    BY <2>1, <2>2 DEF KindInv
  <2> QED
    BY <1>2, <2>3, <2>4 DEF KindInv, Proper
<1>4. CASE Loaded \/ Reply
  <2>1. queue' = queue /\ loader'.entry = loader.entry /\ loader.at # "idle"
    BY <1>4 DEF Loaded, Reply, PoolTypes
  <2> QED
    BY <1>2, <2>1 DEF KindInv, Proper
<1>5. CASE Dealloc
  BY <1>2, <1>5 DEF Dealloc, KindInv, Proper
<1> QED
  BY <1>3, <1>4, <1>5 DEF Main

\* Threads load what is theirs, and entries reply to whom they are for.
THEOREM KindsHold == Spec => []KindInv
<1>1. Init => KindInv
  BY DEF Init, KindInv
<1>2. IInv /\ KindInv /\ [Next]_vars => KindInv'
  <2> SUFFICES ASSUME IInv, KindInv, [Next]_vars PROVE KindInv'
    OBVIOUS
  <2>0. PoolTypes /\ \A n \in 1 .. MaxChunks : n \in Nat /\ n >= 1
    BY SizesSound DEF IInv
  <2>1. CASE Call
    <3>1. CASE \E t \in SyncThreads, n \in 1 .. MaxChunks : LoadSync(t, n)
      BY <2>0, <3>1, KindBegin DEF LoadSync, Threads, Loads
    <3>2. CASE \E t \in AsyncThreads, r \in Requests, n \in 1 .. MaxChunks : LoadAsync(t, r, n)
      BY <2>0, <3>2, KindBegin DEF LoadAsync, Threads, Loads
    <3>3. CASE LoadDirect
      <4>1. Begin(Audio, Audio, 1) /\ UNCHANGED <<queue, loader>> /\ Audio \in Threads /\ Audio \in Loads
        BY <3>3 DEF LoadDirect, Threads, Loads
      <4> QED
        BY <2>0, <4>1, KindBegin
    <3> QED
      BY <2>1, <3>1, <3>2, <3>3 DEF Call
  <2>2. CASE \E t \in Threads : Alloc(t)
    <3>1. PICK t \in Threads : Alloc(t)
      BY <2>2
    <3>2. /\ pc' = [pc EXCEPT ![t] = "put"] /\ pc \in [Threads -> Places] /\ pc[t] = "alloc"
          /\ UNCHANGED <<queue, loader, call>>
      BY <3>1, AllocFacts
    <3> QED
      BY <3>2 DEF KindInv, Proper, ProperCall
  <2>3. CASE \E t \in Threads : Put(t)
    BY <2>0, <2>3, KindPut
  <2>4. CASE \E t \in Threads : Return(t)
    <3>1. PICK t \in Threads : Return(t)
      BY <2>4
    <3>2. /\ UNCHANGED <<queue, loader>> /\ t \in SyncThreads /\ call[t].left \in Nat
          /\ \/ /\ call[t].left > 1 /\ pc' = [pc EXCEPT ![t] = "alloc"]
                /\ call' = [call EXCEPT ![t] = [load |-> t, left |-> call[t].left - 1]]
             \/ /\ call[t].left = 1 /\ pc' = [pc EXCEPT ![t] = "out"]
                /\ call' = [call EXCEPT ![t] = NoCall]
          /\ pc \in [Threads -> Places] /\ call \in [Threads -> [load : Loads, left : Nat]]
      BY <2>0, <3>1, ReturnFacts DEF PoolTypes
    <3>3. \A u \in Threads \ {t} : pc'[u] # "out" => ProperCall(u)'
      BY <3>2 DEF KindInv, ProperCall
    <3>4. pc'[t] # "out" => ProperCall(t)'
      BY <3>2 DEF ProperCall
    <3> QED
      BY <3>2, <3>3, <3>4 DEF KindInv, Proper
  <2>5. CASE Main
    BY <2>0, <2>5, KindMain
  <2>6. CASE CacheTakes \/ ClearAudioDMA \/ AudioTakes \/ UNCHANGED vars
    <3>1. UNCHANGED <<queue, loader, pc, call>>
      BY <2>6 DEF CacheTakes, ClearAudioDMA, AudioTakes, vars
    <3> QED
      BY <3>1 DEF KindInv, Proper, ProperCall
  <2> QED
    BY <2>1, <2>2, <2>3, <2>4, <2>5, <2>6 DEF Next
<1> QED
  BY <1>1, <1>2, InvariantHolds, PTL DEF Spec

----------------------------------------------------------------------------
(* The replies the audio manager is owed                                    *)

\* The replies to the audio manager that are to come.
ToCome ==
  (IF pc[Audio] = "out" THEN 0 ELSE 1)
  + Cardinality(Spots(queue, {SoundEntry}))
  + (IF loader.at \in {"dma", "reply"} /\ loader.entry = SoundEntry THEN 1 ELSE 0)

AudioInv ==
  /\ sound \in [next : Nat, came : Nat, got : Nat, waits : BOOLEAN]
  /\ sound.next = sound.got + sound.came + ToCome

LEMMA AudioOwes == IInv /\ AudioInv => AudioOwed
<1> SUFFICES ASSUME PoolTypes, AudioInv PROVE AudioOwed
  BY DEF IInv
<1>1. Cardinality(Spots(queue, {SoundEntry})) \in Nat
  BY SpotsFinite DEF PoolTypes
<1>2. Cardinality(ToAnswer("audio", Audio)) =
        Cardinality(Spots(queue, {SoundEntry}))
        + (IF loader.at \in {"dma", "reply"} /\ loader.entry = SoundEntry THEN 1 ELSE 0)
  BY ToAnswerCounted DEF SoundEntry
<1>3. sound.next \in Nat /\ sound.came \in Nat /\ sound.got \in Nat
  BY DEF AudioInv
<1> QED
  BY <1>1, <1>2, <1>3 DEF AudioOwed, AudioInv, ToCome

LEMMA AudioPut == ASSUME IInv, KindInv, AudioInv, NEW t \in Threads, Put(t) PROVE AudioInv'
<1> DEFINE n == Cardinality(Spots(queue, {SoundEntry}))
<1>1. /\ PoolTypes /\ queue \in Seq(CLoaderEntry) /\ pc \in [Threads -> Places]
      /\ loader' = loader /\ sound' = sound /\ Audio \in Threads
  BY PutFacts DEF IInv, PoolTypes, Threads
<1>2. n \in Nat
  BY <1>1, SpotsFinite
<1>3. CASE t = Audio /\ PutsSound
  <2>1. SoundEntry \in CLoaderEntry
    BY DEF SoundEntry, CLoaderEntry, Loads, Threads
  <2>2. n' = n + 1
    BY <1>1, <1>3, <2>1, SpotsPush DEF PutsSound
  <2>3. pc[Audio] = "put" /\ pc'[Audio] = "out"
    BY <1>1, <1>3 DEF PutsSound
  <2> QED
    BY <1>1, <1>2, <2>2, <2>3 DEF AudioInv, ToCome
<1>4. CASE PutsStack(t)
  <2> DEFINE e == [load |-> t, reply |-> "stack"]
  <2>1. e \in CLoaderEntry /\ queue' = <<e>> \o queue /\ t # Audio /\ pc' = [pc EXCEPT ![t] = "wait"]
    BY <1>4, NamesSound DEF PutsStack, CLoaderEntry, Loads
  <2>2. e # SoundEntry
    BY <2>1 DEF SoundEntry
  <2> HIDE DEF e
  <2>3. n' = n + 0
    BY <1>1, <2>1, <2>2, SpotsPush
  <2>4. pc'[Audio] = pc[Audio]
    BY <1>1, <2>1
  <2> QED
    BY <1>1, <1>2, <2>3, <2>4 DEF AudioInv, ToCome
<1>5. CASE PutsRequest(t)
  <2> DEFINE e(r) == [load |-> call[t].load, reply |-> r]
  <2>1. /\ \A r \in {"none", "cache"} : e(r) \in CLoaderEntry /\ e(r) # SoundEntry
        /\ t # Audio /\ pc'[Audio] = pc[Audio]
    BY <1>1, <1>5, NamesSound DEF PutsRequest, CLoaderEntry, Loads, SoundEntry
  <2>2. PICK r \in {"none", "cache"} : queue' = Append(queue, e(r))
    BY <1>5 DEF PutsRequest
  <2> HIDE DEF e
  <2>3. n' = n + 0
    BY <1>1, <2>1, <2>2, SpotsAppend
  <2> QED
    BY <1>1, <1>2, <2>1, <2>3 DEF AudioInv, ToCome
<1> QED
  BY <1>1, <1>3, <1>4, <1>5, PutFacts

LEMMA AudioMain == ASSUME IInv, KindInv, AudioInv, Main PROVE AudioInv'
<1> DEFINE n == Cardinality(Spots(queue, {SoundEntry}))
           h == IF loader.at \in {"dma", "reply"} /\ loader.entry = SoundEntry THEN 1 ELSE 0
<1>1. /\ PoolTypes /\ queue \in Seq(CLoaderEntry) /\ pc' = pc
      /\ sound \in [next : Nat, came : Nat, got : Nat, waits : BOOLEAN]
      /\ sound.next = sound.got + sound.came + ToCome
  BY DEF IInv, PoolTypes, AudioInv, Main, Take, Loaded, Reply, Dealloc
<1>2. n \in Nat
  BY <1>1, SpotsFinite
<1>3. CASE Take
  <2>1. /\ queue # <<>> /\ queue' = Tail(queue) /\ loader.at = "idle" /\ sound' = sound
        /\ loader'.at = "dma" /\ loader'.entry = Head(queue)
    BY <1>3 DEF Take
  <2>2. n = n' + (IF Head(queue) \in {SoundEntry} THEN 1 ELSE 0) /\ n' \in Nat
    <3>1. queue' \in Seq(CLoaderEntry)
      BY <1>1, <2>1
    <3> QED
      BY <1>1, <2>1, <3>1, SpotsTail, SpotsFinite
  <2>3. h = 0 /\ h' = IF Head(queue) \in {SoundEntry} THEN 1 ELSE 0
    BY <2>1
  <2> HIDE DEF n, h
  <2>4. ToCome' = ToCome
    BY <1>1, <1>2, <2>2, <2>3 DEF ToCome, n, h
  <2> QED
    BY <1>1, <2>1, <2>4 DEF AudioInv
<1>4. CASE Loaded
  <2>1. /\ queue' = queue /\ loader'.entry = loader.entry /\ sound' = sound /\ loader.at = "dma"
        /\ loader'.at = IF loader.entry.reply = "none" THEN "free" ELSE "reply"
    BY <1>1, <1>4 DEF Loaded, PoolTypes
  <2>2. h' = h
    BY <2>1 DEF SoundEntry
  <2> QED
    BY <1>1, <2>1, <2>2 DEF AudioInv, ToCome
<1>5. CASE Reply
  <2>1. /\ queue' = queue /\ loader.at = "reply" /\ loader'.at = "free" /\ Proper(loader.entry)
    BY <1>1, <1>5 DEF Reply, KindInv, PoolTypes
  <2>2. CASE loader.entry = SoundEntry
    <3>1. sound' = [sound EXCEPT !.came = @ + 1]
      BY <1>5, <2>2 DEF Reply, SoundEntry
    <3>2. h = 1 /\ h' = 0
      BY <2>1, <2>2
    <3>3. pc[Audio] = pc'[Audio] /\ n' = n
      BY <1>1, <2>1
    <3> HIDE DEF n, h
    <3>4. ToCome = ToCome' + 1 /\ ToCome' \in Nat
      BY <1>2, <3>2, <3>3 DEF ToCome, n, h
    <3> HIDE DEF ToCome
    <3>5. sound' = [next |-> sound.next, came |-> sound.came + 1, got |-> sound.got, waits |-> sound.waits]
      BY <1>1, <3>1
    <3> QED
      BY <1>1, <3>4, <3>5 DEF AudioInv
  <2>3. CASE loader.entry # SoundEntry
    <3>1. loader.entry.reply # "audio"
      BY <2>1, <2>3 DEF Proper
    <3>2. sound' = sound
      BY <1>5, <3>1 DEF Reply
    <3>3. h = 0 /\ h' = 0
      BY <2>1, <2>3
    <3> QED
      BY <1>1, <2>1, <3>2, <3>3 DEF AudioInv, ToCome
  <2> QED
    BY <2>2, <2>3
<1>6. CASE Dealloc
  <2>1. queue' = queue /\ sound' = sound /\ loader.at = "free" /\ loader'.at = "idle"
    BY <1>6 DEF Dealloc
  <2> QED
    BY <1>1, <2>1 DEF AudioInv, ToCome
<1> QED
  BY <1>3, <1>4, <1>5, <1>6 DEF Main

\* The replies the audio manager is still to take (__clearAudioDMA) are those in its queue
\* and those to come: it waits for none that does not come, and leaves none behind.
THEOREM AudioIsOwed == Spec => []AudioOwed
<1>1. Init => AudioInv
  <2> SUFFICES ASSUME Init PROVE AudioInv
    OBVIOUS
  <2>1. Spots(queue, {SoundEntry}) = {} /\ Cardinality(Spots(queue, {SoundEntry})) = 0
    BY FS_EmptySet DEF Init, Spots
  <2>2. ToCome = 0
    BY <2>1 DEF Init, ToCome, Threads
  <2> QED
    BY <2>2 DEF Init, AudioInv
<1>2. IInv /\ KindInv /\ AudioInv /\ [Next]_vars => AudioInv'
  <2> SUFFICES ASSUME IInv, KindInv, AudioInv, [Next]_vars PROVE AudioInv'
    OBVIOUS
  <2>0. /\ pc \in [Threads -> Places] /\ Audio \in Threads /\ Cardinality(Spots(queue, {SoundEntry})) \in Nat
        /\ sound \in [next : Nat, came : Nat, got : Nat, waits : BOOLEAN]
        /\ sound.next = sound.got + sound.came + ToCome /\ ToCome \in Nat
    BY SpotsFinite DEF IInv, PoolTypes, Threads, AudioInv, ToCome
  <2>1. CASE LoadDirect
    <3>1. /\ pc[Audio] = "out" /\ pc' = [pc EXCEPT ![Audio] = "alloc"] /\ UNCHANGED <<queue, loader>>
          /\ sound' = [sound EXCEPT !.next = @ + 1]
      BY <2>1 DEF LoadDirect, Begin
    <3>2. ToCome' = ToCome + 1
      BY <2>0, <3>1 DEF ToCome
    <3>3. sound' = [next |-> sound.next + 1, came |-> sound.came, got |-> sound.got, waits |-> sound.waits]
      BY <2>0, <3>1
    <3> HIDE DEF ToCome
    <3> QED
      BY <2>0, <3>2, <3>3 DEF AudioInv
  <2>3. CASE Call /\ ~LoadDirect
    <3>1. \E t \in SyncThreads \cup AsyncThreads : /\ pc' = [pc EXCEPT ![t] = "alloc"]
                                                  /\ UNCHANGED <<queue, loader, sound>>
      BY <2>3 DEF Call, LoadSync, LoadAsync, Begin
    <3>2. pc'[Audio] = pc[Audio] /\ UNCHANGED <<queue, loader, sound>>
      BY <2>0, <3>1, NamesSound
    <3> QED
      BY <2>0, <3>2 DEF AudioInv, ToCome
  <2>4. CASE \E t \in Threads : Alloc(t)
    <3>1. PICK t \in Threads : Alloc(t)
      BY <2>4
    <3>2. pc[t] = "alloc" /\ pc' = [pc EXCEPT ![t] = "put"] /\ UNCHANGED <<queue, loader, sound>>
      BY <3>1, AllocFacts
    <3> QED
      BY <2>0, <3>2 DEF AudioInv, ToCome
  <2>5. CASE \E t \in Threads : Put(t)
    BY <2>5, AudioPut
  <2>6. CASE \E t \in Threads : Return(t)
    <3>1. PICK t \in Threads : Return(t)
      BY <2>6
    <3>2. /\ t \in SyncThreads /\ UNCHANGED <<queue, loader, sound>>
          /\ \E q : pc' = [pc EXCEPT ![t] = q]
      BY <3>1, ReturnFacts DEF IInv
    <3>3. pc'[Audio] = pc[Audio]
      BY <2>0, <3>2, NamesSound
    <3> QED
      BY <2>0, <3>2, <3>3 DEF AudioInv, ToCome
  <2>7. CASE Main
    BY <2>7, AudioMain
  <2>8. CASE AudioTakes
    <3>1. UNCHANGED <<queue, loader, pc>> /\ sound.came > 0
      BY <2>8 DEF AudioTakes
    <3>2. ToCome' = ToCome
      BY <3>1 DEF ToCome
    <3> HIDE DEF ToCome
    <3>3. CASE LastReply
      <4>1. sound.came = 1 /\ ToCome = 0
        BY <2>0, <3>1, <3>3 DEF LastReply
      <4>2. sound' = [next |-> 0, came |-> sound.came - 1, got |-> 0, waits |-> FALSE]
        BY <2>8, <3>3 DEF AudioTakes
      <4> QED
        BY <2>0, <3>2, <4>1, <4>2 DEF AudioInv
    <3>4. CASE ~LastReply
      <4>1. sound' = [next |-> sound.next, came |-> sound.came - 1, got |-> sound.got + 1, waits |-> sound.waits]
        BY <2>0, <2>8, <3>4 DEF AudioTakes
      <4> QED
        BY <2>0, <3>1, <3>2, <4>1 DEF AudioInv
    <3> QED
      BY <3>3, <3>4
  <2>9. CASE ClearAudioDMA
    <3>1. UNCHANGED <<queue, loader, pc>> /\ sound' = [sound EXCEPT !.waits = TRUE]
      BY <2>9 DEF ClearAudioDMA
    <3>2. sound' = [next |-> sound.next, came |-> sound.came, got |-> sound.got, waits |-> TRUE]
      BY <2>0, <3>1
    <3>3. ToCome' = ToCome
      BY <3>1 DEF ToCome
    <3> HIDE DEF ToCome
    <3> QED
      BY <2>0, <3>2, <3>3 DEF AudioInv
  <2>10. CASE CacheTakes \/ UNCHANGED vars
    <3>1. UNCHANGED <<queue, loader, pc, sound>>
      BY <2>10 DEF CacheTakes, vars
    <3> QED
      BY <2>0, <3>1 DEF AudioInv, ToCome
  <2> QED
    BY <2>1, <2>3, <2>4, <2>5, <2>6, <2>7, <2>8, <2>9, <2>10 DEF Next
<1> QED
  BY AudioOwes, InvariantHolds, KindsHold, <1>1, <1>2, PTL DEF Spec

----------------------------------------------------------------------------
(* What is still to load, and which entry of a load for the cache is last   *)

\* Thread t is in the load l.
Loading(t, l) == pc[t] # "out" /\ call[t].load = l

\* The chunks of load l for which there is an entry, and those for which thread t
\* has still to make one.
OfLoad(l) == {e \in CLoaderEntry : e.load = l}

Pending(l) ==
  Cardinality(Spots(queue, OfLoad(l)))
  + (IF loader.at = "dma" /\ loader.entry.load = l THEN 1 ELSE 0)

Rest(t) ==
  IF ~Loading(t, t) THEN 0 ELSE IF pc[t] = "wait" THEN call[t].left - 1 ELSE call[t].left

CountInv ==
  /\ missing \in [Loads -> Int]
  /\ \A t \in SyncThreads : missing[t] = Pending(t) + Rest(t)
  /\ \A r \in Requests, t \in AsyncThreads : Loading(t, r) => missing[r] = Pending(r) + call[t].left
  /\ \A r \in Requests : (\A t \in AsyncThreads : ~Loading(t, r)) => missing[r] = Pending(r)

\* The loader has still to read or to answer its entry.
Busy == loader.at \in {"dma", "reply"}

LastEntry(r) == [load |-> r, reply |-> "cache"]

Unqueued(l) == \A i \in 1 .. Len(queue) : queue[i].load # l

\* The last entry of a load for the cache is behind the others of it.
QueueOrdered ==
  /\ \A i, j \in 1 .. Len(queue) : i < j /\ queue[i].reply = "cache" => queue[j].load # queue[i].load
  /\ Busy /\ loader.entry.reply = "cache" => Unqueued(loader.entry.load)

\* It is not there while a thread has entries to make, and there is one such thread.
OneCaller ==
  \A t \in AsyncThreads, r \in Requests :
    Loading(t, r) => /\ r \in asked
                     /\ \A u \in AsyncThreads : Loading(u, r) => u = t
                     /\ \A i \in 1 .. Len(queue) : queue[i] # LastEntry(r)
                     /\ Busy => loader.entry # LastEntry(r)

\* The answer is behind all of them.
AnswersLast ==
  \A k \in 1 .. Len(answers) :
    /\ answers[k] \in asked
    /\ \A m \in 1 .. Len(answers) : answers[m] = answers[k] => m = k
    /\ \A t \in AsyncThreads : ~Loading(t, answers[k])
    /\ Unqueued(answers[k])
    /\ Busy => loader.entry.load # answers[k]

EntriesAsked ==
  /\ \A i \in 1 .. Len(queue) : queue[i].load \in Requests => queue[i].load \in asked
  /\ Busy /\ loader.entry.load \in Requests => loader.entry.load \in asked

LastInv == QueueOrdered /\ OneCaller /\ AnswersLast /\ EntriesAsked
----------------------------------------------------------------------------
LEMMA PendingGrows ==
  ASSUME queue \in Seq(CLoaderEntry), NEW e \in CLoaderEntry, NEW l, loader' = loader,
         queue' = <<e>> \o queue \/ queue' = Append(queue, e)
  PROVE  Pending(l)' = Pending(l) + (IF e.load = l THEN 1 ELSE 0) /\ Pending(l) \in Nat
<1>1. Cardinality(Spots(queue, OfLoad(l))) \in Nat
  BY SpotsFinite
<1>2. Cardinality(Spots(queue', OfLoad(l))) =
        Cardinality(Spots(queue, OfLoad(l))) + (IF e \in OfLoad(l) THEN 1 ELSE 0)
  <2>1. CASE queue' = <<e>> \o queue
    BY <2>1, SpotsPush
  <2>2. CASE queue' = Append(queue, e)
    BY <2>2, SpotsAppend
  <2> QED
    BY <2>1, <2>2
<1>3. e \in OfLoad(l) <=> e.load = l
  BY DEF OfLoad
<1> QED
  BY <1>1, <1>2, <1>3 DEF Pending

LEMMA PendingMain ==
  ASSUME PoolTypes, NEW l, Main
  PROVE  /\ Pending(l)' = IF Loaded /\ loader.entry.load = l THEN Pending(l) - 1 ELSE Pending(l)
         /\ Pending(l) \in Nat
<1>1. queue \in Seq(CLoaderEntry) /\ Cardinality(Spots(queue, OfLoad(l))) \in Nat
  BY SpotsFinite DEF PoolTypes
<1>2. CASE Take
  <2>1. /\ queue # <<>> /\ queue' = Tail(queue) /\ loader.at = "idle" /\ loader'.at = "dma"
        /\ loader'.entry = Head(queue) /\ Head(queue) \in CLoaderEntry /\ queue' \in Seq(CLoaderEntry)
    BY <1>1, <1>2 DEF Take
  <2>2. /\ Cardinality(Spots(queue, OfLoad(l))) =
             Cardinality(Spots(Tail(queue), OfLoad(l))) + (IF Head(queue) \in OfLoad(l) THEN 1 ELSE 0)
        /\ Cardinality(Spots(queue', OfLoad(l))) \in Nat
    BY <1>1, <2>1, SpotsTail, SpotsFinite
  <2>3. Head(queue) \in OfLoad(l) <=> Head(queue).load = l
    BY <2>1 DEF OfLoad
  <2>4. ~Loaded
    BY <2>1 DEF Loaded
  <2> QED
    BY <1>1, <2>1, <2>2, <2>3, <2>4 DEF Pending
<1>3. CASE Loaded
  <2>1. queue' = queue /\ loader.at = "dma" /\ loader'.at # "dma"
    BY <1>3 DEF Loaded, PoolTypes
  <2> QED
    BY <1>1, <1>3, <2>1 DEF Pending
<1>4. CASE Reply \/ Dealloc
  <2>1. queue' = queue /\ loader.at # "dma" /\ loader'.at # "dma"
    BY <1>4 DEF Reply, Dealloc, PoolTypes
  <2>2. ~Loaded
    BY <2>1 DEF Loaded
  <2> QED
    BY <1>1, <2>1, <2>2 DEF Pending
<1> QED
  BY <1>2, <1>3, <1>4 DEF Main

\* A step that loads nothing and makes no entry.
LEMMA CountKept ==
  ASSUME CountInv, UNCHANGED missing,
         \A l \in Loads : Pending(l)' = Pending(l),
         \A t \in SyncThreads : Rest(t)' = Rest(t),
         \A t \in AsyncThreads, r \in Requests :
            (Loading(t, r)' <=> Loading(t, r)) /\ (Loading(t, r) => call'[t].left = call[t].left)
  PROVE  CountInv'
<1>1. SyncThreads \subseteq Loads /\ Requests \subseteq Loads
  BY DEF Loads, Threads
<1> HIDE DEF Pending, Rest, Loading
<1> QED
  BY <1>1 DEF CountInv

LEMMA SameEntries ==
  ASSUME UNCHANGED <<queue, loader>>
  PROVE  \A l : Pending(l)' = Pending(l)
BY DEF Pending

\* A thread that begins has the chunks of its load still to make entries for.
LEMMA CountBegin ==
  ASSUME PoolTypes, CountInv, LastInv, NEW t \in Threads, NEW l \in Loads, NEW n \in Nat, n >= 1,
         \/ t = Audio /\ l = Audio
         \/ t \in SyncThreads /\ l = t
         \/ t \in AsyncThreads /\ l \in Requests \ asked,
         Begin(t, l, n), UNCHANGED <<queue, loader>>
  PROVE  CountInv'
<1>1. /\ pc \in [Threads -> Places] /\ call \in [Threads -> [load : Loads, left : Nat]]
      /\ pc[t] = "out" /\ missing \in [Loads -> Int]
      /\ pc' = [pc EXCEPT ![t] = "alloc"] /\ call' = [call EXCEPT ![t] = [load |-> l, left |-> n]]
      /\ missing' = [missing EXCEPT ![l] = @ + n]
  BY DEF PoolTypes, Begin, CountInv
<1>2. \A k : Pending(k)' = Pending(k)
  BY SameEntries
<1>3. missing' \in [Loads -> Int] /\ \A k \in Loads : missing'[k] = IF k = l THEN missing[k] + n ELSE missing[k]
  BY <1>1
<1>4. \A u \in Threads, k \in Loads :
        /\ u # t => (Loading(u, k)' <=> Loading(u, k)) /\ call'[u] = call[u]
        /\ ~Loading(t, k) /\ (Loading(t, k)' <=> k = l) /\ call'[t].left = n
  BY <1>1 DEF Loading
<1>5. SyncThreads \subseteq Loads /\ Requests \subseteq Loads /\ SyncThreads \subseteq Threads /\ AsyncThreads \subseteq Threads
  BY DEF Loads, Threads
<1>6. \A u \in SyncThreads : Rest(u)' = Rest(u) + (IF u = l THEN n ELSE 0) /\ Rest(u) \in Int
  <2> SUFFICES ASSUME NEW u \in SyncThreads PROVE Rest(u)' = Rest(u) + (IF u = l THEN n ELSE 0) /\ Rest(u) \in Int
    OBVIOUS
  <2>1. u \in Threads /\ u \in Loads /\ call[u].left \in Nat
    BY <1>1, <1>5
  <2>2. CASE u = t
    <3>1. Rest(u) = 0
      BY <1>4, <2>1, <2>2 DEF Rest
    <3>2. pc'[u] = "alloc" /\ (Loading(u, u)' <=> u = l) /\ call'[u].left = n
      BY <1>1, <1>4, <2>1, <2>2
    <3> QED
      BY <3>1, <3>2 DEF Rest
  <2>3. CASE u # t
    <3>1. u # l
      BY <1>5, <2>1, <2>3, NamesSound
    <3>2. Rest(u)' = Rest(u)
      BY <1>1, <1>4, <2>1, <2>3 DEF Rest
    <3> QED
      BY <2>1, <3>1, <3>2 DEF Rest
  <2> QED
    BY <2>2, <2>3
<1>7. \A u \in SyncThreads : missing'[u] = Pending(u)' + Rest(u)'
  <2> SUFFICES ASSUME NEW u \in SyncThreads PROVE missing'[u] = Pending(u)' + Rest(u)'
    OBVIOUS
  <2>1. missing[u] = Pending(u) + Rest(u) /\ u \in Loads
    BY <1>5 DEF CountInv
  <2>2. Pending(u) \in Int
    <3>1. Cardinality(Spots(queue, OfLoad(u))) \in Nat
      BY SpotsFinite DEF PoolTypes
    <3> QED
      BY <3>1 DEF Pending
  <2> HIDE DEF Pending, Rest
  <2> QED
    BY <1>1, <1>2, <1>3, <1>6, <2>1, <2>2
<1>8. \A r \in Requests : l = r => t \in AsyncThreads /\ \A u \in AsyncThreads : ~Loading(u, r)
  BY <1>5, NamesSound DEF LastInv, OneCaller
<1>9. \A r \in Requests : Pending(r) \in Int /\ missing[r] \in Int
  <2>1. \A r : Cardinality(Spots(queue, OfLoad(r))) \in Nat
    BY SpotsFinite DEF PoolTypes
  <2> QED
    BY <1>1, <1>5, <2>1 DEF Pending
<1> HIDE DEF Pending, Rest, Loading
<1>10. \A r \in Requests, u \in AsyncThreads : Loading(u, r)' => missing'[r] = Pending(r)' + call'[u].left
  <2> SUFFICES ASSUME NEW r \in Requests, NEW u \in AsyncThreads, Loading(u, r)'
               PROVE  missing'[r] = Pending(r)' + call'[u].left
    OBVIOUS
  <2>1. CASE r = l
    <3>1. u = t /\ call'[u].left = n
      BY <1>4, <1>5, <1>8, <2>1
    <3>2. missing[r] = Pending(r)
      BY <1>8, <2>1 DEF CountInv
    <3>3. missing'[r] = missing[r] + n /\ Pending(r)' = Pending(r)
      BY <1>2, <1>3, <1>5, <2>1
    <3> QED
      BY <1>9, <3>1, <3>2, <3>3
  <2>2. CASE r # l
    <3>1. u # t /\ Loading(u, r) /\ call'[u] = call[u]
      BY <1>4, <1>5, <2>2
    <3> QED
      BY <1>2, <1>3, <1>5, <2>2, <3>1 DEF CountInv
  <2> QED
    BY <2>1, <2>2
<1>11. \A r \in Requests : (\A u \in AsyncThreads : ~Loading(u, r)') => missing'[r] = Pending(r)'
  <2> SUFFICES ASSUME NEW r \in Requests, \A u \in AsyncThreads : ~Loading(u, r)'
               PROVE  missing'[r] = Pending(r)'
    OBVIOUS
  <2>1. r # l
    BY <1>4, <1>5, <1>8
  <2>2. \A u \in AsyncThreads : ~Loading(u, r)
    BY <1>4, <1>5
  <2> QED
    BY <1>2, <1>3, <1>5, <2>1, <2>2 DEF CountInv
<1> QED
  BY <1>3, <1>7, <1>10, <1>11 DEF CountInv

\* A chunk for which a thread had to make an entry is on the queue.
LEMMA CountPut == ASSUME PoolTypes, KindInv, CountInv, LastInv, NEW t \in Threads, Put(t) PROVE CountInv'
<1>1. /\ pc \in [Threads -> Places] /\ call \in [Threads -> [load : Loads, left : Nat]]
      /\ queue \in Seq(CLoaderEntry) /\ call[t].left \in Nat
      /\ loader' = loader /\ missing' = missing
  BY PutFacts DEF PoolTypes
<1>2. /\ SyncThreads \subseteq Loads /\ Requests \subseteq Loads /\ Audio \in Loads
      /\ SyncThreads \subseteq Threads /\ AsyncThreads \subseteq Threads
      /\ Audio \notin SyncThreads /\ Audio \notin AsyncThreads /\ Audio \notin Requests
      /\ \A u \in SyncThreads : u \notin Requests
  BY NamesSound DEF Loads, Threads
<1>3. CASE t = Audio /\ PutsSound
  <2>1. SoundEntry \in CLoaderEntry /\ SoundEntry.load = Audio
    BY <1>2 DEF SoundEntry, CLoaderEntry
  <2>2. \A l \in Loads \ {Audio} : Pending(l)' = Pending(l)
    <3> SUFFICES ASSUME NEW l \in Loads \ {Audio} PROVE Pending(l)' = Pending(l)
      OBVIOUS
    <3>1. Pending(l)' = Pending(l) + (IF SoundEntry.load = l THEN 1 ELSE 0) /\ Pending(l) \in Nat
      BY <1>1, <1>3, <2>1, PendingGrows DEF PutsSound
    <3> HIDE DEF Pending, SoundEntry
    <3> QED
      BY <2>1, <3>1
  <2>3. \A u \in Threads \ {Audio} : pc'[u] = pc[u] /\ call'[u] = call[u]
    BY <1>1, <1>3 DEF PutsSound
  <2>4. \A u \in SyncThreads : Rest(u)' = Rest(u)
    BY <1>2, <2>3 DEF Rest, Loading
  <2>5. \A u \in AsyncThreads, r \in Requests :
          (Loading(u, r)' <=> Loading(u, r)) /\ call'[u].left = call[u].left
    BY <1>2, <2>3 DEF Loading
  <2> HIDE DEF Pending, Rest, Loading
  <2> QED
    BY <1>1, <1>2, <2>2, <2>4, <2>5 DEF CountInv
<1>4. CASE PutsStack(t)
  <2> DEFINE e == [load |-> t, reply |-> "stack"]
  <2>1. /\ e \in CLoaderEntry /\ e.load = t /\ queue' = <<e>> \o queue /\ t \in SyncThreads
        /\ call[t].load = t /\ pc[t] = "put" /\ pc' = [pc EXCEPT ![t] = "wait"] /\ call' = call
    BY <1>2, <1>4 DEF PutsStack, CLoaderEntry
  <2> HIDE DEF e
  <2>2. \A l \in Loads : Pending(l)' = Pending(l) + (IF t = l THEN 1 ELSE 0) /\ Pending(l) \in Nat
    BY <1>1, <2>1, PendingGrows
  <2>3. \A u \in Threads, l \in Loads : Loading(u, l)' <=> Loading(u, l)
    BY <1>1, <2>1 DEF Loading
  <2>4. \A u \in SyncThreads : Rest(u) = Rest(u)' + (IF t = u THEN 1 ELSE 0) /\ Rest(u)' \in Int
    <3> SUFFICES ASSUME NEW u \in SyncThreads
                 PROVE  Rest(u) = Rest(u)' + (IF t = u THEN 1 ELSE 0) /\ Rest(u)' \in Int
      OBVIOUS
    <3>1. u \in Threads /\ u \in Loads /\ call[u].left \in Nat
      BY <1>1, <1>2
    <3>2. Loading(t, t)
      BY <2>1 DEF Loading
    <3>3. pc'[u] = IF u = t THEN "wait" ELSE pc[u]
      BY <1>1, <2>1, <3>1
    <3> HIDE DEF Loading
    <3> QED
      BY <2>1, <2>3, <3>1, <3>2, <3>3 DEF Rest
  <2> HIDE DEF Pending, Rest, Loading
  <2>5. \A u \in SyncThreads : missing'[u] = Pending(u)' + Rest(u)'
    <3> SUFFICES ASSUME NEW u \in SyncThreads PROVE missing'[u] = Pending(u)' + Rest(u)'
      OBVIOUS
    <3>1. missing'[u] = Pending(u) + Rest(u) /\ u \in Loads
      BY <1>1, <1>2 DEF CountInv
    <3> QED
      BY <2>2, <2>4, <3>1
  <2>6. \A r \in Requests : Pending(r)' = Pending(r)
    BY <1>2, <2>1, <2>2
  <2> QED
    BY <1>1, <1>2, <2>1, <2>3, <2>5, <2>6 DEF CountInv
<1>5. CASE PutsRequest(t)
  <2> PICK r \in Requests : call[t].load = r
    BY <1>5 DEF PutsRequest
  <2> DEFINE e(y) == [load |-> r, reply |-> y]
  <2>1. /\ \A y \in {"none", "cache"} : e(y) \in CLoaderEntry /\ e(y).load = r
        /\ t \in AsyncThreads /\ t # Audio /\ pc[t] = "put" /\ call[t].load = r
    BY <1>2, <1>5 DEF PutsRequest, CLoaderEntry
  <2>2. PICK y \in {"none", "cache"} : queue' = Append(queue, e(y))
    BY <1>5, <2>1 DEF PutsRequest
  <2>3. \A u \in Threads \ {t} : pc'[u] = pc[u] /\ call'[u] = call[u]
    BY <1>1, <1>5 DEF PutsRequest
  <2>4. Loading(t, r) /\ \A l \in Loads \ {r} : ~Loading(t, l) /\ ~Loading(t, l)'
    <3>1. Loading(t, r) /\ \A l \in Loads \ {r} : ~Loading(t, l)
      BY <2>1 DEF Loading
    <3>2. pc'[t] = "out" \/ call'[t].load = r
      BY <1>1, <1>5, <2>1 DEF PutsRequest
    <3> QED
      BY <3>1, <3>2 DEF Loading
  <2>5. \/ Loading(t, r)' /\ call'[t].left = call[t].left - 1
        \/ ~Loading(t, r)' /\ call[t].left = 1
    BY <1>1, <1>5, <2>1 DEF PutsRequest, Loading
  <2> HIDE DEF e
  <2>6. \A l \in Loads : Pending(l)' = Pending(l) + (IF r = l THEN 1 ELSE 0) /\ Pending(l) \in Nat
    BY <1>1, <2>1, <2>2, PendingGrows
  <2>7. \A u \in Threads \ {t}, l \in Loads : Loading(u, l)' <=> Loading(u, l)
    BY <2>3 DEF Loading
  <2>8. \A u \in SyncThreads : Rest(u)' = Rest(u)
    <3> SUFFICES ASSUME NEW u \in SyncThreads PROVE Rest(u)' = Rest(u)
      OBVIOUS
    <3>1. CASE u = t
      <4>1. u # r /\ u \in Loads
        BY <1>2, <2>1
      <4>2. ~Loading(u, u) /\ ~Loading(u, u)'
        BY <2>4, <3>1, <4>1
      <4> QED
        BY <4>2 DEF Rest
    <3>2. CASE u # t
      BY <1>2, <2>3, <3>2 DEF Rest, Loading
    <3> QED
      BY <3>1, <3>2
  <2> HIDE DEF Pending, Rest, Loading
  <2>9. \A u \in SyncThreads : missing'[u] = Pending(u)' + Rest(u)'
    <3> SUFFICES ASSUME NEW u \in SyncThreads PROVE missing'[u] = Pending(u)' + Rest(u)'
      OBVIOUS
    <3>1. missing'[u] = Pending(u) + Rest(u) /\ u \in Loads /\ u # r
      BY <1>1, <1>2, <2>1 DEF CountInv
    <3> QED
      BY <2>6, <2>8, <3>1
  <2>10. missing[r] = Pending(r) + call[t].left /\ missing[r] \in Int /\ r \in Loads
    BY <1>2, <2>1, <2>4 DEF CountInv
  <2>11. \A q \in Requests, u \in AsyncThreads : Loading(u, q)' => missing'[q] = Pending(q)' + call'[u].left
    <3> SUFFICES ASSUME NEW q \in Requests, NEW u \in AsyncThreads, Loading(u, q)'
                 PROVE  missing'[q] = Pending(q)' + call'[u].left
      OBVIOUS
    <3>1. q \in Loads /\ u \in Threads
      BY <1>2
    <3>2. CASE u = t
      <4>1. q = r /\ call'[t].left = call[t].left - 1
        BY <2>4, <2>5, <3>1, <3>2
      <4>2. Pending(r)' = Pending(r) + 1 /\ Pending(r) \in Nat
        BY <2>6, <2>10
      <4> QED
        BY <1>1, <2>10, <3>2, <4>1, <4>2
    <3>3. CASE u # t
      <4>1. Loading(u, q) /\ call'[u] = call[u]
        BY <2>3, <2>7, <3>1, <3>3
      <4>2. q # r
        BY <2>1, <2>4, <3>3, <4>1 DEF LastInv, OneCaller
      <4> QED
        BY <1>1, <2>6, <3>1, <4>1, <4>2 DEF CountInv
    <3> QED
      BY <3>2, <3>3
  <2>12. \A q \in Requests : (\A u \in AsyncThreads : ~Loading(u, q)') => missing'[q] = Pending(q)'
    <3> SUFFICES ASSUME NEW q \in Requests, \A u \in AsyncThreads : ~Loading(u, q)'
                 PROVE  missing'[q] = Pending(q)'
      OBVIOUS
    <3>1. q \in Loads
      BY <1>2
    <3>2. CASE q = r
      <4>1. call[t].left = 1
        BY <2>1, <2>5, <3>2
      <4> QED
        BY <1>1, <2>6, <2>10, <3>1, <3>2, <4>1
    <3>3. CASE q # r
      <4>1. \A u \in AsyncThreads : ~Loading(u, q)
        BY <1>2, <2>4, <2>7, <3>1, <3>3
      <4> QED
        BY <1>1, <2>6, <3>1, <3>3, <4>1 DEF CountInv
    <3> QED
      BY <3>2, <3>3
  <2> QED
    BY <1>1, <2>9, <2>11, <2>12 DEF CountInv
<1> QED
  BY <1>3, <1>4, <1>5, PutFacts

LEMMA CountReturn == ASSUME PoolTypes, KindInv, CountInv, NEW t \in Threads, Return(t) PROVE CountInv'
<1>1. /\ pc \in [Threads -> Places] /\ call \in [Threads -> [load : Loads, left : Nat]]
      /\ UNCHANGED <<queue, loader, missing>>
      /\ pc[t] = "wait" /\ t \in SyncThreads /\ call[t].load = t /\ call[t].left \in Nat
      /\ \/ /\ call[t].left > 1 /\ pc' = [pc EXCEPT ![t] = "alloc"]
            /\ call' = [call EXCEPT ![t] = [load |-> t, left |-> call[t].left - 1]]
         \/ /\ call[t].left = 1 /\ pc' = [pc EXCEPT ![t] = "out"]
            /\ call' = [call EXCEPT ![t] = NoCall]
  BY ReturnFacts DEF PoolTypes
<1>2. /\ SyncThreads \subseteq Threads /\ AsyncThreads \subseteq Threads /\ t \notin Requests
  BY <1>1, NamesSound DEF Threads
<1>3. \A u \in Threads \ {t} : pc'[u] = pc[u] /\ call'[u] = call[u]
  BY <1>1
<1>4. Rest(t)' = Rest(t)
  BY <1>1 DEF Rest, Loading
<1>5. \A u \in SyncThreads : Rest(u)' = Rest(u)
  BY <1>2, <1>3, <1>4 DEF Rest, Loading
<1>6. \A u \in AsyncThreads, r \in Requests :
        (Loading(u, r)' <=> Loading(u, r)) /\ (Loading(u, r) => call'[u].left = call[u].left)
  <2> SUFFICES ASSUME NEW u \in AsyncThreads, NEW r \in Requests
               PROVE (Loading(u, r)' <=> Loading(u, r)) /\ (Loading(u, r) => call'[u].left = call[u].left)
    OBVIOUS
  <2>1. CASE u = t
    <3>1. r # t /\ (pc'[t] # "out" => call'[t].load = t)
      BY <1>1, <1>2
    <3> QED
      BY <1>1, <2>1, <3>1 DEF Loading
  <2>2. CASE u # t
    BY <1>2, <1>3, <2>2 DEF Loading
  <2> QED
    BY <2>1, <2>2
<1>7. \A l \in Loads : Pending(l)' = Pending(l)
  BY <1>1, SameEntries
<1> QED
  BY <1>1, <1>5, <1>6, <1>7, CountKept

\* A chunk that is loaded is pending no more.
LEMMA CountMain == ASSUME PoolTypes, KindInv, CountInv, Main PROVE CountInv'
<1>1. pc' = pc /\ call' = call /\ SyncThreads \subseteq Loads /\ Requests \subseteq Loads
  BY DEF Main, Take, Loaded, Reply, Dealloc, Loads, Threads
<1>2. \A l \in Loads : /\ Pending(l)' = IF Loaded /\ loader.entry.load = l THEN Pending(l) - 1 ELSE Pending(l)
                       /\ Pending(l) \in Nat
  BY PendingMain
<1>3. \A u, l : (Loading(u, l)' <=> Loading(u, l))
  BY <1>1 DEF Loading
<1>4. \A u : Rest(u)' = Rest(u)
  BY <1>1 DEF Rest, Loading
<1>5. CASE Loaded
  <2> DEFINE m == loader.entry.load
  <2>1. /\ m \in Loads /\ missing' = [missing EXCEPT ![m] = @ - 1] /\ missing \in [Loads -> Int]
    BY <1>5 DEF Loaded, PoolTypes, CLoaderEntry, CountInv
  <2>2. /\ missing' \in [Loads -> Int]
        /\ \A l \in Loads : missing'[l] = (IF m = l THEN missing[l] - 1 ELSE missing[l]) /\ missing[l] \in Int
    BY <2>1
  <2>3. \A l \in Loads : missing'[l] - missing[l] = Pending(l)' - Pending(l) /\ Pending(l)' \in Int /\ missing[l] \in Int
    <3> HIDE DEF Pending, m
    <3> QED
      BY <1>2, <1>5, <2>2 DEF m
  <2>4. \A u \in SyncThreads : Rest(u) = missing[u] - Pending(u) /\ Rest(u) \in Int
    <3> SUFFICES ASSUME NEW u \in SyncThreads PROVE Rest(u) = missing[u] - Pending(u) /\ Rest(u) \in Int
      OBVIOUS
    <3>1. u \in Threads /\ call[u].left \in Nat /\ u \in Loads
      BY DEF Threads, Loads, PoolTypes
    <3>2. Rest(u) \in Int
      BY <3>1 DEF Rest
    <3>3. missing[u] = Pending(u) + Rest(u) /\ Pending(u) \in Nat
      BY <1>2, <3>1 DEF CountInv
    <3> HIDE DEF Pending, Rest
    <3> QED
      BY <3>2, <3>3
  <2>5. \A u \in AsyncThreads : call[u].left \in Nat
    BY DEF PoolTypes, Threads
  <2> HIDE DEF Pending, Rest, Loading, m
  <2>6. \A u \in SyncThreads : missing'[u] = Pending(u)' + Rest(u)'
    BY <1>1, <1>2, <1>4, <2>2, <2>3, <2>4
  <2>7. \A r \in Requests, u \in AsyncThreads : Loading(u, r)' => missing'[r] = Pending(r)' + call'[u].left
    BY <1>1, <1>2, <1>3, <2>2, <2>3, <2>5 DEF CountInv
  <2>8. \A r \in Requests : (\A u \in AsyncThreads : ~Loading(u, r)') => missing'[r] = Pending(r)'
    BY <1>1, <1>2, <1>3, <2>2, <2>3 DEF CountInv
  <2> QED
    BY <2>2, <2>6, <2>7, <2>8 DEF CountInv
<1>6. CASE ~Loaded
  <2>1. missing' = missing
    BY <1>6 DEF Main, Take, Reply, Dealloc
  <2> HIDE DEF Pending, Rest, Loading
  <2>2. \A l \in Loads : Pending(l)' = Pending(l)
    BY <1>2, <1>6
  <2> QED
    BY <1>1, <1>3, <1>4, <2>1, <2>2, CountKept
<1> QED
  BY <1>5, <1>6

----------------------------------------------------------------------------
\* A step that moves no entry and begins no load for the cache.
LEMMA LastKept ==
  ASSUME LastInv, UNCHANGED <<queue, answers, asked>>,
         Busy' => Busy, loader'.entry = loader.entry,
         \A t \in AsyncThreads, r \in Requests : Loading(t, r)' => Loading(t, r),
         answers \in Seq(Requests)
  PROVE  LastInv'
<1>1. QueueOrdered'
  BY DEF LastInv, QueueOrdered, Unqueued
<1>2. OneCaller'
  BY DEF LastInv, OneCaller
<1>3. AnswersLast'
  <2>1. \A k \in 1 .. Len(answers) : answers[k] \in Requests
    OBVIOUS
  <2> HIDE DEF Loading, Busy
  <2> QED
    BY <2>1 DEF LastInv, AnswersLast, Unqueued
<1>4. EntriesAsked'
  BY DEF LastInv, EntriesAsked
<1> QED
  BY <1>1, <1>2, <1>3, <1>4 DEF LastInv

\* A load for the cache begins in a request of which nothing is left.
LEMMA LastBegin ==
  ASSUME IInv, LastInv, NEW t \in AsyncThreads, NEW r \in Requests, NEW n \in Nat,
         LoadAsync(t, r, n), answers \in Seq(Requests)
  PROVE  LastInv'
<1>1. /\ pc \in [Threads -> Places] /\ call \in [Threads -> [load : Loads, left : Nat]]
      /\ pc' = [pc EXCEPT ![t] = "alloc"] /\ call' = [call EXCEPT ![t] = [load |-> r, left |-> n]]
      /\ r \notin asked /\ asked' = asked \cup {r} /\ UNCHANGED <<queue, loader, answers>>
      /\ queue \in Seq(CLoaderEntry) /\ AsyncThreads \subseteq Threads
  BY DEF IInv, PoolTypes, LoadAsync, Begin, Threads
<1>2. \A u \in AsyncThreads, q \in Requests :
        /\ q # r => (Loading(u, q)' <=> u # t /\ Loading(u, q))
        /\ Loading(u, r)' => u = t
  <2>1. \A u \in AsyncThreads, q \in Requests : u # t => (Loading(u, q)' <=> Loading(u, q))
    BY <1>1 DEF Loading
  <2>2. \A q \in Requests : Loading(t, q)' <=> q = r
    BY <1>1 DEF Loading
  <2>3. \A u \in AsyncThreads : ~Loading(u, r)
    BY <1>1 DEF LastInv, OneCaller
  <2> QED
    BY <2>1, <2>2, <2>3
<1>3. (Busy' <=> Busy) /\ (Unqueued(r) /\ (Busy => loader.entry.load # r))
  BY <1>1 DEF Busy, LastInv, EntriesAsked, Unqueued
<1>4. QueueOrdered'
  BY <1>1, <1>3 DEF LastInv, QueueOrdered, Unqueued
<1>5. OneCaller'
  <2> SUFFICES ASSUME NEW u \in AsyncThreads, NEW q \in Requests, Loading(u, q)'
               PROVE  /\ q \in asked'
                      /\ \A v \in AsyncThreads : Loading(v, q)' => v = u
                      /\ \A i \in 1 .. Len(queue') : queue'[i] # LastEntry(q)
                      /\ Busy' => loader'.entry # LastEntry(q)
    BY DEF OneCaller, LastEntry
  <2>1. CASE q = r
    <3>1. LastEntry(r).load = r
      BY DEF LastEntry
    <3> HIDE DEF LastEntry
    <3>2. /\ \A i \in 1 .. Len(queue) : queue[i] # LastEntry(r)
          /\ Busy => loader.entry # LastEntry(r)
      BY <1>3, <3>1 DEF Unqueued
    <3> QED
      BY <1>1, <1>2, <1>3, <2>1, <3>2
  <2>2. CASE q # r
    <3>1. Loading(u, q) /\ \A v \in AsyncThreads : Loading(v, q)' => Loading(v, q)
      BY <1>2, <2>2
    <3> QED
      BY <1>1, <1>3, <3>1 DEF LastInv, OneCaller
  <2> QED
    BY <2>1, <2>2
<1>6. AnswersLast'
  <2>1. \A k \in 1 .. Len(answers) : answers[k] \in Requests /\ answers[k] # r
    BY <1>1 DEF LastInv, AnswersLast
  <2>2. \A k \in 1 .. Len(answers), u \in AsyncThreads : Loading(u, answers[k])' => Loading(u, answers[k])
    <3> SUFFICES ASSUME NEW k \in 1 .. Len(answers), NEW u \in AsyncThreads
                 PROVE  Loading(u, answers[k])' => Loading(u, answers[k])
      OBVIOUS
    <3>1. PICK q \in Requests : q = answers[k] /\ q # r
      BY <2>1
    <3>2. Loading(u, q)' => Loading(u, q)
      BY <1>2, <3>1
    <3> QED
      BY <1>1, <3>1, <3>2 DEF Loading
  <2> HIDE DEF Loading, Busy
  <2> QED
    BY <1>1, <1>3, <2>2 DEF LastInv, AnswersLast, Unqueued
<1>7. EntriesAsked'
  BY <1>1, <1>3 DEF LastInv, EntriesAsked
<1> QED
  BY <1>4, <1>5, <1>6, <1>7 DEF LastInv

\* The entries put in front are for no request of the cache.
LEMMA LastJam ==
  ASSUME PoolTypes, LastInv, answers \in Seq(Requests), NEW e \in CLoaderEntry,
         e.load \notin Requests, e.reply # "cache", queue' = <<e>> \o queue,
         UNCHANGED <<loader, answers, asked>>,
         \A t \in AsyncThreads, r \in Requests : Loading(t, r)' => Loading(t, r),
         \A i \in 1 .. Len(queue) : queue[i].reply = "cache" => queue[i].load \in Requests,
         Busy /\ loader.entry.reply = "cache" => loader.entry.load \in Requests
  PROVE  LastInv'
<1>1. /\ queue \in Seq(CLoaderEntry) /\ Len(queue) \in Nat
      /\ Len(queue') = Len(queue) + 1 /\ queue'[1] = e
      /\ \A i \in 2 .. Len(queue) + 1 : queue'[i] = queue[i - 1]
  BY DEF PoolTypes
<1>2. \A i \in 1 .. Len(queue') : i = 1 \/ (i \in 2 .. Len(queue) + 1 /\ i - 1 \in 1 .. Len(queue))
  BY <1>1
<1>3. \A r \in Requests : Unqueued(r) => Unqueued(r)'
  BY <1>1, <1>2 DEF Unqueued
<1>4. Busy' <=> Busy
  BY DEF Busy
<1>5. QueueOrdered'
  <2>1. Busy /\ loader.entry.reply = "cache" => \A i \in 1 .. Len(queue') : queue'[i].load # loader.entry.load
    BY <1>1, <1>2 DEF LastInv, QueueOrdered, Unqueued
  <2>2. ASSUME NEW i \in 1 .. Len(queue'), NEW j \in 1 .. Len(queue'), i < j, queue'[i].reply = "cache"
        PROVE  queue'[j].load # queue'[i].load
    <3>1. i # 1 /\ j # 1
      BY <1>1, <2>2
    <3>2. i - 1 \in 1 .. Len(queue) /\ j - 1 \in 1 .. Len(queue) /\ i - 1 < j - 1
      BY <1>1, <2>2, <3>1
    <3>3. queue'[i] = queue[i - 1] /\ queue'[j] = queue[j - 1]
      BY <1>1, <1>2, <3>1
    <3> QED
      BY <2>2, <3>2, <3>3 DEF LastInv, QueueOrdered
  <2> QED
    BY <1>4, <2>1, <2>2 DEF QueueOrdered, Unqueued
<1>6. OneCaller'
  <2> SUFFICES ASSUME NEW u \in AsyncThreads, NEW q \in Requests, Loading(u, q)'
               PROVE  /\ q \in asked'
                      /\ \A v \in AsyncThreads : Loading(v, q)' => v = u
                      /\ \A i \in 1 .. Len(queue') : queue'[i] # LastEntry(q)
                      /\ Busy' => loader'.entry # LastEntry(q)
    BY DEF OneCaller, LastEntry
  <2>1. /\ q \in asked /\ \A v \in AsyncThreads : Loading(v, q) => v = u
        /\ \A i \in 1 .. Len(queue) : queue[i] # LastEntry(q)
        /\ Busy => loader.entry # LastEntry(q)
    BY DEF LastInv, OneCaller
  <2>2. e # LastEntry(q)
    BY DEF LastEntry
  <2> HIDE DEF LastEntry, Loading
  <2> QED
    BY <1>1, <1>2, <1>4, <2>1, <2>2
<1>7. AnswersLast'
  <2>1. \A k \in 1 .. Len(answers) : answers[k] \in Requests /\ (Unqueued(answers[k]) => Unqueued(answers[k])')
    <3> SUFFICES ASSUME NEW k \in 1 .. Len(answers)
                 PROVE  answers[k] \in Requests /\ (Unqueued(answers[k]) => Unqueued(answers[k])')
      OBVIOUS
    <3>1. PICK q \in Requests : answers[k] = q
      OBVIOUS
    <3> QED
      BY <1>3, <3>1 DEF Unqueued
  <2>2. \A k \in 1 .. Len(answers), u \in AsyncThreads : Loading(u, answers[k])' => Loading(u, answers[k])
    <3> SUFFICES ASSUME NEW k \in 1 .. Len(answers), NEW u \in AsyncThreads
                 PROVE  Loading(u, answers[k])' => Loading(u, answers[k])
      OBVIOUS
    <3>1. PICK q \in Requests : q = answers[k]
      BY <2>1
    <3> QED
      BY <3>1 DEF Loading
  <2> HIDE DEF Loading, Busy, Unqueued
  <2> QED
    BY <1>4, <2>1, <2>2 DEF LastInv, AnswersLast
<1>8. EntriesAsked'
  BY <1>1, <1>2, <1>4 DEF LastInv, EntriesAsked
<1> QED
  BY <1>5, <1>6, <1>7, <1>8 DEF LastInv

\* The entries of a load for the cache go to the back, and the last one goes last.
LEMMA LastAppend ==
  ASSUME PoolTypes, LastInv, answers \in Seq(Requests), NEW t \in AsyncThreads, NEW r \in Requests,
         Loading(t, r), NEW y \in {"none", "cache"},
         queue' = Append(queue, [load |-> r, reply |-> y]),
         UNCHANGED <<loader, answers, asked>>,
         \A u \in AsyncThreads, q \in Requests : Loading(u, q)' => Loading(u, q),
         y = "cache" => ~Loading(t, r)',
         \A i \in 1 .. Len(queue) : queue[i].reply = "cache" => queue[i] = LastEntry(queue[i].load),
         Busy /\ loader.entry.reply = "cache" => loader.entry = LastEntry(loader.entry.load)
  PROVE  LastInv'
<1> DEFINE e == [load |-> r, reply |-> y]
<1>1. /\ queue \in Seq(CLoaderEntry) /\ Len(queue) \in Nat
      /\ Len(queue') = Len(queue) + 1 /\ queue'[Len(queue) + 1] = e
      /\ \A i \in 1 .. Len(queue) : queue'[i] = queue[i]
      /\ e.load = r /\ e.reply = y /\ (y = "cache" => e = LastEntry(r))
  <2>1. e \in CLoaderEntry /\ queue' = Append(queue, e) /\ queue \in Seq(CLoaderEntry)
    BY DEF CLoaderEntry, Loads, PoolTypes
  <2>2. e.load = r /\ e.reply = y /\ (y = "cache" => e = LastEntry(r))
    BY DEF LastEntry
  <2> HIDE DEF e
  <2> QED
    BY <2>1, <2>2
<1> HIDE DEF e
<1>2. \A i \in 1 .. Len(queue') : i = Len(queue) + 1 \/ i \in 1 .. Len(queue)
  BY <1>1
<1>3. Busy' <=> Busy
  BY DEF Busy
<1>4. /\ r \in asked /\ \A u \in AsyncThreads : Loading(u, r) => u = t
      /\ \A i \in 1 .. Len(queue) : queue[i] # LastEntry(r)
      /\ Busy => loader.entry # LastEntry(r)
  BY DEF LastInv, OneCaller
<1>5. QueueOrdered'
  <2>1. ASSUME Busy, loader.entry.reply = "cache"
        PROVE  \A i \in 1 .. Len(queue') : queue'[i].load # loader.entry.load
    <3>1. loader.entry = LastEntry(loader.entry.load)
      BY <2>1
    <3>2. loader.entry.load # r
      BY <1>4, <2>1, <3>1
    <3>3. \A i \in 1 .. Len(queue) : queue[i].load # loader.entry.load
      BY <2>1 DEF LastInv, QueueOrdered, Unqueued
    <3> QED
      BY <1>1, <1>2, <3>2, <3>3
  <2>2. ASSUME NEW i \in 1 .. Len(queue'), NEW j \in 1 .. Len(queue'), i < j, queue'[i].reply = "cache"
        PROVE  queue'[j].load # queue'[i].load
    <3>1. i \in 1 .. Len(queue) /\ queue'[i] = queue[i]
      BY <1>1, <1>2, <2>2
    <3>2. queue[i] = LastEntry(queue[i].load) /\ queue[i] # LastEntry(r)
      BY <1>4, <2>2, <3>1
    <3>3. CASE j = Len(queue) + 1
      BY <1>1, <3>1, <3>2, <3>3
    <3>4. CASE j \in 1 .. Len(queue)
      BY <1>1, <2>2, <3>1, <3>4 DEF LastInv, QueueOrdered
    <3> QED
      BY <1>2, <3>3, <3>4
  <2> QED
    BY <1>3, <2>1, <2>2 DEF QueueOrdered, Unqueued
<1>6. OneCaller'
  <2> SUFFICES ASSUME NEW u \in AsyncThreads, NEW q \in Requests, Loading(u, q)'
               PROVE  /\ q \in asked'
                      /\ \A v \in AsyncThreads : Loading(v, q)' => v = u
                      /\ \A i \in 1 .. Len(queue') : queue'[i] # LastEntry(q)
                      /\ Busy' => loader'.entry # LastEntry(q)
    BY DEF OneCaller, LastEntry
  <2>1. /\ q \in asked /\ \A v \in AsyncThreads : Loading(v, q) => v = u
        /\ \A i \in 1 .. Len(queue) : queue[i] # LastEntry(q)
        /\ Busy => loader.entry # LastEntry(q)
    BY DEF LastInv, OneCaller
  <2>2. e # LastEntry(q)
    <3>1. LastEntry(q).load = q /\ LastEntry(q).reply = "cache"
      BY DEF LastEntry
    <3>2. CASE q = r
      <4>1. u = t
        BY <1>4, <3>2
      <4>2. y # "cache"
        BY <3>2, <4>1
      <4> HIDE DEF LastEntry
      <4> QED
        BY <1>1, <3>1, <4>2
    <3>3. CASE q # r
      <4> HIDE DEF LastEntry
      <4> QED
        BY <1>1, <3>1, <3>3
    <3> QED
      BY <3>2, <3>3
  <2> HIDE DEF LastEntry, Loading
  <2> QED
    BY <1>1, <1>2, <1>3, <2>1, <2>2
<1>7. AnswersLast'
  <2> SUFFICES ASSUME NEW k \in 1 .. Len(answers)
               PROVE  /\ answers[k] \in asked
                      /\ \A m \in 1 .. Len(answers) : answers[m] = answers[k] => m = k
                      /\ \A u \in AsyncThreads : ~Loading(u, answers[k])'
                      /\ Unqueued(answers[k])'
                      /\ Busy => loader.entry.load # answers[k]
    BY <1>3 DEF AnswersLast, Loading, Unqueued
  <2>1. PICK q \in Requests : q = answers[k]
    OBVIOUS
  <2>2. /\ q \in asked /\ \A m \in 1 .. Len(answers) : answers[m] = answers[k] => m = k
        /\ \A u \in AsyncThreads : ~Loading(u, q)
        /\ Unqueued(q) /\ (Busy => loader.entry.load # q)
    BY <2>1 DEF LastInv, AnswersLast
  <2>3. q # r
    BY <2>2
  <2>4. Unqueued(q)'
    BY <1>1, <1>2, <2>2, <2>3 DEF Unqueued
  <2>5. \A u \in AsyncThreads : ~Loading(u, q)'
    BY <2>2
  <2> QED
    BY <2>1, <2>2, <2>4, <2>5 DEF Loading, Unqueued
<1>8. EntriesAsked'
  BY <1>1, <1>2, <1>3, <1>4 DEF LastInv, EntriesAsked
<1> QED
  BY <1>5, <1>6, <1>7, <1>8 DEF LastInv

\* Entries with a reply to the cache are the last of their load.
LEMMA CacheEntries ==
  ASSUME PoolTypes, KindInv
  PROVE  /\ \A i \in 1 .. Len(queue) :
              queue[i].reply = "cache" => queue[i] = LastEntry(queue[i].load) /\ queue[i].load \in Requests
         /\ Busy /\ loader.entry.reply = "cache"
              => loader.entry = LastEntry(loader.entry.load) /\ loader.entry.load \in Requests
<1>1. \A e \in CLoaderEntry : Proper(e) /\ e.reply = "cache" => e = LastEntry(e.load) /\ e.load \in Requests
  BY DEF CLoaderEntry, Proper, LastEntry, SoundEntry
<1>2. \A i \in 1 .. Len(queue) : queue[i] \in CLoaderEntry /\ Proper(queue[i])
  BY DEF PoolTypes, KindInv
<1>3. loader.entry \in CLoaderEntry /\ (Busy => Proper(loader.entry))
  BY DEF PoolTypes, KindInv, Busy
<1> HIDE DEF Proper, LastEntry
<1> QED
  BY <1>1, <1>2, <1>3

LEMMA LastPut ==
  ASSUME PoolTypes, KindInv, LastInv, answers \in Seq(Requests), NEW t \in Threads, Put(t)
  PROVE  LastInv'
<1>1. /\ pc \in [Threads -> Places] /\ call \in [Threads -> [load : Loads, left : Nat]]
      /\ UNCHANGED <<loader, answers, asked>>
      /\ Requests \cap Threads = {} /\ SyncThreads \subseteq Threads /\ AsyncThreads \subseteq Threads
      /\ Audio \in Threads /\ Threads \subseteq Loads
  BY PutFacts, NamesSound DEF PoolTypes, Threads, Loads
<1>2. CASE t = Audio /\ PutsSound
  <2>1. SoundEntry \in CLoaderEntry /\ SoundEntry.load \notin Requests /\ SoundEntry.reply # "cache"
    BY <1>1 DEF SoundEntry, CLoaderEntry
  <2>2. queue' = <<SoundEntry>> \o queue
    BY <1>2 DEF PutsSound
  <2>3. \A u \in AsyncThreads, r \in Requests : Loading(u, r)' => Loading(u, r)
    BY <1>1, <1>2 DEF PutsSound, Loading
  <2> HIDE DEF SoundEntry
  <2> QED
    BY <1>1, <2>1, <2>2, <2>3, CacheEntries, LastJam
<1>3. CASE PutsStack(t)
  <2> DEFINE e == [load |-> t, reply |-> "stack"]
  <2>1. e \in CLoaderEntry /\ e.load \notin Requests /\ e.reply # "cache"
    BY <1>1 DEF CLoaderEntry
  <2>2. queue' = <<e>> \o queue
    BY <1>3 DEF PutsStack
  <2>3. \A u \in AsyncThreads, r \in Requests : Loading(u, r)' => Loading(u, r)
    BY <1>1, <1>3 DEF PutsStack, Loading
  <2> HIDE DEF e
  <2> QED
    BY <1>1, <2>1, <2>2, <2>3, CacheEntries, LastJam
<1>4. CASE PutsRequest(t)
  <2>1. PICK r \in Requests : call[t].load = r
    BY <1>4 DEF PutsRequest
  <2>2. PICK y \in {"none", "cache"} :
          /\ queue' = Append(queue, [load |-> r, reply |-> y])
          /\ y = "cache" => pc'[t] = "out"
    BY <1>1, <1>4, <2>1 DEF PutsRequest
  <2>3. t \in AsyncThreads /\ Loading(t, r)
    BY <1>4, <2>1 DEF PutsRequest, Loading
  <2>4. \A u \in AsyncThreads, q \in Requests : Loading(u, q)' => Loading(u, q)
    <3>1. \A u \in AsyncThreads \ {t} : pc'[u] = pc[u] /\ call'[u] = call[u]
      BY <1>1, <1>4 DEF PutsRequest
    <3>2. pc'[t] = "out" \/ call'[t].load = r
      BY <1>1, <1>4, <2>1 DEF PutsRequest
    <3>3. \A q \in Requests : Loading(t, q)' => Loading(t, q)
      BY <2>1, <2>3, <3>2 DEF Loading
    <3>4. \A u \in AsyncThreads \ {t}, q \in Requests : Loading(u, q)' => Loading(u, q)
      BY <3>1 DEF Loading
    <3> HIDE DEF Loading
    <3> QED
      BY <3>3, <3>4
  <2>5. y = "cache" => ~Loading(t, r)'
    BY <2>2 DEF Loading
  <2> QED
    BY <1>1, <2>2, <2>3, <2>4, <2>5, CacheEntries, LastAppend
<1> QED
  BY <1>2, <1>3, <1>4, PutFacts

\* The loader takes the first entry, and answers it.
LEMMA LastMain ==
  ASSUME PoolTypes, KindInv, LastInv, answers \in Seq(Requests), Main
  PROVE  LastInv'
<1>1. /\ queue \in Seq(CLoaderEntry) /\ pc' = pc /\ call' = call /\ asked' = asked
      /\ \A t, r : (Loading(t, r)' <=> Loading(t, r))
  BY DEF PoolTypes, Main, Take, Loaded, Reply, Dealloc, Loading
<1>2. CASE Take
  <2>1. /\ queue # <<>> /\ queue' = Tail(queue) /\ loader.at = "idle" /\ loader'.at = "dma"
        /\ loader'.entry = Head(queue) /\ answers' = answers
    BY <1>2 DEF Take
  <2>2. /\ Len(queue) \in Nat \ {0} /\ Len(queue') = Len(queue) - 1 /\ loader'.entry = queue[1]
        /\ \A i \in 1 .. Len(queue') : queue'[i] = queue[i + 1] /\ i + 1 \in 1 .. Len(queue)
        /\ 1 \in 1 .. Len(queue) /\ \A i \in 1 .. Len(queue') : 1 < i + 1
    BY <1>1, <2>1
  <2>3. QueueOrdered'
    <3>1. ASSUME NEW i \in 1 .. Len(queue'), NEW j \in 1 .. Len(queue'), i < j, queue'[i].reply = "cache"
          PROVE  queue'[j].load # queue'[i].load
      <4>1. i + 1 < j + 1
        BY <3>1
      <4> QED
        BY <2>2, <3>1, <4>1 DEF LastInv, QueueOrdered
    <3>2. loader'.entry.reply = "cache" => \A j \in 1 .. Len(queue') : queue'[j].load # loader'.entry.load
      BY <2>2 DEF LastInv, QueueOrdered
    <3> QED
      BY <3>1, <3>2 DEF QueueOrdered, Unqueued
  <2>4. OneCaller'
    BY <1>1, <2>2 DEF LastInv, OneCaller
  <2>5. AnswersLast'
    <3> HIDE DEF Loading
    <3> QED
      BY <1>1, <2>1, <2>2 DEF LastInv, AnswersLast, Unqueued
  <2>6. EntriesAsked'
    BY <1>1, <2>2 DEF LastInv, EntriesAsked
  <2> QED
    BY <2>3, <2>4, <2>5, <2>6 DEF LastInv
<1>3. CASE Loaded
  <2>1. UNCHANGED <<queue, answers, asked>> /\ (Busy' => Busy) /\ loader'.entry = loader.entry
    BY <1>1, <1>3 DEF Loaded, Busy, PoolTypes
  <2> HIDE DEF Loading
  <2> QED
    BY <1>1, <2>1, LastKept
<1>4. CASE Reply
  <2>1. UNCHANGED <<queue, asked>> /\ loader'.entry = loader.entry /\ Busy /\ ~Busy' /\ loader.at = "reply"
    BY <1>1, <1>4 DEF Reply, Busy, PoolTypes
  <2>2. CASE loader.entry.reply = "cache"
    <3>1. PICK r \in Requests : loader.entry = LastEntry(r) /\ loader.entry.load = r
      BY <2>1, <2>2, CacheEntries
    <3>2. answers' = Append(answers, r)
      BY <1>4, <2>2, <3>1 DEF Reply
    <3>3. /\ Len(answers) \in Nat /\ Len(answers') = Len(answers) + 1 /\ answers'[Len(answers) + 1] = r
          /\ \A k \in 1 .. Len(answers) : answers'[k] = answers[k]
      BY <3>2
    <3>4. \A k \in 1 .. Len(answers') : k = Len(answers) + 1 \/ k \in 1 .. Len(answers)
      BY <3>3
    <3>5. Unqueued(r)
      BY <2>1, <2>2, <3>1 DEF LastInv, QueueOrdered
    <3>6. \A t \in AsyncThreads : ~Loading(t, r)
      BY <2>1, <3>1 DEF LastInv, OneCaller
    <3>7. r \in asked /\ \A k \in 1 .. Len(answers) : answers[k] # r
      BY <2>1, <3>1 DEF LastInv, EntriesAsked, AnswersLast
    <3>8. QueueOrdered'
      BY <2>1 DEF LastInv, QueueOrdered
    <3>9. OneCaller'
      BY <1>1, <2>1 DEF LastInv, OneCaller
    <3>10. EntriesAsked'
      BY <2>1 DEF LastInv, EntriesAsked
    <3>11. AnswersLast'
      <4> SUFFICES ASSUME NEW k \in 1 .. Len(answers')
                   PROVE  /\ answers'[k] \in asked
                          /\ \A m \in 1 .. Len(answers') : answers'[m] = answers'[k] => m = k
                          /\ \A u \in AsyncThreads : ~Loading(u, answers'[k])
                          /\ Unqueued(answers'[k])
        BY <1>1, <2>1 DEF AnswersLast, Loading, Unqueued
      <4>1. CASE k = Len(answers) + 1
        BY <3>3, <3>4, <3>5, <3>6, <3>7, <4>1
      <4>2. CASE k \in 1 .. Len(answers)
        <5>1. /\ answers[k] \in asked /\ Unqueued(answers[k])
              /\ \A m \in 1 .. Len(answers) : answers[m] = answers[k] => m = k
              /\ \A u \in AsyncThreads : ~Loading(u, answers[k])
          BY <4>2 DEF LastInv, AnswersLast
        <5> HIDE DEF Loading, Unqueued
        <5> QED
          BY <3>3, <3>4, <3>7, <4>2, <5>1
      <4> QED
        BY <3>4, <4>1, <4>2
    <3> QED
      BY <3>8, <3>9, <3>10, <3>11 DEF LastInv
  <2>3. CASE loader.entry.reply # "cache"
    <3>1. answers' = answers
      BY <1>4, <2>3 DEF Reply
    <3> HIDE DEF Loading
    <3> QED
      BY <1>1, <2>1, <3>1, LastKept
  <2> QED
    BY <2>2, <2>3
<1>5. CASE Dealloc
  <2>1. UNCHANGED <<queue, answers>> /\ ~Busy /\ ~Busy'
    BY <1>5 DEF Dealloc, Busy
  <2>2. QueueOrdered' /\ OneCaller' /\ EntriesAsked'
    BY <1>1, <2>1 DEF LastInv, QueueOrdered, OneCaller, EntriesAsked
  <2>3. AnswersLast'
    BY <1>1, <2>1 DEF LastInv, AnswersLast, Unqueued, Loading
  <2> QED
    BY <2>2, <2>3 DEF LastInv
<1> QED
  BY <1>2, <1>3, <1>4, <1>5 DEF Main

\* The request of an answer that the cache takes can be used again: nothing is left of it.
LEMMA LastTakes ==
  ASSUME LastInv, answers \in Seq(Requests), CacheTakes
  PROVE  LastInv' /\ answers' \in Seq(Requests)
<1>1. /\ answers # <<>> /\ answers' = Tail(answers) /\ asked' = asked \ {Head(answers)}
      /\ UNCHANGED <<queue, loader, pc, call>>
  BY DEF CacheTakes
<1>2. PICK r \in Requests : r = Head(answers)
  BY <1>1
<1>3. /\ Len(answers) \in Nat \ {0} /\ answers' \in Seq(Requests) /\ Len(answers') = Len(answers) - 1
      /\ answers[1] = r /\ 1 \in 1 .. Len(answers)
      /\ \A k \in 1 .. Len(answers') : answers'[k] = answers[k + 1] /\ k + 1 \in 1 .. Len(answers) /\ k + 1 # 1
  BY <1>1, <1>2
<1>4. /\ \A m \in 1 .. Len(answers) : answers[m] = r => m = 1
      /\ \A t \in AsyncThreads : ~Loading(t, r)
      /\ Unqueued(r) /\ (Busy => loader.entry.load # r)
  BY <1>3 DEF LastInv, AnswersLast
<1>5. \A t, q : (Loading(t, q)' <=> Loading(t, q))
  BY <1>1 DEF Loading
<1>6. Busy' <=> Busy
  BY <1>1 DEF Busy
<1>7. QueueOrdered'
  BY <1>1 DEF LastInv, QueueOrdered, Unqueued, Busy
<1>8. OneCaller'
  <2> SUFFICES ASSUME NEW u \in AsyncThreads, NEW q \in Requests, Loading(u, q)'
               PROVE  /\ q \in asked'
                      /\ \A v \in AsyncThreads : Loading(v, q)' => v = u
                      /\ \A i \in 1 .. Len(queue') : queue'[i] # LastEntry(q)
                      /\ Busy' => loader'.entry # LastEntry(q)
    BY DEF OneCaller, LastEntry
  <2>1. Loading(u, q) /\ q # r
    BY <1>4, <1>5
  <2> HIDE DEF Loading
  <2> QED
    BY <1>1, <1>2, <1>5, <1>6, <2>1 DEF LastInv, OneCaller
<1>9. EntriesAsked'
  BY <1>1, <1>2, <1>4, <1>6 DEF LastInv, EntriesAsked, Unqueued
<1>10. AnswersLast'
  <2> SUFFICES ASSUME NEW k \in 1 .. Len(answers')
               PROVE  /\ answers'[k] \in asked'
                      /\ \A m \in 1 .. Len(answers') : answers'[m] = answers'[k] => m = k
                      /\ \A u \in AsyncThreads : ~Loading(u, answers'[k])
                      /\ Unqueued(answers'[k])
                      /\ Busy => loader.entry.load # answers'[k]
    BY <1>1, <1>6 DEF AnswersLast, Loading, Unqueued
  <2>1. /\ answers[k + 1] \in asked /\ Unqueued(answers[k + 1])
        /\ \A m \in 1 .. Len(answers) : answers[m] = answers[k + 1] => m = k + 1
        /\ \A u \in AsyncThreads : ~Loading(u, answers[k + 1])
        /\ Busy => loader.entry.load # answers[k + 1]
    BY <1>3 DEF LastInv, AnswersLast
  <2>2. answers[k + 1] # r
    BY <1>3, <1>4
  <2>3. \A m \in 1 .. Len(answers') : answers'[m] = answers'[k] => m = k
    <3> SUFFICES ASSUME NEW m \in 1 .. Len(answers'), answers'[m] = answers'[k] PROVE m = k
      OBVIOUS
    <3>1. m + 1 = k + 1
      BY <1>3, <2>1
    <3> QED
      BY <3>1
  <2> HIDE DEF Loading, Unqueued
  <2> QED
    BY <1>1, <1>2, <1>3, <2>1, <2>2, <2>3
<1> QED
  BY <1>3, <1>7, <1>8, <1>9, <1>10 DEF LastInv

LoadInv == CountInv /\ LastInv /\ answers \in Seq(Requests)

\* Nothing is pending of a load that has its answer, or of a call that returned.
LEMMA AnsweredLoaded == IInv /\ KindInv /\ StackInv /\ LoadInv => AnswerMeansLoaded
<1> SUFFICES ASSUME PoolTypes, KindInv, StackInv, LoadInv PROVE AnswerMeansLoaded
  BY DEF IInv
<1>1. \A l : Unqueued(l) => Cardinality(Spots(queue, OfLoad(l))) = 0
  <2> SUFFICES ASSUME NEW l, Unqueued(l) PROVE Cardinality(Spots(queue, OfLoad(l))) = 0
    OBVIOUS
  <2>1. Spots(queue, OfLoad(l)) = {}
    BY DEF Spots, OfLoad, Unqueued
  <2> QED
    BY <2>1, FS_EmptySet
<1>2. ASSUME NEW k \in 1 .. Len(answers) PROVE missing[answers[k]] = 0
  <2>1. PICK r \in Requests : answers[k] = r
    BY DEF LoadInv
  <2>2. Unqueued(r) /\ (Busy => loader.entry.load # r) /\ \A t \in AsyncThreads : ~Loading(t, r)
    BY <2>1 DEF LoadInv, LastInv, AnswersLast
  <2>3. Pending(r) = 0
    BY <1>1, <2>2 DEF Pending, Busy
  <2> HIDE DEF Pending, Loading
  <2> QED
    BY <2>1, <2>2, <2>3 DEF LoadInv, CountInv
<1>3. ASSUME NEW t \in SyncThreads, ToAnswer("stack", t) = {} PROVE Pending(t) = 0
  <2>1. \A e \in CLoaderEntry : Proper(e) /\ e.load = t => e = [load |-> t, reply |-> "stack"]
    BY NamesSound DEF CLoaderEntry, Proper, SoundEntry, Threads
  <2>2. \A i \in 1 .. Len(queue) : i \in 0 .. Len(queue) /\ i # 0 /\ queue[i] \in CLoaderEntry /\ Proper(queue[i])
    BY DEF PoolTypes, KindInv
  <2>3. loader.entry \in CLoaderEntry /\ (loader.at = "dma" => Proper(loader.entry)) /\ 0 \in 0 .. Len(queue)
    BY DEF PoolTypes, KindInv
  <2>4. \A i \in 1 .. Len(queue) : queue[i] # [load |-> t, reply |-> "stack"]
    BY <1>3, <2>2 DEF ToAnswer
  <2>5. loader.at = "dma" => loader.entry # [load |-> t, reply |-> "stack"]
    BY <1>3, <2>3 DEF ToAnswer
  <2>6. Unqueued(t)
    BY <2>1, <2>2, <2>4 DEF Unqueued
  <2>7. ~(loader.at = "dma" /\ loader.entry.load = t)
    BY <2>1, <2>3, <2>5
  <2> QED
    BY <1>1, <2>6, <2>7 DEF Pending
<1>4. ASSUME NEW t \in SyncThreads
      PROVE  /\ pc[t] = "out" => missing[t] = 0
             /\ stack[t] = 1 => missing[t] = call[t].left - 1
  <2>1. t \in Threads /\ call[t].left \in Nat /\ missing[t] = Pending(t) + Rest(t)
    BY DEF Threads, PoolTypes, LoadInv, CountInv
  <2>2. CASE pc[t] = "out"
    <3>1. ToAnswer("stack", t) = {} /\ stack[t] # 1
      BY <2>1, <2>2 DEF StackInv, StackTypes, StackQueueAlive
    <3>2. Pending(t) = 0
      BY <1>3, <3>1
    <3>3. Rest(t) = 0
      BY <2>2 DEF Rest, Loading
    <3> HIDE DEF Pending, Rest
    <3> QED
      BY <2>1, <3>1, <3>2, <3>3
  <2>3. CASE stack[t] = 1
    <3>1. ToAnswer("stack", t) = {} /\ pc[t] = "wait"
      BY <2>1, <2>3 DEF StackInv, StackTypes, StackQueueAlive
    <3>2. Pending(t) = 0
      BY <1>3, <3>1
    <3>3. call[t].load = t
      BY <2>1, <3>1 DEF KindInv, ProperCall
    <3>4. Rest(t) = call[t].left - 1
      BY <3>1, <3>3 DEF Rest, Loading
    <3> HIDE DEF Pending, Rest
    <3> QED
      BY <2>1, <3>1, <3>2, <3>4
  <2> QED
    BY <2>2, <2>3
<1> QED
  BY <1>2, <1>4 DEF AnswerMeansLoaded

\* What is loaded when the reply comes (CLoader__LoadSync, CLoader__LoadAsync): all of a load
\* for the cache, and all chunks so far of a load that a thread waits for.
THEOREM AnswersMeanLoaded == Spec => []AnswerMeansLoaded
<1>1. Init => LoadInv
  <2> SUFFICES ASSUME Init PROVE LoadInv
    OBVIOUS
  <2>1. \A l : Pending(l) = 0
    <3> SUFFICES ASSUME NEW l PROVE Pending(l) = 0
      OBVIOUS
    <3>1. Spots(queue, OfLoad(l)) = {} /\ loader.at = "idle"
      BY DEF Init, Spots
    <3>2. Cardinality(Spots(queue, OfLoad(l))) = 0
      BY <3>1, FS_EmptySet
    <3> QED
      BY <3>1, <3>2 DEF Pending
  <2>2. \A l : \A t \in Threads : ~Loading(t, l)
    BY DEF Init, Loading
  <2>3. \A t \in Threads : Rest(t) = 0
    BY <2>2 DEF Rest
  <2> HIDE DEF Pending, Rest, Loading
  <2>4. CountInv
    BY <2>1, <2>2, <2>3 DEF Init, CountInv, Loads, Threads
  <2>5. LastInv
    BY <2>2 DEF Init, LastInv, QueueOrdered, OneCaller, AnswersLast, EntriesAsked, Unqueued, Busy, Threads
  <2> QED
    BY <2>4, <2>5 DEF LoadInv, Init
<1>2. IInv /\ KindInv /\ LoadInv /\ [Next]_vars => LoadInv'
  <2> SUFFICES ASSUME IInv, KindInv, LoadInv, [Next]_vars PROVE LoadInv'
    OBVIOUS
  <2>0. /\ PoolTypes /\ CountInv /\ LastInv /\ answers \in Seq(Requests) /\ pc \in [Threads -> Places]
        /\ call \in [Threads -> [load : Loads, left : Nat]]
        /\ \A n \in 1 .. MaxChunks : n \in Nat /\ n >= 1
        /\ SyncThreads \subseteq Threads /\ AsyncThreads \subseteq Threads /\ Audio \in Threads
        /\ Threads \subseteq Loads /\ Requests \subseteq Loads /\ Requests \cap Threads = {}
    BY SizesSound, NamesSound DEF IInv, PoolTypes, LoadInv, Threads, Loads
  <2>1. ASSUME NEW t \in Threads, NEW n \in Nat, n >= 1, t \in SyncThreads \/ t = Audio, Begin(t, t, n),
               UNCHANGED <<queue, loader, answers, asked>>
        PROVE  LoadInv'
    <3>1. CountInv'
      BY <2>0, <2>1, CountBegin
    <3>2. Busy' => Busy
      BY <2>1 DEF Busy
    <3>3. \A u \in AsyncThreads, r \in Requests : Loading(u, r)' => Loading(u, r)
      BY <2>0, <2>1 DEF Begin, Loading
    <3> HIDE DEF Busy, Loading
    <3>4. LastInv'
      BY <2>0, <2>1, <3>2, <3>3, LastKept
    <3> QED
      BY <2>0, <2>1, <3>1, <3>4 DEF LoadInv
  <2>2. CASE Call
    <3>1. CASE \E t \in SyncThreads, n \in 1 .. MaxChunks : LoadSync(t, n)
      BY <2>0, <2>1, <3>1 DEF LoadSync
    <3>2. CASE \E t \in AsyncThreads, r \in Requests, n \in 1 .. MaxChunks : LoadAsync(t, r, n)
      <4>1. PICK t \in AsyncThreads, r \in Requests, n \in 1 .. MaxChunks : LoadAsync(t, r, n)
        BY <3>2
      <4>2. Begin(t, r, n) /\ UNCHANGED <<queue, loader, answers>> /\ r \notin asked
        BY <4>1 DEF LoadAsync
      <4>3. CountInv'
        BY <2>0, <4>2, CountBegin
      <4>4. LastInv'
        BY <2>0, <4>1, LastBegin
      <4> QED
        BY <2>0, <4>2, <4>3, <4>4 DEF LoadInv
    <3>3. CASE LoadDirect
      BY <2>0, <2>1, <3>3 DEF LoadDirect
    <3> QED
      BY <2>2, <3>1, <3>2, <3>3 DEF Call
  <2>3. CASE \E t \in Threads : Alloc(t)
    <3>1. PICK t \in Threads : Alloc(t)
      BY <2>3
    <3>2. /\ pc[t] = "alloc" /\ pc' = [pc EXCEPT ![t] = "put"]
          /\ UNCHANGED <<queue, loader, call, answers, asked, missing>>
      BY <3>1, AllocFacts
    <3>3. \A l : \A u \in Threads : Loading(u, l)' <=> Loading(u, l)
      BY <2>0, <3>2 DEF Loading
    <3>4. \A u \in Threads : Rest(u)' = Rest(u)
      BY <2>0, <3>2, <3>3 DEF Rest
    <3>5. (\A l : Pending(l)' = Pending(l)) /\ (Busy' => Busy)
      BY <3>2, SameEntries DEF Busy
    <3> HIDE DEF Loading, Rest, Busy, Pending
    <3>6. CountInv'
      BY <2>0, <3>2, <3>3, <3>4, <3>5, CountKept
    <3>7. LastInv'
      BY <2>0, <3>2, <3>3, <3>5, LastKept
    <3> QED
      BY <2>0, <3>2, <3>6, <3>7 DEF LoadInv
  <2>4. CASE \E t \in Threads : Put(t)
    <3>1. PICK t \in Threads : Put(t)
      BY <2>4
    <3>2. answers' = answers
      BY <3>1 DEF Put
    <3> QED
      BY <2>0, <3>1, <3>2, CountPut, LastPut DEF LoadInv
  <2>5. CASE \E t \in Threads : Return(t)
    <3>1. PICK t \in Threads : Return(t)
      BY <2>5
    <3>2. /\ UNCHANGED <<queue, loader, answers, asked>> /\ t \in SyncThreads
          /\ \A u \in Threads \ {t} : pc'[u] = pc[u] /\ call'[u] = call[u]
          /\ pc'[t] = "out" \/ call'[t].load = t
      BY <2>0, <3>1, ReturnFacts
    <3>3. \A u \in AsyncThreads, r \in Requests : Loading(u, r)' => Loading(u, r)
      BY <2>0, <3>2 DEF Loading
    <3>4. Busy' => Busy
      BY <3>2 DEF Busy
    <3> HIDE DEF Busy, Loading
    <3>5. LastInv'
      BY <2>0, <3>2, <3>3, <3>4, LastKept
    <3> QED
      BY <2>0, <3>1, <3>2, <3>5, CountReturn DEF LoadInv
  <2>6. CASE Main
    <3>1. answers' \in Seq(Requests)
      <4>1. CASE Reply /\ loader.entry.reply = "cache"
        <5>1. answers' = Append(answers, loader.entry.load) /\ loader.entry.load \in Requests
          BY <2>0, <4>1, CacheEntries DEF Reply, Busy
        <5> QED
          BY <2>0, <5>1
      <4>2. CASE ~(Reply /\ loader.entry.reply = "cache")
        BY <2>0, <2>6, <4>2 DEF Main, Take, Loaded, Reply, Dealloc
      <4> QED
        BY <4>1, <4>2
    <3> QED
      BY <2>0, <2>6, <3>1, CountMain, LastMain DEF LoadInv
  <2>7. CASE CacheTakes
    <3>1. UNCHANGED <<queue, loader, pc, call, missing>>
      BY <2>7 DEF CacheTakes
    <3>2. CountInv'
      BY <2>0, <3>1 DEF CountInv, Pending, Rest, Loading
    <3> QED
      BY <2>0, <2>7, <3>2, LastTakes DEF LoadInv
  <2>8. CASE ClearAudioDMA \/ AudioTakes \/ UNCHANGED vars
    <3>1. UNCHANGED <<queue, loader, pc, call, missing, answers, asked>>
      BY <2>8 DEF ClearAudioDMA, AudioTakes, vars
    <3>2. CountInv'
      BY <2>0, <3>1 DEF CountInv, Pending, Rest, Loading
    <3>3. \A t, r : Loading(t, r)' <=> Loading(t, r)
      BY <3>1 DEF Loading
    <3>4. Busy' => Busy
      BY <3>1 DEF Busy
    <3> HIDE DEF Busy, Loading
    <3>5. LastInv'
      BY <2>0, <3>1, <3>3, <3>4, LastKept
    <3> QED
      BY <2>0, <3>1, <3>2, <3>5 DEF LoadInv
  <2> QED
    BY <2>2, <2>3, <2>4, <2>5, <2>6, <2>7, <2>8 DEF Next
<1> QED
  BY AnsweredLoaded, InvariantHolds, KindsHold, StackHolds, <1>1, <1>2, PTL DEF Spec
=============================================================================
