------------------------------- MODULE Loader -------------------------------
(***************************************************************************)
(* The cartridge reader.  A load is cut into entries of at most one chunk, *)
(* taken from a pool and put on the queue of the loader thread, which      *)
(* reads them one after the other and replies.                             *)
(*                                                                         *)
(* CLoader__LoadSync jams one entry at a time to the front and waits for   *)
(* it; the reply queue lies on the caller's stack.  CLoader__LoadAsync     *)
(* sends all its entries to the back, and the last one carries the reply   *)
(* to the cache's queue.  The audio manager jams one-entry loads to the    *)
(* front while it builds a frame, and before the next frame it waits for   *)
(* as many replies as it counted loads.                                    *)
(*                                                                         *)
(* Any thread may run between two statements of another; the entry lists   *)
(* and the queues are changed with interrupts off.                         *)
(***************************************************************************)
EXTENDS Naturals, Sequences, FiniteSets

CONSTANTS
  PoolSize,       \* CLoader.entries (528)
  QueueSize,      \* room of the loader's queue (512)
  SyncThreads,    \* threads that call CLoader__LoadSync
  AsyncThreads,   \* threads that ask the cache for a load
  Audio,          \* the audio manager's thread
  Requests,       \* the cache's requests, each a load that may be going on
  MaxChunks,      \* bound: chunks of a load
  ReplySize,      \* room of the cache's queue (64)
  Windows         \* the audio manager's buffers, and room of its queue (60)

Threads == SyncThreads \cup AsyncThreads \cup {Audio}

ASSUME SizesSound ==
  /\ QueueSize \in Nat \ {0} /\ MaxChunks \in Nat \ {0}
  /\ ReplySize \in Nat \ {0} /\ Windows \in Nat \ {0}

\* 16 entries more than the queue has room for: more than there are threads.
ASSUME PoolSound ==
  /\ IsFiniteSet(Threads)
  /\ PoolSize \in Nat /\ PoolSize > QueueSize + Cardinality(Threads)

ASSUME NamesSound ==
  /\ Audio \notin SyncThreads \cup AsyncThreads
  /\ Requests \cap Threads = {}

VARIABLES
  free,       \* length of CLoader.freeList: its entries are alike
  queue,      \* the loader's queue
  loader,     \* where the loader thread is, and the entry it has
  pc, call,   \* where each thread is in its load, and the load
  stack,      \* messages in the reply queue of a CLoader__LoadSync
  answers,    \* the cache's queue
  sound,      \* the audio manager: loads counted (nextDMA), replies in its
              \* queue, replies taken, whether it waits for them
  asked,      \* the cache's requests that are loading
  missing     \* chunks of each load that are not in memory yet

vars == <<free, queue, loader, pc, call, stack, answers, sound, asked, missing>>

\* A load is named by the request that waits for it, or by the thread.
Loads == Requests \cup Threads

\* An entry: the load it is for, and where its reply goes.
CLoaderEntry == [load : Loads, reply : {"none", "stack", "cache", "audio"}]

\* out   : does not load
\* alloc : needs an entry
\* put   : has an entry to queue
\* wait  : CLoader__LoadSync waits for the reply
Places == {"out", "alloc", "put", "wait"}

NoEntry == [load |-> Audio, reply |-> "none"]
NoCall  == [load |-> Audio, left |-> 0]

Init ==
  /\ free = PoolSize
  /\ queue = <<>>
  /\ loader = [at |-> "idle", entry |-> NoEntry]
  /\ pc = [t \in Threads |-> "out"]
  /\ call = [t \in Threads |-> NoCall]
  /\ stack = [t \in Threads |-> 0]
  /\ answers = <<>>
  /\ sound = [next |-> 0, came |-> 0, got |-> 0, waits |-> FALSE]
  /\ asked = {}
  /\ missing = [l \in Loads |-> 0]

----------------------------------------------------------------------------
(* Loads                                                                   *)

Begin(t, l, n) ==
  /\ pc[t] = "out"
  /\ pc' = [pc EXCEPT ![t] = "alloc"]
  /\ call' = [call EXCEPT ![t] = [load |-> l, left |-> n]]
  /\ missing' = [missing EXCEPT ![l] = @ + n]

LoadSync(t, n) ==
  /\ t \in SyncThreads
  /\ Begin(t, t, n)
  /\ UNCHANGED <<free, queue, loader, stack, answers, sound, asked>>

\* The cache loads into a request that is not in use.
LoadAsync(t, r, n) ==
  /\ t \in AsyncThreads /\ r \in Requests \ asked
  /\ asked' = asked \cup {r}
  /\ Begin(t, r, n)
  /\ UNCHANGED <<free, queue, loader, stack, answers, sound>>

\* __amDMA: a load for every buffer it takes, one chunk, jammed to the front.
LoadDirect ==
  /\ ~sound.waits /\ sound.next < Windows
  /\ sound' = [sound EXCEPT !.next = @ + 1]
  /\ Begin(Audio, Audio, 1)
  /\ UNCHANGED <<free, queue, loader, stack, answers, asked>>

\* CLoader__AllocLoaderEntry; without an entry the load is given up.
Alloc(t) ==
  /\ pc[t] = "alloc"
  /\ IF free = 0
     THEN /\ pc' = [pc EXCEPT ![t] = "out"]
          /\ call' = [call EXCEPT ![t] = NoCall]
          /\ UNCHANGED free
     ELSE /\ free' = free - 1
          /\ pc' = [pc EXCEPT ![t] = "put"]
          /\ UNCHANGED call
  /\ UNCHANGED <<queue, loader, stack, answers, sound, asked, missing>>

IsSync(t) == t # Audio /\ call[t].load = t

\* Mutant: the last entry does not know that it is the last.
ReplyTo_NeverLast(t) ==
  IF t = Audio THEN "audio"
  ELSE IF IsSync(t) THEN "stack"
  ELSE IF call[t].left = 0 THEN "cache" ELSE "none"

\* Where the reply to the next entry of t's load goes: only the last entry of
\* a load for the cache has one.
ReplyTo(t) ==
  IF t = Audio THEN "audio"
  ELSE IF IsSync(t) THEN "stack"
  ELSE IF call[t].left = 1 THEN "cache" ELSE "none"

\* Mutant: the entries of a load for the cache come in reverse order.
Jams_Always(t) == TRUE

Jams(t) == t = Audio \/ IsSync(t)

\* Mutant: CLoader__LoadSync waits for the last chunk only.
Waits_LastOnly(t) == IsSync(t) /\ call[t].left = 1

Waits(t) == IsSync(t)

Room == Len(queue) < QueueSize

\* The next chunk, or the return.
Continue(t) ==
  IF call[t].left > 1
  THEN /\ pc' = [pc EXCEPT ![t] = "alloc"]
       /\ call' = [call EXCEPT ![t].left = @ - 1]
  ELSE /\ pc' = [pc EXCEPT ![t] = "out"]
       /\ call' = [call EXCEPT ![t] = NoCall]

\* osJamMesg or osSendMesg, which block while the queue is full.
Put(t) ==
  /\ pc[t] = "put"
  /\ Room
  /\ LET e == [load |-> call[t].load, reply |-> ReplyTo(t)]
     IN  queue' = IF Jams(t) THEN <<e>> \o queue ELSE Append(queue, e)
  /\ IF Waits(t)
     THEN pc' = [pc EXCEPT ![t] = "wait"] /\ UNCHANGED call
     ELSE Continue(t)
  /\ UNCHANGED <<free, loader, stack, answers, sound, asked, missing>>

\* CLoader__LoadSync has its reply.
Return(t) ==
  /\ pc[t] = "wait"
  /\ stack[t] = 1
  /\ stack' = [stack EXCEPT ![t] = 0]
  /\ Continue(t)
  /\ UNCHANGED <<free, queue, loader, answers, sound, asked, missing>>

----------------------------------------------------------------------------
(* CLoader__Main                                                           *)

Take ==
  /\ loader.at = "idle"
  /\ queue # <<>>
  /\ loader' = [at |-> "dma", entry |-> Head(queue)]
  /\ queue' = Tail(queue)
  /\ UNCHANGED <<free, pc, call, stack, answers, sound, asked, missing>>

\* The parallel interface has read the chunk, the loader has its message.
Loaded ==
  /\ loader.at = "dma"
  /\ missing' = [missing EXCEPT ![loader.entry.load] = @ - 1]
  /\ loader' = [loader EXCEPT !.at = IF loader.entry.reply = "none" THEN "free" ELSE "reply"]
  /\ UNCHANGED <<free, queue, pc, call, stack, answers, sound, asked>>

\* osSendMesg to the entry's reply queue, which blocks while that is full.
Reply ==
  /\ loader.at = "reply"
  /\ LET l == loader.entry.load IN
     \/ /\ loader.entry.reply = "stack" /\ stack[l] = 0
        /\ stack' = [stack EXCEPT ![l] = 1]
        /\ UNCHANGED <<answers, sound>>
     \/ /\ loader.entry.reply = "cache" /\ Len(answers) < ReplySize
        /\ answers' = Append(answers, l)
        /\ UNCHANGED <<stack, sound>>
     \/ /\ loader.entry.reply = "audio" /\ sound.came < Windows
        /\ sound' = [sound EXCEPT !.came = @ + 1]
        /\ UNCHANGED <<stack, answers>>
  /\ loader' = [loader EXCEPT !.at = "free"]
  /\ UNCHANGED <<free, queue, pc, call, asked, missing>>

\* Mutant: an entry without a reply is not freed.
Dealloc_Leaks ==
  /\ loader.at = "free"
  /\ free' = IF loader.entry.reply = "none" THEN free ELSE free + 1
  /\ loader' = [at |-> "idle", entry |-> NoEntry]
  /\ UNCHANGED <<queue, pc, call, stack, answers, sound, asked, missing>>

\* CLoader__DeallocLoaderEntry
Dealloc ==
  /\ loader.at = "free"
  /\ free' = free + 1
  /\ loader' = [at |-> "idle", entry |-> NoEntry]
  /\ UNCHANGED <<queue, pc, call, stack, answers, sound, asked, missing>>

----------------------------------------------------------------------------
(* Who waits for the replies                                               *)

\* The cache's thread takes a reply.
CacheTakes ==
  /\ answers # <<>>
  /\ answers' = Tail(answers)
  /\ asked' = asked \ {Head(answers)}
  /\ UNCHANGED <<free, queue, loader, pc, call, stack, sound, missing>>

\* __clearAudioDMA waits for the loads of the frame before.
ClearAudioDMA ==
  /\ pc[Audio] = "out" /\ ~sound.waits /\ sound.next > 0
  /\ sound' = [sound EXCEPT !.waits = TRUE]
  /\ UNCHANGED <<free, queue, loader, pc, call, stack, answers, missing, asked>>

\* Mutant: one load is not waited for.
LastReply_Early == sound.got + 2 >= sound.next

LastReply == sound.got + 1 >= sound.next

AudioTakes ==
  /\ sound.waits /\ sound.came > 0
  /\ sound' = IF ~LastReply
              THEN [sound EXCEPT !.came = @ - 1, !.got = @ + 1]
              ELSE [next |-> 0, came |-> sound.came - 1, got |-> 0, waits |-> FALSE]
  /\ UNCHANGED <<free, queue, loader, pc, call, stack, answers, missing, asked>>

----------------------------------------------------------------------------
Call == \/ \E t \in SyncThreads, n \in 1 .. MaxChunks : LoadSync(t, n)
        \/ \E t \in AsyncThreads, r \in Requests, n \in 1 .. MaxChunks : LoadAsync(t, r, n)
        \/ LoadDirect

Jam == \E t \in Threads : Jams(t) /\ Put(t)

Main == Take \/ Loaded \/ Reply \/ Dealloc

Next ==
  \/ Call
  \/ \E t \in Threads : Alloc(t) \/ Put(t) \/ Return(t)
  \/ Main
  \/ CacheTakes \/ ClearAudioDMA \/ AudioTakes

Spec == Init /\ [][Next]_vars

\* Every thread that can go on does, but none has to begin a load or a frame.
\* osRecvMesg starts a sender blocked on the full queue; a reader or the audio
\* manager then runs before the main thread, which has the lowest priority, can
\* fill the queue again, and nobody else queues at the back.
Fairness ==
  /\ WF_vars(Main)
  /\ WF_vars(CacheTakes)
  /\ WF_vars(AudioTakes)
  /\ \A t \in Threads : WF_vars(Alloc(t) \/ Return(t)) /\ SF_vars(Put(t))

FairSpec == Spec /\ Fairness

----------------------------------------------------------------------------
(* Properties                                                              *)

Putting   == {t \in Threads : pc[t] = "put"}
InHand    == loader.at # "idle"

\* The entries for load l with this reply, which the loader has still to send: on
\* the queue, and in its hand (0).
ToAnswer(reply, l) ==
  LET e == [load |-> l, reply |-> reply]
  IN  {i \in 0 .. Len(queue) : IF i = 0 THEN loader.at \in {"dma", "reply"} /\ loader.entry = e
                                        ELSE queue[i] = e}

TypeOK ==
  /\ free \in Nat
  /\ queue \in Seq(CLoaderEntry) /\ Len(queue) <= QueueSize
  /\ loader \in [at : {"idle", "dma", "reply", "free"}, entry : CLoaderEntry]
  /\ pc \in [Threads -> Places]
  /\ call \in [Threads -> [load : Loads, left : Nat]]
  /\ stack \in [Threads -> {0, 1}]
  /\ answers \in Seq(Requests) /\ Len(answers) <= ReplySize
  /\ sound \in [next : 0 .. Windows, came : 0 .. Windows, got : 0 .. Windows, waits : BOOLEAN]
  /\ asked \subseteq Requests
  /\ missing \in [Loads -> Nat]

\* Every entry is on the free list, on the queue, with the loader or with a thread
\* that is about to queue it: none leaks, none is freed twice.
EntriesConserved ==
  PoolSize = free + Len(queue) + (IF InHand THEN 1 ELSE 0) + Cardinality(Putting)

\* The pool never runs dry under a thread that needs an entry, so that no load
\* is given up half way: the queue may be full, every other thread blocked
\* with an entry in front of it, and the loader at work on one more.
PoolSuffices == \A t \in Threads : pc[t] = "alloc" => free > 0

\* The loader replies to a queue on the stack of CLoader__LoadSync only while that
\* call waits there, once, and never blocks on it.
StackQueueAlive ==
  \A t \in Threads :
     IF pc[t] = "wait" /\ stack[t] = 0
     THEN \E i \in 0 .. Len(queue) : ToAnswer("stack", t) = {i}
     ELSE ToAnswer("stack", t) = {}

\* A reply says that all there is to load is in memory, though the loader may
\* have done other loads between the chunks of this one.
AnswerMeansLoaded ==
  /\ \A i \in 1 .. Len(answers) : missing[answers[i]] = 0
  /\ \A t \in SyncThreads : /\ pc[t] = "out" => missing[t] = 0
                            /\ stack[t] = 1 => missing[t] = call[t].left - 1

\* The replies the audio manager is still to take are all to come: it would wait
\* for ever for one that is not, and the next frame would begin with one too many.
AudioOwed ==
  sound.next - sound.got = sound.came + (IF pc[Audio] = "out" THEN 0 ELSE 1)
                           + Cardinality(ToAnswer("audio", Audio))

\* Only loads that keep jamming themselves in front can keep a load from its end.
LoadsFinish ==
  (<>[][~Jam]_vars) => /\ \A l \in Loads : (missing[l] > 0) ~> (missing[l] = 0)
                       /\ \A r \in Requests : (r \in asked) ~> (r \notin asked)
                       /\ sound.waits ~> ~sound.waits
=============================================================================
