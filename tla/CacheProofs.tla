---------------------------- MODULE CacheProofs ----------------------------
(* The cache, for any number of display lists, entries and records of       *)
(* memory.  First the answers: whoever waits for the cache is answered,     *)
(* once.  They do not depend on what the memory holds, only on the flags    *)
(* and counts of the lists, the queues, and where each thread is (IInv).    *)
(* Then the groundwork for the records (module CacheRecordsProofs): what    *)
(* RInv says that each queue and each thread may rely on, what each         *)
(* operator of the cache does to sound records, and what a step that moves  *)
(* the requests E and the memory M (Moves) leaves to all the others (the    *)
(* lemmas named Others... and ...Carried); and the steps that end requests. *)
EXTENDS Cache, FiniteSetTheorems, TLAPS, FunctionTheorems, WellFoundedInduction

\* Where the main thread waits for another, or works on the current list.
Special == {"wait", "unpack", "draw"}

SomeEntry == Entries \cup {None}
JobRecord == [entry : SomeEntry, sync : BOOLEAN]

\* The types of what decides the answers.
Shapes ==
  /\ \E S : answers \in Seq(S)
  /\ jobs \in Seq(JobRecord)
  /\ blocker \in Nat
  /\ dlist \in [valid : [Lists -> BOOLEAN], blocking : [Lists -> BOOLEAN],
                count : [Lists -> Nat], current : Lists \cup {None}]
  /\ shown \subseteq Lists
  /\ cacher \in [at : {"idle", "release", "undo"}, list : Lists \cup {None}, entry : SomeEntry]
  /\ DOMAIN main = DOMAIN Away /\ main.entry \in SomeEntry
  /\ main.at = "wait" => main.left \in Nat \ {0}
  /\ DOMAIN unpacker = {"at", "entry", "from", "mem", "sync"}
  /\ unpacker.entry \in SomeEntry /\ unpacker.sync \in BOOLEAN

\* Exactly one decompression is waited for while the main thread waits for one.
SyncJobs == {i \in 1 .. Len(jobs) : jobs[i].sync}

OneSyncJob ==
  IF main.at # "unpack" THEN SyncJobs = {} /\ ~unpacker.sync
  ELSE IF unpacker.sync THEN SyncJobs = {} /\ unpacker.entry = main.entry
  ELSE \E i \in 1 .. Len(jobs) : SyncJobs = {i} /\ jobs[i].entry = main.entry

\* Messages of released lists, and of those that will be released.
MessagesOwed ==
  blocker + Cardinality(Owed) = IF main.at = "wait" THEN main.left ELSE 0

\* A list that locks memory, or is waited for, is the current one or comes to be
\* released.
ListsCome ==
  /\ \A l \in Owed : Comes(l)
  /\ \A l \in Lists : dlist.count[l] # 0 => dlist.valid[l] /\ (dlist.current = l \/ Comes(l))

\* The threads are where their state says.
Places ==
  /\ cacher.at = "release" <=> cacher.list # None
  /\ unpacker.at = "idle" => ~unpacker.sync
  /\ main.at = "draw" => main.to = dlist.current /\ dlist.current # None

IInv == Shapes /\ OneSyncJob /\ MessagesOwed /\ ListsCome /\ Places

----------------------------------------------------------------------------
\* The lists that are waited for are finitely many.
LEMMA OwedFinite ==
  /\ IsFiniteSet(Owed) /\ Cardinality(Owed) \in Nat
  /\ Cardinality(Owed) = 0 <=> Owed = {}
<1>1. IsFiniteSet(Owed)
  BY CacheSound, FS_Subset DEF Owed
<1> QED
  BY <1>1, FS_CardinalityType, FS_EmptySet

\* The property from the invariant.
LEMMA Answered == IInv => WaitsAnswered
<1> SUFFICES ASSUME IInv PROVE WaitsAnswered
  OBVIOUS
<1>1. ASSUME main.at = "unpack"
      PROVE  \/ \E i \in DOMAIN jobs : jobs[i] = [entry |-> main.entry, sync |-> TRUE]
             \/ unpacker.entry = main.entry /\ unpacker.sync
  <2>1. CASE unpacker.sync
    BY <1>1, <2>1 DEF IInv, OneSyncJob
  <2>2. CASE ~unpacker.sync
    <3>1. PICK i \in 1 .. Len(jobs) : SyncJobs = {i} /\ jobs[i].entry = main.entry
      BY <1>1, <2>2 DEF IInv, OneSyncJob
    <3>2. i \in DOMAIN jobs /\ jobs[i] \in JobRecord
      <4>1. jobs \in Seq(JobRecord)
        BY DEF IInv, Shapes
      <4> QED
        BY <4>1, <3>1
    <3>3. i \in SyncJobs
      BY <3>1
    <3>4. jobs[i] = [entry |-> main.entry, sync |-> TRUE]
      BY <3>1, <3>2, <3>3 DEF SyncJobs, JobRecord
    <3> QED
      BY <3>2, <3>4
  <2> QED
    BY <2>1, <2>2
<1> QED
  BY <1>1 DEF IInv, MessagesOwed, ListsCome, WaitsAnswered

\* Nobody waits at the start.
LEMMA Initially == Init => IInv
<1> SUFFICES ASSUME Init PROVE IInv
  OBVIOUS
<1>1. Shapes
  BY DEF Init, Shapes, Away, SomeEntry, JobRecord
<1>2. Owed = {} /\ SyncJobs = {}
  BY DEF Init, Owed, SyncJobs
<1>3. OneSyncJob
  BY <1>2 DEF Init, OneSyncJob, Away
<1>4. MessagesOwed
  BY <1>2, OwedFinite DEF Init, MessagesOwed, Away
<1>5. ListsCome /\ Places
  BY <1>2 DEF Init, ListsCome, Places, Away
<1> QED
  BY <1>1, <1>3, <1>4, <1>5 DEF IInv

----------------------------------------------------------------------------
(* Steps that concern neither the lists nor a decompression that is waited  *)
(* for                                                                      *)

\* What the lists, and who waits for them, depend on.
ListsSame == UNCHANGED <<answers, blocker, dlist, shown, cacher>>

\* The main thread's step leaves every promise to it as it was.
MainMoves ==
  /\ main.at \notin Special /\ main'.at \notin Special
  /\ DOMAIN main' = DOMAIN Away /\ main'.entry \in SomeEntry

\* Steps that leave lists, queues and the decompressor alone break no promise.
LEMMA QuietStep ==
  ASSUME IInv, ListsSame, UNCHANGED <<jobs, unpacker>>, MainMoves \/ UNCHANGED main
  PROVE  IInv'
<1>1. Shapes'
  BY DEF IInv, ListsSame, MainMoves, Shapes, Special
<1>2. OneSyncJob'
  BY DEF IInv, MainMoves, OneSyncJob, SyncJobs, Special
<1>3. MessagesOwed'
  BY DEF IInv, ListsSame, MainMoves, MessagesOwed, Owed, Special
<1>4. ListsCome' /\ Places'
  BY DEF IInv, ListsSame, MainMoves, ListsCome, Places, Owed, Comes, Special
<1> QED
  BY <1>1, <1>2, <1>3, <1>4 DEF IInv

\* The call returns to the game, or goes on with an index that was probed.
LEMMA ReturnsMoves ==
  ASSUME IInv, main.at \notin Special, NEW m, Returns(m)
  PROVE  MainMoves
<1>1. DOMAIN main = DOMAIN Away /\ "at" \in DOMAIN Away /\ main.entry \in SomeEntry
  BY DEF IInv, Shapes, Away
<1>2. CASE main' = [main EXCEPT !.at = "probed", !.mem = m]
  BY <1>1, <1>2 DEF MainMoves, Special
<1>3. CASE main' = Away \/ main' = [Away EXCEPT !.at = "stopped"]
  BY <1>3 DEF MainMoves, Special, Away, SomeEntry
<1> QED
  BY <1>2, <1>3 DEF Returns

\* Calls of the game that start a request, or end at once.
LEMMA CallSteps ==
  ASSUME IInv,
         \/ \E k \in Keys, s \in BOOLEAN : Request(k, s)
         \/ \E k \in Keys : LoadPersistantIndex(k) \/ Touch(k)
         \/ \E k \in Keys, m \in Mems : RequestDecompression(k, m)
         \/ \E n \in Own, recentToo, top \in BOOLEAN : Allocate(n, recentToo, top)
         \/ \E m \in Mems : TouchAndLock(m) \/ Unlock(m) \/ Deallocate(m)
         \/ SetFrameDelay \/ Advance
         \/ \E m \in Mems : Compact(m)
  PROVE  IInv'
<1>1. ListsSame /\ UNCHANGED <<jobs, unpacker>>
  BY DEF Request, LoadPersistantIndex, Touch, RequestDecompression, Allocate, TouchAndLock,
         Unlock, Deallocate, SetFrameDelay, Advance, Compact, ListsSame, syncVars,
         clientVars, workVars
<1>2. MainMoves \/ UNCHANGED main
  <2>1. CASE \/ \E k \in Keys, s \in BOOLEAN : Request(k, s)
             \/ \E k \in Keys : LoadPersistantIndex(k)
             \/ \E k \in Keys, m \in Mems : RequestDecompression(k, m)
             \/ Advance
    BY <2>1 DEF Request, LoadPersistantIndex, RequestDecompression, Advance, CallRequest,
                MainAt, MainHasLock, MainMoves, Special, Away, SomeEntry
  <2>2. CASE ~ \/ \E k \in Keys, s \in BOOLEAN : Request(k, s)
               \/ \E k \in Keys : LoadPersistantIndex(k)
               \/ \E k \in Keys, m \in Mems : RequestDecompression(k, m)
               \/ Advance
    BY <2>2 DEF Touch, Allocate, TouchAndLock, Unlock, Deallocate, SetFrameDelay, Compact
  <2> QED
    BY <2>1, <2>2
<1> QED
  BY <1>1, <1>2, QuietStep

\* A free entry is an entry, whatever was freed for it.
LEMMA FreeEntriesAre == \A x : FreeEntries(x) \subseteq SomeEntry
BY DEF FreeEntries, SomeEntry

\* Steps of a request that the main thread takes on its own.
LEMMA RequestSteps ==
  ASSUME IInv,
         \/ RequestHit \/ RequestPending \/ RequestMiss \/ LoadSyncReturns \/ SyncComplete
         \/ IndexProbed \/ RequestWhole \/ MakeHit \/ MakePending \/ MakeMiss \/ MakeUndo
  PROVE  IInv'
<1>1. ListsSame /\ UNCHANGED <<jobs, unpacker>>
  BY DEF RequestHit, RequestPending, RequestMiss, LoadSyncReturns, SyncComplete, IndexProbed,
         RequestWhole, MakeHit, MakePending, MakeMiss, MakeUndo, Returns, Read, ListsSame,
         syncVars, clientVars, workVars
<1>2. DOMAIN main = DOMAIN Away /\ {"at", "entry"} \subseteq DOMAIN Away /\ main.entry \in SomeEntry
  BY DEF IInv, Shapes, Away
<1>3. CASE RequestHit \/ RequestPending \/ MakeHit \/ MakePending \/ MakeUndo
  <2>1. main.at \notin Special /\ \E m : Returns(m)
    BY <1>3 DEF RequestHit, RequestPending, MakeHit, MakePending, MakeUndo, MainAt,
                MainHasLock, Special
  <2> QED
    BY <1>1, <2>1, ReturnsMoves, QuietStep
<1>4. CASE RequestMiss
  <2>1. main.at \notin Special
    BY <1>4 DEF RequestMiss, MainAt, MainHasLock, Special
  <2>2. CASE Returns(None)
    BY <1>1, <2>1, <2>2, ReturnsMoves, QuietStep
  <2>3. CASE ~Returns(None)
    <3>1. PICK e \in SomeEntry : \E x : Read(x, e)
      BY <1>4, <2>3, FreeEntriesAre DEF RequestMiss
    <3> PICK x : Read(x, e)
      BY <3>1
    <3>2. main' = [main EXCEPT !.at = "load", !.entry = e, !.to = x.mem[x.entry[e].mem].at]
      BY <2>3, <3>1 DEF Read
    <3>3. MainMoves
      BY <1>2, <2>1, <3>2 DEF MainMoves, Special
    <3> QED
      BY <1>1, <3>3, QuietStep
  <2> QED
    BY <2>2, <2>3
<1>5. CASE LoadSyncReturns \/ IndexProbed \/ RequestWhole
  <2>1. MainMoves
    BY <1>2, <1>5 DEF LoadSyncReturns, IndexProbed, RequestWhole, CallRequest, MainAt,
                      MainHasLock, MainMoves, Special, Away, SomeEntry
  <2> QED
    BY <1>1, <2>1, QuietStep
<1>6. CASE SyncComplete
  <2>1. main.at \notin Special /\ \E m : Returns(m)
    BY <1>6 DEF SyncComplete, MainAt, MainHasLock, Special
  <2> QED
    BY <1>1, <2>1, ReturnsMoves, QuietStep
<1>7. CASE MakeMiss
  <2>1. main.at \notin Special
    BY <1>7 DEF MakeMiss, MainAt, MainHasLock, Special
  <2>2. CASE Returns(None)
    BY <1>1, <2>1, <2>2, ReturnsMoves, QuietStep
  <2>3. CASE ~Returns(None)
    <3>1. PICK e \in SomeEntry :
            main' = [main EXCEPT !.at = IF delay > 0 THEN "jam" ELSE "send", !.entry = e]
      BY <1>7, <2>3, FreeEntriesAre DEF MakeMiss
    <3>2. MainMoves
      BY <1>2, <2>1, <3>1 DEF MainMoves, Special
    <3> QED
      BY <1>1, <3>2, QuietStep
  <2> QED
    BY <2>2, <2>3
<1> QED
  BY <1>3, <1>4, <1>5, <1>6, <1>7

\* The end of a compaction or of a flush.
LEMMA FlushEndSteps == ASSUME IInv, CompactEnds \/ FlushLocks \/ FlushFrees PROVE IInv'
<1>1. ListsSame /\ UNCHANGED <<jobs, unpacker>>
  BY DEF CompactEnds, FlushLocks, FlushFrees, ListsSame, syncVars, clientVars, workVars
<1>2. main.at \in {"compact", "lock", "free"}
  BY DEF CompactEnds, FlushLocks, FlushFrees, MainAt, MainHasLock
<1>3. \/ main' = Away
      \/ main' = [Away EXCEPT !.at = "free"]
      \/ main' = [Away EXCEPT !.at = "compact"]
  BY DEF CompactEnds, FlushLocks, FlushFrees
<1>4. MainMoves
  BY <1>2, <1>3 DEF MainMoves, Special, Away, SomeEntry
<1> QED
  BY <1>1, <1>4, QuietStep

----------------------------------------------------------------------------
(* Display lists                                                            *)

\* A step of the lists leaves the decompressions as they are.
LEMMA NoJobMoves ==
  ASSUME IInv, UNCHANGED <<jobs, unpacker>>,
         UNCHANGED main \/ (main.at # "unpack" /\ main'.at # "unpack")
  PROVE  OneSyncJob'
BY DEF IInv, OneSyncJob, SyncJobs

\* The main thread notes the current list before it waits for the lock.
LEMMA DrawFromStep == ASSUME IInv, NEW m \in Mems, DrawFrom(m) PROVE IInv'
<1>1. /\ main.at = "away" /\ dlist.current # None /\ ListsSame
      /\ UNCHANGED <<jobs, unpacker>>
      /\ main' = [Away EXCEPT !.at = "draw", !.mem = m, !.to = dlist.current]
  BY DEF DrawFrom, MainAt, ListsSame, syncVars, clientVars, workVars
<1>2. main'.at = "draw" /\ main'.to = dlist.current /\ main'.entry = None /\ DOMAIN main' = DOMAIN Away
  BY <1>1 DEF Away
<1>3. Shapes'
  BY <1>1, <1>2 DEF IInv, Shapes, ListsSame, SomeEntry
<1>4. OneSyncJob'
  BY <1>1, <1>2, NoJobMoves
<1>5. MessagesOwed' /\ ListsCome'
  BY <1>1, <1>2 DEF IInv, MessagesOwed, ListsCome, Owed, Comes, ListsSame
<1>6. Places'
  BY <1>1, <1>2 DEF IInv, Places, ListsSame
<1> QED
  BY <1>3, <1>4, <1>5, <1>6 DEF IInv

\* A list locks memory only while it is valid, and the current one.
LEMMA LockStep == ASSUME IInv, LockForDisplayList PROVE IInv'
<1> DEFINE l == main.to
<1>1. /\ main.at = "draw" /\ main' = Away /\ UNCHANGED <<jobs, unpacker, shown, cacher>>
      /\ UNCHANGED <<answers, blocker>>
      /\ l = dlist.current /\ l \in Lists
      /\ dlist \in [valid : [Lists -> BOOLEAN], blocking : [Lists -> BOOLEAN],
                    count : [Lists -> Nat], current : Lists \cup {None}]
  BY DEF LockForDisplayList, MainAt, MainHasLock, workVars, IInv, Places, Shapes
<1>2. main'.at = "away" /\ main'.entry = None
  BY <1>1 DEF Away
<1>3. \/ dlist' = dlist
      \/ dlist.valid[l] /\ dlist' = [dlist EXCEPT !.count[l] = @ + 1]
  BY DEF LockForDisplayList
<1> HIDE DEF l
<1>4. /\ dlist' \in [valid : [Lists -> BOOLEAN], blocking : [Lists -> BOOLEAN],
                     count : [Lists -> Nat], current : Lists \cup {None}]
      /\ dlist'.valid = dlist.valid /\ dlist'.blocking = dlist.blocking
      /\ dlist'.current = dlist.current
      /\ \A k \in Lists : dlist'.count[k] # 0 => dlist.count[k] # 0 \/ (k = l /\ dlist.valid[k])
  <2>1. CASE dlist' = dlist
    BY <1>1, <2>1
  <2>2. CASE dlist.valid[l] /\ dlist' = [dlist EXCEPT !.count[l] = @ + 1]
    <3>1. dlist.count[l] \in Nat
      BY <1>1
    <3> QED
      BY <1>1, <2>2, <3>1
  <2> QED
    BY <1>3, <2>1, <2>2
<1>5. Shapes'
  BY <1>1, <1>2, <1>4 DEF IInv, Shapes, SomeEntry
<1>6. OneSyncJob'
  BY <1>1, <1>2, NoJobMoves
<1>7. MessagesOwed'
  BY <1>1, <1>2, <1>4 DEF IInv, MessagesOwed, Owed
<1>8. ListsCome'
  BY <1>1, <1>4 DEF IInv, ListsCome, Owed, Comes
<1>9. Places'
  BY <1>1, <1>2, <1>4 DEF IInv, Places
<1> QED
  BY <1>5, <1>6, <1>7, <1>8, <1>9 DEF IInv

\* CCache__BeginDisplayList makes a list valid again; what is owed stays owed.
LEMMA BeginStep == ASSUME IInv, NEW l \in Lists, BeginDisplayList(l) PROVE IInv'
<1>1. /\ main.at = "away" /\ UNCHANGED <<jobs, unpacker, shown, cacher, answers, blocker, main>>
      /\ dlist.current = None
      /\ dlist' = [dlist EXCEPT !.current = l, !.valid[l] = TRUE]
      /\ dlist \in [valid : [Lists -> BOOLEAN], blocking : [Lists -> BOOLEAN],
                    count : [Lists -> Nat], current : Lists \cup {None}]
  BY DEF BeginDisplayList, MainAt, MainHasLock, workVars, IInv, Shapes
<1>2. /\ dlist' \in [valid : [Lists -> BOOLEAN], blocking : [Lists -> BOOLEAN],
                     count : [Lists -> Nat], current : Lists \cup {None}]
      /\ \A k \in Lists : dlist.valid[k] => dlist'.valid[k]
      /\ dlist'.blocking = dlist.blocking /\ dlist'.count = dlist.count
  BY <1>1
<1>3. Shapes'
  BY <1>1, <1>2 DEF IInv, Shapes
<1>4. OneSyncJob' /\ Places'
  BY <1>1, NoJobMoves DEF IInv, Places
<1>5. MessagesOwed'
  BY <1>1, <1>2 DEF IInv, MessagesOwed, Owed
<1>6. ListsCome'
  BY <1>1, <1>2, CacheSound DEF IInv, ListsCome, Owed, Comes
<1> QED
  BY <1>3, <1>4, <1>5, <1>6 DEF IInv

\* A list that is not valid locks nothing, and is not submitted.
LEMMA EndStep == ASSUME IInv, EndDisplayList PROVE IInv'
<1>1. /\ main.at = "away" /\ UNCHANGED <<jobs, unpacker, cacher, answers, blocker, main>>
      /\ dlist.current # None /\ dlist' = [dlist EXCEPT !.current = None]
      /\ shown' = IF dlist.valid[dlist.current] THEN shown \cup {dlist.current} ELSE shown
      /\ dlist \in [valid : [Lists -> BOOLEAN], blocking : [Lists -> BOOLEAN],
                    count : [Lists -> Nat], current : Lists \cup {None}]
  BY DEF EndDisplayList, MainAt, MainHasLock, workVars, IInv, Shapes
<1>2. /\ dlist' \in [valid : [Lists -> BOOLEAN], blocking : [Lists -> BOOLEAN],
                     count : [Lists -> Nat], current : Lists \cup {None}]
      /\ dlist'.valid = dlist.valid /\ dlist'.blocking = dlist.blocking
      /\ dlist'.count = dlist.count /\ dlist.current \in Lists
  BY <1>1
<1>3. shown' \subseteq Lists /\ shown \subseteq shown'
  BY <1>1, <1>2 DEF IInv, Shapes
<1>4. Shapes'
  BY <1>1, <1>2, <1>3 DEF IInv, Shapes
<1>5. OneSyncJob' /\ Places'
  BY <1>1, NoJobMoves DEF IInv, Places
<1>6. MessagesOwed'
  BY <1>1, <1>2 DEF IInv, MessagesOwed, Owed
<1>7. ListsCome'
  BY <1>1, <1>2, <1>3 DEF IInv, ListsCome, Owed, Comes
<1> QED
  BY <1>4, <1>5, <1>6, <1>7 DEF IInv

\* A flush finds no message and no flag of another one: it waits for as many
\* messages as lists it flags.
LEMMA FlushStep == ASSUME IInv, Flush PROVE IInv'
<1> DEFINE busy  == {l \in Lists : dlist.count[l] # 0}
           mine  == busy \cap {dlist.current}
           waits == busy \ mine
<1>1. /\ main.at = "away" /\ UNCHANGED <<jobs, unpacker, cacher, answers, blocker, shown>>
      /\ dlist' = [dlist EXCEPT
                !.valid = [l \in Lists |-> @[l] /\ l \notin mine],
                !.count = [l \in Lists |-> IF l \in mine THEN 0 ELSE @[l]],
                !.blocking = [l \in Lists |-> @[l] \/ l \in waits]]
      /\ main' = [Away EXCEPT !.at = IF waits = {} THEN "free" ELSE "wait",
                              !.left = Cardinality(waits)]
      /\ dlist \in [valid : [Lists -> BOOLEAN], blocking : [Lists -> BOOLEAN],
                    count : [Lists -> Nat], current : Lists \cup {None}]
  BY DEF Flush, MainAt, MainHasLock, workVars, IInv, Shapes
<1>2. /\ IsFiniteSet(waits) /\ Cardinality(waits) \in Nat
      /\ Cardinality(waits) = 0 <=> waits = {}
  <2>1. IsFiniteSet(waits)
    BY CacheSound, FS_Subset
  <2> QED
    BY <2>1, FS_CardinalityType, FS_EmptySet
<1>3. /\ \A l \in waits : l \in Lists /\ dlist.count[l] # 0 /\ dlist.current # l
      /\ \A l \in Lists \ waits : dlist.count[l] = 0 \/ l \in mine
      /\ mine \subseteq Lists
  OBVIOUS
<1> HIDE DEF mine, waits
<1>4. blocker = 0 /\ Owed = {}
  BY <1>1, OwedFinite DEF IInv, MessagesOwed, Shapes
<1>5. /\ dlist' \in [valid : [Lists -> BOOLEAN], blocking : [Lists -> BOOLEAN],
                     count : [Lists -> Nat], current : Lists \cup {None}]
      /\ dlist'.current = dlist.current
      /\ \A l \in Lists : /\ dlist'.blocking[l] <=> dlist.blocking[l] \/ l \in waits
                          /\ dlist'.count[l] = IF l \in mine THEN 0 ELSE dlist.count[l]
                          /\ dlist'.valid[l] <=> dlist.valid[l] /\ l \notin mine
  BY <1>1
<1>6. /\ main'.at = IF waits = {} THEN "free" ELSE "wait"
      /\ main'.left = Cardinality(waits) /\ main'.entry = None /\ DOMAIN main' = DOMAIN Away
  BY <1>1 DEF Away
<1>7. Owed' = waits
  BY <1>3, <1>4, <1>5 DEF Owed
<1>8. Shapes'
  <2>1. main'.at = "wait" => main'.left \in Nat \ {0}
    BY <1>2, <1>6
  <2>2. DOMAIN main' = DOMAIN Away /\ main'.entry \in SomeEntry
    BY <1>6 DEF SomeEntry
  <2> QED
    BY <1>1, <1>5, <2>1, <2>2 DEF IInv, Shapes
<1>9. OneSyncJob'
  BY <1>1, <1>6, NoJobMoves
<1>10. MessagesOwed'
  BY <1>1, <1>2, <1>4, <1>6, <1>7 DEF MessagesOwed
<1>11. ListsCome'
  <2>1. \A l \in waits : Comes(l)
    BY <1>3 DEF IInv, ListsCome
  <2> QED
    BY <1>1, <1>5, <1>7, <2>1 DEF IInv, ListsCome, Comes
<1>12. Places'
  BY <1>1, <1>6 DEF IInv, Places
<1> QED
  BY <1>8, <1>9, <1>10, <1>11, <1>12 DEF IInv

\* Each message a flush takes is one that is owed to it.
LEMMA FlushWaitsStep == ASSUME IInv, FlushWaits PROVE IInv'
<1>1. /\ main.at = "wait" /\ blocker > 0 /\ blocker' = blocker - 1
      /\ UNCHANGED <<jobs, unpacker, cacher, answers, dlist, shown>>
      /\ main' = IF main.left = 1 THEN [Away EXCEPT !.at = "lock"]
                 ELSE [main EXCEPT !.left = @ - 1]
      /\ main.left \in Nat \ {0} /\ blocker \in Nat
  BY DEF FlushWaits, MainAt, clientVars, workVars, IInv, Shapes
<1>2. /\ DOMAIN main = DOMAIN Away /\ {"at", "left", "entry"} \subseteq DOMAIN Away
      /\ main.entry \in SomeEntry
  BY DEF IInv, Shapes, Away
<1>3. /\ DOMAIN main' = DOMAIN Away /\ main'.entry \in SomeEntry
      /\ IF main.left = 1 THEN main'.at = "lock" ELSE main'.at = "wait" /\ main'.left = main.left - 1
  <2>1. CASE main.left = 1
    BY <1>1, <2>1 DEF Away, SomeEntry
  <2>2. CASE main.left # 1
    BY <1>1, <1>2, <2>2
  <2> QED
    BY <2>1, <2>2
<1>4. Shapes'
  BY <1>1, <1>3 DEF IInv, Shapes
<1>5. OneSyncJob' /\ Places'
  BY <1>1, <1>3, NoJobMoves DEF IInv, Places
<1>6. MessagesOwed'
  <2>1. Owed' = Owed
    BY <1>1 DEF Owed
  <2> QED
    BY <1>1, <1>3, <2>1, OwedFinite DEF IInv, MessagesOwed
<1>7. ListsCome'
  BY <1>1 DEF IInv, ListsCome, Owed, Comes
<1> QED
  BY <1>4, <1>5, <1>6, <1>7 DEF IInv

----------------------------------------------------------------------------
(* The queue of the cache's thread                                          *)

\* What is put on the queue or taken off it.
LEMMA QueueGrows ==
  ASSUME \E S : answers \in Seq(S), NEW x, answers' = Append(answers, x)
  PROVE  /\ \E S : answers' \in Seq(S)
         /\ \A y : (\E i \in DOMAIN answers : answers[i] = y) \/ x = y
                   <=> \E i \in DOMAIN answers' : answers'[i] = y
<1>1. PICK S : answers \in Seq(S)
  OBVIOUS
<1>2. answers \in Seq(S \cup {x}) /\ x \in S \cup {x}
  BY <1>1
<1>3. /\ answers' \in Seq(S \cup {x}) /\ Len(answers') = Len(answers) + 1
      /\ Len(answers) \in Nat
      /\ answers'[Len(answers) + 1] = x
      /\ \A i \in 1 .. Len(answers) : answers'[i] = answers[i]
      /\ DOMAIN answers = 1 .. Len(answers) /\ DOMAIN answers' = 1 .. Len(answers) + 1
  BY <1>2
<1>4. ASSUME NEW y
      PROVE  (\E i \in DOMAIN answers : answers[i] = y) \/ x = y
             <=> \E i \in DOMAIN answers' : answers'[i] = y
  <2>1. ASSUME NEW i \in DOMAIN answers, answers[i] = y
        PROVE  i \in DOMAIN answers' /\ answers'[i] = y
    BY <1>3, <2>1
  <2>2. ASSUME NEW i \in DOMAIN answers', answers'[i] = y
        PROVE  (i \in DOMAIN answers /\ answers[i] = y) \/ x = y
    BY <1>3, <2>2
  <2>3. Len(answers) + 1 \in DOMAIN answers'
    BY <1>3
  <2> QED
    BY <1>3, <2>1, <2>2, <2>3
<1> QED
  BY <1>3, <1>4

\* What is taken from the queue of answers is its head, and no more.
LEMMA QueueShrinks ==
  ASSUME \E S : answers \in Seq(S), answers # <<>>, answers' = Tail(answers)
  PROVE  /\ \E S : answers' \in Seq(S)
         /\ \A y : (\E i \in DOMAIN answers : answers[i] = y)
                   => y = Head(answers) \/ \E i \in DOMAIN answers' : answers'[i] = y
<1>1. PICK S : answers \in Seq(S)
  OBVIOUS
<1>2. /\ answers' \in Seq(S) /\ Len(answers) \in Nat \ {0}
      /\ DOMAIN answers = 1 .. Len(answers) /\ DOMAIN answers' = 1 .. Len(answers) - 1
      /\ \A i \in 1 .. Len(answers) - 1 : answers'[i] = answers[i + 1]
      /\ Head(answers) = answers[1]
  BY <1>1
<1>3. ASSUME NEW i \in DOMAIN answers, i # 1
      PROVE  i - 1 \in DOMAIN answers' /\ answers'[i - 1] = answers[i]
  BY <1>2, <1>3
<1> QED
  BY <1>2, <1>3

\* What the steps of the other threads leave to the main thread.
LEMMA PostStep == ASSUME IInv, NEW l \in Lists, PostDisplayListDone(l) PROVE IInv'
<1>1. /\ UNCHANGED <<jobs, unpacker, cacher, dlist, blocker, main>>
      /\ answers' = Append(answers, l) /\ shown' = shown \ {l}
  BY DEF PostDisplayListDone, workVars
<1>2. /\ \E S : answers' \in Seq(S)
      /\ \A y : (\E i \in DOMAIN answers : answers[i] = y) \/ l = y
                   => \E i \in DOMAIN answers' : answers'[i] = y
  BY <1>1, QueueGrows DEF IInv, Shapes
<1>3. Shapes'
  BY <1>1, <1>2 DEF IInv, Shapes
<1>4. OneSyncJob' /\ Places' /\ MessagesOwed'
  BY <1>1, NoJobMoves DEF IInv, Places, MessagesOwed, Owed
<1>5. \A k \in Lists : Comes(k) => Comes(k)'
  BY <1>1, <1>2 DEF Comes
<1>6. ListsCome'
  BY <1>1, <1>5 DEF IInv, ListsCome, Owed
<1> QED
  BY <1>3, <1>4, <1>6 DEF IInv

\* The loader's answer is an entry: no list is lost in the queue.
LEMMA LoadAnsweredStep == ASSUME IInv, LoadAnswered PROVE IInv'
<1>1. /\ UNCHANGED <<jobs, unpacker, cacher, dlist, blocker, main, shown>>
      /\ answers' = Append(answers, Head(loads).entry)
  BY DEF LoadAnswered, clientVars
<1>2. /\ \E S : answers' \in Seq(S)
      /\ \A y : (\E i \in DOMAIN answers : answers[i] = y)
                   => \E i \in DOMAIN answers' : answers'[i] = y
  BY <1>1, QueueGrows DEF IInv, Shapes
<1>3. Shapes'
  BY <1>1, <1>2 DEF IInv, Shapes
<1>4. OneSyncJob' /\ Places' /\ MessagesOwed'
  BY <1>1, NoJobMoves DEF IInv, Places, MessagesOwed, Owed
<1>5. \A k \in Lists : Comes(k) => Comes(k)'
  BY <1>1, <1>2 DEF Comes
<1>6. ListsCome'
  BY <1>1, <1>5 DEF IInv, ListsCome, Owed
<1> QED
  BY <1>3, <1>4, <1>6 DEF IInv

\* The list that is taken off the queue is the one that is released next.
LEMMA TakeListStep == ASSUME IInv, TakeList PROVE IInv'
<1>1. /\ UNCHANGED <<jobs, unpacker, dlist, blocker, main, shown>>
      /\ cacher.at = "idle" /\ answers # <<>> /\ Head(answers) \in Lists
      /\ answers' = Tail(answers)
      /\ cacher' = [cacher EXCEPT !.at = "release", !.list = Head(answers)]
      /\ cacher \in [at : {"idle", "release", "undo"}, list : Lists \cup {None}, entry : SomeEntry]
  BY DEF TakeList, Received, clientVars, IInv, Shapes
<1>2. /\ \E S : answers' \in Seq(S)
      /\ \A y : (\E i \in DOMAIN answers : answers[i] = y)
                   => y = Head(answers) \/ \E i \in DOMAIN answers' : answers'[i] = y
  BY <1>1, QueueShrinks DEF IInv, Shapes
<1>3. /\ cacher' \in [at : {"idle", "release", "undo"}, list : Lists \cup {None}, entry : SomeEntry]
      /\ cacher'.at = "release" /\ cacher'.list = Head(answers) /\ cacher.list = None
  BY <1>1 DEF IInv, Places
<1>4. Shapes'
  BY <1>1, <1>2, <1>3 DEF IInv, Shapes
<1>5. OneSyncJob' /\ MessagesOwed'
  BY <1>1, NoJobMoves DEF IInv, MessagesOwed, Owed
<1>6. Places'
  BY <1>1, <1>3, CacheSound DEF IInv, Places
<1>7. \A k \in Lists : Comes(k) => Comes(k)'
  BY <1>1, <1>2, <1>3, CacheSound DEF Comes
<1>8. ListsCome'
  BY <1>1, <1>7 DEF IInv, ListsCome, Owed
<1> QED
  BY <1>4, <1>5, <1>6, <1>8 DEF IInv

\* The list is released: who waits for it has the message, and nothing is locked
\* for it any more.
LEMMA ReleaseStep == ASSUME IInv, ReleaseDisplayList PROVE IInv'
<1> DEFINE l == cacher.list
<1>1. /\ UNCHANGED <<jobs, unpacker, main, shown, answers>>
      /\ cacher.at = "release" /\ cacher' = [cacher EXCEPT !.at = "idle", !.list = None]
      /\ dlist.blocking[l] => blocker = 0
      /\ blocker' = IF dlist.blocking[l] THEN 1 ELSE blocker
      /\ dlist' = [dlist EXCEPT !.blocking[l] = FALSE, !.count[l] = 0]
      /\ cacher \in [at : {"idle", "release", "undo"}, list : Lists \cup {None}, entry : SomeEntry]
      /\ dlist \in [valid : [Lists -> BOOLEAN], blocking : [Lists -> BOOLEAN],
                    count : [Lists -> Nat], current : Lists \cup {None}]
      /\ blocker \in Nat
  BY DEF ReleaseDisplayList, clientVars, IInv, Shapes
<1>2. l \in Lists
  BY <1>1 DEF IInv, Places
<1> HIDE DEF l
<1>3. /\ dlist' \in [valid : [Lists -> BOOLEAN], blocking : [Lists -> BOOLEAN],
                     count : [Lists -> Nat], current : Lists \cup {None}]
      /\ dlist'.current = dlist.current /\ dlist'.valid = dlist.valid
      /\ \A k \in Lists : /\ dlist'.blocking[k] <=> dlist.blocking[k] /\ k # l
                          /\ dlist'.count[k] = IF k = l THEN 0 ELSE dlist.count[k]
  BY <1>1, <1>2
<1>4. /\ cacher' \in [at : {"idle", "release", "undo"}, list : Lists \cup {None}, entry : SomeEntry]
      /\ cacher'.at = "idle" /\ cacher'.list = None
  BY <1>1
<1>5. Shapes'
  BY <1>1, <1>3, <1>4 DEF IInv, Shapes
<1>6. OneSyncJob' /\ Places'
  BY <1>1, <1>3, <1>4, NoJobMoves DEF IInv, Places
<1>7. MessagesOwed'
  <2>1. Owed' = Owed \ {l}
    BY <1>3 DEF Owed
  <2>2. blocker' + Cardinality(Owed \ {l}) = blocker + Cardinality(Owed)
    <3>1. CASE dlist.blocking[l]
      <4>1. l \in Owed
        BY <1>2, <3>1 DEF Owed
      <4>2. Cardinality(Owed \ {l}) = Cardinality(Owed) - 1
        BY <4>1, OwedFinite, FS_RemoveElement
      <4> QED
        BY <1>1, <3>1, <4>2, OwedFinite DEF l
    <3>2. CASE ~dlist.blocking[l]
      <4>1. Owed \ {l} = Owed
        BY <3>2 DEF Owed
      <4> QED
        BY <1>1, <3>2, <4>1 DEF l
    <3> QED
      BY <3>1, <3>2
  <2> QED
    BY <1>1, <2>1, <2>2 DEF IInv, MessagesOwed
<1>8. \A k \in Lists \ {l} : Comes(k) => Comes(k)'
  BY <1>1 DEF Comes, l
<1>9. ListsCome'
  BY <1>3, <1>8 DEF IInv, ListsCome, Owed
<1> QED
  BY <1>5, <1>6, <1>7, <1>9 DEF IInv

\* The cache's thread takes an entry that has no need of the decompressor, or
\* gives one up.
LEMMA CacherSteps == ASSUME IInv, TakeComplete \/ Undo PROVE IInv'
<1>1. UNCHANGED <<jobs, unpacker, dlist, blocker, main, shown>>
  BY DEF TakeComplete, Undo, clientVars, syncVars, workVars
<1>2. CASE TakeComplete
  <2>1. /\ answers # <<>> /\ Head(answers) \in Entries /\ answers' = Tail(answers)
        /\ cacher' = cacher
    BY <1>2 DEF TakeComplete, Received, workVars
  <2>2. /\ \E S : answers' \in Seq(S)
        /\ \A y : (\E i \in DOMAIN answers : answers[i] = y)
                     => y = Head(answers) \/ \E i \in DOMAIN answers' : answers'[i] = y
    BY <2>1, QueueShrinks DEF IInv, Shapes
  <2>3. Shapes'
    BY <1>1, <2>1, <2>2 DEF IInv, Shapes
  <2>4. OneSyncJob' /\ Places' /\ MessagesOwed'
    BY <1>1, <2>1, NoJobMoves DEF IInv, Places, MessagesOwed, Owed
  <2>5. \A k \in Lists : Comes(k) => Comes(k)'
    BY <1>1, <2>1, <2>2, CacheSound DEF Comes
  <2>6. ListsCome'
    BY <1>1, <2>5 DEF IInv, ListsCome, Owed
  <2> QED
    BY <2>3, <2>4, <2>6 DEF IInv
<1>3. CASE Undo
  <2>1. /\ cacher.at = "undo" /\ answers' = answers
        /\ cacher' = [cacher EXCEPT !.at = "idle", !.entry = None]
        /\ cacher \in [at : {"idle", "release", "undo"}, list : Lists \cup {None}, entry : SomeEntry]
    BY <1>3 DEF Undo, syncVars, IInv, Shapes
  <2>2. /\ cacher' \in [at : {"idle", "release", "undo"}, list : Lists \cup {None}, entry : SomeEntry]
        /\ cacher'.at = "idle" /\ cacher'.list = cacher.list
    BY <2>1 DEF SomeEntry
  <2>3. Shapes'
    BY <1>1, <2>1, <2>2 DEF IInv, Shapes
  <2>4. OneSyncJob' /\ Places' /\ MessagesOwed' /\ ListsCome'
    BY <1>1, <2>1, <2>2, NoJobMoves DEF IInv, Places, MessagesOwed, Owed, ListsCome, Comes
  <2> QED
    BY <2>3, <2>4 DEF IInv
<1> QED
  BY <1>2, <1>3

----------------------------------------------------------------------------
(* The decompressor's queue                                                 *)

\* A job that is not waited for goes to the back.
LEMMA AsyncJob ==
  ASSUME IInv, NEW e \in SomeEntry, jobs' = Append(jobs, [entry |-> e, sync |-> FALSE])
  PROVE  /\ jobs' \in Seq(JobRecord) /\ SyncJobs' = SyncJobs
         /\ \A i \in SyncJobs : i \in 1 .. Len(jobs') /\ jobs'[i] = jobs[i]
<1> DEFINE j == [entry |-> e, sync |-> FALSE]
<1>1. j \in JobRecord /\ j.sync = FALSE
  BY DEF JobRecord
<1>2. jobs \in Seq(JobRecord) /\ jobs' = Append(jobs, j)
  BY DEF IInv, Shapes
<1> HIDE DEF j
<1>3. /\ jobs' \in Seq(JobRecord) /\ Len(jobs') = Len(jobs) + 1 /\ Len(jobs) \in Nat
      /\ \A i \in 1 .. Len(jobs) : jobs'[i] = jobs[i]
      /\ jobs'[Len(jobs) + 1] = j
  BY <1>1, <1>2
<1>4. \A i \in 1 .. Len(jobs') : i \in 1 .. Len(jobs) \/ i = Len(jobs) + 1
  BY <1>3
<1> QED
  BY <1>1, <1>3, <1>4 DEF SyncJobs

\* Such a job leaves the one that is waited for where it is.
LEMMA AsyncJobKeeps ==
  ASSUME IInv, NEW e \in SomeEntry, jobs' = Append(jobs, [entry |-> e, sync |-> FALSE]),
         UNCHANGED unpacker,
         UNCHANGED main \/ (main.at # "unpack" /\ main'.at # "unpack")
  PROVE  OneSyncJob'
<1>1. /\ SyncJobs' = SyncJobs
      /\ \A i \in SyncJobs : i \in 1 .. Len(jobs') /\ jobs'[i] = jobs[i]
  BY AsyncJob
<1> QED
  BY <1>1 DEF IInv, OneSyncJob

\* A decompression that nobody waits for is no synchronous job.
LEMMA MakeAsyncStep == ASSUME IInv, MakeAsync PROVE IInv'
<1>1. /\ ListsSame /\ UNCHANGED unpacker /\ main.at = "send"
      /\ DOMAIN main = DOMAIN Away /\ {"at", "entry"} \subseteq DOMAIN Away
      /\ main.entry \in SomeEntry
  BY DEF MakeAsync, Returns, MainAt, ListsSame, syncVars, clientVars, IInv, Shapes, Away
<1>2. CASE Len(jobs) < JobsSize
  <2>1. jobs' = Append(jobs, [entry |-> main.entry, sync |-> FALSE]) /\ Returns(None)
    BY <1>2 DEF MakeAsync
  <2>2. MainMoves
    BY <1>1, <2>1, ReturnsMoves DEF Special
  <2>3. jobs' \in Seq(JobRecord) /\ OneSyncJob'
    BY <1>1, <2>1, <2>2, AsyncJob, AsyncJobKeeps DEF MainMoves, Special
  <2>4. Shapes'
    BY <1>1, <2>2, <2>3 DEF IInv, ListsSame, MainMoves, Shapes, Special
  <2>5. MessagesOwed'
    BY <1>1, <2>2 DEF IInv, ListsSame, MainMoves, MessagesOwed, Owed, Special
  <2>6. ListsCome' /\ Places'
    BY <1>1, <2>2 DEF IInv, ListsSame, MainMoves, ListsCome, Places, Owed, Comes, Special
  <2> QED
    BY <2>3, <2>4, <2>5, <2>6 DEF IInv
<1>3. CASE ~(Len(jobs) < JobsSize)
  <2>1. main' = [main EXCEPT !.at = "undo"] /\ jobs' = jobs
    BY <1>3 DEF MakeAsync
  <2>2. MainMoves
    BY <1>1, <2>1 DEF MainMoves, Special
  <2> QED
    BY <1>1, <2>1, <2>2, QuietStep
<1> QED
  BY <1>2, <1>3

\* An entry that is loaded and packed is queued for the decompressor, or kept to
\* be given up.
LEMMA TakeLoadedStep == ASSUME IInv, TakeLoaded PROVE IInv'
<1>1. /\ UNCHANGED <<unpacker, dlist, blocker, main, shown>>
      /\ cacher.at = "idle" /\ answers # <<>> /\ Head(answers) \in Entries
      /\ answers' = Tail(answers)
      /\ \/ jobs' = Append(jobs, [entry |-> Head(answers), sync |-> FALSE]) /\ cacher' = cacher
         \/ jobs' = jobs /\ cacher' = [cacher EXCEPT !.at = "undo", !.entry = Head(answers)]
      /\ cacher \in [at : {"idle", "release", "undo"}, list : Lists \cup {None}, entry : SomeEntry]
      /\ jobs \in Seq(JobRecord)
  BY DEF TakeLoaded, Received, clientVars, IInv, Shapes
<1>2. Head(answers) \in SomeEntry
  BY <1>1 DEF SomeEntry
<1>3. /\ \E S : answers' \in Seq(S)
      /\ \A y : (\E i \in DOMAIN answers : answers[i] = y)
                   => y = Head(answers) \/ \E i \in DOMAIN answers' : answers'[i] = y
  BY <1>1, QueueShrinks DEF IInv, Shapes
<1>4. jobs' \in Seq(JobRecord) /\ OneSyncJob'
  BY <1>1, <1>2, AsyncJob, AsyncJobKeeps, NoJobMoves
<1>5. /\ cacher' \in [at : {"idle", "release", "undo"}, list : Lists \cup {None}, entry : SomeEntry]
      /\ cacher'.at # "release" /\ cacher'.list = cacher.list
  BY <1>1, <1>2
<1>6. Shapes'
  BY <1>1, <1>3, <1>4, <1>5 DEF IInv, Shapes
<1>7. Places' /\ MessagesOwed'
  BY <1>1, <1>5 DEF IInv, Places, MessagesOwed, Owed
<1>8. \A k \in Lists : Comes(k) => Comes(k)'
  BY <1>1, <1>3, <1>5, CacheSound DEF Comes
<1>9. ListsCome'
  BY <1>1, <1>8 DEF IInv, ListsCome, Owed
<1> QED
  BY <1>4, <1>6, <1>7, <1>9 DEF IInv

\* The main thread jams its job and waits for it, and for no other.
LEMMA DecompressSyncStep == ASSUME IInv, DecompressSync PROVE IInv'
<1> DEFINE j == [entry |-> main.entry, sync |-> TRUE]
<1>1. /\ ListsSame /\ UNCHANGED unpacker /\ main.at = "jam"
      /\ jobs' = <<j>> \o jobs /\ main' = [main EXCEPT !.at = "unpack"]
      /\ DOMAIN main = DOMAIN Away /\ {"at", "entry"} \subseteq DOMAIN Away
      /\ main.entry \in SomeEntry
  BY DEF DecompressSync, MainAt, ListsSame, syncVars, clientVars, IInv, Shapes, Away
<1>2. main'.at = "unpack" /\ main'.entry = main.entry /\ DOMAIN main' = DOMAIN Away
  BY <1>1
<1>3. j \in JobRecord /\ j.sync = TRUE /\ j.entry = main.entry
  BY <1>1 DEF JobRecord
<1> HIDE DEF j
<1>4. jobs \in Seq(JobRecord) /\ SyncJobs = {} /\ unpacker.sync = FALSE
  BY <1>1 DEF IInv, Shapes, OneSyncJob
<1>5. /\ jobs' \in Seq(JobRecord) /\ Len(jobs') = Len(jobs) + 1 /\ Len(jobs) \in Nat
      /\ jobs'[1] = j
      /\ \A i \in 2 .. Len(jobs) + 1 : i - 1 \in 1 .. Len(jobs) /\ jobs'[i] = jobs[i - 1]
  BY <1>1, <1>3, <1>4
<1>6. SyncJobs' = {1}
  <2>1. \A i \in 2 .. Len(jobs') : i \notin SyncJobs'
    BY <1>4, <1>5 DEF SyncJobs
  <2>2. 1 \in SyncJobs'
    BY <1>3, <1>5 DEF SyncJobs
  <2>3. \A i \in SyncJobs' : i = 1 \/ i \in 2 .. Len(jobs')
    BY <1>5 DEF SyncJobs
  <2> QED
    BY <2>1, <2>2, <2>3
<1>7. OneSyncJob'
  BY <1>1, <1>2, <1>3, <1>4, <1>5, <1>6 DEF OneSyncJob
<1>8. Shapes'
  BY <1>1, <1>2, <1>5 DEF IInv, ListsSame, Shapes
<1>9. MessagesOwed' /\ ListsCome' /\ Places'
  BY <1>1, <1>2 DEF IInv, ListsSame, MessagesOwed, ListsCome, Places, Owed, Comes
<1> QED
  BY <1>7, <1>8, <1>9 DEF IInv

\* The decompressor takes a job; the one that is waited for stays known.
LEMMA TakeJobStep == ASSUME IInv, TakeJob PROVE IInv'
<1> DEFINE j == Head(jobs)
<1>1. /\ ListsSame /\ UNCHANGED main /\ unpacker.at = "idle" /\ ~unpacker.sync
      /\ jobs \in Seq(JobRecord) /\ jobs # <<>> /\ jobs' = Tail(jobs)
      /\ DOMAIN unpacker = {"at", "entry", "from", "mem", "sync"}
      /\ unpacker' = [unpacker EXCEPT !.at = "alloc", !.entry = Head(jobs).entry,
                        !.sync = Head(jobs).sync, !.from = c.mem[c.entry[Head(jobs).entry].mem].at]
  BY DEF TakeJob, ListsSame, syncVars, clientVars, IInv, Shapes, Places
<1>2. /\ Len(jobs) \in Nat \ {0} /\ j = jobs[1]
      /\ j \in JobRecord
      /\ jobs' \in Seq(JobRecord) /\ Len(jobs') = Len(jobs) - 1
      /\ \A i \in 1 .. Len(jobs) - 1 : jobs'[i] = jobs[i + 1]
  BY <1>1
<1>3. /\ DOMAIN unpacker' = {"at", "entry", "from", "mem", "sync"}
      /\ unpacker'.at = "alloc" /\ unpacker'.entry = j.entry /\ unpacker'.sync = j.sync
  BY <1>1
<1> HIDE DEF j
<1>4. j.entry \in SomeEntry /\ j.sync \in BOOLEAN
  BY <1>2 DEF JobRecord
<1>5. \A i \in 1 .. Len(jobs) - 1 : i \in SyncJobs' <=> i + 1 \in SyncJobs
  BY <1>2 DEF SyncJobs
<1>6. 1 \in SyncJobs <=> j.sync
  BY <1>2 DEF SyncJobs
<1>7. SyncJobs' \subseteq 1 .. Len(jobs) - 1 /\ SyncJobs \subseteq 1 .. Len(jobs)
  BY <1>2 DEF SyncJobs
<1>8. OneSyncJob'
  <2>1. CASE main.at # "unpack"
    <3>1. SyncJobs = {}
      BY <2>1 DEF IInv, OneSyncJob
    <3> QED
      BY <1>1, <1>3, <1>5, <1>6, <1>7, <2>1, <3>1 DEF OneSyncJob
  <2>2. CASE main.at = "unpack"
    <3>1. PICK i \in 1 .. Len(jobs) : SyncJobs = {i} /\ jobs[i].entry = main.entry
      BY <1>1, <2>2 DEF IInv, OneSyncJob
    <3>2. CASE i = 1
      <4>1. j.sync /\ j.entry = main.entry
        BY <1>2, <1>6, <3>1, <3>2
      <4>2. SyncJobs' = {}
        <5>1. \A k \in 1 .. Len(jobs) - 1 : k + 1 # i
          BY <1>2, <3>2
        <5> QED
          BY <1>5, <1>7, <3>1, <5>1
      <4> QED
        BY <1>1, <1>3, <2>2, <4>1, <4>2 DEF OneSyncJob
    <3>3. CASE i # 1
      <4>1. ~j.sync
        BY <1>6, <3>1, <3>3
      <4>2. i - 1 \in 1 .. Len(jobs) - 1 /\ (i - 1) + 1 = i
        BY <1>2, <3>1, <3>3
      <4>3. SyncJobs' = {i - 1}
        <5>1. i - 1 \in SyncJobs'
          BY <1>5, <3>1, <4>2
        <5>2. \A k \in 1 .. Len(jobs) - 1 : k + 1 = i => k = i - 1
          BY <1>2, <4>2
        <5>3. \A k \in SyncJobs' : k = i - 1
          BY <1>5, <1>7, <3>1, <5>2
        <5> QED
          BY <5>1, <5>3
      <4>4. jobs'[i - 1].entry = main.entry /\ i - 1 \in 1 .. Len(jobs')
        BY <1>2, <3>1, <4>2
      <4> QED
        BY <1>1, <1>3, <2>2, <4>1, <4>3, <4>4 DEF OneSyncJob
    <3> QED
      BY <3>2, <3>3
  <2> QED
    BY <2>1, <2>2
<1>9. Shapes'
  BY <1>1, <1>2, <1>3, <1>4 DEF IInv, ListsSame, Shapes
<1>10. MessagesOwed' /\ ListsCome' /\ Places'
  BY <1>1, <1>3 DEF IInv, ListsSame, MessagesOwed, ListsCome, Places, Owed, Comes
<1> QED
  BY <1>8, <1>9, <1>10 DEF IInv

\* The decompressor works on its job.
LEMMA WorkSteps ==
  ASSUME IInv, AllocateForDecompression \/ Decompress \/ Replace
  PROVE  IInv'
<1>1. ListsSame /\ UNCHANGED <<jobs, main>>
  BY DEF AllocateForDecompression, Decompress, Replace, ListsSame, syncVars, clientVars
<1>2. DOMAIN unpacker = {"at", "entry", "from", "mem", "sync"}
  BY DEF IInv, Shapes
<1>3. /\ DOMAIN unpacker' = DOMAIN unpacker /\ unpacker'.at # "idle"
      /\ unpacker'.entry = unpacker.entry /\ unpacker'.sync = unpacker.sync
  BY <1>2 DEF AllocateForDecompression, Decompress, Replace
<1>4. Shapes'
  BY <1>1, <1>3 DEF IInv, ListsSame, Shapes
<1>5. OneSyncJob'
  BY <1>1, <1>3 DEF IInv, OneSyncJob, SyncJobs
<1>6. MessagesOwed' /\ ListsCome' /\ Places'
  BY <1>1, <1>3 DEF IInv, ListsSame, MessagesOwed, ListsCome, Places, Owed, Comes
<1> QED
  BY <1>4, <1>5, <1>6 DEF IInv

\* Who waits for the job goes on; else the cache's thread is told.
LEMMA AnswerStep == ASSUME IInv, Answer PROVE IInv'
<1>1. /\ UNCHANGED <<dlist, blocker, shown, cacher, jobs>>
      /\ DOMAIN unpacker = {"at", "entry", "from", "mem", "sync"}
      /\ DOMAIN main = DOMAIN Away /\ {"at", "entry"} \subseteq DOMAIN Away
      /\ unpacker' = [unpacker EXCEPT !.at = "idle", !.entry = None, !.sync = FALSE]
  BY DEF Answer, clientVars, IInv, Shapes, Away
<1>2. /\ DOMAIN unpacker' = {"at", "entry", "from", "mem", "sync"}
      /\ unpacker'.entry = None /\ unpacker'.sync = FALSE
  BY <1>1
<1>3. CASE unpacker.sync
  <2>1. main' = [main EXCEPT !.at = "complete"] /\ answers' = answers
    BY <1>3 DEF Answer
  <2>2. main.at = "unpack" /\ SyncJobs = {}
    BY <1>3 DEF IInv, OneSyncJob
  <2>3. main'.at = "complete" /\ main'.entry = main.entry /\ DOMAIN main' = DOMAIN Away
    BY <1>1, <2>1
  <2>4. Shapes'
    BY <1>1, <1>2, <2>1, <2>3 DEF IInv, Shapes, SomeEntry
  <2>5. OneSyncJob'
    BY <1>1, <1>2, <2>2, <2>3 DEF OneSyncJob, SyncJobs
  <2>6. MessagesOwed' /\ ListsCome' /\ Places'
    BY <1>1, <1>2, <2>1, <2>2, <2>3 DEF IInv, MessagesOwed, ListsCome, Places, Owed, Comes
  <2> QED
    BY <2>4, <2>5, <2>6 DEF IInv
<1>4. CASE ~unpacker.sync
  <2>1. main' = main /\ answers' = Append(answers, unpacker.entry)
    BY <1>4 DEF Answer
  <2>2. /\ \E S : answers' \in Seq(S)
        /\ \A y : (\E i \in DOMAIN answers : answers[i] = y)
                     => \E i \in DOMAIN answers' : answers'[i] = y
    BY <2>1, QueueGrows DEF IInv, Shapes
  <2>3. Shapes'
    BY <1>1, <1>2, <2>1, <2>2 DEF IInv, Shapes, SomeEntry
  <2>4. OneSyncJob'
    BY <1>1, <1>2, <1>4, <2>1 DEF IInv, OneSyncJob, SyncJobs
  <2>5. MessagesOwed' /\ Places'
    BY <1>1, <1>2, <2>1 DEF IInv, MessagesOwed, Places, Owed
  <2>6. \A k \in Lists : Comes(k) => Comes(k)'
    BY <1>1, <2>2 DEF Comes
  <2>7. ListsCome'
    BY <1>1, <2>1, <2>6 DEF IInv, ListsCome, Owed
  <2> QED
    BY <2>3, <2>4, <2>5, <2>7 DEF IInv
<1> QED
  BY <1>3, <1>4

----------------------------------------------------------------------------
(* Whoever waits is answered                                                *)

\* The invariant holds in every reachable state.
THEOREM InvariantHolds == Spec => []IInv
<1>1. IInv /\ [Next]_vars => IInv'
  <2> SUFFICES ASSUME IInv, [Next]_vars PROVE IInv'
    OBVIOUS
  <2>1. CASE GameStarts \/ \E m \in Mems : Compact(m)
    <3>1. CASE \E m \in Mems : DrawFrom(m)
      BY <3>1, DrawFromStep
    <3>2. CASE (\E l \in Lists : BeginDisplayList(l)) \/ EndDisplayList \/ Flush
      BY <3>2, BeginStep, EndStep, FlushStep
    <3>3. CASE \E k \in Keys, s \in BOOLEAN : Request(k, s)
      BY <3>3, CallSteps
    <3>4. CASE \E k \in Keys : LoadPersistantIndex(k) \/ Touch(k)
      BY <3>4, CallSteps
    <3>5. CASE \E k \in Keys, m \in Mems : RequestDecompression(k, m)
      BY <3>5, CallSteps
    <3>6. CASE \E n \in Own, recentToo, top \in BOOLEAN : Allocate(n, recentToo, top)
      BY <3>6, CallSteps
    <3>7. CASE \E m \in Mems : TouchAndLock(m) \/ Unlock(m) \/ Deallocate(m)
      BY <3>7, CallSteps
    <3>8. CASE SetFrameDelay \/ Advance \/ \E m \in Mems : Compact(m)
      BY <3>8, CallSteps
    <3> QED
      BY <2>1, <3>1, <3>2, <3>3, <3>4, <3>5, <3>6, <3>7, <3>8 DEF GameStarts
  <2>2. CASE GameGoesOn
    BY <2>2, RequestSteps, DecompressSyncStep, MakeAsyncStep, LockStep, FlushEndSteps,
       FlushWaitsStep DEF GameGoesOn
  <2>3. CASE Drawing \/ LoadAnswered
    BY <2>3, PostStep, LoadAnsweredStep DEF Drawing
  <2>4. CASE Cacher
    BY <2>4, TakeListStep, ReleaseStep, TakeLoadedStep, CacherSteps DEF Cacher
  <2>5. CASE Unpacker
    BY <2>5, TakeJobStep, WorkSteps, AnswerStep DEF Unpacker
  <2>6. CASE Stopped \/ UNCHANGED vars
    <3>1. ListsSame /\ UNCHANGED <<jobs, unpacker, main>>
      BY <2>6 DEF Stopped, vars, ListsSame
    <3> QED
      BY <3>1, QuietStep
  <2> QED
    BY <2>1, <2>2, <2>3, <2>4, <2>5, <2>6 DEF Next
<1> QED
  BY Initially, <1>1, PTL DEF Spec

\* Whoever waits for the cache is answered, once: no message of a released list
\* is lost or left over, the cache never blocks on a message for nobody, and no
\* memory stays locked for a list that is not drawn any more.
THEOREM WaitersAreAnswered == Spec => []WaitsAnswered
BY InvariantHolds, Answered, PTL

----------------------------------------------------------------------------
(* The cache's records                                                      *)

SomeMem == Mems \cup {None}
Content == [key : Keys \cup {None}, part : {"probe", "whole", "junk", "private", "raw"}]

MemRecord ==
  [at : Nat, size : Nat, locks : Nat, persistent : BOOLEAN, fixed : BOOLEAN,
   lists : SUBSET Lists, age : Nat, entry : SomeEntry, holds : Content]

EntryRecord ==
  [place : {"free", "pending", "used"}, mem : SomeMem, key : Keys \cup {None},
   length : Nat, unpack : BOOLEAN]

Memories ==
  [mem : [Mems -> MemRecord], order : Seq(Mems), entry : [Entries -> EntryRecord],
   table : [Keys -> SomeEntry]]

\* Memory that is not allocated is blank; what is allocated is in the heap, and no two
\* allocations overlap.
Apart(x) ==
  /\ \A m \in Mems \ Allocated(x) : x.mem[m] = FreeMem
  /\ \A m \in Allocated(x) : x.mem[m].at + x.mem[m].size <= HeapSize
  /\ \A m, n \in Allocated(x) : m # n => Span(x.mem[m]) \cap Span(x.mem[n]) = {}

\* An entry that RequestMiss has taken, before it is pending.
Reserved == [FreeEntry EXCEPT !.place = "used"]

\* An entry in use is the table's, and its memory names it.
UsedOk(x, e) ==
  LET r == x.entry[e] IN
  /\ r.key \in Keys /\ x.table[r.key] = e
  /\ r.mem \in Allocated(x) /\ x.mem[r.mem].entry = e

Agree(x) ==
  /\ \A e \in Entries :
       /\ x.entry[e].place = "free" => x.entry[e] = FreeEntry
       /\ x.entry[e].place = "used" => x.entry[e] = Reserved \/ UsedOk(x, e)
  /\ \A k \in Keys : x.table[k] # None =>
       x.entry[x.table[k]].place = "used" /\ x.entry[x.table[k]].key = k
  /\ \A m \in Mems : x.mem[m].entry # None =>
       x.entry[x.mem[m].entry].place = "used" /\ x.entry[x.mem[m].entry].mem = m

\* Indexes are persistent; what is drawn, or what others are made of, is not.
Marked(x) ==
  \A m \in Mems :
    /\ x.mem[m].entry # None /\ x.entry[x.mem[m].entry].key \in Indexes => x.mem[m].persistent
    /\ x.mem[m].persistent => x.mem[m].lists = {}
    /\ \A k \in Plain \cup Packed : x.mem[m].holds = Res(k) => ~x.mem[m].persistent

Sound(x) == x \in Memories /\ Apart(x) /\ Agree(x) /\ Marked(x)

\* Requests that are pending.
Pend(x) == {e \in Entries : x.entry[e].place = "pending"}

\* Its entry has the memory to itself: nobody else could free or unlock it.
Sole(x, e) ==
  LET m == x.entry[e].mem IN
  m # None => /\ held[m] = 0 /\ unpacker.mem # m /\ x.mem[m].entry = None
              /\ \A f \in Pend(x) : x.entry[f].mem = m => f = e

PendingOk(x, e) ==
  LET m == x.entry[e].mem
      k == x.entry[e].key
  IN  /\ k \in Keys
      /\ m # None => m \in Allocated(x)
      /\ k \notin Made => Sole(x, e)
      /\ m # None => /\ k \in Indexes => x.mem[m].persistent
                     /\ x.mem[m].persistent => Sole(x, e)
      /\ k \in Made => /\ x.table[k] = None
                       /\ \A f \in Pend(x) : x.entry[f].key = k => f = e

Pendings(x) == \A e \in Pend(x) : PendingOk(x, e)

\* The memory a decompression writes to belongs to nobody else.
UnpackerMem(x) ==
  LET m == unpacker.mem IN
  /\ unpacker.at = "work" => m # None
  /\ unpacker.at \notin {"work", "replace"} => m = None
  /\ m # None => /\ m \in Allocated(x) /\ held[m] = 0 /\ x.mem[m].entry = None
                 /\ ~x.mem[m].persistent /\ \A e \in Pend(x) : x.entry[e].mem # m

\* LocksBalanced of x.
Using(x, m) == {e \in Pend(x) : x.entry[e].mem = m}

LocksOf(x) ==
  \A m \in Mems :
    x.mem[m].locks = held[m] + Cardinality(Using(x, m)) + (IF unpacker.mem = m THEN 1 ELSE 0)

\* What a read was queued for: its entry's memory, of the same size.
LoadOk(x, e, to) ==
  LET m == x.entry[e].mem IN
  /\ e \in Pend(x) /\ x.entry[e].key \notin Made /\ m \in Mems
  /\ to = x.mem[m].at /\ x.entry[e].length = x.mem[m].size /\ x.mem[m].size > 0
  /\ x.entry[e].key \in Packed => x.mem[m].persistent
  /\ x.entry[e].key \in Plain => ~x.mem[m].persistent

\* The entry's memory has what is to be decompressed; packed data is persistent.
Origin(x, e) ==
  /\ e \in Pend(x) /\ x.entry[e].key \in Packed \cup Made /\ x.entry[e].mem \in Mems
  /\ x.mem[x.entry[e].mem].holds = Original(x.entry[e].key)
  /\ x.entry[e].key \in Packed => x.mem[x.entry[e].mem].persistent

JobOk(x, e) == Origin(x, e) /\ ~x.entry[e].unpack

AnswerOk(x, e) ==
  /\ e \in Pend(x)
  /\ IF x.entry[e].unpack THEN x.entry[e].key \in Packed /\ Origin(x, e) ELSE Sole(x, e)

\* Packed data is marked, to be decompressed when it is loaded.
LoadedOk(x, r) ==
  /\ LoadOk(x, r.entry, r.to)
  /\ x.entry[r.entry].unpack <=> x.entry[r.entry].key \in Packed

LoadsOk(x) == \A i \in DOMAIN loads : LoadedOk(x, loads[i])

AnswersOk(x) == \A i \in DOMAIN answers : answers[i] \in Lists \/ AnswerOk(x, answers[i])

JobsOk(x) == \A i \in DOMAIN jobs : JobOk(x, jobs[i].entry)

CacherOk(x) ==
  /\ cacher.at = "undo" => /\ cacher.entry \in Pend(x) /\ x.entry[cacher.entry].key \in Packed
                           /\ x.entry[cacher.entry].mem \in Mems
                           /\ x.mem[x.entry[cacher.entry].mem].persistent
  /\ cacher.at # "undo" => cacher.entry = None

UnpackerOk(x) ==
  /\ unpacker.at \in {"idle", "alloc", "work", "replace", "reply"}
  /\ unpacker.at = "idle" <=> unpacker.entry = None
  /\ unpacker.at \in {"alloc", "work", "replace"} => JobOk(x, unpacker.entry)
  /\ unpacker.at = "reply" => /\ unpacker.entry \in Pend(x) /\ ~x.entry[unpacker.entry].unpack
                              /\ Sole(x, unpacker.entry)

\* The request the main thread is busy with.
Busy == {"load", "jam", "unpack", "complete", "send", "undo"}

MainOk(x) ==
  LET e == main.entry IN
  /\ main.at \in Busy => e \in Pend(x) /\ x.entry[e].key = main.key
  /\ main.at \in Busy \ {"unpack", "complete"} => ~x.entry[e].unpack
  /\ main.at = "load" => LoadOk(x, e, main.to) /\ main.length = x.entry[e].length
  /\ main.at \in {"jam", "send", "undo"} => Origin(x, e)
  /\ main.at \in {"send", "undo"} => main.key \in Made /\ x.entry[e].mem = main.mem
  /\ main.at = "complete" => Sole(x, e)

\* What the main thread asks for, and the memory it works on and holds.
ClientOk(x) ==
  /\ main.at = "request" => main.key \in Keys \ Made /\ main.length \in Nat \ {0}
  /\ main.at = "make" => /\ main.key \in Made /\ main.mem \in Held
                         /\ x.mem[main.mem].holds = Res(Source[main.key])
  /\ main.at = "draw" => main.mem \in Held /\ ~x.mem[main.mem].persistent
  /\ main.at = "probed" => /\ main.key \in Indexes /\ main.mem \in Held
                           /\ x.mem[main.mem].persistent
  /\ main.at = "whole" => main.key \in Indexes

\* A request that is pending is on its way in one place, and no other is.
Tokens(x) == \A e \in Entries : OnItsWay(e) = IF e \in Pend(x) THEN 1 ELSE 0

LoadRecord == [entry : Entries, to : Nat]

Queued == /\ held \in [Mems -> Nat]
          /\ loads \in Seq(LoadRecord) /\ answers \in Seq(Entries \cup Lists)

Linked(x) ==
  /\ Queued /\ Pendings(x) /\ UnpackerMem(x) /\ LocksOf(x)
  /\ LoadsOk(x) /\ AnswersOk(x) /\ JobsOk(x) /\ CacherOk(x) /\ UnpackerOk(x) /\ MainOk(x)
  /\ ClientOk(x) /\ Tokens(x)

RInv == Sound(c) /\ (\A e \in Entries : c.entry[e] # Reserved) /\ Linked(c)

----------------------------------------------------------------------------
(* Numbers and sequences                                                    *)

\* Numbers do not descend for ever.
LEMMA NoDescent ==
  LET less == {p \in Nat \X Nat : p[1] < p[2]} IN IsWellFoundedOn(less, Nat)
<1> DEFINE less == {p \in Nat \X Nat : p[1] < p[2]}
<1>1. less = OpToRel(<, Nat)
  BY DEF OpToRel
<1>2. IsWellFoundedOn(OpToRel(<, Nat), Nat)
  BY NatLessThanWellFounded
<1> QED
  BY <1>1, <1>2

\* A set of numbers has a least member, and a greatest when it is bounded.
LEMMA LeastOf ==
  ASSUME NEW S, S \subseteq Nat, S # {}
  PROVE  \E n \in S : \A m \in S : n <= m
<1> DEFINE less == {p \in Nat \X Nat : p[1] < p[2]}
<1>1. IsWellFoundedOn(less, Nat)
  BY NoDescent
<1>2. PICK x \in S : \A y \in S : <<y, x>> \notin less
  <2> HIDE DEF less
  <2> QED
    BY <1>1, WFMin
<1>3. \A y \in S : ~(y < x)
  BY <1>2
<1> QED
  BY <1>3

\* A bounded set of numbers has a greatest.
LEMMA GreatestOf ==
  ASSUME NEW top \in Nat, NEW S, S \subseteq 0 .. top, S # {}
  PROVE  \E n \in S : \A m \in S : n >= m
<1> DEFINE R == {top - n : n \in S}
<1>1. R \subseteq Nat /\ R # {}
  <2>1. \A n \in S : top - n \in Nat
    OBVIOUS
  <2> QED
    BY <2>1
<1>2. PICK r \in R : \A q \in R : r <= q
  <2> HIDE DEF R
  <2> QED
    BY <1>1, LeastOf
<1>3. PICK n \in S : r = top - n
  BY <1>2
<1>4. \A m \in S : top - n <= top - m
  BY <1>2, <1>3
<1> QED
  BY <1>3, <1>4

\* What holds of 0, and of n + 1 when of n, holds of every number.
LEMMA Upwards ==
  ASSUME NEW S, 0 \in S, \A n \in Nat : n \in S => n + 1 \in S
  PROVE  \A n \in Nat : n \in S
<1> SUFFICES ASSUME Nat \ S # {} PROVE FALSE
  OBVIOUS
<1>1. PICK n \in Nat \ S : \A m \in Nat \ S : n <= m
  BY LeastOf
<1>2. n # 0 /\ n - 1 \in Nat
  BY <1>1
<1>3. n - 1 \in S
  BY <1>1, <1>2
<1> QED
  BY <1>1, <1>2, <1>3

\* What is in a sequence of memory records.
Among(s) == {m \in Mems : \E i \in DOMAIN s : s[i] = m}

\* Without(s, S) is a sequence of what is in s and not in S.
LEMMA WithoutIs ==
  ASSUME NEW s \in Seq(Mems), NEW S
  PROVE  Without(s, S) \in Seq(Mems) /\ Among(Without(s, S)) = Among(s) \ S
<1> DEFINE n == Len(s)
           D == 0 .. n
           Def(g) == [i \in D |->
                        IF i = 0 THEN <<>>
                        ELSE IF s[i] \in S THEN g[i - 1] ELSE Append(g[i - 1], s[i])]
           f == CHOOSE g : g = Def(g)
           Good(g, k) == \A i \in D : i < k => g[i] = Def(g)[i]
           P == {k \in Nat : \E g : Good(g, k)}
<1>1. n \in Nat /\ DOMAIN s = 1 .. n /\ \A i \in 1 .. n : s[i] \in Mems
  OBVIOUS
<1>2. 0 \in P
  BY <1>1
<1>3. ASSUME NEW k \in Nat, k \in P PROVE k + 1 \in P
  <2>1. PICK g : Good(g, k)
    BY <1>3
  <2>2. \A i \in D : i < k => Def(g)[i] = g[i]
    BY <2>1
  <2>3. \A i \in D : i < k + 1 /\ i # 0 => i - 1 \in D /\ Def(g)[i - 1] = g[i - 1]
    BY <1>1, <2>2
  <2>4. \A i \in D : i < k + 1 => Def(g)[i] = Def(Def(g))[i]
    BY <2>3
  <2>5. Good(Def(g), k + 1)
    BY <2>4
  <2> HIDE DEF Good
  <2> QED
    BY <1>3, <2>5
<1>4. n + 1 \in P
  <2> HIDE DEF P
  <2> QED
    BY <1>1, <1>2, <1>3, Upwards
<1>5. PICK g : Good(g, n + 1)
  BY <1>4
<1>6. \A i \in D : g[i] = Def(g)[i]
  BY <1>1, <1>5
<1>7. Def(g) = Def(Def(g))
  <2>1. \A i \in D : i # 0 => i - 1 \in D /\ Def(g)[i - 1] = g[i - 1]
    BY <1>1, <1>6
  <2> QED
    BY <2>1
<1>8. f = Def(f)
  <2> DEFINE h == Def(g)
  <2>1. h = Def(h)
    BY <1>7
  <2> HIDE DEF h, Def
  <2> QED
    BY <2>1
<1>9. Without(s, S) = f[n]
  BY DEF Without
<1> HIDE DEF f
<1> DEFINE Q == {k \in Nat : k <= n =>
                   /\ f[k] \in Seq(Mems)
                   /\ \A m \in Mems : m \in Among(f[k]) <=> m \notin S /\ \E i \in 1 .. k : s[i] = m}
<1>10. 0 \in Q
  <2>1. f[0] = <<>>
    BY <1>1, <1>8
  <2>2. f[0] \in Seq(Mems) /\ Among(f[0]) = {}
    BY <2>1 DEF Among
  <2>3. ~ \E i \in 1 .. 0 : s[i] = s[i]
    OBVIOUS
  <2> QED
    BY <2>2, <2>3
<1>11. ASSUME NEW k \in Nat, k \in Q PROVE k + 1 \in Q
  <2> SUFFICES ASSUME k + 1 <= n
               PROVE  /\ f[k + 1] \in Seq(Mems)
                      /\ \A m \in Mems : m \in Among(f[k + 1])
                                         <=> m \notin S /\ \E i \in 1 .. k + 1 : s[i] = m
    BY <1>11
  <2>1. /\ f[k] \in Seq(Mems)
        /\ \A m \in Mems : m \in Among(f[k]) <=> m \notin S /\ \E i \in 1 .. k : s[i] = m
    BY <1>1, <1>11
  <2>2. k + 1 \in D /\ k + 1 # 0 /\ (k + 1) - 1 = k /\ s[k + 1] \in Mems
    BY <1>1
  <2>3. f[k + 1] = IF s[k + 1] \in S THEN f[k] ELSE Append(f[k], s[k + 1])
    BY <1>8, <2>2
  <2>4. \A i \in 1 .. k + 1 : i \in 1 .. k \/ i = k + 1
    BY <2>2
  <2>5. \A m \in Mems : (\E i \in 1 .. k + 1 : s[i] = m) <=> (\E i \in 1 .. k : s[i] = m) \/ m = s[k + 1]
    BY <2>4
  <2>6. CASE s[k + 1] \in S
    BY <2>1, <2>3, <2>5, <2>6
  <2>7. CASE s[k + 1] \notin S
    <3> DEFINE t == f[k]
               y == s[k + 1]
    <3>1. t \in Seq(Mems) /\ y \in Mems /\ f[k + 1] = Append(t, y)
      BY <2>1, <2>2, <2>3, <2>7
    <3> HIDE DEF t, y
    <3>2. /\ Append(t, y) \in Seq(Mems)
          /\ DOMAIN t = 1 .. Len(t) /\ Len(t) \in Nat /\ DOMAIN Append(t, y) = 1 .. Len(t) + 1
          /\ \A i \in 1 .. Len(t) : Append(t, y)[i] = t[i]
          /\ Append(t, y)[Len(t) + 1] = y
      BY <3>1
    <3>3. \A i \in 1 .. Len(t) + 1 : i \in 1 .. Len(t) \/ i = Len(t) + 1
      BY <3>2
    <3>4. Among(Append(t, y)) = Among(t) \cup {y}
      BY <3>1, <3>2, <3>3 DEF Among
    <3> QED
      BY <2>1, <2>5, <2>7, <3>1, <3>2, <3>4 DEF t, y
  <2> QED
    BY <2>6, <2>7
<1>12. n \in Q
  <2> HIDE DEF Q, n
  <2> QED
    BY <1>1, <1>10, <1>11, Upwards
<1>13. /\ f[n] \in Seq(Mems)
       /\ \A m \in Mems : m \in Among(f[n]) <=> m \notin S /\ \E i \in 1 .. n : s[i] = m
  BY <1>1, <1>12
<1> QED
  BY <1>1, <1>9, <1>13 DEF Among

\* One more in front, and the other way round.
LEMMA InFront ==
  ASSUME NEW s \in Seq(Mems), NEW m \in Mems
  PROVE  <<m>> \o s \in Seq(Mems) /\ Among(<<m>> \o s) = Among(s) \cup {m}
<1>1. /\ <<m>> \o s \in Seq(Mems) /\ Len(s) \in Nat
      /\ DOMAIN s = 1 .. Len(s) /\ DOMAIN (<<m>> \o s) = 1 .. Len(s) + 1
      /\ (<<m>> \o s)[1] = m
      /\ \A i \in 1 .. Len(s) : (<<m>> \o s)[i + 1] = s[i]
  OBVIOUS
<1>2. \A i \in 2 .. Len(s) + 1 : i - 1 \in 1 .. Len(s) /\ (<<m>> \o s)[i] = s[i - 1]
  BY <1>1
<1>3. \A i \in 1 .. Len(s) + 1 : i = 1 \/ i \in 2 .. Len(s) + 1
  BY <1>1
<1>4. \A i \in 1 .. Len(s) : i + 1 \in 1 .. Len(s) + 1
  BY <1>1
<1> DEFINE t == <<m>> \o s
<1>5. /\ DOMAIN s = 1 .. Len(s) /\ DOMAIN t = 1 .. Len(s) + 1 /\ t[1] = m
      /\ \A i \in 1 .. Len(s) : t[i + 1] = s[i] /\ i + 1 \in 1 .. Len(s) + 1
      /\ \A i \in 1 .. Len(s) + 1 : i = 1 \/ (i - 1 \in 1 .. Len(s) /\ t[i] = s[i - 1])
      /\ 1 \in 1 .. Len(s) + 1
  BY <1>1, <1>2, <1>3, <1>4
<1> HIDE DEF t
<1>6. Among(t) = Among(s) \cup {m}
  <2>1. ASSUME NEW k \in Among(t) PROVE k \in Among(s) \cup {m}
    <3>1. PICK i \in 1 .. Len(s) + 1 : t[i] = k
      BY <1>5 DEF Among
    <3> QED
      BY <1>5, <3>1 DEF Among
  <2>2. ASSUME NEW k \in Among(s) PROVE k \in Among(t)
    <3>1. PICK i \in 1 .. Len(s) : s[i] = k
      BY <1>5 DEF Among
    <3>2. t[i + 1] = k /\ i + 1 \in DOMAIN t
      BY <1>5, <3>1
    <3> QED
      BY <3>2 DEF Among
  <2>3. m \in Among(t)
    BY <1>5 DEF Among
  <2> QED
    BY <2>1, <2>2, <2>3
<1> QED
  BY <1>1, <1>6 DEF t

\* A reversed list has the same members.
LEMMA ReverseIs ==
  ASSUME NEW s \in Seq(Mems)
  PROVE  /\ Reverse(s) \in Seq(Mems) /\ Len(Reverse(s)) = Len(s)
         /\ Among(Reverse(s)) = Among(s)
<1>1. Reverse(s) = [i \in 1 .. Len(s) |-> s[(Len(s) - i) + 1]]
  BY DEF Reverse
<1>2. Len(s) \in Nat /\ DOMAIN s = 1 .. Len(s)
  OBVIOUS
<1>3. \A i \in 1 .. Len(s) : (Len(s) - i) + 1 \in 1 .. Len(s) /\ s[i] \in Mems
  BY <1>2
<1>4. Reverse(s) \in Seq(Mems) /\ Len(Reverse(s)) = Len(s) /\ DOMAIN Reverse(s) = 1 .. Len(s)
  BY <1>1, <1>2, <1>3
<1> DEFINE r == Reverse(s)
           back(i) == (Len(s) - i) + 1
<1>5. \A i \in 1 .. Len(s) : back(i) \in 1 .. Len(s) /\ back(back(i)) = i
  BY <1>2
<1>6. \A i \in 1 .. Len(s) : r[i] = s[back(i)]
  BY <1>1
<1> HIDE DEF r, back
<1>7. \A i \in 1 .. Len(s) : s[i] = r[back(i)]
  BY <1>5, <1>6
<1>8. DOMAIN r = 1 .. Len(s) /\ DOMAIN s = 1 .. Len(s)
  BY <1>2, <1>4 DEF r
<1>9. Among(r) = Among(s)
  BY <1>5, <1>6, <1>7, <1>8 DEF Among
<1> QED
  BY <1>4, <1>9 DEF r

----------------------------------------------------------------------------
(* Freeing memory                                                           *)

\* What is free is blank.
LEMMA Blanks == FreeMem \in MemRecord /\ FreeEntry \in EntryRecord /\ Reserved \in EntryRecord
BY DEF FreeMem, FreeEntry, Reserved, MemRecord, EntryRecord, Content, Junk, SomeEntry, SomeMem

\* What is allocated is in the heap's list.
LEMMA AllocatedIs == \A x : Allocated(x) = Among(x.order)
BY DEF Allocated, Among

\* y is x without the memory of S and the entries that use it.
Freed(x, y, S) ==
  /\ y \in Memories /\ Allocated(y) = Allocated(x) \ S
  /\ \A m \in Mems : y.mem[m] = IF m \in S THEN FreeMem ELSE x.mem[m]
  /\ \A e \in Entries :
       y.entry[e] = IF x.entry[e].place = "used" /\ x.entry[e].mem \in S
                    THEN FreeEntry ELSE x.entry[e]
  /\ \A k \in Keys :
       y.table[k] = IF x.table[k] # None /\ x.entry[x.table[k]].mem \in S
                    THEN None ELSE x.table[k]

\* The records that are freed are blank and out of the heap's list.
LEMMA FreeMemsIs ==
  ASSUME NEW x \in Memories, NEW S, NEW y, y = FreeMems(x, S)
  PROVE  /\ y \in Memories /\ Allocated(y) = Allocated(x) \ S
         /\ \A m \in Mems : y.mem[m] = IF m \in S THEN FreeMem ELSE x.mem[m]
         /\ y.entry = x.entry /\ y.table = x.table
<1>1. /\ x.order \in Seq(Mems) /\ x.mem \in [Mems -> MemRecord]
      /\ x.entry \in [Entries -> EntryRecord] /\ x.table \in [Keys -> SomeEntry]
      /\ DOMAIN x = {"mem", "order", "entry", "table"}
  BY DEF Memories
<1>2. /\ y.order = Without(x.order, S)
      /\ y.mem = [m \in Mems |-> IF m \in S THEN FreeMem ELSE x.mem[m]]
      /\ y.entry = x.entry /\ y.table = x.table
      /\ y = [mem |-> y.mem, order |-> y.order, entry |-> y.entry, table |-> y.table]
  BY <1>1 DEF FreeMems, Memories
<1>3. y.order \in Seq(Mems) /\ Among(y.order) = Among(x.order) \ S
  BY <1>1, <1>2, WithoutIs
<1>4. y.mem \in [Mems -> MemRecord]
  BY <1>1, <1>2, Blanks
<1>5. y \in Memories
  BY <1>1, <1>2, <1>3, <1>4 DEF Memories
<1> QED
  BY <1>2, <1>3, <1>5, AllocatedIs

\* Memory without an entry can be freed at once.
LEMMA FreeMemsFreed ==
  ASSUME NEW x, Sound(x), NEW S \in SUBSET Mems, \A m \in S : x.mem[m].entry = None,
         NEW y, y = FreeMems(x, S)
  PROVE  Freed(x, y, S)
<1>1. x \in Memories /\ Agree(x)
  BY DEF Sound
<1>2. /\ y \in Memories /\ Allocated(y) = Allocated(x) \ S
      /\ \A m \in Mems : y.mem[m] = IF m \in S THEN FreeMem ELSE x.mem[m]
      /\ y.entry = x.entry /\ y.table = x.table
  BY <1>1, FreeMemsIs
<1>3. \A e \in Entries : x.entry[e].place = "used" => x.entry[e].mem \notin S
  BY <1>1, CacheSound DEF Agree, UsedOk, Reserved, FreeEntry
<1>4. \A k \in Keys : x.table[k] # None => x.table[k] \in Entries
  BY <1>1 DEF Memories, SomeEntry
<1>5. \A k \in Keys : x.table[k] # None => x.entry[x.table[k]].mem \notin S
  BY <1>1, <1>3, <1>4 DEF Agree
<1> QED
  BY <1>2, <1>3, <1>5 DEF Freed

\* CCache__DetachCacheEntry and CCache__FreeMemEntry.
LEMMA DroppedFreed ==
  ASSUME NEW x, x \in Memories, Agree(x), NEW S \in SUBSET Mems, NEW y, y = Dropped(x, S)
  PROVE  Freed(x, y, S)
<1> DEFINE es == {x.mem[m].entry : m \in S} \ {None}
           ks == {x.entry[e].key : e \in es}
           z  == Detached(x, S)
<1>1. x \in Memories /\ Agree(x) /\ DOMAIN x = {"mem", "order", "entry", "table"}
      /\ x.entry \in [Entries -> EntryRecord] /\ x.table \in [Keys -> SomeEntry]
      /\ x.mem \in [Mems -> MemRecord]
  BY DEF Memories
<1>2. /\ z.mem = x.mem /\ z.order = x.order
      /\ z.entry = [e \in Entries |-> IF e \in es THEN FreeEntry ELSE x.entry[e]]
      /\ z.table = [k \in Keys |-> IF k \in ks THEN None ELSE x.table[k]]
      /\ z \in Memories
  <2> DEFINE w == [x EXCEPT !.table = [k \in Keys |-> IF k \in ks THEN None ELSE @[k]]]
  <2>1. z = FreeCacheEntries(w, es)
    BY DEF Detached
  <2> HIDE DEF z, es, ks
  <2>2. w = [mem |-> x.mem, order |-> x.order, entry |-> x.entry,
             table |-> [k \in Keys |-> IF k \in ks THEN None ELSE x.table[k]]]
    BY <1>1 DEF Memories
  <2>3. z = [mem |-> x.mem, order |-> x.order,
             entry |-> [e \in Entries |-> IF e \in es THEN FreeEntry ELSE x.entry[e]],
             table |-> [k \in Keys |-> IF k \in ks THEN None ELSE x.table[k]]]
    <3> HIDE DEF w
    <3> QED
      BY <2>1, <2>2 DEF FreeCacheEntries
  <2>4. [e \in Entries |-> IF e \in es THEN FreeEntry ELSE x.entry[e]] \in [Entries -> EntryRecord]
    BY <1>1, Blanks
  <2>5. [k \in Keys |-> IF k \in ks THEN None ELSE x.table[k]] \in [Keys -> SomeEntry]
    BY <1>1 DEF SomeEntry
  <2> QED
    BY <1>1, <2>3, <2>4, <2>5 DEF Memories
<1>3. y = FreeMems(z, S)
  BY DEF Dropped
<1>4. /\ y \in Memories /\ Allocated(y) = Allocated(z) \ S
      /\ \A m \in Mems : y.mem[m] = IF m \in S THEN FreeMem ELSE z.mem[m]
      /\ y.entry = z.entry /\ y.table = z.table
  <2> HIDE DEF z
  <2> QED
    BY <1>2, <1>3, FreeMemsIs
<1>5. Allocated(z) = Allocated(x)
  BY <1>2 DEF Allocated
<1>6. None \notin Mems /\ None \notin Keys
  BY CacheSound
<1>7. \A m \in S : x.mem[m].entry # None =>
        /\ x.mem[m].entry \in Entries /\ x.entry[x.mem[m].entry].place = "used"
        /\ x.entry[x.mem[m].entry].mem = m
  BY <1>1 DEF Agree, MemRecord, SomeEntry
<1>8. \A e \in Entries : x.entry[e].place = "used" /\ x.entry[e].mem \in S =>
        UsedOk(x, e) /\ x.mem[x.entry[e].mem].entry = e
  BY <1>1, <1>6 DEF Agree, UsedOk, Reserved, FreeEntry
<1>9. \A e \in Entries : e \in es <=> x.entry[e].place = "used" /\ x.entry[e].mem \in S
  <2>1. \A e \in Entries : e # None
    BY CacheSound
  <2> QED
    BY <1>7, <1>8, <2>1
<1>10. \A k \in Keys : k \in ks <=> x.table[k] # None /\ x.entry[x.table[k]].mem \in S
  <2>1. ASSUME NEW k \in ks, k \in Keys PROVE x.table[k] # None /\ x.entry[x.table[k]].mem \in S
    <3>1. PICK e \in es : x.entry[e].key = k
      OBVIOUS
    <3>2. e \in Entries /\ e # None
      BY <1>7
    <3> HIDE DEF es, ks
    <3>3. x.entry[e].mem \in S /\ x.table[k] = e
      BY <1>8, <1>9, <3>1, <3>2 DEF UsedOk
    <3> QED
      BY <3>2, <3>3
  <2>2. ASSUME NEW k \in Keys, x.table[k] # None, x.entry[x.table[k]].mem \in S PROVE k \in ks
    <3>1. x.table[k] \in Entries /\ x.entry[x.table[k]].place = "used" /\ x.entry[x.table[k]].key = k
      BY <1>1, <2>2 DEF Agree, SomeEntry
    <3>2. x.table[k] \in es
      <4> HIDE DEF es
      <4> QED
        BY <1>9, <2>2, <3>1
    <3> QED
      BY <3>1, <3>2
  <2> QED
    BY <2>1, <2>2
<1> HIDE DEF es, ks, z
<1>11. \A e \in Entries : y.entry[e] = IF x.entry[e].place = "used" /\ x.entry[e].mem \in S
                                      THEN FreeEntry ELSE x.entry[e]
  BY <1>2, <1>4, <1>9
<1>12. \A k \in Keys : y.table[k] = IF x.table[k] # None /\ x.entry[x.table[k]].mem \in S
                                    THEN None ELSE x.table[k]
  BY <1>2, <1>4, <1>10
<1> QED
  BY <1>2, <1>4, <1>5, <1>11, <1>12 DEF Freed

\* Table, entries and memory agree after memory was freed, as before.
LEMMA FreedSound ==
  ASSUME NEW x, Sound(x), NEW S \in SUBSET Mems, NEW y, Freed(x, y, S)
  PROVE  Sound(y)
<1>1. x \in Memories /\ Apart(x) /\ Agree(x) /\ Marked(x)
      /\ x.entry \in [Entries -> EntryRecord] /\ x.table \in [Keys -> SomeEntry]
      /\ x.mem \in [Mems -> MemRecord]
  BY DEF Sound, Memories
<1>2. /\ y \in Memories /\ Allocated(y) = Allocated(x) \ S
      /\ \A m \in Mems : y.mem[m] = IF m \in S THEN FreeMem ELSE x.mem[m]
      /\ \A e \in Entries :
           y.entry[e] = IF x.entry[e].place = "used" /\ x.entry[e].mem \in S
                        THEN FreeEntry ELSE x.entry[e]
      /\ \A k \in Keys :
           y.table[k] = IF x.table[k] # None /\ x.entry[x.table[k]].mem \in S
                        THEN None ELSE x.table[k]
  BY DEF Freed
<1>3. Allocated(x) \subseteq Mems /\ None \notin Mems /\ None \notin Keys /\ None \notin Entries
  BY CacheSound DEF Allocated
<1>4. FreeMem.entry = None /\ FreeMem.persistent = FALSE /\ FreeMem.lists = {}
      /\ FreeEntry.place = "free" /\ FreeEntry.mem = None
  BY DEF FreeMem, FreeEntry
<1>5. Apart(y)
  BY <1>1, <1>2, <1>3 DEF Apart
<1>6. ASSUME NEW m \in Mems, y.mem[m].entry # None
      PROVE  /\ m \notin S /\ y.mem[m] = x.mem[m]
             /\ y.entry[x.mem[m].entry] = x.entry[x.mem[m].entry]
             /\ x.entry[x.mem[m].entry].place = "used" /\ x.entry[x.mem[m].entry].mem = m
  <2>1. m \notin S /\ y.mem[m] = x.mem[m]
    BY <1>2, <1>4, <1>6
  <2>2. x.mem[m].entry \in Entries /\ x.entry[x.mem[m].entry].mem = m
        /\ x.entry[x.mem[m].entry].place = "used"
    BY <1>1, <1>6, <2>1 DEF Agree, MemRecord, SomeEntry
  <2> QED
    BY <1>2, <2>1, <2>2
<1>7. ASSUME NEW e \in Entries
      PROVE  /\ y.entry[e].place = "free" => y.entry[e] = FreeEntry
             /\ y.entry[e].place = "used" => y.entry[e] = Reserved \/ UsedOk(y, e)
  <2>1. CASE y.entry[e] = FreeEntry
    BY <1>4, <2>1
  <2>2. CASE y.entry[e] # FreeEntry
    <3>1. y.entry[e] = x.entry[e] /\ ~(x.entry[e].place = "used" /\ x.entry[e].mem \in S)
      BY <1>2, <2>2
    <3>2. ASSUME x.entry[e].place = "used", UsedOk(x, e) PROVE UsedOk(y, e)
      <4>1. x.entry[e].mem \notin S
        BY <3>1, <3>2
      <4>2. /\ x.entry[e].key \in Keys /\ x.table[x.entry[e].key] = e
            /\ x.entry[e].mem \in Allocated(x) /\ x.mem[x.entry[e].mem].entry = e
        BY <3>2 DEF UsedOk
      <4>3. y.mem[x.entry[e].mem] = x.mem[x.entry[e].mem] /\ y.table[x.entry[e].key] = e
        BY <1>2, <1>3, <4>1, <4>2
      <4> QED
        BY <1>2, <3>1, <4>1, <4>2, <4>3 DEF UsedOk
    <3> QED
      BY <1>1, <3>1, <3>2 DEF Agree
  <2> QED
    BY <2>1, <2>2
<1>8. ASSUME NEW k \in Keys, y.table[k] # None
      PROVE  y.entry[y.table[k]].place = "used" /\ y.entry[y.table[k]].key = k
  <2>1. y.table[k] = x.table[k] /\ x.entry[x.table[k]].mem \notin S /\ x.table[k] \in Entries
    BY <1>1, <1>2, <1>8 DEF SomeEntry
  <2>2. y.entry[x.table[k]] = x.entry[x.table[k]]
    BY <1>2, <2>1
  <2> QED
    BY <1>1, <1>8, <2>1, <2>2 DEF Agree
<1>9. Agree(y)
  BY <1>6, <1>7, <1>8 DEF Agree
<1>10. Marked(y)
  BY <1>1, <1>2, <1>4, <1>6 DEF Marked
<1> QED
  BY <1>2, <1>5, <1>9, <1>10 DEF Sound

----------------------------------------------------------------------------
(* Making room                                                              *)

\* y is x without some memory that was not in use, and without its entries.
Thinned(x, y) ==
  /\ \A m \in Mems :
       \/ y.mem[m] = x.mem[m] /\ (m \in Allocated(y) <=> m \in Allocated(x))
       \/ ~InUse(x.mem[m]) /\ y.mem[m] = FreeMem /\ m \notin Allocated(y)
  /\ \A e \in Entries :
       \/ y.entry[e] = x.entry[e]
       \/ x.entry[e].place = "used" /\ x.entry[e] # Reserved /\ y.entry[e] = FreeEntry
  /\ \A k \in Keys : y.table[k] = x.table[k] \/ y.table[k] = None

\* Nothing evicted is a thinning.
LEMMA ThinnedSelf == \A x : Thinned(x, x)
BY DEF Thinned

\* What is blank is not in use.
LEMMA BlankIdle == ~InUse(FreeMem) /\ FreeEntry.place = "free" /\ FreeEntry.mem = None
BY DEF InUse, FreeMem, FreeEntry

\* Two evictions after each other are one.
LEMMA ThinnedTwice ==
  ASSUME NEW x, NEW y, NEW z, Thinned(x, y), Thinned(y, z)
  PROVE  Thinned(x, z)
BY BlankIdle DEF Thinned

\* Freeing what is not in use is an eviction.
LEMMA FreedThinned ==
  ASSUME NEW x, Sound(x), NEW S \in SUBSET Mems, \A m \in S : ~InUse(x.mem[m]),
         NEW y, Freed(x, y, S)
  PROVE  Thinned(x, y)
<1>1. None \notin Mems /\ Reserved.mem = None
  BY CacheSound DEF Reserved, FreeEntry
<1> QED
  BY <1>1 DEF Freed, Thinned

\* CCache__FreeOldestMemEntry: only what is not in use is freed.
LEMMA AfterThinned ==
  ASSUME NEW x, Sound(x), NEW recentToo, NEW n \in 0 .. Len(Victims(x, recentToo)),
         NEW y, y = After(x, recentToo, n)
  PROVE  Sound(y) /\ Thinned(x, y)
<1> DEFINE busy == {m \in Mems : InUse(x.mem[m]) \/ (~recentToo /\ x.mem[m].age < StaleAge)}
           v == Victims(x, recentToo)
           S == {v[i] : i \in 1 .. n}
<1>1. x.order \in Seq(Mems)
  BY DEF Sound, Memories
<1>2. Without(x.order, busy) \in Seq(Mems) /\ Among(Without(x.order, busy)) = Among(x.order) \ busy
  BY <1>1, WithoutIs
<1>3. v = Reverse(Without(x.order, busy))
  BY DEF Victims
<1>4. v \in Seq(Mems) /\ Among(v) = Among(x.order) \ busy
  <2> HIDE DEF v, busy
  <2> QED
    BY <1>2, <1>3, ReverseIs
<1>5. \A i \in 1 .. n : v[i] \in Among(v)
  <2>1. Len(v) \in Nat /\ DOMAIN v = 1 .. Len(v) /\ \A i \in DOMAIN v : v[i] \in Mems
    BY <1>4
  <2>2. \A i \in 1 .. n : i \in DOMAIN v
    BY <2>1
  <2> QED
    BY <2>1, <2>2 DEF Among
<1>6. \A m \in Among(v) : m \in Mems /\ ~InUse(x.mem[m])
  BY <1>4 DEF Among
<1>7. S \in SUBSET Mems /\ \A m \in S : ~InUse(x.mem[m])
  <2> HIDE DEF v
  <2> QED
    BY <1>5, <1>6
<1>8. y = Dropped(x, S)
  BY DEF After
<1> HIDE DEF S
<1>9. Freed(x, y, S)
  BY <1>7, <1>8, DroppedFreed DEF Sound
<1> QED
  BY <1>7, <1>9, FreedSound, FreedThinned

\* CCache__FreeOldestMemEntry evicts what nobody uses, and leaves sound records.
LEMMA EvictedThinned ==
  ASSUME NEW x, Sound(x), NEW recentToo, NEW enough \in SUBSET Counts(x, recentToo),
         NEW y, y = Evicted(x, recentToo, enough)
  PROVE  Sound(y) /\ Thinned(x, y)
<1> DEFINE v == Victims(x, recentToo)
           least == CHOOSE i \in enough : \A j \in enough : i <= j
<1>1. Len(v) \in Nat
  <2> DEFINE busy == {m \in Mems : InUse(x.mem[m]) \/ (~recentToo /\ x.mem[m].age < StaleAge)}
  <2>1. x.order \in Seq(Mems)
    BY DEF Sound, Memories
  <2>2. Without(x.order, busy) \in Seq(Mems)
    BY <2>1, WithoutIs
  <2>3. v = Reverse(Without(x.order, busy))
    BY DEF Victims
  <2> HIDE DEF v, busy
  <2>4. v \in Seq(Mems)
    BY <2>2, <2>3, ReverseIs
  <2> QED
    BY <2>4
<1>2. CASE enough = {}
  <2>1. Len(v) \in 0 .. Len(v) /\ y = After(x, recentToo, Len(v))
    BY <1>1, <1>2 DEF Evicted
  <2> QED
    BY <2>1, AfterThinned
<1>3. CASE enough # {}
  <2>1. enough \subseteq 1 .. Len(v)
    BY DEF Counts
  <2>2. enough \subseteq Nat
    BY <1>1, <2>1
  <2>3. \E i \in enough : \A j \in enough : i <= j
    BY <1>3, <2>2, LeastOf
  <2>4. least \in enough
    BY <2>3
  <2>5. y = After(x, recentToo, least)
    BY <1>3 DEF Evicted
  <2> HIDE DEF least, v
  <2>6. least \in 0 .. Len(v)
    BY <1>1, <2>1, <2>4
  <2> QED
    BY <2>5, <2>6, AfterThinned DEF v
<1> QED
  BY <1>2, <1>3

\* Finding an entry at most evicts.
LEMMA WithCacheEntryThinned ==
  ASSUME NEW x, Sound(x), NEW recentToo, NEW y, y = WithCacheEntry(x, recentToo)
  PROVE  Sound(y) /\ Thinned(x, y)
<1> DEFINE S == {i \in Counts(x, recentToo) : FreeEntries(After(x, recentToo, i)) # {}}
<1>1. CASE FreeEntries(x) # {}
  BY <1>1, ThinnedSelf DEF WithCacheEntry
<1>2. CASE FreeEntries(x) = {}
  <2>1. y = Evicted(x, recentToo, S) /\ S \in SUBSET Counts(x, recentToo)
    BY <1>2 DEF WithCacheEntry
  <2> HIDE DEF S
  <2> QED
    BY <2>1, EvictedThinned
<1> QED
  BY <1>1, <1>2

\* Finding a record of memory at most evicts.
LEMMA WithRecordThinned ==
  ASSUME NEW x, Sound(x), NEW recentToo, NEW y, y = WithRecord(x, recentToo)
  PROVE  Sound(y) /\ Thinned(x, y)
<1>1. CASE FreeRecords(x) # {}
  BY <1>1, ThinnedSelf DEF WithRecord
<1>2. CASE FreeRecords(x) = {}
  <2>1. y = Evicted(x, recentToo, Counts(x, recentToo))
    BY <1>2 DEF WithRecord
  <2> QED
    BY <2>1, EvictedThinned
<1> QED
  BY <1>1, <1>2

\* The heap's first and last room for n.
LEMMA FitIs ==
  ASSUME NEW x, NEW n \in Nat, Fits(x, n) # {}
  PROVE  /\ FirstFit(x, n) \in Fits(x, n) /\ LastFit(x, n) \in Fits(x, n)
         /\ Fits(x, n) \subseteq Nat
<1>1. HeapSize \in Nat
  BY CacheSound
<1>2. Fits(x, n) \subseteq 0 .. HeapSize /\ Fits(x, n) \subseteq Nat
  BY <1>1 DEF Fits
<1>3. \E a \in Fits(x, n) : \A b \in Fits(x, n) : a <= b
  BY <1>2, LeastOf
<1>4. \E a \in Fits(x, n) : \A b \in Fits(x, n) : a >= b
  BY <1>1, <1>2, GreatestOf
<1> QED
  BY <1>2, <1>3, <1>4 DEF FirstFit, LastFit

----------------------------------------------------------------------------
(* Allocation                                                               *)

AllocFlags == [persistent : BOOLEAN, fixed : BOOLEAN, recentToo : BOOLEAN, top : BOOLEAN]

\* y is x with room n given to the record m, and maybe less of what was not in use.
Given(x, y, m, n, flags) ==
  /\ m \in Mems /\ m \in Allocated(y) /\ ~InUse(x.mem[m])
  /\ y.mem[m].size = n /\ y.mem[m].locks = 1 /\ y.mem[m].persistent = flags.persistent
  /\ y.mem[m].entry = None /\ y.mem[m].lists = {} /\ y.mem[m].holds = Junk
  /\ \A k \in Mems \ {m} :
       \/ y.mem[k] = x.mem[k] /\ (k \in Allocated(y) <=> k \in Allocated(x))
       \/ ~InUse(x.mem[k]) /\ y.mem[k] = FreeMem /\ k \notin Allocated(y)
  /\ \A e \in Entries :
       \/ y.entry[e] = x.entry[e]
       \/ x.entry[e].place = "used" /\ x.entry[e] # Reserved /\ y.entry[e] = FreeEntry
  /\ \A k \in Keys : y.table[k] = x.table[k] \/ y.table[k] = None

\* What CCache__AllocateInternal does with the record, and with its room.
Taking(x, m) == [x EXCEPT !.mem[m].locks = 1, !.order = <<m>> \o @]

Placing(x, m, n, at, flags) ==
  [x EXCEPT !.mem[m] = [@ EXCEPT !.at = at, !.size = n, !.persistent = flags.persistent,
                                 !.fixed = flags.fixed]]

\* A record of no size is taken first.
LEMMA RecordTaken ==
  ASSUME NEW x, Sound(x), NEW m \in FreeRecords(x),
         NEW y, y = Taking(x, m)
  PROVE  /\ Sound(y) /\ m \in Mems /\ m \notin Allocated(x) /\ x.mem[m] = FreeMem
         /\ y.mem[m] = [FreeMem EXCEPT !.locks = 1]
         /\ \A k \in Mems \ {m} : y.mem[k] = x.mem[k]
         /\ Allocated(y) = Allocated(x) \cup {m} /\ y.entry = x.entry /\ y.table = x.table
<1>1. /\ x \in Memories /\ Apart(x) /\ Agree(x) /\ Marked(x)
      /\ x.order \in Seq(Mems) /\ x.mem \in [Mems -> MemRecord]
      /\ m \in Mems /\ m \notin Allocated(x) /\ x.mem[m] = FreeMem
  BY DEF Sound, Memories, FreeRecords, Apart
<1>2. /\ y.order = <<m>> \o x.order /\ y.entry = x.entry /\ y.table = x.table
      /\ y.mem = [x.mem EXCEPT ![m] = [@ EXCEPT !.locks = 1]]
      /\ y = [x EXCEPT !.mem = y.mem, !.order = y.order]
  BY <1>1 DEF Memories, Taking
<1>3. [FreeMem EXCEPT !.locks = 1] \in MemRecord
  BY Blanks DEF MemRecord
<1>4. /\ y.mem \in [Mems -> MemRecord] /\ y.mem[m] = [FreeMem EXCEPT !.locks = 1]
      /\ \A k \in Mems \ {m} : y.mem[k] = x.mem[k]
  <2>1. y.mem = [x.mem EXCEPT ![m] = [FreeMem EXCEPT !.locks = 1]]
    BY <1>1, <1>2
  <2> QED
    BY <1>1, <1>3, <2>1
<1>5. y.order \in Seq(Mems) /\ Allocated(y) = Allocated(x) \cup {m}
  <2>1. y.order \in Seq(Mems) /\ Among(y.order) = Among(x.order) \cup {m}
    BY <1>1, <1>2, InFront
  <2> QED
    BY <2>1, AllocatedIs
<1>6. y \in Memories
  BY <1>1, <1>2, <1>4, <1>5 DEF Memories
<1>7. /\ y.mem[m].entry = None /\ y.mem[m].persistent = FALSE /\ y.mem[m].at = 0
      /\ y.mem[m].size = 0 /\ FreeMem.entry = None
  BY <1>4 DEF FreeMem
<1>8. Span(y.mem[m]) = {}
  BY <1>7 DEF Span
<1>9. \A k \in Allocated(x) : k # m /\ k \in Mems
  BY <1>1 DEF Allocated
<1>10. Apart(y)
  <2>1. y.mem[m].at + y.mem[m].size <= HeapSize
    BY <1>7, CacheSound
  <2> QED
    BY <1>1, <1>4, <1>5, <1>8, <1>9, <2>1 DEF Apart
<1>11. Agree(y)
  <2>1. \A e \in Entries : UsedOk(x, e) => UsedOk(y, e)
    BY <1>1, <1>2, <1>4, <1>5, <1>9 DEF UsedOk
  <2> QED
    BY <1>1, <1>2, <1>4, <1>7, <2>1 DEF Agree
<1>12. Marked(y)
  BY <1>1, <1>2, <1>4, <1>7 DEF Marked
<1> QED
  BY <1>1, <1>2, <1>4, <1>5, <1>6, <1>10, <1>11, <1>12 DEF Sound

\* Where there is room, the record has it.
LEMMA RoomGiven ==
  ASSUME NEW x, Sound(x), NEW m \in Allocated(x), x.mem[m] = [FreeMem EXCEPT !.locks = 1],
         NEW n \in Nat, NEW a \in Fits(x, n), a \in Nat, NEW flags \in AllocFlags,
         NEW y, y = Placing(x, m, n, a, flags)
  PROVE  /\ Sound(y) /\ Allocated(y) = Allocated(x) /\ y.entry = x.entry /\ y.table = x.table
         /\ \A k \in Mems \ {m} : y.mem[k] = x.mem[k]
         /\ y.mem[m].size = n /\ y.mem[m].locks = 1 /\ y.mem[m].persistent = flags.persistent
         /\ y.mem[m].entry = None /\ y.mem[m].lists = {} /\ y.mem[m].holds = Junk
<1> DEFINE r == [x.mem[m] EXCEPT !.at = a, !.size = n,
                                 !.persistent = flags.persistent, !.fixed = flags.fixed]
<1>1. /\ x \in Memories /\ Apart(x) /\ Agree(x) /\ Marked(x)
      /\ x.mem \in [Mems -> MemRecord] /\ m \in Mems /\ Allocated(x) \subseteq Mems
      /\ x.mem[m] \in MemRecord
  BY DEF Sound, Memories, Allocated
<1>2. flags.persistent \in BOOLEAN /\ flags.fixed \in BOOLEAN
  BY DEF AllocFlags
<1>3. /\ r \in MemRecord /\ r.at = a /\ r.size = n /\ r.locks = 1 /\ r.persistent = flags.persistent
      /\ r.entry = None /\ r.lists = {} /\ r.holds = Junk
  <2>1. /\ x.mem[m].locks = 1 /\ x.mem[m].entry = None /\ x.mem[m].lists = {}
        /\ x.mem[m].holds = Junk
    BY DEF FreeMem
  <2> QED
    BY <1>1, <1>2, <2>1 DEF MemRecord
<1>4. /\ y.mem = [x.mem EXCEPT ![m] = r] /\ y.order = x.order /\ y.entry = x.entry
      /\ y.table = x.table /\ y = [x EXCEPT !.mem = y.mem]
  BY <1>1 DEF Memories, Placing
<1> HIDE DEF r
<1>5. /\ y.mem \in [Mems -> MemRecord] /\ y.mem[m] = r
      /\ \A k \in Mems \ {m} : y.mem[k] = x.mem[k]
  BY <1>1, <1>3, <1>4
<1>6. y \in Memories
  BY <1>1, <1>4, <1>5 DEF Memories
<1>7. Allocated(y) = Allocated(x)
  BY <1>4 DEF Allocated
<1>8. Apart(y)
  <2>1. \A k \in Allocated(x) : Span(r) \cap Span(x.mem[k]) = {}
    BY <1>3 DEF Fits, Span
  <2>2. HeapSize \in Nat
    BY CacheSound
  <2>3. r.at + r.size <= HeapSize
    BY <1>3, <2>2 DEF Fits
  <2> QED
    BY <1>1, <1>5, <1>7, <2>1, <2>3 DEF Apart
<1>9. Agree(y)
  <2>1. x.mem[m].entry = None
    BY DEF FreeMem
  <2>2. \A e \in Entries : x.entry[e] # Reserved /\ x.entry[e].place = "used" => x.entry[e].mem # m
    <3>1. None \notin Entries
      BY CacheSound
    <3>2. \A e \in Entries : x.entry[e] # Reserved /\ x.entry[e].place = "used" =>
            x.mem[x.entry[e].mem].entry = e
      BY <1>1 DEF Agree, UsedOk
    <3> QED
      BY <2>1, <3>1, <3>2
  <2>3. ASSUME NEW e \in Entries, x.entry[e] # Reserved, x.entry[e].place = "used"
        PROVE  UsedOk(y, e)
    <3>1. UsedOk(x, e) /\ x.entry[e].mem # m
      BY <1>1, <2>2, <2>3 DEF Agree
    <3>2. x.entry[e].mem \in Mems
      BY <1>1, <3>1 DEF UsedOk
    <3>3. y.mem[x.entry[e].mem] = x.mem[x.entry[e].mem]
      BY <1>5, <3>1, <3>2
    <3> QED
      BY <1>4, <1>7, <3>1, <3>3 DEF UsedOk
  <2>4. \A k \in Mems : y.mem[k].entry = x.mem[k].entry
    BY <1>3, <1>5, <2>1
  <2> QED
    BY <1>1, <1>4, <2>3, <2>4 DEF Agree
<1>10. Marked(y)
  <2>1. \A k \in Plain \cup Packed : Junk # Res(k)
    BY DEF Junk, Res
  <2> QED
    BY <1>1, <1>3, <1>4, <1>5, <2>1 DEF Marked
<1> QED
  BY <1>3, <1>4, <1>5, <1>6, <1>7, <1>8, <1>9, <1>10 DEF Sound

\* CCache__AllocateInternal gives a record with room, or nothing.
LEMMA Allocated1Is ==
  ASSUME NEW x, Sound(x), NEW m \in FreeRecords(x), NEW n \in Nat, NEW flags \in AllocFlags,
         NEW a, a = Allocated1(x, m, n, flags)
  PROVE  /\ Sound(a.x)
         /\ \/ a.mem = None /\ Thinned(x, a.x)
            \/ a.mem = m /\ Given(x, a.x, m, n, flags)
<1> DEFINE z == Taking(x, m)
           S == Rooms(z, flags.recentToo, n)
           w == IF Fits(z, n) # {} THEN z ELSE Evicted(z, flags.recentToo, S)
           at == IF flags.top THEN LastFit(w, n) ELSE FirstFit(w, n)
           y == Placing(w, m, n, at, flags)
<1>1. a = IF Fits(w, n) = {} THEN [x |-> FreeMems(w, {m}), mem |-> None]
          ELSE [x |-> y, mem |-> m]
  BY DEF Allocated1, Taking, Placing
<1>2. /\ Sound(z) /\ m \in Mems /\ m \notin Allocated(x) /\ x.mem[m] = FreeMem
      /\ z.mem[m] = [FreeMem EXCEPT !.locks = 1]
      /\ \A k \in Mems \ {m} : z.mem[k] = x.mem[k]
      /\ Allocated(z) = Allocated(x) \cup {m} /\ z.entry = x.entry /\ z.table = x.table
  BY RecordTaken
<1>3. S \in SUBSET Counts(z, flags.recentToo)
  BY DEF Rooms
<1>4. w = z \/ w = Evicted(z, flags.recentToo, S)
  OBVIOUS
<1> HIDE DEF z, S, w
<1>5. Sound(w) /\ Thinned(z, w)
  BY <1>2, <1>3, <1>4, EvictedThinned, ThinnedSelf
<1>6. InUse(z.mem[m]) /\ z.mem[m].entry = None
  BY <1>2 DEF InUse, FreeMem
<1>7. w.mem[m] = [FreeMem EXCEPT !.locks = 1] /\ m \in Allocated(w) /\ w.mem[m].entry = None
  BY <1>2, <1>5, <1>6 DEF Thinned
<1>8. /\ \A k \in Mems \ {m} :
           \/ w.mem[k] = x.mem[k] /\ (k \in Allocated(w) <=> k \in Allocated(x))
           \/ ~InUse(x.mem[k]) /\ w.mem[k] = FreeMem /\ k \notin Allocated(w)
      /\ \A e \in Entries :
           \/ w.entry[e] = x.entry[e]
           \/ x.entry[e].place = "used" /\ x.entry[e] # Reserved /\ w.entry[e] = FreeEntry
      /\ \A k \in Keys : w.table[k] = x.table[k] \/ w.table[k] = None
  BY <1>2, <1>5 DEF Thinned
<1>9. CASE Fits(w, n) = {}
  <2>1. a.mem = None /\ a.x = FreeMems(w, {m})
    BY <1>1, <1>9
  <2>2. {m} \in SUBSET Mems /\ \A k \in {m} : w.mem[k].entry = None
    BY <1>2, <1>7
  <2>3. Freed(w, a.x, {m})
    BY <1>5, <2>1, <2>2, FreeMemsFreed
  <2>4. Sound(a.x)
    BY <1>5, <2>2, <2>3, FreedSound
  <2>5. \A e \in Entries : w.entry[e].place = "used" => w.entry[e].mem # m
    BY <1>5, <1>7, <1>2, CacheSound DEF Sound, Agree, UsedOk, Reserved, FreeEntry
  <2>6. \A k \in Keys : w.table[k] # None => w.entry[w.table[k]].mem # m
    BY <1>5, <2>5 DEF Sound, Agree, Memories, SomeEntry
  <2>7. /\ a.x.mem[m] = FreeMem /\ m \notin Allocated(a.x)
        /\ \A k \in Mems \ {m} : a.x.mem[k] = w.mem[k] /\ (k \in Allocated(a.x) <=> k \in Allocated(w))
        /\ \A e \in Entries : a.x.entry[e] = w.entry[e]
        /\ \A k \in Keys : a.x.table[k] = w.table[k]
    BY <1>2, <2>3, <2>5, <2>6 DEF Freed
  <2>8. Thinned(x, a.x)
    BY <1>2, <1>8, <2>7 DEF Thinned
  <2> QED
    BY <2>1, <2>4, <2>8
<1>10. CASE Fits(w, n) # {}
  <2>1. a.mem = m /\ a.x = y
    BY <1>1, <1>10
  <2>2. at \in Fits(w, n) /\ at \in Nat
    BY <1>10, FitIs
  <2> HIDE DEF at
  <2>3. /\ Sound(a.x) /\ Allocated(a.x) = Allocated(w) /\ a.x.entry = w.entry /\ a.x.table = w.table
        /\ \A k \in Mems \ {m} : a.x.mem[k] = w.mem[k]
        /\ a.x.mem[m].size = n /\ a.x.mem[m].locks = 1 /\ a.x.mem[m].persistent = flags.persistent
        /\ a.x.mem[m].entry = None /\ a.x.mem[m].lists = {} /\ a.x.mem[m].holds = Junk
    BY <1>5, <1>7, <2>1, <2>2, RoomGiven
  <2>4. Given(x, a.x, m, n, flags)
    BY <1>2, <1>7, <1>8, <2>3, BlankIdle DEF Given
  <2> QED
    BY <2>1, <2>3, <2>4
<1> QED
  BY <1>9, <1>10

\* An allocation evicts, and then gives blank memory that overlaps no other.
LEMMA AllocationsAre ==
  ASSUME NEW x, Sound(x), NEW n \in Nat, NEW flags \in AllocFlags,
         NEW a \in Allocations(x, n, flags)
  PROVE  /\ Sound(a.x)
         /\ \/ a.mem = None /\ Thinned(x, a.x)
            \/ a.mem \in Mems /\ Given(x, a.x, a.mem, n, flags)
<1> DEFINE y == WithRecord(x, flags.recentToo)
<1>1. Sound(y) /\ Thinned(x, y)
  BY WithRecordThinned
<1>2. \/ a = [x |-> y, mem |-> None]
      \/ \E m \in FreeRecords(y) : a = Allocated1(y, m, n, flags)
  BY DEF Allocations
<1> HIDE DEF y
<1>3. CASE a = [x |-> y, mem |-> None]
  BY <1>1, <1>3
<1>4. CASE \E m \in FreeRecords(y) : a = Allocated1(y, m, n, flags)
  <2>1. PICK m \in FreeRecords(y) : a = Allocated1(y, m, n, flags)
    BY <1>4
  <2>2. /\ Sound(a.x)
        /\ \/ a.mem = None /\ Thinned(y, a.x)
           \/ a.mem = m /\ Given(y, a.x, m, n, flags)
    BY <1>1, <2>1, Allocated1Is
  <2>3. CASE a.mem = None /\ Thinned(y, a.x)
    BY <1>1, <2>2, <2>3, ThinnedTwice
  <2>4. CASE a.mem = m /\ Given(y, a.x, m, n, flags)
    <3>1. m \in Mems
      BY DEF FreeRecords
    <3>2. Given(x, a.x, m, n, flags)
      BY <1>1, <2>4, BlankIdle DEF Thinned, Given
    <3> QED
      BY <2>2, <2>4, <3>1, <3>2
  <2> QED
    BY <2>2, <2>3, <2>4
<1> QED
  BY <1>2, <1>3, <1>4

----------------------------------------------------------------------------
(* References, ages and content                                             *)

\* y has the memory, the entries and the table of x: only who uses the memory, and
\* when it was used, may differ.
Soft(x, y) ==
  /\ y \in Memories /\ Allocated(y) = Allocated(x)
  /\ y.entry = x.entry /\ y.table = x.table
  /\ \A m \in Mems :
       /\ y.mem[m].at = x.mem[m].at /\ y.mem[m].size = x.mem[m].size
       /\ y.mem[m].persistent = x.mem[m].persistent /\ y.mem[m].entry = x.mem[m].entry
       /\ y.mem[m].holds = x.mem[m].holds
       /\ y.mem[m].persistent => y.mem[m].lists \subseteq x.mem[m].lists
  /\ \A m \in Mems \ Allocated(x) : y.mem[m] = x.mem[m]

\* Counts, ages and lists of what stays allocated may change.
LEMMA SoftSound == ASSUME NEW x, Sound(x), NEW y, Soft(x, y) PROVE Sound(y)
<1>1. /\ y \in Memories /\ Allocated(y) = Allocated(x)
      /\ y.entry = x.entry /\ y.table = x.table
      /\ \A m \in Mems :
           /\ y.mem[m].at = x.mem[m].at /\ y.mem[m].size = x.mem[m].size
           /\ y.mem[m].persistent = x.mem[m].persistent /\ y.mem[m].entry = x.mem[m].entry
           /\ y.mem[m].holds = x.mem[m].holds
           /\ y.mem[m].persistent => y.mem[m].lists \subseteq x.mem[m].lists
      /\ \A m \in Mems \ Allocated(x) : y.mem[m] = x.mem[m]
      /\ Allocated(x) \subseteq Mems
  BY DEF Soft, Allocated
<1>2. Apart(y)
  <2>1. \A m \in Mems : Span(y.mem[m]) = Span(x.mem[m])
    BY <1>1 DEF Span
  <2> QED
    BY <1>1, <2>1 DEF Sound, Apart
<1>3. Agree(y)
  <2>1. \A e \in Entries : UsedOk(x, e) => UsedOk(y, e)
    BY <1>1 DEF UsedOk
  <2> QED
    BY <1>1, <2>1 DEF Sound, Agree
<1>4. Marked(y)
  BY <1>1 DEF Sound, Marked
<1> QED
  BY <1>1, <1>2, <1>3, <1>4 DEF Sound

\* A memory record is replaced by one with the same data.
LEMMA SoftRecord ==
  ASSUME NEW x, Sound(x), NEW m \in Allocated(x), NEW r \in MemRecord,
         r.at = x.mem[m].at, r.size = x.mem[m].size, r.persistent = x.mem[m].persistent,
         r.entry = x.mem[m].entry, r.holds = x.mem[m].holds,
         r.persistent => r.lists \subseteq x.mem[m].lists,
         NEW y, y.mem = [x.mem EXCEPT ![m] = r], y.entry = x.entry, y.table = x.table,
         y.order \in Seq(Mems), Among(y.order) = Among(x.order), DOMAIN y = DOMAIN x,
         y = [mem |-> y.mem, order |-> y.order, entry |-> y.entry, table |-> y.table]
  PROVE  Soft(x, y)
<1>1. /\ x \in Memories /\ x.mem \in [Mems -> MemRecord] /\ m \in Mems
      /\ x.entry \in [Entries -> EntryRecord] /\ x.table \in [Keys -> SomeEntry]
  BY DEF Sound, Memories, Allocated
<1>2. /\ y.mem \in [Mems -> MemRecord] /\ y.mem[m] = r
      /\ \A k \in Mems \ {m} : y.mem[k] = x.mem[k]
  BY <1>1
<1>3. y \in Memories
  BY <1>1, <1>2 DEF Memories
<1>4. Allocated(y) = Allocated(x)
  BY AllocatedIs
<1> QED
  BY <1>1, <1>2, <1>3, <1>4 DEF Soft

\* The parts of x.
LEMMA Parts ==
  ASSUME NEW x, x \in Memories
  PROVE  /\ x.mem \in [Mems -> MemRecord] /\ x.order \in Seq(Mems)
         /\ x.entry \in [Entries -> EntryRecord] /\ x.table \in [Keys -> SomeEntry]
         /\ x = [mem |-> x.mem, order |-> x.order, entry |-> x.entry, table |-> x.table]
         /\ DOMAIN x = {"mem", "order", "entry", "table"}
         /\ Allocated(x) \subseteq Mems
BY DEF Memories, Allocated

\* Touching memory makes it young, and first in the list.
LEMMA TouchedSoft ==
  ASSUME NEW x, Sound(x), NEW m \in Allocated(x), NEW y, y = Touched(x, m)
  PROVE  Soft(x, y) /\ \A k \in Mems : y.mem[k].locks = x.mem[k].locks
<1> DEFINE r == [x.mem[m] EXCEPT !.age = 0]
<1>1. /\ x.mem \in [Mems -> MemRecord] /\ x.order \in Seq(Mems) /\ m \in Mems
      /\ DOMAIN x = {"mem", "order", "entry", "table"}
      /\ x = [mem |-> x.mem, order |-> x.order, entry |-> x.entry, table |-> x.table]
  BY Parts DEF Sound
<1>2. /\ r \in MemRecord /\ r.at = x.mem[m].at /\ r.size = x.mem[m].size
      /\ r.persistent = x.mem[m].persistent /\ r.entry = x.mem[m].entry
      /\ r.holds = x.mem[m].holds /\ r.lists = x.mem[m].lists /\ r.locks = x.mem[m].locks
  BY <1>1 DEF MemRecord
<1>3. /\ y.mem = [x.mem EXCEPT ![m] = r] /\ y.entry = x.entry /\ y.table = x.table
      /\ DOMAIN y = DOMAIN x
      /\ y = [mem |-> y.mem, order |-> y.order, entry |-> y.entry, table |-> y.table]
  BY <1>1 DEF Touched
<1>4. y.order \in Seq(Mems) /\ Among(y.order) = Among(x.order)
  <2> DEFINE w == Without(x.order, {m})
  <2>1. w \in Seq(Mems) /\ Among(w) = Among(x.order) \ {m}
    BY <1>1, WithoutIs
  <2>2. y.order = <<m>> \o w
    BY <1>1 DEF Touched
  <2> HIDE DEF w
  <2>3. y.order \in Seq(Mems) /\ Among(y.order) = Among(w) \cup {m}
    BY <1>1, <2>1, <2>2, InFront
  <2>4. m \in Among(x.order)
    BY AllocatedIs
  <2> QED
    BY <2>1, <2>3, <2>4
<1> HIDE DEF r
<1>5. Soft(x, y)
  BY <1>1, <1>2, <1>3, <1>4, SoftRecord
<1>6. \A k \in Mems : y.mem[k].locks = x.mem[k].locks
  BY <1>1, <1>2, <1>3
<1> QED
  BY <1>5, <1>6

\* A reference counts for its own memory only.
LEMMA AddRefSoft ==
  ASSUME NEW x, Sound(x), NEW m \in Allocated(x), NEW y, y = AddRef(x, m)
  PROVE  /\ Soft(x, y)
         /\ \A k \in Mems : y.mem[k].locks = x.mem[k].locks + (IF k = m THEN 1 ELSE 0)
<1> DEFINE r == [x.mem[m] EXCEPT !.locks = @ + 1]
<1>1. /\ x.mem \in [Mems -> MemRecord] /\ x.order \in Seq(Mems) /\ m \in Mems
      /\ DOMAIN x = {"mem", "order", "entry", "table"}
      /\ x = [mem |-> x.mem, order |-> x.order, entry |-> x.entry, table |-> x.table]
  BY Parts DEF Sound
<1>2. /\ r.at = x.mem[m].at /\ r.size = x.mem[m].size
      /\ r.persistent = x.mem[m].persistent /\ r.entry = x.mem[m].entry
      /\ r.holds = x.mem[m].holds /\ r.lists = x.mem[m].lists
      /\ r.locks = x.mem[m].locks + 1 /\ x.mem[m].locks \in Nat
  BY <1>1 DEF MemRecord
<1>3. x.mem[m].locks + 1 \in Nat
  BY <1>2
<1>4. r \in MemRecord
  BY <1>1, <1>3 DEF MemRecord
<1>5. /\ y.mem = [x.mem EXCEPT ![m] = r] /\ y.entry = x.entry /\ y.table = x.table
      /\ y.order = x.order /\ DOMAIN y = DOMAIN x
      /\ y = [mem |-> y.mem, order |-> y.order, entry |-> y.entry, table |-> y.table]
  BY <1>1 DEF AddRef
<1> HIDE DEF r
<1>6. Soft(x, y)
  BY <1>1, <1>2, <1>5, <1>4, SoftRecord
<1>7. \A k \in Mems : x.mem[k].locks \in Nat
  BY <1>1 DEF MemRecord
<1>8. \A k \in Mems : y.mem[k].locks = x.mem[k].locks + (IF k = m THEN 1 ELSE 0)
  BY <1>1, <1>2, <1>5, <1>7, <1>4
<1> QED
  BY <1>6, <1>8

\* A reference that is given back counts for its own memory only.
LEMMA UnrefSoft ==
  ASSUME NEW x, Sound(x), NEW m \in Allocated(x), x.mem[m].locks > 0, NEW y, y = Unref(x, m)
  PROVE  /\ Soft(x, y)
         /\ \A k \in Mems : y.mem[k].locks = x.mem[k].locks - (IF k = m THEN 1 ELSE 0)
<1> DEFINE r == [x.mem[m] EXCEPT !.locks = @ - 1]
<1>1. /\ x.mem \in [Mems -> MemRecord] /\ x.order \in Seq(Mems) /\ m \in Mems
      /\ DOMAIN x = {"mem", "order", "entry", "table"}
      /\ x = [mem |-> x.mem, order |-> x.order, entry |-> x.entry, table |-> x.table]
  BY Parts DEF Sound
<1>2. /\ r.at = x.mem[m].at /\ r.size = x.mem[m].size
      /\ r.persistent = x.mem[m].persistent /\ r.entry = x.mem[m].entry
      /\ r.holds = x.mem[m].holds /\ r.lists = x.mem[m].lists
      /\ r.locks = x.mem[m].locks - 1 /\ x.mem[m].locks \in Nat
  BY <1>1 DEF MemRecord
<1>3. x.mem[m].locks - 1 \in Nat
  BY <1>2
<1>4. r \in MemRecord
  BY <1>1, <1>3 DEF MemRecord
<1>5. /\ y.mem = [x.mem EXCEPT ![m] = r] /\ y.entry = x.entry /\ y.table = x.table
      /\ y.order = x.order /\ DOMAIN y = DOMAIN x
      /\ y = [mem |-> y.mem, order |-> y.order, entry |-> y.entry, table |-> y.table]
  BY <1>1 DEF Unref
<1> HIDE DEF r
<1>6. Soft(x, y)
  BY <1>1, <1>2, <1>5, <1>4, SoftRecord
<1>7. \A k \in Mems : x.mem[k].locks \in Nat
  BY <1>1 DEF MemRecord
<1>8. \A k \in Mems : y.mem[k].locks = x.mem[k].locks - (IF k = m THEN 1 ELSE 0)
  BY <1>1, <1>2, <1>5, <1>7
<1> QED
  BY <1>6, <1>8

----------------------------------------------------------------------------
(* Where a request is on its way                                            *)

\* How many of s are in V.
Count(s, V) == Cardinality({i \in DOMAIN s : s[i] \in V})

\* Places in a queue can be counted, and none are when nothing there matches.
LEMMA CountIs ==
  ASSUME NEW S, NEW s \in Seq(S), NEW V
  PROVE  /\ IsFiniteSet({i \in DOMAIN s : s[i] \in V}) /\ Count(s, V) \in Nat
         /\ Count(s, V) = 0 <=> \A i \in DOMAIN s : s[i] \notin V
<1> DEFINE I == {i \in DOMAIN s : s[i] \in V}
<1>1. DOMAIN s = 1 .. Len(s) /\ Len(s) \in Nat
  OBVIOUS
<1>2. IsFiniteSet(1 .. Len(s))
  BY <1>1, FS_Interval
<1>3. I \subseteq 1 .. Len(s)
  BY <1>1
<1>4. IsFiniteSet(I)
  <2> HIDE DEF I
  <2> QED
    BY <1>2, <1>3, FS_Subset
<1>5. Cardinality(I) \in Nat /\ (Cardinality(I) = 0 <=> I = {})
  <2> HIDE DEF I
  <2> QED
    BY <1>4, FS_CardinalityType, FS_EmptySet
<1> QED
  BY <1>4, <1>5 DEF Count

\* n is m, and one more when p.
Counted(n, m, p) == n = m + (IF p THEN 1 ELSE 0)

\* s with v behind, and with v in front.
Behind(v, s) == Append(s, v)
Ahead(v, s)  == <<v>> \o s

\* What is put behind a queue counts once more.
LEMMA CountBehind ==
  ASSUME NEW S, NEW s \in Seq(S), NEW v \in S, NEW V, NEW t, t = Behind(v, s)
  PROVE  Counted(Count(t, V), Count(s, V), v \in V)
<1> DEFINE I == {i \in DOMAIN s : s[i] \in V}
           J == {i \in DOMAIN t : t[i] \in V}
<1>1. /\ Len(s) \in Nat /\ DOMAIN s = 1 .. Len(s) /\ DOMAIN t = 1 .. Len(s) + 1
      /\ \A i \in 1 .. Len(s) : t[i] = s[i]
      /\ t[Len(s) + 1] = v
  BY DEF Behind
<1>2. IsFiniteSet(I) /\ Count(s, V) \in Nat
  BY CountIs
<1>3. \A i \in 1 .. Len(s) + 1 : i \in 1 .. Len(s) \/ i = Len(s) + 1
  BY <1>1
<1>4. J = IF v \in V THEN I \cup {Len(s) + 1} ELSE I
  BY <1>1, <1>3
<1>5. Len(s) + 1 \notin I
  BY <1>1
<1>6. Count(t, V) = Cardinality(J) /\ Count(s, V) = Cardinality(I)
  BY DEF Count
<1> HIDE DEF I, J
<1>7. CASE v \in V
  <2>1. Cardinality(J) = Cardinality(I) + 1
    BY <1>2, <1>4, <1>5, <1>7, FS_AddElement
  <2> QED
    BY <1>7, <1>6, <2>1 DEF Counted
<1>8. CASE v \notin V
  BY <1>2, <1>4, <1>8, <1>6 DEF Counted
<1> QED
  BY <1>7, <1>8

\* What is put ahead of a queue counts once more.
LEMMA CountAhead ==
  ASSUME NEW S, NEW s \in Seq(S), NEW v \in S, NEW V, NEW t, t = Ahead(v, s)
  PROVE  Counted(Count(t, V), Count(s, V), v \in V)
<1> DEFINE I == {i \in DOMAIN s : s[i] \in V}
           J == {i \in DOMAIN t : t[i] \in V}
           K == {i + 1 : i \in I}
           f == [i \in I |-> i + 1]
<1>1. /\ Len(s) \in Nat /\ DOMAIN s = 1 .. Len(s) /\ DOMAIN t = 1 .. Len(s) + 1
      /\ \A i \in 1 .. Len(s) : t[i + 1] = s[i] /\ i + 1 \in 1 .. Len(s) + 1
      /\ t[1] = v
  BY DEF Ahead
<1>2. IsFiniteSet(I) /\ Count(s, V) \in Nat
  BY CountIs
<1>3. I \subseteq Nat \ {0}
  BY <1>1
<1>4. ExistsBijection(I, K)
  <2> HIDE DEF I
  <2>1. f \in [I -> K] /\ \A j \in K : \E i \in I : f[i] = j
    OBVIOUS
  <2>2. \A i \in I : f[i] = i + 1 /\ i \in Nat
    BY <1>3
  <2> HIDE DEF f, K
  <2>3. \A i, j \in I : f[i] = f[j] => i = j
    BY <2>2
  <2>4. f \in Bijection(I, K)
    BY <2>1, <2>3 DEF Bijection, Injection, Surjection, IsInjective
  <2> QED
    BY <2>4 DEF ExistsBijection
<1>5. IsFiniteSet(K) /\ Cardinality(K) = Cardinality(I)
  <2> HIDE DEF I, K, f
  <2> QED
    BY <1>2, <1>4, FS_Bijection
<1>6. 1 \notin K
  <2> HIDE DEF I
  <2>1. \A i \in I : i + 1 # 1
    BY <1>3
  <2> QED
    BY <2>1
<1>7. J = IF v \in V THEN K \cup {1} ELSE K
  <2>1. \A i \in 1 .. Len(s) + 1 : i = 1 \/ (i - 1 \in 1 .. Len(s) /\ i = (i - 1) + 1)
    BY <1>1
  <2>2. \A i \in DOMAIN t : i # 1 /\ t[i] \in V => i - 1 \in I /\ i = (i - 1) + 1
    BY <1>1, <2>1
  <2>3. \A i \in I : i + 1 \in J
    BY <1>1
  <2>4. K \subseteq J
    BY <2>3
  <2>5. \A i \in J : i = 1 \/ i \in K
    BY <2>2
  <2>6. 1 \in J <=> v \in V
    BY <1>1
  <2>7. \A i \in K : i \in J
    BY <2>3
  <2> HIDE DEF J, K
  <2>8. CASE v \in V
    <3>1. J = K \cup {1}
      BY <2>5, <2>6, <2>7, <2>8
    <3> QED
      BY <2>8, <3>1
  <2>9. CASE v \notin V
    <3>1. J = K
      BY <2>5, <2>6, <2>7, <2>9
    <3> QED
      BY <2>9, <3>1
  <2> QED
    BY <2>8, <2>9
<1>8. Count(t, V) = Cardinality(J) /\ Count(s, V) = Cardinality(I)
  BY DEF Count
<1> HIDE DEF I, J, K
<1>9. CASE v \in V
  <2>1. Cardinality(J) = Cardinality(K) + 1
    BY <1>5, <1>6, <1>7, <1>9, FS_AddElement
  <2> QED
    BY <1>5, <1>9, <1>8, <2>1 DEF Counted
<1>10. CASE v \notin V
  BY <1>2, <1>5, <1>7, <1>10, <1>8 DEF Counted
<1> QED
  BY <1>9, <1>10

\* The places a request may be in.
InLoads(e)    == Count(loads, {r \in LoadRecord : r.entry = e})
InAnswers(e)  == Count(answers, {e})
InJobs(e)     == Count(jobs, {j \in JobRecord : j.entry = e})
AtUnpacker(e) == IF unpacker.entry = e THEN 1 ELSE 0
AtCacher(e)   == IF cacher.entry = e THEN 1 ELSE 0
AtMain(e)     == IF main.entry = e /\ main.at \in {"load", "jam", "complete", "send", "undo"}
                 THEN 1 ELSE 0

Lined == Queued /\ jobs \in Seq(JobRecord)

Ways ==
  \A e \in Entries :
    /\ OnItsWay(e) = InLoads(e) + InAnswers(e) + InJobs(e) + AtUnpacker(e) + AtCacher(e) + AtMain(e)
    /\ InLoads(e) \in Nat /\ InAnswers(e) \in Nat /\ InJobs(e) \in Nat
    /\ InLoads(e) = 0 <=> \A i \in DOMAIN loads : loads[i].entry # e
    /\ InAnswers(e) = 0 <=> \A i \in DOMAIN answers : answers[i] # e
    /\ InJobs(e) = 0 <=> \A i \in DOMAIN jobs : jobs[i].entry # e

\* OnItsWay is the sum of the places a request can be in.
LEMMA WaysAre == Lined => Ways
<1> SUFFICES ASSUME Lined PROVE Ways
  OBVIOUS
<1>1. /\ loads \in Seq(LoadRecord) /\ answers \in Seq(Entries \cup Lists)
      /\ jobs \in Seq(JobRecord)
  BY DEF Lined, Queued
<1>2. /\ \A i \in DOMAIN loads : loads[i] \in LoadRecord
      /\ \A i \in DOMAIN jobs : jobs[i] \in JobRecord
  BY <1>1
<1> SUFFICES ASSUME NEW e \in Entries
             PROVE  /\ OnItsWay(e) = InLoads(e) + InAnswers(e) + InJobs(e) + AtUnpacker(e)
                                     + AtCacher(e) + AtMain(e)
                    /\ InLoads(e) \in Nat /\ InAnswers(e) \in Nat /\ InJobs(e) \in Nat
                    /\ InLoads(e) = 0 <=> \A i \in DOMAIN loads : loads[i].entry # e
                    /\ InAnswers(e) = 0 <=> \A i \in DOMAIN answers : answers[i] # e
                    /\ InJobs(e) = 0 <=> \A i \in DOMAIN jobs : jobs[i].entry # e
  BY DEF Ways
<1> DEFINE VL == {r \in LoadRecord : r.entry = e}
           VJ == {j \in JobRecord : j.entry = e}
           VA == {e}
<1>3. /\ Count(loads, VL) \in Nat
      /\ Count(loads, VL) = 0 <=> \A i \in DOMAIN loads : loads[i] \notin VL
  <2> HIDE DEF VL
  <2> QED
    BY <1>1, CountIs
<1>4. /\ Count(jobs, VJ) \in Nat
      /\ Count(jobs, VJ) = 0 <=> \A i \in DOMAIN jobs : jobs[i] \notin VJ
  <2> HIDE DEF VJ
  <2> QED
    BY <1>1, CountIs
<1>5. /\ Count(answers, VA) \in Nat
      /\ Count(answers, VA) = 0 <=> \A i \in DOMAIN answers : answers[i] \notin VA
  <2> HIDE DEF VA
  <2> QED
    BY <1>1, CountIs
<1>6. {i \in DOMAIN loads : loads[i].entry = e} = {i \in DOMAIN loads : loads[i] \in VL}
  BY <1>2
<1>7. {i \in DOMAIN jobs : jobs[i].entry = e} = {i \in DOMAIN jobs : jobs[i] \in VJ}
  BY <1>2
<1>8. {i \in DOMAIN answers : answers[i] = e} = {i \in DOMAIN answers : answers[i] \in VA}
  OBVIOUS
<1>9. OnItsWay(e) = InLoads(e) + InAnswers(e) + InJobs(e) + AtUnpacker(e) + AtCacher(e) + AtMain(e)
  BY <1>6, <1>7, <1>8
  DEF OnItsWay, InLoads, InAnswers, InJobs, AtUnpacker, AtCacher, AtMain, Count
<1>10. /\ \A i \in DOMAIN loads : loads[i] \in VL <=> loads[i].entry = e
       /\ \A i \in DOMAIN jobs : jobs[i] \in VJ <=> jobs[i].entry = e
  BY <1>2
<1>11. InLoads(e) = Count(loads, VL) /\ InJobs(e) = Count(jobs, VJ) /\ InAnswers(e) = Count(answers, VA)
  BY DEF InLoads, InJobs, InAnswers
<1> HIDE DEF VL, VJ
<1> QED
  BY <1>3, <1>4, <1>5, <1>9, <1>10, <1>11

\* The same in the next state.
LEMMA WaysNext == Lined' => Ways'
BY WaysAre, PTL

\* A request is in one place at most, and nowhere when it is not pending.
ToLoad(e)   == \E i \in DOMAIN loads : loads[i].entry = e
ToTake(e)   == \E i \in DOMAIN answers : answers[i] = e
ToUnpack(e) == \E i \in DOMAIN jobs : jobs[i].entry = e
WithMain(e) == main.entry = e /\ main.at \in {"load", "jam", "complete", "send", "undo"}

Lone(x) ==
  \A e \in Entries :
    /\ ToLoad(e)   => /\ e \in Pend(x) /\ ~ToTake(e) /\ ~ToUnpack(e)
                     /\ unpacker.entry # e /\ cacher.entry # e /\ ~WithMain(e)
    /\ ToTake(e)   => /\ e \in Pend(x) /\ ~ToLoad(e) /\ ~ToUnpack(e)
                     /\ unpacker.entry # e /\ cacher.entry # e /\ ~WithMain(e)
    /\ ToUnpack(e) => /\ e \in Pend(x) /\ ~ToLoad(e) /\ ~ToTake(e)
                     /\ unpacker.entry # e /\ cacher.entry # e /\ ~WithMain(e)
    /\ unpacker.entry = e => /\ e \in Pend(x) /\ ~ToLoad(e) /\ ~ToTake(e) /\ ~ToUnpack(e)
                             /\ cacher.entry # e /\ ~WithMain(e)
    /\ cacher.entry = e => /\ e \in Pend(x) /\ ~ToLoad(e) /\ ~ToTake(e) /\ ~ToUnpack(e)
                           /\ unpacker.entry # e /\ ~WithMain(e)
    /\ WithMain(e) => /\ e \in Pend(x) /\ ~ToLoad(e) /\ ~ToTake(e) /\ ~ToUnpack(e)
                      /\ unpacker.entry # e /\ cacher.entry # e

\* A request that is in one place is in no other.
LEMMA LoneIs == Lined /\ Tokens(c) => Lone(c)
<1> SUFFICES ASSUME Lined, Tokens(c) PROVE Lone(c)
  OBVIOUS
<1> SUFFICES ASSUME NEW e \in Entries
             PROVE  LET p1 == ToLoad(e)
                        p2 == ToTake(e)
                        p3 == ToUnpack(e)
                        p4 == unpacker.entry = e
                        p5 == cacher.entry = e
                        p6 == WithMain(e)
                    IN  /\ p1 => e \in Pend(c) /\ ~p2 /\ ~p3 /\ ~p4 /\ ~p5 /\ ~p6
                        /\ p2 => e \in Pend(c) /\ ~p1 /\ ~p3 /\ ~p4 /\ ~p5 /\ ~p6
                        /\ p3 => e \in Pend(c) /\ ~p1 /\ ~p2 /\ ~p4 /\ ~p5 /\ ~p6
                        /\ p4 => e \in Pend(c) /\ ~p1 /\ ~p2 /\ ~p3 /\ ~p5 /\ ~p6
                        /\ p5 => e \in Pend(c) /\ ~p1 /\ ~p2 /\ ~p3 /\ ~p4 /\ ~p6
                        /\ p6 => e \in Pend(c) /\ ~p1 /\ ~p2 /\ ~p3 /\ ~p4 /\ ~p5
  BY DEF Lone
<1> DEFINE p1 == ToLoad(e)
           p2 == ToTake(e)
           p3 == ToUnpack(e)
           p4 == unpacker.entry = e
           p5 == cacher.entry = e
           p6 == WithMain(e)
<1>1. /\ InLoads(e) \in Nat /\ InAnswers(e) \in Nat /\ InJobs(e) \in Nat
      /\ InLoads(e) = 0 <=> ~p1
      /\ InAnswers(e) = 0 <=> ~p2
      /\ InJobs(e) = 0 <=> ~p3
      /\ AtUnpacker(e) = IF p4 THEN 1 ELSE 0
      /\ AtCacher(e) = IF p5 THEN 1 ELSE 0
      /\ AtMain(e) = IF p6 THEN 1 ELSE 0
  BY WaysAre DEF Ways, AtUnpacker, AtCacher, AtMain, ToLoad, ToTake, ToUnpack, WithMain
<1>2. InLoads(e) + InAnswers(e) + InJobs(e) + AtUnpacker(e) + AtCacher(e) + AtMain(e)
      = IF e \in Pend(c) THEN 1 ELSE 0
  BY WaysAre DEF Ways, Tokens
<1> HIDE DEF p1, p2, p3, p4, p5, p6
<1>3. /\ p1 => e \in Pend(c) /\ ~p2 /\ ~p3 /\ ~p4 /\ ~p5 /\ ~p6
      /\ p2 => e \in Pend(c) /\ ~p1 /\ ~p3 /\ ~p4 /\ ~p5 /\ ~p6
      /\ p3 => e \in Pend(c) /\ ~p1 /\ ~p2 /\ ~p4 /\ ~p5 /\ ~p6
      /\ p4 => e \in Pend(c) /\ ~p1 /\ ~p2 /\ ~p3 /\ ~p5 /\ ~p6
      /\ p5 => e \in Pend(c) /\ ~p1 /\ ~p2 /\ ~p3 /\ ~p4 /\ ~p6
      /\ p6 => e \in Pend(c) /\ ~p1 /\ ~p2 /\ ~p3 /\ ~p4 /\ ~p5
  BY <1>1, <1>2
<1> QED
  BY <1>3 DEF p1, p2, p3, p4, p5, p6

\* The same in the next state.
LEMMA LoneNext == Lined' /\ Tokens(c)' => Lone(c)'
BY LoneIs, PTL

\* What is added to a queue, or taken from it, is in it once more, or once less.
LEMMA LoadAdded ==
  ASSUME Lined, NEW e \in Entries, NEW to \in Nat,
         loads' = Append(loads, [entry |-> e, to |-> to])
  PROVE  loads' \in Seq(LoadRecord)
         /\ \A f \in Entries : InLoads(f)' = InLoads(f) + (IF f = e THEN 1 ELSE 0)
<1> DEFINE r == [entry |-> e, to |-> to]
<1>1. loads \in Seq(LoadRecord) /\ r \in LoadRecord /\ loads' = Behind(r, loads) /\ r.entry = e
  BY DEF Lined, Queued, LoadRecord, Behind
<1>2. loads' \in Seq(LoadRecord)
  BY <1>1 DEF Behind
<1> HIDE DEF r
<1>3. ASSUME NEW V PROVE Counted(Count(loads', V), Count(loads, V), r \in V)
  BY <1>1, CountBehind
<1>4. ASSUME NEW f \in Entries PROVE InLoads(f)' = InLoads(f) + (IF f = e THEN 1 ELSE 0)
  <2> DEFINE V == {q \in LoadRecord : q.entry = f}
  <2>1. r \in V <=> f = e
    BY <1>1
  <2> QED
    BY <1>3, <2>1 DEF Counted, InLoads, V
<1> QED
  BY <1>2, <1>4

\* What the loader finishes has left its queue, once.
LEMMA LoadTaken ==
  ASSUME Lined, loads # <<>>, loads' = Tail(loads)
  PROVE  /\ loads' \in Seq(LoadRecord) /\ Head(loads) \in LoadRecord
         /\ \A f \in Entries :
              InLoads(f)' \in Nat /\ InLoads(f) = InLoads(f)' + (IF f = Head(loads).entry THEN 1 ELSE 0)
<1>1. loads \in Seq(LoadRecord)
  BY DEF Lined, Queued
<1>2. loads' \in Seq(LoadRecord) /\ Head(loads) \in LoadRecord /\ loads = Ahead(Head(loads), loads')
  BY <1>1 DEF Ahead
<1> DEFINE h == Head(loads)
<1>3. h = Head(loads)
  OBVIOUS
<1> HIDE DEF h
<1>4. ASSUME NEW V PROVE Counted(Count(loads, V), Count(loads', V), h \in V)
  BY <1>1, <1>2, <1>3, CountAhead
<1>5. ASSUME NEW f \in Entries
      PROVE  InLoads(f)' \in Nat /\ InLoads(f) = InLoads(f)' + (IF f = h.entry THEN 1 ELSE 0)
  <2> DEFINE V == {q \in LoadRecord : q.entry = f}
  <2>1. h \in V <=> f = h.entry
    BY <1>2, <1>3
  <2>2. \A W : Count(loads', W) \in Nat
    BY <1>2, CountIs
  <2> QED
    BY <1>4, <2>1, <2>2 DEF Counted, InLoads, V
<1> QED
  BY <1>2, <1>5, <1>3

\* What is put in the cache's queue is there once more.
LEMMA AnswerAdded ==
  ASSUME Lined, NEW a \in Entries \cup Lists, answers' = Append(answers, a)
  PROVE  answers' \in Seq(Entries \cup Lists)
         /\ \A f \in Entries : InAnswers(f)' = InAnswers(f) + (IF f = a THEN 1 ELSE 0)
<1>1. answers \in Seq(Entries \cup Lists) /\ answers' = Behind(a, answers)
  BY DEF Lined, Queued, Behind
<1>2. answers' \in Seq(Entries \cup Lists)
  BY <1>1 DEF Behind
<1>3. ASSUME NEW V PROVE Counted(Count(answers', V), Count(answers, V), a \in V)
  BY <1>1, CountBehind
<1>4. ASSUME NEW f \in Entries PROVE InAnswers(f)' = InAnswers(f) + (IF f = a THEN 1 ELSE 0)
  <2> DEFINE V == {f}
  <2>1. a \in V <=> f = a
    OBVIOUS
  <2> QED
    BY <1>3, <2>1 DEF Counted, InAnswers, V
<1> QED
  BY <1>2, <1>4

\* What the cache's thread takes has left its queue, once.
LEMMA AnswerTaken ==
  ASSUME Lined, answers # <<>>, answers' = Tail(answers)
  PROVE  /\ answers' \in Seq(Entries \cup Lists) /\ Head(answers) \in Entries \cup Lists
         /\ \A f \in Entries : InAnswers(f)' \in Nat /\ InAnswers(f) = InAnswers(f)' + (IF f = Head(answers) THEN 1 ELSE 0)
<1>1. answers \in Seq(Entries \cup Lists)
  BY DEF Lined, Queued
<1>2. answers' \in Seq(Entries \cup Lists) /\ Head(answers) \in Entries \cup Lists /\ answers = Ahead(Head(answers), answers')
  BY <1>1 DEF Ahead
<1> DEFINE h == Head(answers)
<1>3. h = Head(answers)
  OBVIOUS
<1> HIDE DEF h
<1>4. ASSUME NEW V PROVE Counted(Count(answers, V), Count(answers', V), h \in V)
  BY <1>1, <1>2, <1>3, CountAhead
<1>5. ASSUME NEW f \in Entries
      PROVE  InAnswers(f)' \in Nat /\ InAnswers(f) = InAnswers(f)' + (IF f = h THEN 1 ELSE 0)
  <2> DEFINE V == {f}
  <2>1. h \in V <=> f = h
    OBVIOUS
  <2>2. \A W : Count(answers', W) \in Nat
    BY <1>2, CountIs
  <2> QED
    BY <1>4, <2>1, <2>2 DEF Counted, InAnswers, V
<1> QED
  BY <1>2, <1>5, <1>3

\* A job is in the decompressor's queue once more, at either end.
LEMMA JobAdded ==
  ASSUME Lined, NEW e \in Entries, NEW j \in JobRecord, j.entry = e,
         \/ jobs' = Behind(j, jobs)
         \/ jobs' = Ahead(j, jobs)
  PROVE  jobs' \in Seq(JobRecord)
         /\ \A f \in Entries : InJobs(f)' = InJobs(f) + (IF f = e THEN 1 ELSE 0)
<1>1. jobs \in Seq(JobRecord)
  BY DEF Lined
<1>2. jobs' \in Seq(JobRecord)
  <2>1. CASE jobs' = Behind(j, jobs)
    BY <1>1, <2>1 DEF Behind
  <2>2. CASE jobs' = Ahead(j, jobs)
    BY <1>1, <2>2 DEF Ahead
  <2> QED
    BY <2>1, <2>2
<1>3. ASSUME NEW V PROVE Counted(Count(jobs', V), Count(jobs, V), j \in V)
  BY <1>1, CountBehind, CountAhead
<1>4. ASSUME NEW f \in Entries PROVE InJobs(f)' = InJobs(f) + (IF f = e THEN 1 ELSE 0)
  <2> DEFINE V == {q \in JobRecord : q.entry = f}
  <2>1. j \in V <=> f = e
    OBVIOUS
  <2> QED
    BY <1>3, <2>1 DEF Counted, InJobs, V
<1> QED
  BY <1>2, <1>4

\* What the decompressor takes has left its queue, once.
LEMMA JobTaken ==
  ASSUME Lined, jobs # <<>>, jobs' = Tail(jobs)
  PROVE  /\ jobs' \in Seq(JobRecord) /\ Head(jobs) \in JobRecord
         /\ \A f \in Entries : InJobs(f)' \in Nat /\ InJobs(f) = InJobs(f)' + (IF f = Head(jobs).entry THEN 1 ELSE 0)
<1>1. jobs \in Seq(JobRecord)
  BY DEF Lined
<1>2. jobs' \in Seq(JobRecord) /\ Head(jobs) \in JobRecord /\ jobs = Ahead(Head(jobs), jobs')
  BY <1>1 DEF Ahead
<1> DEFINE h == Head(jobs)
<1>3. h = Head(jobs)
  OBVIOUS
<1> HIDE DEF h
<1>4. ASSUME NEW V PROVE Counted(Count(jobs, V), Count(jobs', V), h \in V)
  BY <1>1, <1>2, <1>3, CountAhead
<1>5. ASSUME NEW f \in Entries
      PROVE  InJobs(f)' \in Nat /\ InJobs(f) = InJobs(f)' + (IF f = h.entry THEN 1 ELSE 0)
  <2> DEFINE V == {q \in JobRecord : q.entry = f}
  <2>1. h \in V <=> f = h.entry
    BY <1>2, <1>3
  <2>2. \A W : Count(jobs', W) \in Nat
    BY <1>2, CountIs
  <2> QED
    BY <1>4, <2>1, <2>2 DEF Counted, InJobs, V
<1> QED
  BY <1>2, <1>5, <1>3

----------------------------------------------------------------------------
(* What a step leaves as it was                                             *)

\* The data of m is in y what it is in x.
SameData(x, y, m) ==
  /\ m \in Allocated(y)
  /\ y.mem[m].at = x.mem[m].at /\ y.mem[m].size = x.mem[m].size
  /\ y.mem[m].persistent = x.mem[m].persistent /\ y.mem[m].holds = x.mem[m].holds
  /\ x.mem[m].entry = None => y.mem[m].entry = None

\* But for the entries of E and the memory of M, y is x, with less that is not in use.
Rest(x, y, E, M) ==
  /\ \A e \in Entries \ E :
       \/ y.entry[e] = x.entry[e]
       \/ x.entry[e].place = "used" /\ y.entry[e] = FreeEntry
  /\ \A m \in Mems \ M : /\ y.mem[m].locks = x.mem[m].locks
                         /\ x.mem[m].locks > 0 => SameData(x, y, m)
  /\ \A k \in Keys : \/ y.table[k] = x.table[k] \/ y.table[k] = None
                     \/ \E e \in E : e \in Pend(x) /\ x.entry[e].key = k

\* What is locked is allocated, and in use.
LEMMA LocksAllocated ==
  ASSUME NEW x, Sound(x), NEW m \in Mems, x.mem[m].locks > 0
  PROVE  m \in Allocated(x) /\ InUse(x.mem[m])
<1>1. FreeMem.locks = 0
  BY DEF FreeMem
<1> QED
  BY <1>1 DEF Sound, Apart, InUse

\* Every record of memory is one.
LEMMA LocksNumbers ==
  ASSUME NEW x, Sound(x), NEW m \in Mems
  PROVE  x.mem[m].locks \in Nat /\ x.mem[m] \in MemRecord
BY DEF Sound, Memories, MemRecord

\* Evictions concern no request and no locked memory.
LEMMA RestThinned ==
  ASSUME NEW x, Sound(x), NEW y, Thinned(x, y)
  PROVE  Rest(x, y, {}, {})
<1>1. FreeMem.locks = 0
  BY DEF FreeMem
<1>2. \A m \in Mems : x.mem[m].locks \in Nat
  BY LocksNumbers
<1>3. \A m \in Mems : ~InUse(x.mem[m]) => x.mem[m].locks = 0
  BY <1>2 DEF InUse
<1>4. \A m \in Mems : x.mem[m].locks > 0 => m \in Allocated(x)
  BY LocksAllocated
<1>5. ASSUME NEW m \in Mems
      PROVE  y.mem[m].locks = x.mem[m].locks /\ (x.mem[m].locks > 0 => SameData(x, y, m))
  <2>1. CASE y.mem[m] = x.mem[m] /\ (m \in Allocated(y) <=> m \in Allocated(x))
    BY <1>4, <2>1 DEF SameData
  <2>2. CASE ~InUse(x.mem[m]) /\ y.mem[m] = FreeMem /\ m \notin Allocated(y)
    BY <1>1, <1>3, <2>2
  <2> QED
    BY <2>1, <2>2 DEF Thinned
<1>6. \A e \in Entries : \/ y.entry[e] = x.entry[e]
                         \/ x.entry[e].place = "used" /\ y.entry[e] = FreeEntry
  BY DEF Thinned
<1>7. \A k \in Keys : y.table[k] = x.table[k] \/ y.table[k] = None
  BY DEF Thinned
<1> QED
  BY <1>5, <1>6, <1>7 DEF Rest

\* Counting and aging concern the locks of M only.
LEMMA RestSoft ==
  ASSUME NEW x, Sound(x), NEW y, Soft(x, y), NEW M,
         \A m \in Mems \ M : y.mem[m].locks = x.mem[m].locks
  PROVE  Rest(x, y, {}, M) /\ \A m \in Allocated(x) : SameData(x, y, m)
<1>1. /\ Allocated(y) = Allocated(x) /\ y.entry = x.entry /\ y.table = x.table
      /\ \A m \in Mems :
           /\ y.mem[m].at = x.mem[m].at /\ y.mem[m].size = x.mem[m].size
           /\ y.mem[m].persistent = x.mem[m].persistent /\ y.mem[m].entry = x.mem[m].entry
           /\ y.mem[m].holds = x.mem[m].holds
      /\ Allocated(x) \subseteq Mems
  BY DEF Soft, Allocated
<1>2. \A m \in Allocated(x) : SameData(x, y, m)
  BY <1>1 DEF SameData
<1>3. \A m \in Mems : x.mem[m].locks > 0 => SameData(x, y, m)
  BY <1>2, LocksAllocated
<1> QED
  BY <1>1, <1>2, <1>3 DEF Rest

\* An allocation concerns no request, and memory nobody had locked.
LEMMA RestGiven ==
  ASSUME NEW x, Sound(x), NEW y, NEW m, NEW n, NEW flags, Given(x, y, m, n, flags)
  PROVE  Rest(x, y, {}, {m}) /\ m \in Mems /\ x.mem[m].locks = 0
<1>1. FreeMem.locks = 0
  BY DEF FreeMem
<1>2. \A k \in Mems : x.mem[k].locks \in Nat
  BY LocksNumbers
<1>3. \A k \in Mems : ~InUse(x.mem[k]) => x.mem[k].locks = 0
  BY <1>2 DEF InUse
<1>4. \A k \in Mems : x.mem[k].locks > 0 => k \in Allocated(x)
  BY LocksAllocated
<1>5. ASSUME NEW k \in Mems \ {m}
      PROVE  y.mem[k].locks = x.mem[k].locks /\ (x.mem[k].locks > 0 => SameData(x, y, k))
  <2>1. CASE y.mem[k] = x.mem[k] /\ (k \in Allocated(y) <=> k \in Allocated(x))
    BY <1>4, <2>1 DEF SameData
  <2>2. CASE ~InUse(x.mem[k]) /\ y.mem[k] = FreeMem /\ k \notin Allocated(y)
    BY <1>1, <1>3, <2>2
  <2> QED
    BY <2>1, <2>2 DEF Given
<1>6. /\ \A e \in Entries : \/ y.entry[e] = x.entry[e]
                            \/ x.entry[e].place = "used" /\ y.entry[e] = FreeEntry
      /\ \A k \in Keys : y.table[k] = x.table[k] \/ y.table[k] = None
      /\ m \in Mems /\ ~InUse(x.mem[m])
  BY DEF Given
<1> QED
  BY <1>3, <1>5, <1>6 DEF Rest

\* Freeing concerns the memory that is freed only.
LEMMA RestFreed ==
  ASSUME NEW x, Sound(x), NEW S \in SUBSET Mems, NEW y, Freed(x, y, S)
  PROVE  Rest(x, y, {}, S)
<1>1. \A k \in Mems : x.mem[k].locks > 0 => k \in Allocated(x)
  BY LocksAllocated
<1>2. \A m \in Mems \ S : y.mem[m] = x.mem[m] /\ (m \in Allocated(y) <=> m \in Allocated(x))
  BY DEF Freed
<1>3. \A m \in Mems \ S : /\ y.mem[m].locks = x.mem[m].locks
                          /\ x.mem[m].locks > 0 => SameData(x, y, m)
  BY <1>1, <1>2 DEF SameData
<1>4. /\ \A e \in Entries : \/ y.entry[e] = x.entry[e]
                            \/ x.entry[e].place = "used" /\ y.entry[e] = FreeEntry
      /\ \A k \in Keys : y.table[k] = x.table[k] \/ y.table[k] = None
  BY DEF Freed
<1> QED
  BY <1>3, <1>4 DEF Rest

\* What two changes leave alone, both together leave alone.
LEMMA RestTwice ==
  ASSUME NEW x, NEW y, NEW z, NEW E, NEW F, NEW M, NEW N, Rest(x, y, E, M), Rest(y, z, F, N),
         \A k \in Keys : z.table[k] = y.table[k] \/ z.table[k] = None
  PROVE  Rest(x, z, E \cup F, M \cup N)
<1>1. \A e \in Entries \ (E \cup F) : \/ z.entry[e] = x.entry[e]
                                      \/ x.entry[e].place = "used" /\ z.entry[e] = FreeEntry
  BY BlankIdle DEF Rest
<1>2. ASSUME NEW m \in Mems \ (M \cup N)
      PROVE  z.mem[m].locks = x.mem[m].locks /\ (x.mem[m].locks > 0 => SameData(x, z, m))
  BY DEF Rest, SameData
<1>3. ASSUME NEW k \in Keys
      PROVE  \/ z.table[k] = x.table[k] \/ z.table[k] = None
             \/ \E e \in E : e \in Pend(x) /\ x.entry[e].key = k
  BY DEF Rest
<1> QED
  BY <1>1, <1>2, <1>3 DEF Rest

\* Whoever uses memory has it locked.
LEMMA Locked ==
  ASSUME RInv, NEW m \in Mems
  PROVE  /\ held[m] \in Nat /\ IsFiniteSet(Using(c, m)) /\ Cardinality(Using(c, m)) \in Nat
         /\ c.mem[m].locks \in Nat
         /\ c.mem[m].locks = held[m] + Cardinality(Using(c, m)) + (IF unpacker.mem = m THEN 1 ELSE 0)
         /\ held[m] > 0 \/ unpacker.mem = m \/ Using(c, m) # {} => c.mem[m].locks > 0
<1>1. held[m] \in Nat
  BY DEF RInv, Linked, Queued
<1>2. IsFiniteSet(Using(c, m))
  <2>1. Using(c, m) \subseteq Entries
    BY DEF Using, Pend
  <2> QED
    BY <2>1, CacheSound, FS_Subset
<1>3. Cardinality(Using(c, m)) \in Nat /\ (Cardinality(Using(c, m)) = 0 <=> Using(c, m) = {})
  BY <1>2, FS_CardinalityType, FS_EmptySet
<1>4. c.mem[m].locks = held[m] + Cardinality(Using(c, m)) + (IF unpacker.mem = m THEN 1 ELSE 0)
  BY DEF RInv, Linked, LocksOf
<1>5. held[m] > 0 \/ unpacker.mem = m \/ Using(c, m) # {} => c.mem[m].locks > 0
  BY <1>1, <1>3, <1>4
<1> QED
  BY <1>1, <1>2, <1>3, <1>4, <1>5 DEF RInv, LocksNumbers

\* The memory of a pending request is locked.
LEMMA PendingLocked ==
  ASSUME RInv, NEW e \in Pend(c), c.entry[e].mem # None
  PROVE  c.entry[e].mem \in Allocated(c) /\ c.entry[e].mem \in Mems /\ c.mem[c.entry[e].mem].locks > 0
<1>1. c.entry[e].mem \in Allocated(c) /\ c.entry[e].mem \in Mems
  BY DEF RInv, Linked, Pendings, PendingOk, Allocated
<1>2. e \in Using(c, c.entry[e].mem)
  BY DEF Using
<1> QED
  BY <1>1, <1>2, Locked

\* A step concerns the requests of E and the memory of M, and nobody else's.
Moves(E, M) ==
  /\ Rest(c, c', E, M)
  /\ \A m \in Mems \ M : held'[m] = held[m]
  /\ \/ unpacker'.mem = unpacker.mem
     \/ unpacker.mem \in M \cup {None} /\ unpacker'.mem \in M \cup {None}
  /\ \A e \in E : e \in Pend(c) => c.entry[e].mem \in M \cup {None}
  /\ \A e \in E : e \in Pend(c') =>
       /\ c'.entry[e].mem \in M \cup {None}
       /\ c'.entry[e].key \in Made =>
            \/ e \in Pend(c) /\ c.entry[e].key = c'.entry[e].key
            \/ \A f \in Pend(c) : c.entry[f].key # c'.entry[e].key
  /\ \A f \in Pend(c) \ E : c.entry[f].mem \in M =>
       ~Sole(c, f) /\ SameData(c, c', c.entry[f].mem)

\* The request f is as it was.
Kept(x, y, f) ==
  /\ f \in Pend(x) /\ f \in Pend(y) /\ y.entry[f] = x.entry[f]
  /\ x.entry[f].mem # None => SameData(x, y, x.entry[f].mem)

\* The other requests are pending before and after.
LEMMA OthersPend ==
  ASSUME NEW E, NEW M, Moves(E, M)
  PROVE  /\ \A f \in Pend(c) \ E : f \in Pend(c') /\ c'.entry[f] = c.entry[f]
         /\ \A f \in Pend(c') \ E : f \in Pend(c) /\ c'.entry[f] = c.entry[f]
<1>1. FreeEntry.place # "pending"
  BY DEF FreeEntry
<1> QED
  BY <1>1 DEF Moves, Rest, Pend

\* The other requests have the memory they had.
LEMMA OthersKept ==
  ASSUME RInv, NEW E, NEW M, Moves(E, M), NEW f \in Pend(c) \ E
  PROVE  Kept(c, c', f)
<1>1. f \in Pend(c') /\ c'.entry[f] = c.entry[f]
  BY OthersPend
<1>2. ASSUME c.entry[f].mem # None PROVE SameData(c, c', c.entry[f].mem)
  <2>1. c.entry[f].mem \in Mems /\ c.mem[c.entry[f].mem].locks > 0
    BY <1>2, PendingLocked
  <2> QED
    BY <2>1 DEF Moves, Rest
<1> QED
  BY <1>1, <1>2 DEF Kept

\* Who had memory alone still does.
LEMMA OthersSole ==
  ASSUME RInv, NEW E, NEW M, Moves(E, M), NEW f \in Pend(c) \ E, Sole(c, f)
  PROVE  Sole(c, f)'
<1> DEFINE m == c.entry[f].mem
<1>1. f \in Pend(c') /\ c'.entry[f] = c.entry[f]
  BY OthersPend
<1>2. CASE m = None
  BY <1>1, <1>2 DEF Sole
<1>3. CASE m # None
  <2>1. m \in Mems /\ m \notin M /\ SameData(c, c', m)
    <3>1. m \in Mems
      BY <1>3, PendingLocked
    <3>2. Kept(c, c', f)
      BY OthersKept
    <3> QED
      BY <1>3, <3>1, <3>2 DEF Moves, Kept
  <2>2. /\ held[m] = 0 /\ unpacker.mem # m /\ c.mem[m].entry = None
        /\ \A g \in Pend(c) : c.entry[g].mem = m => g = f
    BY <1>3 DEF Sole
  <2>3. held'[m] = 0 /\ unpacker'.mem # m
    BY <1>3, <2>1, <2>2 DEF Moves
  <2>4. c'.mem[m].entry = None
    BY <2>1, <2>2 DEF SameData
  <2>5. ASSUME NEW g \in Pend(c'), c'.entry[g].mem = m PROVE g = f
    <3>1. g \notin E
      BY <1>3, <2>1, <2>5 DEF Moves, Pend
    <3>2. g \in Pend(c) /\ c'.entry[g] = c.entry[g]
      BY <3>1, OthersPend
    <3> QED
      BY <2>2, <2>5, <3>2
  <2>6. c'.entry[f].mem = m
    BY <1>1
  <2> HIDE DEF m
  <2> QED
    BY <2>3, <2>4, <2>5, <2>6 DEF Sole
<1> QED
  BY <1>2, <1>3

\* What a request was queued for holds as long as the request is kept.
LEMMA KeptOk ==
  ASSUME NEW x, NEW y, NEW f, Kept(x, y, f)
  PROVE  /\ \A to : LoadOk(x, f, to) => LoadOk(y, f, to)
         /\ Origin(x, f) => Origin(y, f)
         /\ JobOk(x, f) => JobOk(y, f)
<1>1. None \notin Mems
  BY CacheSound
<1> QED
  BY <1>1 DEF Kept, SameData, LoadOk, Origin, JobOk

\* The other requests can go on wherever they are.
LEMMA OthersOk ==
  ASSUME RInv, NEW E, NEW M, Moves(E, M), NEW f \in Pend(c) \ E
  PROVE  /\ PendingOk(c, f)'
         /\ \A to : LoadOk(c, f, to) => LoadOk(c, f, to)'
         /\ Origin(c, f) => Origin(c, f)'
         /\ JobOk(c, f) => JobOk(c, f)'
         /\ AnswerOk(c, f) => AnswerOk(c, f)'
<1>1. Kept(c, c', f)
  BY OthersKept
<1>2. Sole(c, f) => Sole(c, f)'
  BY OthersSole
<1>3. f \in Pend(c') /\ c'.entry[f] = c.entry[f]
  BY OthersPend
<1>4. /\ \A to : LoadOk(c, f, to) => LoadOk(c', f, to)
      /\ Origin(c, f) => Origin(c', f)
      /\ JobOk(c, f) => JobOk(c', f)
  BY <1>1, KeptOk
<1>5. AnswerOk(c, f) => AnswerOk(c, f)'
  BY <1>2, <1>3, <1>4 DEF AnswerOk
<1>6. PendingOk(c, f)'
  <2> DEFINE m == c.entry[f].mem
             k == c.entry[f].key
  <2>1. PendingOk(c, f)
    BY DEF RInv, Linked, Pendings
  <2>2. /\ k \in Keys
        /\ m # None => m \in Allocated(c')
        /\ m # None => c'.mem[m].persistent = c.mem[m].persistent
    BY <1>1, <2>1 DEF Kept, SameData, PendingOk
  <2>3. /\ k \notin Made => Sole(c, f)'
        /\ m # None => /\ k \in Indexes => c'.mem[m].persistent
                       /\ c'.mem[m].persistent => Sole(c, f)'
    BY <1>2, <2>1, <2>2 DEF PendingOk
  <2>4. ASSUME k \in Made
        PROVE  c'.table[k] = None /\ \A g \in Pend(c') : c'.entry[g].key = k => g = f
    <3>1. c.table[k] = None /\ \A g \in Pend(c) : c.entry[g].key = k => g = f
      BY <2>1, <2>4 DEF PendingOk
    <3>2. c'.table[k] = None
      BY <2>2, <3>1 DEF Moves, Rest
    <3>3. ASSUME NEW g \in Pend(c'), c'.entry[g].key = k PROVE g = f
      <4>1. CASE g \in E
        <5>1. \/ g \in Pend(c) /\ c.entry[g].key = k
              \/ \A h \in Pend(c) : c.entry[h].key # k
          BY <2>4, <3>3, <4>1 DEF Moves
        <5> QED
          BY <3>1, <5>1
      <4>2. CASE g \notin E
        BY <3>1, <3>3, <4>2, OthersPend
      <4> QED
        BY <4>1, <4>2
    <3> QED
      BY <3>2, <3>3
  <2>5. c'.entry[f].mem = m /\ c'.entry[f].key = k
    BY <1>3
  <2> HIDE DEF m, k
  <2> QED
    BY <2>2, <2>3, <2>4, <2>5 DEF PendingOk
<1> QED
  BY <1>4, <1>5, <1>6 DEF LoadOk, Origin, JobOk

\* The locks of other memory are its references, as before.
LEMMA OthersLocks ==
  ASSUME RInv, NEW E, NEW M, Moves(E, M), NEW m \in Mems \ M
  PROVE  c'.mem[m].locks = held'[m] + Cardinality(Using(c', m)) + (IF unpacker'.mem = m THEN 1 ELSE 0)
<1>1. c'.mem[m].locks = c.mem[m].locks /\ held'[m] = held[m]
  BY DEF Moves, Rest
<1>2. None \notin Mems
  BY CacheSound
<1>3. unpacker'.mem = m <=> unpacker.mem = m
  BY <1>2 DEF Moves
<1>4. Using(c', m) = Using(c, m)
  <2>1. \A f \in Using(c, m) : f \in Pend(c) \ E
    BY <1>2 DEF Moves, Using
  <2>2. \A f \in Using(c', m) : f \in Pend(c') \ E
    BY <1>2 DEF Moves, Using
  <2> QED
    BY <2>1, <2>2, OthersPend DEF Using
<1> QED
  BY <1>1, <1>3, <1>4, Locked

\* The memory the decompressor writes to is still its own.
LEMMA UnpackerMemSame ==
  ASSUME RInv, NEW E, NEW M, Moves(E, M), unpacker'.mem = unpacker.mem, unpacker.mem \notin M,
         unpacker'.at = unpacker.at
  PROVE  UnpackerMem(c)'
<1> DEFINE m == unpacker.mem
<1>1. UnpackerMem(c)
  BY DEF RInv, Linked
<1>2. CASE m = None
  BY <1>1, <1>2 DEF UnpackerMem
<1>3. CASE m # None
  <2>1. /\ m \in Allocated(c) /\ held[m] = 0 /\ c.mem[m].entry = None
        /\ ~c.mem[m].persistent /\ \A e \in Pend(c) : c.entry[e].mem # m
    BY <1>1, <1>3 DEF UnpackerMem
  <2>2. m \in Mems \ M
    BY <2>1 DEF Allocated
  <2>3. SameData(c, c', m) /\ held'[m] = 0
    BY <2>1, <2>2, Locked DEF Moves, Rest
  <2>4. \A e \in Pend(c') : c'.entry[e].mem # m
    <3>1. \A e \in Pend(c') \ E : c'.entry[e].mem # m
      BY <2>1, OthersPend
    <3>2. \A e \in Pend(c') : e \in E => c'.entry[e].mem # m
      BY <1>3, <2>2 DEF Moves
    <3> QED
      BY <3>1, <3>2
  <2>5. /\ m \in Allocated(c') /\ c'.mem[m].entry = None /\ ~c'.mem[m].persistent
    BY <2>1, <2>3 DEF SameData
  <2>6. unpacker'.mem = m /\ (m = None => FALSE)
    BY <1>3
  <2> HIDE DEF m
  <2> QED
    BY <1>1, <2>3, <2>4, <2>5, <2>6 DEF UnpackerMem
<1> QED
  BY <1>2, <1>3

\* s has nothing but what is in t, or in V.
From(s, t, V) == \A i \in DOMAIN s : s[i] \in V \/ \E j \in DOMAIN t : s[i] = t[j]

\* A queue has what it had.
LEMMA FromSelf == \A s : From(s, s, {})
BY DEF From

\* The rest of a queue was there before.
LEMMA FromTail ==
  ASSUME NEW S, NEW s \in Seq(S), s # <<>>, NEW t, t = Tail(s)
  PROVE  From(t, s, {})
<1>1. /\ Len(s) \in Nat /\ DOMAIN s = 1 .. Len(s) /\ DOMAIN t = 1 .. Len(s) - 1
      /\ \A i \in 1 .. Len(s) - 1 : t[i] = s[i + 1] /\ i + 1 \in 1 .. Len(s)
  OBVIOUS
<1> QED
  BY <1>1 DEF From

\* What is in the longer queue was there before, or is new.
LEMMA FromBehind ==
  ASSUME NEW S, NEW s \in Seq(S), NEW v \in S, NEW t, t = Behind(v, s)
  PROVE  From(t, s, {v})
<1>1. /\ Len(s) \in Nat /\ DOMAIN s = 1 .. Len(s) /\ DOMAIN t = 1 .. Len(s) + 1
      /\ \A i \in 1 .. Len(s) : t[i] = s[i]
      /\ t[Len(s) + 1] = v
      /\ \A i \in 1 .. Len(s) + 1 : i \in 1 .. Len(s) \/ i = Len(s) + 1
  BY DEF Behind
<1> QED
  BY <1>1 DEF From

\* What is in the longer queue was there before, or is new.
LEMMA FromAhead ==
  ASSUME NEW S, NEW s \in Seq(S), NEW v \in S, NEW t, t = Ahead(v, s)
  PROVE  From(t, s, {v})
<1>1. /\ Len(s) \in Nat /\ DOMAIN s = 1 .. Len(s) /\ DOMAIN t = 1 .. Len(s) + 1
      /\ \A i \in 1 .. Len(s) + 1 : i = 1 \/ (i - 1 \in 1 .. Len(s) /\ t[i] = s[i - 1])
      /\ t[1] = v
  BY DEF Ahead
<1> QED
  BY <1>1 DEF From

\* What stays in a queue was right, and still is; what is added is right.
LEMMA LoadsCarried ==
  ASSUME RInv, NEW E, NEW M, Moves(E, M), NEW V, From(loads', loads, V),
         \A r \in V : LoadedOk(c', r),
         \A e \in E : ~ToLoad(e) \/ ~ToLoad(e)'
  PROVE  LoadsOk(c)'
<1> SUFFICES ASSUME NEW i \in DOMAIN loads' PROVE LoadedOk(c', loads'[i])
  BY DEF LoadsOk
<1>1. PICK r : r = loads'[i]
  OBVIOUS
<1>2. CASE r \in V
  BY <1>1, <1>2
<1>3. CASE r \notin V
  <2>1. PICK j \in DOMAIN loads : loads[j] = r
    BY <1>1, <1>3 DEF From
  <2>2. PICK e, to : e = r.entry /\ to = r.to
    OBVIOUS
  <2>3. LoadOk(c, e, to) /\ (c.entry[e].unpack <=> c.entry[e].key \in Packed)
    BY <2>1, <2>2 DEF RInv, Linked, LoadsOk, LoadedOk
  <2>4. e \in Pend(c) /\ e \notin E
    BY <1>1, <2>1, <2>2, <2>3 DEF LoadOk, ToLoad
  <2>5. LoadOk(c, e, to)' /\ c'.entry[e] = c.entry[e]
    BY <2>3, <2>4, OthersOk, OthersPend
  <2> QED
    BY <1>1, <2>2, <2>3, <2>5 DEF LoadOk, LoadedOk
<1> QED
  BY <1>2, <1>3

\* What is in the cache's queue can still be completed.
LEMMA AnswersCarried ==
  ASSUME RInv, NEW E, NEW M, Moves(E, M), NEW V, From(answers', answers, V),
         \A v \in V : v \in Lists \/ AnswerOk(c, v)',
         \A e \in E : ~ToTake(e) \/ ~ToTake(e)'
  PROVE  AnswersOk(c)'
<1> SUFFICES ASSUME NEW i \in DOMAIN answers', answers'[i] \notin Lists
             PROVE  AnswerOk(c, answers[i])'
  BY DEF AnswersOk
<1>1. CASE answers'[i] \in V
  <2>1. PICK e : e = answers'[i]
    OBVIOUS
  <2>2. AnswerOk(c, e)'
    BY <1>1, <2>1
  <2> QED
    BY <2>1, <2>2 DEF AnswerOk, Origin, Sole
<1>2. CASE answers'[i] \notin V
  <2>1. PICK j \in DOMAIN answers : answers'[i] = answers[j]
    BY <1>2 DEF From
  <2>2. PICK e : e = answers[j]
    OBVIOUS
  <2>3. AnswerOk(c, e)
    BY <2>1, <2>2 DEF RInv, Linked, AnswersOk
  <2>4. e \in Pend(c) /\ e \notin E /\ answers'[i] = e
    BY <2>1, <2>2, <2>3 DEF AnswerOk, ToTake
  <2>5. AnswerOk(c, e)'
    BY <2>3, <2>4, OthersOk
  <2> QED
    BY <2>4, <2>5 DEF AnswerOk, Origin, Sole
<1> QED
  BY <1>1, <1>2

\* What is in the decompressor's queue can still be decompressed.
LEMMA JobsCarried ==
  ASSUME RInv, NEW E, NEW M, Moves(E, M), NEW V, From(jobs', jobs, V),
         \A j \in V : JobOk(c', j.entry),
         \A e \in E : ~ToUnpack(e) \/ ~ToUnpack(e)'
  PROVE  JobsOk(c)'
<1> SUFFICES ASSUME NEW i \in DOMAIN jobs' PROVE JobOk(c, jobs[i].entry)'
  BY DEF JobsOk
<1>1. CASE jobs'[i] \in V
  BY <1>1 DEF JobOk, Origin
<1>2. CASE jobs'[i] \notin V
  <2>1. PICK j \in DOMAIN jobs : jobs'[i] = jobs[j]
    BY <1>2 DEF From
  <2>2. PICK e : e = jobs[j].entry
    OBVIOUS
  <2>3. JobOk(c, e)
    BY <2>2 DEF RInv, Linked, JobsOk
  <2>4. e \in Pend(c) /\ e \notin E /\ jobs'[i].entry = e
    BY <2>1, <2>2, <2>3 DEF JobOk, Origin, ToUnpack
  <2>5. JobOk(c, e)'
    BY <2>3, <2>4, OthersOk
  <2> QED
    BY <2>4, <2>5 DEF JobOk, Origin
<1> QED
  BY <1>1, <1>2

\* What the cache's thread withdraws is still pending.
LEMMA CacherCarried ==
  ASSUME RInv, NEW E, NEW M, Moves(E, M), cacher'.entry = cacher.entry,
         cacher'.at = "undo" <=> cacher.at = "undo", \A e \in E : cacher.entry # e
  PROVE  CacherOk(c)'
<1> DEFINE e == cacher.entry
<1>1. CacherOk(c)
  BY DEF RInv, Linked
<1>2. CASE cacher.at # "undo"
  BY <1>1, <1>2 DEF CacherOk
<1>3. CASE cacher.at = "undo"
  <2>1. /\ e \in Pend(c) /\ e \notin E /\ c.entry[e].key \in Packed /\ c.entry[e].mem \in Mems
        /\ c.mem[c.entry[e].mem].persistent
    BY <1>1, <1>3 DEF CacherOk
  <2>2. Kept(c, c', e)
    BY <2>1, OthersKept
  <2>3. c.entry[e].mem # None
    BY <2>1, CacheSound
  <2> QED
    BY <1>3, <2>1, <2>2, <2>3 DEF CacherOk, Kept, SameData
<1> QED
  BY <1>2, <1>3

\* The decompressor's job is still what it was.
LEMMA UnpackerCarried ==
  ASSUME RInv, NEW E, NEW M, Moves(E, M), unpacker' = unpacker, \A e \in E : unpacker.entry # e
  PROVE  UnpackerOk(c)'
<1>1. PICK e : e = unpacker.entry
  OBVIOUS
<1>2. UnpackerOk(c)
  BY DEF RInv, Linked
<1>3. CASE e \in Pend(c)
  <2>1. e \in Pend(c) \ E /\ unpacker'.entry = e
    BY <1>3, <1>1
  <2>2. /\ JobOk(c, e) => JobOk(c, e)'
        /\ Sole(c, e) => Sole(c, e)'
        /\ e \in Pend(c') /\ c'.entry[e] = c.entry[e]
    BY <2>1, OthersOk, OthersSole, OthersPend
  <2> QED
    BY <1>2, <1>1, <2>1, <2>2 DEF UnpackerOk, JobOk, Origin, Sole
<1>4. CASE e \notin Pend(c)
  <2>1. unpacker.at \notin {"alloc", "work", "replace", "reply"}
    BY <1>2, <1>4, <1>1 DEF UnpackerOk, JobOk, Origin
  <2> QED
    BY <1>2, <2>1 DEF UnpackerOk
<1> QED
  BY <1>3, <1>4

\* The request the main thread is busy with is still what it was.
LEMMA MainCarried ==
  ASSUME RInv, NEW E, NEW M, Moves(E, M), main' = main,
         \A e \in E : ~(main.entry = e /\ main.at \in Busy)
  PROVE  MainOk(c)'
<1>1. PICK e : e = main.entry
  OBVIOUS
<1>2. MainOk(c)
  BY DEF RInv, Linked
<1>3. CASE main.at \in Busy
  <2>1. e \in Pend(c) \ E /\ main'.entry = e
    BY <1>2, <1>3, <1>1 DEF MainOk
  <2>2. /\ \A to : LoadOk(c, e, to) => LoadOk(c, e, to)'
        /\ Origin(c, e) => Origin(c, e)'
        /\ Sole(c, e) => Sole(c, e)'
        /\ e \in Pend(c') /\ c'.entry[e] = c.entry[e]
    BY <2>1, OthersOk, OthersSole, OthersPend
  <2>3. /\ main.at \in Busy => e \in Pend(c) /\ c.entry[e].key = main.key
        /\ main.at \in Busy \ {"unpack", "complete"} => ~c.entry[e].unpack
        /\ main.at = "load" => LoadOk(c, e, main.to) /\ main.length = c.entry[e].length
        /\ main.at \in {"jam", "send", "undo"} => Origin(c, e)
        /\ main.at \in {"send", "undo"} => main.key \in Made /\ c.entry[e].mem = main.mem
        /\ main.at = "complete" => Sole(c, e)
    BY <1>2, <1>1 DEF MainOk
  <2>4. /\ main'.at \in Busy => e \in Pend(c') /\ c'.entry[e].key = main'.key
        /\ main'.at \in Busy \ {"unpack", "complete"} => ~c'.entry[e].unpack
        /\ main'.at = "load" => LoadOk(c, e, main.to)' /\ main'.length = c'.entry[e].length
        /\ main'.at \in {"jam", "send", "undo"} => Origin(c, e)'
        /\ main'.at \in {"send", "undo"} => main'.key \in Made /\ c'.entry[e].mem = main'.mem
        /\ main'.at = "complete" => Sole(c, e)'
    BY <2>2, <2>3 DEF LoadOk
  <2> QED
    BY <2>1, <2>4 DEF MainOk, LoadOk, Origin, Sole
<1>4. CASE main.at \notin Busy
  BY <1>4 DEF MainOk, Busy
<1> QED
  BY <1>3, <1>4

\* What the game holds stays as it is.
LEMMA ClientCarried ==
  ASSUME RInv, NEW E, NEW M, Moves(E, M), main' = main, held' = held,
         \A m \in M : held[m] > 0 => SameData(c, c', m)
  PROVE  ClientOk(c)'
<1>1. ClientOk(c)
  BY DEF RInv, Linked
<1>2. \A m \in Held : SameData(c, c', m)
  BY Locked DEF Held, Moves, Rest
<1> QED
  BY <1>1, <1>2 DEF ClientOk, Held, SameData

----------------------------------------------------------------------------
(* Steps                                                                    *)

\* References add up for m.
Balanced(x, m) ==
  x.mem[m].locks = held[m] + Cardinality(Using(x, m)) + (IF unpacker.mem = m THEN 1 ELSE 0)

\* The invariant survives a step that moves the requests E and the memory M, when it
\* holds for them.
LEMMA MovesStep ==
  ASSUME RInv, NEW E, NEW M, Moves(E, M), Sound(c'), Lined', Tokens(c)',
         \A e \in E : e \in Entries => c'.entry[e] # Reserved,
         \A e \in E : e \in Pend(c') => PendingOk(c, e)',
         \A m \in M : m \in Mems => Balanced(c, m)',
         UnpackerMem(c)', LoadsOk(c)', AnswersOk(c)', JobsOk(c)', CacherOk(c)',
         UnpackerOk(c)', MainOk(c)', ClientOk(c)'
  PROVE  RInv'
<1>1. \A e \in Entries : c'.entry[e] # Reserved
  <2>1. FreeEntry # Reserved /\ \A e \in Entries : c.entry[e] # Reserved
    BY DEF FreeEntry, Reserved, RInv
  <2> QED
    BY <2>1 DEF Moves, Rest
<1>2. Pendings(c)'
  <2> SUFFICES ASSUME NEW e \in Pend(c') PROVE PendingOk(c, e)'
    BY DEF Pendings
  <2>1. CASE e \in E
    BY <2>1
  <2>2. CASE e \notin E
    BY <2>2, OthersPend, OthersOk
  <2> QED
    BY <2>1, <2>2
<1>3. LocksOf(c)'
  <2> SUFFICES ASSUME NEW m \in Mems PROVE Balanced(c, m)'
    BY DEF LocksOf, Balanced
  <2>1. CASE m \in M
    BY <2>1
  <2>2. CASE m \notin M
    BY <2>2, OthersLocks DEF Balanced
  <2> QED
    BY <2>1, <2>2
<1> QED
  BY <1>1, <1>2, <1>3 DEF RInv, Linked, Lined

\* What comes and goes in the queue of answers, but no request.
AnswersQuiet ==
  \/ answers' = answers
  \/ \E l \in Lists : answers' = Append(answers, l)
  \/ answers # <<>> /\ Head(answers) \in Lists /\ answers' = Tail(answers)

\* Lists that come and go in the queue of answers concern no request.
LEMMA AnswersQuietCount ==
  ASSUME Lined, AnswersQuiet
  PROVE  /\ answers' \in Seq(Entries \cup Lists)
         /\ \A f \in Entries : InAnswers(f)' = InAnswers(f)
         /\ From(answers', answers, Lists)
<1>1. answers \in Seq(Entries \cup Lists) /\ \A f \in Entries : f \notin Lists
  BY CacheSound DEF Lined, Queued
<1>2. \A f \in Entries : InAnswers(f)' = Count(answers', {f})
  BY DEF InAnswers
<1>3. \A f \in Entries : InAnswers(f) \in Nat
  BY WaysAre DEF Ways
<1>4. CASE answers' = answers
  BY <1>1, <1>4, <1>2 DEF From, InAnswers
<1>5. CASE \E l \in Lists : answers' = Append(answers, l)
  <2>1. PICK l \in Lists : answers' = Append(answers, l)
    BY <1>5
  <2>2. /\ answers' \in Seq(Entries \cup Lists)
        /\ \A f \in Entries : InAnswers(f)' = InAnswers(f) + (IF f = l THEN 1 ELSE 0)
    BY <2>1, AnswerAdded
  <2>3. From(answers', answers, {l})
    BY <1>1, <2>1, FromBehind DEF Behind
  <2>4. From(answers', answers, Lists)
    BY <2>3 DEF From
  <2>5. \A f \in Entries : f # l
    BY <1>1
  <2>6. \A f \in Entries : InAnswers(f)' = InAnswers(f)
    BY <1>3, <2>2, <2>5
  <2> QED
    BY <2>2, <2>4, <2>6
<1>6. CASE answers # <<>> /\ Head(answers) \in Lists /\ answers' = Tail(answers)
  <2>1. /\ answers' \in Seq(Entries \cup Lists)
        /\ \A f \in Entries : /\ InAnswers(f)' \in Nat
                              /\ InAnswers(f) = InAnswers(f)' + (IF f = Head(answers) THEN 1 ELSE 0)
    BY <1>6, AnswerTaken
  <2>2. \A f \in Entries : f # Head(answers)
    BY <1>1, <1>6
  <2>3. From(answers', answers, {})
    BY <1>1, <1>6, FromTail
  <2>4. From(answers', answers, Lists)
    BY <2>3 DEF From
  <2>5. \A f \in Entries : InAnswers(f)' = InAnswers(f)
    BY <2>1, <2>2
  <2> QED
    BY <2>1, <2>4, <2>5
<1> QED
  BY <1>4, <1>5, <1>6 DEF AnswersQuiet

\* The places of a request, in the next state.
LEMMA TokensNext ==
  ASSUME Lined', NEW P, P = Pend(c'),
         \A e \in Entries : InLoads(e)' + InAnswers(e)' + InJobs(e)' + AtUnpacker(e)'
                            + AtCacher(e)' + AtMain(e)' = IF e \in P THEN 1 ELSE 0
  PROVE  Tokens(c)'
<1>1. \A e \in Entries : OnItsWay(e)' = InLoads(e)' + InAnswers(e)' + InJobs(e)' + AtUnpacker(e)'
                                       + AtCacher(e)' + AtMain(e)'
  BY WaysNext DEF Ways
<1> QED
  BY <1>1 DEF Tokens

\* Where a request is, now.
LEMMA TokensNow ==
  ASSUME RInv, IInv
  PROVE  /\ Lined
         /\ \A e \in Entries :
              /\ InLoads(e) \in Nat /\ InAnswers(e) \in Nat /\ InJobs(e) \in Nat
              /\ InLoads(e) + InAnswers(e) + InJobs(e) + AtUnpacker(e) + AtCacher(e) + AtMain(e)
                 = IF e \in Pend(c) THEN 1 ELSE 0
         /\ Lone(c)
<1>1. Lined /\ Tokens(c)
  BY DEF RInv, Linked, Lined, IInv, Shapes
<1>2. Ways
  BY <1>1, WaysAre
<1> QED
  BY <1>1, <1>2, LoneIs DEF Ways, Tokens

\* Nobody's request moves.
MainAside ==
  \/ main' = main
  \/ main.at \notin Busy /\ main'.at \notin Busy

CacherAside == cacher'.entry = cacher.entry /\ (cacher'.at = "undo" <=> cacher.at = "undo")

\* Where no request moves, each stays in its place.
LEMMA TokensStay ==
  ASSUME RInv, IInv, NEW M, Moves({}, M), held' \in [Mems -> Nat],
         UNCHANGED <<loads, jobs, unpacker>>, AnswersQuiet, CacherAside, MainAside
  PROVE  Lined' /\ Tokens(c)'
<1>1. Lined /\ \A e \in Entries :
              InLoads(e) + InAnswers(e) + InJobs(e) + AtUnpacker(e) + AtCacher(e) + AtMain(e)
              = IF e \in Pend(c) THEN 1 ELSE 0
  BY TokensNow
<1>2. answers' \in Seq(Entries \cup Lists) /\ \A f \in Entries : InAnswers(f)' = InAnswers(f)
  BY <1>1, AnswersQuietCount
<1>3. Lined'
  BY <1>1, <1>2 DEF Lined, Queued
<1>4. \A e \in Entries : InLoads(e)' = InLoads(e) /\ InJobs(e)' = InJobs(e)
  BY DEF InLoads, InJobs, Count
<1>5. \A e \in Entries : AtUnpacker(e)' = AtUnpacker(e) /\ AtCacher(e)' = AtCacher(e)
  BY DEF AtUnpacker, AtCacher, CacherAside
<1>6. \A e \in Entries : AtMain(e)' = AtMain(e)
  BY DEF AtMain, MainAside, Busy
<1>7. PICK P : P = Pend(c')
  OBVIOUS
<1>8. P = Pend(c)
  <2>1. Pend(c) \subseteq Pend(c') /\ Pend(c') \subseteq Pend(c)
    BY OthersPend
  <2> QED
    BY <1>7, <2>1
<1>9. \A e \in Entries : InLoads(e)' + InAnswers(e)' + InJobs(e)' + AtUnpacker(e)'
                         + AtCacher(e)' + AtMain(e)' = IF e \in P THEN 1 ELSE 0
  BY <1>1, <1>2, <1>4, <1>5, <1>6, <1>8
<1> QED
  BY <1>3, <1>7, <1>9, TokensNext

\* The main thread's part, when it is not busy with a request.
LEMMA MainAsideOk ==
  ASSUME RInv, NEW M, Moves({}, M), MainAside
  PROVE  MainOk(c)'
<1>1. CASE main' = main
  BY <1>1, MainCarried
<1>2. CASE main'.at \notin Busy
  BY <1>2 DEF MainOk, Busy
<1> QED
  BY <1>1, <1>2 DEF MainAside

\* A step that is about nobody's request, and changes nobody's reference.
LEMMA RecordsStay ==
  ASSUME RInv, IInv, Sound(c'), Rest(c, c', {}, {}),
         UNCHANGED <<held, loads, jobs, unpacker>>, AnswersQuiet, CacherAside, MainAside,
         main' = main \/ ClientOk(c)'
  PROVE  RInv'
<1>1. Moves({}, {})
  BY DEF Moves
<1>2. held' \in [Mems -> Nat]
  BY DEF RInv, Linked, Queued
<1>3. Lined' /\ Tokens(c)'
  BY <1>1, <1>2, TokensStay
<1>4. UnpackerMem(c)' /\ UnpackerOk(c)' /\ CacherOk(c)'
  BY <1>1, UnpackerMemSame, UnpackerCarried, CacherCarried DEF CacherAside
<1>5. LoadsOk(c)' /\ JobsOk(c)'
  BY <1>1, FromSelf, LoadsCarried, JobsCarried
<1>6. From(answers', answers, Lists)
  BY TokensNow, AnswersQuietCount
<1>7. AnswersOk(c)'
  BY <1>1, <1>6, AnswersCarried
<1>8. MainOk(c)' /\ ClientOk(c)'
  BY <1>1, MainAsideOk, ClientCarried
<1> QED
  BY <1>1, <1>3, <1>4, <1>5, <1>7, <1>8, MovesStep

\* The game takes or gives references to m.
LEMMA RecordsHeld ==
  ASSUME RInv, IInv, Sound(c'), NEW m \in Mems, Rest(c, c', {}, {m}),
         \A k \in Mems \ {m} : held'[k] = held[k], held' \in [Mems -> Nat],
         c'.mem[m].locks + held[m] = c.mem[m].locks + held'[m],
         \A f \in Pend(c) : c.entry[f].mem = m => ~Sole(c, f) /\ SameData(c, c', m),
         unpacker.mem # m, UNCHANGED <<loads, jobs, unpacker, answers, cacher>>,
         MainAside, ClientOk(c)'
  PROVE  RInv'
<1>1. Moves({}, {m})
  BY DEF Moves
<1>2. AnswersQuiet /\ CacherAside
  BY DEF AnswersQuiet, CacherAside
<1>3. Lined' /\ Tokens(c)'
  BY <1>1, <1>2, TokensStay
<1>4. UnpackerMem(c)' /\ UnpackerOk(c)' /\ CacherOk(c)'
  BY <1>1, UnpackerMemSame, UnpackerCarried, CacherCarried
<1>5. LoadsOk(c)' /\ JobsOk(c)' /\ AnswersOk(c)'
  BY <1>1, FromSelf, LoadsCarried, JobsCarried, AnswersCarried
<1>6. MainOk(c)'
  BY <1>1, MainAsideOk
<1>7. Balanced(c, m)'
  <2>1. PICK U : U = Using(c', m)
    OBVIOUS
  <2>2. U = Using(c, m)
    BY <1>1, <2>1, OthersPend DEF Using
  <2>3. c'.mem[m].locks \in Nat /\ held'[m] \in Nat
    BY LocksNumbers
  <2>4. c'.mem[m].locks = held'[m] + Cardinality(U) + (IF unpacker'.mem = m THEN 1 ELSE 0)
    BY <2>2, <2>3, Locked
  <2> QED
    BY <2>1, <2>4 DEF Balanced
<1> QED
  BY <1>1, <1>3, <1>4, <1>5, <1>6, <1>7, MovesStep

----------------------------------------------------------------------------
(* Entries                                                                  *)

\* An entry that neither the table nor memory refers to.
Loose(r) == r = FreeEntry \/ r = Reserved \/ r.place = "pending"

\* y is x with another entry e.
EntrySet(x, y, e) ==
  /\ y.mem = x.mem /\ y.order = x.order /\ y.table = x.table
  /\ y.entry \in [Entries -> EntryRecord]
  /\ \A f \in Entries \ {e} : y.entry[f] = x.entry[f]
  /\ y = [mem |-> y.mem, order |-> y.order, entry |-> y.entry, table |-> y.table]

\* An entry that neither the table nor memory names may change.
LEMMA EntrySound ==
  ASSUME NEW x, Sound(x), NEW e \in Entries, NEW y, EntrySet(x, y, e),
         Loose(x.entry[e]), Loose(y.entry[e])
  PROVE  Sound(y) /\ Allocated(y) = Allocated(x) /\ y.mem = x.mem /\ y.table = x.table
         /\ \A f \in Entries \ {e} : y.entry[f] = x.entry[f]
<1>1. /\ x \in Memories /\ Apart(x) /\ Agree(x) /\ Marked(x)
      /\ x.mem \in [Mems -> MemRecord] /\ x.order \in Seq(Mems)
      /\ x.table \in [Keys -> SomeEntry]
  BY DEF Sound, Memories
<1>2. /\ y.mem = x.mem /\ y.order = x.order /\ y.table = x.table
      /\ y.entry \in [Entries -> EntryRecord]
      /\ \A f \in Entries \ {e} : y.entry[f] = x.entry[f]
      /\ y \in Memories /\ Allocated(y) = Allocated(x)
  BY <1>1 DEF EntrySet, Memories, Allocated
<1>3. /\ None \notin Mems /\ None \notin Keys /\ None \notin Entries
      /\ Reserved.mem = None /\ Reserved.key = None /\ Reserved.place = "used"
      /\ FreeEntry.place = "free"
  BY CacheSound DEF Reserved, FreeEntry
<1>4. \A k \in Keys : x.table[k] # None => x.table[k] \in Entries /\ x.table[k] # e
  BY <1>1, <1>3 DEF Agree, Loose, SomeEntry
<1>5. \A m \in Mems : x.mem[m].entry # None => x.mem[m].entry \in Entries /\ x.mem[m].entry # e
  <2>1. \A m \in Mems : x.mem[m].entry \in SomeEntry
    BY <1>1 DEF MemRecord
  <2> QED
    BY <1>1, <1>3, <2>1 DEF Agree, Loose, SomeEntry
<1>6. Apart(y)
  BY <1>1, <1>2 DEF Apart
<1>7. Agree(y)
  <2>1. \A f \in Entries \ {e} : UsedOk(x, f) => UsedOk(y, f)
    BY <1>2 DEF UsedOk
  <2>2. /\ y.entry[e].place = "free" => y.entry[e] = FreeEntry
        /\ y.entry[e].place = "used" => y.entry[e] = Reserved
    BY <1>3 DEF Loose
  <2>3. \A f \in Entries :
          /\ y.entry[f].place = "free" => y.entry[f] = FreeEntry
          /\ y.entry[f].place = "used" => y.entry[f] = Reserved \/ UsedOk(y, f)
    BY <1>1, <1>2, <2>1, <2>2 DEF Agree
  <2>4. \A k \in Keys : y.table[k] # None =>
          y.entry[y.table[k]].place = "used" /\ y.entry[y.table[k]].key = k
    BY <1>1, <1>2, <1>4 DEF Agree
  <2>5. \A m \in Mems : y.mem[m].entry # None =>
          y.entry[y.mem[m].entry].place = "used" /\ y.entry[y.mem[m].entry].mem = m
    BY <1>1, <1>2, <1>5 DEF Agree
  <2> QED
    BY <2>3, <2>4, <2>5 DEF Agree
<1>8. Marked(y)
  BY <1>1, <1>2, <1>5 DEF Marked
<1> QED
  BY <1>2, <1>6, <1>7, <1>8 DEF Sound

\* Entries that come and go are not in the table.
LEMMA RestEntry ==
  ASSUME NEW x, Sound(x), NEW e \in Entries, NEW y, EntrySet(x, y, e)
  PROVE  Rest(x, y, {e}, {}) /\ \A m \in Allocated(x) : SameData(x, y, m)
<1>1. Allocated(y) = Allocated(x) /\ y.mem = x.mem /\ y.table = x.table
  BY DEF EntrySet, Allocated
<1>2. \A m \in Allocated(x) : SameData(x, y, m)
  BY <1>1 DEF SameData
<1> QED
  BY <1>1, <1>2, LocksAllocated DEF EntrySet, Rest

\* What the code writes to an entry.
LEMMA WithdrawnIs ==
  ASSUME NEW x, Sound(x), NEW e \in Entries, NEW y, y = Withdrawn(x, e)
  PROVE  EntrySet(x, y, e) /\ y.entry[e] = FreeEntry
<1>1. /\ x.entry \in [Entries -> EntryRecord] /\ DOMAIN x = {"mem", "order", "entry", "table"}
      /\ x = [mem |-> x.mem, order |-> x.order, entry |-> x.entry, table |-> x.table]
  BY Parts DEF Sound
<1>2. /\ y.mem = x.mem /\ y.order = x.order /\ y.table = x.table
      /\ y.entry = [f \in Entries |-> IF f \in {e} THEN FreeEntry ELSE x.entry[f]]
      /\ y = [mem |-> y.mem, order |-> y.order, entry |-> y.entry, table |-> y.table]
  BY <1>1 DEF Withdrawn, FreeCacheEntries
<1>3. y.entry \in [Entries -> EntryRecord]
  BY <1>1, <1>2, Blanks
<1> QED
  BY <1>1, <1>2, <1>3 DEF EntrySet

\* RequestMiss marks the free entry it found.
LEMMA ReservedIs ==
  ASSUME NEW x, Sound(x), NEW e \in FreeEntries(x), NEW y, y = [x EXCEPT !.entry[e].place = "used"]
  PROVE  e \in Entries /\ x.entry[e] = FreeEntry /\ EntrySet(x, y, e) /\ y.entry[e] = Reserved
<1>1. /\ x.entry \in [Entries -> EntryRecord] /\ DOMAIN x = {"mem", "order", "entry", "table"}
      /\ x = [mem |-> x.mem, order |-> x.order, entry |-> x.entry, table |-> x.table]
  BY Parts DEF Sound
<1>2. e \in Entries /\ x.entry[e] = FreeEntry
  BY DEF FreeEntries, Sound, Agree
<1>3. /\ y.mem = x.mem /\ y.order = x.order /\ y.table = x.table
      /\ y.entry = [x.entry EXCEPT ![e] = [@ EXCEPT !.place = "used"]]
      /\ y = [mem |-> y.mem, order |-> y.order, entry |-> y.entry, table |-> y.table]
  BY <1>1
<1>4. y.entry = [x.entry EXCEPT ![e] = Reserved]
  BY <1>1, <1>2, <1>3 DEF Reserved
<1>5. y.entry \in [Entries -> EntryRecord] /\ y.entry[e] = Reserved
  BY <1>1, <1>2, <1>4, Blanks
<1> QED
  BY <1>1, <1>2, <1>3, <1>4, <1>5 DEF EntrySet

\* An entry that becomes pending is set as a whole.
LEMMA PendingIs ==
  ASSUME NEW x, Sound(x), NEW e \in Entries, NEW m \in SomeMem, NEW k \in Keys, NEW n \in Nat,
         NEW y, y = Pending(x, e, m, k, n)
  PROVE  /\ EntrySet(x, y, e)
         /\ y.entry[e] = [place |-> "pending", mem |-> m, key |-> k, length |-> n, unpack |-> FALSE]
<1> DEFINE r == [place |-> "pending", mem |-> m, key |-> k, length |-> n, unpack |-> FALSE]
<1>1. /\ x.entry \in [Entries -> EntryRecord] /\ DOMAIN x = {"mem", "order", "entry", "table"}
      /\ x = [mem |-> x.mem, order |-> x.order, entry |-> x.entry, table |-> x.table]
  BY Parts DEF Sound
<1>2. r \in EntryRecord
  BY DEF EntryRecord
<1>3. /\ y.mem = x.mem /\ y.order = x.order /\ y.table = x.table
      /\ y.entry = [x.entry EXCEPT ![e] = r]
      /\ y = [mem |-> y.mem, order |-> y.order, entry |-> y.entry, table |-> y.table]
  BY <1>1 DEF Pending
<1> HIDE DEF r
<1>4. y.entry \in [Entries -> EntryRecord] /\ y.entry[e] = r
  BY <1>1, <1>2, <1>3
<1> QED
  BY <1>1, <1>3, <1>4 DEF EntrySet, r

FlagSet(x, y, e, flag) == y = [x EXCEPT !.entry[e].unpack = flag]

\* y is x with the mark of e set to flag.
FlagKept(x, y, e, flag) ==
  /\ EntrySet(x, y, e) /\ y.entry[e].unpack = flag /\ y.entry[e].mem = x.entry[e].mem
  /\ y.entry[e].key = x.entry[e].key /\ y.entry[e].length = x.entry[e].length
  /\ y.entry[e].place = x.entry[e].place

\* Only the flag of a pending entry, or only its memory, is written.
LEMMA FlagIs ==
  ASSUME NEW x, Sound(x), NEW e \in Entries, NEW flag \in BOOLEAN, NEW y, FlagSet(x, y, e, flag)
  PROVE  FlagKept(x, y, e, flag)
<1>1. /\ x.entry \in [Entries -> EntryRecord] /\ DOMAIN x = {"mem", "order", "entry", "table"}
      /\ x = [mem |-> x.mem, order |-> x.order, entry |-> x.entry, table |-> x.table]
  BY Parts DEF Sound
<1>2. /\ y.mem = x.mem /\ y.order = x.order /\ y.table = x.table
      /\ y.entry = [x.entry EXCEPT ![e] = [@ EXCEPT !.unpack = flag]]
      /\ y = [mem |-> y.mem, order |-> y.order, entry |-> y.entry, table |-> y.table]
  BY <1>1 DEF FlagSet
<1>3. PICK r \in EntryRecord : r = [x.entry[e] EXCEPT !.unpack = flag]
  BY <1>1 DEF EntryRecord
<1>4. y.entry = [x.entry EXCEPT ![e] = r]
  BY <1>1, <1>2, <1>3
<1>5. y.entry \in [Entries -> EntryRecord] /\ y.entry[e] = r
  BY <1>1, <1>4
<1>6. /\ r.unpack = flag /\ r.mem = x.entry[e].mem /\ r.key = x.entry[e].key
      /\ r.length = x.entry[e].length /\ r.place = x.entry[e].place
  <2>1. x.entry[e] \in EntryRecord
    BY <1>1
  <2> QED
    BY <1>3, <2>1 DEF EntryRecord
<1>7. \A f \in Entries \ {e} : y.entry[f] = x.entry[f]
  BY <1>1, <1>4
<1>8. EntrySet(x, y, e)
  BY <1>2, <1>5, <1>7 DEF EntrySet
<1> QED
  BY <1>5, <1>6, <1>8 DEF FlagKept

MemSet(x, y, e, m) == y = [x EXCEPT !.entry[e].mem = m]

\* y is x with the memory of e set to m.
MemKept(x, y, e, m) ==
  /\ EntrySet(x, y, e) /\ y.entry[e].unpack = x.entry[e].unpack /\ y.entry[e].mem = m
  /\ y.entry[e].key = x.entry[e].key /\ y.entry[e].length = x.entry[e].length
  /\ y.entry[e].place = x.entry[e].place

\* An entry is given other memory, and keeps the rest.
LEMMA ReplacedIs ==
  ASSUME NEW x, Sound(x), NEW e \in Entries, NEW m \in SomeMem, NEW y, MemSet(x, y, e, m)
  PROVE  MemKept(x, y, e, m)
<1>1. /\ x.entry \in [Entries -> EntryRecord] /\ DOMAIN x = {"mem", "order", "entry", "table"}
      /\ x = [mem |-> x.mem, order |-> x.order, entry |-> x.entry, table |-> x.table]
  BY Parts DEF Sound
<1>2. /\ y.mem = x.mem /\ y.order = x.order /\ y.table = x.table
      /\ y.entry = [x.entry EXCEPT ![e] = [@ EXCEPT !.mem = m]]
      /\ y = [mem |-> y.mem, order |-> y.order, entry |-> y.entry, table |-> y.table]
  BY <1>1 DEF MemSet
<1>3. PICK r \in EntryRecord : r = [x.entry[e] EXCEPT !.mem = m]
  BY <1>1 DEF EntryRecord
<1>4. y.entry = [x.entry EXCEPT ![e] = r]
  BY <1>1, <1>2, <1>3
<1>5. y.entry \in [Entries -> EntryRecord] /\ y.entry[e] = r
  BY <1>1, <1>4
<1>6. /\ r.unpack = x.entry[e].unpack /\ r.mem = m /\ r.key = x.entry[e].key
      /\ r.length = x.entry[e].length /\ r.place = x.entry[e].place
  <2>1. x.entry[e] \in EntryRecord
    BY <1>1
  <2> QED
    BY <1>3, <2>1 DEF EntryRecord
<1>7. \A f \in Entries \ {e} : y.entry[f] = x.entry[f]
  BY <1>1, <1>4
<1>8. EntrySet(x, y, e)
  BY <1>2, <1>5, <1>7 DEF EntrySet
<1> QED
  BY <1>5, <1>6, <1>8 DEF MemKept

----------------------------------------------------------------------------
(* Data                                                                     *)

\* y is x, but for what m holds.
Filled(x, y, m, what) ==
  /\ y.order = x.order /\ y.entry = x.entry /\ y.table = x.table
  /\ \A k \in Mems \ {m} : y.mem[k] = x.mem[k]
  /\ y.mem[m] = [x.mem[m] EXCEPT !.holds = what]
  /\ y.mem \in [Mems -> MemRecord]
  /\ y = [mem |-> y.mem, order |-> y.order, entry |-> y.entry, table |-> y.table]

\* Memory is filled, with nothing else in its record changed.
LEMMA FilledSound ==
  ASSUME NEW x, Sound(x), NEW m \in Allocated(x), NEW what \in Content,
         x.mem[m].persistent => \A k \in Plain \cup Packed : what # Res(k),
         NEW y, Filled(x, y, m, what)
  PROVE  /\ Sound(y) /\ Allocated(y) = Allocated(x) /\ y.mem[m].holds = what
         /\ y.mem[m].at = x.mem[m].at /\ y.mem[m].size = x.mem[m].size
         /\ y.mem[m].locks = x.mem[m].locks /\ y.mem[m].persistent = x.mem[m].persistent
         /\ y.mem[m].entry = x.mem[m].entry
         /\ Rest(x, y, {}, {m})
<1>1. /\ x \in Memories /\ Apart(x) /\ Agree(x) /\ Marked(x) /\ m \in Mems
      /\ x.mem \in [Mems -> MemRecord] /\ Allocated(x) \subseteq Mems
      /\ x.order \in Seq(Mems) /\ x.entry \in [Entries -> EntryRecord] /\ x.table \in [Keys -> SomeEntry]
  BY Parts DEF Sound
<1>2. x.mem[m] \in MemRecord
  BY <1>1
<1>3. /\ y.mem[m].holds = what
      /\ y.mem[m].at = x.mem[m].at /\ y.mem[m].size = x.mem[m].size
      /\ y.mem[m].locks = x.mem[m].locks /\ y.mem[m].persistent = x.mem[m].persistent
      /\ y.mem[m].entry = x.mem[m].entry /\ y.mem[m].lists = x.mem[m].lists
  BY <1>2 DEF Filled, MemRecord
<1>4. /\ y.order = x.order /\ y.entry = x.entry /\ y.table = x.table
      /\ \A k \in Mems \ {m} : y.mem[k] = x.mem[k]
      /\ Allocated(y) = Allocated(x)
      /\ y \in Memories
  BY <1>1 DEF Filled, Allocated, Memories
<1>5. \A k \in Mems : /\ Span(y.mem[k]) = Span(x.mem[k]) /\ y.mem[k].at = x.mem[k].at
                      /\ y.mem[k].size = x.mem[k].size /\ y.mem[k].entry = x.mem[k].entry
                      /\ y.mem[k].persistent = x.mem[k].persistent /\ y.mem[k].lists = x.mem[k].lists
                      /\ y.mem[k].locks = x.mem[k].locks
                      /\ k \notin Allocated(x) => y.mem[k] = x.mem[k]
                      /\ k # m => y.mem[k].holds = x.mem[k].holds
  BY <1>3, <1>4 DEF Span
<1>6. Apart(y)
  BY <1>1, <1>4, <1>5 DEF Apart
<1>7. Agree(y)
  <2>1. \A e \in Entries : UsedOk(x, e) => UsedOk(y, e)
    BY <1>1, <1>4, <1>5 DEF UsedOk
  <2> QED
    BY <1>1, <1>4, <1>5, <2>1 DEF Agree
<1>8. Marked(y)
  BY <1>1, <1>3, <1>4, <1>5 DEF Marked
<1>9. Rest(x, y, {}, {m})
  BY <1>1, <1>4, <1>5, LocksAllocated DEF Rest, SameData
<1> QED
  BY <1>1, <1>3, <1>4, <1>6, <1>7, <1>8, <1>9 DEF Sound

\* Nobody else has the addresses that are written to.
LEMMA WrittenIs ==
  ASSUME NEW x, Sound(x), NEW m \in Allocated(x), NEW what \in Content,
         NEW a, a = x.mem[m].at, NEW n, n = x.mem[m].size, NEW y, y = Written(x, a, n, what)
  PROVE  y = x \/ Filled(x, y, m, what)
<1>1. /\ x.mem \in [Mems -> MemRecord] /\ m \in Mems /\ Apart(x) /\ Allocated(x) \subseteq Mems
      /\ x = [mem |-> x.mem, order |-> x.order, entry |-> x.entry, table |-> x.table]
      /\ DOMAIN x = {"mem", "order", "entry", "table"}
  BY Parts DEF Sound
<1>2. Span(x.mem[m]) = a .. a + n - 1
  BY DEF Span
<1> DEFINE Hit(k) == k \in Allocated(x) /\ Span(x.mem[k]) \cap (a .. a + n - 1) # {}
           New(k) == [x.mem[k] EXCEPT !.holds = IF x.mem[k].at = a THEN what ELSE Junk]
<1>3. /\ y.mem = [k \in Mems |-> IF Hit(k) THEN New(k) ELSE x.mem[k]]
      /\ y.order = x.order /\ y.entry = x.entry /\ y.table = x.table
      /\ y = [mem |-> y.mem, order |-> y.order, entry |-> y.entry, table |-> y.table]
  BY <1>1 DEF Written
<1>4. \A k \in Mems \ {m} : ~Hit(k)
  BY <1>1, <1>2 DEF Apart
<1>5. New(m) = [x.mem[m] EXCEPT !.holds = what] /\ New(m) \in MemRecord
  <2>1. x.mem[m] \in MemRecord
    BY <1>1
  <2> QED
    BY <2>1 DEF MemRecord
<1> HIDE DEF Hit, New
<1>6. CASE Hit(m)
  <2>1. \A k \in Mems \ {m} : y.mem[k] = x.mem[k]
    BY <1>3, <1>4
  <2>2. y.mem[m] = New(m)
    BY <1>1, <1>3, <1>6
  <2>3. y.mem \in [Mems -> MemRecord]
    BY <1>1, <1>3, <1>4, <1>5
  <2> QED
    BY <1>3, <1>5, <2>1, <2>2, <2>3 DEF Filled
<1>7. CASE ~Hit(m)
  <2>1. y.mem = x.mem
    BY <1>1, <1>3, <1>4, <1>7
  <2> QED
    BY <1>1, <1>3, <2>1
<1> QED
  BY <1>6, <1>7

\* A read of some units does write.
LEMMA WrittenFills ==
  ASSUME NEW x, Sound(x), NEW m \in Allocated(x), NEW what \in Content, x.mem[m].size > 0,
         NEW a, a = x.mem[m].at, NEW n, n = x.mem[m].size, NEW y, y = Written(x, a, n, what)
  PROVE  Filled(x, y, m, what)
<1>1. m \in Mems /\ x.mem[m] \in MemRecord /\ Allocated(x) \subseteq Mems
      /\ x = [mem |-> x.mem, order |-> x.order, entry |-> x.entry, table |-> x.table]
  BY Parts DEF Sound
<1>2. a \in Span(x.mem[m]) /\ a \in a .. a + n - 1
  BY <1>1 DEF Span, MemRecord
<1>3. y.mem[m].holds = what
  BY <1>1, <1>2 DEF Written, MemRecord
<1>4. CASE y = x
  <2>1. x.mem[m] = [x.mem[m] EXCEPT !.holds = what]
    BY <1>1, <1>3, <1>4 DEF MemRecord
  <2>2. x.mem \in [Mems -> MemRecord]
    BY Parts DEF Sound
  <2> QED
    BY <1>1, <1>4, <2>1, <2>2 DEF Filled
<1> QED
  BY <1>4, WrittenIs

----------------------------------------------------------------------------
(* CCache__DeallocateInternal and CCache__CompleteRequest                   *)

\* Persistent memory goes, whoever has it locked.
LEMMA DeallocatedIs ==
  ASSUME NEW x, Sound(x), NEW m \in Mems, x.mem[m].persistent, NEW y, y = Deallocated(x, m)
  PROVE  /\ Freed(x, y, {m}) /\ Sound(y) /\ Rest(x, y, {}, {m}) /\ y.mem[m].locks = 0
         /\ m \notin Allocated(y)
<1>1. /\ x \in Memories /\ Agree(x) /\ Marked(x)
      /\ x.mem \in [Mems -> MemRecord] /\ x.order \in Seq(Mems)
      /\ x.entry \in [Entries -> EntryRecord] /\ x.table \in [Keys -> SomeEntry]
      /\ x = [mem |-> x.mem, order |-> x.order, entry |-> x.entry, table |-> x.table]
      /\ DOMAIN x = {"mem", "order", "entry", "table"} /\ x.mem[m] \in MemRecord
  BY Parts DEF Sound
<1>2. PICK z : z = [x EXCEPT !.mem[m].persistent = FALSE, !.mem[m].locks = 0]
  OBVIOUS
<1>3. PICK r : r = [x.mem[m] EXCEPT !.persistent = FALSE, !.locks = 0]
  OBVIOUS
<1>4. /\ r \in MemRecord /\ r.entry = x.mem[m].entry /\ r.lists = x.mem[m].lists
      /\ r.persistent = FALSE /\ r.locks = 0
  BY <1>1, <1>3 DEF MemRecord
<1>5. /\ z.mem = [x.mem EXCEPT ![m] = r] /\ z.order = x.order
      /\ z.entry = x.entry /\ z.table = x.table
      /\ z = [mem |-> z.mem, order |-> z.order, entry |-> z.entry, table |-> z.table]
  <2>1. /\ z.order = x.order /\ z.entry = x.entry /\ z.table = x.table
        /\ z = [mem |-> z.mem, order |-> z.order, entry |-> z.entry, table |-> z.table]
    BY <1>1, <1>2
  <2>2. z.mem = [x.mem EXCEPT ![m] = r]
    BY <1>1, <1>2, <1>3
  <2> QED
    BY <2>1, <2>2
<1>6. /\ z.mem \in [Mems -> MemRecord] /\ z.mem[m] = r
      /\ \A k \in Mems \ {m} : z.mem[k] = x.mem[k]
  BY <1>1, <1>4, <1>5
<1>7. z \in Memories /\ Allocated(z) = Allocated(x)
  BY <1>1, <1>5, <1>6 DEF Memories, Allocated
<1>8. Agree(z)
  <2>1. \A k \in Mems : z.mem[k].entry = x.mem[k].entry
    BY <1>4, <1>6
  <2>2. \A e \in Entries : UsedOk(x, e) => UsedOk(z, e)
    BY <1>5, <1>7, <2>1 DEF UsedOk, Allocated
  <2> QED
    BY <1>1, <1>5, <2>1, <2>2 DEF Agree
<1>9. ~InUse(z.mem[m])
  BY <1>1, <1>4, <1>6 DEF Marked, InUse
<1>10. y = Dropped(z, {m})
  BY <1>2, <1>9 DEF Deallocated
<1>11. Freed(z, y, {m})
  BY <1>7, <1>8, <1>10, DroppedFreed
<1>12. Freed(x, y, {m})
  BY <1>5, <1>6, <1>7, <1>11 DEF Freed
<1>13. y.mem[m] = FreeMem /\ m \notin Allocated(y)
  BY <1>12 DEF Freed
<1> QED
  BY <1>12, <1>13, FreedSound, RestFreed DEF FreeMem

\* The resource that is replaced: its entry is free, and its memory as soon as nobody
\* uses it.
OldGone(x, z, old, om) ==
  /\ z \in Memories /\ z.table = x.table
  /\ z.entry[old] = FreeEntry /\ \A f \in Entries \ {old} : z.entry[f] = x.entry[f]
  /\ \A j \in Mems \ {om} : z.mem[j] = x.mem[j] /\ (j \in Allocated(z) <=> j \in Allocated(x))
  /\ \/ z.mem[om] = [x.mem[om] EXCEPT !.entry = None] /\ (om \in Allocated(z) <=> om \in Allocated(x))
     \/ ~InUse(x.mem[om]) /\ z.mem[om] = FreeMem /\ om \notin Allocated(z)

\* What the code does with its memory.
Unnamed(x, om) == [x EXCEPT !.mem[om].entry = None]
Vacated(w, om) == IF InUse(w.mem[om]) THEN w ELSE FreeMems(w, {om})

\* The entry that is replaced, and the memory's mark for it, are cleared.
LEMMA OldIsGone ==
  ASSUME NEW x \in Memories, NEW old \in Entries, NEW om \in Mems,
         NEW w, w = Unnamed(x, om), NEW v, v = Vacated(w, om), NEW z, z = Withdrawn(v, old)
  PROVE  OldGone(x, z, old, om)
<1>1. /\ x.mem \in [Mems -> MemRecord] /\ x.order \in Seq(Mems)
      /\ x.entry \in [Entries -> EntryRecord] /\ x.table \in [Keys -> SomeEntry]
      /\ x = [mem |-> x.mem, order |-> x.order, entry |-> x.entry, table |-> x.table]
      /\ DOMAIN x = {"mem", "order", "entry", "table"} /\ x.mem[om] \in MemRecord
  BY Parts
<1>2. PICK r : r = [x.mem[om] EXCEPT !.entry = None]
  OBVIOUS
<1>3. /\ r \in MemRecord /\ r.lists = x.mem[om].lists /\ r.persistent = x.mem[om].persistent
      /\ r.locks = x.mem[om].locks
  <2>1. None \in SomeEntry
    BY DEF SomeEntry
  <2> QED
    BY <1>1, <1>2, <2>1 DEF MemRecord
<1>4. /\ w.order = x.order /\ w.entry = x.entry /\ w.table = x.table
      /\ w = [mem |-> w.mem, order |-> w.order, entry |-> w.entry, table |-> w.table]
      /\ w.mem = [x.mem EXCEPT ![om] = r]
  BY <1>1, <1>2 DEF Unnamed
<1>5. /\ w.mem \in [Mems -> MemRecord] /\ w.mem[om] = r
      /\ \A j \in Mems \ {om} : w.mem[j] = x.mem[j]
  BY <1>1, <1>3, <1>4
<1>6. w \in Memories /\ Allocated(w) = Allocated(x)
  <2>1. w \in Memories
    BY <1>1, <1>4, <1>5 DEF Memories
  <2>2. Allocated(w) = Allocated(x)
    BY <1>4 DEF Allocated
  <2> QED
    BY <2>1, <2>2
<1>7. InUse(w.mem[om]) <=> InUse(x.mem[om])
  BY <1>3, <1>5 DEF InUse
<1>8. /\ v \in Memories /\ v.entry = x.entry /\ v.table = x.table
      /\ \A j \in Mems \ {om} : v.mem[j] = x.mem[j] /\ (j \in Allocated(v) <=> j \in Allocated(x))
      /\ \/ v.mem[om] = r /\ (om \in Allocated(v) <=> om \in Allocated(x))
         \/ ~InUse(x.mem[om]) /\ v.mem[om] = FreeMem /\ om \notin Allocated(v)
  <2>1. CASE InUse(w.mem[om])
    BY <1>4, <1>5, <1>6, <2>1 DEF Vacated
  <2>2. CASE ~InUse(w.mem[om])
    <3>1. v = FreeMems(w, {om})
      BY <2>2 DEF Vacated
    <3>2. /\ v \in Memories /\ Allocated(v) = Allocated(w) \ {om}
          /\ \A j \in Mems : v.mem[j] = IF j \in {om} THEN FreeMem ELSE w.mem[j]
          /\ v.entry = w.entry /\ v.table = w.table
      BY <1>6, <3>1, FreeMemsIs
    <3> QED
      BY <1>4, <1>5, <1>6, <1>7, <2>2, <3>2
  <2> QED
    BY <2>1, <2>2
<1>9. /\ z.mem = v.mem /\ z.order = v.order /\ z.table = v.table
      /\ z.entry = [f \in Entries |-> IF f \in {old} THEN FreeEntry ELSE v.entry[f]]
      /\ z = [mem |-> z.mem, order |-> z.order, entry |-> z.entry, table |-> z.table]
  BY <1>8 DEF Withdrawn, FreeCacheEntries, Memories
<1>10. z \in Memories /\ Allocated(z) = Allocated(v)
  <2>1. z.entry \in [Entries -> EntryRecord]
    BY <1>8, <1>9, <1>1, Blanks
  <2>2. /\ v.mem \in [Mems -> MemRecord] /\ v.order \in Seq(Mems)
        /\ v.table \in [Keys -> SomeEntry]
    BY <1>8, Parts
  <2> QED
    BY <1>9, <2>1, <2>2 DEF Memories, Allocated
<1>11. z.entry[old] = FreeEntry /\ \A f \in Entries \ {old} : z.entry[f] = x.entry[f]
  BY <1>8, <1>9
<1> QED
  BY <1>2, <1>8, <1>9, <1>10, <1>11 DEF OldGone

\* The record j of z is that of x, or the memory of the resource that is replaced.
Vacates(x, z, j, old) ==
  \/ /\ z.mem[j] = x.mem[j] /\ (j \in Allocated(z) <=> j \in Allocated(x))
     /\ x.mem[j].entry = None \/ x.mem[j].entry # old
  \/ /\ x.mem[j].entry # None /\ x.mem[j].entry = old
     /\ z.mem[j] = [x.mem[j] EXCEPT !.entry = None]
     /\ j \in Allocated(z) <=> j \in Allocated(x)
  \/ /\ x.mem[j].entry # None /\ x.mem[j].entry = old
     /\ ~InUse(x.mem[j]) /\ z.mem[j] = FreeMem /\ j \notin Allocated(z)

\* y is x with the entry e in the table, its memory locked n times.
Tabled(x, y, e, n, k, m, old) ==
  /\ y \in Memories
  /\ y.entry[e] = [x.entry[e] EXCEPT !.place = "used"]
  /\ \A f \in Entries \ {e} : \/ f # old /\ y.entry[f] = x.entry[f]
                              \/ f = old /\ y.entry[f] = FreeEntry
  /\ y.table[k] = e /\ \A j \in Keys \ {k} : y.table[j] = x.table[j]
  /\ y.mem[m] = [x.mem[m] EXCEPT !.entry = e, !.locks = n] /\ m \in Allocated(y)
  /\ \A j \in Mems \ {m} : Vacates(x, y, j, old)

\* A complete request, with its memory to itself.
Complete(x, e) ==
  LET k == x.entry[e].key
      m == x.entry[e].mem
  IN  /\ e \in Pend(x) /\ k \in Keys
      /\ m # None => /\ m \in Allocated(x) /\ x.mem[m].entry = None
                     /\ k \in Indexes => x.mem[m].persistent

\* What a complete request e is about: its key and memory, and what the table has.
Concerns(x, e, k, m, old) ==
  k = x.entry[e].key /\ m = x.entry[e].mem /\ m # None /\ old = x.table[k]

\* The entry, key, memory and predecessor that CCache__CompleteRequest works on.
LEMMA ConcernsAre ==
  ASSUME NEW x, Sound(x), NEW e, Complete(x, e), NEW k, NEW m, NEW old, Concerns(x, e, k, m, old)
  PROVE  /\ e \in Entries /\ x.entry[e].place = "pending" /\ k \in Keys /\ m \in Mems
         /\ m \in Allocated(x) /\ x.mem[m].entry = None /\ old \in SomeEntry
<1>1. x \in Memories /\ x.table \in [Keys -> SomeEntry] /\ Allocated(x) \subseteq Mems
  BY Parts DEF Sound
<1>2. /\ e \in Entries /\ x.entry[e].place = "pending" /\ k \in Keys
      /\ m \in Allocated(x) /\ x.mem[m].entry = None
  BY DEF Complete, Pend, Concerns
<1> QED
  BY <1>1, <1>2 DEF Concerns

\* What the table has is another entry, with other memory.
LEMMA OldIs ==
  ASSUME NEW x, Sound(x), NEW e, Complete(x, e), NEW k, NEW m, NEW old, Concerns(x, e, k, m, old),
         old # None
  PROVE  /\ old \in Entries /\ old # e /\ x.entry[old].mem \in Mems \ {m}
         /\ x.mem[x.entry[old].mem].entry = old
<1>1. /\ e \in Entries /\ x.entry[e].place = "pending" /\ k \in Keys /\ m \in Mems
      /\ x.mem[m].entry = None /\ old \in SomeEntry
  BY ConcernsAre
<1>2. Reserved.key = None /\ None \notin Keys
  BY CacheSound DEF Reserved, FreeEntry
<1>3. Agree(x) /\ Allocated(x) \subseteq Mems
  BY Parts DEF Sound
<1>4. old \in Entries /\ x.entry[old].place = "used" /\ x.entry[old].key = k
  <2>1. x.entry[x.table[k]].place = "used" /\ x.entry[x.table[k]].key = k
    BY <1>1, <1>3 DEF Agree, Concerns
  <2> QED
    BY <1>1, <2>1 DEF Concerns, SomeEntry
<1>5. UsedOk(x, old)
  <2>1. x.entry[old] = Reserved \/ UsedOk(x, old)
    BY <1>3, <1>4 DEF Agree
  <2> QED
    BY <1>1, <1>2, <1>4, <2>1
<1>6. x.entry[old].mem \in Mems /\ x.mem[x.entry[old].mem].entry = old
  BY <1>3, <1>5 DEF UsedOk
<1> QED
  BY <1>1, <1>4, <1>6

\* The table has the new entry, and only that names its key.
LEMMA TabledSound ==
  ASSUME NEW x, Sound(x), NEW e, Complete(x, e), NEW k, NEW m, NEW old, Concerns(x, e, k, m, old),
         NEW n \in Nat, NEW y, Tabled(x, y, e, n, k, m, old)
  PROVE  Sound(y)
<1>1. /\ x \in Memories /\ Apart(x) /\ Agree(x) /\ Marked(x)
      /\ x.mem \in [Mems -> MemRecord] /\ x.entry \in [Entries -> EntryRecord]
      /\ x.table \in [Keys -> SomeEntry] /\ Allocated(x) \subseteq Mems
  BY Parts DEF Sound
<1>2. /\ e \in Entries /\ x.entry[e].place = "pending" /\ k \in Keys /\ m \in Mems
      /\ m \in Allocated(x) /\ x.mem[m].entry = None
      /\ x.entry[e] \in EntryRecord /\ x.mem[m] \in MemRecord
  BY <1>1, ConcernsAre
<1>3. None \notin Entries /\ None \notin Keys /\ None \notin Mems /\ FreeEntry.place = "free"
  BY CacheSound DEF FreeEntry
<1>4. \A j \in Keys : x.table[j] # None => x.entry[x.table[j]].place = "used" /\ x.entry[x.table[j]].key = j
  BY <1>1 DEF Agree
<1>5. /\ y.entry[e].place = "used" /\ y.entry[e].key = k /\ y.entry[e].mem = m /\ old = x.table[k]
      /\ k \in Indexes => x.mem[m].persistent
  BY <1>2 DEF Tabled, EntryRecord, Concerns, Complete
<1>6. /\ y.mem[m].entry = e /\ y.mem[m].persistent = x.mem[m].persistent
      /\ y.mem[m].lists = x.mem[m].lists /\ y.mem[m].holds = x.mem[m].holds
      /\ y.mem[m].at = x.mem[m].at /\ y.mem[m].size = x.mem[m].size /\ m \in Allocated(y)
  BY <1>2 DEF Tabled, MemRecord
<1>7. ASSUME NEW j \in Mems \ {m}, j \in Allocated(y)
      PROVE  /\ j \in Allocated(x) /\ y.mem[j].at = x.mem[j].at /\ y.mem[j].size = x.mem[j].size
             /\ y.mem[j].persistent = x.mem[j].persistent
             /\ y.mem[j].lists = x.mem[j].lists /\ y.mem[j].holds = x.mem[j].holds
             /\ \/ y.mem[j].entry = x.mem[j].entry /\ (x.mem[j].entry = None \/ x.mem[j].entry # old)
                \/ y.mem[j].entry = None /\ x.mem[j].entry = old
  <2>1. x.mem[j] \in MemRecord
    BY <1>1
  <2> QED
    BY <1>7, <2>1 DEF Tabled, Vacates, MemRecord
<1>8. ASSUME NEW j \in Mems \ Allocated(y) PROVE y.mem[j] = FreeMem
  <2>1. j # m
    BY <1>6
  <2>2. \/ y.mem[j] = FreeMem
        \/ j \notin Allocated(x) /\ y.mem[j] = x.mem[j]
        \/ j \notin Allocated(x) /\ x.mem[j].entry # None
    BY <2>1 DEF Tabled, Vacates
  <2>3. FreeMem.entry = None
    BY DEF FreeMem
  <2> QED
    BY <1>1, <2>2, <2>3 DEF Apart
<1>9. Apart(y)
  <2>1. Allocated(y) \subseteq Mems
    BY DEF Allocated
  <2>2. \A j \in Allocated(y) : /\ j \in Allocated(x) /\ y.mem[j].at = x.mem[j].at
                                /\ y.mem[j].size = x.mem[j].size
    BY <1>2, <1>6, <1>7, <2>1
  <2>3. \A j \in Allocated(y) : Span(y.mem[j]) = Span(x.mem[j])
    BY <2>2 DEF Span
  <2> QED
    BY <1>1, <1>8, <2>2, <2>3 DEF Apart
<1>10. ASSUME NEW j \in Mems, y.mem[j].entry # None
       PROVE  /\ y.entry[y.mem[j].entry].place = "used" /\ y.entry[y.mem[j].entry].mem = j
              /\ y.entry[y.mem[j].entry].key \in Indexes => y.mem[j].persistent
  <2>1. CASE j = m
    BY <1>2, <1>5, <1>6, <2>1
  <2>2. CASE j # m
    <3>1. j \in Allocated(y)
      BY <1>8, <1>10 DEF FreeMem
    <3>2. /\ y.mem[j].entry = x.mem[j].entry /\ x.mem[j].entry # old
          /\ y.mem[j].persistent = x.mem[j].persistent
      BY <1>7, <1>10, <2>2, <3>1
    <3>3. x.mem[j].entry \in Entries
      BY <1>1, <1>10, <3>2 DEF MemRecord, SomeEntry
    <3>4. x.entry[x.mem[j].entry].place = "used" /\ x.entry[x.mem[j].entry].mem = j
      BY <1>1, <1>10, <3>2 DEF Agree
    <3>5. y.entry[x.mem[j].entry] = x.entry[x.mem[j].entry]
      BY <1>2, <3>2, <3>3, <3>4 DEF Tabled
    <3>6. x.entry[x.mem[j].entry].key \in Indexes => x.mem[j].persistent
      BY <1>1, <1>10, <3>2 DEF Marked
    <3> QED
      BY <3>2, <3>4, <3>5, <3>6
  <2> QED
    BY <2>1, <2>2
<1>11. ASSUME NEW f \in Entries
       PROVE  /\ y.entry[f].place = "free" => y.entry[f] = FreeEntry
              /\ y.entry[f].place = "used" => y.entry[f] = Reserved \/ UsedOk(y, f)
  <2>1. CASE f = e
    <3>1. UsedOk(y, e)
      BY <1>2, <1>5, <1>6 DEF UsedOk, Tabled
    <3> QED
      BY <1>5, <2>1, <3>1
  <2>2. CASE f # e /\ f = old
    <3>1. y.entry[f] = FreeEntry
      BY <2>2 DEF Tabled
    <3> QED
      BY <1>3, <3>1
  <2>3. CASE f # e /\ f # old
    <3>1. y.entry[f] = x.entry[f]
      BY <2>3 DEF Tabled
    <3>2. ASSUME UsedOk(x, f) PROVE UsedOk(y, f)
      <4>1. /\ x.entry[f].key \in Keys /\ x.table[x.entry[f].key] = f
            /\ x.entry[f].mem \in Allocated(x) /\ x.mem[x.entry[f].mem].entry = f
        BY <3>2 DEF UsedOk
      <4>2. x.entry[f].key # k /\ x.entry[f].mem # m /\ x.entry[f].mem \in Mems
        <5>1. x.entry[f].key # k
          BY <1>5, <2>3, <4>1
        <5>2. x.entry[f].mem # m /\ x.entry[f].mem \in Mems
          BY <1>1, <1>2, <1>3, <4>1
        <5> QED
          BY <5>1, <5>2
      <4>3. y.table[x.entry[f].key] = f
        BY <4>1, <4>2 DEF Tabled
      <4>4. x.entry[f].mem \in Allocated(y) /\ y.mem[x.entry[f].mem].entry = f
        BY <2>3, <4>1, <4>2 DEF Tabled, Vacates
      <4> QED
        BY <3>1, <4>1, <4>3, <4>4 DEF UsedOk
    <3> QED
      BY <1>1, <3>1, <3>2 DEF Agree
  <2> QED
    BY <2>1, <2>2, <2>3
<1>12. ASSUME NEW j \in Keys, y.table[j] # None
       PROVE  y.entry[y.table[j]].place = "used" /\ y.entry[y.table[j]].key = j
  <2>1. CASE j = k
    BY <1>5, <2>1 DEF Tabled
  <2>2. CASE j # k
    <3>1. y.table[j] = x.table[j] /\ x.table[j] \in Entries
      BY <1>1, <1>12, <2>2 DEF Tabled, SomeEntry
    <3>2. x.entry[x.table[j]].place = "used" /\ x.entry[x.table[j]].key = j
      BY <1>1, <1>12, <3>1 DEF Agree
    <3>3. x.table[j] # e /\ x.table[j] # old
      <4>1. x.table[j] # e
        BY <1>2, <3>2
      <4>2. x.table[j] = x.table[k] => x.entry[x.table[j]].key = k
        BY <1>2, <1>4, <1>12, <3>1
      <4> QED
        BY <1>5, <2>2, <3>2, <4>1, <4>2
    <3>4. y.entry[x.table[j]] = x.entry[x.table[j]]
      BY <3>1, <3>3 DEF Tabled
    <3> QED
      BY <3>1, <3>2, <3>4
  <2> QED
    BY <2>1, <2>2
<1>13. Agree(y)
  BY <1>10, <1>11, <1>12 DEF Agree
<1>14. Marked(y)
  <2>1. FreeMem.persistent = FALSE
    BY DEF FreeMem
  <2>2. \A j \in Mems : y.mem[j].persistent =>
          /\ x.mem[j].persistent /\ y.mem[j].lists = x.mem[j].lists /\ y.mem[j].holds = x.mem[j].holds
    BY <1>6, <1>7, <1>8, <2>1
  <2>3. \A j \in Mems : y.mem[j].persistent => y.mem[j].lists = {}
    BY <1>1, <2>2 DEF Marked
  <2>4. \A j \in Mems : \A i \in Plain \cup Packed : y.mem[j].holds = Res(i) => ~y.mem[j].persistent
    BY <1>1, <2>2 DEF Marked
  <2>5. \A j \in Mems : y.mem[j].persistent \in BOOLEAN
    BY DEF Tabled, Memories, MemRecord
  <2> QED
    BY <1>10, <2>3, <2>4, <2>5 DEF Marked
<1> QED
  BY <1>9, <1>13, <1>14 DEF Sound, Tabled

\* The rest is as it was.
LEMMA TabledRest ==
  ASSUME NEW x, Sound(x), NEW e, Complete(x, e), NEW k, NEW m, NEW old, Concerns(x, e, k, m, old),
         NEW n \in Nat, NEW y, Tabled(x, y, e, n, k, m, old)
  PROVE  /\ Rest(x, y, {e}, {m}) /\ y.mem[m].locks = n /\ m \in Allocated(y)
         /\ e \notin Pend(y) /\ y.entry[e] # Reserved /\ y.entry[e].mem = m
         /\ y.mem[m].persistent = x.mem[m].persistent
<1>1. /\ x.entry \in [Entries -> EntryRecord] /\ x.mem \in [Mems -> MemRecord]
      /\ x.table \in [Keys -> SomeEntry] /\ Agree(x) /\ Allocated(x) \subseteq Mems
  BY Parts DEF Sound
<1>2. /\ e \in Entries /\ x.entry[e].place = "pending" /\ k \in Keys /\ m \in Mems
      /\ x.entry[e] \in EntryRecord /\ x.mem[m] \in MemRecord
  BY <1>1, ConcernsAre
<1>3. /\ y.entry[e].place = "used" /\ y.entry[e].key = k /\ y.entry[e].mem = m
  BY <1>2 DEF Tabled, EntryRecord, Concerns
<1>4. y.mem[m].locks = n /\ y.mem[m].persistent = x.mem[m].persistent /\ m \in Allocated(y)
  BY <1>2 DEF Tabled, MemRecord
<1>5. y.entry[e] # Reserved /\ e \notin Pend(y)
  <2>1. None \notin Keys /\ Reserved.key = None
    BY CacheSound DEF Reserved, FreeEntry
  <2> QED
    BY <1>2, <1>3, <2>1 DEF Pend
<1>6. old # None => x.entry[old].place = "used"
  BY <1>1, <1>2 DEF Agree, Concerns
<1>7. \A f \in Entries \ {e} : \/ y.entry[f] = x.entry[f]
                               \/ x.entry[f].place = "used" /\ y.entry[f] = FreeEntry
  <2>1. None \notin Entries
    BY CacheSound
  <2> QED
    BY <1>6, <2>1 DEF Tabled
<1>8. ASSUME NEW j \in Mems \ {m}
      PROVE  y.mem[j].locks = x.mem[j].locks /\ (x.mem[j].locks > 0 => SameData(x, y, j))
  <2>1. x.mem[j] \in MemRecord /\ FreeMem.locks = 0
    BY <1>1 DEF FreeMem
  <2>2. CASE y.mem[j] = x.mem[j] /\ (j \in Allocated(y) <=> j \in Allocated(x))
    BY <2>2, LocksAllocated DEF SameData
  <2>3. CASE /\ y.mem[j] = [x.mem[j] EXCEPT !.entry = None]
             /\ j \in Allocated(y) <=> j \in Allocated(x)
    <3>1. /\ y.mem[j].locks = x.mem[j].locks /\ y.mem[j].at = x.mem[j].at
          /\ y.mem[j].size = x.mem[j].size /\ y.mem[j].persistent = x.mem[j].persistent
          /\ y.mem[j].holds = x.mem[j].holds /\ y.mem[j].entry = None
      BY <2>1, <2>3 DEF MemRecord
    <3> QED
      BY <2>3, <3>1, LocksAllocated DEF SameData
  <2>4. CASE ~InUse(x.mem[j]) /\ y.mem[j] = FreeMem
    <3>1. x.mem[j].locks \in Nat
      BY <2>1 DEF MemRecord
    <3> QED
      BY <2>1, <2>4, <3>1 DEF InUse
  <2> QED
    BY <2>2, <2>3, <2>4 DEF Tabled, Vacates
<1>9. \A j \in Keys : \/ y.table[j] = x.table[j]
                      \/ \E f \in {e} : f \in Pend(x) /\ x.entry[f].key = j
  BY <1>2 DEF Tabled, Concerns, Pend
<1> QED
  BY <1>3, <1>4, <1>5, <1>7, <1>8, <1>9 DEF Rest

\* How the code writes a complete request.
UsedNow(x, e)        == [x EXCEPT !.entry[e].place = "used"]
Tabling(z, k, e, m)  == [z EXCEPT !.table[k] = e, !.mem[m].entry = e]

\* And maybe gives the memory back, which had some references; it has n then.
MaybeUnref(had, t, y, m, n) ==
  \/ y = t /\ n = had
  \/ y = Unref(t, m) /\ had > 0 /\ n = had - 1

\* An entry that is used is set as a whole.
LEMMA UsedNowIs ==
  ASSUME NEW x \in Memories, NEW e \in Entries, NEW y, y = UsedNow(x, e)
  PROVE  /\ y \in Memories /\ y.mem = x.mem /\ y.table = x.table /\ Allocated(y) = Allocated(x)
         /\ y.entry[e] = [x.entry[e] EXCEPT !.place = "used"]
         /\ \A f \in Entries \ {e} : y.entry[f] = x.entry[f]
<1>1. /\ x.mem \in [Mems -> MemRecord] /\ x.order \in Seq(Mems)
      /\ x.entry \in [Entries -> EntryRecord] /\ x.table \in [Keys -> SomeEntry]
      /\ x = [mem |-> x.mem, order |-> x.order, entry |-> x.entry, table |-> x.table]
      /\ DOMAIN x = {"mem", "order", "entry", "table"} /\ x.entry[e] \in EntryRecord
  BY Parts
<1>2. PICK r : r = [x.entry[e] EXCEPT !.place = "used"]
  OBVIOUS
<1>3. r \in EntryRecord
  BY <1>1, <1>2 DEF EntryRecord
<1>4. /\ y.mem = x.mem /\ y.order = x.order /\ y.table = x.table
      /\ y.entry = [x.entry EXCEPT ![e] = r]
      /\ y = [mem |-> y.mem, order |-> y.order, entry |-> y.entry, table |-> y.table]
  BY <1>1, <1>2 DEF UsedNow
<1>5. y.entry \in [Entries -> EntryRecord] /\ y.entry[e] = r
      /\ \A f \in Entries \ {e} : y.entry[f] = x.entry[f]
  BY <1>1, <1>3, <1>4
<1>6. y \in Memories
  BY <1>1, <1>4, <1>5 DEF Memories
<1>7. Allocated(y) = Allocated(x)
  BY <1>4 DEF Allocated
<1> QED
  BY <1>2, <1>4, <1>5, <1>6, <1>7

\* y is z with e in the table for k, and in its memory m, locked n times.
InTable(z, y, k, e, m, n) ==
  /\ y \in Memories /\ y.entry = z.entry /\ Allocated(y) = Allocated(z)
  /\ y.table[k] = e /\ \A j \in Keys \ {k} : y.table[j] = z.table[j]
  /\ y.mem[m] = [z.mem[m] EXCEPT !.entry = e, !.locks = n]
  /\ \A j \in Mems \ {m} : y.mem[j] = z.mem[j]
  /\ n \in Nat

\* The entry is written to the table and to its memory, which is given back.
LEMMA TablingIs ==
  ASSUME NEW z \in Memories, NEW k \in Keys, NEW e \in Entries, NEW m \in Mems,
         NEW t, t = Tabling(z, k, e, m), NEW had, had = z.mem[m].locks,
         NEW y, NEW n, MaybeUnref(had, t, y, m, n)
  PROVE  InTable(z, y, k, e, m, n)
<1>1. /\ z.mem \in [Mems -> MemRecord] /\ z.order \in Seq(Mems)
      /\ z.entry \in [Entries -> EntryRecord] /\ z.table \in [Keys -> SomeEntry]
      /\ z = [mem |-> z.mem, order |-> z.order, entry |-> z.entry, table |-> z.table]
      /\ DOMAIN z = {"mem", "order", "entry", "table"} /\ z.mem[m] \in MemRecord
  BY Parts
<1>2. PICK r : r = [z.mem[m] EXCEPT !.entry = e]
  OBVIOUS
<1>3. r \in MemRecord /\ r.locks = had /\ had \in Nat
  BY <1>1, <1>2 DEF MemRecord, SomeEntry
<1>4. /\ t.order = z.order /\ t.entry = z.entry
      /\ t.table = [z.table EXCEPT ![k] = e] /\ t.mem = [z.mem EXCEPT ![m] = r]
      /\ t = [mem |-> t.mem, order |-> t.order, entry |-> t.entry, table |-> t.table]
      /\ DOMAIN t = {"mem", "order", "entry", "table"}
  BY <1>1, <1>2 DEF Tabling
<1>5. t.mem[m] = r
  BY <1>1, <1>4
<1>6. n \in Nat
  BY <1>3, <1>5 DEF MaybeUnref
<1>7. PICK s : s = [z.mem[m] EXCEPT !.entry = e, !.locks = n]
  OBVIOUS
<1>8. s \in MemRecord
  BY <1>1, <1>6, <1>7 DEF MemRecord, SomeEntry
<1>9. /\ y.order = z.order /\ y.entry = z.entry
      /\ y.table = [z.table EXCEPT ![k] = e] /\ y.mem = [z.mem EXCEPT ![m] = s]
      /\ y = [mem |-> y.mem, order |-> y.order, entry |-> y.entry, table |-> y.table]
  <2>1. CASE y = t /\ n = had
    <3>1. s = r
      BY <1>1, <1>2, <1>3, <1>5, <1>7, <2>1 DEF MemRecord
    <3> QED
      BY <1>4, <2>1, <3>1
  <2>2. CASE y = Unref(t, m) /\ n = had - 1
    <3>1. PICK q : q = [t.mem[m] EXCEPT !.locks = @ - 1]
      OBVIOUS
    <3>2. /\ y.order = t.order /\ y.entry = t.entry /\ y.table = t.table
          /\ y.mem = [t.mem EXCEPT ![m] = q]
          /\ y = [mem |-> y.mem, order |-> y.order, entry |-> y.entry, table |-> y.table]
      BY <1>4, <2>2, <3>1 DEF Unref
    <3>3. q = s
      BY <1>1, <1>2, <1>3, <1>5, <1>7, <2>2, <3>1 DEF MemRecord
    <3>4. [t.mem EXCEPT ![m] = s] = [z.mem EXCEPT ![m] = s]
      BY <1>1, <1>4
    <3> QED
      BY <1>4, <3>2, <3>3, <3>4
  <2> QED
    BY <2>1, <2>2 DEF MaybeUnref
<1>10. /\ y.mem \in [Mems -> MemRecord] /\ y.mem[m] = s
      /\ \A j \in Mems \ {m} : y.mem[j] = z.mem[j]
  BY <1>1, <1>8, <1>9
<1>11. /\ y.table \in [Keys -> SomeEntry] /\ y.table[k] = e
       /\ \A j \in Keys \ {k} : y.table[j] = z.table[j]
  BY <1>1, <1>9 DEF SomeEntry
<1>12. y \in Memories
  BY <1>1, <1>9, <1>10, <1>11 DEF Memories
<1>13. Allocated(y) = Allocated(z)
  BY SMTT(30), <1>9 DEF Allocated
<1> QED
  BY <1>6, <1>7, <1>9, <1>10, <1>11, <1>12, <1>13 DEF InTable

\* z is x with the entry e in use, and without the resource that is replaced.
OutOfTable(x, z, e, m, old) ==
  /\ z \in Memories /\ z.table = x.table /\ z.entry[e] = [x.entry[e] EXCEPT !.place = "used"]
  /\ \A f \in Entries \ {e} : \/ f # old /\ z.entry[f] = x.entry[f]
                              \/ f = old /\ z.entry[f] = FreeEntry
  /\ z.mem[m] = x.mem[m] /\ m \in Allocated(z)
  /\ \A j \in Mems \ {m} : Vacates(x, z, j, old)

\* Without a predecessor nothing else is cleared.
LEMMA NothingReplaced ==
  ASSUME NEW x, Sound(x), NEW e, Complete(x, e), NEW k, NEW m, NEW old, Concerns(x, e, k, m, old),
         old = None, NEW z, z = UsedNow(x, e)
  PROVE  OutOfTable(x, z, e, m, old)
<1>1. /\ e \in Entries /\ m \in Allocated(x) /\ x \in Memories
  BY ConcernsAre DEF Sound
<1>2. /\ z \in Memories /\ z.mem = x.mem /\ z.table = x.table /\ Allocated(z) = Allocated(x)
      /\ z.entry[e] = [x.entry[e] EXCEPT !.place = "used"]
      /\ \A f \in Entries \ {e} : z.entry[f] = x.entry[f]
  BY <1>1, UsedNowIs
<1>3. old \notin Entries
  BY CacheSound
<1>4. \A f \in Entries \ {e} : f # old /\ z.entry[f] = x.entry[f]
  BY <1>2, <1>3
<1>5. \A j \in Mems : Vacates(x, z, j, old)
  BY <1>2 DEF Vacates
<1> QED
  BY <1>1, <1>2, <1>4, <1>5 DEF OutOfTable

\* A predecessor is out of the table with its memory's mark.
LEMMA OldReplaced ==
  ASSUME NEW x, Sound(x), NEW e, Complete(x, e), NEW k, NEW m, NEW old, Concerns(x, e, k, m, old),
         old # None, NEW om, om = x.entry[old].mem, NEW u, u = UsedNow(x, e), NEW z, OldGone(u, z, old, om)
  PROVE  OutOfTable(x, z, e, m, old)
<1>1. /\ e \in Entries /\ m \in Allocated(x) /\ m \in Mems /\ x \in Memories
  BY ConcernsAre DEF Sound
<1>2. /\ u.mem = x.mem /\ u.table = x.table /\ Allocated(u) = Allocated(x)
      /\ u.entry[e] = [x.entry[e] EXCEPT !.place = "used"]
      /\ \A f \in Entries \ {e} : u.entry[f] = x.entry[f]
  BY <1>1, UsedNowIs
<1>3. old \in Entries /\ old # e /\ om \in Mems /\ om # m /\ x.mem[om].entry = old
  BY OldIs
<1>4. /\ z \in Memories /\ z.table = x.table /\ z.entry[e] = [x.entry[e] EXCEPT !.place = "used"]
      /\ z.mem[m] = x.mem[m] /\ m \in Allocated(z)
  BY <1>1, <1>2, <1>3 DEF OldGone
<1>5. \A f \in Entries \ {e} : \/ f # old /\ z.entry[f] = x.entry[f]
                               \/ f = old /\ z.entry[f] = FreeEntry
  BY <1>2, <1>3 DEF OldGone
<1>6. ASSUME NEW j \in Mems \ {m} PROVE Vacates(x, z, j, old)
  <2>1. CASE j # om
    <3>1. z.mem[j] = x.mem[j] /\ (j \in Allocated(z) <=> j \in Allocated(x))
      BY <1>2, <2>1 DEF OldGone
    <3>2. x.mem[j].entry = None \/ x.mem[j].entry # old
      BY <2>1 DEF Sound, Agree
    <3> QED
      BY <3>1, <3>2 DEF Vacates
  <2>2. CASE j = om
    <3>1. \/ z.mem[j] = [x.mem[j] EXCEPT !.entry = None] /\ (j \in Allocated(z) <=> j \in Allocated(x))
          \/ ~InUse(x.mem[j]) /\ z.mem[j] = FreeMem /\ j \notin Allocated(z)
      BY <1>2, <2>2 DEF OldGone
    <3> QED
      BY <1>3, <2>2, <3>1 DEF Vacates
  <2> QED
    BY <2>1, <2>2
<1> QED
  BY <1>4, <1>5, <1>6 DEF OutOfTable

\* The new entry is put in the table, and its memory names it.
LEMMA TabledIs ==
  ASSUME NEW x, Sound(x), NEW e, Complete(x, e), NEW k, NEW m, NEW old, Concerns(x, e, k, m, old),
         NEW z, OutOfTable(x, z, e, m, old), NEW y, NEW n, InTable(z, y, k, e, m, n)
  PROVE  n \in Nat /\ Tabled(x, y, e, n, k, m, old)
<1>1. e \in Entries /\ k \in Keys /\ m \in Mems
  BY ConcernsAre
<1>2. /\ y \in Memories /\ y.entry = z.entry /\ Allocated(y) = Allocated(z) /\ y.table[k] = e
      /\ n \in Nat /\ \A j \in Mems \ {m} : y.mem[j] = z.mem[j]
  BY DEF InTable
<1>3. \A j \in Keys \ {k} : y.table[j] = x.table[j]
  BY DEF InTable, OutOfTable
<1>4. y.mem[m] = [x.mem[m] EXCEPT !.entry = e, !.locks = n]
  BY DEF InTable, OutOfTable
<1>5. /\ m \in Allocated(y) /\ y.entry[e] = [x.entry[e] EXCEPT !.place = "used"]
      /\ \A f \in Entries \ {e} : \/ f # old /\ y.entry[f] = x.entry[f]
                                  \/ f = old /\ y.entry[f] = FreeEntry
  BY <1>2 DEF OutOfTable
<1>6. ASSUME NEW j \in Mems \ {m} PROVE Vacates(x, y, j, old)
  <2>1. y.mem[j] = z.mem[j] /\ (j \in Allocated(y) <=> j \in Allocated(z)) /\ Vacates(x, z, j, old)
    BY <1>2 DEF OutOfTable
  <2> QED
    BY <2>1 DEF Vacates
<1> QED
  BY <1>2, <1>3, <1>4, <1>5, <1>6 DEF Tabled

\* What the code makes of u when the table has old.
Cleared(x, u, old) ==
  IF old = None THEN u
  ELSE Withdrawn(Vacated(Unnamed(u, x.entry[old].mem), x.entry[old].mem), old)

\* And when the request is put in the table.
InstalledAs(x, e) ==
  Tabling(Cleared(x, UsedNow(x, e), x.table[x.entry[e].key]), x.entry[e].key, e, x.entry[e].mem)

\* What CCache__CompleteRequest does.
LEMMA CompletedCases ==
  ASSUME NEW x, NEW e, NEW drop
  PROVE  Completed(x, e, drop) =
           IF x.entry[e].mem = None THEN [x |-> Withdrawn(x, e), entry |-> None]
           ELSE IF x.table[x.entry[e].key] # None
                   /\ x.entry[x.table[x.entry[e].key]].length >= x.entry[e].length
           THEN [x |-> Withdrawn(FreeMems(x, {x.entry[e].mem}), e),
                 entry |-> x.table[x.entry[e].key]]
           ELSE [x |-> IF drop THEN Unref(InstalledAs(x, e), x.entry[e].mem)
                       ELSE InstalledAs(x, e), entry |-> e]
BY DEF Completed, InstalledAs, Cleared, UsedNow, Tabling, Unnamed, Vacated

\* CCache__CompleteRequest first clears the predecessor, if there is one.
LEMMA ClearedIs ==
  ASSUME NEW x, Sound(x), NEW e, Complete(x, e), NEW k, NEW m, NEW old, Concerns(x, e, k, m, old),
         NEW z, z = Cleared(x, UsedNow(x, e), old)
  PROVE  OutOfTable(x, z, e, m, old)
<1>1. CASE old = None
  BY <1>1, NothingReplaced DEF Cleared
<1>2. CASE old # None
  <2>1. PICK om : om = x.entry[old].mem
    OBVIOUS
  <2>2. PICK u : u = UsedNow(x, e)
    OBVIOUS
  <2>3. PICK w : w = Unnamed(u, om)
    OBVIOUS
  <2>4. PICK v : v = Vacated(w, om)
    OBVIOUS
  <2>5. z = Withdrawn(v, old)
    BY <1>2, <2>1, <2>2, <2>3, <2>4 DEF Cleared
  <2>6. old \in Entries /\ om \in Mems
    BY <1>2, <2>1, OldIs
  <2>7. u \in Memories
    BY <2>2, UsedNowIs, ConcernsAre DEF Sound
  <2>8. OldGone(u, z, old, om)
    BY <2>3, <2>4, <2>5, <2>6, <2>7, OldIsGone
  <2> QED
    BY <1>2, <2>1, <2>2, <2>8, OldReplaced
<1> QED
  BY <1>1, <1>2

\* CCache__CompleteRequest installs the entry, and drops the request's lock when
\* told to.
LEMMA InstalledIs ==
  ASSUME NEW x, Sound(x), NEW e, Complete(x, e), NEW k, NEW m, NEW old, Concerns(x, e, k, m, old),
         NEW t, t = InstalledAs(x, e), NEW had, had = x.mem[m].locks,
         NEW y, NEW n, MaybeUnref(had, t, y, m, n)
  PROVE  n \in Nat /\ Tabled(x, y, e, n, k, m, old)
<1>1. PICK z : z = Cleared(x, UsedNow(x, e), old)
  OBVIOUS
<1>2. t = Tabling(z, k, e, m)
  BY <1>1 DEF InstalledAs, Concerns
<1>3. OutOfTable(x, z, e, m, old)
  BY <1>1, ClearedIs
<1>4. k \in Keys /\ e \in Entries /\ m \in Mems
  BY ConcernsAre
<1>5. z \in Memories /\ had = z.mem[m].locks
  BY <1>3 DEF OutOfTable
<1>6. InTable(z, y, k, e, m, n)
  BY <1>2, <1>4, <1>5, TablingIs
<1> QED
  BY <1>3, <1>6, TabledIs

----------------------------------------------------------------------------
(* A request ends                                                           *)

\* What the request e adds to the locks of m.
AsOf(e, m) == IF c.entry[e].mem = m THEN 1 ELSE 0

\* The locks of m go down by what e adds to them, and up with the references.
Settles(m, e) == c'.mem[m].locks + held[m] + AsOf(e, m) = c.mem[m].locks + held'[m]

\* The request e, which was on its way, is nowhere now.
Leaves(e) ==
  \A f \in Entries :
    InAnswers(f)' + AtCacher(f)' + AtMain(f)' + (IF f = e THEN 1 ELSE 0)
      = InAnswers(f) + AtCacher(f) + AtMain(f)

\* Whoever was about e turns to something else.
MainLeaves   == main' = main \/ main'.at \notin Busy
CacherLeaves == cacher' = cacher \/ (cacher'.at # "undo" /\ cacher'.entry = None)

\* Those who have the memory of e, besides e.
LEMMA UsingLess ==
  ASSUME RInv, NEW e, e \in Pend(c), NEW M, Moves({e}, M), e \notin Pend(c'), NEW m \in Mems
  PROVE  Cardinality(Using(c, m)) = Cardinality(Using(c', m)) + AsOf(e, m)
<1>1. PICK U : U = Using(c, m)
  OBVIOUS
<1>2. PICK V : V = Using(c', m)
  OBVIOUS
<1>3. U \subseteq Pend(c) /\ V \subseteq Pend(c')
  BY <1>1, <1>2 DEF Using
<1>4. V = U \ {e}
  <2>1. \A f \in V : f \in U \ {e}
    BY <1>1, <1>2, <1>3, OthersPend DEF Using
  <2>2. \A f \in U \ {e} : f \in V
    BY <1>1, <1>2, <1>3, OthersPend DEF Using
  <2> QED
    BY <2>1, <2>2
<1>5. IsFiniteSet(U)
  BY <1>1, Locked
<1>6. e \in U <=> c.entry[e].mem = m
  BY <1>1 DEF Using
<1>7. CASE e \in U
  <2>1. Cardinality(V) = Cardinality(U) - 1 /\ Cardinality(U) \in Nat
    BY <1>4, <1>5, <1>7, FS_RemoveElement, FS_CardinalityType
  <2>2. AsOf(e, m) = 1
    BY <1>6, <1>7 DEF AsOf
  <2> QED
    BY <1>1, <1>2, <2>1, <2>2
<1>8. CASE e \notin U
  <2>1. V = U
    BY <1>4, <1>8
  <2>2. AsOf(e, m) = 0 /\ Cardinality(U) \in Nat
    BY <1>5, <1>6, <1>8, FS_CardinalityType DEF AsOf
  <2> QED
    BY <1>1, <1>2, <2>1, <2>2
<1> QED
  BY <1>7, <1>8

\* How often f is in each place, now and next.
Sums(f, l, a, j, u, w, n, b, v, o) ==
  /\ l = InLoads(f) /\ a = InAnswers(f) /\ j = InJobs(f) /\ u = AtUnpacker(f)
  /\ w = AtCacher(f) /\ n = AtMain(f)
  /\ b = InAnswers(f)' /\ v = AtCacher(f)' /\ o = AtMain(f)'

\* A request that ends leaves the one place it was in.
LEMMA TokensLeave ==
  ASSUME RInv, IInv, NEW e, e \in Pend(c), NEW M, Moves({e}, M), e \notin Pend(c'),
         held' \in [Mems -> Nat], UNCHANGED <<loads, jobs, unpacker>>,
         answers' \in Seq(Entries \cup Lists), Leaves(e)
  PROVE  Lined' /\ Tokens(c)'
<1>1. Lined /\ \A f \in Entries :
              /\ InLoads(f) \in Nat /\ InAnswers(f) \in Nat /\ InJobs(f) \in Nat
              /\ InLoads(f) + InAnswers(f) + InJobs(f) + AtUnpacker(f) + AtCacher(f) + AtMain(f)
                 = IF f \in Pend(c) THEN 1 ELSE 0
  BY TokensNow
<1>2. Lined'
  BY <1>1 DEF Lined, Queued
<1>3. \A f \in Entries : /\ InLoads(f)' = InLoads(f) /\ InJobs(f)' = InJobs(f)
                         /\ AtUnpacker(f)' = AtUnpacker(f)
  BY DEF InLoads, InJobs, Count, AtUnpacker
<1>4. \A f \in Entries : InAnswers(f)' \in Nat
  BY <1>2, WaysNext DEF Ways
<1>5. \A f \in Entries : /\ AtUnpacker(f) \in Nat /\ AtCacher(f) \in Nat /\ AtMain(f) \in Nat
                         /\ AtCacher(f)' \in Nat /\ AtMain(f)' \in Nat
  BY DEF AtUnpacker, AtCacher, AtMain
<1>6. PICK P : P = Pend(c')
  OBVIOUS
<1>7. \A f \in Entries : f \in P <=> f \in Pend(c) /\ f # e
  BY <1>6, OthersPend DEF Pend
<1>8. ASSUME NEW f \in Entries
      PROVE  InLoads(f)' + InAnswers(f)' + InJobs(f)' + AtUnpacker(f)' + AtCacher(f)' + AtMain(f)'
             = IF f \in P THEN 1 ELSE 0
  <2>1. InAnswers(f)' + AtCacher(f)' + AtMain(f)' + (IF f = e THEN 1 ELSE 0)
        = InAnswers(f) + AtCacher(f) + AtMain(f)
    BY DEF Leaves
  <2>2. InLoads(f) + InAnswers(f) + InJobs(f) + AtUnpacker(f) + AtCacher(f) + AtMain(f)
        = IF f \in Pend(c) THEN 1 ELSE 0
    BY <1>1
  <2>3. /\ InLoads(f) \in Nat /\ InAnswers(f) \in Nat /\ InJobs(f) \in Nat /\ InAnswers(f)' \in Nat
        /\ InLoads(f)' = InLoads(f) /\ InJobs(f)' = InJobs(f) /\ AtUnpacker(f)' = AtUnpacker(f)
        /\ AtUnpacker(f) \in Nat /\ AtCacher(f) \in Nat /\ AtMain(f) \in Nat
        /\ AtCacher(f)' \in Nat /\ AtMain(f)' \in Nat
    BY <1>1, <1>3, <1>5, <1>4
  <2>4. PICK d : d = IF f = e THEN 1 ELSE 0
    OBVIOUS
  <2>5. PICK p : p = IF f \in Pend(c) THEN 1 ELSE 0
    OBVIOUS
  <2>6. PICK q : q = IF f \in P THEN 1 ELSE 0
    OBVIOUS
  <2>7. q + d = p /\ q \in Nat /\ d \in Nat /\ p \in Nat
    BY <1>7, <2>4, <2>5, <2>6
  <2>8. /\ InAnswers(f)' + AtCacher(f)' + AtMain(f)' + d = InAnswers(f) + AtCacher(f) + AtMain(f)
        /\ InLoads(f) + InAnswers(f) + InJobs(f) + AtUnpacker(f) + AtCacher(f) + AtMain(f) = p
    BY <2>1, <2>2, <2>4, <2>5
  <2>9. InLoads(f)' + InAnswers(f)' + InJobs(f)' + AtUnpacker(f)' + AtCacher(f)' + AtMain(f)' = q
    <3>1. PICK l, a, j, u, w, n, b, v, o : Sums(f, l, a, j, u, w, n, b, v, o)
      BY DEF Sums
    <3>2. /\ l \in Nat /\ a \in Nat /\ j \in Nat /\ u \in Nat /\ w \in Nat /\ n \in Nat
          /\ b \in Nat /\ v \in Nat /\ o \in Nat
          /\ b + v + o + d = a + w + n /\ l + a + j + u + w + n = p
          /\ InLoads(f)' = l /\ InJobs(f)' = j /\ AtUnpacker(f)' = u
          /\ InAnswers(f)' = b /\ AtCacher(f)' = v /\ AtMain(f)' = o
      BY <2>3, <2>8, <3>1 DEF Sums
    <3>3. l + b + j + u + v + o = q
      BY <2>7, <3>2
    <3> QED
      BY <3>2, <3>3
  <2> QED
    BY <2>6, <2>9
<1> QED
  BY <1>2, <1>6, <1>8, TokensNext

\* The request e ends, and memory of M changes hands.
LEMMA RecordsEnd ==
  ASSUME RInv, IInv, NEW e, e \in Pend(c), NEW M \in SUBSET Mems, Moves({e}, M), Sound(c'),
         e \notin Pend(c'), c'.entry[e] # Reserved, held' \in [Mems -> Nat],
         \A m \in M : Settles(m, e), unpacker.mem \notin M, UNCHANGED <<loads, jobs, unpacker>>,
         answers' \in Seq(Entries \cup Lists), From(answers', answers, {}), Leaves(e),
         MainLeaves, CacherLeaves, ClientOk(c)'
  PROVE  RInv'
<1>1. Lined' /\ Tokens(c)'
  BY TokensLeave
<1>2. Lone(c)'
  BY <1>1, LoneNext
<1>3. e \in Entries
  BY DEF Pend
<1>4. /\ ~ToLoad(e)' /\ ~ToTake(e)' /\ ~ToUnpack(e)' /\ unpacker'.entry # e /\ cacher'.entry # e
      /\ ~WithMain(e)'
  BY <1>2, <1>3 DEF Lone
<1>5. LoadsOk(c)' /\ AnswersOk(c)' /\ JobsOk(c)'
  <2>1. From(loads', loads, {}) /\ From(jobs', jobs, {})
    BY FromSelf
  <2>2. LoadsOk(c)'
    BY <1>4, <2>1, LoadsCarried
  <2>3. AnswersOk(c)'
    BY <1>4, AnswersCarried
  <2>4. JobsOk(c)'
    BY <1>4, <2>1, JobsCarried
  <2> QED
    BY <2>2, <2>3, <2>4
<1>6. UnpackerMem(c)' /\ UnpackerOk(c)'
  BY <1>4, UnpackerMemSame, UnpackerCarried
<1>7. CacherOk(c)'
  <2>1. CASE cacher' = cacher
    BY <1>4, <2>1, CacherCarried
  <2>2. CASE cacher'.at # "undo" /\ cacher'.entry = None
    BY <2>2 DEF CacherOk
  <2> QED
    BY <2>1, <2>2 DEF CacherLeaves
<1>8. MainOk(c)'
  <2>1. CASE main'.at \notin Busy
    BY <2>1 DEF MainOk, Busy
  <2>2. CASE main' = main
    <3>1. ~(main.entry = e /\ main.at \in Busy)
      <4>1. CASE main.at = "unpack"
        <5>1. main.entry = unpacker.entry \/ \E i \in 1 .. Len(jobs) : jobs[i].entry = main.entry
          BY <4>1 DEF IInv, OneSyncJob
        <5>2. ~(\E i \in DOMAIN jobs : jobs[i].entry = e) /\ unpacker.entry # e
          BY <1>4 DEF ToUnpack
        <5>3. jobs \in Seq(JobRecord)
          BY DEF IInv, Shapes
        <5> QED
          BY <5>1, <5>2, <5>3
      <4>2. CASE main.at # "unpack"
        BY <1>4, <2>2, <4>2 DEF WithMain, Busy
      <4> QED
        BY <4>1, <4>2
    <3> QED
      BY <2>2, <3>1, MainCarried
  <2> QED
    BY <2>1, <2>2 DEF MainLeaves
<1>9. ASSUME NEW m \in M PROVE Balanced(c, m)'
  <2>1. Cardinality(Using(c, m)) = Cardinality(Using(c', m)) + AsOf(e, m)
    BY UsingLess
  <2>2. PICK T : T = Cardinality(Using(c, m))
    OBVIOUS
  <2>3. PICK U : U = Cardinality(Using(c', m))
    OBVIOUS
  <2>4. unpacker'.mem # m /\ unpacker.mem # m
    OBVIOUS
  <2>5. c.mem[m].locks = held[m] + T /\ held[m] \in Nat /\ T \in Nat
    <3>1. /\ c.mem[m].locks = held[m] + Cardinality(Using(c, m)) + (IF unpacker.mem = m THEN 1 ELSE 0)
          /\ held[m] \in Nat /\ Cardinality(Using(c, m)) \in Nat
      BY Locked
    <3> QED
      BY <2>4, <2>2, <3>1
  <2>6. c'.mem[m].locks \in Nat /\ held'[m] \in Nat /\ AsOf(e, m) \in {0, 1} /\ U \in Nat
    <3>1. Using(c', m) \subseteq Entries
      BY DEF Using, Pend
    <3>2. U \in Nat
      BY <2>3, <3>1, CacheSound, FS_Subset, FS_CardinalityType
    <3> QED
      BY <3>2, LocksNumbers DEF AsOf
  <2>7. c'.mem[m].locks + held[m] + AsOf(e, m) = c.mem[m].locks + held'[m]
    BY DEF Settles
  <2>8. c'.mem[m].locks = held'[m] + U
    <3>1. T = U + AsOf(e, m)
      BY <2>1, <2>3, <2>2
    <3>2. PICK l : l = c'.mem[m].locks
      OBVIOUS
    <3>3. PICK n : n = c.mem[m].locks
      OBVIOUS
    <3>4. PICK a : a = AsOf(e, m)
      OBVIOUS
    <3>5. l = c'.mem[m].locks /\ n = c.mem[m].locks /\ a = AsOf(e, m)
      BY <3>2, <3>3, <3>4
    <3>6. /\ l \in Nat /\ a \in Nat /\ n = held[m] + T /\ T = U + a
          /\ l + held[m] + a = n + held'[m]
      BY <2>5, <2>6, <2>7, <3>1, <3>5
    <3>7. PICK h : h = held[m]
      OBVIOUS
    <3>8. PICK g : g = held'[m]
      OBVIOUS
    <3>9. /\ l \in Nat /\ a \in Nat /\ h \in Nat /\ g \in Nat /\ U \in Nat /\ T \in Nat
          /\ n = h + T /\ T = U + a /\ l + h + a = n + g
      BY <2>5, <2>6, <3>6, <3>7, <3>8
    <3>10. l = g + U
      BY <3>9
    <3> QED
      BY <3>5, <3>8, <3>10
  <2> QED
    BY <2>3, <2>4, <2>6, <2>8 DEF Balanced
<1> QED
  BY <1>1, <1>5, <1>6, <1>7, <1>8, <1>9, MovesStep

----------------------------------------------------------------------------
(* CCache__CompleteRequest                                                  *)

\* A request that has its memory to itself is the one that locked it.
LEMMA SoleLocks ==
  ASSUME RInv, NEW e \in Pend(c), Sole(c, e), NEW m, m = c.entry[e].mem, m # None
  PROVE  /\ m \in Mems /\ m \in Allocated(c) /\ c.mem[m].locks = 1 /\ held[m] = 0 /\ unpacker.mem # m
         /\ c.mem[m].entry = None /\ AsOf(e, m) = 1 /\ \A f \in Pend(c) : c.entry[f].mem = m => f = e
<1>1. /\ held[m] = 0 /\ unpacker.mem # m /\ c.mem[m].entry = None
      /\ \A f \in Pend(c) : c.entry[f].mem = m => f = e
  BY DEF Sole
<1>2. m \in Mems /\ m \in Allocated(c)
  BY PendingLocked
<1>3. Using(c, m) = {e}
  BY <1>1 DEF Using
<1>4. Cardinality(Using(c, m)) = 1
  BY <1>3, FS_Singleton
<1>5. c.mem[m].locks = held[m] + Cardinality(Using(c, m)) + (IF unpacker.mem = m THEN 1 ELSE 0)
  BY <1>2, Locked
<1>6. c.mem[m].locks = 1
  BY <1>1, <1>4, <1>5
<1> QED
  BY <1>1, <1>2, <1>6 DEF AsOf

\* It is complete.
LEMMA SoleComplete ==
  ASSUME RInv, NEW e \in Pend(c), Sole(c, e)
  PROVE  /\ Complete(c, e) /\ c.entry[e].key \in Keys /\ e \in Entries
         /\ c.entry[e].key \in Made => c.table[c.entry[e].key] = None
<1>1. PendingOk(c, e)
  BY DEF RInv, Linked, Pendings
<1> QED
  BY <1>1 DEF PendingOk, Complete, Sole, Pend

\* The request was without data.
EndsEmpty(r, e) ==
  /\ r.entry = None /\ c.entry[e].mem = None /\ Rest(c, r.x, {e}, {})

\* The table has a longer resource, which stays.
EndsOld(r, e, m, om) ==
  /\ r.entry \in Entries /\ r.entry # e /\ c.entry[e].key \notin Made
  /\ Rest(c, r.x, {e}, {m}) /\ r.x.mem[m].locks = 0
  /\ r.x.table[c.entry[e].key] = r.entry /\ r.x.entry[r.entry].mem = om
  /\ om \in Mems /\ om # m /\ om \in Allocated(r.x) /\ r.x.mem[om] = c.mem[om]
  /\ om \in Allocated(c) /\ c.mem[om].entry # None
  /\ c.entry[e].key \in Indexes => r.x.mem[om].persistent

\* The table has the request's own resource, locked n times.
EndsNew(r, e, m, n) ==
  /\ r.entry = e /\ Rest(c, r.x, {e}, {m}) /\ r.x.mem[m].locks = n /\ r.x.entry[e].mem = m
  /\ m \in Allocated(r.x)
  /\ c.entry[e].key \in Indexes => r.x.mem[m].persistent

Ended(r, e, n) ==
  /\ Sound(r.x) /\ e \notin Pend(r.x) /\ r.x.entry[e] # Reserved
  /\ \/ EndsEmpty(r, e)
     \/ c.entry[e].mem # None /\ \E om : EndsOld(r, e, c.entry[e].mem, om)
     \/ c.entry[e].mem # None /\ EndsNew(r, e, c.entry[e].mem, n)

\* What a withdrawn request leaves.
WithoutRequest(x, y, e) ==
  /\ Sound(y) /\ e \notin Pend(y) /\ y.entry[e] # Reserved /\ Rest(x, y, {e}, {})
  /\ y.mem = x.mem /\ y.table = x.table /\ Allocated(y) = Allocated(x)
  /\ \A f \in Entries \ {e} : y.entry[f] = x.entry[f]

\* A request that is given up leaves its entry free, and nothing else changes.
LEMMA WithdrawnStep ==
  ASSUME NEW x, Sound(x), NEW e, e \in Pend(x), NEW y, y = Withdrawn(x, e)
  PROVE  WithoutRequest(x, y, e)
<1>1. e \in Entries /\ Loose(x.entry[e])
  BY DEF Pend, Loose
<1>2. EntrySet(x, y, e) /\ y.entry[e] = FreeEntry
  BY <1>1, WithdrawnIs
<1>3. Loose(y.entry[e])
  BY <1>2 DEF Loose
<1>4. /\ Sound(y) /\ Allocated(y) = Allocated(x) /\ y.mem = x.mem /\ y.table = x.table
      /\ \A f \in Entries \ {e} : y.entry[f] = x.entry[f]
  BY <1>1, <1>2, <1>3, EntrySound
<1>5. Rest(x, y, {e}, {})
  BY <1>1, <1>2, RestEntry
<1>6. FreeEntry.place = "free" /\ Reserved.place = "used"
  BY DEF FreeEntry, Reserved
<1>7. e \notin Pend(y) /\ y.entry[e] # Reserved
  BY <1>2, <1>6 DEF Pend
<1> QED
  BY <1>4, <1>5, <1>7 DEF WithoutRequest

\* The table keeps what it has, and the request's memory is freed.
LEMMA KeepsOld ==
  ASSUME RInv, NEW e \in Pend(c), Sole(c, e), NEW k, NEW m, NEW old, Concerns(c, e, k, m, old),
         old # None, NEW r, r = [x |-> Withdrawn(FreeMems(c, {m}), e), entry |-> old]
  PROVE  /\ Sound(r.x) /\ e \notin Pend(r.x) /\ r.x.entry[e] # Reserved
         /\ \E om : EndsOld(r, e, m, om)
<1>1. Sound(c) /\ Complete(c, e) /\ (k \in Made => old = None) /\ k \in Keys /\ k = c.entry[e].key
  BY SoleComplete DEF RInv, Concerns
<1>2. m \in Mems /\ c.mem[m].entry = None /\ m \in Allocated(c)
  BY SoleLocks DEF Concerns
<1>3. old \in Entries /\ old # e /\ c.entry[old].mem \in Mems \ {m} /\ c.mem[c.entry[old].mem].entry = old
  BY <1>1, OldIs
<1>4. PICK x : x = FreeMems(c, {m})
  OBVIOUS
<1>5. Freed(c, x, {m})
  BY <1>1, <1>2, <1>4, FreeMemsFreed
<1>6. Sound(x) /\ Rest(c, x, {}, {m})
  BY <1>1, <1>2, <1>5, FreedSound, RestFreed
<1>7. /\ Allocated(x) = Allocated(c) \ {m} /\ x.entry = c.entry /\ x.table = c.table
      /\ \A j \in Mems : x.mem[j] = IF j \in {m} THEN FreeMem ELSE c.mem[j]
  BY <1>1, <1>4, FreeMemsIs DEF Sound
<1>8. PICK y : y = Withdrawn(x, e)
  OBVIOUS
<1>9. e \in Pend(x)
  BY <1>7 DEF Pend
<1>10. /\ Sound(y) /\ e \notin Pend(y) /\ y.entry[e] # Reserved /\ Rest(x, y, {e}, {})
       /\ y.mem = x.mem /\ y.table = x.table /\ Allocated(y) = Allocated(x)
       /\ \A f \in Entries \ {e} : y.entry[f] = x.entry[f]
  <2>1. Sound(x)
    BY <1>6
  <2>2. WithoutRequest(x, y, e)
    BY <1>8, <1>9, <2>1, WithdrawnStep
  <2> QED
    BY <2>2 DEF WithoutRequest
<1>11. Rest(c, y, {e}, {m})
  <2>1. Rest(c, y, {} \cup {e}, {m} \cup {})
    BY <1>6, <1>10, RestTwice
  <2>2. {} \cup {e} = {e} /\ {m} \cup {} = {m}
    OBVIOUS
  <2> QED
    BY <2>1, <2>2
<1>12. r.x = y /\ r.entry = old
  BY <1>4, <1>8
<1>13. PICK om : om = c.entry[old].mem
  OBVIOUS
<1>14. /\ om \in Mems /\ om # m /\ c.mem[om].entry = old /\ y.mem[om] = c.mem[om]
       /\ y.mem[m].locks = 0 /\ y.entry[old].mem = om /\ y.table[k] = old
  <2>1. c.table[k] = old /\ FreeMem.locks = 0
    BY DEF Concerns, FreeMem
  <2> QED
    BY <1>2, <1>3, <1>7, <1>10, <1>13, <2>1
<1>15. om \in Allocated(c) /\ om \in Allocated(y)
  <2>1. c.mem[om] # FreeMem
    BY <1>14, <1>3 DEF FreeMem
  <2>2. om \in Allocated(c)
    BY <1>1, <1>14, <2>1 DEF Sound, Apart
  <2> QED
    BY <1>7, <1>10, <1>14, <2>2
<1>16. k \in Indexes => y.mem[om].persistent
  <2>1. y.entry[old].key = k
    BY <1>1, <1>3, <1>10, <1>14 DEF Sound, Agree
  <2> QED
    BY <1>10, <1>3, <1>14, <2>1 DEF Sound, Marked
<1>17. EndsOld(r, e, m, om)
  BY <1>1, <1>3, <1>11, <1>12, <1>14, <1>15, <1>16 DEF EndsOld
<1> QED
  BY <1>10, <1>12, <1>17

\* The request's own resource comes into the table.
LEMMA TakesNew ==
  ASSUME RInv, NEW e \in Pend(c), Sole(c, e), NEW k, NEW m, NEW old, Concerns(c, e, k, m, old),
         NEW r, r.entry = e, NEW n, MaybeUnref(1, InstalledAs(c, e), r.x, m, n)
  PROVE  Sound(r.x) /\ e \notin Pend(r.x) /\ r.x.entry[e] # Reserved /\ EndsNew(r, e, m, n)
<1>1. Sound(c) /\ Complete(c, e) /\ k = c.entry[e].key
  BY SoleComplete DEF RInv, Concerns
<1>2. c.mem[m].locks = 1
  BY SoleLocks DEF Concerns
<1>3. PICK y : y = r.x
  OBVIOUS
<1>4. n \in Nat /\ Tabled(c, y, e, n, k, m, old)
  BY <1>1, <1>2, <1>3, InstalledIs
<1>5. Sound(y)
  BY <1>1, <1>4, TabledSound
<1>6. /\ Rest(c, y, {e}, {m}) /\ y.mem[m].locks = n /\ m \in Allocated(y)
      /\ e \notin Pend(y) /\ y.entry[e] # Reserved /\ y.entry[e].mem = m
      /\ y.mem[m].persistent = c.mem[m].persistent
  BY <1>1, <1>4, TabledRest
<1>7. k \in Indexes => c.mem[m].persistent
  BY <1>1 DEF Complete, Concerns
<1> QED
  BY <1>1, <1>3, <1>5, <1>6, <1>7 DEF EndsNew

\* The reference that the request had is given back, or goes on to whoever waits.
Keeping(drop, n) == (drop = TRUE /\ n = 0) \/ (drop = FALSE /\ n = 1)

\* A request that is completed is in the table, and its lock is dropped or kept.
LEMMA CompletedIs ==
  ASSUME RInv, NEW e \in Pend(c), Sole(c, e), NEW drop, NEW n, Keeping(drop, n),
         NEW r, r = Completed(c, e, drop)
  PROVE  Ended(r, e, n)
<1>1. PICK k : k = c.entry[e].key
  OBVIOUS
<1>2. PICK m : m = c.entry[e].mem
  OBVIOUS
<1>3. PICK old : old = c.table[k]
  OBVIOUS
<1>4. r = IF m = None THEN [x |-> Withdrawn(c, e), entry |-> None]
          ELSE IF old # None /\ c.entry[old].length >= c.entry[e].length
          THEN [x |-> Withdrawn(FreeMems(c, {m}), e), entry |-> old]
          ELSE [x |-> IF drop THEN Unref(InstalledAs(c, e), m) ELSE InstalledAs(c, e), entry |-> e]
  BY <1>1, <1>2, <1>3, CompletedCases
<1>5. CASE m = None
  <2>1. r.x = Withdrawn(c, e) /\ r.entry = None
    BY <1>4, <1>5
  <2>2. Sound(r.x) /\ e \notin Pend(r.x) /\ r.x.entry[e] # Reserved /\ Rest(c, r.x, {e}, {})
    BY <2>1, WithdrawnStep DEF RInv, WithoutRequest
  <2> QED
    BY <1>2, <1>5, <2>1, <2>2 DEF Ended, EndsEmpty
<1>6. CASE m # None /\ old # None /\ c.entry[old].length >= c.entry[e].length
  <2>1. r = [x |-> Withdrawn(FreeMems(c, {m}), e), entry |-> old]
    BY <1>4, <1>6
  <2>2. Concerns(c, e, k, m, old) /\ old # None
    BY <1>1, <1>2, <1>3, <1>6 DEF Concerns
  <2>3. /\ Sound(r.x) /\ e \notin Pend(r.x) /\ r.x.entry[e] # Reserved
        /\ \E om : EndsOld(r, e, m, om)
    BY <2>1, <2>2, KeepsOld
  <2> QED
    BY <1>2, <1>6, <2>3 DEF Ended
<1>7. CASE m # None /\ ~(old # None /\ c.entry[old].length >= c.entry[e].length)
  <2>1. r = [x |-> IF drop THEN Unref(InstalledAs(c, e), m) ELSE InstalledAs(c, e), entry |-> e]
    BY <1>4, <1>7
  <2>2. r.entry = e /\ r.x = IF drop THEN Unref(InstalledAs(c, e), m) ELSE InstalledAs(c, e)
    BY <2>1
  <2>3. MaybeUnref(1, InstalledAs(c, e), r.x, m, n)
    <3>1. CASE drop = TRUE /\ n = 0
      BY <2>2, <3>1 DEF MaybeUnref
    <3>2. CASE drop = FALSE /\ n = 1
      BY <2>2, <3>2 DEF MaybeUnref
    <3> QED
      BY <3>1, <3>2 DEF Keeping
  <2>4. Concerns(c, e, k, m, old)
    BY <1>1, <1>2, <1>3, <1>7 DEF Concerns
  <2>5. Sound(r.x) /\ e \notin Pend(r.x) /\ r.x.entry[e] # Reserved /\ EndsNew(r, e, m, n)
    BY <2>2, <2>3, <2>4, TakesNew
  <2> QED
    BY <1>2, <1>7, <2>5 DEF Ended
<1> QED
  BY <1>5, <1>6, <1>7

----------------------------------------------------------------------------
(* A call returns                                                           *)

\* The main thread is about no request.
LEMMA NoRequest ==
  ASSUME main'.at \notin Busy
  PROVE  /\ MainLeaves /\ MainOk(c)' /\ \A f : AtMain(f)' = 0
<1>1. \A f : AtMain(f)' = 0
  BY DEF AtMain, Busy
<1>2. MainOk(c)'
  BY DEF MainOk, Busy
<1> QED
  BY <1>1, <1>2 DEF MainLeaves

\* The call returns nothing.
LEMMA ReturnsNothing ==
  ASSUME Returns(None)
  PROVE  held' = held /\ main'.at \notin Busy /\ ClientOk(c)'
<1>1. held' = held /\ main' \in {Away, [Away EXCEPT !.at = "stopped"]}
  BY DEF Returns
<1>2. main'.at \in {"away", "stopped"}
  BY <1>1 DEF Away
<1> QED
  BY <1>1, <1>2 DEF ClientOk, Busy

\* The game has one more reference to m.
Gets(m) ==
  /\ held' \in [Mems -> Nat] /\ held'[m] = held[m] + 1 /\ held[m] \in Nat
  /\ \A k \in Mems \ {m} : held'[k] = held[k]

\* The call returns m.
LEMMA ReturnsMemory ==
  ASSUME RInv, IInv, NEW m \in Mems, Returns(m), main.key \in Indexes => c'.mem[m].persistent
  PROVE  Gets(m) /\ main'.at \notin Busy /\ ClientOk(c)'
<1>1. m # None
  BY CacheSound
<1>2. held \in [Mems -> Nat]
  BY DEF RInv, Linked, Queued
<1>3. held' = [held EXCEPT ![m] = @ + 1]
  BY <1>1 DEF Returns
<1>4. Gets(m)
  BY <1>2, <1>3 DEF Gets
<1>5. \/ main' = Away
      \/ main.key \in Indexes /\ main' = [main EXCEPT !.at = "probed", !.mem = m]
  <2>1. CASE main.key \in Indexes /\ main.length = Probe
    BY <1>1, <2>1 DEF Returns
  <2>2. CASE ~(main.key \in Indexes /\ main.length = Probe)
    <3>1. /\ ~(main.key \in Indexes /\ m = None)
          /\ ~(main.key \in Indexes /\ m # None /\ main.length = Probe)
      BY <1>1, <2>2
    <3>2. main' = Away
      BY <3>1 DEF Returns
    <3> QED
      BY <3>2
  <2> QED
    BY <2>1, <2>2
<1>6. CASE main' = Away
  <2>1. main'.at = "away"
    BY <1>6 DEF Away
  <2> QED
    BY <1>4, <2>1 DEF ClientOk, Busy
<1>7. CASE main.key \in Indexes /\ main' = [main EXCEPT !.at = "probed", !.mem = m]
  <2>1. DOMAIN main = {"at", "key", "length", "entry", "mem", "to", "left", "sync"}
    BY DEF IInv, Shapes, Away
  <2>2. main'.at = "probed" /\ main'.mem = m /\ main'.key = main.key
    BY <1>7, <2>1
  <2>3. m \in Held'
    BY <1>4 DEF Gets, Held
  <2> QED
    BY <1>4, <1>7, <2>2, <2>3 DEF ClientOk, Busy
<1> QED
  BY <1>5, <1>6, <1>7

\* A request that is complete, or given up, leaves the main thread.
LEMMA CompleteLeaves ==
  ASSUME RInv, IInv, main.at \in {"complete", "undo"}, UNCHANGED <<answers, cacher>>, main'.at \notin Busy
  PROVE  /\ Leaves(main.entry) /\ MainLeaves /\ CacherLeaves
         /\ answers' \in Seq(Entries \cup Lists) /\ From(answers', answers, {})
<1>1. \A f \in Entries : InAnswers(f)' = InAnswers(f) /\ AtCacher(f)' = AtCacher(f)
  BY DEF InAnswers, Count, AtCacher
<1>2. \A f \in Entries : AtMain(f)' = 0 /\ AtMain(f) = IF f = main.entry THEN 1 ELSE 0
  BY NoRequest DEF AtMain
<1>3. \A f \in Entries : InAnswers(f) \in Nat /\ AtCacher(f) \in Nat
  BY TokensNow DEF AtCacher
<1>4. Leaves(main.entry)
  BY <1>1, <1>2, <1>3 DEF Leaves
<1>5. answers' \in Seq(Entries \cup Lists) /\ From(answers', answers, {})
  BY FromSelf DEF RInv, Linked, Queued
<1> QED
  BY <1>4, <1>5, NoRequest DEF CacherLeaves

----------------------------------------------------------------------------
(* The end of a request that waited                                         *)

\* Nothing was loaded.
LEMMA EmptyStep ==
  ASSUME RInv, IInv, NEW e \in Pend(c), NEW r, NEW n, Ended(r, e, n), EndsEmpty(r, e), c' = r.x,
         held' = held, UNCHANGED <<loads, jobs, unpacker>>,
         answers' \in Seq(Entries \cup Lists), From(answers', answers, {}), Leaves(e),
         MainLeaves, CacherLeaves, ClientOk(c)'
  PROVE  RInv'
<1>1. /\ Sound(c') /\ e \notin Pend(c') /\ c'.entry[e] # Reserved /\ c.entry[e].mem = None
      /\ Rest(c, c', {e}, {})
  BY DEF Ended, EndsEmpty
<1>2. Moves({e}, {})
  BY <1>1 DEF Moves
<1>3. held' \in [Mems -> Nat]
  BY DEF RInv, Linked, Queued
<1> QED
  BY <1>1, <1>2, <1>3, RecordsEnd

\* Its own resource is in the table now.
LEMMA NewStep ==
  ASSUME RInv, IInv, NEW e \in Pend(c), Sole(c, e), NEW r, NEW n, Ended(r, e, n),
         NEW m, m = c.entry[e].mem, m # None, EndsNew(r, e, m, n), c' = r.x,
         held' \in [Mems -> Nat], held'[m] = n, \A k \in Mems \ {m} : held'[k] = held[k],
         UNCHANGED <<loads, jobs, unpacker>>,
         answers' \in Seq(Entries \cup Lists), From(answers', answers, {}), Leaves(e),
         MainLeaves, CacherLeaves, ClientOk(c)'
  PROVE  RInv'
<1>1. /\ Sound(c') /\ e \notin Pend(c') /\ c'.entry[e] # Reserved
      /\ Rest(c, c', {e}, {m}) /\ c'.mem[m].locks = n
  BY DEF Ended, EndsNew
<1>2. /\ m \in Mems /\ c.mem[m].locks = 1 /\ held[m] = 0 /\ unpacker.mem # m
      /\ AsOf(e, m) = 1 /\ \A f \in Pend(c) : c.entry[f].mem = m => f = e
  BY SoleLocks
<1>3. Moves({e}, {m})
  BY <1>1, <1>2 DEF Moves
<1>4. Settles(m, e)
  <2>1. n \in Nat
    BY <1>2
  <2> QED
    BY <1>1, <1>2, <2>1 DEF Settles
<1> QED
  BY <1>1, <1>2, <1>3, <1>4, RecordsEnd

\* The table's resource stays, and nobody waits for it.
LEMMA OldStep ==
  ASSUME RInv, IInv, NEW e \in Pend(c), Sole(c, e), NEW r, NEW n, Ended(r, e, n),
         NEW m, m = c.entry[e].mem, m # None, NEW om, EndsOld(r, e, m, om), c' = r.x, held' = held,
         UNCHANGED <<loads, jobs, unpacker>>,
         answers' \in Seq(Entries \cup Lists), From(answers', answers, {}), Leaves(e),
         MainLeaves, CacherLeaves, ClientOk(c)'
  PROVE  RInv'
<1>1. /\ Sound(c') /\ e \notin Pend(c') /\ c'.entry[e] # Reserved
      /\ Rest(c, c', {e}, {m}) /\ c'.mem[m].locks = 0
  BY DEF Ended, EndsOld
<1>2. /\ m \in Mems /\ c.mem[m].locks = 1 /\ held[m] = 0 /\ unpacker.mem # m
      /\ AsOf(e, m) = 1 /\ \A f \in Pend(c) : c.entry[f].mem = m => f = e
  BY SoleLocks
<1>3. Moves({e}, {m})
  BY <1>1, <1>2 DEF Moves
<1>4. Settles(m, e)
  BY <1>1, <1>2 DEF Settles
<1>5. held' \in [Mems -> Nat]
  BY DEF RInv, Linked, Queued
<1> QED
  BY <1>1, <1>2, <1>3, <1>4, <1>5, RecordsEnd

\* Memory that has an entry is not the decompressor's, nor a request's own.
LEMMA EntryShared ==
  ASSUME RInv, NEW m \in Mems, c.mem[m].entry # None
  PROVE  unpacker.mem # m /\ \A f \in Pend(c) : c.entry[f].mem = m => ~Sole(c, f)
<1>1. unpacker.mem # m
  <2>1. m # None
    BY CacheSound
  <2> QED
    BY <2>1 DEF RInv, Linked, UnpackerMem
<1>2. ASSUME NEW f \in Pend(c), c.entry[f].mem = m PROVE ~Sole(c, f)
  <2>1. m # None
    BY CacheSound
  <2> QED
    BY <1>2, <2>1 DEF Sole
<1> QED
  BY <1>1, <1>2

\* The table's resource is given to who waits.
LEMMA GivenStep ==
  ASSUME RInv, IInv, NEW e \in Pend(c), Sole(c, e), NEW r, NEW n, Ended(r, e, n),
         NEW m, m = c.entry[e].mem, m # None, NEW om, EndsOld(r, e, m, om), c' = AddRef(r.x, om),
         Gets(om), UNCHANGED <<loads, jobs, unpacker>>,
         answers' \in Seq(Entries \cup Lists), From(answers', answers, {}), Leaves(e),
         MainLeaves, CacherLeaves, ClientOk(c)'
  PROVE  RInv'
<1>1. PICK x : x = r.x
  OBVIOUS
<1>2. /\ Sound(x) /\ e \notin Pend(x) /\ x.entry[e] # Reserved
      /\ Rest(c, x, {e}, {m}) /\ x.mem[m].locks = 0
      /\ om \in Mems /\ om # m /\ om \in Allocated(x) /\ x.mem[om] = c.mem[om]
      /\ c.mem[om].entry # None
  BY <1>1 DEF Ended, EndsOld
<1>3. PICK y : y = c'
  OBVIOUS
<1>4. y = AddRef(x, om)
  BY <1>1, <1>3
<1>5. /\ Soft(x, y)
      /\ \A k \in Mems : y.mem[k].locks = x.mem[k].locks + (IF k = om THEN 1 ELSE 0)
  BY <1>2, <1>4, AddRefSoft
<1>6. Sound(y) /\ y.entry = x.entry /\ y.table = x.table
  BY <1>2, <1>5, SoftSound DEF Soft
<1>7. /\ m \in Mems /\ c.mem[m].locks = 1 /\ held[m] = 0 /\ unpacker.mem # m
      /\ AsOf(e, m) = 1 /\ \A f \in Pend(c) : c.entry[f].mem = m => f = e
  BY SoleLocks
<1>8. /\ y.mem[om].locks = c.mem[om].locks + 1 /\ y.mem[m].locks = 0
      /\ \A k \in Mems \ {om} : y.mem[k].locks = x.mem[k].locks
  <2>1. \A k \in Mems : x.mem[k].locks \in Nat
    BY <1>2, LocksNumbers
  <2>2. y.mem[om].locks = x.mem[om].locks + 1
    BY <1>2, <1>5
  <2>3. \A k \in Mems \ {om} : y.mem[k].locks = x.mem[k].locks
    BY <1>5, <2>1
  <2> QED
    BY <1>2, <1>7, <2>2, <2>3
<1>9. Rest(x, y, {}, {om}) /\ SameData(x, y, om)
  BY <1>2, <1>5, <1>8, RestSoft
<1>10. Rest(c, y, {e}, {m, om})
  <2>1. Rest(c, y, {e} \cup {}, {m} \cup {om})
    BY <1>2, <1>6, <1>9, RestTwice
  <2>2. {e} \cup {} = {e} /\ {m} \cup {om} = {m, om}
    OBVIOUS
  <2> QED
    BY <2>1, <2>2
<1>11. e \notin Pend(y) /\ y.entry[e] # Reserved
  BY <1>2, <1>6 DEF Pend
<1>12. unpacker.mem # om /\ \A f \in Pend(c) : c.entry[f].mem = om => ~Sole(c, f)
  BY <1>2, EntryShared
<1>13. SameData(c, y, om)
  BY <1>2, <1>9 DEF SameData
<1>14. held' \in [Mems -> Nat] /\ held'[m] = held[m] /\ held'[om] = held[om] + 1
       /\ held[om] \in Nat /\ \A k \in Mems \ {m, om} : held'[k] = held[k]
  BY <1>2, <1>7 DEF Gets
<1>15. Moves({e}, {m, om})
  BY <1>3, <1>7, <1>10, <1>11, <1>12, <1>13, <1>14 DEF Moves
<1>16. Settles(m, e) /\ Settles(om, e)
  <2>1. Settles(m, e)
    BY <1>3, <1>7, <1>8, <1>14 DEF Settles
  <2>2. AsOf(e, om) = 0 /\ c.mem[om].locks \in Nat
    BY <1>2, LocksNumbers DEF AsOf, RInv
  <2>3. PICK l : l = c.mem[om].locks
    OBVIOUS
  <2>4. PICK h : h = held[om]
    OBVIOUS
  <2>5. c'.mem[om].locks = l + 1 /\ held'[om] = h + 1 /\ l \in Nat /\ h \in Nat
    BY <1>3, <1>8, <1>14, <2>2, <2>3, <2>4
  <2>6. (l + 1) + h + 0 = l + (h + 1)
    BY <2>5
  <2>7. Settles(om, e)
    BY <2>2, <2>3, <2>4, <2>5, <2>6 DEF Settles
  <2> QED
    BY <2>1, <2>7
<1>17. \A k \in {m, om} : Settles(k, e)
  BY <1>16
<1>18. {m, om} \in SUBSET Mems /\ unpacker.mem \notin {m, om}
  BY <1>2, <1>7, <1>12
<1>19. Sound(c') /\ e \notin Pend(c') /\ c'.entry[e] # Reserved
  BY <1>3, <1>6, <1>11
<1> QED
  BY <1>14, <1>15, <1>17, <1>18, <1>19, RecordsEnd

\* The main thread completes the request it waited for.
LEMMA SyncCompleteStep == ASSUME RInv, IInv, SyncComplete PROVE RInv'
<1>1. PICK e : e = main.entry
  OBVIOUS
<1>2. main.at = "complete"
  BY DEF SyncComplete, MainHasLock, MainAt
<1>3. e \in Pend(c) /\ Sole(c, e) /\ c.entry[e].key = main.key
  BY <1>1, <1>2 DEF RInv, Linked, MainOk, Busy
<1>4. PICK r : r = Completed(c, e, FALSE)
  OBVIOUS
<1>5. Ended(r, e, 1)
  BY <1>3, <1>4, CompletedIs DEF Keeping
<1>6. /\ UNCHANGED <<loads, jobs, unpacker>> /\ UNCHANGED <<answers, cacher>>
  BY DEF SyncComplete, syncVars, workVars
<1>7. \/ r.entry = None /\ c' = r.x /\ Returns(None)
      \/ /\ r.entry # None /\ Returns(r.x.entry[r.entry].mem)
         /\ c' = IF r.entry # e /\ main.key \notin Made
                 THEN AddRef(r.x, r.x.entry[r.entry].mem) ELSE r.x
  BY <1>1, <1>4 DEF SyncComplete
<1>8. ASSUME main'.at \notin Busy
      PROVE  /\ answers' \in Seq(Entries \cup Lists) /\ From(answers', answers, {})
             /\ Leaves(e) /\ MainLeaves /\ CacherLeaves
  BY <1>1, <1>2, <1>6, <1>8, CompleteLeaves
<1>9. e # None /\ \A f \in Entries : f # None
  BY <1>3, CacheSound DEF Pend
<1>10. CASE EndsEmpty(r, e)
  <2>1. c' = r.x /\ Returns(None)
    BY <1>7, <1>10 DEF EndsEmpty
  <2>2. held' = held /\ main'.at \notin Busy /\ ClientOk(c)'
    BY <2>1, ReturnsNothing
  <2> QED
    BY <1>3, <1>5, <1>6, <1>8, <1>10, <2>1, <2>2, EmptyStep
<1>11. ASSUME NEW om, c.entry[e].mem # None, EndsOld(r, e, c.entry[e].mem, om)
       PROVE  RInv'
  <2>1. /\ r.entry \in Entries /\ r.entry # e /\ main.key \notin Made /\ r.x.entry[r.entry].mem = om
        /\ om \in Mems /\ om \in Allocated(r.x)
        /\ main.key \in Indexes => r.x.mem[om].persistent
    BY <1>3, <1>11 DEF EndsOld
  <2>2. Returns(om) /\ c' = AddRef(r.x, om)
    BY <1>7, <1>9, <2>1
  <2>3. main.key \in Indexes => c'.mem[om].persistent
    <3>1. Soft(r.x, c')
      BY <1>5, <2>1, <2>2, AddRefSoft DEF Ended
    <3> QED
      BY <2>1, <3>1 DEF Soft
  <2>4. Gets(om) /\ main'.at \notin Busy /\ ClientOk(c)'
    BY <2>1, <2>2, <2>3, ReturnsMemory
  <2>5. PICK m : m = c.entry[e].mem
    OBVIOUS
  <2>6. EndsOld(r, e, m, om) /\ m # None
    BY <1>11, <2>5
  <2> QED
    BY <1>3, <1>5, <1>6, <1>8, <2>2, <2>4, <2>5, <2>6, GivenStep
<1>12. CASE c.entry[e].mem # None /\ EndsNew(r, e, c.entry[e].mem, 1)
  <2>1. PICK m : m = c.entry[e].mem
    OBVIOUS
  <2>2. m # None /\ EndsNew(r, e, m, 1)
    BY <1>12, <2>1
  <2>3. /\ r.entry = e /\ r.x.entry[e].mem = m
        /\ main.key \in Indexes => r.x.mem[m].persistent
    BY <1>3, <2>2 DEF EndsNew
  <2>4. Returns(m) /\ c' = r.x
    BY <1>7, <1>9, <2>3
  <2>5. m \in Mems /\ held[m] = 0
    BY <1>3, <2>1, <2>2, SoleLocks
  <2>6. Gets(m) /\ main'.at \notin Busy /\ ClientOk(c)'
    BY <2>3, <2>4, <2>5, ReturnsMemory
  <2>7. held' \in [Mems -> Nat] /\ held'[m] = 1 /\ \A k \in Mems \ {m} : held'[k] = held[k]
    BY <2>5, <2>6 DEF Gets
  <2> QED
    BY <1>3, <1>5, <1>6, <1>8, <2>1, <2>2, <2>4, <2>6, <2>7, NewStep
<1> QED
  BY <1>5, <1>10, <1>11, <1>12 DEF Ended

\* What the game holds is not touched.
LEMMA ClientRest ==
  ASSUME RInv, NEW E, NEW M, Rest(c, c', E, M), \A m \in M : held[m] = 0,
         main' = main, held' = held
  PROVE  ClientOk(c)'
<1>1. ClientOk(c)
  BY DEF RInv, Linked
<1>2. \A m \in Held : SameData(c, c', m)
  <2>1. \A m \in Held : m \in Mems /\ m \notin M /\ c.mem[m].locks > 0
    BY Locked DEF Held
  <2> QED
    BY <2>1 DEF Rest
<1> QED
  BY <1>1, <1>2 DEF ClientOk, Held, SameData

\* An answer that is taken leaves the queue.
LEMMA AnswerLeaves ==
  ASSUME RInv, IInv, answers # <<>>, answers' = Tail(answers), UNCHANGED <<cacher, main>>
  PROVE  /\ Leaves(Head(answers)) /\ MainLeaves /\ CacherLeaves
         /\ answers' \in Seq(Entries \cup Lists) /\ From(answers', answers, {})
<1>1. PICK e : e = Head(answers)
  OBVIOUS
<1>2. /\ answers' \in Seq(Entries \cup Lists)
      /\ \A f \in Entries : InAnswers(f)' \in Nat /\ InAnswers(f) = InAnswers(f)' + (IF f = e THEN 1 ELSE 0)
  BY <1>1, TokensNow, AnswerTaken
<1>3. \A f \in Entries : AtCacher(f)' = AtCacher(f) /\ AtMain(f)' = AtMain(f)
                         /\ AtCacher(f) \in Nat /\ AtMain(f) \in Nat
  BY DEF AtCacher, AtMain
<1>4. ASSUME NEW f \in Entries
      PROVE  InAnswers(f)' + AtCacher(f)' + AtMain(f)' + (IF f = e THEN 1 ELSE 0)
             = InAnswers(f) + AtCacher(f) + AtMain(f)
  <2>1. PICK d : d = IF f = e THEN 1 ELSE 0
    OBVIOUS
  <2>2. PICK a : a = InAnswers(f)'
    OBVIOUS
  <2>3. PICK b : b = AtCacher(f)
    OBVIOUS
  <2>4. PICK g : g = AtMain(f)
    OBVIOUS
  <2>5. /\ d \in Nat /\ a \in Nat /\ b \in Nat /\ g \in Nat /\ InAnswers(f) = a + d
    BY <1>2, <1>3, <2>1, <2>2, <2>3, <2>4
  <2>6. a + b + g + d = (a + d) + b + g
    BY <2>5
  <2> QED
    BY <1>3, <2>1, <2>2, <2>3, <2>4, <2>5, <2>6
<1>5. From(answers', answers, {})
  BY FromTail DEF RInv, Linked, Queued
<1> QED
  BY <1>1, <1>2, <1>4, <1>5 DEF Leaves, MainLeaves, CacherLeaves

\* What is taken from the queue, if it is not a list.
LEMMA TakenOk ==
  ASSUME RInv, answers # <<>>, NEW e, e = Head(answers), e \in Entries
  PROVE  AnswerOk(c, e) /\ e \in Pend(c) /\ ToTake(e)
<1>1. answers \in Seq(Entries \cup Lists)
  BY DEF RInv, Linked, Queued
<1>2. 1 \in DOMAIN answers /\ answers[1] = e
  BY <1>1
<1>3. e \notin Lists
  BY CacheSound
<1>4. AnswerOk(c, e)
  BY <1>2, <1>3 DEF RInv, Linked, AnswersOk
<1> QED
  BY <1>2, <1>4 DEF AnswerOk, ToTake

\* The cache's thread completes a request.
LEMMA TakeCompleteStep == ASSUME RInv, IInv, TakeComplete PROVE RInv'
<1>1. PICK e : e = Head(answers)
  OBVIOUS
<1>2. /\ answers # <<>> /\ e \in Entries /\ ~c.entry[e].unpack /\ answers' = Tail(answers)
      /\ c' = Completed(c, e, TRUE).x /\ UNCHANGED <<main, held, cacher, loads, jobs, unpacker>>
  BY <1>1 DEF TakeComplete, Received, clientVars, workVars
<1>3. e \in Pend(c) /\ Sole(c, e)
  BY <1>1, <1>2, TakenOk DEF AnswerOk
<1>4. PICK r : r = Completed(c, e, TRUE)
  OBVIOUS
<1>5. Ended(r, e, 0)
  BY <1>3, <1>4, CompletedIs DEF Keeping
<1>6. c' = r.x /\ UNCHANGED <<loads, jobs, unpacker>> /\ held' = held /\ main' = main
  BY <1>2, <1>4
<1>7. /\ answers' \in Seq(Entries \cup Lists) /\ From(answers', answers, {})
      /\ Leaves(e) /\ MainLeaves /\ CacherLeaves
  BY <1>1, <1>2, AnswerLeaves
<1>8. CASE EndsEmpty(r, e)
  <2>1. ClientOk(c)'
    BY <1>6, <1>8, ClientRest DEF EndsEmpty
  <2> QED
    BY <1>3, <1>5, <1>6, <1>7, <1>8, <2>1, EmptyStep
<1>9. ASSUME c.entry[e].mem # None, NEW m, m = c.entry[e].mem, Rest(c, r.x, {e}, {m})
      PROVE  ClientOk(c)' /\ held[m] = 0
  <2>1. held[m] = 0
    BY <1>3, <1>9, SoleLocks
  <2>2. Rest(c, c', {e}, {m}) /\ \A j \in {m} : held[j] = 0
    BY <1>6, <1>9, <2>1
  <2> QED
    BY <1>6, <2>1, <2>2, ClientRest
<1>10. ASSUME NEW om, c.entry[e].mem # None, EndsOld(r, e, c.entry[e].mem, om)
       PROVE  RInv'
  <2>1. PICK m : m = c.entry[e].mem
    OBVIOUS
  <2>2. EndsOld(r, e, m, om) /\ m # None
    BY <1>10, <2>1
  <2>3. ClientOk(c)'
    BY <1>9, <2>1, <2>2 DEF EndsOld
  <2> QED
    BY <1>3, <1>5, <1>6, <1>7, <2>1, <2>2, <2>3, OldStep
<1>11. CASE c.entry[e].mem # None /\ EndsNew(r, e, c.entry[e].mem, 0)
  <2>1. PICK m : m = c.entry[e].mem
    OBVIOUS
  <2>2. m # None /\ EndsNew(r, e, m, 0)
    BY <1>11, <2>1
  <2>3. ClientOk(c)' /\ held[m] = 0
    BY <1>9, <2>1, <2>2 DEF EndsNew
  <2>4. held' \in [Mems -> Nat] /\ held'[m] = 0 /\ \A k \in Mems \ {m} : held'[k] = held[k]
    BY <1>6, <2>3 DEF RInv, Linked, Queued
  <2> QED
    BY <1>3, <1>5, <1>6, <1>7, <2>1, <2>2, <2>3, <2>4, NewStep
<1> QED
  BY <1>5, <1>8, <1>10, <1>11 DEF Ended

----------------------------------------------------------------------------
(* A request is given up                                                    *)

\* Its data is persistent, and goes with it.
LEMMA UndoStep == ASSUME RInv, IInv, Undo PROVE RInv'
<1>1. PICK e : e = cacher.entry
  OBVIOUS
<1>2. PICK m : m = c.entry[e].mem
  OBVIOUS
<1>3. /\ cacher.at = "undo" /\ c' = Withdrawn(Deallocated(c, m), e)
      /\ cacher' = [cacher EXCEPT !.at = "idle", !.entry = None]
      /\ UNCHANGED <<answers, main, held, loads, jobs, unpacker>>
  BY <1>1, <1>2 DEF Undo, syncVars, clientVars
<1>4. e \in Pend(c) /\ m \in Mems /\ c.mem[m].persistent
  BY <1>1, <1>2, <1>3 DEF RInv, Linked, CacherOk
<1>5. m # None
  BY <1>4, CacheSound
<1>6. Sole(c, e)
  BY <1>2, <1>4, <1>5 DEF RInv, Linked, Pendings, PendingOk
<1>7. /\ c.mem[m].locks = 1 /\ held[m] = 0 /\ unpacker.mem # m
      /\ AsOf(e, m) = 1 /\ \A f \in Pend(c) : c.entry[f].mem = m => f = e
  BY <1>2, <1>4, <1>5, <1>6, SoleLocks
<1>8. PICK x : x = Deallocated(c, m)
  OBVIOUS
<1>9. Freed(c, x, {m}) /\ Sound(x) /\ Rest(c, x, {}, {m}) /\ x.mem[m].locks = 0
  BY <1>4, <1>8, DeallocatedIs DEF RInv
<1>10. e \in Pend(x)
  BY <1>4, <1>9 DEF Freed, Pend
<1>11. PICK y : y = c'
  OBVIOUS
<1>12. WithoutRequest(x, y, e)
  BY <1>3, <1>8, <1>9, <1>10, <1>11, WithdrawnStep
<1>13. Rest(c, y, {e}, {m})
  <2>1. Rest(x, y, {e}, {}) /\ y.table = x.table
    BY <1>12 DEF WithoutRequest
  <2>2. Rest(c, y, {} \cup {e}, {m} \cup {})
    BY <1>9, <2>1, RestTwice
  <2>3. {} \cup {e} = {e} /\ {m} \cup {} = {m}
    OBVIOUS
  <2> QED
    BY <2>2, <2>3
<1>14. Sound(y) /\ e \notin Pend(y) /\ y.entry[e] # Reserved /\ y.mem[m].locks = 0
  BY <1>9, <1>12 DEF WithoutRequest
<1>15. Moves({e}, {m})
  BY <1>2, <1>3, <1>7, <1>11, <1>13, <1>14 DEF Moves
<1>16. Settles(m, e)
  BY <1>3, <1>7, <1>11, <1>14 DEF Settles
<1>17. held' \in [Mems -> Nat] /\ answers' \in Seq(Entries \cup Lists) /\ From(answers', answers, {})
  BY <1>3, FromSelf DEF RInv, Linked, Queued
<1>18. cacher'.at # "undo" /\ cacher'.entry = None
  BY <1>3 DEF IInv, Shapes
<1>19. Leaves(e)
  <2>1. \A f \in Entries : InAnswers(f)' = InAnswers(f) /\ AtMain(f)' = AtMain(f)
    BY <1>3 DEF InAnswers, Count, AtMain
  <2>2. \A f \in Entries : AtCacher(f)' = 0 /\ AtCacher(f) = IF f = e THEN 1 ELSE 0
    BY <1>1, <1>18, CacheSound DEF AtCacher
  <2>3. \A f \in Entries : InAnswers(f) \in Nat /\ AtMain(f) \in Nat
    BY TokensNow DEF AtMain
  <2> QED
    BY <2>1, <2>2, <2>3 DEF Leaves
<1>20. ClientOk(c)'
  BY <1>3, <1>7, <1>11, <1>13, ClientRest
<1> QED
  BY <1>3, <1>4, <1>7, <1>11, <1>14, <1>15, <1>16, <1>17, <1>18, <1>19, <1>20, RecordsEnd
     DEF MainLeaves, CacherLeaves

\* What it is made of is given back, and others may have it still.
LEMMA MakeUndoStep == ASSUME RInv, IInv, MakeUndo PROVE RInv'
<1>1. PICK e : e = main.entry
  OBVIOUS
<1>2. PICK m : m = c.entry[e].mem
  OBVIOUS
<1>3. /\ main.at = "undo" /\ c' = Withdrawn(Unref(c, main.mem), e) /\ Returns(None)
      /\ UNCHANGED <<answers, cacher>> /\ UNCHANGED <<loads, jobs, unpacker>>
  BY <1>1 DEF MakeUndo, MainHasLock, MainAt, syncVars, workVars
<1>4. e \in Pend(c) /\ m \in Mems /\ main.mem = m
  BY <1>1, <1>2, <1>3 DEF RInv, Linked, MainOk, Busy, Origin
<1>5. m # None
  BY <1>4, CacheSound
<1>6. m \in Allocated(c) /\ c.mem[m].locks > 0
  BY <1>2, <1>4, <1>5, PendingLocked
<1>7. PICK x : x = Unref(c, m)
  OBVIOUS
<1>8. Sound(c)
  BY DEF RInv
<1>9. /\ Soft(c, x)
      /\ \A k \in Mems : x.mem[k].locks = c.mem[k].locks - (IF k = m THEN 1 ELSE 0)
  BY <1>6, <1>7, <1>8, UnrefSoft
<1>10. Sound(x) /\ x.entry = c.entry /\ x.table = c.table
  BY <1>8, <1>9, SoftSound DEF Soft
<1>11. c.mem[m].locks \in Nat /\ x.mem[m].locks = c.mem[m].locks - 1 /\ x.mem[m].locks \in Nat
  BY <1>4, <1>6, <1>8, <1>9, LocksNumbers
<1>12. \A k \in Mems \ {m} : x.mem[k].locks = c.mem[k].locks
  BY <1>8, <1>9, LocksNumbers
<1>13. Rest(c, x, {}, {m}) /\ SameData(c, x, m)
  BY <1>6, <1>8, <1>9, <1>12, RestSoft
<1>14. PICK y : y = c'
  OBVIOUS
<1>15. e \in Pend(x)
  BY <1>4, <1>10 DEF Pend
<1>16. WithoutRequest(x, y, e)
  <2>1. y = Withdrawn(x, e)
    BY <1>3, <1>4, <1>7, <1>14
  <2> QED
    BY <1>10, <1>15, <2>1, WithdrawnStep
<1>17. Rest(c, y, {e}, {m})
  <2>1. Rest(x, y, {e}, {}) /\ y.table = x.table
    BY <1>16 DEF WithoutRequest
  <2>2. Rest(c, y, {} \cup {e}, {m} \cup {})
    BY <1>13, <2>1, RestTwice
  <2>3. {} \cup {e} = {e} /\ {m} \cup {} = {m}
    OBVIOUS
  <2> QED
    BY <2>2, <2>3
<1>18. Sound(y) /\ e \notin Pend(y) /\ y.entry[e] # Reserved /\ SameData(c, y, m)
       /\ y.mem[m].locks = x.mem[m].locks
  BY <1>13, <1>16 DEF WithoutRequest, SameData
<1>19. unpacker.mem # m
  BY <1>2, <1>4, <1>5 DEF RInv, Linked, UnpackerMem
<1>20. \A f \in Pend(c) \ {e} : c.entry[f].mem = m => ~Sole(c, f)
  BY <1>2, <1>4, <1>5 DEF Sole
<1>21. held' = held /\ main'.at \notin Busy /\ ClientOk(c)'
  BY <1>3, ReturnsNothing
<1>22. Moves({e}, {m})
  BY <1>2, <1>3, <1>14, <1>17, <1>18, <1>20, <1>21 DEF Moves
<1>23. Settles(m, e)
  <2>1. AsOf(e, m) = 1
    BY <1>2 DEF AsOf
  <2>2. PICK l : l = x.mem[m].locks
    OBVIOUS
  <2>3. PICK h : h = held[m]
    OBVIOUS
  <2>4. l \in Nat /\ h \in Nat /\ c.mem[m].locks = l + 1 /\ c'.mem[m].locks = l /\ held'[m] = h
    <3>1. h \in Nat
      BY <1>4, <2>3, Locked
    <3> QED
      BY <1>11, <1>14, <1>18, <1>21, <2>2, <2>3, <3>1
  <2>5. l + h + 1 = (l + 1) + h
    BY <2>4
  <2> QED
    BY <2>1, <2>3, <2>4, <2>5 DEF Settles
<1>24. held' \in [Mems -> Nat]
  BY <1>21 DEF RInv, Linked, Queued
<1>25. /\ Leaves(e) /\ MainLeaves /\ CacherLeaves
       /\ answers' \in Seq(Entries \cup Lists) /\ From(answers', answers, {})
  BY <1>1, <1>3, <1>21, CompleteLeaves
<1>26. \A k \in {m} : Settles(k, e)
  BY <1>23
<1> QED
  BY <1>3, <1>4, <1>14, <1>18, <1>19, <1>21, <1>22, <1>24, <1>25, <1>26, RecordsEnd

----------------------------------------------------------------------------
(* References of the game                                                   *)

\* Who uses memory that is locked.
LEMMA Unlocked ==
  ASSUME RInv, NEW m \in Mems, c.mem[m].locks = 0
  PROVE  held[m] = 0 /\ unpacker.mem # m /\ \A f \in Pend(c) : c.entry[f].mem # m
<1>1. held[m] \in Nat /\ ~(held[m] > 0 \/ unpacker.mem = m \/ Using(c, m) # {})
  BY Locked
<1> QED
  BY <1>1 DEF Using

\* The game's memory is allocated, locked, and no pending read's.
LEMMA GameMemory ==
  ASSUME RInv, NEW m \in Mems, held[m] > 0
  PROVE  /\ m \in Allocated(c) /\ c.mem[m].locks > 0 /\ unpacker.mem # m
         /\ \A f \in Pend(c) : c.entry[f].mem = m => ~Sole(c, f)
<1>1. m # None
  BY CacheSound
<1>2. c.mem[m].locks > 0 /\ held[m] # 0
  BY Locked
<1>3. m \in Allocated(c)
  BY <1>2, LocksAllocated DEF RInv
<1>4. unpacker.mem # m
  BY <1>1, <1>2 DEF RInv, Linked, UnpackerMem
<1>5. \A f \in Pend(c) : c.entry[f].mem = m => ~Sole(c, f)
  BY <1>1, <1>2 DEF Sole
<1> QED
  BY <1>2, <1>3, <1>4, <1>5

\* Persistent memory that the game has is locked by nobody else.
LEMMA GameAlone ==
  ASSUME RInv, NEW m \in Mems, held[m] > 0, c.mem[m].persistent
  PROVE  c.mem[m].locks = held[m] /\ \A f \in Pend(c) : c.entry[f].mem # m
<1>1. unpacker.mem # m /\ m # None
  BY GameMemory, CacheSound
<1>2. \A f \in Pend(c) : c.entry[f].mem # m
  BY <1>1, GameMemory DEF RInv, Linked, Pendings, PendingOk
<1>3. Using(c, m) = {}
  BY <1>2 DEF Using
<1>4. Cardinality(Using(c, m)) = 0
  BY <1>3, FS_EmptySet
<1>5. c.mem[m].locks = held[m] + Cardinality(Using(c, m)) + (IF unpacker.mem = m THEN 1 ELSE 0)
      /\ held[m] \in Nat
  BY Locked
<1>6. c.mem[m].locks = held[m]
  BY <1>1, <1>4, <1>5
<1> QED
  BY <1>2, <1>6

\* y is x with one more reference to m, or one less.
OneMore(x, y, m) ==
  /\ Sound(y) /\ Rest(x, y, {}, {m}) /\ SameData(x, y, m)
  /\ y.mem[m].locks = x.mem[m].locks + 1 /\ x.mem[m].locks \in Nat

OneLess(x, y, m) ==
  /\ Sound(y) /\ Rest(x, y, {}, {m}) /\ SameData(x, y, m)
  /\ x.mem[m].locks = y.mem[m].locks + 1 /\ y.mem[m].locks \in Nat

\* CCache__Unlock, within sound records.
LEMMA UnrefIs ==
  ASSUME NEW x, Sound(x), NEW m \in Allocated(x), x.mem[m].locks > 0, NEW y, y = Unref(x, m)
  PROVE  OneLess(x, y, m)
<1>1. /\ Soft(x, y)
      /\ \A k \in Mems : y.mem[k].locks = x.mem[k].locks - (IF k = m THEN 1 ELSE 0)
  BY UnrefSoft
<1>2. m \in Mems /\ \A k \in Mems : x.mem[k].locks \in Nat
  BY LocksNumbers, Parts DEF Sound
<1>3. x.mem[m].locks = y.mem[m].locks + 1 /\ y.mem[m].locks \in Nat
  BY <1>1, <1>2
<1>4. \A k \in Mems \ {m} : y.mem[k].locks = x.mem[k].locks
  BY <1>1, <1>2
<1>5. Rest(x, y, {}, {m}) /\ SameData(x, y, m)
  BY <1>1, <1>4, RestSoft
<1> QED
  BY <1>1, <1>3, <1>5, SoftSound DEF OneLess

\* CCache__Request and CCache__TouchAndLock: a reference, and the newest record.
LEMMA AddRefIs ==
  ASSUME NEW x, Sound(x), NEW m \in Allocated(x), NEW y, y = AddRef(x, m)
  PROVE  OneMore(x, y, m)
<1>1. /\ Soft(x, y)
      /\ \A k \in Mems : y.mem[k].locks = x.mem[k].locks + (IF k = m THEN 1 ELSE 0)
  BY AddRefSoft
<1>2. m \in Mems /\ \A k \in Mems : x.mem[k].locks \in Nat
  BY LocksNumbers, Parts DEF Sound
<1>3. y.mem[m].locks = x.mem[m].locks + 1 /\ x.mem[m].locks \in Nat
  BY <1>1, <1>2
<1>4. \A k \in Mems \ {m} : y.mem[k].locks = x.mem[k].locks
  BY <1>1, <1>2
<1>5. Rest(x, y, {}, {m}) /\ SameData(x, y, m)
  BY <1>1, <1>4, RestSoft
<1> QED
  BY <1>1, <1>3, <1>5, SoftSound DEF OneMore

\* y is x with another age of m.
Aged(x, y, m) ==
  /\ Sound(y) /\ Rest(x, y, {}, {}) /\ y.mem[m].locks = x.mem[m].locks
  /\ SameData(x, y, m) /\ y.table = x.table /\ y.entry = x.entry

\* CCache__Touch, within sound records.
LEMMA TouchedIs ==
  ASSUME NEW x, Sound(x), NEW m \in Allocated(x), NEW y, y = Touched(x, m)
  PROVE  Aged(x, y, m)
<1>1. Soft(x, y) /\ \A k \in Mems : y.mem[k].locks = x.mem[k].locks
  BY TouchedSoft
<1>2. m \in Mems
  BY Parts DEF Sound
<1>3. Rest(x, y, {}, {}) /\ SameData(x, y, m)
  BY <1>1, RestSoft
<1> QED
  BY <1>1, <1>2, <1>3, SoftSound DEF Aged, Soft

\* A hit touches memory and adds a reference.
LEMMA HitIs ==
  ASSUME NEW x, Sound(x), NEW m \in Allocated(x), NEW y, y = Touched(AddRef(x, m), m)
  PROVE  OneMore(x, y, m)
<1>1. PICK z : z = AddRef(x, m)
  OBVIOUS
<1>2. OneMore(x, z, m)
  BY <1>1, AddRefIs
<1>3. y = Touched(z, m)
  BY <1>1
<1>4. Sound(z) /\ m \in Allocated(z)
  BY <1>2 DEF OneMore, SameData
<1>5. Aged(z, y, m)
  BY <1>3, <1>4, TouchedIs
<1>6. Rest(x, y, {} \cup {}, {m} \cup {})
  BY <1>2, <1>5, RestTwice DEF OneMore, Aged
<1>7. {} \cup {} = {} /\ {m} \cup {} = {m}
  OBVIOUS
<1>8. Rest(x, y, {}, {m})
  BY <1>6, <1>7
<1>9. SameData(x, y, m)
  BY <1>2, <1>5 DEF OneMore, Aged, SameData
<1> QED
  BY <1>2, <1>5, <1>8, <1>9 DEF OneMore, Aged

\* CCache__TouchAndLock touches memory and adds a reference.
LEMMA LockIs ==
  ASSUME NEW x, Sound(x), NEW m \in Allocated(x), NEW y, y = AddRef(Touched(x, m), m)
  PROVE  OneMore(x, y, m)
<1>1. PICK z : z = Touched(x, m)
  OBVIOUS
<1>2. Aged(x, z, m)
  BY <1>1, TouchedIs
<1>3. y = AddRef(z, m)
  BY <1>1
<1>4. Sound(z) /\ m \in Allocated(z)
  BY <1>2 DEF Aged, SameData
<1>5. OneMore(z, y, m)
  BY <1>3, <1>4, AddRefIs
<1>6. \A k \in Keys : y.table[k] = z.table[k] \/ y.table[k] = None
  BY <1>5 DEF OneMore, Rest
<1>7. Rest(x, y, {} \cup {}, {} \cup {m})
  BY <1>2, <1>5, <1>6, RestTwice DEF OneMore, Aged
<1>8. {} \cup {} = {} /\ {} \cup {m} = {m}
  OBVIOUS
<1>9. Rest(x, y, {}, {m})
  BY <1>7, <1>8
<1>10. SameData(x, y, m)
  BY <1>2, <1>5 DEF OneMore, Aged, SameData
<1> QED
  BY <1>2, <1>5, <1>9, <1>10 DEF OneMore, Aged

\* A step that gives one reference.
LEMMA RecordsGiven ==
  ASSUME RInv, IInv, NEW m \in Mems, OneMore(c, c', m), Gets(m),
         unpacker.mem # m, \A f \in Pend(c) : c.entry[f].mem = m => ~Sole(c, f),
         UNCHANGED <<loads, jobs, unpacker, answers, cacher>>, MainAside, ClientOk(c)'
  PROVE  RInv'
<1>1. Sound(c') /\ Rest(c, c', {}, {m}) /\ SameData(c, c', m)
  BY DEF OneMore
<1>2. c'.mem[m].locks + held[m] = c.mem[m].locks + held'[m]
  <2>1. PICK l : l = c.mem[m].locks
    OBVIOUS
  <2>2. PICK h : h = held[m]
    OBVIOUS
  <2>3. l \in Nat /\ h \in Nat /\ c'.mem[m].locks = l + 1 /\ held'[m] = h + 1
    BY <2>1, <2>2 DEF OneMore, Gets
  <2>4. (l + 1) + h = l + (h + 1)
    BY <2>3
  <2> QED
    BY <2>1, <2>2, <2>3, <2>4
<1>3. held' \in [Mems -> Nat] /\ \A k \in Mems \ {m} : held'[k] = held[k]
  BY DEF Gets
<1> QED
  BY <1>1, <1>2, <1>3, RecordsHeld

\* The table has the entry e for the key k, with memory m.
Finds(k, e, m) == e = c.table[k] /\ e # None /\ m = c.entry[e].mem

\* What the table has.
LEMMA TableHas ==
  ASSUME RInv, NEW k \in Keys, NEW e, NEW m, Finds(k, e, m)
  PROVE  /\ m \in Mems /\ m \in Allocated(c) /\ c.mem[m].entry = e /\ e \in Entries
         /\ k \in Indexes => c.mem[m].persistent
<1>1. /\ Sound(c) /\ Agree(c) /\ c.table \in [Keys -> SomeEntry] /\ Allocated(c) \subseteq Mems
  BY Parts DEF RInv, Sound
<1>2. e \in Entries /\ c.entry[e].place = "used" /\ c.entry[e].key = k
  BY <1>1 DEF Agree, SomeEntry, Finds
<1>3. UsedOk(c, e)
  BY <1>1, <1>2 DEF Agree, RInv
<1>4. m \in Mems /\ m \in Allocated(c) /\ c.mem[m].entry = e
  BY <1>1, <1>3 DEF UsedOk, Finds
<1>5. ASSUME k \in Indexes PROVE c.mem[m].persistent
  <2>1. Marked(c) /\ e # None
    BY DEF RInv, Sound, Finds
  <2>2. c.mem[m].entry # None /\ c.entry[c.mem[m].entry].key \in Indexes
    BY <1>2, <1>4, <1>5, <2>1
  <2> QED
    BY <1>4, <2>1, <2>2 DEF Marked
<1> QED
  BY <1>2, <1>4, <1>5

\* A hit, in CCache__Request or CCache__RequestDecompression.
LEMMA HitStep ==
  ASSUME RInv, IInv, main.at \notin Busy, main.key \in Keys,
         NEW e, NEW m, Finds(main.key, e, m), c' = Touched(AddRef(c, m), m), Returns(m),
         UNCHANGED <<loads, jobs, unpacker, answers, cacher>>
  PROVE  RInv'
<1>1. /\ m \in Mems /\ m \in Allocated(c) /\ c.mem[m].entry = e
      /\ main.key \in Indexes => c.mem[m].persistent
  BY TableHas
<1>2. c.mem[m].entry # None
  BY <1>1 DEF Finds
<1>3. OneMore(c, c', m)
  <2>1. PICK y : y = c'
    OBVIOUS
  <2>2. OneMore(c, y, m)
    BY <1>1, <2>1, HitIs DEF RInv
  <2> QED
    BY <2>1, <2>2
<1>4. main.key \in Indexes => c'.mem[m].persistent
  BY <1>1, <1>3 DEF OneMore, SameData
<1>5. Gets(m) /\ main'.at \notin Busy /\ ClientOk(c)'
  BY <1>1, <1>4, ReturnsMemory
<1>6. unpacker.mem # m /\ \A f \in Pend(c) : c.entry[f].mem = m => ~Sole(c, f)
  BY <1>1, <1>2, EntryShared
<1> QED
  BY <1>1, <1>3, <1>5, <1>6, RecordsGiven DEF MainAside

\* CCache__Request finds what it is asked for.
LEMMA RequestHitStep == ASSUME RInv, IInv, RequestHit PROVE RInv'
<1>1. main.at = "request"
  BY DEF RequestHit, MainHasLock, MainAt
<1>2. main.at \notin Busy /\ main.key \in Keys
  BY <1>1 DEF RInv, Linked, ClientOk, Busy
<1>3. PICK e : e = c.table[main.key]
  OBVIOUS
<1>4. PICK m : m = c.entry[e].mem
  OBVIOUS
<1>5. /\ Finds(main.key, e, m) /\ c' = Touched(AddRef(c, m), m) /\ Returns(m)
      /\ UNCHANGED <<loads, jobs, unpacker, answers, cacher>>
  BY <1>3, <1>4 DEF RequestHit, Hits, Finds, syncVars, workVars
<1> QED
  BY <1>2, <1>5, HitStep

\* CCache__RequestDecompression finds what it is asked for.
LEMMA MakeHitStep == ASSUME RInv, IInv, MakeHit PROVE RInv'
<1>1. main.at = "make"
  BY DEF MakeHit, MainHasLock, MainAt
<1>2. main.at \notin Busy /\ main.key \in Keys
  BY <1>1 DEF RInv, Linked, ClientOk, Busy, Keys
<1>3. PICK e : e = c.table[main.key]
  OBVIOUS
<1>4. PICK m : m = c.entry[e].mem
  OBVIOUS
<1>5. /\ Finds(main.key, e, m) /\ c' = Touched(AddRef(c, m), m) /\ Returns(m)
      /\ UNCHANGED <<loads, jobs, unpacker, answers, cacher>>
  BY <1>3, <1>4 DEF MakeHit, Finds, syncVars, workVars
<1> QED
  BY <1>2, <1>5, HitStep

\* While the main thread is with the game, nothing is asked.
LEMMA AwayOk ==
  ASSUME main.at = "away", main' = main
  PROVE  MainAside /\ ClientOk(c)'
BY DEF MainAside, ClientOk

\* CCache__TouchAndLock: one more reference to memory the game holds.
LEMMA TouchAndLockStep == ASSUME RInv, IInv, NEW m \in Mems, TouchAndLock(m) PROVE RInv'
<1>1. /\ main.at = "away" /\ held[m] > 0 /\ c' = AddRef(Touched(c, m), m)
      /\ held' = [held EXCEPT ![m] = @ + 1]
      /\ UNCHANGED <<main, loads, jobs, unpacker, answers, cacher>>
  BY DEF TouchAndLock, MainHasLock, MainAt, Held, syncVars, workVars
<1>2. /\ m \in Allocated(c) /\ unpacker.mem # m
      /\ \A f \in Pend(c) : c.entry[f].mem = m => ~Sole(c, f)
  BY <1>1, GameMemory
<1>3. OneMore(c, c', m)
  <2>1. PICK y : y = c'
    OBVIOUS
  <2>2. OneMore(c, y, m)
    BY <1>1, <1>2, <2>1, LockIs DEF RInv
  <2> QED
    BY <2>1, <2>2
<1>4. Gets(m)
  BY <1>1 DEF Gets, RInv, Linked, Queued
<1> QED
  BY <1>1, <1>2, <1>3, <1>4, AwayOk, RecordsGiven

\* The game gives a reference back.
LEMMA UnlockStep == ASSUME RInv, IInv, NEW m \in Mems, Unlock(m) PROVE RInv'
<1>1. /\ main.at = "away" /\ held[m] > 0 /\ c' = Unref(c, m)
      /\ held' = [held EXCEPT ![m] = @ - 1]
      /\ UNCHANGED <<main, loads, jobs, unpacker, answers, cacher>>
  BY DEF Unlock, MainHasLock, MainAt, Held, syncVars, workVars
<1>2. /\ m \in Allocated(c) /\ unpacker.mem # m /\ c.mem[m].locks > 0
      /\ \A f \in Pend(c) : c.entry[f].mem = m => ~Sole(c, f)
  BY <1>1, GameMemory
<1>3. OneLess(c, c', m)
  <2>1. PICK y : y = c'
    OBVIOUS
  <2>2. OneLess(c, y, m)
    BY <1>1, <1>2, <2>1, UnrefIs DEF RInv
  <2> QED
    BY <2>1, <2>2
<1>4. /\ held' \in [Mems -> Nat] /\ held[m] = held'[m] + 1 /\ held'[m] \in Nat
      /\ \A k \in Mems \ {m} : held'[k] = held[k]
  <2>1. held \in [Mems -> Nat] /\ held[m] \in Nat
    BY DEF RInv, Linked, Queued
  <2> QED
    BY <1>1, <2>1
<1>5. Sound(c') /\ Rest(c, c', {}, {m}) /\ SameData(c, c', m)
  BY <1>3 DEF OneLess
<1>6. c'.mem[m].locks + held[m] = c.mem[m].locks + held'[m]
  <2>1. PICK l : l = c'.mem[m].locks
    OBVIOUS
  <2>2. PICK h : h = held'[m]
    OBVIOUS
  <2>3. l \in Nat /\ h \in Nat /\ c.mem[m].locks = l + 1 /\ held[m] = h + 1
    BY <1>3, <1>4, <2>1, <2>2 DEF OneLess
  <2>4. l + (h + 1) = (l + 1) + h
    BY <2>3
  <2> QED
    BY <2>1, <2>2, <2>3, <2>4
<1> QED
  BY <1>1, <1>2, <1>4, <1>5, <1>6, AwayOk, RecordsHeld

\* Persistent memory of the game is given up, with all references to it.
LEMMA GivenUp ==
  ASSUME RInv, IInv, NEW m \in Mems, held[m] > 0, c.mem[m].persistent, c' = Deallocated(c, m),
         held' = [held EXCEPT ![m] = 0],
         UNCHANGED <<loads, jobs, unpacker, answers, cacher>>, MainAside, ClientOk(c)'
  PROVE  RInv'
<1>1. PICK y : y = c'
  OBVIOUS
<1>2. Sound(y) /\ Rest(c, y, {}, {m}) /\ y.mem[m].locks = 0
  BY <1>1, DeallocatedIs DEF RInv
<1>3. c.mem[m].locks = held[m] /\ unpacker.mem # m /\ \A f \in Pend(c) : c.entry[f].mem # m
  BY GameAlone, GameMemory
<1>4. /\ held' \in [Mems -> Nat] /\ held'[m] = 0 /\ held[m] \in Nat
      /\ \A k \in Mems \ {m} : held'[k] = held[k]
  BY DEF RInv, Linked, Queued
<1>5. c'.mem[m].locks + held[m] = c.mem[m].locks + held'[m]
  BY <1>1, <1>2, <1>3, <1>4
<1> QED
  BY <1>1, <1>2, <1>3, <1>4, <1>5, RecordsHeld

\* The game frees its own memory.
LEMMA DeallocateStep == ASSUME RInv, IInv, NEW m \in Mems, Deallocate(m) PROVE RInv'
<1>1. /\ main.at = "away" /\ held[m] > 0 /\ c.mem[m].persistent /\ c' = Deallocated(c, m)
      /\ held' = [held EXCEPT ![m] = 0]
      /\ UNCHANGED <<main, loads, jobs, unpacker, answers, cacher>>
  BY DEF Deallocate, MainHasLock, MainAt, Held, syncVars, workVars
<1> QED
  BY <1>1, AwayOk, GivenUp

\* The part of an index that was read is given back before the whole is asked for.
LEMMA IndexProbedStep == ASSUME RInv, IInv, IndexProbed PROVE RInv'
<1>1. /\ main.at = "probed" /\ c' = Deallocated(c, main.mem)
      /\ held' = [held EXCEPT ![main.mem] = 0]
      /\ main' = [main EXCEPT !.at = "whole", !.mem = None]
      /\ UNCHANGED <<loads, jobs, unpacker, answers, cacher>>
  BY DEF IndexProbed, MainHasLock, MainAt, syncVars, workVars
<1>2. PICK m : m = main.mem
  OBVIOUS
<1>3. main.key \in Indexes /\ m \in Mems /\ held[m] > 0 /\ c.mem[m].persistent
  BY <1>1, <1>2 DEF RInv, Linked, ClientOk, Held
<1>4. main'.at = "whole" /\ main'.key = main.key
  BY <1>1 DEF IInv, Shapes, Away
<1>5. MainAside /\ ClientOk(c)'
  BY <1>1, <1>3, <1>4 DEF MainAside, ClientOk, Busy
<1> QED
  BY <1>1, <1>2, <1>3, <1>5, GivenUp
=============================================================================
