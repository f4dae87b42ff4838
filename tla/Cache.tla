------------------------------- MODULE Cache -------------------------------
(***************************************************************************)
(* The resource cache and the decompressor.  The main thread asks for      *)
(* resources of the cartridge and for resources made of others; the cache  *)
(* finds them in its table, or loads and decompresses them: while the main *)
(* thread waits, or through the loader, the cache's thread and the         *)
(* decompressor's.  It makes room by freeing what is not in use, oldest    *)
(* first, and moves what is not pinned towards the start of the heap.      *)
(*                                                                         *)
(* Memory is in use while it is locked, persistent, or drawn by a display  *)
(* list until the RSP is done with the last task of the list.              *)
(*                                                                         *)
(* One step is what a thread does with the cache's lock, or between two    *)
(* waits without it.  The cache's thread runs before the main thread: it   *)
(* has the higher priority.                                                *)
(***************************************************************************)
EXTENDS Naturals, Sequences, FiniteSets, SequencesExt

CONSTANTS
  Indexes,     \* keys of indexes: probed for their length, then persistent
  Plain,       \* keys of resources used as they are loaded
  Packed,      \* keys of resources that are decompressed
  Made,        \* keys of resources made of another (lit vertices)
  Source,      \* what each of Made is made of
  Stored,      \* size of each resource on the cartridge
  Whole,       \* size of what is decompressed or made
  Own,         \* sizes of memory the game allocates for itself
  Lists,       \* display lists: two, built and drawn in turn
  Mems,        \* CMemEntry records (0x400)
  Entries,     \* CCacheEntry records, as many
  HeapSize,    \* units of the heap, headers included
  AnswersSize, \* room of gCache.queue (64)
  JobsSize,    \* room of the decompressor's queue (128)
  StaleAge,    \* frames after which a resource is stale (5)
  MaxDelay,    \* bound: frames of synchronous loading (the game asks for 1 to 10)
  MaxHeld,     \* bound: references of the main thread
  None

Keys    == Indexes \cup Plain \cup Packed \cup Made
Probe   == 1             \* the 4 bytes LoadPersistantIndex probes

ASSUME CacheSound ==
  /\ IsFiniteSet(Lists) /\ IsFiniteSet(Entries) /\ Entries \cap Lists = {}
  /\ None \notin Mems \cup Entries \cup Lists /\ None \notin Keys
  /\ Indexes \cap (Plain \cup Packed \cup Made) = {} /\ Packed \cap (Plain \cup Made) = {}
  /\ Plain \cap Made = {} /\ \A k \in Made : Source[k] \in Plain \cup Packed
  /\ \A k \in Keys \ Made : Stored[k] \in Nat \ {0}
  /\ \A k \in Packed \cup Made : Whole[k] \in Nat \ {0}
  /\ \A k \in Indexes : Stored[k] > Probe
  /\ Own \subseteq Nat \ {0} /\ HeapSize \in Nat

VARIABLES
  c,         \* gCache's records, lists and table, and the heap
  lock,      \* who holds gCache_mutex between two steps
  answers,   \* gCache.queue: display lists that are drawn, and entries
  blocker,   \* messages in gCache.blocker
  dlist,     \* dlistValid, dlistBlocking, dlistCount, currentDlist
  delay,     \* frameDelay
  main,      \* where the main thread is
  held,      \* references the main thread has
  drawn,     \* addresses each display list draws from
  shown,     \* lists that are submitted and the RSP is not done with
  cacher,    \* where the cache's thread is
  loads,     \* reads the loader has to do for the cache, in order
  jobs,      \* the decompressor's queue
  unpacker   \* where the decompressor is

vars == <<c, lock, answers, blocker, dlist, delay, main, held, drawn, shown,
          cacher, loads, jobs, unpacker>>

clientVars == <<held, drawn, shown>>
workVars   == <<cacher, loads, jobs, unpacker>>
syncVars   == <<answers, blocker, dlist, delay>>

\* What a piece of memory may contain.
Private   == [key |-> None, part |-> "private"]
Resources == [key : Keys, part : {"probe", "whole"}]
Junk      == [key |-> None, part |-> "junk"]
Raw(k)    == [key |-> k, part |-> "raw"]
Res(k)    == [key |-> k, part |-> "whole"]
Contents  == Resources \cup {Junk, Private} \cup {Raw(k) : k \in Packed}

FreeMem   == [at |-> 0, size |-> 0, locks |-> 0, persistent |-> FALSE,
              fixed |-> FALSE, lists |-> {}, age |-> 0, entry |-> None,
              holds |-> Junk]
FreeEntry == [place |-> "free", mem |-> None, key |-> None, length |-> 0,
              unpack |-> FALSE]
Away      == [at |-> "away", key |-> None, length |-> 0, entry |-> None,
              mem |-> None, to |-> 0, left |-> 0, sync |-> FALSE]

Init ==
  /\ c = [mem |-> [m \in Mems |-> FreeMem],
          order |-> <<>>,
          entry |-> [e \in Entries |-> FreeEntry],
          table |-> [k \in Keys |-> None]]
  /\ lock = None
  /\ answers = <<>> /\ blocker = 0
  /\ dlist = [valid |-> [l \in Lists |-> TRUE],
              blocking |-> [l \in Lists |-> FALSE],
              count |-> [l \in Lists |-> 0],
              current |-> None]
  /\ delay = 0
  /\ main = Away
  /\ held = [m \in Mems |-> 0]
  /\ drawn = [l \in Lists |-> {}] /\ shown = {}
  /\ cacher = [at |-> "idle", list |-> None, entry |-> None]
  /\ loads = <<>> /\ jobs = <<>>
  /\ unpacker = [at |-> "idle", entry |-> None, from |-> 0, mem |-> None, sync |-> FALSE]

----------------------------------------------------------------------------
(* Memory entries and the heap.  x is a value of c.                        *)

Allocated(x) == {m \in Mems : \E i \in DOMAIN x.order : x.order[i] = m}

\* Mutants: locks do not count.
InUse_NotLocked(r)  == r.persistent \/ r.lists # {}
Pinned_NotLocked(r) == r.fixed \/ r.lists # {}

\* 0x702: locked, persistent or drawn.  0x701: may not be moved.
InUse(r)  == r.locks > 0 \/ r.persistent \/ r.lists # {}
Pinned(r) == r.locks > 0 \/ r.fixed \/ r.lists # {}

Span(r) == r.at .. r.at + r.size - 1

Fits(x, n) ==
  {a \in 0 .. HeapSize - n :
     \A m \in Allocated(x) : (a .. a + n - 1) \cap Span(x.mem[m]) = {}}

FirstFit(x, n) == CHOOSE a \in Fits(x, n) : \A b \in Fits(x, n) : a <= b
LastFit(x, n)  == CHOOSE a \in Fits(x, n) : \A b \in Fits(x, n) : a >= b

\* The sequence s without the members of S.
Without(s, S) ==
  LET first[i \in 0 .. Len(s)] ==      \* of the first i of s
        IF i = 0 THEN <<>>
        ELSE IF s[i] \in S THEN first[i - 1] ELSE Append(first[i - 1], s[i])
  IN  first[Len(s)]

\* CCache__FreeMemEntry and CHeap__Free for the memory entries of S.
FreeMems(x, S) ==
  [x EXCEPT !.mem = [m \in Mems |-> IF m \in S THEN FreeMem ELSE @[m]],
            !.order = Without(@, S)]

FreeCacheEntries(x, S) ==
  [x EXCEPT !.entry = [e \in Entries |-> IF e \in S THEN FreeEntry ELSE @[e]]]

\* CCache__DetachCacheEntry, which takes the key out of the table.
Detached(x, S) ==
  LET es == {x.mem[m].entry : m \in S} \ {None}
      ks == {x.entry[e].key : e \in es}
  IN  FreeCacheEntries(
        [x EXCEPT !.table = [k \in Keys |-> IF k \in ks THEN None ELSE @[k]]], es)

Dropped(x, S) == FreeMems(Detached(x, S), S)

\* The order CCache__FreeOldestMemEntry frees in; it spares what was used
\* lately unless it may free that too.
Victims(x, recentToo) ==
  Reverse(Without(x.order,
    {m \in Mems : InUse(x.mem[m]) \/ (~recentToo /\ x.mem[m].age < StaleAge)}))

\* What is left when the first n of them are freed.
After(x, recentToo, n) ==
  LET v == Victims(x, recentToo) IN Dropped(x, {v[i] : i \in 1 .. n})

Counts(x, recentToo) == 1 .. Len(Victims(x, recentToo))

\* What is left when the oldest are freed, one after the other, until that is
\* enough; all that can be when it never is.
Evicted(x, recentToo, enough) ==
  IF enough = {} THEN After(x, recentToo, Len(Victims(x, recentToo)))
  ELSE After(x, recentToo, CHOOSE i \in enough : \A j \in enough : i <= j)

FreeEntries(x) == {e \in Entries : x.entry[e].place = "free"}
FreeRecords(x) == Mems \ Allocated(x)

\* CCache__AllocCacheEntry makes room until an entry is free.
WithCacheEntry(x, recentToo) ==
  IF FreeEntries(x) # {} THEN x
  ELSE Evicted(x, recentToo, {i \in Counts(x, recentToo) :
                                FreeEntries(After(x, recentToo, i)) # {}})

WithRecord(x, recentToo) ==
  IF FreeRecords(x) # {} THEN x
  ELSE Evicted(x, recentToo, Counts(x, recentToo))

\* The block that comes free has room for n: the heap merges it with the free
\* memory on both sides.
RoomAt(x, r, n) == \E a \in Fits(x, n) : (a .. a + n - 1) \cap Span(r) # {}

\* How many records of x may be freed so that the last gives room for n.
Rooms(x, recentToo, n) ==
  {i \in Counts(x, recentToo) :
     RoomAt(After(x, recentToo, i), x.mem[Victims(x, recentToo)[i]], n)}

\* CCache__AllocateInternal: a record, a reference to it, memory (from the top
\* for data that goes soon).  One outcome for each free record, which is all
\* that tells them apart; mem is None when there is no room.
Allocated1(y, m, n, flags) ==
  LET z == [y EXCEPT !.mem[m].locks = 1, !.order = <<m>> \o @]
      w == IF Fits(z, n) # {} THEN z
           ELSE Evicted(z, flags.recentToo, Rooms(z, flags.recentToo, n))
  IN  IF Fits(w, n) = {} THEN [x |-> FreeMems(w, {m}), mem |-> None]
      ELSE [x |-> [w EXCEPT !.mem[m] =
                     [@ EXCEPT !.at = IF flags.top THEN LastFit(w, n) ELSE FirstFit(w, n),
                               !.size = n,
                               !.persistent = flags.persistent,
                               !.fixed = flags.fixed]],
            mem |-> m]

Allocations(x, n, flags) ==
  LET y == WithRecord(x, flags.recentToo) IN
  IF FreeRecords(y) = {} THEN {[x |-> y, mem |-> None]}
  ELSE {Allocated1(y, m, n, flags) : m \in FreeRecords(y)}

Flags(k) ==
  [persistent |-> k \in Indexes, fixed |-> k \in Indexes,
   recentToo |-> k \in Indexes, top |-> FALSE]

\* (mode & 0x1C) | 0x22 for data that is to be decompressed.
LoadFlags(k) ==
  IF k \in Packed THEN [Flags(k) EXCEPT !.persistent = TRUE, !.top = TRUE]
  ELSE Flags(k)

\* References: taken when a resource is given, which also makes it the newest.
AddRef(x, m) == [x EXCEPT !.mem[m].locks = @ + 1]
Unref(x, m)  == [x EXCEPT !.mem[m].locks = @ - 1]
Touched(x, m) ==
  [x EXCEPT !.mem[m].age = 0,
            !.order = <<m>> \o Without(@, {m})]

\* CCache__DeallocateInternal
Deallocated(x, m) ==
  LET y == [x EXCEPT !.mem[m].persistent = FALSE, !.mem[m].locks = 0]
  IN  IF InUse(y.mem[m]) THEN y ELSE Dropped(y, {m})

----------------------------------------------------------------------------
(* Cache entries                                                           *)

\* The entry e of x waits for its data.
Pending(x, e, m, k, n) ==
  [x EXCEPT !.entry[e] = [place |-> "pending", mem |-> m, key |-> k,
                          length |-> n, unpack |-> FALSE]]

Withdrawn(x, e) == FreeCacheEntries(x, {e})

\* CCache__CompleteRequest: the table keeps the longer of two resources of one
\* key.  entry is the one the table has, None when there is no data.
Completed(x, e, drop) ==
  LET r   == x.entry[e]
      old == x.table[r.key]
      y   == [x EXCEPT !.entry[e].place = "used"]
      om  == x.entry[old].mem
      z   == IF old = None THEN y
             ELSE LET w == [y EXCEPT !.mem[om].entry = None]
                  IN  Withdrawn(IF InUse(w.mem[om]) THEN w ELSE FreeMems(w, {om}), old)
      done == [z EXCEPT !.table[r.key] = e, !.mem[r.mem].entry = e]
  IN  IF r.mem = None THEN [x |-> Withdrawn(x, e), entry |-> None]
      ELSE IF old # None /\ x.entry[old].length >= r.length
      THEN [x |-> Withdrawn(FreeMems(x, {r.mem}), e), entry |-> old]
      ELSE [x |-> IF drop THEN Unref(done, r.mem) ELSE done, entry |-> e]

\* A read or a decompression writes to an address, whoever has the memory now.
Written(x, a, n, what) ==
  [x EXCEPT !.mem = [m \in Mems |->
     IF m \in Allocated(x) /\ Span(x.mem[m]) \cap (a .. a + n - 1) # {}
     THEN [x.mem[m] EXCEPT !.holds = IF x.mem[m].at = a THEN what ELSE Junk]
     ELSE x.mem[m]]]

ContentAt(a) ==
  LET ms == {m \in Allocated(c) : c.mem[m].at = a}
  IN  IF ms = {} THEN Junk ELSE c.mem[CHOOSE m \in ms : TRUE].holds

\* What a read of n units at the key brings.
OnCartridge(k, n) ==
  IF k \in Packed THEN Raw(k)
  ELSE [key |-> k, part |-> IF n = Stored[k] THEN "whole" ELSE "probe"]

Owner(x, k) == {e \in Entries : x.entry[e].place = "pending" /\ x.entry[e].key = k}

----------------------------------------------------------------------------
(* The main thread                                                         *)

\* The cache's thread has something to do and is not waiting.
CacherRuns ==
  \/ /\ cacher.at = "idle" /\ answers # <<>>
     /\ \/ lock = None
        \/ Head(answers) \in Entries /\ c.entry[Head(answers)].unpack
  \/ cacher.at = "release" /\ (dlist.blocking[cacher.list] => blocker = 0)
  \/ cacher.at = "undo" /\ lock = None

MainAt(place) == main.at = place /\ ~CacherRuns
MainHasLock(place) == MainAt(place) /\ lock = None

Held == {m \in Mems : held[m] > 0}
References == FoldFunction(+, 0, held)

\* The game calls CCache__Request, the length what it wants of the resource.
CallRequest(k, n, sync) ==
  main' = [Away EXCEPT !.at = "request", !.key = k, !.length = n, !.sync = sync]

Request(k, sync) ==
  /\ MainAt("away") /\ References < MaxHeld
  /\ k \in Plain \cup Packed
  /\ CallRequest(k, Stored[k], sync)
  /\ UNCHANGED <<c, lock, syncVars, clientVars, workVars>>

\* CCache__RequestDecompression of k from memory m, which the game holds.
RequestDecompression(k, m) ==
  /\ MainAt("away") /\ References < MaxHeld
  /\ k \in Made /\ m \in Held /\ c.mem[m].holds = Res(Source[k])
  /\ main' = [Away EXCEPT !.at = "make", !.key = k, !.mem = m]
  /\ UNCHANGED <<c, lock, syncVars, clientVars, workVars>>

\* CCache__LoadPersistantIndex: first the length, with a probe.
LoadPersistantIndex(k) ==
  /\ MainAt("away") /\ References < MaxHeld
  /\ k \in Indexes
  /\ CallRequest(k, Probe, TRUE)
  /\ UNCHANGED <<c, lock, syncVars, clientVars, workVars>>

\* The call returns m, or nothing.  LoadPersistantIndex goes on with either:
\* it reads the length, and later the index, through what it was returned.
Returns(m) ==
  /\ held' = IF m = None THEN held ELSE [held EXCEPT ![m] = @ + 1]
  /\ main' = CASE main.key \in Indexes /\ m = None -> [Away EXCEPT !.at = "stopped"]
               [] main.key \in Indexes /\ m # None /\ main.length = Probe
                    -> [main EXCEPT !.at = "probed", !.mem = m]
               [] OTHER -> Away
  /\ UNCHANGED <<drawn, shown>>

\* The read at address 0 is a fault no region maps: the console restarts.
Stopped == main.at = "stopped" /\ UNCHANGED vars

\* A hit: the table's resource, unless it is longer than what is wanted.
Hits(e) == e # None /\ c.entry[e].length <= main.length

Sync == main.sync \/ delay > 0

RequestHit ==
  /\ MainHasLock("request")
  /\ LET e == c.table[main.key] IN
     /\ Hits(e)
     /\ c' = Touched(AddRef(c, c.entry[e].mem), c.entry[e].mem)
     /\ Returns(c.entry[e].mem)
  /\ UNCHANGED <<lock, syncVars, workVars>>

\* Someone has asked already: nothing yet.
AlreadyPending ==
  ~Sync /\ \E e \in Owner(c, main.key) : main.length <= c.entry[e].length

RequestPending ==
  /\ MainHasLock("request")
  /\ ~Hits(c.table[main.key]) /\ AlreadyPending
  /\ Returns(None)
  /\ UNCHANGED <<c, lock, syncVars, workVars>>

\* CLoader__LoadSync, or CLoader__LoadAsync for a request that does not wait.
Read(x, e) ==
  LET to == x.mem[x.entry[e].mem].at IN
  IF Sync
  THEN /\ c' = x
       /\ main' = [main EXCEPT !.at = "load", !.entry = e, !.to = to]
       /\ UNCHANGED <<loads, clientVars>>
  ELSE /\ c' = [x EXCEPT !.entry[e].unpack = main.key \in Packed]
       /\ loads' = Append(loads, [entry |-> e, to |-> to])
       /\ Returns(None)

\* A miss: an entry and memory, or nothing when there is no room for them.
RequestMiss ==
  /\ MainHasLock("request")
  /\ ~Hits(c.table[main.key]) /\ ~AlreadyPending
  /\ LET x == WithCacheEntry(c, Flags(main.key).recentToo) IN
     \/ FreeEntries(x) = {} /\ c' = x /\ Returns(None) /\ UNCHANGED loads
     \/ \E e \in FreeEntries(x) :
        \E a \in Allocations([x EXCEPT !.entry[e].place = "used"],
                             main.length, LoadFlags(main.key)) :
          IF a.mem = None
          THEN c' = Withdrawn(a.x, e) /\ Returns(None) /\ UNCHANGED loads
          ELSE Read(Pending(a.x, e, a.mem, main.key, main.length), e)
  /\ UNCHANGED <<lock, syncVars, cacher, jobs, unpacker>>

\* CLoader__LoadSync returns; what is packed is jammed into the decompressor's
\* queue.
LoadSyncReturns ==
  /\ MainAt("load")
  /\ c' = Written(c, main.to, main.length, OnCartridge(main.key, main.length))
  /\ main' = [main EXCEPT !.at = IF main.key \in Packed THEN "jam" ELSE "complete"]
  /\ UNCHANGED <<lock, syncVars, clientVars, workVars>>

DecompressSync ==
  /\ MainAt("jam") /\ Len(jobs) < JobsSize
  /\ jobs' = <<[entry |-> main.entry, sync |-> TRUE]>> \o jobs
  /\ main' = [main EXCEPT !.at = "unpack"]
  /\ UNCHANGED <<c, lock, syncVars, clientVars, cacher, loads, unpacker>>

\* The end of a request that waited.  Only CCache__Request takes a reference to
\* the resource it finds in the table instead of its own.
SyncComplete ==
  /\ MainHasLock("complete")
  /\ LET r == Completed(c, main.entry, FALSE)
         m == r.x.entry[r.entry].mem
     IN  IF r.entry = None THEN c' = r.x /\ Returns(None)
         ELSE /\ c' = IF r.entry # main.entry /\ main.key \notin Made
                      THEN AddRef(r.x, m) ELSE r.x
              /\ Returns(m)
  /\ UNCHANGED <<lock, syncVars, workVars>>

\* Mutant: the probe is unlocked, not deallocated.
IndexProbed_Unlocks ==
  /\ MainHasLock("probed")
  /\ c' = Unref(c, main.mem)
  /\ held' = [held EXCEPT ![main.mem] = @ - 1]
  /\ main' = [main EXCEPT !.at = "whole", !.mem = None]
  /\ UNCHANGED <<lock, syncVars, drawn, shown, workVars>>

\* The index is freed, whoever has references to it, and asked for again with
\* its whole length.  All of its references are void: those the game has from
\* earlier calls too, when the whole index was in the table.
IndexProbed ==
  /\ MainHasLock("probed")
  /\ c' = Deallocated(c, main.mem)
  /\ held' = [held EXCEPT ![main.mem] = 0]
  /\ main' = [main EXCEPT !.at = "whole", !.mem = None]
  /\ UNCHANGED <<lock, syncVars, drawn, shown, workVars>>

RequestWhole ==
  /\ MainAt("whole")
  /\ CallRequest(main.key, Stored[main.key], TRUE)
  /\ UNCHANGED <<c, lock, syncVars, clientVars, workVars>>

MakeHit ==
  /\ MainHasLock("make")
  /\ LET e == c.table[main.key] IN
     /\ e # None
     /\ c' = Touched(AddRef(c, c.entry[e].mem), c.entry[e].mem)
     /\ Returns(c.entry[e].mem)
  /\ UNCHANGED <<lock, syncVars, workVars>>

MakePending ==
  /\ MainHasLock("make")
  /\ c.table[main.key] = None /\ Owner(c, main.key) # {}
  /\ Returns(None)
  /\ UNCHANGED <<c, lock, syncVars, workVars>>

\* The entry starts with the memory it is made of, and a reference to it.
MakeMiss ==
  /\ MainHasLock("make")
  /\ c.table[main.key] = None /\ Owner(c, main.key) = {}
  /\ LET x == WithCacheEntry(c, FALSE)
     IN  \/ FreeEntries(x) = {} /\ c' = x /\ Returns(None)
         \/ \E e \in FreeEntries(x) :
              /\ c' = Pending(AddRef(x, main.mem), e, main.mem, main.key, 0)
              /\ main' = [main EXCEPT !.at = IF delay > 0 THEN "jam" ELSE "send",
                                      !.entry = e]
              /\ UNCHANGED clientVars
  /\ UNCHANGED <<lock, syncVars, workVars>>

\* CDecompressor__DecompressAsync does not wait: a full queue refuses.
MakeAsync ==
  /\ MainAt("send")
  /\ IF Len(jobs) < JobsSize
     THEN /\ jobs' = Append(jobs, [entry |-> main.entry, sync |-> FALSE])
          /\ Returns(None)
     ELSE main' = [main EXCEPT !.at = "undo"] /\ UNCHANGED <<jobs, clientVars>>
  /\ UNCHANGED <<c, lock, syncVars, cacher, loads, unpacker>>

\* Mutant: the reference to what it is made of is kept.
MakeUndo_KeepsReference ==
  /\ MainHasLock("undo")
  /\ c' = Withdrawn(c, main.entry)
  /\ Returns(None)
  /\ UNCHANGED <<lock, syncVars, workVars>>

MakeUndo ==
  /\ MainHasLock("undo")
  /\ c' = Withdrawn(Unref(c, main.mem), main.entry)
  /\ Returns(None)
  /\ UNCHANGED <<lock, syncVars, workVars>>

\* CCache__Allocate: memory for the game's own use, pinned until it is
\* deallocated.
Allocate(n, recentToo, top) ==
  /\ MainHasLock("away") /\ References < MaxHeld
  /\ \E a \in Allocations(c, n, [persistent |-> TRUE, fixed |-> TRUE,
                                  recentToo |-> recentToo, top |-> top]) :
       IF a.mem = None THEN c' = a.x /\ UNCHANGED held
       ELSE /\ c' = [a.x EXCEPT !.mem[a.mem].holds = Private]
            /\ held' = [held EXCEPT ![a.mem] = 1]
  /\ UNCHANGED <<lock, syncVars, main, drawn, shown, workVars>>

\* CCache__TouchAndLock, for a resource the game holds and goes on to hold.
TouchAndLock(m) ==
  /\ MainHasLock("away") /\ References < MaxHeld
  /\ m \in Held /\ ~c.mem[m].persistent
  /\ c' = AddRef(Touched(c, m), m)
  /\ held' = [held EXCEPT ![m] = @ + 1]
  /\ UNCHANGED <<lock, syncVars, main, drawn, shown, workVars>>

\* CCache__Touch: what the game may want again soon.
Touch(k) ==
  /\ MainHasLock("away") /\ c.table[k] # None
  /\ c' = Touched(c, c.entry[c.table[k]].mem)
  /\ UNCHANGED <<lock, syncVars, main, clientVars, workVars>>

\* CCache__Unlock, for a resource the game has done with.
Unlock(m) ==
  /\ MainHasLock("away") /\ m \in Held /\ c.mem[m].holds # Private
  /\ c' = Unref(c, m)
  /\ held' = [held EXCEPT ![m] = @ - 1]
  /\ UNCHANGED <<lock, syncVars, main, drawn, shown, workVars>>

\* CCache__Deallocate, for an index or memory the game has done with.
Deallocate(m) ==
  /\ MainHasLock("away") /\ m \in Held
  /\ c.mem[m].persistent
  /\ c' = Deallocated(c, m)
  /\ held' = [held EXCEPT ![m] = 0]
  /\ UNCHANGED <<lock, syncVars, main, drawn, shown, workVars>>

SetFrameDelay ==
  /\ MainAt("away")
  /\ delay' = MaxDelay /\ delay' # delay
  /\ UNCHANGED <<c, lock, answers, blocker, dlist, main, clientVars, workVars>>

\* The game builds the list the RSP does not have.
BeginDisplayList(l) ==
  /\ MainHasLock("away")
  /\ dlist.current = None /\ l \notin shown
  /\ dlist' = [dlist EXCEPT !.current = l, !.valid[l] = TRUE]
  /\ drawn' = [drawn EXCEPT ![l] = {}]
  /\ UNCHANGED <<c, lock, answers, blocker, delay, main, held, shown, workVars>>

\* CCache__LockForDisplayList reads the current list before it takes the lock.
DrawFrom(m) ==
  /\ MainAt("away") /\ dlist.current # None
  /\ m \in Held /\ ~c.mem[m].persistent
  /\ main' = [Away EXCEPT !.at = "draw", !.mem = m, !.to = dlist.current]
  /\ UNCHANGED <<c, lock, syncVars, clientVars, workVars>>

LockForDisplayList ==
  /\ MainHasLock("draw")
  /\ LET l == main.to
         new == dlist.valid[l] /\ l \notin c.mem[main.mem].lists
     IN  /\ c' = IF new THEN [c EXCEPT !.mem[main.mem].lists = @ \cup {l}] ELSE c
         /\ dlist' = IF new THEN [dlist EXCEPT !.count[l] = @ + 1] ELSE dlist
         /\ drawn' = [drawn EXCEPT ![l] = @ \cup {c.mem[main.mem].at}]
  /\ main' = Away
  /\ UNCHANGED <<lock, answers, blocker, delay, held, shown, workVars>>

\* The engine submits the list only if it is valid.
EndDisplayList ==
  /\ MainHasLock("away") /\ dlist.current # None
  /\ LET l == dlist.current IN
     /\ shown' = IF dlist.valid[l] THEN shown \cup {l} ELSE shown
     /\ drawn' = IF dlist.valid[l] THEN drawn ELSE [drawn EXCEPT ![l] = {}]
  /\ dlist' = [dlist EXCEPT !.current = None]
  /\ UNCHANGED <<c, lock, answers, blocker, delay, main, held, workVars>>

\* CCache__Advance, once a frame; what it moves, it moves with the lock.
Advance ==
  /\ MainHasLock("away")
  /\ delay' = IF delay > 0 THEN delay - 1 ELSE 0
  /\ c' = [c EXCEPT !.mem = [m \in Mems |->
             IF m \in Allocated(c) /\ c.mem[m].age < StaleAge
             THEN [c.mem[m] EXCEPT !.age = @ + 1] ELSE c.mem[m]]]
  /\ lock' = "main"
  /\ main' = [Away EXCEPT !.at = "compact"]
  /\ UNCHANGED <<answers, blocker, dlist, clientVars, workVars>>

\* CCache__Compact: its position comes to an entry that may move, with free
\* memory below it; freed and allocated again, the entry moves down.
Movable(m) ==
  /\ m \in Allocated(c) /\ ~Pinned(c.mem[m])
  /\ \E a \in Fits(c, 1) : a < c.mem[m].at

MovedTo(m) == FirstFit(FreeMems(c, {m}), c.mem[m].size)

Compact(m) ==
  /\ MainAt("compact") /\ Movable(m) /\ MovedTo(m) < c.mem[m].at
  /\ c' = [c EXCEPT !.mem[m].at = MovedTo(m)]
  /\ UNCHANGED <<lock, syncVars, main, clientVars, workVars>>

CompactEnds ==
  /\ MainAt("compact")
  /\ lock' = None /\ main' = Away
  /\ UNCHANGED <<c, syncVars, clientVars, workVars>>

ClearLists(x, ls) == [x EXCEPT !.mem = [m \in Mems |-> [x.mem[m] EXCEPT !.lists = @ \ ls]]]

\* CCache__Flush and CCache__WaitForDisplayLists: the list being built is
\* spoilt, any other that draws is waited for.
Flush ==
  /\ MainHasLock("away")
  /\ LET busy  == {l \in Lists : dlist.count[l] # 0}
         mine  == busy \cap {dlist.current}
         waits == busy \ mine
     IN  /\ dlist' = [dlist EXCEPT
                !.valid = [l \in Lists |-> @[l] /\ l \notin mine],
                !.count = [l \in Lists |-> IF l \in mine THEN 0 ELSE @[l]],
                !.blocking = [l \in Lists |-> @[l] \/ l \in waits]]
         /\ c' = ClearLists(c, mine)
         /\ drawn' = [l \in Lists |-> IF l \in mine THEN {} ELSE drawn[l]]
         /\ lock' = IF waits = {} THEN "main" ELSE None
         /\ main' = [Away EXCEPT !.at = IF waits = {} THEN "free" ELSE "wait",
                                 !.left = Cardinality(waits)]
  /\ UNCHANGED <<answers, blocker, delay, held, shown, workVars>>

FlushWaits ==
  /\ MainAt("wait") /\ blocker > 0
  /\ blocker' = blocker - 1
  /\ main' = IF main.left = 1 THEN [Away EXCEPT !.at = "lock"]
             ELSE [main EXCEPT !.left = @ - 1]
  /\ UNCHANGED <<c, lock, answers, dlist, delay, clientVars, workVars>>

FlushLocks ==
  /\ MainHasLock("lock")
  /\ lock' = "main" /\ main' = [Away EXCEPT !.at = "free"]
  /\ UNCHANGED <<c, syncVars, clientVars, workVars>>

\* Everything that is not in use goes.
FlushFrees ==
  /\ MainAt("free")
  /\ c' = After(c, TRUE, Len(Victims(c, TRUE)))
  /\ main' = [Away EXCEPT !.at = "compact"]
  /\ UNCHANGED <<lock, syncVars, clientVars, workVars>>

----------------------------------------------------------------------------
(* The scheduler, the loader and the cache's thread                        *)

\* CCache__PostDisplayListDone: the scheduler posts it when the RSP is done with
\* the last task of the list.  The RDP may still be drawing.
PostDisplayListDone(l) ==
  /\ l \in shown /\ Len(answers) < AnswersSize
  /\ answers' = Append(answers, l)
  /\ shown' = shown \ {l}
  /\ drawn' = [drawn EXCEPT ![l] = {}]
  /\ UNCHANGED <<c, lock, blocker, dlist, delay, main, held, workVars>>

LoadAnswered ==
  /\ loads # <<>> /\ Len(answers) < AnswersSize
  /\ LET e == Head(loads).entry
         r == c.entry[e]
     IN  /\ c' = Written(c, Head(loads).to, r.length, OnCartridge(r.key, r.length))
         /\ answers' = Append(answers, e)
  /\ loads' = Tail(loads)
  /\ UNCHANGED <<lock, blocker, dlist, delay, main, clientVars, cacher, jobs, unpacker>>

Received == answers' = Tail(answers)

\* CCache__Main takes the lock for a list that is drawn.
TakeList ==
  /\ cacher.at = "idle" /\ answers # <<>> /\ Head(answers) \in Lists /\ lock = None
  /\ Received
  /\ lock' = "cacher"
  /\ cacher' = [cacher EXCEPT !.at = "release", !.list = Head(answers)]
  /\ UNCHANGED <<c, blocker, dlist, delay, main, clientVars, loads, jobs, unpacker>>

\* Mutant: the flag is cleared, but nothing is sent to who waits.
ReleaseDisplayList_Silent ==
  /\ cacher.at = "release"
  /\ dlist' = [dlist EXCEPT !.blocking[cacher.list] = FALSE, !.count[cacher.list] = 0]
  /\ c' = ClearLists(c, {cacher.list})
  /\ lock' = None
  /\ cacher' = [cacher EXCEPT !.at = "idle", !.list = None]
  /\ UNCHANGED <<answers, blocker, delay, main, clientVars, loads, jobs, unpacker>>

\* CCache__ReleaseDisplayList sends to whoever waits, and waits for room itself.
ReleaseDisplayList ==
  /\ cacher.at = "release"
  /\ LET l == cacher.list IN
     /\ dlist.blocking[l] => blocker = 0
     /\ blocker' = IF dlist.blocking[l] THEN 1 ELSE blocker
     /\ dlist' = [dlist EXCEPT !.blocking[l] = FALSE, !.count[l] = 0]
     /\ c' = ClearLists(c, {l})
  /\ lock' = None
  /\ cacher' = [cacher EXCEPT !.at = "idle", !.list = None]
  /\ UNCHANGED <<answers, delay, main, clientVars, loads, jobs, unpacker>>

\* An entry that is loaded, and has to be decompressed.
TakeLoaded ==
  /\ cacher.at = "idle" /\ answers # <<>> /\ Head(answers) \in Entries
  /\ LET e == Head(answers) IN
     /\ c.entry[e].unpack
     /\ c' = [c EXCEPT !.entry[e].unpack = FALSE]
     /\ IF Len(jobs) < JobsSize
        THEN jobs' = Append(jobs, [entry |-> e, sync |-> FALSE]) /\ UNCHANGED cacher
        ELSE /\ cacher' = [cacher EXCEPT !.at = "undo", !.entry = e]
             /\ UNCHANGED jobs
  /\ Received
  /\ UNCHANGED <<lock, blocker, dlist, delay, main, clientVars, loads, unpacker>>

\* Mutant: the data is given up, the entry is not.
Undo_KeepsEntry ==
  /\ cacher.at = "undo" /\ lock = None
  /\ c' = Deallocated(c, c.entry[cacher.entry].mem)
  /\ cacher' = [cacher EXCEPT !.at = "idle", !.entry = None]
  /\ UNCHANGED <<lock, syncVars, main, clientVars, loads, jobs, unpacker>>

\* The decompressor's queue is full: the entry and its data are given up.
Undo ==
  /\ cacher.at = "undo" /\ lock = None
  /\ c' = Withdrawn(Deallocated(c, c.entry[cacher.entry].mem), cacher.entry)
  /\ cacher' = [cacher EXCEPT !.at = "idle", !.entry = None]
  /\ UNCHANGED <<lock, syncVars, main, clientVars, loads, jobs, unpacker>>

\* An entry that is complete.
TakeComplete ==
  /\ cacher.at = "idle" /\ answers # <<>> /\ Head(answers) \in Entries /\ lock = None
  /\ ~c.entry[Head(answers)].unpack
  /\ c' = Completed(c, Head(answers), TRUE).x
  /\ Received
  /\ UNCHANGED <<lock, blocker, dlist, delay, main, clientVars, workVars>>

----------------------------------------------------------------------------
(* The decompressor                                                        *)

\* The callback finds where its entry's data is, and allocates and reads later.
TakeJob ==
  /\ unpacker.at = "idle" /\ jobs # <<>>
  /\ LET e == Head(jobs).entry IN
     unpacker' = [unpacker EXCEPT !.at = "alloc", !.entry = e, !.sync = Head(jobs).sync,
                                  !.from = c.mem[c.entry[e].mem].at]
  /\ jobs' = Tail(jobs)
  /\ UNCHANGED <<c, lock, syncVars, main, clientVars, cacher, loads>>

Job == c.entry[unpacker.entry]

\* CCache__AllocateMemoryForDecompression
AllocateForDecompression ==
  /\ unpacker.at = "alloc" /\ lock = None
  /\ \E a \in Allocations(c, Whole[Job.key], Flags(Job.key)) :
     /\ c' = a.x
     /\ unpacker' = [unpacker EXCEPT !.mem = a.mem,
                                     !.at = IF a.mem = None THEN "replace" ELSE "work"]
  /\ UNCHANGED <<lock, syncVars, main, clientVars, cacher, loads, jobs>>

\* The data becomes that of the new memory.
Original(k) == IF k \in Made THEN Res(Source[k]) ELSE Raw(k)

Decompress ==
  /\ unpacker.at = "work"
  /\ LET new == c.mem[unpacker.mem] IN
     c' = Written(c, new.at, new.size,
            IF ContentAt(unpacker.from) = Original(Job.key) THEN Res(Job.key) ELSE Junk)
  /\ unpacker' = [unpacker EXCEPT !.at = "replace"]
  /\ UNCHANGED <<lock, syncVars, main, clientVars, cacher, loads, jobs>>

\* What was packed is freed; what a resource is made of is given back.
DeallocAndReplaceCompressedData(x) == Deallocated(x, Job.mem)
ReleaseAndReplaceData(x)           == Unref(x, Job.mem)

Replace ==
  /\ unpacker.at = "replace" /\ lock = None
  /\ LET x == IF Job.key \in Made THEN ReleaseAndReplaceData(c)
              ELSE DeallocAndReplaceCompressedData(c)
     IN  c' = [x EXCEPT !.entry[unpacker.entry].mem = unpacker.mem]
  /\ unpacker' = [unpacker EXCEPT !.at = "reply", !.from = 0, !.mem = None]
  /\ UNCHANGED <<lock, syncVars, main, clientVars, cacher, loads, jobs>>

Answer ==
  /\ unpacker.at = "reply"
  /\ IF unpacker.sync
     THEN main' = [main EXCEPT !.at = "complete"] /\ UNCHANGED answers
     ELSE /\ Len(answers) < AnswersSize
          /\ answers' = Append(answers, unpacker.entry)
          /\ UNCHANGED main
  /\ unpacker' = [unpacker EXCEPT !.at = "idle", !.entry = None, !.sync = FALSE]
  /\ UNCHANGED <<c, lock, blocker, dlist, delay, clientVars, cacher, loads, jobs>>

----------------------------------------------------------------------------

GameStarts ==
  \/ \E k \in Keys, s \in BOOLEAN : Request(k, s)
  \/ \E k \in Keys : LoadPersistantIndex(k)
  \/ \E k \in Keys, m \in Mems : RequestDecompression(k, m)
  \/ \E k \in Keys : Touch(k)
  \/ \E n \in Own, recentToo, top \in BOOLEAN : Allocate(n, recentToo, top)
  \/ \E m \in Mems : TouchAndLock(m) \/ Unlock(m) \/ Deallocate(m) \/ DrawFrom(m)
  \/ \E l \in Lists : BeginDisplayList(l)
  \/ SetFrameDelay \/ EndDisplayList \/ Advance \/ Flush

GameGoesOn ==
  \/ RequestHit \/ RequestPending \/ RequestMiss
  \/ LoadSyncReturns \/ DecompressSync \/ SyncComplete
  \/ IndexProbed \/ RequestWhole
  \/ MakeHit \/ MakePending \/ MakeMiss \/ MakeAsync \/ MakeUndo
  \/ LockForDisplayList
  \/ CompactEnds \/ FlushWaits \/ FlushLocks \/ FlushFrees

Drawing  == \E l \in Lists : PostDisplayListDone(l)
Cacher   == TakeList \/ ReleaseDisplayList \/ TakeLoaded \/ Undo \/ TakeComplete
Unpacker == TakeJob \/ AllocateForDecompression \/ Decompress \/ Replace \/ Answer

Next ==
  \/ GameStarts \/ GameGoesOn \/ Stopped \/ (\E m \in Mems : Compact(m))
  \/ Drawing \/ LoadAnswered \/ Cacher \/ Unpacker

Spec == Init /\ [][Next]_vars

----------------------------------------------------------------------------
(* Properties                                                              *)

\* What the loader writes to, and what the decompressor reads and writes, is
\* still the memory of their entry, at the same address and with the same data,
\* although it was chosen and queued with the lock, and the lock was left since.
Waits(e, at, k) ==
  /\ c.entry[e].place = "pending" /\ c.entry[e].mem \in Allocated(c)
  /\ k = c.entry[e].key /\ at = c.mem[c.entry[e].mem].at

HasOriginal(e) ==
  /\ c.entry[e].place = "pending" /\ c.entry[e].mem \in Allocated(c)
  /\ c.mem[c.entry[e].mem].holds = Original(c.entry[e].key)

InFlightKept ==
  /\ \A i \in DOMAIN loads : Waits(loads[i].entry, loads[i].to, c.entry[loads[i].entry].key)
  /\ main.at = "load" => Waits(main.entry, main.to, main.key)
  /\ \A i \in DOMAIN jobs : HasOriginal(jobs[i].entry)
  /\ unpacker.at \in {"alloc", "work", "replace"} => HasOriginal(unpacker.entry)
  /\ unpacker.at = "work" => unpacker.mem \in Allocated(c) /\ unpacker.mem # Job.mem

\* Table, entries and memory agree: an entry is free, or pending and on its way
\* to be completed in one place only, or in the table with memory that names it.
OnItsWay(e) ==
  Cardinality({i \in DOMAIN loads : loads[i].entry = e})
  + Cardinality({i \in DOMAIN answers : answers[i] = e})
  + Cardinality({i \in DOMAIN jobs : jobs[i].entry = e})
  + (IF unpacker.entry = e THEN 1 ELSE 0)
  + (IF cacher.entry = e THEN 1 ELSE 0)
  + (IF main.entry = e /\ main.at \in {"load", "jam", "complete", "send", "undo"} THEN 1 ELSE 0)

RecordsAgree ==
  /\ \A e \in Entries :
       LET r == c.entry[e] IN
       /\ r.place = "pending" <=> OnItsWay(e) = 1
       /\ r.place # "pending" => OnItsWay(e) = 0
       /\ r.place = "used" =>
            c.table[r.key] = e /\ r.mem \in Allocated(c) /\ c.mem[r.mem].entry = e
  /\ \A k \in Keys : c.table[k] # None =>
       c.entry[c.table[k]].place = "used" /\ c.entry[c.table[k]].key = k
  /\ \A m \in Allocated(c) : c.mem[m].entry # None =>
       c.entry[c.mem[m].entry].place = "used" /\ c.entry[c.mem[m].entry].mem = m

\* A resource is locked by as many references as the game has, the requests
\* that are pending hold and the decompressor has: none is lost, none is given
\* back twice, and no memory stays locked for good.
LocksBalanced ==
  \A m \in Mems :
    c.mem[m].locks =
      held[m]
      + Cardinality({e \in Entries : c.entry[e].place = "pending" /\ c.entry[e].mem = m})
      + (IF unpacker.mem = m THEN 1 ELSE 0)

\* Whoever waits is answered, once: a decompression that is waited for is queued
\* or under way; the messages a flush waits for are there, or owed by lists that
\* come to be released; and none is left for the next one to wait.  Memory that
\* is locked for a list is released with it.
Comes(l) == l \in shown \/ (\E i \in DOMAIN answers : answers[i] = l) \/ cacher.list = l

Owed == {l \in Lists : dlist.blocking[l]}

WaitsAnswered ==
  /\ main.at = "unpack" =>
       \/ \E i \in DOMAIN jobs : jobs[i] = [entry |-> main.entry, sync |-> TRUE]
       \/ unpacker.entry = main.entry /\ unpacker.sync
  /\ blocker + Cardinality(Owed) = IF main.at = "wait" THEN main.left ELSE 0
  /\ \A l \in Owed : Comes(l)
  /\ \A l \in Lists : dlist.count[l] # 0 => dlist.current = l \/ Comes(l)

\* What the game is promised: what it holds is what it asked for and stays so,
\* until it asks for the same index again, and what a submitted display list
\* draws from stays as it was until the RSP is done with the list.
ContentOf(m) == IF m \in Allocated(c) THEN c.mem[m].holds ELSE Junk

Asking == {"request", "make", "load", "jam", "unpack", "complete", "send", "undo"}

asked ==
  IF main.at \notin Asking THEN Junk
  ELSE IF main.key \in Indexes /\ main.length = Probe
       THEN [key |-> main.key, part |-> "probe"] ELSE Res(main.key)

\* A game that loads an index again has done with what it had of it, for the
\* probe frees that.
Reloading ==
  /\ main.at \in Asking \cup {"probed"}
  /\ main.key \in Indexes /\ main.length = Probe

InHand ==
  [m \in Mems |->
     IF Reloading /\ ContentOf(m).key = main.key
     THEN IF main.at = "probed" /\ m = main.mem THEN 1 ELSE 0
     ELSE held[m]]

heldResources ==
  [r \in Contents |->
     FoldFunctionOnSet(+, 0, InHand, {m \in Mems : ContentOf(m) = r})]

open == {dlist.current} \cap {l \in Lists : dlist.valid[l]}

drawnResources ==
  [l \in Lists |-> IF l \in open \cup shown THEN {ContentAt(a) : a \in drawn[l]} ELSE {}]

Serves(g, r) == g.key = r.key /\ g.part \in {r.part, "whole"}
Anew(r)      == r.key \in Indexes /\ r.part = "probe"

Store == INSTANCE ResourceStore WITH
  Resources <- Contents, NoResource <- Junk, Own <- Private, held <- heldResources,
  drawn <- drawnResources

ImplementsResourceStore == Store!Spec
=============================================================================
