# TLA+ models of the Turok 2 engine

Turok 2 is a Nintendo 64 game; this repository holds its C source, one function per file
(`src/us/code/func_<address>.c`, names in `versions/names/`). Most of its 155,000 lines are numeric code that
one thread runs between two frames. What a test hardly reaches is the part underneath: a dozen threads of fixed
priorities, message queues, interrupts, and three pieces of shared hardware. These modules model that part,
check it with TLC and prove some of it with TLAPS.

Paths below are relative to the repository; `func_` and `.c` are left out of file names when the address is
enough.

## 1. The system

### Threads

| thread | priority | waits on |
|---|---|---|
| reader of the pager | 0x94 | `gPager.pending` |
| manager of the pager | 0x93 | `gPager.completion` |
| scheduler | 18 | `interruptQ`: retraces, RSP and RDP events, commands |
| loader | 17 | its queue, and the cartridge |
| audio manager | 16 | its frame message, its loads, its task |
| cache | 15 | `gCache.queue`: loaded and decompressed entries, finished display lists |
| decompressor | 11, or 14 while boosted | its queue |
| main (the engine) | 13 | `gGfxFrameMessageQueue`: retraces and finished frames |
| idle | 0 | |

A thread runs until one of higher priority is ready; interrupts come at any time.
(`versions/names/data_g4.us.txt:54`, `0028D820`, `0028E7A4`.)

### Components

| component | state | operations | how it meets the others |
|---|---|---|---|
| **Demand pager** | 24 frames with page and TLB index, the LRU list, a copy of the TLB, regions and their maps, 8 job blocks, two queues | TLB miss, queue a job, load, finish a job, reclaim, add a region | stops any thread that touches a page outside the TLB and starts it again; loads through the loader |
| **Scheduler** | two task lists, the current RSP and RDP tasks, task states, the ring of finished frames, what it believes the VI shows | retrace, RSP done or yielded, RDP done, command, schedule, yield | tasks from the engine and the audio manager; replies to both; tells the cache which display list is done |
| **Frame loop** | two frame tokens, three frame slots, two display lists, the mode | retrace message, finished-frame message, draw, submit, mode switch | drives everything the main thread does |
| **Audio manager** | the count of loads of a frame, a cache of windows on the cartridge | once per frame: await loads, build the list (jamming loads), submit, await the task | scheduler and loader |
| **CMutex** | a count and a queue of one message | lock, unlock, wait | used by the cache, the sound world and the controllers |
| **Loader** | a pool of 528 entries, a queue of 512 | synchronous, asynchronous and direct loads; the thread reads and replies | pager, cache, audio manager |
| **Cache** | hash table, heap blocks with lock counts and ages, entries, pending requests, display-list locks | request, probe, complete, lock, age, evict, compact, wait for display lists, flush | main thread, loader, decompressor, scheduler |
| **Heap, hash table** | blocks in address order and those with free memory after them; buckets with chains | allocate low, high or at an address, free; insert, remove, find | under the cache's lock |
| **Decompressor** | a queue of 128, a boost count | synchronous (jam, boost), asynchronous (may be refused), flush | cache; the scheduler counts the boost down |
| **Controllers, rumble** | the lock of the serial interface, which answer is on its way, what is plugged in, watched paks | the service of a retrace, motor reset, pak operations, insertion of paks | the service runs in the scheduler's thread at the end of each retrace, everything else in the main thread |
| **Controller pak, saves** | what is known of the pak, its file system and directory | mount, probe, repair, write, verify, delete | main thread; each operation holds the lock of the serial interface; the player swaps paks |
| **Modes, cinemas, demos** | a table of 18 modes, a script | start, retrace, end | main thread |
| **Sound world** | voices, sequences, queues of requests | play, stop, update | under a CMutex; frame by frame from the audio manager |
| Scene, actors, AI, player, collision, rendering, menus | large tables | per-frame updates | main thread only |

### What is hard, and what correct means

* **Pager.** A frame is reclaimed while jobs for it are queued, loading or handed back, and two threads may want
  one page. Correct: no thread ever reads a frame that does not hold its page; no page matches two TLB entries;
  no stopped thread is forgotten; the manager, which alone returns job blocks, never waits for one.
* **Scheduler and frame loop.** RSP, RDP and VI events arrive in any order and may be old when they are handled;
  audio interrupts graphics; records and lists are reused by counting. Correct: nothing is drawn into what is
  shown or waits to be shown; every frame is drawn and shown once, in order; no event meets a task that is gone;
  the two tokens are conserved; frames and sound never stop.
* **CMutex.** Count and queue are changed in two steps. Correct: exclusion, no lost wake-up, an unlock that never
  blocks, and a wait that outlasts the holder.
* **Loader.** Loads overtake each other in pieces, and a load is given up silently when the pool is empty.
  Correct: the pool never runs dry, no entry leaks, and a reply means the load is complete and somebody waits.
* **Cache and decompressor.** The lock is released during a load; memory that a display list draws must not be
  freed; a refused request must be taken back. Correct: memory in flight keeps its place and its resource, table,
  entries and memory agree, whoever waits is answered once, and the game is given what it asked for.
* **Heap and hash table.** Removal merges blocks and moves entries of other keys. Correct: pieces never overlap, a
  request is refused only when nothing fits, and the table is a map.
* **Controllers.** A command is begun in one turn and its answer taken in the next, perhaps by another thread. Correct:
  one command at a time, every answer the one that is waited for, every operation ends, a swapped pak is noticed.
* **Saves.** Any call may fail and the player may pull out the pak or put in another. Correct: no other note is
  lost, and "saved" means that the note is there.

`PROJECT.json` lists the hazards line by line, with the property that covers each or the reason none does.

## 2. Modules

| module | what it is | code |
|---|---|---|
| `VMPager` | the pager: faulting threads, manager, reader | `0028D820`-`0028ED10` |
| `DemandPaging` | what the pager promises: waiting threads, resident, visible and pinned pages | |
| `VMPagerProofs` | theorems about the pager, and that it implements `DemandPaging` | |
| `MCVMPager` | instances for TLC | |
| `Scheduler` | scheduler, frame loop, audio task, RSP, RDP and VI | `0028A020`-`0028B3E8`, `00286674`, `00286B58`, `00287248`, `00288C80`, `00289DFC`, `0026FD88` |
| `FramePipeline` | what the scheduler promises: drawing, ready, on screen | |
| `SchedulerProofs` | theorems about tasks, frames and the screen, and that it implements `FramePipeline` | |
| `MCScheduler` | instances for TLC | |
| `CMutex` | the lock | `00201AA4`, `002019F0`, `002714B0`, `00271514` |
| `CMutexProofs` | theorems about the lock | |
| `Loader` | pool, queue, loader thread and the three kinds of load | `00201CC0`-`002020C8`, `0026FEA0`, `002700D0` |
| `LoaderProofs` | theorems about the pool, the replies and what they say | |
| `MCLoader` | instance for TLC | |
| `Cache` | requests, entries, memory and locks of the cache, its thread and the decompressor's | `00200B00`, `00201B50`-`00201FBC`, `00202BB0`-`002067C4`, `00220208` |
| `ResourceStore` | what the cache promises: a request is answered, what the game holds stays, and so does what a list draws until the RSP is done with it | |
| `CacheProofs`, `CacheRecordsProofs` | theorems about the cache's messages and its records | |
| `MCCache` | instances for TLC | |
| `CHeap`, `CHashTable` | the heap and the hash table | `002021F0`-`002026EC`, `00202860`-`00202A08` |
| `Arena`, `KeyMap` | what they promise: pieces that do not overlap, a map | |
| `StorageProofs` | theorems about the heap and the table, and that they keep their promises | |
| `MCStorage` | heap, hash table and lock for TLC | |
| `Controllers` | the serial interface between the scheduler and the main thread | `00284B94`, `002847E0`, `00284CE0`-`00285AE0`, `00426480` |
| `PakNotes` | a verified save on a pak that may fail and be swapped, and notes known by their names | `00425760`-`0042670C`, `0041F0C8` |
| `PadsProofs` | theorems about both | |
| `MCPads` | both for TLC, side by side | |

A definition that translates code is listed with its lines under `map` in `PROJECT.json`. Definitions named
`X_Something` in front of an `X` are plausible slips in the code behind `X`; replacing `X` by one must break the
property it is listed with under `mutants`.

### VMPager

`page`, `tlb` are the fields of `gPager.slots`; `chain` the LRU list, as a sequence; `entries` the pager's copy of
the TLB and `hw` the TLB itself; `map` the maps of all regions in one function (a page belongs to one region);
`frame` what the memory of a frame holds, which no variable of the code says. A job block is named by the thread
it resumes, because a thread has one fault at a time. With the expansion pak (`FirstTLB` 1) entry 0 is wired: its page mask,
0x7E000, makes it match all pages of the first region, which it translates to a copy of the region in the pak's memory
(`0028D820:70-75`). Those pages (`WiredPages`) never fault; `Matches` says which pages an entry matches.

A handler of the manager is one action: only the reader outranks it, and the reader is then blocked. The reader
is two: `ReaderLoad` (or `ReaderSkip`) takes a job and decides, `ReaderLoaded` comes when the cartridge is read.
Between them other threads run and fault. `__osFaultedThread` is one variable, as in the system. `OtherFault`
and `TLBMissOutside` are the restart of the game. The counters that `VM_Age` keeps are left out, and so are
`VM_Free` and `VM_FreeRegion`, which nothing calls (a region freed while a job for it is under way would go wrong).

### Scheduler

The records `sc` and `video` hold the fields of the scheduler and the frame globals; its handlers are operators
on them because they call each other (`HandleRSP` is called by the RSP event and by the retrace). The scheduler
outranks its clients, so they run only while it waits; the hardware runs at any time, and its events pile up.
The VI is two framebuffer pointers, swapped by the retrace, which is before the scheduler hears of it. The RSP
may yield at any point, before or after the full sync its display list ends in (`RSPWritesSync`). The engine's
drawing is one step, and the two sends of `Sched_SubmitTask` are two.

Left out: the watchdog of 1200 retraces, the reset path, times and statistics, the decompressor's boost count, and
the send to the cache's queue, which is taken not to block.

### CMutex

Lock is `Lock` (count) then `Enter` (message); unlock is `Unlock` then `LetIn`. A woken thread looks at the queue
again, as `osRecvMesg` does, so another may take the message first. The cache has the same code in line. `since` is a
history variable. `include/ultra_types.h:156` calls the lock recursive, but it has no owner: a holder that locked again
would wait for its own unlock. No caller does, and in the model no holder locks.

### Loader

The pool is a count: entries are alike, and only their number matters. A load is a number of chunks, named by the
request or the thread it is for. Each statement of a load that touches shared state is a step (`Alloc`, `Put`,
`Return`), and so is each of the loader's (`Take`, `Loaded`, `Reply`, `Dealloc`). A blocked sender or receiver is an
action that is not enabled.

### Cache

`c` is one record with the cache's memory entries, cache entries, lists and table, because its operations are operators
on it that call each other; `dlist` has the flags and counts of the display lists; `answers`, `blocker`, `loads` and
`jobs` are the queues between the four threads; `main`, `cacher` and `unpacker` are where three of them are (the loader
is its queue); `held`, `drawn` and `shown` are what the game does with what it was given. A memory entry has an address and a
size, and `holds` what its memory contains, which no variable of the code says; reads and decompressions write to
addresses, whoever has the memory by then. A step is what a thread does with the lock, or between two waits without it
(`CMutex` shows that the lock excludes). Records that are free are alike but may be any. Compaction may at any time move any
entry that may be moved and has free memory below it, any number of times: that is more than the position that
`CCache__Compact` advances can do. `Made` are resources computed from others (lit vertices). Ages stop at `StaleAge`, above
which they are alike. The game asks for anything, holds it up to `MaxHeld` times, and draws what it holds in the list that
is being built; it locks memory for a list only while one is open. `ImplementsResourceStore` maps this to `ResourceStore`,
which knows neither memory nor messages. Two of its limits are the code's. An index that is asked for is probed first, and
the probe is freed whoever refers to it (`00205B94:38`): when the whole index was in the table already, what the game had of
it is void. `AskAnew` of the store says so: asking for an index gives up what one had of it, and a game that used its old reference
afterwards would use freed memory. And `CCache__PostDisplayListDone`
is posted when the RSP is done with the list's last task (`0028A43C:105`), not when the RDP has drawn it: the store promises the
list's memory until then, and no longer. `LoadPersistantIndex` reads through the result of the request without a test
(`00205B94:28,49`): a refused request stops the game there (`Stopped`).

Left out: `AllocateAt`, which start-up uses for the frame buffers; decompression from the top of the heap;
`LookupAndLock`, which nothing calls; a second memory for one request; the limit of 0x400 entries; the rounding of
odd sizes, through which a hit may ask for less than is recorded; and the boost of the decompressor's priority.

### CHeap, CHashTable

`CHeap` keeps addresses, headers and both lists as the code does, in bytes, with a small header and grain, and so shows
the splitting and merging of blocks; `GapsFound` is about its search, `ChainsSound` about the table's links. Their
refinements to `Arena` and `KeyMap` say that nothing of this is visible. `MCStorage` puts heap, table and lock into one
instance: they share no state, so a behaviour is one of one of them (`part`).

### Controllers

`access` counts the messages of `gPakAccessQueue`, `queueState` is `gPakQueueState`, `wire`, `siQueue` and `pif` are the
interface: commands to come, the message that one is answered, and the answer that lies in its memory. The service is
in the scheduler's thread, which outranks the main thread: `MainRuns` lets the main thread run only where the service
waits or is away. The service waits for the interrupt in `Service_ReadAll` and `Service_MotorDone`; the main thread's
operations are commands between `Main_Lock` and `Main_Unlock`, up to `MaxCommands` of them. The rescan at the end of the
service, in mode 8, is outside of the lock, as in the code. Left out: `gPakQueueState` 3, which nothing assigns, the
values of sticks and buttons, and whether a motor is started or stopped.

### PakNotes

One thread calls the pak's file system, so a step is one call. `mounted` and `listed` are what the last mount has read,
`pakState` and `pakError` what it said; `note` is what the paks hold. The player may pull out the pak at any time, and
put one in only while the lock is not held (`Between`); it is held for a fraction of a second. A call may fail for nothing
(`faults`, up to `MaxFaults`) or because the pak is not the mounted one (`Reached`), and a write may succeed and leave what
cannot be read back. Notes have names: `name` is what they are called on the pak, `listed` what the directory has. The file
system finds, creates and deletes a note by its name (`Named`), and the code takes the name from the directory. When
a note's state cannot be read twice (`NoteTries`), `Pak_RefreshNotes` keeps the name it had, and the pak counts as mounted all the
same (`Refresh`, `Mounts`). A deletion can therefore hit another note, and `OthersKept` says what that takes. Left out: the letters
of a name and how one is chosen (the model takes any that the directory does not have), free space beyond a free
note, loading, and the menu's own deletion, which deletes what the player asks for.

## 3. Runs

| run | instance | asks | states |
|---|---|---|---|
| `pager` | 3 threads that touch 4 of 6 pages, 5 frames, 3 job blocks, TLB of 2 with entry 0 wired to the first region of 2 pages | with jobs that queue and threads that want one page: are skipped loads safe, does the TLB match no page twice, does every stopped thread run again? | 369,000 |
| `pager_evict` | 2 threads that touch 5 of 6 pages, 4 frames, TLB of 2, first region of 4 pages | are map, frames, TLB entries and the LRU list consistent through reclaiming and recycling, is every translation correct, and does the pager implement `DemandPaging`? | 1,001,000 |
| `sched_pacing` | frames of 2 or 3 retraces, mode switches, scheduler up to 2 retraces late | is drawing kept off the screen, are frames shown once each and in order, and is a mode switched only when the RSP has nothing of the old one? | 2,459,000 |
| `sched_tasks` | frames of two tasks, refused lists, audio tasks that come between and during them | does every event find its task, are tokens conserved, lists reused only when free, and every frame seen? | 1,322,000 |
| `sched_live` | audio while the engine waits | does each framebuffer come on the screen again and again, and does sound go on? | 144,000 |
| `loader` | a reader (synchronous), the main thread (2 requests), audio (2 windows); loads of 1 or 2 chunks; queue of 2, pool of 6 | does the pool suffice, do replies mean what they say, does every load end? | 60,000 |
| `cache_loads` | a plain, a packed and a made resource, 3 entries, memory for 3 units, of which all would take 4; queue of 1 to the decompressor | does what is in flight keep its memory, do table, entries and memory agree, is no reference lost, and is `ResourceStore` implemented? | 319,000 |
| `cache_lists` | an index and a plain resource, memory of the game's own, 2 display lists | is whoever waits answered once, and does what lists draw stay until the RSP is done with it? | 143,000 |
| `storage` | a heap of 23 bytes, 4 keys of which 3 collide in a table of 3, a lock for 4 threads | first fit, no overlap, refusal only without a gap; chains, the map; exclusion, wake-ups, unlocks that never block, the barrier | 1,558 |
| `pads` | one port, commands of up to 2, with and without mode 8; 2 paks of 3 notes, 2 names, 5 faults | one command at a time, the right answer, operations that end, swaps that are noticed; with fewer than five faults, is no other note lost, and with one, is the save message true? | 259,000 |
| `pads_menu` | one port, mode 8 | does the service always come to its end? (**no**) | |
| `saves_lost` | 2 paks of 2 notes and 5 faults | does "saved" mean that the note is there? (**no**) | |

**Why the bounds are enough.** In `pager_evict`, more pages than frames makes every page be reclaimed, fewer
TLB entries than page pairs makes the cursor wrap, and with frames at the least number the assumption allows the LRU
list runs as short as it can. In `pager`, three threads are the fewest with one job loading, one queued behind it and one
handed back, which a skipped load needs; `Touched` bounds the pages to one of the wired region, a pair, and one of another, so that
both halves of an entry and the recycling of entries occur. In the scheduler nothing is scaled down: three framebuffers, two tasks per
frame, queues of 8; the bounds are on how late it is (`MaxLate`), how many retraces wait for the engine (`MaxBacklog`) and
where audio may come (`SoundAt`). `EveryFrameSeen` holds for a scheduler less than two retraces late and frames of two
retraces at least; the run has `MaxLate = 1`, and the code never asks for less than two (`00287ABC:64`). In the loader the
queue can be full with every thread blocked on it, which is the worst case of the pool. `VM_Alloc` is bounded by
`NumPages`. In the cache the memory is too small for all resources, so that it evicts and refuses, the decompressor's queue of
one is often full, and two display lists are all there are; `MaxHeld` and `StaleAge` bound what would grow. The heap has room for
three blocks with holes between them; the table's capacity is what makes a bucket chain of three. In `pads` a rescan comes every
second service (`RescanPeriod`, 60 in the code) and the pak's file system makes up to two commands; five faults
are one more than `OthersKept` is about, and enough for two notes that are not read and one that is damaged; two paks are
the one that is mounted and the one put in for it, with room for a note of the same name elsewhere. A behaviour of
`pads` is one of the ports or one of the saves, which share only the lock. Paks, notes and names are symmetric in it;
the liveness it checks is about the ports, whose states name none of them, so the symmetry merges only states in which
it has nothing to say.

**Fairness.** *Pager*: the manager and the reader outrank every game thread, so they run when they can (weak);
the load ends however often game threads fault meanwhile, since the loader outranks them too (strong, because a
handler of the manager disables the loader for its length). *Scheduler*: its handlers, the RDP and the end of an
RSP task are weakly fair. Strong: the RSP gets some of a task done between two yields; the lower threads get time
between events; and some retraces find the RSP idle, because an audio task takes a small part of a retrace and
comes at the rate of the sound hardware, not of the display. *Loader*: every thread that can go on does (weak),
and a sender blocked on the full queue gets its turn (strong, `osRecvMesg` starts one); no thread has to begin a
load, and `LoadsFinish` assumes that jams stop at some time. *Controllers*: a retrace comes again and again and the
interface answers (weak); the main thread ends what it has begun and draws frames (strong, since the service disables
both while it runs, takes a small part of a retrace, and finds the main thread first in the queue for the lock). No
operation has to be begun.

**What the runs show.** All properties of the passing runs hold. Two are violated by the code:

* `ServiceRuns` (`pads_menu`). In mode 8 the service ends by setting `gPakQueueState` to 1 every 60 frames, outside of the
  lock and even when it did not get it (`00284B94:51-56`). If the main thread is inside a pak operation, which has just
  set the state to 2, the next `Controller_ReadAll` waits for the answer to a query that was never begun. In the
  scheduler's thread this stops the game. `AnswerIsAsked` and `OperationsEnd` hold as long as mode 8 is not entered.
* `SavedMeansKept` (`saves_lost`). `Pak_SaveNoteVerified` returns the result of its last write, also when the note did not
  read back and was deleted or could not be (`00426164:78,86`); the menu then says that the game is saved.
  `OneFaultSurvived` is what holds: with one fault at most the message is true.

Other things met while modelling, which the properties take into account:

* Five failing calls and a swap cost the player another note: both queries of a free note fail at the mount before the save
  and keep the name of a note of the pak before; both fail again after the write; the verification fails; and
  `Pak_DeleteNote` deletes the note that has that name on the pak that is in (`00425760:17`, `00426064:25`). `OthersKept` is
  about fewer than five, and its bound is sharp: with `< 6` in it the run has this as a counterexample.
* A frame that is with the RDP when the mode is switched is not waited for: `SwitchIsQuiet` is about the scheduler and the RSP.

* A task that yielded after its RDP half was done may have its own framebuffer on the screen. `__scTaskReady` then
  refuses it, and only a retrace that finds both processors idle finishes it (`0028A17C:95`). Without such a retrace
  frames stop; hence the third strong fairness above.
* Before the first frame is shown, the framebuffer test does not protect frames that wait in the ring. It does no
  harm, because the first frames ask for two retraces.
* The record of a frame slot (`m_nPredictTicks`) may be rewritten for the next frame while the slot's last one still
  waits in the ring; it then waits as long as the new one asks.

## 4. Proofs

For every value of the constants the named assumptions allow:

| theorem | says |
|---|---|
| `VMPagerProofs!InvariantHolds`, `TypesHold` | the inductive invariant of the pager, and its types |
| `TranslationIsCorrect`, `TLBIsCoherent`, `ResidencyIsConsistent`, `SkippedLoadsAreSafe` | properties of the two pager runs |
| `TheChainIsSound`, `PagerImplementsDemandPaging` | `ChainSound`, and the step simulation of `DemandPaging` |
| `JobFramesAreExclusive`, `FaultsAreNotLost`, `TheManagerNeverBlocks` | jobs never share a frame, the one faulted-thread variable suffices, a job block is always free |
| `SchedulerProofs!TasksHold`, `FramesInTurn` | the inductive invariants of the tasks and of the framebuffers |
| `EventsComeOnce`, `TwoFramesInHand`, `DisplayListsAreKept`, `SwitchesAreQuiet` | `EventsExpected`, `TokensConserved`, `DisplayListKept`, `SwitchIsQuiet` |
| `NothingTears`, `EachFrameIsSeen`, `ImplementsPipeline` | `NoTearing`, `EveryFrameSeen`, `PipelineSpec` |
| `CMutexProofs!InvariantHolds` | the inductive invariant of the lock |
| `LockIsExclusive`, `NoWakeUpIsLost`, `WaitOutlastsTheHolder` | what `storage` checks of the lock; the second also that an unlock never waits |
| `LoaderProofs!InvariantHolds`, `NoEntryLeaks`, `PoolNeverRunsDry`, `StackQueuesAreAlive` | types of the pool, conservation of entries, `PoolSuffices`, `StackQueueAlive` |
| `AnswersMeanLoaded`, `AudioIsOwed` | `AnswerMeansLoaded`, `AudioOwed` |
| `CacheProofs!InvariantHolds`, `WaitersAreAnswered` | what is queued, owed and waited for in the cache; `WaitsAnswered` |
| `CacheRecordsProofs!RecordsHold` | the inductive invariant of the cache's records, queues and threads |
| `LocksAreBalanced`, `RecordsAlwaysAgree`, `InFlightIsKept` | `LocksBalanced`, `RecordsAgree`, `InFlightKept` |
| `StorageProofs!HeapHolds`, `TableHolds` | the inductive invariants of the heap and of the table |
| `HeapIsArena`, `TableIsMap` | `ImplementsArena` and `ImplementsKeyMap` |
| `GapsAreFound`, `ChainsAreSound` | `GapsFound`, `ChainsSound` |
| `BlocksStayApart`, `CompactionMovesDown` | blocks in use do not overlap, and compaction copies downwards |
| `PadsProofs!CommandsTakeTurns`, `AnswersAreAsked` | `OneCommand`, and `AnswerIsAsked` outside of mode 8 |
| `SavesKeepOthers`, `SavesSurviveOneFault` | `OthersKept`, `OneFaultSurvived` |

**Assumptions.** `PagerAssumption`: at most as many threads as job blocks, and two frames more than job blocks (the
code has 7, 8 and 24); an even number of pages; and fewer frames, entries and pages than the codes 255, 255 and 65535 that
stand for none. `SchedulerAssumption`: frames ask for a number of retraces that is bounded, two among them; and the scheduler
is at most five retraces late (`MaxLate`), since its event queue has eight places, of which the RSP, the RDP and a command
take three. `DisplayListsAreKept` supposes two display lists at least (the code has two), and `EachFrameIsSeen` what its
property needs, a scheduler less than two retraces late and frames of two retraces at least. `PoolSound`: the pool exceeds the queue by more than the number of threads (the code has 528,
512, and fewer than 16 threads that load). `ThreadsFinite`. `CacheSound`: names are distinct,
sizes positive, cache entries and display lists finitely many; a resource is an index, plain, packed or made of one of the latter two.
`ControllersAssumption`, `PakAssumption`: the same for ports, modes and paks. `HeapSound`: a header is whole grains and fits
the heap. `TableSound`: a capacity of one at least, and a value that stands for none, which is no odd slot (the code's is 0).

**The pager.** `TranslationCorrect` is not inductive: that the TLB shows a page's contents depends on what the
frames of jobs under way hold, which depends on where each job is. The invariant adds, part by part: where a job
can be (`PlacesOK`: queued, with the reader or handed back, in one place at most); that its frame is its own and
empty (`JobsOK`); that a fault or a request is alone in the completion queue and the reader is not about to add to
it (`MessagesOK`, the effect of the priorities); that the LRU list is the complement of the frames of jobs
(`ChainOK`); that job blocks are counted (`JobsCounted`); that resident pages have their contents, and so does the
frame of a job handed back for a page that is not resident (`FramesOK`); and the agreement of map, frames, entries
and TLB. `TLBIsCoherent` adds that no thread's page is one of the wired entry's (`WiredKept`): they never fault, so none is mapped.
That the reader may skip a load is the delicate case: nothing but a fault
reclaims a frame, and a fault waits until every job that was handed back before it is finished. Mapping into the buddy's entry, mapping into a
recycled entry, and reclaiming each preserve `TLBInv`, the part about map, frames, entries and TLB; then there is one lemma
per action. `ChainSound` follows from the invariant: a job has its own thread, so jobs hold at most as many frames as there
are job blocks, and the list is what is left of two more. `PagerImplementsDemandPaging` has one lemma per action as well,
which names the step of `DemandPaging` it is, or shows that it is none: a reclaimed page leaves the resident and the visible
pages in the step that takes its frame, and a page becomes visible in the step in which its thread goes on.

**The tasks of the scheduler.** `EventsExpected` holds because a processor that is current in `sc` runs that task or has
reported it; that nothing is reported twice needs to know what may be listed, yielded and on its way at once. `TasksInv` gives
every task a rank that follows from the engine's slot and place alone (`Rank`: the age of the frame slot, then the half of
the frame), and says that the tasks the RSP has not finished, wherever they are, are an unbroken run of ranks that ends
with the one that was handed over last (`Ordered`); that the RDP's task is the lowest; that what is left of a task shows in its
state (`States`), so that a yielded task is at the head of the list; and that the audio task is in one place (`Sound`).
With this go the counts of events (`EventsDue`), the commands to come (`Waits`), the tokens (`Tokens`) and the display lists
(`Lists`, whose list of the slot before last is the other one). The operators on the record (`Schedule`, `Exec`, `HandleRSP`,
`FinishFrame`, `AppendAll`...) are taken first, for any record and any set of tasks on their way, then the actions, with one
lemma each for the part of the invariant they can disturb.

**The frames on the screen.** What the scheduler believes of the VI lags behind by as many retraces as wait in
its queue. `VideoInv` says that frames come in the order of their slots: the frame on the screen or pending, those that wait for
it in the ring, then the one the RDP finishes next (`NextShown`), which is that of the lowest task still to be
drawn (`InTurn`). With three slots this leaves the RDP none that is shown, by the scheduler's belief or by the VI's. Until the first
frame is shown the test of `__scTaskReady` protects nothing, and `Start` says why none waits. For `EveryFrameSeen`, `SeenInv` adds
when the VI may not have taken a framebuffer yet: only while no retrace has passed since the hand-over or the one that has
still waits in the queue.

**Frames in turn.** `ImplementsPipeline` needs no further invariant. A frame is being drawn while its last task is with the
scheduler or the RDP, queued, or not yet handed over (`BeingDrawn`); by `TasksInv` the engine's slots are taken in turn, so that
the frames drawn are a set of slots, listed from the oldest on (`DrawingIsListOf`), and likewise what is ready is read off the
ring as the VI will come to it (`Follow`, `ReadyIs`). A step submits the engine's frame (`DrawPipes`), finishes the RDP's (`RDPPipes`), which
`VideoInv` shows is the oldest and not shown, shows the next one (`RetracePipes`), or leaves all three as they are.

**The lock.** The count is the number of threads that hold or want it, and the right to hold it is in one place: a
holder, a thread about to send, or the message. Cardinalities of sets of threads carry the argument.

**The pool.** Entries are free, queued, with the loader, or with a thread about to queue one. At most one per thread
is in the last place, at most the queue's room in the second; the assumption leaves one free.

**The replies of the loader.** A synchronous load waits on a queue on its own stack, which is gone when it returns. The
invariant is about the entries, queued or with the loader, that will send a reply (`ToAnswer`): one for each call that
waits without an answer, none for any other. The lemmas follow them through a jam, a put and a take.
`AudioOwed` counts the entries of the audio manager in the same way. For `AnswerMeansLoaded`, what is `missing` of a load is
counted by its entries, queued or being read, and by those its caller has still to make (`CountInv`); and the entry that
carries the answer of a load for the cache is behind the load's others, which a jam in front does not change (`LastInv`).

**The cache.** The invariant speaks of flags, counts, queues and places only, never of what memory holds. A
decompression that is waited for is the one synchronous job, queued or under way (`OneSyncJob`); the messages in the
blocker queue and those still owed are as many as the main thread waits for (`MessagesOwed`); a list that is waited for or
locks memory is the current one or will come to be released (`ListsCome`). This part is `IInv`.

**The cache's records.** None of the three properties is inductive: that a lock is given back once needs to know that the
request it is for is on its way in one place, and that nobody frees the memory of a request under way needs to know that it is
locked. `RInv` says of the records (`Sound`) that what is allocated lies in the heap and apart, that table, entries and memory
name each other (`Agree`), and that indexes are persistent and nothing that is drawn or decompressed from is (`Marked`). Of the
requests it says what their memory is (`PendingOk`; `Sole`: nobody else holds the memory of a request that is not made of the game's),
that locks are counted (`LocksOf`), that a pending request is in one place (`Tokens`), and what each place may rely on:
the loader on the address and the size it was given (`LoadedOk`), the cache's thread on a request it may complete (`AnswerOk`), the
decompressor on data that is still packed and on memory that is its own (`JobOk`, `UnpackerMem`), the main thread on the request it
waits for (`MainOk`, `ClientOk`). The proof does not go through the invariant's parts for each action. It first takes the
operators on the records one by one: what eviction, allocation, completion and compaction may change in records that are sound
(`Thinned`, `Given`, `Freed`, `Soft`, `Tabled`, `MovedIs`). Then it shows once that a step which moves the requests `E` and the memory `M`
(`Moves`) leaves the promises to all other requests as they were (`OthersOk`, and the lemmas named `...Carried`), so that an action has
to answer only for what it moves (`MovesStep`). Where a request goes is counted over the queues (`Ways`). Eviction, at any point
of an allocation, moves nothing, because what it takes is neither locked nor pending.

**The ports.** `OneCommand` needs that one thread holds the lock (`OneHolder`) and that who begins a command has taken the
answer to the one before, and gives the lock back with a command under way only if `gPakQueueState` says so (`BegunInTurn`).
`AnswerIsAsked` adds that while the lock is free, or a thread waits, what the state names is what comes (`AnswerInv`), which
the rescan of mode 8 breaks; the theorem is therefore about behaviours without it, as the run's property is.

**The saves.** From the first call of a save to the deletion of its note, the mounted pak is the one the note was begun on and
the file is one that was free, whatever is in the slot; calls reach only the mounted pak (`PakInv`). So only the deletion, which
goes by the directory's name, can be of another note (`NotesKept`). `Counted` says what has been spent when that name is wrong
(`Misnamed`): two faults for a name where the file was free, two for the same name after it was written, and one for a note
that does not read back. Each is shown where it is spent, by what `Pak_Mount` costs (`MountSpends`, by the cardinality of
the notes it could not read). For `OneFaultSurvived`, `Stage` says what is on the pak at each place of a save while one fault
is spent at most: the first try may have left a damaged note, or one that cannot be checked, and the second one finds
nothing that fails.

**The heap.** Its lists are described without following them: a link leads to the next block in address order of those in use,
or of those with free memory after them (`IsNext`, `IsLast`), so that a list is a set and an operation on it adds or drops a
member. `HeapOK` says this of both lists, and that each block and the free memory after it reach to the next block, in whole
grains. `CHeap__Alloc` and `CHeap__AllocTop` are shown to build what `CHeap__AllocAt` builds at one address (`AllocIs`,
`AllocTopIs`), and the freeing of a block is shown list by list (`JoinIs`, `MergeIs`, `DropIs`). A search returns the first or last
member with room (`SearchUp`, `SearchDown`), because its links fall in a rank; `CHeap__FreeAll` is an induction over the number of blocks.
From there every step is a step of `Arena`, and a gap with room lies after one block, which the searches find.

**The table.** A removed slot takes over its successor, so entries move while others are linked to them. `TableInv` says that used
slots have a key and no key twice, that a bucket holds a key of its own, that an odd slot has one predecessor, in its bucket,
and that links fall in some rank (`Falls`), so that chains end. A chain is never followed: its slots are those of its bucket. Each of the
four ways to write the table (`AddBucket`, `AddOdd`, `DropEnd`, `TakeOver`) gives a new rank; what is stored is a set of pairs, which
is the map. An odd slot is free while there are fewer keys than `Capacity`, by counting.

**Only model-checked.** `FramesKeepComing` and `AudioAnswered` of the scheduler; `FaultServed` of the
pager; `LoadsFinish` of the loader; `ImplementsResourceStore` of the cache;
`OperationsEnd` and `ChangeNoticed`. Liveness under fairness and `ENABLED` are beyond the prover. Induction is possible over
numbers only, by the least member of a set of them (`Upwards`), which is what the searches and chains above use.
`ImplementsResourceStore` has no such obstacle: it needs the contents of memory in the invariant, and is the first item of the plan.

## 5. Plan

Done: pager, scheduler, lock, loader, cache with decompressor, heap, hash table, controllers, saves. What would come next:

1. The steps of `ImplementsResourceStore`, from `RInv`.
2. The scheduler and the cache in one model, with the post of a finished display list to a queue that may be full: each
   is modelled with its side of that queue.
3. The audio manager's windows, with the music that decides how many a frame needs.
4. Modes and cinemas as a graph, if properties that relate them to the other threads are found; mode 17, the one that waits
   for them, is in `Scheduler`.

The modules have no recursive operators, so all of them can be proved about.

## 6. Not modelled

Rendering, animation, collision, AI, players, particles, cameras and mathematics are sequential and numeric; menus and
the HUD are user interface; libultra and libaudio are the console's library, of which the modules model the queues, the
VI manager and the task calls they use; the RNC unpackers are hand-written assembly; host I/O and the tools of the
repository are not part of the game. The table of modes and the cinemas' scripts are straight-line code of the main thread
with no property beyond what each entry assigns; only mode 17 waits for other threads. This is most of the repository: the
modelled part is what threads, interrupts and shared hardware make hard, and it is a small share of the lines. Of the
modelled components, `PROJECT.json` notes what is left out of each; the rest of the sections above says where. Priorities are
modelled as which thread may run while another waits, not as numbers, and the boost of the decompressor's priority is left
out with them.

## Running

`tlc -config MCVMPager_paging.cfg MCVMPager` and so on for the other configurations; the longest takes three to four
minutes with two workers. `tlapm` takes about a quarter of an hour for
`SchedulerProofs.tla` and `CacheProofs.tla`, about ten minutes for `CacheRecordsProofs.tla` and `StorageProofs.tla`, a few
for `VMPagerProofs.tla` and `LoaderProofs.tla`, and a minute or two at most for the others.
