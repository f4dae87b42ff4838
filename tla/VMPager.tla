------------------------------ MODULE VMPager ------------------------------
(***************************************************************************)
(* The demand pager of the engine (gPager).  Regions of cartridge data are *)
(* mapped at virtual pages through the TLB.  A TLB miss suspends the       *)
(* thread and posts a message to the manager thread, which maps the page   *)
(* when one of the frames holds it and otherwise takes the least recently  *)
(* used frame and queues a job for the reader thread, which loads the page *)
(* from the cartridge and hands the job back.                              *)
(*                                                                         *)
(* One handler of the manager is one action: the manager (priority 0x93)   *)
(* is preempted by the reader (0x94) only, and while the manager runs the  *)
(* reader is blocked on its queue or on the loader thread, whose priority  *)
(* is below both.  A job block is named by the thread it resumes.          *)
(***************************************************************************)
EXTENDS Integers, Sequences, FiniteSets

CONSTANTS
  Threads,           \* the threads that touch paged memory
  NoThread,          \* no thread
  NumSlots,          \* page frames (24 in gPager.slots)
  NumTLB,            \* TLB entries (24)
  FirstTLB,          \* first TLB entry of the pager: 1 with the expansion pak
  NumJobs,           \* job blocks (8)
  NumPages,          \* bound on the virtual pages of the model
  FirstRegionPages   \* pages of the region VM_Initialize creates (0x80)

Slots    == 0 .. NumSlots - 1
TLBIndex == 0 .. NumTLB - 1
VPages   == 0 .. NumPages - 1

NoSlot == 255         \* 0xFF in a region's map and in an entry's halves
NoTLB  == 255         \* 0xFF in a slot
NoPage == 65535       \* 0xFFFF in a slot and in an entry
WiredId == 65536      \* what the model has for the id of the wired entry

(***************************************************************************)
(* Job blocks and frames must outnumber the threads that can be waiting:   *)
(* the code has 8 blocks and 24 frames for the 7 threads of the game.      *)
(***************************************************************************)
ASSUME PagerAssumption ==
  /\ IsFiniteSet(Threads)
  /\ NoThread \notin Threads
  /\ NumJobs \in Nat /\ Cardinality(Threads) <= NumJobs
  /\ NumSlots \in Nat /\ NumJobs + 2 <= NumSlots /\ NumSlots < NoSlot
  /\ NumTLB \in Nat \ {0} /\ NumTLB < NoTLB
  /\ FirstTLB \in 0 .. 1 /\ FirstTLB < NumTLB
  /\ NumPages \in Nat /\ 2 <= NumPages /\ NumPages < NoPage /\ NumPages % 2 = 0
  /\ FirstRegionPages \in 2 .. NumPages /\ FirstRegionPages % 2 = 0

VARIABLES
  thr,            \* scheduling state of each thread
  want,           \* the page of each thread's last fault (badVaddr >> 12)
  faultedThread,  \* __osFaultedThread
  page, tlb,      \* PageMapping.id and .slot of each frame
  chain,          \* the frames in the order of use, least recent first
  entries,        \* the pager's copy of the TLB
  hw,             \* the TLB itself
  cur,            \* next TLB entry to recycle
  regions,        \* the regions, in address order
  map,            \* page -> frame, the regions' maps
  frame,          \* the page whose contents a frame holds
  freeJobs,       \* job blocks in gPager.jobs
  job,            \* the job block that serves each thread
  pending,        \* gPager.pending
  completion,     \* gPager.completion
  reader,         \* the job the reader thread is loading
  restarted       \* the game was restarted by a fault it cannot serve

tlbVars  == <<page, tlb, entries, hw, cur, map>>
vars == <<thr, want, faultedThread, page, tlb, chain, entries, hw, cur, regions,
          map, frame, freeJobs, job, pending, completion, reader, restarted>>

Message == [type : {"fault", "page", "alloc"}, thread : Threads \cup {NoThread},
            pages : 0 .. NumPages]
Entry   == [id : VPages \cup {NoPage, WiredId}, a : Slots \cup {NoSlot},
            b : Slots \cup {NoSlot}]
NoJob      == [page |-> NoPage, slot |-> NoSlot]
EmptyEntry == [id |-> NoPage, a |-> NoSlot, b |-> NoSlot]

(* The entry VM_Initialize wires with the expansion pak: its mask makes it *)
(* match all pages of the first region, and it translates them to a copy   *)
(* of the region in the memory of the pak, which is not in the frames.     *)
WiredEntry == [id |-> WiredId, a |-> NoSlot, b |-> NoSlot]
WiredPages == IF FirstTLB = 1 THEN 0 .. FirstRegionPages - 1 ELSE {}

----------------------------------------------------------------------------
(* Pages, regions and the list of frames                                   *)

EvenPage(p) == p - (p % 2)
Buddy(p)    == IF p % 2 = 0 THEN p + 1 ELSE p - 1

InRegion(p) ==
  \E i \in 1 .. Len(regions) :
    p >= regions[i].start /\ p < regions[i].start + regions[i].pages

Mapped(s) == s # NoSlot /\ tlb[s] # NoTLB

(* The frames of c but s, in their order. *)
Without(c, s) ==
  LET pos == CHOOSE i \in 1 .. Len(c) : c[i] = s
  IN  [i \in 1 .. Len(c) - 1 |-> IF i < pos THEN c[i] ELSE c[i + 1]]

MoveToTail(c, s) == Append(Without(c, s), s)

----------------------------------------------------------------------------
(* The TLB                                                                 *)

\* Mutant: the wrap forgets the wired entry.
NextTLB_WrapsToZero == IF cur + 1 >= NumTLB THEN 0 ELSE cur + 1

(* VM_AcquireNextTLB's cursor. *)
NextTLB == IF cur + 1 >= NumTLB THEN FirstTLB ELSE cur + 1

(* Neither half of the pair of p is in the TLB: an entry is recycled. *)
NeedsEntry(p) == ~Mapped(map[EvenPage(p)]) /\ ~Mapped(map[EvenPage(p) + 1])

\* Mutant: VM_AcquireNextTLB forgets the odd half of the entry it recycles.
Evicts_EvenOnly(p, f) == NeedsEntry(p) /\ f = entries[cur].a

(* Mapping page p takes frame f out of the TLB. *)
Evicts(p, f) == NeedsEntry(p) /\ f \in {entries[cur].a, entries[cur].b}

(* Mapping page p to frame s puts frame f in the entry used. *)
Joins(p, s, f) == f = s \/ (NeedsEntry(p) /\ f = map[Buddy(p)])

(* Frame s holds page p from now on. *)
Install(p, s) ==
  /\ page' = [page EXCEPT ![s] = p]
  /\ map' = [map EXCEPT ![p] = s]

(* Maps page p to frame s, in the entry of its buddy when that is in the   *)
(* TLB and else in a recycled entry, together with a resident buddy.       *)
VM_MapTLBEntry(p, s) ==
  LET lo  == map[EvenPage(p)]
      hi  == map[EvenPage(p) + 1]
      idx == IF Mapped(lo) THEN tlb[lo] ELSE IF Mapped(hi) THEN tlb[hi] ELSE cur
      new == IF Mapped(lo) THEN [entries[idx] EXCEPT !.b = s]
             ELSE IF Mapped(hi) THEN [entries[idx] EXCEPT !.a = s]
             ELSE [id |-> EvenPage(p),
                   a  |-> IF p % 2 = 0 THEN s ELSE lo,
                   b  |-> IF p % 2 = 0 THEN hi ELSE s]
  IN  /\ entries' = [entries EXCEPT ![idx] = new]
      /\ hw' = [hw EXCEPT ![idx] = new]
      /\ cur' = IF NeedsEntry(p) THEN NextTLB ELSE cur
      /\ tlb' = [f \in Slots |-> IF Joins(p, s, f) THEN idx
                                 ELSE IF Evicts(p, f) THEN NoTLB ELSE tlb[f]]
      /\ Install(p, s)

\* Mutant: the buddy is appended without being unlinked.
ChainAfterMap_Twice(p, c) ==
  IF NeedsEntry(p) /\ map[Buddy(p)] # NoSlot THEN Append(c, map[Buddy(p)]) ELSE c

(* The list of frames after VM_MapTLBEntry(p, _) on c: a buddy mapped with *)
(* the page counts as used.                                                *)
ChainAfterMap(p, c) ==
  IF NeedsEntry(p) /\ map[Buddy(p)] # NoSlot THEN MoveToTail(c, map[Buddy(p)]) ELSE c

\* Mutant: the wrong half is cleared.
HalfCleared_WrongHalf(e, p) ==
  LET rest == IF p % 2 = 0 THEN [e EXCEPT !.b = NoSlot] ELSE [e EXCEPT !.a = NoSlot]
  IN  IF rest.a = NoSlot /\ rest.b = NoSlot THEN EmptyEntry ELSE rest

(* Entry e without the half that holds page p. *)
HalfCleared(e, p) ==
  LET rest == IF p % 2 = 1 THEN [e EXCEPT !.b = NoSlot] ELSE [e EXCEPT !.a = NoSlot]
  IN  IF rest.a = NoSlot /\ rest.b = NoSlot THEN EmptyEntry ELSE rest

(* Takes frame s out of the TLB. *)
VM_UnmapTLBEntry(s) ==
  IF tlb[s] = NoTLB
  THEN UNCHANGED <<entries, hw, tlb>>
  ELSE /\ entries' = [entries EXCEPT ![tlb[s]] = HalfCleared(@, page[s])]
       /\ hw' = [hw EXCEPT ![tlb[s]] = HalfCleared(entries[tlb[s]], page[s])]
       /\ tlb' = [tlb EXCEPT ![s] = NoTLB]

(* The pages entry i of the TLB matches. *)
Matches(i) ==
  CASE hw[i].id = NoPage  -> {}
    [] hw[i].id = WiredId -> WiredPages
    [] OTHER              -> {hw[i].id, hw[i].id + 1}

(* The pages the TLB translates: a match whose half holds a frame, and any *)
(* match of the wired entry.                                               *)
Visible(p) ==
  \E i \in TLBIndex :
    /\ p \in Matches(i)
    /\ hw[i] = WiredEntry \/ (IF p % 2 = 0 THEN hw[i].a ELSE hw[i].b) # NoSlot

----------------------------------------------------------------------------
(* Priorities: the reader preempts the manager, the manager the rest       *)

\* Mutant: one job in the queue is not enough to start the reader.
ReaderReady_Batches == reader = NoThread /\ Len(pending) > 1 /\ ~restarted
ReaderReady  == reader = NoThread /\ pending # <<>> /\ ~restarted
ManagerReady == completion # <<>> /\ ~ReaderReady /\ ~restarted
GameMayRun   == ~ReaderReady /\ ~ManagerReady /\ ~restarted

Init ==
  /\ thr = [t \in Threads |-> "running"]
  /\ want = [t \in Threads |-> NoPage]
  /\ faultedThread = NoThread
  /\ page = [s \in Slots |-> NoPage]
  /\ tlb = [s \in Slots |-> NoTLB]
  /\ chain = [i \in 1 .. NumSlots |-> i - 1]
  /\ entries = [i \in TLBIndex |-> EmptyEntry]
  /\ hw = [i \in TLBIndex |-> IF i < FirstTLB THEN WiredEntry ELSE EmptyEntry]
  /\ cur = FirstTLB
  /\ regions = <<[start |-> 0, pages |-> FirstRegionPages]>>
  /\ map = [p \in VPages |-> NoSlot]
  /\ frame = [s \in Slots |-> NoPage]
  /\ freeJobs = NumJobs
  /\ job = [t \in Threads |-> NoJob]
  /\ pending = <<>>
  /\ completion = <<>>
  /\ reader = NoThread
  /\ restarted = FALSE

----------------------------------------------------------------------------
(* Threads of the game                                                     *)

(* A load misses in the TLB: the exception handler stops the thread and    *)
(* posts the fault event.                                                  *)
TLBFault(t, p) ==
  /\ GameMayRun /\ thr[t] = "running" /\ ~Visible(p)
  /\ thr' = [thr EXCEPT ![t] = "faulted"]
  /\ want' = [want EXCEPT ![t] = p]
  /\ faultedThread' = t
  /\ completion' = Append(completion, [type |-> "fault", thread |-> NoThread, pages |-> 0])
  /\ UNCHANGED <<tlbVars, chain, regions, frame, freeJobs, job, pending, reader, restarted>>

(* Any other exception, a store that misses included: no page to serve. *)
OtherFault(t) ==
  /\ GameMayRun /\ thr[t] = "running"
  /\ thr' = [thr EXCEPT ![t] = "faulted"]
  /\ want' = [want EXCEPT ![t] = NoPage]
  /\ faultedThread' = t
  /\ completion' = Append(completion, [type |-> "fault", thread |-> NoThread, pages |-> 0])
  /\ UNCHANGED <<tlbVars, chain, regions, frame, freeJobs, job, pending, reader, restarted>>

(* The first page after the last region, rounded up to an even page. *)
RegionStart ==
  LET last == regions[Len(regions)]
      end  == last.start + last.pages
  IN  end + (end % 2)

(* A thread asks for a region of n pages and waits for the answer.  Bound: *)
(* the regions fit in NumPages.                                            *)
VM_Alloc(t, n) ==
  /\ GameMayRun /\ thr[t] = "running"
  /\ RegionStart + n <= NumPages
  /\ thr' = [thr EXCEPT ![t] = "allocating"]
  /\ completion' = Append(completion, [type |-> "alloc", thread |-> t, pages |-> n])
  /\ UNCHANGED <<want, faultedThread, tlbVars, chain, regions, frame, freeJobs, job,
                 pending, reader, restarted>>

----------------------------------------------------------------------------
(* The manager thread                                                      *)

(* The fault is over: its address and its job block are dead values from   *)
(* here on, which the model clears.                                        *)
Resume(t) ==
  /\ thr' = [thr EXCEPT ![t] = "running"]
  /\ want' = [want EXCEPT ![t] = NoPage]

FaultMessage == ManagerReady /\ Head(completion).type = "fault"

(* The page is in a frame: map it unless it is mapped, resume the thread. *)
TLBMissResident ==
  LET t == faultedThread
      p == want[t]
      s == map[p]
  IN  /\ FaultMessage /\ InRegion(p) /\ s # NoSlot
      /\ IF tlb[s] = NoTLB
         THEN /\ VM_MapTLBEntry(p, s)
              /\ chain' = Append(ChainAfterMap(p, Without(chain, s)), s)
         ELSE UNCHANGED <<tlbVars, chain>>
      /\ Resume(t)
      /\ completion' = Tail(completion)
      /\ UNCHANGED <<faultedThread, regions, frame, freeJobs, job, pending, reader, restarted>>

\* Mutant: the region's map keeps the slot.
ForgetPage_MapKeeps(s) == map' = map /\ page' = [page EXCEPT ![s] = NoPage]

(* Frame s holds no page from now on. *)
ForgetPage(s) ==
  /\ map' = IF page[s] # NoPage THEN [map EXCEPT ![page[s]] = NoSlot] ELSE map
  /\ page' = [page EXCEPT ![s] = NoPage]

(* The page is in no frame: take a job block and the least recently used   *)
(* frame, forget the page it held, and queue the job.                      *)
TLBMissPageIn ==
  LET t == faultedThread
      p == want[t]
      s == Head(chain)
  IN  /\ FaultMessage /\ InRegion(p) /\ map[p] = NoSlot
      /\ freeJobs > 0
      /\ freeJobs' = freeJobs - 1
      /\ chain' = Tail(chain)
      /\ VM_UnmapTLBEntry(s)
      /\ ForgetPage(s)
      /\ job' = [job EXCEPT ![t] = [page |-> p, slot |-> s]]
      /\ pending' = Append(pending, t)
      /\ thr' = [thr EXCEPT ![t] = "paging"]
      /\ completion' = Tail(completion)
      /\ UNCHANGED <<want, faultedThread, cur, regions, frame, reader, restarted>>

(* No region holds the page: the game is restarted. *)
TLBMissOutside ==
  /\ FaultMessage /\ ~InRegion(want[faultedThread])
  /\ restarted' = TRUE
  /\ completion' = Tail(completion)
  /\ UNCHANGED <<thr, want, faultedThread, tlbVars, chain, regions, frame, freeJobs, job,
                 pending, reader>>

(* The job block of t is free again. *)
ReturnJob(t) ==
  /\ freeJobs' = freeJobs + 1
  /\ job' = [job EXCEPT ![t] = NoJob]

(* A job is back: map its page, or give its frame back as the first to     *)
(* reuse when another job brought the same page in; resume the thread.     *)
VM_FinishPageJob ==
  LET t == Head(completion).thread
      p == job[t].page
      s == job[t].slot
  IN  /\ ManagerReady /\ Head(completion).type = "page"
      /\ IF map[p] = NoSlot
         THEN /\ VM_MapTLBEntry(p, s)
              /\ chain' = ChainAfterMap(p, Append(chain, s))
         ELSE /\ chain' = <<s>> \o chain
              /\ UNCHANGED tlbVars
      /\ Resume(t)
      /\ ReturnJob(t)
      /\ completion' = Tail(completion)
      /\ UNCHANGED <<faultedThread, regions, frame, pending, reader, restarted>>

(* Appends a region with an empty map and answers the thread. *)
VM_AllocRegion ==
  LET t == Head(completion).thread
      n == Head(completion).pages
  IN  /\ ManagerReady /\ Head(completion).type = "alloc"
      /\ regions' = Append(regions, [start |-> RegionStart, pages |-> n])
      /\ map' = [p \in VPages |-> IF p \in RegionStart .. RegionStart + n - 1 + (n % 2)
                                  THEN NoSlot ELSE map[p]]
      /\ thr' = [thr EXCEPT ![t] = "running"]
      /\ completion' = Tail(completion)
      /\ UNCHANGED <<want, faultedThread, page, tlb, chain, entries, hw, cur, frame,
                     freeJobs, job, pending, reader, restarted>>

----------------------------------------------------------------------------
(* The reader thread                                                       *)

PageMessage(t) == [type |-> "page", thread |-> t, pages |-> 0]

(* The job of t goes back to the manager. *)
HandBack(t) == completion' = Append(completion, PageMessage(t))

\* Mutant: the reader looks at the frame, not at the region's map.
BroughtIn_AnyContents(t) == frame[job[t].slot] # NoPage

(* The page the job of t is for is in a frame already. *)
BroughtIn(t) == map[job[t].page] # NoSlot

(* The page of the next job is in no frame: start to load it. *)
ReaderLoad ==
  LET t == Head(pending)
  IN  /\ ReaderReady /\ ~BroughtIn(t)
      /\ reader' = t
      /\ frame' = [frame EXCEPT ![job[t].slot] = NoPage]
      /\ pending' = Tail(pending)
      /\ UNCHANGED <<thr, want, faultedThread, tlbVars, chain, regions, freeJobs, job,
                     completion, restarted>>

(* Another job brought the page in: nothing to load. *)
ReaderSkip ==
  LET t == Head(pending)
  IN  /\ ReaderReady /\ BroughtIn(t)
      /\ HandBack(t)
      /\ pending' = Tail(pending)
      /\ UNCHANGED <<thr, want, faultedThread, tlbVars, chain, regions, frame, freeJobs,
                     job, reader, restarted>>

(* The loader thread, which runs at a game thread's priority, answers the  *)
(* reader, which hands the job back.                                       *)
ReaderLoaded ==
  /\ GameMayRun /\ reader # NoThread
  /\ frame' = [frame EXCEPT ![job[reader].slot] = job[reader].page]
  /\ HandBack(reader)
  /\ reader' = NoThread
  /\ UNCHANGED <<thr, want, faultedThread, tlbVars, chain, regions, freeJobs, job, pending,
                 restarted>>

----------------------------------------------------------------------------

Game ==
  \E t \in Threads :
    \/ \E p \in VPages : TLBFault(t, p)
    \/ OtherFault(t)
    \/ \E n \in 1 .. NumPages : VM_Alloc(t, n)

Manager ==
  \/ TLBMissResident \/ TLBMissPageIn \/ TLBMissOutside
  \/ VM_FinishPageJob \/ VM_AllocRegion

Reader == ReaderLoad \/ ReaderSkip

(* After a restart the boot code runs: nothing of this run is left. *)
Restarted == restarted /\ UNCHANGED vars

Next == Game \/ Manager \/ Reader \/ ReaderLoaded \/ Restarted

(* The manager and the reader run whenever they are ready; the loader      *)
(* outranks the game threads, so a load ends however often they fault.     *)
Fairness == WF_vars(Manager) /\ WF_vars(Reader) /\ SF_vars(ReaderLoaded)

Spec == Init /\ [][Next]_vars
FairSpec == Spec /\ Fairness
----------------------------------------------------------------------------
(* Properties                                                              *)

InFlight(t) == thr[t] = "paging"
JobSlots    == {job[t].slot : t \in {u \in Threads : InFlight(u)}}
Elements(q) == {q[i] : i \in 1 .. Len(q)}
OnChain     == Elements(chain)

(* Type invariant of the pager's state. *)
TypeOK ==
  /\ thr \in [Threads -> {"running", "faulted", "paging", "allocating"}]
  /\ want \in [Threads -> VPages \cup {NoPage}]
  /\ faultedThread \in Threads \cup {NoThread}
  /\ page \in [Slots -> VPages \cup {NoPage}]
  /\ tlb \in [Slots -> TLBIndex \cup {NoTLB}]
  /\ chain \in Seq(Slots)
  /\ entries \in [TLBIndex -> Entry]
  /\ hw \in [TLBIndex -> Entry]
  /\ cur \in FirstTLB .. NumTLB - 1
  /\ regions \in Seq([start : VPages, pages : 1 .. NumPages])
  /\ map \in [VPages -> Slots \cup {NoSlot}]
  /\ frame \in [Slots -> VPages \cup {NoPage}]
  /\ freeJobs \in 0 .. NumJobs
  /\ job \in [Threads -> [page : VPages \cup {NoPage}, slot : Slots \cup {NoSlot}]]
  /\ pending \in Seq(Threads)
  /\ completion \in Seq(Message)
  /\ reader \in Threads \cup {NoThread}
  /\ restarted \in BOOLEAN

(* Whatever the pager's entries translate is the page's own contents: no   *)
(* thread ever reads a frame that is being loaded, was reclaimed or was    *)
(* never loaded, although frames are recycled while jobs for them wait in  *)
(* two queues.                                                             *)
TranslationCorrect ==
  \A i \in TLBIndex :
    /\ hw[i].a # NoSlot => frame[hw[i].a] = hw[i].id
    /\ hw[i].b # NoSlot => frame[hw[i].b] = hw[i].id + 1

(* No page is matched by two TLB entries (the processor shuts down on a    *)
(* double match), by the one wired for the expansion pak and one of the    *)
(* pager neither; the TLB is what the pager believes it to be, and the     *)
(* wired entry is never recycled.                                          *)
TLBCoherent ==
  /\ \A i, j \in TLBIndex : i # j => Matches(i) \cap Matches(j) = {}
  /\ \A i \in FirstTLB .. NumTLB - 1 : hw[i] = entries[i]
  /\ \A i \in 0 .. FirstTLB - 1 : hw[i] = WiredEntry

(* The three views of residency agree: a region's map, the frame's page    *)
(* and the TLB entry that names the frame.                                 *)
ResidencyConsistent ==
  /\ \A p \in VPages : map[p] # NoSlot => page[map[p]] = p
  /\ \A s \in Slots : page[s] # NoPage => map[page[s]] = s
  /\ \A s \in Slots : tlb[s] # NoTLB =>
       /\ page[s] # NoPage
       /\ entries[tlb[s]].id = EvenPage(page[s])
       /\ s = IF page[s] % 2 = 0 THEN entries[tlb[s]].a ELSE entries[tlb[s]].b
  /\ \A i \in TLBIndex :
       /\ entries[i].a # NoSlot => tlb[entries[i].a] = i /\ page[entries[i].a] = entries[i].id
       /\ entries[i].b # NoSlot => tlb[entries[i].b] = i /\ page[entries[i].b] = entries[i].id + 1

(* The LRU list holds each frame once, but for those of jobs under way,    *)
(* and is long enough for every unlink (unlinking a sole node would write  *)
(* through a null pointer).                                                *)
ChainSound ==
  /\ \A i, j \in 1 .. Len(chain) : chain[i] = chain[j] => i = j
  /\ OnChain = Slots \ JobSlots
  /\ Len(chain) > NumSlots - Cardinality(Threads) - 1
  /\ ManagerReady => Len(chain) >= 3 \/ (Head(completion).type = "page" /\ Len(chain) >= 2)

(* No two jobs under way load into the same frame, and none into a frame   *)
(* that holds a page.                                                      *)
JobFramesExclusive ==
  \A t, u \in Threads :
    InFlight(t) => /\ page[job[t].slot] = NoPage
                   /\ tlb[job[t].slot] = NoTLB
                   /\ (InFlight(u) /\ job[u].slot = job[t].slot => u = t)

(* The reader skips the load of a page another job brought in, and the     *)
(* manager tests for residency again later: the page cannot have been      *)
(* reclaimed in between, or a frame nobody loaded would be mapped.         *)
SkippedLoadSafe ==
  \A i \in 1 .. Len(completion) : completion[i].type = "page" =>
    LET j == job[completion[i].thread]
    IN  map[j.page] # NoSlot \/ frame[j.slot] = j.page

(* __osFaultedThread names one thread only: a fault is handled before the  *)
(* next one happens, so that no stopped thread is forgotten.               *)
FaultNotLost ==
  /\ \A t \in Threads : thr[t] = "faulted" /\ ~restarted =>
       /\ faultedThread = t
       /\ \E i \in 1 .. Len(completion) : completion[i].type = "fault"
  /\ \A i \in 1 .. Len(completion) : completion[i].type = "fault" =>
       Len(completion) = 1 /\ thr[faultedThread] = "faulted"

(* The manager waits for a job block while only the manager returns them:  *)
(* it must never find the pool empty.                                      *)
ManagerNeverBlocks ==
  /\ freeJobs + Cardinality({t \in Threads : InFlight(t)}) = NumJobs
  /\ FaultMessage => freeJobs > 0

(* Every stopped thread runs again, unless the game restarts.              *)
FaultServed ==
  \A t \in Threads : thr[t] # "running" ~> (thr[t] = "running" \/ restarted)

(* The pager implements DemandPaging: its resident pages are those in a    *)
(* region's map, the visible ones those the TLB translates, and those of   *)
(* the wired entry are visible from the start.                             *)
Abstract == INSTANCE DemandPaging WITH
  Pages <- VPages, Nothing <- NoPage, Capacity <- NumSlots, Pinned <- WiredPages,
  waiting <- want, halted <- restarted,
  resident <- {p \in VPages : map[p] # NoSlot},
  visible <- {p \in VPages : Visible(p)}

ImplementsDemandPaging == Abstract!Spec
============================================================================
