------------------------- MODULE CacheRecordsProofs -------------------------
(* The cache's records: locks balance, table, entries and memory agree, and *)
(* what is queued without the lock is kept, by every step of every thread.  *)
EXTENDS CacheProofs

----------------------------------------------------------------------------
(* Steps that leave the records                                             *)

\* Where the main thread's place says nothing of the records.
Plainly == main'.at \notin Busy \cup {"request", "make", "draw", "probed", "whole"}

\* In other places the main thread needs nothing of the records.
LEMMA PlainlyOk ==
  ASSUME Plainly, main.at \notin Busy
  PROVE  MainAside /\ ClientOk(c)'
BY DEF Plainly, MainAside, ClientOk

\* A step that leaves all records.
LEMMA NothingMoves ==
  ASSUME RInv, IInv, c' = c, UNCHANGED <<held, loads, jobs, unpacker>>, AnswersQuiet,
         CacherAside, MainAside, main' = main \/ ClientOk(c)'
  PROVE  RInv'
<1>1. PICK y : y = c'
  OBVIOUS
<1>2. Rest(c, y, {}, {})
  BY <1>1, RestThinned, ThinnedSelf DEF RInv
<1>3. Sound(y)
  BY <1>1 DEF RInv
<1> QED
  BY <1>1, <1>2, <1>3, RecordsStay

\* A step of the main thread that leaves all records.
LEMMA GameMoves ==
  ASSUME RInv, IInv, UNCHANGED <<c, held, loads, jobs, unpacker, answers, cacher>>,
         MainAside, main' = main \/ ClientOk(c)'
  PROVE  RInv'
BY NothingMoves DEF AnswersQuiet, CacherAside

\* CCache__Request is called.
LEMMA CallIs ==
  ASSUME NEW k \in Keys \ Made, NEW n \in Nat \ {0}, NEW sync, CallRequest(k, n, sync),
         main.at \notin Busy
  PROVE  MainAside /\ ClientOk(c)'
<1>1. main'.at = "request" /\ main'.key = k /\ main'.length = n
  BY DEF CallRequest, Away
<1> QED
  BY <1>1 DEF MainAside, Busy, ClientOk

\* The game's calls, which say what they want.
LEMMA CallStep ==
  ASSUME RInv, IInv, \/ \E k \in Keys, s \in BOOLEAN : Request(k, s)
                     \/ \E k \in Keys : LoadPersistantIndex(k)
                     \/ RequestWhole
  PROVE  RInv'
<1>1. \A k \in Plain \cup Packed \cup Indexes : k \in Keys \ Made /\ Stored[k] \in Nat \ {0}
  BY CacheSound DEF Keys
<1>2. Probe \in Nat \ {0}
  BY DEF Probe
<1>3. CASE \E k \in Keys, s \in BOOLEAN : Request(k, s)
  <2>1. PICK k \in Keys, s \in BOOLEAN : Request(k, s)
    BY <1>3
  <2>2. /\ main.at = "away" /\ k \in Plain \cup Packed /\ CallRequest(k, Stored[k], s)
        /\ UNCHANGED <<c, held, loads, jobs, unpacker, answers, cacher>>
    BY <2>1 DEF Request, MainAt, syncVars, clientVars, workVars
  <2>3. MainAside /\ ClientOk(c)'
    BY <1>1, <2>2, CallIs DEF Busy
  <2> QED
    BY <2>2, <2>3, GameMoves
<1>4. CASE \E k \in Keys : LoadPersistantIndex(k)
  <2>1. PICK k \in Keys : LoadPersistantIndex(k)
    BY <1>4
  <2>2. /\ main.at = "away" /\ k \in Indexes /\ CallRequest(k, Probe, TRUE)
        /\ UNCHANGED <<c, held, loads, jobs, unpacker, answers, cacher>>
    BY <2>1 DEF LoadPersistantIndex, MainAt, syncVars, clientVars, workVars
  <2>3. MainAside /\ ClientOk(c)'
    BY <1>1, <1>2, <2>2, CallIs DEF Busy
  <2> QED
    BY <2>2, <2>3, GameMoves
<1>5. CASE RequestWhole
  <2>1. /\ main.at = "whole" /\ CallRequest(main.key, Stored[main.key], TRUE)
        /\ UNCHANGED <<c, held, loads, jobs, unpacker, answers, cacher>>
    BY <1>5 DEF RequestWhole, MainAt, syncVars, clientVars, workVars
  <2>2. main.key \in Indexes
    BY <2>1 DEF RInv, Linked, ClientOk
  <2>3. MainAside /\ ClientOk(c)'
    BY <1>1, <2>1, <2>2, CallIs DEF Busy
  <2> QED
    BY <2>1, <2>3, GameMoves
<1> QED
  BY <1>3, <1>4, <1>5

\* CCache__RequestDecompression is called with memory the game holds.
LEMMA CallMakeStep ==
  ASSUME RInv, IInv, NEW k \in Keys, NEW m \in Mems, RequestDecompression(k, m)
  PROVE  RInv'
<1>1. /\ main.at = "away" /\ k \in Made /\ m \in Held /\ c.mem[m].holds = Res(Source[k])
      /\ main' = [Away EXCEPT !.at = "make", !.key = k, !.mem = m]
      /\ UNCHANGED <<c, held, loads, jobs, unpacker, answers, cacher>>
  BY DEF RequestDecompression, MainAt, syncVars, clientVars, workVars
<1>2. main'.at = "make" /\ main'.key = k /\ main'.mem = m
  BY <1>1 DEF Away
<1>3. MainAside /\ ClientOk(c)'
  BY <1>1, <1>2 DEF MainAside, Busy, ClientOk, Held
<1> QED
  BY <1>1, <1>3, GameMoves

\* The main thread notes memory it holds, to draw from it.
LEMMA CallDrawStep == ASSUME RInv, IInv, NEW m \in Mems, DrawFrom(m) PROVE RInv'
<1>1. /\ main.at = "away" /\ m \in Held /\ ~c.mem[m].persistent
      /\ main' = [Away EXCEPT !.at = "draw", !.mem = m, !.to = dlist.current]
      /\ UNCHANGED <<c, held, loads, jobs, unpacker, answers, cacher>>
  BY DEF DrawFrom, MainAt, syncVars, clientVars, workVars
<1>2. main'.at = "draw" /\ main'.mem = m
  BY <1>1 DEF Away
<1>3. MainAside /\ ClientOk(c)'
  BY <1>1, <1>2 DEF MainAside, Busy, ClientOk, Held
<1> QED
  BY <1>1, <1>3, GameMoves

\* What the game does with its lists and its delay.
LEMMA GameStays ==
  ASSUME RInv, IInv, SetFrameDelay \/ EndDisplayList \/ \E l \in Lists : BeginDisplayList(l)
  PROVE  RInv'
<1>1. UNCHANGED <<c, held, loads, jobs, unpacker, answers, cacher, main>>
  BY DEF SetFrameDelay, EndDisplayList, BeginDisplayList, clientVars, workVars
<1> QED
  BY <1>1, GameMoves DEF MainAside

\* The main thread waits, or has done.
LEMMA EndsStep == ASSUME RInv, IInv, CompactEnds \/ FlushLocks \/ FlushWaits PROVE RInv'
<1>1. /\ main.at \in {"compact", "lock", "wait"}
      /\ UNCHANGED <<c, held, loads, jobs, unpacker, answers, cacher>>
  BY DEF CompactEnds, FlushLocks, FlushWaits, MainHasLock, MainAt, syncVars, clientVars, workVars
<1>2. DOMAIN main = DOMAIN Away /\ "at" \in DOMAIN Away
  BY DEF IInv, Shapes, Away
<1>3. main'.at \in {"away", "free", "lock", "wait"}
  <2>1. CASE CompactEnds \/ FlushLocks
    BY <2>1 DEF CompactEnds, FlushLocks, Away
  <2>2. CASE FlushWaits
    <3>1. main'.at = "lock" \/ main'.at = main.at
      BY <1>2, <2>2 DEF FlushWaits, Away
    <3> QED
      BY <2>2, <3>1 DEF FlushWaits, MainAt
  <2> QED
    BY <2>1, <2>2
<1>4. MainAside /\ ClientOk(c)'
  BY <1>1, <1>3, PlainlyOk DEF Plainly, Busy
<1> QED
  BY <1>1, <1>4, GameMoves

\* Someone has asked already.
LEMMA AlreadyStep == ASSUME RInv, IInv, RequestPending \/ MakePending PROVE RInv'
<1>1. /\ main.at \in {"request", "make"} /\ Returns(None)
      /\ UNCHANGED <<c, loads, jobs, unpacker, answers, cacher>>
  BY DEF RequestPending, MakePending, MainHasLock, MainAt, syncVars, workVars
<1>2. held' = held /\ main'.at \notin Busy /\ ClientOk(c)'
  BY <1>1, ReturnsNothing
<1>3. MainAside
  BY <1>1, <1>2 DEF MainAside, Busy
<1> QED
  BY <1>1, <1>2, <1>3, GameMoves

\* A list is drawn, and the cache's thread takes it.
LEMMA PostRecords == ASSUME RInv, IInv, NEW l \in Lists, PostDisplayListDone(l) PROVE RInv'
<1>1. /\ answers' = Append(answers, l)
      /\ UNCHANGED <<c, held, loads, jobs, unpacker, cacher, main>>
  BY DEF PostDisplayListDone, workVars
<1> QED
  BY <1>1, NothingMoves DEF AnswersQuiet, CacherAside, MainAside

\* A list that was drawn is taken from the queue: no request moves.
LEMMA TakeListRecords == ASSUME RInv, IInv, TakeList PROVE RInv'
<1>1. /\ cacher.at = "idle" /\ answers # <<>> /\ Head(answers) \in Lists
      /\ answers' = Tail(answers)
      /\ cacher' = [cacher EXCEPT !.at = "release", !.list = Head(answers)]
      /\ UNCHANGED <<c, held, loads, jobs, unpacker, main>>
  BY DEF TakeList, Received, clientVars
<1>2. cacher'.entry = cacher.entry /\ cacher'.at = "release"
  BY <1>1 DEF IInv, Shapes
<1> QED
  BY <1>1, <1>2, NothingMoves DEF AnswersQuiet, CacherAside, MainAside

----------------------------------------------------------------------------
(* Steps that change ages, lists and places                                 *)

\* The record r says of the data what q says, and maybe less of the lists.
SoftRecords(q, r) ==
  /\ r.at = q.at /\ r.size = q.size /\ r.persistent = q.persistent
  /\ r.entry = q.entry /\ r.holds = q.holds /\ r.locks = q.locks
  /\ r.lists \subseteq q.lists

\* x with other records of memory.
WithMem(x, f) == [x EXCEPT !.mem = f]

\* Counts, ages and lists of all memory may change at once.
LEMMA SoftMany ==
  ASSUME NEW x, Sound(x), NEW f \in [Mems -> MemRecord],
         \A m \in Mems : SoftRecords(x.mem[m], f[m]),
         \A m \in Mems \ Allocated(x) : f[m] = x.mem[m], NEW y, y = WithMem(x, f)
  PROVE  Sound(y) /\ Rest(x, y, {}, {})
<1>1. /\ x.mem \in [Mems -> MemRecord] /\ x.order \in Seq(Mems)
      /\ x.entry \in [Entries -> EntryRecord] /\ x.table \in [Keys -> SomeEntry]
      /\ DOMAIN x = {"mem", "order", "entry", "table"}
      /\ x = [mem |-> x.mem, order |-> x.order, entry |-> x.entry, table |-> x.table]
  BY Parts DEF Sound
<1>2. /\ y.mem = f /\ y.order = x.order /\ y.entry = x.entry /\ y.table = x.table
      /\ y = [mem |-> y.mem, order |-> y.order, entry |-> y.entry, table |-> y.table]
  BY <1>1 DEF WithMem
<1>3. y \in Memories
  BY <1>1, <1>2 DEF Memories
<1>4. Allocated(y) = Allocated(x)
  BY <1>2 DEF Allocated
<1>5. Soft(x, y)
  BY <1>2, <1>3, <1>4 DEF Soft, SoftRecords
<1>6. \A m \in Mems : y.mem[m].locks = x.mem[m].locks
  BY <1>2 DEF SoftRecords
<1> QED
  BY <1>5, <1>6, SoftSound, RestSoft

\* The records, without the lists of ls.
Unlisted(x, ls) == [m \in Mems |-> [x.mem[m] EXCEPT !.lists = @ \ ls]]

\* The lists are taken from every record.
LEMMA ClearedAre == ASSUME NEW x, NEW ls PROVE ClearLists(x, ls) = WithMem(x, Unlisted(x, ls))
BY DEF ClearLists, WithMem, Unlisted

\* Releasing lists changes no other part of the records.
LEMMA ClearedLists ==
  ASSUME NEW x, Sound(x), NEW ls, NEW y, y = ClearLists(x, ls)
  PROVE  Sound(y) /\ Rest(x, y, {}, {})
<1> DEFINE f == Unlisted(x, ls)
<1>1. /\ x.mem \in [Mems -> MemRecord] /\ DOMAIN x = {"mem", "order", "entry", "table"}
      /\ Apart(x)
  BY Parts DEF Sound
<1>2. y = WithMem(x, f)
  BY ClearedAre
<1>3. \A m \in Mems : f[m] \in MemRecord /\ SoftRecords(x.mem[m], f[m])
  BY <1>1 DEF MemRecord, SoftRecords, Unlisted
<1>4. \A m \in Mems \ Allocated(x) : f[m] = x.mem[m]
  <2> SUFFICES ASSUME NEW m \in Mems \ Allocated(x) PROVE f[m] = x.mem[m]
    OBVIOUS
  <2>1. x.mem[m] = FreeMem
    BY <1>1 DEF Apart
  <2>2. FreeMem.lists = {} /\ {} \ ls = {}
    BY DEF FreeMem
  <2>3. \A r \in MemRecord : r.lists = {} => [r EXCEPT !.lists = {}] = r
    BY DEF MemRecord
  <2> QED
    BY <2>1, <2>2, <2>3, Blanks DEF Unlisted
<1>5. f \in [Mems -> MemRecord]
  BY <1>3 DEF Unlisted
<1> HIDE DEF f
<1> QED
  BY <1>2, <1>3, <1>4, <1>5, SoftMany

\* Ages of what is allocated, a frame later.
Older(x) ==
  [m \in Mems |-> IF m \in Allocated(x) /\ x.mem[m].age < StaleAge
                  THEN [x.mem[m] EXCEPT !.age = @ + 1] ELSE x.mem[m]]

\* Every record grows older.
LEMMA AdvanceIs == ASSUME Advance PROVE c' = WithMem(c, Older(c))
BY DEF Advance, WithMem, Older

\* Aging changes no other part of the records.
LEMMA OlderIs ==
  ASSUME NEW x, Sound(x), NEW y, y = WithMem(x, Older(x))
  PROVE  Sound(y) /\ Rest(x, y, {}, {})
<1>1. x.mem \in [Mems -> MemRecord]
  BY Parts DEF Sound
<1>2. \A m \in Mems : Older(x)[m] \in MemRecord /\ SoftRecords(x.mem[m], Older(x)[m])
  <2> SUFFICES ASSUME NEW m \in Mems
               PROVE  Older(x)[m] \in MemRecord /\ SoftRecords(x.mem[m], Older(x)[m])
    OBVIOUS
  <2>1. x.mem[m] \in MemRecord /\ x.mem[m].age + 1 \in Nat
    BY <1>1 DEF MemRecord
  <2>2. Older(x)[m] = x.mem[m] \/ Older(x)[m] = [x.mem[m] EXCEPT !.age = @ + 1]
    BY DEF Older
  <2> QED
    BY <2>1, <2>2 DEF MemRecord, SoftRecords
<1>3. \A m \in Mems \ Allocated(x) : Older(x)[m] = x.mem[m]
  BY DEF Older
<1>4. Older(x) \in [Mems -> MemRecord]
  BY <1>2 DEF Older
<1> QED
  BY <1>2, <1>3, <1>4, SoftMany

\* The frame ends: what is allocated is older.
LEMMA AdvanceStep == ASSUME RInv, IInv, Advance PROVE RInv'
<1>1. PICK y : y = c'
  OBVIOUS
<1>2. Sound(c) /\ DOMAIN c = {"mem", "order", "entry", "table"}
  BY Parts DEF RInv, Sound
<1>3. y = WithMem(c, Older(c))
  BY <1>1, AdvanceIs
<1>4. Sound(y) /\ Rest(c, y, {}, {})
  BY <1>2, <1>3, OlderIs
<1>5. /\ main.at = "away" /\ main' = [Away EXCEPT !.at = "compact"]
      /\ UNCHANGED <<held, loads, jobs, unpacker, answers, cacher>>
  BY DEF Advance, MainHasLock, MainAt, clientVars, workVars
<1>6. MainAside /\ ClientOk(c)'
  BY <1>5, PlainlyOk DEF Plainly, Busy, Away
<1> QED
  BY <1>1, <1>4, <1>5, <1>6, RecordsStay DEF AnswersQuiet, CacherAside

\* CCache__Touch moves no request.
LEMMA TouchStep == ASSUME RInv, IInv, NEW k \in Keys, Touch(k) PROVE RInv'
<1>1. PICK e : e = c.table[k]
  OBVIOUS
<1>2. PICK m : m = c.entry[e].mem
  OBVIOUS
<1>3. PICK y : y = c'
  OBVIOUS
<1>4. /\ Finds(k, e, m) /\ y = Touched(c, m)
      /\ UNCHANGED <<held, main, loads, jobs, unpacker, answers, cacher>>
  BY <1>1, <1>2, <1>3 DEF Touch, Finds, syncVars, clientVars, workVars
<1>5. m \in Allocated(c)
  BY <1>4, TableHas
<1>6. Aged(c, y, m)
  BY <1>4, <1>5, TouchedIs DEF RInv
<1>7. Sound(y) /\ Rest(c, y, {}, {})
  BY <1>6 DEF Aged
<1> QED
  BY <1>3, <1>4, <1>7, RecordsStay DEF AnswersQuiet, CacherAside, MainAside

\* The lists are cleared from the records.
LEMMA FlushRecords == ASSUME RInv, IInv, Flush PROVE RInv'
<1>1. PICK y : y = c'
  OBVIOUS
<1>2. PICK ls : y = ClearLists(c, ls)
  BY <1>1 DEF Flush
<1>3. Sound(y) /\ Rest(c, y, {}, {})
  BY <1>2, ClearedLists DEF RInv
<1>4. /\ main.at = "away" /\ UNCHANGED <<held, loads, jobs, unpacker, answers, cacher>>
  BY DEF Flush, MainHasLock, MainAt, workVars
<1>5. main'.at \in {"free", "wait"}
  BY DEF Flush, Away
<1>6. MainAside /\ ClientOk(c)'
  BY <1>4, <1>5, PlainlyOk DEF Plainly, Busy
<1> QED
  BY <1>1, <1>3, <1>4, <1>6, RecordsStay DEF AnswersQuiet, CacherAside

\* CCache__ReleaseDisplayList moves no request.
LEMMA ReleaseRecords == ASSUME RInv, IInv, ReleaseDisplayList PROVE RInv'
<1>1. PICK y : y = c'
  OBVIOUS
<1>2. PICK ls : y = ClearLists(c, ls)
  BY <1>1 DEF ReleaseDisplayList
<1>3. Sound(y) /\ Rest(c, y, {}, {})
  BY <1>2, ClearedLists DEF RInv
<1>4. /\ cacher.at = "release" /\ cacher' = [cacher EXCEPT !.at = "idle", !.list = None]
      /\ UNCHANGED <<held, main, loads, jobs, unpacker, answers>>
  BY DEF ReleaseDisplayList, clientVars
<1>5. cacher'.entry = cacher.entry /\ cacher'.at = "idle"
  BY <1>4 DEF IInv, Shapes
<1> QED
  BY <1>1, <1>3, <1>4, <1>5, RecordsStay DEF AnswersQuiet, CacherAside, MainAside

\* Everything that is not in use goes.
LEMMA FlushFreesStep == ASSUME RInv, IInv, FlushFrees PROVE RInv'
<1>1. PICK y : y = c'
  OBVIOUS
<1>2. Sound(c)
  BY DEF RInv
<1>3. ASSUME NEW all, NEW n, n = Len(Victims(c, all)), y = After(c, all, n)
      PROVE  Sound(y) /\ Rest(c, y, {}, {})
  <2>1. c.order \in Seq(Mems)
    BY <1>2, Parts DEF Sound
  <2>2. PICK S : Victims(c, all) = Reverse(Without(c.order, S))
    BY DEF Victims
  <2>3. Victims(c, all) \in Seq(Mems)
    BY <2>1, <2>2, WithoutIs, ReverseIs
  <2>4. n \in 0 .. n
    BY <1>3, <2>3
  <2>5. n \in 0 .. Len(Victims(c, all))
    BY <1>3, <2>4
  <2>6. Sound(y) /\ Thinned(c, y)
    BY <1>2, <1>3, <2>5, AfterThinned
  <2> QED
    BY <1>2, <2>6, RestThinned
<1>4. y = After(c, TRUE, Len(Victims(c, TRUE)))
  BY <1>1 DEF FlushFrees
<1>5. Sound(y) /\ Rest(c, y, {}, {})
  BY <1>3, <1>4
<1>6. /\ main.at = "free" /\ main' = [Away EXCEPT !.at = "compact"]
      /\ UNCHANGED <<held, loads, jobs, unpacker, answers, cacher>>
  BY DEF FlushFrees, MainAt, syncVars, clientVars, workVars
<1>7. MainAside /\ ClientOk(c)'
  BY <1>6, PlainlyOk DEF Plainly, Busy, Away
<1> QED
  BY <1>1, <1>5, <1>6, <1>7, RecordsStay DEF AnswersQuiet, CacherAside

----------------------------------------------------------------------------
(* Memory that is drawn, and that moves                                     *)

\* x with the list l in the record m.
Listed(x, m, l) == [x EXCEPT !.mem[m].lists = @ \cup {l}]

\* CCache__LockForDisplayList, for what is not persistent.
LEMMA ListedIs ==
  ASSUME NEW x, Sound(x), NEW m \in Allocated(x), ~x.mem[m].persistent, NEW l \in Lists,
         NEW y, y = Listed(x, m, l)
  PROVE  Sound(y) /\ Rest(x, y, {}, {})
<1> DEFINE r == [x.mem[m] EXCEPT !.lists = @ \cup {l}]
<1>1. /\ x.mem \in [Mems -> MemRecord] /\ x.order \in Seq(Mems) /\ m \in Mems
      /\ DOMAIN x = {"mem", "order", "entry", "table"}
      /\ x = [mem |-> x.mem, order |-> x.order, entry |-> x.entry, table |-> x.table]
  BY Parts DEF Sound
<1>2. /\ r \in MemRecord /\ r.at = x.mem[m].at /\ r.size = x.mem[m].size
      /\ r.persistent = x.mem[m].persistent /\ r.entry = x.mem[m].entry
      /\ r.holds = x.mem[m].holds /\ r.locks = x.mem[m].locks
  BY <1>1 DEF MemRecord
<1>3. /\ y.mem = [x.mem EXCEPT ![m] = r] /\ y.entry = x.entry /\ y.table = x.table
      /\ y.order = x.order /\ DOMAIN y = DOMAIN x
      /\ y = [mem |-> y.mem, order |-> y.order, entry |-> y.entry, table |-> y.table]
  BY <1>1 DEF Listed
<1> HIDE DEF r
<1>4. Soft(x, y)
  BY <1>1, <1>2, <1>3, SoftRecord
<1>5. \A k \in Mems \ {} : y.mem[k].locks = x.mem[k].locks
  BY <1>1, <1>2, <1>3
<1> QED
  BY <1>4, <1>5, SoftSound, RestSoft

\* CCache__LockForDisplayList adds the list to memory that the game holds.
LEMMA LockRecords == ASSUME RInv, IInv, LockForDisplayList PROVE RInv'
<1>1. PICK m : m = main.mem
  OBVIOUS
<1>2. PICK l : l = main.to
  OBVIOUS
<1>3. PICK y : y = c'
  OBVIOUS
<1>4. /\ main.at = "draw" /\ main' = Away /\ UNCHANGED <<held, loads, jobs, unpacker, answers, cacher>>
  BY DEF LockForDisplayList, MainHasLock, MainAt, workVars
<1>5. y = c \/ y = Listed(c, m, l)
  BY <1>1, <1>2, <1>3 DEF LockForDisplayList, Listed
<1>6. l \in Lists
  BY <1>2, <1>4 DEF IInv, Places, Shapes
<1>7. m \in Allocated(c) /\ ~c.mem[m].persistent
  <2>1. m \in Mems /\ held[m] > 0 /\ ~c.mem[m].persistent
    BY <1>1, <1>4 DEF RInv, Linked, ClientOk, Held
  <2> QED
    BY <2>1, GameMemory
<1>8. Sound(y) /\ Rest(c, y, {}, {})
  <2>1. Sound(c) /\ Rest(c, c, {}, {})
    BY RestThinned, ThinnedSelf DEF RInv
  <2> QED
    BY <1>5, <1>6, <1>7, <2>1, ListedIs
<1>9. MainAside /\ ClientOk(c)'
  BY <1>4, PlainlyOk DEF Plainly, Busy, Away
<1> QED
  BY <1>3, <1>4, <1>8, <1>9, RecordsStay DEF AnswersQuiet, CacherAside

\* x with the memory m at the address a.
MovedAs(x, m, a) == [x EXCEPT !.mem[m].at = a]

\* There is room for memory that is freed: where it was, if nowhere lower.
LEMMA MovesIn ==
  ASSUME NEW x, Sound(x), NEW m \in Allocated(x), NEW z, z = FreeMems(x, {m}),
         NEW n, n = x.mem[m].size, NEW a, a = FirstFit(z, n)
  PROVE  /\ n \in Nat /\ a \in Nat /\ a + n <= HeapSize
         /\ \A k \in Allocated(x) \ {m} : (a .. a + n - 1) \cap Span(x.mem[k]) = {}
<1>1. /\ x \in Memories /\ Apart(x) /\ m \in Mems /\ Allocated(x) \subseteq Mems
      /\ x.mem \in [Mems -> MemRecord]
  BY Parts DEF Sound
<1>2. n \in Nat /\ x.mem[m].at \in Nat /\ x.mem[m].at + n <= HeapSize /\ HeapSize \in Nat
  BY <1>1, CacheSound DEF Apart, MemRecord
<1>3. /\ Allocated(z) = Allocated(x) \ {m}
      /\ \A k \in Allocated(z) : z.mem[k] = x.mem[k]
  <2>1. Allocated(z) = Allocated(x) \ {m}
    BY <1>1, FreeMemsIs
  <2>2. \A k \in Mems : z.mem[k] = IF k \in {m} THEN FreeMem ELSE x.mem[k]
    BY <1>1, FreeMemsIs
  <2> QED
    BY <1>1, <2>1, <2>2
<1>4. x.mem[m].at \in Fits(z, n)
  <2>1. x.mem[m].at \in 0 .. HeapSize - n
    BY <1>2
  <2>2. \A k \in Allocated(z) : Span(x.mem[m]) \cap Span(z.mem[k]) = {}
    BY <1>1, <1>3 DEF Apart
  <2>3. \A k \in Allocated(z) : (x.mem[m].at .. x.mem[m].at + n - 1) \cap Span(z.mem[k]) = {}
    BY <2>2 DEF Span
  <2> QED
    BY <2>1, <2>3 DEF Fits
<1>5. a \in Fits(z, n)
  <2>1. n \in Nat /\ Fits(z, n) # {}
    BY <1>2, <1>4
  <2>2. FirstFit(z, n) \in Fits(z, n)
    BY <2>1, FitIs
  <2> QED
    BY <2>2
<1>6. a \in 0 .. HeapSize - n /\ \A k \in Allocated(z) : (a .. a + n - 1) \cap Span(z.mem[k]) = {}
  BY <1>5 DEF Fits
<1>7. a \in Nat /\ a + n <= HeapSize
  BY <1>2, <1>6
<1>8. \A k \in Allocated(x) \ {m} : (a .. a + n - 1) \cap Span(x.mem[k]) = {}
  <2> SUFFICES ASSUME NEW k \in Allocated(x) \ {m}
               PROVE  (a .. a + n - 1) \cap Span(x.mem[k]) = {}
    OBVIOUS
  <2>1. k \in Allocated(z) /\ z.mem[k] = x.mem[k]
    BY <1>3
  <2> QED
    BY <1>6, <2>1
<1> QED
  BY <1>2, <1>7, <1>8

\* Memory that nobody has locked may move to a gap.
LEMMA MovedIs ==
  ASSUME NEW x, Sound(x), NEW m \in Allocated(x), x.mem[m].locks = 0,
         NEW n, n = x.mem[m].size, NEW a \in Nat, a + n <= HeapSize,
         \A k \in Allocated(x) \ {m} : (a .. a + n - 1) \cap Span(x.mem[k]) = {},
         NEW y, y = MovedAs(x, m, a)
  PROVE  Sound(y) /\ Rest(x, y, {}, {})
<1> DEFINE r == [x.mem[m] EXCEPT !.at = a]
<1>1. /\ x \in Memories /\ Apart(x) /\ Agree(x) /\ Marked(x) /\ m \in Mems
      /\ x.mem \in [Mems -> MemRecord] /\ Allocated(x) \subseteq Mems
      /\ x.order \in Seq(Mems) /\ x.entry \in [Entries -> EntryRecord] /\ x.table \in [Keys -> SomeEntry]
      /\ DOMAIN x = {"mem", "order", "entry", "table"}
      /\ x = [mem |-> x.mem, order |-> x.order, entry |-> x.entry, table |-> x.table]
  BY Parts DEF Sound
<1>2. /\ r \in MemRecord /\ r.at = a /\ r.size = n
      /\ r.persistent = x.mem[m].persistent /\ r.entry = x.mem[m].entry /\ r.lists = x.mem[m].lists
      /\ r.holds = x.mem[m].holds /\ r.locks = x.mem[m].locks
  BY <1>1 DEF MemRecord
<1>3. /\ y.mem = [x.mem EXCEPT ![m] = r] /\ y.entry = x.entry /\ y.table = x.table
      /\ y.order = x.order
      /\ y = [mem |-> y.mem, order |-> y.order, entry |-> y.entry, table |-> y.table]
  BY <1>1 DEF MovedAs
<1> HIDE DEF r
<1>4. /\ y.mem \in [Mems -> MemRecord] /\ y.mem[m] = r /\ \A k \in Mems \ {m} : y.mem[k] = x.mem[k]
  BY <1>1, <1>2, <1>3
<1>5. y \in Memories /\ Allocated(y) = Allocated(x)
  BY <1>1, <1>3, <1>4 DEF Memories, Allocated
<1>6. Apart(y)
  <2>1. Span(r) = a .. a + n - 1
    BY <1>2 DEF Span
  <2>2. \A k \in Allocated(x) \ {m} : Span(r) \cap Span(x.mem[k]) = {}
    BY <2>1
  <2>3. \A j, k \in Allocated(y) : j # k => Span(y.mem[j]) \cap Span(y.mem[k]) = {}
    <3> SUFFICES ASSUME NEW j \in Allocated(y), NEW k \in Allocated(y), j # k
                 PROVE  Span(y.mem[j]) \cap Span(y.mem[k]) = {}
      OBVIOUS
    <3>1. j \in Mems /\ k \in Mems /\ j \in Allocated(x) /\ k \in Allocated(x)
      BY <1>1, <1>5
    <3>2. CASE j = m
      <4>1. y.mem[j] = r /\ y.mem[k] = x.mem[k]
        BY <1>4, <3>1, <3>2
      <4> QED
        BY <2>2, <3>1, <3>2, <4>1
    <3>3. CASE k = m
      <4>1. y.mem[k] = r /\ y.mem[j] = x.mem[j]
        BY <1>4, <3>1, <3>3
      <4> QED
        BY <2>2, <3>1, <3>3, <4>1
    <3>4. CASE j # m /\ k # m
      <4>1. y.mem[k] = x.mem[k] /\ y.mem[j] = x.mem[j]
        BY <1>4, <3>1, <3>4
      <4> QED
        BY <1>1, <3>1, <4>1 DEF Apart
    <3> QED
      BY <3>2, <3>3, <3>4
  <2>4. \A k \in Allocated(y) : y.mem[k].at + y.mem[k].size <= HeapSize
    BY <1>1, <1>2, <1>4, <1>5 DEF Apart
  <2>5. \A k \in Mems \ Allocated(y) : y.mem[k] = FreeMem
    BY <1>1, <1>4, <1>5 DEF Apart
  <2> QED
    BY <2>3, <2>4, <2>5 DEF Apart
<1>7. \A k \in Mems : /\ y.mem[k].entry = x.mem[k].entry /\ y.mem[k].locks = x.mem[k].locks
                      /\ y.mem[k].persistent = x.mem[k].persistent
                      /\ y.mem[k].lists = x.mem[k].lists /\ y.mem[k].holds = x.mem[k].holds
  BY <1>2, <1>4
<1>8. Agree(y)
  <2>1. \A e \in Entries : UsedOk(x, e) => UsedOk(y, e)
    BY <1>1, <1>3, <1>5, <1>7 DEF UsedOk
  <2> QED
    BY <1>1, <1>3, <1>7, <2>1 DEF Agree
<1>9. Marked(y)
  BY <1>1, <1>3, <1>7 DEF Marked
<1>10. Rest(x, y, {}, {})
  <2>1. \A k \in Mems : x.mem[k].locks > 0 => k # m /\ k \in Allocated(x)
    BY LocksAllocated
  <2>2. \A k \in Mems : x.mem[k].locks > 0 => SameData(x, y, k)
    BY <1>4, <1>5, <2>1 DEF SameData
  <2> QED
    BY <1>3, <1>7, <2>2 DEF Rest
<1> QED
  BY <1>5, <1>6, <1>8, <1>9, <1>10 DEF Sound

\* CCache__Compact moves only what is not locked.
LEMMA CompactStep == ASSUME RInv, IInv, NEW m \in Mems, Compact(m) PROVE RInv'
<1>1. PICK y : y = c'
  OBVIOUS
<1>2. PICK z : z = FreeMems(c, {m})
  OBVIOUS
<1>3. PICK n : n = c.mem[m].size
  OBVIOUS
<1>4. PICK a : a = FirstFit(z, n)
  OBVIOUS
<1>5. /\ m \in Allocated(c) /\ ~(c.mem[m].locks > 0) /\ y = MovedAs(c, m, a)
      /\ UNCHANGED <<held, main, loads, jobs, unpacker, answers, cacher>>
  BY <1>1, <1>2, <1>3, <1>4
     DEF Compact, Movable, Pinned, MovedTo, MovedAs, syncVars, clientVars, workVars
<1>6. Sound(c) /\ c.mem[m].locks = 0
  BY <1>5, LocksNumbers DEF RInv
<1>7. /\ n \in Nat /\ a \in Nat /\ a + n <= HeapSize
      /\ \A k \in Allocated(c) \ {m} : (a .. a + n - 1) \cap Span(c.mem[k]) = {}
  BY <1>2, <1>3, <1>4, <1>5, <1>6, MovesIn
<1>8. Sound(y) /\ Rest(c, y, {}, {})
  BY <1>3, <1>5, <1>6, <1>7, MovedIs
<1> QED
  BY <1>1, <1>5, <1>8, RecordsStay DEF AnswersQuiet, CacherAside, MainAside

----------------------------------------------------------------------------
(* Memory for the game's own use                                            *)

FilledWith(x, m, what) == [x EXCEPT !.mem[m].holds = what]

\* Memory is filled as a whole.
LEMMA FilledIs ==
  ASSUME NEW x, Sound(x), NEW m \in Mems, NEW what \in Content, NEW y, y = FilledWith(x, m, what)
  PROVE  Filled(x, y, m, what)
<1> DEFINE r == [x.mem[m] EXCEPT !.holds = what]
<1>1. /\ x.mem \in [Mems -> MemRecord] /\ DOMAIN x = {"mem", "order", "entry", "table"}
      /\ x = [mem |-> x.mem, order |-> x.order, entry |-> x.entry, table |-> x.table]
  BY Parts DEF Sound
<1>2. r \in MemRecord
  BY <1>1 DEF MemRecord
<1>3. /\ y.mem = [x.mem EXCEPT ![m] = r] /\ y.entry = x.entry /\ y.table = x.table
      /\ y.order = x.order
      /\ y = [mem |-> y.mem, order |-> y.order, entry |-> y.entry, table |-> y.table]
  BY <1>1 DEF FilledWith
<1> HIDE DEF r
<1>4. y.mem \in [Mems -> MemRecord] /\ y.mem[m] = r /\ \A k \in Mems \ {m} : y.mem[k] = x.mem[k]
  BY <1>1, <1>2, <1>3
<1> QED
  BY <1>3, <1>4 DEF Filled, r

\* What CCache__Allocate asks for.
OwnFlags(recentToo, top) ==
  [persistent |-> TRUE, fixed |-> TRUE, recentToo |-> recentToo, top |-> top]

\* The memory m is new, and the game's.
LEMMA OwnGiven ==
  ASSUME RInv, NEW x, Sound(x), NEW m, NEW n, NEW flags,
         Given(c, x, m, n, flags), NEW y, y = FilledWith(x, m, Private)
  PROVE  /\ Sound(y) /\ Rest(c, y, {}, {m}) /\ m \in Mems /\ y.mem[m].locks = 1
         /\ c.mem[m].locks = 0
<1>1. Sound(c) /\ Rest(c, x, {}, {m}) /\ m \in Mems /\ c.mem[m].locks = 0
  BY RestGiven DEF RInv
<1>2. m \in Allocated(x) /\ x.mem[m].locks = 1
  BY DEF Given
<1>3. Private \in Content /\ \A k \in Plain \cup Packed : Private # Res(k)
  BY DEF Private, Content, Res
<1>4. Filled(x, y, m, Private)
  BY <1>1, <1>3, FilledIs
<1>5. Sound(y) /\ Rest(x, y, {}, {m}) /\ y.mem[m].locks = x.mem[m].locks
  BY <1>2, <1>3, <1>4, FilledSound
<1>6. y.table = x.table
  BY <1>4 DEF Filled
<1>7. Rest(c, y, {} \cup {}, {m} \cup {m})
  BY <1>1, <1>5, <1>6, RestTwice
<1>8. {} \cup {} = {} /\ {m} \cup {m} = {m}
  OBVIOUS
<1> QED
  BY <1>1, <1>2, <1>5, <1>7, <1>8

\* CCache__Allocate gives the game memory, with one reference.
LEMMA AllocateStep ==
  ASSUME RInv, IInv, NEW n \in Own, NEW recentToo \in BOOLEAN, NEW top \in BOOLEAN,
         Allocate(n, recentToo, top)
  PROVE  RInv'
<1>1. PICK flags : flags = OwnFlags(recentToo, top)
  OBVIOUS
<1>2. flags \in AllocFlags
  BY <1>1 DEF OwnFlags, AllocFlags
<1>3. /\ main.at = "away" /\ UNCHANGED <<main, loads, jobs, unpacker, answers, cacher>>
      /\ \E a \in Allocations(c, n, flags) :
           IF a.mem = None THEN c' = a.x /\ UNCHANGED held
           ELSE c' = FilledWith(a.x, a.mem, Private) /\ held' = [held EXCEPT ![a.mem] = 1]
  BY <1>1 DEF Allocate, MainHasLock, MainAt, OwnFlags, FilledWith, syncVars, workVars
<1>4. PICK a \in Allocations(c, n, flags) :
        IF a.mem = None THEN c' = a.x /\ UNCHANGED held
        ELSE c' = FilledWith(a.x, a.mem, Private) /\ held' = [held EXCEPT ![a.mem] = 1]
  BY <1>3
<1>5. Sound(c) /\ n \in Nat
  BY CacheSound DEF RInv
<1>6. /\ Sound(a.x)
      /\ \/ a.mem = None /\ Thinned(c, a.x)
         \/ a.mem \in Mems /\ Given(c, a.x, a.mem, n, flags)
  BY <1>2, <1>5, AllocationsAre
<1>7. MainAside /\ ClientOk(c)'
  BY <1>3, AwayOk
<1>8. CASE a.mem = None
  <2>1. c' = a.x /\ held' = held /\ Thinned(c, a.x)
    BY <1>4, <1>6, <1>8, CacheSound
  <2>2. PICK y : y = c'
    OBVIOUS
  <2>3. Sound(y) /\ Rest(c, y, {}, {})
    BY <1>5, <1>6, <2>1, <2>2, RestThinned
  <2> QED
    BY <1>3, <1>7, <2>1, <2>2, <2>3, RecordsStay DEF AnswersQuiet, CacherAside
<1>9. CASE a.mem # None
  <2>1. PICK m : m = a.mem
    OBVIOUS
  <2>2. PICK y : y = c'
    OBVIOUS
  <2>3. Given(c, a.x, m, n, flags) /\ y = FilledWith(a.x, m, Private) /\ held' = [held EXCEPT ![m] = 1]
    BY <1>4, <1>6, <1>9, <2>1, <2>2
  <2>4. /\ Sound(y) /\ Rest(c, y, {}, {m}) /\ m \in Mems /\ y.mem[m].locks = 1
        /\ c.mem[m].locks = 0
    BY <1>6, <2>3, OwnGiven
  <2>5. held[m] = 0 /\ unpacker.mem # m /\ \A f \in Pend(c) : c.entry[f].mem # m
    BY <2>4, Unlocked
  <2>6. /\ held' \in [Mems -> Nat] /\ held'[m] = 1 /\ \A k \in Mems \ {m} : held'[k] = held[k]
    BY <2>3, <2>4 DEF RInv, Linked, Queued
  <2>7. c'.mem[m].locks + held[m] = c.mem[m].locks + held'[m]
    BY <2>2, <2>4, <2>5, <2>6
  <2> QED
    BY <1>3, <1>7, <2>2, <2>4, <2>5, <2>6, <2>7, RecordsHeld
<1> QED
  BY <1>8, <1>9

----------------------------------------------------------------------------
(* A request that goes from one place to another                            *)

\* How often the request e is in each place.
Spot(e, l, a, j, u, w, n) ==
  /\ InLoads(e) = l /\ InAnswers(e) = a /\ InJobs(e) = j
  /\ AtUnpacker(e) = u /\ AtCacher(e) = w /\ AtMain(e) = n

OnlyLoads(e)    == Spot(e, 1, 0, 0, 0, 0, 0)
OnlyAnswers(e)  == Spot(e, 0, 1, 0, 0, 0, 0)
OnlyJobs(e)     == Spot(e, 0, 0, 1, 0, 0, 0)
OnlyUnpacker(e) == Spot(e, 0, 0, 0, 1, 0, 0)
OnlyCacher(e)   == Spot(e, 0, 0, 0, 0, 1, 0)
OnlyMain(e)     == Spot(e, 0, 0, 0, 0, 0, 1)
Nowhere(e)      == Spot(e, 0, 0, 0, 0, 0, 0)

Somewhere(e) ==
  \/ OnlyLoads(e) \/ OnlyAnswers(e) \/ OnlyJobs(e)
  \/ OnlyUnpacker(e) \/ OnlyCacher(e) \/ OnlyMain(e)

\* Six numbers whose sum is at most one.
LEMMA OneOfSix ==
  ASSUME NEW l \in Nat, NEW a \in Nat, NEW j \in Nat, NEW u \in Nat, NEW w \in Nat, NEW n \in Nat,
         NEW s \in {0, 1}, l + a + j + u + w + n = s
  PROVE  /\ s = 0 => l = 0 /\ a = 0 /\ j = 0 /\ u = 0 /\ w = 0 /\ n = 0
         /\ l # 0 => l = 1 /\ a = 0 /\ j = 0 /\ u = 0 /\ w = 0 /\ n = 0
         /\ a # 0 => l = 0 /\ a = 1 /\ j = 0 /\ u = 0 /\ w = 0 /\ n = 0
         /\ j # 0 => l = 0 /\ a = 0 /\ j = 1 /\ u = 0 /\ w = 0 /\ n = 0
         /\ u # 0 => l = 0 /\ a = 0 /\ j = 0 /\ u = 1 /\ w = 0 /\ n = 0
         /\ w # 0 => l = 0 /\ a = 0 /\ j = 0 /\ u = 0 /\ w = 1 /\ n = 0
         /\ n # 0 => l = 0 /\ a = 0 /\ j = 0 /\ u = 0 /\ w = 0 /\ n = 1
OBVIOUS

\* A request is only where it is seen.
LEMMA WhereIs ==
  ASSUME RInv, IInv, NEW e \in Entries
  PROVE  /\ ToLoad(e) => OnlyLoads(e)
         /\ ToTake(e) => OnlyAnswers(e)
         /\ ToUnpack(e) => OnlyJobs(e)
         /\ unpacker.entry = e => OnlyUnpacker(e)
         /\ cacher.entry = e => OnlyCacher(e)
         /\ WithMain(e) => OnlyMain(e)
         /\ e \notin Pend(c) => Nowhere(e)
<1>1. /\ InLoads(e) \in Nat /\ InAnswers(e) \in Nat /\ InJobs(e) \in Nat
      /\ InLoads(e) + InAnswers(e) + InJobs(e) + AtUnpacker(e) + AtCacher(e) + AtMain(e)
         = IF e \in Pend(c) THEN 1 ELSE 0
      /\ Lined
  BY TokensNow
<1>2. /\ InLoads(e) = 0 <=> ~ToLoad(e)
      /\ InAnswers(e) = 0 <=> ~ToTake(e)
      /\ InJobs(e) = 0 <=> ~ToUnpack(e)
  BY <1>1, WaysAre DEF Ways, ToLoad, ToTake, ToUnpack
<1>3. /\ AtUnpacker(e) \in Nat /\ AtCacher(e) \in Nat /\ AtMain(e) \in Nat
      /\ AtUnpacker(e) = 0 <=> unpacker.entry # e
      /\ AtCacher(e) = 0 <=> cacher.entry # e
      /\ AtMain(e) = 0 <=> ~WithMain(e)
  BY DEF AtUnpacker, AtCacher, AtMain, WithMain
<1>4. PICK l, a, j, u, w, n : Spot(e, l, a, j, u, w, n)
  BY DEF Spot
<1>5. PICK s : s = IF e \in Pend(c) THEN 1 ELSE 0
  OBVIOUS
<1>6. /\ l \in Nat /\ a \in Nat /\ j \in Nat /\ u \in Nat /\ w \in Nat /\ n \in Nat /\ s \in {0, 1}
      /\ l + a + j + u + w + n = s /\ (e \notin Pend(c) => s = 0)
      /\ (l = 0 <=> ~ToLoad(e)) /\ (a = 0 <=> ~ToTake(e)) /\ (j = 0 <=> ~ToUnpack(e))
      /\ (u = 0 <=> unpacker.entry # e) /\ (w = 0 <=> cacher.entry # e) /\ (n = 0 <=> ~WithMain(e))
  BY <1>1, <1>2, <1>3, <1>4, <1>5 DEF Spot
<1> QED
  BY <1>4, <1>6, OneOfSix
     DEF Spot, OnlyLoads, OnlyAnswers, OnlyJobs, OnlyUnpacker, OnlyCacher, OnlyMain, Nowhere

\* The request f does not move.
SamePlaces(f) ==
  /\ InLoads(f)' = InLoads(f) /\ InAnswers(f)' = InAnswers(f) /\ InJobs(f)' = InJobs(f)
  /\ AtUnpacker(f)' = AtUnpacker(f) /\ AtCacher(f)' = AtCacher(f) /\ AtMain(f)' = AtMain(f)

\* What does not change leaves its requests where they are.
LEMMA PlacesSame ==
  /\ loads' = loads => \A f : InLoads(f)' = InLoads(f)
  /\ answers' = answers => \A f : InAnswers(f)' = InAnswers(f)
  /\ jobs' = jobs => \A f : InJobs(f)' = InJobs(f)
  /\ unpacker'.entry = unpacker.entry => \A f : AtUnpacker(f)' = AtUnpacker(f)
  /\ cacher'.entry = cacher.entry => \A f : AtCacher(f)' = AtCacher(f)
  /\ main' = main => \A f : AtMain(f)' = AtMain(f)
BY DEF InLoads, InAnswers, InJobs, Count, AtUnpacker, AtCacher, AtMain

\* And e, which is pending, is in one place again.
LEMMA TokensMoved ==
  ASSUME RInv, IInv, Lined', NEW e \in Entries, e \in Pend(c'), Somewhere(e)',
         \A f \in Entries \ {e} : SamePlaces(f) /\ (f \in Pend(c') <=> f \in Pend(c))
  PROVE  Tokens(c)'
<1>1. PICK P : P = Pend(c')
  OBVIOUS
<1>2. ASSUME NEW f \in Entries
      PROVE  InLoads(f)' + InAnswers(f)' + InJobs(f)' + AtUnpacker(f)' + AtCacher(f)' + AtMain(f)'
             = IF f \in P THEN 1 ELSE 0
  <2>1. CASE f = e
    <3>1. PICK l, a, j, u, w, n : Spot(e, l, a, j, u, w, n)'
      BY DEF Spot
    <3>2. l + a + j + u + w + n = 1
      BY <3>1 DEF Somewhere, OnlyLoads, OnlyAnswers, OnlyJobs, OnlyUnpacker, OnlyCacher, OnlyMain, Spot
    <3> QED
      BY <1>1, <2>1, <3>1, <3>2 DEF Spot
  <2>2. CASE f # e
    <3>1. InLoads(f) + InAnswers(f) + InJobs(f) + AtUnpacker(f) + AtCacher(f) + AtMain(f)
          = IF f \in Pend(c) THEN 1 ELSE 0
      BY TokensNow
    <3>2. f \in P <=> f \in Pend(c)
      BY <1>1, <2>2
    <3>3. SamePlaces(f)
      BY <2>2
    <3> QED
      BY <3>1, <3>2, <3>3 DEF SamePlaces
  <2> QED
    BY <2>1, <2>2
<1> QED
  BY <1>1, <1>2, TokensNext

\* A request that only changes place moves no memory.
LEMMA PassMoves ==
  ASSUME RInv, UNCHANGED <<c, held>>, unpacker'.mem = unpacker.mem
  PROVE  Moves({}, {})
<1>1. Rest(c, c, {}, {})
  BY RestThinned, ThinnedSelf DEF RInv
<1>2. PICK y : y = c'
  OBVIOUS
<1> QED
  BY <1>1, <1>2 DEF Moves

\* A step that moves the request e, and leaves all records.
LEMMA RecordsPass ==
  ASSUME RInv, IInv, UNCHANGED <<c, held>>, unpacker'.mem = unpacker.mem, Lined',
         NEW e \in Pend(c), Somewhere(e)', \A f \in Entries \ {e} : SamePlaces(f),
         UnpackerMem(c)', LoadsOk(c)', AnswersOk(c)', JobsOk(c)', CacherOk(c)',
         UnpackerOk(c)', MainOk(c)', ClientOk(c)'
  PROVE  RInv'
<1>1. Moves({}, {})
  BY PassMoves
<1>2. Sound(c')
  BY DEF RInv
<1>3. e \in Entries /\ e \in Pend(c') /\ Pend(c') = Pend(c)
  BY DEF Pend
<1>4. Tokens(c)'
  BY <1>3, TokensMoved
<1> QED
  BY <1>1, <1>2, <1>4, MovesStep

----------------------------------------------------------------------------
(* Requests between the main thread, the decompressor and the cache         *)

\* What is packed is put in front of the other jobs.
LEMMA DecompressRecords == ASSUME RInv, IInv, DecompressSync PROVE RInv'
<1>1. PICK e : e = main.entry
  OBVIOUS
<1>2. PICK j : j = [entry |-> e, sync |-> TRUE]
  OBVIOUS
<1>3. /\ main.at = "jam" /\ jobs' = Ahead(j, jobs) /\ main' = [main EXCEPT !.at = "unpack"]
      /\ UNCHANGED <<c, held>> /\ UNCHANGED <<cacher, loads, unpacker, answers>>
  BY <1>1, <1>2 DEF DecompressSync, MainAt, Ahead, syncVars, clientVars
<1>4. e \in Pend(c) /\ Origin(c, e) /\ ~c.entry[e].unpack /\ c.entry[e].key = main.key
  BY <1>1, <1>3 DEF RInv, Linked, MainOk, Busy
<1>5. e \in Entries /\ JobOk(c, e) /\ j \in JobRecord /\ j.entry = e
  BY <1>2, <1>4 DEF Pend, JobOk, JobRecord, SomeEntry
<1>6. Lined
  BY TokensNow
<1>7. /\ jobs' \in Seq(JobRecord)
      /\ \A f \in Entries : InJobs(f)' = InJobs(f) + (IF f = e THEN 1 ELSE 0)
  BY <1>3, <1>5, <1>6, JobAdded
<1>8. Lined'
  BY <1>3, <1>6, <1>7 DEF Lined, Queued
<1>9. main'.at = "unpack" /\ main'.entry = e /\ main'.key = main.key
  BY <1>1, <1>3 DEF IInv, Shapes, Away
<1>10. \A f \in Entries \ {e} : SamePlaces(f)
  <2>1. \A f \in Entries \ {e} : InJobs(f)' = InJobs(f)
    BY <1>6, <1>7, WaysAre DEF Ways
  <2>2. \A f \in Entries \ {e} : AtMain(f)' = AtMain(f)
    BY <1>1, <1>9 DEF AtMain
  <2> QED
    BY <1>3, <2>1, <2>2, PlacesSame DEF SamePlaces
<1>11. OnlyJobs(e)'
  <2>1. OnlyMain(e)
    BY <1>1, <1>3, <1>5, WhereIs DEF WithMain
  <2>2. AtMain(e)' = 0
    BY <1>9 DEF AtMain
  <2> QED
    BY <1>3, <1>5, <1>7, <2>1, <2>2, PlacesSame DEF OnlyMain, OnlyJobs, Spot
<1>12. Moves({}, {})
  BY <1>3, PassMoves
<1>13. JobsOk(c)'
  <2>1. From(jobs', jobs, {j})
    BY <1>3, <1>5, <1>6, FromAhead DEF Lined
  <2>2. \A i \in {j} : JobOk(c', i.entry)
    BY <1>3, <1>5
  <2> QED
    BY <1>12, <2>1, <2>2, JobsCarried
<1>14. LoadsOk(c)' /\ AnswersOk(c)' /\ CacherOk(c)' /\ UnpackerOk(c)' /\ UnpackerMem(c)'
  BY <1>3, <1>12, FromSelf, LoadsCarried, AnswersCarried, CacherCarried, UnpackerCarried,
     UnpackerMemSame
<1>15. MainOk(c)' /\ ClientOk(c)'
  BY <1>3, <1>4, <1>9 DEF MainOk, ClientOk, Busy
<1> QED
  BY <1>3, <1>4, <1>8, <1>10, <1>11, <1>13, <1>14, <1>15, RecordsPass DEF Somewhere

\* The main thread goes on, or finds the queue full.
LEMMA SendRecords == ASSUME RInv, IInv, MakeAsync PROVE RInv'
<1>1. PICK e : e = main.entry
  OBVIOUS
<1>2. PICK j : j = [entry |-> e, sync |-> FALSE]
  OBVIOUS
<1>3. main.at = "send" /\ UNCHANGED <<c, cacher, loads, unpacker, answers>>
  BY DEF MakeAsync, MainAt, syncVars
<1>4. /\ e \in Pend(c) /\ Origin(c, e) /\ ~c.entry[e].unpack /\ c.entry[e].key = main.key
      /\ main.key \in Made /\ c.entry[e].mem = main.mem
  BY <1>1, <1>3 DEF RInv, Linked, MainOk, Busy
<1>5. e \in Entries /\ JobOk(c, e) /\ j \in JobRecord /\ j.entry = e
  BY <1>2, <1>4 DEF Pend, JobOk, JobRecord, SomeEntry
<1>6. Lined /\ OnlyMain(e)
  BY <1>1, <1>3, <1>5, TokensNow, WhereIs DEF WithMain
<1>7. CASE jobs' = Behind(j, jobs) /\ Returns(None)
  <2>1. held' = held /\ main'.at \notin Busy /\ ClientOk(c)'
    BY <1>7, ReturnsNothing
  <2>2. /\ jobs' \in Seq(JobRecord)
        /\ \A f \in Entries : InJobs(f)' = InJobs(f) + (IF f = e THEN 1 ELSE 0)
    BY <1>5, <1>6, <1>7, JobAdded
  <2>3. Lined'
    BY <1>3, <1>6, <2>1, <2>2 DEF Lined, Queued
  <2>4. main'.at \notin Busy
    BY <2>1
  <2>5. \A f \in Entries \ {e} : SamePlaces(f)
    <3>1. \A f \in Entries \ {e} : InJobs(f)' = InJobs(f)
      BY <1>6, <2>2, WaysAre DEF Ways
    <3>2. \A f \in Entries \ {e} : AtMain(f)' = AtMain(f)
      BY <1>1, <2>4 DEF AtMain, Busy
    <3> QED
      BY <1>3, <3>1, <3>2, PlacesSame DEF SamePlaces
  <2>6. OnlyJobs(e)'
    <3>1. AtMain(e)' = 0
      BY <2>4 DEF AtMain, Busy
    <3> QED
      BY <1>3, <1>5, <1>6, <2>2, <3>1, PlacesSame DEF OnlyMain, OnlyJobs, Spot
  <2>7. Moves({}, {})
    BY <1>3, <2>1, PassMoves
  <2>8. JobsOk(c)'
    <3>1. From(jobs', jobs, {j})
      BY <1>5, <1>6, <1>7, FromBehind DEF Lined
    <3>2. \A i \in {j} : JobOk(c', i.entry)
      BY <1>3, <1>5
    <3> QED
      BY <2>7, <3>1, <3>2, JobsCarried
  <2>9. LoadsOk(c)' /\ AnswersOk(c)' /\ CacherOk(c)' /\ UnpackerOk(c)' /\ UnpackerMem(c)'
    BY <1>3, <2>7, FromSelf, LoadsCarried, AnswersCarried, CacherCarried, UnpackerCarried,
       UnpackerMemSame
  <2>10. MainOk(c)'
    BY <2>4 DEF MainOk, Busy
  <2> QED
    BY <1>3, <1>4, <2>1, <2>3, <2>5, <2>6, <2>8, <2>9, <2>10, RecordsPass DEF Somewhere
<1>8. CASE main' = [main EXCEPT !.at = "undo"] /\ UNCHANGED <<jobs, clientVars>>
  <2>1. held' = held /\ jobs' = jobs
    BY <1>8 DEF clientVars
  <2>2. main'.at = "undo" /\ main'.entry = e /\ main'.key = main.key /\ main'.mem = main.mem
    BY <1>1, <1>8 DEF IInv, Shapes, Away
  <2>3. Lined'
    BY <1>3, <1>6, <2>1 DEF Lined, Queued
  <2>4. \A f \in Entries : AtMain(f)' = AtMain(f)
    BY <1>1, <1>3, <2>2 DEF AtMain
  <2>5. \A f \in Entries \ {e} : SamePlaces(f)
    BY <1>3, <2>1, <2>4, PlacesSame DEF SamePlaces
  <2>6. OnlyMain(e)'
    BY <1>3, <1>5, <1>6, <2>1, <2>4, PlacesSame DEF OnlyMain, Spot
  <2>7. Moves({}, {})
    BY <1>3, <2>1, PassMoves
  <2>8. /\ LoadsOk(c)' /\ AnswersOk(c)' /\ JobsOk(c)' /\ CacherOk(c)' /\ UnpackerOk(c)'
        /\ UnpackerMem(c)'
    BY <1>3, <2>1, <2>7, FromSelf, LoadsCarried, AnswersCarried, JobsCarried, CacherCarried,
       UnpackerCarried, UnpackerMemSame
  <2>9. MainOk(c)' /\ ClientOk(c)'
    BY <1>3, <1>4, <2>2 DEF MainOk, ClientOk, Busy, Origin
  <2> QED
    BY <1>3, <1>4, <2>1, <2>3, <2>5, <2>6, <2>8, <2>9, RecordsPass DEF Somewhere
<1> QED
  BY <1>1, <1>2, <1>7, <1>8 DEF MakeAsync, Behind

----------------------------------------------------------------------------
(* The decompressor's requests                                              *)

\* The decompressor finds what it has to do.
LEMMA JobRecords == ASSUME RInv, IInv, TakeJob PROVE RInv'
<1>1. PICK j : j = Head(jobs)
  OBVIOUS
<1>2. PICK e : e = j.entry
  OBVIOUS
<1>3. /\ unpacker.at = "idle" /\ jobs # <<>> /\ jobs' = Tail(jobs)
      /\ unpacker' = [unpacker EXCEPT !.at = "alloc", !.entry = e, !.sync = j.sync,
                                      !.from = c.mem[c.entry[e].mem].at]
      /\ UNCHANGED <<c, held>> /\ UNCHANGED <<cacher, loads, main, answers>>
  BY <1>1, <1>2 DEF TakeJob, syncVars, clientVars
<1>4. Lined /\ jobs \in Seq(JobRecord)
  BY TokensNow DEF Lined
<1>5. 1 \in DOMAIN jobs /\ jobs[1] = j
  BY <1>1, <1>3, <1>4
<1>6. JobOk(c, e)
  BY <1>2, <1>5 DEF RInv, Linked, JobsOk
<1>7. e \in Pend(c) /\ e \in Entries /\ e # None
  BY <1>6, CacheSound DEF JobOk, Origin, Pend
<1>8. unpacker.entry = None /\ unpacker.mem = None
  BY <1>3 DEF RInv, Linked, UnpackerOk, UnpackerMem
<1>9. unpacker'.at = "alloc" /\ unpacker'.entry = e /\ unpacker'.mem = unpacker.mem
  BY <1>3 DEF IInv, Shapes
<1>10. /\ jobs' \in Seq(JobRecord)
       /\ \A f \in Entries :
            InJobs(f)' \in Nat /\ InJobs(f) = InJobs(f)' + (IF f = e THEN 1 ELSE 0)
  BY <1>1, <1>2, <1>3, <1>4, JobTaken
<1>11. Lined'
  BY <1>3, <1>4, <1>10 DEF Lined, Queued
<1>12. \A f \in Entries \ {e} : SamePlaces(f)
  <2>1. \A f \in Entries \ {e} : InJobs(f)' = InJobs(f)
    BY <1>10
  <2>2. \A f \in Entries \ {e} : AtUnpacker(f)' = AtUnpacker(f)
    BY <1>8, <1>9, CacheSound DEF AtUnpacker
  <2> QED
    BY <1>3, <2>1, <2>2, PlacesSame DEF SamePlaces
<1>13. OnlyUnpacker(e)'
  <2>1. OnlyJobs(e)
    BY <1>2, <1>5, <1>7, WhereIs DEF ToUnpack
  <2>2. AtUnpacker(e)' = 1
    BY <1>9 DEF AtUnpacker
  <2>3. InJobs(e)' = 0
    BY <1>7, <1>10, <2>1 DEF OnlyJobs, Spot
  <2> QED
    BY <1>3, <2>1, <2>2, <2>3, PlacesSame DEF OnlyUnpacker, OnlyJobs, Spot
<1>14. Moves({}, {})
  BY <1>3, <1>9, PassMoves
<1>15. JobsOk(c)'
  <2>1. From(jobs', jobs, {})
    BY <1>3, <1>4, FromTail
  <2> QED
    BY <1>14, <2>1, JobsCarried
<1>16. LoadsOk(c)' /\ AnswersOk(c)' /\ CacherOk(c)' /\ MainOk(c)' /\ ClientOk(c)'
  <2>1. LoadsOk(c)'
    BY <1>3, <1>14, FromSelf, LoadsCarried
  <2>2. AnswersOk(c)'
    BY <1>3, <1>14, FromSelf, AnswersCarried
  <2>3. CacherOk(c)'
    BY <1>3, <1>14, CacherCarried
  <2>4. MainOk(c)'
    BY <1>3, <1>14, MainCarried
  <2>5. ClientOk(c)'
    BY <1>3, <1>14, ClientCarried
  <2> QED
    BY <2>1, <2>2, <2>3, <2>4, <2>5
<1>17. UnpackerOk(c)'
  <2>1. JobOk(c, e)'
    BY <1>3, <1>6 DEF JobOk, Origin
  <2> QED
    BY <1>7, <1>9, <2>1 DEF UnpackerOk, JobOk, Origin
<1>18. UnpackerMem(c)'
  BY <1>8, <1>9 DEF UnpackerMem
<1> QED
  BY <1>3, <1>7, <1>9, <1>11, <1>12, <1>13, <1>15, <1>16, <1>17, <1>18, RecordsPass DEF Somewhere

\* The decompressor answers the main thread, or the cache's.
LEMMA AnswerRecords == ASSUME RInv, IInv, Answer PROVE RInv'
<1>1. PICK e : e = unpacker.entry
  OBVIOUS
<1>2. /\ unpacker.at = "reply"
      /\ unpacker' = [unpacker EXCEPT !.at = "idle", !.entry = None, !.sync = FALSE]
      /\ UNCHANGED <<c, held>> /\ UNCHANGED <<cacher, loads, jobs>>
  BY DEF Answer, clientVars
<1>3. e \in Pend(c) /\ ~c.entry[e].unpack /\ Sole(c, e) /\ unpacker.mem = None
  BY <1>1, <1>2 DEF RInv, Linked, UnpackerOk, UnpackerMem
<1>4. e \in Entries /\ e # None /\ Lined /\ OnlyUnpacker(e)
  <2>1. e \in Entries
    BY <1>3 DEF Pend
  <2> QED
    BY <1>1, <2>1, CacheSound, TokensNow, WhereIs
<1>5. unpacker'.at = "idle" /\ unpacker'.entry = None /\ unpacker'.mem = unpacker.mem
  BY <1>2 DEF IInv, Shapes
<1>6. \A f \in Entries : f # None
  BY CacheSound
<1>7. \A f \in Entries \ {e} : AtUnpacker(f)' = AtUnpacker(f)
  BY <1>1, <1>5, <1>6 DEF AtUnpacker
<1>8. AtUnpacker(e)' = 0
  BY <1>4, <1>5 DEF AtUnpacker
<1>9. Moves({}, {})
  BY <1>2, <1>5, PassMoves
<1>10. LoadsOk(c)' /\ CacherOk(c)' /\ JobsOk(c)' /\ UnpackerOk(c)' /\ UnpackerMem(c)'
  <2>1. UnpackerOk(c)' /\ UnpackerMem(c)'
    BY <1>3, <1>5 DEF UnpackerOk, UnpackerMem
  <2> QED
    BY <1>2, <1>9, <2>1, FromSelf, LoadsCarried, CacherCarried, JobsCarried
<1>11. Sole(c, e)'
  BY <1>2, <1>3, <1>5 DEF Sole
<1>12. CASE unpacker.sync /\ main' = [main EXCEPT !.at = "complete"] /\ UNCHANGED answers
  <2>1. main.at = "unpack" /\ main.entry = e
    BY <1>1, <1>12 DEF IInv, OneSyncJob
  <2>2. main'.at = "complete" /\ main'.entry = e /\ main'.key = main.key
    BY <1>12, <2>1 DEF IInv, Shapes, Away
  <2>3. Lined'
    BY <1>2, <1>4, <1>12 DEF Lined, Queued
  <2>4. \A f \in Entries \ {e} : AtMain(f)' = AtMain(f)
    BY <2>1, <2>2 DEF AtMain
  <2>5. \A f \in Entries \ {e} : SamePlaces(f)
    BY <1>2, <1>7, <1>12, <2>4, PlacesSame DEF SamePlaces
  <2>6. AtMain(e)' = 1
    BY <2>2 DEF AtMain
  <2>7. OnlyMain(e)'
    BY <1>2, <1>4, <1>8, <1>12, <2>6, PlacesSame DEF OnlyMain, OnlyUnpacker, Spot
  <2>8. AnswersOk(c)'
    BY <1>9, <1>12, FromSelf, AnswersCarried
  <2>9. c.entry[e].key = main.key
    BY <2>1 DEF RInv, Linked, MainOk, Busy
  <2>10. MainOk(c)' /\ ClientOk(c)'
    BY <1>2, <1>3, <1>11, <2>2, <2>9 DEF MainOk, ClientOk, Busy
  <2> QED
    BY <1>2, <1>3, <1>5, <1>10, <2>3, <2>5, <2>7, <2>8, <2>10, RecordsPass DEF Somewhere
<1>13. CASE answers' = Append(answers, e) /\ UNCHANGED main
  <2>1. /\ answers' \in Seq(Entries \cup Lists)
        /\ \A f \in Entries : InAnswers(f)' = InAnswers(f) + (IF f = e THEN 1 ELSE 0)
    BY <1>4, <1>13, AnswerAdded
  <2>2. Lined'
    BY <1>2, <1>4, <2>1 DEF Lined, Queued
  <2>3. \A f \in Entries \ {e} : InAnswers(f)' = InAnswers(f)
    BY <1>4, <2>1, WaysAre DEF Ways
  <2>4. \A f \in Entries \ {e} : SamePlaces(f)
    BY <1>2, <1>7, <1>13, <2>3, PlacesSame DEF SamePlaces
  <2>5. InAnswers(e)' = 1
    BY <1>4, <2>1 DEF OnlyUnpacker, Spot
  <2>6. OnlyAnswers(e)'
    BY <1>2, <1>4, <1>8, <1>13, <2>5, PlacesSame DEF OnlyAnswers, OnlyUnpacker, Spot
  <2>7. AnswersOk(c)'
    <3>1. answers \in Seq(Entries \cup Lists)
      BY <1>4 DEF Lined, Queued
    <3>2. From(answers', answers, {e})
      BY <1>4, <1>13, <3>1, FromBehind DEF Behind
    <3>3. AnswerOk(c, e)'
      BY <1>2, <1>3, <1>11 DEF AnswerOk
    <3>4. \A v \in {e} : v \in Lists \/ AnswerOk(c, v)'
      BY <3>3
    <3> QED
      BY <1>9, <3>2, <3>4, AnswersCarried
  <2>8. MainOk(c)' /\ ClientOk(c)'
    BY <1>2, <1>9, <1>13, MainCarried, ClientCarried
  <2> QED
    BY <1>2, <1>3, <1>5, <1>10, <2>2, <2>4, <2>6, <2>7, <2>8, RecordsPass DEF Somewhere
<1> QED
  BY <1>1, <1>12, <1>13 DEF Answer

----------------------------------------------------------------------------
(* Reads that return                                                        *)

\* A read of n units, for the request e of key k, to the address of its memory m.
Reads(e, m, k, n, to) ==
  /\ LoadOk(c, e, to) /\ m = c.entry[e].mem /\ k = c.entry[e].key /\ n = c.entry[e].length

\* It has what the request was made with.
LEMMA ReadsAre ==
  ASSUME RInv, NEW e, NEW m, NEW k, NEW n, NEW to, Reads(e, m, k, n, to)
  PROVE  /\ e \in Pend(c) /\ e \in Entries /\ m \in Mems /\ m # None /\ m \in Allocated(c)
         /\ k \in Keys \ Made /\ Sole(c, e) /\ to = c.mem[m].at /\ n = c.mem[m].size
         /\ c.mem[m].size > 0 /\ PendingOk(c, e)
         /\ k \in Packed => c.mem[m].persistent
         /\ k \in Plain => ~c.mem[m].persistent
<1>1. /\ e \in Pend(c) /\ m \in Mems /\ k \notin Made /\ to = c.mem[m].at /\ n = c.mem[m].size
      /\ c.mem[m].size > 0
      /\ k \in Packed => c.mem[m].persistent
      /\ k \in Plain => ~c.mem[m].persistent
  BY DEF Reads, LoadOk
<1>2. PendingOk(c, e)
  BY <1>1 DEF RInv, Linked, Pendings
<1>3. m # None /\ e \in Entries
  BY <1>1, CacheSound DEF Pend
<1>4. m \in Allocated(c) /\ k \in Keys /\ Sole(c, e)
  BY <1>1, <1>2, <1>3 DEF PendingOk, Reads
<1> QED
  BY <1>1, <1>2, <1>3, <1>4

\* What it brings may be in its memory, and is what the decompressor needs.
LEMMA BroughtIs ==
  ASSUME RInv, NEW e, NEW m, NEW k, NEW n, NEW to, Reads(e, m, k, n, to),
         NEW what, what = OnCartridge(k, n)
  PROVE  /\ what \in Content
         /\ c.mem[m].persistent => \A j \in Plain \cup Packed : what # Res(j)
         /\ k \in Packed => what = Original(k)
<1>1. /\ k \in Keys \ Made
      /\ k \in Packed => c.mem[m].persistent
      /\ k \in Plain => ~c.mem[m].persistent
  BY ReadsAre
<1>2. k \in Packed => k \notin Plain /\ k \notin Indexes
  BY CacheSound
<1>3. CASE k \in Packed
  <2>1. what = Raw(k)
    BY <1>3 DEF OnCartridge
  <2>2. what \in Content
    BY <1>1, <2>1 DEF Raw, Content
  <2>3. \A j : what # Res(j)
    BY <2>1 DEF Raw, Res
  <2> QED
    BY <1>1, <2>1, <2>2, <2>3 DEF Original
<1>4. CASE k \notin Packed
  <2>1. what \in Content /\ what.key = k
    <3>1. what = [key |-> k, part |-> "whole"] \/ what = [key |-> k, part |-> "probe"]
      BY <1>4 DEF OnCartridge
    <3> QED
      BY <1>1, <3>1 DEF Content
  <2>2. k \in Indexes \/ k \in Plain
    BY <1>1, <1>4 DEF Keys
  <2>3. k \in Indexes => k \notin Plain \cup Packed
    BY CacheSound
  <2>4. \A j : Res(j).key = j
    BY DEF Res
  <2> QED
    BY <1>1, <1>4, <2>1, <2>2, <2>3, <2>4
<1> QED
  BY <1>3, <1>4

\* The request e has what was to be read, in its memory m, for itself.
HasRead(e, m) ==
  /\ Sound(c') /\ Moves({e}, {m}) /\ c'.entry = c.entry
  /\ PendingOk(c, e)' /\ Balanced(c, m)' /\ Sole(c, e)' /\ e \in Pend(c')
  /\ held[m] = 0 /\ unpacker.mem # m
  /\ c.entry[e].key \in Packed => Origin(c, e)'

\* A read that returns writes to the memory it was queued for.
LEMMA ReadReturns ==
  ASSUME RInv, NEW e, NEW m, NEW k, NEW n, NEW to, Reads(e, m, k, n, to),
         c' = Written(c, to, n, OnCartridge(k, n)), UNCHANGED held, unpacker'.mem = unpacker.mem
  PROVE  HasRead(e, m)
<1>1. /\ e \in Pend(c) /\ e \in Entries /\ m \in Mems /\ m # None /\ m \in Allocated(c)
      /\ k \in Keys \ Made /\ Sole(c, e) /\ to = c.mem[m].at /\ n = c.mem[m].size
      /\ c.mem[m].size > 0 /\ PendingOk(c, e)
      /\ k \in Packed => c.mem[m].persistent
  BY ReadsAre
<1>2. m = c.entry[e].mem /\ k = c.entry[e].key
  BY DEF Reads
<1>3. PICK what : what = OnCartridge(k, n)
  OBVIOUS
<1>4. /\ what \in Content
      /\ c.mem[m].persistent => \A j \in Plain \cup Packed : what # Res(j)
      /\ k \in Packed => what = Original(k)
  BY <1>3, BroughtIs
<1>5. PICK y : y = c'
  OBVIOUS
<1>6. Sound(c) /\ y = Written(c, to, n, what)
  BY <1>3, <1>5 DEF RInv
<1>7. Filled(c, y, m, what)
  BY <1>1, <1>4, <1>6, WrittenFills
<1>8. /\ Sound(y) /\ Allocated(y) = Allocated(c) /\ y.mem[m].holds = what
      /\ y.mem[m].locks = c.mem[m].locks /\ y.mem[m].persistent = c.mem[m].persistent
      /\ y.mem[m].entry = c.mem[m].entry /\ Rest(c, y, {}, {m})
  BY <1>1, <1>4, <1>6, <1>7, FilledSound
<1>9. y.entry = c.entry /\ y.table = c.table /\ Pend(y) = Pend(c)
  BY <1>7 DEF Filled, Pend
<1>10. /\ held[m] = 0 /\ unpacker.mem # m /\ c.mem[m].entry = None
       /\ \A f \in Pend(c) : c.entry[f].mem = m => f = e
  BY <1>1, <1>2, SoleLocks
<1>11. Rest(c, c', {e}, {m})
  BY <1>5, <1>8, <1>9 DEF Rest
<1>12. Moves({e}, {m})
  BY <1>1, <1>2, <1>5, <1>9, <1>10, <1>11 DEF Moves
<1>13. Sole(c, e)'
  BY <1>2, <1>5, <1>8, <1>9, <1>10 DEF Sole
<1>14. PendingOk(c, e)'
  BY <1>1, <1>2, <1>5, <1>8, <1>9, <1>13 DEF PendingOk
<1>15. Balanced(c, m)'
  <2>1. Balanced(c, m)
    BY <1>1 DEF RInv, Linked, LocksOf, Balanced
  <2>2. Using(c', m) = Using(c, m)
    BY <1>5, <1>9 DEF Using
  <2> QED
    BY <1>5, <1>8, <2>1, <2>2 DEF Balanced
<1>16. k \in Packed => Origin(c, e)'
  BY <1>1, <1>2, <1>4, <1>5, <1>8, <1>9 DEF Origin
<1> QED
  BY <1>1, <1>2, <1>5, <1>8, <1>9, <1>10, <1>12, <1>13, <1>14, <1>15, <1>16 DEF HasRead

\* The parts of the records that a read which returns leaves.
LEMMA ReadLeaves ==
  ASSUME RInv, NEW e \in Entries, NEW m \in Mems, HasRead(e, m), UNCHANGED unpacker,
         Lined', Tokens(c)', LoadsOk(c)', AnswersOk(c)', JobsOk(c)', CacherOk(c)',
         UnpackerOk(c)', MainOk(c)', ClientOk(c)'
  PROVE  RInv'
<1>1. Sound(c') /\ Moves({e}, {m}) /\ PendingOk(c, e)' /\ Balanced(c, m)'
  BY DEF HasRead
<1>2. c'.entry[e] # Reserved
  BY DEF HasRead, RInv
<1>3. UnpackerMem(c)'
  BY <1>1, UnpackerMemSame DEF HasRead
<1> QED
  BY <1>1, <1>2, <1>3, MovesStep

\* CLoader__LoadSync returns to the main thread.
LEMMA SyncReadStep == ASSUME RInv, IInv, LoadSyncReturns PROVE RInv'
<1>1. PICK e : e = main.entry
  OBVIOUS
<1>2. PICK m : m = c.entry[e].mem
  OBVIOUS
<1>3. /\ main.at = "load"
      /\ c' = Written(c, main.to, main.length, OnCartridge(main.key, main.length))
      /\ main' = [main EXCEPT !.at = IF main.key \in Packed THEN "jam" ELSE "complete"]
      /\ UNCHANGED <<held, answers, cacher, loads, jobs, unpacker>>
  BY DEF LoadSyncReturns, MainAt, syncVars, clientVars, workVars
<1>4. /\ e \in Pend(c) /\ c.entry[e].key = main.key /\ ~c.entry[e].unpack
      /\ LoadOk(c, e, main.to) /\ main.length = c.entry[e].length
  BY <1>1, <1>3 DEF RInv, Linked, MainOk, Busy
<1>5. Reads(e, m, main.key, main.length, main.to)
  BY <1>2, <1>4 DEF Reads
<1>6. e \in Entries /\ m \in Mems
  BY <1>5, ReadsAre
<1>7. HasRead(e, m)
  BY <1>3, <1>5, ReadReturns
<1>8. /\ main'.at = (IF main.key \in Packed THEN "jam" ELSE "complete")
      /\ main'.entry = e /\ main'.key = main.key
  BY <1>1, <1>3 DEF IInv, Shapes, Away
<1>9. Lined /\ WithMain(e) /\ Lone(c)
  BY <1>1, <1>3, TokensNow DEF WithMain
<1>10. ~ToLoad(e) /\ ~ToTake(e) /\ ~ToUnpack(e) /\ unpacker.entry # e /\ cacher.entry # e
  BY <1>6, <1>9 DEF Lone
<1>11. Lined'
  BY <1>3, <1>9 DEF Lined, Queued
<1>12. Tokens(c)'
  <2>1. \A f \in Entries \ {e} : AtMain(f)' = AtMain(f)
    BY <1>1, <1>8 DEF AtMain
  <2>2. \A f \in Entries \ {e} : SamePlaces(f)
    BY <1>3, <2>1, PlacesSame DEF SamePlaces
  <2>3. AtMain(e)' = 1
    BY <1>8 DEF AtMain
  <2>4. OnlyMain(e)
    BY <1>6, <1>9, WhereIs
  <2>5. OnlyMain(e)'
    BY <1>3, <2>3, <2>4, PlacesSame DEF OnlyMain, Spot
  <2>6. e \in Pend(c') /\ \A f \in Entries : f \in Pend(c') <=> f \in Pend(c)
    BY <1>7 DEF HasRead, Pend
  <2> QED
    BY <1>6, <1>11, <2>2, <2>5, <2>6, TokensMoved DEF Somewhere
<1>13. Moves({e}, {m}) /\ held[m] = 0
  BY <1>7 DEF HasRead
<1>14. LoadsOk(c)'
  BY <1>3, <1>10, <1>13, FromSelf, LoadsCarried
<1>15. AnswersOk(c)'
  BY <1>3, <1>10, <1>13, FromSelf, AnswersCarried
<1>16. JobsOk(c)'
  BY <1>3, <1>10, <1>13, FromSelf, JobsCarried
<1>17. CacherOk(c)'
  BY <1>3, <1>10, <1>13, CacherCarried
<1>18. UnpackerOk(c)'
  BY <1>3, <1>10, <1>13, UnpackerCarried
<1>19. MainOk(c)' /\ ClientOk(c)'
  <2>1. /\ e \in Pend(c') /\ c'.entry = c.entry /\ Sole(c, e)'
        /\ c.entry[e].key \in Packed => Origin(c, e)'
    BY <1>7 DEF HasRead
  <2> QED
    BY <1>4, <1>8, <2>1 DEF MainOk, ClientOk, Busy
<1> QED
  BY <1>3, <1>6, <1>7, <1>11, <1>12, <1>14, <1>15, <1>16, <1>17, <1>18, <1>19, ReadLeaves

\* The main thread is not busy with a request that is neither its own nor with the
\* decompressor.
LEMMA MainElsewhere ==
  ASSUME IInv, Lined, NEW e, ~WithMain(e), ~ToUnpack(e), unpacker.entry # e
  PROVE  ~(main.entry = e /\ main.at \in Busy)
<1>1. main.at = "unpack" => \/ unpacker.entry = main.entry
                            \/ \E i \in 1 .. Len(jobs) : jobs[i].entry = main.entry
  BY DEF IInv, OneSyncJob
<1>2. DOMAIN jobs = 1 .. Len(jobs)
  BY DEF Lined
<1>3. main.at = "unpack" => main.entry # e
  BY <1>1, <1>2 DEF ToUnpack
<1> QED
  BY <1>3 DEF Busy, WithMain

\* The loader answers the cache's thread.
LEMMA ReadAnsweredStep == ASSUME RInv, IInv, LoadAnswered PROVE RInv'
<1>1. PICK r : r = Head(loads)
  OBVIOUS
<1>2. PICK e : e = r.entry
  OBVIOUS
<1>3. PICK m : m = c.entry[e].mem
  OBVIOUS
<1>4. PICK n : n = c.entry[e].length
  OBVIOUS
<1>5. PICK k : k = c.entry[e].key
  OBVIOUS
<1>6. /\ loads # <<>> /\ loads' = Tail(loads) /\ answers' = Append(answers, e)
      /\ c' = Written(c, r.to, n, OnCartridge(k, n))
      /\ UNCHANGED <<held, main, cacher, jobs, unpacker>>
  BY <1>1, <1>2, <1>4, <1>5 DEF LoadAnswered, clientVars
<1>7. Lined /\ Lone(c) /\ loads \in Seq(LoadRecord)
  BY TokensNow DEF Lined, Queued
<1>8. 1 \in DOMAIN loads /\ loads[1] = r
  BY <1>1, <1>6, <1>7
<1>9. LoadOk(c, e, r.to) /\ (c.entry[e].unpack <=> k \in Packed)
  BY <1>2, <1>5, <1>8 DEF RInv, Linked, LoadsOk, LoadedOk
<1>10. Reads(e, m, k, n, r.to)
  BY <1>3, <1>4, <1>5, <1>9 DEF Reads
<1>11. e \in Entries /\ m \in Mems
  BY <1>10, ReadsAre
<1>12. HasRead(e, m)
  BY <1>6, <1>10, ReadReturns
<1>13. ToLoad(e)
  BY <1>2, <1>8 DEF ToLoad
<1>14. /\ ~ToTake(e) /\ ~ToUnpack(e) /\ unpacker.entry # e /\ cacher.entry # e /\ ~WithMain(e)
       /\ OnlyLoads(e)
  BY <1>7, <1>11, <1>13, WhereIs DEF Lone
<1>15. /\ loads' \in Seq(LoadRecord)
       /\ \A f \in Entries :
            InLoads(f)' \in Nat /\ InLoads(f) = InLoads(f)' + (IF f = e THEN 1 ELSE 0)
  BY <1>1, <1>2, <1>6, <1>7, LoadTaken
<1>16. /\ answers' \in Seq(Entries \cup Lists)
       /\ \A f \in Entries : InAnswers(f)' = InAnswers(f) + (IF f = e THEN 1 ELSE 0)
  BY <1>6, <1>7, <1>11, AnswerAdded
<1>17. Lined'
  BY <1>6, <1>7, <1>15, <1>16 DEF Lined, Queued
<1>18. \A f \in Entries \ {e} : SamePlaces(f)
  <2>1. \A f \in Entries : InLoads(f) \in Nat /\ InAnswers(f) \in Nat
    BY TokensNow
  <2>2. \A f \in Entries \ {e} : InLoads(f)' = InLoads(f) /\ InAnswers(f)' = InAnswers(f)
    BY <1>15, <1>16, <2>1
  <2> QED
    BY <1>6, <2>2, PlacesSame DEF SamePlaces
<1>19. OnlyAnswers(e)'
  <2>1. InLoads(e)' = 0 /\ InAnswers(e)' = 1
    BY <1>11, <1>14, <1>15, <1>16 DEF OnlyLoads, Spot
  <2> QED
    BY <1>6, <1>14, <2>1, PlacesSame DEF OnlyLoads, OnlyAnswers, Spot
<1>20. Tokens(c)'
  <2>1. e \in Pend(c') /\ \A f \in Entries : f \in Pend(c') <=> f \in Pend(c)
    BY <1>12 DEF HasRead, Pend
  <2> QED
    BY <1>11, <1>17, <1>18, <1>19, <2>1, TokensMoved DEF Somewhere
<1>21. Moves({e}, {m}) /\ held[m] = 0
  BY <1>12 DEF HasRead
<1>22. LoadsOk(c)'
  <2>1. From(loads', loads, {})
    BY <1>6, <1>7, FromTail
  <2>2. ~ToLoad(e)'
    <3>1. InLoads(e)' = 0
      BY <1>11, <1>14, <1>15 DEF OnlyLoads, Spot
    <3> QED
      BY <1>11, <1>17, <3>1, WaysNext DEF Ways, ToLoad
  <2> QED
    BY <1>21, <2>1, <2>2, LoadsCarried
<1>23. AnswersOk(c)'
  <2>1. answers \in Seq(Entries \cup Lists)
    BY <1>7 DEF Lined, Queued
  <2>2. From(answers', answers, {e})
    BY <1>6, <1>11, <2>1, FromBehind DEF Behind
  <2>3. /\ e \in Pend(c') /\ c'.entry = c.entry /\ Sole(c, e)'
        /\ c.entry[e].key \in Packed => Origin(c, e)'
    BY <1>12 DEF HasRead
  <2>4. AnswerOk(c, e)'
    BY <1>5, <1>9, <2>3 DEF AnswerOk
  <2>5. \A v \in {e} : v \in Lists \/ AnswerOk(c, v)'
    BY <2>4
  <2>6. \A f \in {e} : ~ToTake(f) \/ ~ToTake(f)'
    BY <1>14
  <2> QED
    BY <1>21, <2>2, <2>5, <2>6, AnswersCarried
<1>24. JobsOk(c)'
  <2>1. From(jobs', jobs, {})
    BY <1>6, FromSelf
  <2>2. \A f \in {e} : ~ToUnpack(f) \/ ~ToUnpack(f)'
    BY <1>14
  <2> QED
    BY <1>21, <2>1, <2>2, JobsCarried
<1>25. CacherOk(c)'
  BY <1>6, <1>14, <1>21, CacherCarried
<1>26. UnpackerOk(c)'
  BY <1>6, <1>14, <1>21, UnpackerCarried
<1>27. MainOk(c)'
  <2>1. ~(main.entry = e /\ main.at \in Busy)
    BY <1>7, <1>14, MainElsewhere
  <2> QED
    BY <1>6, <1>21, <2>1, MainCarried
<1>28. ClientOk(c)'
  <2>1. \A j \in {m} : held[j] > 0 => SameData(c, c', j)
    BY <1>21
  <2> QED
    BY <1>6, <1>21, <2>1, ClientCarried
<1> QED
  BY <1>6, <1>11, <1>12, <1>17, <1>20, <1>22, <1>23, <1>24, <1>25, <1>26, <1>27, <1>28, ReadLeaves

\* The mark of e is taken away.
Unmarking(e) == c.entry[e].unpack /\ c' = [c EXCEPT !.entry[e].unpack = FALSE]

\* The request e, to be decompressed, is not marked any more.
Unmarks(e, m) ==
  /\ Sound(c') /\ Moves({e}, {m}) /\ PendingOk(c, e)' /\ Balanced(c, m)'
  /\ Origin(c, e)' /\ ~c'.entry[e].unpack /\ c'.entry[e].key = c.entry[e].key
  /\ c.entry[e].key \in Packed
  /\ e \in Pend(c') /\ c'.entry[e] # Reserved /\ m \in Mems
  /\ held[m] = 0 /\ unpacker.mem # m

\* Its record is the only one that changes.
LEMMA Unmarked ==
  ASSUME RInv, NEW e, e \in Pend(c), AnswerOk(c, e), Unmarking(e), UNCHANGED held, unpacker'.mem = unpacker.mem,
         NEW m, m = c.entry[e].mem
  PROVE  Unmarks(e, m)
<1>1. c.entry[e].key \in Packed /\ Origin(c, e) /\ c.entry[e].mem \in Mems
  BY DEF AnswerOk, Origin, Unmarking
<1>2. e \in Entries /\ m # None /\ c.entry[e].key \notin Made /\ PendingOk(c, e) /\ Sound(c)
  BY <1>1, CacheSound DEF Pend, RInv, Linked, Pendings
<1>3. Sole(c, e)
  BY <1>2 DEF PendingOk
<1>4. /\ m \in Mems /\ m \in Allocated(c) /\ held[m] = 0 /\ unpacker.mem # m
      /\ c.mem[m].entry = None /\ \A f \in Pend(c) : c.entry[f].mem = m => f = e
  BY <1>2, <1>3, SoleLocks
<1>5. PICK y : y = c'
  OBVIOUS
<1>6. /\ EntrySet(c, y, e) /\ y.entry[e].unpack = FALSE /\ y.entry[e].mem = c.entry[e].mem
      /\ y.entry[e].key = c.entry[e].key /\ y.entry[e].length = c.entry[e].length
      /\ y.entry[e].place = c.entry[e].place
  <2>1. PICK flag \in BOOLEAN : flag = FALSE
    OBVIOUS
  <2>2. FlagSet(c, y, e, flag)
    BY <1>5, <2>1 DEF FlagSet, Unmarking
  <2>3. FlagKept(c, y, e, flag)
    BY <1>2, <2>1, <2>2, FlagIs
  <2> QED
    BY <2>1, <2>3 DEF FlagKept
<1>7. Loose(c.entry[e]) /\ Loose(y.entry[e])
  BY <1>6 DEF Loose, Pend
<1>8. /\ Sound(y) /\ Allocated(y) = Allocated(c) /\ y.mem = c.mem /\ y.table = c.table
      /\ \A f \in Entries \ {e} : y.entry[f] = c.entry[f]
  BY <1>2, <1>6, <1>7, EntrySound
<1>9. Rest(c, y, {e}, {m})
  <2>1. Rest(c, y, {e}, {})
    BY <1>2, <1>6, RestEntry
  <2> QED
    BY <2>1 DEF Rest
<1>10. Pend(y) = Pend(c) /\ e \in Pend(y)
  BY <1>2, <1>6, <1>8 DEF Pend
<1>11. Moves({e}, {m})
  BY <1>1, <1>2, <1>4, <1>5, <1>6, <1>9 DEF Moves
<1>12. \A f \in Pend(y) : y.entry[f].mem = m => f = e
  BY <1>2, <1>4, <1>8, <1>10 DEF Pend
<1>13. Sole(c, e)'
  BY <1>4, <1>5, <1>6, <1>8, <1>12 DEF Sole
<1>14. PendingOk(c, e)'
  BY <1>2, <1>5, <1>6, <1>8, <1>13 DEF PendingOk
<1>15. Balanced(c, m)'
  <2>1. Balanced(c, m)
    BY <1>4 DEF RInv, Linked, LocksOf, Balanced
  <2>2. Using(y, m) = Using(c, m)
    BY <1>2, <1>6, <1>8, <1>10 DEF Using, Pend
  <2> QED
    BY <1>5, <1>8, <2>1, <2>2 DEF Balanced
<1>16. Origin(c, e)'
  BY <1>1, <1>5, <1>6, <1>8, <1>10 DEF Origin
<1>17. y.entry[e] # Reserved
  BY <1>6 DEF Pend, Reserved, FreeEntry
<1> QED
  BY <1>1, <1>4, <1>5, <1>6, <1>8, <1>10, <1>11, <1>14, <1>15, <1>16, <1>17 DEF Unmarks

\* The cache's thread passes it to the decompressor, or finds the queue full.
LEMMA TakeLoadedRecords == ASSUME RInv, IInv, TakeLoaded PROVE RInv'
<1>1. PICK e : e = Head(answers)
  OBVIOUS
<1>2. PICK m : m = c.entry[e].mem
  OBVIOUS
<1>3. PICK j : j = [entry |-> e, sync |-> FALSE]
  OBVIOUS
<1>4. /\ cacher.at = "idle" /\ answers # <<>> /\ e \in Entries /\ answers' = Tail(answers)
      /\ Unmarking(e)
      /\ UNCHANGED <<held, main, loads, unpacker>>
      /\ \/ jobs' = Behind(j, jobs) /\ UNCHANGED cacher
         \/ cacher' = [cacher EXCEPT !.at = "undo", !.entry = e] /\ UNCHANGED jobs
  BY <1>1, <1>3 DEF TakeLoaded, Received, Behind, clientVars, Unmarking
<1>5. AnswerOk(c, e) /\ e \in Pend(c) /\ ToTake(e)
  BY <1>1, <1>4, TakenOk
<1>6. Unmarks(e, m)
  BY <1>2, <1>4, <1>5, Unmarked
<1>7. Lined /\ Lone(c)
  BY TokensNow
<1>8. /\ ~ToLoad(e) /\ ~ToUnpack(e) /\ unpacker.entry # e /\ cacher.entry # e /\ ~WithMain(e)
      /\ OnlyAnswers(e)
  BY <1>4, <1>5, <1>7, WhereIs DEF Lone
<1>9. /\ answers' \in Seq(Entries \cup Lists)
      /\ \A f \in Entries :
           InAnswers(f)' \in Nat /\ InAnswers(f) = InAnswers(f)' + (IF f = e THEN 1 ELSE 0)
  BY <1>1, <1>4, <1>7, AnswerTaken
<1>10. \A f \in Entries \ {e} : InAnswers(f)' = InAnswers(f)
  BY <1>9
<1>11. InAnswers(e)' = 0
  BY <1>4, <1>8, <1>9 DEF OnlyAnswers, Spot
<1>12. Moves({e}, {m}) /\ e \in Pend(c') /\ m \in Mems /\ held[m] = 0 /\ unpacker.mem # m
  BY <1>6 DEF Unmarks
<1>13. \A f \in Entries \ {e} : f \in Pend(c') <=> f \in Pend(c)
  BY <1>12, OthersPend
<1>14. LoadsOk(c)'
  <2>1. From(loads', loads, {}) /\ \A f \in {e} : ~ToLoad(f) \/ ~ToLoad(f)'
    BY <1>4, <1>8, FromSelf
  <2> QED
    BY <1>12, <2>1, LoadsCarried
<1>15. UnpackerOk(c)'
  <2>1. \A f \in {e} : unpacker.entry # f
    BY <1>8
  <2> QED
    BY <1>4, <1>12, <2>1, UnpackerCarried
<1>16. UnpackerMem(c)'
  BY <1>4, <1>12, UnpackerMemSame
<1>17. MainOk(c)'
  <2>1. \A f \in {e} : ~(main.entry = f /\ main.at \in Busy)
    BY <1>7, <1>8, MainElsewhere
  <2> QED
    BY <1>4, <1>12, <2>1, MainCarried
<1>18. ClientOk(c)'
  <2>1. \A i \in {m} : held[i] > 0 => SameData(c, c', i)
    BY <1>12
  <2> QED
    BY <1>4, <1>12, <2>1, ClientCarried
<1>19. ASSUME Lined', Somewhere(e)', \A f \in Entries \ {e} : SamePlaces(f),
              AnswersOk(c)', JobsOk(c)', CacherOk(c)'
       PROVE  RInv'
  <2>1. Tokens(c)'
    BY <1>4, <1>12, <1>13, <1>19, TokensMoved
  <2>2. \A f \in {e} : f \in Entries => c'.entry[f] # Reserved
    BY <1>6 DEF Unmarks
  <2>3. \A f \in {e} : f \in Pend(c') => PendingOk(c, f)'
    BY <1>6 DEF Unmarks
  <2>4. \A i \in {m} : i \in Mems => Balanced(c, i)'
    BY <1>6 DEF Unmarks
  <2>5. Sound(c')
    BY <1>6 DEF Unmarks
  <2> QED
    BY <1>12, <1>14, <1>15, <1>16, <1>17, <1>18, <1>19, <2>1, <2>2, <2>3, <2>4, <2>5, MovesStep
<1>20. InAnswers(e)' = 0 => ~ToTake(e)'
  <2>1. InAnswers(e)' = 0 => \A i \in DOMAIN answers' : answers'[i] # e
    BY <1>9, CountIs DEF InAnswers
  <2> QED
    BY <2>1 DEF ToTake
<1>21. AnswersOk(c)'
  <2>1. answers \in Seq(Entries \cup Lists)
    BY <1>7 DEF Lined, Queued
  <2>2. From(answers', answers, {})
    BY <1>4, <2>1, FromTail
  <2>3. \A f \in {e} : ~ToTake(f) \/ ~ToTake(f)'
    BY <1>11, <1>20
  <2> QED
    BY <1>12, <2>2, <2>3, AnswersCarried
<1>22. CASE jobs' = Behind(j, jobs) /\ UNCHANGED cacher
  <2>1. j \in JobRecord /\ j.entry = e
    BY <1>3, <1>4 DEF JobRecord, SomeEntry
  <2>2. /\ jobs' \in Seq(JobRecord)
        /\ \A f \in Entries : InJobs(f)' = InJobs(f) + (IF f = e THEN 1 ELSE 0)
    BY <1>4, <1>7, <1>22, <2>1, JobAdded
  <2>3. Lined'
    BY <1>4, <1>7, <1>9, <2>2 DEF Lined, Queued
  <2>4. \A f \in Entries \ {e} : InJobs(f)' = InJobs(f)
    BY <1>7, <2>2, WaysAre DEF Ways
  <2>5. \A f \in Entries \ {e} : SamePlaces(f)
    BY <1>4, <1>10, <1>22, <2>4, PlacesSame DEF SamePlaces
  <2>6. InJobs(e)' = 1
    BY <1>4, <1>8, <2>2 DEF OnlyAnswers, Spot
  <2>7. OnlyJobs(e)'
    BY <1>4, <1>8, <1>11, <1>22, <2>6, PlacesSame DEF OnlyAnswers, OnlyJobs, Spot
  <2>8. JobsOk(c)'
    <3>1. From(jobs', jobs, {j})
      BY <1>7, <1>22, <2>1, FromBehind DEF Lined
    <3>2. \A i \in {j} : JobOk(c', i.entry)
      BY <1>6, <2>1 DEF Unmarks, JobOk, Origin
    <3>3. \A f \in {e} : ~ToUnpack(f) \/ ~ToUnpack(f)'
      BY <1>8
    <3> QED
      BY <1>12, <3>1, <3>2, <3>3, JobsCarried
  <2>9. CacherOk(c)'
    BY <1>8, <1>12, <1>22, CacherCarried
  <2> QED
    BY <1>19, <1>21, <2>3, <2>5, <2>7, <2>8, <2>9 DEF Somewhere
<1>23. CASE cacher' = [cacher EXCEPT !.at = "undo", !.entry = e] /\ UNCHANGED jobs
  <2>1. cacher'.at = "undo" /\ cacher'.entry = e
    BY <1>23 DEF IInv, Shapes
  <2>2. cacher.entry = None /\ \A f \in Entries : f # None
    BY <1>4, CacheSound DEF RInv, Linked, CacherOk
  <2>3. Lined'
    BY <1>4, <1>7, <1>9, <1>23 DEF Lined, Queued
  <2>4. \A f \in Entries \ {e} : AtCacher(f)' = AtCacher(f)
    BY <2>1, <2>2 DEF AtCacher
  <2>5. \A f \in Entries \ {e} : SamePlaces(f)
    BY <1>4, <1>10, <1>23, <2>4, PlacesSame DEF SamePlaces
  <2>6. AtCacher(e)' = 1
    BY <2>1 DEF AtCacher
  <2>7. OnlyCacher(e)'
    BY <1>4, <1>8, <1>11, <1>23, <2>6, PlacesSame DEF OnlyAnswers, OnlyCacher, Spot
  <2>8. JobsOk(c)'
    <3>1. From(jobs', jobs, {}) /\ \A f \in {e} : ~ToUnpack(f) \/ ~ToUnpack(f)'
      BY <1>8, <1>23, FromSelf
    <3> QED
      BY <1>12, <3>1, JobsCarried
  <2>9. CacherOk(c)'
    BY <1>6, <2>1 DEF CacherOk, Unmarks, Origin
  <2> QED
    BY <1>19, <1>21, <2>3, <2>5, <2>7, <2>8, <2>9 DEF Somewhere
<1> QED
  BY <1>4, <1>22, <1>23

----------------------------------------------------------------------------
(* The decompressor's work                                                  *)

\* Requests that stay where they are.
LEMMA TokensUnmoved ==
  ASSUME RInv, IInv, Lined',
         \A f \in Entries : SamePlaces(f) /\ (f \in Pend(c') <=> f \in Pend(c))
  PROVE  Tokens(c)'
<1>1. PICK P : P = Pend(c')
  OBVIOUS
<1>2. \A f \in Entries :
        InLoads(f)' + InAnswers(f)' + InJobs(f)' + AtUnpacker(f)' + AtCacher(f)' + AtMain(f)'
        = IF f \in P THEN 1 ELSE 0
  <2> SUFFICES ASSUME NEW f \in Entries
               PROVE  InLoads(f)' + InAnswers(f)' + InJobs(f)' + AtUnpacker(f)' + AtCacher(f)'
                      + AtMain(f)' = IF f \in P THEN 1 ELSE 0
    OBVIOUS
  <2>1. InLoads(f) + InAnswers(f) + InJobs(f) + AtUnpacker(f) + AtCacher(f) + AtMain(f)
        = IF f \in Pend(c) THEN 1 ELSE 0
    BY TokensNow
  <2>2. SamePlaces(f) /\ (f \in P <=> f \in Pend(c))
    BY <1>1
  <2> QED
    BY <2>1, <2>2 DEF SamePlaces
<1> QED
  BY <1>1, <1>2, TokensNext

\* The decompressor goes on with its request, and its memory may change.
LEMMA UnpackerWorks ==
  ASSUME RInv, IInv, NEW M, Moves({}, M), Sound(c'), unpacker.at \in {"alloc", "work"},
         unpacker'.at \in {"work", "replace"}, unpacker'.entry = unpacker.entry,
         UNCHANGED <<held, main, cacher, loads, jobs, answers>>,
         \A m \in M : held[m] = 0 /\ (m \in Mems => Balanced(c, m)'), UnpackerMem(c)'
  PROVE  RInv'
<1>1. PICK e : e = unpacker.entry
  OBVIOUS
<1>2. JobOk(c, e) /\ e \in Pend(c) /\ e # None
  BY <1>1 DEF RInv, Linked, UnpackerOk, JobOk, Origin
<1>3. UnpackerOk(c)'
  <2>1. JobOk(c, e)'
    BY <1>2, OthersOk
  <2> QED
    BY <1>1, <1>2, <2>1 DEF UnpackerOk
<1>4. Lined'
  BY TokensNow DEF Lined, Queued
<1>5. Tokens(c)'
  <2>1. \A f \in Entries : SamePlaces(f)
    BY PlacesSame DEF SamePlaces
  <2>2. \A f \in Entries : f \in Pend(c') <=> f \in Pend(c)
    BY OthersPend
  <2> QED
    BY <1>4, <2>1, <2>2, TokensUnmoved
<1>6. LoadsOk(c)' /\ AnswersOk(c)' /\ JobsOk(c)'
  <2>1. From(loads', loads, {}) /\ From(answers', answers, {}) /\ From(jobs', jobs, {})
    BY FromSelf
  <2>2. LoadsOk(c)'
    BY <2>1, LoadsCarried
  <2>3. AnswersOk(c)'
    BY <2>1, AnswersCarried
  <2>4. JobsOk(c)'
    BY <2>1, JobsCarried
  <2> QED
    BY <2>2, <2>3, <2>4
<1>7. CacherOk(c)' /\ MainOk(c)' /\ ClientOk(c)'
  <2>1. CacherOk(c)'
    BY CacherCarried
  <2>2. MainOk(c)'
    BY MainCarried
  <2>3. ClientOk(c)'
    <3>1. \A i \in M : held[i] > 0 => SameData(c, c', i)
      OBVIOUS
    <3> QED
      BY <3>1, ClientCarried
  <2> QED
    BY <2>1, <2>2, <2>3
<1> QED
  BY <1>3, <1>4, <1>5, <1>6, <1>7, MovesStep

\* The decompressor writes to the memory it was given.
LEMMA DecompressStep == ASSUME RInv, IInv, Decompress PROVE RInv'
<1>1. PICK m : m = unpacker.mem
  OBVIOUS
<1>2. PICK e : e = unpacker.entry
  OBVIOUS
<1>3. PICK k : k = c.entry[e].key
  OBVIOUS
<1>4. PICK what : what = IF ContentAt(unpacker.from) = Original(k) THEN Res(k) ELSE Junk
  OBVIOUS
<1>5. PICK a : a = c.mem[m].at
  OBVIOUS
<1>6. PICK n : n = c.mem[m].size
  OBVIOUS
<1>7. PICK y : y = c'
  OBVIOUS
<1>8. /\ unpacker.at = "work" /\ y = Written(c, a, n, what)
      /\ unpacker' = [unpacker EXCEPT !.at = "replace"]
      /\ UNCHANGED <<held, main, cacher, loads, jobs, answers>>
  BY <1>1, <1>2, <1>3, <1>4, <1>5, <1>6, <1>7 DEF Decompress, Job, clientVars, syncVars
<1>9. unpacker'.at = "replace" /\ unpacker'.entry = e /\ unpacker'.mem = m
  BY <1>1, <1>2, <1>8 DEF IInv, Shapes
<1>10. /\ m # None /\ m \in Allocated(c) /\ held[m] = 0 /\ c.mem[m].entry = None
       /\ ~c.mem[m].persistent /\ \A f \in Pend(c) : c.entry[f].mem # m
  BY <1>1, <1>8 DEF RInv, Linked, UnpackerMem
<1>11. k \in Keys
  <2>1. JobOk(c, e)
    BY <1>2, <1>8 DEF RInv, Linked, UnpackerOk
  <2> QED
    BY <1>3, <2>1 DEF JobOk, Origin, Keys
<1>12. what \in Content
  BY <1>4, <1>11 DEF Content, Res, Junk
<1>13. Sound(c) /\ m \in Mems
  BY <1>10 DEF RInv, Allocated
<1>14. y = c \/ Filled(c, y, m, what)
  BY <1>5, <1>6, <1>8, <1>10, <1>12, <1>13, WrittenIs
<1>15. /\ Sound(y) /\ Allocated(y) = Allocated(c) /\ y.entry = c.entry
       /\ y.mem[m].locks = c.mem[m].locks
       /\ y.mem[m].persistent = c.mem[m].persistent
       /\ y.mem[m].entry = None /\ Rest(c, y, {}, {m})
  <2>1. CASE y = c
    <3>1. Thinned(c, y)
      BY <2>1 DEF Thinned
    <3>2. Rest(c, y, {}, {})
      BY <1>13, <3>1, RestThinned
    <3>3. Rest(c, y, {}, {m})
      BY <3>2 DEF Rest
    <3>4. c.mem[m].entry = None
      BY <1>10
    <3>5. Sound(y)
      BY <1>13, <2>1
    <3>6. /\ Allocated(y) = Allocated(c) /\ y.entry = c.entry /\ y.mem[m].locks = c.mem[m].locks
          /\ y.mem[m].persistent = c.mem[m].persistent
      BY <2>1
    <3>7. y.mem[m].entry = None
      BY <2>1, <3>4
    <3> QED
      BY <3>3, <3>5, <3>6, <3>7
  <2>2. CASE Filled(c, y, m, what)
    <3>1. y.entry = c.entry
      BY <2>2 DEF Filled
    <3>2. /\ Sound(y) /\ Allocated(y) = Allocated(c)
          /\ y.mem[m].locks = c.mem[m].locks /\ y.mem[m].persistent = c.mem[m].persistent
          /\ y.mem[m].entry = c.mem[m].entry /\ Rest(c, y, {}, {m})
      <4>1. c.mem[m].persistent => \A j \in Plain \cup Packed : what # Res(j)
        BY <1>10
      <4>2. m \in Allocated(c)
        BY <1>10
      <4> QED
        BY <1>12, <1>13, <2>2, <4>1, <4>2, FilledSound
    <3> QED
      BY <1>10, <3>1, <3>2
  <2> QED
    BY <1>14, <2>1, <2>2
<1>16. Pend(y) = Pend(c)
  BY <1>15 DEF Pend
<1>17. Moves({}, {m})
  BY <1>1, <1>7, <1>8, <1>9, <1>10, <1>15 DEF Moves
<1>18. Balanced(c, m)'
  <2>1. Balanced(c, m)
    BY <1>13 DEF RInv, Linked, LocksOf, Balanced
  <2>2. Using(y, m) = Using(c, m)
    BY <1>15, <1>16 DEF Using
  <2> QED
    BY <1>1, <1>7, <1>8, <1>9, <1>15, <2>1, <2>2 DEF Balanced
<1>19. UnpackerMem(c)'
  BY <1>7, <1>8, <1>9, <1>10, <1>15, <1>16 DEF UnpackerMem
<1>20. \A i \in {m} : held[i] = 0 /\ (i \in Mems => Balanced(c, i)')
  BY <1>10, <1>18
<1> QED
  BY <1>2, <1>7, <1>8, <1>9, <1>15, <1>17, <1>19, <1>20, UnpackerWorks

\* What memory for a decompression is asked for with.
LEMMA WorkFlags ==
  ASSUME NEW k \in Packed \cup Made, NEW flags, flags = Flags(k)
  PROVE  flags \in AllocFlags /\ ~flags.persistent
<1>1. k \notin Indexes
  BY CacheSound
<1>2. (k \in Indexes) = FALSE
  BY <1>1
<1>3. flags = [persistent |-> FALSE, fixed |-> FALSE, recentToo |-> FALSE, top |-> FALSE]
  BY <1>2 DEF Flags
<1> QED
  BY <1>3 DEF AllocFlags

\* The decompressor is given memory, or none.
LEMMA GetRoomStep == ASSUME RInv, IInv, AllocateForDecompression PROVE RInv'
<1>1. PICK e : e = unpacker.entry
  OBVIOUS
<1>2. PICK k : k = c.entry[e].key
  OBVIOUS
<1>3. PICK flags : flags = Flags(k)
  OBVIOUS
<1>4. PICK n : n = Whole[k]
  OBVIOUS
<1>5. PICK a \in Allocations(c, n, flags) :
        /\ c' = a.x
        /\ unpacker' = [unpacker EXCEPT !.mem = a.mem,
                                        !.at = IF a.mem = None THEN "replace" ELSE "work"]
  BY <1>1, <1>2, <1>3, <1>4 DEF AllocateForDecompression, Job
<1>6. unpacker.at = "alloc" /\ UNCHANGED <<held, main, cacher, loads, jobs, answers>>
  BY DEF AllocateForDecompression, clientVars, syncVars
<1>7. k \in Packed \cup Made /\ n \in Nat /\ Sound(c) /\ unpacker.mem = None
  <2>1. JobOk(c, e) /\ unpacker.mem = None
    BY <1>1, <1>6 DEF RInv, Linked, UnpackerOk, UnpackerMem
  <2>2. k \in Packed \cup Made
    BY <1>2, <2>1 DEF JobOk, Origin
  <2> QED
    BY <1>4, <2>1, <2>2, CacheSound DEF RInv
<1>8. flags \in AllocFlags /\ ~flags.persistent
  BY <1>3, <1>7, WorkFlags
<1>9. /\ Sound(a.x)
      /\ \/ a.mem = None /\ Thinned(c, a.x)
         \/ a.mem \in Mems /\ Given(c, a.x, a.mem, n, flags)
  BY <1>7, <1>8, AllocationsAre
<1>10. PICK y : y = c'
  OBVIOUS
<1>11. CASE a.mem = None
  <2>1. unpacker'.at = "replace" /\ unpacker'.entry = unpacker.entry /\ unpacker'.mem = None
    BY <1>5, <1>11 DEF IInv, Shapes
  <2>2. Thinned(c, y)
    BY <1>5, <1>9, <1>10, <1>11, CacheSound
  <2>3. Rest(c, y, {}, {})
    BY <1>7, <2>2, RestThinned
  <2>4. Moves({}, {})
    BY <1>6, <1>7, <1>10, <2>1, <2>3 DEF Moves
  <2>5. UnpackerMem(c)'
    BY <2>1 DEF UnpackerMem
  <2> QED
    BY <1>5, <1>6, <1>9, <2>1, <2>4, <2>5, UnpackerWorks
<1>12. CASE a.mem # None
  <2>1. PICK m : m = a.mem
    OBVIOUS
  <2>2. unpacker'.at = "work" /\ unpacker'.entry = unpacker.entry /\ unpacker'.mem = m
    BY <1>5, <1>12, <2>1 DEF IInv, Shapes
  <2>3. Given(c, y, m, n, flags) /\ m \in Mems /\ Sound(y) /\ m # None
    BY <1>5, <1>9, <1>10, <1>12, <2>1
  <2>4. Rest(c, y, {}, {m}) /\ c.mem[m].locks = 0
    BY <1>7, <2>3, RestGiven
  <2>5. held[m] = 0 /\ \A f \in Pend(c) : c.entry[f].mem # m
    BY <2>3, <2>4, Unlocked
  <2>6. Moves({}, {m})
    BY <1>6, <1>7, <1>10, <2>2, <2>4, <2>5 DEF Moves
  <2>7. \A f \in Pend(y) : y.entry[f].mem # m
    BY <1>10, <2>5, <2>6, OthersPend
  <2>8. Balanced(c, m)'
    <3>1. y.mem[m].locks = 1
      BY <2>3 DEF Given
    <3>2. Using(y, m) = {} /\ Cardinality(Using(y, m)) = 0
      BY <2>7, FS_EmptySet DEF Using
    <3> QED
      BY <1>6, <1>10, <2>2, <2>5, <3>1, <3>2 DEF Balanced
  <2>9. UnpackerMem(c)'
    <3>1. m \in Allocated(y) /\ y.mem[m].entry = None /\ ~y.mem[m].persistent
      BY <1>8, <2>3 DEF Given
    <3> QED
      BY <1>6, <1>10, <2>2, <2>3, <2>5, <2>7, <3>1 DEF UnpackerMem
  <2>10. \A i \in {m} : held[i] = 0 /\ (i \in Mems => Balanced(c, i)')
    BY <2>5, <2>8
  <2> QED
    BY <1>6, <1>10, <2>2, <2>3, <2>6, <2>9, <2>10, UnpackerWorks
<1> QED
  BY <1>11, <1>12

\* x is c without the reference that the request e had to its memory j.
Back(x, e, j) ==
  /\ Sound(x) /\ Rest(c, x, {}, {j}) /\ x.entry[e] = c.entry[e]
  /\ \/ SameData(c, x, j) /\ c.mem[j].locks = x.mem[j].locks + 1 /\ x.mem[j].locks \in Nat
     \/ Sole(c, e) /\ x.mem[j].locks = 0

\* What a job was made of.
JobIs(e, j, k) == JobOk(c, e) /\ j = c.entry[e].mem /\ k = c.entry[e].key

\* What the decompressor knows of its job, from the invariant.
LEMMA JobsAre ==
  ASSUME RInv, NEW e, NEW j, NEW k, JobIs(e, j, k)
  PROVE  /\ e \in Pend(c) /\ e \in Entries /\ j \in Mems /\ j # None /\ j \in Allocated(c)
         /\ c.mem[j].locks > 0 /\ k \in Packed \cup Made /\ k \in Keys /\ k \notin Indexes
         /\ PendingOk(c, e) /\ Sound(c)
         /\ k \notin Made => c.mem[j].persistent /\ Sole(c, e)
         /\ k \in Made => c.table[k] = None /\ \A f \in Pend(c) : c.entry[f].key = k => f = e
<1>1. /\ e \in Pend(c) /\ j \in Mems /\ k \in Packed \cup Made
      /\ k \in Packed => c.mem[j].persistent
  BY DEF JobIs, JobOk, Origin
<1>2. e \in Entries /\ j # None /\ k \notin Indexes /\ k \in Keys
  BY <1>1, CacheSound DEF Pend, Keys
<1>3. PendingOk(c, e) /\ Sound(c)
  BY <1>1 DEF RInv, Linked, Pendings
<1>4. j \in Allocated(c) /\ c.mem[j].locks > 0
  BY <1>1, <1>2, PendingLocked DEF JobIs
<1>5. /\ k \notin Made => Sole(c, e)
      /\ k \in Made => c.table[k] = None /\ \A f \in Pend(c) : c.entry[f].key = k => f = e
  BY <1>3 DEF PendingOk, JobIs
<1> QED
  BY <1>1, <1>2, <1>3, <1>4, <1>5

\* Packed data is freed; what a resource is made of is given back.
LEMMA GivesBack ==
  ASSUME RInv, NEW e, NEW j, NEW k, JobIs(e, j, k),
         NEW x, x = IF k \in Made THEN Unref(c, j) ELSE Deallocated(c, j)
  PROVE  Back(x, e, j)
<1>1. /\ e \in Pend(c) /\ e \in Entries /\ j \in Mems /\ j \in Allocated(c)
      /\ c.mem[j].locks > 0 /\ Sound(c)
      /\ k \notin Made => c.mem[j].persistent /\ Sole(c, e)
  BY JobsAre
<1>2. Rest(c, x, {}, {j}) => x.entry[e] = c.entry[e]
  BY <1>1 DEF Rest, Pend
<1>3. CASE k \in Made
  <2>1. x = Unref(c, j)
    BY <1>3
  <2>2. OneLess(c, x, j)
    BY <1>1, <2>1, UnrefIs
  <2> QED
    BY <1>2, <2>2 DEF Back, OneLess
<1>4. CASE k \notin Made
  <2>1. x = Deallocated(c, j) /\ c.mem[j].persistent /\ Sole(c, e)
    BY <1>1, <1>4
  <2>2. Sound(x) /\ Rest(c, x, {}, {j}) /\ x.mem[j].locks = 0
    BY <1>1, <2>1, DeallocatedIs
  <2> QED
    BY <1>2, <2>1, <2>2 DEF Back
<1> QED
  BY <1>3, <1>4

\* Then the request has the memory w, which the decompressor had.
Swapped(y, e, j, w) ==
  /\ Sound(y) /\ Rest(c, y, {e}, {j}) /\ e \in Pend(y) /\ y.entry[e].mem = w
  /\ y.entry[e].key = c.entry[e].key /\ ~y.entry[e].unpack /\ y.entry[e] # Reserved
  /\ \A k \in Keys : y.table[k] = c.table[k] \/ y.table[k] = None
  /\ \/ SameData(c, y, j) /\ c.mem[j].locks = y.mem[j].locks + 1 /\ y.mem[j].locks \in Nat
     \/ Sole(c, e) /\ y.mem[j].locks = 0

\* The entry gives its memory back and is given what was decompressed.
LEMMA Swaps ==
  ASSUME RInv, NEW e, NEW j, NEW k, JobIs(e, j, k), NEW x, Back(x, e, j),
         NEW w \in SomeMem, NEW y, MemSet(x, y, e, w)
  PROVE  Swapped(y, e, j, w)
<1>1. /\ e \in Pend(c) /\ e \in Entries /\ j \in Mems
  BY JobsAre
<1>2. Sound(x) /\ Rest(c, x, {}, {j}) /\ x.entry[e] = c.entry[e]
  BY DEF Back
<1>3. MemKept(x, y, e, w)
  <2>1. Sound(x) /\ e \in Entries
    BY <1>1, <1>2
  <2> QED
    BY <2>1, ReplacedIs
<1>4. EntrySet(x, y, e) /\ y.entry[e].mem = w /\ y.entry[e].key = c.entry[e].key
  BY <1>2, <1>3 DEF MemKept
<1>5. ~y.entry[e].unpack
  <2>1. y.entry[e].unpack = x.entry[e].unpack
    BY <1>3 DEF MemKept
  <2>2. ~x.entry[e].unpack
    BY <1>2 DEF JobIs, JobOk
  <2> QED
    BY <2>1, <2>2
<1>6. Loose(x.entry[e]) /\ Loose(y.entry[e]) /\ y.entry[e].place = "pending"
  <2>1. y.entry[e].place = x.entry[e].place
    BY <1>3 DEF MemKept
  <2> QED
    BY <1>1, <1>2, <2>1 DEF Loose, Pend
<1>7. /\ Sound(y) /\ Allocated(y) = Allocated(x) /\ y.mem = x.mem /\ y.table = x.table
  <2>1. Sound(x) /\ e \in Entries
    BY <1>1, <1>2
  <2> QED
    BY <1>4, <1>6, <2>1, EntrySound
<1>8. Rest(c, y, {e}, {j})
  <2>1. Rest(x, y, {e}, {})
    BY <1>1, <1>2, <1>4, RestEntry
  <2>2. Rest(c, y, {} \cup {e}, {j} \cup {})
    BY <1>2, <1>7, <2>1, RestTwice
  <2>3. {} \cup {e} = {e} /\ {j} \cup {} = {j}
    OBVIOUS
  <2> QED
    BY <2>2, <2>3
<1>9. e \in Pend(y) /\ y.entry[e] # Reserved
  <2>1. Reserved.place = "used"
    BY DEF Reserved, FreeEntry
  <2> QED
    BY <1>1, <1>6, <2>1 DEF Pend
<1>10. \A i \in Keys : y.table[i] = c.table[i] \/ y.table[i] = None
  BY <1>2, <1>7 DEF Rest
<1>11. \/ SameData(c, y, j) /\ c.mem[j].locks = y.mem[j].locks + 1 /\ y.mem[j].locks \in Nat
       \/ Sole(c, e) /\ y.mem[j].locks = 0
  <2>1. SameData(c, x, j) => SameData(c, y, j)
    BY <1>7 DEF SameData
  <2> QED
    BY <1>7, <2>1 DEF Back
<1> QED
  BY <1>4, <1>5, <1>7, <1>8, <1>9, <1>10, <1>11 DEF Swapped

\* The requests that have m, when e has other memory or m now.
LEMMA UsingOther ==
  ASSUME RInv, NEW e, e \in Pend(c), NEW M, Moves({e}, M), e \in Pend(c'), NEW m \in Mems,
         c'.entry[e].mem # m
  PROVE  Cardinality(Using(c, m)) = Cardinality(Using(c', m)) + AsOf(e, m)
         /\ Cardinality(Using(c', m)) \in Nat
<1>1. PICK U : U = Using(c, m)
  OBVIOUS
<1>2. PICK V : V = Using(c', m)
  OBVIOUS
<1>3. U \subseteq Pend(c) /\ V \subseteq Pend(c') /\ e \notin V
  BY <1>1, <1>2 DEF Using
<1>4. V = U \ {e}
  <2>1. \A f \in V : f \in U \ {e}
    BY <1>1, <1>2, <1>3, OthersPend DEF Using
  <2>2. \A f \in U \ {e} : f \in V
    BY <1>1, <1>2, <1>3, OthersPend DEF Using
  <2> QED
    BY <2>1, <2>2
<1>5. IsFiniteSet(U)
  BY <1>1, Locked
<1>6. e \in U <=> c.entry[e].mem = m
  BY <1>1 DEF Using
<1>7. CASE e \in U
  <2>1. Cardinality(V) = Cardinality(U) - 1 /\ Cardinality(U) \in Nat
    BY <1>4, <1>5, <1>7, FS_RemoveElement, FS_CardinalityType
  <2>2. AsOf(e, m) = 1 /\ IsFiniteSet(V)
    BY <1>4, <1>5, <1>6, <1>7, FS_RemoveElement DEF AsOf
  <2>3. Cardinality(V) \in Nat
    BY <2>2, FS_CardinalityType
  <2> QED
    BY <1>1, <1>2, <2>1, <2>2, <2>3
<1>8. CASE e \notin U
  <2>1. V = U
    BY <1>4, <1>8
  <2>2. AsOf(e, m) = 0 /\ Cardinality(U) \in Nat
    BY <1>5, <1>6, <1>8, FS_CardinalityType DEF AsOf
  <2> QED
    BY <1>1, <1>2, <2>1, <2>2
<1> QED
  BY <1>7, <1>8

\* The memory of a decompression, when there is any, is its own.
LEMMA WorkMemory ==
  ASSUME RInv, NEW w, w = unpacker.mem, w # None
  PROVE  /\ w \in Mems /\ w \in Allocated(c) /\ held[w] = 0 /\ c.mem[w].entry = None
         /\ c.mem[w].locks = 1 /\ \A f \in Pend(c) : c.entry[f].mem # w
<1>1. /\ w \in Allocated(c) /\ held[w] = 0 /\ c.mem[w].entry = None
      /\ \A f \in Pend(c) : c.entry[f].mem # w
  BY DEF RInv, Linked, UnpackerMem
<1>2. w \in Mems
  BY <1>1 DEF Allocated
<1>3. Using(c, w) = {} /\ Cardinality(Using(c, w)) = 0
  BY <1>1, FS_EmptySet DEF Using
<1>4. c.mem[w].locks = 1
  <2>1. c.mem[w].locks = held[w] + Cardinality(Using(c, w)) + (IF unpacker.mem = w THEN 1 ELSE 0)
    BY <1>2, Locked
  <2>2. held[w] = 0 /\ Cardinality(Using(c, w)) = 0
    BY <1>1, <1>3
  <2> QED
    BY <2>1, <2>2
<1> QED
  BY <1>1, <1>2, <1>4

\* The request has what was decompressed, and nothing else.
Made1(e, M) ==
  /\ Sound(c') /\ Moves({e}, M) /\ PendingOk(c, e)' /\ Sole(c, e)'
  /\ \A m \in M : m \in Mems => Balanced(c, m)'
  /\ \A m \in M : held[m] > 0 => SameData(c, c', m)
  /\ e \in Pend(c') /\ c'.entry[e].key = c.entry[e].key /\ ~c'.entry[e].unpack
  /\ c'.entry[e] # Reserved

\* The swap concerns the two pieces of memory, and no other request.
LEMMA SwapMoves ==
  ASSUME RInv, NEW e, NEW j, NEW k, JobIs(e, j, k), NEW w, w = unpacker.mem,
         Swapped(c', e, j, w), unpacker'.mem = None, held' = held
  PROVE  \E M : Made1(e, M)
<1>1. /\ e \in Pend(c) /\ e \in Entries /\ j \in Mems /\ j # None /\ j \in Allocated(c)
      /\ k \in Keys /\ k \notin Indexes /\ j = c.entry[e].mem /\ k = c.entry[e].key
      /\ k \notin Made => Sole(c, e)
      /\ k \in Made => c.table[k] = None /\ \A f \in Pend(c) : c.entry[f].key = k => f = e
  BY JobsAre DEF JobIs
<1>2. PICK M : M = {j, w} \ {None}
  OBVIOUS
<1>3. /\ Sound(c') /\ Rest(c, c', {e}, {j}) /\ e \in Pend(c') /\ c'.entry[e].mem = w
      /\ c'.entry[e].key = k /\ ~c'.entry[e].unpack /\ c'.entry[e] # Reserved
      /\ \A i \in Keys : c'.table[i] = c.table[i] \/ c'.table[i] = None
      /\ \/ SameData(c, c', j) /\ c.mem[j].locks = c'.mem[j].locks + 1 /\ c'.mem[j].locks \in Nat
         \/ Sole(c, e) /\ c'.mem[j].locks = 0
  BY <1>1 DEF Swapped
<1>4. w # None => /\ w \in Mems /\ w \in Allocated(c) /\ held[w] = 0 /\ c.mem[w].entry = None
                  /\ c.mem[w].locks = 1 /\ \A f \in Pend(c) : c.entry[f].mem # w
  BY WorkMemory
<1>5. w # j
  BY <1>1, <1>4
<1>6. w # None => c'.mem[w].locks = 1 /\ w \in Allocated(c') /\ c'.mem[w].entry = None
  BY <1>3, <1>4, <1>5 DEF Rest, SameData
<1>7. Rest(c, c', {e}, M)
  BY <1>1, <1>2, <1>3 DEF Rest
<1>8. \A f \in Pend(c) \ {e} : c.entry[f].mem \in M => ~Sole(c, f) /\ SameData(c, c', c.entry[f].mem)
  <2>1. ASSUME NEW f \in Pend(c) \ {e}, c.entry[f].mem \in M
        PROVE  ~Sole(c, f) /\ SameData(c, c', c.entry[f].mem)
    <3>1. c.entry[f].mem = j
      BY <1>2, <1>4, <2>1
    <3>2. ~Sole(c, e) /\ ~Sole(c, f)
      BY <1>1, <2>1, <3>1 DEF Sole
    <3> QED
      BY <1>3, <3>1, <3>2
  <2> QED
    BY <2>1
<1>9. Moves({e}, M)
  <2>1. unpacker.mem \in M \cup {None} /\ unpacker'.mem \in M \cup {None}
    BY <1>2
  <2>2. c.entry[e].mem \in M \cup {None} /\ c'.entry[e].mem \in M \cup {None}
    BY <1>1, <1>2, <1>3
  <2> QED
    BY <1>1, <1>3, <1>7, <1>8, <2>1, <2>2 DEF Moves
<1>10. \A f \in Pend(c') \ {e} : f \in Pend(c) /\ c'.entry[f] = c.entry[f]
  BY <1>9, OthersPend
<1>11. Sole(c, e)'
  <2>1. w # None => \A f \in Pend(c') : c'.entry[f].mem = w => f = e
    BY <1>4, <1>10
  <2> QED
    BY <1>3, <1>4, <1>6, <2>1 DEF Sole
<1>12. PendingOk(c, e)'
  <2>1. k \in Made => c'.table[k] = None
    BY <1>1, <1>3
  <2>2. k \in Made => \A f \in Pend(c') : c'.entry[f].key = k => f = e
    BY <1>1, <1>10
  <2> QED
    BY <1>1, <1>3, <1>6, <1>11, <2>1, <2>2 DEF PendingOk
<1>13. Balanced(c, j)'
  <2>1. Cardinality(Using(c, j)) = Cardinality(Using(c', j)) + AsOf(e, j)
        /\ Cardinality(Using(c', j)) \in Nat
    BY <1>1, <1>3, <1>5, <1>9, UsingOther
  <2>2. AsOf(e, j) = 1
    BY <1>1 DEF AsOf
  <2>3. c.mem[j].locks = held[j] + Cardinality(Using(c, j)) /\ held[j] \in Nat
    BY <1>1, <1>5, Locked
  <2>4. CASE SameData(c, c', j) /\ c.mem[j].locks = c'.mem[j].locks + 1 /\ c'.mem[j].locks \in Nat
    BY <1>1, <2>1, <2>2, <2>3, <2>4 DEF Balanced
  <2>5. CASE Sole(c, e) /\ c'.mem[j].locks = 0
    <3>1. c.mem[j].locks = 1
      BY <1>1, <2>5, SoleLocks
    <3>2. held[j] = 0
      BY <1>1, <2>5, SoleLocks
    <3> QED
      BY <1>1, <2>1, <2>2, <2>3, <2>5, <3>1, <3>2 DEF Balanced
  <2> QED
    BY <1>3, <2>4, <2>5
<1>14. w # None => Balanced(c, w)'
  <2>1. ASSUME w # None PROVE Using(c', w) = {e} /\ Cardinality(Using(c', w)) = 1
    <3>1. Using(c', w) = {e}
      BY <1>3, <1>4, <1>10, <2>1 DEF Using
    <3> QED
      BY <3>1, FS_Singleton
  <2> QED
    BY <1>4, <1>6, <2>1 DEF Balanced
<1>15. \A m \in M : m \in Mems => Balanced(c, m)'
  BY <1>2, <1>13, <1>14
<1>16. \A m \in M : held[m] > 0 => SameData(c, c', m)
  <2>1. Sole(c, e) => held[j] = 0
    BY <1>1, SoleLocks
  <2>2. ~(0 > 0)
    OBVIOUS
  <2> QED
    BY <1>2, <1>3, <1>4, <2>1, <2>2
<1> QED
  BY <1>1, <1>3, <1>9, <1>11, <1>12, <1>15, <1>16 DEF Made1

\* The decompressor gives the request what it made.
LEMMA ReplaceStep == ASSUME RInv, IInv, Replace PROVE RInv'
<1>1. PICK e : e = unpacker.entry
  OBVIOUS
<1>2. PICK j : j = c.entry[e].mem
  OBVIOUS
<1>3. PICK k : k = c.entry[e].key
  OBVIOUS
<1>4. PICK w : w = unpacker.mem
  OBVIOUS
<1>5. PICK x : x = IF k \in Made THEN Unref(c, j) ELSE Deallocated(c, j)
  OBVIOUS
<1>6. /\ unpacker.at = "replace" /\ MemSet(x, c', e, w)
      /\ unpacker' = [unpacker EXCEPT !.at = "reply", !.from = 0, !.mem = None]
      /\ UNCHANGED <<held, main, cacher, loads, jobs, answers>>
  BY <1>1, <1>2, <1>3, <1>4, <1>5
     DEF Replace, Job, ReleaseAndReplaceData, DeallocAndReplaceCompressedData, MemSet,
         clientVars, syncVars
<1>7. unpacker'.at = "reply" /\ unpacker'.entry = e /\ unpacker'.mem = None
  BY <1>1, <1>6 DEF IInv, Shapes
<1>8. JobIs(e, j, k) /\ e # None
  BY <1>1, <1>2, <1>3, <1>6 DEF RInv, Linked, UnpackerOk, JobIs
<1>9. e \in Pend(c) /\ e \in Entries
  BY <1>8, JobsAre
<1>10. w \in SomeMem
  BY <1>4, WorkMemory DEF SomeMem
<1>11. Back(x, e, j)
  BY <1>5, <1>8, GivesBack
<1>12. Swapped(c', e, j, w)
  <2>1. PICK y : y = c'
    OBVIOUS
  <2>2. Swapped(y, e, j, w)
    BY <1>6, <1>8, <1>10, <1>11, <2>1, Swaps
  <2> QED
    BY <2>1, <2>2
<1>13. PICK M : Made1(e, M)
  BY <1>4, <1>6, <1>7, <1>8, <1>12, SwapMoves
<1>14. /\ Sound(c') /\ Moves({e}, M) /\ PendingOk(c, e)' /\ Sole(c, e)'
       /\ \A m \in M : m \in Mems => Balanced(c, m)'
       /\ \A m \in M : held[m] > 0 => SameData(c, c', m)
       /\ e \in Pend(c') /\ c'.entry[e].key = c.entry[e].key /\ ~c'.entry[e].unpack
       /\ c'.entry[e] # Reserved
  BY <1>13 DEF Made1
<1>15. Lined /\ Lone(c)
  BY TokensNow
<1>16. ~ToLoad(e) /\ ~ToTake(e) /\ ~ToUnpack(e) /\ cacher.entry # e /\ ~WithMain(e)
  BY <1>1, <1>9, <1>15 DEF Lone
<1>17. Lined'
  BY <1>6, <1>15 DEF Lined, Queued
<1>18. Tokens(c)'
  <2>1. \A f \in Entries : SamePlaces(f)
    BY <1>1, <1>6, <1>7, PlacesSame DEF SamePlaces
  <2>2. \A f \in Entries : f \in Pend(c') <=> f \in Pend(c)
    <3>1. Moves({e}, M) /\ e \in Pend(c')
      BY <1>14
    <3> QED
      BY <1>9, <3>1, OthersPend
  <2> QED
    BY <1>17, <2>1, <2>2, TokensUnmoved
<1>19. Moves({e}, M) /\ \A m \in M : held[m] > 0 => SameData(c, c', m)
  BY <1>14
<1>20. LoadsOk(c)'
  <2>1. From(loads', loads, {}) /\ \A f \in {e} : ~ToLoad(f) \/ ~ToLoad(f)'
    BY <1>6, <1>16, FromSelf
  <2> QED
    BY <1>19, <2>1, LoadsCarried
<1>21. AnswersOk(c)'
  <2>1. From(answers', answers, {}) /\ \A f \in {e} : ~ToTake(f) \/ ~ToTake(f)'
    BY <1>6, <1>16, FromSelf
  <2> QED
    BY <1>19, <2>1, AnswersCarried
<1>22. JobsOk(c)'
  <2>1. From(jobs', jobs, {}) /\ \A f \in {e} : ~ToUnpack(f) \/ ~ToUnpack(f)'
    BY <1>6, <1>16, FromSelf
  <2> QED
    BY <1>19, <2>1, JobsCarried
<1>23. CacherOk(c)'
  BY <1>6, <1>16, <1>19, CacherCarried
<1>24. ClientOk(c)'
  BY <1>6, <1>19, ClientCarried
<1>25. UnpackerOk(c)'
  BY <1>7, <1>8, <1>14 DEF UnpackerOk
<1>26. UnpackerMem(c)'
  BY <1>7 DEF UnpackerMem
<1>27. MainOk(c)'
  <2>1. CASE main.at = "unpack" /\ main.entry = e
    <3>1. c.entry[e].key = main.key
      BY <2>1 DEF RInv, Linked, MainOk, Busy
    <3>2. main' = main
      BY <1>6
    <3> QED
      BY <1>14, <2>1, <3>1, <3>2 DEF MainOk, Busy
  <2>2. CASE ~(main.at = "unpack" /\ main.entry = e)
    <3>1. \A f \in {e} : ~(main.entry = f /\ main.at \in Busy)
      BY <1>16, <2>2 DEF Busy, WithMain
    <3>2. main' = main
      BY <1>6
    <3> QED
      BY <1>19, <3>1, <3>2, MainCarried
  <2> QED
    BY <2>1, <2>2
<1>28. /\ \A f \in {e} : f \in Entries => c'.entry[f] # Reserved
       /\ \A f \in {e} : f \in Pend(c') => PendingOk(c, f)'
       /\ \A m \in M : m \in Mems => Balanced(c, m)'
       /\ Sound(c')
  BY <1>14
<1> QED
  BY <1>17, <1>18, <1>19, <1>20, <1>21, <1>22, <1>23, <1>24, <1>25, <1>26, <1>27, <1>28, MovesStep

----------------------------------------------------------------------------
(* Requests that begin                                                      *)

\* x is c with less that is not in use, and e is free in it.
Vacant(x, e) ==
  /\ Sound(x) /\ Rest(c, x, {}, {}) /\ e \in FreeEntries(x) /\ e \in Entries
  /\ x.entry[e] = FreeEntry /\ e \notin Pend(c)
  /\ c.entry[e] = FreeEntry \/ c.entry[e].place = "used"

\* CCache__AllocCacheEntry finds an entry that is free, or makes one free.
LEMMA EntryFound ==
  ASSUME RInv, NEW recentToo, NEW x, x = WithCacheEntry(c, recentToo), NEW e, e \in FreeEntries(x)
  PROVE  Vacant(x, e)
<1>1. Sound(c)
  BY DEF RInv
<1>2. Sound(x) /\ Thinned(c, x)
  BY <1>1, WithCacheEntryThinned
<1>3. Rest(c, x, {}, {})
  BY <1>1, <1>2, RestThinned
<1>4. e \in Entries /\ x.entry[e].place = "free"
  BY DEF FreeEntries
<1>5. x.entry[e] = FreeEntry
  BY <1>2, <1>4 DEF Sound, Agree
<1>6. c.entry[e] = FreeEntry \/ c.entry[e].place = "used"
  BY <1>2, <1>4, <1>5 DEF Thinned
<1>7. e \notin Pend(c)
  BY <1>6 DEF Pend, FreeEntry
<1> QED
  BY <1>2, <1>3, <1>4, <1>5, <1>6, <1>7 DEF Vacant

\* There is no entry that is free.
LEMMA NoEntry ==
  ASSUME RInv, NEW recentToo, NEW x, x = WithCacheEntry(c, recentToo)
  PROVE  Sound(x) /\ Rest(c, x, {}, {})
<1>1. Sound(c)
  BY DEF RInv
<1>2. Sound(x) /\ Thinned(c, x)
  BY <1>1, WithCacheEntryThinned
<1> QED
  BY <1>1, <1>2, RestThinned

\* r is x with the entry e taken.
Took(x, e) == [x EXCEPT !.entry[e].place = "used"]

\* An entry is taken for a request, that is not pending yet.
LEMMA TookIs ==
  ASSUME RInv, NEW x, NEW e, Vacant(x, e), NEW r, r = Took(x, e)
  PROVE  Sound(r) /\ Rest(c, r, {e}, {}) /\ r.entry[e] = Reserved
         /\ \A k \in Keys : r.table[k] = c.table[k] \/ r.table[k] = None
<1>1. /\ Sound(x) /\ Rest(c, x, {}, {}) /\ e \in FreeEntries(x) /\ e \in Entries
      /\ x.entry[e] = FreeEntry
  BY DEF Vacant
<1>2. EntrySet(x, r, e) /\ r.entry[e] = Reserved
  BY <1>1, ReservedIs DEF Took
<1>3. Loose(x.entry[e]) /\ Loose(r.entry[e])
  BY <1>1, <1>2 DEF Loose
<1>4. Sound(r) /\ r.table = x.table
  BY <1>1, <1>2, <1>3, EntrySound
<1>5. Rest(x, r, {e}, {})
  BY <1>1, <1>2, RestEntry
<1>6. \A k \in Keys : r.table[k] = c.table[k] \/ r.table[k] = None
  BY <1>1, <1>4 DEF Rest
<1>7. Rest(c, r, {} \cup {e}, {} \cup {})
  BY <1>1, <1>4, <1>5, RestTwice
<1>8. {} \cup {e} = {e} /\ {} \cup {} = {}
  OBVIOUS
<1> QED
  BY <1>2, <1>4, <1>6, <1>7, <1>8

\* There is no room: the entry is free again.
LEMMA NoMemory ==
  ASSUME RInv, NEW x, NEW e, Vacant(x, e), NEW r, r = Took(x, e),
         NEW z, Sound(z), Thinned(r, z), NEW y, y = Withdrawn(z, e)
  PROVE  Sound(y) /\ Rest(c, y, {}, {})
<1>1. /\ e \in Entries /\ e \notin Pend(c)
      /\ c.entry[e] = FreeEntry \/ c.entry[e].place = "used"
  BY DEF Vacant
<1>2. /\ Sound(r) /\ Rest(c, r, {e}, {}) /\ r.entry[e] = Reserved
      /\ \A k \in Keys : r.table[k] = c.table[k] \/ r.table[k] = None
  BY TookIs
<1>3. Rest(r, z, {}, {}) /\ z.entry[e] = Reserved
      /\ \A k \in Keys : z.table[k] = r.table[k] \/ z.table[k] = None
  BY <1>1, <1>2, RestThinned DEF Thinned
<1>4. EntrySet(z, y, e) /\ y.entry[e] = FreeEntry
  BY <1>1, WithdrawnIs
<1>5. Loose(z.entry[e]) /\ Loose(y.entry[e])
  BY <1>3, <1>4 DEF Loose
<1>6. Sound(y) /\ y.table = z.table
  BY <1>1, <1>4, <1>5, EntrySound
<1>7. Rest(z, y, {e}, {})
  BY <1>1, <1>4, RestEntry
<1>8. Rest(c, z, {e} \cup {}, {} \cup {})
  BY <1>2, <1>3, RestTwice
<1>9. {e} \cup {} = {e} /\ {} \cup {} = {} /\ {e} \cup {e} = {e}
  OBVIOUS
<1>10. Rest(c, z, {e}, {})
  BY <1>8, <1>9
<1>11. Rest(c, y, {e} \cup {e}, {} \cup {})
  BY <1>6, <1>7, <1>10, RestTwice
<1>12. Rest(c, y, {e}, {})
  BY <1>9, <1>11
<1>13. Rest(c, y, {}, {})
  BY <1>1, <1>4, <1>12 DEF Rest
<1> QED
  BY <1>6, <1>13

\* The call returns nothing, and there may be less that is not in use.
LEMMA ReturnsThinner ==
  ASSUME RInv, IInv, NEW y, Sound(y), Rest(c, y, {}, {}), c' = y, Returns(None), main.at \notin Busy,
         UNCHANGED <<loads, jobs, unpacker, answers, cacher>>
  PROVE  RInv'
<1>1. held' = held /\ main'.at \notin Busy /\ ClientOk(c)'
  BY ReturnsNothing
<1> QED
  BY <1>1, RecordsStay DEF AnswersQuiet, CacherAside, MainAside

\* In y the request e has begun: n units of new memory m, for the key k.
Begun(y, e, m, k, n) ==
  /\ Sound(y) /\ Rest(c, y, {e}, {m}) /\ e \in Entries /\ e \notin Pend(c) /\ e \in Pend(y)
  /\ y.entry[e].mem = m /\ y.entry[e].key = k /\ y.entry[e].length = n
  /\ m \in Mems /\ m \in Allocated(y) /\ c.mem[m].locks = 0 /\ y.mem[m].locks = 1
  /\ y.mem[m].size = n /\ y.mem[m].entry = None

\* An entry is taken, and memory for it.
LEMMA RequestBegun ==
  ASSUME RInv, NEW x, NEW e, Vacant(x, e), NEW r, r = Took(x, e), NEW n \in Nat, NEW flags,
         NEW z, Sound(z), NEW m, Given(r, z, m, n, flags), NEW k \in Keys,
         NEW y, y = Pending(z, e, m, k, n)
  PROVE  Begun(y, e, m, k, n) /\ ~y.entry[e].unpack /\ y.mem[m].persistent = flags.persistent
<1>1. e \in Entries /\ e \notin Pend(c)
  BY DEF Vacant
<1>2. /\ Sound(r) /\ Rest(c, r, {e}, {}) /\ r.entry[e] = Reserved
  BY TookIs
<1>3. Rest(r, z, {}, {m}) /\ m \in Mems /\ r.mem[m].locks = 0
  BY <1>2, RestGiven
<1>4. /\ z.mem[m].size = n /\ z.mem[m].locks = 1 /\ z.mem[m].entry = None /\ m \in Allocated(z)
      /\ \A i \in Keys : z.table[i] = r.table[i] \/ z.table[i] = None
      /\ z.entry[e] = Reserved
  BY <1>1, <1>2 DEF Given
<1>5. PICK q : q = [place |-> "pending", mem |-> m, key |-> k, length |-> n, unpack |-> FALSE]
  OBVIOUS
<1>6. m \in SomeMem
  BY <1>3 DEF SomeMem
<1>7. EntrySet(z, y, e) /\ y.entry[e] = q
  BY <1>1, <1>5, <1>6, PendingIs
<1>8. q.place = "pending" /\ q.mem = m /\ q.key = k /\ q.length = n /\ ~q.unpack
  BY <1>5
<1>9. Loose(z.entry[e]) /\ Loose(y.entry[e])
  BY <1>4, <1>7, <1>8 DEF Loose
<1>10. Sound(y) /\ Allocated(y) = Allocated(z) /\ y.mem = z.mem /\ y.table = z.table
  BY <1>1, <1>7, <1>9, EntrySound
<1>11. Rest(z, y, {e}, {})
  BY <1>1, <1>7, RestEntry
<1>12. Rest(c, z, {e} \cup {}, {} \cup {m})
  BY <1>2, <1>3, <1>4, RestTwice
<1>13. {e} \cup {} = {e} /\ {} \cup {m} = {m} /\ {e} \cup {e} = {e} /\ {m} \cup {} = {m}
  OBVIOUS
<1>14. Rest(c, z, {e}, {m})
  BY <1>12, <1>13
<1>15. Rest(c, y, {e} \cup {e}, {m} \cup {})
  BY <1>10, <1>11, <1>14, RestTwice
<1>16. Rest(c, y, {e}, {m})
  BY <1>13, <1>15
<1>17. c.mem[m].locks = 0
  BY <1>2, <1>3 DEF Rest
<1>18. e \in Pend(y)
  BY <1>1, <1>7, <1>8 DEF Pend
<1>19. y.mem[m].persistent = flags.persistent
  <2>1. z.mem[m].persistent = flags.persistent
    BY DEF Given
  <2> QED
    BY <1>10, <2>1
<1>20. ~y.entry[e].unpack
  BY <1>7, <1>8
<1> QED
  BY <1>1, <1>3, <1>4, <1>7, <1>8, <1>10, <1>16, <1>17, <1>18, <1>19, <1>20 DEF Begun

\* And it may be marked.
LEMMA BegunMarked ==
  ASSUME NEW y, NEW e, NEW m, NEW k, NEW n, Begun(y, e, m, k, n), NEW flag \in BOOLEAN,
         NEW z, FlagSet(y, z, e, flag)
  PROVE  Begun(z, e, m, k, n) /\ z.entry[e].unpack = flag /\ z.mem = y.mem
<1>1. /\ Sound(y) /\ Rest(c, y, {e}, {m}) /\ e \in Entries /\ y.entry[e].place = "pending"
  BY DEF Begun, Pend
<1>2. FlagKept(y, z, e, flag)
  BY <1>1, FlagIs
<1>3. /\ EntrySet(y, z, e) /\ z.entry[e].mem = y.entry[e].mem /\ z.entry[e].key = y.entry[e].key
      /\ z.entry[e].length = y.entry[e].length /\ z.entry[e].place = y.entry[e].place
  BY <1>2 DEF FlagKept
<1>4. Loose(y.entry[e]) /\ Loose(z.entry[e])
  BY <1>1, <1>3 DEF Loose
<1>5. /\ Sound(z) /\ Allocated(z) = Allocated(y) /\ z.mem = y.mem /\ z.table = y.table
      /\ \A f \in Entries \ {e} : z.entry[f] = y.entry[f]
  BY <1>1, <1>3, <1>4, EntrySound
<1>6. Rest(c, z, {e}, {m})
  <2>1. \A i : SameData(c, y, i) => SameData(c, z, i)
    BY <1>5 DEF SameData
  <2> QED
    BY <1>1, <1>5, <2>1 DEF Rest
<1>7. e \in Pend(z)
  BY <1>1, <1>3 DEF Pend
<1>8. z.entry[e].unpack = flag
  BY <1>2 DEF FlagKept
<1> QED
  BY <1>3, <1>5, <1>6, <1>7, <1>8 DEF Begun

\* Nobody had its memory.
LEMMA BegunMoves ==
  ASSUME RInv, NEW e, NEW m, NEW k, NEW n, Begun(c', e, m, k, n), k \notin Made,
         UNCHANGED held, unpacker'.mem = unpacker.mem
  PROVE  /\ held[m] = 0 /\ unpacker.mem # m /\ \A f \in Pend(c) : c.entry[f].mem # m
         /\ Moves({e}, {m})
<1>1. /\ Rest(c, c', {e}, {m}) /\ e \notin Pend(c) /\ c'.entry[e].mem = m /\ c'.entry[e].key = k
      /\ m \in Mems /\ c.mem[m].locks = 0
  BY DEF Begun
<1>2. held[m] = 0 /\ unpacker.mem # m /\ \A f \in Pend(c) : c.entry[f].mem # m
  BY <1>1, Unlocked
<1> QED
  BY <1>1, <1>2 DEF Moves

\* The parts of the records that a request which begins leaves.
LEMMA BegunStep ==
  ASSUME RInv, IInv, NEW e, NEW m, NEW k, NEW n, Begun(c', e, m, k, n), k \in Keys \ Made,
         k \in Indexes => c'.mem[m].persistent,
         UNCHANGED <<held, unpacker, jobs, answers, cacher>>, Lined', Somewhere(e)',
         \A f \in Entries \ {e} : SamePlaces(f), LoadsOk(c)', MainOk(c)', ClientOk(c)'
  PROVE  RInv'
<1>1. /\ Sound(c') /\ Rest(c, c', {e}, {m}) /\ e \in Entries /\ e \notin Pend(c) /\ e \in Pend(c')
      /\ c'.entry[e].mem = m /\ c'.entry[e].key = k
      /\ m \in Mems /\ m \in Allocated(c') /\ c.mem[m].locks = 0 /\ c'.mem[m].locks = 1
      /\ c'.mem[m].entry = None
  BY DEF Begun
<1>2. held[m] = 0 /\ unpacker.mem # m /\ \A f \in Pend(c) : c.entry[f].mem # m
  BY BegunMoves
<1>3. Moves({e}, {m})
  BY BegunMoves
<1>4. \A f \in Pend(c') : c'.entry[f].mem = m <=> f = e
  BY <1>1, <1>2, <1>3, OthersPend
<1>5. Sole(c, e)'
  BY <1>1, <1>2, <1>4 DEF Sole
<1>6. PendingOk(c, e)'
  BY <1>1, <1>5 DEF PendingOk
<1>7. Balanced(c, m)'
  <2>1. Using(c', m) = {e}
    BY <1>1, <1>4 DEF Using
  <2>2. Cardinality(Using(c', m)) = 1
    BY <2>1, FS_Singleton
  <2> QED
    BY <1>1, <1>2, <2>2 DEF Balanced
<1>8. UnpackerMem(c)'
  BY <1>2, <1>3, UnpackerMemSame
<1>9. Nowhere(e) /\ ~ToTake(e) /\ ~ToUnpack(e) /\ unpacker.entry # e /\ cacher.entry # e
  <2>1. Nowhere(e) /\ Lone(c)
    BY <1>1, WhereIs, TokensNow
  <2> QED
    BY <1>1, <2>1 DEF Lone
<1>10. AnswersOk(c)'
  <2>1. From(answers', answers, {}) /\ \A f \in {e} : ~ToTake(f) \/ ~ToTake(f)'
    BY <1>9, FromSelf
  <2> QED
    BY <1>3, <2>1, AnswersCarried
<1>11. JobsOk(c)'
  <2>1. From(jobs', jobs, {}) /\ \A f \in {e} : ~ToUnpack(f) \/ ~ToUnpack(f)'
    BY <1>9, FromSelf
  <2> QED
    BY <1>3, <2>1, JobsCarried
<1>12. CacherOk(c)'
  BY <1>3, <1>9, CacherCarried
<1>13. UnpackerOk(c)'
  BY <1>3, <1>9, UnpackerCarried
<1>14. Tokens(c)'
  <2>1. \A f \in Entries \ {e} : f \in Pend(c') <=> f \in Pend(c)
    BY <1>3, OthersPend
  <2> QED
    BY <1>1, <2>1, TokensMoved
<1>15. c'.entry[e] # Reserved
  <2>1. c'.entry[e].place = "pending" /\ Reserved.place = "used"
    BY <1>1 DEF Pend, Reserved, FreeEntry
  <2> QED
    BY <2>1
<1> QED
  BY <1>1, <1>3, <1>6, <1>7, <1>8, <1>10, <1>11, <1>12, <1>13, <1>14, <1>15, MovesStep

\* What memory for a resource of the cartridge is asked for with.
Suits(k, p) == (k \in Indexes \cup Packed /\ p = TRUE) \/ (k \in Plain /\ p = FALSE)

\* Memory is asked for with the flags that suit what is loaded.
LEMMA LoadFlagsAre ==
  ASSUME NEW k \in Keys \ Made, NEW flags, flags = LoadFlags(k)
  PROVE  flags \in AllocFlags /\ Suits(k, flags.persistent)
<1>1. CASE k \in Packed
  <2>1. (k \in Indexes) = FALSE
    BY <1>1, CacheSound
  <2>2. flags = [persistent |-> TRUE, fixed |-> FALSE, recentToo |-> FALSE, top |-> TRUE]
    BY <1>1, <2>1 DEF LoadFlags, Flags
  <2> QED
    BY <1>1, <2>2 DEF AllocFlags, Suits
<1>2. CASE k \in Indexes
  <2>1. (k \in Indexes) = TRUE /\ k \notin Packed
    BY <1>2, CacheSound
  <2>2. flags = [persistent |-> TRUE, fixed |-> TRUE, recentToo |-> TRUE, top |-> FALSE]
    BY <2>1 DEF LoadFlags, Flags
  <2> QED
    BY <1>2, <2>2 DEF AllocFlags, Suits
<1>3. CASE k \in Plain
  <2>1. (k \in Indexes) = FALSE /\ k \notin Packed
    BY <1>3, CacheSound
  <2>2. flags = [persistent |-> FALSE, fixed |-> FALSE, recentToo |-> FALSE, top |-> FALSE]
    BY <2>1 DEF LoadFlags, Flags
  <2> QED
    BY <1>3, <2>2 DEF AllocFlags, Suits
<1> QED
  BY <1>1, <1>2, <1>3 DEF Keys

\* It is as the key wants it.
AsWanted(y, m, k) ==
  /\ k \in Packed \cup Indexes => y.mem[m].persistent
  /\ k \in Plain => ~y.mem[m].persistent

\* The memory given has the flags that were asked for.
LEMMA WantedIs ==
  ASSUME NEW k, NEW flags, Suits(k, flags.persistent), NEW y, NEW m,
         y.mem[m].persistent = flags.persistent
  PROVE  AsWanted(y, m, k)
<1>1. k \in Plain => k \notin Packed /\ k \notin Indexes
  BY CacheSound
<1>2. CASE k \in Indexes \cup Packed /\ flags.persistent = TRUE
  BY <1>1, <1>2 DEF AsWanted
<1>3. CASE k \in Plain /\ flags.persistent = FALSE
  BY <1>1, <1>3 DEF AsWanted
<1> QED
  BY <1>2, <1>3 DEF Suits

\* The read of a request that begins.
LEMMA BegunLoad ==
  ASSUME NEW y, NEW e, NEW m, NEW k, NEW n, Begun(y, e, m, k, n), AsWanted(y, m, k),
         k \in Keys \ Made, n \in Nat \ {0}, NEW to, to = y.mem[m].at
  PROVE  LoadOk(y, e, to)
BY DEF Begun, AsWanted, LoadOk

\* The request waits for its read.
LEMMA ReadWaits ==
  ASSUME RInv, IInv, NEW e, NEW m, NEW y, Begun(y, e, m, main.key, main.length),
         AsWanted(y, m, main.key), main.at = "request", Sync, Read(y, e), ~y.entry[e].unpack,
         UNCHANGED <<unpacker, jobs, answers, cacher>>
  PROVE  RInv'
<1>1. PICK k : k = main.key
  OBVIOUS
<1>2. PICK n : n = main.length
  OBVIOUS
<1>3. PICK to : to = y.mem[m].at
  OBVIOUS
<1>4. k \in Keys \ Made /\ n \in Nat \ {0}
  BY <1>1, <1>2 DEF RInv, Linked, ClientOk
<1>5. Begun(y, e, m, k, n) /\ AsWanted(y, m, k)
  BY <1>1, <1>2
<1>6. e \in Entries /\ e \in Pend(y) /\ y.entry[e].mem = m /\ y.entry[e].key = k
      /\ y.entry[e].length = n /\ e \notin Pend(c)
  BY <1>5 DEF Begun
<1>7. /\ c' = y /\ main' = [main EXCEPT !.at = "load", !.entry = e, !.to = to]
      /\ UNCHANGED <<loads, held>>
  BY <1>3, <1>6 DEF Read, clientVars
<1>8. main'.at = "load" /\ main'.entry = e /\ main'.to = to /\ main'.key = k /\ main'.length = n
  BY <1>1, <1>2, <1>7 DEF IInv, Shapes, Away
<1>9. LoadOk(y, e, to)
  BY <1>3, <1>4, <1>5, BegunLoad
<1>10. MainOk(c)' /\ ClientOk(c)'
  <2>1. LoadOk(c', e, to)
    BY <1>7, <1>9
  <2>2. ~c'.entry[e].unpack
    BY <1>7
  <2>3. e \in Pend(c') /\ c'.entry[e].key = k /\ c'.entry[e].length = n
    BY <1>6, <1>7
  <2> QED
    BY <1>8, <2>1, <2>2, <2>3 DEF MainOk, ClientOk, Busy
<1>11. Lined'
  BY <1>7, TokensNow DEF Lined, Queued
<1>12. \A f \in Entries \ {e} : SamePlaces(f)
  <2>1. \A f \in Entries \ {e} : AtMain(f)' = AtMain(f)
    BY <1>8 DEF AtMain
  <2> QED
    BY <1>7, <2>1, PlacesSame DEF SamePlaces
<1>13. OnlyMain(e)'
  <2>1. Nowhere(e)
    BY <1>6, WhereIs
  <2>2. AtMain(e)' = 1
    BY <1>8 DEF AtMain
  <2> QED
    BY <1>7, <2>1, <2>2, PlacesSame DEF OnlyMain, Nowhere, Spot
<1>14. LoadsOk(c)'
  <2>1. Moves({e}, {m})
    <3>1. Begun(c', e, m, k, n) /\ k \notin Made
      BY <1>4, <1>5, <1>7
    <3> QED
      BY <1>7, <3>1, BegunMoves
  <2>2. ~ToLoad(e)
    BY <1>6, TokensNow DEF Lone
  <2>3. From(loads', loads, {}) /\ \A f \in {e} : ~ToLoad(f) \/ ~ToLoad(f)'
    BY <1>7, <2>2, FromSelf
  <2> QED
    BY <2>1, <2>3, LoadsCarried
<1>15. Begun(c', e, m, k, n) /\ (k \in Indexes => c'.mem[m].persistent)
  BY <1>5, <1>7 DEF AsWanted
<1>16. Somewhere(e)'
  BY <1>13 DEF Somewhere
<1> QED
  BY <1>4, <1>7, <1>10, <1>11, <1>12, <1>14, <1>15, <1>16, BegunStep

\* The request is left to the loader.
LEMMA ReadQueued ==
  ASSUME RInv, IInv, NEW e, NEW m, NEW y, Begun(y, e, m, main.key, main.length),
         AsWanted(y, m, main.key), main.at = "request", ~Sync, Read(y, e),
         UNCHANGED <<unpacker, jobs, answers, cacher>>
  PROVE  RInv'
<1>1. PICK k : k = main.key
  OBVIOUS
<1>2. PICK n : n = main.length
  OBVIOUS
<1>3. PICK to : to = y.mem[m].at
  OBVIOUS
<1>4. k \in Keys \ Made /\ n \in Nat \ {0}
  BY <1>1, <1>2 DEF RInv, Linked, ClientOk
<1>5. Begun(y, e, m, k, n) /\ AsWanted(y, m, k)
  BY <1>1, <1>2
<1>6. e \in Entries /\ y.entry[e].mem = m /\ e \notin Pend(c) /\ Sound(y) /\ m \in Mems
  BY <1>5 DEF Begun
<1>7. PICK flag \in BOOLEAN : flag = (k \in Packed)
  <2>1. (k \in Packed) \in BOOLEAN
    OBVIOUS
  <2> QED
    BY <2>1
<1>8. FlagSet(y, c', e, flag)
  BY <1>1, <1>7 DEF Read, FlagSet
<1>9. /\ loads' = Append(loads, [entry |-> e, to |-> to]) /\ Returns(None)
  BY <1>3, <1>6 DEF Read
<1>10. held' = held /\ main'.at \notin Busy /\ ClientOk(c)'
  BY <1>9, ReturnsNothing
<1>11. Begun(c', e, m, k, n) /\ c'.entry[e].unpack = flag /\ c'.mem = y.mem
  <2>1. PICK z : z = c'
    OBVIOUS
  <2>2. Begun(z, e, m, k, n) /\ z.entry[e].unpack = flag /\ z.mem = y.mem
    <3>1. Begun(y, e, m, k, n) /\ FlagSet(y, z, e, flag) /\ flag \in BOOLEAN
      BY <1>5, <1>8, <2>1
    <3> QED
      BY <3>1, BegunMarked
  <2> QED
    BY <2>1, <2>2
<1>12. AsWanted(c', m, k) /\ (k \in Indexes => c'.mem[m].persistent)
  BY <1>5, <1>11 DEF AsWanted
<1>13. Moves({e}, {m})
  BY <1>4, <1>10, <1>11, BegunMoves
<1>14. PICK r : r = [entry |-> e, to |-> to]
  OBVIOUS
<1>15. r.entry = e /\ r.to = to /\ to \in Nat /\ r \in LoadRecord
  BY <1>3, <1>6, <1>14 DEF LoadRecord, Sound, Memories, MemRecord
<1>16. LoadedOk(c', r)
  <2>1. to = c'.mem[m].at
    BY <1>3, <1>11
  <2>2. LoadOk(c', e, to)
    BY <1>4, <1>11, <1>12, <2>1, BegunLoad
  <2>3. c'.entry[e].unpack <=> c'.entry[e].key \in Packed
    <3>1. c'.entry[e].key = k
      BY <1>11 DEF Begun
    <3> QED
      BY <1>7, <1>11, <3>1
  <2> QED
    BY <1>15, <2>2, <2>3 DEF LoadedOk
<1>17. Lined /\ Nowhere(e) /\ ~ToLoad(e)
  BY <1>6, TokensNow, WhereIs DEF Lone
<1>18. LoadsOk(c)'
  <2>1. loads \in Seq(LoadRecord) /\ loads' = Behind(r, loads)
    BY <1>9, <1>14, <1>17 DEF Lined, Queued, Behind
  <2>2. From(loads', loads, {r})
    BY <1>15, <2>1, FromBehind
  <2>3. /\ \A i \in {r} : LoadedOk(c', i)
        /\ \A f \in {e} : ~ToLoad(f) \/ ~ToLoad(f)'
    BY <1>16, <1>17
  <2> QED
    BY <1>13, <2>2, <2>3, LoadsCarried
<1>19. /\ loads' \in Seq(LoadRecord)
       /\ \A f \in Entries : InLoads(f)' = InLoads(f) + (IF f = e THEN 1 ELSE 0)
  BY <1>6, <1>9, <1>15, <1>17, LoadAdded
<1>20. Lined'
  BY <1>10, <1>17, <1>19 DEF Lined, Queued
<1>21. \A f : AtMain(f)' = 0 /\ AtMain(f) = 0
  <2>1. main.at = "request" /\ main'.at \notin Busy
    BY <1>10
  <2> QED
    BY <2>1 DEF AtMain, Busy
<1>22. \A f \in Entries \ {e} : SamePlaces(f)
  <2>1. \A f \in Entries \ {e} : InLoads(f)' = InLoads(f)
    BY <1>17, <1>19, WaysAre DEF Ways
  <2> QED
    BY <1>21, <2>1, PlacesSame DEF SamePlaces
<1>23. Somewhere(e)'
  <2>1. InLoads(e)' = 1
    BY <1>6, <1>17, <1>19 DEF Nowhere, Spot
  <2>2. OnlyLoads(e)'
    BY <1>17, <1>21, <2>1, PlacesSame DEF OnlyLoads, Nowhere, Spot
  <2> QED
    BY <2>2 DEF Somewhere
<1>24. MainOk(c)'
  BY <1>10, NoRequest
<1> QED
  BY <1>4, <1>10, <1>11, <1>12, <1>18, <1>20, <1>22, <1>23, <1>24, BegunStep

\* A request that the table cannot answer begins, when there is room.
LEMMA RequestMissStep == ASSUME RInv, IInv, RequestMiss PROVE RInv'
<1>1. PICK k : k = main.key
  OBVIOUS
<1>2. PICK n : n = main.length
  OBVIOUS
<1>3. PICK flags : flags = LoadFlags(k)
  OBVIOUS
<1>4. PICK x : x = WithCacheEntry(c, Flags(k).recentToo)
  OBVIOUS
<1>5. main.at = "request" /\ UNCHANGED <<answers, cacher, jobs, unpacker>>
  BY DEF RequestMiss, MainHasLock, MainAt, syncVars
<1>6. \/ c' = x /\ Returns(None) /\ UNCHANGED loads
      \/ \E e \in FreeEntries(x) : \E a \in Allocations(Took(x, e), n, flags) :
           IF a.mem = None THEN c' = Withdrawn(a.x, e) /\ Returns(None) /\ UNCHANGED loads
           ELSE Read(Pending(a.x, e, a.mem, k, n), e)
  BY <1>1, <1>2, <1>3, <1>4 DEF RequestMiss, Took
<1>7. k \in Keys \ Made /\ n \in Nat
  BY <1>1, <1>2, <1>5 DEF RInv, Linked, ClientOk
<1>8. flags \in AllocFlags /\ Suits(k, flags.persistent)
  BY <1>3, <1>7, LoadFlagsAre
<1>9. main.at \notin Busy
  BY <1>5 DEF Busy
<1>10. CASE c' = x /\ Returns(None) /\ UNCHANGED loads
  <2>1. Sound(x) /\ Rest(c, x, {}, {})
    BY <1>4, NoEntry
  <2> QED
    BY <1>5, <1>9, <1>10, <2>1, ReturnsThinner
<1>11. ASSUME NEW e \in FreeEntries(x), NEW a \in Allocations(Took(x, e), n, flags),
              IF a.mem = None THEN c' = Withdrawn(a.x, e) /\ Returns(None) /\ UNCHANGED loads
              ELSE Read(Pending(a.x, e, a.mem, k, n), e)
       PROVE  RInv'
  <2>1. Vacant(x, e)
    BY <1>4, <1>11, EntryFound
  <2>2. PICK r : r = Took(x, e)
    OBVIOUS
  <2>3. Sound(r) /\ a \in Allocations(r, n, flags)
    BY <1>11, <2>1, <2>2, TookIs
  <2>4. /\ Sound(a.x)
        /\ \/ a.mem = None /\ Thinned(r, a.x)
           \/ a.mem \in Mems /\ Given(r, a.x, a.mem, n, flags)
    BY <1>7, <1>8, <2>3, AllocationsAre
  <2>5. CASE a.mem = None
    <3>1. PICK y : y = Withdrawn(a.x, e)
      OBVIOUS
    <3>2. Thinned(r, a.x)
      BY <2>4, <2>5, CacheSound
    <3>3. Sound(y) /\ Rest(c, y, {}, {})
      BY <2>1, <2>2, <2>4, <3>1, <3>2, NoMemory
    <3>4. c' = y /\ Returns(None) /\ UNCHANGED loads
      BY <1>11, <2>5, <3>1
    <3> QED
      BY <1>5, <1>9, <3>3, <3>4, ReturnsThinner
  <2>6. CASE a.mem # None
    <3>1. PICK m : m = a.mem
      OBVIOUS
    <3>2. PICK y : y = Pending(a.x, e, m, k, n)
      OBVIOUS
    <3>3. Given(r, a.x, m, n, flags)
      BY <2>4, <2>6, <3>1
    <3>4. Begun(y, e, m, k, n) /\ ~y.entry[e].unpack /\ y.mem[m].persistent = flags.persistent
      BY <1>7, <2>1, <2>2, <2>4, <3>2, <3>3, RequestBegun
    <3>5. AsWanted(y, m, k)
      BY <1>8, <3>4, WantedIs
    <3>6. Read(y, e)
      BY <1>11, <2>6, <3>1, <3>2
    <3>7. CASE Sync
      BY <1>1, <1>2, <1>5, <3>4, <3>5, <3>6, <3>7, ReadWaits
    <3>8. CASE ~Sync
      BY <1>1, <1>2, <1>5, <3>4, <3>5, <3>6, <3>8, ReadQueued
    <3> QED
      BY <3>7, <3>8
  <2> QED
    BY <2>5, <2>6
<1> QED
  BY <1>6, <1>10, <1>11

\* In y the request e has begun to make k of the game's memory m.
BegunOf(y, e, m, k) ==
  /\ Sound(y) /\ Rest(c, y, {e}, {m}) /\ e \in Entries /\ e \notin Pend(c) /\ e \in Pend(y)
  /\ y.entry[e].mem = m /\ y.entry[e].key = k /\ ~y.entry[e].unpack
  /\ m \in Mems /\ SameData(c, y, m)
  /\ y.mem[m].locks = c.mem[m].locks + 1 /\ c.mem[m].locks \in Nat
  /\ \A i \in Keys : y.table[i] = c.table[i] \/ y.table[i] = None

\* CCache__RequestDecompression's entry begins with the game's memory, and a
\* reference to it.
LEMMA MakeBegun ==
  ASSUME RInv, NEW x, NEW e, Vacant(x, e), NEW m \in Mems, held[m] > 0, NEW k \in Keys,
         NEW z, z = AddRef(x, m), NEW y, y = Pending(z, e, m, k, 0)
  PROVE  BegunOf(y, e, m, k)
<1>1. /\ Sound(x) /\ Rest(c, x, {}, {}) /\ e \in Entries /\ e \notin Pend(c) /\ x.entry[e] = FreeEntry
  BY DEF Vacant
<1>2. c.mem[m].locks > 0
  BY GameMemory
<1>3. SameData(c, x, m) /\ x.mem[m].locks = c.mem[m].locks /\ m \in Allocated(x)
  BY <1>1, <1>2 DEF Rest, SameData
<1>4. OneMore(x, z, m)
  BY <1>1, <1>3, AddRefIs
<1>5. /\ Sound(z) /\ Rest(x, z, {}, {m}) /\ SameData(x, z, m)
      /\ z.mem[m].locks = x.mem[m].locks + 1 /\ x.mem[m].locks \in Nat
  BY <1>4 DEF OneMore
<1>6. z.entry[e] = FreeEntry
  BY <1>1, <1>5 DEF Rest
<1>7. PICK q : q = [place |-> "pending", mem |-> m, key |-> k, length |-> 0, unpack |-> FALSE]
  OBVIOUS
<1>8. EntrySet(z, y, e) /\ y.entry[e] = q
  <2>1. m \in SomeMem /\ 0 \in Nat
    BY DEF SomeMem
  <2> QED
    BY <1>1, <1>5, <1>7, <2>1, PendingIs
<1>9. q.place = "pending" /\ q.mem = m /\ q.key = k /\ ~q.unpack
  BY <1>7
<1>10. Loose(z.entry[e]) /\ Loose(y.entry[e])
  BY <1>6, <1>8, <1>9 DEF Loose
<1>11. Sound(y) /\ Allocated(y) = Allocated(z) /\ y.mem = z.mem /\ y.table = z.table
  BY <1>1, <1>5, <1>8, <1>10, EntrySound
<1>12. Rest(z, y, {e}, {})
  BY <1>1, <1>5, <1>8, RestEntry
<1>13. \A i \in Keys : z.table[i] = x.table[i] \/ z.table[i] = None
  BY <1>5 DEF Rest
<1>14. \A i \in Keys : y.table[i] = z.table[i] \/ y.table[i] = None
  BY <1>11
<1>15. Rest(c, z, {} \cup {}, {} \cup {m})
  BY <1>1, <1>5, <1>13, RestTwice
<1>16. {} \cup {} = {} /\ {} \cup {m} = {m} /\ {} \cup {e} = {e} /\ {m} \cup {} = {m}
  OBVIOUS
<1>17. Rest(c, z, {}, {m})
  BY <1>15, <1>16
<1>18. Rest(c, y, {} \cup {e}, {m} \cup {})
  BY <1>12, <1>14, <1>17, RestTwice
<1>19. Rest(c, y, {e}, {m})
  BY <1>16, <1>18
<1>20. \A i \in Keys : y.table[i] = c.table[i] \/ y.table[i] = None
  BY <1>11, <1>17 DEF Rest
<1>21. SameData(c, y, m)
  BY <1>3, <1>5, <1>11 DEF SameData
<1>22. e \in Pend(y) /\ y.entry[e].mem = m /\ y.entry[e].key = k
  BY <1>1, <1>8, <1>9 DEF Pend
<1>23. ~y.entry[e].unpack
  BY <1>8, <1>9
<1> QED
  BY <1>1, <1>3, <1>5, <1>11, <1>19, <1>20, <1>21, <1>22, <1>23 DEF BegunOf

\* A resource that nobody has made, and nobody is making.
Unmade(k) == k \in Made /\ c.table[k] = None /\ \A f \in Pend(c) : c.entry[f].key # k

\* The game's memory has one reference more.
LEMMA MakeBegins ==
  ASSUME RInv, IInv, NEW e, NEW m, NEW k \in Keys, held[m] > 0, BegunOf(c', e, m, k), Unmade(k),
         main.at = "make", main.key = k, main.mem = m,
         main' = [main EXCEPT !.at = IF delay > 0 THEN "jam" ELSE "send", !.entry = e],
         UNCHANGED <<held, unpacker, loads, jobs, answers, cacher>>
  PROVE  RInv'
<1>1. /\ Sound(c') /\ Rest(c, c', {e}, {m}) /\ e \in Entries /\ e \notin Pend(c) /\ e \in Pend(c')
      /\ c'.entry[e].mem = m /\ c'.entry[e].key = k
      /\ m \in Mems /\ SameData(c, c', m)
      /\ c'.mem[m].locks = c.mem[m].locks + 1 /\ c.mem[m].locks \in Nat
      /\ \A i \in Keys : c'.table[i] = c.table[i] \/ c'.table[i] = None
  BY DEF BegunOf
<1>2. unpacker.mem # m /\ \A f \in Pend(c) : c.entry[f].mem = m => ~Sole(c, f)
  BY <1>1, GameMemory
<1>3. Moves({e}, {m})
  BY <1>1, <1>2 DEF Moves, Unmade
<1>4. \A f \in Pend(c') \ {e} : f \in Pend(c) /\ c'.entry[f] = c.entry[f]
  BY <1>3, OthersPend
<1>5. c'.mem[m].holds = Original(k) /\ ~c'.mem[m].persistent
  <2>1. c.mem[m].holds = Res(Source[k]) /\ k \in Made
    BY DEF RInv, Linked, ClientOk, Unmade
  <2>2. Source[k] \in Plain \cup Packed
    BY <2>1, CacheSound
  <2>3. ~c.mem[m].persistent
    BY <1>1, <2>1, <2>2 DEF RInv, Sound, Marked
  <2> QED
    BY <1>1, <2>1, <2>3 DEF SameData, Original
<1>6. PendingOk(c, e)'
  <2>1. m \in Allocated(c') /\ k \notin Indexes /\ k \in Made
    BY <1>1, CacheSound DEF SameData, Unmade
  <2>2. c'.table[k] = None
    BY <1>1 DEF Unmade
  <2>3. \A f \in Pend(c') : c'.entry[f].key = k => f = e
    BY <1>4 DEF Unmade
  <2> QED
    BY <1>1, <1>5, <2>1, <2>2, <2>3 DEF PendingOk
<1>7. Balanced(c, m)'
  <2>1. PICK U : U = Using(c, m)
    OBVIOUS
  <2>2. Using(c', m) = U \cup {e} /\ e \notin U
    <3>1. \A f \in Using(c', m) : f \in U \cup {e}
      BY <1>4, <2>1 DEF Using
    <3>2. \A f \in U : f \in Using(c', m)
      BY <1>1, <1>3, <2>1, OthersPend DEF Using
    <3>3. e \in Using(c', m) /\ e \notin U
      BY <1>1, <2>1 DEF Using
    <3> QED
      BY <3>1, <3>2, <3>3
  <2>3. IsFiniteSet(U) /\ Cardinality(U) \in Nat /\ held[m] \in Nat
    BY <1>1, <2>1, Locked
  <2>4. Cardinality(Using(c', m)) = Cardinality(U) + 1
    BY <2>2, <2>3, FS_AddElement
  <2>5. c.mem[m].locks = held[m] + Cardinality(U)
    BY <1>1, <1>2, <2>1, <2>3, Locked
  <2> QED
    BY <1>1, <1>2, <2>3, <2>4, <2>5 DEF Balanced
<1>8. UnpackerMem(c)'
  BY <1>2, <1>3, UnpackerMemSame
<1>9. /\ Nowhere(e) /\ ~ToLoad(e) /\ ~ToTake(e) /\ ~ToUnpack(e)
      /\ unpacker.entry # e /\ cacher.entry # e /\ Lined
  <2>1. Nowhere(e) /\ Lone(c) /\ Lined
    BY <1>1, WhereIs, TokensNow
  <2> QED
    BY <1>1, <2>1 DEF Lone
<1>10. LoadsOk(c)'
  <2>1. From(loads', loads, {}) /\ \A f \in {e} : ~ToLoad(f) \/ ~ToLoad(f)'
    BY <1>9, FromSelf
  <2> QED
    BY <1>3, <2>1, LoadsCarried
<1>11. AnswersOk(c)'
  <2>1. From(answers', answers, {}) /\ \A f \in {e} : ~ToTake(f) \/ ~ToTake(f)'
    BY <1>9, FromSelf
  <2> QED
    BY <1>3, <2>1, AnswersCarried
<1>12. JobsOk(c)'
  <2>1. From(jobs', jobs, {}) /\ \A f \in {e} : ~ToUnpack(f) \/ ~ToUnpack(f)'
    BY <1>9, FromSelf
  <2> QED
    BY <1>3, <2>1, JobsCarried
<1>13. CacherOk(c)'
  BY <1>3, <1>9, CacherCarried
<1>14. UnpackerOk(c)'
  BY <1>3, <1>9, UnpackerCarried
<1>15. /\ main'.at \in {"jam", "send"} /\ main'.entry = e /\ main'.key = k /\ main'.mem = m
  BY DEF IInv, Shapes, Away
<1>16. MainOk(c)' /\ ClientOk(c)'
  <2>1. k \in Made /\ k \in Packed \cup Made /\ k \notin Packed
    BY CacheSound DEF Unmade
  <2>2. ~c'.entry[e].unpack
    BY DEF BegunOf
  <2>3. Origin(c', e)
    BY <1>1, <1>5, <2>1 DEF Origin
  <2>4. Origin(c, e)'
    BY <2>3 DEF Origin
  <2> QED
    BY <1>1, <1>15, <2>1, <2>2, <2>4 DEF MainOk, ClientOk, Busy
<1>17. Lined'
  BY <1>9 DEF Lined, Queued
<1>18. Tokens(c)'
  <2>1. \A f \in Entries \ {e} : AtMain(f)' = AtMain(f)
    BY <1>15 DEF AtMain
  <2>2. \A f \in Entries \ {e} : SamePlaces(f)
    BY <2>1, PlacesSame DEF SamePlaces
  <2>3. AtMain(e)' = 1
    BY <1>15 DEF AtMain
  <2>4. OnlyMain(e)'
    BY <1>9, <2>3, PlacesSame DEF OnlyMain, Nowhere, Spot
  <2>5. \A f \in Entries \ {e} : f \in Pend(c') <=> f \in Pend(c)
    BY <1>3, OthersPend
  <2> QED
    BY <1>1, <1>17, <2>2, <2>4, <2>5, TokensMoved DEF Somewhere
<1>19. c'.entry[e] # Reserved
  <2>1. c'.entry[e].place = "pending" /\ Reserved.place = "used"
    BY <1>1 DEF Pend, Reserved, FreeEntry
  <2> QED
    BY <2>1
<1> QED
  BY <1>1, <1>3, <1>6, <1>7, <1>8, <1>10, <1>11, <1>12, <1>13, <1>14, <1>16, <1>17, <1>18, <1>19,
     MovesStep

\* CCache__RequestDecompression begins, when there is an entry.
LEMMA MakeMissStep == ASSUME RInv, IInv, MakeMiss PROVE RInv'
<1>1. PICK k : k = main.key
  OBVIOUS
<1>2. PICK m : m = main.mem
  OBVIOUS
<1>3. PICK x : x = WithCacheEntry(c, FALSE)
  OBVIOUS
<1>4. main.at = "make" /\ UNCHANGED <<answers, cacher, jobs, loads, unpacker>>
  BY DEF MakeMiss, MainHasLock, MainAt, syncVars, workVars
<1>5. Unmade(k) /\ k \in Keys /\ m \in Mems /\ held[m] > 0
  <2>1. k \in Made /\ m \in Held
    BY <1>1, <1>2, <1>4 DEF RInv, Linked, ClientOk
  <2>2. c.table[k] = None /\ Owner(c, k) = {}
    BY <1>1 DEF MakeMiss
  <2> QED
    BY <2>1, <2>2 DEF Unmade, Owner, Pend, Keys, Held
<1>6. \/ c' = x /\ Returns(None)
      \/ \E e \in FreeEntries(x) :
           /\ c' = Pending(AddRef(x, m), e, m, k, 0)
           /\ main' = [main EXCEPT !.at = IF delay > 0 THEN "jam" ELSE "send", !.entry = e]
           /\ held' = held
  BY <1>1, <1>2, <1>3 DEF MakeMiss, clientVars
<1>7. PICK recentToo : recentToo = FALSE
  OBVIOUS
<1>8. x = WithCacheEntry(c, recentToo)
  BY <1>3, <1>7
<1>9. main.at \notin Busy
  BY <1>4 DEF Busy
<1>10. CASE c' = x /\ Returns(None)
  <2>1. Sound(x) /\ Rest(c, x, {}, {})
    BY <1>8, NoEntry
  <2> QED
    BY <1>4, <1>9, <1>10, <2>1, ReturnsThinner
<1>11. ASSUME NEW e \in FreeEntries(x), c' = Pending(AddRef(x, m), e, m, k, 0),
              main' = [main EXCEPT !.at = IF delay > 0 THEN "jam" ELSE "send", !.entry = e],
              held' = held
       PROVE  RInv'
  <2>1. Vacant(x, e)
    BY <1>8, <1>11, EntryFound
  <2>2. PICK z : z = AddRef(x, m)
    OBVIOUS
  <2>3. PICK y : y = c'
    OBVIOUS
  <2>4. y = Pending(z, e, m, k, 0)
    BY <1>11, <2>2, <2>3
  <2>5. BegunOf(y, e, m, k)
    BY <1>5, <2>1, <2>2, <2>4, MakeBegun
  <2>6. BegunOf(c', e, m, k)
    BY <2>3, <2>5
  <2> QED
    BY <1>1, <1>2, <1>4, <1>5, <1>11, <2>6, MakeBegins
<1> QED
  BY <1>6, <1>10, <1>11

----------------------------------------------------------------------------
(* The records in every reachable state                                     *)

\* At first nothing is allocated, and no request is anywhere.
LEMMA RecordsBegin == Init => RInv
<1> SUFFICES ASSUME Init PROVE RInv
  OBVIOUS
<1>1. /\ c.mem = [m \in Mems |-> FreeMem] /\ c.order = <<>>
      /\ c.entry = [e \in Entries |-> FreeEntry] /\ c.table = [k \in Keys |-> None]
      /\ c \in Memories
  <2>1. c = [mem |-> [m \in Mems |-> FreeMem], order |-> <<>>,
             entry |-> [e \in Entries |-> FreeEntry], table |-> [k \in Keys |-> None]]
    BY DEF Init
  <2> QED
    BY <2>1, Blanks DEF Memories, SomeEntry
<1>2. /\ held = [m \in Mems |-> 0] /\ loads = <<>> /\ answers = <<>> /\ jobs = <<>>
      /\ main.at = "away" /\ cacher.at = "idle" /\ cacher.entry = None
      /\ unpacker.at = "idle" /\ unpacker.entry = None /\ unpacker.mem = None
  BY DEF Init, Away
<1>3. Allocated(c) = {} /\ Pend(c) = {}
  BY <1>1 DEF Allocated, Pend, FreeEntry
<1>4. Sound(c)
  <2>1. Apart(c)
    BY <1>1, <1>3 DEF Apart
  <2>2. \A e \in Entries : c.entry[e] = FreeEntry
    BY <1>1
  <2>3. \A m \in Mems : c.mem[m].entry = None /\ ~c.mem[m].persistent
    BY <1>1 DEF FreeMem
  <2>4. Agree(c)
    BY <1>1, <2>2, <2>3 DEF Agree, FreeEntry
  <2>5. Marked(c)
    BY <2>3 DEF Marked
  <2> QED
    BY <1>1, <2>1, <2>4, <2>5 DEF Sound
<1>5. \A e \in Entries : c.entry[e] # Reserved
  BY <1>1 DEF Reserved, FreeEntry
<1>6. Lined
  BY <1>2 DEF Lined, Queued
<1>7. LocksOf(c)
  <2>1. \A m \in Mems : Using(c, m) = {} /\ unpacker.mem # m /\ c.mem[m].locks = 0 /\ held[m] = 0
    BY <1>1, <1>2, <1>3, CacheSound DEF Using, FreeMem
  <2>2. \A m \in Mems : Cardinality(Using(c, m)) = 0
    BY <2>1, FS_EmptySet
  <2> QED
    BY <2>1, <2>2 DEF LocksOf
<1>8. Tokens(c)
  <2>1. Ways
    BY <1>6, WaysAre
  <2>2. \A e \in Entries : /\ InLoads(e) = 0 /\ InAnswers(e) = 0 /\ InJobs(e) = 0
                           /\ AtUnpacker(e) = 0 /\ AtCacher(e) = 0 /\ AtMain(e) = 0
    BY <1>2, <2>1, CacheSound DEF Ways, AtUnpacker, AtCacher, AtMain
  <2>3. \A e \in Entries : OnItsWay(e) = 0
    BY <2>1, <2>2 DEF Ways
  <2> QED
    BY <1>3, <2>3 DEF Tokens
<1>9. LoadsOk(c) /\ AnswersOk(c) /\ JobsOk(c)
  BY <1>2 DEF LoadsOk, AnswersOk, JobsOk
<1>10. Pendings(c) /\ UnpackerMem(c) /\ CacherOk(c) /\ UnpackerOk(c)
  BY <1>2, <1>3 DEF Pendings, UnpackerMem, CacherOk, UnpackerOk
<1>11. MainOk(c) /\ ClientOk(c)
  BY <1>2 DEF MainOk, ClientOk, Busy
<1> QED
  BY <1>4, <1>5, <1>6, <1>7, <1>8, <1>9, <1>10, <1>11 DEF RInv, Linked, Lined

\* The game calls the cache.
LEMMA StartsRecords == ASSUME RInv, IInv, GameStarts PROVE RInv'
<1>1. CASE (\E k \in Keys, s \in BOOLEAN : Request(k, s)) \/ \E k \in Keys : LoadPersistantIndex(k)
  BY <1>1, CallStep
<1>2. CASE \E k \in Keys, m \in Mems : RequestDecompression(k, m)
  BY <1>2, CallMakeStep
<1>3. CASE \E k \in Keys : Touch(k)
  BY <1>3, TouchStep
<1>4. CASE \E n \in Own, recentToo, top \in BOOLEAN : Allocate(n, recentToo, top)
  BY <1>4, AllocateStep
<1>5. CASE \E m \in Mems : TouchAndLock(m) \/ Unlock(m) \/ Deallocate(m) \/ DrawFrom(m)
  BY <1>5, TouchAndLockStep, UnlockStep, DeallocateStep, CallDrawStep
<1>6. CASE SetFrameDelay \/ EndDisplayList \/ \E l \in Lists : BeginDisplayList(l)
  BY <1>6, GameStays
<1>7. CASE Advance \/ Flush
  BY <1>7, AdvanceStep, FlushRecords
<1> QED
  BY <1>1, <1>2, <1>3, <1>4, <1>5, <1>6, <1>7 DEF GameStarts

\* What the game called goes on.
LEMMA GoesOnRecords == ASSUME RInv, IInv, GameGoesOn PROVE RInv'
<1>1. CASE RequestHit \/ RequestPending \/ RequestMiss \/ RequestWhole \/ IndexProbed
  BY <1>1, RequestHitStep, AlreadyStep, RequestMissStep, CallStep, IndexProbedStep
<1>2. CASE LoadSyncReturns \/ DecompressSync \/ SyncComplete
  BY <1>2, SyncReadStep, DecompressRecords, SyncCompleteStep
<1>3. CASE MakeHit \/ MakePending \/ MakeMiss \/ MakeAsync \/ MakeUndo
  BY <1>3, MakeHitStep, AlreadyStep, MakeMissStep, SendRecords, MakeUndoStep
<1>4. CASE LockForDisplayList \/ CompactEnds \/ FlushWaits \/ FlushLocks \/ FlushFrees
  BY <1>4, LockRecords, EndsStep, FlushFreesStep
<1> QED
  BY <1>1, <1>2, <1>3, <1>4 DEF GameGoesOn

\* The records survive every step.
LEMMA RecordsStep == ASSUME RInv, IInv, [Next]_vars PROVE RInv'
<1>1. CASE GameStarts \/ GameGoesOn
  BY <1>1, StartsRecords, GoesOnRecords
<1>2. CASE \E m \in Mems : Compact(m)
  BY <1>2, CompactStep
<1>3. CASE Drawing \/ LoadAnswered
  BY <1>3, PostRecords, ReadAnsweredStep DEF Drawing
<1>4. CASE Cacher
  BY <1>4, TakeListRecords, ReleaseRecords, TakeLoadedRecords, UndoStep, TakeCompleteStep
     DEF Cacher
<1>5. CASE Unpacker
  BY <1>5, JobRecords, GetRoomStep, DecompressStep, ReplaceStep, AnswerRecords DEF Unpacker
<1>6. CASE Stopped \/ UNCHANGED vars
  <2>1. UNCHANGED <<c, held, loads, jobs, unpacker, answers, cacher>> /\ main' = main
    BY <1>6 DEF Stopped, vars, clientVars, syncVars, workVars
  <2>2. MainAside
    BY <2>1 DEF MainAside
  <2> QED
    BY <2>1, <2>2, GameMoves
<1> QED
  BY <1>1, <1>2, <1>3, <1>4, <1>5, <1>6 DEF Next

\* The records, queues and threads of the cache agree in every reachable state.
THEOREM RecordsHold == Spec => []RInv
<1>1. RInv /\ IInv /\ [Next]_vars => RInv'
  BY RecordsStep
<1> QED
  BY <1>1, RecordsBegin, InvariantHolds, PTL DEF Spec

\* A resource is locked as often as the game, the pending requests and the
\* decompressor hold it: AddRef and the releases on every path balance.
THEOREM LocksAreBalanced == Spec => []LocksBalanced
<1>1. RInv => LocksBalanced
  <2> SUFFICES ASSUME RInv PROVE LocksBalanced
    OBVIOUS
  <2>1. \A m \in Mems : c.mem[m].locks = held[m] + Cardinality(Using(c, m))
                                         + (IF unpacker.mem = m THEN 1 ELSE 0)
    BY DEF RInv, Linked, LocksOf
  <2>2. \A m \in Mems :
          Using(c, m) = {e \in Entries : c.entry[e].place = "pending" /\ c.entry[e].mem = m}
    BY DEF Using, Pend
  <2> QED
    BY <2>1, <2>2 DEF LocksBalanced
<1> QED
  BY <1>1, RecordsHold, PTL

\* Table, entries and memory agree, and a pending entry is on its way in one
\* place only: whoever completes or withdraws it does so once.
THEOREM RecordsAlwaysAgree == Spec => []RecordsAgree
<1>1. RInv => RecordsAgree
  <2> SUFFICES ASSUME RInv PROVE RecordsAgree
    OBVIOUS
  <2>1. Agree(c) /\ Tokens(c) /\ \A e \in Entries : c.entry[e] # Reserved
    BY DEF RInv, Sound, Linked
  <2>2. \A e \in Entries : OnItsWay(e) = IF c.entry[e].place = "pending" THEN 1 ELSE 0
    BY <2>1 DEF Tokens, Pend
  <2>3. \A e \in Entries : c.entry[e].place = "used" => UsedOk(c, e)
    BY <2>1 DEF Agree
  <2>4. \A e \in Entries : c.entry[e].place = "used" =>
          /\ c.table[c.entry[e].key] = e /\ c.entry[e].mem \in Allocated(c)
          /\ c.mem[c.entry[e].mem].entry = e
    BY <2>3 DEF UsedOk
  <2>5. \A e \in Entries : /\ c.entry[e].place = "pending" <=> OnItsWay(e) = 1
                           /\ c.entry[e].place # "pending" => OnItsWay(e) = 0
    BY <2>2
  <2>6. \A m \in Allocated(c) : m \in Mems
    BY DEF Allocated
  <2> QED
    BY <2>1, <2>4, <2>5, <2>6 DEF RecordsAgree, Agree
<1> QED
  BY <1>1, RecordsHold, PTL

\* What is queued for the loader and the decompressor with the lock held is still
\* right when they do it without the lock: their memory has not been given away,
\* moved or overwritten.
THEOREM InFlightIsKept == Spec => []InFlightKept
<1>1. RInv => InFlightKept
  <2> SUFFICES ASSUME RInv PROVE InFlightKept
    OBVIOUS
  <2>1. /\ Pendings(c) /\ UnpackerMem(c) /\ LoadsOk(c) /\ JobsOk(c) /\ UnpackerOk(c) /\ MainOk(c)
        /\ None \notin Mems
    BY CacheSound DEF RInv, Linked
  <2>2. \A e \in Pend(c) : c.entry[e].mem # None => c.entry[e].mem \in Allocated(c)
    BY <2>1 DEF Pendings, PendingOk
  <2>3. ASSUME NEW e, NEW to, LoadOk(c, e, to) PROVE Waits(e, to, c.entry[e].key)
    BY <2>1, <2>2, <2>3 DEF LoadOk, Waits, Pend
  <2>4. ASSUME NEW e, JobOk(c, e) PROVE HasOriginal(e)
    BY <2>1, <2>2, <2>4 DEF JobOk, Origin, HasOriginal, Pend
  <2>5. \A i \in DOMAIN loads : Waits(loads[i].entry, loads[i].to, c.entry[loads[i].entry].key)
    BY <2>1, <2>3 DEF LoadsOk, LoadedOk
  <2>6. main.at = "load" => Waits(main.entry, main.to, main.key)
    <3> SUFFICES ASSUME main.at = "load" PROVE Waits(main.entry, main.to, main.key)
      OBVIOUS
    <3>1. LoadOk(c, main.entry, main.to) /\ c.entry[main.entry].key = main.key
      BY <2>1 DEF MainOk, Busy
    <3> QED
      BY <2>3, <3>1
  <2>7. \A i \in DOMAIN jobs : HasOriginal(jobs[i].entry)
    BY <2>1, <2>4 DEF JobsOk
  <2>8. unpacker.at \in {"alloc", "work", "replace"} => HasOriginal(unpacker.entry)
    BY <2>1, <2>4 DEF UnpackerOk
  <2>9. unpacker.at = "work" => unpacker.mem \in Allocated(c) /\ unpacker.mem # Job.mem
    <3> SUFFICES ASSUME unpacker.at = "work"
                 PROVE  unpacker.mem \in Allocated(c) /\ unpacker.mem # Job.mem
      OBVIOUS
    <3>1. unpacker.entry \in Pend(c)
      BY <2>1 DEF UnpackerOk, JobOk, Origin
    <3>2. unpacker.mem \in Allocated(c) /\ \A e \in Pend(c) : c.entry[e].mem # unpacker.mem
      BY <2>1 DEF UnpackerMem
    <3> QED
      BY <3>1, <3>2 DEF Job
  <2> QED
    BY <2>5, <2>6, <2>7, <2>8, <2>9 DEF InFlightKept
<1> QED
  BY <1>1, RecordsHold, PTL
=============================================================================
