------------------------------- MODULE CHeap -------------------------------
(***************************************************************************)
(* The heap of the game.  A block is a header and the data after it; the   *)
(* blocks form a list in address order (usedLast, usedNext), from a header *)
(* without data at the start of the memory.  Free memory follows a block   *)
(* and belongs to it; the blocks with free memory form a second list       *)
(* (freeLast, freeNext), also in address order.                            *)
(*                                                                         *)
(* Addresses and sizes are bytes.                                          *)
(***************************************************************************)
EXTENDS Integers, FiniteSets

CONSTANTS
  HeapSize,   \* bytes of the heap
  Header,     \* sizeof(CHeapBlock) (0x20)
  Grain,      \* granularity of sizes (0x10)
  Requests    \* sizes that are asked for

ASSUME HeapSound ==
  /\ Grain \in Nat \ {0} /\ Header \in Nat /\ Header > 0 /\ Header % Grain = 0
  /\ HeapSize \in Nat /\ HeapSize >= Header
  /\ Requests \subseteq Nat

Nil == -1
Top == HeapSize - (HeapSize % Grain)        \* the size is rounded down

VARIABLES
  head, tail,  \* freeHead, freeTail; usedHead is the header at 0
  block        \* CHeapBlock of each address, Gone where there is none

heapVars == <<head, tail, block>>

Heap == [head |-> head, tail |-> tail, block |-> block]

Addresses == {a \in 0 .. Top - 1 : a % Grain = 0}

Gone  == [used |-> 0, free |-> 0, usedLast |-> Nil, usedNext |-> Nil,
          freeLast |-> Nil, freeNext |-> Nil]
Fresh(used, free) == [Gone EXCEPT !.used = used, !.free = free]

\* CHeap__Construct
HeapInit ==
  /\ head = IF Top > Header THEN 0 ELSE Nil
  /\ tail = head
  /\ block = [a \in Addresses |-> IF a = 0 THEN Fresh(Header, Top - Header) ELSE Gone]

\* (request + Header + Grain - 1) & ~(Grain - 1)
Need(request) == ((request + Header + Grain - 1) \div Grain) * Grain

----------------------------------------------------------------------------
(* The two lists.  h is a heap; a link of Nil is left alone.               *)

SetLink(h, b, field, to) ==
  IF b = Nil THEN h ELSE [h EXCEPT !.block[b] = [@ EXCEPT ![field] = to]]

\* The block leaves the free list.
Unlink(h, b) ==
  LET r  == h.block[b]
      h1 == SetLink(h, r.freeLast, "freeNext", r.freeNext)
      h2 == SetLink(h1, r.freeNext, "freeLast", r.freeLast)
  IN  [h2 EXCEPT
         !.head = IF @ = b THEN r.freeNext ELSE @,
         !.tail = IF @ # b THEN @ ELSE IF r.freeNext # Nil THEN r.freeNext ELSE r.freeLast,
         !.block[b].freeLast = Nil, !.block[b].freeNext = Nil]

\* Mutant: the end of the list is not kept up.
LinkAfter_KeepsTail(h, b, new) ==
  LET next == h.block[b].freeNext
      h1   == SetLink(h, next, "freeLast", new)
  IN  [h1 EXCEPT !.block[new].freeLast = b, !.block[new].freeNext = next,
                 !.block[b].freeNext = new]

\* The new block goes after b on the free list.
LinkAfter(h, b, new) ==
  LET next == h.block[b].freeNext
      h1   == SetLink(h, next, "freeLast", new)
  IN  [h1 EXCEPT !.block[new].freeLast = b, !.block[new].freeNext = next,
                 !.block[b].freeNext = new,
                 !.tail = IF @ = b THEN new ELSE @]

LinkFirst(h, new) ==
  LET h1 == SetLink(h, h.head, "freeLast", new)
  IN  [h1 EXCEPT !.block[new].freeNext = h.head,
                 !.tail = IF h.head = Nil THEN new ELSE @, !.head = new]

\* The new block goes after b in address order.
Follow(h, b, new) ==
  LET next == h.block[b].usedNext
      h1   == SetLink(h, next, "usedLast", new)
  IN  [h1 EXCEPT !.block[new].usedLast = b, !.block[new].usedNext = next,
                 !.block[b].usedNext = new]

\* The first block from b on along a list that is one of S, Nil past the end.
Search(h, b, field, S) ==
  LET first[i \in Addresses \cup {Nil}] ==
        IF i = Nil \/ i \in S THEN i ELSE first[h.block[i][field]]
  IN  first[b]

----------------------------------------------------------------------------
(* Allocation                                                              *)

\* CHeap__Alloc: the first block whose free memory has room; the new block
\* takes its start and inherits the rest.
AllocIn(h, b, need) ==
  LET new == b + h.block[b].used
      h1  == [h EXCEPT !.block[new] = Fresh(need, h.block[b].free - need)]
      h2  == IF h1.block[new].free # 0 THEN LinkAfter(h1, b, new) ELSE h1
      h3  == Unlink([h2 EXCEPT !.block[b].free = 0], b)
  IN  Follow(h3, b, new)

\* Mutant: the free memory does not get shorter.
AllocTopIn_KeepsFree(h, b, need) ==
  LET new == b + h.block[b].used + h.block[b].free - need
  IN  Follow([h EXCEPT !.block[new] = Fresh(need, 0)], b, new)

\* CHeap__AllocTop: the last block whose free memory has room; the new block
\* takes its end.
AllocTopIn(h, b, need) ==
  LET new == b + h.block[b].used + h.block[b].free - need
      h1  == [h EXCEPT !.block[new] = Fresh(need, 0), !.block[b].free = @ - need]
      h2  == IF h1.block[b].free = 0 THEN Unlink(h1, b) ELSE h1
  IN  Follow(h2, b, new)

\* CHeap__AllocAt: a block at an address, in the free memory of b.
AllocAtIn(h, b, new, need) ==
  LET lo  == b + h.block[b].used
      end == lo + h.block[b].free
      h1  == [h EXCEPT !.block[new] = Fresh(need, end - (new + need))]
      h2  == IF h1.block[new].free # 0 THEN LinkAfter(h1, b, new) ELSE h1
      h3  == [h2 EXCEPT !.block[b].free = new - lo]
      h4  == IF h3.block[b].free = 0 THEN Unlink(h3, b) ELSE h3
  IN  Follow(h4, b, new)

Becomes(h) == head' = h.head /\ tail' = h.tail /\ block' = h.block

HaveRoom(need) == {b \in Addresses : block[b].free >= need}

FirstWithRoom(need) == Search(Heap, head, "freeNext", HaveRoom(need))
LastWithRoom(need)  == Search(Heap, tail, "freeLast", HaveRoom(need))

\* The block whose free memory has the block at new: only the last on the free
\* list before the data is tried.
BlockAround(new, need) ==
  LET before == {b \in Addresses : block[b].freeNext = Nil
                                   \/ block[b].freeNext >= new + Header}
      b  == Search(Heap, head, "freeNext", before)
      lo == b + block[b].used
  IN  IF b # Nil /\ new >= lo /\ lo + block[b].free >= new + need THEN b ELSE Nil

\* Nothing is given, and nothing changes, when there is no such block.
Alloc(request) ==
  LET b == FirstWithRoom(Need(request))
  IN  Becomes(IF b = Nil THEN Heap ELSE AllocIn(Heap, b, Need(request)))

AllocTop(request) ==
  LET b == LastWithRoom(Need(request))
  IN  Becomes(IF b = Nil THEN Heap ELSE AllocTopIn(Heap, b, Need(request)))

AllocAt(new, request) ==
  LET b == BlockAround(new, Need(request))
  IN  Becomes(IF b = Nil THEN Heap ELSE AllocAtIn(Heap, b, new, Need(request)))

----------------------------------------------------------------------------
(* Freeing                                                                 *)

\* CHeap__Free: the block before gets the memory.  When it had none it comes on
\* the free list, after the freed block's predecessor there, or after the
\* nearest block below with free memory.
FreeIn(h, b) ==
  LET r    == h.block[b]
      last == r.usedLast
      near == IF r.freeLast # Nil THEN r.freeLast
              ELSE Search(h, last, "usedLast", {i \in Addresses : h.block[i].free # 0})
      h1 == IF h.block[last].free # 0 THEN h
            ELSE IF near # Nil THEN LinkAfter(h, near, last) ELSE LinkFirst(h, last)
      h2 == [h1 EXCEPT !.block[last].free = @ + r.used + r.free]
      h3 == SetLink(SetLink(h2, r.usedNext, "usedLast", last), last, "usedNext", r.usedNext)
      s  == h3.block[b]
      h4 == IF s.free = 0 THEN h3
            ELSE [SetLink(SetLink(h3, s.freeLast, "freeNext", s.freeNext),
                          s.freeNext, "freeLast", s.freeLast)
                    EXCEPT !.tail = IF @ = b THEN s.freeLast ELSE @]
  IN  [h4 EXCEPT !.block[b] = Gone]

Used == {a \in Addresses : a # 0 /\ block[a].used # 0}

Free(b) == b \in Used /\ Becomes(FreeIn(Heap, b))

\* CHeap__FreeAll frees the block after the first until there is none.
FreeFirst(h) ==
  IF h.block[0].usedNext = Nil THEN h ELSE FreeIn(h, h.block[0].usedNext)

FreeAllIn ==
  LET freed[n \in 0 .. Cardinality(Used)] ==
        IF n = 0 THEN Heap ELSE FreeFirst(freed[n - 1])
  IN  freed[Cardinality(Used)]

FreeAll == Becomes(FreeAllIn)

HeapNext ==
  \/ \E n \in Requests : Alloc(n) \/ AllocTop(n)
  \/ \E n \in Requests, a \in Addresses : AllocAt(a, n)
  \/ \E b \in Addresses : Free(b)
  \/ FreeAll

HeapSpec == HeapInit /\ [][HeapNext]_heapVars

----------------------------------------------------------------------------
(* Properties                                                              *)

\* What the heap promises: see Arena.
pieces == {[at |-> b, size |-> block[b].used] : b \in Used}

Memory == INSTANCE Arena WITH Low <- Header, Size <- Top

\* Blocks never overlap; allocation is first fit from either end, and freeing a
\* block gives back just that block, whatever came before.
ImplementsArena == Memory!Spec

\* The heap refuses a request only when no gap has room for it: free memory is
\* on the list, from either end, and merged with its neighbours.
GapsFound ==
  \A n \in Requests :
    LET gaps == {a \in Addresses : Memory!Fits(a, Need(n))} IN
    /\ FirstWithRoom(Need(n)) # Nil <=> gaps # {}
    /\ LastWithRoom(Need(n)) # Nil <=> gaps # {}
    /\ \A a \in Addresses : BlockAround(a, Need(n)) # Nil <=> a \in gaps
=============================================================================
