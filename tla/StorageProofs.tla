--------------------------- MODULE StorageProofs ---------------------------
(* The heap and the hash table of the cache, of any size.                  *)
(*                                                                         *)
(* The heap: its two lists are described by "the next in address order",   *)
(* which does not need the chain; HeapOK says that and that blocks fill    *)
(* the memory.  AllocIn and AllocTopIn are shown to be AllocAtIn at an     *)
(* address, and every step to be one of the arena.                         *)
(*                                                                         *)
(* The table: links fall in a rank along each chain, so that a search      *)
(* ends, and each key is in one slot; TableInv says that.                  *)
(*                                                                         *)
(* Both searches are recursive functions: what they return is proved by    *)
(* induction on the rank, which a set of numbers and its least member give *)
(* (Upwards, Walk).                                                        *)
EXTENDS CHeap, CHashTable, FiniteSetTheorems, WellFoundedInduction, TLAPS

-----------------------------------------------------------------------------
(* Induction over numbers, for sets of them.                               *)

\* Numbers do not descend for ever.
LEMMA NoDescent ==
  LET less == {p \in Nat \X Nat : p[1] < p[2]} IN IsWellFoundedOn(less, Nat)
<1> DEFINE less == {p \in Nat \X Nat : p[1] < p[2]}
<1>1. less = OpToRel(<, Nat)
  BY DEF OpToRel
<1>2. IsWellFoundedOn(OpToRel(<, Nat), Nat)
  BY NatLessThanWellFounded
<1> QED
  BY <1>1, <1>2

\* A set of numbers has a least member.
LEMMA LeastOf ==
  ASSUME NEW S, S \subseteq Nat, S # {}
  PROVE  \E n \in S : \A m \in S : n <= m
<1> DEFINE less == {p \in Nat \X Nat : p[1] < p[2]}
<1>1. IsWellFoundedOn(less, Nat)
  BY NoDescent
<1>2. PICK x \in S : \A y \in S : <<y, x>> \notin less
  <2> HIDE DEF less
  <2> QED
    BY <1>1, WFMin
<1>3. \A y \in S : ~(y < x)
  BY <1>2
<1> QED
  BY <1>3

\* What holds of 0, and of n + 1 when of n, holds of every number.
LEMMA Upwards ==
  ASSUME NEW S, 0 \in S, \A n \in Nat : n \in S => n + 1 \in S
  PROVE  \A n \in Nat : n \in S
<1> SUFFICES ASSUME Nat \ S # {} PROVE FALSE
  OBVIOUS
<1>1. PICK n \in Nat \ S : \A m \in Nat \ S : n <= m
  BY LeastOf
<1>2. n # 0 /\ n - 1 \in Nat
  BY <1>1
<1>3. n - 1 \in S
  BY <1>1, <1>2
<1> QED
  BY <1>1, <1>2, <1>3

\* A function that follows links until it meets a member of S, where every link
\* leads to a lower rank.
Walks(f, D, S, to) == f = [i \in D |-> IF i \in S THEN i ELSE f[to[i]]]

\* Such a function exists.
LEMMA Walk ==
  ASSUME NEW D, NEW S, NEW to, NEW rank \in [D -> Nat], NEW top \in Nat,
         \A i \in D : rank[i] <= top,
         \A i \in D : i \notin S => to[i] \in D /\ rank[to[i]] < rank[i]
  PROVE  \E f : Walks(f, D, S, to)
<1> DEFINE Def(g) == [j \in D |-> IF j \in S THEN j ELSE g[to[j]]]
           Good(g, n) == \A j \in D : rank[j] < n => g[j] = IF j \in S THEN j ELSE g[to[j]]
           P == {n \in Nat : \E g : Good(g, n)}
<1>1. \A i \in D : rank[i] \in Nat
  OBVIOUS
<1>2. 0 \in P
  BY <1>1
<1>3. ASSUME NEW n \in Nat, n \in P PROVE n + 1 \in P
  <2>1. PICK g : Good(g, n)
    BY <1>3
  <2> DEFINE e == Def(g)
  <2>2. ASSUME NEW j \in D, rank[j] < n PROVE e[j] = g[j]
    BY <2>1, <2>2
  <2>3. ASSUME NEW j \in D, rank[j] < n + 1
        PROVE  e[j] = IF j \in S THEN j ELSE e[to[j]]
    <3>1. CASE j \in S
      BY <3>1
    <3>2. CASE j \notin S
      <4>1. e[j] = g[to[j]]
        BY <3>2
      <4>2. to[j] \in D /\ rank[to[j]] < n
        BY <1>1, <2>3, <3>2
      <4>3. e[to[j]] = g[to[j]]
        BY <2>2, <4>2
      <4> QED
        BY <3>2, <4>1, <4>3
    <3> QED
      BY <3>1, <3>2
  <2> HIDE DEF e
  <2>4. Good(e, n + 1)
    BY <2>3
  <2> HIDE DEF Good
  <2> QED
    BY <2>4
<1>4. top + 1 \in P
  <2> HIDE DEF P
  <2> QED
    BY <1>2, <1>3, Upwards
<1>5. PICK g : Good(g, top + 1)
  BY <1>4
<1>6. \A j \in D : g[j] = IF j \in S THEN j ELSE g[to[j]]
  BY <1>1, <1>5
<1> DEFINE e == Def(g)
<1>7. \A j \in D : e[j] = g[j]
  BY <1>6
<1>8. e = [j \in D |-> IF j \in S THEN j ELSE e[to[j]]]
  BY <1>7
<1> QED
  BY <1>8 DEF Walks

-----------------------------------------------------------------------------
(* The heap's lists                                                        *)

\* Sums and differences of whole grains.
LEMMA WholeSum ==
  ASSUME NEW a \in Nat, NEW b \in Nat, a % Grain = 0, b % Grain = 0
  PROVE  (a + b) % Grain = 0 /\ (a >= b => (a - b) % Grain = 0)
<1>1. Grain \in Nat \ {0}
  BY HeapSound
<1>2. a = Grain * (a \div Grain) /\ b = Grain * (b \div Grain) /\ a \div Grain \in Int /\ b \div Grain \in Int
  BY <1>1
<1>3. \A k \in Int : (Grain * k) % Grain = 0
  BY <1>1
<1>4. a + b = Grain * ((a \div Grain) + (b \div Grain)) /\ a - b = Grain * ((a \div Grain) - (b \div Grain))
  BY <1>1, <1>2
<1> QED
  BY <1>2, <1>3, <1>4

\* CHeap__Construct rounds the size down to whole grains, and requests up.
LEMMA HeapFacts ==
  /\ Header \in Nat /\ Header > 0 /\ Header % Grain = 0
  /\ Top \in Nat /\ Top >= Header /\ Top % Grain = 0
  /\ Addresses = {a \in Nat : a < Top /\ a % Grain = 0}
  /\ 0 \in Addresses /\ Nil \notin Addresses /\ Nil = -1
  /\ \A n \in Requests : Need(n) \in Nat /\ Need(n) >= Header /\ Need(n) % Grain = 0
<1>1. Grain \in Nat \ {0} /\ Header \in Nat /\ Header > 0 /\ Header % Grain = 0
      /\ HeapSize \in Nat /\ HeapSize >= Header /\ Requests \subseteq Nat
  BY HeapSound
<1>2. \A k \in Int : (Grain * k) % Grain = 0
  BY <1>1
<1>3. Top = Grain * (HeapSize \div Grain) /\ HeapSize \div Grain \in Int
  BY <1>1 DEF Top
<1>4. Top \in Int /\ Top <= HeapSize /\ HeapSize < Top + Grain /\ Top % Grain = 0
  BY <1>1, <1>2, <1>3 DEF Top
<1>5. Top >= Header
  <2> DEFINE q == HeapSize \div Grain
             k == Header \div Grain
  <2>1. Header = Grain * k /\ k \in Int /\ q \in Int /\ Top = Grain * q
    BY <1>1, <1>3
  <2>2. Grain * k < Grain * q + Grain
    BY <1>1, <1>4, <2>1
  <2>3. k < q + 1
    <3> HIDE DEF q, k
    <3> SUFFICES ASSUME k >= q + 1 PROVE FALSE
      BY <2>1
    <3>1. Grain * k >= Grain * (q + 1)
      BY <1>1, <2>1
    <3> QED
      BY <1>1, <2>1, <2>2, <3>1
  <2> HIDE DEF q, k
  <2>4. Grain * k <= Grain * q
    BY <1>1, <2>1, <2>3
  <2> QED
    BY <1>1, <2>1, <2>4
<1>6. Addresses = {a \in Nat : a < Top /\ a % Grain = 0}
  BY <1>4 DEF Addresses
<1>7. 0 \in Addresses /\ Nil = -1 /\ Nil \notin Addresses
  BY <1>1, <1>4, <1>5, <1>6 DEF Nil
<1>8. ASSUME NEW n \in Requests PROVE Need(n) \in Nat /\ Need(n) >= Header /\ Need(n) % Grain = 0
  <2> DEFINE x == n + Header + Grain - 1
             q == x \div Grain
  <2>1. x \in Nat /\ q \in Int /\ x = Grain * q + (x % Grain) /\ x % Grain \in 0 .. Grain - 1
    <3>1. x \in Nat
      BY <1>1
    <3> HIDE DEF x
    <3> QED
      BY <1>1, <3>1
  <2>2. Need(n) = q * Grain
    BY DEF Need
  <2> HIDE DEF q
  <2> QED
    BY <1>1, <1>2, <2>1, <2>2
<1> QED
  BY <1>1, <1>4, <1>5, <1>6, <1>7, <1>8

\* n is what comes after a in S, in order, or Nil; l what comes before it.
IsNext(S, a, n) ==
  IF n = Nil THEN \A x \in S : x <= a
  ELSE n \in S /\ n > a /\ \A x \in S : x > a => x >= n

IsLast(S, a, l) ==
  IF l = Nil THEN \A x \in S : x >= a
  ELSE l \in S /\ l < a /\ \A x \in S : x < a => x <= l

\* A new member, after the last one below it or before all.
LEMMA SetAdd ==
  ASSUME NEW S, S \subseteq Nat, NEW b \in S, NEW new \in Nat, b < new, new < Top,
         \A x \in S : x > b => x > new, NEW next \in Int, IsNext(S, b, next)
  PROVE  LET T == S \cup {new} IN
         /\ IsNext(T, new, next) /\ IsLast(T, new, b)
         /\ \A a \in S \cup {Nil}, n \in Int : IsNext(S, a, n) => IsNext(T, a, IF a = b THEN new ELSE n)
         /\ \A a \in S \cup {Top}, l \in Int : IsLast(S, a, l) => IsLast(T, a, IF l = b THEN new ELSE l)
<1>1. Top \in Nat /\ Nil = -1 /\ Nil \notin S /\ new # Nil
  BY HeapFacts
<1> DEFINE T == S \cup {new}
<1>2. IsNext(T, new, next)
  BY <1>1 DEF IsNext
<1>3. IsLast(T, new, b)
  BY <1>1 DEF IsLast
<1>4. ASSUME NEW a \in S \cup {Nil}, NEW n \in Int, IsNext(S, a, n)
      PROVE  IsNext(T, a, IF a = b THEN new ELSE n)
  BY <1>1, <1>4 DEF IsNext
<1>5. ASSUME NEW a \in S \cup {Top}, NEW l \in Int, IsLast(S, a, l)
      PROVE  IsLast(T, a, IF l = b THEN new ELSE l)
  BY <1>1, <1>5 DEF IsLast
<1> QED
  BY <1>2, <1>3, <1>4, <1>5

\* A new member below all others.
LEMMA SetFirst ==
  ASSUME NEW S, S \subseteq Nat, NEW new \in Nat, new < Top, \A x \in S : x > new,
         NEW first \in Int, IsNext(S, Nil, first)
  PROVE  LET T == S \cup {new} IN
         /\ IsNext(T, Nil, new) /\ IsNext(T, new, first) /\ IsLast(T, new, Nil)
         /\ \A a \in S, n \in Int : IsNext(S, a, n) => IsNext(T, a, n)
         /\ \A a \in S \cup {Top}, l \in Int : IsLast(S, a, l) => IsLast(T, a, IF l = Nil THEN new ELSE l)
<1>1. Top \in Nat /\ Nil = -1 /\ Nil \notin S /\ new # Nil
  BY HeapFacts
<1> DEFINE T == S \cup {new}
<1>2. IsNext(T, Nil, new) /\ IsNext(T, new, first)
  BY <1>1 DEF IsNext
<1>3. IsLast(T, new, Nil)
  BY <1>1 DEF IsLast
<1>4. ASSUME NEW a \in S, NEW n \in Int, IsNext(S, a, n) PROVE IsNext(T, a, n)
  BY <1>1, <1>4 DEF IsNext
<1>5. ASSUME NEW a \in S \cup {Top}, NEW l \in Int, IsLast(S, a, l)
      PROVE  IsLast(T, a, IF l = Nil THEN new ELSE l)
  BY <1>1, <1>5 DEF IsLast
<1> QED
  BY <1>2, <1>3, <1>4, <1>5

\* A member goes.
LEMMA SetDrop ==
  ASSUME NEW S, S \subseteq Nat, NEW b \in S, NEW next \in Int, NEW last \in Int, IsNext(S, b, next), IsLast(S, b, last)
  PROVE  LET T == S \ {b} IN
         /\ \A a \in T \cup {Nil}, n \in Int : IsNext(S, a, n) => IsNext(T, a, IF n = b THEN next ELSE n)
         /\ \A a \in T \cup {Top}, l \in Int : IsLast(S, a, l) => IsLast(T, a, IF l = b THEN last ELSE l)
<1>1. Top \in Nat /\ Nil = -1 /\ Nil \notin S
  BY HeapFacts
<1> DEFINE T == S \ {b}
<1>4. ASSUME NEW a \in T \cup {Nil}, NEW n \in Int, IsNext(S, a, n)
      PROVE  IsNext(T, a, IF n = b THEN next ELSE n)
  BY <1>1, <1>4 DEF IsNext
<1>5. ASSUME NEW a \in T \cup {Top}, NEW l \in Int, IsLast(S, a, l)
      PROVE  IsLast(T, a, IF l = b THEN last ELSE l)
  BY <1>1, <1>5 DEF IsLast
<1> QED
  BY <1>4, <1>5

\* Who comes after whom.
LEMMA Mutual ==
  ASSUME NEW S, S \subseteq Nat, NEW a \in S, NEW b \in S, NEW n \in Int, NEW l \in Int, IsNext(S, a, n), IsLast(S, b, l)
  PROVE  n = b <=> l = a
BY HeapFacts DEF IsNext, IsLast

\* There is one next member.
LEMMA OneNext ==
  ASSUME NEW S, S \subseteq Nat, NEW a \in Int, NEW m \in Int, NEW n \in Int, IsNext(S, a, m), IsNext(S, a, n)
  PROVE  m = n
BY HeapFacts DEF IsNext

-----------------------------------------------------------------------------
(* What the operations on lists do                                         *)

Links  == Addresses \cup {Nil}
Blocks == [used : Nat, free : Nat, usedLast : Links, usedNext : Links,
           freeLast : Links, freeNext : Links]
Heaps  == [head : Links, tail : Links, block : [Addresses -> Blocks]]

InUse(h)   == {a \in Addresses : h.block[a].used # 0}
HasFree(h) == {a \in Addresses : h.block[a].free # 0}

\* g differs from h in the links of one list.
SameSizes(g, h) ==
  \A a \in Addresses : g.block[a].used = h.block[a].used /\ g.block[a].free = h.block[a].free
SameUsedLinks(g, h) ==
  \A a \in Addresses : g.block[a].usedLast = h.block[a].usedLast /\ g.block[a].usedNext = h.block[a].usedNext
SameFreeLinks(g, h) ==
  /\ g.head = h.head /\ g.tail = h.tail
  /\ \A a \in Addresses : g.block[a].freeLast = h.block[a].freeLast /\ g.block[a].freeNext = h.block[a].freeNext

FreeList(h, S) ==
  /\ IsNext(S, Nil, h.head) /\ IsLast(S, Top, h.tail)
  /\ \A a \in S : IsNext(S, a, h.block[a].freeNext) /\ IsLast(S, a, h.block[a].freeLast)

UsedList(h, S) ==
  \A a \in S : IsNext(S, a, h.block[a].usedNext) /\ IsLast(S, a, h.block[a].usedLast)

\* g is h with one field of one block, or one end of the list, changed.
FreeNextSet(g, h, b, to) ==
  /\ g \in Heaps /\ g.head = h.head /\ g.tail = h.tail /\ SameSizes(g, h) /\ SameUsedLinks(g, h)
  /\ \A a \in Addresses : /\ g.block[a].freeLast = h.block[a].freeLast
                          /\ g.block[a].freeNext = IF a = b THEN to ELSE h.block[a].freeNext
FreeLastSet(g, h, b, to) ==
  /\ g \in Heaps /\ g.head = h.head /\ g.tail = h.tail /\ SameSizes(g, h) /\ SameUsedLinks(g, h)
  /\ \A a \in Addresses : /\ g.block[a].freeNext = h.block[a].freeNext
                          /\ g.block[a].freeLast = IF a = b THEN to ELSE h.block[a].freeLast
UsedNextSet(g, h, b, to) ==
  /\ g \in Heaps /\ SameSizes(g, h) /\ SameFreeLinks(g, h)
  /\ \A a \in Addresses : /\ g.block[a].usedLast = h.block[a].usedLast
                          /\ g.block[a].usedNext = IF a = b THEN to ELSE h.block[a].usedNext
UsedLastSet(g, h, b, to) ==
  /\ g \in Heaps /\ SameSizes(g, h) /\ SameFreeLinks(g, h)
  /\ \A a \in Addresses : /\ g.block[a].usedNext = h.block[a].usedNext
                          /\ g.block[a].usedLast = IF a = b THEN to ELSE h.block[a].usedLast
FreeSet(g, h, b, n) ==
  /\ g \in Heaps /\ SameUsedLinks(g, h) /\ SameFreeLinks(g, h)
  /\ \A a \in Addresses : /\ g.block[a].used = h.block[a].used
                          /\ g.block[a].free = IF a = b THEN n ELSE h.block[a].free
BlockSet(g, h, b, r) ==
  /\ g \in Heaps /\ g.head = h.head /\ g.tail = h.tail
  /\ \A a \in Addresses : g.block[a] = IF a = b THEN r ELSE h.block[a]
EndsSet(g, h, f, t) == g \in Heaps /\ g.head = f /\ g.tail = t /\ g.block = h.block

\* What setting one link of one block changes: the link to the next on the free list.
LEMMA SetFreeNext ==
  ASSUME NEW h \in Heaps, NEW b \in Links, NEW to \in Links, NEW g, g = SetLink(h, b, "freeNext", to)
  PROVE  FreeNextSet(g, h, b, to)
<1>1. CASE b = Nil
  <2>1. g = h
    BY <1>1 DEF SetLink
  <2> QED
    BY <1>1, <2>1, HeapFacts DEF FreeNextSet, SameSizes, SameUsedLinks
<1>2. CASE b # Nil
  <2> DEFINE r == [h.block[b] EXCEPT !.freeNext = to]
  <2>1. g = [h EXCEPT !.block[b] = r] /\ b \in Addresses
    BY <1>2 DEF SetLink, Links, Heaps
  <2>2. h.block[b] \in Blocks
    BY <2>1 DEF Heaps
  <2>3. /\ r \in Blocks /\ r.used = h.block[b].used /\ r.free = h.block[b].free
        /\ r.usedLast = h.block[b].usedLast /\ r.usedNext = h.block[b].usedNext
        /\ r.freeLast = h.block[b].freeLast /\ r.freeNext = to
    BY <2>2 DEF Blocks
  <2> HIDE DEF r
  <2>4. /\ g \in Heaps /\ g.head = h.head /\ g.tail = h.tail
        /\ \A a \in Addresses : g.block[a] = IF a = b THEN r ELSE h.block[a]
    BY <2>1, <2>3 DEF Heaps
  <2> QED
    BY <2>3, <2>4 DEF FreeNextSet, SameSizes, SameUsedLinks
<1> QED
  BY <1>1, <1>2

\* The same for the link back on the free list.
LEMMA SetFreeLast ==
  ASSUME NEW h \in Heaps, NEW b \in Links, NEW to \in Links, NEW g, g = SetLink(h, b, "freeLast", to)
  PROVE  FreeLastSet(g, h, b, to)
<1>1. CASE b = Nil
  <2>1. g = h
    BY <1>1 DEF SetLink
  <2> QED
    BY <1>1, <2>1, HeapFacts DEF FreeLastSet, SameSizes, SameUsedLinks
<1>2. CASE b # Nil
  <2> DEFINE r == [h.block[b] EXCEPT !.freeLast = to]
  <2>1. g = [h EXCEPT !.block[b] = r] /\ b \in Addresses
    BY <1>2 DEF SetLink, Links, Heaps
  <2>2. h.block[b] \in Blocks
    BY <2>1 DEF Heaps
  <2>3. /\ r \in Blocks /\ r.used = h.block[b].used /\ r.free = h.block[b].free
        /\ r.usedLast = h.block[b].usedLast /\ r.usedNext = h.block[b].usedNext
        /\ r.freeNext = h.block[b].freeNext /\ r.freeLast = to
    BY <2>2 DEF Blocks
  <2> HIDE DEF r
  <2>4. /\ g \in Heaps /\ g.head = h.head /\ g.tail = h.tail
        /\ \A a \in Addresses : g.block[a] = IF a = b THEN r ELSE h.block[a]
    BY <2>1, <2>3 DEF Heaps
  <2> QED
    BY <2>3, <2>4 DEF FreeLastSet, SameSizes, SameUsedLinks
<1> QED
  BY <1>1, <1>2

\* The same for the link on the list of blocks.
LEMMA SetUsedNext ==
  ASSUME NEW h \in Heaps, NEW b \in Links, NEW to \in Links, NEW g, g = SetLink(h, b, "usedNext", to)
  PROVE  UsedNextSet(g, h, b, to)
<1>1. CASE b = Nil
  <2>1. g = h
    BY <1>1 DEF SetLink
  <2> QED
    BY <1>1, <2>1, HeapFacts DEF UsedNextSet, SameSizes, SameFreeLinks
<1>2. CASE b # Nil
  <2> DEFINE r == [h.block[b] EXCEPT !.usedNext = to]
  <2>1. g = [h EXCEPT !.block[b] = r] /\ b \in Addresses
    BY <1>2 DEF SetLink, Links, Heaps
  <2>2. h.block[b] \in Blocks
    BY <2>1 DEF Heaps
  <2>3. /\ r \in Blocks /\ r.used = h.block[b].used /\ r.free = h.block[b].free
        /\ r.freeLast = h.block[b].freeLast /\ r.freeNext = h.block[b].freeNext
        /\ r.usedLast = h.block[b].usedLast /\ r.usedNext = to
    BY <2>2 DEF Blocks
  <2> HIDE DEF r
  <2>4. /\ g \in Heaps /\ g.head = h.head /\ g.tail = h.tail
        /\ \A a \in Addresses : g.block[a] = IF a = b THEN r ELSE h.block[a]
    BY <2>1, <2>3 DEF Heaps
  <2> QED
    BY <2>3, <2>4 DEF UsedNextSet, SameSizes, SameFreeLinks
<1> QED
  BY <1>1, <1>2

\* The same for its link back.
LEMMA SetUsedLast ==
  ASSUME NEW h \in Heaps, NEW b \in Links, NEW to \in Links, NEW g, g = SetLink(h, b, "usedLast", to)
  PROVE  UsedLastSet(g, h, b, to)
<1>1. CASE b = Nil
  <2>1. g = h
    BY <1>1 DEF SetLink
  <2> QED
    BY <1>1, <2>1, HeapFacts DEF UsedLastSet, SameSizes, SameFreeLinks
<1>2. CASE b # Nil
  <2> DEFINE r == [h.block[b] EXCEPT !.usedLast = to]
  <2>1. g = [h EXCEPT !.block[b] = r] /\ b \in Addresses
    BY <1>2 DEF SetLink, Links, Heaps
  <2>2. h.block[b] \in Blocks
    BY <2>1 DEF Heaps
  <2>3. /\ r \in Blocks /\ r.used = h.block[b].used /\ r.free = h.block[b].free
        /\ r.freeLast = h.block[b].freeLast /\ r.freeNext = h.block[b].freeNext
        /\ r.usedNext = h.block[b].usedNext /\ r.usedLast = to
    BY <2>2 DEF Blocks
  <2> HIDE DEF r
  <2>4. /\ g \in Heaps /\ g.head = h.head /\ g.tail = h.tail
        /\ \A a \in Addresses : g.block[a] = IF a = b THEN r ELSE h.block[a]
    BY <2>1, <2>3 DEF Heaps
  <2> QED
    BY <2>3, <2>4 DEF UsedLastSet, SameSizes, SameFreeLinks
<1> QED
  BY <1>1, <1>2

\* One block gets another size.
LEMMA SetFree ==
  ASSUME NEW h \in Heaps, NEW b \in Addresses, NEW n \in Nat, NEW g, g = [h EXCEPT !.block[b].free = n]
  PROVE  FreeSet(g, h, b, n)
<1> DEFINE r == [h.block[b] EXCEPT !.free = n]
<1>1. g = [h EXCEPT !.block[b] = r]
  BY DEF Heaps
<1>2. h.block[b] \in Blocks
  BY DEF Heaps
<1>3. /\ r \in Blocks /\ r.used = h.block[b].used /\ r.free = n
      /\ r.usedLast = h.block[b].usedLast /\ r.usedNext = h.block[b].usedNext
      /\ r.freeLast = h.block[b].freeLast /\ r.freeNext = h.block[b].freeNext
  BY <1>2 DEF Blocks
<1> HIDE DEF r
<1>4. /\ g \in Heaps /\ g.head = h.head /\ g.tail = h.tail
      /\ \A a \in Addresses : g.block[a] = IF a = b THEN r ELSE h.block[a]
  BY <1>1, <1>3 DEF Heaps
<1> QED
  BY <1>3, <1>4 DEF FreeSet, SameUsedLinks, SameFreeLinks

\* A block comes or goes.
LEMMA SetBlock ==
  ASSUME NEW h \in Heaps, NEW b \in Addresses, NEW r \in Blocks, NEW g, g = [h EXCEPT !.block[b] = r]
  PROVE  BlockSet(g, h, b, r)
BY DEF Heaps, BlockSet

\* A block that is written as a whole has the type of a block.
LEMMA NewBlocks ==
  /\ Gone \in Blocks /\ Gone.used = 0 /\ Gone.free = 0
  /\ Gone.usedLast = Nil /\ Gone.usedNext = Nil /\ Gone.freeLast = Nil /\ Gone.freeNext = Nil
  /\ \A n, m \in Nat : LET r == Fresh(n, m) IN
       /\ r \in Blocks /\ r.used = n /\ r.free = m
       /\ r.usedLast = Nil /\ r.usedNext = Nil /\ r.freeLast = Nil /\ r.freeNext = Nil
BY DEF Gone, Fresh, Blocks, Links

\* The head of the free list is the only thing that changes.
LEMMA SetHead ==
  ASSUME NEW h \in Heaps, NEW f \in Links, NEW g, g = [h EXCEPT !.head = f]
  PROVE  EndsSet(g, h, f, h.tail)
BY DEF Heaps, EndsSet

\* Its tail is the only thing that changes.
LEMMA SetTail ==
  ASSUME NEW h \in Heaps, NEW t \in Links, NEW g, g = [h EXCEPT !.tail = t]
  PROVE  EndsSet(g, h, h.head, t)
BY DEF Heaps, EndsSet

\* Linking after a block keeps the free list in order.
LEMMA LinkAfterList ==
  ASSUME NEW h \in Heaps, NEW S, S \subseteq Addresses, FreeList(h, S), NEW b \in S,
         NEW new \in Addresses, new \notin S, b < new, \A x \in S : x > b => x > new,
         NEW g, g = LinkAfter(h, b, new)
  PROVE  /\ g \in Heaps /\ SameSizes(g, h) /\ SameUsedLinks(g, h) /\ FreeList(g, S \cup {new})
         /\ \A a \in Addresses \ (S \cup {new}) : /\ g.block[a].freeLast = h.block[a].freeLast
                                                  /\ g.block[a].freeNext = h.block[a].freeNext
<1> DEFINE next == h.block[b].freeNext
           h1 == SetLink(h, next, "freeLast", new)
           r1 == [[h1.block[new] EXCEPT !.freeLast = b] EXCEPT !.freeNext = next]
           r2 == [h1.block[b] EXCEPT !.freeNext = new]
           t  == IF h1.tail = b THEN new ELSE h1.tail
<1>1. b \in Addresses /\ b # new /\ next \in Links /\ new \in Links /\ b \in Links
      /\ S \subseteq Nat /\ new \in Nat /\ new < Top /\ \A x \in Links : x \in Int
  BY HeapFacts DEF Heaps, Blocks, Links
<1>2. /\ h1 \in Heaps /\ h1.head = h.head /\ h1.tail = h.tail /\ SameSizes(h1, h) /\ SameUsedLinks(h1, h)
      /\ \A a \in Addresses : /\ h1.block[a].freeNext = h.block[a].freeNext
                              /\ h1.block[a].freeLast = IF a = next THEN new ELSE h.block[a].freeLast
  <2>1. h1 = SetLink(h, next, "freeLast", new)
    OBVIOUS
  <2> HIDE DEF next, h1
  <2>2. FreeLastSet(h1, h, next, new)
    BY <1>1, <2>1, SetFreeLast
  <2> QED
    BY <2>2 DEF FreeLastSet
<1>3. g = [h1 EXCEPT !.block[new].freeLast = b, !.block[new].freeNext = next,
                     !.block[b].freeNext = new, !.tail = IF @ = b THEN new ELSE @]
  BY DEF LinkAfter
<1> HIDE DEF next, h1
<1>4. g = [[[h1 EXCEPT !.block[new] = r1] EXCEPT !.block[b] = r2] EXCEPT !.tail = t]
  <2>1. h1 \in Heaps /\ new \in Addresses /\ b \in Addresses /\ b # new
    BY <1>1, <1>2
  <2> DEFINE k == [h1 EXCEPT !.block[new].freeLast = b, !.block[new].freeNext = next,
                             !.block[b].freeNext = new]
  <2>2. k = [[h1 EXCEPT !.block[new] = r1] EXCEPT !.block[b] = r2]
    BY <2>1 DEF Heaps, Blocks
  <2>3. k.tail = h1.tail
    BY <2>1 DEF Heaps
  <2>4. g = [k EXCEPT !.tail = IF k.tail = b THEN new ELSE k.tail]
    BY <1>3
  <2> HIDE DEF k, r1, r2
  <2> QED
    BY <2>2, <2>3, <2>4
<1>5. /\ r1 \in Blocks /\ r1.freeLast = b /\ r1.freeNext = next
      /\ r1.used = h1.block[new].used /\ r1.free = h1.block[new].free
      /\ r1.usedLast = h1.block[new].usedLast /\ r1.usedNext = h1.block[new].usedNext
  <2>1. h1.block[new] \in Blocks
    BY <1>2 DEF Heaps
  <2> QED
    BY <1>1, <2>1 DEF Blocks
<1>6. /\ r2 \in Blocks /\ r2.freeNext = new /\ r2.freeLast = h1.block[b].freeLast
      /\ r2.used = h1.block[b].used /\ r2.free = h1.block[b].free
      /\ r2.usedLast = h1.block[b].usedLast /\ r2.usedNext = h1.block[b].usedNext
  <2>1. h1.block[b] \in Blocks
    BY <1>1, <1>2 DEF Heaps
  <2> QED
    BY <1>1, <2>1 DEF Blocks
<1>7. t \in Links /\ t = (IF h.tail = b THEN new ELSE h.tail)
  BY <1>1, <1>2 DEF Heaps
<1> HIDE DEF r1, r2, t
<1>8. /\ g \in Heaps /\ g.head = h.head /\ g.tail = t
      /\ \A a \in Addresses : g.block[a] = IF a = b THEN r2 ELSE IF a = new THEN r1 ELSE h1.block[a]
  <2> DEFINE g1 == [h1 EXCEPT !.block[new] = r1]
             g2 == [g1 EXCEPT !.block[b] = r2]
  <2>0. g1 = [h1 EXCEPT !.block[new] = r1]
    OBVIOUS
  <2> HIDE DEF g1
  <2>a. BlockSet(g1, h1, new, r1)
    BY <1>2, <1>5, <2>0, SetBlock
  <2>1. /\ g1 \in Heaps /\ g1.head = h1.head /\ g1.tail = h1.tail
        /\ \A a \in Addresses : g1.block[a] = IF a = new THEN r1 ELSE h1.block[a]
    BY <2>a DEF BlockSet
  <2>b. g2 = [g1 EXCEPT !.block[b] = r2]
    OBVIOUS
  <2> HIDE DEF g2
  <2>c. BlockSet(g2, g1, b, r2)
    BY <1>1, <1>6, <2>1, <2>b, SetBlock
  <2>2. /\ g2 \in Heaps /\ g2.head = g1.head /\ g2.tail = g1.tail
        /\ \A a \in Addresses : g2.block[a] = IF a = b THEN r2 ELSE g1.block[a]
    BY <2>c DEF BlockSet
  <2>3. g = [g2 EXCEPT !.tail = t]
    BY <1>4 DEF g1, g2
  <2>4. g \in Heaps /\ g.head = g2.head /\ g.tail = t /\ g.block = g2.block
    BY <1>7, <2>2, <2>3, SetTail DEF EndsSet
  <2> QED
    BY <1>1, <1>2, <2>1, <2>2, <2>4
<1>9. SameSizes(g, h) /\ SameUsedLinks(g, h)
  BY <1>2, <1>5, <1>6, <1>8 DEF SameSizes, SameUsedLinks
<1>10. \A a \in Addresses :
         /\ g.block[a].freeNext = (IF a = b THEN new ELSE IF a = new THEN next ELSE h.block[a].freeNext)
         /\ g.block[a].freeLast = IF a = new THEN b ELSE IF a = next THEN new ELSE h.block[a].freeLast
  <2>1. b # next
    BY <1>1, HeapFacts DEF FreeList, IsNext, next
  <2> QED
    BY <1>1, <1>2, <1>5, <1>6, <1>8, <2>1
<1>11. next # new
  BY <1>1, HeapFacts DEF FreeList, IsNext, next
<1> DEFINE T == S \cup {new}
<1>12. IsNext(S, b, next) /\ next \in Int
  BY <1>1 DEF FreeList, next
<1>13. /\ IsNext(T, new, next) /\ IsLast(T, new, b)
       /\ \A a \in S \cup {Nil}, n \in Int : IsNext(S, a, n) => IsNext(T, a, IF a = b THEN new ELSE n)
       /\ \A a \in S \cup {Top}, l \in Int : IsLast(S, a, l) => IsLast(T, a, IF l = b THEN new ELSE l)
  BY <1>1, <1>12, SetAdd
<1> HIDE DEF T
<1>14. \A a \in S : h.block[a].freeLast \in Int /\ h.block[a].freeNext \in Int
                    /\ IsNext(S, a, h.block[a].freeNext) /\ IsLast(S, a, h.block[a].freeLast)
  <2>1. \A a \in S : h.block[a] \in Blocks
    BY DEF Heaps
  <2> QED
    BY <1>1, <2>1 DEF FreeList, Blocks
<1>15. IsNext(T, Nil, g.head) /\ IsLast(T, Top, g.tail)
  <2>1. IsNext(S, Nil, h.head) /\ IsLast(S, Top, h.tail) /\ h.head \in Int /\ h.tail \in Int
    BY <1>1 DEF FreeList, Heaps
  <2>2. Nil # b
    BY <1>1, HeapFacts
  <2> QED
    BY <1>7, <1>8, <1>13, <2>1, <2>2
<1>16. ASSUME NEW a \in S
       PROVE  IsNext(T, a, g.block[a].freeNext) /\ IsLast(T, a, g.block[a].freeLast)
  <2>1. h.block[a].freeLast = b <=> a = next
    BY <1>1, <1>12, <1>14, Mutual
  <2> QED
    BY <1>1, <1>10, <1>13, <1>14, <2>1
<1>17. IsNext(T, new, g.block[new].freeNext) /\ IsLast(T, new, g.block[new].freeLast)
  BY <1>1, <1>10, <1>13
<1>18. FreeList(g, S \cup {new})
  BY <1>15, <1>16, <1>17 DEF FreeList, T
<1>19. \A a \in Addresses \ (S \cup {new}) : a # next
  BY <1>12, HeapFacts DEF IsNext
<1> QED
  BY <1>8, <1>9, <1>10, <1>18, <1>19

Above(S, new) == \A x \in S : x > new

\* Linking at the head keeps the free list in order.
LEMMA LinkFirstList ==
  ASSUME NEW h \in Heaps, NEW S, S \subseteq Addresses, FreeList(h, S),
         NEW new \in Addresses, Above(S, new), h.block[new].freeLast = Nil,
         NEW g, g = LinkFirst(h, new)
  PROVE  /\ g \in Heaps /\ SameSizes(g, h) /\ SameUsedLinks(g, h) /\ FreeList(g, S \cup {new})
         /\ \A a \in Addresses \ (S \cup {new}) : /\ g.block[a].freeLast = h.block[a].freeLast
                                                  /\ g.block[a].freeNext = h.block[a].freeNext
<1>0. \A x \in S : x > new
  BY DEF Above
<1> USE <1>0
<1> DEFINE first == h.head
           h1 == SetLink(h, first, "freeLast", new)
           r1 == [h1.block[new] EXCEPT !.freeNext = first]
           t  == IF first = Nil THEN new ELSE h1.tail
<1>1. first \in Links /\ new \in Links /\ new \notin S
      /\ S \subseteq Nat /\ new \in Nat /\ new < Top /\ \A x \in Links : x \in Int
  BY HeapFacts DEF Heaps, Blocks, Links
<1>2. /\ h1 \in Heaps /\ h1.head = h.head /\ h1.tail = h.tail /\ SameSizes(h1, h) /\ SameUsedLinks(h1, h)
      /\ \A a \in Addresses : /\ h1.block[a].freeNext = h.block[a].freeNext
                              /\ h1.block[a].freeLast = IF a = first THEN new ELSE h.block[a].freeLast
  <2>1. h1 = SetLink(h, first, "freeLast", new)
    OBVIOUS
  <2> HIDE DEF first, h1
  <2> QED
    BY <1>1, <2>1, SetFreeLast DEF FreeLastSet
<1>3. g = [h1 EXCEPT !.block[new].freeNext = first,
                     !.tail = IF first = Nil THEN new ELSE @, !.head = new]
  BY DEF LinkFirst
<1>12. IsNext(S, Nil, first) /\ first \in Int /\ first # new
  BY <1>1, HeapFacts DEF FreeList, IsNext
<1> HIDE DEF first, h1
<1>4. g = [[[h1 EXCEPT !.block[new] = r1] EXCEPT !.tail = t] EXCEPT !.head = new]
  BY <1>1, <1>2, <1>3 DEF Heaps, Blocks
<1>5. /\ r1 \in Blocks /\ r1.freeNext = first /\ r1.freeLast = h1.block[new].freeLast
      /\ r1.used = h1.block[new].used /\ r1.free = h1.block[new].free
      /\ r1.usedLast = h1.block[new].usedLast /\ r1.usedNext = h1.block[new].usedNext
  <2>1. h1.block[new] \in Blocks
    BY <1>2 DEF Heaps
  <2> QED
    BY <1>1, <2>1 DEF Blocks
<1>7. t \in Links /\ t = (IF first = Nil THEN new ELSE h.tail)
  BY <1>1, <1>2 DEF Heaps
<1> HIDE DEF r1, t
<1>8. /\ g \in Heaps /\ g.head = new /\ g.tail = t
      /\ \A a \in Addresses : g.block[a] = IF a = new THEN r1 ELSE h1.block[a]
  <2> DEFINE g1 == [h1 EXCEPT !.block[new] = r1]
             g2 == [g1 EXCEPT !.tail = t]
  <2>0. g1 = [h1 EXCEPT !.block[new] = r1]
    OBVIOUS
  <2> HIDE DEF g1
  <2>a. BlockSet(g1, h1, new, r1)
    BY <1>2, <1>5, <2>0, SetBlock
  <2>1. /\ g1 \in Heaps /\ g1.head = h1.head /\ g1.tail = h1.tail
        /\ \A a \in Addresses : g1.block[a] = IF a = new THEN r1 ELSE h1.block[a]
    BY <2>a DEF BlockSet
  <2>2. g2 \in Heaps /\ g2.head = g1.head /\ g2.tail = t /\ g2.block = g1.block
    BY <1>7, <2>1, SetTail DEF EndsSet
  <2> HIDE DEF g2
  <2>3. g = [g2 EXCEPT !.head = new]
    BY <1>4 DEF g1, g2
  <2>4. g \in Heaps /\ g.head = new /\ g.tail = g2.tail /\ g.block = g2.block
    BY <1>1, <2>2, <2>3, SetHead DEF EndsSet
  <2> QED
    BY <2>1, <2>2, <2>4
<1>9. SameSizes(g, h) /\ SameUsedLinks(g, h)
  BY <1>2, <1>5, <1>8 DEF SameSizes, SameUsedLinks
<1>10. \A a \in Addresses :
         /\ g.block[a].freeNext = (IF a = new THEN first ELSE h.block[a].freeNext)
         /\ g.block[a].freeLast = IF a = first THEN new ELSE h.block[a].freeLast
  BY <1>1, <1>2, <1>5, <1>8, <1>12
<1> DEFINE T == S \cup {new}
<1>13. /\ IsNext(T, Nil, new) /\ IsNext(T, new, first) /\ IsLast(T, new, Nil)
       /\ \A a \in S, n \in Int : IsNext(S, a, n) => IsNext(T, a, n)
       /\ \A a \in S \cup {Top}, l \in Int : IsLast(S, a, l) => IsLast(T, a, IF l = Nil THEN new ELSE l)
  BY <1>1, <1>12, SetFirst
<1> HIDE DEF T
<1>14. \A a \in S : h.block[a].freeLast \in Int /\ h.block[a].freeNext \in Int
                    /\ IsNext(S, a, h.block[a].freeNext) /\ IsLast(S, a, h.block[a].freeLast)
  <2>1. \A a \in S : h.block[a] \in Blocks
    BY DEF Heaps
  <2> QED
    BY <1>1, <2>1 DEF FreeList, Blocks
<1>15. IsNext(T, Nil, g.head) /\ IsLast(T, Top, g.tail)
  <2>1. IsLast(S, Top, h.tail) /\ h.tail \in Int
    BY <1>1 DEF FreeList, Heaps
  <2>2. first = Nil <=> h.tail = Nil
    BY <1>12, <2>1, <1>1, HeapFacts DEF IsNext, IsLast
  <2> QED
    BY <1>7, <1>8, <1>13, <2>1, <2>2
<1>16. ASSUME NEW a \in S
       PROVE  IsNext(T, a, g.block[a].freeNext) /\ IsLast(T, a, g.block[a].freeLast)
  <2>1. h.block[a].freeLast = Nil <=> a = first
    BY <1>1, <1>12, <1>14, HeapFacts DEF IsNext, IsLast
  <2> QED
    BY <1>1, <1>10, <1>13, <1>14, <2>1
<1>17. IsNext(T, new, g.block[new].freeNext) /\ IsLast(T, new, g.block[new].freeLast)
  BY <1>1, <1>10, <1>12, <1>13
<1>18. FreeList(g, S \cup {new})
  BY <1>15, <1>16, <1>17 DEF FreeList, T
<1>19. \A a \in Addresses \ (S \cup {new}) : a # first
  BY <1>12, HeapFacts DEF IsNext
<1> QED
  BY <1>8, <1>9, <1>10, <1>18, <1>19

\* Unlinking a block leaves the free list of the others.
LEMMA UnlinkList ==
  ASSUME NEW h \in Heaps, NEW S, S \subseteq Addresses, FreeList(h, S), NEW b \in S,
         NEW g, g = Unlink(h, b)
  PROVE  /\ g \in Heaps /\ SameSizes(g, h) /\ SameUsedLinks(g, h) /\ FreeList(g, S \ {b})
         /\ g.block[b].freeLast = Nil /\ g.block[b].freeNext = Nil
         /\ \A a \in Addresses \ S : /\ g.block[a].freeLast = h.block[a].freeLast
                                     /\ g.block[a].freeNext = h.block[a].freeNext
<1> DEFINE next == h.block[b].freeNext
           last == h.block[b].freeLast
           h1 == SetLink(h, last, "freeNext", next)
           h2 == SetLink(h1, next, "freeLast", last)
           r1 == [[h2.block[b] EXCEPT !.freeLast = Nil] EXCEPT !.freeNext = Nil]
           f  == IF h2.head = b THEN next ELSE h2.head
           t  == IF h2.tail # b THEN h2.tail ELSE IF next # Nil THEN next ELSE last
<1>1. b \in Addresses /\ next \in Links /\ last \in Links /\ Nil \in Links
      /\ S \subseteq Nat /\ \A x \in Links : x \in Int
  BY HeapFacts DEF Heaps, Blocks, Links
<1>2. /\ h1 \in Heaps /\ h1.head = h.head /\ h1.tail = h.tail /\ SameSizes(h1, h) /\ SameUsedLinks(h1, h)
      /\ \A a \in Addresses : /\ h1.block[a].freeLast = h.block[a].freeLast
                              /\ h1.block[a].freeNext = IF a = last THEN next ELSE h.block[a].freeNext
  <2>1. h1 = SetLink(h, last, "freeNext", next)
    OBVIOUS
  <2> HIDE DEF last, next, h1
  <2>2. FreeNextSet(h1, h, last, next)
    BY <1>1, <2>1, SetFreeNext
  <2> QED
    BY <2>2 DEF FreeNextSet
<1>3. g = [h2 EXCEPT
             !.head = IF @ = b THEN next ELSE @,
             !.tail = IF @ # b THEN @ ELSE IF next # Nil THEN next ELSE last,
             !.block[b].freeLast = Nil, !.block[b].freeNext = Nil]
  BY DEF Unlink
<1>4. IsNext(S, b, next) /\ IsLast(S, b, last)
  BY DEF FreeList
<1> HIDE DEF next, last, h1
<1>5. /\ h2 \in Heaps /\ h2.head = h.head /\ h2.tail = h.tail /\ SameSizes(h2, h1) /\ SameUsedLinks(h2, h1)
      /\ \A a \in Addresses : /\ h2.block[a].freeNext = h1.block[a].freeNext
                              /\ h2.block[a].freeLast = IF a = next THEN last ELSE h1.block[a].freeLast
  <2>1. h2 = SetLink(h1, next, "freeLast", last)
    OBVIOUS
  <2> HIDE DEF h2
  <2> HIDE DEF r1, f, t
  <2>2. h1 \in Heaps /\ next \in Links /\ last \in Links
    BY <1>1, <1>2
  <2>3. FreeLastSet(h2, h1, next, last)
    BY <2>1, <2>2, SetFreeLast
  <2> QED
    BY <1>2, <2>3 DEF FreeLastSet
<1> HIDE DEF h2
<1>8. /\ t \in Links /\ t = (IF h.tail # b THEN h.tail ELSE IF next # Nil THEN next ELSE last)
      /\ f \in Links /\ f = (IF h.head = b THEN next ELSE h.head)
  BY <1>1, <1>5 DEF Heaps
<1>6. g = [[[h2 EXCEPT !.head = f] EXCEPT !.tail = t] EXCEPT !.block[b] = r1]
  <2> DEFINE k == [h2 EXCEPT !.head = f, !.tail = t]
  <2>1. k.block = h2.block /\ k = [[h2 EXCEPT !.head = f] EXCEPT !.tail = t]
    BY <1>5 DEF Heaps
  <2>2. g = [k EXCEPT !.block[b].freeLast = Nil, !.block[b].freeNext = Nil]
    BY <1>3
  <2>3. h2.block \in [Addresses -> Blocks] /\ b \in Addresses
    BY <1>1, <1>5 DEF Heaps
  <2> HIDE DEF f, t
  <2>4. k \in Heaps
    BY <1>5, <1>8 DEF Heaps
  <2> HIDE DEF k
  <2>5. g = [k EXCEPT !.block[b] = [[k.block[b] EXCEPT !.freeLast = Nil] EXCEPT !.freeNext = Nil]]
    BY <2>2, <2>3, <2>4 DEF Heaps, Blocks
  <2> QED
    BY <2>1, <2>5
<1>7. /\ r1 \in Blocks /\ r1.freeNext = Nil /\ r1.freeLast = Nil
      /\ r1.used = h2.block[b].used /\ r1.free = h2.block[b].free
      /\ r1.usedLast = h2.block[b].usedLast /\ r1.usedNext = h2.block[b].usedNext
  <2>1. h2.block[b] \in Blocks
    BY <1>1, <1>5 DEF Heaps
  <2> QED
    BY <1>1, <2>1 DEF Blocks
<1> HIDE DEF r1, t, f
<1>9. /\ g \in Heaps /\ g.head = f /\ g.tail = t
      /\ \A a \in Addresses : g.block[a] = IF a = b THEN r1 ELSE h2.block[a]
  <2> DEFINE g1 == [h2 EXCEPT !.head = f]
             g2 == [g1 EXCEPT !.tail = t]
  <2>1. g1 \in Heaps /\ g1.head = f /\ g1.tail = h2.tail /\ g1.block = h2.block
    BY <1>5, <1>8, SetHead DEF EndsSet
  <2> HIDE DEF g1
  <2>2. g2 \in Heaps /\ g2.head = g1.head /\ g2.tail = t /\ g2.block = g1.block
    BY <1>8, <2>1, SetTail DEF EndsSet
  <2> HIDE DEF g2
  <2>3. g = [g2 EXCEPT !.block[b] = r1]
    BY <1>6 DEF g1, g2
  <2> QED
    <3>1. BlockSet(g, g2, b, r1)
      BY <1>1, <1>7, <2>2, <2>3, SetBlock
    <3> QED
      BY <2>1, <2>2, <3>1 DEF BlockSet
<1>10. SameSizes(g, h) /\ SameUsedLinks(g, h)
  BY <1>1, <1>2, <1>5, <1>7, <1>9 DEF SameSizes, SameUsedLinks
<1>11. \A a \in Addresses :
         /\ g.block[a].freeNext = (IF a = b THEN Nil ELSE IF a = last THEN next ELSE h.block[a].freeNext)
         /\ g.block[a].freeLast = (IF a = b THEN Nil ELSE IF a = next THEN last ELSE h.block[a].freeLast)
  BY <1>1, <1>2, <1>5, <1>7, <1>9
<1> DEFINE T == S \ {b}
<1>12. /\ \A a \in T \cup {Nil}, n \in Int : IsNext(S, a, n) => IsNext(T, a, IF n = b THEN next ELSE n)
       /\ \A a \in T \cup {Top}, l \in Int : IsLast(S, a, l) => IsLast(T, a, IF l = b THEN last ELSE l)
  BY <1>1, <1>4, SetDrop
<1> HIDE DEF T
<1>13. \A a \in S : h.block[a].freeLast \in Int /\ h.block[a].freeNext \in Int
                    /\ IsNext(S, a, h.block[a].freeNext) /\ IsLast(S, a, h.block[a].freeLast)
  <2>1. \A a \in S : h.block[a] \in Blocks
    BY DEF Heaps
  <2> QED
    BY <1>1, <2>1 DEF FreeList, Blocks
<1>14. IsNext(T, Nil, g.head) /\ IsLast(T, Top, g.tail)
  <2>1. IsNext(S, Nil, h.head) /\ IsLast(S, Top, h.tail) /\ h.head \in Int /\ h.tail \in Int
    BY <1>1 DEF FreeList, Heaps
  <2>2. h.tail = b => next = Nil
    BY <1>1, <1>4, <2>1, HeapFacts DEF IsNext, IsLast
  <2> QED
    BY <1>8, <1>9, <1>12, <2>1, <2>2
<1>15. ASSUME NEW a \in S, a # b
       PROVE  IsNext(T, a, g.block[a].freeNext) /\ IsLast(T, a, g.block[a].freeLast)
  <2>1. (h.block[a].freeLast = b <=> a = next) /\ (h.block[a].freeNext = b <=> a = last)
    BY <1>1, <1>4, <1>13, Mutual
  <2> QED
    BY <1>1, <1>11, <1>12, <1>13, <1>15, <2>1 DEF T
<1>16. FreeList(g, S \ {b})
  BY <1>14, <1>15 DEF FreeList, T
<1>17. \A a \in Addresses \ S : a # next /\ a # last
  BY <1>4, HeapFacts DEF IsNext, IsLast
<1> QED
  BY <1>1, <1>9, <1>10, <1>11, <1>16, <1>17

\* A new block that follows b comes into the list of blocks at its place.
LEMMA FollowList ==
  ASSUME NEW h \in Heaps, NEW S, S \subseteq Addresses, UsedList(h, S), NEW b \in S,
         NEW new \in Addresses, new \notin S, b < new, \A x \in S : x > b => x > new,
         NEW g, g = Follow(h, b, new)
  PROVE  /\ g \in Heaps /\ SameSizes(g, h) /\ SameFreeLinks(g, h) /\ UsedList(g, S \cup {new})
         /\ g.block[new].usedNext = h.block[b].usedNext /\ g.block[b].usedNext = new
         /\ \A a \in Addresses \ (S \cup {new}) : /\ g.block[a].usedLast = h.block[a].usedLast
                                                  /\ g.block[a].usedNext = h.block[a].usedNext
         /\ \A a \in S \ {b} : g.block[a].usedNext = h.block[a].usedNext
<1> DEFINE next == h.block[b].usedNext
           h1 == SetLink(h, next, "usedLast", new)
           r1 == [[h1.block[new] EXCEPT !.usedLast = b] EXCEPT !.usedNext = next]
           r2 == [h1.block[b] EXCEPT !.usedNext = new]
<1>1. b \in Addresses /\ b # new /\ next \in Links /\ new \in Links /\ b \in Links
      /\ S \subseteq Nat /\ new \in Nat /\ new < Top /\ \A x \in Links : x \in Int
  BY HeapFacts DEF Heaps, Blocks, Links
<1>2. /\ h1 \in Heaps /\ SameSizes(h1, h) /\ SameFreeLinks(h1, h)
      /\ \A a \in Addresses : /\ h1.block[a].usedNext = h.block[a].usedNext
                              /\ h1.block[a].usedLast = IF a = next THEN new ELSE h.block[a].usedLast
  <2>1. h1 = SetLink(h, next, "usedLast", new)
    OBVIOUS
  <2> HIDE DEF next, h1
  <2>2. UsedLastSet(h1, h, next, new)
    BY <1>1, <2>1, SetUsedLast
  <2> QED
    BY <2>2 DEF UsedLastSet
<1>3. g = [h1 EXCEPT !.block[new].usedLast = b, !.block[new].usedNext = next,
                     !.block[b].usedNext = new]
  BY DEF Follow
<1> HIDE DEF next, h1
<1>4. g = [[h1 EXCEPT !.block[new] = r1] EXCEPT !.block[b] = r2]
  <2>1. h1 \in Heaps /\ new \in Addresses /\ b \in Addresses /\ b # new
    BY <1>1, <1>2
  <2> QED
    BY <1>3, <2>1 DEF Heaps, Blocks
<1>5. /\ r1 \in Blocks /\ r1.usedLast = b /\ r1.usedNext = next
      /\ r1.used = h1.block[new].used /\ r1.free = h1.block[new].free
      /\ r1.freeLast = h1.block[new].freeLast /\ r1.freeNext = h1.block[new].freeNext
  <2>1. h1.block[new] \in Blocks
    BY <1>2 DEF Heaps
  <2> QED
    BY <1>1, <2>1 DEF Blocks
<1>6. /\ r2 \in Blocks /\ r2.usedNext = new /\ r2.usedLast = h1.block[b].usedLast
      /\ r2.used = h1.block[b].used /\ r2.free = h1.block[b].free
      /\ r2.freeLast = h1.block[b].freeLast /\ r2.freeNext = h1.block[b].freeNext
  <2>1. h1.block[b] \in Blocks
    BY <1>1, <1>2 DEF Heaps
  <2> QED
    BY <1>1, <2>1 DEF Blocks
<1> HIDE DEF r1, r2
<1>8. /\ g \in Heaps /\ g.head = h1.head /\ g.tail = h1.tail
      /\ \A a \in Addresses : g.block[a] = IF a = b THEN r2 ELSE IF a = new THEN r1 ELSE h1.block[a]
  <2> DEFINE g1 == [h1 EXCEPT !.block[new] = r1]
  <2>0. g1 = [h1 EXCEPT !.block[new] = r1]
    OBVIOUS
  <2> HIDE DEF g1
  <2>a. BlockSet(g1, h1, new, r1)
    BY <1>2, <1>5, <2>0, SetBlock
  <2>1. /\ g1 \in Heaps /\ g1.head = h1.head /\ g1.tail = h1.tail
        /\ \A a \in Addresses : g1.block[a] = IF a = new THEN r1 ELSE h1.block[a]
    BY <2>a DEF BlockSet
  <2>2. g = [g1 EXCEPT !.block[b] = r2]
    BY <1>4 DEF g1
  <2>3. /\ g \in Heaps /\ g.head = g1.head /\ g.tail = g1.tail
        /\ \A a \in Addresses : g.block[a] = IF a = b THEN r2 ELSE g1.block[a]
    <3>1. BlockSet(g, g1, b, r2)
      BY <1>1, <1>6, <2>1, <2>2, SetBlock
    <3> QED
      BY <3>1 DEF BlockSet
  <2> QED
    BY <1>1, <2>1, <2>3
<1>9. SameSizes(g, h) /\ SameFreeLinks(g, h)
  BY <1>2, <1>5, <1>6, <1>8 DEF SameSizes, SameFreeLinks
<1>10. \A a \in Addresses :
         /\ g.block[a].usedNext = (IF a = b THEN new ELSE IF a = new THEN next ELSE h.block[a].usedNext)
         /\ g.block[a].usedLast = IF a = new THEN b ELSE IF a = next THEN new ELSE h.block[a].usedLast
  <2>1. b # next
    BY <1>1, HeapFacts DEF UsedList, IsNext, next
  <2> QED
    BY <1>1, <1>2, <1>5, <1>6, <1>8, <2>1
<1> DEFINE T == S \cup {new}
<1>12. IsNext(S, b, next) /\ next \in Int
  BY <1>1 DEF UsedList, next
<1>13. /\ IsNext(T, new, next) /\ IsLast(T, new, b)
       /\ \A a \in S \cup {Nil}, n \in Int : IsNext(S, a, n) => IsNext(T, a, IF a = b THEN new ELSE n)
       /\ \A a \in S \cup {Top}, l \in Int : IsLast(S, a, l) => IsLast(T, a, IF l = b THEN new ELSE l)
  BY <1>1, <1>12, SetAdd
<1> HIDE DEF T
<1>14. \A a \in S : h.block[a].usedLast \in Int /\ h.block[a].usedNext \in Int
                    /\ IsNext(S, a, h.block[a].usedNext) /\ IsLast(S, a, h.block[a].usedLast)
  <2>1. \A a \in S : h.block[a] \in Blocks
    BY DEF Heaps
  <2> QED
    BY <1>1, <2>1 DEF UsedList, Blocks
<1>16. ASSUME NEW a \in S
       PROVE  IsNext(T, a, g.block[a].usedNext) /\ IsLast(T, a, g.block[a].usedLast)
  <2>1. h.block[a].usedLast = b <=> a = next
    BY <1>1, <1>12, <1>14, Mutual
  <2> QED
    BY <1>1, <1>10, <1>13, <1>14, <2>1
<1>17. IsNext(T, new, g.block[new].usedNext) /\ IsLast(T, new, g.block[new].usedLast)
  BY <1>1, <1>10, <1>13
<1>18. UsedList(g, S \cup {new})
  BY <1>16, <1>17 DEF UsedList, T
<1>19. \A a \in Addresses \ (S \cup {new}) : a # next
  BY <1>12, HeapFacts DEF IsNext
<1>20. g.block[new].usedNext = h.block[b].usedNext /\ g.block[b].usedNext = new
       /\ \A a \in S \ {b} : g.block[a].usedNext = h.block[a].usedNext
  BY <1>1, <1>10 DEF next
<1> QED
  BY <1>8, <1>9, <1>10, <1>18, <1>19, <1>20

-----------------------------------------------------------------------------
(* Searching                                                               *)

\* A search along links that fall in some rank ends: it is what its definition says.
LEMMA SearchSteps ==
  ASSUME NEW h \in Heaps, NEW field, NEW S, NEW rank \in [Links -> Nat], NEW top \in Nat,
         \A i \in Links : rank[i] <= top,
         \A i \in Addresses : i \notin S => h.block[i][field] \in Links /\ rank[h.block[i][field]] < rank[i]
  PROVE  \A i \in Links : Search(h, i, field, S) =
           IF i = Nil \/ i \in S THEN i ELSE Search(h, h.block[i][field], field, S)
<1> DEFINE R == S \cup {Nil}
           to == [i \in Links |-> h.block[i][field]]
           Def(g) == [i \in Addresses \cup {Nil} |-> IF i = Nil \/ i \in S THEN i ELSE g[h.block[i][field]]]
           f == CHOOSE g : g = Def(g)
<1>1. \E g : g = Def(g)
  <2>1. \A i \in Links : i \notin R => to[i] \in Links /\ rank[to[i]] < rank[i]
    BY DEF Links
  <2> HIDE DEF R, to, Def, f
  <2>2. \E g : Walks(g, Links, R, to)
    BY <2>1, Walk
  <2>3. ASSUME NEW g, Walks(g, Links, R, to) PROVE g = Def(g)
    <3>1. \A i \in Links : (IF i \in R THEN i ELSE g[to[i]]) = IF i = Nil \/ i \in S THEN i ELSE g[h.block[i][field]]
      BY DEF R, to
    <3>2. [i \in Links |-> IF i \in R THEN i ELSE g[to[i]]] =
          [i \in Links |-> IF i = Nil \/ i \in S THEN i ELSE g[h.block[i][field]]]
      BY <3>1
    <3> QED
      BY <2>3, <3>2 DEF Def, Walks, Links
  <2> QED
    BY <2>2, <2>3
<1>2. f = Def(f)
  <2> HIDE DEF Def
  <2> QED
    BY <1>1
<1>3. \A i \in Links : Search(h, i, field, S) = f[i]
  BY DEF Search
<1> HIDE DEF f
<1>4. \A i \in Links : f[i] = IF i = Nil \/ i \in S THEN i ELSE f[h.block[i][field]]
  BY <1>2 DEF Links
<1> QED
  BY <1>3, <1>4 DEF Links

\* The links of field go up, or down, along the members of L in order.
Rising(h, field, L) ==
  /\ L \subseteq Addresses
  /\ \A a \in L : h.block[a][field] \in Links /\ IsNext(L, a, h.block[a][field])
  /\ \A a \in Addresses \ L : h.block[a][field] = Nil
Falling(h, field, L) ==
  /\ L \subseteq Addresses
  /\ \A a \in L : h.block[a][field] \in Links /\ IsLast(L, a, h.block[a][field])
  /\ \A a \in Addresses \ L : h.block[a][field] = Nil

FirstOf(x, L, S) ==
  IF x = Nil THEN L \cap S = {} ELSE x \in L \cap S /\ \A y \in L \cap S : x <= y

\* The first member of S on the list, from b on or from its head.
LEMMA SearchUp ==
  ASSUME NEW h \in Heaps, NEW field, NEW S, NEW L, Rising(h, field, L), NEW b \in Links, IsNext(L, Nil, b)
  PROVE  FirstOf(Search(h, b, field, S), L, S)
<1> DEFINE rank == [i \in Links |-> IF i = Nil THEN 0 ELSE Top - i]
           First(i, x) == IF x = Nil THEN i = Nil \/ \A y \in L \cap S : y < i
                          ELSE x \in L \cap S /\ i # Nil /\ x >= i /\ \A y \in L \cap S : y >= i => x <= y
<1>0. /\ L \subseteq Addresses
      /\ \A a \in L : h.block[a][field] \in Links /\ IsNext(L, a, h.block[a][field])
      /\ \A a \in Addresses \ L : h.block[a][field] = Nil
  BY DEF Rising
<1>1. /\ Top \in Nat /\ Nil = -1 /\ \A i \in Addresses : i \in Nat /\ i < Top
      /\ \A i \in Links : i \in Int /\ (i = Nil \/ i \in Addresses)
      /\ L \subseteq Nat /\ Addresses \subseteq Links
  <2>1. /\ Top \in Nat /\ Nil = -1 /\ \A i \in Addresses : i \in Nat /\ i < Top
    BY HeapFacts
  <2> QED
    BY <1>0, <2>1 DEF Links
<1> USE <1>0
<1>2. /\ rank \in [Links -> Nat] /\ \A i \in Links : rank[i] <= Top
      /\ rank[Nil] = 0 /\ \A i \in Addresses : rank[i] = Top - i
  BY <1>1 DEF Links
<1> HIDE DEF rank
<1>3. \A i \in Addresses : h.block[i][field] \in Links /\ rank[h.block[i][field]] < rank[i]
  <2>1. \A i \in Addresses : h.block[i][field] \in Links /\ (h.block[i][field] = Nil \/ h.block[i][field] > i)
    BY <1>1 DEF IsNext, Links
  <2>2. ASSUME NEW i \in Addresses, NEW m \in Links, m = Nil \/ m > i PROVE rank[m] < rank[i]
    <3>1. CASE m = Nil
      BY <1>1, <1>2, <3>1
    <3>2. CASE m \in Addresses /\ m > i
      <4>1. rank[m] = Top - m /\ rank[i] = Top - i
        BY <1>2, <3>2
      <4> QED
        BY <1>1, <3>2, <4>1
    <3> QED
      BY <1>1, <2>2, <3>1, <3>2
  <2> QED
    BY <2>1, <2>2
<1>4. \A i \in Links : Search(h, i, field, S) =
        IF i = Nil \/ i \in S THEN i ELSE Search(h, h.block[i][field], field, S)
  BY <1>1, <1>2, <1>3, SearchSteps
<1> DEFINE P == {n \in Nat : \A i \in L \cup {Nil} : rank[i] < n => First(i, Search(h, i, field, S))}
<1>5. 0 \in P
  <2>1. \A i \in Links : rank[i] \in Nat
    BY <1>2
  <2>2. L \cup {Nil} \subseteq Links
    BY DEF Links
  <2>3. \A i \in L \cup {Nil} : ~(rank[i] < 0)
    BY <2>1, <2>2
  <2> HIDE DEF First
  <2> QED
    BY <2>3
<1>6. ASSUME NEW n \in Nat, n \in P PROVE n + 1 \in P
  <2> SUFFICES ASSUME NEW i \in L \cup {Nil}, rank[i] < n + 1 PROVE First(i, Search(h, i, field, S))
    <3> HIDE DEF First
    <3> QED
      OBVIOUS
  <2>1. i \in Links
    BY <1>1 DEF Links
  <2>2. CASE i = Nil \/ i \in S
    <3>1. Search(h, i, field, S) = i
      BY <1>4, <2>1, <2>2
    <3> QED
      BY <1>1, <2>2, <3>1
  <2>3. CASE ~(i = Nil \/ i \in S)
    <3> DEFINE m == h.block[i][field]
    <3>1. i \in L /\ i \in Addresses /\ i \in Nat /\ m \in Links /\ m \in Int /\ IsNext(L, i, m)
      BY <1>1, <2>3
    <3>2. m \in L \cup {Nil} /\ rank[m] < n /\ rank[m] \in Nat
      <4>1. rank[m] < rank[i] /\ rank[m] \in Nat /\ rank[i] \in Nat
        BY <1>2, <1>3, <2>1, <3>1
      <4> HIDE DEF m
      <4>2. rank[m] < n
        BY <4>1
      <4>3. m \in L \cup {Nil}
        BY <3>1 DEF IsNext
      <4> QED
        BY <4>1, <4>2, <4>3
    <3>3. First(m, Search(h, m, field, S))
      <4> HIDE DEF m, First
      <4> QED
        BY <1>6, <3>2
    <3>4. Search(h, i, field, S) = Search(h, m, field, S)
      BY <1>4, <2>1, <2>3
    <3> DEFINE x == Search(h, m, field, S)
    <3>5. \A y \in L \cap S : y # i /\ y \in Nat
      BY <1>1, <2>3
    <3> HIDE DEF m, x
    <3>6. First(i, x)
      <4>0. First(m, x)
        BY <3>3 DEF x
      <4>1. CASE m = Nil
        <5>1. x = Nil
          BY <4>0, <4>1
        <5>2. \A y \in L : y <= i
          BY <3>1, <4>1 DEF IsNext
        <5> QED
          BY <3>1, <3>5, <5>1, <5>2
      <4>2. CASE m # Nil
        <5>1. m \in L /\ m > i /\ \A y \in L : y > i => y >= m
          BY <3>1, <4>2 DEF IsNext
        <5>2. \A y \in L \cap S : y >= i => y >= m
          BY <3>1, <3>5, <5>1
        <5>3. CASE x = Nil
          <6>1. \A y \in L \cap S : y < m
            BY <4>0, <4>2, <5>3
          <6> QED
            BY <3>1, <3>5, <5>2, <5>3, <6>1
        <5>4. CASE x # Nil
          <6>1. x \in L \cap S /\ x >= m /\ \A y \in L \cap S : y >= m => x <= y
            BY <4>0, <5>4
          <6>2. x \in Nat
            BY <1>1, <6>1
          <6> QED
            BY <1>1, <3>1, <5>1, <5>2, <5>4, <6>1, <6>2
        <5> QED
          BY <5>3, <5>4
      <4> QED
        BY <4>1, <4>2
    <3> QED
      BY <3>4, <3>6 DEF x
  <2> QED
    BY <2>2, <2>3
<1>7. Top + 1 \in P
  <2> HIDE DEF P
  <2> QED
    BY <1>1, <1>5, <1>6, Upwards
<1>8. b \in L \cup {Nil} /\ rank[b] < Top + 1
  <2>1. b \in L \cup {Nil}
    BY DEF IsNext
  <2>2. rank[b] \in Nat /\ rank[b] <= Top
    BY <1>2
  <2> QED
    BY <1>1, <2>1, <2>2
<1>9. First(b, Search(h, b, field, S))
  <2> HIDE DEF First
  <2> QED
    BY <1>7, <1>8
<1> DEFINE x == Search(h, b, field, S)
<1>10. First(b, x)
  BY <1>9
<1> HIDE DEF x
<1>11. IF x = Nil THEN L \cap S = {} ELSE x \in L \cap S /\ \A y \in L \cap S : x <= y
  <2>1. \A y \in L : b # Nil /\ y >= b /\ y \in Nat
    BY <1>1 DEF IsNext
  <2>2. b \in Int
    BY <1>1
  <2> QED
    BY <1>10, <2>1, <2>2
<1> QED
  BY <1>11 DEF x, FirstOf

\* The last member of S on the list, from b back.
LEMMA SearchDown ==
  ASSUME NEW h \in Heaps, NEW field, NEW S, NEW L, Falling(h, field, L), NEW b \in L \cup {Nil}
  PROVE  LET x == Search(h, b, field, S) IN
         IF x = Nil THEN \A y \in L \cap S : y > b
         ELSE x \in L \cap S /\ x <= b /\ \A y \in L \cap S : y <= b => y <= x
<1> DEFINE rank == [i \in Links |-> i + 1]
           Last(i, x) == IF x = Nil THEN \A y \in L \cap S : y > i
                         ELSE x \in L \cap S /\ x <= i /\ \A y \in L \cap S : y <= i => y <= x
<1>0. /\ L \subseteq Addresses
      /\ \A a \in L : h.block[a][field] \in Links /\ IsLast(L, a, h.block[a][field])
      /\ \A a \in Addresses \ L : h.block[a][field] = Nil
  BY DEF Falling
<1>1. /\ Top \in Nat /\ Nil = -1 /\ \A i \in Addresses : i \in Nat /\ i < Top
      /\ \A i \in Links : i \in Int /\ (i = Nil \/ i \in Addresses)
      /\ L \subseteq Nat /\ Addresses \subseteq Links
  <2>1. /\ Top \in Nat /\ Nil = -1 /\ \A i \in Addresses : i \in Nat /\ i < Top
    BY HeapFacts
  <2> QED
    BY <1>0, <2>1 DEF Links
<1> USE <1>0
<1>2. /\ rank \in [Links -> Nat] /\ \A i \in Links : rank[i] <= Top
      /\ \A i \in Links : rank[i] = i + 1
  BY <1>1 DEF Links
<1> HIDE DEF rank
<1>3. \A i \in Addresses : h.block[i][field] \in Links /\ rank[h.block[i][field]] < rank[i]
  <2>1. ASSUME NEW i \in Addresses PROVE h.block[i][field] \in Links /\ h.block[i][field] < i
    BY <1>1 DEF IsLast, Links
  <2>2. ASSUME NEW i \in Addresses, NEW m \in Links, m < i PROVE rank[m] < rank[i]
    BY <1>1, <1>2, <2>2
  <2> QED
    BY <2>1, <2>2
<1>4. \A i \in Links : Search(h, i, field, S) =
        IF i = Nil \/ i \in S THEN i ELSE Search(h, h.block[i][field], field, S)
  BY <1>1, <1>2, <1>3, SearchSteps
<1> DEFINE P == {n \in Nat : \A i \in L \cup {Nil} : rank[i] < n => Last(i, Search(h, i, field, S))}
<1>5. 0 \in P
  <2>1. \A i \in Links : rank[i] \in Nat
    BY <1>2
  <2>2. L \cup {Nil} \subseteq Links
    BY DEF Links
  <2>3. \A i \in L \cup {Nil} : ~(rank[i] < 0)
    BY <2>1, <2>2
  <2> HIDE DEF Last
  <2> QED
    BY <2>3
<1>6. ASSUME NEW n \in Nat, n \in P PROVE n + 1 \in P
  <2> SUFFICES ASSUME NEW i \in L \cup {Nil}, rank[i] < n + 1 PROVE Last(i, Search(h, i, field, S))
    <3> HIDE DEF Last
    <3> QED
      OBVIOUS
  <2>1. i \in Links
    BY <1>1 DEF Links
  <2>2. CASE i = Nil \/ i \in S
    <3>1. Search(h, i, field, S) = i
      BY <1>4, <2>1, <2>2
    <3>2. i \in Int /\ (i # Nil => i \in L \cap S) /\ \A y \in L \cap S : y \in Int /\ y > Nil
      BY <1>1, <2>1, <2>2
    <3> HIDE DEF P
    <3>3. Last(i, i)
      BY <3>2
    <3> QED
      BY <3>1, <3>3
  <2>3. CASE ~(i = Nil \/ i \in S)
    <3> DEFINE m == h.block[i][field]
    <3>1. i \in L /\ i \in Addresses /\ i \in Nat /\ m \in Links /\ m \in Int /\ IsLast(L, i, m)
      BY <1>1, <2>3
    <3>2. m \in L \cup {Nil} /\ rank[m] < n
      <4>1. rank[m] < rank[i] /\ rank[m] \in Nat /\ rank[i] \in Nat
        BY <1>2, <1>3, <2>1, <3>1
      <4> HIDE DEF m
      <4>2. rank[m] < n
        BY <4>1
      <4>3. m \in L \cup {Nil}
        BY <3>1 DEF IsLast
      <4> QED
        BY <4>2, <4>3
    <3>3. Last(m, Search(h, m, field, S))
      <4> HIDE DEF m, Last
      <4> QED
        BY <1>6, <3>2
    <3>4. Search(h, i, field, S) = Search(h, m, field, S)
      BY <1>4, <2>1, <2>3
    <3> DEFINE x == Search(h, m, field, S)
    <3>5. \A y \in L \cap S : y # i /\ y \in Nat
      BY <1>1, <2>3
    <3> HIDE DEF m, x
    <3>6. Last(i, x)
      <4>0. Last(m, x)
        BY <3>3 DEF x
      <4>1. CASE m = Nil
        <5>1. \A y \in L : y >= i
          BY <3>1, <4>1 DEF IsLast
        <5>2. x = Nil
          <6> SUFFICES ASSUME x # Nil PROVE FALSE
            OBVIOUS
          <6>1. x \in L /\ x <= m /\ x \in Nat
            BY <1>1, <4>0
          <6> QED
            BY <1>1, <4>1, <6>1
        <5> QED
          BY <3>1, <3>5, <5>1, <5>2
      <4>2. CASE m # Nil
        <5>1. m \in L /\ m < i /\ \A y \in L : y < i => y <= m
          BY <3>1, <4>2 DEF IsLast
        <5>2. \A y \in L \cap S : y <= i => y <= m
          BY <3>1, <3>5, <5>1
        <5>3. CASE x = Nil
          <6>1. \A y \in L \cap S : y > m
            BY <4>0, <5>3
          <6> QED
            BY <3>1, <3>5, <5>2, <5>3, <6>1
        <5>4. CASE x # Nil
          <6>1. x \in L \cap S /\ x <= m /\ \A y \in L \cap S : y <= m => y <= x
            BY <4>0, <5>4
          <6>2. x \in Nat
            BY <1>1, <6>1
          <6> QED
            BY <1>1, <3>1, <5>1, <5>2, <5>4, <6>1, <6>2
        <5> QED
          BY <5>3, <5>4
      <4> QED
        BY <4>1, <4>2
    <3> QED
      BY <3>4, <3>6 DEF x
  <2> QED
    BY <2>2, <2>3
<1>7. Top + 1 \in P
  <2> HIDE DEF P
  <2> QED
    BY <1>1, <1>5, <1>6, Upwards
<1>8. b \in L \cup {Nil} /\ rank[b] < Top + 1
  BY <1>1, <1>2 DEF Links
<1>9. Last(b, Search(h, b, field, S))
  <2> HIDE DEF Last
  <2> QED
    BY <1>7, <1>8
<1> QED
  BY <1>9

-----------------------------------------------------------------------------
(* The invariant of the heap                                               *)

Chained(h, S) ==
  /\ FreeList(h, S)
  /\ \A a \in Addresses \ S : h.block[a].freeLast = Nil /\ h.block[a].freeNext = Nil

End(h, a) == a + h.block[a].used + h.block[a].free
After(h, a) == IF h.block[a].usedNext = Nil THEN Top ELSE h.block[a].usedNext

\* Each block and the free memory after it reach up to the next block; the two
\* lists are the blocks in address order and those with free memory.
HeapOK(h) ==
  /\ h \in Heaps
  /\ UsedList(h, InUse(h)) /\ Chained(h, HasFree(h))
  /\ \A a \in Addresses : h.block[a].used % Grain = 0 /\ h.block[a].free % Grain = 0
  /\ \A a \in InUse(h) : End(h, a) = After(h, a)
  /\ 0 \in InUse(h) /\ h.block[0].used = Header
  /\ \A a \in Addresses \ InUse(h) : h.block[a] = Gone

PiecesOf(h) == {[at |-> a, size |-> h.block[a].used] : a \in InUse(h) \ {0}}

\* The fields of a block have their types.
LEMMA Typed ==
  ASSUME NEW h \in Heaps, NEW a \in Addresses
  PROVE  /\ h.block[a] \in Blocks /\ a \in Nat /\ a < Top
         /\ h.block[a].used \in Nat /\ h.block[a].free \in Nat
         /\ h.block[a].usedLast \in Links /\ h.block[a].usedNext \in Links
         /\ h.block[a].freeLast \in Links /\ h.block[a].freeNext \in Links
         /\ h.block[a].usedLast \in Int /\ h.block[a].usedNext \in Int
         /\ h.block[a].freeLast \in Int /\ h.block[a].freeNext \in Int
<1>1. h.block[a] \in Blocks /\ \A x \in Links : x \in Int
  BY HeapFacts DEF Heaps, Links
<1> QED
  BY <1>1, HeapFacts DEF Blocks

\* Blocks come one after the other.
LEMMA InOrder ==
  ASSUME NEW h, HeapOK(h), NEW a \in InUse(h)
  PROVE  /\ a \in Addresses /\ a \in Nat /\ h.block[a].used \in Nat /\ h.block[a].free \in Nat
         /\ h.block[a].used > 0 /\ End(h, a) \in Nat /\ End(h, a) <= Top
         /\ \A x \in InUse(h) : x > a => x >= End(h, a)
         /\ HasFree(h) \subseteq InUse(h)
<1>1. /\ h \in Heaps /\ a \in Addresses /\ h.block[a].used # 0 /\ End(h, a) = After(h, a)
      /\ IsNext(InUse(h), a, h.block[a].usedNext)
  BY DEF HeapOK, InUse, UsedList
<1>2. /\ a \in Nat /\ h.block[a].used \in Nat /\ h.block[a].free \in Nat /\ h.block[a].usedNext \in Int
  BY <1>1, Typed
<1>3. InUse(h) \subseteq Nat /\ \A x \in InUse(h) : x < Top
  BY HeapFacts DEF InUse
<1>4. \A x \in InUse(h) : x > a => x >= After(h, a)
  BY <1>1, <1>2, <1>3 DEF IsNext, After
<1>5. After(h, a) <= Top
  BY <1>1, <1>3, HeapFacts DEF IsNext, After
<1>6. HasFree(h) \subseteq InUse(h)
  BY NewBlocks DEF HeapOK, HasFree
<1> QED
  BY <1>1, <1>2, <1>4, <1>5, <1>6 DEF End

\* The list of blocks does not depend on the free list.
LEMMA KeepUsedList ==
  ASSUME NEW h, NEW g, NEW S, S \subseteq Addresses, UsedList(h, S), SameUsedLinks(g, h)
  PROVE  UsedList(g, S)
BY DEF UsedList, SameUsedLinks

\* The free list does not depend on the list of blocks.
LEMMA KeepChained ==
  ASSUME NEW h, NEW g, NEW S, S \subseteq Addresses, Chained(h, S), SameFreeLinks(g, h)
  PROVE  Chained(g, S)
BY DEF Chained, FreeList, SameFreeLinks

\* The new block comes into the free memory of b, room is left before it and rest
\* after it: what has to hold before it goes after b in address order.
Split(k, h, b, new, need, room, rest) ==
  /\ k \in Heaps /\ SameUsedLinks(k, h) /\ Chained(k, HasFree(k))
  /\ \A a \in Addresses :
       /\ k.block[a].used = IF a = new THEN need ELSE h.block[a].used
       /\ k.block[a].free = IF a = new THEN rest ELSE IF a = b THEN room ELSE h.block[a].free

Room(h, b, new, need, room, rest) ==
  /\ need \in Nat /\ need > 0 /\ room \in Nat /\ rest \in Nat
  /\ new = b + h.block[b].used + room /\ room + need + rest = h.block[b].free
  /\ need % Grain = 0 /\ room % Grain = 0 /\ rest % Grain = 0

\* Between b and the next block nothing starts at the new address.
LEMMA NewPlace ==
  ASSUME NEW h, HeapOK(h), NEW b \in InUse(h), NEW new \in Addresses, NEW need, NEW room, NEW rest,
         Room(h, b, new, need, room, rest)
  PROVE  /\ new \notin InUse(h) /\ b < new /\ new + need + rest = End(h, b)
         /\ \A x \in InUse(h) : x > b => x > new
         /\ h.block[new] = Gone
<1>1. /\ b \in Nat /\ h.block[b].used \in Nat /\ h.block[b].used > 0 /\ h.block[b].free \in Nat
      /\ \A x \in InUse(h) : x > b => x >= End(h, b)
  BY InOrder
<1>2. /\ b < new /\ new + need + rest = End(h, b) /\ new \in Nat /\ new < End(h, b)
  BY <1>1 DEF Room, End
<1>3. \A x \in InUse(h) : x \in Nat
  BY InOrder
<1>4. End(h, b) \in Nat
  BY <1>1 DEF End
<1>5. new \notin InUse(h) /\ \A x \in InUse(h) : x > b => x > new
  BY <1>1, <1>2, <1>3, <1>4
<1> QED
  BY <1>2, <1>5 DEF HeapOK

\* Splitting the free memory after a block keeps the heap sound.
LEMMA Placed ==
  ASSUME NEW h, HeapOK(h), NEW b \in InUse(h), NEW new \in Addresses, NEW need, NEW room, NEW rest,
         Room(h, b, new, need, room, rest), NEW k, Split(k, h, b, new, need, room, rest),
         NEW g, g = Follow(k, b, new)
  PROVE  HeapOK(g) /\ PiecesOf(g) = PiecesOf(h) \cup {[at |-> new, size |-> need]}
<1> DEFINE U == InUse(h)
<1>1. /\ new \notin U /\ b < new /\ new + need + rest = End(h, b) /\ \A x \in U : x > b => x > new
      /\ h.block[new] = Gone
  BY NewPlace
<1>2. U \subseteq Addresses /\ b \in Addresses /\ b \in Nat /\ new \in Nat /\ h \in Heaps
      /\ h.block[b].used \in Nat /\ h.block[b].free \in Nat
  BY InOrder DEF InUse, HeapOK, Room
<1>3. UsedList(k, U) /\ k \in Heaps
  BY <1>2, KeepUsedList DEF HeapOK, Split
<1> HIDE DEF U
<1>4. /\ g \in Heaps /\ SameSizes(g, k) /\ SameFreeLinks(g, k) /\ UsedList(g, U \cup {new})
      /\ g.block[new].usedNext = k.block[b].usedNext /\ g.block[b].usedNext = new
      /\ \A a \in Addresses \ (U \cup {new}) : /\ g.block[a].usedLast = k.block[a].usedLast
                                               /\ g.block[a].usedNext = k.block[a].usedNext
      /\ \A a \in U \ {b} : g.block[a].usedNext = k.block[a].usedNext
  <2>1. U \subseteq Addresses /\ b \in U /\ b < new /\ new \notin U /\ \A x \in U : x > b => x > new
    BY <1>1, <1>2 DEF U
  <2> QED
    BY <1>3, <2>1, FollowList
<1>5. \A a \in Addresses :
        /\ g.block[a].used = (IF a = new THEN need ELSE h.block[a].used)
        /\ g.block[a].free = (IF a = new THEN rest ELSE IF a = b THEN room ELSE h.block[a].free)
  BY <1>4 DEF Split, SameSizes
<1>6. InUse(g) = U \cup {new}
  BY <1>5 DEF InUse, U, Room
<1>7. HasFree(g) = HasFree(k)
  BY <1>4 DEF SameSizes, HasFree
<1>8. Chained(g, HasFree(g))
  <2>1. HasFree(k) \subseteq Addresses
    BY DEF HasFree
  <2> QED
    BY <1>4, <1>7, <2>1, KeepChained DEF Split
<1>9. \A a \in Addresses : g.block[a].used % Grain = 0 /\ g.block[a].free % Grain = 0
  BY <1>5 DEF HeapOK, Room
<1>10. ASSUME NEW a \in InUse(g) PROVE End(g, a) = After(g, a)
  <2>1. \A x \in Addresses : k.block[x].usedNext = h.block[x].usedNext
    BY DEF Split, SameUsedLinks
  <2>2. CASE a = new
    <3>1. After(g, new) = After(h, b)
      BY <1>2, <1>4, <2>1 DEF After
    <3>2. End(g, new) = new + need + rest
      BY <1>5 DEF End
    <3> QED
      BY <1>1, <2>2, <3>1, <3>2 DEF HeapOK
  <2>3. CASE a = b
    <3>1. After(g, b) = new
      BY <1>2, <1>4, HeapFacts DEF After
    <3>2. End(g, b) = b + h.block[b].used + room
      BY <1>1, <1>2, <1>5 DEF End
    <3> QED
      BY <2>3, <3>1, <3>2 DEF Room
  <2>4. CASE a # new /\ a # b
    <3>1. a \in U /\ a \in Addresses
      BY <1>2, <1>6, <2>4
    <3>2. After(g, a) = After(h, a)
      BY <1>4, <2>1, <2>4, <3>1 DEF After
    <3>3. End(g, a) = End(h, a)
      BY <1>5, <2>4, <3>1 DEF End
    <3> QED
      BY <3>1, <3>2, <3>3 DEF HeapOK, U
  <2> QED
    BY <2>2, <2>3, <2>4
<1>11. 0 \in InUse(g) /\ g.block[0].used = Header
  BY <1>1, <1>5, <1>6, HeapFacts DEF HeapOK, U
<1>12. ASSUME NEW a \in Addresses \ InUse(g) PROVE g.block[a] = Gone
  <2>1. a \in Addresses /\ a \notin U /\ a # new /\ a # b
    BY <1>6 DEF U
  <2>2. h.block[a] = Gone /\ a \notin HasFree(g)
    BY <1>5, <2>1, NewBlocks DEF HeapOK, U, HasFree
  <2>3. g.block[a].freeLast = Nil /\ g.block[a].freeNext = Nil
    BY <1>8, <2>1, <2>2 DEF Chained
  <2>4. g.block[a].usedLast = Nil /\ g.block[a].usedNext = Nil
    BY <1>4, <2>1, <2>2, NewBlocks DEF Split, SameUsedLinks
  <2>5. g.block[a].used = 0 /\ g.block[a].free = 0
    BY <1>5, <2>1, <2>2, NewBlocks
  <2>6. g.block[a] \in Blocks
    BY <1>4, <2>1 DEF Heaps
  <2> QED
    BY <2>3, <2>4, <2>5, <2>6 DEF Blocks, Gone
<1>13. HeapOK(g)
  BY <1>4, <1>6, <1>8, <1>9, <1>10, <1>11, <1>12 DEF HeapOK
<1>14. PiecesOf(g) = PiecesOf(h) \cup {[at |-> new, size |-> need]}
  <2>1. new # 0 /\ U \subseteq Addresses
    BY <1>1, <1>2 DEF HeapOK, U
  <2>2. \A a \in U : g.block[a].used = h.block[a].used
    BY <1>1, <1>2, <1>5
  <2>3. g.block[new].used = need
    BY <1>5
  <2> QED
    BY <1>6, <2>1, <2>2, <2>3 DEF PiecesOf, U
<1> QED
  BY <1>13, <1>14

-----------------------------------------------------------------------------
(* Allocation                                                              *)

\* The new block, on the list when there is memory left after it.
Carve(h, b, new, need, rest) ==
  LET h1 == [h EXCEPT !.block[new] = Fresh(need, rest)]
  IN  IF h1.block[new].free # 0 THEN LinkAfter(h1, b, new) ELSE h1

Carved(k, h, b, new, need, rest) ==
  /\ k \in Heaps /\ SameUsedLinks(k, h)
  /\ Chained(k, IF rest # 0 THEN HasFree(h) \cup {new} ELSE HasFree(h))
  /\ \A a \in Addresses : /\ k.block[a].used = IF a = new THEN need ELSE h.block[a].used
                          /\ k.block[a].free = IF a = new THEN rest ELSE h.block[a].free

\* The heap after a block is carved out of free memory, block by block.
LEMMA CarveIs ==
  ASSUME NEW h, HeapOK(h), NEW b \in InUse(h), NEW new \in Addresses, NEW need, NEW room, NEW rest,
         Room(h, b, new, need, room, rest), NEW h2, h2 = Carve(h, b, new, need, rest)
  PROVE  Carved(h2, h, b, new, need, rest)
<1> DEFINE h1 == [h EXCEPT !.block[new] = Fresh(need, rest)]
           S  == HasFree(h)
           S2 == IF rest # 0 THEN S \cup {new} ELSE S
<1>1. /\ new \notin InUse(h) /\ b < new /\ \A x \in InUse(h) : x > b => x > new
      /\ h.block[new] = Gone
  BY NewPlace
<1>2. /\ b \in Addresses /\ b \in Nat /\ new \in Nat /\ b # new /\ h \in Heaps
      /\ h.block[b].used \in Nat /\ h.block[b].free \in Nat /\ S \subseteq InUse(h)
      /\ need \in Nat /\ need > 0 /\ room \in Nat /\ rest \in Nat
  BY <1>1, InOrder DEF HeapOK, Room
<1>3. h2 = IF h1.block[new].free # 0 THEN LinkAfter(h1, b, new) ELSE h1
  BY DEF Carve
<1>4. S \subseteq Addresses /\ S2 \subseteq Addresses /\ b \in S /\ new \notin S /\ b \in S2
      /\ \A x \in S : x > b => x > new
  BY <1>1, <1>2 DEF HasFree, Room
<1> HIDE DEF S, S2
<1>5. /\ h1 \in Heaps /\ SameUsedLinks(h1, h) /\ Chained(h1, S)
      /\ \A a \in Addresses : /\ h1.block[a].used = IF a = new THEN need ELSE h.block[a].used
                              /\ h1.block[a].free = IF a = new THEN rest ELSE h.block[a].free
  <2>1. h1 = [h EXCEPT !.block[new] = Fresh(need, rest)]
    OBVIOUS
  <2> HIDE DEF h1
  <2> DEFINE r == Fresh(need, rest)
  <2>2. /\ r \in Blocks /\ r.used = need /\ r.free = rest
        /\ r.usedLast = Nil /\ r.usedNext = Nil /\ r.freeLast = Nil /\ r.freeNext = Nil
    BY <1>2, NewBlocks
  <2> HIDE DEF r
  <2>3. BlockSet(h1, h, new, r)
    BY <1>2, <2>1, <2>2, SetBlock DEF r
  <2>4. SameUsedLinks(h1, h) /\ SameFreeLinks(h1, h)
    BY <1>1, <2>2, <2>3, NewBlocks DEF BlockSet, SameUsedLinks, SameFreeLinks
  <2>5. Chained(h1, S)
    BY <1>4, <2>4, KeepChained DEF HeapOK, S
  <2> QED
    BY <2>2, <2>3, <2>4, <2>5 DEF BlockSet
<1> HIDE DEF h1
<1>6. h2 \in Heaps /\ SameSizes(h2, h1) /\ SameUsedLinks(h2, h1) /\ Chained(h2, S2)
  <2>1. h1.block[new].free = rest
    BY <1>5
  <2>2. CASE rest = 0
    <3>1. h2 = h1 /\ S2 = S
      BY <1>3, <2>1, <2>2 DEF S2
    <3> QED
      BY <1>5, <3>1 DEF SameSizes, SameUsedLinks
  <2>3. CASE rest # 0
    <3>1. h2 = LinkAfter(h1, b, new) /\ S2 = S \cup {new}
      BY <1>3, <2>1, <2>3 DEF S2
    <3>2. FreeList(h1, S)
      BY <1>5 DEF Chained
    <3>3. /\ h2 \in Heaps /\ SameSizes(h2, h1) /\ SameUsedLinks(h2, h1) /\ FreeList(h2, S \cup {new})
          /\ \A a \in Addresses \ (S \cup {new}) : /\ h2.block[a].freeLast = h1.block[a].freeLast
                                                   /\ h2.block[a].freeNext = h1.block[a].freeNext
      <4>1. b < new /\ new \notin S /\ b \in S /\ h1 \in Heaps /\ \A x \in S : x > b => x > new
        BY <1>1, <1>4, <1>5
      <4> QED
        BY <1>4, <3>1, <3>2, <4>1, LinkAfterList
    <3>4. \A a \in Addresses \ S2 : h2.block[a].freeLast = Nil /\ h2.block[a].freeNext = Nil
      BY <1>5, <3>1, <3>3 DEF Chained
    <3> QED
      BY <3>1, <3>3, <3>4 DEF Chained
  <2> QED
    BY <2>2, <2>3
<1>7. \A a \in Addresses : /\ h2.block[a].used = IF a = new THEN need ELSE h.block[a].used
                          /\ h2.block[a].free = IF a = new THEN rest ELSE h.block[a].free
  BY <1>5, <1>6 DEF SameSizes
<1>8. SameUsedLinks(h2, h)
  BY <1>5, <1>6 DEF SameUsedLinks
<1> QED
  BY <1>6, <1>7, <1>8 DEF Carved, S, S2

Parts(h, b, new, need, room, rest) ==
  LET h2 == Carve(h, b, new, need, rest)
      h3 == [h2 EXCEPT !.block[b].free = room]
  IN  Follow(IF h3.block[b].free = 0 THEN Unlink(h3, b) ELSE h3, b, new)

\* CHeap__AllocAt writes the two blocks from three sizes.
LEMMA AllocAtParts ==
  ASSUME NEW h, NEW b, NEW new, NEW need, NEW room, NEW rest,
         new - (b + h.block[b].used) = room,
         (b + h.block[b].used + h.block[b].free) - (new + need) = rest
  PROVE  AllocAtIn(h, b, new, need) = Parts(h, b, new, need, room, rest)
<1>1. AllocAtIn(h, b, new, need) =
        Parts(h, b, new, need, new - (b + h.block[b].used),
              (b + h.block[b].used + h.block[b].free) - (new + need))
  BY DEF AllocAtIn, Parts, Carve
<1> QED
  BY <1>1

\* A block at an address in the free memory of b.
LEMMA AllocAtIs ==
  ASSUME NEW h, HeapOK(h), NEW b \in InUse(h), NEW new \in Addresses, NEW need, NEW room, NEW rest,
         Room(h, b, new, need, room, rest), NEW g, g = AllocAtIn(h, b, new, need)
  PROVE  HeapOK(g) /\ PiecesOf(g) = PiecesOf(h) \cup {[at |-> new, size |-> need]}
<1> DEFINE end == b + h.block[b].used + h.block[b].free
           h2 == Carve(h, b, new, need, rest)
           h3 == [h2 EXCEPT !.block[b].free = room]
           h4 == IF h3.block[b].free = 0 THEN Unlink(h3, b) ELSE h3
           S  == HasFree(h)
           S2 == IF rest # 0 THEN S \cup {new} ELSE S
           S4 == IF room = 0 THEN S2 \ {b} ELSE S2
<1>1. /\ new \notin InUse(h) /\ b < new /\ \A x \in InUse(h) : x > b => x > new
      /\ h.block[new] = Gone
  BY NewPlace
<1>2. /\ b \in Addresses /\ b \in Nat /\ new \in Nat /\ b # new /\ h \in Heaps
      /\ h.block[b].used \in Nat /\ h.block[b].free \in Nat /\ S \subseteq InUse(h)
      /\ need \in Nat /\ need > 0 /\ room \in Nat /\ rest \in Nat
  BY <1>1, InOrder DEF HeapOK, Room
<1>3. g = Follow(h4, b, new)
  <2>1. end - (new + need) = rest /\ new - (b + h.block[b].used) = room
    BY <1>2 DEF Room
  <2> QED
    <3>1. g = Parts(h, b, new, need, room, rest)
      BY <2>1, AllocAtParts
    <3> QED
      BY <3>1 DEF Parts
<1>4. S \subseteq Addresses /\ S2 \subseteq Addresses /\ b \in S /\ new \notin S /\ b \in S2
  BY <1>1, <1>2 DEF HasFree, Room
<1>5. h2 = Carve(h, b, new, need, rest)
  OBVIOUS
<1> HIDE DEF h2
<1>6. Carved(h2, h, b, new, need, rest)
  BY <1>5, CarveIs
<1> HIDE DEF S, S2, S4
<1>6a. h2 \in Heaps /\ Chained(h2, S2) /\ SameUsedLinks(h2, h)
  BY <1>6 DEF Carved, S, S2
<1>7. FreeSet(h3, h2, b, room)
  BY <1>2, <1>6a, SetFree
<1> HIDE DEF h3
<1>8. h3 \in Heaps /\ Chained(h3, S2) /\ h3.block[b].free = room
  BY <1>2, <1>4, <1>6a, <1>7, KeepChained DEF FreeSet
<1>9. h4 \in Heaps /\ SameSizes(h4, h3) /\ SameUsedLinks(h4, h3) /\ Chained(h4, S4)
  <2>1. CASE room # 0
    <3>1. h4 = h3 /\ S4 = S2
      BY <1>8, <2>1 DEF S4
    <3> QED
      BY <1>8, <3>1 DEF SameSizes, SameUsedLinks
  <2>2. CASE room = 0
    <3>1. h4 = Unlink(h3, b) /\ S4 = S2 \ {b}
      BY <1>8, <2>2 DEF S4
    <3> HIDE DEF h4
    <3>2. FreeList(h3, S2)
      BY <1>8 DEF Chained
    <3>3. /\ h4 \in Heaps /\ SameSizes(h4, h3) /\ SameUsedLinks(h4, h3) /\ FreeList(h4, S2 \ {b})
          /\ h4.block[b].freeLast = Nil /\ h4.block[b].freeNext = Nil
          /\ \A a \in Addresses \ S2 : /\ h4.block[a].freeLast = h3.block[a].freeLast
                                       /\ h4.block[a].freeNext = h3.block[a].freeNext
      <4>1. S2 \subseteq Addresses /\ b \in S2 /\ h3 \in Heaps
        BY <1>4, <1>8
      <4> QED
        BY <3>1, <3>2, <4>1, UnlinkList
    <3>4. \A a \in Addresses \ S4 : h4.block[a].freeLast = Nil /\ h4.block[a].freeNext = Nil
      BY <1>8, <3>1, <3>3 DEF Chained
    <3> QED
      BY <3>1, <3>3, <3>4 DEF Chained
  <2> QED
    BY <2>1, <2>2
<1> HIDE DEF h4
<1>10. \A a \in Addresses :
         /\ h4.block[a].used = IF a = new THEN need ELSE h.block[a].used
         /\ h4.block[a].free = IF a = new THEN rest ELSE IF a = b THEN room ELSE h.block[a].free
  BY <1>2, <1>6, <1>7, <1>9 DEF FreeSet, SameSizes, Carved
<1>11. S4 = HasFree(h4)
  BY <1>2, <1>4, <1>10 DEF S, S2, S4, HasFree
<1>12. SameUsedLinks(h4, h)
  BY <1>6a, <1>7, <1>9 DEF SameUsedLinks, FreeSet
<1>13. Split(h4, h, b, new, need, room, rest)
  BY <1>9, <1>10, <1>11, <1>12 DEF Split
<1> QED
  BY <1>3, <1>13, Placed

\* The other two allocators do the same, at either end of the free memory.
LEMMA AllocIs ==
  ASSUME NEW h, HeapOK(h), NEW b \in InUse(h), NEW new \in Addresses, NEW need, NEW rest,
         Room(h, b, new, need, 0, rest)
  PROVE  AllocIn(h, b, need) = AllocAtIn(h, b, new, need)
<1> DEFINE free == h.block[b].free
           h2 == Carve(h, b, new, need, rest)
           h3 == [h2 EXCEPT !.block[b].free = 0]
<1>1. /\ b \in Nat /\ b \in Addresses /\ h.block[b].used \in Nat /\ free \in Nat
      /\ need \in Nat /\ new \in Nat /\ rest \in Nat
      /\ new = b + h.block[b].used /\ rest = free - need
  BY InOrder DEF Room
<1>2. AllocIn(h, b, need) = Follow(Unlink(h3, b), b, new)
  BY <1>1 DEF AllocIn, Carve
<1>3. (b + h.block[b].used + free) - (new + need) = rest /\ new - (b + h.block[b].used) = 0
  BY <1>1
<1>4. AllocAtIn(h, b, new, need) =
        Follow(IF h3.block[b].free = 0 THEN Unlink(h3, b) ELSE h3, b, new)
  <2>1. AllocAtIn(h, b, new, need) = Parts(h, b, new, need, 0, rest)
    BY <1>3, AllocAtParts
  <2> QED
    BY <2>1 DEF Parts
<1>5. h3.block[b].free = 0
  <2>1. h2 = Carve(h, b, new, need, rest)
    OBVIOUS
  <2> HIDE DEF h2
  <2>2. h2 \in Heaps
    BY <2>1, CarveIs DEF Carved
  <2>3. FreeSet(h3, h2, b, 0)
    BY <1>1, <2>2, SetFree
  <2> QED
    BY <1>1, <2>3 DEF FreeSet
<1> QED
  BY <1>2, <1>4, <1>5

\* CHeap__AllocTop is CHeap__AllocAt at the end of the free memory.
LEMMA AllocTopIs ==
  ASSUME NEW h, HeapOK(h), NEW b \in InUse(h), NEW new \in Addresses, NEW need, NEW room,
         Room(h, b, new, need, room, 0)
  PROVE  AllocTopIn(h, b, need) = AllocAtIn(h, b, new, need)
<1> DEFINE free == h.block[b].free
           h1 == [h EXCEPT !.block[new] = Fresh(need, 0)]
           h3 == [h1 EXCEPT !.block[b].free = room]
<1>1. /\ b \in Nat /\ b \in Addresses /\ h.block[b].used \in Nat /\ free \in Nat
      /\ need \in Nat /\ new \in Nat /\ room \in Nat /\ h \in Heaps
      /\ new = b + h.block[b].used + free - need /\ room = free - need
      /\ new - (b + h.block[b].used) = room
      /\ (b + h.block[b].used + free) - (new + need) = 0
  BY InOrder DEF Room, HeapOK
<1>2. b # new
  BY <1>1, NewPlace
<1>3. h1 \in Heaps /\ h1.block[b] = h.block[b] /\ h1.block[new].free = 0
  <2>1. Fresh(need, 0) \in Blocks /\ Fresh(need, 0).free = 0
    BY <1>1, NewBlocks
  <2>2. h1 = [h EXCEPT !.block[new] = Fresh(need, 0)]
    OBVIOUS
  <2> HIDE DEF h1
  <2>3. BlockSet(h1, h, new, Fresh(need, 0))
    BY <1>1, <2>1, <2>2, SetBlock
  <2> QED
    BY <1>1, <1>2, <2>1, <2>3 DEF BlockSet
<1>4. AllocTopIn(h, b, need) =
        Follow(IF h3.block[b].free = 0 THEN Unlink(h3, b) ELSE h3, b, new)
  <2>1. [h EXCEPT !.block[new] = Fresh(need, 0), !.block[b].free = @ - need] = h3
    <3>1. [h EXCEPT !.block[new] = Fresh(need, 0), !.block[b].free = @ - need] =
          [h1 EXCEPT !.block[b].free = h1.block[b].free - need]
      BY <1>1, <1>2 DEF Heaps, Blocks
    <3>2. h1.block[b].free - need = room
      BY <1>1, <1>3
    <3> QED
      BY <3>1, <3>2
  <2> QED
    BY <1>1, <2>1 DEF AllocTopIn
<1>5. AllocAtIn(h, b, new, need) =
        Follow(IF h3.block[b].free = 0 THEN Unlink(h3, b) ELSE h3, b, new)
  <2>1. AllocAtIn(h, b, new, need) = Parts(h, b, new, need, room, 0)
    BY <1>1, AllocAtParts
  <2>2. Carve(h, b, new, need, 0) = h1
    BY <1>3 DEF Carve
  <2> QED
    BY <2>1, <2>2 DEF Parts
<1> QED
  BY <1>4, <1>5

-----------------------------------------------------------------------------
(* Freeing                                                                 *)

\* The block before the freed one, and how it comes on the free list.
Before(h, b, last) ==
  /\ last \in InUse(h) /\ last < b /\ h.block[last].usedNext = b
  /\ \A x \in InUse(h) : x < b => x <= last

\* Every block but the header has one before it.
LEMMA BeforeIs ==
  ASSUME NEW h, HeapOK(h), NEW b \in InUse(h), b # 0, NEW last, last = h.block[b].usedLast
  PROVE  Before(h, b, last)
<1>1. /\ h \in Heaps /\ 0 \in InUse(h) /\ b \in Addresses /\ b \in Nat
      /\ InUse(h) \subseteq Nat /\ InUse(h) \subseteq Addresses
  BY HeapFacts DEF HeapOK, InUse
<1>2. IsLast(InUse(h), b, last) /\ last \in Int
  BY <1>1, Typed DEF HeapOK, UsedList
<1>3. last \in InUse(h) /\ last < b /\ \A x \in InUse(h) : x < b => x <= last
  BY <1>1, <1>2, HeapFacts DEF IsLast
<1>4. IsNext(InUse(h), last, h.block[last].usedNext) /\ h.block[last].usedNext \in Int
  BY <1>1, <1>3, Typed DEF HeapOK, UsedList
<1>5. h.block[last].usedNext = b
  BY <1>1, <1>2, <1>3, <1>4, Mutual
<1> QED
  BY <1>3, <1>5 DEF Before

Joined(h, b) ==
  LET r    == h.block[b]
      last == r.usedLast
      near == IF r.freeLast # Nil THEN r.freeLast
              ELSE Search(h, last, "usedLast", {i \in Addresses : h.block[i].free # 0})
  IN  IF h.block[last].free # 0 THEN h
      ELSE IF near # Nil THEN LinkAfter(h, near, last) ELSE LinkFirst(h, last)

\* A block comes on the free list as its first.
Comes(g, h, S, new) ==
  g \in Heaps /\ SameSizes(g, h) /\ SameUsedLinks(g, h) /\ Chained(g, S \cup {new})

\* A block that gets free memory, below all others that have some, comes first.
LEMMA ComesFirst ==
  ASSUME NEW h \in Heaps, NEW S, S \subseteq Addresses, Chained(h, S), NEW new \in Addresses,
         new \notin S, Above(S, new)
  PROVE  Comes(LinkFirst(h, new), h, S, new)
<1> DEFINE g == LinkFirst(h, new)
<1>1. FreeList(h, S) /\ h.block[new].freeLast = Nil
  BY DEF Chained
<1>2. g = LinkFirst(h, new)
  OBVIOUS
<1> HIDE DEF g
<1>3. /\ g \in Heaps /\ SameSizes(g, h) /\ SameUsedLinks(g, h) /\ FreeList(g, S \cup {new})
      /\ \A a \in Addresses \ (S \cup {new}) : /\ g.block[a].freeLast = h.block[a].freeLast
                                               /\ g.block[a].freeNext = h.block[a].freeNext
  BY <1>1, <1>2, LinkFirstList
<1>4. Comes(g, h, S, new)
  BY <1>3 DEF Comes, Chained
<1> QED
  BY <1>2, <1>4

\* The block before the freed one is on the free list, at its place.
LEMMA JoinIs ==
  ASSUME NEW h, HeapOK(h), NEW b \in InUse(h), b # 0, NEW last, last = h.block[b].usedLast,
         NEW h1, h1 = Joined(h, b)
  PROVE  h1 \in Heaps /\ SameSizes(h1, h) /\ SameUsedLinks(h1, h) /\ Chained(h1, HasFree(h) \cup {last})
<1> DEFINE S == HasFree(h)
           near == IF h.block[b].freeLast # Nil THEN h.block[b].freeLast
                   ELSE Search(h, last, "usedLast", S)
<1>1. /\ h \in Heaps /\ InUse(h) \subseteq Addresses /\ InUse(h) \subseteq Nat /\ S \subseteq InUse(h)
      /\ S \subseteq Addresses /\ b \in Nat /\ b \in Addresses
      /\ UsedList(h, InUse(h)) /\ Chained(h, S) /\ FreeList(h, S)
  BY InOrder, HeapFacts DEF HeapOK, InUse, Chained
<1>2. last \in InUse(h) /\ last < b /\ \A x \in InUse(h) : x < b => x <= last
  BY BeforeIs DEF Before
<1>3. h1 = IF h.block[last].free # 0 THEN h
           ELSE IF near # Nil THEN LinkAfter(h, near, last) ELSE LinkFirst(h, last)
  BY DEF Joined, HasFree
<1>4. last \in Addresses /\ last \in Nat /\ last < Top
  BY <1>1, <1>2, Typed
<1>5. CASE h.block[last].free # 0
  <2>1. last \in S
    BY <1>4, <1>5 DEF HasFree
  <2>2. h1 = h /\ S \cup {last} = S
    BY <1>3, <1>5, <2>1
  <2> QED
    BY <1>1, <2>2 DEF SameSizes, SameUsedLinks
<1>6. CASE h.block[last].free = 0
  <2>1. last \notin S
    BY <1>6 DEF HasFree
  <2>2. IF near = Nil THEN \A y \in S : y > last
        ELSE near \in S /\ near < last /\ \A y \in S : y > near => y > last
    <3>1. CASE h.block[b].freeLast # Nil
      <4>1. near = h.block[b].freeLast /\ near \in Int /\ near # Nil
        BY <1>1, <3>1, Typed
      <4> HIDE DEF near, S
      <4>2. b \in S
        BY <1>1, <3>1 DEF Chained
      <4>3. IsLast(S, b, near)
        BY <4>1, <4>2, <1>1 DEF FreeList
      <4>4. near \in S /\ near < b /\ \A x \in S : x < b => x <= near
        BY <4>1, <4>3 DEF IsLast
      <4>5. near \in Nat /\ near # last /\ near <= last
        BY <1>1, <1>2, <2>1, <4>4
      <4>6. ASSUME NEW y \in S, y > near PROVE y > last
        <5>1. y \in Nat /\ ~(y < b)
          BY <1>1, <4>4, <4>5, <4>6
        <5> QED
          BY <1>1, <1>2, <1>4, <5>1
      <4> QED
        BY <1>4, <4>1, <4>4, <4>5, <4>6
    <3>2. CASE h.block[b].freeLast = Nil
      <4> DEFINE U == InUse(h)
                 link == "usedLast"
                 x == Search(h, last, link, S)
      <4>1. near = x
        BY <3>2
      <4>2. \A a \in U : h.block[a][link] \in Links /\ IsLast(U, a, h.block[a][link])
        BY <1>1, Typed DEF UsedList
      <4>3. \A a \in Addresses \ U : h.block[a][link] = Nil
        BY NewBlocks DEF HeapOK
      <4> HIDE DEF U, S, near, link
      <4>4. IF x = Nil THEN \A y \in U \cap S : y > last
            ELSE x \in U \cap S /\ x <= last /\ \A y \in U \cap S : y <= last => y <= x
        <5>1. h \in Heaps /\ Falling(h, link, U) /\ last \in U \cup {Nil}
          BY <1>1, <1>2, <4>2, <4>3 DEF U, Falling
        <5> QED
          BY <5>1, SearchDown
      <4> HIDE DEF x
      <4>5. U \cap S = S /\ \A y \in S : y \in Nat /\ y # last
        BY <1>1, <2>1 DEF U
      <4>6. CASE x = Nil
        BY <4>1, <4>4, <4>5, <4>6
      <4>7. CASE x # Nil
        <5>1. x \in S /\ x <= last /\ (\A y \in S : y <= last => y <= x) /\ x \in Nat /\ x # last
          BY <4>4, <4>5, <4>7
        <5> QED
          BY <1>4, <4>1, <4>5, <4>7, <5>1
      <4> QED
        BY <4>6, <4>7
    <3> QED
      BY <3>1, <3>2
  <2> HIDE DEF near, S
  <2>3. CASE near = Nil
    <3>1. h1 = LinkFirst(h, last) /\ \A y \in S : y > last
      BY <1>3, <1>6, <2>2, <2>3
    <3>2. h \in Heaps /\ S \subseteq Addresses /\ Chained(h, S) /\ Above(S, last)
      BY <1>1, <3>1 DEF S, Above
    <3>3. Comes(h1, h, S, last)
      BY <1>4, <2>1, <3>1, <3>2, ComesFirst
    <3> QED
      BY <3>3 DEF Comes, S
  <2>4. CASE near # Nil
    <3>1. h1 = LinkAfter(h, near, last) /\ near \in S /\ near < last /\ \A y \in S : y > near => y > last
      BY <1>3, <1>6, <2>2, <2>4
    <3>2. /\ h1 \in Heaps /\ SameSizes(h1, h) /\ SameUsedLinks(h1, h) /\ FreeList(h1, S \cup {last})
          /\ \A a \in Addresses \ (S \cup {last}) : /\ h1.block[a].freeLast = h.block[a].freeLast
                                                    /\ h1.block[a].freeNext = h.block[a].freeNext
      <4>1. h \in Heaps /\ S \subseteq Addresses /\ FreeList(h, S) /\ last \in Addresses
        BY <1>1, <1>4 DEF S
      <4> QED
        BY <2>1, <3>1, <4>1, LinkAfterList
    <3> QED
      BY <1>1, <3>2 DEF Chained, S
  <2> QED
    BY <2>3, <2>4
<1> QED
  BY <1>5, <1>6

\* The freed block leaves the free list, which it does not begin.
Dropped(h, b) ==
  LET s == h.block[b]
      k == [SetLink(SetLink(h, s.freeLast, "freeNext", s.freeNext), s.freeNext, "freeLast", s.freeLast)
              EXCEPT !.tail = IF @ = b THEN s.freeLast ELSE @]
  IN  [k EXCEPT !.block[b] = Gone]

NotFirst(S, b) == \E x \in S : x < b

\* A block that is on the free list behind another leaves it, and is gone.
LEMMA DropIs ==
  ASSUME NEW h \in Heaps, NEW S, S \subseteq Addresses, Chained(h, S), NEW b \in S,
         NotFirst(S, b), NEW g, g = Dropped(h, b)
  PROVE  /\ g \in Heaps /\ Chained(g, S \ {b}) /\ g.block[b] = Gone
         /\ \A a \in Addresses \ {b} :
              /\ g.block[a].used = h.block[a].used /\ g.block[a].free = h.block[a].free
              /\ g.block[a].usedLast = h.block[a].usedLast /\ g.block[a].usedNext = h.block[a].usedNext
<1>0. PICK x \in S : x < b
  BY DEF NotFirst
<1> USE <1>0
<1> DEFINE next == h.block[b].freeNext
           last == h.block[b].freeLast
           h1 == SetLink(h, last, "freeNext", next)
           h2 == SetLink(h1, next, "freeLast", last)
           t  == IF h2.tail = b THEN last ELSE h2.tail
           h3 == [h2 EXCEPT !.tail = t]
<1>1. /\ b \in Addresses /\ next \in Links /\ last \in Links /\ Nil \in Links
      /\ S \subseteq Nat /\ next \in Int /\ last \in Int /\ FreeList(h, S)
  BY HeapFacts, Typed DEF Links, Chained
<1>2. IsNext(S, b, next) /\ IsLast(S, b, last)
  BY <1>1 DEF FreeList
<1>3. g = [h3 EXCEPT !.block[b] = Gone]
  BY DEF Dropped
<1>4. h1 = SetLink(h, last, "freeNext", next)
  OBVIOUS
<1> HIDE DEF h1
<1>5. h2 = SetLink(h1, next, "freeLast", last)
  OBVIOUS
<1> HIDE DEF h2, next, last
<1>6. FreeNextSet(h1, h, last, next)
  BY <1>1, <1>4, SetFreeNext
<1>7. FreeLastSet(h2, h1, next, last)
  <2>1. h1 \in Heaps
    BY <1>6 DEF FreeNextSet
  <2> QED
    BY <1>1, <1>5, <2>1, SetFreeLast
<1>8. t \in Links /\ t = IF h.tail = b THEN last ELSE h.tail
  BY <1>1, <1>6, <1>7 DEF FreeNextSet, FreeLastSet, Heaps
<1> HIDE DEF t
<1>9. EndsSet(h3, h2, h2.head, t)
  BY <1>7, <1>8, SetTail DEF FreeLastSet
<1> HIDE DEF h3
<1>10. BlockSet(g, h3, b, Gone)
  BY <1>1, <1>3, <1>9, NewBlocks, SetBlock DEF EndsSet
<1>11. /\ g \in Heaps /\ g.head = h.head /\ g.tail = t /\ g.block[b] = Gone
  BY <1>1, <1>6, <1>7, <1>9, <1>10 DEF FreeNextSet, FreeLastSet, EndsSet, BlockSet
<1>12. \A a \in Addresses \ {b} :
         /\ g.block[a].used = h.block[a].used /\ g.block[a].free = h.block[a].free
         /\ g.block[a].usedLast = h.block[a].usedLast /\ g.block[a].usedNext = h.block[a].usedNext
  BY <1>6, <1>7, <1>9, <1>10 DEF FreeNextSet, FreeLastSet, EndsSet, BlockSet, SameSizes, SameUsedLinks
<1>13. \A a \in Addresses \ {b} :
         /\ g.block[a].freeNext = (IF a = last THEN next ELSE h.block[a].freeNext)
         /\ g.block[a].freeLast = (IF a = next THEN last ELSE h.block[a].freeLast)
  BY <1>6, <1>7, <1>9, <1>10 DEF FreeNextSet, FreeLastSet, EndsSet, BlockSet
<1>14. g.block[b].freeLast = Nil /\ g.block[b].freeNext = Nil
  BY <1>11, NewBlocks
<1> DEFINE T == S \ {b}
<1>15. /\ \A a \in T \cup {Nil}, n \in Int : IsNext(S, a, n) => IsNext(T, a, IF n = b THEN next ELSE n)
       /\ \A a \in T \cup {Top}, l \in Int : IsLast(S, a, l) => IsLast(T, a, IF l = b THEN last ELSE l)
  BY <1>1, <1>2, SetDrop
<1> HIDE DEF T
<1>16. \A a \in S : h.block[a].freeLast \in Int /\ h.block[a].freeNext \in Int
                    /\ IsNext(S, a, h.block[a].freeNext) /\ IsLast(S, a, h.block[a].freeLast)
  <2>1. \A a \in S : h.block[a].freeLast \in Int /\ h.block[a].freeNext \in Int
    BY Typed
  <2> QED
    BY <1>1, <2>1 DEF FreeList
<1>17. IsNext(T, Nil, g.head) /\ IsLast(T, Top, g.tail)
  <2>1. IsNext(S, Nil, h.head) /\ IsLast(S, Top, h.tail) /\ h.head \in Int /\ h.tail \in Int
    BY <1>1, HeapFacts DEF FreeList, Heaps, Links
  <2>2. h.head # b
    BY <1>1, <2>1, HeapFacts DEF IsNext
  <2> QED
    BY <1>8, <1>11, <1>15, <2>1, <2>2
<1>18. ASSUME NEW a \in S, a # b
       PROVE  IsNext(T, a, g.block[a].freeNext) /\ IsLast(T, a, g.block[a].freeLast)
  <2>1. (h.block[a].freeLast = b <=> a = next) /\ (h.block[a].freeNext = b <=> a = last)
    BY <1>1, <1>2, <1>16, Mutual
  <2> QED
    BY <1>1, <1>13, <1>15, <1>16, <1>18, <2>1 DEF T
<1>19. FreeList(g, S \ {b})
  BY <1>17, <1>18 DEF FreeList, T
<1>20. \A a \in Addresses \ S : a # next /\ a # last
  BY <1>2, HeapFacts DEF IsNext, IsLast
<1>21. Chained(g, S \ {b})
  BY <1>1, <1>13, <1>14, <1>19, <1>20 DEF Chained
<1> QED
  BY <1>11, <1>12, <1>21

\* The memory goes to the block before, and the freed block leaves the address
\* order.
Merge(h, b) ==
  LET r    == h.block[b]
      last == r.usedLast
      h2   == [Joined(h, b) EXCEPT !.block[last].free = @ + r.used + r.free]
  IN  SetLink(SetLink(h2, r.usedNext, "usedLast", last), last, "usedNext", r.usedNext)

Merged(k, h, b, last, next) ==
  /\ k \in Heaps /\ Chained(k, HasFree(h) \cup {last})
  /\ \A a \in Addresses :
       /\ k.block[a].used = h.block[a].used
       /\ k.block[a].free = IF a = last THEN h.block[a].free + h.block[b].used + h.block[b].free
                            ELSE h.block[a].free
       /\ k.block[a].usedNext = IF a = last THEN next ELSE h.block[a].usedNext
       /\ k.block[a].usedLast = IF a = next THEN last ELSE h.block[a].usedLast

\* The block before the freed one gets its memory.
LEMMA MergeIs ==
  ASSUME NEW h, HeapOK(h), NEW b \in InUse(h), b # 0, NEW last, last = h.block[b].usedLast,
         NEW next, next = h.block[b].usedNext, NEW k, k = Merge(h, b)
  PROVE  Merged(k, h, b, last, next)
<1> DEFINE r  == h.block[b]
           h1 == Joined(h, b)
           n  == h1.block[last].free + r.used + r.free
           h2 == [h1 EXCEPT !.block[last].free = n]
           k1 == SetLink(h2, next, "usedLast", last)
<1>1. /\ h \in Heaps /\ b \in Addresses /\ last \in InUse(h) /\ last \in Addresses /\ last \in Links
      /\ next \in Links /\ r.used \in Nat /\ r.free \in Nat /\ last < b /\ b \in Nat
      /\ HasFree(h) \subseteq Addresses
  <2>1. h \in Heaps /\ last \in InUse(h) /\ last < b
    BY BeforeIs DEF Before, HeapOK
  <2>2. b \in Addresses /\ last \in Addresses
    BY <2>1 DEF InUse
  <2> QED
    BY <2>1, <2>2, Typed DEF Links, HasFree
<1>2. h1 \in Heaps /\ SameSizes(h1, h) /\ SameUsedLinks(h1, h) /\ Chained(h1, HasFree(h) \cup {last})
  BY JoinIs
<1>3. k = SetLink(k1, last, "usedNext", next)
  BY DEF Merge
<1> HIDE DEF h1
<1>4. n \in Nat /\ n = h.block[last].free + r.used + r.free
  <2>1. h1.block[last].free = h.block[last].free /\ h.block[last].free \in Nat
    BY <1>1, <1>2, Typed DEF SameSizes
  <2> QED
    BY <1>1, <2>1
<1>5. h2 = [h1 EXCEPT !.block[last].free = n]
  OBVIOUS
<1> HIDE DEF n, h2, r
<1>6. FreeSet(h2, h1, last, n)
  BY <1>1, <1>2, <1>4, <1>5, SetFree
<1>7. k1 = SetLink(h2, next, "usedLast", last)
  OBVIOUS
<1> HIDE DEF k1
<1>8. UsedLastSet(k1, h2, next, last)
  <2>1. h2 \in Heaps
    BY <1>6 DEF FreeSet
  <2> QED
    BY <1>1, <1>7, <2>1, SetUsedLast
<1>9. UsedNextSet(k, k1, last, next)
  <2>1. k1 \in Heaps
    BY <1>8 DEF UsedLastSet
  <2> QED
    BY <1>1, <1>3, <2>1, SetUsedNext
<1>10. Chained(k, HasFree(h) \cup {last})
  <2>1. SameFreeLinks(k, h1)
    BY <1>6, <1>8, <1>9 DEF FreeSet, UsedLastSet, UsedNextSet, SameFreeLinks
  <2>2. HasFree(h) \cup {last} \subseteq Addresses
    BY <1>1
  <2> QED
    BY <1>2, <2>1, <2>2, KeepChained
<1>11. k \in Heaps
  BY <1>9 DEF UsedNextSet
<1>12. ASSUME NEW a \in Addresses
       PROVE  /\ k.block[a].used = h.block[a].used
              /\ k.block[a].free = IF a = last THEN n ELSE h.block[a].free
              /\ k.block[a].usedNext = IF a = last THEN next ELSE h.block[a].usedNext
              /\ k.block[a].usedLast = IF a = next THEN last ELSE h.block[a].usedLast
  BY <1>2, <1>6, <1>8, <1>9 DEF FreeSet, UsedLastSet, UsedNextSet, SameSizes, SameUsedLinks
<1>13. ASSUME NEW a \in Addresses, a = last PROVE n = h.block[a].free + h.block[b].used + h.block[b].free
  BY <1>4, <1>13 DEF r
<1> QED
  BY <1>10, <1>11, <1>12, <1>13 DEF Merged

\* What CHeap__Free changes, block by block.
LEMMA FreedIs ==
  ASSUME NEW h, HeapOK(h), NEW b \in InUse(h), b # 0, NEW g, g = FreeIn(h, b)
  PROVE  /\ g \in Heaps /\ g.block[b] = Gone
         /\ Chained(g, (HasFree(h) \cup {h.block[b].usedLast}) \ {b})
         /\ LET last == h.block[b].usedLast
                next == h.block[b].usedNext IN
            \A a \in Addresses \ {b} :
              /\ g.block[a].used = h.block[a].used
              /\ g.block[a].free = IF a = last THEN h.block[a].free + h.block[b].used + h.block[b].free
                                   ELSE h.block[a].free
              /\ g.block[a].usedNext = IF a = last THEN next ELSE h.block[a].usedNext
              /\ g.block[a].usedLast = IF a = next THEN last ELSE h.block[a].usedLast
<1> DEFINE last == h.block[b].usedLast
           next == h.block[b].usedNext
           k == Merge(h, b)
           S == HasFree(h) \cup {last}
<1>1. g = IF k.block[b].free = 0 THEN [k EXCEPT !.block[b] = Gone] ELSE Dropped(k, b)
  <2>1. g = LET s  == k.block[b]
                h4 == IF s.free = 0 THEN k
                      ELSE [SetLink(SetLink(k, s.freeLast, "freeNext", s.freeNext),
                                    s.freeNext, "freeLast", s.freeLast)
                              EXCEPT !.tail = IF @ = b THEN s.freeLast ELSE @]
            IN  [h4 EXCEPT !.block[b] = Gone]
    BY DEF FreeIn, Merge, Joined
  <2> HIDE DEF k
  <2> QED
    BY <2>1 DEF Dropped
<1>2. /\ h \in Heaps /\ b \in Addresses /\ last \in Addresses /\ last < b /\ b \in Nat /\ last \in Nat
      /\ HasFree(h) \subseteq Addresses
  <2>1. h \in Heaps /\ last \in InUse(h) /\ last < b
    BY BeforeIs DEF Before, HeapOK
  <2>2. b \in Addresses /\ last \in Addresses
    BY <2>1 DEF InUse
  <2> QED
    BY <2>1, <2>2, Typed DEF HasFree
<1>3. k = Merge(h, b)
  OBVIOUS
<1> HIDE DEF k
<1>4. Merged(k, h, b, last, next)
  BY <1>3, MergeIs
<1> HIDE DEF last, next
<1>5. k \in Heaps /\ Chained(k, S) /\ S \subseteq Addresses /\ last \in S
  BY <1>2, <1>4 DEF Merged
<1>6. k.block[b].free = h.block[b].free
  BY <1>2, <1>4 DEF Merged
<1>7. /\ g \in Heaps /\ g.block[b] = Gone /\ Chained(g, S \ {b})
      /\ \A a \in Addresses \ {b} :
           /\ g.block[a].used = k.block[a].used /\ g.block[a].free = k.block[a].free
           /\ g.block[a].usedLast = k.block[a].usedLast /\ g.block[a].usedNext = k.block[a].usedNext
  <2>1. CASE h.block[b].free = 0
    <3>1. g = [k EXCEPT !.block[b] = Gone]
      BY <1>1, <1>6, <2>1
    <3>2. BlockSet(g, k, b, Gone)
      BY <1>2, <1>5, <3>1, NewBlocks, SetBlock
    <3>3. b \notin S /\ S \ {b} = S
      BY <1>2, <2>1 DEF HasFree
    <3> HIDE DEF S
    <3>4. k.block[b].freeLast = Nil /\ k.block[b].freeNext = Nil
      BY <1>2, <1>5, <3>3 DEF Chained
    <3>5. SameFreeLinks(g, k)
      BY <3>2, <3>4, NewBlocks DEF BlockSet, SameFreeLinks
    <3>6. Chained(g, S)
      BY <1>5, <3>5, KeepChained
    <3> QED
      BY <1>2, <3>2, <3>3, <3>6 DEF BlockSet
  <2>2. CASE h.block[b].free # 0
    <3>1. g = Dropped(k, b)
      BY <1>1, <1>6, <2>2
    <3>2. b \in S
      BY <1>2, <2>2 DEF HasFree
    <3> HIDE DEF S
    <3> QED
      <4>1. k \in Heaps /\ S \subseteq Addresses /\ Chained(k, S) /\ NotFirst(S, b)
        BY <1>2, <1>5 DEF NotFirst
      <4> QED
        BY <3>1, <3>2, <4>1, DropIs
  <2> QED
    BY <2>1, <2>2
<1> HIDE DEF S
<1>8. \A a \in Addresses \ {b} :
              /\ g.block[a].used = h.block[a].used
              /\ g.block[a].free = IF a = last THEN h.block[a].free + h.block[b].used + h.block[b].free
                                   ELSE h.block[a].free
              /\ g.block[a].usedNext = IF a = last THEN next ELSE h.block[a].usedNext
              /\ g.block[a].usedLast = IF a = next THEN last ELSE h.block[a].usedLast
  BY <1>4, <1>7 DEF Merged
<1> QED
  BY <1>7, <1>8 DEF last, next, S

\* The block goes, and its memory is free.
LEMMA FreeIs ==
  ASSUME NEW h, HeapOK(h), NEW b \in InUse(h), b # 0, NEW g, g = FreeIn(h, b)
  PROVE  /\ HeapOK(g) /\ InUse(g) = InUse(h) \ {b}
         /\ PiecesOf(g) = PiecesOf(h) \ {[at |-> b, size |-> h.block[b].used]}
<1> DEFINE last == h.block[b].usedLast
           next == h.block[b].usedNext
           U == InUse(h)
           S == HasFree(h) \cup {last}
<1>1. /\ h \in Heaps /\ b \in Addresses /\ b \in Nat /\ last \in Nat /\ last \in Addresses
      /\ last \in U /\ last < b /\ h.block[last].usedNext = b /\ U \subseteq Addresses /\ U \subseteq Nat
      /\ next \in Int /\ last \in Int /\ 0 \in U /\ UsedList(h, U)
      /\ HasFree(h) \subseteq U
  <2>1. h \in Heaps /\ last \in InUse(h) /\ last < b /\ h.block[last].usedNext = b
    BY BeforeIs DEF Before, HeapOK
  <2>2. b \in Addresses /\ last \in Addresses /\ U \subseteq Addresses
    BY <2>1 DEF InUse
  <2>3. next \in Int
    BY <2>1, <2>2, Typed
  <2>4. U \subseteq Nat /\ HasFree(h) \subseteq U
    BY InOrder
  <2> QED
    BY <2>1, <2>2, <2>3, <2>4 DEF HeapOK
<1>2. /\ g \in Heaps /\ g.block[b] = Gone /\ Chained(g, S \ {b})
      /\ \A a \in Addresses \ {b} :
           /\ g.block[a].used = h.block[a].used
           /\ g.block[a].free = IF a = last THEN h.block[a].free + h.block[b].used + h.block[b].free
                                ELSE h.block[a].free
           /\ g.block[a].usedNext = IF a = last THEN next ELSE h.block[a].usedNext
           /\ g.block[a].usedLast = IF a = next THEN last ELSE h.block[a].usedLast
  BY FreedIs
<1>3. /\ h.block[last].free \in Nat /\ h.block[b].used \in Nat /\ h.block[b].free \in Nat
      /\ h.block[last].used \in Nat /\ h.block[b].used > 0
      /\ End(h, last) = b /\ End(h, b) = After(h, b)
  <2>1. After(h, last) = b
    BY <1>1, HeapFacts DEF After
  <2> QED
    BY <1>1, <2>1, InOrder DEF HeapOK
<1>4. InUse(g) = U \ {b}
  <2>1. ASSUME NEW a \in Addresses PROVE a \in InUse(g) <=> a \in U \ {b}
    BY <1>2, NewBlocks DEF InUse
  <2> QED
    BY <1>1, <2>1 DEF InUse
<1>5. HasFree(g) = S \ {b}
  <2>1. ASSUME NEW a \in Addresses PROVE a \in HasFree(g) <=> a \in S \ {b}
    <3>1. CASE a = b
      BY <1>2, <3>1, NewBlocks DEF HasFree
    <3>2. CASE a = last
      BY <1>1, <1>2, <1>3, <3>2 DEF HasFree
    <3>3. CASE a # b /\ a # last
      BY <1>2, <3>3 DEF HasFree
    <3> QED
      BY <3>1, <3>2, <3>3
  <2> QED
    BY <1>1, <2>1 DEF HasFree
<1> HIDE DEF S, U, last, next
<1>6. UsedList(g, U \ {b})
  <2> DEFINE T == U \ {b}
  <2>1. IsNext(U, b, next) /\ IsLast(U, b, last) /\ b \in U
    BY <1>1 DEF UsedList, next, last, U
  <2>2. /\ \A a \in T \cup {Nil}, n \in Int : IsNext(U, a, n) => IsNext(T, a, IF n = b THEN next ELSE n)
        /\ \A a \in T \cup {Top}, l \in Int : IsLast(U, a, l) => IsLast(T, a, IF l = b THEN last ELSE l)
    BY <1>1, <2>1, SetDrop
  <2> HIDE DEF T
  <2>3. ASSUME NEW a \in U, a # b
        PROVE  IsNext(T, a, g.block[a].usedNext) /\ IsLast(T, a, g.block[a].usedLast)
    <3>1. /\ h.block[a].usedLast \in Int /\ h.block[a].usedNext \in Int
          /\ IsNext(U, a, h.block[a].usedNext) /\ IsLast(U, a, h.block[a].usedLast)
      BY <1>1, Typed DEF UsedList
    <3>2. (h.block[a].usedLast = b <=> a = next) /\ (h.block[a].usedNext = b <=> a = last)
      BY <1>1, <2>1, <3>1, Mutual
    <3>3. a \in T /\ a \in Addresses \ {b}
      BY <1>1, <2>3 DEF T
    <3> QED
      BY <1>2, <2>2, <3>1, <3>2, <3>3
  <2> QED
    BY <2>3 DEF UsedList, T
<1>7. \A a \in Addresses : g.block[a].used % Grain = 0 /\ g.block[a].free % Grain = 0
  <2>1. \A a \in Addresses : h.block[a].used % Grain = 0 /\ h.block[a].free % Grain = 0
    BY DEF HeapOK
  <2>2. (h.block[last].free + h.block[b].used + h.block[b].free) % Grain = 0
    <3>1. h.block[last].free + h.block[b].used \in Nat
      BY <1>3
    <3>2. (h.block[last].free + h.block[b].used) % Grain = 0
      BY <1>1, <1>3, <2>1, WholeSum
    <3> QED
      BY <1>1, <1>3, <2>1, <3>1, <3>2, WholeSum
  <2>3. 0 % Grain = 0
    BY HeapSound
  <2>4. ASSUME NEW a \in Addresses PROVE g.block[a].used % Grain = 0 /\ g.block[a].free % Grain = 0
    <3>1. CASE a = b
      BY <1>2, <2>3, <3>1, NewBlocks
    <3>2. CASE a = last /\ a # b
      BY <1>2, <2>1, <2>2, <3>2
    <3>3. CASE a # b /\ a # last
      BY <1>2, <2>1, <3>3
    <3> QED
      BY <3>1, <3>2, <3>3
  <2> QED
    BY <2>4
<1>8. ASSUME NEW a \in U \ {b} PROVE End(g, a) = After(g, a)
  <2>1. a \in Addresses \ {b}
    BY <1>1
  <2>2. CASE a = last
    <3>1. After(g, a) = After(h, b)
      BY <1>2, <2>1, <2>2 DEF After, next
    <3>2. End(g, a) = End(h, last) + h.block[b].used + h.block[b].free
      BY <1>1, <1>2, <1>3, <2>1, <2>2 DEF End
    <3>3. End(h, b) = b + h.block[b].used + h.block[b].free
      BY DEF End
    <3> QED
      BY <1>3, <3>1, <3>2, <3>3
  <2>3. CASE a # last
    <3>1. After(g, a) = After(h, a) /\ End(g, a) = End(h, a)
      BY <1>2, <2>1, <2>3 DEF After, End
    <3> QED
      BY <3>1 DEF HeapOK, U
  <2> QED
    BY <2>2, <2>3
<1>9. 0 \in U \ {b} /\ g.block[0].used = Header
  BY <1>1, <1>2, HeapFacts DEF HeapOK
<1>10. ASSUME NEW a \in Addresses \ (U \ {b}) PROVE g.block[a] = Gone
  <2>1. CASE a = b
    BY <1>2, <2>1
  <2>2. CASE a # b
    <3>1. h.block[a] = Gone /\ a \notin U
      BY <2>2 DEF HeapOK, U
    <3>2. a # last /\ a # next
      <4>1. next \in U \cup {Nil}
        <5>1. IsNext(U, b, next)
          BY <1>1 DEF UsedList, next, U
        <5> QED
          BY <5>1 DEF IsNext
      <4> QED
        BY <1>1, <3>1, <4>1, HeapFacts
    <3>3. a \notin S \ {b}
      BY <1>1, <3>1, <3>2 DEF S
    <3>4. g.block[a].freeLast = Nil /\ g.block[a].freeNext = Nil
      BY <1>2, <3>3 DEF Chained
    <3>5. /\ g.block[a].used = 0 /\ g.block[a].free = 0
          /\ g.block[a].usedLast = Nil /\ g.block[a].usedNext = Nil
      BY <1>2, <2>2, <3>1, <3>2, NewBlocks
    <3>6. g.block[a] \in Blocks
      BY <1>2 DEF Heaps
    <3> QED
      BY <3>4, <3>5, <3>6 DEF Blocks, Gone
  <2> QED
    BY <2>1, <2>2
<1>11. HeapOK(g)
  BY <1>2, <1>4, <1>5, <1>6, <1>7, <1>8, <1>9, <1>10 DEF HeapOK
<1>12. PiecesOf(g) = PiecesOf(h) \ {[at |-> b, size |-> h.block[b].used]}
  <2> DEFINE p(a) == [at |-> a, size |-> h.block[a].used]
  <2>1. \A a \in U \ {b} : [at |-> a, size |-> g.block[a].used] = p(a)
    BY <1>1, <1>2
  <2>2. \A a \in U : a # b => p(a) # p(b)
    OBVIOUS
  <2>3. PiecesOf(g) = {p(a) : a \in (U \ {b}) \ {0}}
    BY <1>4, <2>1 DEF PiecesOf
  <2>4. PiecesOf(h) = {p(a) : a \in U \ {0}}
    BY DEF PiecesOf, U
  <2> HIDE DEF p
  <2>5. {p(a) : a \in (U \ {b}) \ {0}} = {p(a) : a \in U \ {0}} \ {p(b)}
    BY <2>2
  <2> QED
    BY <2>3, <2>4, <2>5 DEF p
<1> QED
  BY <1>4, <1>11, <1>12 DEF U

-----------------------------------------------------------------------------
(* The steps of the heap                                                   *)

\* The heap as one record, and its blocks.
LEMMA HeapIs ==
  /\ Heap.head = head /\ Heap.tail = tail /\ Heap.block = block
  /\ InUse(Heap) \ {0} = Used /\ PiecesOf(Heap) = pieces
<1>1. Heap.head = head /\ Heap.tail = tail /\ Heap.block = block
  BY DEF Heap
<1>2. InUse(Heap) \ {0} = Used
  BY <1>1 DEF InUse, Used
<1>3. PiecesOf(Heap) = pieces
  BY <1>1, <1>2 DEF PiecesOf, pieces
<1> QED
  BY <1>1, <1>2, <1>3

\* CHeap__Construct leaves one block, the header, and no piece.
LEMMA HeapStarts == HeapInit => HeapOK(Heap) /\ pieces = {}
<1> SUFFICES ASSUME HeapInit PROVE HeapOK(Heap) /\ pieces = {}
  OBVIOUS
<1> DEFINE free == Top - Header
           h == Heap
<1>1. free \in Nat /\ Header \in Nat /\ Header > 0 /\ 0 \in Addresses /\ 0 \in Links /\ Nil \in Links
      /\ free % Grain = 0 /\ Header % Grain = 0 /\ Top \in Nat /\ Header + free = Top
      /\ \A a \in Addresses : a \in Nat /\ a < Top /\ a # Nil
  BY HeapFacts, WholeSum DEF Links
<1>2. /\ h.head = IF free > 0 THEN 0 ELSE Nil
      /\ h.tail = h.head
      /\ h.block = [a \in Addresses |-> IF a = 0 THEN Fresh(Header, free) ELSE Gone]
      /\ Top > Header <=> free > 0
  BY HeapFacts, HeapIs DEF HeapInit
<1> DEFINE r == Fresh(Header, free)
<1>3. /\ r \in Blocks /\ r.used = Header /\ r.free = free
      /\ r.usedLast = Nil /\ r.usedNext = Nil /\ r.freeLast = Nil /\ r.freeNext = Nil
  BY <1>1, NewBlocks
<1> HIDE DEF r
<1>4. h.block[0] = r /\ \A a \in Addresses : a # 0 => h.block[a] = Gone
  BY <1>1, <1>2 DEF r
<1>5. h \in Heaps
  <2>1. h = [head |-> head, tail |-> tail, block |-> block] /\ head \in Links /\ tail \in Links
    BY <1>1, <1>2, HeapIs DEF Heap
  <2>2. \A a \in Addresses : (IF a = 0 THEN Fresh(Header, free) ELSE Gone) \in Blocks
    BY <1>3, NewBlocks DEF r
  <2>3. block \in [Addresses -> Blocks]
    BY <1>2, <2>2, HeapIs
  <2> QED
    BY <2>1, <2>3 DEF Heaps
<1> HIDE DEF h, free
<1>6. InUse(h) = {0} /\ HasFree(h) = IF free > 0 THEN {0} ELSE {}
  BY <1>1, <1>3, <1>4, NewBlocks DEF InUse, HasFree
<1>7. UsedList(h, InUse(h))
  BY <1>3, <1>4, <1>6 DEF UsedList, IsNext, IsLast
<1>8. Chained(h, HasFree(h))
  <2>1. \A a \in Addresses : h.block[a].freeLast = Nil /\ h.block[a].freeNext = Nil
    BY <1>3, <1>4, NewBlocks
  <2>2. CASE free > 0
    <3>1. HasFree(h) = {0} /\ h.head = 0 /\ h.tail = 0
      BY <1>2, <1>6, <2>2
    <3>2. IsNext({0}, Nil, 0) /\ IsLast({0}, Top, 0) /\ IsNext({0}, 0, Nil) /\ IsLast({0}, 0, Nil)
      BY <1>1, HeapFacts DEF IsNext, IsLast
    <3> QED
      BY <1>1, <2>1, <3>1, <3>2 DEF Chained, FreeList
  <2>3. CASE ~(free > 0)
    <3>1. HasFree(h) = {} /\ h.head = Nil /\ h.tail = Nil
      BY <1>2, <1>6, <2>3
    <3> QED
      BY <2>1, <3>1 DEF Chained, FreeList, IsNext, IsLast
  <2> QED
    BY <2>2, <2>3
<1>9. \A a \in Addresses : h.block[a].used % Grain = 0 /\ h.block[a].free % Grain = 0
  <2>1. 0 % Grain = 0
    BY HeapSound
  <2> QED
    BY <1>1, <1>3, <1>4, <2>1, NewBlocks
<1>10. End(h, 0) = After(h, 0)
  BY <1>1, <1>3, <1>4 DEF End, After
<1>11. HeapOK(h)
  BY <1>3, <1>4, <1>5, <1>6, <1>7, <1>8, <1>9, <1>10 DEF HeapOK
<1>12. PiecesOf(h) = {}
  BY <1>6 DEF PiecesOf
<1> QED
  BY <1>11, <1>12, HeapIs DEF h

\* Freeing the first block, again and again.
LEMMA FreeFirstIs ==
  ASSUME NEW h, HeapOK(h), NEW k \in Nat, IsFiniteSet(InUse(h)), Cardinality(InUse(h)) = k + 2,
         NEW g, g = FreeFirst(h)
  PROVE  HeapOK(g) /\ IsFiniteSet(InUse(g)) /\ Cardinality(InUse(g)) = k + 1
<1> DEFINE b == h.block[0].usedNext
<1>1. /\ h \in Heaps /\ 0 \in InUse(h) /\ 0 \in Addresses /\ IsNext(InUse(h), 0, b) /\ b \in Int
      /\ InUse(h) \subseteq Nat
  BY HeapFacts, Typed, InOrder DEF HeapOK, UsedList
<1>2. b # Nil
  <2> SUFFICES ASSUME b = Nil PROVE FALSE
    OBVIOUS
  <2>1. \A x \in InUse(h) : x <= 0
    BY <1>1 DEF IsNext
  <2>2. InUse(h) = {0}
    BY <1>1, <2>1
  <2>3. Cardinality({0}) = 1
    BY FS_Singleton
  <2> QED
    BY <2>2, <2>3
<1>3. b \in InUse(h) /\ b # 0
  BY <1>1, <1>2 DEF IsNext
<1>4. g = FreeIn(h, b)
  BY <1>2 DEF FreeFirst
<1> HIDE DEF b
<1>5. HeapOK(g) /\ InUse(g) = InUse(h) \ {b}
  BY <1>3, <1>4, FreeIs
<1>6. IsFiniteSet(InUse(h) \ {b}) /\ Cardinality(InUse(h) \ {b}) = Cardinality(InUse(h)) - 1
  BY <1>3, FS_RemoveElement
<1> QED
  BY <1>5, <1>6

Freeing(f, n) ==
  f = [i \in 0 .. n |-> IF i = 0 THEN Heap ELSE FreeFirst(f[i - 1])]

\* Freeing blocks one by one defines a heap for each number of them.
LEMMA FreeingExists == ASSUME NEW n \in Nat PROVE \E f : Freeing(f, n)
<1> DEFINE P == {k \in Nat : \E f : Freeing(f, k)}
<1>1. 0 \in P
  <2> DEFINE f == [i \in 0 .. 0 |-> Heap]
  <2>1. Freeing(f, 0)
    BY DEF Freeing
  <2> HIDE DEF f
  <2> QED
    BY <2>1
<1>2. ASSUME NEW k \in Nat, k \in P PROVE k + 1 \in P
  <2>1. PICK f : Freeing(f, k)
    BY <1>2
  <2> DEFINE g == [i \in 0 .. k + 1 |-> IF i = 0 THEN Heap ELSE FreeFirst(f[i - 1])]
  <2>2. \A i \in 0 .. k : f[i] = IF i = 0 THEN Heap ELSE FreeFirst(f[i - 1])
    BY <2>1 DEF Freeing
  <2>3. \A i \in 0 .. k : g[i] = f[i]
    BY <2>2
  <2>4. \A i \in 0 .. k + 1 : i # 0 => i - 1 \in 0 .. k
    OBVIOUS
  <2>5. Freeing(g, k + 1)
    <3>1. \A i \in 0 .. k + 1 : (IF i = 0 THEN Heap ELSE FreeFirst(f[i - 1])) =
                                IF i = 0 THEN Heap ELSE FreeFirst(g[i - 1])
      BY <2>3, <2>4
    <3>2. g = [i \in 0 .. k + 1 |-> IF i = 0 THEN Heap ELSE FreeFirst(f[i - 1])]
      OBVIOUS
    <3> HIDE DEF g
    <3> QED
      BY <3>1, <3>2 DEF Freeing
  <2> HIDE DEF g
  <2> QED
    BY <2>5
<1> HIDE DEF P
<1>3. n \in P
  BY <1>1, <1>2, Upwards
<1> QED
  BY <1>3 DEF P

\* CHeap__FreeAll leaves a sound heap without pieces.
LEMMA FreeAllIs ==
  ASSUME HeapOK(Heap), NEW g, g = FreeAllIn
  PROVE  HeapOK(g) /\ PiecesOf(g) = {}
<1> DEFINE n == Cardinality(Used)
           f == CHOOSE x : x = [i \in 0 .. n |-> IF i = 0 THEN Heap ELSE FreeFirst(x[i - 1])]
<1>1. IsFiniteSet(Used) /\ n \in Nat /\ IsFiniteSet(InUse(Heap)) /\ Cardinality(InUse(Heap)) = n + 1
  <2>1. IsFiniteSet(Addresses)
    <3>1. IsFiniteSet(0 .. Top - 1)
      BY HeapFacts, FS_Interval
    <3> QED
      BY <3>1, FS_Subset DEF Addresses
  <2>2. IsFiniteSet(Used)
    BY <2>1, FS_Subset DEF Used
  <2>3. InUse(Heap) = Used \cup {0} /\ 0 \notin Used
    BY HeapIs DEF HeapOK
  <2> QED
    BY <2>2, <2>3, FS_CardinalityType, FS_AddElement
<1>2. g = f[n]
  BY DEF FreeAllIn
<1> HIDE DEF n
<1>3. f = [i \in 0 .. n |-> IF i = 0 THEN Heap ELSE FreeFirst(f[i - 1])]
  <2>1. \E x : x = [i \in 0 .. n |-> IF i = 0 THEN Heap ELSE FreeFirst(x[i - 1])]
    BY <1>1, FreeingExists DEF Freeing
  <2> QED
    BY <2>1
<1> HIDE DEF f
<1> DEFINE P == {k \in Nat : k <= n => /\ HeapOK(f[k]) /\ IsFiniteSet(InUse(f[k]))
                                       /\ Cardinality(InUse(f[k])) = n + 1 - k}
<1>4. 0 \in P
  <2>1. f[0] = Heap
    BY <1>1, <1>3
  <2> QED
    BY <1>1, <2>1
<1>5. ASSUME NEW k \in Nat, k \in P PROVE k + 1 \in P
  <2> SUFFICES ASSUME k + 1 <= n
               PROVE  /\ HeapOK(f[k + 1]) /\ IsFiniteSet(InUse(f[k + 1]))
                      /\ Cardinality(InUse(f[k + 1])) = n + 1 - (k + 1)
    OBVIOUS
  <2>1. /\ HeapOK(f[k]) /\ IsFiniteSet(InUse(f[k]))
        /\ Cardinality(InUse(f[k])) = n + 1 - k
    BY <1>1, <1>5
  <2>2. f[k + 1] = FreeFirst(f[k])
    <3>1. k + 1 \in 0 .. n /\ k + 1 # 0 /\ (k + 1) - 1 = k
      BY <1>1
    <3> QED
      BY <1>3, <3>1
  <2> DEFINE j == n - (k + 1)
  <2>3. j \in Nat /\ n + 1 - k = j + 2 /\ n + 1 - (k + 1) = j + 1
    BY <1>1
  <2> HIDE DEF j
  <2> QED
    BY <2>1, <2>2, <2>3, FreeFirstIs
<1>6. n \in P
  <2> HIDE DEF P
  <2> QED
    BY <1>1, <1>4, <1>5, Upwards
<1>7. HeapOK(g) /\ IsFiniteSet(InUse(g)) /\ Cardinality(InUse(g)) = 1
  BY <1>1, <1>2, <1>6
<1>8. InUse(g) \ {0} = {}
  <2>1. 0 \in InUse(g)
    BY <1>7 DEF HeapOK
  <2>2. IsFiniteSet(InUse(g) \ {0}) /\ Cardinality(InUse(g) \ {0}) = 0
    BY <1>7, <2>1, FS_RemoveElement
  <2> QED
    BY <2>2, FS_EmptySet
<1> QED
  BY <1>7, <1>8 DEF PiecesOf

-----------------------------------------------------------------------------
(* Room for a block                                                        *)

\* The last block that does not start after a.
LEMMA LastUpTo ==
  ASSUME NEW h, HeapOK(h), NEW a \in Nat
  PROVE  \E b \in InUse(h) : b <= a /\ \A c \in InUse(h) : c <= a => c <= b
<1>1. 0 \in InUse(h) /\ \A c \in InUse(h) : c \in Nat
  BY InOrder DEF HeapOK
<1> DEFINE D == {d \in Nat : a - d \in InUse(h)}
<1>2. a \in D
  BY <1>1
<1>3. PICK d \in D : \A e \in D : d <= e
  <2>1. D \subseteq Nat /\ D # {}
    BY <1>2
  <2> HIDE DEF D
  <2> QED
    BY <2>1, LeastOf
<1>4. \A c \in InUse(h) : c <= a => a - c \in D
  BY <1>1
<1>5. \A c \in InUse(h) : c <= a => c <= a - d
  BY <1>1, <1>3, <1>4
<1> QED
  BY <1>1, <1>3, <1>5

\* The places where n bytes are free are in the free memory of one block.
LEMMA FitsGap ==
  ASSUME HeapOK(Heap), NEW a \in Int, NEW n \in Nat, n > 0
  PROVE  Memory!Fits(a, n) <=>
           \E b \in InUse(Heap) : b + block[b].used <= a /\ a + n <= End(Heap, b)
<1> DEFINE U == InUse(Heap)
<1>1. Heap.block = block /\ Header \in Nat /\ Top \in Nat /\ Header > 0
  BY HeapIs, HeapFacts
<1>2. /\ 0 \in U /\ block[0].used = Header
      /\ \A b \in U : /\ b \in Nat /\ block[b].used \in Nat /\ block[b].free \in Nat /\ block[b].used > 0
                      /\ End(Heap, b) = b + block[b].used + block[b].free /\ End(Heap, b) <= Top
                      /\ End(Heap, b) \in Nat
                      /\ \A x \in U : x > b => x >= End(Heap, b)
  BY <1>1, InOrder DEF HeapOK, End
<1>3. Memory!Fits(a, n) <=>
        /\ Header <= a /\ a + n <= Top
        /\ \A b \in U : b # 0 => a + n <= b \/ b + block[b].used <= a
  <2>1. Memory!Fits(a, n) <=>
          /\ a \in Header .. Top - n
          /\ \A p \in PiecesOf(Heap) : a + n <= p.at \/ p.at + p.size <= a
    BY HeapIs DEF Memory!Fits
  <2>2. (\A p \in PiecesOf(Heap) : a + n <= p.at \/ p.at + p.size <= a) <=>
        \A b \in U : b # 0 => a + n <= b \/ b + block[b].used <= a
    <3>1. \A b \in U \ {0} : [at |-> b, size |-> block[b].used] \in PiecesOf(Heap)
      BY <1>1 DEF PiecesOf
    <3>2. \A p \in PiecesOf(Heap) : \E b \in U \ {0} : p = [at |-> b, size |-> block[b].used]
      BY <1>1 DEF PiecesOf
    <3>3. \A b : [at |-> b, size |-> block[b].used].at = b
                 /\ [at |-> b, size |-> block[b].used].size = block[b].used
      OBVIOUS
    <3>4. ASSUME \A p \in PiecesOf(Heap) : a + n <= p.at \/ p.at + p.size <= a, NEW b \in U, b # 0
          PROVE  a + n <= b \/ b + block[b].used <= a
      BY <3>1, <3>3, <3>4
    <3>5. ASSUME \A b \in U : b # 0 => a + n <= b \/ b + block[b].used <= a, NEW p \in PiecesOf(Heap)
          PROVE  a + n <= p.at \/ p.at + p.size <= a
      <4>1. PICK b \in U \ {0} : p = [at |-> b, size |-> block[b].used]
        BY <3>2
      <4> QED
        BY <3>3, <3>5, <4>1
    <3> QED
      BY <3>4, <3>5
  <2>3. a \in Header .. Top - n <=> Header <= a /\ a + n <= Top
    BY <1>1
  <2> QED
    BY <2>1, <2>2, <2>3
<1>4. ASSUME NEW b \in U, b + block[b].used <= a, a + n <= End(Heap, b) PROVE Memory!Fits(a, n)
  <2>1. Header <= a
    <3>1. CASE b = 0
      BY <1>1, <1>2, <1>4, <3>1
    <3>2. CASE b # 0
      <4>1. b >= End(Heap, 0)
        BY <1>2, <3>2
      <4> QED
        BY <1>1, <1>2, <1>4, <4>1
    <3> QED
      BY <3>1, <3>2
  <2>2. a + n <= Top
    BY <1>1, <1>2, <1>4
  <2>3. ASSUME NEW c \in U PROVE a + n <= c \/ c + block[c].used <= a
    <3>1. CASE c = b
      BY <1>4, <3>1
    <3>2. CASE c > b
      BY <1>2, <1>4, <3>2
    <3>3. CASE c < b
      <4>1. b >= End(Heap, c)
        BY <1>2, <3>3
      <4> QED
        BY <1>2, <1>4, <4>1
    <3> QED
      BY <1>2, <3>1, <3>2, <3>3
  <2> QED
    BY <1>3, <2>1, <2>2, <2>3
<1>5. ASSUME Memory!Fits(a, n)
      PROVE  \E b \in U : b + block[b].used <= a /\ a + n <= End(Heap, b)
  <2>1. /\ Header <= a /\ a + n <= Top /\ a \in Nat
        /\ \A b \in U : b # 0 => a + n <= b \/ b + block[b].used <= a
    BY <1>1, <1>3, <1>5
  <2>2. PICK b \in U : b <= a /\ \A c \in U : c <= a => c <= b
    BY <2>1, LastUpTo
  <2>3. b + block[b].used <= a
    <3>1. CASE b = 0
      BY <1>1, <1>2, <2>1, <3>1
    <3>2. CASE b # 0
      BY <1>2, <2>1, <2>2, <3>2
    <3> QED
      BY <3>1, <3>2
  <2>4. a + n <= End(Heap, b)
    <3> DEFINE c == block[b].usedNext
    <3>1. /\ IsNext(U, b, c) /\ End(Heap, b) = After(Heap, b) /\ c \in Int
      <4>1. b \in Addresses /\ Heap \in Heaps
        BY DEF InUse, HeapOK
      <4> QED
        BY <1>1, <4>1, Typed DEF HeapOK, UsedList
    <3>2. CASE c = Nil
      BY <1>1, <2>1, <3>1, <3>2 DEF After
    <3>3. CASE c # Nil
      <4>1. c \in U /\ c > b /\ End(Heap, b) = c
        BY <1>1, <3>1, <3>3 DEF IsNext, After
      <4>2. c > a /\ c # 0 /\ c \in Nat
        BY <1>2, <2>1, <2>2, <4>1
      <4>3. ~(c + block[c].used <= a)
        BY <1>2, <2>1, <4>1, <4>2
      <4> QED
        BY <2>1, <4>1, <4>2, <4>3
    <3> QED
      BY <3>2, <3>3
  <2> QED
    BY <2>3, <2>4
<1> QED
  BY <1>4, <1>5

\* Searching from the head, and from the tail.
LEMMA FromHead ==
  ASSUME HeapOK(Heap), NEW S, NEW x, x = Search(Heap, head, "freeNext", S)
  PROVE  IF x = Nil THEN HasFree(Heap) \cap S = {}
         ELSE x \in HasFree(Heap) \cap S /\ \A y \in HasFree(Heap) \cap S : x <= y
<1> DEFINE L == HasFree(Heap)
           link == "freeNext"
<1>1. /\ Heap \in Heaps /\ L \subseteq Addresses /\ head \in Links /\ IsNext(L, Nil, head)
      /\ Chained(Heap, L) /\ FreeList(Heap, L)
  BY HeapIs DEF HeapOK, Chained, FreeList, HasFree, Heaps
<1>2. \A a \in L : Heap.block[a][link] \in Links /\ IsNext(L, a, Heap.block[a][link])
  BY <1>1, Typed DEF FreeList
<1>3. \A a \in Addresses \ L : Heap.block[a][link] = Nil
  BY <1>1 DEF Chained
<1>4. x = Search(Heap, head, link, S)
  OBVIOUS
<1> HIDE DEF L, link
<1>5. Rising(Heap, link, L)
  BY <1>1, <1>2, <1>3 DEF Rising
<1>6. IF x = Nil THEN L \cap S = {} ELSE x \in L \cap S /\ \A y \in L \cap S : x <= y
  <2>1. Heap \in Heaps /\ head \in Links /\ IsNext(L, Nil, head)
    BY <1>1
  <2> QED
    <3>1. FirstOf(x, L, S)
      BY <1>4, <1>5, <2>1, SearchUp
    <3> QED
      BY <3>1 DEF FirstOf
<1> QED
  BY <1>6 DEF L

\* The search from the tail of the free list finds the last block with room.
LEMMA FromTail ==
  ASSUME HeapOK(Heap), NEW S, NEW x, x = Search(Heap, tail, "freeLast", S)
  PROVE  IF x = Nil THEN HasFree(Heap) \cap S = {}
         ELSE x \in HasFree(Heap) \cap S /\ \A y \in HasFree(Heap) \cap S : y <= x
<1> DEFINE L == HasFree(Heap)
           link == "freeLast"
<1>1. /\ Heap \in Heaps /\ L \subseteq Addresses /\ tail \in Links /\ IsLast(L, Top, tail)
      /\ Chained(Heap, L) /\ FreeList(Heap, L)
  BY HeapIs DEF HeapOK, Chained, FreeList, HasFree, Heaps
<1>2. \A a \in L : Heap.block[a][link] \in Links /\ IsLast(L, a, Heap.block[a][link])
  BY <1>1, Typed DEF FreeList
<1>3. \A a \in Addresses \ L : Heap.block[a][link] = Nil
  BY <1>1 DEF Chained
<1>4. x = Search(Heap, tail, link, S)
  OBVIOUS
<1> HIDE DEF L, link
<1>5. Falling(Heap, link, L)
  BY <1>1, <1>2, <1>3 DEF Falling
<1>6. tail \in L \cup {Nil}
  BY <1>1 DEF IsLast
<1>7. IF x = Nil THEN \A y \in L \cap S : y > tail
      ELSE x \in L \cap S /\ x <= tail /\ \A y \in L \cap S : y <= tail => y <= x
  BY <1>1, <1>4, <1>5, <1>6, SearchDown
<1>8. \A y \in L : y \in Nat /\ y < Top /\ y <= tail
  <2>1. \A y \in L : y \in Nat /\ y < Top
    BY <1>1, HeapFacts
  <2> QED
    BY <1>1, <2>1, HeapFacts DEF IsLast
<1>9. tail \in Int
  BY <1>6, <1>8, HeapFacts
<1>10. IF x = Nil THEN L \cap S = {} ELSE x \in L \cap S /\ \A y \in L \cap S : y <= x
  BY <1>7, <1>8, <1>9
<1> QED
  BY <1>10 DEF L

\* What the three searches find.
LEMMA Finds ==
  ASSUME HeapOK(Heap), NEW need \in Nat, need > 0
  PROVE  /\ LET b == FirstWithRoom(need) IN
              IF b = Nil THEN HaveRoom(need) = {}
              ELSE b \in HaveRoom(need) /\ \A c \in HaveRoom(need) : b <= c
         /\ LET b == LastWithRoom(need) IN
              IF b = Nil THEN HaveRoom(need) = {}
              ELSE b \in HaveRoom(need) /\ \A c \in HaveRoom(need) : c <= b
         /\ HaveRoom(need) \subseteq InUse(Heap)
<1>1. HaveRoom(need) \subseteq HasFree(Heap)
  <2>1. ASSUME NEW b \in Addresses, block[b].free >= need PROVE block[b].free # 0
    BY <2>1
  <2> QED
    BY <2>1, HeapIs DEF HaveRoom, HasFree
<1>2. HasFree(Heap) \cap HaveRoom(need) = HaveRoom(need)
  BY <1>1
<1>3. HasFree(Heap) \subseteq InUse(Heap)
  BY InOrder DEF HeapOK
<1>4. LET b == FirstWithRoom(need) IN
        IF b = Nil THEN HaveRoom(need) = {}
        ELSE b \in HaveRoom(need) /\ \A c \in HaveRoom(need) : b <= c
  BY <1>2, FromHead DEF FirstWithRoom
<1>5. LET b == LastWithRoom(need) IN
        IF b = Nil THEN HaveRoom(need) = {}
        ELSE b \in HaveRoom(need) /\ \A c \in HaveRoom(need) : c <= b
  BY <1>2, FromTail DEF LastWithRoom
<1> QED
  BY <1>1, <1>3, <1>4, <1>5

\* The search for an address finds the block whose free memory holds it.
LEMMA FindsAround ==
  ASSUME HeapOK(Heap), NEW new \in Addresses, NEW need \in Nat, need >= Header
  PROVE  /\ LET b == BlockAround(new, need) IN
              b # Nil => b \in InUse(Heap) /\ b + block[b].used <= new /\ new + need <= End(Heap, b)
         /\ \A c \in InUse(Heap) : c + block[c].used <= new /\ new + need <= End(Heap, c)
              => BlockAround(new, need) # Nil
<1> DEFINE before == {b \in Addresses : block[b].freeNext = Nil \/ block[b].freeNext >= new + Header}
           L == HasFree(Heap)
           x == Search(Heap, head, "freeNext", before)
           lo == x + block[x].used
<1>1. BlockAround(new, need) = IF x # Nil /\ new >= lo /\ lo + block[x].free >= new + need THEN x ELSE Nil
  BY DEF BlockAround
<1>2. IF x = Nil THEN L \cap before = {} ELSE x \in L \cap before /\ \A y \in L \cap before : x <= y
  BY FromHead
<1>3. /\ L \subseteq InUse(Heap) /\ L \subseteq Addresses /\ new \in Nat /\ Header \in Nat /\ Header > 0
      /\ Heap.block = block /\ Heap \in Heaps /\ Nil \notin Addresses
      /\ FreeList(Heap, L)
  BY InOrder, HeapFacts, HeapIs DEF HeapOK, HasFree, Chained
<1> HIDE DEF x
<1>4. ASSUME BlockAround(new, need) # Nil, NEW b, b = BlockAround(new, need)
      PROVE  b \in InUse(Heap) /\ b + block[b].used <= new /\ new + need <= End(Heap, b)
  <2>1. b = x /\ x # Nil /\ new >= lo /\ lo + block[x].free >= new + need
    BY <1>1, <1>4
  <2>2. x \in InUse(Heap)
    BY <1>2, <1>3, <2>1
  <2>3. x \in Nat /\ block[x].used \in Nat /\ block[x].free \in Nat
    BY <1>3, <2>2, InOrder
  <2> QED
    BY <1>3, <2>1, <2>2, <2>3 DEF End
<1>5. ASSUME NEW c \in InUse(Heap), c + block[c].used <= new, new + need <= End(Heap, c)
      PROVE  BlockAround(new, need) # Nil
  <2>1. /\ c \in Nat /\ c \in Addresses /\ block[c].used \in Nat /\ block[c].free \in Nat
        /\ block[c].used > 0 /\ End(Heap, c) = c + block[c].used + block[c].free
        /\ \A y \in InUse(Heap) : y > c => y >= End(Heap, c)
    BY <1>3, InOrder DEF End
  <2>2. c \in L
    BY <1>3, <1>5, <2>1 DEF HasFree
  <2> HIDE DEF L
  <2>3. \A y \in L : y \in Nat /\ IsNext(L, y, block[y].freeNext) /\ block[y].freeNext \in Int
    BY <1>3, Typed DEF FreeList
  <2>4. c \in before
    <3>1. CASE block[c].freeNext = Nil
      BY <2>1, <3>1
    <3>2. CASE block[c].freeNext # Nil
      <4>1. block[c].freeNext \in L /\ block[c].freeNext > c
        BY <2>2, <2>3, <3>2 DEF IsNext
      <4>2. block[c].freeNext >= End(Heap, c)
        BY <1>3, <2>1, <4>1
      <4>3. block[c].freeNext >= new + Header
        BY <1>3, <1>5, <2>1, <2>3, <2>2, <4>2
      <4> QED
        BY <2>1, <4>3
    <3> QED
      BY <3>1, <3>2
  <2>5. x # Nil /\ x \in L \cap before /\ x <= c
    BY <1>2, <2>2, <2>4
  <2>6. x \in Nat /\ ~(x < c)
    <3>1. x \in Nat /\ IsNext(L, x, block[x].freeNext) /\ block[x].freeNext \in Int
      BY <2>3, <2>5
    <3>2. ASSUME x < c PROVE FALSE
      <4>1. block[x].freeNext # Nil /\ block[x].freeNext <= c
        BY <2>1, <2>2, <3>1, <3>2 DEF IsNext
      <4>2. block[x].freeNext >= new + Header
        BY <2>5, <4>1
      <4> QED
        BY <1>3, <1>5, <2>1, <3>1, <4>1, <4>2
    <3> QED
      BY <3>1, <3>2
  <2>7. x = c
    BY <2>1, <2>5, <2>6
  <2> QED
    BY <1>1, <1>5, <2>1, <2>5, <2>7
<1> QED
  BY <1>4, <1>5

-----------------------------------------------------------------------------
(* The heap is an arena                                                    *)

\* Blocks end at whole grains.
LEMMA WholeEnds ==
  ASSUME HeapOK(Heap), NEW b \in InUse(Heap)
  PROVE  /\ b + block[b].used \in Nat /\ (b + block[b].used) % Grain = 0
         /\ End(Heap, b) \in Nat /\ End(Heap, b) % Grain = 0
<1> DEFINE u == block[b].used
           f == block[b].free
           e == b + u
<1>1. Heap.block = block
  BY HeapIs
<1>2. /\ b \in Nat /\ b \in Addresses /\ u \in Nat /\ f \in Nat /\ End(Heap, b) = b + u + f
  BY <1>1, InOrder DEF End
<1>3. b % Grain = 0 /\ u % Grain = 0 /\ f % Grain = 0
  BY <1>1, <1>2, HeapFacts DEF HeapOK
<1> HIDE DEF u, f
<1>4. e \in Nat /\ e % Grain = 0 /\ End(Heap, b) = e + f
  BY <1>2, <1>3, WholeSum
<1> HIDE DEF e
<1>5. e + f \in Nat /\ (e + f) % Grain = 0
  BY <1>2, <1>3, <1>4, WholeSum
<1> QED
  BY <1>4, <1>5 DEF e, u

\* What is left of free memory is whole grains.
LEMMA WholeLess ==
  ASSUME NEW a \in Nat, NEW b \in Nat, a % Grain = 0, b % Grain = 0, b <= a, NEW c, c = a - b
  PROVE  c \in Nat /\ c % Grain = 0
BY WholeSum

\* A request is given a place in the free memory of a block.
LEMMA Place ==
  ASSUME HeapOK(Heap), NEW b \in InUse(Heap), NEW need \in Nat, need >= Header, need % Grain = 0,
         NEW new \in Nat, new % Grain = 0, b + block[b].used <= new, new + need <= End(Heap, b)
  PROVE  LET room == new - (b + block[b].used)
             rest == End(Heap, b) - (new + need) IN
         /\ new \in Addresses /\ Room(Heap, b, new, need, room, rest)
         /\ Memory!Fits(new, need) /\ need \in Memory!Sizes /\ new \in Header .. Top - need
         /\ HeapOK(AllocAtIn(Heap, b, new, need))
         /\ PiecesOf(AllocAtIn(Heap, b, new, need)) = pieces \cup {Memory!Piece(new, need)}
<1> DEFINE room == new - (b + block[b].used)
           rest == End(Heap, b) - (new + need)
<1>1. Heap.block = block /\ Header \in Nat /\ Top \in Nat /\ Header > 0
  BY HeapIs, HeapFacts
<1>2. /\ b \in Nat /\ b \in Addresses /\ block[b].used \in Nat /\ block[b].free \in Nat /\ block[b].used > 0
      /\ End(Heap, b) = b + block[b].used + block[b].free /\ End(Heap, b) <= Top /\ End(Heap, b) \in Nat
  BY <1>1, InOrder DEF End
<1>3. new \in Addresses
  BY <1>1, <1>2, HeapFacts
<1>4. room \in Nat /\ rest \in Nat /\ room % Grain = 0 /\ rest % Grain = 0
  <2> DEFINE e == b + block[b].used
             m == new + need
  <2>1. e \in Nat /\ e % Grain = 0 /\ End(Heap, b) \in Nat /\ End(Heap, b) % Grain = 0
    BY WholeEnds
  <2>2. m \in Nat /\ m % Grain = 0
    BY WholeSum
  <2>3. e <= new /\ m <= End(Heap, b) /\ room = new - e /\ rest = End(Heap, b) - m
    OBVIOUS
  <2> HIDE DEF e, m, room, rest
  <2>4. room \in Nat /\ room % Grain = 0
    BY <2>1, <2>3, WholeLess
  <2>5. rest \in Nat /\ rest % Grain = 0
    BY <2>1, <2>2, <2>3, WholeLess
  <2> QED
    BY <2>4, <2>5
<1>5. new = b + Heap.block[b].used + room /\ room + need + rest = Heap.block[b].free
  BY <1>1, <1>2
<1> HIDE DEF room, rest
<1>6. Room(Heap, b, new, need, room, rest)
  BY <1>1, <1>4, <1>5 DEF Room
<1>7. Memory!Fits(new, need)
  BY <1>1, FitsGap
<1>8. new \in Header .. Top - need
  BY <1>7 DEF Memory!Fits
<1>9. need \in Memory!Sizes
  BY <1>1, <1>8 DEF Memory!Sizes
<1> DEFINE g == AllocAtIn(Heap, b, new, need)
<1>10. g = AllocAtIn(Heap, b, new, need)
  OBVIOUS
<1> HIDE DEF g
<1>11. HeapOK(g) /\ PiecesOf(g) = PiecesOf(Heap) \cup {[at |-> new, size |-> need]}
  BY <1>3, <1>6, <1>10, AllocAtIs
<1> QED
  BY <1>3, <1>6, <1>7, <1>8, <1>9, <1>10, <1>11, HeapIs DEF Memory!Piece, room, rest

SamePieces == PiecesOf(Heap) = pieces

\* The pieces of the record are the pieces of the state.
LEMMA PiecesNow == SamePieces
BY HeapIs DEF SamePieces

\* And so after a step.
LEMMA PiecesNext == SamePieces'
BY PiecesNow, PTL

\* The new heap is the one the operation made.
LEMMA BecomesIs ==
  ASSUME NEW g, Becomes(g), HeapOK(g)
  PROVE  HeapOK(Heap)' /\ pieces' = PiecesOf(g)
<1>1. g = [head |-> g.head, tail |-> g.tail, block |-> g.block]
  BY DEF HeapOK, Heaps
<1>2. Heap' = g
  BY <1>1 DEF Becomes, Heap
<1>3. HeapOK(Heap)'
  BY <1>2
<1>4. PiecesOf(Heap)' = pieces'
  BY PiecesNext DEF SamePieces
<1> QED
  BY <1>2, <1>3, <1>4

\* A request that is refused changes nothing.
LEMMA NothingBecomes == ASSUME HeapOK(Heap), Becomes(Heap) PROVE HeapOK(Heap)' /\ pieces' = pieces
BY BecomesIs, HeapIs

\* CHeap__Alloc and CHeap__AllocTop give the first and the last place with room.
LEMMA AllocStep ==
  ASSUME HeapOK(Heap), NEW n \in Requests, Alloc(n)
  PROVE  HeapOK(Heap)' /\ (pieces' = pieces \/ \E m \in Memory!Sizes : Memory!AllocLow(m))
<1> DEFINE need == Need(n)
           b == FirstWithRoom(need)
<1>1. need \in Nat /\ need >= Header /\ need % Grain = 0 /\ need > 0 /\ Header \in Nat /\ Top \in Nat
  BY HeapFacts
<1>2. Becomes(IF b = Nil THEN Heap ELSE AllocIn(Heap, b, need))
  BY DEF Alloc
<1> HIDE DEF need
<1>3. /\ IF b = Nil THEN HaveRoom(need) = {} ELSE b \in HaveRoom(need) /\ \A c \in HaveRoom(need) : b <= c
      /\ HaveRoom(need) \subseteq InUse(Heap)
  BY <1>1, Finds
<1> HIDE DEF b
<1>4. CASE b = Nil
  BY <1>2, <1>4, NothingBecomes
<1>5. CASE b # Nil
  <2> DEFINE new == b + block[b].used
             rest == End(Heap, b) - (new + need)
             g == AllocAtIn(Heap, b, new, need)
  <2>1. b \in InUse(Heap) /\ b \in HaveRoom(need) /\ block[b].free >= need
    BY <1>3, <1>5 DEF HaveRoom
  <2>2. \A c \in InUse(Heap) :
          /\ c \in Nat /\ c \in Addresses /\ block[c].used \in Nat /\ block[c].free \in Nat
          /\ block[c].used > 0 /\ End(Heap, c) = c + block[c].used + block[c].free /\ End(Heap, c) \in Nat
          /\ \A x \in InUse(Heap) : x > c => x >= End(Heap, c)
    BY HeapIs, InOrder DEF End
  <2>3. new \in Nat /\ new % Grain = 0 /\ new + need <= End(Heap, b) /\ new - (b + block[b].used) = 0
        /\ b + block[b].used <= new
    <3>1. new \in Nat /\ new % Grain = 0
      BY <2>1, WholeEnds
    <3> QED
      BY <1>1, <2>1, <2>2, <3>1
  <2>4. /\ new \in Addresses /\ Room(Heap, b, new, need, 0, rest)
        /\ Memory!Fits(new, need) /\ need \in Memory!Sizes /\ new \in Header .. Top - need
        /\ HeapOK(g) /\ PiecesOf(g) = pieces \cup {Memory!Piece(new, need)}
    <3> HIDE DEF new
    <3> QED
      BY <1>1, <2>1, <2>3, Place
  <2>5. AllocIn(Heap, b, need) = g
    <3> HIDE DEF rest, new
    <3> QED
      BY <2>1, <2>4, AllocIs
  <2> HIDE DEF g, rest
  <2>6. HeapOK(Heap)' /\ pieces' = pieces \cup {Memory!Piece(new, need)}
    BY <1>2, <1>5, <2>4, <2>5, BecomesIs
  <2>7. ASSUME NEW a \in Header .. new - 1, Memory!Fits(a, need) PROVE FALSE
    <3>1. a \in Int /\ a < new
      BY <1>1, <2>3
    <3>2. PICK c \in InUse(Heap) : c + block[c].used <= a /\ a + need <= End(Heap, c)
      BY <1>1, <2>7, <3>1, FitsGap
    <3>3. c \in HaveRoom(need)
      BY <1>1, <2>2, <3>1, <3>2 DEF HaveRoom
    <3>4. b <= c
      BY <1>3, <1>5, <3>3
    <3>5. CASE c = b
      BY <2>1, <2>2, <3>1, <3>2, <3>5
    <3>6. CASE c > b
      <4>1. c >= End(Heap, b)
        BY <2>1, <2>2, <3>6
      <4> QED
        BY <2>1, <2>2, <3>1, <3>2, <4>1
    <3> QED
      BY <2>1, <2>2, <3>4, <3>5, <3>6
  <2>8. Memory!Lowest(new, need)
    BY <2>4, <2>7 DEF Memory!Lowest
  <2>9. Memory!AllocLow(need)
    BY <2>4, <2>6, <2>8 DEF Memory!AllocLow, Memory!Give
  <2> QED
    BY <2>4, <2>6, <2>9
<1> QED
  BY <1>4, <1>5

\* CHeap__AllocTop is an allocation from the end of the memory.
LEMMA AllocTopStep ==
  ASSUME HeapOK(Heap), NEW n \in Requests, AllocTop(n)
  PROVE  HeapOK(Heap)' /\ (pieces' = pieces \/ \E m \in Memory!Sizes : Memory!AllocHigh(m))
<1> DEFINE need == Need(n)
           b == LastWithRoom(need)
<1>1. need \in Nat /\ need >= Header /\ need % Grain = 0 /\ need > 0 /\ Header \in Nat /\ Top \in Nat
  BY HeapFacts
<1>2. Becomes(IF b = Nil THEN Heap ELSE AllocTopIn(Heap, b, need))
  BY DEF AllocTop
<1> HIDE DEF need
<1>3. /\ IF b = Nil THEN HaveRoom(need) = {} ELSE b \in HaveRoom(need) /\ \A c \in HaveRoom(need) : c <= b
      /\ HaveRoom(need) \subseteq InUse(Heap)
  BY <1>1, Finds
<1> HIDE DEF b
<1>4. CASE b = Nil
  BY <1>2, <1>4, NothingBecomes
<1>5. CASE b # Nil
  <2> DEFINE new == End(Heap, b) - need
             room == new - (b + block[b].used)
             g == AllocAtIn(Heap, b, new, need)
  <2>1. b \in InUse(Heap) /\ b \in HaveRoom(need) /\ block[b].free >= need
    BY <1>3, <1>5 DEF HaveRoom
  <2>2. \A c \in InUse(Heap) :
          /\ c \in Nat /\ c \in Addresses /\ block[c].used \in Nat /\ block[c].free \in Nat
          /\ block[c].used > 0 /\ End(Heap, c) = c + block[c].used + block[c].free /\ End(Heap, c) \in Nat
          /\ \A x \in InUse(Heap) : x > c => x >= End(Heap, c)
    BY HeapIs, InOrder DEF End
  <2>3. new \in Nat /\ new % Grain = 0 /\ new + need <= End(Heap, b) /\ End(Heap, b) - (new + need) = 0
        /\ b + block[b].used <= new
    <3>1. End(Heap, b) \in Nat /\ End(Heap, b) % Grain = 0
      BY <2>1, WholeEnds
    <3>2. need <= End(Heap, b) /\ b + block[b].used <= new /\ new = End(Heap, b) - need
      BY <1>1, <2>1, <2>2
    <3> HIDE DEF new
    <3>3. new \in Nat /\ new % Grain = 0
      BY <1>1, <3>1, <3>2, WholeLess
    <3> QED
      BY <1>1, <3>1, <3>2, <3>3
  <2>4. /\ new \in Addresses /\ Room(Heap, b, new, need, room, 0)
        /\ Memory!Fits(new, need) /\ need \in Memory!Sizes /\ new \in Header .. Top - need
        /\ HeapOK(g) /\ PiecesOf(g) = pieces \cup {Memory!Piece(new, need)}
    <3> HIDE DEF new
    <3> QED
      BY <1>1, <2>1, <2>3, Place
  <2>5. AllocTopIn(Heap, b, need) = g
    <3> HIDE DEF room, new
    <3> QED
      BY <2>1, <2>4, AllocTopIs
  <2> HIDE DEF g, room
  <2>6. HeapOK(Heap)' /\ pieces' = pieces \cup {Memory!Piece(new, need)}
    BY <1>2, <1>5, <2>4, <2>5, BecomesIs
  <2>7. ASSUME NEW a \in new + 1 .. Top - need, Memory!Fits(a, need) PROVE FALSE
    <3>1. a \in Int /\ a > new
      BY <1>1, <2>3
    <3>2. PICK c \in InUse(Heap) : c + block[c].used <= a /\ a + need <= End(Heap, c)
      BY <1>1, <2>7, <3>1, FitsGap
    <3>3. c \in HaveRoom(need)
      BY <1>1, <2>2, <3>1, <3>2 DEF HaveRoom
    <3>4. c <= b
      BY <1>3, <1>5, <3>3
    <3>5. CASE c = b
      BY <1>1, <2>1, <2>2, <3>1, <3>2, <3>5
    <3>6. CASE c < b
      <4>1. b >= End(Heap, c)
        BY <2>1, <2>2, <3>6
      <4> QED
        BY <1>1, <2>1, <2>2, <3>1, <3>2, <4>1
    <3> QED
      BY <2>1, <2>2, <3>4, <3>5, <3>6
  <2>8. Memory!Highest(new, need)
    BY <2>4, <2>7 DEF Memory!Highest
  <2>9. Memory!AllocHigh(need)
    BY <2>4, <2>6, <2>8 DEF Memory!AllocHigh, Memory!Give
  <2> QED
    BY <2>4, <2>6, <2>9
<1> QED
  BY <1>4, <1>5

\* CHeap__AllocAt gives the place that is asked for, or nothing.
LEMMA AllocAtStep ==
  ASSUME HeapOK(Heap), NEW n \in Requests, NEW new \in Addresses, AllocAt(new, n)
  PROVE  HeapOK(Heap)' /\ (pieces' = pieces \/ \E m \in Memory!Sizes :
                                                 \E a \in Header .. Top - m : Memory!AllocAt(a, m))
<1> DEFINE need == Need(n)
           b == BlockAround(new, need)
           g == AllocAtIn(Heap, b, new, need)
<1>1. need \in Nat /\ need >= Header /\ need % Grain = 0 /\ need > 0 /\ Header \in Nat /\ Top \in Nat
      /\ new \in Nat /\ new % Grain = 0
  BY HeapFacts
<1>2. Becomes(IF b = Nil THEN Heap ELSE g)
  BY DEF AllocAt
<1> HIDE DEF need
<1>3. b # Nil => b \in InUse(Heap) /\ b + block[b].used <= new /\ new + need <= End(Heap, b)
  BY <1>1, FindsAround
<1> HIDE DEF b
<1>4. CASE b = Nil
  <2> HIDE DEF g
  <2> QED
    BY <1>2, <1>4, NothingBecomes
<1>5. CASE b # Nil
  <2>1. /\ Memory!Fits(new, need) /\ need \in Memory!Sizes /\ new \in Header .. Top - need
        /\ HeapOK(g) /\ PiecesOf(g) = pieces \cup {Memory!Piece(new, need)}
    BY <1>1, <1>3, <1>5, Place
  <2> HIDE DEF g
  <2>2. HeapOK(Heap)' /\ pieces' = pieces \cup {Memory!Piece(new, need)}
    BY <1>2, <1>5, <2>1, BecomesIs
  <2>3. Memory!AllocAt(new, need)
    BY <2>1, <2>2 DEF Memory!AllocAt, Memory!Give
  <2> QED
    BY <2>1, <2>2, <2>3
<1> QED
  BY <1>4, <1>5

\* CHeap__Free gives back one piece.
LEMMA FreeStep ==
  ASSUME HeapOK(Heap), NEW b \in Addresses, Free(b)
  PROVE  HeapOK(Heap)' /\ \E p \in pieces : Memory!Free(p)
<1> DEFINE g == FreeIn(Heap, b)
           p == [at |-> b, size |-> block[b].used]
<1>1. b \in InUse(Heap) /\ b # 0 /\ Becomes(g) /\ Heap.block = block
  BY HeapIs DEF Free
<1>2. p \in pieces
  BY <1>1, HeapIs DEF pieces
<1>3. g = FreeIn(Heap, b)
  OBVIOUS
<1> HIDE DEF g
<1>4. HeapOK(g) /\ PiecesOf(g) = pieces \ {p}
  BY <1>1, <1>3, FreeIs, HeapIs
<1>5. HeapOK(Heap)' /\ pieces' = pieces \ {p}
  BY <1>1, <1>4, BecomesIs
<1> QED
  BY <1>2, <1>5 DEF Memory!Free

\* CHeap__FreeAll gives back all pieces.
LEMMA FreeAllStep == ASSUME HeapOK(Heap), FreeAll PROVE HeapOK(Heap)' /\ Memory!FreeAll
<1> DEFINE g == FreeAllIn
<1>1. Becomes(g) /\ HeapOK(g) /\ PiecesOf(g) = {}
  BY FreeAllIs DEF FreeAll
<1> HIDE DEF g
<1>2. HeapOK(Heap)' /\ pieces' = {}
  BY <1>1, BecomesIs
<1> QED
  BY <1>2 DEF Memory!FreeAll

\* Every step keeps the heap sound and is a step of the arena.
LEMMA HeapSteps ==
  ASSUME HeapOK(Heap), [HeapNext]_heapVars PROVE HeapOK(Heap)' /\ [Memory!Next]_pieces
<1>1. ASSUME NEW n \in Requests, Alloc(n) PROVE HeapOK(Heap)' /\ [Memory!Next]_pieces
  BY <1>1, AllocStep DEF Memory!Next
<1>2. ASSUME NEW n \in Requests, AllocTop(n) PROVE HeapOK(Heap)' /\ [Memory!Next]_pieces
  BY <1>2, AllocTopStep DEF Memory!Next
<1>3. ASSUME NEW n \in Requests, NEW a \in Addresses, AllocAt(a, n)
      PROVE  HeapOK(Heap)' /\ [Memory!Next]_pieces
  BY <1>3, AllocAtStep DEF Memory!Next
<1>4. ASSUME NEW b \in Addresses, Free(b) PROVE HeapOK(Heap)' /\ [Memory!Next]_pieces
  BY <1>4, FreeStep DEF Memory!Next
<1>5. CASE FreeAll
  BY <1>5, FreeAllStep DEF Memory!Next
<1>6. CASE UNCHANGED heapVars
  BY <1>6 DEF heapVars, Heap, pieces, Used
<1> QED
  BY <1>1, <1>2, <1>3, <1>4, <1>5, <1>6 DEF HeapNext

\* The lists of the heap are in address order, without end and complete; each
\* block and the free memory after it reach up to the next block; a block
\* without free memory is not on the free list (CHeap__Alloc, AllocTop, AllocAt,
\* Free, FreeAll).
THEOREM HeapHolds == HeapSpec => []HeapOK(Heap)
<1>1. HeapInit => HeapOK(Heap)
  BY HeapStarts
<1>2. HeapOK(Heap) /\ [HeapNext]_heapVars => HeapOK(Heap)'
  BY HeapSteps
<1> QED
  BY <1>1, <1>2, PTL DEF HeapSpec

\* The heap does what an arena does: first fit from either end, at the address
\* that is asked for, and a freed block gives back just itself.
THEOREM HeapIsArena == HeapSpec => ImplementsArena
<1>1. HeapInit => Memory!Init
  BY HeapStarts DEF Memory!Init
<1>2. HeapOK(Heap) /\ [HeapNext]_heapVars => [Memory!Next]_pieces
  BY HeapSteps
<1> QED
  BY <1>1, <1>2, HeapHolds, PTL DEF HeapSpec, ImplementsArena, Memory!Spec

\* In a sound heap the searches find every gap.
LEMMA AllGapsFound == HeapOK(Heap) => GapsFound
<1> SUFFICES ASSUME HeapOK(Heap), NEW n \in Requests
             PROVE  LET gaps == {a \in Addresses : Memory!Fits(a, Need(n))} IN
                    /\ FirstWithRoom(Need(n)) # Nil <=> gaps # {}
                    /\ LastWithRoom(Need(n)) # Nil <=> gaps # {}
                    /\ \A a \in Addresses : BlockAround(a, Need(n)) # Nil <=> a \in gaps
  BY DEF GapsFound
<1> DEFINE need == Need(n)
           gaps == {a \in Addresses : Memory!Fits(a, need)}
<1>1. need \in Nat /\ need >= Header /\ need % Grain = 0 /\ need > 0 /\ Header \in Nat /\ Nil \notin Addresses
      /\ \A a \in Addresses : a \in Nat /\ a \in Int /\ a % Grain = 0
  BY HeapFacts
<1> HIDE DEF need
<1>2. \A c \in InUse(Heap) :
        /\ c \in Nat /\ c \in Addresses /\ block[c].used \in Nat /\ block[c].free \in Nat
        /\ End(Heap, c) = c + block[c].used + block[c].free
  BY HeapIs, InOrder DEF End
<1>3. gaps # {} <=> HaveRoom(need) # {}
  <2>1. ASSUME NEW a \in gaps PROVE HaveRoom(need) # {}
    <3>1. PICK c \in InUse(Heap) : c + block[c].used <= a /\ a + need <= End(Heap, c)
      BY <1>1, <2>1, FitsGap
    <3>2. c \in HaveRoom(need)
      BY <1>1, <1>2, <2>1, <3>1 DEF HaveRoom
    <3> QED
      BY <3>2
  <2>2. ASSUME NEW c \in HaveRoom(need) PROVE gaps # {}
    <3> DEFINE a == c + block[c].used
    <3>1. c \in InUse(Heap) /\ block[c].free >= need
      BY <1>1, <2>2, Finds DEF HaveRoom
    <3>2. a \in Nat /\ a % Grain = 0
      BY <3>1, WholeEnds
    <3>3. c + block[c].used <= a /\ a + need <= End(Heap, c)
      BY <1>1, <1>2, <3>1
    <3> HIDE DEF a
    <3>4. a \in Addresses /\ Memory!Fits(a, need)
      BY <1>1, <3>1, <3>2, <3>3, Place
    <3> QED
      BY <3>4
  <2> QED
    BY <2>1, <2>2
<1>4. FirstWithRoom(need) # Nil <=> HaveRoom(need) # {}
  BY <1>1, Finds
<1>5. LastWithRoom(need) # Nil <=> HaveRoom(need) # {}
  BY <1>1, Finds
<1>6. ASSUME NEW a \in Addresses PROVE BlockAround(a, need) # Nil <=> Memory!Fits(a, need)
  <2>1. /\ LET b == BlockAround(a, need) IN
             b # Nil => b \in InUse(Heap) /\ b + block[b].used <= a /\ a + need <= End(Heap, b)
        /\ \A c \in InUse(Heap) : c + block[c].used <= a /\ a + need <= End(Heap, c)
             => BlockAround(a, need) # Nil
    BY <1>1, FindsAround
  <2>2. Memory!Fits(a, need) <=> \E b \in InUse(Heap) : b + block[b].used <= a /\ a + need <= End(Heap, b)
    BY <1>1, FitsGap
  <2> QED
    BY <2>1, <2>2
<1> QED
  BY <1>3, <1>4, <1>5, <1>6 DEF need

\* A request is refused only when no free memory has room for it: what is free
\* is on the list, from either end, and in one piece with what is free beside it.
THEOREM GapsAreFound == HeapSpec => []GapsFound
BY HeapHolds, AllGapsFound, PTL

-----------------------------------------------------------------------------
(* What the users of the heap rely on                                      *)

Apart(p, q) == p.at + p.size <= q.at \/ q.at + q.size <= p.at

\* The blocks that are given lie in the memory, and no two of them overlap.
BlocksApart ==
  /\ pieces \subseteq [at : Int, size : Int]
  /\ \A p \in pieces : p.size > 0 /\ p.at >= Header /\ p.at + p.size <= Top
  /\ \A p, q \in pieces : p # q => Apart(p, q)

\* In a heap whose lists are sound, blocks follow one another.
LEMMA InOrderApart == HeapOK(Heap) => BlocksApart
<1> SUFFICES ASSUME HeapOK(Heap) PROVE BlocksApart
  OBVIOUS
<1>1. /\ pieces = {[at |-> a, size |-> block[a].used] : a \in InUse(Heap) \ {0}}
      /\ 0 \in InUse(Heap) /\ block[0].used = Header
  BY HeapIs DEF HeapOK, pieces, PiecesOf
<1>2. ASSUME NEW a \in InUse(Heap)
      PROVE  /\ a \in Nat /\ block[a].used \in Nat /\ block[a].used > 0
             /\ a + block[a].used <= Top
             /\ \A b \in InUse(Heap) : b > a => a + block[a].used <= b
  <2>1. /\ a \in Nat /\ block[a].used \in Nat /\ block[a].free \in Nat
        /\ block[a].used > 0 /\ End(Heap, a) <= Top
        /\ \A b \in InUse(Heap) : b > a => b >= End(Heap, a)
    BY HeapIs, InOrder
  <2>2. End(Heap, a) = a + block[a].used + block[a].free
    BY HeapIs DEF End
  <2>3. \A b \in InUse(Heap) : b \in Nat
    BY InOrder
  <2>4. Top \in Nat
    BY HeapFacts
  <2> DEFINE u == block[a].used
             e == End(Heap, a)
  <2>5. a \in Nat /\ u \in Nat /\ e \in Nat /\ a + u <= e /\ e <= Top
    BY <2>1, <2>2
  <2> HIDE DEF u, e
  <2>6. a + u <= Top
    BY <2>4, <2>5
  <2>7. ASSUME NEW b \in InUse(Heap), b > a PROVE a + u <= b
    <3>1. b \in Nat /\ b >= e
      BY <2>1, <2>3, <2>7 DEF e
    <3> QED
      BY <2>5, <3>1
  <2> QED
    BY <2>1, <2>6, <2>7 DEF u
<1>3. \A a \in InUse(Heap) \ {0} : a >= Header /\ a + block[a].used <= Top
  BY <1>1, <1>2
<1>4. \A a, b \in InUse(Heap) \ {0} :
        a # b => a + block[a].used <= b \/ b + block[b].used <= a
  BY <1>2
<1> QED
  BY <1>1, <1>2, <1>3, <1>4 DEF BlocksApart, Apart

\* No two blocks that are in use overlap, whatever was allocated, at either end
\* or at an address, and freed before (CHeap__Alloc, AllocTop, AllocAt, Free).
THEOREM BlocksStayApart == HeapSpec => []BlocksApart
BY HeapHolds, InOrderApart, PTL

\* CCache__Compact frees a block and allocates one of its size from the start:
\* the new one is where the old one was or below, never above, so that it may
\* copy the data downwards and every compaction comes to an end.
THEOREM CompactionMovesDown ==
  ASSUME BlocksApart, NEW p \in pieces,
         NEW a \in Int, pieces' = pieces \ {p}, Memory!Lowest(a, p.size)'
  PROVE  a <= p.at
<1>1. p.at \in Int /\ p.size \in Int /\ p.at \in Header .. Top - p.size
  BY HeapFacts DEF BlocksApart
<1>2. Memory!Fits(p.at, p.size)'
  BY <1>1 DEF Memory!Fits, BlocksApart, Apart
<1>3. p.at \notin Header .. a - 1
  BY <1>2 DEF Memory!Lowest
<1> QED
  BY <1>1, <1>3, HeapFacts

-----------------------------------------------------------------------------
(* The size of the table                                                   *)

\* The even half of the table is at least its capacity (the loop of CHashTable__Construct).
LEMMA HalfHolds == Half \in Nat /\ Half >= Capacity /\ Half >= 1
<1> DEFINE D == 1 .. 2 * Capacity
           Def(g) == [h \in D |-> IF h >= Capacity THEN h ELSE g[2 * h]]
           f == CHOOSE g : g = Def(g)
           Good(g, n) == \A h \in D : h > 2 * Capacity - n => g[h] = IF h >= Capacity THEN h ELSE g[2 * h]
           P == {n \in Nat : \E g : g \in [D -> D] /\ Good(g, n)}
<1>1. Capacity \in Nat /\ Capacity >= 1 /\ \A h \in D : h < Capacity => 2 * h \in D
  BY TableSound
<1>2. 0 \in P
  <2>1. [h \in D |-> h] \in [D -> D]
    OBVIOUS
  <2>2. Good([h \in D |-> h], 0)
    BY <1>1
  <2> HIDE DEF Good
  <2> QED
    BY <2>1, <2>2
<1>3. ASSUME NEW n \in Nat, n \in P PROVE n + 1 \in P
  <2>1. PICK g : g \in [D -> D] /\ Good(g, n)
    BY <1>3
  <2> DEFINE k == 2 * Capacity - n
             e == [g EXCEPT ![k] = IF k >= Capacity THEN k ELSE g[2 * k]]
  <2>2. CASE k \in D
    <3>1. e \in [D -> D] /\ e[k] = (IF k >= Capacity THEN k ELSE g[2 * k])
          /\ \A h \in D : h # k => e[h] = g[h]
      BY <1>1, <2>1, <2>2
    <3>2. ASSUME NEW h \in D, h > 2 * Capacity - (n + 1)
          PROVE  e[h] = IF h >= Capacity THEN h ELSE e[2 * h]
      <4>1. h < Capacity => 2 * h # k /\ 2 * h \in D
        BY <1>1, <3>2
      <4> HIDE DEF e
      <4>2. CASE h = k
        BY <1>1, <3>1, <4>1, <4>2
      <4>3. CASE h # k
        <5>1. h > k /\ h > 2 * Capacity - n
          BY <1>1, <1>3, <3>2, <4>3
        <5>2. g[h] = IF h >= Capacity THEN h ELSE g[2 * h]
          BY <2>1, <5>1
        <5>3. e[h] = g[h]
          BY <3>1, <4>3
        <5>4. h < Capacity => e[2 * h] = g[2 * h]
          BY <3>1, <4>1
        <5>5. h >= Capacity \/ h < Capacity
          BY <1>1
        <5> HIDE DEF D, k
        <5> QED
          BY <5>2, <5>3, <5>4, <5>5
      <4> QED
        BY <4>2, <4>3
    <3> HIDE DEF e
    <3>3. Good(e, n + 1)
      BY <3>2
    <3> HIDE DEF Good
    <3> QED
      BY <1>3, <3>1, <3>3
  <2>3. CASE k \notin D
    <3>1. ASSUME NEW h \in D, h > 2 * Capacity - (n + 1)
          PROVE  g[h] = IF h >= Capacity THEN h ELSE g[2 * h]
      <4>1. h # k /\ h > 2 * Capacity - n
        BY <1>1, <1>3, <2>3, <3>1
      <4> QED
        BY <2>1, <4>1
    <3>2. Good(g, n + 1)
      BY <3>1
    <3> HIDE DEF Good
    <3> QED
      BY <1>3, <2>1, <3>2
  <2> QED
    BY <2>2, <2>3
<1>4. 2 * Capacity \in P
  <2> HIDE DEF P
  <2> QED
    BY <1>1, <1>2, <1>3, Upwards
<1>5. PICK g : g = Def(g)
  <2>1. PICK g : g \in [D -> D] /\ Good(g, 2 * Capacity)
    BY <1>4
  <2>2. \A h \in D : g[h] = IF h >= Capacity THEN h ELSE g[2 * h]
    BY <1>1, <2>1
  <2>3. g = Def(g)
    BY <2>1, <2>2
  <2> QED
    BY <2>3
<1>6. f = Def(f)
  <2> HIDE DEF Def
  <2> QED
    BY <1>5
<1> HIDE DEF f
<1>7. \A h \in D : f[h] = IF h >= Capacity THEN h ELSE f[2 * h]
  BY <1>6
<1> DEFINE Q == {n \in Nat : \A h \in D : h > 2 * Capacity - n => f[h] \in Nat /\ f[h] >= Capacity}
<1>8. 0 \in Q
  BY <1>1
<1>9. ASSUME NEW n \in Nat, n \in Q PROVE n + 1 \in Q
  <2> SUFFICES ASSUME NEW h \in D, h > 2 * Capacity - (n + 1)
               PROVE  f[h] \in Nat /\ f[h] >= Capacity
    BY <1>9
  <2>1. CASE h >= Capacity
    BY <1>1, <1>7, <2>1
  <2>2. CASE h < Capacity
    <3>1. 2 * h \in D /\ 2 * h > 2 * Capacity - n /\ f[h] = f[2 * h]
      BY <1>1, <1>7, <1>9, <2>2
    <3> QED
      BY <1>9, <3>1
  <2> QED
    BY <1>1, <2>1, <2>2
<1>10. 2 * Capacity \in Q
  <2> HIDE DEF Q
  <2> QED
    BY <1>1, <1>8, <1>9, Upwards
<1>11. f[1] \in Nat /\ f[1] >= Capacity
  BY <1>1, <1>10
<1>12. Half = f[1]
  BY DEF Half, f
<1> QED
  BY <1>1, <1>11, <1>12

-----------------------------------------------------------------------------
(* The chains of the table                                                 *)

Entries == [key : Keys \cup {NoKey}, value : Values \cup {NoKey},
            next : (Slots \ Buckets) \cup {NoKey}]

TableTypes == slot \in [Slots -> Entries]

Ends(i) == slot[i].next = NoKey

SameBucket(i, j) == Bucket(slot[i].key) = Bucket(slot[j].key)

\* No chain has a loop: the rank of a slot falls along it.
Falls(rank) ==
  rank \in [Slots -> Nat] /\ \A i \in Slots : ~Ends(i) => rank[slot[i].next] < rank[i]

TableInv ==
  /\ TableTypes
  /\ \A i \in Slots : IF i \in InTable THEN slot[i].key \in Keys ELSE slot[i] = Empty
  /\ \A i \in InTable \cap Buckets : Bucket(slot[i].key) = i
  /\ \A i \in InTable \ Buckets : \E j \in InTable : slot[j].next = i
  /\ \A i, j \in Slots : ~Ends(i) /\ slot[i].next = slot[j].next => i = j
  /\ \A i \in InTable : ~Ends(i) => slot[i].next \in InTable /\ SameBucket(slot[i].next, i)
  /\ \A i, j \in InTable : slot[i].key = slot[j].key => i = j
  /\ \E rank : Falls(rank)

\* Slots and buckets are numbers; no odd slot stands for "no key".
LEMMA SlotFacts ==
  /\ Half \in Nat /\ Half >= Capacity /\ Half >= 1 /\ Capacity \in Nat
  /\ Slots \subseteq Nat /\ Buckets \subseteq Slots
  /\ \A k \in Keys : Bucket(k) \in Buckets
  /\ NoKey \notin Keys \cup Values /\ NoKey \notin Slots \ Buckets
<1>1. Half \in Nat /\ Half >= Capacity /\ Half >= 1 /\ Capacity \in Nat
  BY HalfHolds, TableSound
<1>2. Slots \subseteq Nat /\ Buckets \subseteq Slots
  BY <1>1 DEF Slots, Buckets
<1>3. ASSUME NEW k \in Keys PROVE Bucket(k) \in Buckets
  <2> DEFINE i == Hash[k] % (2 * Half)
  <2>1. i \in 0 .. 2 * Half - 1
    BY <1>1, TableSound
  <2>2. i - (i % 2) \in 0 .. 2 * Half - 1 /\ (i - (i % 2)) % 2 = 0
    <3> HIDE DEF i
    <3> QED
      BY <1>1, <2>1
  <2> QED
    BY <2>2 DEF Bucket, Buckets, Slots
<1> QED
  BY <1>1, <1>2, <1>3, TableSound

\* Ranks are bounded.
LEMMA RankBounded ==
  ASSUME NEW rank \in [Slots -> Nat]
  PROVE  \E top \in Nat : \A i \in Slots : rank[i] <= top
<1> DEFINE P == {n \in Nat : \E top \in Nat : \A i \in Slots : i < n => rank[i] <= top}
<1>0. Slots \subseteq Nat /\ Half \in Nat /\ \A i \in Slots : rank[i] \in Nat
  BY SlotFacts
<1>1. 0 \in P
  BY <1>0
<1>2. ASSUME NEW n \in Nat, n \in P PROVE n + 1 \in P
  <2>1. PICK top \in Nat : \A i \in Slots : i < n => rank[i] <= top
    BY <1>2
  <2>2. CASE n \in Slots
    <3>1. PICK more \in Nat : more >= top /\ more >= rank[n]
      BY <1>0, <2>2
    <3>2. \A i \in Slots : i < n + 1 => rank[i] <= more
      BY <1>0, <2>1, <3>1
    <3> QED
      BY <3>2
  <2>3. CASE n \notin Slots
    <3>1. \A i \in Slots : i < n + 1 => i < n
      BY <1>0, <2>3
    <3> QED
      BY <2>1, <3>1
  <2> QED
    BY <2>2, <2>3
<1>3. 2 * Half \in P
  <2> HIDE DEF P
  <2> QED
    BY <1>0, <1>1, <1>2, Upwards
<1>4. \A i \in Slots : i < 2 * Half
  BY <1>0 DEF Slots
<1> QED
  BY <1>3, <1>4

\* What Along computes.
LEMMA AlongSteps ==
  ASSUME TableInv, NEW S
  PROVE  \A i \in Slots : Along(i, S) = IF i \in S \/ Ends(i) THEN i ELSE Along(slot[i].next, S)
<1> DEFINE Def(g) == [j \in Slots |-> IF j \in S \/ slot[j].next = NoKey THEN j ELSE g[slot[j].next]]
           f == CHOOSE g : g = Def(g)
<1>1. PICK rank : Falls(rank)
  BY DEF TableInv
<1>2. PICK top \in Nat : \A i \in Slots : rank[i] <= top
  BY <1>1, RankBounded DEF Falls
<1>3. \A i \in Slots : ~Ends(i) => slot[i].next \in Slots
  BY DEF TableInv, TableTypes, Entries, Ends
<1>4. \A i \in Slots : rank[i] \in Nat /\ (~Ends(i) => rank[slot[i].next] < rank[i])
  BY <1>1 DEF Falls
<1> DEFINE Good(g, n) ==
             \A j \in Slots : rank[j] < n =>
               g[j] = IF j \in S \/ slot[j].next = NoKey THEN j ELSE g[slot[j].next]
           P == {n \in Nat : \E g : Good(g, n)}
<1>5. 0 \in P
  BY <1>4
<1>6. ASSUME NEW n \in Nat, n \in P PROVE n + 1 \in P
  <2>1. PICK g : Good(g, n)
    BY <1>6
  <2> DEFINE e == Def(g)
  <2>2. ASSUME NEW j \in Slots, rank[j] < n PROVE e[j] = g[j]
    BY <2>1, <2>2
  <2>3. ASSUME NEW j \in Slots, rank[j] < n + 1
        PROVE  e[j] = IF j \in S \/ slot[j].next = NoKey THEN j ELSE e[slot[j].next]
    <3>1. CASE j \in S \/ slot[j].next = NoKey
      BY <3>1
    <3>2. CASE ~(j \in S \/ slot[j].next = NoKey)
      <4>1. e[j] = g[slot[j].next]
        BY <3>2
      <4>2. slot[j].next \in Slots /\ rank[slot[j].next] < n
        BY <1>3, <1>4, <2>3, <3>2 DEF Ends
      <4>3. e[slot[j].next] = g[slot[j].next]
        BY <2>2, <4>2
      <4> QED
        BY <3>2, <4>1, <4>3
    <3> QED
      BY <3>1, <3>2
  <2> HIDE DEF e
  <2>4. Good(e, n + 1)
    BY <2>3
  <2> HIDE DEF Good
  <2> QED
    BY <2>4
<1>7. top + 1 \in P
  <2> HIDE DEF P
  <2> QED
    BY <1>5, <1>6, Upwards
<1>8. PICK g : g = Def(g)
  <2>1. PICK g : Good(g, top + 1)
    BY <1>7
  <2>2. \A j \in Slots : g[j] = IF j \in S \/ slot[j].next = NoKey THEN j ELSE g[slot[j].next]
    BY <1>2, <1>4, <2>1
  <2> DEFINE e == Def(g)
  <2>3. \A j \in Slots : e[j] = g[j]
    BY <2>2
  <2>4. e = [j \in Slots |-> IF j \in S \/ slot[j].next = NoKey THEN j ELSE e[slot[j].next]]
    <3>1. \A j \in Slots : ~(slot[j].next = NoKey) => e[slot[j].next] = g[slot[j].next]
      BY <1>3, <2>3 DEF Ends
    <3> QED
      BY <3>1
  <2> QED
    BY <2>4
<1>9. f = Def(f)
  <2> HIDE DEF Def
  <2> QED
    BY <1>8
<1>10. \A i \in Slots : Along(i, S) = f[i]
  BY DEF Along
<1> HIDE DEF f
<1>11. \A i \in Slots : f[i] = IF i \in S \/ slot[i].next = NoKey THEN i ELSE f[slot[i].next]
  BY <1>9
<1> QED
  BY <1>3, <1>10, <1>11 DEF Ends

\* A search that starts in the table ends there, in the same bucket.
LEMMA AlongStays ==
  ASSUME TableInv, NEW S, NEW i \in InTable
  PROVE  /\ Along(i, S) \in InTable /\ SameBucket(Along(i, S), i)
         /\ Along(i, S) \in S \/ Ends(Along(i, S))
<1> DEFINE Stays(j) == /\ Along(j, S) \in InTable /\ SameBucket(Along(j, S), j)
                       /\ Along(j, S) \in S \/ Ends(Along(j, S))
<1>1. PICK rank : Falls(rank)
  BY DEF TableInv
<1>2. \A j \in InTable : j \in Slots /\ rank[j] \in Nat
  BY <1>1 DEF Falls, InTable
<1> DEFINE P == {n \in Nat : \A j \in InTable : rank[j] < n => Stays(j)}
<1>3. 0 \in P
  BY <1>2
<1>4. ASSUME NEW n \in Nat, n \in P PROVE n + 1 \in P
  <2> SUFFICES ASSUME NEW j \in InTable, rank[j] < n + 1 PROVE Stays(j)
    <3> HIDE DEF Stays
    <3> QED
      OBVIOUS
  <2>0. Along(j, S) = IF j \in S \/ Ends(j) THEN j ELSE Along(slot[j].next, S)
    BY <1>2, AlongSteps
  <2>1. CASE j \in S \/ Ends(j)
    <3>1. Along(j, S) = j
      BY <2>0, <2>1
    <3> QED
      BY <2>1, <3>1 DEF SameBucket
  <2>2. CASE ~(j \in S \/ Ends(j))
    <3> DEFINE m == slot[j].next
    <3>1. m \in InTable /\ SameBucket(m, j) /\ rank[m] < rank[j] /\ Along(j, S) = Along(m, S)
      BY <1>1, <1>2, <2>0, <2>2 DEF TableInv, Falls
    <3>2. Stays(m)
      BY <1>2, <1>4, <3>1
    <3> HIDE DEF m
    <3> QED
      BY <3>1, <3>2 DEF SameBucket
  <2> QED
    BY <2>1, <2>2
<1>5. rank[i] + 1 \in P
  <2> HIDE DEF P
  <2> QED
    BY <1>2, <1>3, <1>4, Upwards
<1>6. Stays(i)
  BY <1>2, <1>5
<1> QED
  BY <1>6

\* A search from the bucket finds the only slot it looks for.
LEMMA AlongReaches ==
  ASSUME TableInv, NEW S, NEW t \in InTable, S \cap InTable = {t}
  PROVE  Bucket(slot[t].key) \in InTable /\ Along(Bucket(slot[t].key), S) = t
<1> DEFINE b == Bucket(slot[t].key)
           Reached == b \in InTable /\ Along(b, S) = t
           On(j) == Along(j, S) = t /\ SameBucket(j, t)
<1>1. PICK rank : Falls(rank)
  BY DEF TableInv
<1>2. PICK top \in Nat : \A i \in Slots : rank[i] <= top
  BY <1>1, RankBounded DEF Falls
<1>3. \A j \in InTable : j \in Slots /\ rank[j] \in Nat /\ rank[j] <= top
  BY <1>1, <1>2 DEF Falls, InTable
<1>4. ASSUME NEW j \in InTable, On(j), j \notin Buckets
      PROVE  \E p \in InTable : On(p) /\ rank[p] > rank[j]
  <2>1. PICK p \in InTable : slot[p].next = j
    BY <1>4 DEF TableInv
  <2>2. ~Ends(p)
    BY <1>3, <1>4, <2>1, SlotFacts DEF Ends
  <2>3. SameBucket(j, p) /\ rank[p] > rank[j]
    BY <1>1, <1>3, <2>1, <2>2 DEF TableInv, Falls
  <2>4. Along(p, S) = t
    <3>1. Along(p, S) = IF p \in S THEN p ELSE Along(j, S)
      BY <1>3, <2>1, <2>2, AlongSteps
    <3> QED
      BY <1>4, <3>1
  <2> QED
    BY <1>4, <2>3, <2>4 DEF SameBucket
<1>5. ASSUME NEW j \in InTable, On(j), j \in Buckets PROVE Reached
  BY <1>5 DEF TableInv, SameBucket
<1> DEFINE P == {n \in Nat : \A j \in InTable : On(j) /\ rank[j] + n > top => Reached}
<1> HIDE DEF On, Reached
<1>6. 0 \in P
  BY <1>3
<1>7. ASSUME NEW n \in Nat, n \in P PROVE n + 1 \in P
  <2> SUFFICES ASSUME NEW j \in InTable, On(j), rank[j] + (n + 1) > top PROVE Reached
    BY <1>7
  <2>1. CASE j \in Buckets
    BY <1>5, <2>1
  <2>2. CASE j \notin Buckets
    <3>1. PICK p \in InTable : On(p) /\ rank[p] > rank[j]
      BY <1>4, <2>2
    <3>2. rank[p] + n > top
      BY <1>3, <3>1
    <3> QED
      BY <1>7, <3>1, <3>2
  <2> QED
    BY <2>1, <2>2
<1>8. top + 1 \in P
  <2> HIDE DEF P
  <2> QED
    BY <1>6, <1>7, Upwards
<1>9. On(t)
  <2>1. Along(t, S) = t
    BY <1>3, AlongSteps
  <2> QED
    BY <2>1 DEF On, SameBucket
<1>10. Reached
  BY <1>3, <1>8, <1>9
<1> QED
  BY <1>10 DEF Reached

\* What a search for a key finds.
LEMMA Found ==
  ASSUME TableInv, NEW k \in Keys, NEW t \in InTable, slot[t].key = k
  PROVE  /\ Having(k) = {t} /\ Bucket(k) \in InTable
         /\ Along(Bucket(k), Having(k)) = t /\ Find(k) = slot[t].value /\ Find(k) \in Values
<1>1. InTable \subseteq Slots
  BY DEF InTable
<1>2. Having(k) = {t}
  <2>1. \A i \in Slots : slot[i].key = k => i \in InTable
    BY SlotFacts DEF TableInv, Empty
  <2>2. \A i \in InTable : slot[i].key = k => i = t
    BY DEF TableInv
  <2> QED
    BY <1>1, <2>1, <2>2 DEF Having
<1>3. Bucket(k) \in InTable /\ Along(Bucket(k), Having(k)) = t
  BY <1>2, AlongReaches
<1>4. Find(k) = slot[t].value
  BY <1>2, <1>3 DEF Find
<1>5. slot[t].value \in Values
  BY <1>1 DEF TableInv, TableTypes, Entries, InTable
<1> QED
  BY <1>2, <1>3, <1>4, <1>5

\* A key that is not in the table is not found.
LEMMA NotFound ==
  ASSUME TableInv, NEW k \in Keys, \A t \in InTable : slot[t].key # k
  PROVE  /\ Having(k) = {} /\ Find(k) = NoKey
         /\ Bucket(k) \in InTable =>
              LET i == Along(Bucket(k), Having(k))
              IN  i \in InTable /\ Ends(i) /\ Bucket(slot[i].key) = Bucket(k)
<1>1. InTable \subseteq Slots
  BY DEF InTable
<1>2. Having(k) = {}
  <2>1. \A i \in Slots \ InTable : slot[i].key = NoKey
    BY DEF TableInv, Empty
  <2>2. k # NoKey
    BY SlotFacts
  <2> QED
    BY <2>1, <2>2 DEF Having
<1>3. Find(k) = NoKey
  BY <1>2 DEF Find
<1>4. ASSUME Bucket(k) \in InTable
      PROVE  LET i == Along(Bucket(k), Having(k))
             IN  i \in InTable /\ Ends(i) /\ Bucket(slot[i].key) = Bucket(k)
  <2> DEFINE i == Along(Bucket(k), Having(k))
  <2>1. i \in InTable /\ SameBucket(i, Bucket(k)) /\ Ends(i)
    BY <1>2, <1>4, AlongStays
  <2>2. Bucket(slot[Bucket(k)].key) = Bucket(k)
    BY <1>4, SlotFacts DEF TableInv
  <2> QED
    BY <2>1, <2>2 DEF SameBucket
<1> QED
  BY <1>2, <1>3, <1>4

\* The keys that are filed are those of the slots in use.
LEMMA FiledSlots ==
  ASSUME TableInv
  PROVE  Filed = {slot[t].key : t \in InTable}
<1>1. ASSUME NEW t \in InTable PROVE slot[t].key \in Filed
  <2>1. slot[t].key \in Keys
    BY DEF TableInv, InTable
  <2> QED
    BY <2>1, Found, SlotFacts DEF Filed
<1>2. ASSUME NEW k \in Filed PROVE \E t \in InTable : slot[t].key = k
  BY NotFound DEF Filed
<1>3. Filed \subseteq {slot[t].key : t \in InTable}
  BY <1>2
<1>4. {slot[t].key : t \in InTable} \subseteq Filed
  BY <1>1
<1> QED
  BY <1>3, <1>4

\* A remainder, for numbers below twice the divisor.
LEMMA Wraps ==
  ASSUME NEW d \in Nat, d >= 1, NEW x \in 0 .. 2 * d - 1
  PROVE  x % d = IF x < d THEN x ELSE x - d
OBVIOUS

\* While the table has fewer keys than it is made for, an odd slot is free.
LEMMA OddSlotFree ==
  ASSUME TableInv, Cardinality(Filed) < Capacity, NEW i \in Slots
  PROVE  FreeOdd(i) \in Slots \ Buckets /\ FreeOdd(i) \notin InTable
<1> DEFINE N == 0 .. Half - 1
           nth(n) == (Odd(i) + 2 * n) % (2 * Half)
           free == {n \in N : slot[nth(n)].value = NoKey}
<1>0. /\ Half \in Nat /\ Half >= 1 /\ Half >= Capacity /\ Capacity \in Nat
      /\ \A j \in Slots : j \in Nat /\ j < 2 * Half
      /\ \A j \in Nat : j < 2 * Half => j \in Slots
  BY SlotFacts DEF Slots
<1>1. Odd(i) \in Nat /\ Odd(i) < 2 * Half /\ Odd(i) % 2 = 1
  BY <1>0 DEF Odd
<1>2. ASSUME NEW n \in N
      PROVE  nth(n) = IF Odd(i) + 2 * n < 2 * Half THEN Odd(i) + 2 * n ELSE Odd(i) + 2 * n - 2 * Half
  <2> DEFINE d == 2 * Half
             x == Odd(i) + 2 * n
  <2>1. d \in Nat /\ d >= 1 /\ x \in 0 .. 2 * d - 1 /\ n \in Nat
    BY <1>0, <1>1
  <2> HIDE DEF N, d, x
  <2>2. x % d = IF x < d THEN x ELSE x - d
    BY <2>1, Wraps
  <2>3. nth(n) = x % d
    BY DEF d, x
  <2> HIDE DEF nth
  <2> QED
    BY <1>0, <1>1, <2>1, <2>2, <2>3 DEF d, x
<1>3. ASSUME NEW n \in N PROVE nth(n) \in Slots \ Buckets
  <2> HIDE DEF nth
  <2>1. nth(n) \in Nat /\ nth(n) < 2 * Half /\ nth(n) % 2 = 1
    <3>1. n \in Nat /\ n < Half
      BY <1>0
    <3> QED
      BY <1>0, <1>1, <1>2, <3>1
  <2> QED
    BY <1>0, <2>1 DEF Buckets
<1>4. ASSUME NEW m \in N PROVE \E n \in N : nth(n) = 2 * m + 1
  <2>1. PICK q \in Nat : Odd(i) = 2 * q + 1 /\ q < Half
    <3>1. Odd(i) = 2 * (Odd(i) \div 2) + 1
      BY <1>1
    <3> QED
      BY <1>0, <1>1, <3>1
  <2>2. CASE m >= q
    <3>1. m - q \in N /\ Odd(i) + 2 * (m - q) = 2 * m + 1
      BY <1>0, <2>1, <2>2
    <3>2. nth(m - q) = 2 * m + 1
      BY <1>0, <1>2, <3>1
    <3> HIDE DEF nth
    <3> QED
      BY <3>1, <3>2
  <2>3. CASE m < q
    <3>1. m - q + Half \in N /\ Odd(i) + 2 * (m - q + Half) = 2 * m + 1 + 2 * Half
      BY <1>0, <2>1, <2>3
    <3>2. nth(m - q + Half) = 2 * m + 1
      BY <1>0, <1>2, <3>1
    <3> HIDE DEF nth
    <3> QED
      BY <3>1, <3>2
  <2> QED
    BY <1>0, <2>1, <2>2, <2>3
<1>5. free # {}
  <2> SUFFICES ASSUME free = {} PROVE FALSE
    OBVIOUS
  <2> DEFINE f == [m \in N |-> slot[2 * m + 1].key]
  <2>1. ASSUME NEW m \in N PROVE 2 * m + 1 \in InTable
    <3>1. PICK n \in N : nth(n) = 2 * m + 1
      BY <1>4
    <3>2. slot[nth(n)].value # NoKey /\ nth(n) \in Slots
      BY <1>3
    <3> HIDE DEF nth
    <3> QED
      BY <3>1, <3>2 DEF InTable
  <2>2. f \in [N -> Filed]
    BY <2>1, FiledSlots
  <2>3. \A x, y \in N : f[x] = f[y] => x = y
    <3>1. \A x, y \in N : 2 * x + 1 = 2 * y + 1 => x = y
      BY <1>0
    <3> QED
      BY <2>1, <3>1 DEF TableInv
  <2>4. f \in Injection(N, Filed)
    BY <2>2, <2>3 DEF Injection, IsInjective
  <2>5. IsFiniteSet(Filed)
    <3>1. IsFiniteSet(Slots)
      BY <1>0, FS_Interval DEF Slots
    <3>2. IsFiniteSet(InTable)
      BY <3>1, FS_Subset DEF InTable
    <3> DEFINE g == [t \in InTable |-> slot[t].key]
    <3>3. g \in Surjection(InTable, Filed)
      BY FiledSlots DEF Surjection
    <3> HIDE DEF g
    <3> QED
      BY <3>2, <3>3, FS_Surjection
  <2>6. Cardinality(N) = Half
    BY <1>0, FS_Interval
  <2> HIDE DEF f, N
  <2>7. Cardinality(N) <= Cardinality(Filed)
    BY <2>4, <2>5, FS_Injection
  <2> QED
    BY <1>0, <2>5, <2>6, <2>7, FS_CardinalityType
<1>6. \E n \in free : \A m \in free : n <= m
  <2>1. free \subseteq Nat
    BY <1>0
  <2> HIDE DEF free
  <2> QED
    BY <1>5, <2>1, LeastOf
<1>7. PICK n \in free : FreeOdd(i) = nth(n)
  <2> DEFINE c == CHOOSE n \in free : \A m \in free : n <= m
  <2>1. c \in free
    <3> HIDE DEF free
    <3> QED
      BY <1>6
  <2>2. FreeOdd(i) = nth(c)
    BY DEF FreeOdd
  <2> HIDE DEF c
  <2> QED
    BY <2>1, <2>2
<1>8. nth(n) \in Slots \ Buckets /\ slot[nth(n)].value = NoKey
  BY <1>3
<1> HIDE DEF nth
<1> QED
  BY <1>7, <1>8 DEF InTable

-----------------------------------------------------------------------------
(* What the operations do to the slots                                     *)

Slot(k, v, n) == [key |-> k, value |-> v, next |-> n]

Pairs == {<<slot[t].key, slot[t].value>> : t \in InTable}

\* What the slots must be after an operation.
LEMMA Assembled ==
  ASSUME NEW used, used = InTable', TableTypes',
         \A i \in Slots : IF i \in used THEN slot'[i].key \in Keys ELSE slot'[i] = Empty,
         \A i \in used \cap Buckets : Bucket(slot'[i].key) = i,
         \A i \in used \ Buckets : \E j \in used : slot'[j].next = i,
         \A i, j \in Slots : slot'[i].next # NoKey /\ slot'[i].next = slot'[j].next => i = j,
         \A i \in used : slot'[i].next # NoKey =>
            /\ slot'[i].next \in used
            /\ Bucket(slot'[slot'[i].next].key) = Bucket(slot'[i].key),
         \A i, j \in used : slot'[i].key = slot'[j].key => i = j,
         NEW rank \in [Slots -> Nat],
         \A i \in Slots : slot'[i].next # NoKey => rank[slot'[i].next] < rank[i]
  PROVE  TableInv'
<1>1. Falls(rank)'
  BY DEF Falls, Ends
<1>2. \A i \in used : ~Ends(i)' => (slot[i].next \in InTable /\ SameBucket(slot[i].next, i))'
  BY DEF Ends, SameBucket, Bucket
<1>3. (\A i, j \in Slots : ~Ends(i) /\ slot[i].next = slot[j].next => i = j)'
  BY DEF Ends
<1>4. (\A i \in Slots : IF i \in InTable THEN slot[i].key \in Keys ELSE slot[i] = Empty)'
  BY DEF Empty
<1>5. (\A i \in InTable \cap Buckets : Bucket(slot[i].key) = i)'
  BY DEF Bucket
<1>6. (\A i \in InTable \ Buckets : \E j \in InTable : slot[j].next = i)'
  OBVIOUS
<1>7. (\A i, j \in InTable : slot[i].key = slot[j].key => i = j)'
  OBVIOUS
<1>8. (\A i \in InTable : ~Ends(i) => slot[i].next \in InTable /\ SameBucket(slot[i].next, i))'
  BY <1>2
<1> QED
  BY <1>1, <1>3, <1>4, <1>5, <1>6, <1>7, <1>8 DEF TableInv

\* The fields of a slot that is written.
LEMMA Fields ==
  ASSUME TableInv, NEW i \in Slots
  PROVE  /\ slot[i] = Slot(slot[i].key, slot[i].value, slot[i].next)
         /\ slot[i].key \in Keys \cup {NoKey} /\ slot[i].value \in Values \cup {NoKey}
         /\ slot[i].next \in (Slots \ Buckets) \cup {NoKey}
         /\ i \in InTable => slot[i].key \in Keys /\ slot[i].value \in Values
         /\ i \notin InTable => slot[i] = Empty /\ Ends(i)
         /\ i \in InTable <=> slot[i].value # NoKey
BY SlotFacts DEF TableInv, TableTypes, Entries, Slot, InTable, Empty, Ends

\* Slots that are written have the type of a slot.
LEMMA NewEntries ==
  /\ TableInv => \A i \in Slots : slot[i] \in Entries
  /\ Empty \in Entries
  /\ \A k \in Keys \cup {NoKey}, v \in Values \cup {NoKey}, n \in (Slots \ Buckets) \cup {NoKey} :
       Slot(k, v, n) \in Entries
BY DEF TableInv, TableTypes, Entries, Slot, Empty

\* A value is replaced.
LEMMA SetValue ==
  ASSUME TableInv, NEW t \in InTable, NEW v \in Values,
         slot' = [j \in Slots |-> IF j = t THEN Slot(slot[t].key, v, slot[t].next) ELSE slot[j]]
  PROVE  /\ TableInv'
         /\ Pairs' = {e \in Pairs : e[1] # slot[t].key} \cup {<<slot[t].key, v>>}
<1>1. t \in Slots /\ v # NoKey
  BY SlotFacts DEF InTable
<1>2. \A j \in Slots : /\ slot'[j].key = slot[j].key /\ slot'[j].next = slot[j].next
                       /\ slot'[j].value = IF j = t THEN v ELSE slot[j].value
                       /\ j # t => slot'[j] = slot[j]
  BY <1>1 DEF Slot
<1>3. InTable' = InTable
  BY <1>1, <1>2 DEF InTable
<1>4. TableTypes'
  BY <1>1, Fields, NewEntries DEF TableTypes
<1>5. \A j \in InTable : j \in Slots /\ (~Ends(j) => slot[j].next \in Slots)
  BY Fields DEF InTable, Ends
<1>6. PICK rank : Falls(rank)
  BY DEF TableInv
<1>9. TableInv'
  <2>1. \A i \in Slots : IF i \in InTable THEN slot'[i].key \in Keys ELSE slot'[i] = Empty
    BY <1>1, <1>2 DEF TableInv
  <2>2. \A i \in InTable \cap Buckets : Bucket(slot'[i].key) = i
    BY <1>2, <1>5 DEF TableInv
  <2>3. \A i \in InTable \ Buckets : \E j \in InTable : slot'[j].next = i
    BY <1>2, <1>5 DEF TableInv
  <2>4. \A i, j \in Slots : slot'[i].next # NoKey /\ slot'[i].next = slot'[j].next => i = j
    BY <1>2 DEF TableInv, Ends
  <2>5. \A i \in InTable : slot'[i].next # NoKey =>
           slot'[i].next \in InTable /\ Bucket(slot'[slot'[i].next].key) = Bucket(slot'[i].key)
    BY <1>2, <1>5 DEF TableInv, Ends, SameBucket
  <2>6. \A i, j \in InTable : slot'[i].key = slot'[j].key => i = j
    BY <1>2, <1>5 DEF TableInv
  <2>7. rank \in [Slots -> Nat] /\ \A i \in Slots : slot'[i].next # NoKey => rank[slot'[i].next] < rank[i]
    BY <1>2, <1>6 DEF Falls, Ends
  <2> QED
    BY <1>3, <1>4, <2>1, <2>2, <2>3, <2>4, <2>5, <2>6, <2>7, Assembled
<1>10. Pairs' = {e \in Pairs : e[1] # slot[t].key} \cup {<<slot[t].key, v>>}
  <2>1. \A j \in InTable : j # t => slot[j].key # slot[t].key
    BY DEF TableInv
  <2> QED
    BY <1>2, <1>3, <1>5, <2>1 DEF Pairs
<1> QED
  BY <1>9, <1>10

\* A key goes to its bucket.
LEMMA AddBucket ==
  ASSUME TableInv, NEW k \in Keys, NEW v \in Values, Bucket(k) \notin InTable,
         \A t \in InTable : slot[t].key # k,
         slot' = [j \in Slots |-> IF j = Bucket(k) THEN Slot(k, v, NoKey) ELSE slot[j]]
  PROVE  TableInv' /\ Pairs' = Pairs \cup {<<k, v>>}
<1> DEFINE b == Bucket(k)
           used == InTable \cup {b}
<1>1. b \in Buckets /\ b \in Slots /\ v # NoKey
  BY SlotFacts
<1> HIDE DEF b
<1>2. \A j \in Slots : IF j = b THEN slot'[j].key = k /\ slot'[j].value = v /\ slot'[j].next = NoKey
                       ELSE slot'[j] = slot[j]
  BY <1>1 DEF Slot, b
<1>3. InTable' = used
  BY <1>1, <1>2 DEF InTable
<1>4. TableTypes'
  BY NewEntries DEF TableTypes
<1>5. \A j \in InTable : j \in Slots /\ j # b /\ (~Ends(j) => slot[j].next \in Slots)
  BY Fields DEF InTable, Ends, b
<1>6. PICK rank : Falls(rank)
  BY DEF TableInv
<1>7. b \notin InTable /\ slot[b].next = NoKey
  BY <1>1, Fields DEF Ends, b
<1>8. \A j \in Slots : slot[j].next # NoKey => slot[j].next # b
  BY <1>1, Fields
<1>9. TableInv'
  <2>1. \A i \in Slots : IF i \in used THEN slot'[i].key \in Keys ELSE slot'[i] = Empty
    BY <1>1, <1>2, <1>5 DEF TableInv
  <2>2. \A i \in used \cap Buckets : Bucket(slot'[i].key) = i
    BY <1>1, <1>2, <1>5 DEF TableInv, b
  <2>3. \A i \in used \ Buckets : \E j \in used : slot'[j].next = i
    BY <1>1, <1>2, <1>5 DEF TableInv
  <2>4. \A i, j \in Slots : slot'[i].next # NoKey /\ slot'[i].next = slot'[j].next => i = j
    BY <1>2 DEF TableInv, Ends
  <2>5. \A i \in used : slot'[i].next # NoKey =>
           slot'[i].next \in used /\ Bucket(slot'[slot'[i].next].key) = Bucket(slot'[i].key)
    BY <1>1, <1>2, <1>5, <1>8 DEF TableInv, Ends, SameBucket
  <2>6. \A i, j \in used : slot'[i].key = slot'[j].key => i = j
    BY <1>1, <1>2, <1>5 DEF TableInv
  <2>7. rank \in [Slots -> Nat] /\ \A i \in Slots : slot'[i].next # NoKey => rank[slot'[i].next] < rank[i]
    BY <1>1, <1>2, <1>6 DEF Falls, Ends
  <2> HIDE DEF used
  <2> QED
    BY <1>3, <1>4, <2>1, <2>2, <2>3, <2>4, <2>5, <2>6, <2>7, Assembled
<1>10. Pairs' = Pairs \cup {<<k, v>>}
  <2>1. \A j \in InTable : slot'[j] = slot[j]
    BY <1>2, <1>5
  <2>2. \A j \in used : <<slot'[j].key, slot'[j].value>> =
                          IF j = b THEN <<k, v>> ELSE <<slot[j].key, slot[j].value>>
    BY <1>1, <1>2, <2>1
  <2> QED
    BY <1>3, <1>5, <2>2 DEF Pairs
<1> QED
  BY <1>9, <1>10

\* A key goes to a free odd slot, after the end of its chain.
LEMMA AddOdd ==
  ASSUME TableInv, NEW k \in Keys, NEW v \in Values, \A t \in InTable : slot[t].key # k,
         NEW p \in InTable, Ends(p), Bucket(slot[p].key) = Bucket(k),
         NEW new \in Slots \ Buckets, new \notin InTable,
         slot' = [j \in Slots |-> IF j = new THEN Slot(k, v, NoKey)
                                  ELSE IF j = p THEN Slot(slot[p].key, slot[p].value, new) ELSE slot[j]]
  PROVE  TableInv' /\ Pairs' = Pairs \cup {<<k, v>>}
<1> DEFINE used == InTable \cup {new}
<1>1. v # NoKey /\ p \in Slots /\ p # new /\ new # NoKey
  BY SlotFacts DEF InTable
<1>2. /\ slot'[new].key = k /\ slot'[new].value = v /\ slot'[new].next = NoKey
      /\ slot'[p].key = slot[p].key /\ slot'[p].value = slot[p].value /\ slot'[p].next = new
      /\ \A j \in Slots : j # p /\ j # new => slot'[j] = slot[j]
  BY <1>1 DEF Slot
<1>3. InTable' = used
  BY <1>1, <1>2 DEF InTable
<1>4. TableTypes'
  <2>1. slot[p].key \in Keys \cup {NoKey} /\ slot[p].value \in Values \cup {NoKey}
    BY <1>1, Fields
  <2> QED
    BY <2>1, NewEntries DEF TableTypes
<1>5. \A j \in InTable : j \in Slots /\ j # new /\ (~Ends(j) => slot[j].next \in InTable)
  BY DEF TableInv, InTable
<1>6. PICK rank : Falls(rank)
  BY DEF TableInv
<1>7. \A j \in Slots : j \notin InTable => Ends(j) /\ slot[j] = Empty
  BY Fields
<1>8. \A j \in Slots : ~Ends(j) => slot[j].next \in InTable /\ slot[j].next # new
  BY <1>5, <1>7
<1>9. TableInv'
  <2>1. \A i \in Slots : IF i \in used THEN slot'[i].key \in Keys ELSE slot'[i] = Empty
    BY <1>1, <1>2, <1>5, <1>7 DEF TableInv
  <2>2. \A i \in used \cap Buckets : Bucket(slot'[i].key) = i
    BY <1>1, <1>2, <1>5 DEF TableInv
  <2>3. \A i \in used \ Buckets : \E j \in used : slot'[j].next = i
    <3>1. \A i \in InTable \ Buckets : i # NoKey /\ \E j \in InTable : j # p /\ slot[j].next = i
      BY <1>5, SlotFacts DEF TableInv, Ends
    <3> QED
      BY <1>1, <1>2, <1>5, <3>1
  <2>4. \A i, j \in Slots : slot'[i].next # NoKey /\ slot'[i].next = slot'[j].next => i = j
    <3>1. \A i \in Slots : i # p => slot'[i].next # new
      BY <1>1, <1>2, <1>8 DEF Ends
    <3>2. \A i \in Slots : i # p /\ slot'[i].next # NoKey => slot'[i].next = slot[i].next
      BY <1>2
    <3> QED
      BY <1>1, <1>2, <3>1, <3>2 DEF TableInv, Ends
  <2>5. \A i \in used : slot'[i].next # NoKey =>
           slot'[i].next \in used /\ Bucket(slot'[slot'[i].next].key) = Bucket(slot'[i].key)
    <3>1. \A i \in InTable : slot'[i].key = slot[i].key
      BY <1>1, <1>2, <1>5
    <3>2. ASSUME NEW i \in InTable, i # p, slot[i].next # NoKey
          PROVE  slot[i].next \in InTable /\ Bucket(slot'[slot[i].next].key) = Bucket(slot'[i].key)
      BY <3>1, <3>2 DEF TableInv, Ends, SameBucket
    <3> QED
      BY <1>1, <1>2, <1>5, <3>1, <3>2
  <2>6. \A i, j \in used : slot'[i].key = slot'[j].key => i = j
    BY <1>1, <1>2, <1>5 DEF TableInv
  <2> DEFINE more == [j \in Slots |-> IF j = new THEN 0 ELSE rank[j] + 1]
  <2>7. more \in [Slots -> Nat] /\ \A i \in Slots : slot'[i].next # NoKey => more[slot'[i].next] < more[i]
    <3>1. \A j \in Slots : rank[j] \in Nat
      BY <1>6 DEF Falls
    <3>2. more \in [Slots -> Nat] /\ more[new] = 0 /\ \A j \in Slots : j # new => more[j] = rank[j] + 1
      BY <3>1
    <3> HIDE DEF more
    <3>3. ASSUME NEW i \in Slots, i # new, i # p, slot'[i].next # NoKey PROVE more[slot'[i].next] < more[i]
      <4>1. slot'[i].next = slot[i].next /\ slot[i].next \in Slots /\ slot[i].next # new
            /\ rank[slot[i].next] < rank[i]
        BY <1>2, <1>5, <1>6, <1>8, <3>3 DEF Falls, Ends
      <4> QED
        BY <3>1, <3>2, <3>3, <4>1
    <3>4. more[slot'[p].next] < more[p]
      BY <1>1, <1>2, <3>1, <3>2
    <3> QED
      BY <1>2, <3>2, <3>3, <3>4
  <2> HIDE DEF used, more
  <2> QED
    BY <1>3, <1>4, <2>1, <2>2, <2>3, <2>4, <2>5, <2>6, <2>7, Assembled
<1>10. Pairs' = Pairs \cup {<<k, v>>}
  <2>1. \A j \in InTable : slot'[j].key = slot[j].key /\ slot'[j].value = slot[j].value
    BY <1>1, <1>2, <1>5
  <2>2. \A j \in used : <<slot'[j].key, slot'[j].value>> =
                          IF j = new THEN <<k, v>> ELSE <<slot[j].key, slot[j].value>>
    BY <1>2, <1>5, <2>1
  <2> QED
    BY <1>3, <1>5, <2>2 DEF Pairs
<1> QED
  BY <1>9, <1>10

\* The end of a chain goes.
LEMMA DropEnd ==
  ASSUME TableInv, NEW i \in InTable, Ends(i),
         slot' = [j \in Slots |-> IF j = i THEN Empty
                                  ELSE IF slot[j].next = i THEN Slot(slot[j].key, slot[j].value, NoKey)
                                  ELSE slot[j]]
  PROVE  TableInv' /\ Pairs' = {e \in Pairs : e[1] # slot[i].key}
<1> DEFINE used == InTable \ {i}
<1>1. \A j \in Slots : /\ j # i => slot'[j].key = slot[j].key /\ slot'[j].value = slot[j].value
                       /\ j # i /\ slot[j].next # i => slot'[j] = slot[j]
                       /\ j # i /\ slot[j].next = i => slot'[j].next = NoKey
  BY DEF Slot
<1>2. i \in Slots /\ slot'[i] = Empty /\ slot'[i].value = NoKey /\ slot'[i].next = NoKey
  BY DEF InTable, Empty
<1>3. InTable' = used
  BY <1>1, <1>2 DEF InTable
<1>4. TableTypes'
  BY Fields, NewEntries DEF TableTypes
<1>5. \A j \in InTable : j \in Slots /\ (~Ends(j) => slot[j].next \in InTable)
  BY DEF TableInv, InTable
<1>6. PICK rank : Falls(rank)
  BY DEF TableInv
<1>7. \A j \in Slots : j \notin InTable => Ends(j) /\ slot[j] = Empty /\ slot[j].value = NoKey
  BY Fields
<1>8. \A j \in Slots : slot'[j].next # NoKey => j # i /\ slot[j].next # i /\ slot'[j].next = slot[j].next
  BY <1>1, <1>2
<1>9. TableInv'
  <2>1. \A j \in Slots : IF j \in used THEN slot'[j].key \in Keys ELSE slot'[j] = Empty
    <3>1. ASSUME NEW j \in Slots, j \notin InTable PROVE slot'[j] = Empty
      <4>1. j # i /\ slot[j] = Empty /\ Slot(slot[j].key, slot[j].value, NoKey) = slot[j]
        BY <1>7, <3>1 DEF Empty, Slot
      <4> QED
        BY <4>1
    <3> QED
      BY <1>1, <1>2, <3>1 DEF TableInv
  <2>2. \A j \in used \cap Buckets : Bucket(slot'[j].key) = j
    BY <1>1, <1>5 DEF TableInv
  <2>3. \A j \in used \ Buckets : \E p \in used : slot'[p].next = j
    <3>1. \A j \in InTable \ Buckets : j # NoKey /\ \E p \in InTable : p # i /\ slot[p].next = j
      BY <1>5, SlotFacts DEF TableInv, Ends
    <3> QED
      BY <1>1, <1>5, <3>1
  <2>4. \A p, q \in Slots : slot'[p].next # NoKey /\ slot'[p].next = slot'[q].next => p = q
    BY <1>8 DEF TableInv, Ends
  <2>5. \A j \in used : slot'[j].next # NoKey =>
           slot'[j].next \in used /\ Bucket(slot'[slot'[j].next].key) = Bucket(slot'[j].key)
    <3>1. \A j \in used : slot'[j].key = slot[j].key /\ j \in Slots
      BY <1>1, <1>5
    <3> SUFFICES ASSUME NEW j \in used, slot'[j].next # NoKey
                 PROVE  slot'[j].next \in used /\ Bucket(slot'[slot'[j].next].key) = Bucket(slot'[j].key)
      OBVIOUS
    <3>2. slot'[j].next = slot[j].next /\ slot[j].next \in used /\ ~Ends(j)
      BY <1>5, <1>8, <3>1 DEF Ends
    <3>3. Bucket(slot[slot[j].next].key) = Bucket(slot[j].key)
      BY <3>2 DEF TableInv, SameBucket
    <3> QED
      BY <3>1, <3>2, <3>3
  <2>6. \A p, q \in used : slot'[p].key = slot'[q].key => p = q
    BY <1>1, <1>5 DEF TableInv
  <2>7. rank \in [Slots -> Nat] /\ \A j \in Slots : slot'[j].next # NoKey => rank[slot'[j].next] < rank[j]
    BY <1>6, <1>8 DEF Falls, Ends
  <2> HIDE DEF used
  <2> QED
    BY <1>3, <1>4, <2>1, <2>2, <2>3, <2>4, <2>5, <2>6, <2>7, Assembled
<1>10. Pairs' = {e \in Pairs : e[1] # slot[i].key}
  <2>1. \A j \in InTable : j # i => slot[j].key # slot[i].key
    BY DEF TableInv
  <2> QED
    BY <1>1, <1>3, <1>5, <2>1 DEF Pairs
<1> QED
  BY <1>9, <1>10

\* A slot takes over its successor, which goes instead.
LEMMA TakeOver ==
  ASSUME TableInv, NEW i \in InTable, ~Ends(i), NEW n, n = slot[i].next,
         slot' = [j \in Slots |-> IF j = n THEN Empty ELSE IF j = i THEN slot[n] ELSE slot[j]]
  PROVE  TableInv' /\ Pairs' = {e \in Pairs : e[1] # slot[i].key}
<1> DEFINE used == InTable \ {n}
<1>5. \A j \in InTable : j \in Slots /\ (~Ends(j) => slot[j].next \in InTable)
  BY DEF TableInv, InTable
<1>6. PICK rank : Falls(rank)
  BY DEF TableInv
<1>7. \A j \in Slots : j \notin InTable => Ends(j) /\ slot[j] = Empty
  BY Fields
<1>a. \A j \in Slots : rank[j] \in Nat
  BY <1>6 DEF Falls
<1>b. n \in InTable /\ n \in Slots /\ n \notin Buckets /\ i \in Slots /\ rank[n] < rank[i] /\ n # i
      /\ Bucket(slot[n].key) = Bucket(slot[i].key)
  BY <1>5, <1>6, <1>a, Fields DEF Falls, TableInv, SameBucket, Ends
<1>c. \A j \in Slots : j # i => slot[j].next # n
  BY <1>b DEF TableInv, Ends
<1>d. slot[n].next # NoKey => /\ slot[n].next \in InTable /\ slot[n].next # n /\ rank[slot[n].next] < rank[n]
                              /\ Bucket(slot[slot[n].next].key) = Bucket(slot[n].key)
                              /\ slot[n].next # i
  BY <1>5, <1>6, <1>a, <1>b, <1>c DEF Falls, TableInv, SameBucket, Ends
<1>1. slot'[n] = Empty /\ slot'[n].value = NoKey /\ slot'[n].next = NoKey /\ slot'[i] = slot[n]
      /\ \A j \in Slots : j # i /\ j # n => slot'[j] = slot[j]
  BY <1>b DEF Empty
<1>3. InTable' = used
  BY <1>1, <1>b DEF InTable
<1>4. TableTypes'
  BY <1>b, NewEntries DEF TableTypes
<1>9. TableInv'
  <2>1. \A j \in Slots : IF j \in used THEN slot'[j].key \in Keys ELSE slot'[j] = Empty
    BY <1>1, <1>7, <1>b DEF TableInv
  <2>2. \A j \in used \cap Buckets : Bucket(slot'[j].key) = j
    BY <1>1, <1>5, <1>b DEF TableInv
  <2>3. \A j \in used \ Buckets : \E p \in used : slot'[p].next = j
    <3> SUFFICES ASSUME NEW j \in InTable, j # n, j \notin Buckets PROVE \E p \in used : slot'[p].next = j
      OBVIOUS
    <3>1. PICK p \in InTable : slot[p].next = j
      BY DEF TableInv
    <3> QED
      BY <1>1, <1>5, <1>b, <3>1
  <2>4. \A p, q \in Slots : slot'[p].next # NoKey /\ slot'[p].next = slot'[q].next => p = q
    <3>1. \A p, q \in Slots : slot[p].next # NoKey /\ slot[p].next = slot[q].next => p = q
      BY DEF TableInv, Ends
    <3>2. \A p \in Slots : slot'[p].next # NoKey =>
             p # n /\ (IF p = i THEN slot'[p].next = slot[n].next ELSE slot'[p].next = slot[p].next)
      BY <1>1
    <3> QED
      BY <1>b, <3>1, <3>2
  <2>5. \A j \in used : slot'[j].next # NoKey =>
           slot'[j].next \in used /\ Bucket(slot'[slot'[j].next].key) = Bucket(slot'[j].key)
    <3>1. \A j \in used : Bucket(slot'[j].key) = Bucket(slot[j].key)
      BY <1>1, <1>5, <1>b
    <3>2. ASSUME slot'[i].next # NoKey
          PROVE  slot'[i].next \in used /\ Bucket(slot'[slot'[i].next].key) = Bucket(slot'[i].key)
      <4>1. slot'[i].next = slot[n].next /\ slot'[i].next \in used
        BY <1>1, <1>d, <3>2
      <4>2. Bucket(slot'[slot'[i].next].key) = Bucket(slot[slot[n].next].key)
        BY <3>1, <4>1
      <4> QED
        BY <1>1, <1>d, <3>2, <4>1, <4>2
    <3>3. ASSUME NEW j \in used, j # i, slot'[j].next # NoKey
          PROVE  slot'[j].next \in used /\ Bucket(slot'[slot'[j].next].key) = Bucket(slot'[j].key)
      <4>1. slot'[j].next = slot[j].next /\ slot[j].next # NoKey
        BY <1>1, <1>5, <3>3
      <4>2. slot[j].next \in used /\ Bucket(slot[slot[j].next].key) = Bucket(slot[j].key)
        BY <1>5, <1>c, <3>3, <4>1 DEF TableInv, SameBucket, Ends
      <4> QED
        BY <3>1, <3>3, <4>1, <4>2
    <3> QED
      BY <3>2, <3>3
  <2>6. \A p, q \in used : slot'[p].key = slot'[q].key => p = q
    BY <1>1, <1>5, <1>b DEF TableInv
  <2>7. rank \in [Slots -> Nat] /\ \A j \in Slots : slot'[j].next # NoKey => rank[slot'[j].next] < rank[j]
    <3>1. slot'[i].next # NoKey => rank[slot'[i].next] < rank[i]
      BY <1>1, <1>5, <1>a, <1>b, <1>d
    <3> QED
      BY <1>1, <1>6, <3>1 DEF Falls, Ends
  <2> HIDE DEF used
  <2> QED
    BY <1>3, <1>4, <2>1, <2>2, <2>3, <2>4, <2>5, <2>6, <2>7, Assembled
<1>10. Pairs' = {e \in Pairs : e[1] # slot[i].key}
  <2>1. \A j \in InTable : j # i => slot[j].key # slot[i].key
    BY DEF TableInv
  <2>2. \A j \in used : IF j = i THEN slot'[j] = slot[n] ELSE slot'[j] = slot[j]
    BY <1>1, <1>5
  <2>3. ASSUME NEW e \in Pairs' PROVE e \in Pairs /\ e[1] # slot[i].key
    <3>1. PICK j \in used : e = <<slot'[j].key, slot'[j].value>>
      BY <1>3, <2>3 DEF Pairs
    <3> QED
      BY <1>b, <2>1, <2>2, <3>1 DEF Pairs
  <2>4. ASSUME NEW e \in Pairs, e[1] # slot[i].key PROVE e \in Pairs'
    <3>1. PICK j \in InTable : e = <<slot[j].key, slot[j].value>>
      BY <2>4 DEF Pairs
    <3>2. j # i
      BY <2>4, <3>1
    <3>3. e = <<slot'[IF j = n THEN i ELSE j].key, slot'[IF j = n THEN i ELSE j].value>>
          /\ (IF j = n THEN i ELSE j) \in used
      BY <1>1, <1>5, <1>b, <3>1, <3>2
    <3> QED
      BY <1>3, <3>3 DEF Pairs
  <2> QED
    BY <2>3, <2>4
<1> QED
  BY <1>9, <1>10

\* A slot that is written field by field.
LEMMA Refiled ==
  ASSUME NEW k, NEW v
  PROVE  [[Empty EXCEPT !.key = k] EXCEPT !.value = v] = Slot(k, v, NoKey)
<1>1. [Empty EXCEPT !.key = k] = [key |-> k, value |-> NoKey, next |-> NoKey]
  BY DEF Empty
<1> DEFINE e == [Empty EXCEPT !.key = k]
<1>2. e = [key |-> k, value |-> NoKey, next |-> NoKey]
  BY <1>1
<1> HIDE DEF e
<1>3. [e EXCEPT !.value = v] = [key |-> k, value |-> v, next |-> NoKey]
  BY <1>2
<1> QED
  BY <1>3 DEF e, Slot

\* CHashTable__Insert keeps the chains sound and adds the pair.
LEMMA Inserted ==
  ASSUME TableInv, NEW k \in Keys, NEW v \in Values,
         k \in Filed \/ Cardinality(Filed) < Capacity, TableInsert(k, v)
  PROVE  TableInv' /\ Pairs' = {e \in Pairs : e[1] # k} \cup {<<k, v>>}
<1> DEFINE b == Bucket(k)
           i == Along(b, Having(k))
           new == FreeOdd(i)
<1>1. InTable \subseteq Slots /\ b \in Slots
  BY SlotFacts DEF InTable
<1>2. slot' = IF slot[b].value = NoKey
              THEN [slot EXCEPT ![b].key = k, ![b].value = v]
              ELSE IF i \in Having(k) THEN [slot EXCEPT ![i].value = v]
              ELSE [slot EXCEPT ![new].key = k, ![new].value = v, ![i].next = new]
  BY DEF TableInsert
<1>3. slot = [j \in Slots |-> slot[j]] /\ \A j \in Slots : slot[j] = Slot(slot[j].key, slot[j].value, slot[j].next)
  <2>1. slot = [j \in Slots |-> slot[j]]
    BY DEF TableInv, TableTypes
  <2> QED
    BY <2>1, Fields
<1>4. CASE \E t \in InTable : slot[t].key = k
  <2>1. PICK t \in InTable : slot[t].key = k
    BY <1>4
  <2>2. b \in InTable /\ i = t /\ i \in Having(k)
    BY <2>1, Found
  <2>3. slot[b].value # NoKey
    BY <2>2 DEF InTable
  <2>4. slot' = [slot EXCEPT ![t].value = v]
    <3> HIDE DEF b, i, new
    <3> QED
      BY <1>2, <2>2, <2>3
  <2>5. [slot[t] EXCEPT !.value = v] = Slot(slot[t].key, v, slot[t].next)
    BY <1>1, <1>3 DEF Slot
  <2>6. slot' = [j \in Slots |-> IF j = t THEN Slot(slot[t].key, v, slot[t].next) ELSE slot[j]]
    BY <1>1, <1>3, <2>4, <2>5
  <2> QED
    BY <2>1, <2>6, SetValue
<1>5. CASE \A t \in InTable : slot[t].key # k
  <2>1. {e \in Pairs : e[1] # k} = Pairs
    BY <1>5 DEF Pairs
  <2>2. CASE b \notin InTable
    <3>1. slot[b] = Empty /\ slot[b].value = NoKey
      BY <1>1, <2>2 DEF TableInv, InTable
    <3>2. slot' = [slot EXCEPT ![b].key = k, ![b].value = v]
      <4> HIDE DEF b, i, new
      <4> QED
        BY <1>2, <3>1
    <3>3. [[slot[b] EXCEPT !.key = k] EXCEPT !.value = v] = Slot(k, v, NoKey)
      BY <3>1, Refiled
    <3>4. slot' = [j \in Slots |-> IF j = b THEN Slot(k, v, NoKey) ELSE slot[j]]
      <4> HIDE DEF b
      <4>1. slot' = [j \in Slots |-> IF j = b THEN [[slot[b] EXCEPT !.key = k] EXCEPT !.value = v] ELSE slot[j]]
        BY <1>1, <1>3, <3>2
      <4> QED
        BY <3>3, <4>1
    <3> QED
      BY <1>5, <2>1, <2>2, <3>4, AddBucket
  <2>3. CASE b \in InTable
    <3>1. Having(k) = {} /\ i \in InTable /\ Ends(i) /\ Bucket(slot[i].key) = Bucket(k)
      BY <1>5, <2>3, NotFound
    <3>2. new \in Slots \ Buckets /\ new \notin InTable
      <4>1. Find(k) = NoKey
        BY <1>5, NotFound
      <4>2. Cardinality(Filed) < Capacity
        BY <4>1 DEF Filed
      <4> QED
        BY <1>1, <3>1, <4>2, OddSlotFree
    <3> HIDE DEF b, i, new
    <3>3. slot' = [slot EXCEPT ![new].key = k, ![new].value = v, ![i].next = new]
      BY <1>2, <2>3, <3>1 DEF InTable
    <3>4. [[slot[new] EXCEPT !.key = k] EXCEPT !.value = v] = Slot(k, v, NoKey)
      <4>1. slot[new] = Empty
        BY <3>2 DEF TableInv
      <4> QED
        BY <4>1, Refiled
    <3>5. [slot[i] EXCEPT !.next = new] = Slot(slot[i].key, slot[i].value, new)
      BY <1>1, <1>3, <3>1 DEF Slot
    <3>6. new # i
      BY <3>1, <3>2
    <3>7. slot' = [j \in Slots |-> IF j = new THEN [[slot[new] EXCEPT !.key = k] EXCEPT !.value = v]
                                   ELSE IF j = i THEN [slot[i] EXCEPT !.next = new] ELSE slot[j]]
      BY <1>1, <1>3, <3>1, <3>2, <3>3, <3>6
    <3>8. slot' = [j \in Slots |-> IF j = new THEN Slot(k, v, NoKey)
                                   ELSE IF j = i THEN Slot(slot[i].key, slot[i].value, new) ELSE slot[j]]
      BY <3>4, <3>5, <3>7
    <3> QED
      BY <1>5, <2>1, <3>1, <3>2, <3>8, AddOdd
  <2> QED
    BY <2>2, <2>3
<1> QED
  BY <1>4, <1>5

\* CHashTable__Remove keeps the chains sound and drops the pair.
LEMMA Removed ==
  ASSUME TableInv, NEW k \in Keys, TableRemove(k)
  PROVE  TableInv' /\ Pairs' = {e \in Pairs : e[1] # k}
<1> DEFINE b    == Bucket(k)
           i    == Along(b, Having(k))
           next == slot[i].next
           prev == Along(b, LinkedTo(i))
<1>1. InTable \subseteq Slots /\ b \in Slots
  BY SlotFacts DEF InTable
<1>2. slot' = IF i \notin Having(k) THEN slot
              ELSE IF next # NoKey THEN [slot EXCEPT ![i] = slot[next], ![next] = Empty]
              ELSE IF i # b THEN [slot EXCEPT ![prev].next = NoKey, ![i] = Empty]
              ELSE [slot EXCEPT ![i] = Empty]
  BY DEF TableRemove
<1>3. slot = [j \in Slots |-> slot[j]] /\ \A j \in Slots : slot[j] = Slot(slot[j].key, slot[j].value, slot[j].next)
  <2>1. slot = [j \in Slots |-> slot[j]]
    BY DEF TableInv, TableTypes
  <2> QED
    BY <2>1, Fields
<1>4. CASE \A t \in InTable : slot[t].key # k
  <2>1. Having(k) = {}
    BY <1>4, NotFound
  <2>2. slot' = slot
    <3> HIDE DEF b, i, next, prev
    <3> QED
      BY <1>2, <2>1
  <2>3. TableInv'
    <3>1. InTable' = InTable
      BY <2>2 DEF InTable
    <3> QED
      BY <2>2, <3>1 DEF TableInv, TableTypes, Ends, SameBucket, Bucket, Falls, Entries, Empty
  <2>4. Pairs' = Pairs
    BY <2>2 DEF Pairs, InTable
  <2>5. {e \in Pairs : e[1] # k} = Pairs
    BY <1>4 DEF Pairs
  <2> QED
    BY <2>3, <2>4, <2>5
<1>5. CASE \E t \in InTable : slot[t].key = k
  <2>1. PICK t \in InTable : slot[t].key = k
    BY <1>5
  <2>2. b \in InTable /\ i = t /\ i \in Having(k)
    BY <2>1, Found
  <2>3. CASE next # NoKey
    <3>1. next \in InTable /\ ~Ends(i)
      BY <2>2, <2>3 DEF TableInv, Ends
    <3>2. next # i
      <4>1. PICK rank : Falls(rank)
        BY DEF TableInv
      <4>2. rank[next] < rank[i] /\ rank[i] \in Nat
        BY <1>1, <2>2, <3>1, <4>1 DEF Falls
      <4> HIDE DEF b, i, next, prev
      <4> QED
        BY <4>2
    <3>3. slot' = [slot EXCEPT ![i] = slot[next], ![next] = Empty]
      <4> HIDE DEF b, i, next, prev
      <4> QED
        BY <1>2, <2>2, <2>3
    <3>4. slot' = [j \in Slots |-> IF j = next THEN Empty ELSE IF j = i THEN slot[next] ELSE slot[j]]
      <4> HIDE DEF b, i, next, prev
      <4> QED
        BY <1>1, <1>3, <2>2, <3>1, <3>2, <3>3
    <3>5. next = slot[i].next /\ slot[i].key = k
      BY <2>1, <2>2
    <3> HIDE DEF b, i, next, prev
    <3> QED
      BY <2>2, <3>1, <3>4, <3>5, TakeOver
  <2>4. CASE next = NoKey
    <3>1. Ends(i) /\ i \in InTable /\ i \in Slots /\ slot[i].key = k
      BY <1>1, <2>1, <2>2, <2>4 DEF Ends
    <3>2. slot' = [j \in Slots |-> IF j = i THEN Empty
                                   ELSE IF slot[j].next = i THEN Slot(slot[j].key, slot[j].value, NoKey)
                                   ELSE slot[j]]
      <4>1. CASE i \in Buckets
        <5>1. i = b
          BY <3>1, <4>1 DEF TableInv
        <5>2. slot' = [slot EXCEPT ![i] = Empty]
          <6> HIDE DEF b, i, next, prev
          <6> QED
            BY <1>2, <2>2, <2>4, <5>1
        <5>3. \A j \in Slots : slot[j].next = i => slot[j].next = NoKey
          BY <4>1, Fields
        <5> HIDE DEF b, i, next, prev
        <5>4. \A j \in Slots : slot[j].next = i => Slot(slot[j].key, slot[j].value, NoKey) = slot[j]
          BY <1>3, <5>3
        <5> QED
          BY <1>3, <3>1, <5>2, <5>4
      <4>2. CASE i \notin Buckets
        <5>1. i # b /\ i # NoKey
          BY <1>1, <3>1, <4>2, SlotFacts
        <5>2. PICK p \in InTable : slot[p].next = i
          BY <3>1, <4>2 DEF TableInv
        <5>3. p \in Slots /\ ~Ends(p) /\ p # i
          BY <1>1, <2>4, <5>1, <5>2 DEF Ends
        <5>4. \A j \in Slots : slot[j].next = i => j = p
          BY <5>1, <5>2, <5>3 DEF TableInv, Ends
        <5>5. LinkedTo(i) \cap InTable = {p}
          BY <1>1, <5>2, <5>4 DEF LinkedTo
        <5>6. Bucket(slot[p].key) = b
          BY <3>1, <5>2, <5>3 DEF TableInv, SameBucket
        <5>7. prev = p
          <6> HIDE DEF i
          <6> QED
            BY <5>5, <5>6, AlongReaches
        <5> HIDE DEF b, i, next, prev
        <5>8. slot' = [slot EXCEPT ![p].next = NoKey, ![i] = Empty]
          BY <1>2, <2>2, <2>4, <5>1, <5>7
        <5>9. [slot[p] EXCEPT !.next = NoKey] = Slot(slot[p].key, slot[p].value, NoKey)
          BY <1>3, <5>3 DEF Slot
        <5>10. slot' = [j \in Slots |-> IF j = i THEN Empty
                                        ELSE IF j = p THEN [slot[p] EXCEPT !.next = NoKey] ELSE slot[j]]
          BY <1>3, <3>1, <5>3, <5>8
        <5>11. \A j \in Slots : slot[j].next = i <=> j = p
          BY <5>2, <5>4
        <5> QED
          BY <5>9, <5>10, <5>11
      <4> QED
        BY <4>1, <4>2
    <3> HIDE DEF b, i, next, prev
    <3> QED
      BY <3>1, <3>2, DropEnd
  <2> QED
    BY <2>3, <2>4
<1> QED
  BY <1>4, <1>5

-----------------------------------------------------------------------------
(* The theorems                                                            *)

\* The empty table.
LEMMA TableStarts == TableInit => TableInv
<1> SUFFICES ASSUME TableInit PROVE TableInv
  OBVIOUS
<1>1. \A j \in Slots : slot[j] = Empty /\ slot[j].value = NoKey /\ Ends(j)
  BY DEF TableInit, Empty, Ends
<1>2. InTable = {}
  BY <1>1 DEF InTable
<1>3. TableTypes
  BY NewEntries DEF TableInit, TableTypes
<1>4. Falls([j \in Slots |-> 0])
  BY <1>1 DEF Falls
<1> QED
  BY <1>1, <1>2, <1>3, <1>4 DEF TableInv

\* Insert and Remove keep the chains sound.
LEMMA TableSteps == TableInv /\ [TableNext]_slot => TableInv'
<1> SUFFICES ASSUME TableInv, [TableNext]_slot PROVE TableInv'
  OBVIOUS
<1>1. CASE slot' = slot
  <2>1. InTable' = InTable
    BY <1>1 DEF InTable
  <2> QED
    BY <1>1, <2>1 DEF TableInv, TableTypes, Ends, SameBucket, Bucket, Falls, Entries, Empty
<1>2. CASE TableNext
  BY <1>2, Inserted, Removed DEF TableNext
<1> QED
  BY <1>1, <1>2

\* The chains of the buckets stay sound: each ends, keeps to its bucket and its
\* keys are distinct (CHashTable__Insert, CHashTable__Remove).
THEOREM TableHolds == TableSpec => []TableInv
<1> QED
  BY TableStarts, TableSteps, PTL DEF TableSpec

\* Sound chains reach each entry of their bucket.
LEMMA InvChains == TableInv => ChainsSound
<1> SUFFICES ASSUME TableInv PROVE ChainsSound
  OBVIOUS
<1>1. \A i \in InTable : i \in Slots /\ slot[i].key \in Keys
  BY DEF TableInv, InTable
<1>2. ASSUME NEW i \in InTable PROVE Along(Bucket(slot[i].key), Having(slot[i].key)) = i
  BY <1>1, Found
<1>3. ASSUME NEW i \in InTable, slot[i].next # NoKey PROVE slot[i].next \in InTable \ Buckets
  BY <1>1, <1>3, Fields DEF TableInv, Ends
<1>4. ASSUME NEW i \in InTable, i \notin Buckets
      PROVE  \E j \in InTable : /\ {x \in Slots : slot[x].next = i} = {j}
                                /\ Bucket(slot[j].key) = Bucket(slot[i].key)
  <2>1. i # NoKey
    BY <1>1, <1>4, SlotFacts
  <2>2. PICK j \in InTable : slot[j].next = i
    BY <1>4 DEF TableInv
  <2>3. {x \in Slots : slot[x].next = i} = {j}
    BY <1>1, <2>1, <2>2 DEF TableInv, Ends
  <2>4. Bucket(slot[j].key) = Bucket(slot[i].key)
    BY <2>1, <2>2 DEF TableInv, Ends, SameBucket
  <2> QED
    BY <2>3, <2>4
<1>5. \A i \in Slots \ InTable : slot[i] = Empty
  BY DEF TableInv
<1>6. \A i \in InTable : i \in Buckets => Bucket(slot[i].key) = i
  BY DEF TableInv
<1> QED
  BY <1>2, <1>3, <1>4, <1>5, <1>6 DEF ChainsSound

\* Every entry is reached from the bucket of its key, and no search goes on for
\* ever, after any insertions and removals (CHashTable__Find, Insert, Remove).
THEOREM ChainsAreSound == TableSpec => []ChainsSound
<1> QED
  BY TableHolds, InvChains, PTL

\* A search finds what is in the table.
FindsPairs ==
  \A k \in Keys : /\ \A v \in Values : <<k, v>> \in Pairs => Find(k) = v
                  /\ (\A v \in Values : <<k, v>> \notin Pairs) => Find(k) = NoKey

\* In a sound table a search finds the pair of the key.
LEMMA FindIs == TableInv => FindsPairs
<1> SUFFICES ASSUME TableInv, NEW k \in Keys
             PROVE  /\ \A v \in Values : <<k, v>> \in Pairs => Find(k) = v
                    /\ (\A v \in Values : <<k, v>> \notin Pairs) => Find(k) = NoKey
  BY DEF FindsPairs
<1>1. ASSUME NEW v \in Values, <<k, v>> \in Pairs PROVE Find(k) = v
  <2>1. PICK t \in InTable : slot[t].key = k /\ slot[t].value = v
    BY <1>1 DEF Pairs
  <2> QED
    BY <2>1, Found
<1>2. ASSUME \A v \in Values : <<k, v>> \notin Pairs PROVE Find(k) = NoKey
  <2>1. \A t \in InTable : slot[t].value \in Values
    BY Fields DEF InTable
  <2>2. \A t \in InTable : slot[t].key # k
    BY <1>2, <2>1 DEF Pairs
  <2> QED
    BY <2>2, NotFound
<1> QED
  BY <1>1, <1>2

\* And so after a step.
LEMMA FindNext == TableInv' => FindsPairs'
BY FindIs, PTL

TheMap == [k \in Keys |-> Find(k)]

\* A step that changes one pair leaves the other keys with theirs.
LEMMA OthersStay ==
  ASSUME TableInv, TableInv', NEW k \in Keys, NEW v,
         Pairs' = {e \in Pairs : e[1] # k} \/ Pairs' = {e \in Pairs : e[1] # k} \cup {<<k, v>>},
         IF Pairs' = {e \in Pairs : e[1] # k} THEN v = NoKey ELSE v \in Values
  PROVE  TheMap' = [TheMap EXCEPT ![k] = v]
<1>1. ASSUME NEW m \in Keys, m # k PROVE Find(m)' = Find(m)
  <2>1. \A w \in Values : <<m, w>> \in Pairs' <=> <<m, w>> \in Pairs
    BY <1>1
  <2> QED
    BY <2>1, FindIs, FindNext DEF FindsPairs
<1>2. Find(k)' = v
  <2>1. CASE Pairs' = {e \in Pairs : e[1] # k}
    <3>1. \A w \in Values : <<k, w>> \notin Pairs'
      BY <2>1
    <3> QED
      BY <2>1, <3>1, FindNext DEF FindsPairs
  <2>2. CASE Pairs' # {e \in Pairs : e[1] # k}
    <3>1. v \in Values /\ <<k, v>> \in Pairs'
      BY <2>2
    <3> QED
      BY <3>1, FindNext DEF FindsPairs
  <2> QED
    BY <2>1, <2>2
<1>3. TheMap' = [m \in Keys |-> Find(m)']
  BY DEF TheMap
<1>4. [TheMap EXCEPT ![k] = v] = [m \in Keys |-> IF m = k THEN v ELSE Find(m)]
  BY DEF TheMap
<1> QED
  BY <1>1, <1>2, <1>3, <1>4

\* The empty table is the empty map.
LEMMA MapStarts == TableInit => Map!Init
<1> SUFFICES ASSUME TableInit PROVE Map!Init
  OBVIOUS
<1>1. TableInv
  BY TableStarts
<1>2. \A t \in Slots : slot[t].value = NoKey
  BY DEF TableInit, Empty
<1>3. \A k \in Keys : Find(k) = NoKey
  BY <1>1, <1>2, NotFound DEF InTable
<1> QED
  BY <1>3 DEF Map!Init

\* Every step of the table is a step of the map.
LEMMA MapSteps == TableInv /\ TableNext => Map!Next
<1> SUFFICES ASSUME TableInv, TableNext PROVE Map!Next
  OBVIOUS
<1>1. ASSUME NEW k \in Keys, NEW v \in Values,
             k \in Filed \/ Cardinality(Filed) < Capacity, TableInsert(k, v)
      PROVE  TheMap' = [TheMap EXCEPT ![k] = v]
  <2>1. TableInv' /\ Pairs' = {e \in Pairs : e[1] # k} \cup {<<k, v>>}
    BY <1>1, Inserted
  <2>2. Pairs' # {e \in Pairs : e[1] # k}
    <3>1. <<k, v>> \in Pairs' /\ <<k, v>>[1] = k
      BY <2>1
    <3> QED
      BY <3>1
  <2> QED
    BY <2>1, <2>2, OthersStay
<1>2. ASSUME NEW k \in Keys, TableRemove(k) PROVE TheMap' = [TheMap EXCEPT ![k] = NoKey]
  BY <1>2, Removed, OthersStay
<1> QED
  BY <1>1, <1>2 DEF TableNext, Map!Next, Map!Put, Map!Take, TheMap

\* A table that does not change is the same map.
LEMMA MapRests == slot' = slot => TheMap' = TheMap
BY DEF TheMap, Find, Along, Having, Bucket

\* The table is a map from keys to values: collisions, the odd slots that are
\* shared and the slots that are taken over on removal never show (CHashTable).
THEOREM TableIsMap == TableSpec => ImplementsKeyMap
<1>1. TableInv /\ [TableNext]_slot => [Map!Next]_TheMap
  BY MapSteps, MapRests
<1>2. TableInv /\ [TableNext]_slot => [Map!Next]_([k \in Keys |-> Find(k)])
  BY <1>1 DEF TheMap
<1> QED
  BY <1>2, MapStarts, TableHolds, PTL DEF TableSpec, ImplementsKeyMap, Map!Spec
=============================================================================
