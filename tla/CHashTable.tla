----------------------------- MODULE CHashTable -----------------------------
(***************************************************************************)
(* The cache's hash table.  The slots with an even number are the buckets; *)
(* a key whose bucket is taken goes to a slot with an odd number and is    *)
(* linked to the end of the bucket's chain.                                *)
(***************************************************************************)
EXTENDS Integers, FiniteSets

CONSTANTS
  Keys, Values,  \* cartridge addresses, entries of the cache
  Capacity,      \* keys the table is made for
  Hash,          \* what the shifts and exclusive ors make of each key
  NoKey          \* 0: no key, value or link

VARIABLE slot    \* HashEntry of each index

\* CHashTable__Construct: twice the power of two that holds the capacity.
Half ==
  LET holding[h \in 1 .. 2 * Capacity] == IF h >= Capacity THEN h ELSE holding[2 * h]
  IN  holding[1]
Slots   == 0 .. 2 * Half - 1
Buckets == {i \in Slots : i % 2 = 0}

ASSUME TableSound ==
  /\ Capacity \in Nat \ {0}
  /\ Hash \in [Keys -> Nat]
  /\ NoKey \notin Keys \cup Values /\ NoKey \notin Slots \ Buckets

Empty == [key |-> NoKey, value |-> NoKey, next |-> NoKey]

TableInit == slot = [i \in Slots |-> Empty]

\* hash & gHashMask
Bucket(k) == LET i == Hash[k] % (2 * Half) IN i - (i % 2)

\* The first slot from i on along its chain that is one of S, or the last.
Along(i, S) ==
  LET end[j \in Slots] ==
        IF j \in S \/ slot[j].next = NoKey THEN j ELSE end[slot[j].next]
  IN  end[i]

Having(k) == {i \in Slots : slot[i].key = k}

\* The odd slots from i on, round the end; gHashTableMask wraps the index.
Odd(i)     == IF i % 2 = 1 THEN i ELSE i + 1
FreeOdd(i) ==
  LET nth(n) == (Odd(i) + 2 * n) % (2 * Half)
      free   == {n \in 0 .. Half - 1 : slot[nth(n)].value = NoKey}
  IN  nth(CHOOSE n \in free : \A m \in free : n <= m)

\* CHashTable__Insert
TableInsert(k, v) ==
  LET b == Bucket(k)
      i == Along(b, Having(k))
      new == FreeOdd(i)
  IN  slot' = IF slot[b].value = NoKey
              THEN [slot EXCEPT ![b].key = k, ![b].value = v]
              ELSE IF i \in Having(k) THEN [slot EXCEPT ![i].value = v]
              ELSE [slot EXCEPT ![new].key = k, ![new].value = v, ![i].next = new]

LinkedTo(j) == {i \in Slots : slot[i].next = j}

\* Mutant: a bucket that is left empty keeps its chain.
TableRemove_Leaks(k) ==
  LET b == Bucket(k)
      i == Along(b, Having(k))
      prev == Along(b, LinkedTo(i))
  IN  slot' = IF i \notin Having(k) THEN slot
              ELSE IF i = b THEN [slot EXCEPT ![i].key = NoKey, ![i].value = NoKey]
              ELSE [slot EXCEPT ![prev].next = slot[i].next, ![i] = Empty]

\* Mutant: what comes after the key in its chain goes too.
TableRemove_CutsChain(k) ==
  LET b == Bucket(k)
      i == Along(b, Having(k))
      prev == Along(b, LinkedTo(i))
  IN  slot' = IF i \notin Having(k) THEN slot
              ELSE IF i = b THEN [slot EXCEPT ![i] = Empty]
              ELSE [slot EXCEPT ![prev].next = NoKey, ![i] = Empty]

\* CHashTable__Remove: the slot takes over its successor, which goes instead.
TableRemove(k) ==
  LET b    == Bucket(k)
      i    == Along(b, Having(k))
      next == slot[i].next
      prev == Along(b, LinkedTo(i))
  IN  slot' = IF i \notin Having(k) THEN slot
              ELSE IF next # NoKey THEN [slot EXCEPT ![i] = slot[next], ![next] = Empty]
              ELSE IF i # b THEN [slot EXCEPT ![prev].next = NoKey, ![i] = Empty]
              ELSE [slot EXCEPT ![i] = Empty]

\* What CCache__Request and the other users of the table find.
Find(k) ==
  LET i == Along(Bucket(k), Having(k))
  IN  IF i \in Having(k) THEN slot[i].value ELSE NoKey

Filed == {k \in Keys : Find(k) # NoKey}

\* The cache has no more entries than the table was made for.
TableNext ==
  \/ \E k \in Keys, v \in Values :
       (k \in Filed \/ Cardinality(Filed) < Capacity) /\ TableInsert(k, v)
  \/ \E k \in Keys : TableRemove(k)

TableSpec == TableInit /\ [][TableNext]_slot

----------------------------------------------------------------------------
(* Properties                                                              *)

\* Each slot in use is reached from one place: a bucket from its keys' hash, an
\* odd slot by one link, from a slot of the same bucket; and a search for its
\* key ends there.  So no chain has a loop, and no two chains share an end.
InTable == {i \in Slots : slot[i].value # NoKey}

ChainsSound ==
  /\ \A i \in Slots \ InTable : slot[i] = Empty
  /\ \A i \in InTable :
       /\ i \in Buckets => Bucket(slot[i].key) = i
       /\ i \notin Buckets =>
            \E j \in InTable :
              /\ {x \in Slots : slot[x].next = i} = {j}
              /\ Bucket(slot[j].key) = Bucket(slot[i].key)
       /\ slot[i].next # NoKey => slot[i].next \in InTable \ Buckets
  /\ \A i \in InTable : Along(Bucket(slot[i].key), Having(slot[i].key)) = i

\* A search of the table finds, for each key, what was filed last and not
\* removed since: the operations on one key leave the others alone.
Map == INSTANCE KeyMap WITH map <- [k \in Keys |-> Find(k)], Nothing <- NoKey

ImplementsKeyMap == Map!Spec
=============================================================================
