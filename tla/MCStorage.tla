----------------------------- MODULE MCStorage -----------------------------
(* An instance of the heap, the hash table and the lock for TLC: what the  *)
(* cache is built from.  They share no state, so what holds of each alone  *)
(* holds of all, and a behaviour of the instance is one of one of them.    *)
EXTENDS CHeap, CHashTable, CMutex

VARIABLE part    \* the one that runs

storageVars == <<heapVars, slot, vars, part>>

StorageInit == HeapInit /\ TableInit /\ Init /\ part \in {"heap", "table", "lock"}

StorageNext ==
  /\ UNCHANGED part
  /\ \/ part = "heap" /\ HeapNext /\ UNCHANGED <<slot, vars>>
     \/ part = "table" /\ TableNext /\ UNCHANGED <<heapVars, vars>>
     \/ part = "lock" /\ Next /\ UNCHANGED <<heapVars, slot>>

StorageSpec == StorageInit /\ [][StorageNext]_storageVars

\* Three of the four keys share a bucket.
Collide == [k \in {"a", "b", "c", "d"} |->
              CASE k = "a" -> 0 [] k = "b" -> 9 [] k = "c" -> 16 [] k = "d" -> 2]
=============================================================================
