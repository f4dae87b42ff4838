------------------------------ MODULE MCCache ------------------------------
(* Instances of the cache for TLC.                                         *)
EXTENDS Cache

CacheSymmetry == Permutations(Mems) \cup Permutations(Entries) \cup Permutations(Lists)

LitOfModel == [k \in {"lit"} |-> "model"]
Ones       == [k \in {"index", "model", "texture", "lit"} |-> 1]
LongIndex  == [k \in {"index", "model"} |-> IF k = "index" THEN 2 ELSE 1]
BigTexture == [k \in {"lit", "texture"} |-> IF k = "texture" THEN 2 ELSE 1]
=============================================================================
