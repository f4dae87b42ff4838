------------------------------- MODULE Arena -------------------------------
(***************************************************************************)
(* What the heap promises: pieces of memory that do not overlap, given     *)
(* first fit from either end, or at an address that is free.               *)
(***************************************************************************)
EXTENDS Integers

CONSTANTS
  Low, Size    \* the memory that can be given: Low .. Size - 1

VARIABLE pieces  \* [at, size] of each piece that is given

Piece(a, n) == [at |-> a, size |-> n]

\* Room for n at a.
Fits(a, n) ==
  /\ a \in Low .. Size - n
  /\ \A p \in pieces : a + n <= p.at \/ p.at + p.size <= a

Lowest(a, n)  == Fits(a, n) /\ \A b \in Low .. a - 1 : ~Fits(b, n)
Highest(a, n) == Fits(a, n) /\ \A b \in a + 1 .. Size - n : ~Fits(b, n)

Init == pieces = {}

Give(a, n)    == pieces' = pieces \cup {Piece(a, n)}
AllocLow(n)   == \E a \in Low .. Size - n : Give(a, n) /\ Lowest(a, n)
AllocHigh(n)  == \E a \in Low .. Size - n : Give(a, n) /\ Highest(a, n)
AllocAt(a, n) == Give(a, n) /\ Fits(a, n)
Free(p)       == pieces' = pieces \ {p}
FreeAll       == pieces' = {}

Sizes == 1 .. Size - Low

Next ==
  \/ \E n \in Sizes :
       AllocLow(n) \/ AllocHigh(n) \/ \E a \in Low .. Size - n : AllocAt(a, n)
  \/ \E p \in pieces : Free(p)
  \/ FreeAll

Spec == Init /\ [][Next]_pieces
=============================================================================
