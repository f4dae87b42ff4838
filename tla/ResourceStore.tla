---------------------------- MODULE ResourceStore ----------------------------
(***************************************************************************)
(* What the cache promises the game.  The game asks for a resource and is  *)
(* given it, whole, or nothing yet; a resource it was given stays what it  *)
(* is until the game gives it up, or asks for it to be brought anew; and   *)
(* what a display list draws stays what it is until the list is done with, *)
(* or is spoilt before it is submitted.                                    *)
(***************************************************************************)
EXTENDS Naturals

CONSTANTS
  Resources,     \* what can be asked for
  NoResource,    \* nothing is asked for
  Own,           \* memory the game has for itself
  Anew(_),       \* Anew(r): r is an index, or its beginning
  Serves(_, _),  \* Serves(g, r): who asked for r may be given g
  Lists          \* display lists

VARIABLES
  asked,   \* the resource the game has asked for
  held,    \* how often the game holds each resource
  drawn,   \* what each valid display list draws
  open,    \* lists that are being built, and still valid
  shown    \* lists that were submitted and are not done with

storeVars == <<asked, held, drawn, open, shown>>

Init ==
  /\ asked = NoResource
  /\ held = [r \in Resources |-> 0]
  /\ drawn = [l \in Lists |-> {}]
  /\ open = {} /\ shown = {}

Ask(r) ==
  /\ asked = NoResource /\ ~Anew(r)
  /\ asked' = r
  /\ UNCHANGED <<held, drawn, open, shown>>

\* An index that is asked for from its beginning is brought anew: the game has
\* done with what it had of it.
AskAnew(r) ==
  /\ asked = NoResource /\ Anew(r)
  /\ asked' = r
  /\ held' = [g \in Resources |-> IF Serves(g, r) THEN 0 ELSE held[g]]
  /\ UNCHANGED <<drawn, open, shown>>

Give(g) ==
  /\ asked # NoResource /\ Serves(g, asked)
  /\ asked' = NoResource
  /\ held' = [held EXCEPT ![g] = @ + 1]
  /\ UNCHANGED <<drawn, open, shown>>

NothingYet ==
  /\ asked # NoResource
  /\ asked' = NoResource
  /\ UNCHANGED <<held, drawn, open, shown>>

\* The game keeps its own data in memory it is given.
Obtain ==
  /\ asked = NoResource
  /\ held' = [held EXCEPT ![Own] = @ + 1]
  /\ UNCHANGED <<asked, drawn, open, shown>>

\* The game has one more use for what it holds.
Share(r) ==
  /\ held[r] > 0
  /\ held' = [held EXCEPT ![r] = @ + 1]
  /\ UNCHANGED <<asked, drawn, open, shown>>

GiveUp(r) ==
  /\ held[r] > 0
  /\ \E n \in 0 .. held[r] - 1 : held' = [held EXCEPT ![r] = n]
  /\ UNCHANGED <<asked, drawn, open, shown>>

Open(l) ==
  /\ open = {} /\ l \notin shown
  /\ open' = {l}
  /\ UNCHANGED <<asked, held, drawn, shown>>

Draw(l, r) ==
  /\ l \in open /\ held[r] > 0
  /\ drawn' = [drawn EXCEPT ![l] = @ \cup {r}]
  /\ UNCHANGED <<asked, held, open, shown>>

\* The game must not submit a list that was spoilt.
Spoil(l) ==
  /\ l \in open
  /\ open' = open \ {l}
  /\ drawn' = [drawn EXCEPT ![l] = {}]
  /\ UNCHANGED <<asked, held, shown>>

Submit(l) ==
  /\ l \in open
  /\ open' = open \ {l} /\ shown' = shown \cup {l}
  /\ UNCHANGED <<asked, held, drawn>>

Drawn(l) ==
  /\ l \in shown
  /\ shown' = shown \ {l}
  /\ drawn' = [drawn EXCEPT ![l] = {}]
  /\ UNCHANGED <<asked, held, open>>

Next ==
  \/ \E r \in Resources : Ask(r) \/ AskAnew(r) \/ Give(r) \/ Share(r) \/ GiveUp(r)
  \/ NothingYet \/ Obtain
  \/ \E l \in Lists :
       \/ Open(l) \/ Spoil(l) \/ Submit(l) \/ Drawn(l)
       \/ \E r \in Resources : Draw(l, r)

Spec == Init /\ [][Next]_storeVars
=============================================================================
