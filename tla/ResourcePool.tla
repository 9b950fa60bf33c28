---------------------------- MODULE ResourcePool ----------------------------
(***************************************************************************)
(* What a resource map promises (os/malloc.c): a set of free units, of     *)
(* which rmalloc() takes the first run that is long enough, and to which   *)
(* rmfree() gives a run back.  The map has room for Cap runs of free       *)
(* units; a run that touches none of them is lost when there is no room.   *)
(* Sem and Msg use a map as this set.                                      *)
(***************************************************************************)
EXTENDS Integers, FiniteSets

CONSTANTS
  N,      \* units 1 .. N
  Cap,    \* runs the map has room for
  Sizes   \* sizes that are allocated

VARIABLES
  free,   \* free units
  held    \* runs that are allocated, as <<address, size>>

Unit == 1 .. N
Run(b) == b[1] .. b[1] + b[2] - 1

Fits(a, n) == a + n - 1 <= N /\ Run(<<a, n>>) \subseteq free

Init == free = Unit /\ held = {}

Alloc(n) ==
  \E a \in Unit :
    /\ Fits(a, n) /\ \A b \in Unit : b < a => ~Fits(b, n)
    /\ free' = free \ Run(<<a, n>>)
    /\ held' = held \cup {<<a, n>>}

Free(b) ==
  /\ held' = held \ {b}
  /\ \/ free' = free \cup Run(b)
     \/ /\ Cardinality({u \in free : u - 1 \notin free}) = Cap
        /\ {b[1] - 1, b[1] + b[2]} \cap free = {}
        /\ free' = free

Next == (\E n \in Sizes : Alloc(n)) \/ (\E b \in held : Free(b))

Spec == Init /\ [][Next]_<<free, held>>

\* No unit is given out twice, or is free and given out at the same time.
Disjoint ==
  \A b \in held :
    /\ Run(b) \cap free = {}
    /\ \A c \in held : c # b => Run(b) \cap Run(c) = {}
=============================================================================
