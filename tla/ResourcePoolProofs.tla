------------------------- MODULE ResourcePoolProofs -------------------------
(***************************************************************************)
(* A resource map, as a set of free units, never gives a unit out twice,   *)
(* whatever its size and capacity.                                         *)
(***************************************************************************)
EXTENDS ResourcePool, TLAPS

\* rmalloc() takes free units only.
LEMMA AllocDisjoint ==
  ASSUME Disjoint, NEW n \in Sizes, Alloc(n)
  PROVE  Disjoint'
<1>1. PICK a \in Unit : /\ Run(<<a, n>>) \subseteq free
                        /\ free' = free \ Run(<<a, n>>)
                        /\ held' = held \cup {<<a, n>>}
  BY DEF Alloc, Fits
<1>2. \A b \in held : Run(b) \cap Run(<<a, n>>) = {}
  BY <1>1 DEF Disjoint
<1> QED
  BY <1>1, <1>2 DEF Disjoint

\* rmfree() gives back units that nobody else has.
LEMMA FreeDisjoint ==
  ASSUME Disjoint, NEW b \in held, Free(b)
  PROVE  Disjoint'
<1>1. held' = held \ {b} /\ free' \subseteq free \cup Run(b)
  BY DEF Free
<1>2. \A c \in held' : Run(c) \cap Run(b) = {} /\ Run(c) \cap free = {}
  BY <1>1 DEF Disjoint
<1> QED
  BY <1>1, <1>2 DEF Disjoint

\* rmalloc() and rmfree() (os/malloc.c) keep the runs they have given out
\* disjoint from each other and from the free units.
THEOREM PoolDisjoint == Spec => []Disjoint
<1>1. Init => Disjoint
  BY DEF Init, Disjoint
<1>2. Disjoint /\ [Next]_<<free, held>> => Disjoint'
  <2> SUFFICES ASSUME Disjoint, [Next]_<<free, held>> PROVE Disjoint'
    OBVIOUS
  <2>1. CASE \E n \in Sizes : Alloc(n)
    BY <2>1, AllocDisjoint
  <2>2. CASE \E b \in held : Free(b)
    BY <2>2, FreeDisjoint
  <2>3. CASE UNCHANGED <<free, held>>
    BY <2>3 DEF Disjoint
  <2> QED
    BY <2>1, <2>2, <2>3 DEF Next
<1> QED
  BY <1>1, <1>2, PTL DEF Spec
=============================================================================
