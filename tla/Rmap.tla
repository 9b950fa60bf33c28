-------------------------------- MODULE Rmap --------------------------------
(***************************************************************************)
(* Resource maps: rmalloc() and rmfree() of uts/i386/os/malloc.c on the    *)
(* array of sys/map.h.  X[0] holds mapsize and mapwant, X[1] on the free   *)
(* runs in ascending order, up to an entry of size 0.  Both run at splhi:  *)
(* a call is one step.  The callers free what they have allocated, and     *)
(* sleep when they get nothing (os/msg.c 592-616).                         *)
(***************************************************************************)
EXTENDS Integers, FiniteSets, FiniteSetsExt

CONSTANTS
  N,        \* units 1 .. N
  MAPSIZ,   \* entries of the array, X[0] included
  Sizes     \* sizes that are allocated

ASSUME RmapAssumption ==
  /\ N \in Nat \ {0} /\ MAPSIZ \in Nat /\ MAPSIZ >= 3
  /\ Sizes \subseteq Nat \ {0}

VARIABLES
  map,       \* X[1] .. X[MAPSIZ - 1]: m_size and m_addr
  mapsize,   \* unused entries
  mapwant,   \* somebody waits for units
  held,      \* runs the callers have, as <<address, size>>
  waiting    \* sizes that callers sleep for

vars == <<map, mapsize, mapwant, held, waiting>>

Index == 1 .. MAPSIZ - 1
Entry(n, a) == [m_size |-> n, m_addr |-> a]

\* mapinit(), and rmfree() of all the units
Init ==
  /\ map = [k \in Index |-> IF k = 1 THEN Entry(N, 1) ELSE Entry(0, 0)]
  /\ mapsize = MAPSIZ - 3
  /\ mapwant = FALSE
  /\ held = {}
  /\ waiting = {}

\* The entry that ends the map.
End == Min({k \in Index : map[k].m_size = 0})

\* Entry k is removed: those behind it move down, the end included.
Closed(m, k) == [j \in Index |-> IF k <= j /\ j < End THEN m[j + 1] ELSE m[j]]

\* Entry e is inserted at k: the others move up, over the end.
Opened(k, e) ==
  [j \in Index |-> IF j = k THEN e ELSE IF k < j /\ j <= End THEN map[j - 1] ELSE map[j]]

-----------------------------------------------------------------------------

\* Mutant of Enough: ">" for ">=".
EnoughMore(k, size) == map[k].m_size > size

Enough(k, size) == map[k].m_size >= size

\* What is left of entry k.
Rest(k, size) == Entry(map[k].m_size - size, map[k].m_addr + size)

\* rmalloc() takes the first units of the first entry that has enough.
rmalloc(size) ==
  LET fit == {k \in 1 .. End - 1 : Enough(k, size)}
      k == Min(fit)
  IN /\ fit # {}
     /\ IF map[k].m_size = size
          THEN map' = Closed(map, k) /\ mapsize' = mapsize + 1
          ELSE map' = [map EXCEPT ![k] = Rest(k, size)] /\ mapsize' = mapsize
     /\ held' = held \cup {<<map[k].m_addr, size>>}
     /\ UNCHANGED <<mapwant, waiting>>

\* rmalloc() returns 0; the caller sets mapwant and sleeps.
rmallocFail(size) ==
  /\ \A k \in 1 .. End - 1 : ~Enough(k, size)
  /\ mapwant' = TRUE
  /\ waiting' = waiting \cup {size}
  /\ UNCHANGED <<map, mapsize, held>>

\* The first entry behind address a.
Place(a) == Min({k \in Index : ~(map[k].m_addr <= a /\ map[k].m_size # 0)})

JoinsLeft(k, a) == k > 1 /\ map[k - 1].m_addr + map[k - 1].m_size = a

\* Join the run to entry k - 1, and that to entry k.
FreeLeft(k, a, size) ==
  LET both == map[k].m_addr # 0 /\ a + size = map[k].m_addr
      left == [map EXCEPT ![k - 1].m_size =
                 @ + size + IF both THEN map[k].m_size ELSE 0]
  IN IF both THEN map' = Closed(left, k) /\ mapsize' = mapsize + 1
             ELSE map' = left /\ mapsize' = mapsize

\* Mutant of FreeRight: an entry of its own, although there is one to join.
FreeRightApart(k, a, size) ==
  IF mapsize = 0 THEN UNCHANGED <<map, mapsize>>
  ELSE map' = Opened(k, Entry(size, a)) /\ mapsize' = mapsize - 1

\* Join the run to entry k, or insert it, if the array has room for it.
FreeRight(k, a, size) ==
  IF a + size = map[k].m_addr /\ map[k].m_size # 0
    THEN map' = [map EXCEPT ![k] = Entry(@.m_size + size, a)] /\ mapsize' = mapsize
  ELSE IF mapsize = 0 THEN UNCHANGED <<map, mapsize>>
  ELSE map' = Opened(k, Entry(size, a)) /\ mapsize' = mapsize - 1

Overflow(k, a, size) ==
  /\ ~JoinsLeft(k, a) /\ mapsize = 0
  /\ ~(a + size = map[k].m_addr /\ map[k].m_size # 0)

\* Mutant of Wakes: only a run that was inserted is announced.
WakesNew(k, a, size) ==
  mapwant /\ ~Overflow(k, a, size) /\ ~JoinsLeft(k, a)

\* rmfree() wakes the waiters, unless it returned early.
Wakes(k, a, size) == mapwant /\ ~Overflow(k, a, size)

rmfree(a, size) ==
  LET k == Place(a) IN
  /\ IF JoinsLeft(k, a) THEN FreeLeft(k, a, size) ELSE FreeRight(k, a, size)
  /\ held' = held \ {<<a, size>>}
  /\ IF Wakes(k, a, size)
       THEN mapwant' = FALSE /\ waiting' = {}
       ELSE UNCHANGED <<mapwant, waiting>>

Next ==
  \/ \E n \in Sizes : rmalloc(n) \/ rmallocFail(n)
  \/ \E b \in held : rmfree(b[1], b[2])

Spec == Init /\ [][Next]_vars

-----------------------------------------------------------------------------
(* Properties *)

\* The array stays as rmalloc() and rmfree() expect it: an end within the
\* array, runs in ascending order that do not touch (the ASSERTs of os/malloc.c
\* 112, 129-135), nothing but zeroes behind them (m_addr = 0 is the "end of map
\* table" of line 111), and mapsize counts the entries that are left.
MapCanonical ==
  /\ \E k \in Index : map[k].m_size = 0
  /\ \A k \in 1 .. End - 2 : map[k].m_addr + map[k].m_size < map[k + 1].m_addr
  /\ \A k \in End .. MAPSIZ - 1 : map[k] = Entry(0, 0)
  /\ mapsize + End - 1 = MAPSIZ - 2

\* The units of the entries.
FreeUnits == UNION {map[k].m_addr .. map[k].m_addr + map[k].m_size - 1 : k \in 1 .. End - 1}

\* Whoever sleeps for units could not have them, and will be awakened by the
\* next rmfree() that adds some (os/malloc.c 153-156).
WaitersBlocked ==
  \A n \in waiting :
    mapwant /\ \A a \in 1 .. N : ~(a + n - 1 <= N /\ a .. a + n - 1 \subseteq FreeUnits)

Pool == INSTANCE ResourcePool WITH free <- FreeUnits, Cap <- MAPSIZ - 2

\* The array implements a set of units from which the first run that is long
\* enough is taken, and which loses units only when the array is full.
PoolSpec == Pool!Spec
=============================================================================
