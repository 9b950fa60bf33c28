----------------------------- MODULE RmapProofs -----------------------------
(***************************************************************************)
(* A resource map of any size, for any units, stays as rmalloc() and       *)
(* rmfree() expect it, and implements the set of units of ResourcePool.    *)
(*                                                                         *)
(* MapCanonical compares neighbours only and says nothing of what the      *)
(* callers hold, and is not inductive: that the run rmfree() inserts does  *)
(* not overlap the entries around it follows from the callers' having it.  *)
(* MapInv orders all entries (Shape) and keeps what is held apart from     *)
(* what is free (HeldOK).  That a run of free units lies in one entry      *)
(* follows from the gaps between the entries, without induction.           *)
(***************************************************************************)
EXTENDS Rmap, WellFoundedInduction, FiniteSetTheorems, TLAPS

EntrySet == [m_size : Nat, m_addr : Nat]

(* The order of entries j and k, and that entry k is one.                  *)
Sound(m, k) == m[k].m_size > 0 /\ m[k].m_addr > 0 /\ m[k].m_addr + m[k].m_size <= N + 1
Apart(m, j, k) == m[j].m_addr + m[j].m_size < m[k].m_addr

(* The array m, with its end at e; without entry k.                        *)
ShapeBut(m, e, i) ==
  /\ m \in [Index -> EntrySet] /\ e \in Index
  /\ \A k \in (1 .. e - 1) \ {i} : Sound(m, k)
  /\ \A j, k \in (1 .. e - 1) \ {i} : j < k => Apart(m, j, k)
  /\ \A k \in e .. MAPSIZ - 1 : m[k] = Entry(0, 0)
Shape(m, e) == ShapeBut(m, e, 0)

(* Unit u is one of entry k's.                                             *)
In(m, k, u) == m[k].m_addr <= u /\ u < m[k].m_addr + m[k].m_size
Units(m, e) == UNION {m[k].m_addr .. m[k].m_addr + m[k].m_size - 1 : k \in 1 .. e - 1}

(* Entry k removed; entry x inserted at k.                                 *)
Without(m, e, k) == [j \in Index |-> IF k <= j /\ j < e THEN m[j + 1] ELSE m[j]]
With(m, e, k, x) ==
  [j \in Index |-> IF j = k THEN x ELSE IF k < j /\ j <= e THEN m[j - 1] ELSE m[j]]

(* The run of n units from a fits between entries i and k.                 *)
Room(m, e, i, k, a, n) ==
  /\ a \in Nat \ {0} /\ n \in Nat \ {0} /\ a + n <= N + 1
  /\ \A j \in 1 .. i : m[j].m_addr + m[j].m_size < a
  /\ \A j \in k .. e - 1 : a + n < m[j].m_addr

(* Array o has the run instead of entry k of m.                            *)
Swapped(m, e, k, a, n, o) ==
  \A u \in Int : (\E j \in 1 .. e - 1 : In(o, j, u))
    <=> (a <= u /\ u < a + n) \/ \E j \in (1 .. e - 1) \ {k} : In(m, j, u)

HeldOK ==
  /\ \A b \in held : b \in Nat \X Nat /\ b[1] > 0 /\ b[2] > 0 /\ b[1] + b[2] <= N + 1
  /\ Pool!Disjoint

(* Nobody waits for what an entry has.                                     *)
WaitInv ==
  \A n \in waiting : n \in Nat \ {0} /\ mapwant /\ \A k \in 1 .. End - 1 : map[k].m_size < n

MapInv ==
  /\ Shape(map, End)
  /\ mapsize \in Nat /\ mapsize + End - 1 = MAPSIZ - 2
  /\ mapwant \in BOOLEAN
  /\ HeldOK
  /\ WaitInv

-----------------------------------------------------------------------------
(* The least of a set of numbers.                                          *)
LEMMA NatMin ==
  ASSUME NEW T \in SUBSET Nat, T # {}
  PROVE  Min(T) \in T /\ \A y \in T : Min(T) <= y
<1>1. PICK R : R = OpToRel(<, Nat)
  OBVIOUS
<1>2. IsWellFoundedOn(R, Nat)
  BY <1>1, NatLessThanWellFounded
<1>3. PICK x \in T : \A y \in T : ~(<<y, x>> \in R)
  BY <1>2, WFMin
<1>4. \A i, j \in Nat : <<j, i>> \in R <=> j < i
  BY <1>1 DEF OpToRel
<1>5. ASSUME NEW y \in T PROVE x <= y
  <2>1. x \in Nat /\ y \in Nat /\ ~(<<y, x>> \in R)
    BY <1>3
  <2>2. ~(y < x)
    BY <1>4, <2>1
  <2> QED
    BY <2>1, <2>2
<1>6. \E i \in T : \A y \in T : i <= y
  BY <1>5
<1> QED
  BY <1>6 DEF Min

(* A number that is at most all the others is the least.                   *)
LEMMA MinIs ==
  ASSUME NEW T \in SUBSET Nat, NEW x \in T, \A y \in T : x <= y
  PROVE  Min(T) = x
<1>1. Min(T) \in T /\ \A y \in T : Min(T) <= y
  BY NatMin
<1>2. Min(T) \in Nat /\ x \in Nat /\ Min(T) <= x /\ x <= Min(T)
  BY <1>1
<1> QED
  BY <1>2

(* The end of an array, by its shape.                                      *)
LEMMA EndIs ==
  ASSUME NEW m, NEW e, Shape(m, e)
  PROVE  Min({k \in Index : m[k].m_size = 0}) = e
<1> USE RmapAssumption
<1> DEFINE T == {k \in Index : m[k].m_size = 0}
<1>1. T \in SUBSET Nat /\ e \in T /\ \A k \in T : e <= k
  BY DEF Shape, ShapeBut, Index, Entry, Sound
<1> HIDE DEF T
<1>2. Min(T) = e
  BY <1>1, MinIs
<1> QED
  BY <1>2 DEF T

(* The next state's.                                                       *)
LEMMA NextEnd ==
  ASSUME NEW e, Shape(map', e)
  PROVE  End' = e
<1>1. Min({k \in Index : map'[k].m_size = 0}) = e
  BY EndIs
<1>2. End' = Min({k \in Index : map'[k].m_size = 0})
  BY DEF End, Index
<1> QED
  BY <1>1, <1>2

(* The entries before the end.                                             *)
LEMMA Entries ==
  ASSUME NEW m, NEW e, Shape(m, e)
  PROVE  /\ e \in Index /\ Index \subseteq Int
         /\ \A k \in 1 .. e - 1 : /\ k \in Index /\ m[k].m_size \in Nat /\ m[k].m_addr \in Nat
                                   /\ Sound(m, k)
BY RmapAssumption DEF Shape, ShapeBut, Index, EntrySet

(* The units of the entries.                                               *)
LEMMA UnitsIn ==
  ASSUME NEW m, NEW e, Shape(m, e)
  PROVE  /\ Units(m, e) \subseteq 1 .. N
         /\ \A u \in Int : u \in Units(m, e) <=> \E k \in 1 .. e - 1 : In(m, k, u)
<1> USE RmapAssumption
<1>1. \A k \in 1 .. e - 1 : k \in Index /\ m[k].m_size \in Nat /\ m[k].m_addr \in Nat /\ Sound(m, k)
  BY DEF Shape, ShapeBut, Index, EntrySet
<1>2. \A u \in Int : u \in Units(m, e) <=> \E k \in 1 .. e - 1 : In(m, k, u)
  BY <1>1 DEF Units, In
<1>3. Units(m, e) \subseteq 1 .. N
  BY <1>1 DEF Units, Sound
<1> QED
  BY <1>2, <1>3

-----------------------------------------------------------------------------
(* Entry k is removed.                                                     *)
LEMMA ClosedShape ==
  ASSUME NEW m, NEW e, NEW k \in 1 .. e - 1, ShapeBut(m, e, k), NEW c,
         c = Without(m, e, k)
  PROVE  /\ Shape(c, e - 1)
         /\ \A u \in Int : (\E j \in 1 .. e - 2 : In(c, j, u))
                              <=> \E j \in (1 .. e - 1) \ {k} : In(m, j, u)
         /\ \A j \in 1 .. e - 2 : c[j] = m[IF k <= j THEN j + 1 ELSE j]
<1> USE RmapAssumption
<1>1. e \in Index /\ e - 1 \in Index /\ Index \subseteq Int
  BY DEF ShapeBut, Index
<1>2. c \in [Index -> EntrySet]
  BY <1>1 DEF ShapeBut, Index, Without
<1>3. \A j \in 1 .. e - 2 : c[j] = m[IF k <= j THEN j + 1 ELSE j]
  BY <1>1 DEF Index, Without
<1>4. \A j \in 1 .. e - 2 : (IF k <= j THEN j + 1 ELSE j) \in (1 .. e - 1) \ {k}
  BY <1>1 DEF Index
<1>5. \A j \in 1 .. e - 2 : Sound(c, j)
  BY <1>3, <1>4 DEF ShapeBut, Sound
<1>6. \A i, j \in 1 .. e - 2 : i < j => Apart(c, i, j)
  <2> SUFFICES ASSUME NEW i \in 1 .. e - 2, NEW j \in 1 .. e - 2, i < j PROVE Apart(c, i, j)
    OBVIOUS
  <2>1. PICK x : x = IF k <= i THEN i + 1 ELSE i
    OBVIOUS
  <2>2. PICK y : y = IF k <= j THEN j + 1 ELSE j
    OBVIOUS
  <2>3. x \in (1 .. e - 1) \ {k} /\ y \in (1 .. e - 1) \ {k} /\ x < y
    BY <1>1, <1>4, <2>1, <2>2
  <2>4. c[i] = m[x] /\ c[j] = m[y]
    BY <1>3, <2>1, <2>2
  <2> QED
    BY <2>3, <2>4 DEF ShapeBut, Apart
<1>7. \A j \in e - 1 .. MAPSIZ - 1 : c[j] = Entry(0, 0)
  BY <1>1 DEF ShapeBut, Index, Without
<1>8. ASSUME NEW u \in Int, NEW j \in 1 .. e - 2, In(c, j, u)
      PROVE  \E i \in (1 .. e - 1) \ {k} : In(m, i, u)
  BY <1>3, <1>4, <1>8 DEF In
<1>9. ASSUME NEW u \in Int, NEW i \in (1 .. e - 1) \ {k}, In(m, i, u)
      PROVE  \E j \in 1 .. e - 2 : In(c, j, u)
  <2>1. PICK j : j = IF k < i THEN i - 1 ELSE i
    OBVIOUS
  <2>2. j \in 1 .. e - 2 /\ i = (IF k <= j THEN j + 1 ELSE j)
    BY <1>1, <2>1
  <2>3. c[j] = m[i]
    BY <1>3, <2>2
  <2> QED
    BY <1>9, <2>2, <2>3 DEF In
<1>10. 0 \notin 1 .. e - 2
  OBVIOUS
<1> QED
  BY <1>1, <1>2, <1>3, <1>5, <1>6, <1>7, <1>8, <1>9 DEF Shape, ShapeBut

(* Entry x is inserted at k.                                               *)
LEMMA OpenedShape ==
  ASSUME NEW m, NEW e, Shape(m, e), e + 1 \in Index, NEW k \in 1 .. e,
         NEW a, NEW n, Room(m, e, k - 1, k, a, n), NEW o, o = With(m, e, k, Entry(n, a))
  PROVE  /\ Shape(o, e + 1)
         /\ \A u \in Int : (\E j \in 1 .. e : In(o, j, u))
                              <=> (a <= u /\ u < a + n) \/ \E j \in 1 .. e - 1 : In(m, j, u)
<1> USE RmapAssumption
<1>a. /\ a \in Nat \ {0} /\ n \in Nat \ {0} /\ a + n <= N + 1
      /\ \A j \in 1 .. k - 1 : m[j].m_addr + m[j].m_size < a
      /\ \A j \in k .. e - 1 : a + n < m[j].m_addr
  BY DEF Room
<1>1. e \in Index /\ Index \subseteq Int /\ Entry(n, a) \in EntrySet
  BY <1>a DEF Shape, ShapeBut, Index, Entry, EntrySet
<1>2. o \in [Index -> EntrySet]
  BY <1>1 DEF Shape, ShapeBut, Index, With
<1>3. o[k].m_size = n /\ o[k].m_addr = a
  BY <1>1 DEF Index, Entry, With
<1>4. \A j \in (1 .. e) \ {k} : o[j] = m[IF k < j THEN j - 1 ELSE j]
  BY <1>1 DEF Index, With
<1>5. \A j \in (1 .. e) \ {k} : (IF k < j THEN j - 1 ELSE j) \in 1 .. e - 1
  BY <1>1 DEF Index
<1>6. \A j \in 1 .. e : Sound(o, j)
  <2> SUFFICES ASSUME NEW j \in 1 .. e PROVE Sound(o, j)
    OBVIOUS
  <2>1. CASE j = k
    BY <1>a, <1>3, <2>1 DEF Sound
  <2>2. CASE j # k
    BY <1>4, <1>5, <2>2 DEF Shape, ShapeBut, Sound
  <2> QED
    BY <2>1, <2>2
<1>7. \A i, j \in 1 .. e : i < j => Apart(o, i, j)
  <2> SUFFICES ASSUME NEW i \in 1 .. e, NEW j \in 1 .. e, i < j PROVE Apart(o, i, j)
    OBVIOUS
  <2>1. PICK x : x = IF k < i THEN i - 1 ELSE i
    OBVIOUS
  <2>2. PICK y : y = IF k < j THEN j - 1 ELSE j
    OBVIOUS
  <2>3. CASE i = k
    <3>1. y \in k .. e - 1 /\ o[j] = m[y]
      BY <1>1, <1>4, <1>5, <2>2, <2>3
    <3> QED
      BY <1>a, <1>3, <2>3, <3>1 DEF Apart
  <2>4. CASE j = k
    <3>1. x \in 1 .. k - 1 /\ o[i] = m[x]
      BY <1>1, <1>4, <1>5, <2>1, <2>4
    <3> QED
      BY <1>a, <1>3, <2>4, <3>1 DEF Apart
  <2>5. CASE i # k /\ j # k
    <3>1. x \in 1 .. e - 1 /\ y \in 1 .. e - 1 /\ x < y /\ o[i] = m[x] /\ o[j] = m[y]
      BY <1>1, <1>4, <1>5, <2>1, <2>2, <2>5
    <3> QED
      BY <3>1 DEF Shape, ShapeBut, Apart
  <2> QED
    BY <2>3, <2>4, <2>5
<1>8. \A j \in e + 1 .. MAPSIZ - 1 : o[j] = Entry(0, 0)
  BY <1>1 DEF Shape, ShapeBut, Index, With
<1>9. ASSUME NEW u \in Int, NEW j \in 1 .. e, In(o, j, u)
      PROVE  (a <= u /\ u < a + n) \/ \E i \in 1 .. e - 1 : In(m, i, u)
  BY <1>3, <1>4, <1>5, <1>9 DEF In
<1>10. ASSUME NEW u \in Int, (a <= u /\ u < a + n) \/ \E i \in 1 .. e - 1 : In(m, i, u)
       PROVE  \E j \in 1 .. e : In(o, j, u)
  <2>1. CASE a <= u /\ u < a + n
    <3>1. In(o, k, u) /\ k \in 1 .. e
      BY <1>3, <2>1 DEF In
    <3> QED
      BY <3>1
  <2>2. ASSUME NEW i \in 1 .. e - 1, In(m, i, u) PROVE \E j \in 1 .. e : In(o, j, u)
    <3>1. PICK j : j = IF k <= i THEN i + 1 ELSE i
      OBVIOUS
    <3>2. j \in (1 .. e) \ {k} /\ i = (IF k < j THEN j - 1 ELSE j)
      BY <1>1, <3>1
    <3>3. o[j] = m[i]
      BY <1>4, <3>2
    <3> QED
      BY <2>2, <3>2, <3>3 DEF In
  <2> QED
    BY <1>10, <2>1, <2>2
<1> QED
  BY <1>1, <1>2, <1>6, <1>7, <1>8, <1>9, <1>10 DEF Shape, ShapeBut

(* Entry k is replaced by another that keeps its place.                    *)
LEMMA ReplacedShape ==
  ASSUME NEW m, NEW e, Shape(m, e), NEW k \in 1 .. e - 1,
         NEW a, NEW n, Room(m, e, k - 1, k + 1, a, n), NEW o,
         o = [m EXCEPT ![k] = Entry(n, a)]
  PROVE  Shape(o, e) /\ Swapped(m, e, k, a, n, o)
<1> USE RmapAssumption
<1>a. /\ a \in Nat \ {0} /\ n \in Nat \ {0} /\ a + n <= N + 1
      /\ \A j \in 1 .. k - 1 : m[j].m_addr + m[j].m_size < a
      /\ \A j \in k + 1 .. e - 1 : a + n < m[j].m_addr
  BY DEF Room
<1>1. e \in Index /\ Index \subseteq Int /\ Entry(n, a) \in EntrySet /\ k \in Index
  BY <1>a DEF Shape, ShapeBut, Index, Entry, EntrySet
<1>2. o \in [Index -> EntrySet]
  BY <1>1 DEF Shape, ShapeBut
<1>3. o[k].m_size = n /\ o[k].m_addr = a /\ \A j \in Index \ {k} : o[j] = m[j]
  BY <1>1 DEF Shape, ShapeBut, Entry
<1>4. \A j \in (1 .. e - 1) \ {k} : o[j] = m[j]
  BY <1>1, <1>3 DEF Index
<1>5. \A j \in 1 .. e - 1 : Sound(o, j)
  BY <1>a, <1>3, <1>4 DEF Shape, ShapeBut, Sound
<1>6. \A i, j \in 1 .. e - 1 : i < j => Apart(o, i, j)
  <2> SUFFICES ASSUME NEW i \in 1 .. e - 1, NEW j \in 1 .. e - 1, i < j PROVE Apart(o, i, j)
    OBVIOUS
  <2>1. i # k /\ j # k => Apart(m, i, j)
    BY DEF Shape, ShapeBut
  <2> QED
    BY <1>a, <1>1, <1>3, <1>4, <2>1 DEF Apart
<1>7. \A j \in e .. MAPSIZ - 1 : o[j] = Entry(0, 0)
  BY <1>1, <1>3 DEF Shape, ShapeBut, Index
<1>8. Swapped(m, e, k, a, n, o)
  BY <1>3, <1>4 DEF In, Swapped
<1> QED
  BY <1>1, <1>2, <1>5, <1>6, <1>7, <1>8 DEF Shape, ShapeBut
-----------------------------------------------------------------------------
(* A run of free units lies in one entry: the unit behind the entry is     *)
(* nobody's.                                                               *)
LEMMA OneEntry ==
  ASSUME NEW m, NEW e, Shape(m, e), NEW a \in Int, NEW n \in Nat \ {0},
         a .. a + n - 1 \subseteq Units(m, e)
  PROVE  \E k \in 1 .. e - 1 : m[k].m_addr <= a /\ a + n <= m[k].m_addr + m[k].m_size
<1> USE RmapAssumption
<1>1. \A k \in 1 .. e - 1 : k \in Index /\ m[k].m_size \in Nat /\ m[k].m_addr \in Nat /\ Sound(m, k)
  BY DEF Shape, ShapeBut, Index, EntrySet
<1>2. \A u \in Int : u \in Units(m, e) <=> \E k \in 1 .. e - 1 : In(m, k, u)
  BY UnitsIn
<1>3. a \in Units(m, e)
  OBVIOUS
<1>4. PICK k \in 1 .. e - 1 : In(m, k, a)
  BY <1>2, <1>3
<1>5. PICK v : v = m[k].m_addr + m[k].m_size
  OBVIOUS
<1>6. v \in Int /\ a < v
  BY <1>1, <1>4, <1>5 DEF In
<1>7. ASSUME v < a + n PROVE FALSE
  <2>1. v \in Units(m, e)
    BY <1>6, <1>7
  <2>2. PICK j \in 1 .. e - 1 : In(m, j, v)
    BY <1>2, <1>6, <2>1
  <2>3. (j < k => Apart(m, j, k)) /\ (k < j => Apart(m, k, j))
    BY DEF Shape, ShapeBut
  <2>4. e \in Int /\ j \in Int /\ k \in Int
    BY DEF Shape, ShapeBut, Index
  <2>5. m[j].m_size \in Nat /\ m[j].m_addr \in Nat /\ m[k].m_size \in Nat /\ m[k].m_addr \in Nat
    BY <1>1
  <2> QED
    BY <1>5, <1>6, <2>2, <2>3, <2>4, <2>5 DEF In, Apart
<1> QED
  BY <1>1, <1>4, <1>5, <1>6, <1>7 DEF In

(* Of the entries that satisfy a test, the first.                          *)
LEMMA FirstFit ==
  ASSUME NEW e \in Index, NEW T \in SUBSET (1 .. e - 1), T # {}
  PROVE  Min(T) \in T /\ \A k \in T : Min(T) <= k
<1>1. T \in SUBSET Nat
  BY RmapAssumption DEF Index
<1> QED
  BY <1>1, NatMin

(* Where rmfree() finds the place of a run that is held.                   *)
LEMMA PlaceIs ==
  ASSUME Shape(map, End), NEW a \in Nat \ {0}, NEW n \in Nat \ {0},
         \A u \in a .. a + n - 1 : u \notin Units(map, End)
  PROVE  /\ Place(a) \in 1 .. End
         /\ \A j \in 1 .. Place(a) - 1 : map[j].m_addr + map[j].m_size <= a
         /\ \A j \in Place(a) .. End - 1 : a + n <= map[j].m_addr
         /\ Place(a) = End <=> map[Place(a)].m_size = 0
         /\ map[End] = Entry(0, 0)
<1> USE RmapAssumption
<1> DEFINE T == {k \in Index : ~(map[k].m_addr <= a /\ map[k].m_size # 0)}
<1>1. /\ End \in Index /\ map[End] = Entry(0, 0)
      /\ \A k \in 1 .. End - 1 : /\ k \in Index /\ map[k].m_size \in Nat /\ map[k].m_addr \in Nat
                                 /\ Sound(map, k)
  BY DEF Shape, ShapeBut, Index, EntrySet
<1>2. T \in SUBSET Nat /\ End \in T
  BY <1>1 DEF Index, Entry
<1>3. PICK k : k = Place(a)
  OBVIOUS
<1>4. k = Min(T)
  BY <1>3 DEF Place
<1> HIDE DEF T
<1>5. k \in T /\ \A j \in T : k <= j
  BY <1>2, <1>4, NatMin
<1>6. k \in 1 .. End
  BY <1>1, <1>2, <1>5 DEF T, Index
<1>7. ASSUME NEW j \in 1 .. k - 1 PROVE map[j].m_addr + map[j].m_size <= a
  <2>1. j \notin T /\ j \in 1 .. End - 1
    BY <1>1, <1>5, <1>6 DEF Index
  <2>2. map[j].m_addr <= a
    BY <1>1, <2>1 DEF T
  <2>3. ~In(map, j, a)
    BY <2>1, UnitsIn
  <2> QED
    BY <1>1, <2>1, <2>2, <2>3 DEF In
<1>8. ASSUME NEW j \in k .. End - 1 PROVE a + n <= map[j].m_addr
  <2>1. k \in 1 .. End - 1 /\ j \in 1 .. End - 1 /\ k \in Int /\ j \in Int
    BY <1>1, <1>6, <1>8 DEF Index
  <2>2. a < map[k].m_addr
    BY <1>1, <1>5, <2>1 DEF T, Sound
  <2>3. map[k].m_addr <= map[j].m_addr
    <3>1. k < j => Apart(map, k, j)
      BY <2>1 DEF Shape, ShapeBut
    <3> QED
      BY <1>1, <2>1, <3>1 DEF Apart
  <2>4. In(map, j, map[j].m_addr) /\ map[j].m_addr \in Int
    BY <1>1, <2>1 DEF In, Sound
  <2>5. map[j].m_addr \in Units(map, End)
    BY <2>1, <2>4, UnitsIn
  <2> QED
    BY <1>1, <2>1, <2>2, <2>3, <2>5
<1>9. k = End <=> map[k].m_size = 0
  BY <1>1, <1>6 DEF Entry, Sound, Index
<1> QED
  BY <1>1, <1>3, <1>6, <1>7, <1>8, <1>9

-----------------------------------------------------------------------------
(* rmalloc() takes the first units of the first entry that has enough.     *)
LEMMA AllocMap ==
  ASSUME MapInv, NEW n \in Nat \ {0}, rmalloc(n)
  PROVE  \E k \in 1 .. End - 1, e \in Index, a \in 1 .. N :
           /\ a = map[k].m_addr /\ a + n <= map[k].m_addr + map[k].m_size
           /\ \A j \in 1 .. End - 1 : map[j].m_size >= n => k <= j
           /\ Shape(map', e) /\ mapsize' + e - 1 = MAPSIZ - 2 /\ mapsize' \in Nat
           /\ Units(map', e) = Units(map, End) \ (a .. a + n - 1)
           /\ \A j \in 1 .. e - 1 : \E i \in 1 .. End - 1 : map'[j].m_size <= map[i].m_size
           /\ held' = held \cup {<<a, n>>} /\ UNCHANGED <<mapwant, waiting>>
<1> USE RmapAssumption
<1> DEFINE fit == {k \in 1 .. End - 1 : Enough(k, n)}
<1>1. /\ Shape(map, End) /\ End \in Index /\ mapsize \in Nat /\ mapsize + End - 1 = MAPSIZ - 2
      /\ map \in [Index -> EntrySet]
      /\ \A k \in 1 .. End - 1 : /\ k \in Index /\ map[k].m_size \in Nat /\ map[k].m_addr \in Nat
                                 /\ Sound(map, k)
  BY DEF MapInv, Shape, ShapeBut, Index, EntrySet
<1>2. PICK k : k = Min(fit)
  OBVIOUS
<1>3. fit # {} /\ fit \in SUBSET (1 .. End - 1)
  BY DEF rmalloc
<1>4. k \in fit /\ \A j \in fit : k <= j
  BY <1>1, <1>2, <1>3, FirstFit
<1>5. k \in 1 .. End - 1 /\ map[k].m_size >= n /\ \A j \in 1 .. End - 1 : map[j].m_size >= n => k <= j
  BY <1>4 DEF Enough
<1>6. PICK a : a = map[k].m_addr
  OBVIOUS
<1>7. a \in 1 .. N /\ a \in Nat \ {0} /\ a + n <= a + map[k].m_size
  BY <1>1, <1>5, <1>6 DEF Sound
<1>8. /\ IF map[k].m_size = n
           THEN map' = Closed(map, k) /\ mapsize' = mapsize + 1
           ELSE map' = [map EXCEPT ![k] = Rest(k, n)] /\ mapsize' = mapsize
      /\ held' = held \cup {<<a, n>>} /\ UNCHANGED <<mapwant, waiting>>
  BY <1>2, <1>6 DEF rmalloc
<1> HIDE DEF fit
<1>9. Units(map, End) \subseteq Int /\ \A u \in Int :
         u \in Units(map, End) <=> \E j \in 1 .. End - 1 : In(map, j, u)
  BY <1>1, UnitsIn
<1>10. \A u \in Int : In(map, k, u) =>
          ~\E j \in (1 .. End - 1) \ {k} : In(map, j, u)
  <2> SUFFICES ASSUME NEW u \in Int, In(map, k, u), NEW j \in (1 .. End - 1) \ {k}, In(map, j, u)
               PROVE  FALSE
    OBVIOUS
  <2>1. (j < k => Apart(map, j, k)) /\ (k < j => Apart(map, k, j))
    BY <1>1, <1>5 DEF Shape, ShapeBut
  <2> QED
    BY <1>1, <1>5, <2>1, SMTT(30) DEF In, Apart, Index
<1>11. CASE map[k].m_size = n
  <2>1. map' = Without(map, End, k)
    BY <1>8, <1>11 DEF Closed, Without
  <2>2. ShapeBut(map, End, k)
    BY <1>1 DEF Shape, ShapeBut
  <2>3. /\ Shape(map', End - 1)
        /\ \A u \in Int : (\E j \in 1 .. End - 2 : In(map', j, u))
                             <=> \E j \in (1 .. End - 1) \ {k} : In(map, j, u)
        /\ \A j \in 1 .. End - 2 : map'[j] = map[IF k <= j THEN j + 1 ELSE j]
    BY <1>5, <2>1, <2>2, ClosedShape, SMTT(30)
  <2>4. Units(map', End - 1) \subseteq Int /\ \A u \in Int :
           u \in Units(map', End - 1) <=> \E j \in 1 .. End - 2 : In(map', j, u)
    <3>1. End - 1 - 1 = End - 2
      BY <1>1 DEF Index
    <3> QED
      BY <2>3, <3>1, UnitsIn
  <2>5. \A u \in Int : In(map, k, u) <=> u \in a .. a + n - 1
    BY <1>1, <1>5, <1>6, <1>7, <1>11 DEF In
  <2>6. Units(map', End - 1) = Units(map, End) \ (a .. a + n - 1)
    <3>1. \A u \in Int : u \in Units(map', End - 1) <=> u \in Units(map, End) /\ u \notin a .. a + n - 1
      BY <1>5, <1>9, <1>10, <2>3, <2>4, <2>5
    <3> QED
      BY <1>9, <2>4, <3>1
  <2>7. ASSUME NEW j \in 1 .. End - 1 - 1
        PROVE  \E i \in 1 .. End - 1 : map'[j].m_size <= map[i].m_size
    <3>1. PICK i : i = IF k <= j THEN j + 1 ELSE j
      OBVIOUS
    <3>2. i \in 1 .. End - 1 /\ map'[j] = map[i]
      BY <1>1, <2>3, <3>1 DEF Index
    <3> QED
      BY <1>1, <3>2
  <2>8. mapsize' + (End - 1) - 1 = MAPSIZ - 2 /\ mapsize' \in Nat /\ End - 1 \in Index
    BY <1>1, <1>5, <1>8, <1>11 DEF Index
  <2> QED
    BY <1>5, <1>6, <1>7, <1>8, <2>3, <2>6, <2>7, <2>8
<1>12. CASE map[k].m_size # n
  <2>1. PICK s : s = map[k].m_size - n
    OBVIOUS
  <2>2. s \in Nat \ {0} /\ a + n \in Nat \ {0} /\ a + n + s = a + map[k].m_size /\ a + n + s <= N + 1
    BY <1>1, <1>5, <1>6, <1>7, <1>12, <2>1 DEF Sound
  <2>3. map' = [map EXCEPT ![k] = Entry(s, a + n)] /\ mapsize' = mapsize
    BY <1>6, <1>8, <1>12, <2>1 DEF Rest
  <2>4. \A j \in 1 .. k - 1 : map[j].m_addr + map[j].m_size < a + n
    <3> SUFFICES ASSUME NEW j \in 1 .. k - 1 PROVE map[j].m_addr + map[j].m_size < a + n
      OBVIOUS
    <3>1. j \in 1 .. End - 1 /\ j < k
      BY <1>1, <1>5 DEF Index
    <3>2. Apart(map, j, k)
      BY <1>1, <1>5, <3>1 DEF Shape, ShapeBut
    <3> QED
      BY <1>1, <1>6, <1>7, <3>1, <3>2 DEF Apart
  <2>5. \A j \in k + 1 .. End - 1 : a + n + s < map[j].m_addr
    <3> SUFFICES ASSUME NEW j \in k + 1 .. End - 1 PROVE a + n + s < map[j].m_addr
      OBVIOUS
    <3>1. j \in 1 .. End - 1 /\ k < j
      BY <1>1, <1>5 DEF Index
    <3>2. Apart(map, k, j)
      BY <1>1, <1>5, <3>1 DEF Shape, ShapeBut
    <3> QED
      BY <1>1, <1>6, <1>7, <2>2, <3>1, <3>2 DEF Apart
  <2>6. /\ Shape(map', End)
        /\ \A u \in Int : (\E j \in 1 .. End - 1 : In(map', j, u))
             <=> (a + n <= u /\ u < a + n + s) \/ \E j \in (1 .. End - 1) \ {k} : In(map, j, u)
    <3>1. PICK c : c = a + n
      OBVIOUS
    <3>2. Room(map, End, k - 1, k + 1, c, s) /\ map' = [map EXCEPT ![k] = Entry(s, c)]
      BY <2>2, <2>3, <2>4, <2>5, <3>1 DEF Room
    <3>3. Shape(map', End) /\ Swapped(map, End, k, c, s, map')
      BY <1>1, <1>5, <3>2, ReplacedShape
    <3> QED
      BY <3>1, <3>3 DEF Swapped
  <2>7. Units(map', End) \subseteq Int /\ \A u \in Int :
           u \in Units(map', End) <=> \E j \in 1 .. End - 1 : In(map', j, u)
    BY <2>6, UnitsIn
  <2>8. \A u \in Int : In(map, k, u) <=> u \in a .. a + n - 1 \/ (a + n <= u /\ u < a + n + s)
    BY <1>1, <1>5, <1>6, <1>7, <2>2 DEF In
  <2>9. \A u \in Int : ~(u \in a .. a + n - 1 /\ a + n <= u)
    BY <1>7
  <2>10. Units(map', End) = Units(map, End) \ (a .. a + n - 1)
    <3>1. \A u \in Int : u \in Units(map', End) <=> u \in Units(map, End) /\ u \notin a .. a + n - 1
      BY <1>5, <1>9, <1>10, <2>6, <2>7, <2>8, <2>9
    <3> QED
      BY <1>9, <2>7, <3>1
  <2>11. ASSUME NEW j \in 1 .. End - 1
         PROVE  \E i \in 1 .. End - 1 : map'[j].m_size <= map[i].m_size
    <3>1. j \in Index /\ map'[j] = IF j = k THEN Entry(s, a + n) ELSE map[j]
      BY <1>1, <2>3
    <3>2. map'[j].m_size <= map[j].m_size
      BY <1>1, <1>7, <2>1, <2>2, <3>1 DEF Entry
    <3> QED
      BY <3>2
  <2> QED
    BY <1>1, <1>5, <1>6, <1>7, <1>8, <2>3, <2>6, <2>10, <2>11
<1> QED
  BY <1>11, <1>12

-----------------------------------------------------------------------------
(* An entry that gets another size.                                        *)
LEMMA Resized ==
  ASSUME NEW m \in [Index -> EntrySet], NEW h \in Index, NEW y \in Nat
  PROVE  [m EXCEPT ![h].m_size = y] = [m EXCEPT ![h] = Entry(y, m[h].m_addr)]
<1>1. m[h] \in EntrySet
  OBVIOUS
<1>2. [m[h] EXCEPT !.m_size = y] = Entry(y, m[h].m_addr)
  BY <1>1 DEF EntrySet, Entry
<1> QED
  BY <1>2

(* rmfree() joins the run to the entry before it.                          *)
LEMMA FreeLeftMap ==
  ASSUME Shape(map, End), mapsize \in Nat, mapsize + End - 1 = MAPSIZ - 2,
         NEW a \in Nat \ {0}, NEW n \in Nat \ {0}, a + n <= N + 1,
         NEW k \in 1 .. End, JoinsLeft(k, a), FreeLeft(k, a, n),
         \A j \in 1 .. k - 1 : map[j].m_addr + map[j].m_size <= a,
         \A j \in k .. End - 1 : a + n <= map[j].m_addr, map[End] = Entry(0, 0)
  PROVE  \E e \in Index :
           /\ Shape(map', e) /\ mapsize' + e - 1 = MAPSIZ - 2 /\ mapsize' \in Nat
           /\ Units(map', e) = Units(map, End) \cup (a .. a + n - 1)
<1> USE RmapAssumption
<1>1. /\ End \in Index /\ map \in [Index -> EntrySet] /\ Index \subseteq Int
      /\ \A i \in 1 .. End - 1 : /\ i \in Index /\ map[i].m_size \in Nat /\ map[i].m_addr \in Nat
                                 /\ Sound(map, i)
  BY DEF Shape, ShapeBut, Index, EntrySet
<1>2. PICK h : h = k - 1
  OBVIOUS
<1>3. h \in 1 .. End - 1 /\ h < k /\ k \in Int /\ h \in Int /\ map[h].m_addr + map[h].m_size = a
  BY <1>1, <1>2 DEF JoinsLeft, Index
<1>4. PICK x : x = map[h].m_addr
  OBVIOUS
<1>5. PICK s : s = map[h].m_size
  OBVIOUS
<1>6. x \in Nat \ {0} /\ s \in Nat \ {0} /\ x + s = a
  BY <1>1, <1>3, <1>4, <1>5 DEF Sound
<1>7. Units(map, End) \subseteq Int /\ \A u \in Int :
         u \in Units(map, End) <=> \E j \in 1 .. End - 1 : In(map, j, u)
  BY UnitsIn
<1>8. \A u \in Int : In(map, h, u) <=> x <= u /\ u < a
  BY <1>4, <1>5, <1>6 DEF In
<1>9. \A j \in 1 .. h - 1 : map[j].m_addr + map[j].m_size < x
  <2> SUFFICES ASSUME NEW j \in 1 .. h - 1 PROVE map[j].m_addr + map[j].m_size < x
    OBVIOUS
  <2>1. j \in 1 .. End - 1 /\ j < h
    BY <1>1, <1>3
  <2>2. Apart(map, j, h)
    BY <1>3, <2>1 DEF Shape, ShapeBut
  <2> QED
    BY <1>4, <2>2 DEF Apart
<1>10. CASE ~(map[k].m_addr # 0 /\ a + n = map[k].m_addr)
  <2>1. map' = [map EXCEPT ![h].m_size = map[h].m_size + n + 0] /\ mapsize' = mapsize
    BY <1>2, <1>10 DEF FreeLeft
  <2>2. map[h].m_size + n + 0 = s + n /\ s + n \in Nat
    BY <1>5, <1>6
  <2>3. PICK t : t = s + n
    OBVIOUS
  <2>4. t \in Nat \ {0} /\ x + t = a + n /\ x + t <= N + 1
    BY <1>6, <2>3
  <2>5. \A j \in h + 1 .. End - 1 : x + t < map[j].m_addr
    <3> SUFFICES ASSUME NEW j \in h + 1 .. End - 1 PROVE x + t < map[j].m_addr
      OBVIOUS
    <3>1. j \in k .. End - 1 /\ j \in 1 .. End - 1 /\ k \in 1 .. End - 1
      BY <1>1, <1>2, <1>3
    <3>2. a + n <= map[k].m_addr /\ a + n # map[k].m_addr
      BY <1>1, <1>10, <3>1 DEF Sound
    <3>3. k < j => Apart(map, k, j)
      BY <3>1 DEF Shape, ShapeBut
    <3> QED
      BY <1>1, <1>3, <2>4, <3>1, <3>2, <3>3 DEF Apart
  <2>6. map' = [map EXCEPT ![h] = Entry(t, x)]
    <3>1. h \in Index
      BY <1>1, <1>3
    <3>2. map' = [map EXCEPT ![h].m_size = t]
      BY <2>1, <2>2, <2>3
    <3> QED
      BY <1>1, <1>4, <2>4, <3>1, <3>2, Resized
  <2>7. /\ Shape(map', End)
        /\ \A u \in Int : (\E j \in 1 .. End - 1 : In(map', j, u))
             <=> (x <= u /\ u < x + t) \/ \E j \in (1 .. End - 1) \ {h} : In(map, j, u)
    <3>1. Room(map, End, h - 1, h + 1, x, t)
      BY <1>6, <1>9, <2>4, <2>5 DEF Room
    <3>2. Shape(map', End) /\ Swapped(map, End, h, x, t, map')
      BY <1>3, <2>6, <3>1, ReplacedShape
    <3> QED
      BY <3>2 DEF Swapped
  <2>8. Units(map', End) \subseteq Int /\ \A u \in Int :
           u \in Units(map', End) <=> \E j \in 1 .. End - 1 : In(map', j, u)
    BY <2>7, UnitsIn
  <2>9. \A u \in Int : (x <= u /\ u < x + t) <=> (x <= u /\ u < a) \/ u \in a .. a + n - 1
    BY <1>6, <2>4
  <2>10. \A u \in Int : u \in Units(map', End) <=> u \in Units(map, End) \/ u \in a .. a + n - 1
    BY <1>3, <1>7, <1>8, <2>7, <2>8, <2>9
  <2>11. Units(map', End) = Units(map, End) \cup (a .. a + n - 1)
    BY <1>7, <2>8, <2>10
  <2> QED
    BY <1>1, <2>1, <2>7, <2>11
<1>11. CASE map[k].m_addr # 0 /\ a + n = map[k].m_addr
  <2>1. k \in 1 .. End - 1
    BY <1>1, <1>11 DEF Entry
  <2>2. PICK z : z = map[k].m_size
    OBVIOUS
  <2>3. PICK t : t = s + n + z
    OBVIOUS
  <2>4. z \in Nat \ {0} /\ t \in Nat \ {0} /\ x + t = map[k].m_addr + z /\ x + t <= N + 1
    BY <1>1, <1>6, <1>11, <2>1, <2>2, <2>3 DEF Sound
  <2>a. PICK l : l = [map EXCEPT ![h].m_size = map[h].m_size + n + map[k].m_size]
    OBVIOUS
  <2>5. map' = Without(l, End, k) /\ mapsize' = mapsize + 1
    BY <1>2, <1>11, <2>a DEF FreeLeft, Closed, Without
  <2>6. l = [map EXCEPT ![h] = Entry(t, x)]
    <3>1. h \in Index /\ map[h].m_size + n + map[k].m_size = t /\ t \in Nat
      BY <1>1, <1>3, <1>5, <2>2, <2>3, <2>4
    <3> QED
      BY <1>1, <1>4, <2>a, <3>1, Resized
  <2>7. /\ l \in [Index -> EntrySet] /\ l[h].m_size = t /\ l[h].m_addr = x
        /\ \A j \in Index \ {h} : l[j] = map[j]
    BY <1>1, <1>3, <1>6, <2>4, <2>6 DEF Entry, EntrySet
  <2>8. \A j \in (1 .. End - 1) \ {h} : l[j] = map[j]
    BY <1>1, <2>7
  <2>9. ShapeBut(l, End, k)
    <3>1. \A j \in (1 .. End - 1) \ {k} : Sound(l, j)
      BY <1>1, <1>6, <2>4, <2>7, <2>8 DEF Sound
    <3>2. ASSUME NEW i \in (1 .. End - 1) \ {k}, NEW j \in (1 .. End - 1) \ {k}, i < j
          PROVE  Apart(l, i, j)
      <4>1. Apart(map, i, j)
        BY <3>2 DEF Shape, ShapeBut
      <4>2. CASE i # h /\ j # h
        BY <2>8, <4>1, <4>2 DEF Apart
      <4>3. CASE j = h
        <5>1. i \in 1 .. h - 1 /\ i # h
          BY <1>3, <3>2, <4>3
        <5> QED
          BY <1>9, <2>7, <2>8, <4>3, <5>1 DEF Apart
      <4>4. CASE i = h
        <5>1. k < j /\ j # h
          BY <1>1, <1>2, <1>3, <3>2, <4>4
        <5>2. Apart(map, k, j)
          BY <2>1, <5>1 DEF Shape, ShapeBut
        <5> QED
          BY <2>2, <2>4, <2>7, <2>8, <4>4, <5>1, <5>2 DEF Apart
      <4> QED
        BY <4>2, <4>3, <4>4
    <3>3. \A j \in End .. MAPSIZ - 1 : l[j] = Entry(0, 0)
      <4> SUFFICES ASSUME NEW j \in End .. MAPSIZ - 1 PROVE l[j] = Entry(0, 0)
        OBVIOUS
      <4>1. j \in Index \ {h} /\ map[j] = Entry(0, 0)
        BY <1>1, <1>3 DEF Shape, ShapeBut, Index
      <4> QED
        BY <2>7, <4>1
    <3> QED
      BY <1>1, <2>7, <3>1, <3>2, <3>3 DEF ShapeBut
  <2>10. /\ Shape(map', End - 1)
         /\ \A u \in Int : (\E j \in 1 .. End - 2 : In(map', j, u))
                              <=> \E j \in (1 .. End - 1) \ {k} : In(l, j, u)
    BY <2>1, <2>5, <2>9, ClosedShape
  <2>11. Units(map', End - 1) \subseteq Int /\ \A u \in Int :
            u \in Units(map', End - 1) <=> \E j \in 1 .. End - 2 : In(map', j, u)
    <3>1. End - 1 - 1 = End - 2
      BY <1>1
    <3> QED
      BY <2>10, <3>1, UnitsIn
  <2>12. \A u \in Int : In(l, h, u) <=> In(map, h, u) \/ u \in a .. a + n - 1 \/ In(map, k, u)
    BY <1>4, <1>5, <1>6, <1>11, <2>2, <2>4, <2>7 DEF In
  <2>13. \A j \in (1 .. End - 1) \ {h} : \A u : In(l, j, u) <=> In(map, j, u)
    BY <2>8 DEF In
  <2>14. h # k
    BY <1>3
  <2>15. \A u \in Int : (\E j \in (1 .. End - 1) \ {k} : In(l, j, u))
            <=> u \in a .. a + n - 1 \/ \E j \in 1 .. End - 1 : In(map, j, u)
    BY <1>3, <2>1, <2>12, <2>13, <2>14
  <2>16. Units(map', End - 1) = Units(map, End) \cup (a .. a + n - 1)
    <3>1. \A u \in Int : u \in Units(map', End - 1) <=> u \in Units(map, End) \/ u \in a .. a + n - 1
      BY <1>7, <2>10, <2>11, <2>15
    <3> QED
      BY <1>7, <2>11, <3>1
  <2>17. mapsize' + (End - 1) - 1 = MAPSIZ - 2 /\ mapsize' \in Nat /\ End - 1 \in Index
    BY <1>1, <2>1, <2>5 DEF Index
  <2> QED
    BY <2>10, <2>16, <2>17
<1> QED
  BY <1>10, <1>11

(* rmfree() joins the run to the entry behind it, or inserts it.           *)
LEMMA FreeRightMap ==
  ASSUME Shape(map, End), mapsize \in Nat, mapsize + End - 1 = MAPSIZ - 2,
         NEW a \in Nat \ {0}, NEW n \in Nat \ {0}, a + n <= N + 1,
         NEW k \in 1 .. End, ~JoinsLeft(k, a), ~Overflow(k, a, n), FreeRight(k, a, n),
         \A j \in 1 .. k - 1 : map[j].m_addr + map[j].m_size <= a,
         \A j \in k .. End - 1 : a + n <= map[j].m_addr,
         k = End <=> map[k].m_size = 0, map[End] = Entry(0, 0)
  PROVE  \E e \in Index :
           /\ Shape(map', e) /\ mapsize' + e - 1 = MAPSIZ - 2 /\ mapsize' \in Nat
           /\ Units(map', e) = Units(map, End) \cup (a .. a + n - 1)
<1> USE RmapAssumption
<1>1. /\ End \in Index /\ map \in [Index -> EntrySet] /\ Index \subseteq Int
      /\ \A i \in 1 .. End - 1 : /\ i \in Index /\ map[i].m_size \in Nat /\ map[i].m_addr \in Nat
                                 /\ Sound(map, i)
  BY SMTT(30) DEF Shape, ShapeBut, Index, EntrySet
<1>2. Units(map, End) \subseteq Int /\ \A u \in Int :
         u \in Units(map, End) <=> \E j \in 1 .. End - 1 : In(map, j, u)
  BY UnitsIn
<1>3. \A j \in 1 .. k - 1 : map[j].m_addr + map[j].m_size < a
  <2> SUFFICES ASSUME NEW j \in 1 .. k - 1 PROVE map[j].m_addr + map[j].m_size < a
    OBVIOUS
  <2>1. j \in 1 .. End - 1 /\ k - 1 \in 1 .. End - 1 /\ k > 1
    BY <1>1
  <2>2. map[k - 1].m_addr + map[k - 1].m_size <= a /\ map[k - 1].m_addr + map[k - 1].m_size # a
    BY <2>1 DEF JoinsLeft
  <2>3. j < k - 1 => Apart(map, j, k - 1)
    BY <2>1 DEF Shape, ShapeBut
  <2> QED
    BY <1>1, <2>1, <2>2, <2>3 DEF Apart
<1>4. CASE a + n = map[k].m_addr /\ map[k].m_size # 0
  <2>1. k \in 1 .. End - 1
    BY <1>1, <1>4
  <2>2. PICK t : t = map[k].m_size + n
    OBVIOUS
  <2>3. t \in Nat \ {0} /\ a + t = map[k].m_addr + map[k].m_size /\ a + t <= N + 1
    BY <1>1, <1>4, <2>1, <2>2 DEF Sound
  <2>4. map' = [map EXCEPT ![k] = Entry(t, a)] /\ mapsize' = mapsize
    BY <1>4, <2>2 DEF FreeRight
  <2>5. \A j \in k + 1 .. End - 1 : a + t < map[j].m_addr
    <3> SUFFICES ASSUME NEW j \in k + 1 .. End - 1 PROVE a + t < map[j].m_addr
      OBVIOUS
    <3>1. j \in 1 .. End - 1 /\ k < j
      BY <1>1
    <3>2. Apart(map, k, j)
      BY <2>1, <3>1 DEF Shape, ShapeBut
    <3> QED
      BY <2>3, <3>2 DEF Apart
  <2>6. /\ Shape(map', End)
        /\ \A u \in Int : (\E j \in 1 .. End - 1 : In(map', j, u))
             <=> (a <= u /\ u < a + t) \/ \E j \in (1 .. End - 1) \ {k} : In(map, j, u)
    <3>1. Room(map, End, k - 1, k + 1, a, t)
      BY <1>3, <2>3, <2>5 DEF Room
    <3>2. Shape(map', End) /\ Swapped(map, End, k, a, t, map')
      BY <2>1, <2>4, <3>1, ReplacedShape
    <3> QED
      BY <3>2 DEF Swapped
  <2>7. Units(map', End) \subseteq Int /\ \A u \in Int :
           u \in Units(map', End) <=> \E j \in 1 .. End - 1 : In(map', j, u)
    BY <2>6, UnitsIn
  <2>8. \A u \in Int : (a <= u /\ u < a + t) <=> u \in a .. a + n - 1 \/ In(map, k, u)
    BY <1>1, <1>4, <2>1, <2>3 DEF In
  <2>9. \A u \in Int : u \in Units(map', End) <=> u \in Units(map, End) \/ u \in a .. a + n - 1
    BY <1>2, <2>1, <2>6, <2>7, <2>8
  <2>10. Units(map', End) = Units(map, End) \cup (a .. a + n - 1)
    BY <1>2, <2>7, <2>9
  <2> QED
    BY <1>1, <2>4, <2>6, <2>10
<1>5. CASE ~(a + n = map[k].m_addr /\ map[k].m_size # 0)
  <2>1. mapsize # 0
    BY <1>5 DEF Overflow
  <2>2. /\ mapsize' = mapsize - 1
        /\ map' = With(map, End, k, Entry(n, a))
    BY <1>5, <2>1 DEF FreeRight, Opened, With
  <2>3. End + 1 \in Index
    BY <1>1, <2>1 DEF Index
  <2>4. \A j \in k .. End - 1 : a + n < map[j].m_addr
    <3> SUFFICES ASSUME NEW j \in k .. End - 1 PROVE a + n < map[j].m_addr
      OBVIOUS
    <3>1. k \in 1 .. End - 1 /\ j \in 1 .. End - 1
      BY <1>1
    <3>2. a + n # map[k].m_addr /\ a + n <= map[k].m_addr
      BY <1>1, <1>5, <3>1
    <3>3. k < j => Apart(map, k, j)
      BY <3>1 DEF Shape, ShapeBut
    <3> QED
      BY <1>1, <3>1, <3>2, <3>3 DEF Apart
  <2>5. /\ Shape(map', End + 1)
        /\ \A u \in Int : (\E j \in 1 .. End : In(map', j, u))
             <=> (a <= u /\ u < a + n) \/ \E j \in 1 .. End - 1 : In(map, j, u)
    <3>1. Room(map, End, k - 1, k, a, n)
      BY <1>3, <2>4 DEF Room
    <3> QED
      BY <2>2, <2>3, <3>1, OpenedShape
  <2>6. Units(map', End + 1) \subseteq Int /\ \A u \in Int :
           u \in Units(map', End + 1) <=> \E j \in 1 .. End : In(map', j, u)
    <3>1. PICK e : e = End + 1
      OBVIOUS
    <3>2. Shape(map', e) /\ e - 1 = End
      BY <1>1, <2>5, <3>1
    <3>3. Units(map', e) \subseteq 1 .. N /\ \A u \in Int :
             u \in Units(map', e) <=> \E j \in 1 .. e - 1 : In(map', j, u)
      BY <3>2, UnitsIn
    <3> QED
      BY <3>1, <3>2, <3>3
  <2>7. \A u \in Int : (a <= u /\ u < a + n) <=> u \in a .. a + n - 1
    OBVIOUS
  <2>8. \A u \in Int : u \in Units(map', End + 1) <=> u \in Units(map, End) \/ u \in a .. a + n - 1
    BY <1>2, <2>5, <2>6, <2>7
  <2>9. Units(map', End + 1) = Units(map, End) \cup (a .. a + n - 1)
    BY <1>2, <2>6, <2>8
  <2>10. mapsize' + (End + 1) - 1 = MAPSIZ - 2 /\ mapsize' \in Nat
    BY <1>1, <2>1, <2>2
  <2> QED
    BY <2>3, <2>5, <2>9, <2>10
<1> QED
  BY <1>4, <1>5

-----------------------------------------------------------------------------
(* A run that is held is in no entry, and overlaps no other.               *)
LEMMA HeldRun ==
  ASSUME MapInv, NEW b \in held
  PROVE  /\ b = <<b[1], b[2]>> /\ b[1] \in Nat \ {0} /\ b[2] \in Nat \ {0} /\ b[1] + b[2] <= N + 1
         /\ (b[1] .. b[1] + b[2] - 1) \cap Units(map, End) = {}
         /\ \A c \in held \ {b} : (b[1] .. b[1] + b[2] - 1) \cap (c[1] .. c[1] + c[2] - 1) = {}
<1>1. FreeUnits = Units(map, End)
  BY DEF FreeUnits, Units
<1>2. HeldOK
  BY DEF MapInv
<1> QED
  BY <1>1, <1>2 DEF HeldOK, Pool!Disjoint, Pool!Run

(* rmfree() gives all units of the run back, or loses them when the array  *)
(* is full and the run touches no entry.                                   *)
LEMMA FreeMap ==
  ASSUME MapInv, NEW b \in held, rmfree(b[1], b[2])
  PROVE  /\ held' = held \ {b}
         /\ \/ /\ \E e \in Index :
                    /\ Shape(map', e) /\ mapsize' + e - 1 = MAPSIZ - 2 /\ mapsize' \in Nat
                    /\ Units(map', e) = Units(map, End) \cup (b[1] .. b[1] + b[2] - 1)
               /\ IF mapwant THEN mapwant' = FALSE /\ waiting' = {}
                             ELSE UNCHANGED <<mapwant, waiting>>
            \/ /\ UNCHANGED <<map, mapsize, mapwant, waiting>> /\ mapsize = 0
               /\ b[1] - 1 \notin Units(map, End) /\ b[1] + b[2] \notin Units(map, End)
<1> USE RmapAssumption
<1>1. PICK a : a = b[1]
  OBVIOUS
<1>2. PICK n : n = b[2]
  OBVIOUS
<1>3. /\ b = <<a, n>> /\ a \in Nat \ {0} /\ n \in Nat \ {0} /\ a + n <= N + 1
      /\ (a .. a + n - 1) \cap Units(map, End) = {}
  BY <1>1, <1>2, HeldRun
<1>4. PICK k : k = Place(a)
  OBVIOUS
<1>5. Shape(map, End) /\ mapsize \in Nat /\ mapsize + End - 1 = MAPSIZ - 2 /\ mapwant \in BOOLEAN
  BY DEF MapInv
<1>6. /\ k \in 1 .. End
      /\ \A j \in 1 .. k - 1 : map[j].m_addr + map[j].m_size <= a
      /\ \A j \in k .. End - 1 : a + n <= map[j].m_addr
      /\ k = End <=> map[k].m_size = 0
      /\ map[End] = Entry(0, 0)
  <2>1. \A u \in a .. a + n - 1 : u \notin Units(map, End)
    BY <1>3
  <2> QED
    BY <1>3, <1>4, <1>5, <2>1, PlaceIs
<1>7. /\ IF JoinsLeft(k, a) THEN FreeLeft(k, a, n) ELSE FreeRight(k, a, n)
      /\ held' = held \ {<<a, n>>}
      /\ IF mapwant /\ ~Overflow(k, a, n)
           THEN mapwant' = FALSE /\ waiting' = {}
           ELSE UNCHANGED <<mapwant, waiting>>
  BY <1>1, <1>2, <1>4 DEF rmfree, Wakes
<1>8. CASE JoinsLeft(k, a)
  <2>1. FreeLeft(k, a, n) /\ ~Overflow(k, a, n)
    BY <1>7, <1>8 DEF Overflow
  <2>2. \E e \in Index :
          /\ Shape(map', e) /\ mapsize' + e - 1 = MAPSIZ - 2 /\ mapsize' \in Nat
          /\ Units(map', e) = Units(map, End) \cup (a .. a + n - 1)
    BY <1>3, <1>5, <1>6, <1>8, <2>1, FreeLeftMap
  <2> QED
    BY <1>1, <1>2, <1>3, <1>7, <2>1, <2>2
<1>9. CASE ~JoinsLeft(k, a) /\ ~Overflow(k, a, n)
  <2>1. FreeRight(k, a, n)
    BY <1>7, <1>9
  <2>2. \E e \in Index :
          /\ Shape(map', e) /\ mapsize' + e - 1 = MAPSIZ - 2 /\ mapsize' \in Nat
          /\ Units(map', e) = Units(map, End) \cup (a .. a + n - 1)
    BY <1>3, <1>5, <1>6, <1>9, <2>1, FreeRightMap
  <2> QED
    BY <1>1, <1>2, <1>3, <1>7, <1>9, <2>2
<1>10. CASE Overflow(k, a, n)
  <2>1. /\ mapsize = 0 /\ UNCHANGED <<map, mapsize, mapwant, waiting>>
        /\ ~JoinsLeft(k, a) /\ ~(a + n = map[k].m_addr /\ map[k].m_size # 0)
    BY <1>7, <1>10 DEF Overflow, FreeRight
  <2>2. /\ End \in Index /\ Index \subseteq Int
        /\ \A i \in 1 .. End - 1 : /\ i \in Index /\ map[i].m_size \in Nat /\ map[i].m_addr \in Nat
                                   /\ Sound(map, i)
    BY <1>5 DEF Shape, ShapeBut, Index, EntrySet
  <2>3. \A u \in Int : u \in Units(map, End) <=> \E j \in 1 .. End - 1 : In(map, j, u)
    BY <1>5, UnitsIn
  <2>4. ASSUME NEW j \in 1 .. End - 1, In(map, j, a - 1) PROVE FALSE
    <3>1. j \in 1 .. k - 1 /\ k > 1 /\ k - 1 \in 1 .. End - 1
      BY <1>3, <1>6, <2>2, <2>4 DEF In
    <3>2. map[j].m_addr + map[j].m_size = a
      BY <1>3, <1>6, <2>2, <2>4, <3>1 DEF In
    <3>3. j # k - 1
      BY <2>1, <3>1, <3>2 DEF JoinsLeft
    <3>4. Apart(map, j, k - 1)
      BY <1>5, <1>6, <2>2, <3>1, <3>3 DEF Shape, ShapeBut
    <3>5. map[k - 1].m_addr + map[k - 1].m_size <= a
      BY <1>6, <2>2, <3>1
    <3> QED
      BY <1>3, <2>2, <3>1, <3>2, <3>4, <3>5 DEF Apart
  <2>5. ASSUME NEW j \in 1 .. End - 1, In(map, j, a + n) PROVE FALSE
    <3>1. j \in k .. End - 1 /\ k \in 1 .. End - 1
      BY <1>3, <1>6, <2>2, <2>5 DEF In
    <3>2. map[j].m_addr = a + n
      BY <1>3, <1>6, <2>2, <2>5, <3>1 DEF In
    <3>3. j # k
      BY <2>1, <2>2, <3>1, <3>2 DEF Sound
    <3>4. Apart(map, k, j)
      BY <1>5, <1>6, <2>2, <3>1, <3>3 DEF Shape, ShapeBut
    <3>5. a + n <= map[k].m_addr
      BY <1>6, <2>2, <3>1
    <3> QED
      BY <1>3, <2>2, <3>1, <3>2, <3>4, <3>5 DEF Apart
  <2>6. a - 1 \in Int /\ a + n \in Int
    BY <1>3
  <2>7. a - 1 \notin Units(map, End) /\ a + n \notin Units(map, End)
    BY <2>3, <2>4, <2>5, <2>6
  <2> QED
    BY <1>1, <1>2, <1>3, <1>7, <2>1, <2>7
<1> QED
  BY <1>8, <1>9, <1>10

-----------------------------------------------------------------------------
(* mapinit(), and rmfree() of all the units.                               *)
LEMMA InitMap == Init => MapInv
<1> SUFFICES ASSUME Init PROVE MapInv
  OBVIOUS
<1> USE RmapAssumption
<1>1. /\ map \in [Index -> EntrySet] /\ 2 \in Index /\ 1 \in Index /\ map[1] = Entry(N, 1)
      /\ \A k \in 2 .. MAPSIZ - 1 : map[k] = Entry(0, 0)
  BY DEF Init, Index, Entry, EntrySet
<1>2. Shape(map, 2)
  BY <1>1 DEF Shape, ShapeBut, Sound, Apart, Entry
<1>3. End = 2
  BY <1>2, EndIs DEF End
<1>4. HeldOK /\ WaitInv
  BY DEF Init, HeldOK, WaitInv, Pool!Disjoint
<1> QED
  <2>1. mapsize \in Nat /\ mapsize + 2 - 1 = MAPSIZ - 2
    BY DEF Init
  <2>2. mapwant \in BOOLEAN
    BY DEF Init
  <2> QED
    BY <1>2, <1>3, <1>4, <2>1, <2>2 DEF MapInv

(* What is held after a step, when the units that are free are U.          *)
LEMMA HeldKept ==
  ASSUME NEW e, Shape(map', e),
         \A b \in held' : b \in Nat \X Nat /\ b[1] > 0 /\ b[2] > 0 /\ b[1] + b[2] <= N + 1,
         \A b \in held' : (b[1] .. b[1] + b[2] - 1) \cap Units(map', e) = {},
         \A b, c \in held' : b # c => (b[1] .. b[1] + b[2] - 1) \cap (c[1] .. c[1] + c[2] - 1) = {}
  PROVE  HeldOK' /\ End' = e /\ FreeUnits' = Units(map', e)
<1>1. End' = e
  BY NextEnd
<1>2. FreeUnits' = Units(map', e)
  BY <1>1 DEF FreeUnits, Units
<1> QED
  BY <1>1, <1>2 DEF HeldOK, Pool!Disjoint, Pool!Run

(* rmalloc() keeps the invariant.                                          *)
LEMMA AllocKeeps ==
  ASSUME MapInv, NEW n \in Sizes, rmalloc(n)
  PROVE  /\ MapInv'
         /\ \E k \in 1 .. End - 1, a \in 1 .. N :
              /\ a = map[k].m_addr /\ a + n <= map[k].m_addr + map[k].m_size
              /\ \A j \in 1 .. End - 1 : map[j].m_size >= n => k <= j
              /\ FreeUnits' = FreeUnits \ (a .. a + n - 1)
              /\ held' = held \cup {<<a, n>>}
<1> USE RmapAssumption
<1>1. n \in Nat \ {0}
  OBVIOUS
<1>2. PICK k \in 1 .. End - 1, e \in Index, a \in 1 .. N :
           /\ a = map[k].m_addr /\ a + n <= map[k].m_addr + map[k].m_size
           /\ \A j \in 1 .. End - 1 : map[j].m_size >= n => k <= j
           /\ Shape(map', e) /\ mapsize' + e - 1 = MAPSIZ - 2 /\ mapsize' \in Nat
           /\ Units(map', e) = Units(map, End) \ (a .. a + n - 1)
           /\ \A j \in 1 .. e - 1 : \E i \in 1 .. End - 1 : map'[j].m_size <= map[i].m_size
           /\ held' = held \cup {<<a, n>>} /\ UNCHANGED <<mapwant, waiting>>
  BY <1>1, AllocMap
<1>3. Shape(map, End) /\ FreeUnits = Units(map, End)
  BY DEF MapInv, FreeUnits, Units
<1>4. /\ End \in Index /\ Index \subseteq Int /\ map[k].m_size \in Nat /\ map[k].m_addr \in Nat
      /\ Sound(map, k) /\ \A i \in 1 .. End - 1 : map[i].m_size \in Nat
  BY <1>2, <1>3, Entries
<1>5. a .. a + n - 1 \subseteq Units(map, End)
  <2> SUFFICES ASSUME NEW u \in a .. a + n - 1 PROVE u \in Units(map, End)
    OBVIOUS
  <2>1. u \in Int /\ In(map, k, u)
    BY <1>1, <1>2, <1>4 DEF In
  <2> QED
    BY <1>2, <1>3, <2>1, UnitsIn
<1>6. \A b \in held' : b \in Nat \X Nat /\ b[1] > 0 /\ b[2] > 0 /\ b[1] + b[2] <= N + 1
  <2>1. \A b \in held : b \in Nat \X Nat /\ b[1] > 0 /\ b[2] > 0 /\ b[1] + b[2] <= N + 1
    BY DEF MapInv, HeldOK
  <2>2. a + n <= N + 1 /\ a \in Nat /\ a > 0
    BY <1>1, <1>2, <1>4 DEF Sound
  <2> QED
    BY <1>1, <1>2, <2>1, <2>2
<1>7. \A b \in held' : (b[1] .. b[1] + b[2] - 1) \cap Units(map', e) = {}
  <2> SUFFICES ASSUME NEW b \in held' PROVE (b[1] .. b[1] + b[2] - 1) \cap Units(map', e) = {}
    OBVIOUS
  <2>1. CASE b \in held
    <3>1. (b[1] .. b[1] + b[2] - 1) \cap Units(map, End) = {}
      BY <2>1, HeldRun
    <3> QED
      BY <1>2, <3>1
  <2>2. CASE b = <<a, n>>
    BY <1>2, <2>2
  <2> QED
    BY <1>2, <2>1, <2>2
<1>8. ASSUME NEW b \in held', NEW c \in held', b # c
      PROVE  (b[1] .. b[1] + b[2] - 1) \cap (c[1] .. c[1] + c[2] - 1) = {}
  <2>1. CASE b \in held /\ c \in held
    BY <1>8, <2>1, HeldRun
  <2>2. ASSUME NEW d \in held PROVE (a .. a + n - 1) \cap (d[1] .. d[1] + d[2] - 1) = {}
    <3>1. (d[1] .. d[1] + d[2] - 1) \cap Units(map, End) = {}
      BY HeldRun
    <3> QED
      BY <1>5, <3>1
  <2>3. CASE b = <<a, n>> /\ c \in held
    BY <2>2, <2>3
  <2>4. CASE c = <<a, n>> /\ b \in held
    BY <2>2, <2>4
  <2> QED
    BY <1>2, <1>8, <2>1, <2>3, <2>4
<1>9. HeldOK' /\ End' = e /\ FreeUnits' = Units(map', e)
  BY <1>2, <1>6, <1>7, <1>8, HeldKept
<1>10. WaitInv'
  <2> SUFFICES ASSUME NEW x \in waiting', NEW j \in 1 .. e - 1
               PROVE  x \in Nat \ {0} /\ mapwant' /\ map'[j].m_size < x
    <3>1. \A x \in waiting' : x \in Nat \ {0} /\ mapwant'
      BY <1>2 DEF MapInv, WaitInv
    <3> QED
      BY <1>9, <3>1 DEF WaitInv
  <2>1. x \in Nat \ {0} /\ mapwant /\ \A i \in 1 .. End - 1 : map[i].m_size < x
    BY <1>2 DEF MapInv, WaitInv
  <2>2. PICK i \in 1 .. End - 1 : map'[j].m_size <= map[i].m_size
    BY <1>2
  <2>3. map'[j].m_size \in Nat
    BY <1>2, SMTT(30) DEF Shape, ShapeBut, Index, EntrySet
  <2> QED
    BY <1>2, <1>4, <2>1, <2>2, <2>3
<1>11. MapInv'
  BY <1>2, <1>9, <1>10 DEF MapInv
<1> QED
  BY <1>2, <1>3, <1>9, <1>11

(* So does rmfree().                                                       *)
LEMMA FreeKeeps ==
  ASSUME MapInv, NEW b \in held, rmfree(b[1], b[2])
  PROVE  /\ MapInv' /\ held' = held \ {b}
         /\ \/ FreeUnits' = FreeUnits \cup (b[1] .. b[1] + b[2] - 1)
            \/ /\ FreeUnits' = FreeUnits /\ mapsize = 0
               /\ b[1] - 1 \notin FreeUnits /\ b[1] + b[2] \notin FreeUnits
<1>1. Shape(map, End) /\ FreeUnits = Units(map, End)
  BY DEF MapInv, FreeUnits, Units
<1>2. held' = held \ {b}
  BY FreeMap
<1>3. \A c \in held' : c \in Nat \X Nat /\ c[1] > 0 /\ c[2] > 0 /\ c[1] + c[2] <= N + 1
  BY <1>2 DEF MapInv, HeldOK
<1>4. \A c, d \in held' : c # d => (c[1] .. c[1] + c[2] - 1) \cap (d[1] .. d[1] + d[2] - 1) = {}
  BY <1>2, HeldRun
<1>5. ASSUME NEW e \in Index, Shape(map', e), mapsize' + e - 1 = MAPSIZ - 2, mapsize' \in Nat,
             Units(map', e) = Units(map, End) \cup (b[1] .. b[1] + b[2] - 1),
             IF mapwant THEN mapwant' = FALSE /\ waiting' = {} ELSE UNCHANGED <<mapwant, waiting>>
      PROVE  MapInv' /\ FreeUnits' = FreeUnits \cup (b[1] .. b[1] + b[2] - 1)
  <2>1. ASSUME NEW c \in held' PROVE (c[1] .. c[1] + c[2] - 1) \cap Units(map', e) = {}
    <3>1. c \in held /\ c # b
      BY <1>2
    <3>2. /\ (c[1] .. c[1] + c[2] - 1) \cap Units(map, End) = {}
          /\ (c[1] .. c[1] + c[2] - 1) \cap (b[1] .. b[1] + b[2] - 1) = {}
      BY <3>1, HeldRun
    <3> QED
      BY <1>5, <3>2
  <2>2. HeldOK' /\ End' = e /\ FreeUnits' = Units(map', e)
    BY <1>3, <1>4, <1>5, <2>1, HeldKept
  <2>3. waiting' = {}
    BY <1>5 DEF MapInv, WaitInv
  <2>4. mapwant' \in BOOLEAN
    BY <1>5 DEF MapInv
  <2> QED
    BY <1>1, <1>5, <2>2, <2>3, <2>4 DEF MapInv, WaitInv
<1>6. ASSUME UNCHANGED <<map, mapsize, mapwant, waiting>>
      PROVE  MapInv' /\ FreeUnits' = FreeUnits
  <2>1. Shape(map', End)
    BY <1>1, <1>6
  <2>2. \A c \in held' : (c[1] .. c[1] + c[2] - 1) \cap Units(map', End) = {}
    BY <1>2, <1>6, HeldRun
  <2>3. HeldOK' /\ End' = End /\ FreeUnits' = Units(map', End)
    BY <1>3, <1>4, <2>1, <2>2, HeldKept
  <2> QED
    BY <1>1, <1>6, <2>3 DEF MapInv, WaitInv
<1> QED
  BY <1>1, <1>2, <1>5, <1>6, FreeMap

(* Every step keeps the invariant.                                         *)
LEMMA NextMap ==
  ASSUME MapInv, [Next]_vars
  PROVE  MapInv'
<1> USE RmapAssumption
<1>1. ASSUME NEW n \in Sizes, rmallocFail(n) PROVE MapInv'
  <2>1. UNCHANGED <<map, mapsize, held>> /\ End' = End
    BY <1>1 DEF rmallocFail, End
  <2>2. HeldOK'
    BY <2>1 DEF MapInv, HeldOK, Pool!Disjoint, Pool!Run, FreeUnits
  <2>3. \A k \in 1 .. End - 1 : map[k].m_size \in Nat
    BY DEF MapInv, Shape, ShapeBut, Index, EntrySet
  <2>4. WaitInv'
    BY <1>1, <2>1, <2>3 DEF MapInv, WaitInv, rmallocFail, Enough
  <2> QED
    BY <1>1, <2>1, <2>2, <2>4 DEF MapInv, rmallocFail
<1>2. CASE UNCHANGED vars
  <2>1. UNCHANGED <<map, mapsize, mapwant, held, waiting>>
    BY <1>2 DEF vars
  <2> QED
    BY <2>1 DEF MapInv, End, HeldOK, Pool!Disjoint, Pool!Run, FreeUnits, WaitInv
<1> QED
  BY <1>1, <1>2, AllocKeeps, FreeKeeps DEF Next

(* The array and what is held, for any units, array and sizes.             *)
THEOREM MapCorrect == Spec => []MapInv
BY InitMap, NextMap, PTL DEF Spec

(* The array stays as rmalloc() and rmfree() expect it: the ASSERTs of     *)
(* os/malloc.c hold, the end stays within the array, and mapsize counts    *)
(* the entries that are left.                                              *)
THEOREM CanonicalAlways == Spec => []MapCanonical
<1>1. MapInv => MapCanonical
  <2> SUFFICES ASSUME MapInv PROVE MapCanonical
    OBVIOUS
  <2>1. Shape(map, End) /\ End \in Index /\ Index \subseteq Int
    BY RmapAssumption DEF MapInv, Shape, ShapeBut, Index
  <2>2. \E k \in Index : map[k].m_size = 0
    BY <2>1, RmapAssumption DEF Shape, ShapeBut, Index, Entry
  <2>3. ASSUME NEW k \in 1 .. End - 2 PROVE map[k].m_addr + map[k].m_size < map[k + 1].m_addr
    <3>1. k \in 1 .. End - 1 /\ k + 1 \in 1 .. End - 1 /\ k < k + 1
      BY <2>1
    <3>2. Apart(map, k, k + 1)
      BY <2>1, <3>1 DEF Shape, ShapeBut
    <3> QED
      BY <3>2 DEF Apart
  <2> QED
    BY <2>1, <2>2, <2>3 DEF MapInv, MapCanonical, Shape, ShapeBut
<1> QED
  BY <1>1, MapCorrect, PTL

(* Whoever sleeps for units could not have them: no wakeup of rmfree() is  *)
(* lost.                                                                   *)
THEOREM WaitersAlways == Spec => []WaitersBlocked
<1>1. MapInv => WaitersBlocked
  <2> SUFFICES ASSUME MapInv, NEW n \in waiting
               PROVE  /\ mapwant
                      /\ \A a \in 1 .. N : ~(a + n - 1 <= N /\ a .. a + n - 1 \subseteq FreeUnits)
    BY DEF WaitersBlocked
  <2>1. Shape(map, End) /\ FreeUnits = Units(map, End)
    BY DEF MapInv, FreeUnits, Units
  <2>2. n \in Nat \ {0} /\ mapwant /\ \A k \in 1 .. End - 1 : map[k].m_size < n
    BY DEF MapInv, WaitInv
  <2>3. \A k \in 1 .. End - 1 : map[k].m_size \in Nat /\ map[k].m_addr \in Nat
    BY <2>1, Entries
  <2>4. ASSUME NEW a \in 1 .. N, a .. a + n - 1 \subseteq FreeUnits PROVE FALSE
    <3>1. a \in Int /\ n \in Nat \ {0}
      BY <2>2, <2>4, RmapAssumption
    <3>2. PICK k \in 1 .. End - 1 : map[k].m_addr <= a /\ a + n <= map[k].m_addr + map[k].m_size
      BY <2>1, <2>4, <3>1, OneEntry
    <3> QED
      BY <2>2, <2>3, <3>1, <3>2
  <2> QED
    BY <2>2, <2>4
<1> QED
  BY <1>1, MapCorrect, PTL

(* No unit is given out twice, or is free and given out at the same time.  *)
THEOREM NoUnitTwice == Spec => []Pool!Disjoint
<1>1. MapInv => Pool!Disjoint
  BY DEF MapInv, HeldOK
<1> QED
  BY <1>1, MapCorrect, PTL

-----------------------------------------------------------------------------
(* There are as many runs of free units as there are entries.              *)
LEMMA RunsOfUnits ==
  ASSUME NEW m, NEW e, Shape(m, e)
  PROVE  Cardinality({u \in Units(m, e) : u - 1 \notin Units(m, e)}) = e - 1
<1> USE RmapAssumption
<1> DEFINE S == 1 .. e - 1
           T == {u \in Units(m, e) : u - 1 \notin Units(m, e)}
           f == [k \in S |-> m[k].m_addr]
<1>1. /\ e \in Index /\ Index \subseteq Int
      /\ \A k \in S : k \in Int /\ m[k].m_size \in Nat /\ m[k].m_addr \in Nat /\ Sound(m, k)
  BY Entries
<1>2. /\ Units(m, e) \subseteq Int
      /\ \A u \in Int : u \in Units(m, e) <=> \E k \in S : In(m, k, u)
  BY UnitsIn
<1>3. \A j, k \in S : j < k => Apart(m, j, k)
  BY DEF Shape, ShapeBut
<1>4. ASSUME NEW k \in S PROVE m[k].m_addr \in T
  <2>1. PICK x : x = m[k].m_addr
    OBVIOUS
  <2>2. x \in Nat /\ x - 1 \in Int /\ In(m, k, x)
    BY <1>1, <2>1 DEF In, Sound
  <2>3. ASSUME NEW j \in S, In(m, j, x - 1) PROVE FALSE
    <3>1. (j < k => Apart(m, j, k)) /\ (k < j => Apart(m, k, j))
      BY <1>3
    <3> QED
      BY <1>1, <2>1, <2>2, <2>3, <3>1 DEF In, Apart
  <2> QED
    BY <1>2, <2>1, <2>2, <2>3
<1>5. ASSUME NEW u \in T PROVE \E k \in S : m[k].m_addr = u
  <2>1. u \in Int /\ u - 1 \in Int /\ u \in Units(m, e) /\ u - 1 \notin Units(m, e)
    BY <1>2
  <2>2. PICK k \in S : In(m, k, u)
    BY <1>2, <2>1
  <2>3. ~In(m, k, u - 1)
    BY <1>2, <2>1
  <2> QED
    BY <1>1, <2>1, <2>2, <2>3 DEF In
<1>6. ASSUME NEW j \in S, NEW k \in S, m[j].m_addr = m[k].m_addr PROVE j = k
  <2>1. (j < k => Apart(m, j, k)) /\ (k < j => Apart(m, k, j))
    BY <1>3
  <2> QED
    BY <1>1, <1>6, <2>1 DEF Apart
<1> HIDE DEF S, T
<1>7. f \in [S -> T] /\ \A k \in S : f[k] = m[k].m_addr
  BY <1>4
<1> HIDE DEF f
<1>8. f \in Bijection(S, T)
  <2>1. f \in Injection(S, T)
    BY <1>6, <1>7 DEF Injection, IsInjective
  <2>2. f \in Surjection(S, T)
    BY <1>5, <1>7 DEF Surjection
  <2> QED
    BY <2>1, <2>2 DEF Bijection
<1>9. IsFiniteSet(S) /\ Cardinality(S) = e - 1
  <2>1. e \in Int /\ e - 1 \in Int /\ e >= 1
    BY <1>1 DEF Index
  <2>2. IsFiniteSet(S) /\ Cardinality(S) = IF 1 > e - 1 THEN 0 ELSE (e - 1) - 1 + 1
    BY <2>1, FS_Interval DEF S
  <2> QED
    BY <2>1, <2>2
<1>10. ExistsBijection(S, T)
  BY <1>8 DEF ExistsBijection
<1>11. Cardinality(T) = Cardinality(S)
  BY <1>9, <1>10, FS_Bijection
<1> QED
  BY <1>9, <1>11 DEF T

(* rmalloc() takes the first run of free units that is long enough.        *)
LEMMA AllocImplements ==
  ASSUME MapInv, NEW n \in Sizes, rmalloc(n)
  PROVE  Pool!Alloc(n)
<1> USE RmapAssumption
<1>1. PICK k \in 1 .. End - 1, a \in 1 .. N :
              /\ a = map[k].m_addr /\ a + n <= map[k].m_addr + map[k].m_size
              /\ \A j \in 1 .. End - 1 : map[j].m_size >= n => k <= j
              /\ FreeUnits' = FreeUnits \ (a .. a + n - 1)
              /\ held' = held \cup {<<a, n>>}
  BY AllocKeeps
<1>2. Shape(map, End) /\ FreeUnits = Units(map, End) /\ n \in Nat \ {0}
  BY DEF MapInv, FreeUnits, Units
<1>3. /\ End \in Index /\ Index \subseteq Int
      /\ \A i \in 1 .. End - 1 : /\ i \in Int /\ map[i].m_size \in Nat /\ map[i].m_addr \in Nat
                                 /\ Sound(map, i)
  BY <1>2, Entries
<1>4. a + n - 1 <= N /\ a .. a + n - 1 \subseteq FreeUnits
  <2>1. a + n - 1 <= N
    BY <1>1, <1>2, <1>3 DEF Sound
  <2>2. ASSUME NEW u \in a .. a + n - 1 PROVE u \in FreeUnits
    <3>1. u \in Int /\ In(map, k, u)
      BY <1>1, <1>2, <1>3 DEF In
    <3> QED
      BY <1>1, <1>2, <3>1, UnitsIn
  <2> QED
    BY <2>1, <2>2
<1>5. ASSUME NEW b \in 1 .. N, b < a, b .. b + n - 1 \subseteq FreeUnits PROVE FALSE
  <2>1. b \in Int
    OBVIOUS
  <2>2. PICK j \in 1 .. End - 1 : map[j].m_addr <= b /\ b + n <= map[j].m_addr + map[j].m_size
    BY <1>2, <1>5, <2>1, OneEntry
  <2>3. map[j].m_size >= n
    BY <1>2, <1>3, <2>1, <2>2
  <2>4. k <= j
    BY <1>1, <2>3
  <2>5. k < j => Apart(map, k, j)
    BY <1>2 DEF Shape, ShapeBut
  <2> QED
    BY <1>1, <1>2, <1>3, <1>5, <2>1, <2>2, <2>4, <2>5 DEF Apart
<1>6. Pool!Fits(a, n) /\ \A b \in Pool!Unit : b < a => ~Pool!Fits(b, n)
  BY <1>4, <1>5 DEF Pool!Fits, Pool!Run, Pool!Unit
<1>7. a \in Pool!Unit /\ FreeUnits' = FreeUnits \ Pool!Run(<<a, n>>)
  BY <1>1 DEF Pool!Unit, Pool!Run
<1> QED
  BY <1>1, <1>6, <1>7 DEF Pool!Alloc

(* rmfree() gives a run back, or loses it when there is no room for it.    *)
LEMMA FreeImplements ==
  ASSUME MapInv, NEW b \in held, rmfree(b[1], b[2])
  PROVE  Pool!Free(b)
<1>1. /\ held' = held \ {b}
      /\ \/ FreeUnits' = FreeUnits \cup (b[1] .. b[1] + b[2] - 1)
         \/ /\ FreeUnits' = FreeUnits /\ mapsize = 0
            /\ b[1] - 1 \notin FreeUnits /\ b[1] + b[2] \notin FreeUnits
  BY FreeKeeps
<1>2. CASE FreeUnits' = FreeUnits \cup (b[1] .. b[1] + b[2] - 1)
  BY <1>1, <1>2 DEF Pool!Free, Pool!Run
<1>3. CASE /\ FreeUnits' = FreeUnits /\ mapsize = 0
           /\ b[1] - 1 \notin FreeUnits /\ b[1] + b[2] \notin FreeUnits
  <2>1. Shape(map, End) /\ FreeUnits = Units(map, End) /\ mapsize + End - 1 = MAPSIZ - 2
    BY DEF MapInv, FreeUnits, Units
  <2>2. Cardinality({u \in FreeUnits : u - 1 \notin FreeUnits}) = End - 1
    BY <2>1, RunsOfUnits
  <2>3. End \in Int
    BY <2>1, Entries
  <2>4. Cardinality({u \in FreeUnits : u - 1 \notin FreeUnits}) = MAPSIZ - 2
    BY <1>3, <2>1, <2>2, <2>3
  <2>5. {b[1] - 1, b[1] + b[2]} \cap FreeUnits = {}
    BY <1>3
  <2>6. \A S : Pool!Cardinality(S) = Cardinality(S)
    BY DEF Cardinality, Pool!Cardinality
  <2>7. Pool!Cardinality({u \in FreeUnits : u - 1 \notin FreeUnits}) = MAPSIZ - 2
    BY <2>4, <2>6
  <2> QED
    BY <1>1, <1>3, <2>5, <2>7 DEF Pool!Free
<1> QED
  BY <1>1, <1>2, <1>3

(* The array implements the set of units: rmalloc() takes the first run    *)
(* that is long enough, and rmfree() loses units only when the array is    *)
(* full.                                                                   *)
THEOREM PoolImplemented == Spec => PoolSpec
<1>1. Init => Pool!Init
  <2> SUFFICES ASSUME Init PROVE Pool!Init
    OBVIOUS
  <2>1. Shape(map, End) /\ FreeUnits = Units(map, End)
    BY InitMap DEF MapInv, FreeUnits, Units
  <2>2. map[1] = Entry(N, 1) /\ 1 \in Index
    BY RmapAssumption DEF Init, Index
  <2>3. End \in Index /\ map[End] = Entry(0, 0)
    BY <2>1, RmapAssumption DEF Shape, ShapeBut, Index
  <2>4. 1 \in 1 .. End - 1
    BY <2>2, <2>3, RmapAssumption DEF Entry, Index
  <2>5. \A u \in 1 .. N : u \in Int /\ In(map, 1, u)
    BY <2>2, RmapAssumption DEF Entry, In
  <2>6. \A u \in 1 .. N : u \in Units(map, End)
    BY <2>1, <2>4, <2>5, UnitsIn
  <2>7. FreeUnits = 1 .. N
    BY <2>1, <2>6, UnitsIn
  <2> QED
    BY <2>7 DEF Init, Pool!Init, Pool!Unit
<1>2. MapInv /\ [Next]_vars => [Pool!Next]_<<FreeUnits, held>>
  <2> SUFFICES ASSUME MapInv, [Next]_vars PROVE [Pool!Next]_<<FreeUnits, held>>
    OBVIOUS
  <2>1. ASSUME NEW n \in Sizes, rmallocFail(n) PROVE UNCHANGED <<FreeUnits, held>>
    BY <2>1 DEF rmallocFail, FreeUnits, End
  <2>2. CASE UNCHANGED vars
    BY <2>2 DEF vars, FreeUnits, End
  <2> QED
    BY <2>1, <2>2, AllocImplements, FreeImplements DEF Next, Pool!Next
<1> QED
  BY <1>1, <1>2, MapCorrect, PTL DEF Spec, PoolSpec, Pool!Spec
=============================================================================
